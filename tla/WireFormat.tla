----------------------------- MODULE WireFormat -----------------------------
(***************************************************************************)
(* The protobuf wire format (app/douyin/protobuf_wire.py) and the frames   *)
(* built from it (app/douyin/envelope.py), as functions on sequences of    *)
(* bytes.  A byte is a digit below Half, or one above it that says another *)
(* follows; the code has Half = 128, ten bytes and 64 bits.  What may      *)
(* raise an error is the set of its results: one, or none.                 *)
(***************************************************************************)
EXTENDS Integers, Sequences, FiniteSetsExt, SequencesExt

CONSTANTS Half,      \* 0x80
          MaxBytes,  \* bytes of a varint
          Modulus,   \* 2^64, added to a negative number
          Fixed64, Fixed32, \* widths of the fixed fields
          MaxFields, \* MAX_FIELDS
          GzipMagic, \* first bytes of gzip data
          Texts,     \* byte sequences that are UTF-8
          GZIP, XGZIP, NONE, IDENTITY \* the names of the encodings, as texts

\* What a digit is worth at a place, counted from 0: Half to that power.
Place[k \in Nat] == IF k = 0 THEN 1 ELSE Half * Place[k - 1]

ASSUME WireAssumption ==
    /\ Half \in Nat /\ Half > 1 /\ MaxBytes \in Nat \ {0} /\ MaxFields \in Nat \ {0}
    /\ Modulus \in Nat /\ Modulus <= Place[MaxBytes] /\ Modulus > Place[MaxBytes - 1]
    /\ Fixed64 \in Nat /\ Fixed32 \in Nat

-----------------------------------------------------------------------------
Byte == 0 .. 2 * Half - 1

\* Where a varint that starts at `offset' may end: at its first byte below Half.
\* Mistake: or with the data.
EndsLeniently(data, offset) ==
    {k \in 0 .. MaxBytes - 1 : /\ offset + k <= Len(data)
                               /\ data[offset + k] < Half \/ offset + k = Len(data)}
Ends(data, offset) ==
    {k \in 0 .. MaxBytes - 1 : offset + k <= Len(data) /\ data[offset + k] < Half}

\* The number with these digits, the lowest first.
Number(digits) ==
    LET upto[k \in 0 .. Len(digits)] ==
            IF k = 0 THEN 0 ELSE upto[k - 1] + digits[k] * Place[k - 1]
    IN  upto[Len(digits)]

\* Truncated or too long is an error.  The value is not cut to 64 bits.
decode_varint(data, offset) ==
    {[value |-> Number([i \in 1 .. k + 1 |-> data[offset + i - 1] % Half]), next |-> offset + k + 1]
        : k \in {j \in Ends(data, offset) : \A i \in Ends(data, offset) : j <= i}}

encode_varint(value) ==
    LET n == IF value < 0 THEN value % Modulus ELSE value
        length == Min({l \in 1 .. MaxBytes + 1 : n < Place[l]})
    IN  [i \in 1 .. length |-> ((n \div Place[i - 1]) % Half) + (IF i < length THEN Half ELSE 0)]

\* The field that starts at `start' and whose key was read.  Its bytes must lie
\* inside the data; other wire types are errors.
Sized(data, start, key, at, size) ==
    {[number |-> key.value \div 8, type |-> key.value % 8, value |-> 0,
      bytes |-> SubSeq(data, at, at + n - 1), start |-> start, end |-> at + n]
        : n \in {m \in {size} : at + m - 1 <= Len(data)}}
FieldWithKey(data, start, key) ==
    CASE key.value < 8 -> {}
      [] key.value >= 8 /\ key.value % 8 = 0 ->
            {[number |-> key.value \div 8, type |-> 0, value |-> v.value, bytes |-> <<>>,
              start |-> start, end |-> v.next] : v \in decode_varint(data, key.next)}
      [] key.value >= 8 /\ key.value % 8 = 1 -> Sized(data, start, key, key.next, Fixed64)
      [] key.value >= 8 /\ key.value % 8 = 5 -> Sized(data, start, key, key.next, Fixed32)
      [] key.value >= 8 /\ key.value % 8 = 2 ->
            UNION {Sized(data, start, key, l.next, l.value) : l \in decode_varint(data, key.next)}
      [] OTHER -> {}
Field(data, start) == UNION {FieldWithKey(data, start, key) : key \in decode_varint(data, start)}

\* Where the next field starts.
Cursor(fields) == IF fields = <<>> THEN 1 ELSE fields[Len(fields)].end
parse_fields(data) ==
    LET after[k \in 0 .. MaxFields] ==
            IF k = 0 THEN {<<>>}
            ELSE UNION {{Append(fields, f) : f \in Field(data, Cursor(fields))} : fields \in after[k - 1]}
    IN  {fields \in UNION {after[k] : k \in 0 .. MaxFields} : Cursor(fields) = Len(data) + 1}

encode_key(number, type) == encode_varint(number * 8 + type)
encode_varint_field(number, value) == encode_key(number, 0) \o encode_varint(value)
encode_bytes_field(number, bytes) == encode_key(number, 2) \o encode_varint(Len(bytes)) \o bytes

repeated(fields, number) ==
    LET upto[k \in 0 .. Len(fields)] ==
            IF k = 0 THEN <<>>
            ELSE IF fields[k].number = number THEN Append(upto[k - 1], fields[k]) ELSE upto[k - 1]
    IN  upto[Len(fields)]
\* The first field of a number decides.
first(fields, number, default) ==
    LET at == {i \in DOMAIN fields : fields[i].number = number}
    IN  IF at = {} THEN default ELSE fields[Min(at)]
first_varint(fields, number, default) == first(fields, number, [value |-> default]).value
first_bytes(fields, number) == first(fields, number, [bytes |-> <<>>]).bytes

\* first_varint, first_bytes and first_text raise when it has another type or
\* is no text.
Well(fields, varints, bytes, texts) ==
    /\ \A n \in varints : first(fields, n, [type |-> 0]).type = 0
    /\ \A n \in bytes \cup texts : first(fields, n, [type |-> 2]).type = 2
    /\ \A n \in texts : first_bytes(fields, n) \in Texts

-----------------------------------------------------------------------------
\* The names of the encodings are texts, and so is no text; what a response
\* begins with, a message or field 5 or 8, is not how gzip data begins; the keys
\* of the fields here fit in a varint, and a frame may have its four fields.
ASSUME FrameAssumption ==
    /\ Texts \subseteq Seq(Byte) /\ {<<>>, GZIP, XGZIP, NONE, IDENTITY} \subseteq Texts
    /\ {GZIP, XGZIP} \cap {<<>>, NONE, IDENTITY} = {}
    /\ GzipMagic \in Seq(Byte) /\ GzipMagic # <<>>
    /\ \A key \in {encode_key(1, 2), encode_key(5, 2), encode_key(8, 0)} : key[1] # GzipMagic[1]
    /\ Place[MaxBytes] > 80 /\ MaxFields >= 4
    /\ Len(GZIP) < Place[MaxBytes] /\ Len(NONE) < Place[MaxBytes]

(* Frames.  A PushFrame carries a Response, gzipped or not; a Response its *)
(* messages.  Decompression is the inverse of gzip.compress here; the      *)
(* limit on its size is beyond a bounded input.                            *)

parse_push_frame(data) ==
    {[log_id |-> first_varint(fields, 2, -1), encoding |-> first_bytes(fields, 6),
      payload |-> first_bytes(fields, 8)]
        : fields \in {f \in parse_fields(data) : Well(f, {2}, {8}, {6, 7})}}

gzip(bytes) == GzipMagic \o bytes
IsGzip(bytes) == IsPrefix(GzipMagic, bytes)

\* GzipFile.read makes nothing of no data; what does not begin as gzip is refused.
gunzip(bytes) == IF bytes = <<>> THEN {<<>>}
                 ELSE {SubSeq(p, Len(GzipMagic) + 1, Len(p)) : p \in {q \in {bytes} : IsGzip(q)}}

\* The magic bytes count as much as the name; an unknown encoding is an error.
decode_push_payload(frame) ==
    CASE frame.encoding \in {GZIP, XGZIP} \/ IsGzip(frame.payload) -> gunzip(frame.payload)
      [] frame.encoding \in {<<>>, NONE, IDENTITY} /\ ~IsGzip(frame.payload) -> {frame.payload}
      [] OTHER -> {}

parse_message(data) ==
    {[method |-> first_bytes(fields, 1), payload |-> first_bytes(fields, 2),
      msg_id |-> first_varint(fields, 3, -1)]
        : fields \in {f \in parse_fields(data) : Well(f, {3}, {2}, {1})}}

\* Fields 1 of a fixed width are taken for messages too.
parse_messages(parts) ==
    {messages \in [DOMAIN parts -> UNION {parse_message(part.bytes) : part \in ToSet(parts)}] :
        \A i \in DOMAIN parts : messages[i] \in parse_message(parts[i].bytes)}
parse_response(data) ==
    UNION {{[messages |-> ms, internal_ext |-> first_bytes(fields, 5),
             need_ack |-> first_varint(fields, 9, 0) # 0] : ms \in parse_messages(repeated(fields, 1))}
        : fields \in {f \in parse_fields(data) :
                         Well(f, {8, 9}, {}, {5}) /\ \A p \in ToSet(repeated(f, 1)) : p.type # 0}}

inspect_frame(data) ==
    UNION {UNION {{[log_id |-> push.log_id, response |-> r] : r \in parse_response(payload)}
                     : payload \in decode_push_payload(push)} : push \in parse_push_frame(data)}

build_message(m) ==
    encode_bytes_field(1, m.method) \o encode_bytes_field(2, m.payload)
        \o (IF m.msg_id = -1 THEN <<>> ELSE encode_varint_field(3, m.msg_id))

build_response(r) ==
    FlattenSeq([i \in DOMAIN r.messages |-> encode_bytes_field(1, build_message(r.messages[i]))])
        \o (IF r.internal_ext = <<>> THEN <<>> ELSE encode_bytes_field(5, r.internal_ext))
        \o encode_varint_field(8, 1)
        \o (IF r.need_ack THEN encode_varint_field(9, 1) ELSE <<>>)

build_push_frame(response, log_id, zip) ==
    encode_varint_field(2, log_id)
        \o encode_bytes_field(6, IF zip THEN GZIP ELSE NONE)
        \o encode_bytes_field(7, <<>>)
        \o encode_bytes_field(8, IF zip THEN gzip(response) ELSE response)

\* Nothing but the log id and the server's own token goes back, and without a
\* token there is no acknowledgement.
build_ack(log_id, internal_ext) ==
    {(IF log_id = -1 THEN <<>> ELSE encode_varint_field(2, log_id)) \o encode_bytes_field(7, ext)
        : ext \in {internal_ext} \ {<<>>}}

-----------------------------------------------------------------------------
\* What a field says, wherever it stands.
Content(fields) == [i \in DOMAIN fields |->
    [number |-> fields[i].number, type |-> fields[i].type, value |-> fields[i].value,
     bytes |-> fields[i].bytes]]
encode(f) == IF f.type = 0 THEN encode_varint_field(f.number, f.value)
             ELSE IF f.type = 2 THEN encode_bytes_field(f.number, f.bytes)
             ELSE encode_key(f.number, f.type) \o f.bytes

\* The fields lie end to end from the first byte to the last; a message cut
\* short is refused unless it was cut between two fields (parse_fields,
\* decode_varint); and written out again the fields say the same.
FieldsTile(data) ==
    \A fields \in parse_fields(data) :
        /\ \A i \in DOMAIN fields : fields[i].start = IF i = 1 THEN 1 ELSE fields[i - 1].end
        /\ data # <<>> => fields # <<>> /\ fields[Len(fields)].end = Len(data) + 1
        /\ \A n \in 0 .. Len(data) - 1 :
              parse_fields(SubSeq(data, 1, n)) =
                 {SubSeq(fields, 1, j - 1) : j \in {k \in DOMAIN fields : fields[k].start = n + 1}}
        /\ \E again \in parse_fields(FlattenSeq([i \in DOMAIN fields |-> encode(fields[i])])) :
              Content(again) = Content(fields)

\* The responses that can be sent: what they hold and become has a length that
\* a varint says, and the fields are no more than a reader takes.
Encodable(bytes) == bytes \in Seq(Byte) /\ Len(bytes) < Place[MaxBytes]
WireMessage == [method : Texts, payload : Seq(Byte), msg_id : Nat \cup {-1}]
MessageFits(m) ==
    /\ m \in WireMessage /\ m.msg_id < Place[MaxBytes]
    /\ Encodable(m.method) /\ Encodable(m.payload) /\ Encodable(build_message(m))
Sendable(r) ==
    /\ r \in [messages : Seq(WireMessage), internal_ext : Texts, need_ack : BOOLEAN]
    /\ \A i \in DOMAIN r.messages : MessageFits(r.messages[i])
    /\ Len(r.messages) + 3 <= MaxFields
    /\ Encodable(r.internal_ext) /\ Encodable(build_response(r)) /\ Encodable(gzip(build_response(r)))

\* What inspect_frame reads in a frame is what build_push_frame put there,
\* gzipped or not.  A response with a token can be acknowledged, and parsing the
\* acknowledgement gives the log id and the token; one without a token cannot.
FrameSurvives(response, log_id, zip) ==
    /\ \A frame \in {build_push_frame(build_response(response), log_id, zip)} :
          inspect_frame(frame) = {[log_id |-> log_id, response |-> response]}
    /\ build_ack(log_id, response.internal_ext) = {} <=> response.internal_ext = <<>>
    /\ \A ack \in build_ack(log_id, response.internal_ext) :
          \E fields \in parse_fields(ack) :
             first_varint(fields, 2, -1) = log_id /\ first_bytes(fields, 7) = response.internal_ext

\* A number comes back, a negative one as its two's complement.
VarintSurvives(n) ==
    \A bytes \in {encode_varint(n)} :
        decode_varint(bytes, 1) = {[value |-> IF n < 0 THEN n + Modulus ELSE n, next |-> Len(bytes) + 1]}
=============================================================================

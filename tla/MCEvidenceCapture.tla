------------------------- MODULE MCEvidenceCapture -------------------------
(* EvidenceCapture with frames that reach every outcome of a capture; the WSS *)
(* probe with its heartbeat; and the wire format of frames, of which `input'   *)
(* says what is decoded.                                                       *)
EXTENDS EvidenceCapture, WireFormat, Probe

CONSTANTS k1, k2

MCKeys == {k1, k2}
Target(size, decodes, key) == [target |-> TRUE, size |-> size, decodes |-> decodes, key |-> key]
Other == [target |-> FALSE, size |-> 1, decodes |-> FALSE, key |-> NULL]
Frame(size, body, messages) == [size |-> size, body |-> body, messages |-> messages]

MCFrames == {Frame(1, "malformed", <<>>), Frame(1, "corrupt", <<>>),
             Frame(3, "sound", <<Other>>),
             Frame(2, "sound", <<Other, Target(1, TRUE, k1)>>),
             Frame(1, "sound", <<Target(1, TRUE, k2), Target(1, FALSE, NULL)>>)}

\* With Half = 16: the keys of fields 0 and 1 in every wire type, lengths, and
\* bytes that do and do not end a varint.
Alphabet == {0, 1, 2, 8, 9, 10, 11, 13, 17, 31}
MCTexts == {<<>>, <<1>>, <<2>>, <<4>>, <<5>>, <<7>>, <<1, 2>>}
MCGzip == <<1>>
MCXGzip == <<4>>
MCNone == <<2>>
MCIdentity == <<5>>
MCGzipMagic == <<3, 31>>

WireMessages == [method : {<<>>, <<7>>}, payload : {<<>>, <<31, 8>>}, msg_id : {-1, 0, 40}]
Responses == [messages : SeqOf(WireMessages, 2), internal_ext : {<<>>, <<1, 2>>}, need_ack : BOOLEAN]

\* Two targets in one frame, acknowledgements, and every way a body can fail.
PMessage(target, decodes) == [target |-> target, decodes |-> decodes]
PFrame(body, messages, need_ack) == [body |-> body, messages |-> messages, need_ack |-> need_ack]
MCProbeFrames == {PFrame("text", <<>>, FALSE), PFrame("malformed", <<>>, FALSE), PFrame("corrupt", <<>>, FALSE),
                  PFrame("sound", <<PMessage(FALSE, FALSE), PMessage(TRUE, TRUE)>>, TRUE),
                  PFrame("sound", <<PMessage(TRUE, FALSE), PMessage(TRUE, TRUE)>>, FALSE)}

\* What is decoded is bytes, the responses can be sent and so can the log ids.
LogIds == {0, 300}
ASSUME InputAssumption ==
    /\ Alphabet \subseteq Byte /\ LogIds \subseteq 0 .. Place[MaxBytes] - 1
    /\ \A r \in Responses : Sendable(r)

VARIABLE input

MCInit ==
    \/ /\ Init /\ ProbeInit /\ input \in {<<"capture">>, <<"probe">>}
       /\ input = <<"capture">> => options = [ack |-> FALSE, heartbeat |-> FALSE]
    \/ /\ Init /\ ProbeInit /\ options = [ack |-> FALSE, heartbeat |-> FALSE]
       /\ \/ \E data \in SeqOf(Alphabet, 4) : input = <<"fields", data>>
          \/ \E n \in -Modulus .. Place[MaxBytes] - 1 : input = <<"varint", n>>
          \/ \E r \in Responses, id \in LogIds, zip \in BOOLEAN : input = <<"frame", r, id, zip>>
MCNext == \/ input[1] = "capture" /\ Next /\ UNCHANGED <<pvars, input>>
          \/ input[1] = "probe" /\ ProbeNext /\ UNCHANGED <<vars, input>>
MCSpec == MCInit /\ [][MCNext]_<<vars, pvars, input>>

\* The wire format says what it is given: messages that are cut short or do not
\* tile are refused, numbers and whole frames come back as they were encoded
\* (parse_fields, encode_varint, inspect_frame and the build_ functions).
WireIsExact ==
    /\ input[1] = "fields" => FieldsTile(input[2])
    /\ input[1] = "varint" => VarintSurvives(input[2])
    /\ input[1] = "frame" => FrameSurvives(input[2], input[3], input[4])
=============================================================================

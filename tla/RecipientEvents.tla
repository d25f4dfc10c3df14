---------------------------- MODULE RecipientEvents ----------------------------
(***************************************************************************)
(* The decoded recommend-recipient message: what                           *)
(* app/douyin/recipient.py makes of one payload of the target method, and  *)
(* the clock readings every event and every session operation carries.     *)
(* A payload is abstracted to the fields the timeline can tell apart.      *)
(***************************************************************************)
EXTENDS Integers

CONSTANTS
  UserIds,    \* recipient_user_id values that name a user
  OpenIds,    \* recipient_user_open_id values that name a user
  MsgIds,     \* message ids, of the common block or of the envelope
  Payloads,   \* the payloads that are delivered
  EnvelopeIds,\* the msg_id values of the envelopes that carry them
  Times,      \* wall-clock readings, received_at_ms and at_ms
  Monos,      \* monotonic-clock readings
  Runtimes,   \* runtime_instance_id values
  BucketMs,   \* width of the time bucket of a hash dedup key
  NULL        \* None in Python, NULL in SQLite

\* "0" is the wire's empty user id.
Payload == [user : UserIds \cup {"0", NULL},
            open : OpenIds \cup {NULL},
            msg  : MsgIds \cup {NULL}]

ASSUME EventsAssumption ==
  /\ Payloads \subseteq Payload
  /\ EnvelopeIds \subseteq MsgIds \cup {NULL}
  /\ Times \subseteq Nat
  /\ Monos \subseteq Nat
  /\ BucketMs \in Nat \ {0}
  /\ NULL \notin Nat

ASSUME NullAssumption ==
  /\ NULL \notin Runtimes
  /\ \A u \in UserIds : <<"uid", u>> # NULL
  /\ \A o \in OpenIds : <<"openid", o>> # NULL

\* A reading of both clocks by one process.
Stamps == [at : Times, mono : Monos, runtime : Runtimes]

Frames == [payload : Payloads, envelope : EnvelopeIds, stamp : Stamps]

RecipientKeys == {<<"uid", u>> : u \in UserIds} \cup {<<"openid", o>> : o \in OpenIds}

canonical_recipient_key(p) ==
  IF p.user \in UserIds THEN <<"uid", p.user>>
  ELSE IF p.open # NULL THEN <<"openid", p.open>>
  ELSE NULL

msg_id(f) == IF f.payload.msg # NULL THEN f.payload.msg ELSE f.envelope

\* Without a message id, equal payloads of one bucket are one event.
dedup_key(f) ==
  IF msg_id(f) # NULL THEN <<"msg", msg_id(f)>>
  ELSE <<"hash", f.payload, f.stamp.at \div BucketMs>>

DedupKeys ==
  {<<"msg", m>> : m \in MsgIds}
    \cup {<<"hash", p, b>> : p \in Payloads, b \in {t \div BucketMs : t \in Times}}

decode_recipient_payload(f) ==
  [recipient_key |-> canonical_recipient_key(f.payload),
   dedup_key     |-> dedup_key(f),
   stamp         |-> f.stamp]

\* What a timeline interval says of the recipient.
Waiting == [status |-> "waiting", reason |-> "waiting_first_event",
            recipient_key |-> NULL]
EmptyRecipient == [status |-> "unknown", reason |-> "empty_recipient",
                   recipient_key |-> NULL]
Disconnected == [status |-> "unknown", reason |-> "im_disconnected",
                 recipient_key |-> NULL]
Active(k) == [status |-> "active", reason |-> "recipient_event_received",
              recipient_key |-> k]
States == {Waiting, EmptyRecipient, Disconnected} \cup {Active(k) : k \in RecipientKeys}

DecodedEvents == {decode_recipient_payload(f) : f \in Frames}

\* What run_fixture (douyin/replay.py) builds of a step normalized_recipient,
\* which gives the fields of a message and a payload hash instead of a payload.
normalized_recipient(p, payload_hash, st) ==
  [recipient_key |-> canonical_recipient_key(p),
   dedup_key     |-> IF p.msg # NULL THEN <<"msg", p.msg>>
                     ELSE <<"hash", payload_hash, st.at \div BucketMs>>,
   stamp         |-> st]

NormalizedEvents ==
  {normalized_recipient(p, h, st) : p \in Payloads, h \in Payloads, st \in Stamps}
=============================================================================

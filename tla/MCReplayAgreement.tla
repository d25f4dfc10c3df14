--------------------------- MODULE MCReplayAgreement ---------------------------
(* ReplayAgreement with small sets of payloads and clock readings.             *)
EXTENDS ReplayAgreement

CONSTANTS u1, m1, ra, rb

PayloadUser  == [user |-> u1, open |-> NULL, msg |-> NULL]
PayloadEmpty == [user |-> "0", open |-> NULL, msg |-> m1]

MCUserIds == {u1}
MCOpenIds == {}
MCMsgIds == {m1}
MCPayloads == {PayloadUser, PayloadEmpty}
MCEnvelopeIds == {NULL}
MCTimes == 0 .. 1
MCMonos == 0 .. 1
MCRuntimes == {ra, rb}
=============================================================================

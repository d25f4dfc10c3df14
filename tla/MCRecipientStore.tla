--------------------------- MODULE MCRecipientStore ----------------------------
(* RecipientStore with small sets of payloads and clock readings. *)
EXTENDS RecipientStoreTimeline

CONSTANTS u1, m1, ra, rb, s1

PayloadUser  == [user |-> u1, open |-> NULL, msg |-> NULL]
PayloadEmpty == [user |-> "0", open |-> NULL, msg |-> NULL]

MCUserIds == {u1}
MCMsgIds == {m1}
MCPayloads == {PayloadUser, PayloadEmpty}
MCEnvelopeIds == {m1, NULL}
MCTimes == 0 .. 1
MCMonos == 0 .. 1
MCRuntimes == {ra, rb}
=============================================================================

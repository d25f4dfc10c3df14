---------------------------- MODULE AtomicWrites ----------------------------
(***************************************************************************)
(* What Database.write promises its callers: a write takes effect as a     *)
(* whole or not at all, one after the other, and the caller who gets an    *)
(* answer gets the true one.                                               *)
(***************************************************************************)
CONSTANTS Ops   \* the writes that are ever asked for

VARIABLES done,     \* the writes in the database, for good
          answer    \* "none", "returned", "raised", or "unknown" to who was
                    \* cancelled or killed meanwhile
avars == <<done, answer>>

Init == done = {} /\ answer = [o \in Ops |-> "none"]

TakeEffect(o) ==
    /\ answer[o] = "none"
    /\ done' = done \cup {o}
    /\ answer' = [answer EXCEPT ![o] = "returned"]
Refuse(o) ==
    /\ answer[o] = "none"
    /\ answer' = [answer EXCEPT ![o] = "raised"]
    /\ UNCHANGED done

\* Callers that go away learn nothing; their writes happen now or never.
GoAway ==
    LET gone == {o \in Ops : answer'[o] # answer[o]} IN
    /\ answer' \in [Ops -> {"none", "returned", "raised", "unknown"}]
    /\ \A o \in gone : answer[o] = "none" /\ answer'[o] = "unknown"
    /\ done \subseteq done' /\ done' \subseteq done \cup gone

Next == GoAway \/ \E o \in Ops : TakeEffect(o) \/ Refuse(o)

Spec == Init /\ [][Next]_avars
=============================================================================

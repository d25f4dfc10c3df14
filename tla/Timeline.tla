------------------------------- MODULE Timeline --------------------------------
(***************************************************************************)
(* What a recipient timeline promises, whatever keeps it: one gapless      *)
(* track of states that only grows at its end, each entry differing from   *)
(* the one before it and starting no earlier, closed once and for all.     *)
(* An entry ends where the next one starts; the last ends at `closed_at'.  *)
(***************************************************************************)
EXTENDS Integers, Sequences

CONSTANTS
  States,     \* the states an entry can hold
  Waiting,    \* the state a timeline starts in and never returns to
  Times       \* wall-clock readings

VARIABLES
  track,      \* sequence of entries, oldest first
  closed,     \* "no", or who closed the timeline: its "owner", or a "restart"
  closed_at   \* when it was closed; 0 while it is open

vars == <<track, closed, closed_at>>

Last == track[Len(track)]

Init == track = <<>> /\ closed = "no" /\ closed_at = 0

Begin(at) ==
  /\ track = <<>>
  /\ track' = <<[state |-> Waiting, from |-> at]>>
  /\ UNCHANGED <<closed, closed_at>>

Switch(state, at) ==
  /\ track # <<>> /\ closed = "no"
  /\ state \notin {Last.state, Waiting}
  /\ at >= Last.from
  /\ track' = Append(track, [state |-> state, from |-> at])
  /\ UNCHANGED <<closed, closed_at>>

Close(at) ==
  /\ track # <<>> /\ closed = "no"
  /\ at >= Last.from
  /\ closed' = "owner" /\ closed_at' = at
  /\ UNCHANGED track

\* A restarted application closes what a dead one left open, at its own
\* reading of the wall clock, which nothing compares with the open entry.
CloseAfterRestart(at) ==
  /\ track # <<>> /\ closed = "no"
  /\ closed' = "restart" /\ closed_at' = at
  /\ UNCHANGED track

Next ==
  \E at \in Times :
    \/ Begin(at) \/ Close(at) \/ CloseAfterRestart(at)
    \/ \E state \in States : Switch(state, at)

Spec == Init /\ [][Next]_vars
=============================================================================

------------------------ MODULE RecipientStoreTimeline -------------------------
(***************************************************************************)
(* The rows of any one session implement Timeline, whatever the order in   *)
(* which frames, transport changes, the end of the session and a recovery  *)
(* reach the database, and whatever the other sessions do meanwhile.       *)
(***************************************************************************)
EXTENDS RecipientStore

CONSTANT Watched   \* the session that is looked at
ASSUME WatchedAssumption == Watched \in SessionIds

Track == [i \in 1 .. Len(intervals[Watched]) |->
            [state |-> intervals[Watched][i].state,
             from  |-> intervals[Watched][i].start.at]]

ClosedBy ==
  IF sessions[Watched].status \notin Terminal THEN "no"
  ELSE IF sessions[Watched].recovered THEN "restart" ELSE "owner"

ClosedAt ==
  IF sessions[Watched].status \in Terminal THEN sessions[Watched].ended_at ELSE 0

T == INSTANCE Timeline WITH
       track <- Track, closed <- ClosedBy, closed_at <- ClosedAt

\* Refinement: what the write transactions of a session do to its rows is a
\* step of Timeline or leaves the timeline as it is.
ImplementsTimeline == T!Spec
=============================================================================

---------------------------- MODULE ReplayAgreement ----------------------------
(***************************************************************************)
(* tools/replay_recipient_fixture_to_db.py: one fixture drives the reducer *)
(* and an empty database, and the two projections are compared.  A fixture *)
(* the reducer refuses is refused as a whole, so only the reducer's        *)
(* accepted steps appear here; the tool follows each of them in the        *)
(* database, or raises because the step is one it does not replay.  The    *)
(* reducer's side is run_fixture of app/douyin/replay.py.  The reducer     *)
(* also works without a database, and goes on after calls it has refused.  *)
(***************************************************************************)
EXTENDS RecipientStore

CONSTANTS
  FixtureSession, FixtureRoom,
  ListLimit   \* rows that list_intervals returns, 500 in the tool

ASSUME FixtureAssumption ==
  FixtureSession \in SessionIds /\ FixtureRoom \in Rooms /\ ListLimit \in Nat \ {0}

VARIABLES
  red_intervals, red_events, red_connected, red_ended,   \* the reducer
  tool,      \* "driving" the database; "raised" at a step it does not replay;
             \* "refused" by the database where the reducer was not; or at its
             \* end, the intervals compared: "agree" or "differ"
  replaying  \* never changes: whether the tool drives both, or the reducer is alone

reducer == <<red_intervals, red_events, red_connected, red_ended>>
allvars == <<vars, reducer, tool, replaying>>

R == INSTANCE RecipientTimelineReducer WITH
       intervals <- red_intervals, events <- red_events,
       connected <- red_connected, ended <- red_ended

Begun == red_intervals # <<>>

ReplayInit == Init /\ R!Init /\ tool = "driving" /\ replaying \in BOOLEAN

\* What each operation of the database asks before it writes, its bounds included.
StartAccepted(s, r) ==
  /\ sessions[s].status = "none"
  /\ \A other \in SessionIds : ~(sessions[other].room = r /\ sessions[other].status = "active")
MayTransit(s, st) == _validate_close_clock(s, st) /\ Len(intervals[s]) < MaxIntervals
FrameAccepted(s, e) ==
  /\ Writable(s)
  /\ IF _existing_event(s, e) THEN events[s][e.dedup_key].duplicate_count < MaxDuplicates
     ELSE /\ Cardinality(DOMAIN events[s]) < MaxEvents
          /\ is_late(s, e) \/ current(s).state = TargetState(e) \/ MayTransit(s, e.stamp)
DisconnectAccepted(s, st) ==
  Writable(s) /\ (current(s).state = Disconnected \/ MayTransit(s, st))
EndAccepted(s, st) == Writable(s) /\ _validate_close_clock(s, st)

\* The database carries out the operation, or raises.
Follow(accepted, Operation) ==
  IF accepted THEN Operation /\ UNCHANGED tool
  ELSE UNCHANGED vars /\ tool' = "refused"

\* The tool raises ReplayError of its own accord.
Raise == UNCHANGED vars /\ tool' = "raised"

\* The steps of run_fixture.  A frame is a step for each event decoded from it;
\* a message that is no event is only counted.
run_started(st) == R!start_session(st)
run_frame(e) == R!apply_event(e)
run_disconnected(st) == R!im_disconnected(st)
run_reconnected == R!im_reconnected
run_ended(st) == R!end_session(st)
run_undecodable == UNCHANGED reducer

session_started(st) ==
  /\ run_started(st)
  /\ Follow(StartAccepted(FixtureSession, FixtureRoom),
            start_session(FixtureSession, FixtureRoom, FALSE, st))

\* The payload as JSON is refused beyond 1 MiB.
frame(e) ==
  /\ run_frame(e)
  /\ \/ Follow(FrameAccepted(FixtureSession, e), apply_event(FixtureSession, e))
     \/ Raise

\* The reducer counts a payload that does not decode and goes on.  A frame
\* without an event is nothing to it either, and an error outside the session.
undecodable == run_undecodable /\ Raise

\* A step type the reducer knows and the database replay does not.
normalized(e) == run_frame(e) /\ Raise

disconnected(st) ==
  /\ Begun
  /\ run_disconnected(st)
  /\ Follow(DisconnectAccepted(FixtureSession, st), im_disconnected(FixtureSession, st))

\* The reducer takes a reconnect before the start, the tool does not.
reconnected ==
  /\ run_reconnected
  /\ IF Begun
     THEN Follow(sessions[FixtureSession].status = "active", im_reconnected(FixtureSession))
     ELSE Raise

session_ended(st) ==
  /\ run_ended(st)
  /\ Follow(EndAccepted(FixtureSession, st), end_session(FixtureSession, st, "ended"))

\* What is compared: the columns, of the first ListLimit rows in the order of
\* started_at_ms and id, which is the order of the rows; nothing is cut off
\* what the reducer says.
Compact(iv) == [state |-> iv.state, started_at |-> iv.start.at, ended_at |-> iv.ended_at]
Projection(rows) == [i \in DOMAIN rows |-> Compact(rows[i])]
list_intervals == SubSeq(intervals[FixtureSession], 1,
                         IF Len(intervals[FixtureSession]) < ListLimit
                         THEN Len(intervals[FixtureSession]) ELSE ListLimit)

fixture_over ==
  /\ UNCHANGED reducer
  /\ IF ~red_ended THEN Raise
     ELSE /\ tool' = IF Projection(list_intervals) = Projection(red_intervals)
                     THEN "agree" ELSE "differ"
          /\ UNCHANGED vars

FixtureStep ==
  \/ \E st \in Stamps : session_started(st) \/ disconnected(st) \/ session_ended(st)
  \/ reconnected \/ undecodable \/ fixture_over
  \/ \E e \in DecodedEvents : frame(e)
  \/ \E e \in NormalizedEvents : normalized(e)

ReplayNext ==
  /\ UNCHANGED replaying
  /\ \/ replaying /\ tool = "driving" /\ FixtureStep
     \/ ~replaying /\ R!Next /\ UNCHANGED <<vars, tool>>

ReplaySpec == ReplayInit /\ [][ReplayNext]_allvars

-----------------------------------------------------------------------------
\* Of the fixtures that the tool replays to the end, the comparison fails for
\* those of more than ListLimit intervals and for no others.  On the way the
\* database refuses nothing that the reducer accepts, and until the tool raises
\* the rows say what the reducer says: every interval, every event with its
\* duplicate count and late mark.
ProjectionsAgree ==
  replaying =>
  /\ tool # "refused"
  /\ tool # "raised" =>
       /\ Projection(intervals[FixtureSession]) = Projection(red_intervals)
       /\ events[FixtureSession] = red_events
  /\ tool \in {"agree", "differ"} =>
       (tool = "agree" <=> Len(red_intervals) <= ListLimit)

\* The reducer implements Timeline, refused calls included (apply_event,
\* im_disconnected, end_session).
ReducerImplementsTimeline == R!ImplementsTimeline
=============================================================================

----------------------- MODULE RecipientTimelineReducer ------------------------
(***************************************************************************)
(* app/douyin/timeline.py: the in-memory reducer that folds the decoded    *)
(* messages and transport changes of one session into intervals.  It is    *)
(* the reference the SQLite projection is compared with.  A call the code  *)
(* refuses by raising before it changed anything is no step; a frame that  *)
(* is refused after it was recorded is one (RefuseFrame).                  *)
(***************************************************************************)
EXTENDS RecipientEvents, Sequences, FiniteSets

CONSTANTS
  MaxIntervals,   \* bound on the intervals of a timeline
  MaxEvents,      \* bound on the canonical events
  MaxDuplicates   \* bound on duplicate_count

VARIABLES
  intervals,   \* list of TimelineInterval
  events,      \* canonical events, by dedup key
  connected,
  ended

vars == <<intervals, events, connected, ended>>

Interval ==
  [state : States, start : Stamps,
   ended_at : Times \cup {NULL}, ended_mono : Monos \cup {NULL},
   ended_runtime : Runtimes \cup {NULL}]

CanonicalEvent ==
  [recipient_key : RecipientKeys \cup {NULL}, received_at : Times,
   duplicate_count : Nat, last_received_at : Times, is_late : BOOLEAN]

current == intervals[Len(intervals)]
HasCurrent == intervals # <<>> /\ current.ended_at = NULL

_open(state, st) ==
  [state |-> state, start |-> st,
   ended_at |-> NULL, ended_mono |-> NULL, ended_runtime |-> NULL]

\* Mistake: only the monotonic clocks are compared.
MonotonicOk(i, st) == st.runtime = i.start.runtime => st.mono >= i.start.mono

\* The clock checks of _transition and _close.
ClockOk(i, st) ==
  /\ st.at >= i.start.at
  /\ st.runtime = i.start.runtime => st.mono >= i.start.mono

_close(i, st) ==
  [i EXCEPT !.ended_at = st.at,
            !.ended_mono = IF st.runtime = i.start.runtime THEN st.mono ELSE NULL,
            !.ended_runtime = st.runtime]

CloseCurrent(st) == [intervals EXCEPT ![Len(intervals)] = _close(current, st)]

_transition(state, st) ==
  /\ ClockOk(current, st)
  /\ Len(intervals) < MaxIntervals
  /\ intervals' = Append(CloseCurrent(st), _open(state, st))

-----------------------------------------------------------------------------
Init ==
  /\ intervals = <<>>
  /\ events = [d \in {} |-> NULL]
  /\ connected = FALSE
  /\ ended = FALSE

start_session(st) ==
  /\ intervals = <<>>
  /\ connected' = TRUE
  /\ intervals' = <<_open(Waiting, st)>>
  /\ UNCHANGED <<events, ended>>

IsDuplicate(e) == e.dedup_key \in DOMAIN events
IsLate(e) == e.stamp.at < current.start.at

TargetState(e) ==
  IF e.recipient_key = NULL THEN EmptyRecipient ELSE Active(e.recipient_key)

CountDuplicate(e) ==
  /\ events[e.dedup_key].duplicate_count < MaxDuplicates
  /\ events' = [events EXCEPT
       ![e.dedup_key].duplicate_count = @ + 1,
       ![e.dedup_key].last_received_at = IF @ >= e.stamp.at THEN @ ELSE e.stamp.at]

RecordEvent(e) ==
  /\ Cardinality(DOMAIN events) < MaxEvents
  /\ events' = [d \in DOMAIN events \cup {e.dedup_key} |->
       IF d \in DOMAIN events THEN events[d]
       ELSE [recipient_key |-> e.recipient_key, received_at |-> e.stamp.at,
             duplicate_count |-> 0, last_received_at |-> e.stamp.at,
             is_late |-> IsLate(e)]]

apply_event(e) ==
  /\ ~ended /\ HasCurrent
  /\ UNCHANGED <<connected, ended>>
  /\ \/ IsDuplicate(e) /\ CountDuplicate(e) /\ UNCHANGED intervals
     \/ /\ ~IsDuplicate(e)
        /\ RecordEvent(e)
        /\ IF IsLate(e) \/ current.state = TargetState(e)
           THEN UNCHANGED intervals
           ELSE _transition(TargetState(e), e.stamp)

\* _transition raises after apply_event stored the event.
RefuseFrame(e) ==
  /\ ~ended /\ HasCurrent
  /\ ~IsDuplicate(e) /\ ~IsLate(e) /\ current.state # TargetState(e)
  /\ ~ClockOk(current, e.stamp)
  /\ RecordEvent(e)
  /\ UNCHANGED <<intervals, connected, ended>>

im_disconnected(st) ==
  /\ ~ended /\ HasCurrent
  /\ connected' = FALSE
  /\ IF current.state = Disconnected THEN UNCHANGED intervals
     ELSE _transition(Disconnected, st)
  /\ UNCHANGED <<events, ended>>

\* connected is cleared before the missing interval or the clocks are noticed.
RefuseDisconnect(st) ==
  /\ ~ended
  /\ HasCurrent => current.state # Disconnected /\ ~ClockOk(current, st)
  /\ connected' = FALSE
  /\ UNCHANGED <<intervals, events, ended>>

im_reconnected ==
  /\ ~ended
  /\ connected' = TRUE
  /\ UNCHANGED <<intervals, events, ended>>

end_session(st) ==
  /\ HasCurrent /\ ClockOk(current, st)
  /\ intervals' = CloseCurrent(st)
  /\ ended' = TRUE
  /\ connected' = FALSE
  /\ UNCHANGED events

Next ==
  \/ \E st \in Stamps :
       start_session(st) \/ im_disconnected(st) \/ RefuseDisconnect(st) \/ end_session(st)
  \/ im_reconnected
  \/ \E e \in DecodedEvents \cup NormalizedEvents : apply_event(e) \/ RefuseFrame(e)

Spec == Init /\ [][Next]_vars

-----------------------------------------------------------------------------
TypeOK ==
  /\ intervals \in Seq(Interval)
  /\ DOMAIN events \subseteq DedupKeys
  /\ \A d \in DOMAIN events : events[d] \in CanonicalEvent
  /\ connected \in BOOLEAN
  /\ ended \in BOOLEAN

\* Only the newest interval of a session that has not ended is open, and
\* every closed one ends where the next one starts.
Gapless ==
  /\ \A i \in DOMAIN intervals :
       intervals[i].ended_at = NULL <=> ~ended /\ i = Len(intervals)
  /\ \A i \in 1 .. Len(intervals) - 1 :
       /\ intervals[i].ended_at = intervals[i + 1].start.at
       /\ intervals[i].ended_runtime = intervals[i + 1].start.runtime

\* An interval that names a recipient, or says there is none, starts at the
\* reception of a canonical event that says so and is not late.
EvidenceForEveryRecipient ==
  \A i \in DOMAIN intervals :
    intervals[i].state \notin {Waiting, Disconnected} =>
      \E d \in DOMAIN events :
        /\ events[d].recipient_key = intervals[i].state.recipient_key
        /\ events[d].received_at = intervals[i].start.at
        /\ ~events[d].is_late

Track == [i \in 1 .. Len(intervals) |->
            [state |-> intervals[i].state, from |-> intervals[i].start.at]]

T == INSTANCE Timeline WITH
       track <- Track,
       closed <- IF ended THEN "owner" ELSE "no",
       closed_at <- IF ended THEN current.ended_at ELSE 0

\* Refinement: the reducer implements Timeline, refused calls included.
ImplementsTimeline == T!Spec
=============================================================================

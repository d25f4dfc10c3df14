---------------------------- MODULE RecipientStore -----------------------------
(***************************************************************************)
(* The SQLite projection of recipient sessions: the tables sessions,       *)
(* recipient_events and recipient_intervals and the write transactions of  *)
(* app/sessions/_write_store.py, with the recovery transaction of          *)
(* app/recording/repository.py that closes sessions of a dead process.     *)
(* Every operation is one BEGIN IMMEDIATE transaction, so it is one        *)
(* action; an operation that raises is rolled back and is no step.         *)
(***************************************************************************)
EXTENDS RecipientEvents, Sequences, FiniteSets

CONSTANTS
  SessionIds,     \* random ids, none used twice
  Rooms,
  MaxIntervals,   \* bound on the intervals of a session
  MaxEvents,      \* bound on the canonical events of a session
  MaxDuplicates   \* bound on duplicate_count

ASSUME StoreBounds == {MaxIntervals, MaxEvents, MaxDuplicates} \subseteq Nat
ASSUME NoSession == NULL \notin Rooms

VARIABLES
  sessions,    \* rows by id; status "none" before the row is inserted
  intervals,   \* rows of recipient_intervals by session, in id order
  events       \* rows of recipient_events by session and dedup key

vars == <<sessions, intervals, events>>

Terminal == {"ended", "interrupted", "failed"}

Session ==
  [status : {"none", "active"} \cup Terminal,
   room : Rooms \cup {NULL},
   recording : BOOLEAN,                \* recording_protocol IS NOT NULL
   started_at : Times \cup {NULL}, ended_at : Times \cup {NULL},
   ended_runtime : Runtimes \cup {NULL},
   recovered : BOOLEAN]                \* end_reason = app_restart_recovery

Interval ==
  [state : States, start : Stamps,
   ended_at : Times \cup {NULL}, ended_mono : Monos \cup {NULL},
   ended_runtime : Runtimes \cup {NULL},
   start_event : DedupKeys \cup {NULL}, end_event : DedupKeys \cup {NULL}]

Event ==
  [recipient_key : RecipientKeys \cup {NULL}, received_at : Times,
   duplicate_count : Nat, last_received_at : Times, is_late : BOOLEAN]

NoRow == [status |-> "none", room |-> NULL, recording |-> FALSE,
          started_at |-> NULL, ended_at |-> NULL, ended_runtime |-> NULL,
          recovered |-> FALSE]

current(s) == intervals[s][Len(intervals[s])]

\* _require_active_session and _require_open_interval.
Writable(s) ==
  /\ sessions[s].status = "active"
  /\ intervals[s] # <<>> /\ current(s).ended_at = NULL

\* Mistake: only the monotonic clocks are compared.
MonotonicOk(s, st) ==
  st.runtime = current(s).start.runtime => st.mono >= current(s).start.mono

_validate_close_clock(s, st) ==
  /\ st.at >= current(s).start.at
  /\ st.runtime = current(s).start.runtime => st.mono >= current(s).start.mono

_open_interval(state, st, event) ==
  [state |-> state, start |-> st,
   ended_at |-> NULL, ended_mono |-> NULL, ended_runtime |-> NULL,
   start_event |-> event, end_event |-> NULL]

\* Mistake: a monotonic reading is stored across processes.
CloseWithMono(s, st, event) ==
  [intervals[s] EXCEPT ![Len(intervals[s])] =
     [@ EXCEPT !.ended_at = st.at, !.ended_mono = st.mono,
               !.ended_runtime = st.runtime, !.end_event = event]]

_close_interval(s, st, event) ==
  LET row == current(s)
      mono == IF st.runtime = row.start.runtime THEN st.mono ELSE NULL
  IN [intervals[s] EXCEPT ![Len(intervals[s])] =
        [row EXCEPT !.ended_at = st.at, !.ended_mono = mono,
                    !.ended_runtime = st.runtime, !.end_event = event]]

-----------------------------------------------------------------------------
Init ==
  /\ sessions = [s \in SessionIds |-> NoRow]
  /\ intervals = [s \in SessionIds |-> <<>>]
  /\ events = [s \in SessionIds |-> [d \in {} |-> NULL]]

\* uq_active_session_per_room refuses a second active session of a room.
start_session(s, r, recording, st) ==
  /\ sessions[s].status = "none"
  /\ \A other \in SessionIds :
       ~(sessions[other].room = r /\ sessions[other].status = "active")
  /\ sessions' = [sessions EXCEPT ![s] =
       [NoRow EXCEPT !.status = "active", !.room = r, !.recording = recording,
                     !.started_at = st.at]]
  /\ intervals' = [intervals EXCEPT ![s] = <<_open_interval(Waiting, st, NULL)>>]
  /\ UNCHANGED events

_transition(s, state, st, event) ==
  /\ _validate_close_clock(s, st)
  /\ Len(intervals[s]) < MaxIntervals
  /\ intervals' = [intervals EXCEPT ![s] =
       Append(_close_interval(s, st, event), _open_interval(state, st, event))]

_existing_event(s, e) == e.dedup_key \in DOMAIN events[s]
is_late(s, e) == e.stamp.at < current(s).start.at

TargetState(e) ==
  IF e.recipient_key = NULL THEN EmptyRecipient ELSE Active(e.recipient_key)

\* Mistake: last_received_at is overwritten by an older duplicate.
CountLatest(s, e) ==
  /\ events[s][e.dedup_key].duplicate_count < MaxDuplicates
  /\ events' = [events EXCEPT ![s][e.dedup_key].duplicate_count = @ + 1,
                              ![s][e.dedup_key].last_received_at = e.stamp.at]

CountDuplicate(s, e) ==
  /\ events[s][e.dedup_key].duplicate_count < MaxDuplicates
  /\ events' = [events EXCEPT
       ![s][e.dedup_key].duplicate_count = @ + 1,
       ![s][e.dedup_key].last_received_at = IF @ >= e.stamp.at THEN @ ELSE e.stamp.at]

_insert_event(s, e) ==
  /\ Cardinality(DOMAIN events[s]) < MaxEvents
  /\ events' = [events EXCEPT ![s] =
       [d \in DOMAIN @ \cup {e.dedup_key} |->
          IF d \in DOMAIN @ THEN @[d]
          ELSE [recipient_key |-> e.recipient_key, received_at |-> e.stamp.at,
                duplicate_count |-> 0, last_received_at |-> e.stamp.at,
                is_late |-> is_late(s, e)]]]

apply_event(s, e) ==
  /\ Writable(s)
  /\ UNCHANGED sessions
  /\ \/ _existing_event(s, e) /\ CountDuplicate(s, e) /\ UNCHANGED intervals
     \/ /\ ~_existing_event(s, e)
        /\ _insert_event(s, e)
        /\ IF is_late(s, e) \/ current(s).state = TargetState(e)
           THEN UNCHANGED intervals
           ELSE _transition(s, TargetState(e), e.stamp, e.dedup_key)

im_disconnected(s, st) ==
  /\ Writable(s)
  /\ IF current(s).state = Disconnected THEN UNCHANGED intervals
     ELSE _transition(s, Disconnected, st, NULL)
  /\ UNCHANGED <<sessions, events>>

\* A reconnect is checked and changes nothing.
im_reconnected(s) ==
  /\ sessions[s].status = "active"
  /\ UNCHANGED vars

end_session(s, st, final_status) ==
  /\ Writable(s)
  /\ _validate_close_clock(s, st)
  /\ intervals' = [intervals EXCEPT ![s] = _close_interval(s, st, NULL)]
  /\ sessions' = [sessions EXCEPT ![s].status = final_status,
                                  ![s].ended_at = st.at,
                                  ![s].ended_runtime = st.runtime]
  /\ UNCHANGED events

\* Mistake: recovery does not ask whether a session is still active.
EveryRecording == {s \in SessionIds : sessions[s].status # "none" /\ sessions[s].recording}

\* The recording sessions a dead process left active, all in one transaction.
Abandoned == {s \in SessionIds : sessions[s].status = "active" /\ sessions[s].recording}

\* Mistake: recovery forgets the open intervals.
RecoverSessionsOnly(runtime, at) ==
  /\ Abandoned # {}
  /\ sessions' = [s \in SessionIds |->
       IF s \in Abandoned
       THEN [sessions[s] EXCEPT !.status = "interrupted", !.ended_at = at,
                                !.ended_runtime = runtime, !.recovered = TRUE]
       ELSE sessions[s]]
  /\ UNCHANGED <<intervals, events>>

recover_interrupted(runtime, at) ==
  /\ Abandoned # {}
  /\ intervals' = [s \in SessionIds |->
       IF s \in Abandoned
       THEN [i \in DOMAIN intervals[s] |->
               IF intervals[s][i].ended_at = NULL
               THEN [intervals[s][i] EXCEPT !.ended_at = at, !.ended_mono = NULL,
                                            !.ended_runtime = runtime]
               ELSE intervals[s][i]]
       ELSE intervals[s]]
  /\ sessions' = [s \in SessionIds |->
       IF s \in Abandoned
       THEN [sessions[s] EXCEPT !.status = "interrupted", !.ended_at = at,
                                !.ended_runtime = runtime, !.recovered = TRUE]
       ELSE sessions[s]]
  /\ UNCHANGED events

Next ==
  \/ \E s \in SessionIds, st \in Stamps :
       \/ \E r \in Rooms, recording \in BOOLEAN : start_session(s, r, recording, st)
       \/ im_disconnected(s, st)
       \/ im_reconnected(s)
       \/ \E final_status \in Terminal : end_session(s, st, final_status)
  \/ \E s \in SessionIds, e \in DecodedEvents : apply_event(s, e)
  \/ \E runtime \in Runtimes, at \in Times : recover_interrupted(runtime, at)

Spec == Init /\ [][Next]_vars

-----------------------------------------------------------------------------
TypeOK ==
  /\ sessions \in [SessionIds -> Session]
  /\ intervals \in [SessionIds -> Seq(Interval)]
  /\ events = [s \in SessionIds |-> events[s]]
  /\ \A s \in SessionIds :
       /\ DOMAIN events[s] \subseteq DedupKeys
       /\ events[s] \in [DOMAIN events[s] -> Event]

\* A session that is active has exactly one open interval, its newest; any
\* other session has none (uq_open_interval_per_session only says "at most
\* one").  This is what _require_open_interval relies on.
OpenIffActive ==
  \A s \in SessionIds :
    /\ \A i \in DOMAIN intervals[s] :
         intervals[s][i].ended_at = NULL
           <=> sessions[s].status = "active" /\ i = Len(intervals[s])
    /\ sessions[s].status = "none" <=> intervals[s] = <<>>

\* The closing and opening halves of _transition_from_event and
\* im_disconnected agree: each interval ends when, and because of the event
\* by which, the next one starts, and the recipient state differs.
EndsMeetStarts ==
  \A s \in SessionIds : \A i \in 1 .. Len(intervals[s]) - 1 :
    LET a == intervals[s][i]
        b == intervals[s][i + 1]
    IN /\ a.ended_at = b.start.at
       /\ a.end_event = b.start_event
       /\ a.ended_runtime = b.start.runtime
       /\ a.state # b.state

\* A recipient is shown, or known to be empty, only on evidence: the interval
\* was started by a stored event of that very recipient, received at its
\* start and not late.  Neither a reconnect nor a duplicate restores one, so
\* no two intervals share their evidence.
EvidenceForEveryRecipient ==
  \A s \in SessionIds :
    /\ \A i \in DOMAIN intervals[s] :
         LET iv == intervals[s][i]
         IN IF iv.state \in {Waiting, Disconnected} THEN iv.start_event = NULL
            ELSE /\ iv.start_event \in DOMAIN events[s]
                 /\ LET ev == events[s][iv.start_event]
                    IN /\ ev.recipient_key = iv.state.recipient_key
                       /\ ev.received_at = iv.start.at
                       /\ ~ev.is_late
    /\ \A i, j \in DOMAIN intervals[s] :
         /\ intervals[s][i].start_event = intervals[s][j].start_event
         /\ intervals[s][i].start_event # NULL
         => i = j

\* The unique index on active sessions makes a room's active session unique.
OneActivePerRoom ==
  \A s, t \in SessionIds :
    /\ sessions[s].status = "active" /\ sessions[t].status = "active"
    /\ sessions[s].room = sessions[t].room
    => s = t

\* Both clocks run forward inside an interval as far as the code compares
\* them: the monotonic clock only when one process opened and closed it, the
\* wall clock unless restart recovery closed the interval.
ClocksRunForward ==
  \A s \in SessionIds : \A i \in DOMAIN intervals[s] :
    LET iv == intervals[s][i]
    IN /\ iv.ended_mono # NULL =>
            iv.ended_runtime = iv.start.runtime /\ iv.ended_mono >= iv.start.mono
       /\ iv.ended_at # NULL =>
            \/ iv.ended_at >= iv.start.at
            \/ sessions[s].recovered /\ i = Len(intervals[s])

\* History is settled: no operation rewrites a closed interval, a finished
\* session, or what was stored of an event when it was first received.
SettledHistory ==
  [][\A s \in SessionIds :
       /\ sessions[s].status \in Terminal => sessions'[s] = sessions[s]
       /\ \A i \in DOMAIN intervals[s] :
            /\ i \in DOMAIN intervals'[s]
            /\ intervals[s][i].ended_at # NULL => intervals'[s][i] = intervals[s][i]
            /\ intervals'[s][i].state = intervals[s][i].state
            /\ intervals'[s][i].start = intervals[s][i].start
       /\ \A d \in DOMAIN events[s] :
            /\ d \in DOMAIN events'[s]
            /\ events'[s][d].recipient_key = events[s][d].recipient_key
            /\ events'[s][d].received_at = events[s][d].received_at
            /\ events'[s][d].is_late = events[s][d].is_late]_vars
=============================================================================

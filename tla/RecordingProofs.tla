---------------------------- MODULE RecordingProofs ----------------------------
(***************************************************************************)
(* The recording service works on the recipient tables through the         *)
(* transactions of the store only.  So every theorem about the store is    *)
(* one about the service, whatever starts, stops, exits, cancelled tasks,  *)
(* crashes and restarts do to each other.  Then who owns which recording,  *)
(* what its row says of its end, and who is there to end it.               *)
(***************************************************************************)
EXTENDS Recording, TimelineProofs

\* The awaits at which a task already has its session.
HasSession ==
  {"s_spawn", "p_stop", "p_terminate", "p_kill", "w_wait", "f_lock",
   "s_fail", "s_fail_record"} \cup Finalizing

Pcs == {"idle", "s_lock", "s_check", "p_lock"} \cup HasSession

TaskRow == [pc : Pcs, room : Rooms \cup {NULL}, session : SessionIds \cup {NULL}]

\* A task that is under way knows its room, and its session once it has one.
Placed ==
  \A t \in Tasks :
    /\ task[t].pc # "idle" => task[t].room \in Rooms
    /\ task[t].pc \in HasSession => task[t].session \in SessionIds

\* The memory of the service and the world around it keep their types.
RInv ==
  /\ now \in Times /\ mode \in {"running", "closing", "down"} /\ faults \subseteq Faults
  /\ runtime \in runtime_instances /\ runtime_instances \subseteq Runtimes
  /\ active \in [Rooms -> SessionIds \cup {NULL}]
  /\ recording \in [SessionIds -> [stop_reason : Reasons \cup {NULL}, finalized : BOOLEAN]]
  /\ process \in [SessionIds -> {"none"} \cup Alive \cup Exited]
  /\ room_lock \in [Rooms -> Tasks \cup {NULL}]
  /\ finalize_lock \in [SessionIds -> Tasks \cup {NULL}]
  /\ task \in [Tasks -> TaskRow]
  /\ Placed

\* A task is given a row that says where it is.
LEMMA RowTyped ==
  ASSUME RInv, NEW t \in Tasks, NEW row \in TaskRow,
         task' = [task EXCEPT ![t] = row],
         row.pc # "idle" => row.room \in Rooms,
         row.pc \in HasSession => row.session \in SessionIds
  PROVE  task' \in [Tasks -> TaskRow] /\ Placed'
BY DEF RInv, Placed

\* A task that has returned is at no await.
LEMMA ReturnTyped ==
  ASSUME RInv, NEW t \in Tasks, Return(t)
  PROVE  task' \in [Tasks -> TaskRow] /\ Placed'
BY SMT DEF RInv, Return, TaskRow, Placed, Idle, Pcs, HasSession, Finalizing

\* A task that goes on keeps its room and session.
LEMMA GotoTyped ==
  ASSUME RInv, NEW t \in Tasks, NEW pc \in Pcs, Goto(t, pc),
         pc # "idle" => task[t].room \in Rooms,
         pc \in HasSession => task[t].session \in SessionIds
  PROVE  task' \in [Tasks -> TaskRow] /\ Placed'
BY SMT DEF RInv, Goto, TaskRow, Placed

-----------------------------------------------------------------------------
(* RInv is kept: one lemma for each kind of step. *)

\* start_recording, from its lock to its return.
LEMMA StartTyped ==
  ASSUME RInv, NEW c \in Callers, StartStep(c)
  PROVE  RInv'
<1> c \in Tasks
  BY DEF Tasks
<1> USE DEF RInv, world, service, vars
<1>1. CASE start_locked(c)
  <2>1. task[c].room \in Rooms
    BY <1>1 DEF start_locked, At, Placed
  <2>2. task' \in [Tasks -> TaskRow] /\ Placed'
    BY <1>1, <2>1, ReturnTyped, GotoTyped DEF start_locked, At, Pcs, HasSession, Finalizing
  <2>3. QED
    BY <1>1, <2>1, <2>2 DEF start_locked, Acquire
<1>2. CASE start_refused(c)
  BY <1>2, ReturnTyped DEF start_refused, At, Placed, Release
<1>3. CASE \E s \in SessionIds : start_session_committed(c, s)
  <2>1. PICK s \in SessionIds : start_session_committed(c, s)
    BY <1>3
  <2>2. task[c].room \in Rooms /\ task[c] \in TaskRow
    BY <2>1 DEF start_session_committed, At, Placed
  <2> DEFINE row(pc) == [task[c] EXCEPT !.pc = pc, !.session = s]
  <2>3. \A pc \in Pcs : row(pc) \in TaskRow
    BY <2>2 DEF TaskRow
  <2>4. \A pc \in Pcs : row(pc).room = task[c].room /\ row(pc).session = s
    BY <2>2 DEF TaskRow
  <2>5. {"s_spawn", "s_fail"} \subseteq Pcs
    BY DEF Pcs, HasSession
  <2>6. \E pc \in {"s_spawn", "s_fail"} : task' = [task EXCEPT ![c] = row(pc)]
    BY <2>1 DEF start_session_committed
  <2>7. task' \in [Tasks -> TaskRow] /\ Placed'
    <3> HIDE DEF row
    <3>1. QED
      BY <2>2, <2>3, <2>4, <2>5, <2>6, RowTyped
  <2>8. active' \in [Rooms -> SessionIds \cup {NULL}]
    BY <2>1, <2>2 DEF start_session_committed
  <2>9. QED
    BY <2>1, <2>7, <2>8 DEF start_session_committed
<1>4. CASE supervisor_started(c)
  BY <1>4 DEF supervisor_started, At, Placed, TaskRow, Pcs, HasSession, Finalizing,
              Idle, Tasks, Release, Alive
<1>5. CASE supervisor_not_started(c)
  <2>1. task[c].room \in Rooms /\ task[c].session \in SessionIds
    BY <1>5 DEF supervisor_not_started, At, Placed, HasSession
  <2>2. task' \in [Tasks -> TaskRow] /\ Placed'
    BY <1>5, <2>1, GotoTyped DEF supervisor_not_started, Pcs, HasSession
  <2>3. QED
    BY <1>5, <2>1, <2>2 DEF supervisor_not_started
<1>6. CASE _fail_started_session(c)
  <2>1. task[c].room \in Rooms /\ task[c].session \in SessionIds
    BY <1>6 DEF _fail_started_session, At, Placed, HasSession
  <2>2. task' \in [Tasks -> TaskRow] /\ Placed'
    BY <1>6, <2>1, GotoTyped DEF _fail_started_session, Pcs, HasSession
  <2>3. QED
    BY <1>6, <2>2 DEF _fail_started_session
<1>7. CASE fail_recorded(c)
  BY <1>7, ReturnTyped DEF fail_recorded, Release, At, Placed
<1>8. QED
  BY <1>1, <1>2, <1>3, <1>4, <1>5, <1>6, <1>7 DEF StartStep

\* stop_recording, from its lock to the exit of the process.
LEMMA StopTyped ==
  ASSUME RInv, NEW t \in Tasks, StopStep(t)
  PROVE  RInv'
<1> USE DEF RInv, world, service, vars
<1>1. CASE stop_locked(t)
  <2> DEFINE r == task[t].room
             s == active[r]
  <2>1. r \in Rooms
    BY <1>1 DEF stop_locked, At, Placed
  <2>2. CASE s = NULL \/ recording[s].finalized
    BY <1>1, <2>2, ReturnTyped DEF stop_locked
  <2>3. CASE ~(s = NULL \/ recording[s].finalized)
    <3>1. s \in SessionIds
      BY <2>1, <2>3
    <3>2. recording' \in [SessionIds -> [stop_reason : Reasons \cup {NULL}, finalized : BOOLEAN]]
      BY <1>1, <2>3, <3>1 DEF stop_locked, Reasons
    <3>3. CASE process[s] = "none"
      BY <1>1, <2>3, <3>2, <3>3, ReturnTyped DEF stop_locked
    <3>4. CASE process[s] # "none"
      <4> DEFINE row == [task[t] EXCEPT !.pc = "p_stop", !.session = s]
      <4>1. row \in TaskRow /\ row.room = r /\ row.session = s
        BY <3>1 DEF TaskRow, Pcs, HasSession
      <4>2. task' = [task EXCEPT ![t] = row]
        BY <1>1, <2>3, <3>4 DEF stop_locked
      <4>3. task' \in [Tasks -> TaskRow] /\ Placed'
        <5> HIDE DEF row
        <5>1. QED
          BY <2>1, <3>1, <4>1, <4>2, RowTyped
      <4>4. QED
        BY <1>1, <3>2, <4>3 DEF stop_locked
    <3>5. QED
      BY <3>3, <3>4
  <2>4. QED
    BY <2>2, <2>3
<1>2. CASE stop_timeout(t)
  <2>1. task[t].room \in Rooms /\ task[t].session \in SessionIds
    BY <1>2 DEF stop_timeout, At, Placed, HasSession
  <2>2. task' \in [Tasks -> TaskRow] /\ Placed'
    BY <1>2, <2>1, GotoTyped DEF stop_timeout, Pcs, HasSession
  <2>3. QED
    BY <1>2, <2>1, <2>2 DEF stop_timeout, Alive
<1>3. CASE stop_exited(t)
  <2>1. task[t].room \in Rooms /\ task[t].session \in SessionIds
    BY <1>3 DEF stop_exited, At, Placed, HasSession
  <2>2. task' \in [Tasks -> TaskRow] /\ Placed'
    BY <1>3, <2>1, GotoTyped, ReturnTyped DEF stop_exited, Pcs, HasSession
  <2>3. QED
    BY <1>3, <2>2 DEF stop_exited
<1>4. QED
  BY <1>1, <1>2, <1>3 DEF StopStep

\* _finalize, whoever runs it.
LEMMA FinalizeTyped ==
  ASSUME RInv, NEW t \in Tasks, FinalizeStep(t)
  PROVE  RInv'
<1> USE DEF RInv, world, service, vars
<1>1. task[t].room \in Rooms /\ task[t].session \in SessionIds
  BY DEF FinalizeStep, finalize_locked, _close_recipient_session, finalize_recorded,
         finalize_popped, At, Placed, HasSession, Finalizing
<1>2. {"f_end", "f_record", "f_pop"} \subseteq Pcs
  BY DEF Pcs, HasSession, Finalizing
<1>3. CASE finalize_locked(t)
  <2>1. task' \in [Tasks -> TaskRow] /\ Placed'
    BY <1>1, <1>2, <1>3, GotoTyped, ReturnTyped DEF finalize_locked
  <2> DEFINE s == task[t].session
             row == [recording[s] EXCEPT !.finalized = TRUE]
  <2>2. recording' \in [SessionIds -> [stop_reason : Reasons \cup {NULL}, finalized : BOOLEAN]]
    <3>1. row \in [stop_reason : Reasons \cup {NULL}, finalized : BOOLEAN]
      BY <1>1
    <3>2. recording' = recording \/ recording' = [recording EXCEPT ![s] = row]
      BY <1>3 DEF finalize_locked
    <3> HIDE DEF row
    <3>3. QED
      BY <3>1, <3>2
  <2>3. finalize_lock' \in [SessionIds -> Tasks \cup {NULL}]
    BY <1>1, <1>3 DEF finalize_locked
  <2>4. QED
    BY <1>3, <2>1, <2>2, <2>3 DEF finalize_locked
<1>4. CASE _close_recipient_session(t)
  <2>1. task' \in [Tasks -> TaskRow] /\ Placed'
    BY <1>1, <1>2, <1>4, GotoTyped DEF _close_recipient_session
  <2>2. QED
    BY <1>4, <2>1 DEF _close_recipient_session
<1>5. CASE finalize_recorded(t)
  <2>1. task' \in [Tasks -> TaskRow] /\ Placed'
    BY <1>1, <1>2, <1>5, GotoTyped DEF finalize_recorded
  <2>2. QED
    BY <1>5, <2>1 DEF finalize_recorded
<1>6. CASE finalize_popped(t)
  <2>1. task' \in [Tasks -> TaskRow] /\ Placed'
    BY <1>6, ReturnTyped DEF finalize_popped
  <2>2. QED
    BY <1>1, <1>6, <2>1 DEF finalize_popped
<1>7. QED
  BY <1>3, <1>4, <1>5, <1>6 DEF FinalizeStep

\* The exit that the wait task awaits, and a task that is cancelled.
LEMMA WaitTyped ==
  ASSUME RInv, NEW t \in Tasks,
         (t \in SessionIds /\ _wait_for_exit(t)) \/ abandon(t)
  PROVE  RInv'
<1> USE DEF RInv, world, service, vars
<1>1. CASE t \in SessionIds /\ _wait_for_exit(t)
  <2>1. task[t].room \in Rooms /\ task[t].session \in SessionIds
    BY <1>1 DEF _wait_for_exit, At, Placed, HasSession
  <2>2. task' \in [Tasks -> TaskRow] /\ Placed'
    BY <1>1, <2>1, GotoTyped DEF _wait_for_exit, Pcs, HasSession
  <2>3. QED
    BY <1>1, <2>2 DEF _wait_for_exit
<1>2. CASE abandon(t)
  <2>1. task' \in [Tasks -> TaskRow] /\ Placed'
    BY <1>2, ReturnTyped DEF abandon
  <2>2. room_lock' \in [Rooms -> Tasks \cup {NULL}]
    BY <1>2 DEF abandon, Release
  <2>3. finalize_lock' \in [SessionIds -> Tasks \cup {NULL}]
    BY <1>2 DEF abandon
  <2>4. QED
    BY <1>2, <2>1, <2>2, <2>3 DEF abandon
<1>3. QED
  BY <1>1, <1>2

\* The calls that begin, the life of the application, and the environment.
LEMMA WorldTyped ==
  ASSUME RInv,
         \/ \E c \in Callers, r \in Rooms : call_start_recording(c, r) \/ call_stop_recording(c, r)
         \/ close \/ closed \/ crash
         \/ \E instance \in Runtimes : restart(instance)
         \/ \E s \in SessionIds : process_exits(s)
         \/ \E at \in Times : clock_moves(at)
  PROVE  RInv'
<1> USE DEF RInv, world, service, vars
<1>1. CASE \E c \in Callers, r \in Rooms : call_start_recording(c, r) \/ call_stop_recording(c, r)
  <2>1. PICK c \in Callers, r \in Rooms, pc \in {"s_lock", "p_lock"} :
               task' = [task EXCEPT ![c] = [pc |-> pc, room |-> r, session |-> NULL]]
    BY <1>1 DEF call_start_recording, call_stop_recording
  <2> DEFINE row == [pc |-> pc, room |-> r, session |-> NULL]
  <2>2. row \in TaskRow /\ row.room \in Rooms /\ row.pc \notin HasSession
    BY DEF TaskRow, Pcs, HasSession, Finalizing
  <2>3. task' \in [Tasks -> TaskRow] /\ Placed'
    <3> HIDE DEF row
    <3>1. c \in Tasks /\ task' = [task EXCEPT ![c] = row]
      BY <2>1 DEF Tasks, row
    <3>2. QED
      BY <2>2, <3>1, RowTyped
  <2>4. QED
    BY <1>1, <2>3 DEF call_start_recording, call_stop_recording
<1>2. CASE close
  BY <1>2 DEF close, Placed, TaskRow, Pcs, HasSession, Finalizing
<1>3. CASE closed \/ crash
  <2>1. MemoryLost
    BY <1>3 DEF closed, crash
  <2>2. Idle \in TaskRow /\ Idle.pc = "idle" /\ "idle" \notin HasSession
    BY DEF Idle, TaskRow, Pcs, HasSession, Finalizing
  <2>3. task' \in [Tasks -> TaskRow] /\ Placed'
    BY <2>1, <2>2 DEF MemoryLost, Placed
  <2>4. Fresh \in [stop_reason : Reasons \cup {NULL}, finalized : BOOLEAN]
    BY DEF Fresh
  <2>5. QED
    BY <2>1, <2>3, <2>4 DEF MemoryLost
<1>4. CASE \E instance \in Runtimes : restart(instance)
  BY <1>4 DEF restart, Placed
<1>5. CASE \E s \in SessionIds : process_exits(s)
  BY <1>5 DEF process_exits, Placed
<1>6. CASE \E at \in Times : clock_moves(at)
  BY <1>6 DEF clock_moves, Placed
<1>7. QED
  BY <1>1, <1>2, <1>3, <1>4, <1>5, <1>6

\* Every step of the service keeps the types.
LEMMA RecordingStepTyped == RInv /\ RecordingNext => RInv'
<1> SUFFICES ASSUME RInv, RecordingNext PROVE RInv'
  OBVIOUS
<1>1. CASE \E t \in Tasks : TaskStep(t) \/ abandon(t)
  BY <1>1, StartTyped, StopTyped, FinalizeTyped, WaitTyped DEF TaskStep
<1>2. CASE ~\E t \in Tasks : TaskStep(t) \/ abandon(t)
  BY <1>2, WorldTyped DEF RecordingNext
<1>3. QED
  BY <1>1, <1>2

-----------------------------------------------------------------------------
(* Every step of the service is a transaction of the store, or none. *)

\* What this process reads off its clocks is a reading of the store's.
LEMMA StampTyped == RInv => Stamp \in Stamps
BY RecordingAssumption DEF RInv, Stamp, Stamps

\* The verdict over a finished recording is a status a session ends in.
LEMMA VerdictTerminal ==
  ASSUME NEW s \in SessionIds
  PROVE  Verdict(s)[1] \in Terminal
BY DEF Verdict, Terminal

\* What a step of the service does to the tables.
ServiceStep ==
  \/ /\ UNCHANGED runtime /\ mode # "down"
     /\ \/ \E s \in SessionIds, r \in Rooms : start_session(s, r, TRUE, Stamp)
        \/ \E s \in SessionIds, final_status \in Terminal : end_session(s, Stamp, final_status)
  \/ \E instance \in Runtimes : restart(instance)
  \/ UNCHANGED <<vars, runtime>> /\ (mode' = mode \/ mode' = "down" \/ mode # "down")

\* Ending a session, refused or not.
LEMMA EndIsOne ==
  ASSUME RInv, NEW s \in SessionIds, NEW final_status \in Terminal, NEW end_reason,
         end_session_or_not(s, final_status, end_reason), UNCHANGED <<runtime, mode>>,
         mode # "down"
  PROVE  ServiceStep
BY DEF end_session_or_not, ServiceStep

\* Each step of the service inserts a row, ends a session, recovers or leaves
\* the tables as they are.
LEMMA StepKinds ==
  ASSUME RInv, RecordingNext
  PROVE  ServiceStep
<1>1. ASSUME NEW c \in Callers, StartStep(c) PROVE ServiceStep
  <2> c \in Tasks
    BY DEF Tasks
  <2>1. CASE \E s \in SessionIds : start_session_committed(c, s)
    <3>1. PICK s \in SessionIds : start_session_committed(c, s)
      BY <2>1
    <3>2. task[c].room \in Rooms
      BY <3>1 DEF start_session_committed, At, RInv, Placed
    <3>3. QED
      BY <3>1, <3>2 DEF start_session_committed, ServiceStep, At, world
  <2>2. CASE _fail_started_session(c)
    <3>1. task[c].session \in SessionIds
      BY <2>2 DEF _fail_started_session, At, RInv, Placed, HasSession
    <3>2. "failed" \in Terminal
      BY DEF Terminal
    <3>3. QED
      BY <2>2, <3>1, <3>2, EndIsOne DEF _fail_started_session, At, world
  <2>3. CASE ~(\E s \in SessionIds : start_session_committed(c, s)) /\ ~_fail_started_session(c)
    BY <1>1, <2>3 DEF StartStep, start_locked, start_refused, supervisor_started,
                      supervisor_not_started, fail_recorded, ServiceStep, world
  <2>4. QED
    BY <2>1, <2>2, <2>3
<1>2. ASSUME NEW t \in Tasks, StopStep(t) PROVE ServiceStep
  BY <1>2 DEF StopStep, stop_locked, stop_timeout, stop_exited, ServiceStep, world
<1>3. ASSUME NEW t \in Tasks, FinalizeStep(t) PROVE ServiceStep
  <2>1. CASE _close_recipient_session(t)
    <3>1. task[t].session \in SessionIds
      BY <2>1 DEF _close_recipient_session, At, RInv, Placed, HasSession, Finalizing
    <3>2. QED
      BY <2>1, <3>1, VerdictTerminal, EndIsOne DEF _close_recipient_session, At, world
  <2>2. CASE ~_close_recipient_session(t)
    BY <1>3, <2>2 DEF FinalizeStep, finalize_locked, finalize_recorded, finalize_popped,
                      ServiceStep, world
  <2>3. QED
    BY <2>1, <2>2
<1>4. ASSUME NEW t \in Tasks, abandon(t) PROVE ServiceStep
  <2>1. CASE UNCHANGED vars
    BY <1>4, <2>1 DEF abandon, ServiceStep, world
  <2>2. CASE ~UNCHANGED vars
    <3>1. task[t].pc = "s_check"
      BY <1>4, <2>2 DEF abandon
    <3>2. task[t].room \in Rooms
      BY <3>1 DEF RInv, Placed
    <3>3. QED
      BY <1>4, <2>2, <3>2 DEF abandon, ServiceStep, world
  <2>3. QED
    BY <2>1, <2>2
<1>5. CASE \E t \in Tasks : TaskStep(t) \/ abandon(t)
  BY <1>1, <1>2, <1>3, <1>4, <1>5 DEF TaskStep, _wait_for_exit, ServiceStep, world
<1>6. CASE \E instance \in Runtimes : restart(instance)
  BY <1>6 DEF ServiceStep
<1>7. CASE ~(\E t \in Tasks : TaskStep(t) \/ abandon(t))
             /\ ~(\E instance \in Runtimes : restart(instance))
  BY <1>7 DEF RecordingNext, call_start_recording, call_stop_recording, close, closed,
              crash, MemoryLost, process_exits, clock_moves, ServiceStep, world
<1>8. QED
  BY <1>5, <1>6, <1>7

\* Each of these is a transaction of the store, or none.
LEMMA StepIsStores == RInv /\ RecordingNext => Next \/ UNCHANGED vars
<1> SUFFICES ASSUME RInv, ServiceStep PROVE Next \/ UNCHANGED vars
  BY StepKinds
<1>1. Stamp \in Stamps /\ now \in Times
  BY StampTyped DEF RInv
<1>2. CASE \E instance \in Runtimes : restart(instance)
  BY <1>1, <1>2 DEF restart, Next
<1>3. CASE ~\E instance \in Runtimes : restart(instance)
  BY <1>1, <1>3 DEF ServiceStep, Next
<1>4. QED
  BY <1>2, <1>3

\* The types of the service hold at the start of the application.
LEMMA RecordingInitTyped == RecordingInit => RInv
BY DEF RecordingInit, RInv, Idle, Fresh, TaskRow, Placed, Pcs, HasSession, Finalizing

\* The service's own memory keeps its types.
LEMMA RecordingInvariance == RecordingSpec => []RInv
<1>1. RInv /\ UNCHANGED rvars => RInv'
  BY DEF rvars, RInv, world, service, Placed
<1>2. QED
  BY <1>1, RecordingInitTyped, RecordingStepTyped, PTL DEF RecordingSpec

\* The recording service implements the store: start, stop, finalize, close,
\* recovery, crash and cancellation reach the tables by the transactions of
\* _write_store.py and recover_interrupted only.
THEOREM ServiceImplementsStore == RecordingSpec => ImplementsStore
<1>1. RecordingInit => Init
  BY DEF RecordingInit
<1>2. RInv /\ [RecordingNext]_rvars => [Next]_vars
  BY StepIsStores DEF rvars
<1>3. QED
  BY <1>1, <1>2, RecordingInvariance, PTL DEF RecordingSpec, ImplementsStore, Spec

\* However starts race, fail, are cancelled or follow a crash, a room has at
\* most one active session.
THEOREM RoomRecordedOnce == RecordingSpec => []OneActivePerRoom
BY ServiceImplementsStore, ActiveSessionUnique DEF ImplementsStore

-----------------------------------------------------------------------------
(* After a restart nothing of an earlier process is active. *)

\* The service starts recording sessions only, and recovery looks at these.
OwnRecordings ==
  /\ OnlyThisRuntimeRecords
  /\ \A s \in SessionIds : sessions[s].status = "active" => sessions[s].recording

\* A session that was active before a step keeps its start.
LEMMA StartKept ==
  ASSUME IInv, Next \/ UNCHANGED vars, NEW s \in SessionIds,
         sessions[s].status = "active"
  PROVE  intervals'[s][1].start = intervals[s][1].start
<1>1. 1 \in DOMAIN intervals[s]
  BY RowFacts DEF IInv, OpenIffActive
<1>2. CASE Next
  BY <1>1, <1>2, SettledStep
<1>3. CASE UNCHANGED vars
  BY <1>3 DEF vars
<1>4. QED
  BY <1>2, <1>3

\* No session is active after a restart.
LEMMA NoneAfterRestart ==
  ASSUME RInv, IInv, OwnRecordings, NEW instance \in Runtimes, restart(instance)
  PROVE  \A s \in SessionIds : sessions'[s].status # "active"
<1>1. CASE Abandoned = {}
  BY <1>1 DEF restart, vars, OwnRecordings, Abandoned
<1>2. CASE Abandoned # {}
  <2>1. recover_interrupted(instance, now)
    BY <1>2 DEF restart
  <2>2. \A s \in SessionIds : s \in Abandoned => sessions'[s].status = "interrupted"
    BY <2>1 DEF recover_interrupted, IInv, Typed, Session
  <2>3. \A s \in SessionIds : s \notin Abandoned => sessions'[s] = sessions[s]
    BY <2>1 DEF recover_interrupted
  <2> QED BY <2>2, <2>3 DEF OwnRecordings, Abandoned
<1> QED BY <1>1, <1>2

\* Every step of the service keeps OwnRecordings.
LEMMA OwnRecordingsStep ==
  ASSUME RInv, IInv, OwnRecordings, RecordingNext
  PROVE  OwnRecordings'
<1>1. ServiceStep /\ (Next \/ UNCHANGED vars)
  BY StepKinds, StepIsStores
<1>2. ASSUME UNCHANGED runtime, mode' # "down" => mode # "down",
             \A s \in SessionIds : sessions'[s].status = "active" =>
               sessions[s].status = "active" /\ sessions'[s].recording = sessions[s].recording
      PROVE  OwnRecordings'
  BY <1>1, <1>2, StartKept DEF OwnRecordings, OnlyThisRuntimeRecords
<1>3. ASSUME NEW s \in SessionIds, NEW r \in Rooms, start_session(s, r, TRUE, Stamp),
             UNCHANGED runtime, mode # "down"
      PROVE  OwnRecordings'
  <2>1. intervals'[s][1].start.runtime = runtime
    <3>1. Stamp \in Stamps /\ intervals \in [SessionIds -> Seq(Interval)]
      BY StampTyped DEF IInv, Typed
    <3>2. intervals'[s][1] = _open_interval(Waiting, Stamp, NULL)
      BY <1>3, <3>1, StartEffect
    <3>3. QED
      BY <3>2 DEF _open_interval, Stamp
  <2>2. sessions'[s].recording /\ \A t \in SessionIds : t # s => sessions'[t] = sessions[t]
    BY <1>3 DEF start_session, IInv, Typed, NoRow
  <2>3. \A t \in SessionIds : t # s /\ sessions[t].status = "active" =>
            intervals'[t][1].start = intervals[t][1].start
    BY <1>1, StartKept
  <2>4. QED
    BY <1>3, <2>1, <2>2, <2>3 DEF OwnRecordings, OnlyThisRuntimeRecords
<1>4. ASSUME NEW s \in SessionIds, NEW final_status \in Terminal,
             end_session(s, Stamp, final_status), UNCHANGED runtime, mode # "down"
      PROVE  OwnRecordings'
  <2>1. sessions'[s].status = final_status /\ \A t \in SessionIds : t # s => sessions'[t] = sessions[t]
    BY <1>4 DEF end_session, IInv, Typed, Session
  <2>2. QED
    BY <1>2, <1>4, <2>1, ActiveIsNotTerminal
<1>5. ASSUME NEW instance \in Runtimes, restart(instance)
      PROVE  OwnRecordings'
  <2>1. \A s \in SessionIds : sessions'[s].status # "active"
    BY <1>5, NoneAfterRestart
  <2>2. QED
    BY <2>1 DEF OwnRecordings, OnlyThisRuntimeRecords
<1>6. ASSUME UNCHANGED <<vars, runtime>>, mode' = mode \/ mode' = "down" \/ mode # "down"
      PROVE  OwnRecordings'
  BY <1>2, <1>6 DEF vars
<1>7. QED
  BY <1>1, <1>3, <1>4, <1>5, <1>6 DEF ServiceStep

\* OwnRecordings holds in every behaviour.
LEMMA OwnRecordingsAlways == RecordingSpec => []OwnRecordings
<1>1. RecordingInit => OwnRecordings
  BY DEF RecordingInit, Init, NoRow, OwnRecordings, OnlyThisRuntimeRecords
<1>2. OwnRecordings /\ UNCHANGED rvars => OwnRecordings'
  BY DEF OwnRecordings, OnlyThisRuntimeRecords, rvars, vars, world
<1>3. RecordingSpec => []IInv
  BY ServiceImplementsStore, Invariance DEF ImplementsStore
<1>4. QED
  BY <1>1, <1>2, <1>3, RecordingInvariance, OwnRecordingsStep, PTL DEF RecordingSpec

\* However often the application is killed, and wherever: after its next start
\* each active session is one that this process has started.
THEOREM NothingOutlivesARestart == RecordingSpec => []OnlyThisRuntimeRecords
<1>1. OwnRecordings => OnlyThisRuntimeRecords
  BY DEF OwnRecordings
<1>2. QED
  BY <1>1, OwnRecordingsAlways, PTL

-----------------------------------------------------------------------------
(***************************************************************************)
(* No FFmpeg process of the running application is ever out of the         *)
(* service's reach: the room's entry in _active names its session.         *)
(***************************************************************************)
\* The awaits of _finalize, which nobody reaches before the exit.
AfterExit == {"f_lock"} \cup Finalizing

\* What a task may rely on at its await.
TaskKnows(t) ==
  LET r == task[t].room
      s == task[t].session
  IN /\ task[t].pc \in HasSession => sessions[s].status # "none"
     /\ task[t].pc \in Holding => room_lock[r] = t
     /\ task[t].pc = "s_check" => active[r] = NULL \/ recording[active[r]].finalized
     /\ task[t].pc = "s_spawn" =>
          active[r] = s /\ process[s] = "none" /\ sessions[s].room = r
     /\ task[t].pc = "w_wait" => s = t
     /\ task[t].pc \in AfterExit => process[s] \in Exited
     /\ task[t].pc \in Finalizing => recording[s].finalized

\* What holds of a session, whoever works on it.
SessionKnown(s) ==
  /\ recording[s].finalized => process[s] \in Exited
  /\ sessions[s].status = "none" => process[s] = "none"
  /\ sessions[s].status # "none" =>
       sessions[s].room \in Rooms /\ intervals[s][1].start.runtime \in runtime_instances
  /\ mode # "down" /\ process[s] \in Alive /\ intervals[s][1].start.runtime = runtime
       => active[sessions[s].room] = s

OwnersInv ==
  /\ \A t \in Tasks : TaskKnows(t)
  /\ \A s \in SessionIds : SessionKnown(s)

\* A row that is there stays there, with its room and its start; a new one
\* is stamped by this process.
RowsStay ==
  \A s \in SessionIds :
    /\ sessions[s].status # "none" =>
         /\ sessions'[s].status # "none"
         /\ sessions'[s].room = sessions[s].room
         /\ intervals'[s][1].start = intervals[s][1].start
    /\ sessions[s].status = "none" =>
         \/ sessions'[s].status = "none"
         \/ sessions'[s].room \in Rooms /\ intervals'[s][1].start.runtime = runtime

\* The row that start_session inserts.
LEMMA NewRow ==
  ASSUME RInv, IInv, NEW s \in SessionIds, NEW r \in Rooms, start_session(s, r, TRUE, Stamp)
  PROVE  /\ sessions[s].status = "none" /\ sessions'[s].status = "active"
         /\ sessions'[s].room = r
         /\ intervals'[s][1].start.runtime = runtime
         /\ \A t \in SessionIds : t # s => sessions'[t] = sessions[t]
<1>1. Stamp \in Stamps /\ intervals \in [SessionIds -> Seq(Interval)]
  BY StampTyped DEF IInv, Typed
<1>2. intervals'[s][1] = _open_interval(Waiting, Stamp, NULL)
  BY <1>1, StartEffect
<1>3. sessions'[s].status = "active" /\ sessions'[s].room = r
  BY DEF start_session, IInv, Typed, NoRow
<1>4. sessions[s].status = "none" /\ \A t \in SessionIds : t # s => sessions'[t] = sessions[t]
  BY DEF start_session, IInv, Typed
<1>5. QED
  BY <1>2, <1>3, <1>4 DEF _open_interval, Stamp

\* No step of the service removes or moves a row.
LEMMA RowsStayLemma ==
  ASSUME RInv, IInv, RecordingNext
  PROVE  RowsStay
<1>1. ServiceStep /\ (Next \/ UNCHANGED vars)
  BY StepKinds, StepIsStores
<1>2. \A s \in SessionIds : sessions[s].status # "none" =>
        /\ 1 \in DOMAIN intervals[s]
        /\ intervals'[s][1].start = intervals[s][1].start
  <2>1. SUFFICES ASSUME NEW s \in SessionIds, sessions[s].status # "none"
                 PROVE  1 \in DOMAIN intervals[s] /\ intervals'[s][1].start = intervals[s][1].start
    OBVIOUS
  <2>2. 1 \in DOMAIN intervals[s]
    BY <2>1, RowFacts DEF IInv, OpenIffActive
  <2>3. CASE Next
    BY <2>2, <2>3, SettledStep
  <2>4. CASE UNCHANGED vars
    BY <2>2, <2>4 DEF vars
  <2>5. QED
    BY <1>1, <2>2, <2>3, <2>4
<1>3. \A s \in SessionIds :
        /\ sessions[s].status # "none" =>
             sessions'[s].status # "none" /\ sessions'[s].room = sessions[s].room
        /\ sessions[s].status = "none" =>
             \/ sessions'[s].status = "none"
             \/ sessions'[s].room \in Rooms /\ intervals'[s][1].start.runtime = runtime
  <2>1. CASE \E s \in SessionIds, r \in Rooms : start_session(s, r, TRUE, Stamp)
    BY <2>1, NewRow
  <2>2. CASE \E s \in SessionIds, final_status \in Terminal : end_session(s, Stamp, final_status)
    <3>1. PICK s \in SessionIds, final_status \in Terminal : end_session(s, Stamp, final_status)
      BY <2>2
    <3>2. /\ sessions[s].status = "active" /\ sessions'[s].status = final_status
          /\ sessions'[s].room = sessions[s].room
          /\ \A t \in SessionIds : t # s => sessions'[t] = sessions[t]
      BY <3>1 DEF end_session, Writable, IInv, Typed, Session
    <3>3. QED
      BY <3>2, ActiveIsNotTerminal
  <2>3. CASE \E instance \in Runtimes : restart(instance)
    <3>1. PICK instance \in Runtimes : restart(instance)
      BY <2>3
    <3>2. CASE Abandoned = {}
      BY <3>1, <3>2 DEF restart, vars
    <3>3. CASE Abandoned # {}
      <4>1. recover_interrupted(instance, now)
        BY <3>1, <3>3 DEF restart
      <4>2. \A s \in Abandoned : /\ sessions[s].status = "active"
                                 /\ sessions'[s].status = "interrupted"
                                 /\ sessions'[s].room = sessions[s].room
        BY <4>1 DEF recover_interrupted, IInv, Typed, Session, Abandoned
      <4>3. \A s \in SessionIds : s \notin Abandoned => sessions'[s] = sessions[s]
        BY <4>1 DEF recover_interrupted
      <4>4. QED
        BY <4>2, <4>3
    <3>4. QED
      BY <3>2, <3>3
  <2>4. CASE UNCHANGED vars
    BY <2>4 DEF vars
  <2>5. QED
    BY <1>1, <2>1, <2>2, <2>3, <2>4 DEF ServiceStep
<1>4. QED
  BY <1>2, <1>3 DEF RowsStay

-----------------------------------------------------------------------------
(* OwnersInv is kept, action by action. *)

\* A step that only moves one task on, or lets it return.
LEMMA QuietStep ==
  ASSUME RInv, OwnersInv, RowsStay, NEW u \in Tasks, NEW row \in TaskRow,
         task' = [task EXCEPT ![u] = row],
         UNCHANGED <<mode, runtime, runtime_instances, active, process>>,
         \A t \in Tasks : t # u /\ task[t].pc \in Holding => room_lock'[task[t].room] = t,
         \A s \in SessionIds : recording[s].finalized => recording'[s].finalized,
         \A s \in SessionIds : recording'[s].finalized => process[s] \in Exited,
         TaskKnows(u)'
  PROVE  OwnersInv'
<1>1. ASSUME NEW t \in Tasks, t # u PROVE TaskKnows(t)'
  <2>1. task'[t] = task[t] /\ TaskKnows(t)
    BY <1>1 DEF RInv, OwnersInv
  <2>2. task[t].pc \in HasSession => task[t].session \in SessionIds
    BY DEF RInv, Placed
  <2>3. task[t].pc # "idle" => task[t].room \in Rooms
    BY DEF RInv, Placed
  <2>4. {"s_spawn"} \cup AfterExit \subseteq HasSession
    BY DEF AfterExit, HasSession
  <2>5. task[t].pc \in HasSession => sessions'[task[t].session].status # "none"
    BY <2>1, <2>2 DEF TaskKnows, RowsStay
  <2>6. task[t].pc \in Holding => room_lock'[task[t].room] = t
    BY <1>1
  <2>7. task[t].pc = "s_check" =>
          active[task[t].room] = NULL \/ recording'[active[task[t].room]].finalized
    BY <2>1, <2>3 DEF TaskKnows, RInv
  <2>8. task[t].pc = "s_spawn" => sessions'[task[t].session].room = task[t].room
    BY <2>1, <2>2, <2>4 DEF TaskKnows, RowsStay
  <2>9. task[t].pc \in Finalizing => recording'[task[t].session].finalized
    BY <2>1, <2>2, <2>4 DEF TaskKnows, AfterExit
  <2>10. QED
    BY <2>1, <2>2, <2>4, <2>5, <2>6, <2>7, <2>8, <2>9 DEF TaskKnows
<1>2. ASSUME NEW s \in SessionIds PROVE SessionKnown(s)'
  <2>1. SessionKnown(s)
    BY DEF OwnersInv
  <2>2. CASE sessions[s].status = "none"
    BY <2>1, <2>2 DEF SessionKnown, RowsStay, RInv, Alive
  <2>3. CASE sessions[s].status # "none"
    BY <2>1, <2>3 DEF SessionKnown, RowsStay
  <2>4. QED
    BY <2>2, <2>3
<1>3. QED
  BY <1>1, <1>2 DEF OwnersInv

\* A task that returns, or is cancelled.
LEMMA QuietReturn ==
  ASSUME RInv, OwnersInv, RowsStay, NEW u \in Tasks, Return(u),
         UNCHANGED <<mode, runtime, runtime_instances, active, process, recording>>,
         \A t \in Tasks : t # u /\ task[t].pc \in Holding => room_lock'[task[t].room] = t
  PROVE  OwnersInv'
<1>1. Idle \in TaskRow /\ Idle.pc = "idle"
  BY DEF Idle, TaskRow, Pcs
<1>2. task' = [task EXCEPT ![u] = Idle] /\ task'[u].pc = "idle"
  BY <1>1 DEF Return, RInv
<1>3. TaskKnows(u)'
  BY <1>2 DEF TaskKnows, HasSession, Holding, AfterExit, Finalizing
<1>4. \A s \in SessionIds : recording[s].finalized => process[s] \in Exited
  BY DEF OwnersInv, SessionKnown
<1> HIDE DEF Idle
<1>5. QED
  BY <1>1, <1>2, <1>3, <1>4, QuietStep

\* A task that goes on to an await it may stand at.
LEMMA QuietGoto ==
  ASSUME RInv, OwnersInv, RowsStay, NEW u \in Tasks, NEW pc \in Pcs, Goto(u, pc),
         task[u].pc # "idle", pc \in HasSession => task[u].pc \in HasSession,
         pc \notin {"s_spawn", "w_wait"},
         UNCHANGED <<mode, runtime, runtime_instances, active, process>>,
         \A t \in Tasks : t # u /\ task[t].pc \in Holding => room_lock'[task[t].room] = t,
         pc \in Holding => room_lock'[task[u].room] = u,
         pc = "s_check" =>
           active[task[u].room] = NULL \/ recording'[active[task[u].room]].finalized,
         pc \in AfterExit => process[task[u].session] \in Exited,
         pc \in Finalizing => recording'[task[u].session].finalized,
         \A s \in SessionIds : recording[s].finalized => recording'[s].finalized,
         \A s \in SessionIds : recording'[s].finalized => process[s] \in Exited
  PROVE  OwnersInv'
<1> DEFINE row == [task[u] EXCEPT !.pc = pc]
<1>1. task[u] \in TaskRow
  BY DEF RInv
<1>2. row \in TaskRow /\ row.pc = pc /\ row.room = task[u].room /\ row.session = task[u].session
  BY <1>1 DEF TaskRow
<1>3. task' = [task EXCEPT ![u] = row] /\ task'[u] = row
  BY DEF Goto, RInv
<1> HIDE DEF row
<1>4. pc \in HasSession => sessions'[task[u].session].status # "none"
  BY DEF OwnersInv, TaskKnows, RInv, Placed, RowsStay
<1>5. TaskKnows(u)'
  BY <1>2, <1>3, <1>4 DEF TaskKnows
<1>6. QED
  BY <1>2, <1>3, <1>5, QuietStep

\* Locks of other rooms, and of other tasks, are not touched.
LEMMA LocksKept ==
  ASSUME RInv, OwnersInv, NEW u \in Tasks,
         \/ UNCHANGED room_lock
         \/ task[u].room \in Rooms /\ room_lock[task[u].room] = NULL
               /\ room_lock' = [room_lock EXCEPT ![task[u].room] = u]
         \/ task[u].room \in Rooms /\ task[u].pc \in Holding
               /\ room_lock' = [room_lock EXCEPT ![task[u].room] = NULL]
  PROVE  \A t \in Tasks : t # u /\ task[t].pc \in Holding => room_lock'[task[t].room] = t
<1> SUFFICES ASSUME NEW t \in Tasks, t # u, task[t].pc \in Holding
             PROVE  room_lock'[task[t].room] = t
  OBVIOUS
<1>1. room_lock[task[t].room] = t /\ task[t].room \in Rooms
  BY DEF OwnersInv, TaskKnows, RInv, Placed, Holding
<1>2. task[u].pc \in Holding => room_lock[task[u].room] = u
  BY DEF OwnersInv, TaskKnows
<1>3. t # NULL
  BY RecordingAssumption, NoSession DEF Tasks
<1>4. QED
  BY <1>1, <1>2, <1>3 DEF RInv

\* A finalized recording has seen its exit.
LEMMA FinalizedExited ==
  ASSUME OwnersInv
  PROVE  \A s \in SessionIds : recording[s].finalized => process[s] \in Exited
BY DEF OwnersInv, SessionKnown

\* The steps of a start that keep _active and the process as they are.
LEMMA StartQuiet ==
  ASSUME RInv, OwnersInv, RowsStay, NEW c \in Tasks,
         start_locked(c) \/ start_refused(c) \/ _fail_started_session(c) \/ fail_recorded(c)
  PROVE  OwnersInv'
<1> USE FinalizedExited
<1>1. CASE start_locked(c)
  <2>1. task[c].pc = "s_lock" /\ task[c].room \in Rooms
    BY <1>1 DEF start_locked, At, RInv, Placed
  <2>2. UNCHANGED <<mode, runtime, runtime_instances, active, process, recording>>
    BY <1>1 DEF start_locked, world
  <2>3. CASE Return(c) /\ UNCHANGED room_lock
    BY <2>2, <2>3, LocksKept, QuietReturn
  <2>4. CASE ~(Return(c) /\ UNCHANGED room_lock)
    <3>1. /\ Goto(c, "s_check") /\ Acquire(task[c].room, c)
          /\ active[task[c].room] = NULL \/ recording[active[task[c].room]].finalized
      BY <1>1, <2>4 DEF start_locked
    <3>2. room_lock'[task[c].room] = c
      BY <2>1, <3>1 DEF Acquire, RInv
    <3>3. \A t \in Tasks : t # c /\ task[t].pc \in Holding => room_lock'[task[t].room] = t
      BY <2>1, <3>1, LocksKept DEF Acquire
    <3>4. "s_check" \in Pcs /\ "s_check" \notin HasSession \cup AfterExit
      BY DEF Pcs, HasSession, AfterExit, Finalizing
    <3>5. QED
      BY <2>1, <2>2, <3>1, <3>2, <3>3, <3>4, QuietGoto DEF AfterExit
  <2>5. QED
    BY <2>3, <2>4
<1>2. CASE start_refused(c) \/ fail_recorded(c)
  <2>1. /\ task[c].pc \in Holding /\ task[c].room \in Rooms
        /\ Return(c) /\ room_lock' = [room_lock EXCEPT ![task[c].room] = NULL]
        /\ UNCHANGED <<mode, runtime, runtime_instances, active, process, recording>>
    BY <1>2 DEF start_refused, fail_recorded, At, RInv, Placed, Release, Holding, world
  <2>2. QED
    BY <2>1, LocksKept, QuietReturn
<1>3. CASE _fail_started_session(c)
  <2>1. /\ task[c].pc = "s_fail" /\ Goto(c, "s_fail_record") /\ UNCHANGED room_lock
        /\ UNCHANGED <<mode, runtime, runtime_instances, active, process, recording>>
    BY <1>3 DEF _fail_started_session, At, world, service
  <2>2. /\ "s_fail_record" \in Pcs \cap HasSession /\ "s_fail_record" \notin AfterExit
        /\ {"s_fail", "s_fail_record"} \subseteq Holding \cap HasSession
    BY DEF Pcs, HasSession, AfterExit, Finalizing, Holding
  <2>3. room_lock'[task[c].room] = c
    BY <2>1, <2>2 DEF OwnersInv, TaskKnows
  <2>4. \A t \in Tasks : t # c /\ task[t].pc \in Holding => room_lock'[task[t].room] = t
    BY <2>1, LocksKept
  <2>5. QED
    BY <2>1, <2>2, <2>3, <2>4, QuietGoto DEF AfterExit
<1>4. QED
  BY <1>1, <1>2, <1>3

\* A stop, until it kills.
LEMMA StopQuiet ==
  ASSUME RInv, OwnersInv, RowsStay, NEW u \in Tasks,
         stop_locked(u) \/ stop_exited(u)
  PROVE  OwnersInv'
<1> USE FinalizedExited
<1>1. \A t \in Tasks : t # u /\ task[t].pc \in Holding => room_lock'[task[t].room] = t
  BY LocksKept DEF stop_locked, stop_exited, service
<1>2. CASE stop_exited(u)
  <2>1. /\ UNCHANGED <<mode, runtime, runtime_instances, active, process, recording>>
        /\ task[u].pc \in {"p_stop", "p_terminate", "p_kill"}
        /\ process[task[u].session] \in Exited
    BY <1>2 DEF stop_exited, At, world, service
  <2>2. CASE Return(u)
    BY <1>1, <2>1, <2>2, QuietReturn
  <2>3. CASE Goto(u, "f_lock")
    <3>1. /\ "f_lock" \in Pcs \cap HasSession /\ "f_lock" \notin Holding
          /\ {"p_stop", "p_terminate", "p_kill"} \subseteq HasSession
          /\ "f_lock" \notin Finalizing
      BY DEF Pcs, HasSession, Holding, Finalizing
    <3>2. QED
      BY <1>1, <2>1, <2>3, <3>1, QuietGoto
  <2>4. QED
    BY <1>2, <2>2, <2>3 DEF stop_exited
<1>3. CASE stop_locked(u)
  <2> DEFINE r == task[u].room
             s == active[r]
             row == [task[u] EXCEPT !.pc = "p_stop", !.session = s]
  <2>1. /\ UNCHANGED <<mode, runtime, runtime_instances, active, process>>
        /\ r \in Rooms
    BY <1>3 DEF stop_locked, At, RInv, Placed, world
  <2>2. CASE Return(u) /\ UNCHANGED recording
    BY <1>1, <2>1, <2>2, QuietReturn
  <2>3. CASE ~(Return(u) /\ UNCHANGED recording)
    <3>1. /\ s \in SessionIds
          /\ recording' = [recording EXCEPT ![s].stop_reason =
                              IF u \in Rooms THEN "app_shutdown" ELSE "explicit_stop"]
          /\ IF process[s] = "none" THEN Return(u) ELSE task' = [task EXCEPT ![u] = row]
      BY <1>3, <2>1, <2>3 DEF stop_locked, RInv
    <3>2. \A x \in SessionIds : recording'[x].finalized = recording[x].finalized
      BY <3>1 DEF RInv
    <3>3. CASE process[s] = "none"
      <4> DEFINE idle == Idle
      <4>1. idle \in TaskRow /\ idle.pc = "idle"
        BY DEF Idle, TaskRow, Pcs
      <4>2. task' = [task EXCEPT ![u] = idle]
        BY <3>1, <3>3 DEF Return
      <4>3. TaskKnows(u)'
        BY <4>1, <4>2 DEF TaskKnows, HasSession, Holding, AfterExit, Finalizing, RInv
      <4> HIDE DEF idle
      <4>4. QED
        BY <1>1, <2>1, <3>2, <4>1, <4>2, <4>3, QuietStep
    <3>4. CASE process[s] # "none"
      <4>1. row \in TaskRow /\ row.pc = "p_stop" /\ row.session = s
        BY <3>1 DEF RInv, TaskRow, Pcs, HasSession
      <4>2. task' = [task EXCEPT ![u] = row] /\ task'[u] = row
        BY <3>1, <3>4 DEF RInv
      <4>3. sessions[s].status # "none"
        BY <3>1, <3>4 DEF OwnersInv, SessionKnown
      <4> HIDE DEF row
      <4>4. TaskKnows(u)'
        BY <3>1, <4>1, <4>2, <4>3 DEF TaskKnows, RowsStay, Holding, AfterExit, Finalizing
      <4>5. QED
        BY <1>1, <2>1, <3>2, <4>1, <4>2, <4>4, QuietStep
    <3>5. QED
      BY <3>3, <3>4
  <2>4. QED
    BY <2>2, <2>3
<1>4. QED
  BY <1>2, <1>3

\* The finalizer, until it takes the entry out, and the wait task.
LEMMA FinalizeQuiet ==
  ASSUME RInv, OwnersInv, RowsStay, NEW u \in Tasks,
         \/ finalize_locked(u) \/ _close_recipient_session(u) \/ finalize_recorded(u)
         \/ _wait_for_exit(u) /\ u \in SessionIds
  PROVE  OwnersInv'
<1> USE FinalizedExited
<1>1. \A t \in Tasks : t # u /\ task[t].pc \in Holding => room_lock'[task[t].room] = t
  BY LocksKept DEF finalize_locked, _close_recipient_session, finalize_recorded,
                   _wait_for_exit, service
<1>2. UNCHANGED <<mode, runtime, runtime_instances, active, process>>
  BY DEF finalize_locked, _close_recipient_session, finalize_recorded, _wait_for_exit,
         world, service
<1>3. /\ {"f_lock", "f_end", "f_record", "f_pop"} \subseteq Pcs \cap HasSession \cap AfterExit
      /\ {"f_lock", "f_end", "f_record", "f_pop"} \cap Holding = {}
      /\ {"f_end", "f_record"} \subseteq Finalizing /\ "f_lock" \notin Finalizing
      /\ "w_wait" \in HasSession
  BY DEF Pcs, HasSession, AfterExit, Finalizing, Holding
<1>4. CASE _wait_for_exit(u) /\ u \in SessionIds
  <2>1. /\ task[u].pc = "w_wait" /\ Goto(u, "f_lock") /\ UNCHANGED recording
        /\ process[u] \in Exited
    BY <1>4 DEF _wait_for_exit, At, service
  <2>2. task[u].session = u
    BY <2>1 DEF OwnersInv, TaskKnows
  <2>3. QED
    BY <1>1, <1>2, <1>3, <2>1, <2>2, QuietGoto
<1>5. CASE finalize_locked(u)
  <2> DEFINE s == task[u].session
  <2>1. task[u].pc = "f_lock" /\ s \in SessionIds /\ process[s] \in Exited
    BY <1>3, <1>5 DEF finalize_locked, At, RInv, Placed, OwnersInv, TaskKnows
  <2>2. CASE Return(u) /\ UNCHANGED recording
    BY <1>1, <1>2, <2>2, QuietReturn
  <2>3. CASE ~(Return(u) /\ UNCHANGED recording)
    <3>1. recording' = [recording EXCEPT ![s].finalized = TRUE] /\ Goto(u, "f_end")
      BY <1>5, <2>3 DEF finalize_locked
    <3>2. \A x \in SessionIds : recording'[x].finalized <=> recording[x].finalized \/ x = s
      BY <2>1, <3>1 DEF RInv
    <3>3. QED
      BY <1>1, <1>2, <1>3, <2>1, <3>1, <3>2, QuietGoto DEF RInv
  <2>4. QED
    BY <2>2, <2>3
<1>6. CASE _close_recipient_session(u) \/ finalize_recorded(u)
  <2>1. /\ task[u].pc \in {"f_end", "f_record"}
        /\ Goto(u, "f_record") \/ Goto(u, "f_pop")
        /\ UNCHANGED recording
    BY <1>6 DEF _close_recipient_session, finalize_recorded, At, service
  <2>2. process[task[u].session] \in Exited /\ recording[task[u].session].finalized
    BY <1>3, <2>1 DEF OwnersInv, TaskKnows
  <2>3. QED
    BY <1>1, <1>2, <1>3, <2>1, <2>2, QuietGoto
<1>7. QED
  BY <1>4, <1>5, <1>6

-----------------------------------------------------------------------------
(* The steps that change an entry, a process or the tables' owner. *)

\* The tasks that a step does not move know what they knew.
LEMMA OthersKnow ==
  ASSUME RInv, OwnersInv, RowsStay, NEW t \in Tasks, task'[t] = task[t],
         UNCHANGED recording,
         task[t].pc \in Holding => room_lock'[task[t].room] = t,
         task[t].pc \in {"s_check", "s_spawn"} =>
           active'[task[t].room] = active[task[t].room] \/ active'[task[t].room] = NULL,
         task[t].pc = "s_spawn" =>
           /\ active'[task[t].room] = task[t].session
           /\ process'[task[t].session] = "none",
         \A s \in SessionIds : process[s] \in Exited => process'[s] \in Exited
  PROVE  TaskKnows(t)'
<1>1. TaskKnows(t)
  BY DEF OwnersInv
<1>2. /\ task[t].pc \in HasSession => task[t].session \in SessionIds
      /\ task[t].pc # "idle" => task[t].room \in Rooms
      /\ {"s_spawn", "w_wait"} \cup AfterExit \subseteq HasSession
  BY DEF RInv, Placed, AfterExit, HasSession
<1>3. task[t].pc \in HasSession => sessions'[task[t].session].status # "none"
  BY <1>1, <1>2 DEF TaskKnows, RowsStay
<1>4. task[t].pc = "s_spawn" => sessions'[task[t].session].room = task[t].room
  BY <1>1, <1>2 DEF TaskKnows, RowsStay
<1>5. QED
  BY <1>1, <1>2, <1>3, <1>4 DEF TaskKnows

\* Two starts never are under the same lock.
LEMMA OneHolder ==
  ASSUME RInv, OwnersInv, NEW t \in Tasks, NEW u \in Tasks, t # u,
         task[t].pc \in Holding, task[u].pc \in Holding
  PROVE  task[t].room # task[u].room
BY DEF OwnersInv, TaskKnows

\* The session row is committed, with its entry or without.
LEMMA CommitOwned ==
  ASSUME RInv, IInv, OwnersInv, RowsStay, NEW c \in Tasks, NEW s \in SessionIds,
         start_session_committed(c, s)
  PROVE  OwnersInv'
<1> DEFINE r == task[c].room
           row(pc) == [task[c] EXCEPT !.pc = pc, !.session = s]
<1>1. /\ task[c].pc = "s_check" /\ mode # "down" /\ r \in Rooms
      /\ start_session(s, r, TRUE, Stamp)
      /\ UNCHANGED <<mode, runtime, runtime_instances, recording, room_lock, process>>
  BY DEF start_session_committed, At, RInv, Placed, world
<1>2. /\ sessions[s].status = "none" /\ sessions'[s].status = "active"
      /\ sessions'[s].room = r /\ intervals'[s][1].start.runtime = runtime
      /\ \A x \in SessionIds : x # s => sessions'[x] = sessions[x]
  BY <1>1, NewRow
<1>3. process[s] = "none"
  BY <1>2 DEF OwnersInv, SessionKnown
<1>4. \A x \in Rooms : x # r => active'[x] = active[x]
  BY <1>1 DEF start_session_committed, RInv
<1>5. /\ "s_check" \in Holding /\ "s_spawn" \in Holding \cap HasSession
      /\ "s_fail" \in Holding \cap HasSession
      /\ {"s_check", "s_spawn", "s_fail"} \cap (AfterExit \cup {"w_wait"}) = {}
  BY DEF Holding, HasSession, AfterExit, Finalizing
<1>6. room_lock[r] = c /\ (active[r] = NULL \/ recording[active[r]].finalized)
  BY <1>1, <1>5 DEF OwnersInv, TaskKnows
<1>7. PICK pc \in {"s_spawn", "s_fail"} :
        /\ task'[c] = row(pc) /\ \A t \in Tasks : t # c => task'[t] = task[t]
        /\ pc = "s_spawn" => active'[r] = s
        /\ active'[r] \in {s, active[r]}
  BY <1>1 DEF start_session_committed, RInv
<1>8. row(pc).pc = pc /\ row(pc).room = r /\ row(pc).session = s
  <2>1. task[c] \in TaskRow
    BY DEF RInv
  <2>2. QED
    BY <2>1 DEF TaskRow
<1> HIDE DEF row
<1>9. TaskKnows(c)'
  BY <1>1, <1>2, <1>3, <1>5, <1>6, <1>7, <1>8 DEF TaskKnows, AfterExit
<1>10. ASSUME NEW t \in Tasks, t # c PROVE TaskKnows(t)'
  <2>1. task[t].pc \in Holding => task[t].room # r /\ room_lock[task[t].room] = t
    BY <1>1, <1>5, <1>10, OneHolder DEF OwnersInv, TaskKnows
  <2>2. task[t].pc \in {"s_check", "s_spawn"} => active'[task[t].room] = active[task[t].room]
    BY <1>4, <1>5, <2>1 DEF RInv, Placed
  <2>3. task[t].pc = "s_spawn" =>
          active[task[t].room] = task[t].session /\ process[task[t].session] = "none"
    BY DEF OwnersInv, TaskKnows
  <2>4. QED
    BY <1>1, <1>7, <1>10, <2>1, <2>2, <2>3, OthersKnow
<1>11. ASSUME NEW x \in SessionIds PROVE SessionKnown(x)'
  <2>1. SessionKnown(x)
    BY DEF OwnersInv
  <2>2. CASE x = s
    BY <1>1, <1>2, <1>3, <2>1, <2>2 DEF SessionKnown, RInv, Alive
  <2>3. CASE x # s
    <3>1. sessions'[x] = sessions[x]
      BY <1>2, <2>3
    <3>2. sessions[x].status # "none" => intervals'[x][1].start = intervals[x][1].start
      BY DEF RowsStay
    <3>3. ASSUME process[x] \in Alive, intervals[x][1].start.runtime = runtime
          PROVE  active'[sessions[x].room] = x
      <4>1. active[sessions[x].room] = x /\ sessions[x].status # "none"
        BY <1>1, <2>1, <3>3 DEF SessionKnown, Alive
      <4>2. ~recording[x].finalized
        BY <2>1, <3>3 DEF SessionKnown, Alive, Exited
      <4>3. x # NULL
        BY RecordingAssumption
      <4>4. sessions[x].room # r
        BY <1>6, <4>1, <4>2, <4>3
      <4>5. sessions[x].room \in Rooms
        BY <2>1, <4>1 DEF SessionKnown
      <4>6. QED
        BY <1>4, <4>1, <4>4, <4>5
    <3>4. QED
      BY <1>1, <2>1, <3>1, <3>2, <3>3 DEF SessionKnown, Alive
  <2>4. QED
    BY <2>2, <2>3
<1>12. QED
  BY <1>9, <1>10, <1>11 DEF OwnersInv

\* A session that a step leaves alone, with its process and its entry.
LEMMA SessionStays ==
  ASSUME RInv, OwnersInv, RowsStay, NEW s \in SessionIds,
         UNCHANGED <<runtime, runtime_instances, recording>>,
         mode' # "down" => mode # "down",
         process[s] = "none" => process'[s] \in {"none", "running"},
         process[s] = "none" /\ process'[s] # "none" =>
            sessions[s].status # "none" /\ active'[sessions[s].room] = s,
         process[s] \in Alive => process'[s] \in Alive \cup Exited,
         process[s] \in Exited => process'[s] = process[s],
         process[s] \in Alive /\ process'[s] \in Alive /\ active[sessions[s].room] = s
            => active'[sessions[s].room] = s
  PROVE  SessionKnown(s)'
<1>1. SessionKnown(s)
  BY DEF OwnersInv
<1>2. process[s] \in {"none"} \cup Alive \cup Exited
  BY DEF RInv
<1>3. CASE sessions[s].status = "none"
  BY <1>1, <1>3 DEF SessionKnown, RowsStay, RInv, Alive
<1>4. CASE sessions[s].status # "none"
  <2>1. /\ sessions'[s].status # "none" /\ sessions'[s].room = sessions[s].room
        /\ intervals'[s][1].start = intervals[s][1].start
    BY <1>4 DEF RowsStay
  <2>2. process[s] = "none" => process'[s] = "none" \/ active'[sessions[s].room] = s
    OBVIOUS
  <2>3. process'[s] \in Alive => process[s] \in Alive \cup {"none"}
    BY <1>2 DEF Alive, Exited
  <2>4. process[s] \in Exited => process'[s] \in Exited
    OBVIOUS
  <2>5. ASSUME mode' # "down", process'[s] \in Alive, intervals'[s][1].start.runtime = runtime'
        PROVE  active'[sessions'[s].room] = s
    <3>1. CASE process[s] = "none"
      BY <2>1, <2>2, <2>5, <3>1 DEF Alive
    <3>2. CASE process[s] \in Alive
      <4>1. mode # "down" /\ intervals[s][1].start.runtime = runtime
        BY <2>1, <2>5
      <4>2. active[sessions[s].room] = s
        BY <1>1, <3>2, <4>1 DEF SessionKnown
      <4>3. QED
        BY <2>1, <2>5, <3>2, <4>2
    <3>3. QED
      BY <2>3, <2>5, <3>1, <3>2
  <2>6. recording'[s].finalized => process'[s] \in Exited
    BY <1>1, <2>4 DEF SessionKnown
  <2>7. sessions'[s].room \in Rooms /\ intervals'[s][1].start.runtime \in runtime_instances'
    BY <1>1, <1>4, <2>1 DEF SessionKnown
  <2>8. QED
    BY <2>1, <2>5, <2>6, <2>7 DEF SessionKnown
<1>5. QED
  BY <1>3, <1>4

\* The supervisor has started its process: the entry is there already.
LEMMA SpawnOwned ==
  ASSUME RInv, OwnersInv, RowsStay, NEW c \in Tasks, supervisor_started(c)
  PROVE  OwnersInv'
<1>0. PICK s \in SessionIds, r \in Rooms : s = task[c].session /\ r = task[c].room
  BY DEF supervisor_started, At, RInv, Placed, HasSession
<1> DEFINE row == [pc |-> "w_wait", room |-> r, session |-> s]
<1>1. /\ task[c].pc = "s_spawn" /\ s \in SessionIds /\ r \in Rooms
      /\ UNCHANGED <<mode, runtime, runtime_instances, recording, active>>
      /\ room_lock' = [room_lock EXCEPT ![r] = NULL]
      /\ process' = [process EXCEPT ![s] = "running"]
      /\ task' = [task EXCEPT ![c] = Idle, ![s] = row]
  BY <1>0 DEF supervisor_started, At, world, Release
<1>2. "s_spawn" \in Holding \cap HasSession
  BY DEF Holding, HasSession
<1>3. active[r] = s /\ process[s] = "none" /\ sessions[s].room = r /\ sessions[s].status # "none"
  BY <1>0, <1>1, <1>2 DEF OwnersInv, TaskKnows
<1>4. /\ task'[s] = row /\ s \in Tasks
      /\ c # s => task'[c] = Idle
      /\ \A t \in Tasks : t # c /\ t # s => task'[t] = task[t]
  BY <1>1 DEF RInv, Tasks
<1>5. row.pc = "w_wait" /\ row.session = s /\ row.room = r
  OBVIOUS
<1>6. TaskKnows(s)'
  <2>1. sessions'[s].status # "none"
    BY <1>1, <1>3 DEF RowsStay
  <2>2. "w_wait" \notin Holding \cup AfterExit
    BY DEF Holding, AfterExit, Finalizing
  <2>3. task'[s].pc = "w_wait" /\ task'[s].session = s
    BY <1>4, <1>5
  <2> HIDE DEF row
  <2>4. QED
    BY <2>1, <2>2, <2>3 DEF TaskKnows, AfterExit
<1>7. c # s => TaskKnows(c)'
  BY <1>4 DEF TaskKnows, Idle, HasSession, Holding, AfterExit, Finalizing
<1>8. ASSUME NEW t \in Tasks, t # c, t # s PROVE TaskKnows(t)'
  <2>1. \A u \in Tasks : u # c /\ task[u].pc \in Holding => room_lock'[task[u].room] = u
    BY <1>0, <1>1, <1>2, LocksKept
  <2>2. task[t].pc = "s_spawn" => task[t].session # s
    <3>1. SUFFICES ASSUME task[t].pc = "s_spawn", task[t].session = s PROVE FALSE
      OBVIOUS
    <3>2. sessions[s].room = task[t].room
      BY <3>1 DEF OwnersInv, TaskKnows
    <3>3. QED
      BY <1>0, <1>1, <1>2, <1>3, <1>8, <3>1, <3>2, OneHolder
  <2>3. task[t].pc = "s_spawn" =>
          /\ task[t].session \in SessionIds /\ process[task[t].session] = "none"
          /\ active[task[t].room] = task[t].session
    BY <1>2 DEF OwnersInv, TaskKnows, RInv, Placed
  <2>4. \A x \in SessionIds : process[x] \in Exited => process'[x] \in Exited
    BY <1>1, <1>3 DEF RInv, Exited
  <2>5. task[t].pc = "s_spawn" => process'[task[t].session] = "none"
    BY <1>1, <2>2, <2>3 DEF RInv
  <2>6. QED
    BY <1>1, <1>4, <1>8, <2>1, <2>3, <2>4, <2>5, OthersKnow
<1>9. ASSUME NEW x \in SessionIds PROVE SessionKnown(x)'
  <2> HIDE DEF row
  <2>1. CASE x = s
    <3>1. process[x] = "none" /\ process'[x] = "running" /\ active'[sessions[x].room] = x
      BY <1>1, <1>3, <2>1 DEF RInv
    <3>2. QED
      BY <1>1, <1>3, <2>1, <3>1, SessionStays DEF Alive, Exited
  <2>2. CASE x # s
    <3>1. process'[x] = process[x]
      BY <1>1, <2>2 DEF RInv
    <3>2. QED
      BY <1>1, <3>1, SessionStays DEF Alive, Exited
  <2>3. QED
    BY <2>1, <2>2
<1>10. QED
  BY <1>6, <1>7, <1>8, <1>9 DEF OwnersInv

\* A step that gives up a room's entry, for a session whose process is not alive.
LEMMA EntryGone ==
  ASSUME RInv, OwnersInv, RowsStay, NEW r \in Rooms,
         UNCHANGED <<mode, runtime, runtime_instances, recording, process>>,
         active' = active \/ active' = [active EXCEPT ![r] = NULL],
         active' = active \/ (active[r] # NULL => process[active[r]] \notin Alive),
         NEW s \in SessionIds
  PROVE  SessionKnown(s)'
<1>1. SessionKnown(s)
  BY DEF OwnersInv
<1>2. process[s] \in Alive /\ active[sessions[s].room] = s => active'[sessions[s].room] = s
  <2>1. SUFFICES ASSUME process[s] \in Alive, active[sessions[s].room] = s
                 PROVE  active'[sessions[s].room] = s
    OBVIOUS
  <2>2. sessions[s].room \in Rooms
    BY <1>1, <2>1 DEF SessionKnown, Alive
  <2>3. s # NULL
    BY RecordingAssumption
  <2>4. QED
    BY <2>1, <2>2, <2>3 DEF RInv
<1>3. QED
  BY <1>2, SessionStays DEF RInv, Alive, Exited

\* The supervisor has not started: its own entry goes.
LEMMA NoSpawnOwned ==
  ASSUME RInv, OwnersInv, RowsStay, NEW c \in Tasks, supervisor_not_started(c)
  PROVE  OwnersInv'
<1> DEFINE s == task[c].session
           r == task[c].room
           row == [task[c] EXCEPT !.pc = "s_fail"]
<1>1. /\ task[c].pc = "s_spawn" /\ s \in SessionIds /\ r \in Rooms
      /\ UNCHANGED <<mode, runtime, runtime_instances, recording, process, room_lock>>
      /\ active' = [active EXCEPT ![r] = NULL]
      /\ task' = [task EXCEPT ![c] = row]
  BY DEF supervisor_not_started, At, RInv, Placed, HasSession, world, Goto
<1>2. /\ "s_spawn" \in Holding \cap HasSession /\ "s_fail" \in Holding \cap HasSession
      /\ "s_fail" \notin AfterExit
  BY DEF Holding, HasSession, AfterExit, Finalizing
<1>3. /\ active[r] = s /\ process[s] = "none" /\ sessions[s].status # "none"
      /\ room_lock[r] = c
  BY <1>1, <1>2 DEF OwnersInv, TaskKnows
<1>4. task'[c] = row /\ \A t \in Tasks : t # c => task'[t] = task[t]
  BY <1>1 DEF RInv
<1>5. row.pc = "s_fail" /\ row.session = s /\ row.room = r
  <2>1. task[c] \in TaskRow
    BY DEF RInv
  <2>2. QED
    BY <2>1 DEF TaskRow
<1>6. TaskKnows(c)'
  <2>1. sessions'[s].status # "none"
    BY <1>1, <1>3 DEF RowsStay
  <2> HIDE DEF row
  <2>2. QED
    BY <1>1, <1>2, <1>3, <1>4, <1>5, <2>1 DEF TaskKnows, AfterExit
<1>7. ASSUME NEW t \in Tasks, t # c PROVE TaskKnows(t)'
  <2>1. task[t].pc \in Holding => room_lock[task[t].room] = t /\ task[t].room # r
    BY <1>1, <1>2, <1>7, OneHolder DEF OwnersInv, TaskKnows
  <2>2. task[t].pc \in {"s_check", "s_spawn"} => active'[task[t].room] = active[task[t].room]
    <3>1. {"s_check", "s_spawn"} \subseteq Holding
      BY DEF Holding
    <3>2. QED
      BY <1>1, <2>1, <3>1 DEF RInv, Placed
  <2>3. task[t].pc = "s_spawn" =>
          active[task[t].room] = task[t].session /\ process[task[t].session] = "none"
    BY DEF OwnersInv, TaskKnows
  <2>4. QED
    BY <1>1, <1>4, <1>7, <2>1, <2>2, <2>3, OthersKnow
<1>8. \A x \in SessionIds : SessionKnown(x)'
  BY <1>1, <1>3, EntryGone DEF Alive
<1>9. QED
  BY <1>6, <1>7, <1>8 DEF OwnersInv

\* The finalizer takes its own entry out, or nothing.
LEMMA PopOwned ==
  ASSUME RInv, OwnersInv, RowsStay, NEW u \in Tasks, finalize_popped(u)
  PROVE  OwnersInv'
<1> DEFINE s == task[u].session
           r == task[u].room
<1>1. /\ task[u].pc = "f_pop" /\ s \in SessionIds /\ r \in Rooms
      /\ UNCHANGED <<mode, runtime, runtime_instances, recording, process, room_lock>>
      /\ active' = [active EXCEPT ![r] = IF @ = s THEN NULL ELSE @]
      /\ Return(u)
  BY DEF finalize_popped, At, RInv, Placed, HasSession, Finalizing, world
<1>2. process[s] \in Exited
  BY <1>1 DEF OwnersInv, TaskKnows, AfterExit, Finalizing
<1>3. /\ active' = active \/ active' = [active EXCEPT ![r] = NULL]
      /\ active' = active \/ active[r] = s
      /\ \A x \in Rooms : active'[x] = active[x] \/ (active'[x] = NULL /\ active[x] = s)
  BY <1>1 DEF RInv
<1>4. task'[u] = Idle /\ \A t \in Tasks : t # u => task'[t] = task[t]
  BY <1>1 DEF Return, RInv
<1>5. TaskKnows(u)'
  BY <1>4 DEF TaskKnows, Idle, HasSession, Holding, AfterExit, Finalizing
<1>6. ASSUME NEW t \in Tasks, t # u PROVE TaskKnows(t)'
  <2>1. task[t].pc \in Holding => room_lock[task[t].room] = t
    BY DEF OwnersInv, TaskKnows
  <2>2. task[t].pc # "idle" => task[t].room \in Rooms
    BY DEF RInv, Placed
  <2>3. task[t].pc = "s_spawn" =>
          active[task[t].room] = task[t].session /\ process[task[t].session] = "none"
    BY DEF OwnersInv, TaskKnows
  <2>4. task[t].pc = "s_spawn" => task[t].session # s
    BY <1>2, <2>3 DEF Exited
  <2>5. QED
    BY <1>1, <1>3, <1>4, <1>6, <2>1, <2>2, <2>3, <2>4, OthersKnow
<1>7. \A x \in SessionIds : SessionKnown(x)'
  BY <1>1, <1>2, <1>3, EntryGone DEF Alive, Exited
<1>8. QED
  BY <1>5, <1>6, <1>7 DEF OwnersInv

\* A task is cancelled: what it had published stays published.
LEMMA AbandonOwned ==
  ASSUME RInv, OwnersInv, RowsStay, NEW u \in Tasks, abandon(u)
  PROVE  OwnersInv'
<1>1. Return(u) /\ UNCHANGED <<mode, runtime, runtime_instances, active, process, recording>>
  BY DEF abandon, world
<1>2. task[u].pc \in Holding => task[u].room \in Rooms
  BY DEF RInv, Placed, Holding
<1>3. \A t \in Tasks : t # u /\ task[t].pc \in Holding => room_lock'[task[t].room] = t
  BY <1>2, LocksKept DEF abandon, Release
<1>4. QED
  BY <1>1, <1>3, QuietReturn

\* A call begins.
LEMMA CallOwned ==
  ASSUME RInv, OwnersInv, RowsStay, NEW c \in Callers, NEW r \in Rooms,
         call_start_recording(c, r) \/ call_stop_recording(c, r)
  PROVE  OwnersInv'
<1>1. PICK pc \in {"s_lock", "p_lock"} :
        task' = [task EXCEPT ![c] = [pc |-> pc, room |-> r, session |-> NULL]]
  BY DEF call_start_recording, call_stop_recording
<1> DEFINE row == [pc |-> pc, room |-> r, session |-> NULL]
<1>2. /\ c \in Tasks /\ row \in TaskRow /\ row.pc = pc
      /\ pc \notin HasSession \cup Holding \cup AfterExit \cup {"s_check", "s_spawn", "w_wait"}
  BY DEF Tasks, TaskRow, Pcs, HasSession, Holding, AfterExit, Finalizing
<1>3. UNCHANGED <<mode, runtime, runtime_instances, active, process, recording, room_lock>>
  BY DEF call_start_recording, call_stop_recording, world, service
<1>4. task' = [task EXCEPT ![c] = row] /\ task'[c] = row
  BY <1>1, <1>2 DEF RInv
<1> HIDE DEF row
<1>5. TaskKnows(c)'
  BY <1>2, <1>4 DEF TaskKnows, AfterExit
<1>6. \A t \in Tasks : t # c /\ task[t].pc \in Holding => room_lock'[task[t].room] = t
  BY <1>2, <1>3, LocksKept
<1>7. QED
  BY <1>2, <1>3, <1>4, <1>5, <1>6, FinalizedExited, QuietStep

\* A stop goes from one signal to the next.
LEMMA TimeoutOwned ==
  ASSUME RInv, OwnersInv, RowsStay, NEW u \in Tasks, stop_timeout(u)
  PROVE  OwnersInv'
<1> DEFINE s == task[u].session
<1>1. /\ task[u].pc \in {"p_stop", "p_terminate"} /\ s \in SessionIds /\ process[s] = "running"
      /\ UNCHANGED <<mode, runtime, runtime_instances, recording, active, room_lock>>
      /\ process' = process \/ process' = [process EXCEPT ![s] = "killed"]
  BY DEF stop_timeout, At, RInv, Placed, HasSession, world, service
<1>2. PICK pc \in {"p_terminate", "p_kill"} : Goto(u, pc)
  BY DEF stop_timeout
<1>3. /\ {"p_stop", "p_terminate", "p_kill"} \subseteq HasSession
      /\ pc \notin Holding \cup AfterExit \cup {"s_check", "s_spawn", "w_wait"}
  BY DEF HasSession, Holding, AfterExit, Finalizing
<1>4. task'[u].pc = pc /\ task'[u].session = s /\ \A t \in Tasks : t # u => task'[t] = task[t]
  BY <1>2 DEF Goto, RInv, TaskRow
<1>5. \A x \in SessionIds :
        process'[x] = process[x] \/ (process[x] = "running" /\ process'[x] = "killed")
  BY <1>1 DEF RInv
<1> HIDE DEF s
<1>6. sessions[s].status # "none"
  BY <1>1, <1>3 DEF OwnersInv, TaskKnows, s
<1>7. TaskKnows(u)'
  <2>1. sessions'[s].status # "none"
    BY <1>1, <1>6 DEF RowsStay
  <2>2. QED
    BY <1>3, <1>4, <2>1 DEF TaskKnows, AfterExit
<1>8. ASSUME NEW t \in Tasks, t # u PROVE TaskKnows(t)'
  <2>1. /\ task[t].pc \in Holding => room_lock[task[t].room] = t
        /\ task[t].pc = "s_spawn" =>
             active[task[t].room] = task[t].session /\ process[task[t].session] = "none"
    BY DEF OwnersInv, TaskKnows
  <2>2. task[t].pc = "s_spawn" => task[t].session \in SessionIds
    BY DEF RInv, Placed, HasSession
  <2>3. task[t].pc = "s_spawn" => process'[task[t].session] = "none"
    BY <1>5, <2>1, <2>2
  <2>4. \A x \in SessionIds : process[x] \in Exited => process'[x] \in Exited
    BY <1>5 DEF Exited
  <2>5. QED
    BY <1>1, <1>4, <1>8, <2>1, <2>3, <2>4, OthersKnow
<1>9. \A x \in SessionIds : SessionKnown(x)'
  BY <1>1, <1>5, SessionStays DEF Alive, Exited
<1>10. QED
  BY <1>7, <1>8, <1>9 DEF OwnersInv

\* FFmpeg exits.
LEMMA ExitOwned ==
  ASSUME RInv, OwnersInv, RowsStay, NEW s \in SessionIds, process_exits(s)
  PROVE  OwnersInv'
<1>1. UNCHANGED <<mode, runtime, runtime_instances, recording, active, room_lock, task>>
  BY DEF process_exits, world, service
<1>2. \A x \in SessionIds :
        process'[x] = process[x] \/ (process[x] \in Alive /\ process'[x] \in Exited)
  BY DEF process_exits, RInv
<1>3. ASSUME NEW t \in Tasks PROVE TaskKnows(t)'
  <2>1. /\ task[t].pc \in Holding => room_lock[task[t].room] = t
        /\ task[t].pc = "s_spawn" =>
             active[task[t].room] = task[t].session /\ process[task[t].session] = "none"
    BY DEF OwnersInv, TaskKnows
  <2>2. task[t].pc = "s_spawn" => task[t].session \in SessionIds
    BY DEF RInv, Placed, HasSession
  <2>3. task[t].pc = "s_spawn" => process'[task[t].session] = "none"
    BY <1>2, <2>1, <2>2 DEF Alive
  <2>4. \A x \in SessionIds : process[x] \in Exited => process'[x] \in Exited
    BY <1>2 DEF Exited
  <2>5. QED
    BY <1>1, <2>1, <2>3, <2>4, OthersKnow
<1>4. \A x \in SessionIds : SessionKnown(x)'
  <2>1. ASSUME NEW x \in SessionIds PROVE SessionKnown(x)'
    <3>1. /\ process[x] = "none" => process'[x] = "none"
          /\ process[x] \in Alive => process'[x] \in Alive \cup Exited
          /\ process[x] \in Exited => process'[x] = process[x]
      BY <1>2 DEF Alive, Exited
    <3>2. QED
      BY <1>1, <3>1, SessionStays
  <2>2. QED
    BY <2>1
<1>5. QED
  BY <1>3, <1>4 DEF OwnersInv

\* The wall clock, and the calls of close(): the memory stays as it is.
LEMMA CloseOwned ==
  ASSUME RInv, OwnersInv, RowsStay, close \/ \E at \in Times : clock_moves(at)
  PROVE  OwnersInv'
<1>1. /\ UNCHANGED <<runtime, runtime_instances, recording, active, room_lock, process>>
      /\ mode' # "down" => mode # "down"
  BY DEF close, clock_moves, world, service
<1>2. ASSUME NEW t \in Tasks PROVE TaskKnows(t)'
  <2>1. task'[t] = task[t] \/ task'[t].pc = "p_lock"
    BY DEF close, clock_moves, RInv
  <2>2. CASE task'[t].pc = "p_lock"
    BY <2>2 DEF TaskKnows, HasSession, Holding, AfterExit, Finalizing
  <2>3. CASE task'[t] = task[t]
    <3>1. /\ task[t].pc \in Holding => room_lock[task[t].room] = t
          /\ task[t].pc = "s_spawn" =>
               active[task[t].room] = task[t].session /\ process[task[t].session] = "none"
      BY DEF OwnersInv, TaskKnows
    <3>2. QED
      BY <1>1, <2>3, <3>1, OthersKnow
  <2>4. QED
    BY <2>1, <2>2, <2>3
<1>3. \A x \in SessionIds : SessionKnown(x)'
  BY <1>1, SessionStays DEF Alive, Exited, RInv
<1>4. QED
  BY <1>2, <1>3 DEF OwnersInv

\* The application ends: no task is left to know anything.
LEMMA LostOwned ==
  ASSUME RInv, OwnersInv, RowsStay, MemoryLost
  PROVE  OwnersInv'
<1>1. \A t \in Tasks : TaskKnows(t)'
  BY DEF MemoryLost, TaskKnows, Idle, HasSession, Holding, AfterExit, Finalizing
<1>2. ASSUME NEW s \in SessionIds PROVE SessionKnown(s)'
  <2>1. mode' = "down" /\ ~recording'[s].finalized
    BY DEF MemoryLost, Fresh
  <2>2. UNCHANGED <<vars, runtime_instances, process>>
    BY DEF MemoryLost
  <2>3. SessionKnown(s)
    BY DEF OwnersInv
  <2>4. QED
    BY <2>1, <2>2, <2>3 DEF SessionKnown, vars
<1>3. QED
  BY <1>1, <1>2 DEF OwnersInv

\* The application starts again: a process that is alive is not its own.
LEMMA RestartOwned ==
  ASSUME RInv, OwnersInv, RowsStay, NEW instance \in Runtimes, restart(instance),
         \A s \in SessionIds : sessions[s].status = "none" => sessions'[s].status = "none"
  PROVE  OwnersInv'
<1>1. /\ UNCHANGED <<recording, active, room_lock, process, task>>
      /\ runtime' = instance /\ instance \notin runtime_instances
      /\ runtime_instances \subseteq runtime_instances'
  BY DEF restart, service
<1>2. ASSUME NEW t \in Tasks PROVE TaskKnows(t)'
  <2>1. /\ task[t].pc \in Holding => room_lock[task[t].room] = t
        /\ task[t].pc = "s_spawn" =>
             active[task[t].room] = task[t].session /\ process[task[t].session] = "none"
    BY DEF OwnersInv, TaskKnows
  <2>2. QED
    BY <1>1, <2>1, OthersKnow
<1>3. ASSUME NEW s \in SessionIds PROVE SessionKnown(s)'
  <2>1. SessionKnown(s)
    BY DEF OwnersInv
  <2>2. CASE sessions[s].status = "none"
    BY <1>1, <2>1, <2>2 DEF SessionKnown, Alive
  <2>3. CASE sessions[s].status # "none"
    <3>1. /\ sessions'[s].status # "none" /\ sessions'[s].room = sessions[s].room
          /\ intervals'[s][1].start = intervals[s][1].start
      BY <2>3 DEF RowsStay
    <3>2. intervals[s][1].start.runtime \in runtime_instances /\ sessions[s].room \in Rooms
      BY <2>1, <2>3 DEF SessionKnown
    <3>3. intervals'[s][1].start.runtime # runtime'
      BY <1>1, <3>1, <3>2
    <3>4. QED
      BY <1>1, <2>1, <3>1, <3>2, <3>3 DEF SessionKnown
  <2>4. QED
    BY <2>2, <2>3
<1>4. QED
  BY <1>2, <1>3 DEF OwnersInv

-----------------------------------------------------------------------------
\* Every step of the service keeps OwnersInv.
LEMMA OwnersStep ==
  ASSUME RInv, IInv, OwnersInv, RecordingNext
  PROVE  OwnersInv'
<1> USE RowsStayLemma
<1>1. ASSUME NEW t \in Tasks, TaskStep(t) PROVE OwnersInv'
  <2>1. CASE t \in Callers /\ StartStep(t)
    BY <2>1, StartQuiet, CommitOwned, SpawnOwned, NoSpawnOwned DEF StartStep
  <2>2. CASE StopStep(t)
    BY <2>2, StopQuiet, TimeoutOwned DEF StopStep
  <2>3. CASE t \in SessionIds /\ _wait_for_exit(t)
    BY <2>3, FinalizeQuiet
  <2>4. CASE FinalizeStep(t)
    BY <2>4, FinalizeQuiet, PopOwned DEF FinalizeStep
  <2>5. QED
    BY <1>1, <2>1, <2>2, <2>3, <2>4 DEF TaskStep
<1>2. ASSUME NEW instance \in Runtimes, restart(instance) PROVE OwnersInv'
  <2>1. \A s \in SessionIds : sessions[s].status = "none" => sessions'[s].status = "none"
    BY <1>2 DEF restart, vars, recover_interrupted, Abandoned
  <2>2. QED
    BY <1>2, <2>1, RestartOwned
<1>3. CASE \E t \in Tasks : TaskStep(t) \/ abandon(t)
  BY <1>1, <1>3, AbandonOwned
<1>4. CASE \E instance \in Runtimes : restart(instance)
  BY <1>2, <1>4
<1>5. CASE close \/ closed \/ crash \/ \E at \in Times : clock_moves(at)
  BY <1>5, CloseOwned, LostOwned DEF closed, crash
<1>6. QED
  BY <1>3, <1>4, <1>5, CallOwned, ExitOwned DEF RecordingNext

\* An entry that a step takes away is one of a finalized recording, or of one
\* that has never run.
LEMMA EntryStep ==
  ASSUME RInv, OwnersInv, RecordingNext, mode' # "down",
         NEW r \in Rooms, active[r] # NULL, active'[r] # active[r]
  PROVE  recording[active[r]].finalized \/ process[active[r]] = "none"
<1>1. ASSUME NEW c \in Tasks, NEW s \in SessionIds, start_session_committed(c, s)
      PROVE  recording[active[r]].finalized
  <2>1. task[c].pc = "s_check" /\ task[c].room = r
    BY <1>1 DEF start_session_committed, At, RInv
  <2>2. QED
    BY <2>1 DEF OwnersInv, TaskKnows
<1>2. ASSUME NEW c \in Tasks, supervisor_not_started(c)
      PROVE  process[active[r]] = "none"
  <2>1. task[c].pc = "s_spawn" /\ task[c].room = r
    BY <1>2 DEF supervisor_not_started, At, RInv
  <2>2. QED
    BY <2>1 DEF OwnersInv, TaskKnows
<1>3. ASSUME NEW u \in Tasks, finalize_popped(u)
      PROVE  recording[active[r]].finalized
  <2>1. task[u].pc = "f_pop" /\ task[u].session = active[r]
    BY <1>3 DEF finalize_popped, At, RInv
  <2>2. QED
    BY <2>1 DEF OwnersInv, TaskKnows, Finalizing
<1>4. \/ \E c \in Callers, s \in SessionIds : start_session_committed(c, s)
      \/ \E c \in Callers : supervisor_not_started(c)
      \/ \E u \in Tasks : finalize_popped(u)
  BY DEF RecordingNext, TaskStep, StartStep, StopStep, FinalizeStep,
         start_locked, start_refused, supervisor_started, _fail_started_session, fail_recorded,
         stop_locked, stop_timeout, stop_exited, _wait_for_exit, finalize_locked,
         _close_recipient_session, finalize_recorded, abandon, call_start_recording,
         call_stop_recording, close, closed, crash, MemoryLost, restart, process_exits,
         clock_moves, service
<1>5. Callers \subseteq Tasks
  BY DEF Tasks
<1>6. QED
  BY <1>1, <1>2, <1>3, <1>4, <1>5

\* What the tasks rely on holds at every await, in every behaviour.
LEMMA OwnersAlways == RecordingSpec => []OwnersInv
<1>1. RecordingInit => OwnersInv
  BY DEF RecordingInit, Init, NoRow, OwnersInv, TaskKnows, SessionKnown, Idle, Fresh, Alive,
         HasSession, Holding, AfterExit, Finalizing
<1>2. OwnersInv /\ UNCHANGED rvars => OwnersInv'
  BY DEF OwnersInv, TaskKnows, SessionKnown, rvars, vars, world, service
<1>3. RecordingSpec => []IInv
  BY ServiceImplementsStore, Invariance DEF ImplementsStore
<1>4. QED
  BY <1>1, <1>2, <1>3, RecordingInvariance, OwnersStep, PTL DEF RecordingSpec

\* Whatever starts, stops, exits, cancelled tasks and shutdowns do to each
\* other: each FFmpeg process of this runtime that is alive is the one that
\* its room's entry in _active names, so a stop can reach it.
THEOREM RecorderOwned == RecordingSpec => []EveryRecorderHasAnOwner
<1>1. OwnersInv => EveryRecorderHasAnOwner
  BY DEF OwnersInv, SessionKnown, EveryRecorderHasAnOwner
<1>2. QED
  BY <1>1, OwnersAlways, PTL

\* Whenever the finalizer of an old recording comes to its end: the entry of
\* the room's next one, once published, stays until that one is finalized.
THEOREM SuccessorOwned == RecordingSpec => SuccessorKept
<1> DEFINE EntriesKept ==
      \A r \in Rooms :
        active[r] # NULL /\ active'[r] # active[r] /\ mode' # "down"
          => recording[active[r]].finalized \/ process[active[r]] = "none"
<1>1. RInv /\ OwnersInv /\ RecordingNext => EntriesKept
  BY EntryStep
<1>2. RInv /\ OwnersInv /\ [RecordingNext]_rvars => [EntriesKept]_rvars
  <2> HIDE DEF EntriesKept
  <2>1. QED
    BY <1>1
<1>3. QED
  BY <1>2, OwnersAlways, RecordingInvariance, PTL DEF RecordingSpec, SuccessorKept

-----------------------------------------------------------------------------
(***************************************************************************)
(* Every recording is reported once, and as it ended.                      *)
(***************************************************************************)
\* The awaits of a start that has its session, of a stop that has one, and all
\* that lie behind the spawn of the session's process.
Starting == {"s_spawn", "s_fail", "s_fail_record"}
Stopping == {"p_stop", "p_terminate", "p_kill"}
Spawned == Stopping \cup {"w_wait"} \cup AfterExit

\* What a task will still do for its session, so nobody has done it.
Place(t) ==
  LET s == task[t].session
  IN /\ task[t].pc \in Starting => process[s] = "none" /\ report[s].result = NULL
     /\ task[t].pc \in {"s_spawn", "s_fail"} => sessions[s].status = "active"
     /\ task[t].pc \in {"s_fail", "s_fail_record"} => \A r \in Rooms : active[r] # s
     /\ task[t].pc \in Spawned =>
          process[s] # "none" /\ (~recording[s].finalized => report[s].result = NULL)
     /\ task[t].pc \in Finalizing => finalize_lock[s] = t
     /\ task[t].pc \in {"f_end", "f_record"} => report[s].result = NULL

\* Only one start works on a session.
OneStart ==
  \A t, u \in Tasks :
    task[t].pc \in Starting /\ task[u].pc \in Starting /\ task[t].session = task[u].session
      => t = u

\* StatusTellsTheExit for one session.
Told(s) ==
  LET status == sessions[s].status
      reason == report[s].end_reason
  IN /\ reason # NULL <=> status \in Terminal /\ ~sessions[s].recovered
     /\ reason # NULL => process[s] \notin Alive
     /\ status = "failed" =>
          \/ reason = "recorder_start_failed" /\ process[s] = "none"
          \/ reason = "ffmpeg_exit_nonzero" /\ process[s] = "error"
          \/ reason = "wait_failed" /\ process[s] = "unread"
     /\ status = "ended" =>
          reason = "explicit_stop" \/ (reason = "natural_exit" /\ process[s] = "ok")
     /\ status = "interrupted" => sessions[s].recovered \/ reason = "app_shutdown"
     /\ report[s].result \in {"ok", "error"} => report[s].result = process[s]

\* An entry is of a session of its room; one that is not finalized is not
\* reported yet.
Entered(s) ==
  /\ sessions[s].status = "none" => report[s].result = NULL
  /\ \A r \in Rooms : active[r] = s =>
       /\ sessions[s].status # "none" /\ sessions[s].room = r
       /\ ~recording[s].finalized => report[s].result = NULL

\* Without an application nothing is under way.
Rest == mode = "down" => /\ \A t \in Tasks : task[t].pc = "idle"
                         /\ \A r \in Rooms : active[r] = NULL

ReportRow == [end_reason : EndReasons \cup {NULL}, result : Results \cup {NULL}, error : BOOLEAN]

EndsInv ==
  /\ report \in [SessionIds -> ReportRow]
  /\ (\A t \in Tasks : Place(t)) /\ OneStart /\ Rest
  /\ \A s \in SessionIds : Told(s) /\ Entered(s)

\* A step that moves one task, to pc with session s.
Moves(u, pc, s) ==
  /\ task'[u].pc = pc /\ task'[u].session = s
  /\ \A t \in Tasks : t # u => task'[t] = task[t]

\* Goto takes one task from await to await, its session unchanged.
LEMMA GotoMoves ==
  ASSUME RInv, NEW u \in Tasks, NEW pc, Goto(u, pc)
  PROVE  Moves(u, pc, task[u].session)
BY DEF RInv, Goto, TaskRow, Moves

\* Return takes one task out of its session.
LEMMA ReturnMoves ==
  ASSUME RInv, NEW u \in Tasks, Return(u)
  PROVE  Moves(u, "idle", NULL)
BY DEF RInv, Return, Idle, Moves

\* How the groups of awaits lie to each other.
LEMMA PcGroups ==
  /\ Starting \cup Spawned \cup Finalizing \subseteq HasSession
  /\ Starting \cap Spawned = {} /\ Finalizing \subseteq AfterExit /\ AfterExit \subseteq Spawned
  /\ "idle" \notin Starting \cup Spawned
  /\ Starting \cap Finalizing = {}
BY DEF Starting, Spawned, Stopping, AfterExit, Finalizing, HasSession

\* A step that moves one task and tells nothing; processes may go on.
LEMMA EndsMove ==
  ASSUME RInv, EndsInv, NEW u \in Tasks, NEW pc, NEW s, Moves(u, pc, s),
         UNCHANGED <<vars, report>>, mode' # "down",
         \A x \in SessionIds :
           /\ process'[x] = process[x] \/ (process[x] \in Alive /\ process'[x] # "none")
           /\ recording[x].finalized => recording'[x].finalized,
         \A r \in Rooms : active'[r] \in {active[r], NULL},
         \A t \in Tasks : t # u /\ task[t].pc \in Finalizing =>
            finalize_lock'[task[t].session] = t,
         Place(u)',
         pc \in Starting => task[u].pc \in Starting /\ s = task[u].session
  PROVE  EndsInv'
<1>1. ASSUME NEW t \in Tasks, t # u PROVE Place(t)'
  <2>1. Place(t) /\ task'[t] = task[t]
    BY <1>1 DEF EndsInv, Moves
  <2>2. task[t].pc \in HasSession => task[t].session \in SessionIds
    BY DEF RInv, Placed
  <2>3. task[t].pc \in Starting => process'[task[t].session] = "none"
    BY <2>1, <2>2, PcGroups DEF Place, Alive
  <2>4. task[t].pc \in Spawned => process'[task[t].session] # "none"
    BY <2>1, <2>2, PcGroups DEF Place
  <2>5. task[t].pc \in Spawned /\ ~recording'[task[t].session].finalized =>
          report[task[t].session].result = NULL
    BY <2>1, <2>2, PcGroups DEF Place
  <2>6. task[t].pc \in {"s_fail", "s_fail_record"} => \A r \in Rooms : active'[r] # task[t].session
    <3>1. {"s_fail", "s_fail_record"} \subseteq HasSession
      BY DEF HasSession
    <3>2. task[t].pc \in HasSession => task[t].session # NULL
      BY <2>2, RecordingAssumption
    <3> QED BY <2>1, <2>2, <3>1, <3>2 DEF Place
  <2> QED BY <1>1, <2>1, <2>3, <2>4, <2>5, <2>6 DEF Place, vars
<1>2. OneStart'
  <2> SUFFICES ASSUME NEW t \in Tasks, NEW v \in Tasks, task'[t].pc \in Starting,
                      task'[v].pc \in Starting, task'[t].session = task'[v].session
               PROVE  t = v
    BY DEF OneStart
  <2>1. task[t].pc \in Starting /\ task'[t].session = task[t].session
    BY DEF Moves
  <2>2. task[v].pc \in Starting /\ task'[v].session = task[v].session
    BY DEF Moves
  <2> QED BY <2>1, <2>2 DEF EndsInv, OneStart
<1>3. ASSUME NEW x \in SessionIds PROVE Told(x)' /\ Entered(x)'
  <2>1. Told(x) /\ Entered(x) /\ x # NULL
    BY RecordingAssumption DEF EndsInv
  <2>2. Told(x)'
    BY <2>1 DEF Told, vars, Alive
  <2>3. Entered(x)'
    BY <2>1 DEF Entered, vars
  <2> QED BY <2>2, <2>3
<1> QED BY <1>1, <1>2, <1>3 DEF EndsInv, Rest

\* Whom the finalizer's lock belongs to is not changed for the others.
LEMMA FinalizerKept ==
  ASSUME RInv, EndsInv, NEW u \in Tasks,
         \/ UNCHANGED finalize_lock
         \/ /\ task[u].session \in SessionIds /\ finalize_lock[task[u].session] = NULL
            /\ finalize_lock' = [finalize_lock EXCEPT ![task[u].session] = u]
         \/ /\ task[u].pc \in Finalizing
            /\ finalize_lock' = [finalize_lock EXCEPT ![task[u].session] = NULL]
  PROVE  \A t \in Tasks : t # u /\ task[t].pc \in Finalizing => finalize_lock'[task[t].session] = t
<1> SUFFICES ASSUME NEW t \in Tasks, t # u, task[t].pc \in Finalizing
             PROVE  finalize_lock'[task[t].session] = t
  OBVIOUS
<1>1. finalize_lock[task[t].session] = t /\ task[t].session \in SessionIds
  BY PcGroups DEF EndsInv, Place, RInv, Placed
<1>2. task[u].pc \in Finalizing => finalize_lock[task[u].session] = u /\ task[u].session \in SessionIds
  BY PcGroups DEF EndsInv, Place, RInv, Placed
<1>3. t # NULL
  BY RecordingAssumption, NoSession DEF Tasks
<1> QED BY <1>1, <1>2, <1>3 DEF RInv

\* A task at none of these awaits has nothing to do for a session.
LEMMA NoDuty ==
  ASSUME NEW u \in Tasks, NEW pc, NEW s, Moves(u, pc, s), pc \notin Starting \cup Spawned
  PROVE  Place(u)'
BY DEF Moves, Place, Starting, Spawned, Stopping, AfterExit, Finalizing

\* A task that waits for the exit, or for the finalizer's lock.
LEMMA SpawnedPlace ==
  ASSUME NEW u \in Tasks, NEW pc, NEW s, Moves(u, pc, s),
         pc \in Stopping \cup {"w_wait", "f_lock"}, process'[s] # "none",
         ~recording'[s].finalized => report'[s].result = NULL
  PROVE  Place(u)' /\ pc \notin Starting \cup Finalizing
BY DEF Moves, Place, Starting, Spawned, Stopping, AfterExit, Finalizing

\* A task that returns, or goes on to an await without a session.
LEMMA EndsPlain ==
  ASSUME RInv, EndsInv, NEW u \in Tasks, NEW pc, NEW s, Moves(u, pc, s),
         pc \notin Starting \cup Spawned,
         UNCHANGED <<vars, report, process, recording>>, mode' # "down",
         \A r \in Rooms : active'[r] \in {active[r], NULL},
         \/ UNCHANGED finalize_lock
         \/ /\ task[u].pc \in Finalizing
            /\ finalize_lock' = [finalize_lock EXCEPT ![task[u].session] = NULL]
  PROVE  EndsInv'
BY EndsMove, NoDuty, FinalizerKept

\* What a task goes on from, with its session.
LEMMA OldPlace ==
  ASSUME RInv, EndsInv, NEW u \in Tasks
  PROVE  /\ Place(u)
         /\ task[u].pc \in HasSession => task[u].session \in SessionIds
         /\ task[u].pc # "idle" => task[u].room \in Rooms
BY DEF EndsInv, RInv, Placed

\* The call of an operation, and its steps up to the lock of the room.
LEMMA EndsCalls ==
  ASSUME RInv, EndsInv, NEW u \in Tasks, NEW r \in Rooms,
         call_start_recording(u, r) \/ call_stop_recording(u, r) \/ start_locked(u)
           \/ start_refused(u)
  PROVE  EndsInv'
<1>1. UNCHANGED <<vars, report, process, recording, active, finalize_lock>> /\ mode' # "down"
  BY DEF call_start_recording, call_stop_recording, start_locked, start_refused, world, service, At
<1>2. {"s_lock", "p_lock", "s_check", "idle"} \cap (Starting \cup Spawned) = {}
  BY DEF Starting, Spawned, Stopping, AfterExit, Finalizing
<1>3. \E pc \in {"s_lock", "p_lock", "s_check", "idle"}, s \in SessionIds \cup {NULL, task[u].session} :
        Moves(u, pc, s)
  <2>1. CASE call_start_recording(u, r) \/ call_stop_recording(u, r)
    <3>1. \E pc \in {"s_lock", "p_lock"} :
            task' = [task EXCEPT ![u] = [pc |-> pc, room |-> r, session |-> NULL]]
      BY <2>1 DEF call_start_recording, call_stop_recording
    <3> QED BY <3>1 DEF Moves, RInv
  <2>2. CASE start_locked(u) \/ start_refused(u)
    BY <2>2, GotoMoves, ReturnMoves DEF start_locked, start_refused
  <2> QED BY <2>1, <2>2
<1> QED BY <1>1, <1>2, <1>3, EndsPlain

\* A stop, from its lock to the exit of FFmpeg.
LEMMA EndsStop ==
  ASSUME RInv, OwnersInv, EndsInv, NEW u \in Tasks, StopStep(u)
  PROVE  EndsInv'
<1> DEFINE x == task[u].session
<1>1. /\ UNCHANGED <<vars, report, active, finalize_lock>> /\ mode' # "down"
      /\ "idle" \notin Starting \cup Spawned
      /\ Stopping \subseteq Spawned /\ "f_lock" \in Spawned
      /\ (Stopping \cup {"f_lock"}) \cap (Starting \cup Finalizing) = {}
      /\ Stopping \subseteq HasSession
  BY PcGroups DEF StopStep, stop_locked, stop_timeout, stop_exited, world, service, At,
                  Stopping, Spawned, AfterExit, Starting, Finalizing, HasSession
<1>2. CASE stop_locked(u)
  <2> DEFINE r == task[u].room
             s == active[r]
  <2>1. r \in Rooms /\ UNCHANGED process
    BY <1>2, OldPlace DEF stop_locked, At
  <2>2. CASE s = NULL \/ recording[s].finalized
    BY <1>1, <1>2, <2>1, <2>2, ReturnMoves, EndsPlain DEF stop_locked
  <2>3. CASE ~(s = NULL \/ recording[s].finalized)
    <3>1. /\ s \in SessionIds
          /\ \A y \in SessionIds : recording'[y].finalized = recording[y].finalized
      BY <1>2, <2>1, <2>3 DEF stop_locked, RInv
    <3>2. report[s].result = NULL
      BY <2>1, <2>3, <3>1 DEF EndsInv, Entered
    <3>3. CASE process[s] = "none"
      <4>1. Moves(u, "idle", NULL)
        BY <1>2, <2>3, <3>3, ReturnMoves DEF stop_locked
      <4> QED BY <1>1, <2>1, <3>1, <4>1, NoDuty, FinalizerKept, EndsMove
    <3>4. CASE process[s] # "none"
      <4>1. Moves(u, "p_stop", s)
        <5> DEFINE row == [task[u] EXCEPT !.pc = "p_stop", !.session = s]
        <5>1. task[u] \in TaskRow
          BY DEF RInv
        <5>2. row.pc = "p_stop" /\ row.session = s
          BY <5>1 DEF TaskRow
        <5>3. task' = [task EXCEPT ![u] = row]
          BY <1>2, <2>3, <3>4 DEF stop_locked
        <5> HIDE DEF row
        <5> QED BY <5>2, <5>3 DEF Moves, RInv
      <4>2. "p_stop" \in Stopping
        BY DEF Stopping
      <4>3. Place(u)'
        BY <1>1, <2>1, <3>1, <3>2, <3>4, <4>1, <4>2, SpawnedPlace
      <4> QED BY <1>1, <2>1, <3>1, <4>1, <4>2, <4>3, FinalizerKept, EndsMove
    <3> QED BY <3>3, <3>4
  <2> QED BY <2>2, <2>3
<1>3. CASE stop_timeout(u)
  <2>1. /\ task[u].pc \in Stopping /\ x \in SessionIds /\ UNCHANGED recording
        /\ process[x] = "running" /\ \E pc \in Stopping : Moves(u, pc, x)
    <3>1. task[u].pc \in Stopping
      BY <1>3 DEF stop_timeout, At, Stopping
    <3>2. process[x] = "running" /\ UNCHANGED recording /\ (Goto(u, "p_terminate") \/ Goto(u, "p_kill"))
      BY <1>3 DEF stop_timeout, service
    <3>3. Moves(u, "p_terminate", x) \/ Moves(u, "p_kill", x)
      BY <3>2, GotoMoves
    <3> QED BY <1>1, <3>1, <3>2, <3>3, OldPlace DEF Stopping
  <2>2. process' = process \/ process' = [process EXCEPT ![x] = "killed"]
    BY <1>3 DEF stop_timeout
  <2>3. PICK pc \in Stopping : Moves(u, pc, x)
    BY <2>1
  <2>4. \A y \in SessionIds :
          process'[y] = process[y] \/ (process[y] \in Alive /\ process'[y] # "none")
    BY <2>1, <2>2 DEF Alive, RInv
  <2>5. process'[x] # "none"
    BY <2>1, <2>4 DEF Alive
  <2>6. Place(u)'
    <3>1. ~recording[x].finalized => report[x].result = NULL
      BY <1>1, <2>1, OldPlace DEF Place
    <3> QED BY <1>1, <2>1, <2>3, <2>5, <3>1, SpawnedPlace
  <2> QED BY <1>1, <2>1, <2>3, <2>4, <2>6, FinalizerKept, EndsMove
<1>4. CASE stop_exited(u)
  <2>1. task[u].pc \in Stopping /\ x \in SessionIds /\ UNCHANGED <<recording, process>>
    <3>1. task[u].pc \in Stopping
      BY <1>4 DEF stop_exited, At, Stopping
    <3>2. UNCHANGED <<recording, process>>
      BY <1>4 DEF stop_exited, service
    <3> QED BY <1>1, <3>1, <3>2, OldPlace
  <2>2. CASE Return(u)
    BY <1>1, <2>1, <2>2, ReturnMoves, EndsPlain
  <2>3. CASE Goto(u, "f_lock")
    <3>1. Moves(u, "f_lock", x)
      BY <2>3, GotoMoves
    <3>2. Place(u)'
      <4>1. process[x] # "none" /\ (~recording[x].finalized => report[x].result = NULL)
        BY <1>1, <2>1, OldPlace DEF Place
      <4> QED BY <1>1, <2>1, <3>1, <4>1, SpawnedPlace
    <3> QED BY <1>1, <2>1, <3>1, <3>2, FinalizerKept, EndsMove
  <2> QED BY <1>4, <2>2, <2>3 DEF stop_exited
<1> QED BY <1>2, <1>3, <1>4 DEF StopStep

\* The finalizer, but for its two writes, and the wait task.
LEMMA EndsFinalize ==
  ASSUME RInv, OwnersInv, EndsInv, NEW u \in Tasks,
         \/ finalize_locked(u) \/ finalize_popped(u)
         \/ _wait_for_exit(u) /\ u \in SessionIds
  PROVE  EndsInv'
<1> DEFINE x == task[u].session
<1>1. UNCHANGED <<vars, report, process>> /\ mode' # "down"
  BY DEF finalize_locked, finalize_popped, _wait_for_exit, world, service, At
<1>2. CASE _wait_for_exit(u) /\ u \in SessionIds
  <2>1. task[u].pc = "w_wait" /\ Goto(u, "f_lock") /\ UNCHANGED <<active, recording, finalize_lock>>
    BY <1>2 DEF _wait_for_exit, At, service
  <2>2. "w_wait" \in Spawned
    BY DEF Spawned
  <2>3. Moves(u, "f_lock", x)
    BY <2>1, GotoMoves
  <2>4. Place(u)' /\ "f_lock" \notin Starting
    BY <1>1, <2>1, <2>2, <2>3, OldPlace, SpawnedPlace DEF Place
  <2> QED BY <1>1, <2>1, <2>3, <2>4, FinalizerKept, EndsMove
<1>3. CASE finalize_locked(u)
  <2>1. task[u].pc = "f_lock" /\ UNCHANGED active /\ finalize_lock[x] = NULL /\ x \in SessionIds
    <3>1. task[u].pc = "f_lock" /\ UNCHANGED active /\ finalize_lock[x] = NULL
      BY <1>3 DEF finalize_locked, At
    <3> QED BY <3>1, OldPlace DEF HasSession
  <2>2. CASE Return(u) /\ UNCHANGED <<recording, finalize_lock>>
    BY <1>1, <2>1, <2>2, ReturnMoves, EndsPlain, PcGroups
  <2>3. CASE ~(Return(u) /\ UNCHANGED <<recording, finalize_lock>>)
    <3>1. /\ ~recording[x].finalized /\ recording' = [recording EXCEPT ![x].finalized = TRUE]
          /\ finalize_lock' = [finalize_lock EXCEPT ![x] = u] /\ Goto(u, "f_end")
      BY <1>3, <2>3 DEF finalize_locked
    <3>2. /\ \A y \in SessionIds : recording[y].finalized => recording'[y].finalized
          /\ recording'[x].finalized /\ finalize_lock'[x] = u
      BY <2>1, <3>1 DEF RInv
    <3>3. Moves(u, "f_end", x)
      BY <3>1, GotoMoves
    <3>4. process[x] # "none" /\ report[x].result = NULL
      BY <2>1, <3>1, OldPlace DEF Place, Spawned, AfterExit
    <3>5. Place(u)' /\ "f_end" \notin Starting
      BY <1>1, <3>2, <3>3, <3>4 DEF Place, Moves, Starting
    <3> QED BY <1>1, <2>1, <3>1, <3>2, <3>3, <3>5, FinalizerKept, EndsMove
  <2> QED BY <2>2, <2>3
<1>4. CASE finalize_popped(u)
  <2>1. task[u].pc \in Finalizing /\ Return(u) /\ UNCHANGED recording
        /\ finalize_lock' = [finalize_lock EXCEPT ![x] = NULL]
        /\ active' = [active EXCEPT ![task[u].room] = IF @ = x THEN NULL ELSE @]
    BY <1>4 DEF finalize_popped, At, Finalizing
  <2>2. \A r \in Rooms : active'[r] \in {active[r], NULL}
    BY <2>1 DEF RInv
  <2> QED BY <1>1, <2>1, <2>2, ReturnMoves, EndsPlain, PcGroups
<1> QED BY <1>2, <1>3, <1>4

\* A spawn fails: the entry goes, and the session is still to be ended.
LEMMA EndsNoSpawn ==
  ASSUME RInv, OwnersInv, EndsInv, NEW u \in Tasks, supervisor_not_started(u)
  PROVE  EndsInv'
<1> DEFINE x == task[u].session
           r == task[u].room
<1>1. /\ task[u].pc = "s_spawn" /\ active' = [active EXCEPT ![r] = NULL] /\ Goto(u, "s_fail")
      /\ UNCHANGED <<vars, report, process, recording, finalize_lock>> /\ mode' # "down"
  BY DEF supervisor_not_started, world, service, At
<1>2. x \in SessionIds /\ r \in Rooms /\ Moves(u, "s_fail", x) /\ sessions[x].room = r /\ x # NULL
  BY <1>1, OldPlace, GotoMoves, RecordingAssumption DEF HasSession, OwnersInv, TaskKnows
<1>3. \A y \in Rooms : active'[y] \in {active[y], NULL}
  BY <1>1 DEF RInv
<1>4. \A y \in Rooms : active'[y] # x
  BY <1>1, <1>2 DEF EndsInv, Entered, RInv
<1>5. Place(u)'
  <2>1. process[x] = "none" /\ report[x].result = NULL /\ sessions[x].status = "active"
    BY <1>1, OldPlace DEF Place, Starting
  <2>2. "s_fail" \notin Spawned \cup Finalizing
    BY DEF Spawned, Stopping, AfterExit, Finalizing
  <2> QED BY <1>1, <1>2, <1>4, <2>1, <2>2 DEF Place, Moves, vars
<1>6. "s_spawn" \in Starting
  BY DEF Starting
<1> QED BY <1>1, <1>2, <1>3, <1>5, <1>6, FinalizerKept, EndsMove

\* FFmpeg exits, and the clock moves.
LEMMA EndsWorld ==
  ASSUME RInv, EndsInv,
         (\E s \in SessionIds : process_exits(s)) \/ (\E at \in Times : clock_moves(at))
  PROVE  EndsInv'
<1>1. UNCHANGED <<vars, report, mode, active, recording, finalize_lock, task>>
  BY DEF process_exits, clock_moves, world, service
<1>2. \A s \in SessionIds :
        process'[s] = process[s] \/ (process[s] \in Alive /\ process'[s] # "none")
  BY DEF process_exits, clock_moves, RInv, Exited
<1>3. ASSUME NEW t \in Tasks PROVE Place(t)'
  <2>1. task[t].pc \in Starting \cup Spawned => task[t].session \in SessionIds
    BY OldPlace, PcGroups
  <2>2. Place(t)
    BY OldPlace
  <2>3. task[t].pc \in Starting => process'[task[t].session] = "none"
    BY <1>2, <2>1, <2>2 DEF Place, Alive
  <2>4. task[t].pc \in Spawned => process'[task[t].session] # "none"
    BY <1>2, <2>1, <2>2 DEF Place
  <2> QED BY <1>1, <2>2, <2>3, <2>4 DEF Place, vars
<1>4. ASSUME NEW s \in SessionIds PROVE Told(s)' /\ Entered(s)'
  <2>1. Told(s) /\ Entered(s)
    BY DEF EndsInv
  <2>2. Told(s)'
    BY <1>1, <1>2, <2>1 DEF Told, vars, Alive
  <2> QED BY <1>1, <2>1, <2>2 DEF Entered, vars
<1> QED BY <1>1, <1>3, <1>4 DEF EndsInv, OneStart, Rest

\* A session row is committed, with its entry, without, or by a start that is
\* cancelled there.
LEMMA EndsCommit ==
  ASSUME RInv, IInv, OwnersInv, EndsInv, NEW u \in Tasks, NEW r \in Rooms, NEW s \in SessionIds,
         NEW pc \in {"s_spawn", "s_fail", "idle"}, NEW x, pc # "idle" => x = s,
         start_session(s, r, TRUE, Stamp), task[u].pc = "s_check", Moves(u, pc, x), mode' # "down",
         UNCHANGED <<report, process, recording, finalize_lock>>,
         IF pc = "s_spawn" THEN active' = [active EXCEPT ![r] = s] ELSE UNCHANGED active
  PROVE  EndsInv'
<1>1. /\ sessions[s].status = "none" /\ sessions'[s].status = "active" /\ sessions'[s].room = r
      /\ \A t \in SessionIds : t # s => sessions'[t] = sessions[t]
  BY NewRow
<1>2. sessions'[s].recovered = FALSE
  BY DEF start_session, NoRow, IInv, Typed
<1>3. process[s] = "none" /\ report[s].result = NULL /\ s # NULL
      /\ \A y \in Rooms : active[y] # s
  BY <1>1, RecordingAssumption DEF OwnersInv, SessionKnown, EndsInv, Entered
<1>4. \A t \in Tasks : task[t].pc \in HasSession => task[t].session \in SessionIds \ {s}
  BY <1>1, OldPlace DEF OwnersInv, TaskKnows
<1>5. ASSUME NEW t \in Tasks, t # u PROVE Place(t)'
  <2>1. Place(t) /\ task'[t] = task[t]
    BY <1>5, OldPlace DEF Moves
  <2>2. {"s_spawn", "s_fail", "s_fail_record"} \subseteq HasSession
    BY DEF HasSession
  <2>3. task[t].pc \in {"s_spawn", "s_fail"} => sessions'[task[t].session].status = "active"
    BY <1>1, <1>4, <2>1, <2>2 DEF Place
  <2>4. task[t].pc \in {"s_fail", "s_fail_record"} => \A y \in Rooms : active'[y] # task[t].session
    BY <1>4, <2>1, <2>2 DEF Place, RInv
  <2>5. task[t].pc \in Finalizing => finalize_lock[task[t].session] = t
    BY <2>1 DEF Place
  <2> QED BY <2>1, <2>3, <2>4, <2>5 DEF Place
<1>6. Place(u)'
  <2>1. CASE pc = "idle"
    BY <2>1, NoDuty, PcGroups
  <2>2. CASE pc # "idle"
    <3>1. pc \notin Spawned \cup Finalizing
      BY <2>2 DEF Spawned, Stopping, AfterExit, Finalizing
    <3>2. pc = "s_fail" => \A y \in Rooms : active'[y] # s
      BY <1>3
    <3> QED BY <1>1, <1>3, <2>2, <3>1, <3>2 DEF Place, Moves
  <2> QED BY <2>1, <2>2
<1>7. OneStart'
  <2> SUFFICES ASSUME NEW t \in Tasks, NEW v \in Tasks, task'[t].pc \in Starting,
                      task'[v].pc \in Starting, task'[t].session = task'[v].session, t # v
               PROVE  FALSE
    BY DEF OneStart
  <2>1. \A y \in Tasks : y # u /\ task'[y].pc \in Starting =>
          task'[y].session \in SessionIds \ {s} /\ task'[y] = task[y]
    BY <1>4, PcGroups DEF Moves
  <2>2. task'[u].pc \in Starting => task'[u].session = s
    BY PcGroups DEF Moves
  <2> QED BY <2>1, <2>2 DEF EndsInv, OneStart
<1>8. ASSUME NEW t \in SessionIds PROVE Told(t)' /\ Entered(t)'
  <2>1. Told(t) /\ Entered(t)
    BY DEF EndsInv
  <2>2. CASE t = s
    <3>1. report[s].end_reason = NULL
      BY <1>1, <2>1, <2>2 DEF Told, Terminal
    <3>2. Told(s)'
      BY <1>1, <1>2, <1>3, <3>1, RecordingAssumption DEF Told, Terminal, Results
    <3>3. Entered(s)'
      BY <1>1, <1>3 DEF Entered, RInv
    <3> QED BY <2>2, <3>2, <3>3
  <2>3. CASE t # s
    <3>1. Told(t)'
      BY <1>1, <2>1, <2>3 DEF Told
    <3>2. Entered(t)'
      BY <1>1, <2>1, <2>3 DEF Entered, RInv
    <3> QED BY <3>1, <3>2
  <2> QED BY <2>2, <2>3
<1> QED BY <1>5, <1>6, <1>7, <1>8 DEF EndsInv, Rest

\* What end_session_or_not does to the row of the session and to its report.
LEMMA EndsRow ==
  ASSUME RInv, IInv, report \in [SessionIds -> ReportRow], NEW s \in SessionIds,
         NEW status \in Terminal, NEW reason \in EndReasons, end_session_or_not(s, status, reason)
  PROVE  /\ report' \in [SessionIds -> ReportRow]
         /\ \A x \in SessionIds : report'[x].result = report[x].result
         /\ \A x \in SessionIds \ {s} : sessions'[x] = sessions[x] /\ report'[x] = report[x]
         /\ \/ sessions'[s] = sessions[s] /\ report'[s] = report[s]
            \/ /\ sessions[s].status = "active" /\ sessions'[s].status = status
               /\ sessions'[s].room = sessions[s].room
               /\ sessions'[s].recovered = sessions[s].recovered
               /\ report'[s].end_reason = reason
<1>1. CASE Writable(s) /\ _validate_close_clock(s, Stamp)
  <2>1. /\ sessions' = [sessions EXCEPT ![s].status = status, ![s].ended_at = Stamp.at,
                                       ![s].ended_runtime = Stamp.runtime]
        /\ sessions[s].status = "active"
        /\ report' = [report EXCEPT ![s].end_reason = reason]
    BY <1>1 DEF end_session_or_not, end_session, Writable
  <2>2. /\ sessions'[s].status = status /\ sessions'[s].room = sessions[s].room
        /\ sessions'[s].recovered = sessions[s].recovered
        /\ \A x \in SessionIds \ {s} : sessions'[x] = sessions[x]
    BY <2>1 DEF IInv, Typed, Session
  <2>3. /\ report' \in [SessionIds -> ReportRow] /\ report'[s].end_reason = reason
        /\ \A x \in SessionIds : report'[x].result = report[x].result
        /\ \A x \in SessionIds \ {s} : report'[x] = report[x]
    BY <2>1 DEF ReportRow
  <2> QED BY <2>1, <2>2, <2>3
<1>2. CASE ~(Writable(s) /\ _validate_close_clock(s, Stamp))
  BY <1>2 DEF end_session_or_not, vars
<1> QED BY <1>1, <1>2

\* What may be told of a session whose process is as it is.
Fitting(s, status, reason) ==
  /\ process[s] \notin Alive
  /\ \/ /\ status = "failed"
        /\ \/ reason = "recorder_start_failed" /\ process[s] = "none"
           \/ reason = "ffmpeg_exit_nonzero" /\ process[s] = "error"
           \/ reason = "wait_failed" /\ process[s] = "unread"
     \/ status = "ended" /\ (reason = "explicit_stop" \/ (reason = "natural_exit" /\ process[s] = "ok"))
     \/ status = "interrupted" /\ reason = "app_shutdown"

\* What was told of a session stays true while nothing of it changes.
LEMMA ToldSame ==
  ASSUME NEW x \in SessionIds, Told(x), sessions'[x] = sessions[x], report'[x] = report[x],
         process'[x] = process[x]
  PROVE  Told(x)'
BY DEF Told

\* A session ended with a fitting status and reason is told rightly.
LEMMA FitTold ==
  ASSUME NEW x \in SessionIds, NEW status \in Terminal, NEW reason, reason # NULL,
         Fitting(x, status, reason), UNCHANGED process,
         sessions'[x].status = status, ~sessions'[x].recovered,
         report'[x].end_reason = reason,
         report'[x].result \in {"ok", "error"} => report'[x].result = process'[x]
  PROVE  Told(x)'
BY DEF Told, Fitting

\* A session is ended, by the start that failed or by the finalizer.
LEMMA EndsTold ==
  ASSUME RInv, IInv, OwnersInv, EndsInv, NEW u \in Tasks, NEW pc, NEW s \in SessionIds,
         NEW status \in Terminal, NEW reason \in EndReasons, end_session_or_not(s, status, reason),
         Fitting(s, status, reason), task[u].session = s, Moves(u, pc, s),
         \/ task[u].pc = "s_fail" /\ pc = "s_fail_record"
         \/ task[u].pc = "f_end" /\ pc = "f_record",
         UNCHANGED <<process, recording, active, finalize_lock, mode>>, mode # "down"
  PROVE  EndsInv'
<1>1. /\ report' \in [SessionIds -> ReportRow]
      /\ \A x \in SessionIds : report'[x].result = report[x].result
      /\ \A x \in SessionIds \ {s} : sessions'[x] = sessions[x] /\ report'[x] = report[x]
      /\ \/ sessions'[s] = sessions[s] /\ report'[s] = report[s]
         \/ /\ sessions[s].status = "active" /\ sessions'[s].status = status
            /\ sessions'[s].room = sessions[s].room
            /\ sessions'[s].recovered = sessions[s].recovered
            /\ report'[s].end_reason = reason
  BY EndsRow DEF EndsInv
<1>2. /\ "s_fail" \in Starting /\ "s_fail_record" \in Starting
      /\ "f_end" \in Spawned \cap Finalizing /\ "f_record" \in Spawned \cap Finalizing
      /\ "s_fail_record" \notin Spawned \cup Finalizing /\ "f_record" \notin Starting
  BY DEF Starting, Spawned, Stopping, AfterExit, Finalizing
<1>3. Place(u)'
  <2>1. Place(u)
    BY OldPlace
  <2>2. CASE task[u].pc = "s_fail" /\ pc = "s_fail_record"
    BY <1>1, <1>2, <2>1, <2>2 DEF Place, Moves
  <2>3. CASE task[u].pc = "f_end" /\ pc = "f_record"
    BY <1>1, <1>2, <2>1, <2>3 DEF Place, Moves
  <2> QED BY <2>2, <2>3
<1>4. ASSUME NEW t \in Tasks, t # u PROVE Place(t)'
  <2>1. Place(t) /\ task'[t] = task[t]
    BY <1>4, OldPlace DEF Moves
  <2>2. task[t].pc \in Starting \cup Spawned => task[t].session \in SessionIds
    BY OldPlace, PcGroups
  <2>3. task[t].pc \in Starting => task[t].session # s
    <3>1. CASE task[u].pc = "s_fail"
      BY <1>2, <1>4, <3>1 DEF EndsInv, OneStart
    <3>2. CASE task[u].pc = "f_end"
      BY <1>2, <2>1, <3>2, OldPlace DEF Place
    <3> QED BY <3>1, <3>2
  <2>4. task[t].pc \in {"s_spawn", "s_fail"} => sessions'[task[t].session] = sessions[task[t].session]
    BY <1>1, <2>2, <2>3 DEF Starting
  <2>5. task[t].pc \in Starting \cup Spawned =>
          report'[task[t].session].result = report[task[t].session].result
    BY <1>1, <2>2
  <2>6. {"f_end", "f_record"} \subseteq Spawned
    BY <1>2
  <2> QED BY <2>1, <2>4, <2>5, <2>6 DEF Place
<1>5. OneStart'
  <2> SUFFICES ASSUME NEW t \in Tasks, NEW v \in Tasks, task'[t].pc \in Starting,
                      task'[v].pc \in Starting, task'[t].session = task'[v].session
               PROVE  t = v
    BY DEF OneStart
  <2>1. \A y \in Tasks : task'[y].pc \in Starting =>
          task[y].pc \in Starting /\ task'[y].session = task[y].session
    BY <1>2 DEF Moves
  <2> QED BY <2>1 DEF EndsInv, OneStart
<1>6. ASSUME NEW x \in SessionIds PROVE Told(x)' /\ Entered(x)'
  <2>1. Told(x) /\ Entered(x)
    BY DEF EndsInv
  <2>2. Entered(x)'
    <3>1. sessions'[x].room = sessions[x].room
      BY <1>1
    <3>2. sessions'[x].status = "none" <=> sessions[x].status = "none"
      BY <1>1, ActiveIsNotTerminal
    <3> QED BY <1>1, <2>1, <3>1, <3>2 DEF Entered
  <2>3. CASE sessions'[x] = sessions[x] /\ report'[x] = report[x]
    BY <2>1, <2>2, <2>3, ToldSame
  <2>4. CASE ~(sessions'[x] = sessions[x] /\ report'[x] = report[x])
    <3>1. /\ x = s /\ sessions[s].status = "active" /\ sessions'[s].status = status
          /\ sessions'[s].recovered = sessions[s].recovered /\ report'[s].end_reason = reason
      BY <1>1, <2>4
    <3>2. ~sessions[s].recovered
      BY <3>1, ActiveIsNotTerminal DEF IInv, RecoveredIsOver, Terminal
    <3>3. reason # NULL
      BY RecordingAssumption
    <3>4. report'[s].result \in {"ok", "error"} => report'[s].result = process'[s]
      BY <1>1, <2>1, <3>1 DEF Told
    <3>5. ~sessions'[s].recovered
      BY <3>1, <3>2
    <3> QED BY <2>2, <3>1, <3>3, <3>4, <3>5, FitTold
  <2> QED BY <2>2, <2>3, <2>4
<1> QED BY <1>1, <1>3, <1>4, <1>5, <1>6 DEF EndsInv, Rest

\* A start that failed ends its session; so does the finalizer.
LEMMA EndsEnded ==
  ASSUME RInv, IInv, OwnersInv, EndsInv, NEW u \in Tasks,
         _fail_started_session(u) \/ _close_recipient_session(u)
  PROVE  EndsInv'
<1> DEFINE x == task[u].session
<1>1. UNCHANGED <<process, recording, active, finalize_lock, mode>> /\ mode # "down"
  BY DEF _fail_started_session, _close_recipient_session, world, service, At
<1>2. CASE _fail_started_session(u)
  <2>1. /\ task[u].pc = "s_fail" /\ Goto(u, "s_fail_record")
        /\ end_session_or_not(x, "failed", "recorder_start_failed")
    BY <1>2 DEF _fail_started_session, At
  <2>2. x \in SessionIds /\ Moves(u, "s_fail_record", x)
    BY <2>1, OldPlace, GotoMoves DEF HasSession
  <2>3. "failed" \in Terminal /\ "recorder_start_failed" \in EndReasons
    BY DEF Terminal, EndReasons
  <2>4. Fitting(x, "failed", "recorder_start_failed")
    BY <2>1, OldPlace DEF Place, Starting, Fitting, Alive
  <2> QED BY <1>1, <2>1, <2>2, <2>3, <2>4, EndsTold
<1>3. CASE _close_recipient_session(u)
  <2> DEFINE status == Verdict(x)[1]
             reason == Verdict(x)[2]
  <2>1. task[u].pc = "f_end" /\ Goto(u, "f_record") /\ end_session_or_not(x, status, reason)
    BY <1>3 DEF _close_recipient_session, At
  <2>2. x \in SessionIds /\ Moves(u, "f_record", x) /\ process[x] \in Exited
    BY <2>1, OldPlace, GotoMoves DEF HasSession, Finalizing, OwnersInv, TaskKnows, AfterExit
  <2>3. recording[x].stop_reason \in Reasons \cup {NULL}
    BY <2>2 DEF RInv
  <2>4. status \in Terminal /\ reason \in EndReasons /\ Fitting(x, status, reason)
    BY <2>2, <2>3 DEF Verdict, Terminal, EndReasons, Reasons, Fitting, Exited, Alive
  <2> HIDE DEF status, reason
  <2> QED BY <1>1, <2>1, <2>2, <2>4, EndsTold
<1> QED BY <1>2, <1>3

\* FFmpeg runs, and its wait task takes the session over from the start.
LEMMA EndsSpawn ==
  ASSUME RInv, OwnersInv, EndsInv, NEW u \in Tasks, supervisor_started(u)
  PROVE  EndsInv'
<1> DEFINE x == task[u].session
<1>1. /\ task[u].pc = "s_spawn" /\ process' = [process EXCEPT ![x] = "running"]
      /\ UNCHANGED <<vars, report, recording, active, finalize_lock>> /\ mode' # "down"
      /\ task' = [task EXCEPT ![u] = Idle,
                              ![x] = [pc |-> "w_wait", room |-> task[u].room, session |-> x]]
  BY DEF supervisor_started, world, At
<1>2. x \in SessionIds /\ x \in Tasks
  BY <1>1, OldPlace DEF HasSession, Tasks
<1>3. process[x] = "none" /\ report[x].result = NULL /\ sessions[x].status = "active"
  BY <1>1, OldPlace DEF Place, Starting
<1>4. /\ task'[x].pc = "w_wait" /\ task'[x].session = x
      /\ \A t \in Tasks : t # x => task'[t] = IF t = u THEN Idle ELSE task[t]
      /\ process'[x] = "running" /\ \A y \in SessionIds : y # x => process'[y] = process[y]
  BY <1>1, <1>2 DEF RInv
<1>5. "w_wait" \notin Starting \cup Finalizing /\ Idle.pc \notin Starting \cup Spawned
  BY DEF Starting, Spawned, Stopping, AfterExit, Finalizing, Idle
<1>6. ASSUME NEW t \in Tasks PROVE Place(t)'
  <2>1. CASE t = x
    BY <1>1, <1>3, <1>4, <1>5, <2>1 DEF Place
  <2>2. CASE t # x /\ t = u
    <3>1. task'[t].pc \notin
            Starting \cup Spawned \cup {"s_spawn", "s_fail", "s_fail_record"} \cup Finalizing
      BY <1>4, <1>5, <2>2, PcGroups DEF Starting
    <3>2. {"f_end", "f_record"} \subseteq Finalizing
      BY DEF Finalizing
    <3> QED BY <3>1, <3>2 DEF Place
  <2>3. CASE t # x /\ t # u
    <3>1. task'[t] = task[t] /\ Place(t)
      BY <1>4, <2>3, OldPlace
    <3>2. task[t].pc \in Starting \cup Spawned => task[t].session \in SessionIds
      BY OldPlace, PcGroups
    <3>3. task[t].pc \in Starting => task[t].session # x
      BY <1>1, <2>3 DEF EndsInv, OneStart, Starting
    <3>4. task[t].pc \in Starting => process'[task[t].session] = "none"
      BY <1>4, <3>1, <3>2, <3>3 DEF Place
    <3>5. task[t].pc \in Spawned => process'[task[t].session] # "none"
      BY <1>4, <3>1, <3>2 DEF Place
    <3> QED BY <1>1, <3>1, <3>4, <3>5 DEF Place, vars
  <2> QED BY <2>1, <2>2, <2>3
<1>7. OneStart'
  <2>1. \A t \in Tasks : task'[t].pc \in Starting => task'[t] = task[t]
    BY <1>4, <1>5
  <2> QED BY <2>1 DEF EndsInv, OneStart
<1>8. ASSUME NEW y \in SessionIds PROVE Told(y)' /\ Entered(y)'
  <2>1. Told(y) /\ Entered(y)
    BY DEF EndsInv
  <2>2. sessions' = sessions /\ report' = report
    BY <1>1 DEF vars
  <2>3. Entered(y)'
    BY <1>1, <2>1, <2>2 DEF Entered
  <2>5. CASE y # x
    BY <1>4, <2>1, <2>2, <2>3, <2>5, ToldSame
  <2>4. CASE y = x
    <3>1. "active" \notin Terminal /\ NULL \notin {"ok", "error"}
      BY RecordingAssumption DEF Terminal, Results
    <3>2. Told(y)'
      BY <1>3, <2>1, <2>2, <2>4, <3>1 DEF Told
    <3> QED BY <2>3, <2>4, <3>2
  <2> QED BY <2>4, <2>5
<1> QED BY <1>1, <1>6, <1>7, <1>8 DEF EndsInv, Rest

\* What record_result does to the reports.
LEMMA ResultRow ==
  ASSUME report \in [SessionIds -> ReportRow], NEW x \in SessionIds, NEW result \in Results,
         NEW error \in BOOLEAN, record_result(x, result, error)
  PROVE  /\ report' \in [SessionIds -> ReportRow] /\ report'[x].result = result
         /\ \A y \in SessionIds : report'[y].end_reason = report[y].end_reason
         /\ \A y \in SessionIds \ {x} : report'[y] = report[y]
BY DEF record_result, ReportRow

\* A result is recorded, by the one task whose it is to record.
LEMMA EndsResult ==
  ASSUME RInv, OwnersInv, EndsInv, NEW u \in Tasks, NEW pc \in {"idle", "f_pop"}, NEW y,
         NEW x \in SessionIds, x = task[u].session, pc = "f_pop" => y = x,
         NEW result \in Results, NEW error \in BOOLEAN, record_result(x, result, error),
         UNCHANGED <<vars, process, recording, active, finalize_lock>>, mode' # "down",
         Moves(u, pc, y), result \in {"ok", "error"} => result = process[x],
         \/ task[u].pc = "s_fail_record" /\ pc = "idle"
         \/ task[u].pc = "f_record" /\ pc = "f_pop"
  PROVE  EndsInv'
<1>1. /\ report' \in [SessionIds -> ReportRow] /\ report'[x].result = result
      /\ \A z \in SessionIds : report'[z].end_reason = report[z].end_reason
      /\ \A z \in SessionIds \ {x} : report'[z] = report[z]
  BY ResultRow DEF EndsInv
<1>2. /\ "s_fail_record" \in Starting /\ "f_record" \in Spawned \cap Finalizing \cap AfterExit
      /\ "f_pop" \in Spawned \cap Finalizing /\ {"f_end", "f_record"} \subseteq Spawned \cap Finalizing
      /\ "idle" \notin Starting \cup Spawned \cup Finalizing /\ "f_pop" \notin Starting
  BY DEF Starting, Spawned, Stopping, AfterExit, Finalizing
<1>3. Place(u) /\ sessions[x].status # "none"
  BY <1>2, OldPlace, PcGroups DEF OwnersInv, TaskKnows
<1>4. task[u].pc = "f_record" => recording[x].finalized /\ process[x] # "none" /\ finalize_lock[x] = u
  BY <1>2, <1>3 DEF Place, OwnersInv, TaskKnows
<1>5. task[u].pc = "s_fail_record" => process[x] = "none" /\ \A r \in Rooms : active[r] # x
  BY <1>2, <1>3 DEF Place
<1>6. Place(u)'
  <2>1. CASE pc = "idle"
    BY <1>2, <2>1, NoDuty
  <2>2. CASE pc = "f_pop"
    BY <1>2, <1>4, <2>2 DEF Place, Moves
  <2> QED BY <2>1, <2>2
<1>7. ASSUME NEW t \in Tasks, t # u PROVE Place(t)'
  <2>1. Place(t) /\ task'[t] = task[t]
    BY <1>7, OldPlace DEF Moves
  <2>2. task[t].pc \in Starting \cup Spawned => task[t].session \in SessionIds
    BY OldPlace, PcGroups
  <2>3. task[t].pc \in Starting => task[t].session # x
    <3>1. CASE task[u].pc = "s_fail_record"
      BY <1>2, <1>7, <3>1 DEF EndsInv, OneStart
    <3>2. CASE task[u].pc = "f_record"
      BY <1>4, <2>1, <3>2 DEF Place
    <3> QED BY <3>1, <3>2
  <2>4. task[t].pc \in Spawned /\ ~recording[task[t].session].finalized => task[t].session # x
    BY <1>4, <1>5, <2>1 DEF Place
  <2>5. task[t].pc \in {"f_end", "f_record"} => task[t].session # x
    BY <1>2, <1>4, <1>5, <1>7, <2>1 DEF Place
  <2>6. task[t].pc \in Starting => report'[task[t].session].result = NULL
    BY <1>1, <2>1, <2>2, <2>3 DEF Place
  <2>7. task[t].pc \in Spawned /\ ~recording[task[t].session].finalized =>
          report'[task[t].session].result = NULL
    BY <1>1, <2>1, <2>2, <2>4 DEF Place
  <2>8. task[t].pc \in {"f_end", "f_record"} => report'[task[t].session].result = NULL
    BY <1>1, <1>2, <2>1, <2>2, <2>5 DEF Place
  <2> QED BY <2>1, <2>6, <2>7, <2>8 DEF Place, vars
<1>8. OneStart'
  <2>1. \A t \in Tasks : task'[t].pc \in Starting => task'[t] = task[t]
    BY <1>2 DEF Moves
  <2> QED BY <2>1 DEF EndsInv, OneStart
<1>9. ASSUME NEW z \in SessionIds PROVE Told(z)' /\ Entered(z)'
  <2>1. Told(z) /\ Entered(z) /\ sessions' = sessions /\ process' = process
    BY DEF EndsInv, vars
  <2>2. Told(z)'
    <3>1. (report'[z].result = result /\ z = x) \/ report'[z] = report[z]
      BY <1>1
    <3>2. report'[z].result \in {"ok", "error"} => report'[z].result = process'[z]
      BY <2>1, <3>1 DEF Told
    <3>3. report'[z].end_reason = report[z].end_reason
      BY <1>1
    <3> QED BY <2>1, <3>2, <3>3 DEF Told
  <2>3. Entered(z)'
    BY <1>1, <1>3, <1>4, <1>5, <2>1 DEF Entered
  <2> QED BY <2>2, <2>3
<1> QED BY <1>1, <1>6, <1>7, <1>8, <1>9 DEF EndsInv, Rest

\* A result is recorded by the start that failed, or by the finalizer.
LEMMA EndsRecorded ==
  ASSUME RInv, OwnersInv, EndsInv, NEW u \in Tasks, fail_recorded(u) \/ finalize_recorded(u)
  PROVE  EndsInv'
<1> DEFINE x == task[u].session
<1>1. UNCHANGED <<vars, process, recording, active, finalize_lock>> /\ mode' # "down"
  BY DEF fail_recorded, finalize_recorded, world, service, At
<1>2. CASE fail_recorded(u)
  <2>1. task[u].pc = "s_fail_record" /\ record_result(x, "none", TRUE) /\ Return(u)
    BY <1>2 DEF fail_recorded, At
  <2>2. x \in SessionIds /\ Moves(u, "idle", NULL) /\ "none" \in Results
    BY <2>1, OldPlace, ReturnMoves DEF HasSession, Results
  <2> QED BY <1>1, <2>1, <2>2, EndsResult
<1>3. CASE finalize_recorded(u)
  <2>1. /\ task[u].pc = "f_record" /\ Goto(u, "f_pop")
        /\ \/ record_result(x, "none", TRUE)
           \/ /\ process[x] # "unread"
              /\ \E failed \in BOOLEAN : record_result(x, process[x], failed)
    BY <1>3 DEF finalize_recorded, At
  <2>2. x \in SessionIds /\ Moves(u, "f_pop", x) /\ process[x] \in Exited
    BY <2>1, OldPlace, GotoMoves DEF HasSession, Finalizing, OwnersInv, TaskKnows, AfterExit
  <2>3. \E result \in Results, error \in BOOLEAN :
          record_result(x, result, error) /\ (result \in {"ok", "error"} => result = process[x])
    BY <2>1, <2>2 DEF Results, Exited
  <2> QED BY <1>1, <2>1, <2>2, <2>3, EndsResult
<1> QED BY <1>2, <1>3

\* A task is cancelled: its locks go, and a start may have committed its row.
LEMMA EndsAbandon ==
  ASSUME RInv, IInv, OwnersInv, EndsInv, NEW u \in Tasks, abandon(u)
  PROVE  EndsInv'
<1>1. Moves(u, "idle", NULL) /\ UNCHANGED <<report, process, recording, active>> /\ mode' # "down"
  BY ReturnMoves DEF abandon, world
<1>2. \/ UNCHANGED finalize_lock
      \/ /\ task[u].pc \in Finalizing
         /\ finalize_lock' = [finalize_lock EXCEPT ![task[u].session] = NULL]
  BY DEF abandon
<1>3. CASE UNCHANGED vars
  BY <1>1, <1>2, <1>3, EndsPlain, PcGroups
<1>4. CASE ~UNCHANGED vars
  <2>1. PICK new \in SessionIds : start_session(new, task[u].room, TRUE, Stamp)
    BY <1>4 DEF abandon
  <2>2. task[u].pc = "s_check" /\ task[u].room \in Rooms
    BY <1>4, OldPlace DEF abandon
  <2>3. UNCHANGED finalize_lock
    BY <1>2, <2>2 DEF Finalizing
  <2> QED BY <1>1, <2>1, <2>2, <2>3, EndsCommit
<1> QED BY <1>3, <1>4

\* close() calls the stops.
LEMMA EndsClose ==
  ASSUME RInv, EndsInv, close
  PROVE  EndsInv'
<1>1. UNCHANGED <<vars, report, active, recording, finalize_lock, process>> /\ mode' # "down"
  BY DEF close, service
<1>2. \A t \in Tasks : task'[t] = task[t] \/ task'[t].pc = "p_lock"
  BY DEF close, RInv
<1>3. "p_lock" \notin Starting \cup Spawned \cup Finalizing
  BY DEF Starting, Spawned, Stopping, AfterExit, Finalizing
<1>4. ASSUME NEW t \in Tasks PROVE Place(t)'
  <2>1. CASE task'[t] = task[t]
    BY <1>1, <2>1, OldPlace DEF Place, vars
  <2>2. CASE task'[t].pc = "p_lock"
    BY <1>3, <2>2 DEF Place
  <2> QED BY <1>2, <2>1, <2>2
<1>5. OneStart'
  <2>1. \A t \in Tasks : task'[t].pc \in Starting => task'[t] = task[t]
    BY <1>2, <1>3
  <2> QED BY <2>1 DEF EndsInv, OneStart
<1>6. ASSUME NEW y \in SessionIds PROVE Told(y)' /\ Entered(y)'
  <2>1. Told(y) /\ Entered(y) /\ sessions' = sessions
    BY <1>1 DEF EndsInv, vars
  <2> QED BY <1>1, <2>1, ToldSame DEF Entered
<1> QED BY <1>1, <1>4, <1>5, <1>6 DEF EndsInv, Rest

\* A session stays told when nothing is under way and no entry is left.
LEMMA EndsIdle ==
  ASSUME EndsInv, \A t \in Tasks : task'[t].pc = "idle", \A r \in Rooms : active'[r] = NULL,
         \A s \in SessionIds : Told(s)', UNCHANGED report,
         \A s \in SessionIds : sessions'[s].status = "none" => sessions[s].status = "none"
  PROVE  EndsInv'
<1>1. \A t \in Tasks : Place(t)'
  BY PcGroups DEF Place, Starting, Finalizing
<1>2. OneStart'
  BY PcGroups DEF OneStart
<1>3. ASSUME NEW s \in SessionIds PROVE Entered(s)'
  BY RecordingAssumption DEF EndsInv, Entered
<1> QED BY <1>1, <1>2, <1>3 DEF EndsInv, Rest

\* The application ends, and starts again.
LEMMA EndsLost ==
  ASSUME EndsInv, MemoryLost
  PROVE  EndsInv'
<1>1. /\ \A t \in Tasks : task'[t].pc = "idle"
      /\ \A r \in Rooms : active'[r] = NULL
      /\ UNCHANGED <<report, process, sessions>>
  BY DEF MemoryLost, Idle, vars
<1>2. \A s \in SessionIds : Told(s)'
  BY <1>1, ToldSame DEF EndsInv
<1> QED BY <1>1, <1>2, EndsIdle

\* A restart recovers what was active, and says so in the row.
LEMMA EndsRestart ==
  ASSUME RInv, IInv, EndsInv, NEW instance \in Runtimes, restart(instance)
  PROVE  EndsInv'
<1>1. UNCHANGED <<report, process, task, active>> /\ mode = "down"
  BY DEF restart, service
<1>2. \A s \in SessionIds :
        \/ sessions'[s] = sessions[s]
        \/ /\ sessions[s].status = "active" /\ sessions'[s].status = "interrupted"
           /\ sessions'[s].recovered = TRUE
  <2>1. CASE UNCHANGED vars
    BY <2>1 DEF vars
  <2>2. CASE recover_interrupted(instance, now)
    <3> DEFINE row(s) == [sessions[s] EXCEPT !.status = "interrupted", !.ended_at = now,
                                             !.ended_runtime = instance, !.recovered = TRUE]
    <3>1. sessions' = [s \in SessionIds |-> IF s \in Abandoned THEN row(s) ELSE sessions[s]]
      BY <2>2 DEF recover_interrupted
    <3>2. \A s \in SessionIds : row(s).status = "interrupted" /\ row(s).recovered = TRUE
      BY DEF IInv, Typed, Session
    <3>3. \A s \in Abandoned : sessions[s].status = "active"
      BY DEF Abandoned
    <3> HIDE DEF row
    <3> QED BY <3>1, <3>2, <3>3
  <2> QED BY <2>1, <2>2 DEF restart
<1>3. ASSUME NEW s \in SessionIds PROVE Told(s)'
  <2>1. Told(s)
    BY DEF EndsInv
  <2>2. CASE sessions'[s] = sessions[s]
    BY <1>1, <2>1, <2>2, ToldSame
  <2>3. CASE sessions'[s] # sessions[s]
    <3>1. sessions'[s].status = "interrupted" /\ sessions'[s].recovered /\ report[s].end_reason = NULL
      BY <1>2, <2>1, <2>3 DEF Told, Terminal
    <3> QED BY <1>1, <2>1, <3>1 DEF Told
  <2> QED BY <2>2, <2>3
<1> QED BY <1>1, <1>2, <1>3, EndsIdle DEF EndsInv, Rest

\* Every step of the service keeps EndsInv.
LEMMA EndsStep ==
  ASSUME RInv, IInv, OwnersInv, EndsInv, RecordingNext
  PROVE  EndsInv'
<1>1. ASSUME NEW t \in Tasks, TaskStep(t) PROVE EndsInv'
  <2>1. CASE t \in Callers /\ StartStep(t)
    <3>1. ASSUME NEW s \in SessionIds, start_session_committed(t, s) PROVE EndsInv'
      <4>1. /\ task[t].pc = "s_check" /\ mode' # "down" /\ start_session(s, task[t].room, TRUE, Stamp)
            /\ UNCHANGED <<report, process, recording, finalize_lock>>
        BY <3>1 DEF start_session_committed, world, At
      <4>2. task[t].room \in Rooms /\ task[t] \in TaskRow
        BY <4>1, OldPlace DEF RInv
      <4> DEFINE row(pc) == [task[t] EXCEPT !.pc = pc, !.session = s]
      <4>3. \A pc \in {"s_spawn", "s_fail"} : row(pc).pc = pc /\ row(pc).session = s
        BY <4>2 DEF TaskRow
      <4>4. \/ /\ task' = [task EXCEPT ![t] = row("s_spawn")]
               /\ active' = [active EXCEPT ![task[t].room] = s]
            \/ task' = [task EXCEPT ![t] = row("s_fail")] /\ UNCHANGED active
        BY <3>1 DEF start_session_committed
      <4> HIDE DEF row
      <4>5. \A pc \in {"s_spawn", "s_fail"} :
              task' = [task EXCEPT ![t] = row(pc)] => Moves(t, pc, s)
        BY <4>3 DEF Moves, RInv
      <4> QED BY <4>1, <4>2, <4>4, <4>5, EndsCommit
    <3>2. ASSUME start_locked(t) \/ start_refused(t) PROVE EndsInv'
      <4>1. task[t].room \in Rooms
        BY <3>2, OldPlace DEF start_locked, start_refused, At
      <4> QED BY <3>2, <4>1, EndsCalls
    <3> QED BY <2>1, <3>1, <3>2, EndsSpawn, EndsNoSpawn, EndsEnded, EndsRecorded DEF StartStep
  <2>2. CASE StopStep(t)
    BY <2>2, EndsStop
  <2>3. CASE t \in SessionIds /\ _wait_for_exit(t)
    BY <2>3, EndsFinalize
  <2>4. CASE FinalizeStep(t)
    BY <2>4, EndsFinalize, EndsEnded, EndsRecorded DEF FinalizeStep
  <2> QED BY <1>1, <2>1, <2>2, <2>3, <2>4 DEF TaskStep
<1>2. CASE \E c \in Callers, r \in Rooms : call_start_recording(c, r) \/ call_stop_recording(c, r)
  <2>1. Callers \subseteq Tasks
    BY DEF Tasks
  <2> QED BY <1>2, <2>1, EndsCalls
<1>3. CASE close \/ closed \/ crash
  BY <1>3, EndsClose, EndsLost DEF closed, crash
<1> QED BY <1>1, <1>2, <1>3, EndsAbandon, EndsRestart, EndsWorld DEF RecordingNext

\* What each task will still do for its session, and what is told of every
\* session, in every behaviour.
LEMMA EndsAlways == RecordingSpec => []EndsInv
<1>1. RecordingInit => EndsInv
  BY RecordingAssumption
     DEF RecordingInit, Init, NoRow, NoReport, Idle, EndsInv, Place, OneStart, Rest, Told, Entered,
         ReportRow, Starting, Spawned, Stopping, AfterExit, Finalizing, Terminal, Results
<1>2. EndsInv /\ UNCHANGED rvars => EndsInv'
  BY DEF EndsInv, Place, OneStart, Rest, Told, Entered, rvars, vars, world, service
<1>3. RecordingSpec => []IInv
  BY ServiceImplementsStore, Invariance DEF ImplementsStore
<1>4. QED
  BY <1>1, <1>2, <1>3, RecordingInvariance, OwnersAlways, EndsStep, PTL DEF RecordingSpec

\* Tables, memory and reports of the service keep their types.
THEOREM RecordingTypeCorrect == RecordingSpec => []RecordingTypeOK
<1>1. TypeOK /\ RInv /\ EndsInv => RecordingTypeOK
  BY DEF RecordingTypeOK, RInv, EndsInv, ReportRow, TaskRow, Pcs, HasSession, Holding, Finalizing
<1>2. RecordingSpec => []TypeOK
  BY ServiceImplementsStore, TypeCorrect DEF ImplementsStore
<1> QED BY <1>1, <1>2, RecordingInvariance, EndsAlways, PTL

\* Whatever stops, exits, failed starts, cancelled tasks, crashes and restarts
\* do to each other: the status, end_reason and result of a row agree with the
\* end of its process, and only a session that is over has an end_reason.
THEOREM StatusTrue == RecordingSpec => []StatusTellsTheExit
<1>1. EndsInv => StatusTellsTheExit
  BY DEF EndsInv, Told, StatusTellsTheExit
<1> QED BY <1>1, EndsAlways, PTL

\* Who writes a report.
LEMMA ReportWriters ==
  ASSUME RecordingNext
  PROVE  \/ UNCHANGED report
         \/ \E u \in Tasks : _fail_started_session(u) \/ _close_recipient_session(u)
         \/ \E u \in Tasks : fail_recorded(u) \/ finalize_recorded(u)
<1>1. ASSUME NEW c \in Callers, StartStep(c)
      PROVE  UNCHANGED report \/ _fail_started_session(c) \/ fail_recorded(c)
  BY <1>1 DEF StartStep, start_locked, start_refused, start_session_committed,
              supervisor_started, supervisor_not_started
<1>2. ASSUME NEW t \in Tasks, StopStep(t) \/ abandon(t) \/ _wait_for_exit(t)
      PROVE  UNCHANGED report
  BY <1>2 DEF StopStep, stop_locked, stop_timeout, stop_exited, abandon, _wait_for_exit
<1>3. ASSUME NEW t \in Tasks, FinalizeStep(t)
      PROVE  UNCHANGED report \/ _close_recipient_session(t) \/ finalize_recorded(t)
  BY <1>3 DEF FinalizeStep, finalize_locked, finalize_popped
<1>4. CASE \E t \in Tasks : TaskStep(t) \/ abandon(t)
  BY <1>1, <1>2, <1>3, <1>4 DEF TaskStep
<1>5. CASE ~\E t \in Tasks : TaskStep(t) \/ abandon(t)
  BY <1>5 DEF RecordingNext, call_start_recording, call_stop_recording, close, closed, crash,
              MemoryLost, restart, process_exits, clock_moves
<1> QED BY <1>4, <1>5

\* An end_reason is written where there is no report yet.
LEMMA EndWritten ==
  ASSUME RInv, IInv, EndsInv, NEW s \in SessionIds, report'[s] # report[s],
         NEW u \in Tasks, _fail_started_session(u) \/ _close_recipient_session(u)
  PROVE  /\ report[s].end_reason = NULL /\ report[s].result = NULL
         /\ report'[s].result = NULL
<1> DEFINE x == task[u].session
<1>1. /\ task[u].pc \in {"s_fail", "f_end"}
      /\ \E status \in Terminal, reason \in EndReasons : end_session_or_not(x, status, reason)
      /\ x \in SessionIds
  <2>1. CASE _fail_started_session(u)
    BY <2>1, OldPlace DEF _fail_started_session, At, Terminal, EndReasons, HasSession
  <2>2. CASE _close_recipient_session(u)
    <3>1. task[u].pc = "f_end" /\ x \in SessionIds
      BY <2>2, OldPlace DEF _close_recipient_session, At, HasSession, Finalizing
    <3>2. recording[x].stop_reason \in Reasons \cup {NULL}
      BY <3>1 DEF RInv
    <3>3. Verdict(x)[1] \in Terminal /\ Verdict(x)[2] \in EndReasons
      BY <3>2 DEF Verdict, Terminal, EndReasons, Reasons
    <3> QED BY <2>2, <3>1, <3>3 DEF _close_recipient_session
  <2> QED BY <2>1, <2>2
<1>2. s = x /\ sessions[s].status = "active"
  BY <1>1, EndsRow DEF EndsInv
<1>3. report[s].end_reason = NULL
  BY <1>2 DEF EndsInv, Told, Terminal
<1>4. report[s].result = NULL
  BY <1>1, <1>2, OldPlace DEF Place, Starting
<1>5. report'[s].result = NULL
  BY <1>1, <1>4, EndsRow DEF EndsInv
<1> QED BY <1>3, <1>4, <1>5

\* A result is written where there is none, by a task that will not come back.
LEMMA ResultWritten ==
  ASSUME RInv, EndsInv, NEW s \in SessionIds, report'[s] # report[s],
         NEW u \in Tasks, fail_recorded(u) \/ finalize_recorded(u)
  PROVE  /\ report[s].result = NULL /\ report'[s].end_reason = report[s].end_reason
         /\ task[u].pc \in {"s_fail_record", "f_record"} /\ task[u].session = s
<1> DEFINE x == task[u].session
<1>1. task[u].pc \in {"s_fail_record", "f_record"} /\ x \in SessionIds
  BY OldPlace DEF fail_recorded, finalize_recorded, At, HasSession, Finalizing
<1>2. \E result, error : record_result(x, result, error)
  BY DEF fail_recorded, finalize_recorded
<1>3. /\ \A y \in SessionIds \ {x} : report'[y] = report[y]
      /\ report'[x].end_reason = report[x].end_reason
  BY <1>1, <1>2 DEF record_result, EndsInv, ReportRow
<1>4. s = x
  BY <1>3
<1>5. report[s].result = NULL
  BY <1>1, <1>4, OldPlace DEF Place, Starting
<1> QED BY <1>1, <1>3, <1>4, <1>5

\* A session is reported once.
LEMMA ReportStep ==
  ASSUME RInv, IInv, OwnersInv, EndsInv, RecordingNext, NEW s \in SessionIds
  PROVE  /\ report[s].end_reason # NULL => report'[s].end_reason = report[s].end_reason
         /\ report[s].result # NULL => report'[s] = report[s]
BY ReportWriters, EndWritten, ResultWritten

\* However a stop races the natural exit or another stop: what is recorded of
\* a session is recorded once.
THEOREM ReportOnce == RecordingSpec => ReportedOnce
<1> DEFINE Once ==
      \A s \in SessionIds :
        /\ report[s].end_reason # NULL => report'[s].end_reason = report[s].end_reason
        /\ report[s].result # NULL => report'[s] = report[s]
<1>1. RInv /\ IInv /\ OwnersInv /\ EndsInv /\ RecordingNext => Once
  BY ReportStep
<1>2. RInv /\ IInv /\ OwnersInv /\ EndsInv /\ [RecordingNext]_rvars => [Once]_rvars
  <2> HIDE DEF Once
  <2> QED BY <1>1
<1>3. RecordingSpec => []IInv
  BY ServiceImplementsStore, Invariance DEF ImplementsStore
<1>4. QED
  BY <1>2, <1>3, EndsAlways, OwnersAlways, RecordingInvariance, PTL
     DEF RecordingSpec, ReportedOnce

-----------------------------------------------------------------------------
(***************************************************************************)
(* Some task stands where it will end each active session.                 *)
(***************************************************************************)
\* A session of the service has one interval; its start is not after now.
Dated(s) ==
  sessions[s].status # "none" =>
    /\ Len(intervals[s]) = 1 /\ intervals[s][1].start.mono = 0
    /\ "clock" \notin faults => intervals[s][1].start.at <= now

\* Behind the write that ends a session it is over: no end has been refused.
Over(t) ==
  task[t].pc \in {"f_record", "f_pop", "s_fail_record"} =>
    sessions[task[t].session].status \in Terminal

ClockInv ==
  /\ \A s \in SessionIds : Dated(s)
  /\ "clock" \notin faults => (\A t \in Tasks : Over(t)) /\ EveryPathClosesTheInterval

\* Which tasks can be under way.
OwnTask(s) ==
  task[s].pc # "idle" => task[s].session = s /\ task[s].pc \in {"w_wait"} \cup AfterExit

TasksInv ==
  /\ \A s \in SessionIds : OwnTask(s)
  /\ mode = "running" => \A r \in Rooms : task[r].pc = "idle"
  /\ mode = "closing" => \A c \in Callers : task[c].pc = "idle"

\* A task that will end the session, and that close() would wait for.
Watches(t, s) ==
  WillEnd(t, s) /\ (task[t].pc = "s_fail" \/ active[sessions[s].room] = s)

Calm == faults \cap {"cancel", "clock"} = {}

EachWatched ==
  \A s \in SessionIds : sessions[s].status = "active" => \E t \in Tasks : Watches(t, s)

WatchInv ==
  /\ Calm /\ mode # "down" => EachWatched
  /\ faults = {} => \A s \in SessionIds : /\ ~sessions[s].recovered
                                          /\ mode = "down" => sessions[s].status # "active"

\* What can disturb the application does not change.
LEMMA FaultsStay == RecordingNext => faults' = faults
BY DEF RecordingNext, TaskStep, StartStep, StopStep, FinalizeStep,
       start_locked, start_refused, start_session_committed, supervisor_started,
       supervisor_not_started, _fail_started_session, fail_recorded,
       stop_locked, stop_timeout, stop_exited, _wait_for_exit, finalize_locked,
       _close_recipient_session, finalize_recorded, finalize_popped, abandon,
       call_start_recording, call_stop_recording, close, closed, crash, MemoryLost, restart,
       process_exits, clock_moves, world

\* The clock goes on, or is set back.
LEMMA ClockGoesOn ==
  ASSUME RInv, RecordingNext, "clock" \notin faults
  PROVE  now' >= now
<1>1. now \in Nat
  BY EventsAssumption DEF RInv
<1>2. CASE \E at \in Times : clock_moves(at)
  <2>1. PICK at \in Times : clock_moves(at)
    BY <1>2
  <2>2. at \in Nat /\ now' = at /\ at > now
    BY <2>1, EventsAssumption DEF clock_moves
  <2> QED BY <1>1, <2>2
<1>3. CASE ~\E at \in Times : clock_moves(at)
  <2>1. now' = now
    BY <1>3
       DEF RecordingNext, TaskStep, StartStep, StopStep, FinalizeStep,
       start_locked, start_refused, start_session_committed, supervisor_started,
       supervisor_not_started, _fail_started_session, fail_recorded,
       stop_locked, stop_timeout, stop_exited, _wait_for_exit, finalize_locked,
       _close_recipient_session, finalize_recorded, finalize_popped, abandon,
       call_start_recording, call_stop_recording, close, closed, crash, MemoryLost, restart,
       process_exits, world
  <2> QED BY <1>1, <2>1
<1> QED BY <1>2, <1>3

\* No step of the service adds an interval to a session that has one.
LEMMA OneInterval ==
  ASSUME RInv, IInv, RecordingNext, NEW s \in SessionIds, sessions[s].status # "none",
         Len(intervals[s]) = 1
  PROVE  Len(intervals'[s]) = 1
<1>1. ServiceStep /\ (Next \/ UNCHANGED vars)
  BY StepKinds, StepIsStores
<1>2. IInv'
  BY <1>1, NextPreserves, StutterKeeps
<1>3. /\ DOMAIN intervals[s] = 1 .. Len(intervals[s])
      /\ DOMAIN intervals'[s] = 1 .. Len(intervals'[s])
      /\ Len(intervals'[s]) \in Nat
  <2>1. intervals[s] \in Seq(Interval) /\ intervals'[s] \in Seq(Interval)
    BY <1>2 DEF IInv, Typed
  <2> QED BY <2>1, LenProperties
<1>4. DOMAIN intervals'[s] = DOMAIN intervals[s]
  <2>1. CASE \E x \in SessionIds, r \in Rooms : start_session(x, r, TRUE, Stamp)
    BY <2>1 DEF start_session, IInv, Typed
  <2>2. CASE \E x \in SessionIds, final_status \in Terminal : end_session(x, Stamp, final_status)
    <3>1. PICK x \in SessionIds, final_status \in Terminal : end_session(x, Stamp, final_status)
      BY <2>2
    <3>2. intervals' = [intervals EXCEPT ![x] = _close_interval(x, Stamp, NULL)]
      BY <3>1 DEF end_session
    <3>3. DOMAIN _close_interval(x, Stamp, NULL) = DOMAIN intervals[x]
      BY DEF _close_interval
    <3> HIDE DEF _close_interval
    <3> QED BY <3>2, <3>3 DEF IInv, Typed
  <2>3. CASE \E instance \in Runtimes : restart(instance)
    <3>1. PICK instance \in Runtimes : restart(instance)
      BY <2>3
    <3>2. CASE UNCHANGED vars
      BY <3>2 DEF vars
    <3>3. CASE recover_interrupted(instance, now)
      BY <3>3 DEF recover_interrupted
    <3> QED BY <3>1, <3>2, <3>3 DEF restart
  <2>4. CASE UNCHANGED vars
    BY <2>4 DEF vars
  <2> QED BY <1>1, <2>1, <2>2, <2>3, <2>4 DEF ServiceStep
<1> DEFINE m == Len(intervals'[s])
<1>5. m \in Nat /\ 1 .. m = 1 .. 1
  BY <1>3, <1>4
<1> HIDE DEF m
<1>6. 1 \in 1 .. m
  BY <1>5
<1>7. m \in 1 .. 1
  BY <1>5, <1>6
<1> QED BY <1>7 DEF m

\* The interval of a new session is stamped now.
LEMMA NewDated ==
  ASSUME RInv, IInv, RecordingNext, NEW s \in SessionIds,
         sessions[s].status = "none", sessions'[s].status # "none"
  PROVE  Len(intervals'[s]) = 1 /\ intervals'[s][1].start = Stamp
<1>1. ServiceStep /\ (Next \/ UNCHANGED vars)
  BY StepKinds, StepIsStores
<1>2. PICK x \in SessionIds, r \in Rooms : start_session(x, r, TRUE, Stamp)
  <2>1. CASE \E x \in SessionIds, final_status \in Terminal : end_session(x, Stamp, final_status)
    BY <2>1 DEF end_session, Writable, IInv, Typed
  <2>2. CASE \E instance \in Runtimes : restart(instance)
    BY <2>2 DEF restart, vars, recover_interrupted, Abandoned
  <2>3. CASE UNCHANGED vars
    BY <2>3 DEF vars
  <2> QED BY <1>1, <2>1, <2>2, <2>3 DEF ServiceStep
<1>3. x = s
  BY <1>2, NewRow
<1>4. intervals'[s] = <<_open_interval(Waiting, Stamp, NULL)>>
  BY <1>2, <1>3 DEF start_session, IInv, Typed
<1> QED BY <1>4, OpenRow

\* Every step of the service keeps the dates.
LEMMA DatedStep ==
  ASSUME RInv, IInv, RecordingNext, NEW s \in SessionIds, Dated(s)
  PROVE  Dated(s)'
<1>1. faults' = faults /\ RowsStay
  BY FaultsStay, RowsStayLemma
<1>2. CASE sessions[s].status = "none" /\ sessions'[s].status # "none"
  <2>1. Len(intervals'[s]) = 1 /\ intervals'[s][1].start = Stamp
    BY <1>2, NewDated
  <2>2. Stamp.at = now /\ Stamp.mono = 0 /\ now \in Nat
    BY EventsAssumption DEF Stamp, RInv
  <2>3. "clock" \notin faults => now <= now'
    BY <2>2, ClockGoesOn, RecordingStepTyped, EventsAssumption DEF RInv
  <2> QED BY <1>1, <2>1, <2>2, <2>3 DEF Dated
<1>3. CASE sessions[s].status # "none"
  <2>1. Len(intervals'[s]) = 1 /\ intervals'[s][1].start = intervals[s][1].start
    BY <1>1, <1>3, OneInterval DEF Dated, RowsStay
  <2>2. intervals[s][1].start.at \in Nat
    <3>1. intervals[s][1] \in Interval
      BY <1>3, RowFacts DEF Dated, IInv
    <3> QED BY <3>1, EventsAssumption DEF Interval, Stamps
  <2>3. now \in Nat /\ now' \in Nat
    BY RecordingStepTyped, EventsAssumption DEF RInv
  <2>4. "clock" \notin faults => intervals'[s][1].start.at <= now'
    BY <1>3, <2>1, <2>2, <2>3, ClockGoesOn DEF Dated
  <2> QED BY <1>1, <1>3, <2>1, <2>4 DEF Dated
<1>4. CASE sessions'[s].status = "none"
  BY <1>4 DEF Dated
<1> QED BY <1>2, <1>3, <1>4

\* An end that is asked for is not refused, unless the clock was set back.
LEMMA EndIsAccepted ==
  ASSUME RInv, IInv, NEW s \in SessionIds, Dated(s), "clock" \notin faults,
         NEW status \in Terminal, NEW reason, end_session_or_not(s, status, reason),
         sessions[s].status # "none"
  PROVE  sessions'[s].status \in Terminal
<1>1. CASE sessions[s].status = "active"
  <2>1. Writable(s)
    <3>1. current(s).ended_at = NULL /\ intervals[s] # <<>>
      BY <1>1, RowFacts DEF IInv, OpenIffActive, current, Dated
    <3> QED BY <1>1, <3>1 DEF Writable
  <2>2. _validate_close_clock(s, Stamp)
    <3>1. current(s).start.mono = 0 /\ current(s).start.at <= now
      BY <1>1 DEF Dated, current
    <3>2. current(s).start.at \in Nat /\ now \in Nat
      <4>1. intervals[s][1] \in Interval /\ Len(intervals[s]) = 1
        BY <1>1, RowFacts DEF Dated, IInv
      <4> QED BY <4>1, EventsAssumption DEF Interval, Stamps, current, RInv
    <3> QED BY <3>1, <3>2 DEF _validate_close_clock, Stamp
  <2>3. sessions' = [sessions EXCEPT ![s].status = status, ![s].ended_at = Stamp.at,
                                     ![s].ended_runtime = Stamp.runtime]
    BY <2>1, <2>2 DEF end_session_or_not, end_session
  <2> QED BY <2>3 DEF IInv, Typed, Session
<1>2. CASE sessions[s].status \in Terminal
  <2>1. ~Writable(s)
    BY <1>2, ActiveIsNotTerminal DEF Writable
  <2> QED BY <1>2, <2>1 DEF end_session_or_not, vars
<1>3. sessions[s].status \in {"none", "active"} \cup Terminal
  BY DEF IInv, Typed, Session
<1> QED BY <1>1, <1>2, <1>3

\* The steps of one task: it alone moves, unless its session gets a wait task.
LEMMA TaskMoves ==
  ASSUME RInv, NEW u \in Tasks, TaskStep(u)
  PROVE  /\ task[u].pc # "idle" /\ mode # "down" /\ mode' = mode
         /\ \/ \A t \in Tasks : t # u => task'[t] = task[t]
            \/ u \in Callers /\ supervisor_started(u)
<1>1. \A pc : At(u, pc) /\ pc # "idle" => task[u].pc # "idle" /\ mode # "down"
  BY DEF At
<1>2. /\ \A pc : Goto(u, pc) => \A t \in Tasks : t # u => task'[t] = task[t]
      /\ Return(u) => \A t \in Tasks : t # u => task'[t] = task[t]
      /\ \A row : task' = [task EXCEPT ![u] = row] => \A t \in Tasks : t # u => task'[t] = task[t]
  BY DEF Goto, Return, RInv
<1>3. CASE u \in Callers /\ StartStep(u)
  <2>1. ASSUME NEW s \in SessionIds, start_session_committed(u, s)
        PROVE  \E row : task' = [task EXCEPT ![u] = row]
    BY <2>1 DEF start_session_committed
  <2> QED BY <1>1, <1>2, <1>3, <2>1
          DEF StartStep, start_locked, start_refused, start_session_committed, supervisor_started,
              supervisor_not_started, _fail_started_session, fail_recorded, world
<1>4. CASE StopStep(u)
  <2>1. ASSUME stop_locked(u) PROVE Return(u) \/ \E row : task' = [task EXCEPT ![u] = row]
    BY <2>1 DEF stop_locked
  <2> QED BY <1>1, <1>2, <1>4, <2>1 DEF StopStep, stop_locked, stop_timeout, stop_exited, world
<1>5. CASE u \in SessionIds /\ _wait_for_exit(u)
  BY <1>1, <1>2, <1>5 DEF _wait_for_exit, world
<1>6. CASE FinalizeStep(u)
  BY <1>1, <1>2, <1>6 DEF FinalizeStep, finalize_locked, _close_recipient_session,
                          finalize_recorded, finalize_popped, world
<1> QED BY <1>3, <1>4, <1>5, <1>6 DEF TaskStep

\* A step that comes behind the write that ends its session has made it, or
\* the one before has.
LEMMA LateTask ==
  ASSUME RInv, RecordingNext, NEW t \in Tasks,
         task'[t].pc \in {"f_record", "f_pop", "s_fail_record"}
  PROVE  \/ task'[t] = task[t]
         \/ task'[t].session = task[t].session /\ finalize_recorded(t)
         \/ /\ task'[t].session = task[t].session
            /\ _fail_started_session(t) \/ _close_recipient_session(t)
<1>1. CASE \E u \in Tasks : TaskStep(u)
  <2>1. PICK u \in Tasks : TaskStep(u)
    BY <1>1
  <2>2. CASE supervisor_started(u)
    <3>1. /\ task' = [task EXCEPT ![u] = Idle,
                        ![task[u].session] = [pc |-> "w_wait", room |-> task[u].room,
                                              session |-> task[u].session]]
      BY <2>2 DEF supervisor_started
    <3> QED BY <3>1 DEF RInv, Idle
  <2>3. CASE ~supervisor_started(u) /\ t # u
    BY <2>1, <2>3, TaskMoves
  <2>4. CASE ~supervisor_started(u) /\ t = u
    <3>1. ASSUME NEW pc, Goto(u, pc) PROVE task'[u].pc = pc /\ task'[u].session = task[u].session
      BY <3>1 DEF Goto, RInv, TaskRow
    <3>2. ~Return(u)
      BY <2>4 DEF Return, Idle, RInv
    <3>3. CASE u \in Callers /\ StartStep(u)
      <4>1. ASSUME NEW s \in SessionIds, start_session_committed(u, s) PROVE FALSE
        <5> DEFINE row(pc) == [task[u] EXCEPT !.pc = pc, !.session = s]
        <5>1. \A pc \in {"s_spawn", "s_fail"} : row(pc).pc = pc
          BY DEF RInv, TaskRow
        <5>2. \E pc \in {"s_spawn", "s_fail"} : task' = [task EXCEPT ![u] = row(pc)]
          BY <4>1 DEF start_session_committed
        <5> HIDE DEF row
        <5> QED BY <2>4, <5>1, <5>2 DEF RInv
      <4>2. CASE start_locked(u) \/ start_refused(u) \/ supervisor_not_started(u) \/ fail_recorded(u)
        <5>1. Return(u) \/ Goto(u, "s_check") \/ Goto(u, "s_fail")
          BY <4>2 DEF start_locked, start_refused, supervisor_not_started, fail_recorded
        <5>2. task'[u].pc \in {"s_check", "s_fail"}
          BY <3>1, <3>2, <5>1
        <5> QED BY <2>4, <5>2
      <4>3. CASE _fail_started_session(u)
        BY <2>4, <3>1, <4>3 DEF _fail_started_session
      <4> QED BY <2>4, <3>3, <4>1, <4>2, <4>3 DEF StartStep
    <3>4. CASE StopStep(u)
      <4>1. ASSUME stop_locked(u) PROVE FALSE
        <5> DEFINE row == [task[u] EXCEPT !.pc = "p_stop", !.session = active[task[u].room]]
        <5>1. row.pc = "p_stop"
          BY DEF RInv, TaskRow
        <5>2. task' = [task EXCEPT ![u] = row]
          BY <3>2, <4>1 DEF stop_locked
        <5> HIDE DEF row
        <5> QED BY <2>4, <5>1, <5>2 DEF RInv
      <4> QED BY <2>4, <3>1, <3>2, <3>4, <4>1 DEF StopStep, stop_timeout, stop_exited
    <3>5. CASE u \in SessionIds /\ _wait_for_exit(u)
      BY <2>4, <3>1, <3>5 DEF _wait_for_exit
    <3>6. CASE FinalizeStep(u)
      <4>1. CASE finalize_locked(u) \/ finalize_popped(u)
        BY <2>4, <3>1, <3>2, <4>1 DEF finalize_locked, finalize_popped
      <4>2. CASE _close_recipient_session(u)
        BY <2>4, <3>1, <4>2 DEF _close_recipient_session
      <4>3. CASE finalize_recorded(u)
        BY <2>4, <3>1, <4>3 DEF finalize_recorded
      <4> QED BY <3>6, <4>1, <4>2, <4>3 DEF FinalizeStep
    <3> QED BY <2>1, <3>3, <3>4, <3>5, <3>6 DEF TaskStep
  <2> QED BY <2>2, <2>3, <2>4
<1>2. CASE \E u \in Tasks : abandon(u)
  BY <1>2 DEF abandon, Return, Idle, RInv
<1>3. CASE ~\E u \in Tasks : TaskStep(u) \/ abandon(u)
  <2>1. CASE \E c \in Callers, r \in Rooms : call_start_recording(c, r) \/ call_stop_recording(c, r)
    <3>1. PICK c \in Callers, r \in Rooms, pc \in {"s_lock", "p_lock"} :
            task' = [task EXCEPT ![c] = [pc |-> pc, room |-> r, session |-> NULL]]
      BY <2>1 DEF call_start_recording, call_stop_recording
    <3> QED BY <3>1 DEF RInv
  <2>2. CASE close
    BY <2>2 DEF close, RInv
  <2>3. CASE closed \/ crash
    BY <2>3 DEF closed, crash, MemoryLost, Idle
  <2>4. CASE task' = task
    BY <2>4
  <2> QED BY <1>3, <2>1, <2>2, <2>3, <2>4 DEF RecordingNext, restart, process_exits, clock_moves
<1> QED BY <1>1, <1>2, <1>3

\* Every step of the service keeps ClockInv.
LEMMA ClockInvStep ==
  ASSUME RInv, IInv, OwnersInv, EndsInv, ClockInv, RecordingNext
  PROVE  ClockInv'
<1>1. faults' = faults /\ \A s \in SessionIds : Dated(s)'
  BY FaultsStay, DatedStep DEF ClockInv
<1>2. \A s \in SessionIds : sessions[s].status \in Terminal => sessions'[s].status \in Terminal
  <2>1. Next \/ UNCHANGED vars
    BY StepIsStores
  <2> QED BY <2>1, SettledStep DEF vars
<1>3. ASSUME "clock" \notin faults, NEW t \in Tasks PROVE Over(t)'
  <2>1. CASE task'[t].pc \notin {"f_record", "f_pop", "s_fail_record"}
    BY <2>1 DEF Over
  <2>2. CASE task'[t].pc \in {"f_record", "f_pop", "s_fail_record"} /\ task'[t] = task[t]
    <3>1. task[t].session \in SessionIds
      BY <2>2, OldPlace DEF HasSession, Finalizing
    <3> QED BY <1>2, <1>3, <2>2, <3>1 DEF Over, ClockInv
  <2>3. CASE finalize_recorded(t) /\ task'[t].session = task[t].session
    <3>1. task[t].pc = "f_record" /\ task[t].session \in SessionIds
      BY <2>3, OldPlace DEF finalize_recorded, At, HasSession, Finalizing
    <3> QED BY <1>2, <1>3, <2>3, <3>1 DEF Over, ClockInv
  <2>4. CASE /\ task'[t].session = task[t].session
             /\ _fail_started_session(t) \/ _close_recipient_session(t)
    <3> DEFINE s == task[t].session
    <3>1. /\ task[t].pc \in {"s_fail", "f_end"}
          /\ \E status \in Terminal : \E reason : end_session_or_not(s, status, reason)
      <4>1. CASE _fail_started_session(t)
        BY <4>1 DEF _fail_started_session, At, Terminal
      <4>2. CASE _close_recipient_session(t)
        <5>1. Verdict(s)[1] \in Terminal
          BY DEF Verdict, Terminal
        <5> QED BY <4>2, <5>1 DEF _close_recipient_session, At
      <4> QED BY <2>4, <4>1, <4>2
    <3>2. s \in SessionIds /\ sessions[s].status # "none"
      BY <3>1, OldPlace DEF HasSession, Finalizing, OwnersInv, TaskKnows
    <3>3. sessions'[s].status \in Terminal
      BY <1>3, <3>1, <3>2, EndIsAccepted DEF ClockInv
    <3> QED BY <2>4, <3>3 DEF Over
  <2> QED BY <2>1, <2>2, <2>3, <2>4, LateTask
<1>4. ASSUME "clock" \notin faults, NEW s \in SessionIds, report'[s].result # NULL
      PROVE  sessions'[s].status \in Terminal
  <2>1. CASE report[s].result # NULL
    BY <1>2, <1>4, <2>1 DEF ClockInv, EveryPathClosesTheInterval
  <2>2. CASE report[s].result = NULL
    <3>1. PICK u \in Tasks : /\ task[u].pc \in {"s_fail_record", "f_record"}
                             /\ task[u].session = s
      BY <1>4, <2>2, ReportWriters, EndWritten, ResultWritten
    <3> QED BY <1>2, <1>4, <3>1 DEF ClockInv, Over
  <2> QED BY <2>1, <2>2
<1> QED BY <1>1, <1>3, <1>4 DEF ClockInv, EveryPathClosesTheInterval

\* A session's own task follows its exit.
LEMMA OwnTaskMoves ==
  ASSUME RInv, OwnersInv, NEW s \in SessionIds, OwnTask(s), TaskStep(s)
  PROVE  OwnTask(s)'
<1>1. s \in Tasks /\ s \notin Callers \cup Rooms
  BY RecordingAssumption DEF Tasks
<1>2. (_wait_for_exit(s) /\ s \in SessionIds) \/ FinalizeStep(s)
  BY <1>1 DEF TaskStep
<1>3. task[s].session = s
  BY <1>1, <1>2, TaskMoves DEF OwnTask
<1>4. \/ Return(s)
      \/ \E pc \in AfterExit : Goto(s, pc)
  BY <1>2 DEF FinalizeStep, _wait_for_exit, finalize_locked, _close_recipient_session,
              finalize_recorded, finalize_popped, AfterExit, Finalizing
<1>5. task'[s].pc = "idle" \/ (task'[s].session = s /\ task'[s].pc \in AfterExit)
  BY <1>1, <1>3, <1>4 DEF Return, Goto, Idle, RInv, TaskRow
<1> QED BY <1>5 DEF OwnTask

\* Every step of the service keeps TasksInv.
LEMMA TasksStep ==
  ASSUME RInv, OwnersInv, EndsInv, TasksInv, RecordingNext
  PROVE  TasksInv'
<1>1. /\ Callers \subseteq Tasks /\ SessionIds \subseteq Tasks /\ Rooms \subseteq Tasks
      /\ \A s \in SessionIds : s \notin Callers \cup Rooms
      /\ \A r \in Rooms : r \notin Callers
  BY RecordingAssumption DEF Tasks
<1>2. ASSUME NEW u \in Tasks, TaskStep(u) PROVE TasksInv'
  <2>1. task[u].pc # "idle" /\ mode # "down" /\ mode' = mode
    BY <1>2, TaskMoves
  <2>2. CASE u \in Callers /\ supervisor_started(u)
    <3>1. PICK x \in SessionIds : x = task[u].session
      BY <2>2, OldPlace DEF supervisor_started, At, HasSession
    <3>2. /\ task'[x].pc = "w_wait" /\ task'[x].session = x
          /\ \A t \in Tasks : t # x /\ t # u => task'[t] = task[t]
      <4>1. task' = [task EXCEPT ![u] = Idle,
                                 ![x] = [pc |-> "w_wait", room |-> task[u].room, session |-> x]]
        BY <2>2, <3>1 DEF supervisor_started
      <4> QED BY <1>1, <4>1 DEF RInv
    <3>3. mode = "running"
      BY <2>1, <2>2 DEF TasksInv, RInv
    <3>4. \A s \in SessionIds : OwnTask(s)'
      <4>1. ASSUME NEW s \in SessionIds, s # x PROVE task'[s] = task[s] /\ OwnTask(s)
        BY <1>1, <2>2, <3>2, <4>1 DEF TasksInv
      <4>2. OwnTask(x)'
        BY <3>2 DEF OwnTask
      <4> QED BY <4>1, <4>2 DEF OwnTask
    <3>5. \A r \in Rooms : task'[r] = task[r]
      BY <1>1, <2>2, <3>2
    <3> QED BY <2>1, <3>3, <3>4, <3>5 DEF TasksInv
  <2>3. CASE \A t \in Tasks : t # u => task'[t] = task[t]
    <3>1. ASSUME NEW s \in SessionIds PROVE OwnTask(s)'
      <4>1. CASE s = u
        BY <1>2, <4>1, OwnTaskMoves DEF TasksInv
      <4>2. CASE s # u
        BY <1>1, <2>3, <4>2 DEF TasksInv, OwnTask
      <4> QED BY <4>1, <4>2
    <3>2. mode = "running" => u \notin Rooms
      BY <2>1 DEF TasksInv
    <3>3. mode = "closing" => u \notin Callers
      BY <2>1 DEF TasksInv
    <3>4. mode = "running" => \A r \in Rooms : task'[r] = task[r]
      BY <1>1, <2>3, <3>2
    <3>5. mode = "closing" => \A c \in Callers : task'[c] = task[c]
      BY <1>1, <2>3, <3>3
    <3> QED BY <2>1, <3>1, <3>4, <3>5 DEF TasksInv
  <2> QED BY <1>2, <2>2, <2>3, TaskMoves
<1>3. ASSUME NEW u \in Tasks, abandon(u) PROVE TasksInv'
  <2>1. /\ mode = "running" /\ mode' = mode /\ Return(u)
    BY <1>3 DEF abandon, world
  <2>2. task'[u].pc = "idle" /\ \A t \in Tasks : t # u => task'[t] = task[t]
    BY <2>1 DEF Return, Idle, RInv
  <2>3. \A t \in Tasks : task'[t].pc = "idle" \/ task'[t] = task[t]
    BY <2>2
  <2> QED BY <1>1, <2>1, <2>3 DEF TasksInv, OwnTask
<1>4. ASSUME NEW c \in Callers, NEW r \in Rooms,
             call_start_recording(c, r) \/ call_stop_recording(c, r)
      PROVE  TasksInv'
  <2>1. /\ mode = "running" /\ mode' = mode
        /\ \A t \in Tasks : t # c => task'[t] = task[t]
    BY <1>4 DEF call_start_recording, call_stop_recording, world, RInv
  <2>2. \A t \in SessionIds \cup Rooms : task'[t] = task[t]
    BY <1>1, <2>1
  <2> QED BY <2>1, <2>2 DEF TasksInv, OwnTask
<1>5. CASE close
  <2>1. /\ mode' = "closing" /\ \A c \in Callers : task[c].pc = "idle"
        /\ \A t \in Callers \cup SessionIds : task'[t] = task[t]
    BY <1>1, <1>5 DEF close, RInv
  <2> QED BY <2>1 DEF TasksInv, OwnTask
<1>6. CASE closed \/ crash
  <2>1. \A t \in Tasks : task'[t].pc = "idle"
    BY <1>6 DEF closed, crash, MemoryLost, Idle
  <2> QED BY <1>1, <2>1 DEF TasksInv, OwnTask
<1>7. CASE \E instance \in Runtimes : restart(instance)
  <2>1. \A t \in Tasks : task'[t].pc = "idle"
    BY <1>7 DEF restart, EndsInv, Rest
  <2> QED BY <1>1, <2>1 DEF TasksInv, OwnTask
<1>8. CASE (\E s \in SessionIds : process_exits(s)) \/ (\E at \in Times : clock_moves(at))
  <2>1. UNCHANGED <<task, mode>>
    BY <1>8 DEF process_exits, clock_moves, world
  <2> QED BY <2>1 DEF TasksInv, OwnTask
<1> QED BY <1>2, <1>3, <1>4, <1>5, <1>6, <1>7, <1>8 DEF RecordingNext

-----------------------------------------------------------------------------
\* A step of the tasks in W: each session that is active after it was watched
\* by another task and still is, or somebody takes it over.
LEMMA WatchMoved ==
  ASSUME EachWatched, NEW W \in SUBSET Tasks,
         \A t \in Tasks \ W : task'[t] = task[t],
         \A s \in SessionIds : sessions'[s].status = "active" =>
           \/ \E t \in Tasks : Watches(t, s)'
           \/ /\ sessions[s].status = "active" /\ sessions'[s].room = sessions[s].room
              /\ recording'[s].finalized = recording[s].finalized
              /\ active[sessions[s].room] = s => active'[sessions[s].room] = s
              /\ \A t \in W : ~Watches(t, s)
  PROVE  EachWatched'
<1> SUFFICES ASSUME NEW s \in SessionIds, sessions'[s].status = "active",
                    ~\E t \in Tasks : Watches(t, s)'
             PROVE  FALSE
  BY DEF EachWatched
<1>1. PICK t \in Tasks : Watches(t, s)
  BY DEF EachWatched
<1>2. t \notin W /\ task'[t] = task[t]
  BY <1>1
<1>3. Watches(t, s)'
  BY <1>1, <1>2 DEF Watches, WillEnd
<1> QED BY <1>3

\* One task moves: the others' watches stand, and its own if it still will end its session.
LEMMA WatchMovedOne ==
  ASSUME EachWatched, NEW u \in Tasks,
         \A t \in Tasks \ {u} : task'[t] = task[t],
         \A s \in SessionIds : sessions'[s].status = "active" =>
           \/ \E t \in Tasks : Watches(t, s)'
           \/ /\ sessions'[s] = sessions[s]
              /\ recording'[s].finalized = recording[s].finalized
              /\ active[sessions[s].room] = s => active'[sessions[s].room] = s
              /\ ~Watches(u, s)
  PROVE  EachWatched'
<1>1. {u} \in SUBSET Tasks
  OBVIOUS
<1>2. \A s \in SessionIds : sessions'[s].status = "active" =>
        \/ \E t \in Tasks : Watches(t, s)'
        \/ /\ sessions[s].status = "active" /\ sessions'[s].room = sessions[s].room
           /\ recording'[s].finalized = recording[s].finalized
           /\ active[sessions[s].room] = s => active'[sessions[s].room] = s
           /\ \A t \in {u} : ~Watches(t, s)
  OBVIOUS
<1> QED BY <1>1, <1>2, WatchMoved

\* Who watches a session has it, and stands where it is not over.
LEMMA WatcherFacts ==
  ASSUME NEW t, NEW s, Watches(t, s)
  PROVE  /\ task[t].session = s /\ task[t].pc \in {"s_spawn", "s_fail", "w_wait", "f_lock", "f_end"}
         /\ task[t].pc \in {"w_wait", "f_lock"} => ~recording[s].finalized
         /\ task[t].pc # "s_fail" => active[sessions[s].room] = s
BY DEF Watches, WillEnd

\* The sessions stay as they are, and the task that moved watched none.
LEMMA WatchPlain ==
  ASSUME EachWatched, NEW W \in SUBSET Tasks, \A t \in Tasks \ W : task'[t] = task[t],
         \A t \in W : task[t].pc \notin {"s_spawn", "s_fail", "w_wait", "f_lock", "f_end"},
         UNCHANGED vars,
         \A s \in SessionIds : recording'[s].finalized = recording[s].finalized,
         UNCHANGED active
  PROVE  EachWatched'
BY WatchMoved, WatcherFacts DEF vars

\* A task that watches nothing moves, and the tables stay.
LEMMA WatchPlainOne ==
  ASSUME EachWatched, NEW u \in Tasks, \A t \in Tasks \ {u} : task'[t] = task[t],
         task[u].pc \notin {"s_spawn", "s_fail", "w_wait", "f_lock", "f_end"},
         UNCHANGED vars,
         \A s \in SessionIds : recording'[s].finalized = recording[s].finalized,
         UNCHANGED active
  PROVE  EachWatched'
BY WatchMovedOne, WatcherFacts DEF vars

\* The start that failed, or the finalizer, ends the session it watched.
LEMMA WatchEnded ==
  ASSUME RInv, IInv, OwnersInv, EndsInv, ClockInv, EachWatched, Calm, NEW u \in Tasks,
         _fail_started_session(u) \/ _close_recipient_session(u)
  PROVE  EachWatched'
<1>1. PICK x \in SessionIds : x = task[u].session /\ sessions[x].status # "none"
  BY OldPlace DEF _fail_started_session, _close_recipient_session, At, HasSession, Finalizing,
                  OwnersInv, TaskKnows
<1>2. PICK status \in Terminal, reason \in EndReasons : end_session_or_not(x, status, reason)
  <2>1. CASE _fail_started_session(u)
    BY <1>1, <2>1 DEF _fail_started_session, Terminal, EndReasons
  <2>2. CASE _close_recipient_session(u)
    <3>1. recording[x].stop_reason \in Reasons \cup {NULL}
      BY DEF RInv
    <3>2. Verdict(x)[1] \in Terminal /\ Verdict(x)[2] \in EndReasons
      BY <3>1 DEF Verdict, Terminal, EndReasons, Reasons
    <3> QED BY <1>1, <2>2, <3>2 DEF _close_recipient_session
  <2> QED BY <2>1, <2>2
<1>3. sessions'[x].status \in Terminal
  BY <1>1, <1>2, EndIsAccepted DEF ClockInv, Calm
<1>4. \A s \in SessionIds \ {x} : sessions'[s] = sessions[s]
  BY <1>2, EndsRow DEF EndsInv
<1>5. /\ UNCHANGED <<recording, active>>
      /\ \A t \in Tasks \ {u} : task'[t] = task[t]
  <2>1. \E pc : Goto(u, pc)
    BY DEF _fail_started_session, _close_recipient_session
  <2> QED BY <2>1 DEF _fail_started_session, _close_recipient_session, service, Goto, RInv
<1>6. \A s \in SessionIds : sessions'[s].status = "active" =>
        /\ sessions'[s] = sessions[s] /\ ~Watches(u, s)
  BY <1>1, <1>3, <1>4, ActiveIsNotTerminal, WatcherFacts
<1> QED BY <1>5, <1>6, WatchMovedOne

\* A row is committed, and the start that did it watches its session.
LEMMA WatchCommitted ==
  ASSUME RInv, IInv, OwnersInv, EachWatched, NEW u \in Tasks, NEW s \in SessionIds,
         start_session_committed(u, s)
  PROVE  EachWatched'
<1>1. PICK r \in Rooms : r = task[u].room
  BY OldPlace DEF start_session_committed, At, RInv, Placed
<1>2. /\ task[u].pc = "s_check" /\ start_session(s, r, TRUE, Stamp) /\ UNCHANGED recording
  BY <1>1 DEF start_session_committed, At
<1>3. /\ sessions'[s].room = r /\ \A x \in SessionIds \ {s} : sessions'[x] = sessions[x]
      /\ \A x \in SessionIds : ~(sessions[x].room = r /\ sessions[x].status = "active")
  BY <1>2, NewRow DEF start_session
<1>4. /\ \A t \in Tasks \ {u} : task'[t] = task[t]
      /\ task'[u].session = s
      /\ \/ task'[u].pc = "s_spawn" /\ active' = [active EXCEPT ![r] = s]
         \/ task'[u].pc = "s_fail" /\ UNCHANGED active
  <2> DEFINE row(pc) == [task[u] EXCEPT !.pc = pc, !.session = s]
  <2>1. \A pc \in {"s_spawn", "s_fail"} : row(pc).pc = pc /\ row(pc).session = s
    BY DEF RInv, TaskRow
  <2>2. \/ task' = [task EXCEPT ![u] = row("s_spawn")] /\ active' = [active EXCEPT ![r] = s]
        \/ task' = [task EXCEPT ![u] = row("s_fail")] /\ UNCHANGED active
    BY <1>1 DEF start_session_committed
  <2> HIDE DEF row
  <2> QED BY <2>1, <2>2 DEF RInv
<1>5. active'[r] = s \/ task'[u].pc = "s_fail"
  BY <1>4 DEF RInv
<1>6. Watches(u, s)'
  BY <1>3, <1>4, <1>5 DEF Watches, WillEnd
<1>7. ASSUME NEW x \in SessionIds, x # s, sessions'[x].status = "active"
      PROVE  /\ sessions'[x] = sessions[x] /\ ~Watches(u, x)
             /\ active[sessions[x].room] = x => active'[sessions[x].room] = x
  <2>1. sessions'[x] = sessions[x] /\ sessions[x].room # r
    BY <1>3, <1>7
  <2>2. ~Watches(u, x)
    BY <1>2, WatcherFacts
  <2>3. active' = active \/ active' = [active EXCEPT ![r] = s]
    BY <1>4
  <2>4. active[sessions[x].room] = x => active'[sessions[x].room] = x
    <3>1. sessions[x].room \in Rooms
      BY <1>7, <2>1 DEF OwnersInv, SessionKnown
    <3> QED BY <2>1, <2>3, <3>1 DEF RInv
  <2> QED BY <2>1, <2>2, <2>4
<1> QED BY <1>2, <1>4, <1>6, <1>7, WatchMovedOne

\* FFmpeg runs, and the wait task watches from here on.
LEMMA WatchSpawned ==
  ASSUME RInv, OwnersInv, EndsInv, TasksInv, EachWatched, NEW u \in Tasks, supervisor_started(u)
  PROVE  EachWatched'
<1>1. PICK x \in SessionIds : x = task[u].session
  BY OldPlace DEF supervisor_started, At, HasSession
<1>2. /\ task[u].pc = "s_spawn" /\ UNCHANGED <<vars, active, recording>>
      /\ task' = [task EXCEPT ![u] = Idle,
                              ![x] = [pc |-> "w_wait", room |-> task[u].room, session |-> x]]
  BY <1>1 DEF supervisor_started, At
<1>3. x \in Tasks /\ {x, u} \in SUBSET Tasks /\ x # NULL
  BY RecordingAssumption DEF Tasks
<1>4. task'[x].pc = "w_wait" /\ task'[x].session = x /\ \A t \in Tasks \ {x, u} : task'[t] = task[t]
  BY <1>2, <1>3 DEF RInv
<1>5. active[sessions[x].room] = x /\ ~recording[x].finalized
  BY <1>1, <1>2 DEF OwnersInv, TaskKnows, SessionKnown, Exited
<1>6. Watches(x, x)'
  BY <1>2, <1>4, <1>5 DEF Watches, WillEnd, vars
<1>7. \A s \in SessionIds \ {x} : ~Watches(u, s) /\ ~Watches(x, s)
  BY <1>1, WatcherFacts DEF TasksInv, OwnTask
<1>8. \A s \in SessionIds : sessions'[s] = sessions[s] /\ recording'[s] = recording[s]
  BY <1>2 DEF vars
<1> QED BY <1>2, <1>3, <1>4, <1>6, <1>7, <1>8, WatchMoved

\* A spawn fails: the start keeps watching.
LEMMA WatchNotSpawned ==
  ASSUME RInv, OwnersInv, EachWatched, NEW u \in Tasks, supervisor_not_started(u)
  PROVE  EachWatched'
<1>1. PICK x \in SessionIds : x = task[u].session /\ task[u].pc = "s_spawn"
  BY DEF supervisor_not_started, At, RInv, Placed, HasSession
<1>2. PICK r \in Rooms : r = task[u].room
  BY <1>1 DEF RInv, Placed
<1>3. /\ UNCHANGED <<vars, recording>> /\ active' = [active EXCEPT ![r] = NULL]
      /\ Moves(u, "s_fail", x)
  BY <1>1, <1>2, GotoMoves DEF supervisor_not_started
<1>4. active[r] = x /\ x # NULL
  BY <1>1, <1>2, RecordingAssumption DEF OwnersInv, TaskKnows
<1>5. Watches(u, x)'
  BY <1>3 DEF Watches, WillEnd, Moves
<1>6. ASSUME NEW s \in SessionIds, s # x
      PROVE  ~Watches(u, s) /\ (active[sessions[s].room] = s => active'[sessions[s].room] = s)
  <2>1. active[sessions[s].room] = s => sessions[s].room # r
    BY <1>4, <1>6
  <2>2. active[sessions[s].room] = s /\ sessions[s].room # r => active'[sessions[s].room] = s
    BY <1>3 DEF RInv
  <2> QED BY <1>1, <1>6, <2>1, <2>2, WatcherFacts
<1>7. \A s \in SessionIds : sessions'[s] = sessions[s] /\ recording'[s] = recording[s]
  BY <1>3 DEF vars
<1>8. \A t \in Tasks \ {u} : task'[t] = task[t]
  BY <1>3 DEF Moves
<1> QED BY <1>5, <1>6, <1>7, <1>8, WatchMovedOne

\* The wait task goes on, and the finalizer takes over.
LEMMA WatchTaken ==
  ASSUME RInv, OwnersInv, EndsInv, EachWatched, NEW u \in Tasks,
         _wait_for_exit(u) \/ finalize_locked(u)
  PROVE  EachWatched'
<1>1. PICK x \in SessionIds : x = task[u].session
  BY OldPlace DEF _wait_for_exit, finalize_locked, At, HasSession
<1>2. UNCHANGED <<vars, active, process>> /\ \A s \in SessionIds : sessions'[s] = sessions[s]
  BY DEF _wait_for_exit, finalize_locked, service, vars
<1>3. \A s \in SessionIds \ {x} : ~Watches(u, s)
  BY <1>1, WatcherFacts
<1>4. CASE _wait_for_exit(u)
  <2>1. task[u].pc = "w_wait" /\ UNCHANGED recording /\ Moves(u, "f_lock", x)
    BY <1>1, <1>4, GotoMoves DEF _wait_for_exit, At, service
  <2>2. Watches(u, x) => Watches(u, x)'
    BY <1>2, <2>1 DEF Watches, WillEnd, Moves
  <2>3. \A t \in Tasks \ {u} : task'[t] = task[t]
    BY <2>1 DEF Moves
  <2> QED BY <1>2, <1>3, <2>1, <2>2, <2>3, WatchMovedOne
<1>5. CASE finalize_locked(u)
  <2>1. task[u].pc = "f_lock"
    BY <1>5 DEF finalize_locked, At
  <2>2. CASE recording[x].finalized
    <3>1. UNCHANGED recording /\ Moves(u, "idle", NULL)
      BY <1>1, <1>5, <2>2, ReturnMoves DEF finalize_locked
    <3>2. ~Watches(u, x)
      BY <2>1, <2>2, WatcherFacts
    <3>3. \A t \in Tasks \ {u} : task'[t] = task[t]
      BY <3>1 DEF Moves
    <3> QED BY <1>2, <1>3, <3>1, <3>2, <3>3, WatchMovedOne
  <2>3. CASE ~recording[x].finalized
    <3>1. Moves(u, "f_end", x) /\ recording' = [recording EXCEPT ![x].finalized = TRUE]
      BY <1>1, <1>5, <2>3, GotoMoves DEF finalize_locked
    <3>2. \A s \in SessionIds \ {x} : recording'[s].finalized = recording[s].finalized
      BY <3>1 DEF RInv
    <3>3. sessions[x].status = "active" => active[sessions[x].room] = x
      <4>1. process[x] \in Exited
        BY <1>1, <2>1 DEF OwnersInv, TaskKnows, AfterExit
      <4>2. \A t \in Tasks : task[t].pc = "s_fail" => task[t].session # x
        BY <4>1, OldPlace DEF Place, Starting, Exited
      <4> QED BY <4>2, WatcherFacts DEF EachWatched
    <3>4. sessions[x].status = "active" => Watches(u, x)'
      BY <1>2, <3>1, <3>3 DEF Watches, WillEnd, Moves
    <3>5. \A t \in Tasks \ {u} : task'[t] = task[t]
      BY <3>1 DEF Moves
    <3> QED BY <1>2, <1>3, <3>2, <3>4, <3>5, WatchMovedOne
  <2> QED BY <2>2, <2>3
<1> QED BY <1>4, <1>5

\* The finalizer takes away an entry whose session is over.
LEMMA WatchPopped ==
  ASSUME RInv, ClockInv, EachWatched, Calm, NEW u \in Tasks, finalize_popped(u)
  PROVE  EachWatched'
<1>1. PICK x \in SessionIds, r \in Rooms : x = task[u].session /\ r = task[u].room
  BY DEF finalize_popped, At, RInv, Placed, HasSession, Finalizing
<1>2. /\ task[u].pc = "f_pop" /\ UNCHANGED <<vars, recording>> /\ Moves(u, "idle", NULL)
      /\ active' = [active EXCEPT ![r] = IF @ = x THEN NULL ELSE @]
  BY <1>1, ReturnMoves DEF finalize_popped, At
<1>3. sessions[x].status # "active"
  BY <1>1, <1>2, ActiveIsNotTerminal DEF ClockInv, Calm, Over
<1>4. \A s \in SessionIds : s # x /\ active[sessions[s].room] = s => active'[sessions[s].room] = s
  BY <1>2 DEF RInv
<1>5. \A s \in SessionIds : ~Watches(u, s)
  BY <1>2, WatcherFacts
<1>6. \A s \in SessionIds : sessions'[s] = sessions[s] /\ recording'[s] = recording[s]
  BY <1>2 DEF vars
<1>7. \A t \in Tasks \ {u} : task'[t] = task[t]
  BY <1>2 DEF Moves
<1> QED BY <1>3, <1>4, <1>5, <1>6, <1>7, WatchMovedOne

\* Nothing is active once close() is done.
LEMMA NoneAfterClose ==
  ASSUME RInv, OwnersInv, TasksInv, EachWatched, closed, NEW s \in SessionIds
  PROVE  sessions[s].status # "active"
<1> SUFFICES ASSUME sessions[s].status = "active" PROVE FALSE
  OBVIOUS
<1>1. PICK t \in Tasks : Watches(t, s)
  BY DEF EachWatched
<1>2. /\ task[t].session = s /\ task[t].pc # "idle"
      /\ task[t].pc # "s_fail" => active[sessions[s].room] = s
  BY <1>1, WatcherFacts
<1>3. t \in SessionIds
  BY <1>2 DEF closed, TasksInv, Tasks
<1>4. t = s /\ task[t].pc # "s_fail"
  BY <1>2, <1>3 DEF TasksInv, OwnTask, AfterExit, Finalizing
<1>5. sessions[s].room \in Rooms /\ s # NULL
  BY RecordingAssumption DEF OwnersInv, SessionKnown
<1>6. task[s].pc = "idle"
  BY <1>2, <1>4, <1>5 DEF closed
<1> QED BY <1>2, <1>4, <1>6

\* Every step of a calm application keeps each active session watched.
LEMMA WatchStep ==
  ASSUME RInv, IInv, OwnRecordings, OwnersInv, EndsInv, ClockInv, TasksInv, RecordingNext, Calm,
         mode # "down" => EachWatched, mode' # "down"
  PROVE  EachWatched'
<1>1. CASE \E instance \in Runtimes : restart(instance)
  BY <1>1, NoneAfterRestart DEF EachWatched
<1>2. CASE ~\E instance \in Runtimes : restart(instance)
  <2>1. mode # "down" /\ EachWatched
    <3>1. ASSUME mode = "down" PROVE FALSE
      <4>1. \A u \in Tasks : ~TaskStep(u)
        BY <3>1, TaskMoves
      <4> QED BY <1>2, <3>1, <4>1
              DEF RecordingNext, call_start_recording, call_stop_recording, abandon, close, closed,
                  crash, process_exits, clock_moves, world
    <3> QED BY <3>1
  <2>2. ASSUME NEW u \in Tasks, TaskStep(u) PROVE EachWatched'
    <3>1. ASSUME task[u].pc \notin {"s_spawn", "s_fail", "w_wait", "f_lock", "f_end"},
                 UNCHANGED <<vars, active>>, ~supervisor_started(u),
                 \A s \in SessionIds : recording'[s].finalized = recording[s].finalized
          PROVE  EachWatched'
      <4>1. \A t \in Tasks \ {u} : task'[t] = task[t]
        BY <2>2, <3>1, TaskMoves
      <4> QED BY <2>1, <3>1, <4>1, WatchPlainOne
    <3>2. CASE u \in Callers /\ StartStep(u)
      <4>1. CASE start_locked(u) \/ start_refused(u) \/ fail_recorded(u)
        <5>1. ~supervisor_started(u)
          BY <4>1 DEF start_locked, start_refused, fail_recorded, supervisor_started, At
        <5> QED BY <3>1, <4>1, <5>1 DEF start_locked, start_refused, fail_recorded, At
      <4>2. CASE \E s \in SessionIds : start_session_committed(u, s)
        BY <2>1, <4>2, WatchCommitted
      <4>3. CASE supervisor_started(u) \/ supervisor_not_started(u) \/ _fail_started_session(u)
        BY <2>1, <4>3, WatchSpawned, WatchNotSpawned, WatchEnded
      <4> QED BY <3>2, <4>1, <4>2, <4>3 DEF StartStep
    <3>3. CASE StopStep(u)
      <4>1. ~supervisor_started(u) /\ UNCHANGED <<vars, active>>
        BY <3>3 DEF StopStep, stop_locked, stop_timeout, stop_exited, supervisor_started, At, service
      <4>2. task[u].pc \notin {"s_spawn", "s_fail", "w_wait", "f_lock", "f_end"}
        BY <3>3 DEF StopStep, stop_locked, stop_timeout, stop_exited, At
      <4>3. \A s \in SessionIds : recording'[s].finalized = recording[s].finalized
        <5>1. CASE stop_locked(u)
          <6>1. \/ UNCHANGED recording
                \/ \E x, reason : recording' = [recording EXCEPT ![x].stop_reason = reason]
            BY <5>1 DEF stop_locked
          <6>2. ASSUME NEW x, NEW reason, NEW s \in SessionIds,
                       recording' = [recording EXCEPT ![x].stop_reason = reason]
                PROVE  recording'[s].finalized = recording[s].finalized
            <7>1. recording[s] \in [stop_reason : Reasons \cup {NULL}, finalized : BOOLEAN]
              BY DEF RInv
            <7>2. \/ recording'[s] = recording[s]
                  \/ recording'[s] = [recording[s] EXCEPT !.stop_reason = reason]
              BY <6>2 DEF RInv
            <7> QED BY <7>1, <7>2
          <6> QED BY <6>1, <6>2
        <5>2. CASE stop_timeout(u) \/ stop_exited(u)
          BY <5>2 DEF stop_timeout, stop_exited, service
        <5> QED BY <3>3, <5>1, <5>2 DEF StopStep
      <4> QED BY <3>1, <4>1, <4>2, <4>3
    <3>4. CASE u \in SessionIds /\ _wait_for_exit(u)
      BY <2>1, <3>4, WatchTaken
    <3>5. CASE FinalizeStep(u)
      <4>1. CASE finalize_recorded(u)
        <5>1. ~supervisor_started(u)
          BY <4>1 DEF finalize_recorded, supervisor_started, At
        <5> QED BY <3>1, <4>1, <5>1 DEF finalize_recorded, At, service
      <4> QED BY <2>1, <3>5, <4>1, WatchTaken, WatchEnded, WatchPopped DEF FinalizeStep
    <3> QED BY <2>2, <3>2, <3>3, <3>4, <3>5 DEF TaskStep
  <2>3. ASSUME NEW c \in Callers, NEW r \in Rooms,
               call_start_recording(c, r) \/ call_stop_recording(c, r)
        PROVE  EachWatched'
    <3>1. /\ c \in Tasks /\ task[c].pc = "idle" /\ UNCHANGED <<vars, active, recording>>
          /\ \A t \in Tasks \ {c} : task'[t] = task[t]
      BY <2>3 DEF call_start_recording, call_stop_recording, service, Tasks, RInv
    <3> QED BY <2>1, <3>1, WatchPlainOne
  <2>4. CASE close
    <3>1. /\ mode = "running" /\ UNCHANGED <<vars, active, recording>> /\ Rooms \in SUBSET Tasks
          /\ \A t \in Tasks \ Rooms : task'[t] = task[t]
      BY <2>4 DEF close, service, Tasks
    <3>2. \A r \in Rooms : task[r].pc \notin {"s_spawn", "s_fail", "w_wait", "f_lock", "f_end"}
      BY <3>1 DEF TasksInv
    <3> QED BY <2>1, <3>1, <3>2, WatchPlain
  <2>5. CASE (\E s \in SessionIds : process_exits(s)) \/ (\E at \in Times : clock_moves(at))
    <3>1. UNCHANGED <<vars, active, recording, task>>
      BY <2>5 DEF process_exits, clock_moves, service
    <3> QED BY <2>1, <3>1 DEF EachWatched, Watches, WillEnd, vars
  <2>6. /\ \A u \in Tasks : ~abandon(u)
        /\ ~closed /\ ~crash
    BY DEF abandon, Calm, closed, crash, MemoryLost
  <2> QED BY <1>2, <2>2, <2>3, <2>4, <2>5, <2>6 DEF RecordingNext
<1> QED BY <1>1, <1>2

\* An undisturbed application recovers nothing and leaves nothing.
LEMMA CleanStep ==
  ASSUME RInv, IInv, OwnersInv, EndsInv, TasksInv, RecordingNext, WatchInv, faults = {},
         NEW s \in SessionIds
  PROVE  ~sessions'[s].recovered /\ (mode' = "down" => sessions'[s].status # "active")
<1>1. ServiceStep
  BY StepKinds
<1>2. ~sessions[s].recovered
  BY DEF WatchInv
<1>3. ~sessions'[s].recovered
  <2>1. CASE \E x \in SessionIds, r \in Rooms : start_session(x, r, TRUE, Stamp)
    BY <1>2, <2>1 DEF start_session, NoRow, IInv, Typed
  <2>2. CASE \E x \in SessionIds, final_status \in Terminal : end_session(x, Stamp, final_status)
    BY <1>2, <2>2 DEF end_session, IInv, Typed, Session
  <2>3. CASE \E instance \in Runtimes : restart(instance)
    <3>1. Abandoned = {}
      BY <2>3 DEF restart, WatchInv, Abandoned
    <3> QED BY <1>2, <2>3, <3>1 DEF restart, vars
  <2>4. CASE UNCHANGED vars
    BY <1>2, <2>4 DEF vars
  <2> QED BY <1>1, <2>1, <2>2, <2>3, <2>4 DEF ServiceStep
<1>4. ASSUME mode' = "down" PROVE sessions'[s].status # "active"
  <2>1. CASE mode = "down"
    <3>1. \A u \in Tasks : ~TaskStep(u)
      BY <2>1, TaskMoves
    <3>2. UNCHANGED vars
      BY <1>4, <2>1, <3>1
         DEF RecordingNext, call_start_recording, call_stop_recording, abandon, close, closed,
             crash, restart, process_exits, clock_moves, world
    <3> QED BY <2>1, <3>2 DEF WatchInv, vars
  <2>2. CASE mode # "down"
    <3>1. \A u \in Tasks : ~TaskStep(u)
      BY <1>4, <2>2, TaskMoves
    <3>2. closed
      BY <1>4, <2>2, <3>1
         DEF RecordingNext, call_start_recording, call_stop_recording, abandon, close, closed,
             crash, restart, process_exits, clock_moves, world
    <3>3. sessions[s].status # "active"
      BY <2>2, <3>2, NoneAfterClose DEF WatchInv, Calm
    <3> QED BY <3>2, <3>3 DEF closed, MemoryLost, vars
  <2> QED BY <2>1, <2>2
<1> QED BY <1>3, <1>4

\* The dates, the tasks and the watches hold in every behaviour.
LEMMA WatchAlways == RecordingSpec => [](ClockInv /\ TasksInv /\ WatchInv)
<1>1. RecordingInit => ClockInv /\ TasksInv /\ WatchInv
  BY DEF RecordingInit, Init, NoRow, NoReport, Idle, ClockInv, Dated, Over,
         EveryPathClosesTheInterval, TasksInv, OwnTask, Tasks, WatchInv, EachWatched
<1>2. /\ RInv /\ IInv /\ OwnRecordings /\ OwnersInv /\ EndsInv
      /\ ClockInv /\ TasksInv /\ WatchInv /\ RecordingNext
      => ClockInv' /\ TasksInv' /\ WatchInv'
  <2> SUFFICES ASSUME RInv, IInv, OwnRecordings, OwnersInv, EndsInv,
                      ClockInv, TasksInv, WatchInv, RecordingNext
               PROVE  ClockInv' /\ TasksInv' /\ WatchInv'
    OBVIOUS
  <2>1. ClockInv' /\ TasksInv'
    BY ClockInvStep, TasksStep
  <2>2. faults' = faults
    BY FaultsStay
  <2>3. Calm /\ mode' # "down" => EachWatched'
    BY WatchStep DEF WatchInv
  <2>4. faults = {} => \A s \in SessionIds : /\ ~sessions'[s].recovered
                                             /\ mode' = "down" => sessions'[s].status # "active"
    BY CleanStep
  <2> QED BY <2>1, <2>2, <2>3, <2>4 DEF WatchInv, Calm
<1>3. ClockInv /\ TasksInv /\ WatchInv /\ UNCHANGED rvars => ClockInv' /\ TasksInv' /\ WatchInv'
  BY DEF ClockInv, Dated, Over, EveryPathClosesTheInterval, TasksInv, OwnTask, WatchInv, Calm,
         EachWatched, Watches, WillEnd, rvars, vars, world, service
<1>4. RecordingSpec => []IInv
  BY ServiceImplementsStore, Invariance DEF ImplementsStore
<1>5. QED
  BY <1>1, <1>2, <1>3, <1>4, RecordingInvariance, OwnRecordingsAlways, OwnersAlways, EndsAlways, PTL
     DEF RecordingSpec

\* An undisturbed application ends, after close(), with no session active and
\* no FFmpeg process alive.
THEOREM ShutdownClean == RecordingSpec => []CleanShutdown
<1>1. ASSUME RInv, IInv, OwnersInv, EndsInv, WatchInv PROVE CleanShutdown
  <2> SUFFICES ASSUME mode = "down", faults = {}, NEW s \in SessionIds
               PROVE  sessions[s].status # "active" /\ process[s] \notin Alive
    BY DEF CleanShutdown
  <2>1. sessions[s].status # "active" /\ ~sessions[s].recovered
    BY <1>1 DEF WatchInv
  <2>2. CASE sessions[s].status = "none"
    BY <1>1, <2>2 DEF OwnersInv, SessionKnown, Alive
  <2>3. CASE sessions[s].status \in Terminal
    BY <1>1, <2>1, <2>3 DEF EndsInv, Told
  <2>4. sessions[s].status \in {"none", "active"} \cup Terminal
    BY <1>1 DEF IInv, Typed, Session
  <2> QED BY <2>1, <2>2, <2>3, <2>4
<1>2. RecordingSpec => []IInv
  BY ServiceImplementsStore, Invariance DEF ImplementsStore
<1> QED BY <1>1, <1>2, RecordingInvariance, OwnersAlways, EndsAlways, WatchAlways, PTL

\* Whatever order starts, stops, exits, shutdowns, crashes and restarts
\* interleave in: each active session has a task that stands where it will end
\* it, as long as no task is cancelled and the clock is not set back.
THEOREM SessionsSupervised == RecordingSpec => []Supervised
<1>1. WatchInv => SomebodyWillEnd
  BY DEF WatchInv, Calm, EachWatched, Watches, SomebodyWillEnd
<1>2. SomebodyWillEnd /\ CleanShutdown => Supervised
  BY DEF Supervised
<1> QED BY <1>1, <1>2, WatchAlways, ShutdownClean, PTL

\* Only a clock that is set back can leave a finished recording's interval
\* open: until then the result is recorded of sessions that are over.
THEOREM IntervalClosed ==
  RecordingSpec => []("clock" \notin faults => EveryPathClosesTheInterval)
<1>1. ClockInv => ("clock" \notin faults => EveryPathClosesTheInterval)
  BY DEF ClockInv
<1> QED BY <1>1, WatchAlways, PTL
===============================================================================

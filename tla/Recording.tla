------------------------------- MODULE Recording -------------------------------
(***************************************************************************)
(* SingleRoomRecordingService (app/recording/service.py) over the session  *)
(* tables: start_recording and stop_recording as coroutines that interleave *)
(* at their awaits, the wait task and the finalizer of a recording, the    *)
(* FFmpeg process under RecorderSupervisor, close(), and the crash and     *)
(* restart of the application.  A task's pc names the await it stands at.  *)
(***************************************************************************)
EXTENDS RecipientStore

CONSTANTS
  Callers,        \* coroutines that call the service: requests and room workers
  Abandonable     \* bound: tasks that may be cancelled, or fail on a database error

\* The columns end_reason and ffmpeg_returncode; "none" is a recording_error_code
\* without a returncode.
Reasons == {"explicit_stop", "app_shutdown"}
EndReasons == Reasons \cup
  {"recorder_start_failed", "natural_exit", "ffmpeg_exit_nonzero", "wait_failed"}
Results == {"ok", "error", "none"}

\* The tasks are named by callers, sessions and rooms, no two of them alike.
ASSUME RecordingAssumption ==
  /\ 0 \in Monos /\ NULL \notin EndReasons \cup Results
  /\ NULL \notin Callers \cup SessionIds
  /\ Callers \cap SessionIds = {} /\ (Callers \cup SessionIds) \cap Rooms = {}

VARIABLES
  now,        \* the wall clock
  mode,       \* of the application: "running", "closing" or "down"
  runtime, runtime_instances,   \* this process, and the table of all of them
  faults,     \* what may disturb it: "cancel" (of a task), "crash", "clock" (set back)
  active,     \* _active: the session of a room's entry, or NULL
  recording,  \* the fields of _ActiveRecording, by session
  process,    \* the FFmpeg process of a session
  room_lock, finalize_lock,     \* the task that holds the lock, or NULL
  task,       \* the coroutines
  report      \* the columns end_reason, ffmpeg_returncode and recording_error_code

service == <<active, recording, room_lock, finalize_lock>>
world == <<now, mode, runtime, runtime_instances, faults>>
rvars == <<vars, world, service, process, task, report>>

\* The wait task of a recording is named by its session, and the call that
\* close() makes for a room by the room.
Tasks == Callers \cup SessionIds \cup Rooms

Alive == {"running", "killed"}
Exited == {"ok", "error", "unread"}   \* "unread": a pipe reader had failed
Holding == {"s_check", "s_spawn", "s_fail", "s_fail_record"}
Finalizing == {"f_end", "f_record", "f_pop"}

Faults == {"cancel", "crash", "clock"}
Fresh == [stop_reason |-> NULL, finalized |-> FALSE]
Idle == [pc |-> "idle", room |-> NULL, session |-> NULL]
NoReport == [end_reason |-> NULL, result |-> NULL, error |-> FALSE]

\* The monotonic clock never runs back, so one reading stands for all.
Stamp == [at |-> now, mono |-> 0, runtime |-> runtime]

At(t, pc) == mode # "down" /\ task[t].pc = pc
Goto(t, pc) == task' = [task EXCEPT ![t].pc = pc]
Return(t) == task' = [task EXCEPT ![t] = Idle]
Acquire(r, t) == room_lock[r] = NULL /\ room_lock' = [room_lock EXCEPT ![r] = t]
Release(r) == room_lock' = [room_lock EXCEPT ![r] = NULL]

RecordingInit ==
  /\ Init
  /\ now \in Times /\ mode = "running"
  /\ runtime \in Runtimes /\ runtime_instances = {runtime}
  /\ faults \in SUBSET Faults
  /\ active = [r \in Rooms |-> NULL]
  /\ recording = [s \in SessionIds |-> Fresh]
  /\ process = [s \in SessionIds |-> "none"]
  /\ room_lock = [r \in Rooms |-> NULL]
  /\ finalize_lock = [s \in SessionIds |-> NULL]
  /\ task = [t \in Tasks |-> Idle]
  /\ report = [s \in SessionIds |-> NoReport]

-----------------------------------------------------------------------------
(* start_recording *)

call_start_recording(c, r) ==
  /\ mode = "running" /\ task[c].pc = "idle"
  /\ task' = [task EXCEPT ![c] = [pc |-> "s_lock", room |-> r, session |-> NULL]]
  /\ UNCHANGED <<vars, world, service, process, report>>

\* RecordingAlreadyActiveError, unless the room's entry is finalized.
start_locked(c) ==
  LET r == task[c].room
  IN /\ At(c, "s_lock") /\ room_lock[r] = NULL
     /\ IF active[r] # NULL /\ ~recording[active[r]].finalized
        THEN Return(c) /\ UNCHANGED room_lock
        ELSE Goto(c, "s_check") /\ Acquire(r, c)
     /\ UNCHANGED <<vars, world, active, recording, finalize_lock, process, report>>

\* The room is gone or disabled, or has no candidate; or the database has an
\* active session of the room already.
start_refused(c) ==
  /\ At(c, "s_check")
  /\ Return(c) /\ Release(task[c].room)
  /\ UNCHANGED <<vars, world, active, recording, finalize_lock, process, report>>

\* The session row is committed; the supervisor is made and its entry
\* published, or the plan is refused, before the next await.
start_session_committed(c, s) ==
  LET r == task[c].room
  IN /\ At(c, "s_check")
     /\ start_session(s, r, TRUE, Stamp)
     /\ \/ /\ active' = [active EXCEPT ![r] = s]
           /\ task' = [task EXCEPT ![c] = [@ EXCEPT !.pc = "s_spawn", !.session = s]]
        \/ /\ task' = [task EXCEPT ![c] = [@ EXCEPT !.pc = "s_fail", !.session = s]]
           /\ UNCHANGED active
     /\ UNCHANGED <<world, recording, room_lock, finalize_lock, process, report>>

supervisor_started(c) ==
  LET s == task[c].session
  IN /\ At(c, "s_spawn")
     /\ process' = [process EXCEPT ![s] = "running"]
     /\ task' = [task EXCEPT ![c] = Idle,
                             ![s] = [pc |-> "w_wait", room |-> task[c].room, session |-> s]]
     /\ Release(task[c].room)
     /\ UNCHANGED <<vars, world, active, recording, finalize_lock, report>>

\* Mistake: a failed spawn does not end the session.
NotStartedForgotten(c) ==
  /\ At(c, "s_spawn")
  /\ active' = [active EXCEPT ![task[c].room] = NULL]
  /\ Return(c) /\ Release(task[c].room)
  /\ UNCHANGED <<vars, world, recording, finalize_lock, process, report>>

supervisor_not_started(c) ==
  /\ At(c, "s_spawn")
  /\ active' = [active EXCEPT ![task[c].room] = NULL]
  /\ Goto(c, "s_fail")
  /\ UNCHANGED <<vars, world, recording, room_lock, finalize_lock, process, report>>

\* Mistake: the session is ended without its interval.
EndRowOnly(s, final_status, end_reason) ==
  /\ sessions' = [sessions EXCEPT ![s].status = final_status, ![s].ended_at = now,
                                  ![s].ended_runtime = runtime]
  /\ report' = [report EXCEPT ![s].end_reason = end_reason]
  /\ UNCHANGED <<intervals, events>>

\* end_session with RecipientSessionStateError suppressed: refused, it
\* leaves the session as it is.
end_session_or_not(s, final_status, end_reason) ==
  IF Writable(s) /\ _validate_close_clock(s, Stamp)
  THEN /\ end_session(s, Stamp, final_status)
       /\ report' = [report EXCEPT ![s].end_reason = end_reason]
  ELSE UNCHANGED <<vars, report>>

record_result(s, result, error) ==
  report' = [report EXCEPT ![s].result = result, ![s].error = error]

_fail_started_session(c) ==
  /\ At(c, "s_fail")
  /\ end_session_or_not(task[c].session, "failed", "recorder_start_failed")
  /\ Goto(c, "s_fail_record")
  /\ UNCHANGED <<world, service, process>>

fail_recorded(c) ==
  /\ At(c, "s_fail_record")
  /\ record_result(task[c].session, "none", TRUE)
  /\ Return(c) /\ Release(task[c].room)
  /\ UNCHANGED <<vars, world, active, recording, finalize_lock, process>>

-----------------------------------------------------------------------------
(* stop_recording, and RecorderSupervisor.stop with its two timeouts *)

call_stop_recording(c, r) ==
  /\ mode = "running" /\ task[c].pc = "idle"
  /\ task' = [task EXCEPT ![c] = [pc |-> "p_lock", room |-> r, session |-> NULL]]
  /\ UNCHANGED <<vars, world, service, process, report>>

\* A supervisor without a process raises; one whose process is gone only
\* collects it; any other sends the graceful signal.
stop_locked(t) ==
  LET r == task[t].room
      s == active[r]
  IN /\ At(t, "p_lock") /\ room_lock[r] = NULL
     /\ IF s = NULL \/ recording[s].finalized
        THEN Return(t) /\ UNCHANGED recording
        ELSE /\ recording' = [recording EXCEPT ![s].stop_reason =
                                IF t \in Rooms THEN "app_shutdown" ELSE "explicit_stop"]
             /\ IF process[s] = "none" THEN Return(t)
                ELSE task' = [task EXCEPT ![t] = [@ EXCEPT !.pc = "p_stop", !.session = s]]
     /\ UNCHANGED <<vars, world, active, room_lock, finalize_lock, process, report>>

\* Mistake: terminate is not followed by a kill.
TerminateOnly(t) ==
  /\ At(t, "p_stop") /\ process[task[t].session] = "running"
  /\ Goto(t, "p_terminate")
  /\ UNCHANGED <<vars, world, service, process, report>>

stop_timeout(t) ==
  LET s == task[t].session
  IN /\ \/ /\ At(t, "p_stop") /\ process[s] = "running"
           /\ Goto(t, "p_terminate") /\ UNCHANGED process
        \/ /\ At(t, "p_terminate") /\ process[s] = "running"
           /\ process' = [process EXCEPT ![s] = "killed"]
           /\ Goto(t, "p_kill")
     /\ UNCHANGED <<vars, world, service, report>>

\* Mistake: a stop does not wait for the exit.
StopDoesNotWait(t) ==
  /\ At(t, "p_stop") \/ At(t, "p_terminate") \/ At(t, "p_kill")
  /\ Goto(t, "f_lock")
  /\ UNCHANGED <<vars, world, service, process, report>>

\* wait() after the exit: the failure of a pipe reader is raised to the caller.
stop_exited(t) ==
  LET s == task[t].session
  IN /\ At(t, "p_stop") \/ At(t, "p_terminate") \/ At(t, "p_kill")
     /\ process[s] \in Exited
     /\ IF process[s] = "unread" THEN Return(t) ELSE Goto(t, "f_lock")
     /\ UNCHANGED <<vars, world, service, process, report>>

-----------------------------------------------------------------------------
(* The wait task, and _finalize, which it and every stop run *)

_wait_for_exit(s) ==
  /\ At(s, "w_wait") /\ process[s] \in Exited
  /\ Goto(s, "f_lock")
  /\ UNCHANGED <<vars, world, service, process, report>>

\* Mistake: the flag `finalized' is not set.
FinalizeAgain(t) ==
  LET s == task[t].session
  IN /\ At(t, "f_lock") /\ finalize_lock[s] = NULL
     /\ finalize_lock' = [finalize_lock EXCEPT ![s] = t]
     /\ Goto(t, "f_end")
     /\ UNCHANGED <<vars, world, active, recording, room_lock, process, report>>

finalize_locked(t) ==
  LET s == task[t].session
  IN /\ At(t, "f_lock") /\ finalize_lock[s] = NULL
     /\ IF recording[s].finalized
        THEN Return(t) /\ UNCHANGED <<recording, finalize_lock>>
        ELSE /\ recording' = [recording EXCEPT ![s].finalized = TRUE]
             /\ finalize_lock' = [finalize_lock EXCEPT ![s] = t]
             /\ Goto(t, "f_end")
     /\ UNCHANGED <<vars, world, active, room_lock, process, report>>

\* Mistake: an exit that could not be read is taken for a natural one.
UnreadIsNatural(s) ==
  LET reason == recording[s].stop_reason
  IN IF reason # NULL THEN <<IF reason = "app_shutdown" THEN "interrupted" ELSE "ended", reason>>
     ELSE IF process[s] = "error" THEN <<"failed", "ffmpeg_exit_nonzero">>
     ELSE <<"ended", "natural_exit">>

\* The status and end_reason of a finished recording.
Verdict(s) ==
  LET reason == recording[s].stop_reason
  IN IF reason = "app_shutdown" THEN <<"interrupted", reason>>
     ELSE IF reason # NULL THEN <<"ended", reason>>
     ELSE IF process[s] = "ok" THEN <<"ended", "natural_exit">>
     ELSE IF process[s] = "error" THEN <<"failed", "ffmpeg_exit_nonzero">>
     ELSE <<"failed", "wait_failed">>

_close_recipient_session(t) ==
  LET s == task[t].session
  IN /\ At(t, "f_end")
     /\ end_session_or_not(s, Verdict(s)[1], Verdict(s)[2])
     /\ Goto(t, "f_record")
     /\ UNCHANGED <<world, service, process>>

finalize_recorded(t) ==
  LET s == task[t].session
      failed == process[s] = "error" /\ recording[s].stop_reason = NULL
  IN /\ At(t, "f_record")
     /\ IF process[s] = "unread" THEN record_result(s, "none", TRUE)
        ELSE record_result(s, process[s], failed)
     /\ Goto(t, "f_pop")
     /\ UNCHANGED <<vars, world, service, process>>

\* Mistake: the entry of a finished recording stays.
PopNothing(t) ==
  /\ At(t, "f_pop") /\ room_lock[task[t].room] = NULL
  /\ finalize_lock' = [finalize_lock EXCEPT ![task[t].session] = NULL]
  /\ Return(t)
  /\ UNCHANGED <<vars, world, active, recording, room_lock, process, report>>

\* The entry is dropped unless a later recording of the room has replaced it.
finalize_popped(t) ==
  LET s == task[t].session
      r == task[t].room
  IN /\ At(t, "f_pop") /\ room_lock[r] = NULL
     /\ active' = [active EXCEPT ![r] = IF @ = s THEN NULL ELSE @]
     /\ finalize_lock' = [finalize_lock EXCEPT ![s] = NULL]
     /\ Return(t)
     /\ UNCHANGED <<vars, world, recording, room_lock, process, report>>

\* A task is cancelled at its await, or its database write fails: the locks
\* of its `async with' blocks are released, nothing else is undone.  A start
\* may have committed its row.  asyncio kills a child it was still creating.
abandon(t) ==
  LET s == task[t].session
      r == task[t].room
  IN /\ "cancel" \in faults /\ t \in Abandonable /\ mode = "running"
     /\ task[t].pc \notin {"idle", "w_wait"}
     /\ \/ UNCHANGED vars
        \/ task[t].pc = "s_check" /\ \E new \in SessionIds : start_session(new, r, TRUE, Stamp)
     /\ IF task[t].pc \in Holding THEN Release(r) ELSE UNCHANGED room_lock
     /\ IF task[t].pc \in Finalizing
        THEN finalize_lock' = [finalize_lock EXCEPT ![s] = NULL]
        ELSE UNCHANGED finalize_lock
     /\ Return(t)
     /\ UNCHANGED <<world, active, recording, process, report>>

-----------------------------------------------------------------------------
(* close(), the death of the application and its next start *)

\* The server has answered every request, and the manager has stopped its
\* workers, before the service is closed.
close ==
  /\ mode = "running"
  /\ \A c \in Callers : task[c].pc = "idle"
  /\ mode' = "closing"
  /\ task' = [t \in Tasks |->
       IF t \in Rooms /\ t \in {r \in Rooms : active[r] # NULL}
       THEN [pc |-> "p_lock", room |-> t, session |-> NULL] ELSE task[t]]
  /\ UNCHANGED <<vars, now, runtime, runtime_instances, faults, service, process, report>>

MemoryLost ==
  /\ mode' = "down"
  /\ active' = [r \in Rooms |-> NULL]
  /\ recording' = [s \in SessionIds |-> Fresh]
  /\ room_lock' = [r \in Rooms |-> NULL]
  /\ finalize_lock' = [s \in SessionIds |-> NULL]
  /\ task' = [t \in Tasks |-> Idle]
  /\ UNCHANGED <<vars, now, runtime, runtime_instances, faults, process, report>>

\* Mistake: close() does not wait for the recordings.
ClosedAtOnce == mode = "closing" /\ MemoryLost

\* The stops are done, and the wait tasks of the entries that remain.
closed ==
  /\ mode = "closing"
  /\ \A r \in Rooms : task[r].pc = "idle"
  /\ \A r \in Rooms : active[r] # NULL => task[active[r]].pc = "idle"
  /\ MemoryLost

\* FFmpeg runs in a session of its own and outlives the application.
crash == "crash" \in faults /\ mode # "down" /\ MemoryLost

\* Mistake: the application starts without recover().
RestartOnly(instance) ==
  /\ mode = "down" /\ instance \notin runtime_instances
  /\ mode' = "running"
  /\ runtime' = instance /\ runtime_instances' = runtime_instances \cup {instance}
  /\ UNCHANGED <<vars, now, faults, service, process, task, report>>

restart(instance) ==
  /\ mode = "down" /\ instance \notin runtime_instances
  /\ mode' = "running"
  /\ runtime' = instance /\ runtime_instances' = runtime_instances \cup {instance}
  /\ IF Abandoned = {} THEN UNCHANGED vars ELSE recover_interrupted(instance, now)
  /\ UNCHANGED <<now, faults, service, process, task, report>>

-----------------------------------------------------------------------------
(* The environment: FFmpeg and the wall clock *)

process_exits(s) ==
  /\ process[s] \in Alive
  /\ \E result \in Exited :
       /\ process[s] = "killed" => result # "ok"
       /\ process' = [process EXCEPT ![s] = result]
  /\ UNCHANGED <<vars, world, service, task, report>>

clock_moves(at) ==
  /\ at > now \/ ("clock" \in faults /\ at < now)
  /\ now' = at
  /\ UNCHANGED <<vars, mode, runtime, runtime_instances, faults, service, process, task, report>>

StartStep(c) ==
  \/ start_locked(c) \/ start_refused(c)
  \/ \E s \in SessionIds : start_session_committed(c, s)
  \/ supervisor_started(c) \/ supervisor_not_started(c)
  \/ _fail_started_session(c) \/ fail_recorded(c)

StopStep(t) == stop_locked(t) \/ stop_timeout(t) \/ stop_exited(t)

FinalizeStep(t) ==
  \/ finalize_locked(t) \/ _close_recipient_session(t)
  \/ finalize_recorded(t) \/ finalize_popped(t)

TaskStep(t) ==
  \/ t \in Callers /\ StartStep(t)
  \/ t \in Callers \cup Rooms /\ StopStep(t)
  \/ t \in SessionIds /\ _wait_for_exit(t)
  \/ FinalizeStep(t)

RecordingNext ==
  \/ \E c \in Callers, r \in Rooms : call_start_recording(c, r) \/ call_stop_recording(c, r)
  \/ \E t \in Tasks : TaskStep(t) \/ abandon(t)
  \/ close \/ closed \/ crash
  \/ \E instance \in Runtimes : restart(instance)
  \/ \E s \in SessionIds : process_exits(s)
  \/ \E at \in Times : clock_moves(at)

RecordingSpec == RecordingInit /\ [][RecordingNext]_rvars

\* asyncio runs every task that is ready and serves a lock's waiters in turn;
\* a killed process dies.  Nothing makes a running FFmpeg exit.
Fairness ==
  /\ \A t \in Tasks : SF_rvars(TaskStep(t))
  /\ \A s \in SessionIds : WF_rvars(process[s] = "killed" /\ process_exits(s))

FairRecordingSpec == RecordingSpec /\ Fairness

-----------------------------------------------------------------------------
RecordingTypeOK ==
  /\ TypeOK
  /\ now \in Times /\ mode \in {"running", "closing", "down"} /\ faults \subseteq Faults
  /\ runtime \in runtime_instances /\ runtime_instances \subseteq Runtimes
  /\ active \in [Rooms -> SessionIds \cup {NULL}]
  /\ recording \in [SessionIds -> [stop_reason : Reasons \cup {NULL}, finalized : BOOLEAN]]
  /\ process \in [SessionIds -> {"none"} \cup Alive \cup Exited]
  /\ room_lock \in [Rooms -> Tasks \cup {NULL}]
  /\ finalize_lock \in [SessionIds -> Tasks \cup {NULL}]
  /\ task \in [Tasks ->
       [pc : {"idle", "s_lock", "p_lock", "p_stop", "p_terminate", "p_kill", "w_wait", "f_lock"}
               \cup Holding \cup Finalizing,
        room : Rooms \cup {NULL}, session : SessionIds \cup {NULL}]]
  /\ report \in [SessionIds ->
       [end_reason : EndReasons \cup {NULL}, result : Results \cup {NULL}, error : BOOLEAN]]

\* A task that will end the session when it goes on.
WillEnd(t, s) ==
  /\ task[t].session = s
  /\ \/ task[t].pc \in {"s_spawn", "s_fail", "f_end"}
     \/ task[t].pc \in {"w_wait", "f_lock"} /\ ~recording[s].finalized

\* While the application is up, some task stands where it will end the row of
\* each active session, unless tasks are cancelled or the clock is set back.
SomebodyWillEnd ==
  mode # "down" /\ faults \cap {"cancel", "clock"} = {} =>
    \A s \in SessionIds : sessions[s].status = "active" => \E t \in Tasks : WillEnd(t, s)

\* An undisturbed application leaves no session active and no process behind.
CleanShutdown ==
  mode = "down" /\ faults = {} =>
    \A s \in SessionIds : sessions[s].status # "active" /\ process[s] \notin Alive

\* No active session is left to nobody, whatever order starts, stops, exits,
\* shutdown, crashes and restarts interleave in, and an orderly shutdown of the
\* application ends them all.
Supervised == SomebodyWillEnd /\ CleanShutdown

\* No FFmpeg process of this runtime runs that the service could not stop:
\* the room's entry in _active names its session, whatever was cancelled.  So
\* a room is never recorded twice.  (A process outlives a killed application.)
EveryRecorderHasAnOwner ==
  mode # "down" =>
    \A s \in SessionIds :
      process[s] \in Alive /\ intervals[s][1].start.runtime = runtime
        => active[sessions[s].room] = s

\* What the row says of the end agrees with what happened to the process: a
\* session ends only after the exit, and status, end_reason and result match.
StatusTellsTheExit ==
  \A s \in SessionIds :
    LET status == sessions[s].status
        reason == report[s].end_reason
    IN /\ reason # NULL <=> status \in Terminal /\ ~sessions[s].recovered
       /\ reason # NULL => process[s] \notin Alive
       /\ status = "failed" =>
            \/ reason = "recorder_start_failed" /\ process[s] = "none"
            \/ reason = "ffmpeg_exit_nonzero" /\ process[s] = "error"
            \/ reason = "wait_failed" /\ process[s] = "unread"
       /\ status = "ended" =>
            reason = "explicit_stop" \/ (reason = "natural_exit" /\ process[s] = "ok")
       /\ status = "interrupted" => sessions[s].recovered \/ reason = "app_shutdown"
       /\ report[s].result \in {"ok", "error"} => report[s].result = process[s]

\* CleanShutdown of an application whose tasks may be cancelled: it is not so.
EveryShutdownIsClean ==
  mode = "down" /\ faults \subseteq {"cancel"} =>
    \A s \in SessionIds : sessions[s].status # "active" /\ process[s] \notin Alive

\* After a restart every active session is one this process has started:
\* recovery has closed those of all earlier ones before any call arrives.
OnlyThisRuntimeRecords ==
  mode # "down" =>
    \A s \in SessionIds :
      sessions[s].status = "active" => intervals[s][1].start.runtime = runtime

\* Every way out of a recording closes its open recipient interval: when the
\* result is recorded the session is over.
EveryPathClosesTheInterval ==
  \A s \in SessionIds : report[s].result # NULL => sessions[s].status \in Terminal

\* A stop that races the natural exit, or another stop, finalizes nothing a
\* second time: a recorded result and end_reason are never rewritten.
ReportedOnce ==
  [][\A s \in SessionIds :
       /\ report[s].end_reason # NULL => report'[s].end_reason = report[s].end_reason
       /\ report[s].result # NULL => report'[s] = report[s]]_rvars

\* The late finalizer of an old recording never takes away the entry of the
\* room's next one: an entry goes only when finalized or never started.
SuccessorKept ==
  [][\A r \in Rooms :
       active[r] # NULL /\ active'[r] # active[r] /\ mode' # "down"
         => recording[active[r]].finalized \/ process[active[r]] = "none"]_rvars

\* The service works on the tables through the store's transactions only.
ImplementsStore == Spec

\* A stop that was accepted ends the session, even of an FFmpeg that ignores
\* signals: SIGINT, terminate and kill follow each other.
StopEndsTheSession ==
  \A s \in SessionIds :
    recording[s].stop_reason # NULL ~> sessions[s].status # "active"

\* After the exit of its FFmpeg a room comes free for the next recording.
RoomComesFree ==
  \A r \in Rooms, s \in SessionIds :
    active[r] = s /\ process[s] \in Exited ~> active[r] # s
=============================================================================

-------------------------- MODULE RecorderSupervisor --------------------------
(***************************************************************************)
(* One recording from the start of FFmpeg to the row of its result:        *)
(* RecorderSupervisor (app/media/ffmpeg.py) with the two readers of its    *)
(* pipes, stop and wait; the progress callback and the finalizer of        *)
(* SingleRoomRecordingService, and the columns they write.  Recording has  *)
(* the same tasks with the locks of the room, for many recordings.         *)
(*                                                                         *)
(* A task's pc names the await it stands at.  A line of stdout stands for  *)
(* a block of progress, which the reader hands to the callback as one.     *)
(***************************************************************************)
EXTENDS Naturals

CONSTANTS Stoppers,   \* calls of stop_recording: requests, the room's worker, close
          Cancellable, \* those of room workers
          Lines,      \* bound: pipe -> what FFmpeg writes to it
          Segments,   \* bound: segments that FFmpeg closes
          PipeSize,   \* what a pipe holds that nobody reads
          Faults      \* "log" (writing ffmpeg.log), "database", "list" (reading segments.csv)

ASSUME SupervisorAssumption ==
    /\ Lines \in [{"stdout", "stderr"} -> Nat] /\ Segments \in Nat /\ PipeSize \in Nat \ {0}
    /\ Faults \subseteq {"log", "database", "list"}
    /\ Cancellable \subseteq Stoppers
    /\ Stoppers \cap {"waiter", "nobody", "stdout", "stderr"} = {}

VARIABLES
    process,      \* "running" or "exited"
    signals,      \* sent by stop so far
    _stop_stage,
    printed,      \* pipe -> lines FFmpeg has written
    taken,        \* pipe -> lines its reader has read
    reader,       \* pipe -> where its reader is
    last_progress,
    segments,     \* entries of segments.csv
    parsed,       \* task -> entries of its sync
    synced_lately, \* the last sync of on_progress is less than 2 s ago
    task,         \* "waiter" (the wait task) and stoppers: where they are
    _wait_lock,   \* who holds it, or "nobody"
    result,       \* task -> the RecorderResult it got
    finalized, finalize_lock,
    row           \* what the tables have of the session
ffmpeg == <<process, printed, segments>>
supervisor == <<signals, _stop_stage, taken, reader, last_progress, _wait_lock>>
service == <<parsed, synced_lately, finalized, finalize_lock, row>>
svars == <<ffmpeg, supervisor, service, task, result>>

Pipes == {"stdout", "stderr"}
Tasks == Stoppers \cup {"waiter"}
Reading == {"reading", "progress", "session", "sync"}
InStop == {"graceful", "terminate", "kill"}
InFinalizer == {"f_session", "f_sync", "f_end", "f_record"}
Answered == {"idle", "returned", "raised", "cancelled"}
Exited == process # "running"

At(t, pc) == task[t] = pc
Goto(t, pc) == task' = [task EXCEPT ![t] = pc]
NoResult == [stage |-> "none", progress |-> 0]

\* The wait task takes _wait_lock in its first step, before a stop can get the
\* room's lock.
SupervisorInit ==
    /\ process = "running" /\ signals = {} /\ _stop_stage = "natural"
    /\ printed = [p \in Pipes |-> 0] /\ taken = printed
    /\ reader = [p \in Pipes |-> "reading"] /\ last_progress = 0
    /\ segments = 0 /\ parsed = [t \in Tasks \cup Pipes |-> 0] /\ synced_lately = FALSE
    /\ task = [t \in Tasks |-> IF t = "waiter" THEN "exit" ELSE "idle"]
    /\ _wait_lock = "waiter" /\ result = [t \in Tasks |-> NoResult]
    /\ finalized = FALSE /\ finalize_lock = "nobody"
    /\ row = [active |-> TRUE, progress |-> 0, media |-> 0, stage |-> "none", recorded |-> FALSE,
              entry |-> TRUE, unread |-> FALSE]

-----------------------------------------------------------------------------
(* FFmpeg *)

\* A write into a full pipe blocks.
Blocked == \E p \in Pipes : printed[p] - taken[p] = PipeSize
prints(p) ==
    /\ ~Exited /\ ~Blocked /\ printed[p] < Lines[p]
    /\ printed' = [printed EXCEPT ![p] = @ + 1]
    /\ UNCHANGED <<process, segments, supervisor, service, task, result>>
closes_segment ==
    /\ ~Exited /\ ~Blocked /\ segments < Segments
    /\ segments' = segments + 1
    /\ UNCHANGED <<process, printed, supervisor, service, task, result>>
\* By itself, after a signal, or killed while it is blocked.
exits ==
    /\ ~Exited /\ (Blocked => signals # {})
    /\ process' = "exited"
    /\ UNCHANGED <<printed, segments, supervisor, service, task, result>>

-----------------------------------------------------------------------------
(* The readers *)

Reader(p, pc) == reader' = [reader EXCEPT ![p] = pc]
Sync(t) == row' = [row EXCEPT !.media = IF parsed[t] > @ THEN parsed[t] ELSE @]

takes(p) ==
    /\ reader[p] = "reading" /\ taken[p] < printed[p]
    /\ taken' = [taken EXCEPT ![p] = @ + 1]
    /\ IF p = "stdout"
       THEN last_progress' = taken'[p] /\ Reader(p, "progress")
       ELSE /\ UNCHANGED last_progress
            /\ reader' \in {reader} \cup IF "log" \in Faults THEN {[reader EXCEPT ![p] = "failed"]} ELSE {}
    /\ UNCHANGED <<ffmpeg, signals, _stop_stage, _wait_lock, service, task, result>>

\* Mistake: the callback's failure ends the reader.
CallbackRaises == Reader("stdout", "failed")
\* _maybe_call: a callback that raises is counted, and the reader goes on.
callback_fails == Reader("stdout", "reading")

\* segments.csv has a line of every segment that is closed; none yet, no file.
parse_segment_csv == segments
update_progress == row' = IF row.active THEN [row EXCEPT !.progress = last_progress] ELSE row
\* on_progress: update_progress, then at most every two seconds a sync of the
\* segments: its session is read, then the list, then they are written.
on_progress ==
    /\ parsed' = [parsed EXCEPT !["stdout"] = IF reader["stdout"] = "session" THEN parse_segment_csv ELSE 0]
    /\ UNCHANGED <<ffmpeg, signals, _stop_stage, taken, last_progress, _wait_lock,
                   finalized, finalize_lock, task, result>>
    /\ \/ /\ reader["stdout"] = "progress"
          /\ update_progress
          /\ IF row.entry /\ ~synced_lately
             THEN synced_lately' = TRUE /\ Reader("stdout", "session")
             ELSE synced_lately' \in {FALSE, synced_lately} /\ Reader("stdout", "reading")
       \/ /\ reader["stdout"] = "session"
          /\ Reader("stdout", "sync") /\ UNCHANGED <<row, synced_lately>>
       \/ /\ reader["stdout"] = "sync"
          /\ Sync("stdout") /\ Reader("stdout", "reading") /\ UNCHANGED synced_lately
       \/ /\ reader["stdout"] \in {"progress", "session", "sync"} /\ "database" \in Faults
          /\ callback_fails /\ UNCHANGED <<row, synced_lately>>

ends_of_file(p) ==
    /\ Exited /\ reader[p] = "reading" /\ taken[p] = printed[p]
    /\ Reader(p, "done")
    /\ UNCHANGED <<ffmpeg, signals, _stop_stage, taken, last_progress, _wait_lock, service, task, result>>

-----------------------------------------------------------------------------
(* stop and wait *)

\* The stage is set, then the signal sent.
Signal(stage) == _stop_stage' = stage /\ signals' = signals \cup {stage}

stop(t) ==
    /\ At(t, "idle") /\ row.entry /\ ~finalized
    /\ IF Exited THEN Goto(t, "wait") /\ UNCHANGED <<_stop_stage, signals>>
       ELSE Goto(t, "graceful") /\ Signal("graceful")
    /\ UNCHANGED <<ffmpeg, taken, reader, last_progress, _wait_lock, service, result>>
stop_timeout(t) ==
    /\ ~Exited
    /\ \/ At(t, "graceful") /\ Goto(t, "terminate") /\ Signal("terminate")
       \/ At(t, "terminate") /\ Goto(t, "kill") /\ Signal("kill")
    /\ UNCHANGED <<ffmpeg, taken, reader, last_progress, _wait_lock, service, result>>
stop_exited(t) ==
    /\ task[t] \in InStop /\ Exited /\ Goto(t, "wait")
    /\ UNCHANGED <<ffmpeg, supervisor, service, result>>

\* Mistake: wait takes no lock.
WaitUnlocked(t) ==
    /\ At(t, "wait") /\ Goto(t, "exit")
    /\ UNCHANGED <<ffmpeg, supervisor, service, result>>
wait(t) ==
    /\ At(t, "wait") /\ _wait_lock = "nobody"
    /\ _wait_lock' = t /\ Goto(t, "exit")
    /\ UNCHANGED <<ffmpeg, signals, _stop_stage, taken, reader, last_progress, service, result>>
wait_exited(t) ==
    /\ At(t, "exit") /\ Exited /\ Goto(t, "join")
    /\ UNCHANGED <<ffmpeg, supervisor, service, result>>

\* Mistake: wait does not join the readers.
NotJoined == {}
Joined == {p \in Pipes : reader[p] \in Reading}
Got == [stage |-> _stop_stage, progress |-> last_progress]
Unlock(t) == _wait_lock' = IF _wait_lock = t THEN "nobody" ELSE _wait_lock
\* _join_readers: the first exception of a reader is raised at once; the wait
\* task then finalizes without a result, a stop only raises.
wait_returns(t) ==
    /\ At(t, "join") /\ Joined = {} /\ \A p \in Pipes : reader[p] \notin {"failed", "cancelled"}
    /\ result' = [result EXCEPT ![t] = Got] /\ Goto(t, "f_lock") /\ Unlock(t)
    /\ UNCHANGED <<ffmpeg, signals, _stop_stage, taken, reader, last_progress, service>>
wait_raises(t) ==
    /\ At(t, "join")
    /\ \/ /\ \E p \in Pipes : reader[p] = "failed"
          /\ Goto(t, IF t = "waiter" THEN "f_lock" ELSE "raised")
       \* a CancelledError, which _wait_for_exit does not catch
       \/ /\ \A p \in Pipes : reader[p] # "failed"
          /\ \E p \in Pipes : reader[p] = "cancelled"
          /\ Goto(t, "cancelled")
    /\ Unlock(t)
    /\ UNCHANGED <<ffmpeg, signals, _stop_stage, taken, reader, last_progress, service, result>>

\* The task of a stop is cancelled at its await; a cancelled gather cancels
\* the readers.  One that finalizes leaves its work where it is.
cancel(t) ==
    /\ t \in Cancellable /\ task[t] \notin Answered
    /\ Goto(t, "cancelled") /\ Unlock(t)
    /\ reader' = [p \in Pipes |-> IF At(t, "join") /\ reader[p] \in Reading THEN "cancelled" ELSE reader[p]]
    /\ finalize_lock' = IF finalize_lock = t THEN "nobody" ELSE finalize_lock
    /\ UNCHANGED <<ffmpeg, signals, _stop_stage, taken, last_progress,
                   parsed, synced_lately, finalized, row, result>>

-----------------------------------------------------------------------------
(* _finalize *)

finalize_locked(t) ==
    /\ At(t, "f_lock") /\ finalize_lock = "nobody"
    /\ IF finalized
       THEN /\ Goto(t, "returned") /\ result' = [result EXCEPT ![t] = NoResult]
            /\ UNCHANGED <<finalized, finalize_lock>>
       ELSE /\ finalized' = TRUE /\ finalize_lock' = t /\ Goto(t, "f_session")
            /\ UNCHANGED result
    /\ UNCHANGED <<ffmpeg, supervisor, parsed, synced_lately, row>>

\* An OSError of the list is suppressed: `unread' remembers it.
_sync_segments(t) ==
    /\ \/ /\ At(t, "f_session") /\ Goto(t, "f_sync")
          /\ UNCHANGED row
       \/ /\ At(t, "f_session") /\ "list" \in Faults
          /\ row' = [row EXCEPT !.unread = TRUE] /\ Goto(t, "f_end")
       \/ /\ At(t, "f_sync")
          /\ Sync(t) /\ Goto(t, "f_end")
    /\ parsed' = [parsed EXCEPT ![t] = IF task'[t] = "f_sync" THEN parse_segment_csv ELSE 0]
    /\ UNCHANGED <<ffmpeg, supervisor, synced_lately, finalized, finalize_lock, result>>

finalize_recorded(t) ==
    /\ \/ /\ At(t, "f_end") /\ Goto(t, "f_record")
          /\ row' = [row EXCEPT !.active = FALSE] /\ UNCHANGED finalize_lock
       \/ /\ At(t, "f_record") /\ Goto(t, "returned")
          /\ row' = [row EXCEPT !.progress = result[t].progress, !.stage = result[t].stage,
                                !.recorded = TRUE, !.entry = FALSE]
          /\ finalize_lock' = "nobody"
    /\ UNCHANGED <<ffmpeg, supervisor, parsed, synced_lately, finalized, result>>

\* The exception leaves the finalizer: nobody takes its work up again.
finalize_raises(t) ==
    /\ task[t] \in InFinalizer /\ "database" \in Faults
    /\ Goto(t, "raised") /\ finalize_lock' = "nobody"
    /\ UNCHANGED <<ffmpeg, supervisor, parsed, synced_lately, finalized, row, result>>

-----------------------------------------------------------------------------
ReaderStep == on_progress \/ \E p \in Pipes : takes(p) \/ ends_of_file(p)
TaskStep(t) ==
    \/ stop_timeout(t) \/ stop_exited(t) \/ wait(t) \/ wait_exited(t) \/ wait_returns(t) \/ wait_raises(t)
    \/ finalize_locked(t) \/ _sync_segments(t) \/ finalize_recorded(t) \/ finalize_raises(t)
SupervisorNext ==
    \/ \E p \in Pipes : prints(p)
    \/ closes_segment \/ exits \/ ReaderStep
    \/ \E t \in Tasks : stop(t) \/ TaskStep(t) \/ cancel(t)
\* The event loop runs what is ready; a killed process dies.
SupervisorFairness ==
    /\ WF_svars(ReaderStep) /\ \A t \in Tasks : WF_svars(TaskStep(t))
    /\ WF_svars("kill" \in signals /\ exits)
SupervisorSpec == SupervisorInit /\ [][SupervisorNext]_svars /\ SupervisorFairness

-----------------------------------------------------------------------------
(* Types, and a lock for everyone who is inside. *)
SupervisorTypeOK ==
    /\ process \in {"running", "exited"} /\ signals \subseteq InStop
    /\ _stop_stage \in InStop \cup {"natural"}
    /\ \A p \in Pipes : printed[p] \in 0 .. Lines[p] /\ taken[p] \in 0 .. printed[p]
    /\ reader \in [Pipes -> Reading \cup {"done", "failed", "cancelled"}]
    /\ task \in [Tasks -> Answered \cup InStop \cup InFinalizer \cup {"wait", "exit", "join", "f_lock"}]
    /\ \A t \in Tasks : task[t] \in InFinalizer <=> finalize_lock = t

(* The stop_stage of a row names a signal that was sent, and `natural'     *)
(* says that none was (ffmpeg.py, stop).                                   *)
StageIsReal ==
    row.stage # "none" => IF signals = {} THEN row.stage = "natural" ELSE row.stage \in signals

(* The row of a finished recording has the last progress FFmpeg printed    *)
(* and every segment it closed: nothing that was still in a pipe or in a   *)
(* callback is missing (ffmpeg.py, wait; service.py, _finalize); and its   *)
(* stage is one of a stop that was made.                                   *)
ResultIsComplete ==
    /\ SupervisorTypeOK /\ StageIsReal
    /\ row.recorded => /\ Exited
                       /\ row.stage # "none" => row.progress = printed["stdout"]
                       /\ row.unread \/ row.media = segments

(* Whoever is cancelled and whatever fails meanwhile, an exit reaches the  *)
(* row, unless a finalizer itself was cut (service.py, _wait_for_exit).    *)
Cut == finalized /\ finalize_lock = "nobody"
ExitIsFinalized == Exited ~> (row.recorded \/ Cut)

(* Observability hooks must never stop pipe consumption or deadlock FFmpeg *)
(* (ffmpeg.py, _maybe_call): what it prints as progress is read, whatever  *)
(* the callback and the tables do.                                         *)
PipesAreRead == []<>(Exited \/ taken["stdout"] = printed["stdout"])
=============================================================================

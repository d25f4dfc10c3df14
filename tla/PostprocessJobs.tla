---------------------------- MODULE PostprocessJobs ----------------------------
(***************************************************************************)
(* The export jobs of app/postprocess: the tables postprocess_jobs,        *)
(* postprocess_attempts and postprocess_outputs (repository.py), the one   *)
(* worker coroutine with the calls that interleave with it (service.py),   *)
(* and the files the executor leaves on disk (executor.py).  A transaction *)
(* is one action; the worker's pc names the await it stands at.            *)
(***************************************************************************)
EXTENDS Integers, Sequences, FiniteSets

CONSTANTS
  Jobs,           \* export plans, numbered as claim_next orders their jobs
  NOutputs,       \* outputs of a plan, in plan order; no path is in two plans
  MaxAttempts,
  Crashes,        \* whether the application may be killed
  NULL

ASSUME JobsAssumption ==
  /\ Jobs \subseteq Nat /\ NOutputs \in Nat \ {0} /\ MaxAttempts \in Nat \ {0}
  /\ Crashes \in BOOLEAN
  /\ NULL \notin Jobs

VARIABLES
  mode,       \* of the application: "running", "closing" (_closed) or "down"
  database_fails, \* whether a call of the worker to the database may raise
  job,        \* rows of postprocess_jobs; status "none" before create_job
  attempts,   \* statuses of a job's attempts; their number is the column attempts
  output,     \* status of each output
  finals, writings,   \* the finished files and the .writing files on disk
  worker,     \* the worker coroutine with the locals of _run_job
  signals     \* jobs a cancel_job has committed for and not yet signalled

tables == <<job, attempts, output>>
files == <<finals, writings>>
world == <<mode, database_fails>>
vars == <<world, tables, files, worker, signals>>

Outputs == 1 .. NOutputs
Terminal == {"succeeded", "failed", "canceled"}

NoWorker == [pc |-> "idle", job |-> NULL, cancel_event |-> FALSE, kept |-> {},
             next |-> 1, status |-> NULL, raised |-> FALSE]

At(pc) == mode # "down" /\ worker.pc = pc
Goto(pc) == worker' = [worker EXCEPT !.pc = pc]
Path == <<worker.job, worker.next>>

\* _active_job_id and _active_cancel are set.
Executing(j) == worker.pc \notin {"idle", "claiming", "claimed"} /\ worker.job = j

\* UPDATE postprocess_outputs SET status = to WHERE job_id = j AND status IN from
Reset(j, from, to) ==
  output' = [output EXCEPT ![j] = [o \in Outputs |-> IF @[o] \in from THEN to ELSE @[o]]]

Init ==
  /\ mode = "running" /\ database_fails \in BOOLEAN
  /\ job = [j \in Jobs |-> [status |-> "none", cancel_requested |-> FALSE]]
  /\ attempts = [j \in Jobs |-> <<>>]
  /\ output = [j \in Jobs |-> [o \in Outputs |-> "none"]]
  /\ finals = {} /\ writings = {}
  /\ worker = NoWorker
  /\ signals = {}

-----------------------------------------------------------------------------
(* The calls of the API *)

\* A plan whose job exists returns that job.
create_job(j) ==
  /\ mode = "running" /\ job[j].status = "none"
  /\ job' = [job EXCEPT ![j].status = "queued"]
  /\ Reset(j, {"none"}, "queued")
  /\ UNCHANGED <<world, attempts, files, worker, signals>>

request_cancel(j) ==
  /\ mode = "running"
  /\ \/ /\ job[j].status = "queued"
        /\ job' = [job EXCEPT ![j] = [status |-> "canceled", cancel_requested |-> TRUE]]
        /\ Reset(j, {"queued"}, "canceled")
     \/ /\ job[j].status = "running"
        /\ job' = [job EXCEPT ![j].cancel_requested = TRUE]
        /\ UNCHANGED output
  /\ signals' = signals \cup {j}
  /\ UNCHANGED <<world, attempts, files, worker>>

\* Mistake: the running attempt is not told of the cancel.
SignalNobody(j) ==
  /\ j \in signals
  /\ signals' = signals \ {j}
  /\ UNCHANGED <<world, tables, files, worker>>

\* The rest of cancel_job, after its await: it looks at _active_job_id now.
cancel_job_signals(j) ==
  /\ j \in signals
  /\ signals' = signals \ {j}
  /\ worker' = [worker EXCEPT !.cancel_event = @ \/ Executing(j)]
  /\ UNCHANGED <<world, tables, files>>

\* Mistake: the old request to cancel survives a retry.
RetryKeepsCancel(j) ==
  /\ mode = "running"
  /\ job[j].status \in {"failed", "canceled"} /\ Len(attempts[j]) < MaxAttempts
  /\ job' = [job EXCEPT ![j].status = "queued"]
  /\ Reset(j, {"failed", "canceled"}, "queued")
  /\ UNCHANGED <<world, attempts, files, worker, signals>>

retry(j) ==
  /\ mode = "running"
  /\ job[j].status \in {"failed", "canceled"} /\ Len(attempts[j]) < MaxAttempts
  /\ job' = [job EXCEPT ![j] = [status |-> "queued", cancel_requested |-> FALSE]]
  /\ Reset(j, {"failed", "canceled"}, "queued")
  /\ UNCHANGED <<world, attempts, files, worker, signals>>

-----------------------------------------------------------------------------
(* _worker_loop and _run_job *)

worker_loops ==
  /\ mode = "running" /\ worker.pc = "idle"
  /\ Goto("claiming")
  /\ UNCHANGED <<world, tables, files, signals>>

Claimable(j) ==
  job[j].status = "queued" /\ ~job[j].cancel_requested /\ Len(attempts[j]) < MaxAttempts

claim_next ==
  /\ At("claiming")
  /\ \/ /\ \A j \in Jobs : ~Claimable(j)
        /\ Goto("idle")
        /\ UNCHANGED tables
     \/ \E j \in Jobs :
          /\ Claimable(j) /\ \A k \in Jobs : Claimable(k) => j <= k
          /\ job' = [job EXCEPT ![j].status = "running"]
          /\ attempts' = [attempts EXCEPT ![j] = Append(@, "running")]
          /\ Reset(j, {"failed", "canceled"}, "queued")
          /\ worker' = [NoWorker EXCEPT !.pc = "claimed", !.job = j]
  /\ UNCHANGED <<world, files, signals>>

\* Mistake: a retry repeats the outputs that are done.
KeepNothing ==
  /\ At("claimed")
  /\ Goto("next")
  /\ UNCHANGED <<world, tables, files, signals>>

\* claim_next reads the job it has claimed; what it reads is not read again.
get_job ==
  /\ At("claimed")
  /\ worker' = [worker EXCEPT !.pc = "next",
       !.kept = {o \in Outputs : output[worker.job][o] = "succeeded"}]
  /\ UNCHANGED <<world, tables, files, signals>>

is_cancel_requested == job[worker.job].cancel_requested
next_output ==
  /\ At("next")
  /\ worker' =
       IF worker.next > NOutputs THEN [worker EXCEPT !.pc = "finish", !.status = "succeeded"]
       ELSE [worker EXCEPT
               !.cancel_event = @ \/ mode = "closing" \/ is_cancel_requested,
               !.pc = IF worker.next \in worker.kept THEN "next" ELSE "mark",
               !.next = IF @ \in worker.kept THEN @ + 1 ELSE @]
  /\ UNCHANGED <<world, tables, files, signals>>

set_output_status(status) == output' = [output EXCEPT ![worker.job][worker.next] = status]

mark_writing ==
  /\ At("mark")
  /\ set_output_status("writing")
  /\ Goto("run")
  /\ UNCHANGED <<world, job, attempts, files, signals>>

\* Mistake: the return code is not looked at.
ReturnedAnyway(succeeded) ==
  worker' = IF worker.cancel_event
            THEN [worker EXCEPT !.pc = "finish", !.status = "canceled"]
            ELSE [worker EXCEPT !.pc = "store", !.status = "succeeded"]

\* What _run_job makes of a result, at once: a cancel wins over success.
Returned(succeeded) ==
  worker' = IF worker.cancel_event
            THEN [worker EXCEPT !.pc = "finish", !.status = "canceled"]
            ELSE [worker EXCEPT !.pc = "store",
                    !.status = IF succeeded THEN "succeeded" ELSE "failed"]

\* An exception reaches the handler of _run_job.
Raised ==
  worker' = [worker EXCEPT !.pc = "finish", !.raised = TRUE,
               !.status = IF worker.cancel_event THEN "canceled" ELSE "failed"]

\* run_output up to the spawn: a finished file is only taken over from an
\* earlier attempt of the job, a .writing file never.
run_output ==
  /\ At("run")
  /\ IF Path \in writings \/ (Path \in finals /\ Len(attempts[worker.job]) = 1)
     THEN Raised /\ UNCHANGED files
     ELSE IF Path \in finals THEN Returned(TRUE) /\ UNCHANGED files
     ELSE \/ Goto("ffmpeg") /\ writings' = writings \cup {Path} /\ UNCHANGED finals
          \/ Raised /\ UNCHANGED files
  /\ UNCHANGED <<world, tables, signals>>

\* FFmpeg exits by itself, perhaps at the moment of a cancel; on success the
\* file is renamed.  The file operations before and after the rename may raise.
ffmpeg_exited ==
  /\ At("ffmpeg")
  /\ \/ Returned(TRUE) /\ writings' = writings \ {Path} /\ finals' = finals \cup {Path}
     \/ Returned(FALSE) /\ writings' = writings \ {Path} /\ UNCHANGED finals
     \/ Raised /\ UNCHANGED files
     \/ Raised /\ writings' = writings \ {Path} /\ finals' = finals \cup {Path}
  /\ UNCHANGED <<world, tables, signals>>

\* Mistake: a canceled job is not finished.
CancelReturns ==
  /\ At("ffmpeg") /\ worker.cancel_event
  /\ worker' = NoWorker
  /\ writings' = writings \ {Path}
  /\ UNCHANGED <<world, tables, finals, signals>>

\* _stop_process escalates to a kill, so the process always goes.
ffmpeg_canceled ==
  /\ At("ffmpeg") /\ worker.cancel_event
  /\ worker' = [worker EXCEPT !.pc = "finish", !.status = "canceled"]
  /\ writings' = writings \ {Path}
  /\ UNCHANGED <<world, tables, finals, signals>>

store_result ==
  /\ At("store")
  /\ set_output_status(worker.status)
  /\ worker' = IF worker.status = "succeeded"
               THEN [worker EXCEPT !.pc = "next", !.next = @ + 1, !.status = NULL]
               ELSE [worker EXCEPT !.pc = "finish"]
  /\ UNCHANGED <<world, job, attempts, files, signals>>

\* Mistake: the attempt's row is forgotten.
FinishJobRow(j, status) ==
  /\ job' = [job EXCEPT ![j].status = status,
                        ![j].cancel_requested = @ \/ status = "canceled"]
  /\ UNCHANGED attempts
  /\ IF status = "succeeded" THEN UNCHANGED output
     ELSE Reset(j, {"queued", "writing"}, status)

\* The transaction of finish_job; only the attempt's row is guarded.
FinishRows(j, status) ==
  /\ job' = [job EXCEPT ![j].status = status,
                        ![j].cancel_requested = @ \/ status = "canceled"]
  /\ attempts' = [attempts EXCEPT ![j][Len(attempts[j])] = IF @ = "running" THEN status ELSE @]
  /\ IF status = "succeeded" THEN UNCHANGED output
     ELSE Reset(j, {"queued", "writing"}, status)

finish_job ==
  /\ At("finish")
  /\ FinishRows(worker.job, worker.status)
  /\ worker' = NoWorker
  /\ UNCHANGED <<world, files, signals>>

\* A database call of the worker raises: in claim_next after its commit, in
\* _run_job, or in finish_job before or after its commit; a second failure
\* there is suppressed.
database_failed ==
  /\ database_fails
  /\ \/ At("claimed") /\ worker' = NoWorker /\ UNCHANGED tables
     \/ (At("next") \/ At("mark") \/ At("store")) /\ Raised /\ UNCHANGED tables
     \/ /\ At("finish")
        /\ UNCHANGED tables \/ FinishRows(worker.job, worker.status)
        /\ IF worker.raised THEN worker' = NoWorker ELSE Raised
  /\ UNCHANGED <<world, files, signals>>

-----------------------------------------------------------------------------
(* close(), the death of the application and its next start *)

\* The server has answered its requests.
close ==
  /\ mode = "running" /\ signals = {}
  /\ mode' = "closing"
  /\ worker' = [worker EXCEPT !.cancel_event = @ \/ Executing(worker.job)]
  /\ UNCHANGED <<database_fails, tables, files, signals>>

closed ==
  /\ mode = "closing" /\ worker.pc = "idle"
  /\ mode' = "down"
  /\ UNCHANGED <<database_fails, tables, files, worker, signals>>

crash ==
  /\ Crashes /\ mode # "down"
  /\ mode' = "down"
  /\ worker' = NoWorker
  /\ signals' = {}
  /\ UNCHANGED <<database_fails, tables, files>>

\* start(): recover_interrupted, before the worker task is made.
start ==
  /\ mode = "down"
  /\ mode' = "running"
  /\ LET left(j) == job[j].status = "running"
     IN /\ job' = [j \in Jobs |->
             IF left(j) THEN [job[j] EXCEPT !.status = "failed"] ELSE job[j]]
        /\ attempts' = [j \in Jobs |-> [n \in DOMAIN attempts[j] |->
             IF left(j) /\ attempts[j][n] = "running" THEN "interrupted" ELSE attempts[j][n]]]
        /\ output' = [j \in Jobs |-> [o \in Outputs |->
             IF left(j) /\ output[j][o] \in {"queued", "writing"} THEN "failed"
             ELSE output[j][o]]]
  /\ UNCHANGED <<database_fails, files, worker, signals>>

\* The steps of the worker that wait for no process.
WorkerStep ==
  \/ worker_loops \/ claim_next \/ get_job \/ next_output \/ mark_writing
  \/ run_output \/ ffmpeg_canceled \/ store_result \/ finish_job

Next ==
  \/ \E j \in Jobs : create_job(j) \/ request_cancel(j) \/ cancel_job_signals(j) \/ retry(j)
  \/ WorkerStep \/ ffmpeg_exited \/ database_failed
  \/ close \/ closed \/ crash \/ start

Spec == Init /\ [][Next]_vars

\* asyncio runs what is ready, and the worker polls the queue: its waits end
\* without a wake-up.  Nothing makes an FFmpeg exit that nobody cancels.
FairSpec ==
  Spec /\ WF_vars(WorkerStep) /\ \A j \in Jobs : WF_vars(cancel_job_signals(j))

-----------------------------------------------------------------------------
JobRow == [status : {"none", "queued", "running"} \cup Terminal, cancel_requested : BOOLEAN]
AttemptStatus == {"running", "interrupted"} \cup Terminal
OutputRow == [Outputs -> {"none", "queued", "writing"} \cup Terminal]
Worker ==
  [pc : {"idle", "claiming", "claimed", "next", "mark", "run", "ffmpeg", "store", "finish"},
   job : Jobs \cup {NULL}, cancel_event : BOOLEAN, kept : SUBSET Outputs,
   next : 1 .. NOutputs + 1, status : Terminal \cup {NULL}, raised : BOOLEAN]
TypeOK ==
  /\ mode \in {"running", "closing", "down"} /\ database_fails \in BOOLEAN
  /\ job \in [Jobs -> JobRow]
  /\ attempts \in [Jobs -> Seq(AttemptStatus)]
  /\ output \in [Jobs -> OutputRow]
  /\ finals \subseteq Jobs \X Outputs
  /\ writings \subseteq Jobs \X Outputs
  /\ worker \in Worker
  /\ signals \subseteq Jobs

\* A job is running exactly while its newest attempt is, and no older attempt
\* is ever left running: cancels, retries and recovery keep the two tables in
\* step although each is updated by its own statement and condition.
AttemptsFollowTheJob ==
  \A j \in Jobs :
    /\ Len(attempts[j]) <= MaxAttempts
    /\ \A n \in DOMAIN attempts[j] :
         attempts[j][n] = "running" <=> job[j].status = "running" /\ n = Len(attempts[j])
    /\ job[j].status = "running" => attempts[j] # <<>>

\* Whatever path led to it, a queued job is one claim_next will select, and
\* none of its outputs is in a state the worker would not take up.
QueuedIsClaimable ==
  \A j \in Jobs : job[j].status = "queued" =>
    /\ Claimable(j)
    /\ \A o \in Outputs : output[j][o] \in {"queued", "succeeded"}

\* A job that is over has settled outputs, an output is only being written
\* for a running job, and success is never claimed without its file.
OutputsAreSettled ==
  \A j \in Jobs : \A o \in Outputs :
    /\ job[j].status \in Terminal => output[j][o] \in Terminal
    /\ output[j][o] = "writing" => job[j].status = "running"
    /\ output[j][o] = "succeeded" => <<j, o>> \in finals /\ <<j, o>> \notin writings

\* All of it: whatever happens to a job (claims, cancels, retries, failing
\* writes, recovery), its attempts and outputs say the same as its row.
RowsFollowTheJob ==
  TypeOK /\ AttemptsFollowTheJob /\ QueuedIsClaimable /\ OutputsAreSettled

\* `retry ... does not overwrite a succeeded output': neither the row nor the
\* file of an output that is done is touched again, by a retry, a restart or
\* a second attempt.
NeverOverwritten ==
  [][/\ finals \subseteq finals'
     /\ writings' \cap finals = writings \cap finals
     /\ \A j \in Jobs : \A o \in Outputs :
          output[j][o] = "succeeded" => output'[j][o] = "succeeded"]_vars

\* While the database answers, a job says `running' only when the worker is
\* on it, in this or an earlier life of the application.
RunningHasTheWorker ==
  ~database_fails /\ mode # "down" =>
    \A j \in Jobs : job[j].status = "running" <=> worker.job = j

\* While the database answers, no step withdraws a success, and success of a
\* job is success of every output of the plan.
SuccessStaysWhole ==
  \A j \in Jobs :
    /\ job[j].status = "succeeded" => job'[j].status = "succeeded"
    /\ job'[j].status = "succeeded" =>
         \A o \in Outputs : output'[j][o] = "succeeded" /\ <<j, o>> \in finals'
SuccessIsWhole == [][~database_fails => SuccessStaysWhole]_vars

\* A cancel of a running job ends it, even if FFmpeg never exits by itself,
\* and wherever the worker stands when the two halves of cancel_job run.
CancelEndsTheJob ==
  \A j \in Jobs :
    job[j].status = "running" /\ job[j].cancel_requested ~> job[j].status # "running"

\* One failing job does not keep the next from being served: a queued job is
\* taken up unless an FFmpeg runs on forever or the application closes.
QueuedIsServed ==
  []<>(worker.pc # "ffmpeg") =>
    \A j \in Jobs : job[j].status = "queued" ~> job[j].status # "queued" \/ mode # "running"

\* A cancel that a running job accepted makes its final status `canceled'.
CancelIsFinal ==
  \A j \in Jobs :
    job[j].cancel_requested /\ job[j].status \in Terminal => job[j].status = "canceled"

\* After a restart, which settles the jobs and their .writing files, no
\* attempt finds a .writing file in its way.
NothingLeftInTheWay == worker.pc = "run" => Path \notin writings
=============================================================================

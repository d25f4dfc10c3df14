------------------------------ MODULE JobsProofs ------------------------------
(***************************************************************************)
(* Theorems about PostprocessJobs: the rows of a job, of its attempts and  *)
(* of its outputs agree with each other, with the files on disk and, while *)
(* the database answers, with the worker, in any number of jobs.  Then     *)
(* about ExportPlanner: an export plays the media of its own interval.     *)
(***************************************************************************)
EXTENDS MCPostprocessJobs, FunctionTheorems, FiniteSetTheorems, SequenceTheorems,
        WellFoundedInduction, TLAPS

\* What the worker has in hand.
Busy == worker.pc \notin {"idle", "claiming"}
Serving == {"next", "mark", "run", "ffmpeg", "store"}
AtOutput == Serving \ {"next"}
Writing == {"run", "ffmpeg", "store"}

\* The row of a job and its attempts.
AttemptsAgree(j) ==
  /\ Len(attempts[j]) <= MaxAttempts
  /\ \A n \in DOMAIN attempts[j] :
       attempts[j][n] = "running" <=> job[j].status = "running" /\ n = Len(attempts[j])
  /\ job[j].status = "running" => attempts[j] # <<>>
  /\ job[j].status = "queued" => Claimable(j)
  /\ job[j].status = "none" => attempts[j] = <<>> /\ ~job[j].cancel_requested

\* The row of a job, those of its outputs, and their files.
OutputsAgree(j) ==
  \A o \in Outputs :
    /\ output[j][o] = "none" <=> job[j].status = "none"
    /\ job[j].status = "queued" => output[j][o] \in {"queued", "succeeded"}
    /\ job[j].status \in Terminal => output[j][o] \in Terminal
    /\ output[j][o] = "writing" => job[j].status = "running"
    /\ output[j][o] = "succeeded" => <<j, o>> \in finals /\ <<j, o>> \notin writings

\* Between two jobs the worker remembers nothing; without an application there
\* is no worker.
WorkerRests ==
  /\ ~Busy => worker.job = NULL /\ ~worker.cancel_event /\ ~worker.raised
  /\ mode = "down" => worker.pc = "idle"

\* The job in hand exists, and runs until its finish_job failed.
WorkerHasAJob ==
  Busy => /\ worker.job \in Jobs /\ job[worker.job].status # "none"
          /\ worker.pc # "finish" => job[worker.job].status = "running" /\ ~worker.raised
          /\ ~worker.raised => job[worker.job].status = "running"

\* How far the worker is in its plan.
Before(o) == o < worker.next \/ o \in worker.kept
PlanOrder ==
  LET j == worker.job IN
  /\ worker.pc = "claimed" =>
       worker.next = 1 /\ \A o \in Outputs : output[j][o] \in {"queued", "succeeded"}
  /\ worker.pc \in Serving => \A o \in Outputs :
       /\ Before(o) => output[j][o] = "succeeded"
       /\ ~Before(o) =>
            output[j][o] = IF worker.pc \in Writing /\ o = worker.next THEN "writing" ELSE "queued"
  /\ worker.pc \in AtOutput => worker.next \in Outputs /\ worker.next \notin worker.kept
  /\ worker.pc = "store" =>
       /\ worker.status \in {"succeeded", "failed"}
       /\ worker.status = "succeeded" => <<j, worker.next>> \in finals
  /\ worker.pc = "finish" =>
       /\ worker.status \in Terminal /\ (worker.raised => worker.status # "succeeded")
       /\ worker.status = "succeeded" => \A o \in Outputs : output[j][o] = "succeeded"

\* A finished file is never opened for writing.
FinishedOrWriting == finals \cap writings = {}

RowsInv == \A j \in Jobs : AttemptsAgree(j) /\ OutputsAgree(j)
WorkerInv == WorkerRests /\ WorkerHasAJob /\ PlanOrder
IInv == TypeOK /\ RowsInv /\ WorkerInv /\ FinishedOrWriting

\* While the database answers, running jobs and worker go together, and a job
\* that succeeded has all its outputs.
WholeOnes ==
  \A j \in Jobs : job[j].status = "succeeded" => \A o \in Outputs : output[j][o] = "succeeded"
QInv == ~database_fails => RunningHasTheWorker /\ WholeOnes

-----------------------------------------------------------------------------
\* Facts about the updates the actions are built from.

\* What a job row is after its status or its cancel request was set.
LEMMA JobRowSet ==
  ASSUME NEW r \in JobRow, NEW status \in {"none", "queued", "running"} \cup Terminal,
         NEW requested \in BOOLEAN
  PROVE  /\ [r EXCEPT !.status = status] \in JobRow
         /\ [r EXCEPT !.status = status].status = status
         /\ [r EXCEPT !.status = status].cancel_requested = r.cancel_requested
         /\ [r EXCEPT !.cancel_requested = requested] \in JobRow
         /\ [r EXCEPT !.cancel_requested = requested].status = r.status
         /\ [r EXCEPT !.cancel_requested = requested].cancel_requested = requested
         /\ [status |-> status, cancel_requested |-> requested] \in JobRow
         /\ r.cancel_requested \in BOOLEAN
BY DEF JobRow

\* UPDATE postprocess_jobs changes the row of one job.
LEMMA JobSet ==
  ASSUME TypeOK, NEW j \in Jobs, NEW row \in JobRow, job' = [job EXCEPT ![j] = row]
  PROVE  job' \in [Jobs -> JobRow] /\ \A k \in Jobs : job'[k] = IF k = j THEN row ELSE job[k]
BY DEF TypeOK

\* The same for the status alone.
LEMMA JobStatusSet ==
  ASSUME TypeOK, NEW j \in Jobs, NEW status \in {"queued", "running"} \cup Terminal,
         job' = [job EXCEPT ![j].status = status]
  PROVE  /\ job' \in [Jobs -> JobRow] /\ \A k \in Jobs \ {j} : job'[k] = job[k]
         /\ job'[j].status = status /\ job'[j].cancel_requested = job[j].cancel_requested
<1> DEFINE row == [job[j] EXCEPT !.status = status]
<1>1. job[j] \in JobRow
  BY DEF TypeOK
<1>2. row \in JobRow /\ row.status = status /\ row.cancel_requested = job[j].cancel_requested
  BY <1>1 DEF JobRow
<1>3. job' = [job EXCEPT ![j] = row]
  BY DEF TypeOK
<1> HIDE DEF row
<1> QED BY <1>2, <1>3, JobSet

\* The same for a retry, which sets both columns.
LEMMA JobReplaced ==
  ASSUME TypeOK, NEW j \in Jobs, NEW status \in {"queued", "running"} \cup Terminal,
         NEW requested \in BOOLEAN,
         job' = [job EXCEPT ![j] = [status |-> status, cancel_requested |-> requested]]
  PROVE  /\ job' \in [Jobs -> JobRow] /\ \A k \in Jobs \ {j} : job'[k] = job[k]
         /\ job'[j].status = status /\ job'[j].cancel_requested = requested
<1> DEFINE row == [status |-> status, cancel_requested |-> requested]
<1>1. row \in JobRow /\ row.status = status /\ row.cancel_requested = requested
  BY DEF JobRow
<1>2. job' = [job EXCEPT ![j] = row]
  OBVIOUS
<1> HIDE DEF row
<1> QED BY <1>1, <1>2, JobSet

\* The same for the cancel request alone.
LEMMA JobCancelRequested ==
  ASSUME TypeOK, NEW j \in Jobs, job' = [job EXCEPT ![j].cancel_requested = TRUE]
  PROVE  /\ job' \in [Jobs -> JobRow] /\ \A k \in Jobs \ {j} : job'[k] = job[k]
         /\ job'[j].status = job[j].status /\ job'[j].cancel_requested
<1> DEFINE row == [job[j] EXCEPT !.cancel_requested = TRUE]
<1>1. job[j] \in JobRow
  BY DEF TypeOK
<1>2. row \in JobRow /\ row.status = job[j].status /\ row.cancel_requested
  BY <1>1 DEF JobRow
<1>3. job' = [job EXCEPT ![j] = row]
  BY DEF TypeOK
<1> HIDE DEF row
<1> QED BY <1>2, <1>3, JobSet

\* UPDATE postprocess_outputs, and the same for the output in hand.
LEMMA ResetRows ==
  ASSUME TypeOK, NEW j \in Jobs, NEW from, NEW to \in {"queued"} \cup Terminal, Reset(j, from, to)
  PROVE  /\ output' \in [Jobs -> OutputRow]
         /\ \A k \in Jobs : \A o \in Outputs :
              output'[k][o] = IF k = j /\ output[k][o] \in from THEN to ELSE output[k][o]
BY DEF TypeOK, Reset, OutputRow

\* set_output_status changes the output in hand and no other.
LEMMA StatusSet ==
  ASSUME TypeOK, worker.job \in Jobs, worker.next \in Outputs,
         NEW status \in {"writing"} \cup Terminal, set_output_status(status)
  PROVE  /\ output' \in [Jobs -> OutputRow]
         /\ \A k \in Jobs : \A o \in Outputs :
              output'[k][o] = IF k = worker.job /\ o = worker.next THEN status ELSE output[k][o]
BY DEF TypeOK, set_output_status, OutputRow

\* The last attempt of a job is added or finished.
LEMMA AttemptAdded ==
  ASSUME TypeOK, NEW j \in Jobs, attempts' = [attempts EXCEPT ![j] = Append(@, "running")]
  PROVE  /\ attempts' \in [Jobs -> Seq(AttemptStatus)]
         /\ \A k \in Jobs \ {j} : attempts'[k] = attempts[k]
         /\ Len(attempts'[j]) = Len(attempts[j]) + 1 /\ Len(attempts[j]) \in Nat
         /\ attempts'[j] # <<>> /\ DOMAIN attempts'[j] = 1 .. Len(attempts[j]) + 1
         /\ DOMAIN attempts[j] = 1 .. Len(attempts[j])
         /\ \A n \in 1 .. Len(attempts[j]) : attempts'[j][n] = attempts[j][n]
         /\ attempts'[j][Len(attempts[j]) + 1] = "running"
<1>1. attempts[j] \in Seq(AttemptStatus) /\ "running" \in AttemptStatus
  BY DEF TypeOK, AttemptStatus
<1>2. attempts'[j] = Append(attempts[j], "running") /\ \A k \in Jobs \ {j} : attempts'[k] = attempts[k]
  BY DEF TypeOK
<1> DEFINE new == Append(attempts[j], "running")
<1>3. /\ new \in Seq(AttemptStatus) /\ Len(new) = Len(attempts[j]) + 1 /\ Len(attempts[j]) \in Nat
      /\ new # <<>> /\ DOMAIN new = 1 .. Len(attempts[j]) + 1
      /\ DOMAIN attempts[j] = 1 .. Len(attempts[j])
      /\ \A n \in 1 .. Len(attempts[j]) : new[n] = attempts[j][n]
      /\ new[Len(attempts[j]) + 1] = "running"
  BY <1>1
<1>4. attempts' = [attempts EXCEPT ![j] = new]
  BY DEF TypeOK
<1> HIDE DEF new
<1> QED BY <1>2, <1>3, <1>4 DEF TypeOK

\* finish_job finishes the last attempt if it still runs, and no earlier one.
LEMMA AttemptFinished ==
  ASSUME TypeOK, NEW j \in Jobs, NEW status \in Terminal,
         attempts' = [attempts EXCEPT ![j][Len(attempts[j])] = IF @ = "running" THEN status ELSE @]
  PROVE  /\ attempts' \in [Jobs -> Seq(AttemptStatus)]
         /\ \A k \in Jobs \ {j} : attempts'[k] = attempts[k]
         /\ Len(attempts'[j]) = Len(attempts[j]) /\ DOMAIN attempts'[j] = DOMAIN attempts[j]
         /\ \A n \in DOMAIN attempts[j] :
              attempts'[j][n] = IF n = Len(attempts[j]) /\ attempts[j][n] = "running"
                                THEN status ELSE attempts[j][n]
<1> DEFINE of == attempts[j]
           new == [n \in 1 .. Len(of) |->
                     IF n = Len(of) /\ of[n] = "running" THEN status ELSE of[n]]
<1>1. of \in Seq(AttemptStatus) /\ status \in AttemptStatus
  BY DEF TypeOK, AttemptStatus
<1>2. new \in Seq(AttemptStatus) /\ Len(new) = Len(of)
  BY <1>1
<1>3. new = [of EXCEPT ![Len(of)] = IF @ = "running" THEN status ELSE @]
  BY <1>1
<1>4. attempts' = [attempts EXCEPT ![j] = new]
  BY <1>3 DEF TypeOK
<1>5. /\ DOMAIN new = DOMAIN of
      /\ \A n \in DOMAIN of : new[n] = IF n = Len(of) /\ of[n] = "running" THEN status ELSE of[n]
  BY <1>1
<1>6. attempts'[j] = new /\ \A k \in Jobs \ {j} : attempts'[k] = attempts[k]
  BY <1>4 DEF TypeOK
<1>7. attempts' \in [Jobs -> Seq(AttemptStatus)]
  <2> HIDE DEF new
  <2> QED BY <1>2, <1>4 DEF TypeOK
<1> QED BY <1>2, <1>5, <1>6, <1>7

\* The three statements of finish_job.
LEMMA FinishedRows ==
  ASSUME TypeOK, NEW j \in Jobs, NEW status \in Terminal, FinishRows(j, status)
  PROVE  /\ job' \in [Jobs -> JobRow]
         /\ attempts' \in [Jobs -> Seq(AttemptStatus)]
         /\ output' \in [Jobs -> OutputRow]
         /\ job'[j].status = status
         /\ \A k \in Jobs \ {j} : job'[k] = job[k] /\ attempts'[k] = attempts[k]
         /\ Len(attempts'[j]) = Len(attempts[j]) /\ DOMAIN attempts'[j] = DOMAIN attempts[j]
         /\ \A n \in DOMAIN attempts[j] :
              attempts'[j][n] = IF n = Len(attempts[j]) /\ attempts[j][n] = "running"
                                THEN status ELSE attempts[j][n]
         /\ \A k \in Jobs : \A o \in Outputs :
              output'[k][o] = IF k = j /\ status # "succeeded" /\ output[k][o] \in {"queued", "writing"}
                              THEN status ELSE output[k][o]
<1>1. output' \in [Jobs -> OutputRow] /\ \A k \in Jobs : \A o \in Outputs :
        output'[k][o] = IF k = j /\ status # "succeeded" /\ output[k][o] \in {"queued", "writing"}
                        THEN status ELSE output[k][o]
  <2>1. CASE status = "succeeded"
    BY <2>1 DEF FinishRows, TypeOK
  <2>2. CASE status # "succeeded"
    BY <2>2, ResetRows DEF FinishRows
  <2> QED BY <2>1, <2>2
<1>2. /\ job' \in [Jobs -> JobRow]
      /\ job'[j].status = status
      /\ \A k \in Jobs \ {j} : job'[k] = job[k]
  <2> DEFINE first == [job[j] EXCEPT !.status = status]
             row == [first EXCEPT !.cancel_requested = @ \/ status = "canceled"]
  <2>1. job[j] \in JobRow
    BY DEF TypeOK
  <2>2. first \in JobRow
    BY <2>1, JobRowSet
  <2>3. (first.cancel_requested \/ status = "canceled") \in BOOLEAN
    OBVIOUS
  <2>4. row \in JobRow /\ row.status = status
    BY <2>2, <2>3, JobRowSet DEF JobRow
  <2>5. job' = [job EXCEPT ![j] = row]
    BY DEF FinishRows, TypeOK
  <2> QED BY <2>4, <2>5, JobSet
<1>3. /\ attempts' \in [Jobs -> Seq(AttemptStatus)]
      /\ \A k \in Jobs \ {j} : attempts'[k] = attempts[k]
      /\ Len(attempts'[j]) = Len(attempts[j]) /\ DOMAIN attempts'[j] = DOMAIN attempts[j]
      /\ \A n \in DOMAIN attempts[j] :
              attempts'[j][n] = IF n = Len(attempts[j]) /\ attempts[j][n] = "running"
                                THEN status ELSE attempts[j][n]
  BY AttemptFinished DEF FinishRows
<1> QED BY <1>1, <1>2, <1>3

\* What an exception, and what a result, makes of the worker.
LEMMA WorkerRaised ==
  ASSUME TypeOK, Raised
  PROVE  /\ worker' \in Worker
         /\ worker'.pc = "finish" /\ worker'.job = worker.job /\ worker'.raised
         /\ worker'.status \in {"failed", "canceled"}
BY DEF TypeOK, Raised, Worker, Terminal

\* A result that is not cancelled is stored; a cancelled one goes to finish_job.
LEMMA WorkerReturned ==
  ASSUME TypeOK, NEW succeeded \in BOOLEAN, Returned(succeeded)
  PROVE  /\ worker' \in Worker
         /\ worker'.job = worker.job /\ worker'.kept = worker.kept /\ worker'.next = worker.next
         /\ worker'.raised = worker.raised
         /\ \/ worker'.pc = "finish" /\ worker'.status = "canceled"
            \/ worker'.pc = "store" /\ worker'.status = IF succeeded THEN "succeeded" ELSE "failed"
BY DEF TypeOK, Returned, Worker, Terminal

-----------------------------------------------------------------------------
\* What is left alone stays in agreement.

\* A job whose rows and files a step does not touch.
LEMMA RowsUntouched ==
  ASSUME TypeOK, NEW k \in Jobs, AttemptsAgree(k), OutputsAgree(k),
         job'[k] = job[k], attempts'[k] = attempts[k],
         \A o \in Outputs : output'[k][o] = output[k][o],
         finals \subseteq finals', writings' \cap finals \subseteq writings
  PROVE  AttemptsAgree(k)' /\ OutputsAgree(k)'
<1>1. AttemptsAgree(k)'
  BY DEF AttemptsAgree, Claimable
<1>2. OutputsAgree(k)'
  BY DEF OutputsAgree
<1> QED BY <1>1, <1>2

\* A worker whose locals a step does not touch, but for the cancel event.
LEMMA WorkerUntouched ==
  ASSUME TypeOK, WorkerInv, mode' = "down" => ~Busy /\ worker.pc # "claiming",
         worker'.pc = worker.pc, worker'.job = worker.job, worker'.kept = worker.kept,
         worker'.next = worker.next, worker'.status = worker.status,
         worker'.raised = worker.raised, ~Busy => worker'.cancel_event = worker.cancel_event,
         Busy => \/ /\ job'[worker.job].status = job[worker.job].status
                    /\ \A o \in Outputs : output'[worker.job][o] = output[worker.job][o]
                 \/ /\ worker.pc = "finish" /\ worker.raised
                    /\ job'[worker.job].status # "none",
         finals \subseteq finals'
  PROVE  WorkerInv'
<1>1. WorkerRests'
  BY DEF WorkerInv, WorkerRests, Busy
<1>2. WorkerHasAJob'
  BY DEF WorkerInv, WorkerHasAJob, Busy
<1>3. PlanOrder'
  <2>1. CASE ~Busy
    BY <2>1 DEF PlanOrder, Busy, Serving, AtOutput
  <2>2. CASE /\ Busy /\ \A o \in Outputs : output'[worker.job][o] = output[worker.job][o]
    BY <2>2 DEF WorkerInv, PlanOrder, Before, AtOutput
  <2>3. CASE worker.pc = "finish" /\ worker.raised
    BY <2>3 DEF WorkerInv, PlanOrder, Serving, AtOutput
  <2> QED BY <2>1, <2>2, <2>3
<1> QED BY <1>1, <1>2, <1>3 DEF WorkerInv

-----------------------------------------------------------------------------
\* The calls of the API keep the invariant.

USE JobsAssumption DEF Outputs, Terminal

\* A new job is queued with its outputs, and a worker cannot have it yet.
LEMMA CreateJobKeeps ==
  ASSUME IInv, NEW j \in Jobs, create_job(j)
  PROVE  IInv'
<1>1. /\ mode = "running" /\ job[j].status = "none"
      /\ UNCHANGED <<mode, database_fails, attempts, finals, writings, worker, signals>>
  BY DEF create_job, world, files
<1>2. TypeOK /\ WorkerInv /\ FinishedOrWriting /\ \A k \in Jobs : AttemptsAgree(k) /\ OutputsAgree(k)
  BY DEF IInv, RowsInv
<1>3. /\ job' \in [Jobs -> JobRow] /\ \A k \in Jobs \ {j} : job'[k] = job[k]
      /\ job'[j].status = "queued" /\ job'[j].cancel_requested = job[j].cancel_requested
  <2>1. job' = [job EXCEPT ![j].status = "queued"] /\ "queued" \in {"queued", "running"} \cup Terminal
    BY DEF create_job
  <2> QED BY <1>2, <2>1, JobStatusSet
<1>4. /\ output' \in [Jobs -> OutputRow]
      /\ \A k \in Jobs : \A o \in Outputs :
           output'[k][o] = IF k = j /\ output[k][o] \in {"none"} THEN "queued" ELSE output[k][o]
  <2>1. Reset(j, {"none"}, "queued")
    BY DEF create_job
  <2> QED BY <1>2, <2>1, ResetRows
<1>5. TypeOK'
  BY <1>1, <1>2, <1>3, <1>4 DEF TypeOK
<1>6. ASSUME NEW k \in Jobs PROVE (AttemptsAgree(k) /\ OutputsAgree(k))'
  <2>1. CASE k # j
    BY <1>1, <1>2, <1>3, <1>4, <2>1, RowsUntouched
  <2>2. CASE k = j
    <3>1. AttemptsAgree(j)'
      BY <1>1, <1>2, <1>3 DEF AttemptsAgree, Claimable
    <3>2. OutputsAgree(j)'
      BY <1>1, <1>2, <1>3, <1>4 DEF OutputsAgree
    <3> QED BY <2>2, <3>1, <3>2
  <2> QED BY <2>1, <2>2
<1>7. WorkerInv'
  <2>1. Busy => worker.job \in Jobs \ {j}
    BY <1>1, <1>2 DEF WorkerInv, WorkerHasAJob
  <2> QED BY <1>1, <1>2, <1>3, <1>4, <2>1, WorkerUntouched
<1> QED BY <1>1, <1>2, <1>5, <1>6, <1>7 DEF IInv, RowsInv, FinishedOrWriting

\* A cancel ends a queued job with its outputs, and only asks a running one.
LEMMA RequestCancelKeeps ==
  ASSUME IInv, NEW j \in Jobs, request_cancel(j)
  PROVE  IInv'
<1>1. /\ mode = "running" /\ signals' = signals \cup {j} /\ job[j].status \in {"queued", "running"}
      /\ UNCHANGED <<mode, database_fails, attempts, finals, writings, worker>>
  BY DEF request_cancel, world, files
<1>2. TypeOK /\ WorkerInv /\ FinishedOrWriting /\ \A k \in Jobs : AttemptsAgree(k) /\ OutputsAgree(k)
  BY DEF IInv, RowsInv
<1>3. /\ job' \in [Jobs -> JobRow] /\ \A k \in Jobs \ {j} : job'[k] = job[k]
      /\ job'[j].status = IF job[j].status = "queued" THEN "canceled" ELSE "running"
  <2>1. CASE job[j].status = "queued"
    <3>1. /\ job' = [job EXCEPT ![j] = [status |-> "canceled", cancel_requested |-> TRUE]]
          /\ "canceled" \in {"queued", "running"} \cup Terminal
      BY <2>1 DEF request_cancel
    <3> QED BY <1>2, <2>1, <3>1, JobReplaced
  <2>2. CASE job[j].status = "running"
    <3>1. job' = [job EXCEPT ![j].cancel_requested = TRUE]
      BY <2>2 DEF request_cancel
    <3> QED BY <1>2, <2>2, <3>1, JobCancelRequested
  <2> QED BY <1>1, <2>1, <2>2
<1>4. /\ output' \in [Jobs -> OutputRow]
      /\ \A k \in Jobs : \A o \in Outputs :
           output'[k][o] = IF k = j /\ job[j].status = "queued" /\ output[k][o] \in {"queued"}
                           THEN "canceled" ELSE output[k][o]
  <2>1. CASE job[j].status = "queued"
    <3> DEFINE from == {"queued"}
    <3>1. Reset(j, from, "canceled") /\ "canceled" \in {"queued"} \cup Terminal
      BY <2>1 DEF request_cancel
    <3> HIDE DEF from
    <3>2. /\ output' \in [Jobs -> OutputRow]
          /\ \A k \in Jobs : \A o \in Outputs :
               output'[k][o] = IF k = j /\ output[k][o] \in from THEN "canceled" ELSE output[k][o]
      BY <1>2, <3>1, ResetRows
    <3> QED BY <2>1, <3>2 DEF from
  <2>2. CASE job[j].status = "running"
    BY <1>2, <2>2 DEF request_cancel, TypeOK
  <2> QED BY <1>1, <2>1, <2>2
<1>5. TypeOK'
  BY <1>1, <1>2, <1>3, <1>4 DEF TypeOK
<1>6. ASSUME NEW k \in Jobs PROVE (AttemptsAgree(k) /\ OutputsAgree(k))'
  <2>1. CASE k # j
    BY <1>1, <1>2, <1>3, <1>4, <2>1, RowsUntouched
  <2>2. CASE k = j
    <3>1. AttemptsAgree(j)'
      BY <1>1, <1>2, <1>3 DEF AttemptsAgree, Claimable
    <3>2. OutputsAgree(j)'
      BY <1>1, <1>2, <1>3, <1>4 DEF OutputsAgree
    <3> QED BY <2>2, <3>1, <3>2
  <2> QED BY <2>1, <2>2
<1>7. WorkerInv'
  <2>1. Busy /\ worker.job = j /\ job[j].status = "queued" => worker.pc = "finish" /\ worker.raised
    BY <1>2 DEF WorkerInv, WorkerHasAJob
  <2>2. Busy => worker.job \in Jobs
    BY <1>2 DEF WorkerInv, WorkerHasAJob
  <2> QED BY <1>1, <1>2, <1>3, <1>4, <2>1, <2>2, WorkerUntouched
<1> QED BY <1>1, <1>2, <1>5, <1>6, <1>7 DEF IInv, RowsInv, FinishedOrWriting

\* The signal that follows touches no row.
LEMMA CancelJobSignalsKeeps ==
  ASSUME IInv, NEW j \in Jobs, cancel_job_signals(j)
  PROVE  IInv'
<1>1. UNCHANGED <<mode, database_fails, job, attempts, output, finals, writings>> /\ signals' = signals \ {j}
  BY DEF cancel_job_signals, world, tables, files
<1>2. TypeOK /\ WorkerInv /\ FinishedOrWriting /\ \A k \in Jobs : AttemptsAgree(k) /\ OutputsAgree(k)
  BY DEF IInv, RowsInv
<1>3. /\ worker' \in Worker /\ worker'.pc = worker.pc /\ worker'.job = worker.job
      /\ worker'.kept = worker.kept /\ worker'.next = worker.next
      /\ worker'.status = worker.status /\ worker'.raised = worker.raised
      /\ ~Busy => worker'.cancel_event = worker.cancel_event
  BY <1>2 DEF cancel_job_signals, TypeOK, Worker, Busy, Executing
<1>4. TypeOK'
  BY <1>1, <1>2, <1>3 DEF TypeOK
<1>5. WorkerInv'
  <2>1. mode = "down" => ~Busy /\ worker.pc # "claiming"
    BY <1>2 DEF WorkerInv, WorkerRests, Busy
  <2> QED BY <1>1, <1>2, <1>3, <2>1, WorkerUntouched
<1>6. RowsInv'
  BY <1>1, <1>2 DEF RowsInv, AttemptsAgree, OutputsAgree, Claimable
<1> QED BY <1>1, <1>2, <1>4, <1>5, <1>6 DEF IInv, FinishedOrWriting

\* A retry queues the job again.
LEMMA RetryKeeps ==
  ASSUME IInv, NEW j \in Jobs, retry(j)
  PROVE  IInv'
<1>1. /\ mode = "running" /\ job[j].status \in {"failed", "canceled"} /\ Len(attempts[j]) < MaxAttempts
      /\ UNCHANGED <<mode, database_fails, attempts, finals, writings, worker, signals>>
  BY DEF retry, world, files
<1>2. TypeOK /\ WorkerInv /\ FinishedOrWriting /\ \A k \in Jobs : AttemptsAgree(k) /\ OutputsAgree(k)
  BY DEF IInv, RowsInv
<1>3. /\ job' \in [Jobs -> JobRow] /\ \A k \in Jobs \ {j} : job'[k] = job[k]
      /\ job'[j].status = "queued" /\ job'[j].cancel_requested = FALSE
  <2>1. /\ job' = [job EXCEPT ![j] = [status |-> "queued", cancel_requested |-> FALSE]]
        /\ "queued" \in {"queued", "running"} \cup Terminal /\ FALSE \in BOOLEAN
    BY DEF retry
  <2> QED BY <1>2, <2>1, JobReplaced
<1>4. /\ output' \in [Jobs -> OutputRow]
      /\ \A k \in Jobs : \A o \in Outputs :
           output'[k][o] = IF k = j /\ output[k][o] \in {"failed", "canceled"} THEN "queued" ELSE output[k][o]
  <2> DEFINE from == {"failed", "canceled"}
  <2>1. Reset(j, from, "queued")
    BY DEF retry
  <2> HIDE DEF from
  <2>2. /\ output' \in [Jobs -> OutputRow]
        /\ \A k \in Jobs : \A o \in Outputs :
             output'[k][o] = IF k = j /\ output[k][o] \in from THEN "queued" ELSE output[k][o]
    BY <1>2, <2>1, ResetRows
  <2> QED BY <2>2 DEF from
<1>5. TypeOK'
  BY <1>1, <1>2, <1>3, <1>4 DEF TypeOK
<1>6. ASSUME NEW k \in Jobs PROVE (AttemptsAgree(k) /\ OutputsAgree(k))'
  <2>1. CASE k # j
    BY <1>1, <1>2, <1>3, <1>4, <2>1, RowsUntouched
  <2>2. CASE k = j
    <3>1. AttemptsAgree(j)'
      BY <1>1, <1>2, <1>3 DEF AttemptsAgree, Claimable
    <3>2. OutputsAgree(j)'
      BY <1>1, <1>2, <1>3, <1>4 DEF OutputsAgree
    <3> QED BY <2>2, <3>1, <3>2
  <2> QED BY <2>1, <2>2
<1>7. WorkerInv'
  <2>1. Busy /\ worker.job = j => worker.pc = "finish" /\ worker.raised
    BY <1>1, <1>2 DEF WorkerInv, WorkerHasAJob
  <2>2. Busy => worker.job \in Jobs
    BY <1>2 DEF WorkerInv, WorkerHasAJob
  <2> QED BY <1>1, <1>2, <1>3, <1>4, <2>1, <2>2, WorkerUntouched
<1> QED BY <1>1, <1>2, <1>5, <1>6, <1>7 DEF IInv, RowsInv, FinishedOrWriting

-----------------------------------------------------------------------------
\* The steps of the worker keep the invariant.

\* The worker comes back for work with nothing in hand.
LEMMA WorkerLoopsKeeps ==
  ASSUME IInv, worker_loops
  PROVE  IInv'
<1>1. /\ mode = "running" /\ worker.pc = "idle"
      /\ UNCHANGED <<mode, database_fails, job, attempts, output, finals, writings, signals>>
  BY DEF worker_loops, world, tables, files
<1>2. TypeOK /\ WorkerInv /\ FinishedOrWriting /\ RowsInv
  BY DEF IInv
<1>3. /\ worker' \in Worker /\ worker'.pc = "claiming" /\ worker'.job = worker.job
      /\ worker'.raised = worker.raised /\ worker'.cancel_event = worker.cancel_event
  BY <1>2 DEF worker_loops, Goto, TypeOK, Worker
<1>4. TypeOK'
  BY <1>1, <1>2, <1>3 DEF TypeOK
<1>5. RowsInv'
  BY <1>1, <1>2 DEF RowsInv, AttemptsAgree, OutputsAgree, Claimable
<1>6. WorkerInv'
  BY <1>1, <1>2, <1>3 DEF WorkerInv, WorkerRests, WorkerHasAJob, PlanOrder, Busy, Serving, AtOutput
<1> QED BY <1>1, <1>2, <1>4, <1>5, <1>6 DEF IInv, FinishedOrWriting

\* A claim sets the job, its attempt, its outputs and the worker together.
LEMMA ClaimNextKeeps ==
  ASSUME IInv, claim_next
  PROVE  IInv'
<1>1. /\ mode # "down" /\ worker.pc = "claiming"
      /\ UNCHANGED <<mode, database_fails, finals, writings, signals>>
  BY DEF claim_next, At, world, files
<1>2. TypeOK /\ WorkerInv /\ FinishedOrWriting /\ \A k \in Jobs : AttemptsAgree(k) /\ OutputsAgree(k)
  BY DEF IInv, RowsInv
<1>3. CASE Goto("idle") /\ UNCHANGED tables
  <2>1. /\ worker' \in Worker /\ worker'.pc = "idle" /\ worker'.job = worker.job
        /\ worker'.raised = worker.raised /\ worker'.cancel_event = worker.cancel_event
        /\ UNCHANGED <<job, attempts, output>>
    BY <1>2, <1>3 DEF Goto, TypeOK, Worker, tables
  <2>2. TypeOK'
    BY <1>1, <1>2, <2>1 DEF TypeOK
  <2>3. RowsInv'
    BY <1>1, <1>2, <2>1 DEF RowsInv, AttemptsAgree, OutputsAgree, Claimable
  <2>4. WorkerInv'
    BY <1>1, <1>2, <2>1 DEF WorkerInv, WorkerRests, WorkerHasAJob, PlanOrder, Busy, Serving, AtOutput
  <2> QED BY <1>1, <1>2, <2>2, <2>3, <2>4 DEF IInv, FinishedOrWriting
<1>4. ASSUME NEW j \in Jobs, Claimable(j),
             job' = [job EXCEPT ![j].status = "running"],
             attempts' = [attempts EXCEPT ![j] = Append(@, "running")],
             Reset(j, {"failed", "canceled"}, "queued"),
             worker' = [NoWorker EXCEPT !.pc = "claimed", !.job = j]
      PROVE  IInv'
  <2>1. /\ job[j].status = "queued" /\ ~job[j].cancel_requested /\ Len(attempts[j]) < MaxAttempts
    BY <1>4 DEF Claimable
  <2>2. /\ job' \in [Jobs -> JobRow] /\ \A k \in Jobs \ {j} : job'[k] = job[k]
        /\ job'[j].status = "running" /\ job'[j].cancel_requested = job[j].cancel_requested
    <3>1. "running" \in {"queued", "running"} \cup Terminal
      OBVIOUS
    <3> QED BY <1>2, <1>4, <3>1, JobStatusSet
  <2>3. /\ attempts' \in [Jobs -> Seq(AttemptStatus)]
        /\ \A k \in Jobs \ {j} : attempts'[k] = attempts[k]
        /\ Len(attempts'[j]) = Len(attempts[j]) + 1 /\ Len(attempts[j]) \in Nat
        /\ attempts'[j] # <<>> /\ DOMAIN attempts'[j] = 1 .. Len(attempts[j]) + 1
        /\ DOMAIN attempts[j] = 1 .. Len(attempts[j])
        /\ \A n \in 1 .. Len(attempts[j]) : attempts'[j][n] = attempts[j][n]
        /\ attempts'[j][Len(attempts[j]) + 1] = "running"
    BY <1>2, <1>4, AttemptAdded
  <2>4. /\ output' \in [Jobs -> OutputRow]
        /\ \A k \in Jobs : \A o \in Outputs : output'[k][o] = output[k][o]
    <3> DEFINE from == {"failed", "canceled"}
    <3>1. Reset(j, from, "queued")
      BY <1>4
    <3> HIDE DEF from
    <3>2. /\ output' \in [Jobs -> OutputRow]
          /\ \A k \in Jobs : \A o \in Outputs :
               output'[k][o] = IF k = j /\ output[k][o] \in from THEN "queued" ELSE output[k][o]
      BY <1>2, <3>1, ResetRows
    <3>3. \A o \in Outputs : output[j][o] \notin from
      BY <1>2, <2>1 DEF OutputsAgree, from
    <3> QED BY <3>2, <3>3
  <2>5. /\ worker' \in Worker /\ worker'.pc = "claimed" /\ worker'.job = j /\ worker'.next = 1
        /\ ~worker'.raised
    <3>1. worker' = [pc |-> "claimed", job |-> j, cancel_event |-> FALSE, kept |-> {},
                     next |-> 1, status |-> NULL, raised |-> FALSE]
      BY <1>4 DEF NoWorker
    <3>2. 1 \in 1 .. NOutputs + 1
      OBVIOUS
    <3> QED BY <3>1, <3>2 DEF Worker
  <2>6. TypeOK'
    BY <1>1, <1>2, <2>2, <2>3, <2>4, <2>5 DEF TypeOK
  <2>7. ASSUME NEW k \in Jobs PROVE (AttemptsAgree(k) /\ OutputsAgree(k))'
    <3>1. CASE k # j
      BY <1>1, <1>2, <2>2, <2>3, <2>4, <3>1, RowsUntouched
    <3>2. CASE k = j
      <4>1. AttemptsAgree(j)'
        BY <1>2, <2>1, <2>2, <2>3 DEF AttemptsAgree
      <4>2. OutputsAgree(j)'
        BY <1>1, <1>2, <2>1, <2>2, <2>4 DEF OutputsAgree
      <4> QED BY <3>2, <4>1, <4>2
    <3> QED BY <3>1, <3>2
  <2>8. WorkerInv'
    <3>1. WorkerRests' /\ WorkerHasAJob'
      BY <1>1, <2>2, <2>5 DEF WorkerRests, WorkerHasAJob, Busy
    <3>2. PlanOrder'
      <4>1. \A o \in Outputs : output'[j][o] \in {"queued", "succeeded"}
        <5>1. \A o \in Outputs : output[j][o] \in {"queued", "succeeded"}
          BY <1>2, <2>1 DEF OutputsAgree
        <5> QED BY <2>4, <5>1
      <4> QED BY <2>5, <4>1 DEF PlanOrder, Serving, AtOutput
    <3> QED BY <3>1, <3>2 DEF WorkerInv
  <2> QED BY <1>1, <1>2, <2>6, <2>7, <2>8 DEF IInv, RowsInv, FinishedOrWriting
<1> QED BY <1>3, <1>4 DEF claim_next

\* The worker moves on and no row changes.
LEMMA WorkerMoves ==
  ASSUME IInv, UNCHANGED <<mode, database_fails, job, attempts, output, signals>>,
         mode # "down", worker' \in Worker, PlanOrder', Busy', Busy,
         worker'.job = worker.job,
         worker'.pc = "finish" \/ (worker.pc # "finish" /\ ~worker'.raised),
         ~worker'.raised => ~worker.raised,
         finals \subseteq finals', finals' \subseteq Jobs \X Outputs,
         writings' \subseteq Jobs \X Outputs,
         writings' \cap finals \subseteq writings, FinishedOrWriting'
  PROVE  IInv'
<1>1. TypeOK /\ WorkerInv /\ \A k \in Jobs : AttemptsAgree(k) /\ OutputsAgree(k)
  BY DEF IInv, RowsInv
<1>2. TypeOK'
  BY <1>1 DEF TypeOK
<1>3. RowsInv'
  BY <1>1, RowsUntouched DEF RowsInv
<1>4. WorkerRests' /\ WorkerHasAJob'
  BY <1>1 DEF WorkerInv, WorkerRests, WorkerHasAJob, Busy
<1> QED BY <1>2, <1>3, <1>4 DEF IInv, WorkerInv

\* The worker reads which outputs succeeded before.
LEMMA GetJobKeeps ==
  ASSUME IInv, get_job
  PROVE  IInv'
<1>1. /\ mode # "down" /\ worker.pc = "claimed"
      /\ UNCHANGED <<mode, database_fails, job, attempts, output, finals, writings, signals>>
  BY DEF get_job, At, world, tables, files
<1>2. TypeOK /\ WorkerInv /\ FinishedOrWriting
  BY DEF IInv
<1>3. /\ worker.next = 1 /\ worker.job \in Jobs /\ ~worker.raised
      /\ \A o \in Outputs : output[worker.job][o] \in {"queued", "succeeded"}
  BY <1>1, <1>2 DEF WorkerInv, PlanOrder, WorkerHasAJob, Busy
<1>4. /\ worker' \in Worker /\ worker'.pc = "next" /\ worker'.job = worker.job
      /\ worker'.next = worker.next /\ worker'.raised = worker.raised
      /\ worker'.kept = {o \in Outputs : output[worker.job][o] = "succeeded"}
  BY <1>2 DEF get_job, TypeOK, Worker
<1>5. PlanOrder'
  BY <1>1, <1>3, <1>4 DEF PlanOrder, Serving, AtOutput, Writing, Before
<1>6. /\ finals \subseteq finals' /\ finals' \subseteq Jobs \X Outputs
      /\ writings' \subseteq Jobs \X Outputs /\ writings' \cap finals \subseteq writings
      /\ FinishedOrWriting'
  BY <1>1, <1>2 DEF TypeOK, FinishedOrWriting
<1> QED BY <1>1, <1>3, <1>4, <1>5, <1>6, WorkerMoves DEF Busy

\* An output is passed over only when it succeeded, and the last one ends the job.
LEMMA NextOutputKeeps ==
  ASSUME IInv, next_output
  PROVE  IInv'
<1>1. /\ mode # "down" /\ worker.pc = "next"
      /\ UNCHANGED <<mode, database_fails, job, attempts, output, finals, writings, signals>>
  BY DEF next_output, At, world, tables, files
<1>2. TypeOK /\ WorkerInv /\ FinishedOrWriting
  BY DEF IInv
<1>3. /\ worker \in Worker /\ worker.job \in Jobs /\ ~worker.raised
      /\ job[worker.job].cancel_requested \in BOOLEAN
      /\ \A o \in Outputs : /\ Before(o) => output[worker.job][o] = "succeeded"
                            /\ ~Before(o) => output[worker.job][o] = "queued"
  BY <1>1, <1>2 DEF TypeOK, JobRow, WorkerInv, PlanOrder, WorkerHasAJob, Busy, Serving, Writing
<1>4. CASE worker.next > NOutputs
  <2>1. /\ worker' \in Worker /\ worker'.pc = "finish" /\ worker'.job = worker.job
        /\ worker'.raised = worker.raised /\ worker'.status = "succeeded"
    BY <1>3, <1>4 DEF next_output, Worker
  <2>2. \A o \in Outputs : Before(o)
    BY <1>3, <1>4 DEF Before, Worker
  <2>3. PlanOrder'
    BY <1>1, <1>3, <2>1, <2>2 DEF PlanOrder, Serving, AtOutput
  <2>4. /\ finals \subseteq finals' /\ finals' \subseteq Jobs \X Outputs
        /\ writings' \subseteq Jobs \X Outputs /\ writings' \cap finals \subseteq writings
        /\ FinishedOrWriting'
    BY <1>1, <1>2 DEF TypeOK, FinishedOrWriting
  <2> QED BY <1>1, <1>3, <2>1, <2>3, <2>4, WorkerMoves DEF Busy
<1>5. CASE worker.next <= NOutputs
  <2>1. /\ worker' \in Worker /\ worker'.job = worker.job /\ worker'.raised = worker.raised
        /\ worker'.kept = worker.kept
        /\ worker'.pc = IF worker.next \in worker.kept THEN "next" ELSE "mark"
        /\ worker'.next = IF worker.next \in worker.kept THEN worker.next + 1 ELSE worker.next
    <3> DEFINE event == worker.cancel_event \/ mode = "closing" \/ is_cancel_requested
               pc == IF worker.next \in worker.kept THEN "next" ELSE "mark"
               next == IF worker.next \in worker.kept THEN worker.next + 1 ELSE worker.next
    <3>1. event \in BOOLEAN
      OBVIOUS
    <3>2. pc \in {"next", "mark"} /\ next \in 1 .. NOutputs + 1
      BY <1>3, <1>5 DEF Worker
    <3>3. worker' = [worker EXCEPT !.cancel_event = event, !.pc = pc, !.next = next]
      BY <1>3, <1>5 DEF next_output, Worker
    <3> HIDE DEF event, pc, next
    <3>4. /\ worker' \in Worker /\ worker'.job = worker.job /\ worker'.raised = worker.raised
          /\ worker'.kept = worker.kept /\ worker'.pc = pc /\ worker'.next = next
      BY <1>3, <3>1, <3>2, <3>3 DEF Worker
    <3> QED BY <3>4 DEF pc, next
  <2>2. /\ worker.next \in Outputs
        /\ worker'.pc = "mark" => worker'.next \in Outputs /\ worker'.next \notin worker'.kept
        /\ worker'.pc \in {"next", "mark"}
        /\ \A o \in Outputs : Before(o)' <=> Before(o)
    BY <1>3, <1>5, <2>1 DEF Before, Worker
  <2>3. PlanOrder'
    BY <1>1, <1>3, <2>1, <2>2 DEF PlanOrder, Serving, AtOutput, Writing
  <2>4. /\ finals \subseteq finals' /\ finals' \subseteq Jobs \X Outputs
        /\ writings' \subseteq Jobs \X Outputs /\ writings' \cap finals \subseteq writings
        /\ FinishedOrWriting'
    BY <1>1, <1>2 DEF TypeOK, FinishedOrWriting
  <2> QED BY <1>1, <1>3, <2>1, <2>2, <2>3, <2>4, WorkerMoves DEF Busy
<1> QED BY <1>3, <1>4, <1>5 DEF Worker

\* The output in hand is marked before FFmpeg starts.
LEMMA MarkWritingKeeps ==
  ASSUME IInv, mark_writing
  PROVE  IInv'
<1>1. /\ mode # "down" /\ worker.pc = "mark"
      /\ UNCHANGED <<mode, database_fails, job, attempts, finals, writings, signals>>
  BY DEF mark_writing, At, world, files
<1>2. TypeOK /\ WorkerInv /\ FinishedOrWriting /\ \A k \in Jobs : AttemptsAgree(k) /\ OutputsAgree(k)
  BY DEF IInv, RowsInv
<1>j. PICK j : j = worker.job
  OBVIOUS
<1>3. /\ j \in Jobs /\ worker.next \in Outputs /\ worker.next \notin worker.kept
      /\ ~worker.raised /\ job[j].status = "running"
      /\ \A o \in Outputs : output[j][o] = IF Before(o) THEN "succeeded" ELSE "queued"
  BY <1>j, <1>1, <1>2 DEF WorkerInv, PlanOrder, WorkerHasAJob, Busy, Serving, AtOutput, Writing
<1>4. /\ worker' \in Worker /\ worker'.pc = "run" /\ worker'.job = j /\ worker'.kept = worker.kept
      /\ worker'.next = worker.next /\ worker'.raised = worker.raised
  BY <1>j, <1>2 DEF mark_writing, Goto, TypeOK, Worker
<1>5. /\ output' \in [Jobs -> OutputRow]
      /\ \A k \in Jobs : \A o \in Outputs :
           output'[k][o] = IF k = j /\ o = worker.next THEN "writing" ELSE output[k][o]
  <2>1. set_output_status("writing") /\ "writing" \in {"writing"} \cup Terminal
    BY DEF mark_writing
  <2> QED BY <1>j, <1>2, <1>3, <2>1, StatusSet
<1>6. TypeOK'
  BY <1>j, <1>1, <1>2, <1>4, <1>5 DEF TypeOK
<1>7. ASSUME NEW k \in Jobs PROVE (AttemptsAgree(k) /\ OutputsAgree(k))'
  <2>1. CASE k # j
    BY <1>j, <1>1, <1>2, <1>5, <2>1, RowsUntouched
  <2>2. CASE k = j
    <3>1. AttemptsAgree(j)'
      BY <1>j, <1>1, <1>2, <1>3, <1>4 DEF AttemptsAgree, Claimable
    <3>2. OutputsAgree(j)'
      <4>1. \A o \in Outputs :
              /\ output'[j][o] \in {"queued", "writing", "succeeded"}
              /\ output'[j][o] = "succeeded" => output[j][o] = "succeeded"
        BY <1>3, <1>5
      <4>2. \A o \in Outputs : output[j][o] = "succeeded" => <<j, o>> \in finals /\ <<j, o>> \notin writings
        BY <1>2, <1>3 DEF OutputsAgree
      <4> QED BY <1>1, <1>3, <4>1, <4>2 DEF OutputsAgree
    <3> QED BY <1>j, <1>4, <2>2, <3>1, <3>2
  <2> QED BY <1>j, <2>1, <2>2
<1>8. WorkerInv'
  <2>1. WorkerRests' /\ WorkerHasAJob'
    BY <1>j, <1>1, <1>3, <1>4 DEF WorkerRests, WorkerHasAJob, Busy
  <2>2. \A o \in Outputs : Before(o)' <=> Before(o)
    BY <1>j, <1>4 DEF Before
  <2>3. ~Before(worker.next)
    BY <1>j, <1>3 DEF Before
  <2>4. PlanOrder'
    <3>1. \A o \in Outputs :
            output'[j][o] = IF Before(o) THEN "succeeded" ELSE IF o = worker.next THEN "writing" ELSE "queued"
      BY <1>j, <1>3, <1>5, <2>3
    <3> QED BY <1>3, <1>4, <2>2, <3>1 DEF PlanOrder, Serving, AtOutput, Writing
  <2> QED BY <1>j, <2>1, <2>4 DEF WorkerInv
<1> QED BY <1>1, <1>2, <1>6, <1>7, <1>8 DEF IInv, RowsInv, FinishedOrWriting

\* An exception that leaves the files as they are, or with a finished one.
LEMMA RaisedKeeps ==
  ASSUME IInv, Raised, mode # "down", Busy,
         UNCHANGED <<mode, database_fails, job, attempts, output, signals>>,
         finals \subseteq finals', finals' \subseteq Jobs \X Outputs,
         writings' \subseteq writings, FinishedOrWriting'
  PROVE  IInv'
<1>1. TypeOK /\ WorkerInv
  BY DEF IInv
<1>2. /\ worker' \in Worker
      /\ worker'.pc = "finish" /\ worker'.job = worker.job /\ worker'.raised
      /\ worker'.status \in {"failed", "canceled"}
  BY <1>1, WorkerRaised
<1>3. PlanOrder' /\ Busy'
  BY <1>2 DEF PlanOrder, Busy, Serving, AtOutput
<1>4. writings' \subseteq Jobs \X Outputs /\ writings' \cap finals \subseteq writings
  BY <1>1 DEF TypeOK
<1>5. worker'.pc = "finish" \/ (worker.pc # "finish" /\ ~worker'.raised)
  BY <1>2
<1>6. ~worker'.raised => ~worker.raised
  BY <1>2
<1> QED BY <1>2, <1>3, <1>4, <1>5, <1>6, WorkerMoves

\* A result in hand, with the file it claims.
LEMMA ReturnedKeeps ==
  ASSUME IInv, NEW succeeded \in BOOLEAN, Returned(succeeded),
         mode # "down", worker.pc \in {"run", "ffmpeg"},
         UNCHANGED <<mode, database_fails, job, attempts, output, signals>>,
         finals \subseteq finals', finals' \subseteq Jobs \X Outputs,
         writings' \subseteq writings, FinishedOrWriting',
         succeeded => Path \in finals'
  PROVE  IInv'
<1>1. TypeOK /\ WorkerInv
  BY DEF IInv
<1>2. /\ worker' \in Worker
      /\ worker'.job = worker.job /\ worker'.kept = worker.kept /\ worker'.next = worker.next
      /\ worker'.raised = worker.raised
      /\ \/ worker'.pc = "finish" /\ worker'.status = "canceled"
         \/ worker'.pc = "store" /\ worker'.status = IF succeeded THEN "succeeded" ELSE "failed"
  BY <1>1, WorkerReturned
<1>3. ~worker.raised /\ Busy /\ Busy' /\ writings' \subseteq Jobs \X Outputs
  BY <1>1, <1>2 DEF WorkerInv, WorkerHasAJob, Busy, TypeOK
<1>4. PlanOrder'
  <2>1. CASE worker'.pc = "finish" /\ worker'.status = "canceled"
    BY <1>2, <1>3, <2>1 DEF PlanOrder, Serving, AtOutput
  <2>2. CASE worker'.pc = "store" /\ worker'.status = IF succeeded THEN "succeeded" ELSE "failed"
    <3>1. \A o \in Outputs : Before(o)' <=> Before(o)
      BY <1>2 DEF Before
    <3>2. /\ worker.next \in Outputs /\ worker.next \notin worker.kept
          /\ \A o \in Outputs :
               /\ Before(o) => output[worker.job][o] = "succeeded"
               /\ ~Before(o) => output[worker.job][o] = IF o = worker.next THEN "writing" ELSE "queued"
      BY <1>1 DEF WorkerInv, PlanOrder, Serving, AtOutput, Writing
    <3> QED BY <1>2, <2>2, <3>1, <3>2 DEF PlanOrder, Serving, AtOutput, Writing, Path
  <2> QED BY <1>2, <2>1, <2>2
<1> QED BY <1>2, <1>3, <1>4, WorkerMoves

\* FFmpeg writes only where no finished file is.
LEMMA RunOutputKeeps ==
  ASSUME IInv, run_output
  PROVE  IInv'
<1>1. /\ mode # "down" /\ worker.pc = "run" /\ Busy
      /\ UNCHANGED <<mode, database_fails, job, attempts, output, signals>>
  BY DEF run_output, At, Busy, world, tables
<1>2. TypeOK /\ WorkerInv /\ FinishedOrWriting
  BY DEF IInv
<1>3. /\ worker.job \in Jobs /\ ~worker.raised /\ worker.next \in Outputs
      /\ Path \in Jobs \X Outputs
  BY <1>1, <1>2 DEF WorkerInv, PlanOrder, WorkerHasAJob, Busy, AtOutput, Serving, Path
<1>4. CASE Raised /\ UNCHANGED files
  <2>1. finals' = finals /\ writings' = writings /\ FinishedOrWriting' /\ finals \subseteq Jobs \X Outputs
    BY <1>2, <1>4 DEF files, FinishedOrWriting, TypeOK
  <2> QED BY <1>1, <1>4, <2>1, RaisedKeeps
<1>5. CASE Path \in finals /\ Returned(TRUE) /\ UNCHANGED files
  <2>1. finals' = finals /\ writings' = writings /\ FinishedOrWriting' /\ finals \subseteq Jobs \X Outputs
    BY <1>2, <1>5 DEF files, FinishedOrWriting, TypeOK
  <2> QED BY <1>1, <1>5, <2>1, ReturnedKeeps
<1>6. CASE Path \notin finals /\ Goto("ffmpeg") /\ writings' = writings \cup {Path} /\ UNCHANGED finals
  <2>1. /\ worker' \in Worker
        /\ worker'.pc = "ffmpeg" /\ worker'.job = worker.job /\ worker'.kept = worker.kept
        /\ worker'.next = worker.next /\ worker'.raised = worker.raised
    BY <1>2, <1>6 DEF Goto, TypeOK, Worker
  <2>2. Busy' /\ PlanOrder'
    BY <1>1, <1>2, <2>1 DEF WorkerInv, PlanOrder, Busy, Serving, AtOutput, Writing, Before
  <2>3. /\ finals \subseteq finals' /\ finals' \subseteq Jobs \X Outputs
        /\ writings' \subseteq Jobs \X Outputs /\ writings' \cap finals \subseteq writings
        /\ FinishedOrWriting'
    BY <1>2, <1>3, <1>6 DEF TypeOK, FinishedOrWriting
  <2> QED BY <1>1, <1>3, <2>1, <2>2, <2>3, WorkerMoves
<1> QED BY <1>4, <1>5, <1>6 DEF run_output

\* A file becomes final by the rename alone, when nothing final has its name.
LEMMA FfmpegExitedKeeps ==
  ASSUME IInv, ffmpeg_exited
  PROVE  IInv'
<1>1. /\ mode # "down" /\ worker.pc = "ffmpeg" /\ Busy
      /\ UNCHANGED <<mode, database_fails, job, attempts, output, signals>>
  BY DEF ffmpeg_exited, At, Busy, world, tables
<1>2. TypeOK /\ WorkerInv /\ FinishedOrWriting
  BY DEF IInv
<1>3. Path \in Jobs \X Outputs
  BY <1>1, <1>2 DEF WorkerInv, PlanOrder, WorkerHasAJob, Busy, AtOutput, Serving, Path
<1>4. CASE (Returned(TRUE) \/ Raised) /\ writings' = writings \ {Path} /\ finals' = finals \cup {Path}
  <2>1. /\ finals \subseteq finals' /\ finals' \subseteq Jobs \X Outputs
        /\ writings' \subseteq writings /\ FinishedOrWriting' /\ Path \in finals'
    BY <1>2, <1>3, <1>4 DEF TypeOK, FinishedOrWriting
  <2>2. CASE Returned(TRUE)
    BY <1>1, <2>1, <2>2, ReturnedKeeps
  <2>3. CASE Raised
    BY <1>1, <2>1, <2>3, RaisedKeeps
  <2> QED BY <1>4, <2>2, <2>3 
<1>5. CASE Returned(FALSE) /\ writings' = writings \ {Path} /\ UNCHANGED finals
  <2>1. /\ finals \subseteq finals' /\ finals' \subseteq Jobs \X Outputs
        /\ writings' \subseteq writings /\ FinishedOrWriting'
    BY <1>2, <1>5 DEF TypeOK, FinishedOrWriting
  <2> QED BY <1>1, <1>5, <2>1, ReturnedKeeps
<1>6. CASE Raised /\ UNCHANGED files
  <2>1. finals' = finals /\ writings' = writings /\ FinishedOrWriting' /\ finals \subseteq Jobs \X Outputs
    BY <1>2, <1>6 DEF files, FinishedOrWriting, TypeOK
  <2> QED BY <1>1, <1>6, <2>1, RaisedKeeps
<1> QED BY <1>4, <1>5, <1>6 DEF ffmpeg_exited

\* A cancelled export leaves no file under the final name.
LEMMA FfmpegCanceledKeeps ==
  ASSUME IInv, ffmpeg_canceled
  PROVE  IInv'
<1>1. /\ mode # "down" /\ worker.pc = "ffmpeg" /\ Busy /\ writings' = writings \ {Path}
      /\ UNCHANGED <<mode, database_fails, job, attempts, output, finals, signals>>
  BY DEF ffmpeg_canceled, At, Busy, world, tables
<1>2. TypeOK /\ WorkerInv /\ FinishedOrWriting
  BY DEF IInv
<1>3. /\ worker' \in Worker /\ worker'.pc = "finish" /\ worker'.job = worker.job
      /\ worker'.raised = worker.raised /\ worker'.status = "canceled"
  BY <1>2 DEF ffmpeg_canceled, TypeOK, Worker
<1>4. ~worker.raised
  BY <1>1, <1>2 DEF WorkerInv, WorkerHasAJob, Busy
<1>5. PlanOrder' /\ Busy'
  BY <1>3 DEF PlanOrder, Busy, Serving, AtOutput
<1>6. /\ finals \subseteq finals' /\ finals' \subseteq Jobs \X Outputs
      /\ writings' \subseteq Jobs \X Outputs /\ writings' \cap finals \subseteq writings
      /\ FinishedOrWriting'
  BY <1>1, <1>2 DEF TypeOK, FinishedOrWriting
<1> QED BY <1>1, <1>3, <1>4, <1>5, <1>6, WorkerMoves

\* A success is stored when its file is there.
LEMMA StoreResultKeeps ==
  ASSUME IInv, store_result
  PROVE  IInv'
<1>1. /\ mode # "down" /\ worker.pc = "store"
      /\ UNCHANGED <<mode, database_fails, job, attempts, finals, writings, signals>>
  BY DEF store_result, At, world, files
<1>2. TypeOK /\ WorkerInv /\ FinishedOrWriting /\ \A k \in Jobs : AttemptsAgree(k) /\ OutputsAgree(k)
  BY DEF IInv, RowsInv
<1>3. PICK j : j = worker.job
  OBVIOUS
<1>4. /\ j \in Jobs /\ worker.next \in Outputs /\ ~worker.raised /\ job[j].status = "running"
      /\ worker.status \in {"succeeded", "failed"}
      /\ worker.status = "succeeded" => <<j, worker.next>> \in finals
      /\ \A o \in Outputs : output[j][o] = IF Before(o) THEN "succeeded"
                                           ELSE IF o = worker.next THEN "writing" ELSE "queued"
  BY <1>1, <1>2, <1>3 DEF WorkerInv, PlanOrder, WorkerHasAJob, Busy, Serving, AtOutput, Writing
<1>5. /\ worker' \in Worker /\ worker'.job = j /\ worker'.kept = worker.kept
      /\ worker'.raised = worker.raised
      /\ \/ /\ worker.status = "succeeded" /\ worker'.pc = "next" /\ worker'.next = worker.next + 1
         \/ /\ worker.status = "failed" /\ worker'.pc = "finish" /\ worker'.status = "failed"
  <2>1. worker \in Worker
    BY <1>2 DEF TypeOK
  <2>2. CASE worker.status = "succeeded"
    <3>1. worker' = [worker EXCEPT !.pc = "next", !.next = @ + 1, !.status = NULL]
      BY <2>2 DEF store_result
    <3>2. worker.next + 1 \in 1 .. NOutputs + 1
      BY <1>4
    <3> QED BY <1>3, <2>1, <2>2, <3>1, <3>2 DEF Worker
  <2>3. CASE worker.status = "failed"
    <3>1. worker' = [worker EXCEPT !.pc = "finish"]
      BY <2>3 DEF store_result
    <3> QED BY <1>3, <2>1, <2>3, <3>1 DEF Worker
  <2> QED BY <1>4, <2>2, <2>3
<1>6. /\ output' \in [Jobs -> OutputRow]
      /\ \A k \in Jobs : \A o \in Outputs :
           output'[k][o] = IF k = j /\ o = worker.next THEN worker.status ELSE output[k][o]
  <2>1. set_output_status(worker.status) /\ worker.status \in {"writing"} \cup Terminal
    BY <1>4 DEF store_result
  <2> QED BY <1>2, <1>3, <1>4, <2>1, StatusSet
<1>7. TypeOK'
  BY <1>1, <1>2, <1>5, <1>6 DEF TypeOK
<1>8. ASSUME NEW k \in Jobs PROVE (AttemptsAgree(k) /\ OutputsAgree(k))'
  <2>1. CASE k # j
    BY <1>1, <1>2, <1>6, <2>1, RowsUntouched
  <2>2. CASE k = j
    <3>1. AttemptsAgree(j)'
      BY <1>1, <1>2, <1>4 DEF AttemptsAgree, Claimable
    <3>2. OutputsAgree(j)'
      <4>1. \A o \in Outputs :
              /\ output'[j][o] \in {"queued", "writing", "succeeded", "failed"}
              /\ output'[j][o] = "succeeded" =>
                   output[j][o] = "succeeded" \/ (o = worker.next /\ <<j, o>> \in finals)
        <5> SUFFICES ASSUME NEW o \in Outputs
                     PROVE  /\ output'[j][o] \in {"queued", "writing", "succeeded", "failed"}
                            /\ output'[j][o] = "succeeded" =>
                                 output[j][o] = "succeeded" \/ (o = worker.next /\ <<j, o>> \in finals)
          BY <1>4
        <5>1. CASE o = worker.next
          BY <1>4, <1>6, <5>1
        <5>2. CASE o # worker.next
          <6>1. output'[j][o] = output[j][o]
            BY <1>4, <1>6, <5>2
          <6>2. output[j][o] \in {"queued", "succeeded"}
            BY <1>4, <5>2
          <6> QED BY <5>2, <6>1, <6>2
        <5> QED BY <5>1, <5>2
      <4>2. \A o \in Outputs : output[j][o] = "succeeded" => <<j, o>> \in finals /\ <<j, o>> \notin writings
        BY <1>2, <1>4 DEF OutputsAgree
      <4>3. \A o \in Outputs : <<j, o>> \in finals => <<j, o>> \notin writings
        BY <1>2 DEF FinishedOrWriting
      <4> QED BY <1>1, <1>4, <4>1, <4>2, <4>3 DEF OutputsAgree
    <3> QED BY <2>2, <3>1, <3>2
  <2> QED BY <2>1, <2>2
<1>9. WorkerInv'
  <2>1. WorkerRests' /\ WorkerHasAJob'
    BY <1>1, <1>4, <1>5 DEF WorkerRests, WorkerHasAJob, Busy
  <2>2. PlanOrder'
    <3>1. CASE worker.status = "succeeded"
      <4>1. \A o \in Outputs : Before(o)' <=> Before(o) \/ o = worker.next
        BY <1>2, <1>4, <1>5, <3>1 DEF Before, TypeOK, Worker
      <4>2. \A o \in Outputs : output'[j][o] = IF Before(o) \/ o = worker.next THEN "succeeded" ELSE "queued"
        BY <1>4, <1>6, <3>1
      <4> QED BY <1>5, <3>1, <4>1, <4>2 DEF PlanOrder, Serving, AtOutput, Writing
    <3>2. CASE worker.status = "failed"
      BY <1>5, <3>2 DEF PlanOrder, Serving, AtOutput
    <3> QED BY <1>4, <3>1, <3>2
  <2> QED BY <2>1, <2>2 DEF WorkerInv
<1> QED BY <1>1, <1>2, <1>7, <1>8, <1>9 DEF IInv, RowsInv, FinishedOrWriting

\* The transaction of finish_job leaves the rows of the job in agreement, also
\* when it comes a second time.
LEMMA FinishRowsAgree ==
  ASSUME IInv, worker.pc = "finish", FinishRows(worker.job, worker.status),
         UNCHANGED <<database_fails, finals, writings, signals>>
  PROVE  /\ job' \in [Jobs -> JobRow]
         /\ attempts' \in [Jobs -> Seq(AttemptStatus)]
         /\ output' \in [Jobs -> OutputRow]
         /\ RowsInv'
         /\ job'[worker.job].status = worker.status
<1>1. TypeOK /\ WorkerInv /\ FinishedOrWriting /\ \A k \in Jobs : AttemptsAgree(k) /\ OutputsAgree(k)
  BY DEF IInv, RowsInv
<1>2. PICK j : j = worker.job
  OBVIOUS
<1>3. PICK status : status = worker.status
  OBVIOUS
<1>4. /\ j \in Jobs /\ status \in Terminal /\ job[j].status # "none"
      /\ status = "succeeded" => \A o \in Outputs : output[j][o] = "succeeded"
  BY <1>1, <1>2, <1>3 DEF WorkerInv, WorkerHasAJob, PlanOrder, Busy, Serving, AtOutput
<1>5. /\ job' \in [Jobs -> JobRow]
      /\ attempts' \in [Jobs -> Seq(AttemptStatus)]
      /\ output' \in [Jobs -> OutputRow]
      /\ job'[j].status = status
      /\ \A k \in Jobs \ {j} : job'[k] = job[k] /\ attempts'[k] = attempts[k]
      /\ Len(attempts'[j]) = Len(attempts[j]) /\ DOMAIN attempts'[j] = DOMAIN attempts[j]
      /\ \A n \in DOMAIN attempts[j] :
           attempts'[j][n] = IF n = Len(attempts[j]) /\ attempts[j][n] = "running"
                             THEN status ELSE attempts[j][n]
      /\ \A k \in Jobs : \A o \in Outputs :
           output'[k][o] = IF k = j /\ status # "succeeded" /\ output[k][o] \in {"queued", "writing"}
                           THEN status ELSE output[k][o]
  BY <1>1, <1>2, <1>3, <1>4, FinishedRows
<1>6. AttemptsAgree(j)'
  <2>1. \A n \in DOMAIN attempts'[j] : attempts'[j][n] # "running"
    BY <1>1, <1>4, <1>5 DEF AttemptsAgree
  <2>2. Len(attempts[j]) <= MaxAttempts
    BY <1>1, <1>4 DEF AttemptsAgree
  <2> QED BY <1>4, <1>5, <2>1, <2>2 DEF AttemptsAgree
<1>7. OutputsAgree(j)'
  <2>1. \A o \in Outputs :
          /\ output[j][o] \in {"queued", "writing"} \cup Terminal
          /\ output[j][o] = "succeeded" => <<j, o>> \in finals /\ <<j, o>> \notin writings
    <3>1. output[j] \in OutputRow
      BY <1>1, <1>4 DEF TypeOK
    <3> QED BY <1>1, <1>4, <3>1 DEF OutputsAgree, OutputRow
  <2>2. \A o \in Outputs :
          /\ output'[j][o] \in Terminal
          /\ output'[j][o] = "succeeded" => output[j][o] = "succeeded"
    BY <1>4, <1>5, <2>1
  <2> QED BY <1>4, <1>5, <2>1, <2>2 DEF OutputsAgree
<1>8. ASSUME NEW k \in Jobs PROVE (AttemptsAgree(k) /\ OutputsAgree(k))'
  <2>1. CASE k # j
    BY <1>1, <1>5, <2>1, RowsUntouched
  <2> QED BY <1>6, <1>7, <2>1
<1> QED BY <1>2, <1>3, <1>5, <1>8 DEF RowsInv

\* With nothing in hand the worker agrees with any rows.
LEMMA NoWorkerAgrees ==
  ASSUME worker' = NoWorker
  PROVE  WorkerInv' /\ worker' \in Worker
<1>1. /\ worker'.pc = "idle" /\ worker'.job = NULL /\ ~worker'.cancel_event /\ ~worker'.raised
  BY DEF NoWorker
<1>2. worker' \in Worker
  <2>1. 1 \in 1 .. NOutputs + 1
    OBVIOUS
  <2> QED BY <2>1 DEF NoWorker, Worker
<1> QED BY <1>1, <1>2 DEF WorkerInv, WorkerRests, WorkerHasAJob, PlanOrder, Busy, Serving, AtOutput

\* The job ends with its attempt and its outputs.
LEMMA FinishJobKeeps ==
  ASSUME IInv, finish_job
  PROVE  IInv'
<1>1. /\ worker.pc = "finish" /\ FinishRows(worker.job, worker.status) /\ worker' = NoWorker
      /\ UNCHANGED <<mode, database_fails, finals, writings, signals>>
  BY DEF finish_job, At, world, files
<1>2. TypeOK /\ FinishedOrWriting
  BY DEF IInv
<1>3. /\ job' \in [Jobs -> JobRow] /\ attempts' \in [Jobs -> Seq(AttemptStatus)]
      /\ output' \in [Jobs -> OutputRow] /\ RowsInv'
  BY <1>1, FinishRowsAgree
<1>4. WorkerInv' /\ worker' \in Worker
  BY <1>1, NoWorkerAgrees
<1> QED BY <1>1, <1>2, <1>3, <1>4 DEF IInv, TypeOK, FinishedOrWriting

\* A call of the worker that raises leaves the rows, or has finished the job.
LEMMA DatabaseFailedKeeps ==
  ASSUME IInv, database_failed
  PROVE  IInv'
<1>1. /\ mode # "down" /\ Busy
      /\ UNCHANGED <<mode, database_fails, finals, writings, signals>>
  BY DEF database_failed, At, Busy, world, files
<1>2. TypeOK /\ WorkerInv /\ FinishedOrWriting /\ RowsInv
  BY DEF IInv
<1>3. CASE UNCHANGED tables /\ worker' = NoWorker
  <2>1. WorkerInv' /\ worker' \in Worker
    BY <1>3, NoWorkerAgrees
  <2>2. UNCHANGED <<job, attempts, output>>
    BY <1>3 DEF tables
  <2>3. RowsInv'
    BY <1>1, <1>2, <2>2 DEF RowsInv, AttemptsAgree, OutputsAgree, Claimable
  <2> QED BY <1>1, <1>2, <2>1, <2>2, <2>3 DEF IInv, TypeOK, FinishedOrWriting
<1>4. CASE UNCHANGED tables /\ Raised
  <2>1. UNCHANGED <<job, attempts, output>>
    BY <1>4 DEF tables
  <2>2. finals' = finals /\ writings' = writings /\ FinishedOrWriting' /\ finals \subseteq Jobs \X Outputs
    BY <1>1, <1>2 DEF FinishedOrWriting, TypeOK
  <2> QED BY <1>1, <1>4, <2>1, <2>2, RaisedKeeps
<1>5. CASE worker.pc = "finish" /\ FinishRows(worker.job, worker.status) /\ worker' = NoWorker
  <2>1. /\ job' \in [Jobs -> JobRow] /\ attempts' \in [Jobs -> Seq(AttemptStatus)]
        /\ output' \in [Jobs -> OutputRow] /\ RowsInv'
    BY <1>1, <1>5, FinishRowsAgree
  <2>2. WorkerInv' /\ worker' \in Worker
    BY <1>5, NoWorkerAgrees
  <2> QED BY <1>1, <1>2, <2>1, <2>2 DEF IInv, TypeOK, FinishedOrWriting
<1>6. CASE worker.pc = "finish" /\ FinishRows(worker.job, worker.status) /\ Raised
  <2>1. /\ job' \in [Jobs -> JobRow] /\ attempts' \in [Jobs -> Seq(AttemptStatus)]
        /\ output' \in [Jobs -> OutputRow] /\ RowsInv' /\ job'[worker.job].status = worker.status
    BY <1>1, <1>6, FinishRowsAgree
  <2>2. worker.job \in Jobs /\ worker.status \in Terminal
    BY <1>2, <1>6 DEF WorkerInv, WorkerHasAJob, PlanOrder, Busy
  <2>3. /\ worker' \in Worker
        /\ worker'.pc = "finish" /\ worker'.job = worker.job /\ worker'.raised
        /\ worker'.status \in {"failed", "canceled"}
    BY <1>2, <1>6, WorkerRaised
  <2>4. WorkerInv'
    <3>1. job'[worker.job].status # "none"
      BY <2>1, <2>2
    <3> QED BY <1>1, <2>2, <2>3, <3>1
            DEF WorkerInv, WorkerRests, WorkerHasAJob, PlanOrder, Busy, Serving, AtOutput
  <2> QED BY <1>1, <1>2, <2>1, <2>3, <2>4 DEF IInv, TypeOK, FinishedOrWriting
<1> QED BY <1>3, <1>4, <1>5, <1>6 DEF database_failed, At

-----------------------------------------------------------------------------
\* The end of the application and its next start keep the invariant.

\* A stop signals the worker and touches no row.
LEMMA CloseKeeps ==
  ASSUME IInv, close
  PROVE  IInv'
<1>1. /\ mode = "running" /\ mode' = "closing"
      /\ UNCHANGED <<database_fails, job, attempts, output, finals, writings, signals>>
  BY DEF close, tables, files
<1>2. TypeOK /\ WorkerInv /\ FinishedOrWriting /\ RowsInv
  BY DEF IInv
<1>3. /\ worker' \in Worker /\ worker'.pc = worker.pc /\ worker'.job = worker.job
      /\ worker'.kept = worker.kept /\ worker'.next = worker.next
      /\ worker'.status = worker.status /\ worker'.raised = worker.raised
      /\ ~Busy => worker'.cancel_event = worker.cancel_event
  BY <1>2 DEF close, TypeOK, Worker, Busy, Executing
<1>4. TypeOK'
  BY <1>1, <1>2, <1>3 DEF TypeOK
<1>5. WorkerInv'
  BY <1>1, <1>2, <1>3, WorkerUntouched
<1>6. RowsInv'
  BY <1>1, <1>2 DEF RowsInv, AttemptsAgree, OutputsAgree, Claimable
<1> QED BY <1>1, <1>2, <1>4, <1>5, <1>6 DEF IInv, FinishedOrWriting

\* The service is down when its worker has nothing in hand.
LEMMA ClosedKeeps ==
  ASSUME IInv, closed
  PROVE  IInv'
<1>1. /\ worker.pc = "idle" /\ mode' = "down"
      /\ UNCHANGED <<database_fails, job, attempts, output, finals, writings, worker, signals>>
  BY DEF closed, tables, files
<1>2. TypeOK /\ WorkerInv /\ FinishedOrWriting /\ RowsInv
  BY DEF IInv
<1>3. TypeOK' /\ FinishedOrWriting'
  BY <1>1, <1>2 DEF TypeOK, FinishedOrWriting
<1>4. WorkerInv'
  BY <1>1, <1>2 DEF WorkerInv, WorkerRests, WorkerHasAJob, PlanOrder, Busy, Serving, AtOutput
<1>5. RowsInv'
  BY <1>1, <1>2 DEF RowsInv, AttemptsAgree, OutputsAgree, Claimable
<1> QED BY <1>3, <1>4, <1>5 DEF IInv

\* A crash leaves rows and files as they are and no worker.
LEMMA CrashKeeps ==
  ASSUME IInv, crash
  PROVE  IInv'
<1>1. /\ mode' = "down" /\ worker' = NoWorker /\ signals' = {}
      /\ UNCHANGED <<database_fails, job, attempts, output, finals, writings>>
  BY DEF crash, tables, files
<1>2. TypeOK /\ FinishedOrWriting /\ RowsInv
  BY DEF IInv
<1>3. WorkerInv' /\ worker' \in Worker
  BY <1>1, NoWorkerAgrees
<1>4. TypeOK' /\ FinishedOrWriting'
  BY <1>1, <1>2, <1>3 DEF TypeOK, FinishedOrWriting
<1>5. RowsInv'
  BY <1>1, <1>2 DEF RowsInv, AttemptsAgree, OutputsAgree, Claimable
<1> QED BY <1>3, <1>4, <1>5 DEF IInv

\* What recover_interrupted does to each job.
LEMMA StartRecovers ==
  ASSUME TypeOK, start, NEW k \in Jobs
  PROVE  /\ job' \in [Jobs -> JobRow] /\ attempts' \in [Jobs -> Seq(AttemptStatus)]
         /\ output' \in [Jobs -> OutputRow]
         /\ job'[k].status = IF job[k].status = "running" THEN "failed" ELSE job[k].status
         /\ job'[k].cancel_requested = job[k].cancel_requested
         /\ Len(attempts'[k]) = Len(attempts[k]) /\ DOMAIN attempts'[k] = DOMAIN attempts[k]
         /\ attempts[k] = <<>> => attempts'[k] = <<>>
         /\ \A n \in DOMAIN attempts[k] :
              attempts'[k][n] = IF job[k].status = "running" /\ attempts[k][n] = "running"
                                THEN "interrupted" ELSE attempts[k][n]
         /\ \A o \in Outputs :
              output'[k][o] = IF job[k].status = "running" /\ output[k][o] \in {"queued", "writing"}
                              THEN "failed" ELSE output[k][o]
<1>1. \A j \in Jobs : job[j] \in JobRow /\ attempts[j] \in Seq(AttemptStatus) /\ output[j] \in OutputRow
  BY DEF TypeOK
<1>2. /\ job' \in [Jobs -> JobRow]
      /\ job'[k].status = IF job[k].status = "running" THEN "failed" ELSE job[k].status
      /\ job'[k].cancel_requested = job[k].cancel_requested
  <2>1. job' = [j \in Jobs |-> IF job[j].status = "running" THEN [job[j] EXCEPT !.status = "failed"]
                               ELSE job[j]]
    BY DEF start
  <2>2. ASSUME NEW r \in JobRow
        PROVE  /\ [r EXCEPT !.status = "failed"] \in JobRow
               /\ [r EXCEPT !.status = "failed"].status = "failed"
               /\ [r EXCEPT !.status = "failed"].cancel_requested = r.cancel_requested
    BY DEF JobRow
  <2> QED BY <1>1, <2>1, <2>2
<1>3. /\ attempts' \in [Jobs -> Seq(AttemptStatus)]
      /\ Len(attempts'[k]) = Len(attempts[k]) /\ DOMAIN attempts'[k] = DOMAIN attempts[k]
      /\ attempts[k] = <<>> => attempts'[k] = <<>>
      /\ \A n \in DOMAIN attempts[k] :
              attempts'[k][n] = IF job[k].status = "running" /\ attempts[k][n] = "running"
                                THEN "interrupted" ELSE attempts[k][n]
  <2> DEFINE recovered(j) == [n \in DOMAIN attempts[j] |->
               IF job[j].status = "running" /\ attempts[j][n] = "running"
               THEN "interrupted" ELSE attempts[j][n]]
  <2>1. attempts' = [j \in Jobs |-> recovered(j)]
    BY DEF start
  <2>2. ASSUME NEW j \in Jobs
        PROVE  /\ recovered(j) \in Seq(AttemptStatus)
               /\ Len(recovered(j)) = Len(attempts[j]) /\ DOMAIN recovered(j) = DOMAIN attempts[j]
               /\ attempts[j] = <<>> => recovered(j) = <<>>
               /\ \A n \in DOMAIN attempts[j] :
                    recovered(j)[n] = IF job[j].status = "running" /\ attempts[j][n] = "running"
                                      THEN "interrupted" ELSE attempts[j][n]
    BY <1>1 DEF AttemptStatus
  <2> HIDE DEF recovered
  <2> QED BY <2>1, <2>2
<1>4. /\ output' \in [Jobs -> OutputRow]
      /\ \A o \in Outputs :
           output'[k][o] = IF job[k].status = "running" /\ output[k][o] \in {"queued", "writing"}
                           THEN "failed" ELSE output[k][o]
  BY <1>1 DEF start, OutputRow
<1> QED BY <1>2, <1>3, <1>4

\* A start repairs the rows that a crash left before a worker exists.
LEMMA StartKeeps ==
  ASSUME IInv, start
  PROVE  IInv'
<1>1. /\ mode = "down" /\ mode' = "running"
      /\ UNCHANGED <<database_fails, finals, writings, worker, signals>>
  BY DEF start, files
<1>2. TypeOK /\ WorkerInv /\ FinishedOrWriting /\ \A k \in Jobs : AttemptsAgree(k) /\ OutputsAgree(k)
  BY DEF IInv, RowsInv
<1>3. TypeOK'
  <2>1. /\ job' \in [Jobs -> JobRow] /\ attempts' \in [Jobs -> Seq(AttemptStatus)]
        /\ output' \in [Jobs -> OutputRow]
    <3>1. CASE Jobs = {}
      BY <3>1 DEF start
    <3>2. CASE Jobs # {}
      BY <1>2, <3>2, StartRecovers
    <3> QED BY <3>1, <3>2
  <2> QED BY <1>1, <1>2, <2>1 DEF TypeOK
<1>4. ASSUME NEW k \in Jobs PROVE (AttemptsAgree(k) /\ OutputsAgree(k))'
  <2>1. /\ job'[k].status = IF job[k].status = "running" THEN "failed" ELSE job[k].status
        /\ job'[k].cancel_requested = job[k].cancel_requested
        /\ Len(attempts'[k]) = Len(attempts[k]) /\ DOMAIN attempts'[k] = DOMAIN attempts[k]
        /\ attempts[k] = <<>> => attempts'[k] = <<>>
        /\ \A n \in DOMAIN attempts[k] :
              attempts'[k][n] = IF job[k].status = "running" /\ attempts[k][n] = "running"
                                THEN "interrupted" ELSE attempts[k][n]
        /\ \A o \in Outputs :
              output'[k][o] = IF job[k].status = "running" /\ output[k][o] \in {"queued", "writing"}
                              THEN "failed" ELSE output[k][o]
    BY <1>2, StartRecovers
  <2>2. AttemptsAgree(k)'
    BY <1>2, <2>1 DEF AttemptsAgree, Claimable
  <2>3. OutputsAgree(k)'
    <3>1. output[k] \in OutputRow
      BY <1>2 DEF TypeOK
    <3>2. SUFFICES ASSUME NEW o \in Outputs
                   PROVE  (/\ output[k][o] = "none" <=> job[k].status = "none"
                           /\ job[k].status = "queued" => output[k][o] \in {"queued", "succeeded"}
                           /\ job[k].status \in Terminal => output[k][o] \in Terminal
                           /\ output[k][o] = "writing" => job[k].status = "running"
                           /\ output[k][o] = "succeeded" => <<k, o>> \in finals /\ <<k, o>> \notin writings)'
      BY DEF OutputsAgree
    <3> QED BY <1>1, <1>2, <2>1, <3>1 DEF OutputsAgree, OutputRow
  <2> QED BY <2>2, <2>3
<1>5. WorkerInv'
  <2>1. worker.pc = "idle" /\ worker'.pc = "idle"
    BY <1>1, <1>2 DEF WorkerInv, WorkerRests
  <2> QED BY <1>1, <1>2, <2>1
          DEF WorkerInv, WorkerRests, WorkerHasAJob, PlanOrder, Busy, Serving, AtOutput
<1> QED BY <1>1, <1>2, <1>3, <1>4, <1>5 DEF IInv, RowsInv, FinishedOrWriting

-----------------------------------------------------------------------------
\* The invariants and the action properties.

\* A step that changes nothing keeps everything.
LEMMA StutterKeeps ==
  ASSUME IInv, UNCHANGED vars
  PROVE  IInv'
<1>1. UNCHANGED <<mode, database_fails, job, attempts, output, finals, writings, worker, signals>>
  BY DEF vars, world, tables, files
<1>2. TypeOK /\ WorkerInv /\ FinishedOrWriting /\ RowsInv
  BY DEF IInv
<1>3. TypeOK' /\ FinishedOrWriting'
  BY <1>1, <1>2 DEF TypeOK, FinishedOrWriting
<1>4. WorkerInv'
  BY <1>1, <1>2 DEF WorkerInv, WorkerRests, WorkerHasAJob, PlanOrder, Busy, Before
<1>5. RowsInv'
  BY <1>1, <1>2 DEF RowsInv, AttemptsAgree, OutputsAgree, Claimable
<1> QED BY <1>3, <1>4, <1>5 DEF IInv

\* So every step keeps the invariant.
LEMMA StepKeeps ==
  ASSUME IInv, [Next]_vars
  PROVE  IInv'
<1>1. CASE \E j \in Jobs : create_job(j) \/ request_cancel(j) \/ cancel_job_signals(j) \/ retry(j)
  BY <1>1, CreateJobKeeps, RequestCancelKeeps, CancelJobSignalsKeeps, RetryKeeps
<1>2. CASE WorkerStep
  BY <1>2, WorkerLoopsKeeps, ClaimNextKeeps, GetJobKeeps, NextOutputKeeps, MarkWritingKeeps,
     RunOutputKeeps, FfmpegCanceledKeeps, StoreResultKeeps, FinishJobKeeps DEF WorkerStep
<1>3. CASE ffmpeg_exited \/ database_failed
  BY <1>3, FfmpegExitedKeeps, DatabaseFailedKeeps
<1>4. CASE close \/ closed \/ crash \/ start
  BY <1>4, CloseKeeps, ClosedKeeps, CrashKeeps, StartKeeps
<1>5. CASE UNCHANGED vars
  BY <1>5, StutterKeeps
<1> QED BY <1>1, <1>2, <1>3, <1>4, <1>5 DEF Next

\* It holds of an empty database.
LEMMA InitHolds ==
  ASSUME Init
  PROVE  IInv
<1>1. /\ mode = "running" /\ database_fails \in BOOLEAN
      /\ \A j \in Jobs : /\ job[j].status = "none" /\ ~job[j].cancel_requested
                         /\ attempts[j] = <<>> /\ \A o \in Outputs : output[j][o] = "none"
      /\ finals = {} /\ writings = {} /\ worker = NoWorker /\ signals = {}
  BY DEF Init
<1>2. TypeOK
  <2>1. /\ job \in [Jobs -> JobRow] /\ attempts \in [Jobs -> Seq(AttemptStatus)]
        /\ output \in [Jobs -> OutputRow]
    BY DEF Init, JobRow, OutputRow
  <2>2. worker \in Worker
    <3>1. 1 \in 1 .. NOutputs + 1
      OBVIOUS
    <3> QED BY <1>1, <3>1 DEF NoWorker, Worker
  <2> QED BY <1>1, <2>1, <2>2 DEF TypeOK
<1>3. RowsInv
  BY <1>1 DEF RowsInv, AttemptsAgree, OutputsAgree
<1>4. WorkerInv
  BY <1>1 DEF NoWorker, WorkerInv, WorkerRests, WorkerHasAJob, PlanOrder, Busy, Serving, AtOutput
<1> QED BY <1>1, <1>2, <1>3, <1>4 DEF IInv, FinishedOrWriting

\* The types, and what keeps the rows in step, hold in every behaviour of the
\* tables, the worker and the files (repository.py, service.py, executor.py).
THEOREM Inductive == Spec => []IInv
BY InitHolds, StepKeeps, PTL DEF Spec

\* Whatever happens to a job, its attempts and its outputs say the same as its
\* row, a queued job can be claimed, and success has its file: through every
\* claim, cancel, retry, failing write and restart.
THEOREM RowsAgree == Spec => []RowsFollowTheJob
<1>1. IInv => RowsFollowTheJob
  <2>1. ASSUME IInv PROVE RowsFollowTheJob
    <3>1. TypeOK /\ \A k \in Jobs : AttemptsAgree(k) /\ OutputsAgree(k)
      BY <2>1 DEF IInv, RowsInv
    <3>2. AttemptsFollowTheJob
      BY <3>1 DEF AttemptsFollowTheJob, AttemptsAgree
    <3>3. QueuedIsClaimable
      BY <3>1 DEF QueuedIsClaimable, AttemptsAgree, OutputsAgree
    <3>4. OutputsAreSettled
      BY <3>1 DEF OutputsAreSettled, OutputsAgree
    <3> QED BY <3>1, <3>2, <3>3, <3>4 DEF RowsFollowTheJob
  <2> QED BY <2>1
<1> QED BY <1>1, Inductive, PTL

\* No step withdraws an output or opens its file.
LEMMA StepOverwritesNothing ==
  ASSUME IInv, IInv', [Next]_vars
  PROVE  /\ finals \subseteq finals'
         /\ writings' \cap finals = writings \cap finals
         /\ \A j \in Jobs : \A o \in Outputs :
              output[j][o] = "succeeded" => output'[j][o] = "succeeded"
<1>1. TypeOK /\ FinishedOrWriting /\ FinishedOrWriting' /\ WorkerInv
  BY DEF IInv
<1>2. finals \subseteq finals'
  BY DEF Next, vars, files, create_job, request_cancel, cancel_job_signals, retry, WorkerStep,
     worker_loops, claim_next, get_job, next_output, mark_writing, run_output, ffmpeg_canceled,
     store_result, finish_job, ffmpeg_exited, database_failed, close, closed, crash, start
<1>3. writings' \cap finals = writings \cap finals
  BY <1>1, <1>2 DEF FinishedOrWriting
<1>4. ASSUME NEW j \in Jobs, NEW o \in Outputs, output[j][o] = "succeeded"
      PROVE  output'[j][o] = "succeeded"
  <2>1. ASSUME NEW k \in Jobs, NEW from, NEW to \in {"queued"} \cup Terminal,
               "succeeded" \notin from, Reset(k, from, to)
        PROVE  output'[j][o] = "succeeded"
    BY <1>1, <1>4, <2>1, ResetRows
  <2>2. CASE \E k \in Jobs : create_job(k) \/ request_cancel(k) \/ cancel_job_signals(k) \/ retry(k)
    <3>1. PICK k \in Jobs : create_job(k) \/ request_cancel(k) \/ cancel_job_signals(k) \/ retry(k)
      BY <2>2
    <3>2. CASE create_job(k)
      BY <2>1, <3>2 DEF create_job
    <3>3. CASE request_cancel(k)
      BY <1>4, <2>1, <3>3 DEF request_cancel
    <3>4. CASE cancel_job_signals(k)
      BY <1>4, <3>4 DEF cancel_job_signals, tables
    <3>5. CASE retry(k)
      BY <2>1, <3>5 DEF retry
    <3> QED BY <3>1, <3>2, <3>3, <3>4, <3>5
  <2>3. CASE claim_next
    BY <1>4, <2>1, <2>3 DEF claim_next, tables
  <2>4. CASE mark_writing \/ store_result
    <3>1. /\ worker.job \in Jobs /\ worker.next \in Outputs
          /\ output[worker.job][worker.next] # "succeeded"
      BY <1>1, <2>4 DEF mark_writing, store_result, At, WorkerInv, WorkerHasAJob, PlanOrder,
         Busy, Serving, AtOutput, Writing, Before
    <3>2. PICK status : set_output_status(status)
      BY <2>4 DEF mark_writing, store_result
    <3>3. output'[j][o] = output[j][o]
      BY <1>1, <1>4, <3>1, <3>2 DEF set_output_status, TypeOK, OutputRow
    <3> QED BY <1>4, <3>3
  <2>5. CASE worker.pc = "finish" /\ FinishRows(worker.job, worker.status)
    <3>1. worker.job \in Jobs /\ worker.status \in Terminal
      BY <1>1, <2>5 DEF WorkerInv, WorkerHasAJob, PlanOrder, Busy
    <3> QED BY <1>4, <2>1, <2>5, <3>1 DEF FinishRows
  <2>6. CASE start
    BY <1>1, <1>4, <2>6, StartRecovers
  <2>7. CASE UNCHANGED output
    BY <1>4, <2>7
  <2> QED BY <2>2, <2>3, <2>4, <2>5, <2>6, <2>7
          DEF Next, vars, tables, WorkerStep, worker_loops, get_job, next_output, run_output,
              ffmpeg_canceled, finish_job, ffmpeg_exited, database_failed, At, close, closed, crash
<1> QED BY <1>2, <1>3, <1>4

\* No step touches a finished output: not its row, not its file, and nothing
\* is written beside it.
THEOREM NothingOverwritten == Spec => NeverOverwritten
<1>1. IInv /\ IInv' /\ [Next]_vars =>
        [/\ finals \subseteq finals'
         /\ writings' \cap finals = writings \cap finals
         /\ \A j \in Jobs : \A o \in Outputs :
              output[j][o] = "succeeded" => output'[j][o] = "succeeded"]_vars
  BY StepOverwritesNothing
<1> QED BY <1>1, Inductive, PTL DEF Spec, NeverOverwritten

-----------------------------------------------------------------------------
\* While the database answers.

\* Running jobs and the worker go together, a job that succeeded has all its
\* outputs, and it stays so.
LEMMA QuietStep ==
  ASSUME IInv, IInv', [Next]_vars, ~database_fails, RunningHasTheWorker, WholeOnes
  PROVE  /\ ~database_fails' /\ RunningHasTheWorker' /\ WholeOnes'
         /\ \A j \in Jobs : job[j].status = "succeeded" => job'[j].status = "succeeded"
<1> DEFINE Goal == /\ RunningHasTheWorker' /\ WholeOnes'
                   /\ \A j \in Jobs : job[j].status = "succeeded" => job'[j].status = "succeeded"
<1>1. database_fails' = database_fails
  BY DEF Next, vars, world, create_job, request_cancel, cancel_job_signals, retry, WorkerStep,
     worker_loops, claim_next, get_job, next_output, mark_writing, run_output, ffmpeg_canceled,
     store_result, finish_job, ffmpeg_exited, database_failed, close, closed, crash, start
<1> SUFFICES Goal
  BY <1>1
<1>2. /\ TypeOK /\ WorkerInv /\ NULL \notin Jobs
      /\ mode # "down" => \A k \in Jobs : job[k].status = "running" <=> worker.job = k
      /\ \A k \in Jobs : \A o \in Outputs : output[k][o] = "succeeded" => output'[k][o] = "succeeded"
  BY StepOverwritesNothing DEF IInv, RunningHasTheWorker
<1>3. worker \in Worker
  BY <1>2 DEF TypeOK
\* Most steps leave the worker its job, and start or finish no job.
<1>4. ASSUME mode' # "down" => mode # "down" /\ worker'.job = worker.job,
             \A k \in Jobs :
               \/ job'[k].status = job[k].status
               \/ /\ job[k].status \notin {"running", "succeeded"}
                  /\ job'[k].status \notin {"running", "succeeded"}
      PROVE  Goal
  BY <1>2, <1>4 DEF RunningHasTheWorker, WholeOnes
<1> HIDE DEF Goal
<1>5. CASE \E j \in Jobs : create_job(j) \/ request_cancel(j) \/ cancel_job_signals(j) \/ retry(j)
  <2>1. PICK j \in Jobs : create_job(j) \/ request_cancel(j) \/ cancel_job_signals(j) \/ retry(j)
    BY <1>5
  <2>2. CASE cancel_job_signals(j)
    <3>1. UNCHANGED <<mode, job>> /\ worker'.job = worker.job
      BY <1>3, <2>2 DEF cancel_job_signals, world, tables, Worker
    <3> QED BY <1>4, <3>1
  <2>3. CASE create_job(j)
    <3>1. UNCHANGED <<mode, worker>> /\ job[j].status = "none"
      BY <2>3 DEF create_job, world
    <3>2. /\ job' = [job EXCEPT ![j].status = "queued"] /\ "queued" \in {"queued", "running"} \cup Terminal
      BY <2>3 DEF create_job
    <3>3. job'[j].status = "queued" /\ \A k \in Jobs \ {j} : job'[k] = job[k]
      BY <1>2, <3>2, JobStatusSet
    <3> QED BY <1>4, <3>1, <3>3
  <2>4. CASE retry(j)
    <3>1. UNCHANGED <<mode, worker>> /\ job[j].status \in {"failed", "canceled"}
      BY <2>4 DEF retry, world
    <3>2. /\ job' = [job EXCEPT ![j] = [status |-> "queued", cancel_requested |-> FALSE]]
          /\ "queued" \in {"queued", "running"} \cup Terminal /\ FALSE \in BOOLEAN
      BY <2>4 DEF retry
    <3>3. job'[j].status = "queued" /\ \A k \in Jobs \ {j} : job'[k] = job[k]
      BY <1>2, <3>2, JobReplaced
    <3> QED BY <1>4, <3>1, <3>3
  <2>5. CASE request_cancel(j) /\ job[j].status = "queued"
    <3>1. UNCHANGED <<mode, worker>>
      BY <2>5 DEF request_cancel, world
    <3>2. /\ job' = [job EXCEPT ![j] = [status |-> "canceled", cancel_requested |-> TRUE]]
          /\ "canceled" \in {"queued", "running"} \cup Terminal
      BY <2>5 DEF request_cancel
    <3>3. job'[j].status = "canceled" /\ \A k \in Jobs \ {j} : job'[k] = job[k]
      BY <1>2, <3>2, JobReplaced
    <3> QED BY <1>4, <2>5, <3>1, <3>3
  <2>6. CASE request_cancel(j) /\ job[j].status # "queued"
    <3>1. UNCHANGED <<mode, worker>> /\ job' = [job EXCEPT ![j].cancel_requested = TRUE]
      BY <2>6 DEF request_cancel, world
    <3>2. job'[j].status = job[j].status /\ \A k \in Jobs \ {j} : job'[k] = job[k]
      BY <1>2, <3>1, JobCancelRequested
    <3> QED BY <1>4, <3>1, <3>2
  <2> QED BY <2>1, <2>2, <2>3, <2>4, <2>5, <2>6
<1>6. CASE claim_next
  <2>1. mode' = mode /\ mode # "down" /\ worker.job = NULL
    BY <1>2, <1>6 DEF claim_next, At, world, WorkerInv, WorkerRests, Busy
  <2>2. CASE Goto("idle") /\ UNCHANGED tables
    <3>1. job' = job /\ worker'.job = worker.job
      BY <1>3, <2>2 DEF Goto, Worker, tables
    <3> QED BY <1>4, <2>1, <3>1
  <2>3. ASSUME NEW j \in Jobs, Claimable(j), job' = [job EXCEPT ![j].status = "running"],
               worker' = [NoWorker EXCEPT !.pc = "claimed", !.job = j]
        PROVE  Goal
    <3>1. worker'.job = j /\ job[j].status = "queued"
      BY <2>3 DEF NoWorker, Claimable
    <3>2. "running" \in {"queued", "running"} \cup Terminal
      OBVIOUS
    <3>3. job'[j].status = "running" /\ \A k \in Jobs \ {j} : job'[k] = job[k]
      BY <1>2, <2>3, <3>2, JobStatusSet
    <3>4. \A k \in Jobs \ {j} : job[k].status # "running" /\ job'[k] = job[k]
      BY <1>2, <2>1, <3>3
    <3>5. RunningHasTheWorker'
      BY <3>1, <3>3, <3>4 DEF RunningHasTheWorker
    <3>6. \A k \in Jobs : job[k].status = "succeeded" <=> job'[k].status = "succeeded"
      <4>1. job[j].status # "succeeded" /\ job'[j].status # "succeeded"
        BY <3>1, <3>3
      <4> QED BY <3>3, <4>1
    <3>7. WholeOnes'
      BY <1>2, <3>6 DEF WholeOnes
    <3> QED BY <3>5, <3>6, <3>7 DEF Goal
  <2> QED BY <1>6, <2>2, <2>3 DEF claim_next
<1>7. CASE finish_job
  <2>1. PICK j : j = worker.job
    OBVIOUS
  <2>2. PICK status : status = worker.status
    OBVIOUS
  <2>3. /\ mode # "down" /\ mode' = mode /\ worker.pc = "finish" /\ FinishRows(j, status)
        /\ worker'.job = NULL
    BY <1>7, <2>1, <2>2 DEF finish_job, At, world, NoWorker
  <2>4. /\ j \in Jobs /\ status \in Terminal /\ job[j].status = "running"
        /\ status = "succeeded" => \A o \in Outputs : output[j][o] = "succeeded"
    BY <1>2, <2>1, <2>2, <2>3 DEF WorkerInv, WorkerHasAJob, PlanOrder, Busy, Serving, AtOutput
  <2>5. job'[j].status = status /\ \A k \in Jobs \ {j} : job'[k] = job[k]
    BY <1>2, <2>3, <2>4, FinishedRows
  <2> QED BY <1>2, <2>1, <2>3, <2>4, <2>5 DEF RunningHasTheWorker, WholeOnes, Goal
<1>8. CASE start
  <2>1. mode = "down" /\ worker'.job = NULL
    BY <1>2, <1>8 DEF start, WorkerInv, WorkerRests, Busy
  <2>2. \A k \in Jobs : job'[k].status = IF job[k].status = "running" THEN "failed" ELSE job[k].status
    BY <1>2, <1>8, StartRecovers
  <2> QED BY <1>2, <2>1, <2>2 DEF RunningHasTheWorker, WholeOnes, Goal
<1>9. CASE UNCHANGED job /\ (mode' # "down" => mode # "down" /\ worker'.job = worker.job)
  BY <1>4, <1>9
<1>10. CASE \/ worker_loops \/ get_job \/ next_output \/ mark_writing \/ run_output
            \/ ffmpeg_canceled \/ store_result \/ ffmpeg_exited
  <2>1. UNCHANGED <<mode, job>>
    BY <1>10 DEF worker_loops, get_job, next_output, mark_writing, run_output,
       ffmpeg_canceled, store_result, ffmpeg_exited, world, tables
  <2>2. worker'.job = worker.job
    BY <1>3, <1>10 DEF worker_loops, get_job, next_output, mark_writing, run_output,
       ffmpeg_canceled, store_result, ffmpeg_exited, Goto, Raised, Returned, Worker
  <2>3. mode' # "down" => mode # "down"
    BY <2>1
  <2> QED BY <1>9, <2>1, <2>2, <2>3
<1>11. CASE close \/ closed \/ crash
  <2>1. UNCHANGED job /\ (mode' # "down" => mode # "down" /\ worker'.job = worker.job)
    BY <1>3, <1>11 DEF close, closed, crash, tables, Worker
  <2> QED BY <1>9, <2>1
<1>12. CASE UNCHANGED vars
  BY <1>9, <1>12 DEF vars, world, tables
<1> QED BY <1>5, <1>6, <1>7, <1>8, <1>10, <1>11, <1>12 DEF Next, WorkerStep, database_failed

\* As long as no statement failed, in every state.
LEMMA QuietInductive == Spec => []QInv
<1>1. Init => QInv
  BY DEF Init, NoWorker, QInv, RunningHasTheWorker, WholeOnes
<1>2. ASSUME IInv, IInv', QInv, [Next]_vars PROVE QInv'
  <2>1. CASE database_fails
    <3>1. database_fails' = database_fails
      BY <1>2 DEF Next, vars, world, create_job, request_cancel, cancel_job_signals, retry,
         WorkerStep, worker_loops, claim_next, get_job, next_output, mark_writing, run_output,
         ffmpeg_canceled, store_result, finish_job, ffmpeg_exited, database_failed, close,
         closed, crash, start
    <3> QED BY <2>1, <3>1 DEF QInv
  <2>2. CASE ~database_fails
    BY <1>2, <2>2, QuietStep DEF QInv
  <2> QED BY <2>1, <2>2
<1> QED BY <1>1, <1>2, Inductive, PTL DEF Spec

\* While the database answers, a running job is the worker's: no claim, cancel,
\* failed export or restart leaves one behind.
THEOREM RunningIsServed == Spec => []RunningHasTheWorker
<1>1. QInv => RunningHasTheWorker
  BY DEF QInv, RunningHasTheWorker
<1> QED BY <1>1, QuietInductive, PTL

\* While the database answers, a success is never withdrawn, and a job that
\* succeeded has every output of its plan, row and file.
THEOREM SuccessStands == Spec => SuccessIsWhole
<1>1. ASSUME IInv, IInv', QInv, [Next]_vars, ~database_fails PROVE SuccessStaysWhole
  <2>1. WholeOnes' /\ \A j \in Jobs : job[j].status = "succeeded" => job'[j].status = "succeeded"
    BY <1>1, QuietStep DEF QInv
  <2>2. \A j \in Jobs : OutputsAgree(j)'
    BY <1>1 DEF IInv, RowsInv
  <2> QED BY <2>1, <2>2 DEF SuccessStaysWhole, WholeOnes, OutputsAgree
<1>2. IInv /\ IInv' /\ QInv /\ [Next]_vars => [~database_fails => SuccessStaysWhole]_vars
  BY <1>1
<1> QED BY <1>2, Inductive, QuietInductive, PTL DEF Spec, SuccessIsWhole

-----------------------------------------------------------------------------
(* Export plans: induction and order. *)

\* Induction over the natural numbers, as a fact about a set: the minimal number
\* outside of it would be no successor.
LEMMA NatSetInduction ==
  ASSUME NEW S, 0 \in S, \A n \in Nat : n \in S => n + 1 \in S
  PROVE  \A n \in Nat : n \in S
<1> DEFINE T == Nat \ S
<1> SUFFICES ASSUME T # {} PROVE FALSE
  OBVIOUS
<1>1. PICK m \in T : \A k \in T : ~(<<k, m>> \in OpToRel(<, Nat))
  BY NatLessThanWellFounded, WFMin
<1>2. \A k \in Nat : k < m => k \in S
  BY <1>1 DEF OpToRel
<1>3. m \in Nat /\ m # 0
  OBVIOUS
<1>4. m - 1 \in Nat /\ m - 1 < m
  BY <1>3
<1>5. m - 1 \in S
  BY <1>2, <1>4
<1>6. (m - 1) + 1 \in S
  BY <1>4, <1>5
<1> QED BY <1>3, <1>6

-----------------------------------------------------------------------------
(* Lists in order. *)

Orders(before, S) ==
  /\ \A x \in S : <<x, x>> \notin before
  /\ \A x, y \in S : x = y \/ <<x, y>> \in before \/ <<y, x>> \in before
  /\ \A x, y, z \in S : <<x, y>> \in before /\ <<y, z>> \in before => <<x, z>> \in before
Sorts(s, S, before) ==
  /\ s \in [1 .. Cardinality(S) -> S]
  /\ \A i, j \in DOMAIN s : i < j => <<s[i], s[j]>> \in before

\* A finite set that is not empty has a last element.
LEMMA LastOne ==
  ASSUME NEW S, NEW before, Orders(before, S), IsFiniteSet(S), S # {}
  PROVE  \E m \in S : \A x \in S : x = m \/ <<x, m>> \in before
<1> DEFINE Has(U) == \E m \in U : \A x \in U : x = m \/ <<x, m>> \in before
           P == {n \in Nat : \A U \in SUBSET S : IsFiniteSet(U) /\ Cardinality(U) = n + 1 => Has(U)}
<1>1. 0 \in P
  <2> SUFFICES ASSUME NEW U \in SUBSET S, IsFiniteSet(U), Cardinality(U) = 1 PROVE Has(U)
    OBVIOUS
  <2>1. PICK u : U = {u}
    BY FS_Singleton
  <2> QED BY <2>1
<1>2. ASSUME NEW n \in Nat, n \in P PROVE n + 1 \in P
  <2> SUFFICES ASSUME NEW U \in SUBSET S, IsFiniteSet(U), Cardinality(U) = n + 2 PROVE Has(U)
    OBVIOUS
  <2>1. U # {}
    BY FS_EmptySet
  <2>2. PICK u \in U : TRUE
    BY <2>1
  <2>3. IsFiniteSet(U \ {u}) /\ Cardinality(U \ {u}) = n + 1
    BY FS_RemoveElement
  <2>4. Has(U \ {u})
    BY <1>2, <2>3
  <2>5. PICK m \in U \ {u} : \A x \in U \ {u} : x = m \/ <<x, m>> \in before
    BY <2>4
  <2>6. CASE <<u, m>> \in before
    BY <2>5, <2>6
  <2>7. CASE <<m, u>> \in before
    <3>1. \A x \in U : x = u \/ <<x, u>> \in before
      BY <2>5, <2>7 DEF Orders
    <3> QED BY <3>1
  <2> QED BY <2>5, <2>6, <2>7 DEF Orders
<1> HIDE DEF P
<1>3. \A n \in Nat : n \in P
  BY <1>1, <1>2, NatSetInduction
<1>4. Cardinality(S) \in Nat \ {0}
  BY FS_CardinalityType, FS_EmptySet
<1>5. Cardinality(S) - 1 \in P
  BY <1>3, <1>4
<1>6. Cardinality(S) = (Cardinality(S) - 1) + 1
  BY <1>4
<1> QED BY <1>5, <1>6 DEF P

\* Any finite set can be put in order.
LEMMA SortExists ==
  ASSUME NEW S, NEW before, Orders(before, S), IsFiniteSet(S)
  PROVE  \E s : Sorts(s, S, before)
<1> DEFINE Has(U) == \E s : Sorts(s, U, before)
           P == {n \in Nat : \A U \in SUBSET S : IsFiniteSet(U) /\ Cardinality(U) = n => Has(U)}
<1>1. 0 \in P
  <2> SUFFICES ASSUME NEW U \in SUBSET S, IsFiniteSet(U), Cardinality(U) = 0 PROVE Has(U)
    OBVIOUS
  <2>1. U = {}
    BY FS_EmptySet
  <2> DEFINE s == [i \in 1 .. 0 |-> i]
  <2>2. s \in [1 .. Cardinality(U) -> U] /\ DOMAIN s = {}
    BY <2>1
  <2>3. Sorts(s, U, before)
    BY <2>2 DEF Sorts
  <2> QED BY <2>3
<1>2. ASSUME NEW n \in Nat, n \in P PROVE n + 1 \in P
  <2> SUFFICES ASSUME NEW U \in SUBSET S, IsFiniteSet(U), Cardinality(U) = n + 1 PROVE Has(U)
    OBVIOUS
  <2>1. U # {} /\ Orders(before, U)
    BY FS_EmptySet DEF Orders
  <2>2. PICK m \in U : \A x \in U : x = m \/ <<x, m>> \in before
    BY <2>1, LastOne
  <2>3. IsFiniteSet(U \ {m}) /\ Cardinality(U \ {m}) = n
    <3>1. IsFiniteSet(U \ {m}) /\ Cardinality(U \ {m}) = Cardinality(U) - 1
      BY FS_RemoveElement
    <3> QED BY <3>1
  <2>4. PICK s : Sorts(s, U \ {m}, before)
    BY <1>2, <2>3
  <2>5. s \in [1 .. n -> U \ {m}] /\ \A i, j \in 1 .. n : i < j => <<s[i], s[j]>> \in before
    BY <2>3, <2>4 DEF Sorts
  <2> DEFINE t == [i \in 1 .. n + 1 |-> IF i = n + 1 THEN m ELSE s[i]]
  <2>6. t \in [1 .. n + 1 -> U] /\ DOMAIN t = 1 .. n + 1
    BY <2>5
  <2>7. ASSUME NEW i \in 1 .. n + 1, NEW j \in 1 .. n + 1, i < j PROVE <<t[i], t[j]>> \in before
    <3>1. i \in 1 .. n /\ t[i] = s[i] /\ s[i] \in U /\ s[i] # m
      BY <2>5, <2>7
    <3>2. CASE j = n + 1
      <4>1. t[j] = m
        BY <3>2
      <4> QED BY <2>2, <3>1, <4>1
    <3>3. CASE j # n + 1
      <4>1. j \in 1 .. n /\ t[j] = s[j]
        BY <3>3
      <4> QED BY <2>5, <2>7, <3>1, <4>1
    <3> QED BY <3>2, <3>3
  <2> HIDE DEF t
  <2>8. Sorts(t, U, before)
    BY <2>6, <2>7 DEF Sorts
  <2> QED BY <2>8
<1> HIDE DEF P
<1>3. \A n \in Nat : n \in P
  BY <1>1, <1>2, NatSetInduction
<1>4. Cardinality(S) \in P
  BY <1>3, FS_CardinalityType
<1> QED BY <1>4 DEF P

\* InOrder lists each element of the set once, in order.
LEMMA InOrderLists ==
  ASSUME NEW S, NEW before, Orders(before, S), IsFiniteSet(S)
  PROVE  LET s == InOrder(S, before) IN
         /\ s \in Seq(S) /\ Len(s) = Cardinality(S) /\ DOMAIN s = 1 .. Cardinality(S)
         /\ \A i, j \in 1 .. Cardinality(S) : i < j => <<s[i], s[j]>> \in before
         /\ \A x \in S : \E i \in 1 .. Cardinality(S) : s[i] = x
         /\ Cardinality(S) \in Nat
<1> DEFINE s == InOrder(S, before)
           n == Cardinality(S)
<1>1. \E t \in [1 .. n -> S] : \A i, j \in DOMAIN t : i < j => <<t[i], t[j]>> \in before
  BY SortExists DEF Sorts
<1>2. s \in [1 .. n -> S] /\ \A i, j \in DOMAIN s : i < j => <<s[i], s[j]>> \in before
  BY <1>1 DEF InOrder
<1>3. n \in Nat
  BY FS_CardinalityType
<1> HIDE DEF s, n
<1>4. \A i, j \in 1 .. n : i < j => <<s[i], s[j]>> \in before
  BY <1>2
<1>5. s \in Seq(S) /\ Len(s) = n /\ DOMAIN s = 1 .. n
  BY <1>2, <1>3
<1>6. \A i, j \in 1 .. n : s[i] = s[j] => i = j
  <2> SUFFICES ASSUME NEW i \in 1 .. n, NEW j \in 1 .. n, s[i] = s[j], i # j PROVE FALSE
    OBVIOUS
  <2>1. i < j \/ j < i
    BY <1>3
  <2>2. <<s[i], s[i]>> \in before
    BY <1>4, <2>1
  <2> QED BY <1>2, <2>2 DEF Orders
<1> DEFINE R == {s[i] : i \in 1 .. n}
<1>7. s \in Bijection(1 .. n, R)
  <2>1. s \in [1 .. n -> R]
    BY <1>2
  <2>2. \A r \in R : \E i \in 1 .. n : s[i] = r
    OBVIOUS
  <2> HIDE DEF R
  <2>3. \A i, j \in 1 .. n : s[i] = s[j] => i = j
    BY <1>6
  <2> QED BY <2>1, <2>2, <2>3, Fun_IsBij
<1>8. IsFiniteSet(1 .. n) /\ Cardinality(1 .. n) = n
  BY <1>3, FS_Interval
<1>9. Cardinality(R) = n /\ R \in SUBSET S
  <2>1. ExistsBijection(1 .. n, R)
    BY <1>7 DEF ExistsBijection
  <2> QED BY <1>2, <1>8, <2>1, FS_Bijection
<1>10. R = S
  BY <1>9, FS_Subset DEF n
<1> QED BY <1>3, <1>4, <1>5, <1>10 DEF s, n

\* Smallest and largest of a finite set of integers, and of two.
LEMMA MinMax ==
  ASSUME NEW S \in SUBSET Int, IsFiniteSet(S), S # {}
  PROVE  /\ Min(S) \in S /\ \A x \in S : Min(S) <= x
         /\ Max(S) \in S /\ \A x \in S : x <= Max(S)
<1> DEFINE up == {p \in S \X S : p[1] < p[2]}
           down == {p \in S \X S : p[1] > p[2]}
<1>1. Orders(up, S) /\ Orders(down, S)
  BY DEF Orders
<1>0. \A x, y \in S : (<<x, y>> \in up <=> x < y) /\ (<<x, y>> \in down <=> x > y)
  OBVIOUS
<1> HIDE DEF up, down
<1>2. PICK m \in S : \A x \in S : x = m \/ <<x, m>> \in up
  BY <1>1, LastOne
<1>3. PICK k \in S : \A x \in S : x = k \/ <<x, k>> \in down
  BY <1>1, LastOne
<1>4. ASSUME NEW x \in S PROVE m >= x
  <2>1. x \in Int /\ m \in Int
    OBVIOUS
  <2>2. x = m \/ x < m
    BY <1>0, <1>2
  <2> QED BY <2>1, <2>2
<1>5. ASSUME NEW x \in S PROVE k =< x
  <2>1. x \in Int /\ k \in Int
    OBVIOUS
  <2>2. x = k \/ x > k
    BY <1>0, <1>3
  <2> QED BY <2>1, <2>2
<1>6. Min(S) \in S /\ \A x \in S : Min(S) =< x
  BY <1>5 DEF Min
<1>7. Max(S) \in S /\ \A x \in S : Max(S) >= x
  BY <1>4 DEF Max
<1> QED BY <1>6, <1>7

\* Smallest and largest of two integers.
LEMMA MinMaxOfTwo ==
  ASSUME NEW a \in Int, NEW b \in Int
  PROVE  /\ Min({a, b}) = IF a <= b THEN a ELSE b
         /\ Max({a, b}) = IF a <= b THEN b ELSE a
<1>1. CASE a <= b
  <2>1. \A x \in {a, b} : (\A y \in {a, b} : x >= y) <=> x = b
    BY <1>1
  <2>2. \A x \in {a, b} : (\A y \in {a, b} : x =< y) <=> x = a
    BY <1>1
  <2> QED BY <1>1, <2>1, <2>2 DEF Min, Max
<1>2. CASE ~(a <= b)
  <2>1. \A x \in {a, b} : (\A y \in {a, b} : x >= y) <=> x = a
    BY <1>2
  <2>2. \A x \in {a, b} : (\A y \in {a, b} : x =< y) <=> x = b
    BY <1>2
  <2> QED BY <1>2, <2>1, <2>2 DEF Min, Max
<1> QED BY <1>1, <1>2

-----------------------------------------------------------------------------
(* The media of an output. *)

MediaRow ==
  [sequence : Int, status : {"writing", "closed", "verified", "recovered", "quarantined"},
   start : Int, end : Int]
IntervalRow == [id : Int, started : Int, ended : Int \cup {Open}]
Disjoint(media) ==
  \A m, n \in Sources(media) : m = n \/ m.end <= n.start \/ n.end <= m.start
Segments(media) == media \in SUBSET MediaRow /\ IsFiniteSet(media) /\ Disjoint(media)

\* What Selected lists.
Met(media, begin, end) == {m \in Sources(media) : m.end > begin /\ m.start < end}

Lists(s, media, begin, end) ==
  /\ s \in Seq(Met(media, begin, end)) /\ Len(s) \in Nat /\ DOMAIN s = 1 .. Len(s)
  /\ \A i \in 1 .. Len(s) : /\ s[i] \in Sources(media) /\ s[i].start \in Int /\ s[i].end \in Int
                            /\ s[i].start < s[i].end /\ s[i].end > begin /\ s[i].start < end
  /\ \A i, j \in 1 .. Len(s) : i < j => s[i].end <= s[j].start
  /\ \A m \in Met(media, begin, end) : \E i \in 1 .. Len(s) : s[i] = m

\* The media that meets a stretch of the recording is listed in order, once each.
LEMMA SelectedLists ==
  ASSUME NEW media, Segments(media), NEW begin \in Int, NEW end \in Int
  PROVE  Lists(Selected(Sources(media), begin, end), media, begin, end)
<1> DEFINE S == Met(media, begin, end)
           s == Selected(Sources(media), begin, end)
           before == Earlier(S)
<1>1. /\ S \in SUBSET Sources(media) /\ IsFiniteSet(S)
      /\ \A m \in Sources(media) : m \in media /\ m.start \in Int /\ m.end \in Int
                                   /\ m.sequence \in Int /\ m.start < m.end
  <2>1. Sources(media) \in SUBSET media /\ S \in SUBSET media
    BY DEF Sources, Met
  <2>2. \A m \in Sources(media) : m \in media /\ m.start \in Int /\ m.end \in Int
                                   /\ m.sequence \in Int /\ m.start < m.end
    <3> SUFFICES ASSUME NEW m \in Sources(media)
                 PROVE  m \in media /\ m.start \in Int /\ m.end \in Int
                                   /\ m.sequence \in Int /\ m.start < m.end
      OBVIOUS
    <3>1. m \in MediaRow /\ m.end > m.start
      BY DEF Segments, Sources
    <3> QED BY <2>1, <3>1 DEF MediaRow
  <2>3. IsFiniteSet(S)
    BY <2>1, FS_Subset DEF Segments
  <2>4. S \in SUBSET Sources(media)
    BY DEF Met
  <2> QED BY <2>2, <2>3, <2>4
<1>2. \A x, y \in S : <<x, y>> \in before <=> \/ x.start < y.start
                                              \/ x.start = y.start /\ x.sequence < y.sequence
  BY DEF Earlier
<1>3. \A x, y \in S : x = y \/ x.end <= y.start \/ y.end <= x.start
  BY <1>1 DEF Segments, Disjoint
<1> HIDE DEF S, before
<1>4. \A x, y \in S : <<x, y>> \in before <=> x # y /\ x.end <= y.start
  <2> SUFFICES ASSUME NEW x \in S, NEW y \in S
               PROVE  <<x, y>> \in before <=> x # y /\ x.end <= y.start
    OBVIOUS
  <2>1. /\ x.start \in Int /\ x.end \in Int /\ x.sequence \in Int /\ x.start < x.end
        /\ y.start \in Int /\ y.end \in Int /\ y.sequence \in Int /\ y.start < y.end
    BY <1>1
  <2>2. CASE x = y
    BY <1>2, <2>1, <2>2
  <2>3. CASE x # y /\ x.end <= y.start
    BY <1>2, <2>1, <2>3
  <2>4. CASE x # y /\ y.end <= x.start
    BY <1>2, <2>1, <2>4
  <2> QED BY <1>3, <2>2, <2>3, <2>4
<1>5. Orders(before, S)
  <2>1. \A x \in S : <<x, x>> \notin before
    BY <1>4
  <2>2. \A x, y \in S : x = y \/ <<x, y>> \in before \/ <<y, x>> \in before
    BY <1>3, <1>4
  <2>3. ASSUME NEW x \in S, NEW y \in S, NEW z \in S, <<x, y>> \in before, <<y, z>> \in before
        PROVE  <<x, z>> \in before
    <3>1. x.end <= y.start /\ y.end <= z.start
      BY <1>4, <2>3
    <3>2. /\ x.start \in Int /\ x.end \in Int /\ x.start < x.end
          /\ y.start \in Int /\ y.end \in Int /\ y.start < y.end /\ z.start \in Int
      BY <1>1
    <3>3. x.end <= z.start /\ x.start < z.start
      BY <3>1, <3>2
    <3> QED BY <1>4, <3>2, <3>3
  <2> QED BY <2>1, <2>2, <2>3 DEF Orders
<1>6. s = InOrder(S, before)
  BY DEF Selected, S, before, Met
<1> HIDE DEF s
<1>7. /\ s \in Seq(S) /\ Len(s) = Cardinality(S) /\ DOMAIN s = 1 .. Cardinality(S)
      /\ \A i, j \in 1 .. Cardinality(S) : i < j => <<s[i], s[j]>> \in before
      /\ \A x \in S : \E i \in 1 .. Cardinality(S) : s[i] = x
      /\ Cardinality(S) \in Nat
  BY <1>1, <1>5, <1>6, InOrderLists
<1>8. \A i \in 1 .. Len(s) : s[i] \in S
  BY <1>7
<1>9. \A i, j \in 1 .. Len(s) : i < j => s[i].end <= s[j].start
  BY <1>4, <1>7, <1>8
<1>10. \A m \in S : m.end > begin /\ m.start < end
  BY DEF S, Met
<1> QED BY <1>1, <1>7, <1>8, <1>9, <1>10 DEF s, S, Lists

Tiles(s, begin, end) ==
  /\ Len(s) >= 1 /\ s[1].start <= begin /\ end <= s[Len(s)].end
  /\ \A i \in 1 .. Len(s) - 1 : s[i].end = s[i + 1].start

\* Media that covers a stretch leaves no gap in it, before it or behind it.
LEMMA SelectedTile ==
  ASSUME NEW media, Segments(media), NEW begin \in Int, NEW end \in Int, begin < end,
         \A t \in begin .. end - 1 : \E m \in Sources(media) : m.start <= t /\ t < m.end
  PROVE  Tiles(Selected(Sources(media), begin, end), begin, end)
<1> DEFINE S == Met(media, begin, end)
           s == Selected(Sources(media), begin, end)
<1>0. Lists(s, media, begin, end)
  BY SelectedLists
<1> HIDE DEF s
<1>1. /\ s \in Seq(S) /\ Len(s) \in Nat /\ DOMAIN s = 1 .. Len(s)
      /\ \A i \in 1 .. Len(s) : /\ s[i] \in Sources(media) /\ s[i].start \in Int /\ s[i].end \in Int
                                /\ s[i].start < s[i].end /\ s[i].end > begin /\ s[i].start < end
      /\ \A i, j \in 1 .. Len(s) : i < j => s[i].end <= s[j].start
      /\ \A m \in S : \E i \in 1 .. Len(s) : s[i] = m
  BY <1>0 DEF Lists
<1>2. \A t \in begin .. end - 1 : \E i \in 1 .. Len(s) : s[i].start <= t /\ t < s[i].end
  <2> SUFFICES ASSUME NEW t \in begin .. end - 1
               PROVE  \E i \in 1 .. Len(s) : s[i].start <= t /\ t < s[i].end
    OBVIOUS
  <2>1. PICK m \in Sources(media) : m.start <= t /\ t < m.end
    OBVIOUS
  <2>2. m.start \in Int /\ m.end \in Int
    BY DEF Segments, Sources, MediaRow
  <2>3. m \in S
    BY <2>1, <2>2 DEF Met
  <2> QED BY <1>1, <2>1, <2>3
<1> HIDE DEF S
<1>3. PICK i \in 1 .. Len(s) : s[i].start <= begin /\ begin < s[i].end
  BY <1>2
<1>4. i = 1
  <2> SUFFICES ASSUME 1 < i PROVE FALSE
    OBVIOUS
  <2>1. 1 \in 1 .. Len(s)
    OBVIOUS
  <2>2. s[1].end <= s[i].start
    BY <1>1, <2>1
  <2> QED BY <1>1, <1>3, <2>1, <2>2
<1>5. PICK k \in 1 .. Len(s) : s[k].start <= end - 1 /\ end - 1 < s[k].end
  BY <1>2
<1>6. k = Len(s)
  <2>0. k <= Len(s) /\ k \in Int /\ Len(s) \in Int
    BY <1>1
  <2> SUFFICES ASSUME k < Len(s) PROVE FALSE
    BY <2>0
  <2>1. Len(s) \in 1 .. Len(s)
    BY <1>1
  <2>2. s[k].end <= s[Len(s)].start
    BY <1>1, <2>1
  <2> QED BY <1>1, <1>5, <2>1, <2>2
<1>7. end <= s[Len(s)].end
  <2>1. s[k].end \in Int
    BY <1>1
  <2> QED BY <1>5, <1>6, <2>1
<1>8. ASSUME NEW n \in 1 .. Len(s) - 1 PROVE s[n].end = s[n + 1].start
  <2>1. n \in 1 .. Len(s) /\ n + 1 \in 1 .. Len(s) /\ n < n + 1
    BY <1>1
  <2>2. /\ s[n].start \in Int /\ s[n].end \in Int /\ s[n].start < s[n].end /\ s[n].end > begin
        /\ s[n + 1].start \in Int /\ s[n + 1].end \in Int /\ s[n + 1].start < s[n + 1].end
        /\ s[n + 1].start < end /\ s[n].end <= s[n + 1].start
    BY <1>1, <2>1
  <2>3. s[n].end \in begin .. end - 1
    BY <2>2
  <2>4. PICK j \in 1 .. Len(s) : s[j].start <= s[n].end /\ s[n].end < s[j].end
    BY <1>2, <2>3
  <2>5. s[j].start \in Int /\ s[j].end \in Int
    BY <1>1
  <2>6. CASE j = n
    BY <2>2, <2>4, <2>6
  <2>7. CASE j < n
    <3>1. s[j].end <= s[n].start
      BY <1>1, <2>1, <2>7
    <3> QED BY <2>2, <2>4, <2>5, <3>1
  <2>8. CASE j = n + 1
    BY <2>2, <2>4, <2>8
  <2>9. CASE n + 1 < j
    <3>1. s[n + 1].end <= s[j].start
      BY <1>1, <2>1, <2>9
    <3> QED BY <2>2, <2>4, <2>5, <3>1
  <2> QED BY <2>6, <2>7, <2>8, <2>9
<1> QED BY <1>1, <1>3, <1>4, <1>7, <1>8 DEF s, Tiles

-----------------------------------------------------------------------------
(* What an output plays. *)

\* Sequences are joined one after the other (FlattenSeq).
Joining(f, seqs) == f = [i \in 1 .. Len(seqs) |-> IF i = 1 THEN seqs[i] ELSE f[i - 1] \o seqs[i]]

\* What FlattenSeq joins is defined, sequence by sequence.
LEMMA FlattenDefined ==
  ASSUME NEW seqs, Len(seqs) \in Nat \ {0}
  PROVE  \E f : Joining(f, seqs) /\ FlattenSeq(seqs) = f[Len(seqs)]
<1> DEFINE Good(k, g) == g = [i \in 1 .. k |-> IF i = 1 THEN seqs[i] ELSE g[i - 1] \o seqs[i]]
           Upto == {k \in Nat : \E g : Good(k, g)}
<1>1. 0 \in Upto
  <2>1. Good(0, [i \in 1 .. 0 |-> i])
    OBVIOUS
  <2> QED BY <2>1
<1>2. ASSUME NEW k \in Nat, k \in Upto PROVE k + 1 \in Upto
  <2>1. PICK g : Good(k, g)
    BY <1>2
  <2> DEFINE last == IF k = 0 THEN seqs[1] ELSE g[k] \o seqs[k + 1]
             h == [i \in 1 .. k + 1 |-> IF i = k + 1 THEN last ELSE g[i]]
  <2>2. Good(k + 1, h)
    <3>1. \A i \in 1 .. k : g[i] = IF i = 1 THEN seqs[i] ELSE g[i - 1] \o seqs[i]
      BY <2>1
    <3>2. ASSUME NEW i \in 1 .. k + 1 PROVE h[i] = IF i = 1 THEN seqs[i] ELSE h[i - 1] \o seqs[i]
      <4>1. CASE i = k + 1 /\ k = 0
        BY <4>1
      <4>2. CASE i = k + 1 /\ k # 0
        <5>1. k \in 1 .. k + 1 /\ k # k + 1 /\ i - 1 = k /\ i # 1
          BY <4>2
        <5>2. h[k] = g[k]
          BY <5>1
        <5> QED BY <4>2, <5>1, <5>2
      <4>3. CASE i \in 1 .. k
        <5>1. h[i] = g[i]
          BY <4>3
        <5>2. i # 1 => i - 1 \in 1 .. k + 1 /\ i - 1 # k + 1 /\ h[i - 1] = g[i - 1]
          BY <4>3
        <5> QED BY <3>1, <4>3, <5>1, <5>2
      <4> QED BY <4>1, <4>2, <4>3
    <3>3. h = [i \in 1 .. k + 1 |-> h[i]]
      OBVIOUS
    <3> HIDE DEF h
    <3> QED BY <3>2, <3>3
  <2> HIDE DEF Good
  <2> QED BY <2>2
<1> HIDE DEF Upto
<1>3. Len(seqs) \in Upto
  BY <1>1, <1>2, NatSetInduction
<1>4. \E g : Joining(g, seqs)
  BY <1>3 DEF Upto, Joining
<1>5. Joining(CHOOSE g : Joining(g, seqs), seqs)
  BY <1>4
<1>6. FlattenSeq(seqs) = (CHOOSE g : Joining(g, seqs))[Len(seqs)]
  BY DEF FlattenSeq, Joining
<1> QED BY <1>5, <1>6

\* The milliseconds from one to another, one by one.
Run(from, to) == [k \in 1 .. to - from |-> from + k - 1]

\* Two runs of milliseconds that meet are one run.
LEMMA RunsJoin ==
  ASSUME NEW a \in Int, NEW b \in Int, NEW c \in Int, a <= b, b <= c
  PROVE  Run(a, b) \o Run(b, c) = Run(a, c)
<1>1. Run(a, b) \in Seq(Int) /\ Len(Run(a, b)) = b - a /\ \A k \in 1 .. b - a : Run(a, b)[k] = a + k - 1
  BY DEF Run
<1>2. Run(b, c) \in Seq(Int) /\ Len(Run(b, c)) = c - b /\ \A k \in 1 .. c - b : Run(b, c)[k] = b + k - 1
  BY DEF Run
<1>3. Run(a, c) \in Seq(Int) /\ Len(Run(a, c)) = c - a /\ \A k \in 1 .. c - a : Run(a, c)[k] = a + k - 1
  BY DEF Run
<1> DEFINE p == Run(a, b)
           q == Run(b, c)
           j == p \o q
<1> HIDE DEF p, q
<1>8. p \in Seq(Int) /\ q \in Seq(Int) /\ Len(p) = b - a /\ Len(q) = c - b
  BY <1>1, <1>2 DEF p, q
<1>9. /\ j \in Seq(Int) /\ Len(j) = Len(p) + Len(q)
      /\ \A k \in 1 .. Len(p) + Len(q) : j[k] = IF k <= Len(p) THEN p[k] ELSE q[k - Len(p)]
  BY <1>8, ConcatProperties
<1>4. /\ j \in Seq(Int) /\ Len(j) = (b - a) + (c - b)
      /\ \A k \in 1 .. (b - a) + (c - b) : j[k] = IF k <= b - a THEN Run(a, b)[k] ELSE Run(b, c)[k - (b - a)]
  BY <1>8, <1>9 DEF p, q
<1> HIDE DEF j
<1>5. Len(j) = Len(Run(a, c))
  BY <1>3, <1>4
<1>6. ASSUME NEW k \in 1 .. Len(j) PROVE j[k] = Run(a, c)[k]
  <2>1. k \in 1 .. c - a /\ Run(a, c)[k] = a + k - 1 /\ k \in 1 .. (b - a) + (c - b)
    BY <1>3, <1>5
  <2>2. CASE k <= b - a
    <3>1. k \in 1 .. b - a
      BY <2>1, <2>2
    <3> QED BY <1>1, <1>4, <2>1, <2>2, <3>1
  <2>3. CASE ~(k <= b - a)
    <3>1. k - (b - a) \in 1 .. c - b
      BY <2>1, <2>3
    <3>2. j[k] = b + (k - (b - a)) - 1
      BY <1>2, <1>4, <2>1, <2>3, <3>1
    <3> QED BY <2>1, <3>2
  <2> QED BY <2>2, <2>3
<1>7. j = Run(a, c)
  BY <1>3, <1>4, <1>5, <1>6, SeqEqual
<1> QED BY <1>7 DEF j, p, q

\* Media without a gap, end to end.
LEMMA SourcesJoin ==
  ASSUME NEW s, Len(s) \in Nat \ {0}, DOMAIN s = 1 .. Len(s),
         \A i \in 1 .. Len(s) : s[i].start \in Int /\ s[i].end \in Int /\ s[i].start < s[i].end,
         \A i \in 1 .. Len(s) - 1 : s[i].end = s[i + 1].start
  PROVE  /\ FlattenSeq([i \in DOMAIN s |-> Run(s[i].start, s[i].end)]) = Run(s[1].start, s[Len(s)].end)
         /\ s[1].start < s[Len(s)].end
<1> DEFINE seqs == [i \in DOMAIN s |-> Run(s[i].start, s[i].end)]
           n == Len(s)
<1>1. Len(seqs) = n /\ \A i \in 1 .. n : seqs[i] = Run(s[i].start, s[i].end)
  OBVIOUS
<1> HIDE DEF seqs
<1>2. PICK f : Joining(f, seqs) /\ FlattenSeq(seqs) = f[n]
  BY <1>1, FlattenDefined
<1>3. \A i \in 1 .. n : f[i] = IF i = 1 THEN seqs[i] ELSE f[i - 1] \o seqs[i]
  BY <1>1, <1>2 DEF Joining
<1> DEFINE P == {k \in Nat : k + 1 \in 1 .. n => /\ f[k + 1] = Run(s[1].start, s[k + 1].end)
                                               /\ s[1].start < s[k + 1].end}
<1>4. 0 \in P
  BY <1>1, <1>3
<1>5. ASSUME NEW k \in Nat, k \in P PROVE k + 1 \in P
  <2> SUFFICES ASSUME (k + 1) + 1 \in 1 .. n
               PROVE  /\ f[(k + 1) + 1] = Run(s[1].start, s[(k + 1) + 1].end)
                      /\ s[1].start < s[(k + 1) + 1].end
    OBVIOUS
  <2>1. k + 1 \in 1 .. n /\ k + 1 \in 1 .. n - 1 /\ 1 \in 1 .. n /\ (k + 1) + 1 # 1
        /\ ((k + 1) + 1) - 1 = k + 1
    OBVIOUS
  <2>2. f[k + 1] = Run(s[1].start, s[k + 1].end) /\ s[1].start < s[k + 1].end
    BY <1>5, <2>1
  <2>3. s[k + 1].end = s[(k + 1) + 1].start
    BY <2>1
  <2>4. f[(k + 1) + 1] = f[k + 1] \o Run(s[(k + 1) + 1].start, s[(k + 1) + 1].end)
    BY <1>1, <1>3, <2>1
  <2>5. /\ s[1].start \in Int /\ s[k + 1].end \in Int /\ s[(k + 1) + 1].end \in Int
        /\ s[(k + 1) + 1].start < s[(k + 1) + 1].end
    BY <2>1
  <2> HIDE DEF P
  <2> DEFINE u == s[1].start
             v == s[k + 1].end
             w == s[(k + 1) + 1].end
  <2>6. u \in Int /\ v \in Int /\ w \in Int /\ u < v /\ v < w
    BY <2>2, <2>3, <2>5
  <2>7. f[(k + 1) + 1] = Run(u, v) \o Run(v, w)
    BY <2>2, <2>3, <2>4
  <2> HIDE DEF u, v, w
  <2>8. u <= v /\ v <= w /\ u < w
    BY <2>6
  <2>9. f[(k + 1) + 1] = Run(u, w)
    BY <2>6, <2>7, <2>8, RunsJoin
  <2> QED BY <2>8, <2>9 DEF u, w
<1> HIDE DEF P
<1>6. n - 1 \in P
  <2>1. \A k \in Nat : k \in P
    BY <1>4, <1>5, NatSetInduction
  <2>2. n - 1 \in Nat
    BY <1>1
  <2> QED BY <2>1, <2>2
<1>7. f[n] = Run(s[1].start, s[n].end) /\ s[1].start < s[n].end
  BY <1>6 DEF P
<1> QED BY <1>2, <1>7 DEF seqs

\* How an output cuts the media it reads.
CutAs(o, media, begin, end) ==
  /\ o.sources = Selected(Sources(media), begin, end)
  /\ o.trim = Max({0, begin - Head(o.sources).start}) /\ o.duration = end - begin

\* An output of the plan cuts its media so.
LEMMA OutputIsCut ==
  ASSUME NEW session, NEW media, NEW i
  PROVE  /\ Output(session, Sources(media), i).interval = i.id
         /\ CutAs(Output(session, Sources(media), i), media,
                 Begin(session, Sources(media), i), End(session, Sources(media), i))
BY DEF Output, CutAs

\* Cut as an output of ExportPlanner is, media without a gap plays what was asked for.
LEMMA CutPlays ==
  ASSUME NEW media, Segments(media), NEW begin \in Int, NEW end \in Int, begin < end,
         \A t \in begin .. end - 1 : \E m \in Sources(media) : m.start <= t /\ t < m.end,
         NEW o, CutAs(o, media, begin, end)
  PROVE  Played(o) = begin .. end - 1
<1> DEFINE s == o.sources
<1>0. /\ o.sources = Selected(Sources(media), begin, end)
      /\ o.trim = Max({0, begin - Head(o.sources).start}) /\ o.duration = end - begin
  BY DEF CutAs
<1>1. Lists(s, media, begin, end)
  BY <1>0, SelectedLists
<1>2. /\ Len(s) >= 1 /\ s[1].start <= begin /\ end <= s[Len(s)].end
      /\ \A i \in 1 .. Len(s) - 1 : s[i].end = s[i + 1].start
  <2>1. Tiles(Selected(Sources(media), begin, end), begin, end)
    BY SelectedTile
  <2> QED BY <1>0, <2>1 DEF Tiles
<1>3. /\ s \in Seq(Met(media, begin, end)) /\ Len(s) \in Nat \ {0} /\ DOMAIN s = 1 .. Len(s)
      /\ \A i \in 1 .. Len(s) : s[i].start \in Int /\ s[i].end \in Int /\ s[i].start < s[i].end
  BY <1>1, <1>2 DEF Lists
<1> DEFINE joined == FlattenSeq([k \in DOMAIN s |-> Run(s[k].start, s[k].end)])
           a == s[1].start
           z == s[Len(s)].end
<1>4. joined = Run(a, z) /\ a < z
  BY <1>2, <1>3, SourcesJoin
<1>5. a \in Int /\ z \in Int /\ a <= begin /\ end <= z
  BY <1>2, <1>3
<1>6. Head(s) = s[1]
  BY <1>3
<1>7. o.trim = begin - a
  <2>1. o.trim = Max({0, begin - a})
    BY <1>0, <1>6
  <2> DEFINE d == begin - a
  <2>2. d \in Int /\ 0 <= d /\ o.trim = Max({0, d})
    BY <1>5, <2>1
  <2> DEFINE none == 0
  <2>4. none \in Int /\ none <= d /\ o.trim = Max({none, d})
    BY <2>2
  <2> HIDE DEF d, none
  <2>5. Max({none, d}) = d
    BY <2>2, <2>4, MinMaxOfTwo
  <2>3. o.trim = d
    BY <2>4, <2>5
  <2> QED BY <2>3 DEF d
<1>8. Played(o) = ToSet(SubSeq(joined, o.trim + 1, Min({o.trim + o.duration, Len(joined)})))
  BY DEF Played, Run
<1> HIDE DEF s, joined, a, z
<1>9. /\ joined \in Seq(Int) /\ Len(joined) = z - a /\ DOMAIN joined = 1 .. z - a
      /\ \A k \in 1 .. z - a : joined[k] = a + k - 1
  <2>1. joined = [k \in 1 .. z - a |-> a + k - 1]
    BY <1>4 DEF Run
  <2>2. z - a \in Nat
    BY <1>4, <1>5
  <2> QED BY <1>5, <2>1, <2>2
<1>10. Min({o.trim + o.duration, Len(joined)}) = end - a
  <2>1. o.trim + o.duration = end - a /\ end - a <= Len(joined) /\ Len(joined) \in Int
    BY <1>0, <1>5, <1>7, <1>9
  <2> DEFINE x == o.trim + o.duration
             y == Len(joined)
  <2>2. x \in Int /\ y \in Int /\ x <= y /\ x = end - a
    BY <1>5, <2>1
  <2> HIDE DEF x, y
  <2>3. Min({x, y}) = end - a
    BY <2>2, MinMaxOfTwo
  <2> QED BY <2>3 DEF x, y
<1> DEFINE cut == SubSeq(joined, begin - a + 1, end - a)
<1>11. /\ cut \in Seq(Int) /\ Len(cut) = end - begin
       /\ \A i \in 1 .. end - begin : cut[i] = begin + i - 1
  <2>1. \A i \in begin - a + 1 .. end - a : i \in 1 .. z - a
    BY <1>5
  <2>2. \A i \in begin - a + 1 .. end - a : joined[i] \in Int
    BY <1>5, <1>9, <2>1
  <2>3. /\ cut \in Seq(Int)
        /\ Len(cut) = IF begin - a + 1 <= end - a THEN (end - a) - (begin - a + 1) + 1 ELSE 0
        /\ \A i \in 1 .. (end - a) - (begin - a + 1) + 1 : cut[i] = joined[(begin - a + 1) + i - 1]
    BY <1>5, <2>2, SubSeqProperties
  <2>4. ASSUME NEW i \in 1 .. end - begin PROVE cut[i] = begin + i - 1
    <3>1. i \in 1 .. (end - a) - (begin - a + 1) + 1
      BY <1>5
    <3>2. (begin - a + 1) + i - 1 \in begin - a + 1 .. end - a
      BY <1>5
    <3>3. cut[i] = joined[(begin - a + 1) + i - 1]
      BY <2>3, <3>1
    <3>4. joined[(begin - a + 1) + i - 1] = a + ((begin - a + 1) + i - 1) - 1
      BY <1>9, <2>1, <3>2
    <3> QED BY <1>5, <3>3, <3>4
  <2>5. Len(cut) = end - begin
    BY <1>5, <2>3
  <2> QED BY <2>3, <2>4, <2>5
<1> HIDE DEF cut
<1>12. ToSet(cut) = begin .. end - 1
  <2>1. DOMAIN cut = 1 .. end - begin
    BY <1>11
  <2>2. \A t \in begin .. end - 1 : t - begin + 1 \in 1 .. end - begin /\ cut[t - begin + 1] = t
    BY <1>11
  <2>3. \A i \in 1 .. end - begin : cut[i] \in begin .. end - 1
    BY <1>11
  <2> QED BY <2>1, <2>2, <2>3 DEF ToSet
<1>13. o.trim + 1 = begin - a + 1
  BY <1>7
<1> QED BY <1>8, <1>10, <1>12, <1>13 DEF cut

-----------------------------------------------------------------------------
(* Plans. *)

\* What there is to play of interval i, and the part of it the media spans.
Covered(session, media, i) ==
  {t \in UNION {m.start .. m.end - 1 : m \in Sources(media)} :
      session.started + t \in i.started .. i.ended - 1}

\* What the media of an interval covers lies between where its export begins and ends.
LEMMA CoveredWithin ==
  ASSUME NEW media, Segments(media), Sources(media) # {}, NEW session, session.started \in Int,
         NEW i \in IntervalRow, i.ended # Open
  PROVE  /\ Begin(session, Sources(media), i) \in Int /\ End(session, Sources(media), i) \in Int
         /\ Covered(session, media, i) =
              {t \in Begin(session, Sources(media), i) .. End(session, Sources(media), i) - 1 :
                  \E m \in Sources(media) : m.start <= t /\ t < m.end}
<1> DEFINE S == Sources(media)
           starts == {m.start : m \in S}
           ends == {m.end : m \in S}
<1>1. S \in SUBSET media /\ IsFiniteSet(S) /\ \A m \in S : m.start \in Int /\ m.end \in Int
  <2>1. S \in SUBSET media
    BY DEF Sources
  <2> QED BY <2>1, FS_Subset DEF Segments, MediaRow
<1> HIDE DEF S
<1>2. IsFiniteSet(starts) /\ starts \in SUBSET Int /\ starts # {}
  <2> DEFINE f == [m \in S |-> m.start]
  <2>1. f \in Surjection(S, starts)
    BY Fun_IsSurj
  <2> QED BY <1>1, <2>1, FS_Surjection DEF S
<1>3. IsFiniteSet(ends) /\ ends \in SUBSET Int /\ ends # {}
  <2> DEFINE f == [m \in S |-> m.end]
  <2>1. f \in Surjection(S, ends)
    BY Fun_IsSurj
  <2> QED BY <1>1, <2>1, FS_Surjection DEF S
<1> DEFINE first == MediaStart(S)
           last == MediaEnd(S)
<1>4. first \in Int /\ \A m \in S : first <= m.start
  <2>1. first \in starts /\ \A x \in starts : first <= x
    BY <1>2, MinMax DEF MediaStart
  <2> QED BY <1>2, <2>1
<1>5. last \in Int /\ \A m \in S : m.end <= last
  <2>1. last \in ends /\ \A x \in ends : x <= last
    BY <1>3, MinMax DEF MediaEnd
  <2> QED BY <1>3, <2>1
<1> HIDE DEF first, last, starts, ends
<1> DEFINE p == i.started - session.started
           q == i.ended - session.started
           b == Begin(session, S, i)
           e == End(session, S, i)
<1>6. i.started \in Int /\ i.ended \in Int /\ p \in Int /\ q \in Int
  BY DEF IntervalRow
<1>7. b = Max({first, p}) /\ e = Min({last, q})
  BY DEF Begin, End, first, last
<1>8. \A t \in Int : session.started + t \in i.started .. i.ended - 1 <=> p <= t /\ t < q
  BY <1>6
<1> HIDE DEF p, q, b, e
<1>9. b \in Int /\ \A t \in Int : b <= t <=> first <= t /\ p <= t
  <2>1. /\ Max({first, p}) \in Int
        /\ \A t \in Int : Max({first, p}) <= t <=> first <= t /\ p <= t
    BY <1>4, <1>6, MinMaxOfTwo
  <2> QED BY <1>7, <2>1
<1>10. e \in Int /\ \A t \in Int : t < e <=> t < last /\ t < q
  BY <1>5, <1>6, <1>7, MinMaxOfTwo
<1>11. ASSUME NEW t
       PROVE  t \in Covered(session, media, i)
                <=> t \in b .. e - 1 /\ \E m \in S : m.start <= t /\ t < m.end
  <2>1. t \in Covered(session, media, i)
          <=> /\ \E m \in S : t \in m.start .. m.end - 1
              /\ session.started + t \in i.started .. i.ended - 1
    BY DEF Covered, S
  <2>2. \A m \in S : t \in m.start .. m.end - 1 <=> t \in Int /\ m.start <= t /\ t < m.end
    BY <1>1
  <2>3. CASE t \in Int
    <3>1. t \in b .. e - 1 <=> b <= t /\ t < e
      BY <1>9, <1>10, <2>3
    <3>2. ASSUME NEW m \in S, m.start <= t, t < m.end PROVE first <= t /\ t < last
      <4>1. m.start \in Int /\ m.end \in Int /\ first <= m.start /\ m.end <= last
        BY <1>1, <1>4, <1>5
      <4> QED BY <1>4, <1>5, <2>3, <3>2, <4>1
    <3> QED BY <1>8, <1>9, <1>10, <2>1, <2>2, <2>3, <3>1, <3>2
  <2>4. CASE t \notin Int
    BY <1>9, <1>10, <2>1, <2>2, <2>4
  <2> QED BY <2>3, <2>4
<1>12. Covered(session, media, i) = {t \in b .. e - 1 : \E m \in S : m.start <= t /\ t < m.end}
  BY <1>11
<1> QED BY <1>9, <1>10, <1>12 DEF b, e, S

\* The numbers of the intervals that are exported, and how they are listed.
Wanted(session, media, intervals) ==
  {n \in DOMAIN intervals :
     LET i == intervals[n] IN
     /\ Exported(session, Sources(media), i)
     /\ Selected(Sources(media), Begin(session, Sources(media), i), End(session, Sources(media), i)) # <<>>}
Less(S) == {p \in S \X S : p[1] < p[2]}
Picks(session, media, intervals) ==
  LET C == Wanted(session, media, intervals) IN InOrder(C, Less(C))

\* A plan has one output for each interval that is exported, in their order.
LEMMA PlanPicks ==
  ASSUME NEW session, NEW media, NEW intervals \in Seq(IntervalRow)
  PROVE  LET C == Wanted(session, media, intervals)
             x == Picks(session, media, intervals)
         IN  /\ \A plan \in build(session, media, intervals) :
                   /\ Sources(media) # {} /\ DOMAIN plan = DOMAIN x
                   /\ \A k \in DOMAIN x : plan[k] = Output(session, Sources(media), intervals[x[k]])
             /\ \A k \in DOMAIN x : x[k] \in C
             /\ \A n \in C : \E k \in DOMAIN x : x[k] = n
             /\ \A k, l \in DOMAIN x : x[k] = x[l] => k = l
<1> DEFINE C == Wanted(session, media, intervals)
           x == Picks(session, media, intervals)
           before == Less(C)
<1>1. C \in SUBSET (1 .. Len(intervals)) /\ IsFiniteSet(C)
  <2>1. C \in SUBSET (1 .. Len(intervals))
    BY DEF Wanted
  <2>2. IsFiniteSet(1 .. Len(intervals))
    BY FS_Interval
  <2> QED BY <2>1, <2>2, FS_Subset
<1> HIDE DEF C
<1>2. \A a, b \in C : <<a, b>> \in before <=> a < b
  BY DEF Less
<1> HIDE DEF before
<1>3. \A a \in C : a \in Int
  BY <1>1
<1>4. Orders(before, C)
  BY <1>2, <1>3 DEF Orders
<1>5. x = InOrder(C, before)
  BY DEF Picks, C, before
<1> HIDE DEF x
<1> DEFINE N == Cardinality(C)
<1>6. /\ x \in Seq(C) /\ Len(x) = N /\ DOMAIN x = 1 .. N
      /\ \A k, l \in 1 .. N : k < l => <<x[k], x[l]>> \in before
      /\ \A n \in C : \E k \in 1 .. N : x[k] = n
      /\ N \in Nat
  BY <1>1, <1>4, <1>5, InOrderLists
<1> HIDE DEF N
<1>7. \A k \in DOMAIN x : x[k] \in C
  BY <1>6
<1>8. \A k, l \in DOMAIN x : x[k] = x[l] => k = l
  <2> SUFFICES ASSUME NEW k \in 1 .. N, NEW l \in 1 .. N, x[k] = x[l], k # l PROVE FALSE
    BY <1>6
  <2>1. k < l \/ l < k
    BY <1>6
  <2>2. x[k] < x[k]
    BY <1>2, <1>6, <1>7, <2>1
  <2> QED BY <1>3, <1>6, <1>7, <2>2
<1>9. ASSUME NEW plan \in build(session, media, intervals)
      PROVE  /\ Sources(media) # {} /\ DOMAIN plan = DOMAIN x
             /\ \A k \in DOMAIN x : plan[k] = Output(session, Sources(media), intervals[x[k]])
  <2> DEFINE chosen == Chosen(session, Sources(media), intervals)
  <2>1. chosen = [k \in DOMAIN x |-> intervals[x[k]]]
    BY DEF Chosen, x, Picks, Wanted, Less
  <2> HIDE DEF chosen
  <2>2. /\ Sources(media) # {}
        /\ plan = [k \in DOMAIN chosen |-> Output(session, Sources(media), chosen[k])]
    BY DEF build, chosen
  <2> QED BY <2>1, <2>2
<1>10. \A n \in C : \E k \in DOMAIN x : x[k] = n
  BY <1>6
<1> QED BY <1>7, <1>8, <1>9, <1>10 DEF x, C

\* An export plays the media of its own interval, all of it and nothing of its
\* neighbours', whatever the segments and however many intervals, as long as no
\* two segments overlap (ExportPlanner.build).
THEOREM EveryPlan ==
  ASSUME NEW session, session.started \in Int, NEW media, Segments(media),
         NEW intervals \in Seq(IntervalRow),
         \A n, m \in DOMAIN intervals : intervals[n].id = intervals[m].id => n = m
  PROVE  ExportsOwnInterval(session, media, intervals)
<1> DEFINE S == Sources(media)
           C == Wanted(session, media, intervals)
           x == Picks(session, media, intervals)
<1> SUFFICES ASSUME NEW plan \in build(session, media, intervals), NEW n \in DOMAIN intervals
    PROVE  LET i == intervals[n]
               exports == {k \in DOMAIN plan : plan[k].interval = i.id}
           IN  /\ i.ended = Open => exports = {}
               /\ \A k \in exports : plan[k].duration = Cardinality(Covered(session, media, i))
                                      => Played(plan[k]) = Covered(session, media, i)
               /\ i.ended # Open /\ Cardinality(Covered(session, media, i)) > Sliver
                    => Cardinality(exports) = 1
  BY DEF ExportsOwnInterval, Covered
<1> DEFINE i == intervals[n]
           exports == {k \in DOMAIN plan : plan[k].interval = i.id}
           b == Begin(session, S, i)
           e == End(session, S, i)
           covered == Covered(session, media, i)
<1>1. /\ S # {} /\ DOMAIN plan = DOMAIN x
      /\ \A k \in DOMAIN x : plan[k] = Output(session, S, intervals[x[k]])
      /\ \A k \in DOMAIN x : x[k] \in C
      /\ \A m \in C : \E k \in DOMAIN x : x[k] = m
      /\ \A k, l \in DOMAIN x : x[k] = x[l] => k = l
  BY PlanPicks
<1> HIDE DEF x
<1>2. i \in IntervalRow
  OBVIOUS
<1>3. \A m \in C : m \in DOMAIN intervals
  BY DEF Wanted
<1>4. n \in C <=> Exported(session, S, i) /\ Selected(S, b, e) # <<>>
  BY DEF Wanted
<1> HIDE DEF C
<1>5. \A k \in DOMAIN plan : k \in exports <=> x[k] = n
  <2> SUFFICES ASSUME NEW k \in DOMAIN plan PROVE plan[k].interval = i.id <=> x[k] = n
    OBVIOUS
  <2>1. plan[k].interval = intervals[x[k]].id
    BY <1>1, OutputIsCut
  <2>2. x[k] \in DOMAIN intervals
    BY <1>1, <1>3
  <2> QED BY <2>1, <2>2
<1>6. ASSUME i.ended = Open PROVE exports = {}
  BY <1>1, <1>4, <1>5, <1>6 DEF Exported
<1>7. ASSUME i.ended # Open
      PROVE  /\ b \in Int /\ e \in Int /\ covered = {t \in b .. e - 1 : \E m \in S : m.start <= t /\ t < m.end}
             /\ IsFiniteSet(b .. e - 1) /\ Cardinality(b .. e - 1) = (IF b > e - 1 THEN 0 ELSE (e - 1) - b + 1)
             /\ IsFiniteSet(covered) /\ Cardinality(covered) <= Cardinality(b .. e - 1)
             /\ Cardinality(covered) = Cardinality(b .. e - 1) => covered = b .. e - 1
  <2>1. b \in Int /\ e \in Int /\ covered = {t \in b .. e - 1 : \E m \in S : m.start <= t /\ t < m.end}
    BY <1>1, <1>2, <1>7, CoveredWithin
  <2> HIDE DEF b, e, covered, i
  <2>2. IsFiniteSet(b .. e - 1) /\ Cardinality(b .. e - 1) = (IF b > e - 1 THEN 0 ELSE (e - 1) - b + 1)
    BY <2>1, FS_Interval
  <2>3. covered \in SUBSET (b .. e - 1)
    BY <2>1
  <2> QED BY <2>1, <2>2, <2>3, FS_Subset
<1>8. ASSUME NEW k \in exports, plan[k].duration = Cardinality(covered) PROVE Played(plan[k]) = covered
  <2>1. x[k] = n /\ k \in DOMAIN x /\ n \in C
    BY <1>1, <1>5
  <2>2. i.ended # Open /\ e - b > Sliver
    BY <1>4, <2>1 DEF Exported
  <2> DEFINE o == plan[k]
  <2>3. CutAs(o, media, b, e) /\ o.duration = e - b
    <3>1. o = Output(session, S, i)
      BY <1>1, <2>1
    <3>2. CutAs(o, media, b, e)
      BY <3>1, OutputIsCut
    <3> QED BY <3>2 DEF CutAs
  <2> HIDE DEF o, b, e, i
  <2>4. b \in Int /\ e \in Int /\ b < e
    BY <1>7, <2>2 DEF Sliver
  <2>5. covered = b .. e - 1
    BY <1>7, <1>8, <2>2, <2>3, <2>4 DEF o
  <2>6. \A t \in b .. e - 1 : \E m \in S : m.start <= t /\ t < m.end
    BY <1>7, <2>2, <2>5
  <2>7. Played(o) = b .. e - 1
    BY <2>3, <2>4, <2>6, CutPlays
  <2> QED BY <2>5, <2>7 DEF o
<1>9. ASSUME i.ended # Open, Cardinality(covered) > Sliver PROVE Cardinality(exports) = 1
  <2>1. Cardinality(covered) \in Nat /\ Cardinality(b .. e - 1) \in Nat
    BY <1>7, <1>9, FS_CardinalityType
  <2>2. e - b > Sliver
    <3> HIDE DEF b, e, covered, i
    <3> QED BY <1>7, <1>9, <2>1 DEF Sliver
  <2>3. covered # {}
    <3> HIDE DEF covered
    <3>1. Cardinality({}) = 0
      BY FS_EmptySet
    <3>2. ASSUME covered = {} PROVE FALSE
      <4>1. Cardinality(covered) = 0
        BY <3>1, <3>2
      <4> QED BY <1>9, <4>1 DEF Sliver
    <3> QED BY <3>2
  <2>4. Selected(S, b, e) # <<>>
    <3>1. PICK t \in b .. e - 1 : \E m \in S : m.start <= t /\ t < m.end
      BY <1>7, <1>9, <2>3
    <3>2. PICK m \in S : m.start <= t /\ t < m.end
      BY <3>1
    <3>3. m.start \in Int /\ m.end \in Int
      BY DEF Segments, Sources, MediaRow
    <3>4. b \in Int /\ e \in Int
      BY <1>7, <1>9
    <3> HIDE DEF b, e
    <3>5. m \in Met(media, b, e)
      BY <3>2, <3>3, <3>4 DEF Met
    <3> DEFINE s == Selected(S, b, e)
    <3>6. Lists(s, media, b, e)
      BY <3>4, SelectedLists
    <3> HIDE DEF s
    <3>7. \E k \in 1 .. Len(s) : s[k] = m
      BY <3>5, <3>6 DEF Lists
    <3>8. s # <<>>
      BY <3>7
    <3> QED BY <3>8 DEF s
  <2>5. n \in C
    BY <1>4, <1>9, <2>2, <2>4 DEF Exported
  <2>6. PICK k \in DOMAIN x : x[k] = n
    BY <1>1, <2>5
  <2>7. exports = {k}
    BY <1>1, <1>5, <2>6
  <2> HIDE DEF exports
  <2> QED BY <2>7, FS_Singleton
<1> QED BY <1>6, <1>8, <1>9

\* A number put before a sequence of numbers.
LEMMA Prepended ==
  ASSUME NEW t \in Seq(Int), NEW a \in Int
  PROVE  \A k \in 1 .. Len(t) + 1 : (<<a>> \o t)[k] \in Int
<1>1. <<a>> \in Seq(Int) /\ Len(<<a>>) = 1
  OBVIOUS
<1> DEFINE s == <<a>>
<1> HIDE DEF s
<1>2. s \o t \in Seq(Int) /\ Len(s \o t) = Len(s) + Len(t)
  BY <1>1 DEF s
<1>3. \A k \in 1 .. Len(s \o t) : (s \o t)[k] \in Int
  BY <1>2
<1> QED BY <1>1, <1>2, <1>3 DEF s

\* Three numbers are a sequence of three.
LEMMA ThreeNumbers ==
  ASSUME NEW t \in [1 .. 3 -> Int]
  PROVE  t \in Seq(Int) /\ Len(t) = 3
<1> DEFINE n == 3
<1>1. n \in Nat /\ t \in [1 .. n -> Int]
  OBVIOUS
<1> HIDE DEF n
<1>2. t \in Seq(Int) /\ Len(t) = n
  BY <1>1
<1> QED BY <1>2 DEF n

\* The recordings of the run are such.
LEMMA InputsArePlannable ==
  ASSUME NEW input \in Inputs
  PROVE  /\ input.session.started \in Int /\ Segments(input.media)
         /\ input.intervals \in Seq(IntervalRow)
         /\ \A n, m \in DOMAIN input.intervals :
               input.intervals[n].id = input.intervals[m].id => n = m
<1>1. PICK cuts \in Cuts(4, 0, 4), lost \in 0 .. 3 :
        \E times \in Cuts(3, 10, 15), open \in {0, 3} :
          input = [session |-> [status |-> "ended", started |-> 10], media |-> Media(cuts, lost),
                   intervals |-> Intervals(<<10>> \o times, open)]
  BY DEF Inputs
<1>2. PICK times \in Cuts(3, 10, 15), open \in {0, 3} :
        input = [session |-> [status |-> "ended", started |-> 10], media |-> Media(cuts, lost),
                 intervals |-> Intervals(<<10>> \o times, open)]
  BY <1>1
<1>3. input.session.started = 10 /\ input.media = Media(cuts, lost)
      /\ input.intervals = Intervals(<<10>> \o times, open)
  BY <1>2
<1> DEFINE row(k) == [sequence |-> k, status |-> IF k = lost THEN "quarantined" ELSE "closed",
                      start |-> cuts[k], end |-> cuts[k + 1]]
           media == Media(cuts, lost)
<1>4. \A k \in 1 .. 4 : cuts[k] \in Int
  BY DEF Cuts
<1>5. cuts[1] <= cuts[2] /\ cuts[2] <= cuts[3] /\ cuts[3] <= cuts[4]
  BY DEF Cuts
<1>6. media = {row(1), row(2), row(3)}
  BY DEF Media
<1>7. IsFiniteSet(media)
  <2> DEFINE f == [k \in 1 .. 3 |-> row(k)]
  <2>1. f \in Surjection(1 .. 3, media)
    BY Fun_IsSurj DEF Media
  <2> DEFINE three == 3
  <2>2. three \in Int /\ 1 \in Int /\ 1 .. 3 = 1 .. three
    OBVIOUS
  <2> HIDE DEF f, media, three
  <2>3. IsFiniteSet(1 .. 3)
    BY <2>2, FS_Interval
  <2> QED BY <2>1, <2>3, FS_Surjection
<1>8. media \in SUBSET MediaRow
  <2>1. \A k \in 1 .. 3 : cuts[k] \in Int /\ cuts[k + 1] \in Int
    BY <1>4
  <2>2. ASSUME NEW k \in 1 .. 3 PROVE row(k) \in MediaRow
    <3> DEFINE status == IF k = lost THEN "quarantined" ELSE "closed"
    <3>1. status \in {"closed", "quarantined"} /\ k \in Int
      OBVIOUS
    <3> HIDE DEF status
    <3>2. [sequence |-> k, status |-> status, start |-> cuts[k], end |-> cuts[k + 1]] \in MediaRow
      BY <2>1, <3>1 DEF MediaRow
    <3> QED BY <3>2 DEF status
  <2>3. \A m \in media : \E k \in 1 .. 3 : m = row(k)
    BY DEF Media
  <2> HIDE DEF media
  <2> QED BY <2>2, <2>3
<1>9. Disjoint(media)
  <2> SUFFICES ASSUME NEW m \in media, NEW n \in media PROVE m = n \/ m.end <= n.start \/ n.end <= m.start
    BY DEF Disjoint, Sources
  <2>1. PICK k \in 1 .. 3 : m = row(k)
    BY DEF Media
  <2>2. PICK l \in 1 .. 3 : n = row(l)
    BY DEF Media
  <2>3. m.start = cuts[k] /\ m.end = cuts[k + 1] /\ n.start = cuts[l] /\ n.end = cuts[l + 1]
    BY <2>1, <2>2
  <2>4. CASE k = l
    BY <2>1, <2>2, <2>4
  <2>5. CASE k < l
    <3>1. cuts[k + 1] <= cuts[l]
      BY <1>4, <1>5, <2>5
    <3> QED BY <2>3, <3>1
  <2>6. CASE l < k
    <3>1. cuts[l + 1] <= cuts[k]
      BY <1>4, <1>5, <2>6
    <3> QED BY <2>3, <3>1
  <2> QED BY <2>4, <2>5, <2>6
<1> DEFINE clock == <<10>> \o times
           rows == Intervals(clock, open)
<1>10. \A k \in 1 .. 4 : clock[k] \in Int
  <2>1. times \in [1 .. 3 -> Int]
    BY DEF Cuts
  <2>2. times \in Seq(Int) /\ Len(times) = 3
    BY <2>1, ThreeNumbers
  <2> DEFINE first == 10
             three == 3
  <2>3. first \in Int /\ clock = <<first>> \o times /\ Len(times) = three /\ three + 1 = 4
    BY <2>2
  <2> HIDE DEF first, three, clock
  <2>4. \A k \in 1 .. three + 1 : (<<first>> \o times)[k] \in Int
    BY <2>2, <2>3, Prepended
  <2> QED BY <2>3, <2>4
<1> HIDE DEF clock
<1>11. /\ DOMAIN rows = 1 .. 3
       /\ \A k \in 1 .. 3 : rows[k] = [id |-> k, started |-> clock[k],
                                       ended |-> IF k = open THEN Open ELSE clock[k + 1]]
  BY DEF Intervals
<1>12. \A k \in 1 .. 3 : rows[k] \in IntervalRow /\ rows[k].id = k
  <2> SUFFICES ASSUME NEW k \in 1 .. 3 PROVE rows[k] \in IntervalRow /\ rows[k].id = k
    OBVIOUS
  <2>1. clock[k] \in Int /\ clock[k + 1] \in Int
    BY <1>10
  <2> QED BY <1>11, <2>1 DEF IntervalRow
<1>13. rows \in Seq(IntervalRow)
  <2>1. rows \in [1 .. 3 -> IntervalRow]
    <3>1. rows = [k \in 1 .. 3 |-> rows[k]]
      BY DEF Intervals
    <3> HIDE DEF rows
    <3> QED BY <1>12, <3>1
  <2> HIDE DEF rows
  <2>2. rows = [k \in 1 .. 3 |-> rows[k]] /\ \A k \in 1 .. 3 : rows[k] \in IntervalRow
    BY <2>1
  <2>3. [k \in 1 .. 3 |-> rows[k]] \in Seq(IntervalRow)
    BY <2>2
  <2> QED BY <2>2, <2>3
<1> QED BY <1>3, <1>7, <1>8, <1>9, <1>11, <1>12, <1>13 DEF Segments, clock

\* EveryPlan of the recordings that the run tries: cut anywhere, with a segment
\* that may not be used and an interval that may be open (ExportPlanner.build).
THEOREM PlansAreExact == MCSpec => []PlansExportTheirIntervals
<1> DEFINE Planned == scenario.name = "plan" => scenario.input \in Inputs
<1>1. MCInit => Planned
  BY DEF MCInit
<1>2. Planned /\ [MCNext]_<<vars, scenario>> => Planned'
  BY DEF MCNext
<1>3. Planned => PlansExportTheirIntervals
  <2> SUFFICES ASSUME scenario.name = "plan", scenario.input \in Inputs
               PROVE  ExportsOwnInterval(scenario.input.session, scenario.input.media, scenario.input.intervals)
    BY DEF PlansExportTheirIntervals
  <2> DEFINE input == scenario.input
  <2>1. /\ input.session.started \in Int /\ Segments(input.media)
        /\ input.intervals \in Seq(IntervalRow)
        /\ \A n, m \in DOMAIN input.intervals :
              input.intervals[n].id = input.intervals[m].id => n = m
    BY InputsArePlannable
  <2> HIDE DEF input
  <2>2. ExportsOwnInterval(input.session, input.media, input.intervals)
    BY <2>1, EveryPlan
  <2> QED BY <2>2 DEF input
<1> QED BY <1>1, <1>2, <1>3, PTL DEF MCSpec
=============================================================================

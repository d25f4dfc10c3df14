--------------------------- MODULE MCPostprocessJobs ---------------------------
(* PostprocessJobs with one plan or two, and the computation of a plan, as     *)
(* scenarios of one run: one job whose database calls fail and whose           *)
(* application crashes, two jobs in quiet, and the inputs of the planner.      *)
EXTENDS PostprocessJobs, ExportPlanner

VARIABLE scenario

MCJobs == 1 .. 2

\* A recording that starts when the clock reads 10, in three segments of which
\* one may not be usable, and three intervals of which the last may be open.
Cuts(n, from, to) == {c \in [1 .. n -> from .. to] : \A k \in 1 .. n - 1 : c[k] <= c[k + 1]}
Media(cuts, lost) ==
    {[sequence |-> k, status |-> IF k = lost THEN "quarantined" ELSE "closed",
      start |-> cuts[k], end |-> cuts[k + 1]] : k \in 1 .. 3}
Intervals(cuts, open) ==
    [k \in 1 .. 3 |-> [id |-> k, started |-> cuts[k], ended |-> IF k = open THEN Open ELSE cuts[k + 1]]]
Inputs ==
    {[session |-> [status |-> "ended", started |-> 10], media |-> Media(cuts, lost),
      intervals |-> Intervals(<<10>> \o times, open)] :
        cuts \in Cuts(4, 0, 4), lost \in 0 .. 3,
        times \in Cuts(3, 10, 15), open \in {0, 3}}

MCInit == Init /\ scenario \in {[name |-> "faults"], [name |-> "quiet"]}
                    \cup {[name |-> "plan", input |-> i] : i \in Inputs}
               /\ database_fails = (scenario.name = "faults")

\* The database answers and the application is not killed.
Quiet == scenario.name = "quiet"
Live == IF scenario.name = "faults" THEN {1} ELSE IF Quiet THEN Jobs ELSE {}

\* Bound: a job is retried once in quiet.
MCNext ==
    /\ UNCHANGED scenario
    /\ \/ \E j \in Live : \/ create_job(j) \/ request_cancel(j) \/ cancel_job_signals(j)
                          \/ (Quiet => Len(attempts[j]) < 2) /\ retry(j)
       \/ Live # {} /\ (WorkerStep \/ ffmpeg_exited \/ close \/ closed \/ start)
       \/ scenario.name = "faults" /\ (database_failed \/ crash)
MCSpec == MCInit /\ [][MCNext]_<<vars, scenario>>
             /\ WF_vars(WorkerStep) /\ \A j \in Jobs : WF_vars(cancel_job_signals(j))

\* CancelEndsTheJob and QueuedIsServed of PostprocessJobs: _worker_loop and
\* _run_job serve every job and answer every cancel, with nothing but FFmpeg
\* failing.
QuietCancelEndsTheJob == Quiet => CancelEndsTheJob
QuietQueuedIsServed == Quiet => QueuedIsServed

\* ExportsOwnInterval of every plan: what build() trims is the interval.
PlansExportTheirIntervals ==
    scenario.name = "plan" =>
        ExportsOwnInterval(scenario.input.session, scenario.input.media, scenario.input.intervals)
=============================================================================

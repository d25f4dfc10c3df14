----------------------------- MODULE Application -----------------------------
(***************************************************************************)
(* The life of the application over its database: AppState.start and       *)
(* AppState.stop (app/state.py), the lifespan (app/main.py), and the tasks *)
(* that write meanwhile.  A start is a new process with a runtime instance *)
(* of its own.                                                             *)
(***************************************************************************)
EXTENDS DatabaseWriter

CONSTANTS Runtimes,   \* bound: runtime instances, in order 1, 2, ...
          Workers,    \* writes of room workers (record_check)
          Requests,   \* writes of requests
          Exports,    \* writes of the export worker
          Crashes     \* whether the process may be killed

\* The writes of start, in order, and those of stop.
Booting == <<"instance", "recover", "postprocess">>
Closing == {"finalize", "ended"}
Names == {"instance", "recover", "postprocess"} \cup Closing \cup Workers \cup Requests \cup Exports

ASSUME ApplicationAssumption ==
    /\ Runtimes \in Nat /\ Crashes \in BOOLEAN
    /\ ({"instance", "recover", "postprocess"} \cup Closing)
         \cap (Workers \cup Requests \cup Exports) = {}
    /\ Ops = (1 .. Runtimes) \X Names
    /\ Cancellable = (1 .. Runtimes) \X Workers

VARIABLES mode,      \* "down", "migrating", a write of start, "running", or a stage of stop
          runtime
avars == <<dvars, mode, runtime>>

Of(name) == <<runtime, name>>
Runs(names) == {n \in names : pc[Of(n)] \in InFlight}
Exporting == {"running", "manager", "recording", "exports"}
Answered(name) == pc[Of(name)] \in Answers

ApplicationInit == DatabaseInit /\ mode = "down" /\ runtime = 0

\* AppState.start: initialize, with the migrations.
starts ==
    /\ mode = "down" /\ runtime < Runtimes
    /\ connect
    /\ mode' = "migrating" /\ runtime' = runtime + 1
migrates ==
    /\ mode = "migrating"
    /\ \/ MigrationStep /\ UNCHANGED mode
       \/ migration_raises /\ mode' = "down"
    /\ UNCHANGED runtime

\* One write after the other; the last one starts the export worker, then come
\* the tools and the room manager.
boots ==
    \/ /\ mode = "migrating" /\ script = "none" /\ schema_migrations = Migrations
       /\ write(Of("instance"))
       /\ mode' = "instance" /\ UNCHANGED runtime
    \/ /\ \E i \in 1 .. 2 :
             /\ mode = Booting[i] /\ pc[Of(mode)] = "returned"
             /\ write(Of(Booting[i + 1])) /\ mode' = Booting[i + 1]
       /\ UNCHANGED runtime
    \/ /\ mode = Booting[3] /\ pc[Of(mode)] = "returned"
       /\ mode' = "running" /\ UNCHANGED <<dvars, runtime>>

\* lifespan awaits start outside its try: the process ends without a stop.
start_raises ==
    /\ \E i \in 1 .. 3 : mode = Booting[i]
    /\ pc[Of(mode)] = "raised"
    /\ killed
    /\ mode' = "down" /\ UNCHANGED runtime

\* Room workers, requests, the end of a recording; the export worker goes on
\* until its service is closed.
works ==
    /\ \/ mode = "running" /\ \E n \in Workers \cup Requests \cup {"finalize"} : write(Of(n))
       \/ mode \in Exporting /\ \E n \in Exports : write(Of(n))
    /\ UNCHANGED <<mode, runtime>>
\* A disable cancels the worker of its room, room_manager.close all of them.
worker_cancelled ==
    /\ mode \in {"running", "manager"}
    /\ \E n \in Workers : cancel(Of(n))
    /\ UNCHANGED <<mode, runtime>>

\* AppState.stop, after the last request was answered.
stops ==
    /\ mode = "running" /\ Runs(Requests) = {}
    /\ mode' = "manager" /\ UNCHANGED <<dvars, runtime>>
\* Mistake: the manager does not wait for its workers.
ManagerClosedAtOnce ==
    /\ mode = "manager"
    /\ mode' = "recording"
    /\ IF pc[Of("finalize")] = "none" THEN write(Of("finalize")) ELSE UNCHANGED dvars
    /\ UNCHANGED runtime
manager_closed ==
    /\ mode = "manager" /\ Runs(Workers) = {}
    /\ mode' = "recording"
    /\ IF pc[Of("finalize")] = "none" THEN write(Of("finalize")) ELSE UNCHANGED dvars
    /\ UNCHANGED runtime
\* Mistake: an exception of a stop is waited for, not collected.
RecordingMustReturn ==
    /\ mode = "recording" /\ pc[Of("finalize")] = "returned"
    /\ mode' = "exports" /\ UNCHANGED <<dvars, runtime>>
\* gather(..., return_exceptions=True)
recording_closed ==
    /\ mode = "recording" /\ Answered("finalize")
    /\ mode' = "exports" /\ UNCHANGED <<dvars, runtime>>
\* The export worker finishes what it does, whatever that raises.
postprocess_closed ==
    /\ mode = "exports" /\ Runs(Exports) = {}
    /\ write(Of("ended"))
    /\ mode' = "ended" /\ UNCHANGED runtime
database_closed ==
    /\ mode = "ended" /\ Answered("ended")
    /\ close
    /\ mode' = "down" /\ UNCHANGED runtime

crash ==
    /\ Crashes /\ mode # "down"
    /\ killed
    /\ mode' = "down" /\ UNCHANGED runtime

WritersStep(o) == WriteStep(o) /\ UNCHANGED <<mode, runtime>>
LifeStep == starts \/ migrates \/ boots \/ start_raises
StopStep == manager_closed \/ recording_closed \/ postprocess_closed \/ database_closed
ApplicationNext ==
    \/ LifeStep \/ works \/ worker_cancelled \/ stops \/ StopStep \/ crash
    \/ \E o \in Ops : WritersStep(o)

ApplicationSpec == ApplicationInit /\ [][ApplicationNext]_avars
\* The event loop and the database's thread go on; a cancelled task ends.
ApplicationFairness ==
    /\ WF_avars(\E o \in Ops : WritersStep(o))
    /\ WF_avars(StopStep) /\ WF_avars(mode = "manager" /\ worker_cancelled)
ApplicationFairSpec == ApplicationSpec /\ ApplicationFairness

-----------------------------------------------------------------------------
(* The end of a runtime is the last thing that it writes: nothing of it is *)
(* under way any more, or begins, when its ended_at is in the database     *)
(* (state.py, stop).                                                       *)
EndedIsLast ==
    \A r \in 1 .. Runtimes :
        rows[<<r, "ended">>] > 0 => \A n \in Names : pc[<<r, n>>] \notin InFlight

(* Whoever writes gets an answer, although a transaction may have been     *)
(* left open for good (db/core.py, write).                                 *)
WritesReturn == []<>(\A o \in Ops : pc[o] \notin InFlight)

(* A stop comes to its end, whatever raises on its way (state.py, stop).   *)
StopEnds == mode = "manager" ~> mode = "down"

(* One room's failure does not touch the others                            *)
(* (docs/P2A_IMPLEMENTATION_PLAN.md:19): while the database itself works,  *)
(* no write raises.                                                        *)
OthersGoOn == Faults = {} => \A o \in Ops : pc[o] # "raised"
=============================================================================

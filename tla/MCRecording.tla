------------------------------ MODULE MCRecording ------------------------------
(* Recording with few sessions and clock readings, as scenarios of one run:    *)
(* two callers race, and the clock moves while the second is idle; one caller  *)
(* in an application that is killed, restarted and has tasks cancelled; one    *)
(* caller whose steps are scheduled fairly.                                    *)
EXTENDS Recording

CONSTANTS c1, c2, s1, ra,
          RaceFaults, RestartFaults   \* what may happen in these scenarios

VARIABLE scenario

MCNone == {}
MCTimes == 0 .. 1
MCMonos == {0}
MCCallers == {c1, c2}
MCOneCaller == {c1}

Acting == IF scenario = "races" THEN Callers ELSE {c1}

MCInit ==
  /\ RecordingInit /\ runtime = ra
  /\ scenario \in {"races", "restart", "progress"}
  /\ scenario # "races" => now = 0
  /\ CASE scenario = "races" -> faults = RaceFaults
       [] scenario = "restart" -> faults \in RestartFaults
       [] scenario = "progress" -> faults = {}

MCNext ==
  /\ UNCHANGED scenario
  /\ \/ \E c \in Acting, r \in Rooms : call_start_recording(c, r) \/ call_stop_recording(c, r)
     \/ \E t \in Tasks : TaskStep(t)
     \/ close \/ closed
     \/ \E s \in SessionIds : process_exits(s)
     \/ /\ scenario = "races" /\ (\A c \in Acting \ {c1} : task[c].pc = "idle")
        /\ \E at \in Times : clock_moves(at)
     \/ /\ scenario = "restart"
        /\ \/ crash
           \/ \E t \in Tasks : abandon(t)
           \/ \E instance \in Runtimes : restart(instance)

\* Fairness of Recording, in the scenario whose properties need it.
Fair == scenario = "progress"
MCSpec ==
  /\ MCInit /\ [][MCNext]_<<rvars, scenario>>
  /\ \A t \in Tasks : SF_rvars(Fair /\ TaskStep(t))
  /\ \A s \in SessionIds : WF_rvars(Fair /\ process[s] = "killed" /\ process_exits(s))

\* StopEndsTheSession and RoomComesFree of Recording, where every step is taken
\* in its time.
FairStopEndsTheSession == Fair => StopEndsTheSession
FairRoomComesFree == Fair => RoomComesFree
=============================================================================

------------------------------ MODULE RoomProofs ------------------------------
(***************************************************************************)
(* Theorems about RoomManager: workers follow the rooms through calls that *)
(* meet, and no stop of a worker is unconfirmed, for any number of rooms,  *)
(* URLs and callers.                                                       *)
(***************************************************************************)
EXTENDS RoomManager, TLAPS

IsTask(k) == k = [pc |-> k.pc, op |-> k.op, room |-> k.room, arg |-> k.arg, url |-> k.url,
                  rooms |-> k.rooms]

Ending == {"stop_lock", "stopping"}
WorkerPcs == Ending \cup StartBlock \cup {"sleep", "semaphore", "check_lock", "page", "state", "start_lock"}
WorkerOps == {"iterate", "worker_start", "confirmed_offline"}

\* What the task of a room may be: only an error ends a worker's task, and a removed
\* worker only stops the recording.
Fits(r, k) ==
    /\ k.op = "confirmed_offline" => k.pc \in Ending /\ streak[r] >= OfflineConfirmations
    /\ r \in workers => k.pc = "died" \/ (k.pc \in WorkerPcs /\ k.op \in WorkerOps)
    /\ r \notin workers => \/ k.pc \in {"none", "cancelled"}
                           \/ k.pc \in Ending /\ k.op = "removed"

Counts == 0 .. OfflineConfirmations
Types ==
    /\ DOMAIN task = Tasks /\ task = [t \in Tasks |-> task[t]] /\ \A t \in Tasks : IsTask(task[t])
    /\ workers \subseteq RoomKeys
    /\ offline \in [RoomKeys -> Counts] /\ streak \in [RoomKeys -> Counts]

\* The count of a runtime starts again with a new worker; the streak goes on.
CountsBelow == \A r \in RoomKeys : offline[r] <= streak[r]

Inside == {"listed", "removing"}
Removing(c) == task[c].pc = "removing"
OneReconciles ==
    /\ \A c, d \in Callers : task[c].pc \in Inside /\ task[d].pc \in Inside => c = d
    /\ \A c \in Callers : task[c].pc \in Inside => task[c].rooms \subseteq RoomKeys

\* Whoever removed a worker waits for it.
Awaited ==
    ~closed => \A r \in RoomKeys \ workers : task[r].pc # "none" => \E c \in Callers : Removing(c)

\* Someone will still reconcile, or whoever reconciles works on the rooms as
\* they are, or the workers are theirs.
Announced(c) == task[c].pc \in {"discard", "reconcile"}
UpToDate(c) == task[c].rooms = Enabled(row) /\ (Removing(c) => workers \subseteq task[c].rooms)
Followed ==
    ManagerEnabled /\ ~closed =>
        \/ \E c \in Callers : Announced(c)
        \/ /\ \A c \in Callers : task[c].pc \in Inside => UpToDate(c)
           /\ workers = Enabled(row) \/ \E c \in Callers : task[c].pc \in Inside

IInv == /\ Types /\ CountsBelow /\ (\A r \in RoomKeys : Fits(r, task[r]))
        /\ OneReconciles /\ Awaited /\ Followed

-----------------------------------------------------------------------------
\* What is left of a task whose fields change.
LEMMA Fields ==
  ASSUME NEW k, IsTask(k), NEW x
  PROVE  /\ IsTask([k EXCEPT !.pc = x]) /\ [k EXCEPT !.pc = x].pc = x
         /\ [k EXCEPT !.pc = x].op = k.op /\ [k EXCEPT !.pc = x].rooms = k.rooms
BY DEF IsTask

PcOp(k, x, y) == [k EXCEPT !.pc = x, !.op = y]
PcArg(k, x, y) == [k EXCEPT !.pc = x, !.arg = y]
PcRoom(k, x, y) == [k EXCEPT !.pc = x, !.room = y]
PcRooms(k, x, y) == [k EXCEPT !.pc = x, !.rooms = y]
PcUrl(k, x, y) == [k EXCEPT !.pc = x, !.url = y]
PcOpRoom(k, x, y, z) == [k EXCEPT !.pc = x, !.op = y, !.room = z]
PcOpRoomArg(k, x, y, z, w) == [k EXCEPT !.pc = x, !.op = y, !.room = z, !.arg = w]
PcArgOp(k, x, y, z) == [k EXCEPT !.pc = x, !.arg = y, !.op = z]

\* The same for the updates of two and more fields.
LEMMA PcOpShape ==
  ASSUME NEW k, IsTask(k), NEW x, NEW y
  PROVE  /\ IsTask(PcOp(k, x, y)) /\ PcOp(k, x, y).pc = x
         /\ PcOp(k, x, y).op = y
<1> DEFINE m == [k EXCEPT !.pc = x]
<1>1. IsTask(m) /\ m.pc = x /\ m.op = k.op
  BY Fields
<1>2. PcOp(k, x, y) = [m EXCEPT !.op = y]
  BY DEF PcOp
<1> HIDE DEF m
<1>3. IsTask([m EXCEPT !.op = y]) /\ [m EXCEPT !.op = y].pc = m.pc
      /\ [m EXCEPT !.op = y].op = y
  BY <1>1 DEF IsTask
<1> QED BY <1>1, <1>2, <1>3

\* With its argument.
LEMMA PcArgShape ==
  ASSUME NEW k, IsTask(k), NEW x, NEW y
  PROVE  /\ IsTask(PcArg(k, x, y)) /\ PcArg(k, x, y).pc = x
         /\ PcArg(k, x, y).op = k.op
<1> DEFINE m == [k EXCEPT !.pc = x]
<1>1. IsTask(m) /\ m.pc = x /\ m.op = k.op
  BY Fields
<1>2. PcArg(k, x, y) = [m EXCEPT !.arg = y]
  BY DEF PcArg
<1> HIDE DEF m
<1>3. IsTask([m EXCEPT !.arg = y]) /\ [m EXCEPT !.arg = y].pc = m.pc
      /\ [m EXCEPT !.arg = y].op = m.op
  BY <1>1 DEF IsTask
<1> QED BY <1>1, <1>2, <1>3

\* With its room.
LEMMA PcRoomShape ==
  ASSUME NEW k, IsTask(k), NEW x, NEW y
  PROVE  /\ IsTask(PcRoom(k, x, y)) /\ PcRoom(k, x, y).pc = x
         /\ PcRoom(k, x, y).op = k.op
<1> DEFINE m == [k EXCEPT !.pc = x]
<1>1. IsTask(m) /\ m.pc = x /\ m.op = k.op
  BY Fields
<1>2. PcRoom(k, x, y) = [m EXCEPT !.room = y]
  BY DEF PcRoom
<1> HIDE DEF m
<1>3. IsTask([m EXCEPT !.room = y]) /\ [m EXCEPT !.room = y].pc = m.pc
      /\ [m EXCEPT !.room = y].op = m.op
  BY <1>1 DEF IsTask
<1> QED BY <1>1, <1>2, <1>3

\* With its rooms.
LEMMA PcRoomsShape ==
  ASSUME NEW k, IsTask(k), NEW x, NEW y
  PROVE  /\ IsTask(PcRooms(k, x, y)) /\ PcRooms(k, x, y).pc = x
         /\ PcRooms(k, x, y).rooms = y
<1> DEFINE m == [k EXCEPT !.pc = x]
<1>1. IsTask(m) /\ m.pc = x /\ m.rooms = k.rooms
  BY Fields
<1>2. PcRooms(k, x, y) = [m EXCEPT !.rooms = y]
  BY DEF PcRooms
<1> HIDE DEF m
<1>3. IsTask([m EXCEPT !.rooms = y]) /\ [m EXCEPT !.rooms = y].pc = m.pc
      /\ [m EXCEPT !.rooms = y].rooms = y
  BY <1>1 DEF IsTask
<1> QED BY <1>1, <1>2, <1>3

\* With its URL.
LEMMA PcUrlShape ==
  ASSUME NEW k, IsTask(k), NEW x, NEW y
  PROVE  /\ IsTask(PcUrl(k, x, y)) /\ PcUrl(k, x, y).pc = x
         /\ PcUrl(k, x, y).op = k.op
<1> DEFINE m == [k EXCEPT !.pc = x]
<1>1. IsTask(m) /\ m.pc = x /\ m.op = k.op
  BY Fields
<1>2. PcUrl(k, x, y) = [m EXCEPT !.url = y]
  BY DEF PcUrl
<1> HIDE DEF m
<1>3. IsTask([m EXCEPT !.url = y]) /\ [m EXCEPT !.url = y].pc = m.pc
      /\ [m EXCEPT !.url = y].op = m.op
  BY <1>1 DEF IsTask
<1> QED BY <1>1, <1>2, <1>3

\* With its operation and room.
LEMMA PcOpRoomShape ==
  ASSUME NEW k, IsTask(k), NEW x, NEW y, NEW z
  PROVE  /\ IsTask(PcOpRoom(k, x, y, z)) /\ PcOpRoom(k, x, y, z).pc = x
         /\ PcOpRoom(k, x, y, z).op = y
<1> DEFINE m == PcOp(k, x, y)
<1>1. IsTask(m) /\ m.pc = x /\ m.op = y
  BY PcOpShape
<1>2. PcOpRoom(k, x, y, z) = [m EXCEPT !.room = z]
  BY DEF PcOpRoom, PcOp
<1> HIDE DEF m
<1>3. IsTask([m EXCEPT !.room = z]) /\ [m EXCEPT !.room = z].pc = m.pc
      /\ [m EXCEPT !.room = z].op = m.op
  BY <1>1 DEF IsTask
<1> QED BY <1>1, <1>2, <1>3

\* With its operation, room and argument.
LEMMA PcOpRoomArgShape ==
  ASSUME NEW k, IsTask(k), NEW x, NEW y, NEW z, NEW w
  PROVE  /\ IsTask(PcOpRoomArg(k, x, y, z, w)) /\ PcOpRoomArg(k, x, y, z, w).pc = x
<1> DEFINE m == PcOpRoom(k, x, y, z)
<1>1. IsTask(m) /\ m.pc = x
  BY PcOpRoomShape
<1>2. PcOpRoomArg(k, x, y, z, w) = [m EXCEPT !.arg = w]
  BY DEF PcOpRoomArg, PcOpRoom
<1> HIDE DEF m
<1>3. IsTask([m EXCEPT !.arg = w]) /\ [m EXCEPT !.arg = w].pc = m.pc
  BY <1>1 DEF IsTask
<1> QED BY <1>1, <1>2, <1>3

\* With its argument and operation.
LEMMA PcArgOpShape ==
  ASSUME NEW k, IsTask(k), NEW x, NEW y, NEW z
  PROVE  /\ IsTask(PcArgOp(k, x, y, z)) /\ PcArgOp(k, x, y, z).pc = x
<1> DEFINE m == PcArg(k, x, y)
<1>1. IsTask(m) /\ m.pc = x
  BY PcArgShape
<1>2. PcArgOp(k, x, y, z) = [m EXCEPT !.op = z]
  BY DEF PcArgOp, PcArg
<1> HIDE DEF m
<1>3. IsTask([m EXCEPT !.op = z]) /\ [m EXCEPT !.op = z].pc = m.pc
  BY <1>1 DEF IsTask
<1> QED BY <1>1, <1>2, <1>3

\* The tasks that are made anew, and what they are doing.
LEMMA Shapes ==
  /\ IsTask(Idle) /\ Idle.pc = "idle" /\ Idle.op = NULL
  /\ IsTask(Reconciling) /\ Reconciling.pc = "reconcile"
  /\ \A r : /\ IsTask(NoTask(r)) /\ NoTask(r).pc = "none" /\ NoTask(r).op = NULL
            /\ IsTask(Asleep(r)) /\ Asleep(r).pc = "sleep" /\ Asleep(r).op = "iterate"
            /\ IsTask(Cancelled(r)) /\ Cancelled(r).pc = "cancelled" /\ Cancelled(r).op = NULL
            /\ IsTask(Died(r)) /\ Died(r).pc = "died" /\ Died(r).op = NULL
  /\ NULL # "confirmed_offline"
<1>1. IsTask(Idle) /\ Idle.pc = "idle" /\ Idle.op = NULL
  BY DEF Idle, IsTask
<1>2. IsTask(Reconciling) /\ Reconciling.pc = "reconcile"
  BY <1>1, Fields DEF Reconciling
<1>3. ASSUME NEW r
      PROVE  /\ IsTask(NoTask(r)) /\ NoTask(r).pc = "none" /\ NoTask(r).op = NULL
             /\ IsTask(Asleep(r)) /\ Asleep(r).pc = "sleep" /\ Asleep(r).op = "iterate"
             /\ IsTask(Cancelled(r)) /\ Cancelled(r).pc = "cancelled" /\ Cancelled(r).op = NULL
             /\ IsTask(Died(r)) /\ Died(r).pc = "died" /\ Died(r).op = NULL
  <2>1. IsTask(NoTask(r)) /\ NoTask(r).pc = "none" /\ NoTask(r).op = NULL
    BY <1>1, PcRoomShape DEF NoTask, PcRoom
  <2>2. IsTask(Asleep(r)) /\ Asleep(r).pc = "sleep" /\ Asleep(r).op = "iterate"
    <3>1. Asleep(r) = PcOpRoom(Idle, "sleep", "iterate", r)
      BY DEF Asleep, PcOpRoom
    <3> QED BY <1>1, <3>1, PcOpRoomShape
  <2>3. IsTask(Cancelled(r)) /\ Cancelled(r).pc = "cancelled" /\ Cancelled(r).op = NULL
    BY <2>1, Fields DEF Cancelled
  <2>4. IsTask(Died(r)) /\ Died(r).pc = "died" /\ Died(r).op = NULL
    BY <1>1, PcRoomShape DEF Died, PcRoom
  <2> QED BY <2>1, <2>2, <2>3, <2>4
<1>4. NULL # "confirmed_offline"
  BY RoomsAssumption DEF Operations
<1> QED BY <1>1, <1>2, <1>3, <1>4

\* A step outside of reconcile leaves the workers following the rows.
LEMMA FollowedKept ==
  ASSUME Followed, UNCHANGED <<row, workers, closed>>,
         \A c \in Callers : task[c].pc \in {"discard", "reconcile"} \cup Inside \/ task'[c].pc \in Inside
                               => task'[c] = task[c]
  PROVE  Followed'
<1>1. \A c \in Callers : Announced(c) => Announced(c)'
  BY DEF Announced
<1>2. \A c \in Callers : (task'[c].pc \in Inside <=> task[c].pc \in Inside)
                         /\ (task[c].pc \in Inside => task'[c] = task[c])
  OBVIOUS
<1>3. \A c \in Callers : task[c].pc \in Inside /\ UpToDate(c) => UpToDate(c)'
  BY <1>2 DEF UpToDate, Removing, Enabled
<1>4. Enabled(row)' = Enabled(row)
  BY DEF Enabled
<1> QED BY <1>1, <1>2, <1>3, <1>4 DEF Followed

\* One task moves, none that reconciles, and the rooms stay as they are.
LEMMA TaskMoves ==
  ASSUME IInv, NEW t \in Tasks, NEW k, IsTask(k), task' = [task EXCEPT ![t] = k],
         UNCHANGED <<row, workers, closed>>,
         k.pc \notin Inside, task[t].pc \notin {"discard", "reconcile"} \cup Inside,
         t \in RoomKeys => Fits(t, k)' /\ (task[t].pc # "none"),
         offline' \in [RoomKeys -> Counts] /\ streak' \in [RoomKeys -> Counts] /\ CountsBelow',
         \A r \in RoomKeys \ {t} : streak'[r] = streak[r]
  PROVE  IInv'
<1>1. task'[t] = k /\ \A u \in Tasks \ {t} : task'[u] = task[u]
  BY DEF IInv, Types
<1>2. Types'
  BY <1>1 DEF IInv, Types
<1>3. Tasks = RoomKeys \cup Callers /\ RoomKeys \cap Callers = {}
  BY RoomsAssumption DEF Tasks
<1>4. (\A r \in RoomKeys : Fits(r, task[r]))'
  BY <1>1, <1>3 DEF IInv, Fits
<1>5. \A c \in Callers : task'[c].pc \in Inside => task'[c] = task[c]
  BY <1>1, <1>3
<1>6. \A c \in Callers : task[c].pc \in {"discard", "reconcile"} \cup Inside => task'[c] = task[c]
  BY <1>1, <1>3
<1>7. OneReconciles'
  BY <1>5 DEF IInv, OneReconciles
<1>8. \A c \in Callers : Removing(c) => Removing(c)'
  BY <1>6 DEF Removing, Inside
<1>9. Awaited'
  BY <1>1, <1>3, <1>8 DEF IInv, Awaited
<1>10. \A c \in Callers : task[c].pc \in {"discard", "reconcile"} \cup Inside \/ task'[c].pc \in Inside
                            => task'[c] = task[c]
  BY <1>5, <1>6
<1>11. Followed'
  BY <1>10, FollowedKept DEF IInv
<1> QED BY <1>2, <1>4, <1>7, <1>9, <1>11 DEF IInv

\* The same for what neither is a worker's check nor changes its counters.
LEMMA PlainMoves ==
  ASSUME IInv, NEW t \in Tasks, NEW k, IsTask(k), task' = [task EXCEPT ![t] = k],
         UNCHANGED <<row, workers, closed, offline, streak>>,
         k.pc \notin Inside, task[t].pc \notin {"none", "discard", "reconcile"} \cup Inside,
         t \in RoomKeys => Fits(t, k)
  PROVE  IInv'
<1>1. t \in RoomKeys => Fits(t, k)'
  BY DEF Fits
<1>2. offline' \in [RoomKeys -> Counts] /\ streak' \in [RoomKeys -> Counts] /\ CountsBelow'
  BY DEF IInv, Types, CountsBelow
<1> QED BY <1>1, <1>2, TaskMoves

\* A start and a stop go on with a task that fits.
LEMMA AfterStartFits ==
  ASSUME IInv, NEW t \in Tasks
  PROVE  /\ IsTask(AfterStart(t)) /\ AfterStart(t).pc \notin Inside
         /\ t \in RoomKeys /\ task[t].pc \in WorkerPcs \ Ending => Fits(t, AfterStart(t))
<1>1. AfterStart(t) = Idle \/ AfterStart(t) = Asleep(task[t].room)
  BY DEF AfterStart
<1>2. t \in RoomKeys /\ task[t].pc \in WorkerPcs \ Ending
        => t \in workers /\ AfterStart(t) = Asleep(task[t].room)
  BY DEF IInv, Fits, WorkerPcs, Ending, StartBlock, WorkerOps, AfterStart
<1>3. IsTask(AfterStart(t)) /\ AfterStart(t).pc \in {"idle", "sleep"}
  BY <1>1, Shapes
<1>4. t \in workers => Fits(t, Asleep(task[t].room))
  BY Shapes DEF Fits, WorkerPcs, WorkerOps
<1> QED BY <1>2, <1>3, <1>4 DEF Inside

\* The same after a stop.
LEMMA AfterStopFits ==
  ASSUME IInv, NEW t \in Tasks
  PROVE  /\ IsTask(AfterStop(t)) /\ AfterStop(t).pc \notin Inside
         /\ t \in RoomKeys /\ task[t].pc \in Ending => Fits(t, AfterStop(t))
<1>1. IsTask(task[t])
  BY DEF IInv, Types
<1>2. \/ AfterStop(t) = Idle \/ AfterStop(t) = NoTask(task[t].room) \/ AfterStop(t) = Asleep(task[t].room)
      \/ AfterStop(t) = [task[t] EXCEPT !.pc = "write"] \/ AfterStop(t) = [task[t] EXCEPT !.pc = "previous"]
  BY DEF AfterStop
<1>3. IsTask(AfterStop(t)) /\ AfterStop(t).pc \in {"idle", "none", "sleep", "write", "previous"}
  <2>1. IsTask([task[t] EXCEPT !.pc = "write"]) /\ [task[t] EXCEPT !.pc = "write"].pc = "write"
    BY <1>1, Fields
  <2>2. IsTask([task[t] EXCEPT !.pc = "previous"]) /\ [task[t] EXCEPT !.pc = "previous"].pc = "previous"
    BY <1>1, Fields
  <2>3. \A r : /\ IsTask(NoTask(r)) /\ NoTask(r).pc = "none"
               /\ IsTask(Asleep(r)) /\ Asleep(r).pc = "sleep"
    BY Shapes
  <2>4. IsTask(Idle) /\ Idle.pc = "idle"
    BY Shapes
  <2>5. CASE AfterStop(t) \in {Idle, NoTask(task[t].room), Asleep(task[t].room)}
    BY <2>3, <2>4, <2>5
  <2> QED BY <1>2, <2>1, <2>2, <2>5
<1>4. ASSUME t \in RoomKeys, task[t].pc \in Ending
      PROVE  Fits(t, AfterStop(t))
  <2>1. CASE t \in workers
    <3>1. AfterStop(t) = Asleep(task[t].room)
      BY <1>4, <2>1 DEF IInv, Fits, Ending, WorkerOps, AfterStop
    <3> QED BY <2>1, <3>1, Shapes DEF Fits, WorkerPcs, WorkerOps
  <2>2. CASE t \notin workers
    <3>1. AfterStop(t) = NoTask(task[t].room)
      BY <1>4, <2>2 DEF IInv, Fits, Ending, AfterStop
    <3> QED BY <2>2, <3>1, Shapes DEF Fits
  <2> QED BY <2>1, <2>2
<1> QED BY <1>3, <1>4 DEF Inside

\* Only the task of a worker is at the awaits of a worker.
LEMMA AtWork ==
  ASSUME IInv, NEW r \in RoomKeys
  PROVE  /\ task[r].pc \in WorkerPcs \ Ending => r \in workers /\ task[r].op \in {"iterate", "worker_start"}
         /\ task[r].pc \in WorkerPcs \cup {"cancelled", "none", "died"}
         /\ r \in workers \/ task[r].pc \in Ending \cup {"cancelled", "none"}
BY DEF IInv, Fits, WorkerPcs, Ending, StartBlock, WorkerOps

\* What an error leaves of a task fits.
LEMMA AfterRaiseFits ==
  ASSUME IInv, NEW t \in Tasks, NEW k \in AfterRaise(t)
  PROVE  /\ IsTask(k) /\ k.pc \notin Inside
         /\ t \in RoomKeys /\ task[t].pc \in WorkerPcs /\ workers' = workers => Fits(t, k)'
<1>1. \/ k = Asleep(task[t].room) \/ k = Died(task[t].room)
      \/ k = NoTask(task[t].room) \/ k = Idle
  BY DEF AfterRaise
<1>2. IsTask(k) /\ k.pc \in {"sleep", "died", "none", "idle"} /\ k.op # "confirmed_offline"
  BY <1>1, Shapes
<1>3. ASSUME t \in RoomKeys, task[t].pc \in WorkerPcs, workers' = workers
      PROVE  Fits(t, k)'
  <2>1. CASE t \in workers
    <3>1. task[t].op \in WorkerOps
      BY <1>3, <2>1 DEF IInv, Fits, WorkerPcs, Ending, StartBlock
    <3>2. k = Asleep(task[t].room) \/ k = Died(task[t].room)
      BY <3>1 DEF AfterRaise, WorkerOps
    <3> QED BY <1>2, <1>3, <2>1, <3>2, Shapes DEF Fits, WorkerPcs, WorkerOps
  <2>2. CASE t \notin workers
    <3>1. task[t].op = "removed"
      BY <1>3, <2>2 DEF IInv, Fits, WorkerPcs, Ending, StartBlock
    <3>2. k = NoTask(task[t].room)
      BY <3>1 DEF AfterRaise
    <3> QED BY <1>2, <1>3, <2>2, <3>2, Shapes DEF Fits
  <2> QED BY <2>1, <2>2
<1> QED BY <1>2, <1>3 DEF Inside

-----------------------------------------------------------------------------
\* The counters after a check: they stay in step, and those of other rooms stay.
LEMMA CountedKeeps ==
  ASSUME IInv, NEW t \in Tasks, NEW answer, Counted(t, answer) \/ UNCHANGED <<offline, streak>>
  PROVE  /\ offline' \in [RoomKeys -> Counts] /\ streak' \in [RoomKeys -> Counts] /\ CountsBelow'
         /\ \A r \in RoomKeys \ {t} : streak'[r] = streak[r]
<1>1. offline \in [RoomKeys -> Counts] /\ streak \in [RoomKeys -> Counts] /\ CountsBelow
      /\ OfflineConfirmations \in Nat
  BY RoomsAssumption DEF IInv, Types
<1>2. CASE UNCHANGED <<offline, streak>>
  BY <1>1, <1>2 DEF CountsBelow
<1>3. CASE Counted(t, answer) /\ t \in RoomKeys
  <2> DEFINE next(n) == IF answer = "offline" /\ n < OfflineConfirmations THEN n + 1
                        ELSE IF answer = "offline" THEN n ELSE 0
  <2>1. offline' = [offline EXCEPT ![t] = next(offline[t])]
        /\ streak' = [streak EXCEPT ![t] = next(streak[t])]
    BY <1>3 DEF Counted
  <2>2. \A n \in Counts : next(n) \in Counts
    BY <1>1 DEF Counts
  <2>3. offline[t] \in Counts /\ streak[t] \in Counts /\ offline[t] <= streak[t]
    BY <1>1, <1>3 DEF CountsBelow
  <2>4. next(offline[t]) <= next(streak[t])
    BY <1>1, <2>3 DEF Counts
  <2> HIDE DEF next
  <2>5. next(offline[t]) \in Counts /\ next(streak[t]) \in Counts
    BY <2>2, <2>3
  <2> QED BY <1>1, <2>1, <2>4, <2>5 DEF CountsBelow
<1>4. CASE Counted(t, answer) /\ t \notin RoomKeys
  BY <1>1, <1>4 DEF Counted, CountsBelow
<1> QED BY <1>2, <1>3, <1>4

\* A task that ends in an error.
LEMMA RaisesKeep ==
  ASSUME IInv, NEW t \in Tasks, NEW k \in AfterRaise(t), task' = [task EXCEPT ![t] = k],
         UNCHANGED <<row, workers, closed>>, task[t].pc \in WorkerPcs,
         NEW answer, Counted(t, answer)
  PROVE  IInv'
<1>1. IsTask(k) /\ k.pc \notin Inside /\ (t \in RoomKeys => Fits(t, k)')
  BY AfterRaiseFits
<1>2. task[t].pc \notin {"none", "discard", "reconcile"} \cup Inside
  BY DEF WorkerPcs, Ending, StartBlock, Inside
<1>3. /\ offline' \in [RoomKeys -> Counts] /\ streak' \in [RoomKeys -> Counts] /\ CountsBelow'
      /\ \A r \in RoomKeys \ {t} : streak'[r] = streak[r]
  BY CountedKeeps
<1> QED BY <1>1, <1>2, <1>3, TaskMoves

\* A read, a write, FFmpeg or the end of a start fails.
LEMMA FailureKeeps ==
  ASSUME IInv, NEW t \in Tasks, Raises(t), UNCHANGED <<row, workers, closed>>,
         task[t].pc \in WorkerPcs
  PROVE  IInv'
<1>1. PICK k \in AfterRaise(t) : task' = [task EXCEPT ![t] = k]
  BY DEF Raises
<1>2. Counted(t, "raised")
  BY DEF Raises
<1> QED BY <1>1, <1>2, RaisesKeep

\* A start ends.
LEMMA StartedKeeps ==
  ASSUME IInv, NEW t \in Tasks, Started(t), UNCHANGED <<row, workers, closed>>,
         task[t].pc \in WorkerPcs \ Ending
  PROVE  IInv'
<1>1. CASE task' = [task EXCEPT ![t] = AfterStart(t)] /\ UNCHANGED <<offline, streak>>
  BY <1>1, AfterStartFits, PlainMoves DEF WorkerPcs, Ending, StartBlock, Inside
<1>2. CASE Raises(t)
  BY <1>2, FailureKeeps
<1> QED BY <1>1, <1>2 DEF Started

\* A start goes on inside the room's lock.
LEMMA StartMoves ==
  ASSUME IInv, NEW t \in Tasks, NEW k, task' = [task EXCEPT ![t] = k], IsTask(k),
         k.pc \in StartBlock, k.op = task[t].op, task[t].pc \in WorkerPcs \ Ending,
         UNCHANGED <<row, workers, closed, offline, streak>>
  PROVE  IInv'
<1>1. t \in RoomKeys => task[t].op \in {"iterate", "worker_start"} /\ t \in workers
  BY AtWork
<1>2. t \in RoomKeys => Fits(t, k)
  BY <1>1 DEF Fits, WorkerPcs, WorkerOps
<1>3. k.pc \notin Inside /\ task[t].pc \notin {"none", "discard", "reconcile"} \cup Inside
  BY DEF StartBlock, WorkerPcs, Ending, Inside
<1> QED BY <1>2, <1>3, PlainMoves

-----------------------------------------------------------------------------
\* A start takes the room's lock, and reads the room.
LEMMA StartBegins ==
  ASSUME IInv, NEW t \in Tasks, start_lock(t) \/ start_read(t)
  PROVE  IInv'
<1> USE DEF tables
<1>1. /\ UNCHANGED <<row, workers, closed>> /\ IsTask(task[t])
      /\ task[t].pc \in {"start_lock", "start_read"}
  BY DEF start_lock, start_read, At, IInv, Types
<1>2. task[t].pc \in WorkerPcs \ Ending
  BY <1>1 DEF WorkerPcs, Ending, StartBlock
<1>3. CASE start_lock(t) /\ Started(t)
  BY <1>1, <1>2, <1>3, StartedKeeps
<1>4. CASE start_lock(t) /\ ~Started(t)
  <2> DEFINE k == PcArg(task[t], "start_read", NULL)
  <2>1. task' = [task EXCEPT ![t] = k] /\ UNCHANGED <<offline, streak>>
    BY <1>4 DEF start_lock, PcArg
  <2>2. IsTask(k) /\ k.pc = "start_read" /\ k.op = task[t].op
    BY <1>1, PcArgShape
  <2> HIDE DEF k
  <2> QED BY <1>1, <1>2, <2>1, <2>2, StartMoves DEF StartBlock
<1>5. CASE start_read(t) /\ task[t].room \notin Enabled(row)
  <2>1. Raises(t)
    BY <1>5 DEF start_read
  <2> QED BY <1>1, <1>2, <2>1, FailureKeeps
<1>6. CASE start_read(t) /\ task[t].room \in Enabled(row)
  <2>0. PICK pc \in {"commit", "start_check"} :
          \E u : task' = [task EXCEPT ![t] = PcUrl(task[t], pc, u)] /\ UNCHANGED <<offline, streak>>
    <3>1. CASE Cached(row[task[t].room].url)
      BY <1>6, <3>1 DEF start_read, PcUrl
    <3>2. CASE ~Cached(row[task[t].room].url)
      BY <1>6, <3>2 DEF start_read, PcUrl
    <3> QED BY <3>1, <3>2
  <2>1. PICK u : task' = [task EXCEPT ![t] = PcUrl(task[t], pc, u)] /\ UNCHANGED <<offline, streak>>
    BY <2>0
  <2> DEFINE k == PcUrl(task[t], pc, u)
  <2>2. IsTask(k) /\ k.pc = pc /\ k.op = task[t].op
    BY <1>1, PcUrlShape
  <2>3. task' = [task EXCEPT ![t] = k]
    BY <2>1
  <2> HIDE DEF k
  <2> QED BY <1>1, <1>2, <2>1, <2>2, <2>3, StartMoves DEF StartBlock
<1> QED BY <1>3, <1>4, <1>5, <1>6

\* The session's row, the entry, FFmpeg, and what fails of them.
LEMMA StartKeeps ==
  ASSUME IInv, NEW t \in Tasks, commit(t) \/ spawned(t) \/ not_spawned(t) \/ start_failed(t)
  PROVE  IInv'
<1> USE DEF tables, manager
<1>1. UNCHANGED <<row, workers, closed>> /\ IsTask(task[t])
  BY DEF commit, spawned, not_spawned, start_failed, IInv, Types
<1>2. task[t].pc \in WorkerPcs \ Ending
  BY DEF commit, spawned, not_spawned, start_failed, At, WorkerPcs, Ending, StartBlock
<1>3. ASSUME NEW pc \in {"spawn", "fail"}, task' = [task EXCEPT ![t].pc = pc],
             UNCHANGED <<offline, streak>>
      PROVE  IInv'
  <2> DEFINE k == [task[t] EXCEPT !.pc = pc]
  <2>1. task' = [task EXCEPT ![t] = k]
    BY <1>3
  <2>2. IsTask(k) /\ k.pc = pc /\ k.op = task[t].op
    BY <1>1, Fields
  <2> HIDE DEF k
  <2> QED BY <1>1, <1>2, <1>3, <2>1, <2>2, StartMoves DEF StartBlock
<1>4. CASE commit(t)
  <2>1. \/ Started(t)
        \/ Goes(t, "spawn") /\ UNCHANGED <<offline, streak>>
        \/ Goes(t, "fail") /\ UNCHANGED <<offline, streak>>
    BY <1>4 DEF commit
  <2> QED BY <1>1, <1>2, <1>3, <2>1, StartedKeeps DEF Goes
<1>5. CASE spawned(t)
  BY <1>1, <1>2, <1>5, StartedKeeps DEF spawned
<1>6. CASE not_spawned(t)
  BY <1>3, <1>6 DEF not_spawned, Goes
<1>7. CASE start_failed(t)
  BY <1>1, <1>2, <1>7, FailureKeeps DEF start_failed
<1> QED BY <1>4, <1>5, <1>6, <1>7

\* An await that fails.
LEMMA FailsKeeps ==
  ASSUME IInv, NEW t \in Tasks, fails(t)
  PROVE  IInv'
<1>1. UNCHANGED <<row, workers, closed>> /\ Raises(t)
  BY DEF fails, tables
<1>2. task[t].pc \in WorkerPcs
  BY DEF fails, WorkerPcs, Ending, StartBlock
<1> QED BY <1>1, <1>2, FailureKeeps

\* The stop of a recording, for a worker or a caller.
LEMMA StopKeeps ==
  ASSUME IInv, NEW t \in Tasks, stop_lock(t) \/ stopped(t)
  PROVE  IInv'
<1> USE DEF tables, manager
<1>1. UNCHANGED <<row, workers, closed>> /\ task[t].pc \in Ending
  BY DEF stop_lock, stopped, At, Ending
<1>2. \/ task' = [task EXCEPT ![t] = AfterStop(t)] /\ UNCHANGED <<offline, streak>>
      \/ task' = [task EXCEPT ![t] = [task[t] EXCEPT !.pc = "stopping"]] /\ UNCHANGED <<offline, streak>>
      \/ Raises(t)
  BY DEF stop_lock, stopped, Goes, IInv, Types
<1>3. CASE task' = [task EXCEPT ![t] = AfterStop(t)] /\ UNCHANGED <<offline, streak>>
  BY <1>1, <1>3, AfterStopFits, PlainMoves DEF Ending, Inside
<1>4. CASE task' = [task EXCEPT ![t] = [task[t] EXCEPT !.pc = "stopping"]] /\ UNCHANGED <<offline, streak>>
  <2> DEFINE k == [task[t] EXCEPT !.pc = "stopping"]
  <2>1. IsTask(k) /\ k.pc = "stopping" /\ k.op = task[t].op
    BY Fields DEF IInv, Types
  <2> HIDE DEF k
  <2>2. t \in RoomKeys => Fits(t, k)
    BY <1>1, <2>1 DEF IInv, Fits, Ending, WorkerPcs
  <2>3. task' = [task EXCEPT ![t] = k]
    BY <1>4 DEF k
  <2> QED BY <1>1, <1>4, <2>1, <2>2, <2>3, PlainMoves DEF Ending, Inside
<1>5. CASE Raises(t)
  BY <1>1, <1>5, FailureKeeps DEF WorkerPcs
<1> QED BY <1>2, <1>3, <1>4, <1>5

\* A check begins, for a worker, a start or a request.
LEMMA CheckBegins ==
  ASSUME IInv, NEW t \in Tasks, check_locked(t)
  PROVE  IInv'
<1> USE DEF tables, manager
<1>1. /\ UNCHANGED <<row, workers, closed, offline, streak>>
      /\ task[t].pc \in {"check_lock", "start_check"}
  BY DEF check_locked, At
<1> DEFINE k == PcArg(task[t], "page", row[task[t].room].url)
<1>2. task' = [task EXCEPT ![t] = k] /\ IsTask(task[t])
  BY DEF check_locked, IInv, Types, PcArg
<1>3. IsTask(k) /\ k.pc = "page" /\ k.op = task[t].op
  BY <1>2, PcArgShape
<1> HIDE DEF k
<1>4. t \in RoomKeys => task[t].op \in {"iterate", "worker_start"} /\ t \in workers
  BY <1>1, AtWork DEF WorkerPcs, Ending, StartBlock
<1>5. t \in RoomKeys => Fits(t, k)
  BY <1>3, <1>4 DEF Fits, WorkerPcs, WorkerOps
<1> QED BY <1>1, <1>2, <1>3, <1>5, PlainMoves DEF Inside

\* A check ends with an answer or an exception, and what asked for it goes on.
LEMMA CheckKeeps ==
  ASSUME IInv, NEW t \in Tasks, resolve(t) \/ check_raises(t)
  PROVE  IInv'
<1> USE DEF tables
<1>1. UNCHANGED <<row, workers, closed>> /\ task[t].pc = "page" /\ IsTask(task[t])
  BY DEF resolve, check_raises, At, IInv, Types
<1>2. task[t].pc \in WorkerPcs \ Ending
  BY <1>1 DEF WorkerPcs, Ending
<1>3. t \in RoomKeys => task[t].op \in {"iterate", "worker_start"} /\ t \in workers
  BY <1>2, AtWork
<1>4. CASE check_raises(t)
  BY <1>1, <1>2, <1>4, FailureKeeps DEF check_raises
<1>5. ASSUME NEW k, task' = [task EXCEPT ![t] = k], IsTask(k), k.pc \notin Inside,
             t \in RoomKeys => k.pc \in WorkerPcs /\ k.op \in {"iterate", "worker_start"},
             NEW answer, Counted(t, answer) \/ UNCHANGED <<offline, streak>>
      PROVE  IInv'
  <2>1. /\ offline' \in [RoomKeys -> Counts] /\ streak' \in [RoomKeys -> Counts] /\ CountsBelow'
        /\ \A r \in RoomKeys \ {t} : streak'[r] = streak[r]
    BY <1>5, CountedKeeps
  <2>2. t \in RoomKeys => Fits(t, k)'
    BY <1>1, <1>3, <1>5 DEF Fits, WorkerOps
  <2> QED BY <1>1, <1>5, <2>1, <2>2, TaskMoves DEF Inside
<1>6. CASE resolve(t)
  <2>0. PICK answer \in Answers(task[t].arg) :
          /\ \E k \in AfterCheck(t, answer) : task' = [task EXCEPT ![t] = k]
          /\ IF task[t].op = "worker_start" /\ answer = "live" THEN UNCHANGED <<offline, streak>>
             ELSE Counted(t, IF task[t].op = "worker_start" THEN "raised" ELSE answer)
    BY <1>6 DEF resolve
  <2>1. PICK k \in AfterCheck(t, answer) : task' = [task EXCEPT ![t] = k]
    BY <2>0
  <2>2. PICK x : Counted(t, x) \/ UNCHANGED <<offline, streak>>
    BY <2>0
  <2>3. CASE task[t].op = "check"
    <3>1. k = Idle /\ t \notin RoomKeys
      BY <1>3, <2>1, <2>3 DEF AfterCheck
    <3> QED BY <1>5, <2>1, <2>2, <3>1, Shapes DEF Inside
  <2>4. CASE task[t].op = "iterate"
    <3> DEFINE m == PcArg(task[t], "state", answer)
    <3>1. k = m
      BY <2>1, <2>4 DEF AfterCheck, PcArg
    <3>2. IsTask(m) /\ m.pc = "state" /\ m.op = task[t].op
      BY <1>1, PcArgShape
    <3> HIDE DEF m
    <3> QED BY <1>3, <1>5, <2>1, <2>2, <3>1, <3>2 DEF Inside, WorkerPcs
  <2>5. CASE task[t].op \notin {"check", "iterate"} /\ answer = "live"
    <3>1. PICK u : k = PcUrl(PcArg(task[t], "commit", NULL), "commit", u)
      <4>1. k = [task[t] EXCEPT !.pc = "commit", !.arg = NULL,
                                !.url = IF Cached(task[t].url) THEN task[t].url ELSE task[t].arg]
        BY <2>1, <2>5 DEF AfterCheck
      <4> QED BY <4>1 DEF PcUrl, PcArg
    <3> DEFINE m == PcArg(task[t], "commit", NULL)
               n == PcUrl(m, "commit", u)
    <3>2. IsTask(m) /\ m.op = task[t].op
      BY <1>1, PcArgShape
    <3>3. k = n
      BY <3>1
    <3> HIDE DEF m
    <3>4. IsTask(n) /\ n.pc = "commit" /\ n.op = m.op
      BY <3>2, PcUrlShape
    <3> HIDE DEF n
    <3> QED BY <1>3, <1>5, <2>1, <2>2, <3>2, <3>3, <3>4 DEF Inside, WorkerPcs, StartBlock
  <2>6. CASE task[t].op \notin {"check", "iterate"} /\ answer # "live"
    <3>1. k \in AfterRaise(t)
      BY <2>1, <2>6 DEF AfterCheck
    <3>2. \E y : Counted(t, y)
      BY <2>0, <2>6
    <3> QED BY <1>1, <1>2, <2>1, <3>1, <3>2, RaisesKeep
  <2> QED BY <2>3, <2>4, <2>5, <2>6
<1> QED BY <1>4, <1>6

-----------------------------------------------------------------------------
\* A room's worker: only a confirmed offline sends it to a stop.
LEMMA WorkerKeeps ==
  ASSUME IInv, NEW r \in RoomKeys, WorkerStep(r)
  PROVE  IInv'
<1> USE DEF tables, manager
<1>1. r \in Tasks /\ IsTask(task[r]) /\ UNCHANGED <<row, workers, closed, offline, streak>>
  BY DEF WorkerStep, get_room, take_permit, act_on_state, cancelled, Tasks, IInv, Types
<1>2. ASSUME NEW k, task' = [task EXCEPT ![r] = k], IsTask(k), Fits(r, k),
             task[r].pc \in WorkerPcs \cup {"cancelled"}
      PROVE  IInv'
  <2>1. k.pc \notin Inside
    BY <1>2 DEF Fits, WorkerPcs, Ending, StartBlock, Inside
  <2>2. task[r].pc \notin {"none", "discard", "reconcile"} \cup Inside
    BY <1>2 DEF WorkerPcs, Ending, StartBlock, Inside
  <2> QED BY <1>1, <1>2, <2>1, <2>2, PlainMoves
<1>3. CASE get_room(r) \/ take_permit(r)
  <2>1. PICK pc \in {"semaphore", "check_lock", "sleep"} : task' = [task EXCEPT ![r] = [task[r] EXCEPT !.pc = pc]]
    <3>1. CASE get_room(r) /\ r \in Enabled(row)
      BY <3>1 DEF get_room
    <3>2. CASE get_room(r) /\ r \notin Enabled(row)
      <4>1. task[r] = [task[r] EXCEPT !.pc = "sleep"]
        BY <1>1, <3>2 DEF get_room, At, IsTask
      <4> QED BY <3>2, <4>1 DEF get_room
    <3>3. CASE take_permit(r)
      BY <3>3 DEF take_permit, Goes, IInv, Types
    <3> QED BY <1>3, <3>1, <3>2, <3>3
  <2>2. task[r].pc \in {"sleep", "semaphore"}
    BY <1>3 DEF get_room, take_permit, At
  <2>3. r \in workers /\ task[r].op \in {"iterate", "worker_start"}
    BY <2>2, AtWork DEF WorkerPcs, Ending
  <2> DEFINE k == [task[r] EXCEPT !.pc = pc]
  <2>4. IsTask(k) /\ k.pc = pc /\ k.op = task[r].op
    BY <1>1, Fields
  <2> HIDE DEF k
  <2>5. Fits(r, k)
    BY <2>3, <2>4 DEF Fits, WorkerPcs, WorkerOps
  <2>6. task' = [task EXCEPT ![r] = k]
    BY <2>1 DEF k
  <2> QED BY <1>2, <2>2, <2>4, <2>5, <2>6 DEF WorkerPcs
<1>4. CASE act_on_state(r)
  <2>1. task[r].pc = "state"
    BY <1>4 DEF act_on_state, At
  <2>2. r \in workers /\ task[r].op \in {"iterate", "worker_start"}
    BY <2>1, AtWork DEF WorkerPcs, Ending
  <2>3. CASE ToStart(r)
    <3> DEFINE k == PcOp(task[r], "start_lock", "worker_start")
    <3>1. task' = [task EXCEPT ![r] = k]
      BY <1>4, <2>3 DEF act_on_state, PcOp
    <3>2. IsTask(k) /\ k.pc = "start_lock" /\ k.op = "worker_start"
      BY <1>1, PcOpShape
    <3> HIDE DEF k
    <3> QED BY <1>2, <2>1, <2>2, <3>1, <3>2 DEF Fits, WorkerPcs, WorkerOps
  <2>4. CASE ~ToStart(r) /\ ToStop(r)
    <3> DEFINE k == PcOp(task[r], "stop_lock", "confirmed_offline")
    <3>1. task' = [task EXCEPT ![r] = k]
      BY <1>4, <2>4 DEF act_on_state, PcOp
    <3>2. IsTask(k) /\ k.pc = "stop_lock" /\ k.op = "confirmed_offline"
      BY <1>1, PcOpShape
    <3>3. /\ offline[r] >= OfflineConfirmations /\ offline[r] <= streak[r]
          /\ offline[r] \in Nat /\ streak[r] \in Nat /\ OfflineConfirmations \in Nat
      BY <2>4, RoomsAssumption DEF ToStop, IInv, Types, CountsBelow, Counts
    <3>4. streak[r] >= OfflineConfirmations
      BY <3>3
    <3> HIDE DEF k
    <3> QED BY <1>2, <2>1, <2>2, <3>1, <3>2, <3>4 DEF Fits, WorkerPcs, WorkerOps, Ending
  <2>5. CASE ~ToStart(r) /\ ~ToStop(r)
    <3>1. task' = [task EXCEPT ![r] = Asleep(r)]
      BY <1>4, <2>5 DEF act_on_state
    <3>2. Fits(r, Asleep(r))
      BY <2>2, Shapes DEF Fits, WorkerPcs, WorkerOps
    <3> QED BY <1>2, <2>1, <3>1, <3>2, Shapes DEF WorkerPcs
  <2> QED BY <2>3, <2>4, <2>5
<1>5. CASE cancelled(r)
  <2>1. task[r].pc = "cancelled"
    BY <1>5 DEF cancelled, At
  <2>2. r \notin workers
    BY <2>1 DEF IInv, Fits, WorkerPcs, Ending, StartBlock
  <2>3. CASE closed
    <3>1. task' = [task EXCEPT ![r] = NoTask(r)]
      BY <1>5, <2>3 DEF cancelled
    <3>2. Fits(r, NoTask(r))
      BY <2>2, Shapes DEF Fits
    <3> QED BY <1>2, <2>1, <3>1, <3>2, Shapes
  <2>4. CASE ~closed
    <3> DEFINE k == PcOp(task[r], "stop_lock", "removed")
    <3>1. task' = [task EXCEPT ![r] = k]
      BY <1>5, <2>4 DEF cancelled, PcOp
    <3>2. IsTask(k) /\ k.pc = "stop_lock" /\ k.op = "removed"
      BY <1>1, PcOpShape
    <3> HIDE DEF k
    <3> QED BY <1>2, <2>1, <2>2, <3>1, <3>2 DEF Fits, Ending
  <2> QED BY <2>3, <2>4
<1> QED BY <1>3, <1>4, <1>5 DEF WorkerStep

-----------------------------------------------------------------------------
\* A caller's step, whatever it covers.
LEMMA CallerMoves ==
  ASSUME IInv, NEW c \in Callers, NEW k, IsTask(k), task' = [task EXCEPT ![c] = k],
         UNCHANGED <<workers, closed, offline, streak>>,
         task[c].pc # "removing",
         k.pc \notin Inside \/ (k.pc = "listed" /\ k.rooms \subseteq RoomKeys
                               /\ \A d \in Callers : task[d].pc \notin Inside),
         Followed'
  PROVE  IInv'
<1>1. /\ c \in Tasks /\ c \notin RoomKeys /\ task'[c] = k
      /\ \A u \in Tasks \ {c} : task'[u] = task[u]
  BY RoomsAssumption DEF Tasks, IInv, Types
<1>2. Types'
  BY <1>1 DEF IInv, Types
<1>3. CountsBelow' /\ (\A r \in RoomKeys : Fits(r, task[r]))'
  BY <1>1 DEF IInv, CountsBelow, Fits, Tasks
<1>4. \A d \in Callers : d # c => task'[d] = task[d]
  BY <1>1 DEF Tasks
<1>5. OneReconciles'
  BY <1>1, <1>4 DEF IInv, OneReconciles, Inside
<1>6. \A d \in Callers : Removing(d) => Removing(d)'
  BY <1>4 DEF Removing
<1>7. Awaited'
  BY <1>1, <1>6 DEF IInv, Awaited, Tasks
<1> QED BY <1>2, <1>3, <1>5, <1>7 DEF IInv

\* A request begins.
LEMMA CallKeeps ==
  ASSUME IInv, NEW c \in Callers, call(c)
  PROVE  IInv'
<1> USE DEF tables, manager
<1> DEFINE Pcs == {"reconcile", "write", "stop_lock", "previous", "start_lock", "check_lock"}
<1>1. ASSUME NEW op, NEW r, NEW arg, NEW pc \in Pcs, CallBegins(c, op, r, arg, pc)
      PROVE  IInv'
  <2> DEFINE k == PcOpRoomArg(Idle, pc, op, r, arg)
  <2>1. /\ task' = [task EXCEPT ![c] = k] /\ task[c].pc = "idle"
        /\ UNCHANGED <<row, workers, closed, offline, streak>>
    BY <1>1 DEF CallBegins, At, PcOpRoomArg
  <2>2. IsTask(k) /\ k.pc = pc
    BY Shapes, PcOpRoomArgShape
  <2> HIDE DEF k
  <2>3. \A d \in Callers : task'[d] = IF d = c THEN k ELSE task[d]
    BY <2>1 DEF IInv, Types, Tasks
  <2>4. Followed'
    BY <2>1, <2>2, <2>3, FollowedKept DEF IInv, Inside
  <2> QED BY <2>1, <2>2, <2>4, CallerMoves DEF Inside
<1>2. \A op, r, arg : \A pc \in Pcs : CallBegins(c, op, r, arg, pc) => IInv'
  BY <1>1
<1> HIDE DEF Pcs
<1>3. {"reconcile", "write", "stop_lock", "previous", "start_lock", "check_lock"} \subseteq Pcs
  BY DEF Pcs
<1>4. CASE CallBegins(c, "reconcile", NULL, NULL, "reconcile")
  BY <1>2, <1>3, <1>4
<1>5. ASSUME NEW r \in RoomKeys, NEW u \in Urls, NEW on \in BOOLEAN,
             CallBegins(c, "create", r, [url |-> u, enabled |-> on], "write")
      PROVE  IInv'
  BY <1>2, <1>3, <1>5
<1>6. ASSUME NEW r \in RoomKeys, NEW patch \in Patches,
             CallBegins(c, "patch", r, patch, IF StopsFirst(patch) THEN "stop_lock" ELSE "previous")
      PROVE  IInv'
  BY <1>2, <1>3, <1>6
<1>7. ASSUME NEW r \in RoomKeys,
             \/ CallBegins(c, "disable", r, [url |-> NULL, enabled |-> FALSE], "stop_lock")
             \/ CallBegins(c, "enable", r, [url |-> NULL, enabled |-> TRUE], "write")
             \/ CallBegins(c, "start", r, NULL, "start_lock")
             \/ CallBegins(c, "stop", r, NULL, "stop_lock")
             \/ CallBegins(c, "check", r, NULL, "check_lock")
      PROVE  IInv'
  BY <1>2, <1>3, <1>7
<1> QED BY <1>4, <1>5, <1>6, <1>7 DEF call

\* The row as it was is read.
LEMMA PreviousKeeps ==
  ASSUME IInv, NEW c \in Callers, read_previous(c)
  PROVE  IInv'
<1> USE DEF tables, manager
<1> DEFINE k == PcUrl(task[c], "write", row[task[c].room].url)
<1>1. /\ task[c].pc = "previous" /\ UNCHANGED <<row, workers, closed, offline, streak>>
      /\ task' = [task EXCEPT ![c] = k] /\ IsTask(task[c])
  BY DEF read_previous, At, Tasks, IInv, Types, PcUrl
<1>2. IsTask(k) /\ k.pc = "write"
  BY <1>1, PcUrlShape
<1> HIDE DEF k
<1>3. \A d \in Callers : task'[d] = IF d = c THEN k ELSE task[d]
  BY <1>1 DEF IInv, Types, Tasks
<1>4. Followed'
  BY <1>1, <1>2, <1>3, FollowedKept DEF IInv, Inside
<1> QED BY <1>1, <1>2, <1>4, CallerMoves DEF Inside

\* A write that is refused ends the call; any other one is followed by a
\* reconcile of its caller.
LEMMA WriteKeeps ==
  ASSUME IInv, NEW c \in Callers, write(c) \/ discard(c)
  PROVE  IInv'
<1> USE DEF manager
<1>1. /\ task[c].pc \in {"write", "discard"} /\ UNCHANGED <<workers, closed, offline, streak>>
      /\ c \in Tasks /\ IsTask(task[c])
  BY DEF write, discard, At, Tasks, IInv, Types
<1>2. ASSUME NEW k, IsTask(k), task' = [task EXCEPT ![c] = k], k.pc \in {"discard", "reconcile"}
      PROVE  IInv'
  <2>1. task'[c] = k
    BY <1>1, <1>2 DEF IInv, Types
  <2>2. Followed'
    BY <1>2, <2>1 DEF Followed, Announced
  <2> QED BY <1>1, <1>2, <2>2, CallerMoves DEF Inside
<1>3. CASE discard(c)
  BY <1>2, <1>3, Shapes DEF discard
<1>4. CASE write(c) /\ task' = [task EXCEPT ![c] = Idle] /\ UNCHANGED row
  <2>1. task[c].pc = "write"
    BY <1>4 DEF write, At
  <2>2. \A d \in Callers : task'[d] = IF d = c THEN Idle ELSE task[d]
    BY <1>4 DEF IInv, Types, Tasks
  <2>3. Followed'
    BY <1>1, <1>4, <2>1, <2>2, Shapes, FollowedKept DEF IInv, Inside
  <2> QED BY <1>1, <1>4, <2>1, <2>3, Shapes, CallerMoves DEF Inside
<1>5. CASE task' = [task EXCEPT ![c] = Reconciling]
  BY <1>2, <1>5, Shapes
<1>6. CASE task' = [task EXCEPT ![c] = PcArgOp(task[c], "discard", NULL, NULL)]
  BY <1>1, <1>2, <1>6, PcArgOpShape
<1>7. write(c) => \/ task' = [task EXCEPT ![c] = Idle] /\ UNCHANGED row
                  \/ task' = [task EXCEPT ![c] = Reconciling]
                  \/ task' = [task EXCEPT ![c] = PcArgOp(task[c], "discard", NULL, NULL)]
  BY DEF write, PcArgOp
<1> QED BY <1>3, <1>4, <1>5, <1>6, <1>7

\* The list of rooms is read when nobody else has one.
LEMMA ReconcileKeeps ==
  ASSUME IInv, NEW c \in Callers, reconcile(c)
  PROVE  IInv'
<1> USE DEF tables, manager
<1>1. /\ task[c].pc = "reconcile" /\ UNCHANGED <<row, workers, closed, offline, streak>>
      /\ c \in Tasks /\ IsTask(task[c])
  BY DEF reconcile, At, Tasks, IInv, Types
<1>2. CASE ManagerEnabled /\ ~closed
  <2> DEFINE k == PcRooms(task[c], "listed", Enabled(row))
  <2>1. task' = [task EXCEPT ![c] = k]
    BY <1>2 DEF reconcile, PcRooms
  <2>2. IsTask(k) /\ k.pc = "listed" /\ k.rooms = Enabled(row)
    BY <1>1, PcRoomsShape
  <2> HIDE DEF k
  <2>3. \A d \in Callers : task[d].pc \notin Inside
    BY DEF reconcile, ReconcileLockFree, HoldsReconcileLock, Inside, Tasks
  <2>4. Enabled(row) \subseteq RoomKeys
    BY DEF Enabled
  <2>5. \A d \in Callers : task'[d] = IF d = c THEN k ELSE task[d]
    BY <2>1 DEF IInv, Types, Tasks
  <2>6. Followed'
    <3>1. \A d \in Callers : task'[d].pc \in Inside => d = c
      BY <2>3, <2>5
    <3>2. task'[c].pc = "listed" /\ task'[c].rooms = Enabled(row)'
      BY <1>1, <2>2, <2>5 DEF Enabled
    <3> QED BY <3>1, <3>2 DEF Followed, UpToDate, Removing, Inside
  <2> QED BY <1>1, <2>1, <2>2, <2>3, <2>4, <2>6, CallerMoves
<1>3. CASE ~(ManagerEnabled /\ ~closed)
  <2>1. task' = [task EXCEPT ![c] = Idle]
    BY <1>3 DEF reconcile
  <2>2. Followed'
    BY <1>1, <1>3 DEF Followed
  <2> QED BY <1>1, <2>1, <2>2, Shapes, CallerMoves DEF Inside
<1> QED BY <1>2, <1>3

\* Removed workers are cancelled, and waited for.
LEMMA PopKeeps ==
  ASSUME IInv, NEW c \in Callers, pop_removed(c)
  PROVE  IInv'
<1> USE DEF tables
<1> DEFINE k == [task[c] EXCEPT !.pc = "removing"]
           removed == workers \ task[c].rooms
<1>1. /\ task[c].pc = "listed" /\ UNCHANGED <<row, offline, streak, closed>>
      /\ workers' = workers \ removed
      /\ task' = [t \in Tasks |-> IF t = c THEN k ELSE IF t \in removed THEN Cancelled(t) ELSE task[t]]
  BY DEF pop_removed, At
<1>2. /\ c \in Tasks /\ c \notin RoomKeys /\ RoomKeys \subseteq Tasks /\ Callers \subseteq Tasks
      /\ RoomKeys \cap Callers = {} /\ workers \subseteq RoomKeys
  BY RoomsAssumption DEF Tasks, IInv, Types
<1>3. IsTask(k) /\ k.pc = "removing" /\ k.rooms = task[c].rooms
  BY <1>2, Fields DEF IInv, Types
<1> HIDE DEF k
<1>4. /\ task'[c] = k /\ \A t \in removed : task'[t] = Cancelled(t)
      /\ \A t \in Tasks : t # c /\ t \notin removed => task'[t] = task[t]
  BY <1>1, <1>2
<1>5. Types'
  <2>1. \A t \in Tasks : IsTask(task'[t])
    BY <1>3, <1>4, Shapes DEF IInv, Types
  <2> QED BY <1>1, <1>2, <2>1 DEF IInv, Types
<1>6. CountsBelow'
  BY <1>1 DEF IInv, CountsBelow
<1>7. (\A r \in RoomKeys : Fits(r, task[r]))'
  <2>1. ASSUME NEW r \in removed PROVE Fits(r, task[r])'
    BY <1>1, <1>4, <2>1, Shapes DEF Fits
  <2>2. ASSUME NEW r \in RoomKeys \ removed PROVE Fits(r, task[r])'
    BY <1>1, <1>2, <1>4, <2>2 DEF IInv, Fits
  <2> QED BY <2>1, <2>2
<1>8. \A d \in Callers : d # c => task'[d] = task[d]
  BY <1>2, <1>4
<1>9. OneReconciles'
  BY <1>1, <1>3, <1>4, <1>8 DEF IInv, OneReconciles, Inside
<1>10. Removing(c)'
  BY <1>3, <1>4 DEF Removing
<1>11. Awaited'
  BY <1>10 DEF Awaited
<1>12. Followed'
  <2>1. \A d \in Callers : task'[d].pc \in Inside => d = c
    BY <1>1, <1>8 DEF IInv, OneReconciles, Inside
  <2>2. \A d \in Callers : Announced(d) => Announced(d)'
    BY <1>1, <1>8 DEF Announced
  <2>3. UpToDate(c) => UpToDate(c)'
    BY <1>1, <1>3, <1>4 DEF UpToDate, Enabled
  <2>4. task'[c].pc \in Inside /\ task[c].pc \in Inside
    BY <1>1, <1>3, <1>4 DEF Inside
  <2> QED BY <1>1, <2>1, <2>2, <2>3, <2>4 DEF IInv, Followed
<1> QED BY <1>5, <1>6, <1>7, <1>9, <1>11, <1>12 DEF IInv

\* All of them have ended when new workers are made.
LEMMA CreateKeeps ==
  ASSUME IInv, NEW c \in Callers, create_workers(c)
  PROVE  IInv'
<1> USE DEF tables
<1> DEFINE new == task[c].rooms \ workers
           again == {r \in task[c].rooms : task[r].pc = "died"}
<1>1. /\ task[c].pc = "removing" /\ UNCHANGED <<row, streak, closed>>
      /\ workers' = workers \cup new
      /\ offline' = [r \in RoomKeys |-> IF r \in new THEN 0 ELSE offline[r]]
      /\ task' = [t \in Tasks |-> IF t = c THEN Idle
                             ELSE IF t \in new \cup again THEN Asleep(t) ELSE task[t]]
      /\ \A r \in RoomKeys \ workers : task[r].pc = "none"
  BY DEF create_workers, At, RemovedStopped
<1>2. /\ c \in Tasks /\ c \notin RoomKeys /\ RoomKeys \subseteq Tasks /\ Callers \subseteq Tasks
      /\ RoomKeys \cap Callers = {} /\ workers \subseteq RoomKeys
  BY RoomsAssumption DEF Tasks, IInv, Types
<1>3. task[c].rooms \subseteq RoomKeys /\ again \subseteq workers
  <2>1. task[c].rooms \subseteq RoomKeys
    BY <1>1 DEF IInv, OneReconciles, Inside
  <2> QED BY <1>1, <2>1
<1> HIDE DEF again
<1>4. /\ task'[c] = Idle /\ \A t \in new \cup again : task'[t] = Asleep(t)
      /\ \A t \in Tasks : t # c /\ t \notin new \cup again => task'[t] = task[t]
  BY <1>1, <1>2, <1>3
<1>5. 0 \in Counts /\ Counts \subseteq Nat
  BY RoomsAssumption DEF Counts
<1>6. Types'
  <2>1. \A t \in Tasks : IsTask(task'[t])
    BY <1>4, Shapes DEF IInv, Types
  <2>2. offline' \in [RoomKeys -> Counts]
    BY <1>1, <1>5 DEF IInv, Types
  <2> QED BY <1>1, <1>2, <1>3, <2>1, <2>2 DEF IInv, Types
<1>7. CountsBelow'
  <2>1. \A r \in RoomKeys : streak[r] \in Nat /\ 0 <= streak[r] /\ offline[r] <= streak[r]
    BY <1>5 DEF IInv, Types, CountsBelow
  <2> QED BY <1>1, <2>1 DEF CountsBelow
<1>8. (\A r \in RoomKeys : Fits(r, task[r]))'
  <2>1. ASSUME NEW r \in new \cup again PROVE Fits(r, task[r])'
    BY <1>1, <1>3, <1>4, <2>1, Shapes DEF Fits, WorkerPcs, WorkerOps
  <2>2. ASSUME NEW r \in RoomKeys \ (new \cup again) PROVE Fits(r, task[r])'
    BY <1>1, <1>2, <1>4, <2>2 DEF IInv, Fits
  <2> QED BY <2>1, <2>2
<1>9. \A d \in Callers : d # c => task'[d] = task[d]
  BY <1>2, <1>3, <1>4
<1>10. \A d \in Callers : task'[d].pc \notin Inside
  BY <1>1, <1>4, <1>9, Shapes DEF IInv, OneReconciles, Inside
<1>11. OneReconciles'
  BY <1>10 DEF OneReconciles
<1>12. Awaited'
  <2>1. \A r \in RoomKeys \ workers' : task'[r].pc = "none"
    BY <1>1, <1>2, <1>3, <1>4
  <2> QED BY <2>1 DEF Awaited
<1>13. Followed'
  <2>1. \A d \in Callers : Announced(d) => Announced(d)'
    BY <1>1, <1>9 DEF Announced
  <2>2. UpToDate(c) => workers' = Enabled(row)'
    BY <1>1 DEF UpToDate, Removing, Enabled
  <2>3. task[c].pc \in Inside
    BY <1>1 DEF Inside
  <2> QED BY <1>1, <1>10, <2>1, <2>2, <2>3 DEF IInv, Followed
<1> QED BY <1>6, <1>7, <1>8, <1>11, <1>12, <1>13 DEF IInv

-----------------------------------------------------------------------------
\* close cancels every worker.
LEMMA CloseKeeps ==
  ASSUME IInv, close
  PROVE  IInv'
<1>1. /\ closed' /\ workers' = {} /\ UNCHANGED <<row, offline, streak>>
      /\ \A c \in Callers : task[c].pc = "idle"
      /\ task' = [t \in Tasks |-> IF t \in workers THEN Cancelled(t) ELSE task[t]]
  BY DEF close, At, tables
<1>2. RoomKeys \subseteq Tasks /\ Callers \subseteq Tasks /\ RoomKeys \cap Callers = {} /\ workers \subseteq RoomKeys
  BY RoomsAssumption DEF Tasks, IInv, Types
<1>3. \A t \in Tasks : task'[t] = IF t \in workers THEN Cancelled(t) ELSE task[t]
  BY <1>1
<1>4. Types'
  <2>1. \A t \in Tasks : IsTask(task'[t])
    BY <1>3, Shapes DEF IInv, Types
  <2> QED BY <1>1, <2>1 DEF IInv, Types
<1>5. (\A r \in RoomKeys : Fits(r, task[r]))'
  <2>1. ASSUME NEW r \in workers PROVE Fits(r, task[r])'
    BY <1>1, <1>2, <1>3, <2>1, Shapes DEF Fits
  <2>2. ASSUME NEW r \in RoomKeys \ workers PROVE Fits(r, task[r])'
    BY <1>1, <1>2, <1>3, <2>2 DEF IInv, Fits
  <2> QED BY <2>1, <2>2
<1>6. \A c \in Callers : task'[c].pc \notin Inside
  BY <1>1, <1>2, <1>3 DEF Inside
<1> QED BY <1>1, <1>4, <1>5, <1>6 DEF IInv, CountsBelow, OneReconciles, Awaited, Followed

\* What happens to recordings, the cache and the air.
LEMMA WorldKeeps ==
  ASSUME IInv, UNCHANGED <<row, manager, task>>
  PROVE  IInv'
BY DEF manager, IInv, Types, CountsBelow, Fits, OneReconciles, Awaited, Removing, Followed, Announced,
       UpToDate, Enabled

\* So every step keeps the invariant.
LEMMA StepKeeps ==
  ASSUME IInv, [Next]_vars
  PROVE  IInv'
<1>1. ASSUME NEW t \in Tasks, TaskStep(t) PROVE IInv'
  BY <1>1, StartBegins, StartKeeps, StopKeeps, FailsKeeps, CheckBegins, CheckKeeps DEF TaskStep
<1>2. ASSUME NEW c \in Callers, CallerStep(c) \/ call(c) PROVE IInv'
  BY <1>2, ReconcileKeeps, PopKeeps, CreateKeeps, PreviousKeeps, WriteKeeps, CallKeeps DEF CallerStep
<1>3. CASE \/ UNCHANGED vars \/ cache_expires \/ broadcast \/ recovers
           \/ \E r \in RoomKeys : recording_exits(r) \/ recording_ended(r)
  <2>1. UNCHANGED <<row, manager, task>>
    BY <1>3 DEF vars, cache_expires, broadcast, recovers, recording_exits, recording_ended, tables, manager
  <2> QED BY <2>1, WorldKeeps
<1> QED BY <1>1, <1>2, <1>3, WorkerKeeps, CloseKeeps DEF Next

\* It holds when the first workers were made.
LEMMA InitHolds ==
  ASSUME Init
  PROVE  IInv
<1>1. RoomKeys \subseteq Tasks /\ Callers \subseteq Tasks /\ RoomKeys \cap Callers = {}
      /\ workers \subseteq RoomKeys /\ 0 \in Counts /\ 0 <= 0
  BY RoomsAssumption DEF Init, Tasks, Enabled, Counts
<1>2. /\ task = [t \in Tasks |-> IF t \in workers THEN Asleep(t)
                                 ELSE IF t \in RoomKeys THEN NoTask(t) ELSE Idle]
      /\ offline = [r \in RoomKeys |-> 0] /\ streak = [r \in RoomKeys |-> 0]
      /\ ManagerEnabled => workers = Enabled(row)
  BY DEF Init
<1>3. \A t \in Tasks : task[t] = IF t \in workers THEN Asleep(t)
                                 ELSE IF t \in RoomKeys THEN NoTask(t) ELSE Idle
  BY <1>2
<1>4. Types /\ CountsBelow
  <2>1. \A t \in Tasks : IsTask(task[t])
    BY <1>3, Shapes
  <2> QED BY <1>1, <1>2, <2>1 DEF Types, CountsBelow
<1>5. ASSUME NEW r \in RoomKeys PROVE Fits(r, task[r])
  BY <1>1, <1>3, Shapes DEF Fits, WorkerPcs, WorkerOps
<1>6. \A c \in Callers : task[c].pc = "idle"
  BY <1>1, <1>3, Shapes
<1>7. \A r \in RoomKeys \ workers : task[r].pc = "none"
  BY <1>1, <1>3, Shapes
<1> QED BY <1>2, <1>4, <1>5, <1>6, <1>7 DEF IInv, OneReconciles, Awaited, Followed, Inside

\* It holds in every state of the room manager.
LEMMA Inductive == Spec => []IInv
BY InitHolds, StepKeeps, PTL DEF Spec

\* However calls and their reconciles meet: once every call has returned, the
\* enabled rooms and no others have a worker, and no other room has a task.
THEOREM WorkersFollowRooms == Spec => []Settled
<1>1. ASSUME IInv PROVE Settled
  <2> SUFFICES ASSUME ManagerEnabled, Quiet
               PROVE  /\ workers = Enabled(row)
                      /\ \A r \in RoomKeys : (task[r].pc # "none") <=> (r \in workers)
    BY DEF Settled
  <2>1. ~closed /\ \A c \in Callers : task[c].pc = "idle"
    BY DEF Quiet, At
  <2>2. workers = Enabled(row)
    BY <1>1, <2>1 DEF IInv, Followed, Announced, Inside
  <2>3. \A r \in RoomKeys \ workers : task[r].pc = "none"
    BY <1>1, <2>1 DEF IInv, Awaited, Removing
  <2>4. \A r \in RoomKeys : r \in workers => task[r].pc # "none"
    BY <1>1 DEF IInv, Fits, WorkerPcs, Ending, StartBlock
  <2> QED BY <2>2, <2>3, <2>4
<1> QED BY <1>1, Inductive, PTL

\* No failure, unknown answer or restart of a worker in between counts as
\* offline: a worker's stop follows that many offline checks in a row.
THEOREM OnlyConfirmedStops == Spec => []OfflineIsConfirmed
<1>1. ASSUME IInv PROVE OfflineIsConfirmed
  BY <1>1 DEF IInv, Fits, OfflineIsConfirmed
<1> QED BY <1>1, Inductive, PTL
=============================================================================

---------------------------- MODULE RoomManager ----------------------------
(***************************************************************************)
(* The room manager (app/manager/service.py) with the rooms, their HTTP    *)
(* handlers (app/api/rooms.py, api/recording.py, api/manager.py), the room *)
(* service and the resolver's cache of stream candidates, around an        *)
(* abstract recording service: a room's lock, its entry, the session's row *)
(* and the awaits of a start, a stop that takes effect later.  Module      *)
(* Recording has that service in detail.                                   *)
(*                                                                         *)
(* Every asyncio task is a process: one worker per room and the callers of *)
(* the API.  A step ends at an await.  A lock or a permit is held by the   *)
(* tasks whose program counter lies inside its block, so releasing it is   *)
(* leaving the block, cancelled or not.                                    *)
(***************************************************************************)
EXTENDS Naturals, Sequences, FiniteSets, SequencesExt

CONSTANTS RoomKeys,             \* the rooms' keys
          Urls,                 \* normalized room URLs
          Callers,              \* concurrent API requests
          MaxParallelChecks,    \* permits of _check_semaphore
          OfflineConfirmations, \* offline checks before a recording is stopped
          MaxCached,            \* max_cached_rooms of the resolver
          MaxCalls,             \* bound: API calls of one behaviour
          MaxBroadcasts,        \* bound: how often broadcasts begin or end
          Patches,              \* bound: the bodies of PATCH requests
          ManagerEnabled,       \* settings.room_manager_enabled
          NULL

\* What a task works on: its worker's iteration and what follows from it, the
\* stop after a removal, or a call of the API.
Operations == {"iterate", "worker_start", "confirmed_offline", "removed", "reconcile", "create",
               "patch", "disable", "enable", "start", "stop", "check"}

ASSUME RoomsAssumption ==
    /\ MaxParallelChecks \in Nat \ {0} /\ OfflineConfirmations \in Nat \ {0}
    /\ MaxCached \in Nat \ {0} /\ MaxCalls \in Nat /\ MaxBroadcasts \in Nat
    /\ ManagerEnabled \in BOOLEAN /\ RoomKeys \cap Callers = {} /\ NULL \notin Operations
    /\ Patches \subseteq [url : Urls \cup {NULL}, enabled : BOOLEAN \cup {NULL}]

VARIABLES row,        \* room key -> row of table rooms, or NULL
          cache,      \* URLs with fresh candidates, least recently used first
          workers,    \* DOMAIN of RoomManager._workers
          offline,    \* room key -> consecutive_offline of its runtime
          task,       \* task -> where it is and what it works on
          recording,  \* room key -> entry of the recording service, or NULL
          active,     \* rooms whose last session row is active
          closed,     \* RoomManager._closed
          failing,    \* whether the database, the pages or FFmpeg may fail
          air,        \* URLs whose room is broadcasting
          streak,     \* room key -> offline results in a row, whoever ran the worker
          calls, turns

vars == <<row, cache, workers, offline, task, recording, active, closed, failing, air, streak, calls, turns>>
tables == <<row, cache>>
recordings == <<recording, active>>
manager == <<workers, offline, streak, closed>>
world == <<failing, air, turns, calls>>

Tasks == RoomKeys \cup Callers
Idle == [pc |-> "idle", op |-> NULL, room |-> NULL, arg |-> NULL, url |-> NULL, rooms |-> {}]
NoTask(r) == [Idle EXCEPT !.pc = "none", !.room = r]
Asleep(r) == [Idle EXCEPT !.pc = "sleep", !.op = "iterate", !.room = r]
Died(r) == [Idle EXCEPT !.pc = "died", !.room = r]
Reconciling == [Idle EXCEPT !.pc = "reconcile"]

Enabled(rows) == {r \in RoomKeys : rows[r] # NULL /\ rows[r].enabled}
At(t, pc) == task[t].pc = pc
Goes(t, pc) == task' = [task EXCEPT ![t].pc = pc]

\* Who is inside `async with': the room's lock and the check lock of a room, the
\* manager's reconcile lock, the semaphore (workers' iterations only).
StartBlock == {"start_read", "start_check", "commit", "spawn", "fail"}
HoldsRoomLock(t, r) ==
    /\ task[t].room = r
    /\ \/ task[t].pc \in StartBlock
       \/ At(t, "page") /\ task[t].op \in {"start", "worker_start"}
HoldsCheckLock(t, r) == task[t].room = r /\ At(t, "page")
\* Mistake: reconcile takes no lock.
ReconcilesUnlocked(t) == FALSE
HoldsReconcileLock(t) == task[t].pc \in {"listed", "removing"}
HoldsPermit(t) == task[t].op = "iterate" /\ task[t].pc \in {"check_lock", "page"}
RoomLockFree(r) == \A t \in Tasks : ~HoldsRoomLock(t, r)
CheckLockFree(r) == \A t \in Tasks : ~HoldsCheckLock(t, r)
ReconcileLockFree == \A t \in Tasks : ~HoldsReconcileLock(t)

-----------------------------------------------------------------------------
(* The candidate cache: OrderedDict in least-recently-used order.          *)

Cached(u) == u \in ToSet(cache)
Touched(u) == Append(Remove(cache, u), u)
Stored(u) == LET c == Touched(u)
             IN  IF Len(c) > MaxCached THEN Tail(c) ELSE c
Discarded(u) == Remove(cache, u)

-----------------------------------------------------------------------------
(* Recording service.  A start holds the room's lock to its end.           *)

\* An entry of _active: its supervisor has no process yet, FFmpeg runs, or it
\* has exited and the session is finalized.  `stops' holds the tasks that asked
\* this entry to stop.
Starting(u) == [url |-> u, state |-> "starting", stops |-> {}]
InState(r, state) == recording[r] # NULL /\ recording[r].state = state
Running(r) == InState(r, "running")
StoppedBy(r, t) == recording[r] # NULL /\ t \in recording[r].stops

\* Mistake: a worker that has started a recording ends.
EndsAfterStart(t) == IF task[t].op = "start" THEN Idle ELSE NoTask(task[t].room)

\* The task goes on with what called start_recording.
AfterStart(t) == IF task[t].op = "start" THEN Idle ELSE Asleep(task[t].room)

\* What a task may do after an error: a worker's handler of errors reads the
\* recording's state and the room, and another error there ends the worker; a
\* removal ignores the error, a call answers with it.
AfterRaise(t) ==
    IF task[t].op \in {"iterate", "worker_start", "confirmed_offline"}
    THEN {Asleep(task[t].room)} \cup (IF failing THEN {Died(task[t].room)} ELSE {})
    ELSE IF task[t].op = "removed" THEN {NoTask(task[t].room)} ELSE {Idle}

\* Mistake: an error or an unknown answer leaves the count as it is.
CountedOn(t, answer) ==
    IF t \in RoomKeys
    THEN /\ offline' = [offline EXCEPT ![t] = IF answer = "offline" /\ @ < OfflineConfirmations THEN @ + 1
                                              ELSE IF answer = "live" THEN 0 ELSE @]
         /\ streak' = [streak EXCEPT ![t] = IF answer # "offline" THEN 0
                                            ELSE IF @ < OfflineConfirmations THEN @ + 1 ELSE @]
    ELSE UNCHANGED <<offline, streak>>

\* Counters of a worker's runtime at the end of its check and after an error;
\* what runs in another task leaves them alone.
Counted(t, answer) ==
    LET next(n) == IF answer = "offline" /\ n < OfflineConfirmations THEN n + 1
                   ELSE IF answer = "offline" THEN n ELSE 0
    IN  IF t \in RoomKeys
        THEN /\ offline' = [offline EXCEPT ![t] = next(@)]
             /\ streak' = [streak EXCEPT ![t] = next(@)]
        ELSE UNCHANGED <<offline, streak>>

\* An operation of a task ends in an error.
Raises(t) ==
    /\ \E next \in AfterRaise(t) : task' = [task EXCEPT ![t] = next]
    /\ Counted(t, "raised")

\* A start, or one that found the room being recorded, ends with a read of the
\* recording's state, which may fail.
Started(t) ==
    \/ task' = [task EXCEPT ![t] = AfterStart(t)] /\ UNCHANGED <<offline, streak>>
    \/ failing /\ Raises(t)

start_lock(t) ==
    LET r == task[t].room IN
    /\ At(t, "start_lock") /\ RoomLockFree(r)
    /\ IF recording[r] # NULL /\ ~InState(r, "finalized") THEN Started(t)
       ELSE /\ task' = [task EXCEPT ![t] = [@ EXCEPT !.pc = "start_read", !.arg = NULL]]
            /\ UNCHANGED <<offline, streak>>
    /\ UNCHANGED <<tables, workers, closed, recordings, world>>

\* The row, and the cached candidates of its URL; without them a check of its
\* own, outside the semaphore, that reads the row again.
start_read(t) ==
    LET r == task[t].room  u == row[r].url IN
    /\ At(t, "start_read")
    /\ IF r \notin Enabled(row) THEN Raises(t)
       ELSE /\ task' = [task EXCEPT ![t] =
                   [@ EXCEPT !.pc = IF Cached(u) THEN "commit" ELSE "start_check", !.url = u]]
            /\ UNCHANGED <<offline, streak>>
    /\ cache' = IF r \in Enabled(row) /\ Cached(u) THEN Touched(u) ELSE cache
    /\ UNCHANGED <<row, workers, closed, recordings, world>>

\* The session's row is committed, which an active one refuses.  Then, before the
\* next await, the entry is published, or the FFmpeg plan cannot be made.
commit(t) ==
    LET r == task[t].room IN
    /\ At(t, "commit")
    /\ active' = active \cup {r}
    /\ \/ r \in active /\ Started(t) /\ UNCHANGED recording
       \/ /\ r \notin active
          /\ recording' = [recording EXCEPT ![r] = Starting(task[t].url)]
          /\ Goes(t, "spawn")
          /\ UNCHANGED <<offline, streak>>
       \/ /\ r \notin active /\ failing
          /\ Goes(t, "fail")
          /\ UNCHANGED <<recording, offline, streak>>
    /\ UNCHANGED <<tables, workers, closed, world>>

\* FFmpeg runs and has its wait task.
spawned(t) ==
    /\ At(t, "spawn")
    /\ recording' = [recording EXCEPT ![task[t].room].state = "running"]
    /\ Started(t)
    /\ UNCHANGED <<tables, workers, closed, active, world>>

not_spawned(t) ==
    /\ At(t, "spawn") /\ failing
    /\ recording' = [recording EXCEPT ![task[t].room] = NULL]
    /\ Goes(t, "fail")
    /\ UNCHANGED <<tables, manager, active, world>>

\* _fail_started_session: the row is ended, or that is refused or fails.
start_failed(t) ==
    /\ At(t, "fail")
    /\ Raises(t)
    /\ active' \in {active, active \ {task[t].room}}
    /\ UNCHANGED <<tables, workers, closed, recording, world>>

\* stop_recording: the reason is set under the lock; FFmpeg is stopped and the
\* session finalized after it was released.
AfterStop(t) ==
    CASE task[t].op = "stop" -> Idle
      [] task[t].op = "disable" -> [task[t] EXCEPT !.pc = "write"]
      [] task[t].op = "patch" -> [task[t] EXCEPT !.pc = "previous"]
      [] task[t].op = "removed" -> NoTask(task[t].room)
      [] OTHER -> Asleep(task[t].room)

\* The supervisor of an entry whose start was cancelled has no process: it raises.
stop_lock(t) ==
    LET r == task[t].room IN
    /\ At(t, "stop_lock") /\ RoomLockFree(r)
    /\ IF Running(r)
       THEN /\ recording' = [recording EXCEPT ![r].stops = @ \cup {t}]
            /\ Goes(t, "stopping")
            /\ UNCHANGED <<offline, streak>>
       ELSE /\ IF InState(r, "starting") THEN Raises(t)
               ELSE task' = [task EXCEPT ![t] = AfterStop(t)] /\ UNCHANGED <<offline, streak>>
            /\ UNCHANGED recording
    /\ UNCHANGED <<tables, workers, closed, active, world>>

\* The entry this task stops has been finalized, and dropped under the room's lock.
stopped(t) ==
    LET r == task[t].room IN
    /\ At(t, "stopping") /\ RoomLockFree(r)
    /\ ~StoppedBy(r, t)
    /\ task' = [task EXCEPT ![t] = AfterStop(t)]
    /\ UNCHANGED <<tables, manager, recordings, world>>

\* FFmpeg exits, because it was asked to or by itself; its session is ended, or
\* that is refused or fails.  An entry that is finalized is as good as none.
recording_exits(r) ==
    /\ Running(r)
    /\ recording' = [recording EXCEPT ![r].state = "finalized"]
    /\ UNCHANGED <<tables, manager, task, active, world>>

recording_ended(r) ==
    /\ InState(r, "finalized")
    /\ recording' = [recording EXCEPT ![r] = NULL]
    /\ active' \in {active, active \ {r}}
    /\ UNCHANGED <<tables, manager, task, world>>

\* A read or a write fails at an await of a worker's iteration, of a start or of a
\* stop.  A start may have committed its row; a stop fails after the exit.
fails(t) ==
    LET r == task[t].room IN
    /\ failing /\ task[t].pc \in {"sleep", "state", "start_read", "commit", "stop_lock", "stopping"}
    /\ ~(At(t, "stopping") /\ Running(r) /\ StoppedBy(r, t))
    /\ active' \in IF At(t, "commit") THEN {active, active \cup {r}} ELSE {active}
    /\ Raises(t)
    /\ UNCHANGED <<tables, workers, closed, recording, world>>

-----------------------------------------------------------------------------
(* RoomService.check_room, for a worker, a start and the check action.     *)

check_locked(t) ==
    LET r == task[t].room IN
    /\ At(t, "check_lock") \/ At(t, "start_check")
    /\ CheckLockFree(r)
    /\ task' = [task EXCEPT ![t].pc = "page", ![t].arg = row[r].url]
    /\ UNCHANGED <<tables, manager, recordings, world>>

\* What the page and the browser say.  Only a broadcasting room has candidates;
\* a room that is not may be offline, or nobody can tell.
Answers(u) == IF u \in air THEN {"live"} ELSE {"offline", "unknown"}

\* A start goes on with the candidates of the URL it read or, when there are
\* none, of the URL that was checked.
AfterCheck(t, answer) ==
    CASE task[t].op = "check" -> {Idle}
      [] task[t].op = "iterate" -> {[task[t] EXCEPT !.pc = "state", !.arg = answer]}
      [] task[t].op \notin {"check", "iterate"} /\ answer = "live" ->
             {[task[t] EXCEPT !.pc = "commit", !.arg = NULL,
                              !.url = IF Cached(@) THEN @ ELSE task[t].arg]}
      [] OTHER -> AfterRaise(t)

\* The resolver answers, the check's row is written, check_room returns.
resolve(t) ==
    LET u == task[t].arg IN
    /\ At(t, "page")
    /\ cache' = IF u \in air THEN Stored(u) ELSE Discarded(u)
    /\ \E answer \in Answers(u) :
        /\ \E next \in AfterCheck(t, answer) : task' = [task EXCEPT ![t] = next]
        /\ IF task[t].op = "worker_start" /\ answer = "live" THEN UNCHANGED <<offline, streak>>
           ELSE Counted(t, IF task[t].op = "worker_start" THEN "raised" ELSE answer)
    /\ UNCHANGED <<row, workers, closed, recordings, world>>

\* The page, the browser or the write of the check raises.
check_raises(t) ==
    /\ At(t, "page") /\ failing
    /\ Raises(t)
    /\ UNCHANGED <<tables, workers, closed, recordings, world>>

-----------------------------------------------------------------------------
(* A room's worker.                                                        *)

\* An iteration begins, after the delay or because it was woken.
get_room(r) ==
    /\ At(r, "sleep")
    /\ task' = [task EXCEPT ![r] = IF r \in Enabled(row) THEN [@ EXCEPT !.pc = "semaphore"] ELSE @]
    /\ UNCHANGED <<tables, manager, recordings, world>>

take_permit(r) ==
    /\ At(r, "semaphore")
    /\ Cardinality({q \in RoomKeys : HoldsPermit(q)}) < MaxParallelChecks
    /\ Goes(r, "check_lock")
    /\ UNCHANGED <<tables, manager, recordings, world>>

\* get_state: the row of the room's last session is active.
get_state(r) == r \in active
\* What the answer of the check asks for, given that.
ToStart(r) == task[r].arg = "live" /\ ~get_state(r)
ToStop(r) ==
    /\ task[r].arg = "offline" /\ get_state(r)
    /\ offline[r] >= OfflineConfirmations
act_on_state(r) ==
    /\ At(r, "state")
    /\ task' = [task EXCEPT ![r] =
           IF ToStart(r) THEN [@ EXCEPT !.pc = "start_lock", !.op = "worker_start"]
           ELSE IF ToStop(r) THEN [@ EXCEPT !.pc = "stop_lock", !.op = "confirmed_offline"]
           ELSE Asleep(r)]
    /\ UNCHANGED <<tables, manager, recordings, world>>

\* Mistake: a removed worker is not cancelled.
NotCancelled(r) == task[r]

\* A cancelled task leaves every block it was in.
Cancelled(r) == [NoTask(r) EXCEPT !.pc = "cancelled"]

\* Of the starts that are cancelled while the database writes, some have written:
\* the row of a session, or its end.  An entry that is being started stays.
CancelsWrites(cancelledTasks) ==
    \E done \in SUBSET {r \in cancelledTasks : task[r].pc \in {"commit", "fail"}} :
        active' = (active \cup {r \in done : At(r, "commit")}) \ {r \in done : At(r, "fail")}

\* Its finally blocks have run.  A worker that reconcile removed is followed by
\* the stop of the room's recording (_stop_worker).
cancelled(r) ==
    /\ At(r, "cancelled")
    /\ task' = [task EXCEPT ![r] = IF closed THEN NoTask(r)
                                   ELSE [@ EXCEPT !.pc = "stop_lock", !.op = "removed"]]
    /\ UNCHANGED <<tables, manager, recordings, world>>

-----------------------------------------------------------------------------
(* Reconcile, at the end of every call that changes a room.                *)

\* The reconcile lock, and the list of rooms.
reconcile(c) ==
    /\ At(c, "reconcile") /\ ReconcileLockFree
    /\ task' = [task EXCEPT ![c] = IF ManagerEnabled /\ ~closed
                                   THEN [@ EXCEPT !.pc = "listed", !.rooms = Enabled(row)]
                                   ELSE Idle]
    /\ UNCHANGED <<tables, manager, recordings, world>>

\* Workers of rooms that are not enabled leave _workers and are cancelled.
pop_removed(c) ==
    LET removed == workers \ task[c].rooms IN
    /\ At(c, "listed")
    /\ workers' = workers \ removed
    /\ task' = [t \in Tasks |-> IF t = c THEN [task[c] EXCEPT !.pc = "removing"]
                                ELSE IF t \in removed THEN Cancelled(t)
                                ELSE task[t]]
    /\ CancelsWrites(removed)
    /\ UNCHANGED <<tables, offline, streak, closed, recording, world>>

\* All of them stopped: every listed room without a worker gets one, and one whose
\* worker has died a new task.
RemovedStopped == \A r \in RoomKeys \ workers : task[r].pc = "none"
create_workers(c) ==
    LET new == task[c].rooms \ workers
        again == {r \in task[c].rooms : At(r, "died")}
    IN
    /\ At(c, "removing") /\ RemovedStopped
    /\ workers' = workers \cup new
    /\ offline' = [r \in RoomKeys |-> IF r \in new THEN 0 ELSE offline[r]]
    /\ task' = [t \in Tasks |-> IF t = c THEN Idle
                                ELSE IF t \in new \cup again THEN Asleep(t) ELSE task[t]]
    /\ UNCHANGED <<tables, streak, closed, recordings, world>>

-----------------------------------------------------------------------------
(* The API.  A patch of None for a field leaves the field alone.           *)

StopsFirst(patch) == patch.url # NULL \/ patch.enabled = FALSE
Exists(r) == row[r] # NULL
UrlTaken(u, r) == \E q \in RoomKeys \ {r} : row[q] # NULL /\ row[q].url = u

CallBegins(c, op, r, arg, pc) ==
    /\ At(c, "idle") /\ ~closed /\ calls < MaxCalls
    /\ calls' = calls + 1
    /\ task' = [task EXCEPT ![c] = [Idle EXCEPT !.pc = pc, !.op = op, !.room = r, !.arg = arg]]
    /\ UNCHANGED <<tables, manager, recordings, failing, air, turns>>

call(c) ==
    \/ CallBegins(c, "reconcile", NULL, NULL, "reconcile")
    \/ \E r \in RoomKeys :
        \/ /\ ~Exists(r)
           /\ \E u \in Urls, on \in BOOLEAN :
                 CallBegins(c, "create", r, [url |-> u, enabled |-> on], "write")
        \/ /\ Exists(r)
           /\ \E patch \in Patches :
                 CallBegins(c, "patch", r, patch,
                            IF StopsFirst(patch) THEN "stop_lock" ELSE "previous")
        \/ Exists(r) /\ CallBegins(c, "disable", r, [url |-> NULL, enabled |-> FALSE], "stop_lock")
        \/ Exists(r) /\ CallBegins(c, "enable", r, [url |-> NULL, enabled |-> TRUE], "write")
        \/ Exists(r) /\ CallBegins(c, "start", r, NULL, "start_lock")
        \/ Exists(r) /\ CallBegins(c, "stop", r, NULL, "stop_lock")
        \/ Exists(r) /\ CallBegins(c, "check", r, NULL, "check_lock")

\* update_room reads the row before it writes.
read_previous(c) ==
    /\ At(c, "previous")
    /\ task' = [task EXCEPT ![c].pc = "write", ![c].url = row[task[c].room].url]
    /\ UNCHANGED <<tables, manager, recordings, world>>

Patched(old, patch) == [url |-> IF patch.url = NULL THEN old.url ELSE patch.url,
                        enabled |-> IF patch.enabled = NULL THEN old.enabled ELSE patch.enabled]

\* The write transaction of create_room and update_room.
write(c) ==
    LET r == task[c].room  arg == task[c].arg
        refused == \/ task[c].op = "create" /\ Exists(r)
                   \/ arg.url # NULL /\ UrlTaken(arg.url, r)
    IN
    /\ At(c, "write")
    /\ IF refused THEN /\ task' = [task EXCEPT ![c] = Idle]
                       /\ UNCHANGED row
       ELSE /\ row' = [row EXCEPT ![r] = IF @ = NULL THEN arg ELSE Patched(@, arg)]
            /\ task' = [task EXCEPT ![c] = IF task[c].op = "create" THEN Reconciling
                                           ELSE [@ EXCEPT !.pc = "discard", !.arg = NULL, !.op = NULL]]
    /\ UNCHANGED <<cache, manager, recordings, world>>

\* The row is read back; the old URL's candidates, and a disabled room's, go.
discard(c) ==
    LET now == row[task[c].room]
        old == {u \in {task[c].url} \ {NULL} : u # now.url}
        gone == old \cup (IF now.enabled THEN {} ELSE {now.url})
    IN
    /\ At(c, "discard")
    /\ cache' = SelectSeq(cache, LAMBDA u : u \notin gone)
    /\ task' = [task EXCEPT ![c] = Reconciling]
    /\ UNCHANGED <<row, manager, recordings, world>>

-----------------------------------------------------------------------------
\* Shutdown begins when no request is left; the workers are cancelled and the
\* recording service stops what is still recorded.
close ==
    /\ ~closed /\ \A c \in Callers : At(c, "idle")
    /\ closed' = TRUE
    /\ workers' = {}
    /\ task' = [t \in Tasks |-> IF t \in workers THEN Cancelled(t) ELSE task[t]]
    /\ CancelsWrites(workers)
    /\ UNCHANGED <<tables, offline, streak, recording, world>>

\* 120 seconds have passed.
cache_expires ==
    /\ \E u \in ToSet(cache) : cache' = Discarded(u)
    /\ UNCHANGED <<row, manager, task, recordings, world>>

broadcast ==
    /\ turns < MaxBroadcasts
    /\ \E u \in Urls : air' = IF u \in air THEN air \ {u} ELSE air \cup {u}
    /\ turns' = turns + 1
    /\ UNCHANGED <<tables, manager, task, recordings, failing, calls>>

\* From here on nothing fails.
recovers ==
    /\ failing
    /\ failing' = FALSE
    /\ UNCHANGED <<tables, manager, task, recordings, air, turns, calls>>

-----------------------------------------------------------------------------
Rows == [url : Urls, enabled : BOOLEAN] \cup {NULL}

\* After AppState.start: every enabled room has a worker.
Init ==
    /\ row \in {f \in [RoomKeys -> Rows] :
                   \A q, r \in RoomKeys : q # r /\ f[q] # NULL /\ f[r] # NULL => f[q].url # f[r].url}
    /\ cache = <<>>
    /\ workers = IF ManagerEnabled THEN Enabled(row) ELSE {}
    /\ task = [t \in Tasks |-> IF t \in workers THEN Asleep(t)
                               ELSE IF t \in RoomKeys THEN NoTask(t) ELSE Idle]
    /\ offline = [r \in RoomKeys |-> 0] /\ streak = [r \in RoomKeys |-> 0]
    /\ recording = [r \in RoomKeys |-> NULL] /\ active = {}
    /\ closed = FALSE /\ failing = TRUE
    /\ air \in SUBSET Urls
    /\ calls = 0 /\ turns = 0

TaskStep(t) ==
    \/ start_lock(t) \/ start_read(t) \/ commit(t)
    \/ spawned(t) \/ not_spawned(t) \/ start_failed(t)
    \/ stop_lock(t) \/ stopped(t) \/ fails(t)
    \/ check_locked(t) \/ resolve(t) \/ check_raises(t)
WorkerStep(r) ==
    get_room(r) \/ take_permit(r) \/ act_on_state(r) \/ cancelled(r)
CallerStep(c) ==
    \/ reconcile(c) \/ pop_removed(c) \/ create_workers(c)
    \/ read_previous(c) \/ write(c) \/ discard(c)

Next ==
    \/ \E t \in Tasks : TaskStep(t)
    \/ \E r \in RoomKeys : WorkerStep(r) \/ recording_exits(r) \/ recording_ended(r)
    \/ \E c \in Callers : CallerStep(c) \/ call(c)
    \/ close \/ cache_expires \/ broadcast \/ recovers

Spec == Init /\ [][Next]_vars

\* The event loop runs every ready task, and asyncio's locks and semaphore serve
\* their waiters in order.  FFmpeg exits once a stop waits for it, and the wait task
\* finalizes what has exited.
Waits(t) ==
    \/ start_lock(t) \/ stop_lock(t) \/ check_locked(t) \/ stopped(t)
    \/ t \in RoomKeys /\ take_permit(t)
    \/ t \in Callers /\ reconcile(t)
Runs(t) ==
    \/ start_read(t) \/ commit(t) \/ spawned(t) \/ start_failed(t) \/ resolve(t)
    \/ t \in RoomKeys /\ (get_room(t) \/ act_on_state(t) \/ cancelled(t))
    \/ t \in Callers /\ (pop_removed(t) \/ create_workers(t))
    \/ t \in Callers /\ (read_previous(t) \/ write(t) \/ discard(t))
StopWaits(r) == \E t \in Tasks : At(t, "stopping") /\ StoppedBy(r, t)
Fairness ==
    /\ \A t \in Tasks : WF_vars(Runs(t)) /\ SF_vars(Waits(t))
    /\ \A r \in RoomKeys : WF_vars((StopWaits(r) /\ recording_exits(r)) \/ recording_ended(r))

FairSpec == Spec /\ Fairness

-----------------------------------------------------------------------------
Quiet == ~closed /\ \A c \in Callers : At(c, "idle")

(* Once every call has returned, exactly the enabled rooms have a worker,  *)
(* and each of those workers a task of its own, which an error may have    *)
(* ended, however the calls and their reconciles met (manager/service.py,  *)
(* reconcile and _stop_worker).                                            *)
Settled ==
    ManagerEnabled /\ Quiet =>
        /\ workers = Enabled(row)
        /\ \A r \in RoomKeys : (task[r].pc # "none") <=> (r \in workers)

(* A worker stops a recording only when the last OfflineConfirmations      *)
(* checks of the room, over all its workers, said offline: an error or an  *)
(* unknown answer in between starts the count again (_run_iteration).      *)
OfflineIsConfirmed ==
    \A r \in RoomKeys : task[r].op = "confirmed_offline" => streak[r] >= OfflineConfirmations

(* Every call returns: reconcile lock, room locks, check locks and the     *)
(* semaphore never wait for each other in a circle.                        *)
CallsReturn == \A c \in Callers : ~At(c, "idle") ~> At(c, "idle")

\* The room's last session stays active and nothing records it: its start was
\* cancelled or failed after the commit, or the end of its row was refused.  It is
\* so until the program restarts.
Stranded(r) ==
    /\ r \in active
    /\ recording[r] = NULL \/ InState(r, "starting")
    /\ \A t \in Tasks : task[t].room = r => task[t].pc \notin {"spawn", "fail"}

(* An enabled room that goes on broadcasting is recorded again and again,  *)
(* whatever was stopped, failed or expired before, unless an error ended   *)
(* its worker's task or a start or an end cut off halfway left it          *)
(* Stranded: a stop, an error, an expired candidate or a cancelled worker  *)
(* do no more than delay it (_run_iteration, start_recording).             *)
LiveIsRecorded ==
    \A r \in RoomKeys :
        <>[](/\ ~closed /\ ~failing /\ r \in workers /\ ~At(r, "died") /\ ~Stranded(r)
             /\ r \in Enabled(row) /\ row[r].url \in air)
            => []<>Running(r)

(* What a disable promises (docs/P2A_IMPLEMENTATION_PLAN.md:50): once the  *)
(* calls have returned, a disabled room is not recorded.  Without workers  *)
(* nothing takes back a start that meets the handler between its stop and  *)
(* its write.                                                              *)
DisabledIsNotRecorded ==
    Quiet => \A r \in RoomKeys \ Enabled(row) : ~Running(r)

(* What a change of the configuration promises                             *)
(* (docs/P2A_IMPLEMENTATION_PLAN.md:51): once the calls have returned, a   *)
(* room is recorded from the URL it has.                                   *)
RecordingFollowsTheRoom ==
    Quiet => \A r \in RoomKeys : Running(r) => recording[r].url = row[r].url
=============================================================================

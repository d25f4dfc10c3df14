# A verification of douyin_recorder

This directory holds TLA+ models of the recorder under `src/`, the TLC runs that
check them on small instances, and TLAPS proofs of what matters most. All
definitions are translated from the source; `PROJECT.json` maps each of them to
its lines.

1. [The system](#1-the-system) 2. [The modules](#2-the-modules)
3. [The runs](#3-the-runs) 4. [Fairness](#4-fairness)
5. [The proofs](#5-the-proofs) 6. [Findings](#6-findings)
7. [Not modelled](#7-not-modelled) 8. [The plan](#8-the-plan)

To check one thing: `tlasany M.tla`, `tlc -config X.cfg M`, `tlapm M.tla`.

## 1. The system

One Python process (asyncio, FastAPI) watches Douyin live rooms. It records the
stream of a room with FFmpeg, keeps in SQLite the timeline of who the gift
recipient is, and exports finished recordings as mp4. There is one event loop,
so code between two awaits is atomic; there is one SQLite connection with a
lock, so a write transaction (`Database.write`, BEGIN IMMEDIATE to COMMIT) is
atomic too. Everything hard happens between awaits.

### Inventory

| component | state | operations | what makes it correct |
|---|---|---|---|
| payload decoding, `douyin/recipient.py` | none | decode a payload to recipient key, dedup key, clock readings | equal messages have equal keys; user id `0` names nobody |
| timeline reducer, `douyin/timeline.py` | `intervals`, `events`, `connected`, `ended` | start_session, apply_event, im_disconnected, im_reconnected, end_session | gapless, evidence-based, a refused call does no harm |
| session store, `sessions/_write_store.py` | tables `sessions`, `recipient_events`, `recipient_intervals` | the same, as transactions | as above, one active session per room, history is never rewritten |
| recovery, `recording/repository.py` | the same tables | recover_interrupted | nothing of a dead process stays active |
| replay, `douyin/replay.py`, `tools/replay_recipient_fixture_to_db.py` | an empty database and a reducer | run a fixture through both, compare | the comparison fails only for more intervals than it lists |
| recording service, `recording/service.py` | `_active`, `_ActiveRecording`, room locks, finalize locks, wait tasks | start, stop, finalize, close, recover | every active row and every FFmpeg process has somebody who will end it; one finalization |
| FFmpeg supervisor, `media/ffmpeg.py` | process, reader tasks, `_wait_lock`, `_stop_stage`, `last_progress` | start, wait, stop, the readers | stop always ends the process; what FFmpeg printed and wrote reaches the row; its pipes are read |
| export jobs, `postprocess/service.py`, `repository.py`, `executor.py` | tables `postprocess_jobs`, `_attempts`, `_outputs`; one worker; files | create, claim, run, cancel, retry, recover, close | tables stay in step, a finished output is never lost, a cancel ends the job |
| export planner, `postprocess/planner.py` | none | compute the outputs of a plan | an output plays its interval, all of it and nothing else |
| room manager, `manager/service.py` | `_workers`, runtimes with counters, semaphore, reconcile lock | reconcile, iterate, close | enabled rooms have one worker; a stop only after N confirmed checks in a row; a live room is recorded, unless an error has ended its worker or left its session active |
| rooms, `rooms/` and `api/` | table `rooms`, check locks | create, update, enable, disable, check, start, stop | a room is recorded as it is configured; every call returns |
| stream resolver, `douyin/stream_resolver.py`, `live_page.py` | candidate cache, browser lock, Chrome | resolve, cached_candidates, discard, close | what is cached was answered with 2xx while Chrome or the static check was looking up that room, and a look-up by Chrome that ends elsewhere leaves nothing; one Chrome at a time; calls return |
| database writer, `db/core.py` | connection, write lock, open transaction | initialize, write, close | writes and migrations are whole or not at all, answers are true |
| application state, `state.py`, `main.py` | the services | start, stop | recover before the first call; `ended_at` is the last write; a stop ends |
| wire decoding, `douyin/protobuf_wire.py`, `envelope.py` | none | parse and build fields, frames, acknowledgements | what is cut short is refused; what was built comes back; no acknowledgement without a token |
| evidence capture, `douyin/evidence.py`, `tools/douyin_interactive_evidence.py` | CDP queue, bundle with its counters, files | capture, finalize, approve, export | limits hold, no frame is lost but at the end, a fixture is what was captured |
| WSS probe, `douyin/probe.py` | connection, heartbeat task, counters, files | run_probe | the report agrees with the files and with what came in |
| security, settings, paths, bootstrap | none | validate | not over time |
| tools, packaging, web | files | release, smoke tests | not over time |

### How they interact

A request or a room's worker calls the recording service; it calls
`start_session`, spawns FFmpeg through a supervisor, publishes an entry in
`_active` and makes a wait task. A stop and the wait task both run `_finalize`,
which ends the session, records the result and takes the entry out. Decoded
messages reach the tables through `apply_event`, on the same rows.

A room's worker checks the page of its room under the manager's semaphore and
the room's check lock, through the resolver, which caches candidates that a start
takes up; depending on the answer it starts or stops the recording. A request
that changes a room writes its row, discards candidates and calls reconcile,
which cancels and makes workers. The export worker polls its table; requests
change the table and signal the worker through one event. All of them write
through `Database.write`, one connection behind one lock. `AppState` orders the
start (migrations, the writes of recovery, then services) and the stop (the
server answers its requests, then manager, recordings, `ended_at`, database).

The probe, the evidence capture and the replay are tools beside the application;
they share its decoders.

### What is hard

* two starts, a stop, the natural exit and the finalizer of one room, in any
  order, with two locks taken in opposite nesting;
* state read before an await and used after it (`_active_job_id`, the row
  `claim_next` has read, `stop_reason`, the list of rooms a reconcile works on,
  the row and the candidates a start goes on with);
* cancelled tasks: a worker is cancelled at whatever await it stands, in a write,
  in a stop that joins FFmpeg's readers, in the clean-up of a browser;
* a killed process: rows left active, jobs left running, files half written, a
  migration half applied, an FFmpeg that goes on in its own session;
* a callback that fails or is slow between FFmpeg's pipe and the tables;
* clocks: wall clock and monotonic clock of two processes, compared only partly;
* duplicates, late messages, disconnects and restarts on one timeline.

`PROJECT.json` lists each hazard at its line with the properties that cover it.

## 2. The modules

`RecipientEvents` (decoding) is extended by `RecipientTimelineReducer` and
`RecipientStore`. `Timeline` is the abstract specification of both.
`ReplayAgreement` composes reducer and store; `Recording` composes the store
with the service, the supervisor, the clock and the life of the application;
`RecorderSupervisor` looks into one recording, where `Recording` has many.
`RoomManager` composes the manager, the rooms, the API and the resolver's cache
around an abstract recording service; `StreamResolver` looks into the resolver.
`DatabaseWriter` implements `AtomicWrites`, and `Application` composes it with
the life of the application. `PostprocessJobs`, `ExportPlanner`, `WireFormat`,
`EvidenceCapture` and `Probe` stand alone: they share no state that they write.

**Timeline**, abstract. A track of states, each with its start; `Begin`,
`Switch` (to a different state, no earlier), `Close` by the owner, or
`CloseAfterRestart` at any reading. Nothing ever rewrites the track.

**RecipientEvents.** A payload is a record of the three fields the timeline can
tell apart (user id, open id, message id). `canonical_recipient_key` and
`dedup_key` are as in the code: a message without id is identified by payload and
time bucket. The envelope's id is used when the common block has none. A clock
reading is a `Stamp`: wall clock, monotonic clock, runtime instance.

**RecipientTimelineReducer.** One action per method. A call that raises before
it changed anything is no step. Two raise later: `apply_event` has already
stored the event (`RefuseFrame`), `im_disconnected` has already cleared
`connected` (`RefuseDisconnect`); both are actions.

**RecipientStore.** One action per transaction; one that raises is rolled back
and is no step. `sessions[s]`, `intervals[s]`, `events[s]` are the rows of
session `s`, intervals in id order. The unique index on active sessions per room
is a guard of `start_session`, because the code relies on it. `recover_interrupted`
is the one transaction of `recording/repository.py` that writes intervals; it
closes the open rows of all active *recording* sessions at the wall clock of the
new process, which nothing compares with the start of the row.
`RecipientStoreTimeline` maps the rows of a session to `Timeline`.

**ReplayAgreement.** Each step of a fixture drives both, the reducer as
`run_fixture` does and the database as the tool does; a fixture that the reducer
refuses is refused as a whole. `Follow` carries out the database's operation if
what it asks before it writes holds (`StartAccepted`, `FrameAccepted`, ...), and
otherwise records in `tool` that the database refused where the reducer did not.
The tool raises of its own accord (`Raise`) where the reducer goes on: at a
payload that does not decode, which the reducer counts (`undecodable`), at the
step type `normalized_recipient`, which only the reducer knows (`normalized`), at
a payload beyond 1 MiB as JSON, at a reconnect before the start, and at the end of
a fixture that has not ended its session. `fixture_over` compares what
`list_intervals` returns, its first `ListLimit` rows (500), with all intervals of
the reducer; the tool lists events under the same limit too, but only reports
their number. The reducer is also used without a database, by callers that go on
after a call it has refused; `replaying`, which never changes, says which of the
two a behaviour is. Integers that SQLite cannot hold are left out.

**Recording.** A coroutine is a task with a `pc` that names the await it stands
at, and the code up to the next await is one action:

| pc | waits at |
|---|---|
| `s_lock`, `p_lock` | the room's lock, in a start or a stop |
| `s_check` | reads, room check and the commit of `start_session`, under the lock |
| `s_spawn` | the spawn of FFmpeg |
| `s_fail`, `s_fail_record` | the two writes of `_fail_started_session` |
| `p_stop`, `p_terminate`, `p_kill` | the exit, after each signal |
| `w_wait` | the exit, in the wait task of a session |
| `f_lock`, `f_end`, `f_record`, `f_pop` | `_finalize`: finalize lock, the two writes, the room's lock |

Tasks are the callers (requests, room workers), one wait task per session, named
by the session, and the stop that `close()` makes of each room, named by the
room. `process[s]` is FFmpeg, `"unread"` meaning that it exited and a pipe
reader had failed, so that `wait` raises. `abandon` cancels a task at its await
or lets its write fail: locks are released, a start may have committed its row.
`faults` never changes: which of `"cancel"`, `"crash"` and `"clock"` (a wall clock
that is set back) may happen in this behaviour. So a property, and a theorem, can
say under which of them it holds. `crash` forgets all memory and leaves tables and processes. `restart` runs
`recover` under a new runtime instance before any call. The messages of a
session do not matter to the service, so its run has no payloads; `Spec` of the
store, which `ImplementsStore` shows the service obeys, covers them.

**PostprocessJobs.** A job is a number, its plan `NOutputs` outputs, its
attempts a sequence of statuses whose length is the column `attempts`. The
worker is one record with its `pc`, its `cancel_event` and the locals of
`_run_job` (`kept`: the outputs that were done in the row `claim_next` has read;
`raised`: it is in the exception handler). A cancel is two actions, the
commit (`request_cancel`) and the signal after the await (`cancel_job_signals`).
Files on disk are the sets `finals` and `writings`. That a path belongs to one
job only is the database's `UNIQUE(relative_path)`. `run_output` may raise before
the spawn for all the reasons its path and probe checks have.

**RecorderSupervisor.** One recording from the spawn of FFmpeg to the row of its
result. A reader of a pipe, the wait task (`waiter`) and each call of stop are
tasks of their own. `printed[p] - taken[p]` lines lie in pipe `p`; at
`PipeSize` FFmpeg blocks. The stdout reader hands each line to `on_progress`, a
callback of four awaits (progress row, session, list of segments, sync), and goes
on only after it; `callback_fails` is `_maybe_call`. `Joined` is
`_join_readers`: a failed reader makes `wait` raise, a cancelled one ends the
wait task by a CancelledError. A stop of a room's worker may be cancelled at any
await, and a cancelled `gather` cancels the readers it joins. `parsed[t]` is the
segment list a sync has read and not yet written.

**ExportPlanner.** `build` as a function of the session, its media rows and its
intervals; `ExportPlanError` is the empty set of plans. `Played` says which
milliseconds of the recording FFmpeg copies for an output: the reference the
trim and the duration are checked against. `InOrder` is ORDER BY: the list of a
set that an order fixes. `Earlier` orders media by start and sequence; the id that
the code adds behind these decides nothing between segments that have a length.

**RoomManager.** One worker per room and the API's callers are tasks. Where a
task stands is its `pc`, what called it is `op`: `start_recording` and
`stop_recording` are the same steps for a request, a worker that saw the room
live (`worker_start`), N offline checks (`confirmed_offline`), a patch or a
disable, and a removed worker. A lock or the semaphore is held by the tasks whose
`pc` lies in its block (`HoldsRoomLock`, `HoldsCheckLock`, `HoldsReconcileLock`,
`HoldsPermit`). A worker's iteration is `get_room`, `take_permit`,
`check_locked`, `resolve` or `check_raises`, `act_on_state` and what that calls.
`get_state` reads the row of the room's last session (`active`), as the worker
does, and not the entry in the service's memory.
A reconcile is three steps: list, pop and cancel, create; its second await is
for all cancelled workers. `Patched` rows are written after the stop of the
recording, as the handler does. `air` is which rooms broadcast; `streak` only
watches the results of checks over all workers of a room.

Of the recording service (in full in `Recording`) it keeps the awaits. A start is
the lock, the read of the room, perhaps a check of its own, the commit of the
session's row (`commit`), and, after the entry is published, the spawn of FFmpeg
(`spawned`, `not_spawned`); each await may fail, a failed start ends its row if
the database lets it (`start_failed`), and a start that is cancelled leaves what
it has written (`CancelsWrites`). A stop waits until FFmpeg has exited
(`recording_exits`) and its session is finalized (`recording_ended`), or raises
because the entry has no process yet. So a row may be active and nothing records
it: `Stranded`, until the program restarts. An error inside a worker's handler of
errors ends the worker's task (`died`, `manager/service.py:305-311`); the next
reconcile makes a new one. `failing` says that the database, the pages and FFmpeg
may fail; it ends at any time (`recovers`). Reads and writes of the API's handlers
and of a reconcile itself do not fail in the model: the call would answer with the
error. That a cancelled write leaves its transaction open is `DatabaseWriter`'s.

**StreamResolver.** A call is a task of `resolve`: the static page with its
redirects, then, under the browser lock, spawn, page target, domains, the loop of
events, bodies, the final location, and `_stop_browser` in its three stages.
`chrome` moves by itself and may do anything: send, navigate, disconnect, exit,
ignore. `browser_timeout` and `cancelled` strike at any await, and `Cut` says what
each does there. The cache is in LRU order; `from` and `final` of an entry only
say where it comes from.

**DatabaseWriter.** A write is a task; a statement that was given to aiosqlite's
thread runs although its task is cancelled (`Abandoned`). `pending` holds the
statements of the open transaction, `rows` what is durable. A migration is one
script between BEGIN and COMMIT, in steps, so that the process may die inside it
(`killed`). **AtomicWrites** is what callers may rely on.

**Application** adds `mode`, the stage of `start` or `stop`, and the writes of
each runtime by name: those of start in order, of workers (cancellable), of
requests (answered before stop), of the export worker (until its service is
closed), the end of a recording, and `ended`. `start_raises` is a start that
fails half way: the process ends without a stop.

**EvidenceCapture.** The CDP reader fills a bounded queue; taking an event and
capturing its frame is one step without an await, in which each file written may
fail. A frame is its size, how far the decoder gets with it and its messages. `seen`
counts the frames of trusted sockets when they arrive (`Awaited`), those that are
still in the queue at the deadline or find it full included.
`export_approved_fixture` is the later export by hand, from files that may have
changed since.

**Probe.** `run_probe` as a loop with an awaited acknowledgement, beside a
heartbeat task on the same connection, and the clean-up in `finally`. `Handled` is
what one frame does to counters and files, up to a write that fails.

**WireFormat.** Bytes are digits below `Half` and above it, so that all inputs of
a few bytes can be enumerated; the code has `Half = 128`. A number is the sum of
its digits times the worth of their places (`Number`, `Place`): what the shifts of
the code add up to. A parser is a set of results: one, or none for an error.
Unpacking of gzip is the inverse of its magic prefix, and of nothing makes nothing;
the two names of gzip and the three of plain payloads are modelled, upper case and
spaces around them are not. The loops over fields are
recursive functions, so that they can be reasoned about. `Encodable`, `MessageFits`
and `Sendable` say which responses can be sent: strings that are texts, lengths a
varint can hold, no more fields than a reader takes.

MC modules hold instances only. Several put different scenarios into one run by a
variable that never changes (`scenario`, `input`, `replaying`): the state spaces are separate,
and each property names the scenarios it is about.

## 3. The runs

Twelve runs; every property of a passing one has a mutant of the code's model
that breaks it (`\* Mistake:` operators, used by no action).

| run | asks |
|---|---|
| `store` | Do the rows of a session form one timeline, with duplicates, late events, two processes and recovery: clocks forward, one open interval exactly while active, settled rows never rewritten, `Timeline` implemented? |
| `replay` | Do reducer and database say the same, duplicate counters and late marks included, of every fixture, until the tool raises at a step it does not replay, and does its comparison fail for more intervals than it lists and for nothing else? Does the reducer implement `Timeline` also under calls it refuses half way? |
| `recording` | Scenario *races* (two callers, two recordings, a clock that moves while the second caller is idle, shutdown): is every active row supervised until shutdown has ended it, do status, reason, result and the exit of FFmpeg agree, is everything reported once? *restart* (crashes, a second runtime, tasks cancelled anywhere): has each live FFmpeg of this process its owner, does recovery leave nothing, are the tables touched by store transactions only? *progress* (fair steps): does an accepted stop end the session, an exit free the room? |
| `jobs` | *faults* (one job, two outputs, three attempts, crashes and failing database calls at every await): do the three tables stay in step, is a queued job claimable, is a finished output ever touched? *quiet* (two jobs): does a running job have the worker, is success whole and final, does a cancel end its job, is the queue served? *plan*: does every plan export its intervals? |
| `rooms` | Do calls and reconciles that meet settle on exactly the enabled rooms' workers? Is a stop confirmed by N offline checks in a row? Do calls return, and is a live room recorded again and again once nothing fails any more, unless its worker has died or its session is stranded? |
| `application` | Are writes atomic and their answers true, over failing, cancelled and killed ones? Do migrations apply whole? Is `ended_at` the last write of a runtime? Do writes return and stops end? |
| `supervisor` | Is what FFmpeg printed and closed in the row when it is recorded? Is every exit finalized, whoever is cancelled? Is stdout drained, whatever the callback does? |
| `streams` | Does the cache hold 2xx answers only, from look-ups of the room that ended on its page where Chrome made them? One Chrome at a time? Does every call return? |
| `evidence` | Is what arrived in the bundle, in order, but for what was lost at the end, and the bundle within its limits? Is a fixture what was captured? Is the probe's report honest, whatever fails in the middle? Does the wire format refuse what is cut short and return what was encoded? |
| `recording_clock_step`, `application_cancelled_write`, `rooms_configuration` | violations, see [Findings](#6-findings) |

`CHECK_DEADLOCK FALSE` is set everywhere: a timeline that is over, an
application that is down for good, a probe that returned and counters at their
bounds really stop.

### Bounds and why they are enough

* **Timeline and store.** One session, two wall-clock and two monotonic
  readings, two runtimes, one user and the empty recipient, an envelope with and
  without id, 3 intervals, 2 events, 1 duplicate. Two readings are enough for
  late, equal and refused; 3 intervals allow recipient, disconnect, recipient
  again; two runtimes make the partial comparison of monotonic clocks visible.
  Sessions interact only through the unique index; the proofs hold for any
  number of them.
* **Replay.** A payload of a user and one of nobody with a message id, decoded or
  normalized, every clock reading of the store's run; two rows are listed, so
  that a fixture of three intervals is cut.
* **Recording.** One room, two sessions, two callers: a start against a start, a
  start against a stop, a stop against a stop, and always against wait task,
  shutdown and the finalizer of the *previous* session. A third session only
  repeats the pattern. Rooms share nothing but the service's closing flag. The
  restart scenario has one caller, two runtimes and one clock reading: one caller
  with its wait tasks already gives every cancelled step.
* **Jobs.** Crash and failure at every await need one job; two outputs let one be
  done while the next fails; three attempts let a retry follow a retry.
  Competition needs two jobs, and two attempts, of which one is the last. Plans:
  three segments, one of them perhaps not usable, three intervals, all cuts
  within five milliseconds, so an interval begins and ends before, at, inside
  and after every segment.
* **Rooms.** Two rooms, two URLs, one permit, two confirmations. Rooms meet only
  at the semaphore, the cache and the reconcile, so there are three kinds of
  behaviours: rooms left to their workers, two of them (a permit to wait for) or
  one whose broadcast begins or ends; one room with two calls of any kind in a
  row; one room with two calls that interleave and both reconcile. Failures are
  as many as happen until `recovers`, which is possible at any time.
  `rooms_configuration` needs one patch.
* **Application.** Two runtimes, so that what one leaves meets the other's start;
  writes of two statements, so that one can be half done; one migration; one
  worker, one end of a recording and one request or export. More writers only
  queue at the lock; the theorems have any number.
* **Supervisor.** Two stops besides the wait task, one of them cancellable: the
  lock of `wait` then has a holder, a waiter and one that is cut. A pipe of one
  line and two lines to print block FFmpeg; one segment is open or closed.
* **Streams.** Two calls, two rooms, a cache of one (so that entries evict each
  other), one redirect, a queue of two, three events: an answer, its completion
  and one that pushes out the oldest.
* **Evidence.** Two frames at most, of total size 4, so that each limit is met by
  a frame and by a payload; five frames of which one each is malformed and
  corrupt; one failing write; a queue of two. *Probe*: three frames, two beats,
  one failing write. *Wire*: all inputs of up to four of ten bytes that cover
  each wire type, `Half = 16`, numbers of three digits, responses of up to two
  messages.

`MaxIntervals`, `MaxEvents`, `MaxDuplicates`, `MaxCalls`, `MaxBroadcasts`,
`MaxFaults`, `MaxBeats`, `MaxIoErrors`, `Lines` and `Segments` cap what would grow
for ever; at the cap a call is no step, which only removes behaviours.
`MaxAttempts`, `MaxFrames`, `MaxFrameBytes`, `MaxTotalBytes`, `MaxCached`,
`MaxCandidates`, `QueueSize`, `MaxRedirects`, `MaxFields` and `ListLimit` are limits
of the code, with smaller numbers.

## 4. Fairness

* `Recording`: strong fairness of every task's next step. asyncio runs every
  task that is ready, and an `asyncio.Lock` serves its waiters in order, so a task
  that can go on again and again does go on, also past the other users of its
  lock. The timeouts of a stop are steps of the task. A *killed* process exits
  (weak fairness). A running FFmpeg need never exit, calls need never come, and
  the application need never be closed.
* `RecorderSupervisor`: weak fairness of the readers and of each task; a process
  that was killed exits. FFmpeg need not print, close a segment or exit.
* `PostprocessJobs`: weak fairness of the worker's steps and of the second half
  of a cancel. The worker's waits end without a wake-up (it polls). An FFmpeg
  nobody cancels need never exit, hence the premise of `QueuedIsServed`.
* `RoomManager`: weak fairness of what runs without waiting, strong fairness of
  what waits for a lock, a permit or the end of a stop (asyncio serves the first
  two in order). FFmpeg exits once a stop waits for it (`Recording` shows that it
  is killed in the end), and the wait task finalizes what has exited. Failures
  owe nothing: they may happen for ever, and `LiveIsRecorded` is about behaviours
  in which they end.
* `StreamResolver`: weak fairness of every step of a call, as each await has a
  timeout of its own, and of the deadline of the loop; strong fairness of taking
  the browser lock. Neither the outer timeout nor a cancellation need ever strike,
  and Chrome owes nothing.
* `Application`: weak fairness of the writes, of the steps of stop, and of the
  cancellation of workers when the manager closes.
* Safety properties assume none.

## 5. The proofs

For all values of the constants that satisfy the assumptions: readings, counts and
limits are naturals, a limit that the code divides or waits by is not zero, NULL
and the names of tasks are no values of another kind, the watched session exists,
a write has a statement. TLC evaluates them in the runs that extend the modules.
Names that must differ are named as such (`SupervisorAssumption`: a stop is not
called `waiter`; `RoomsAssumption`: NULL is no operation; `ApplicationAssumption`:
the writes of start and stop are not those of a worker; `EvidenceAssumption`: NULL
is no error): in the code they are different objects. `FramesAssumption` and
`ProbeFramesAssumption` give the frames that may come the type of a frame; their
number, sizes and contents are arbitrary. `WireAssumption` says that the digits
have at least two values and that 64 bits fill the last byte of a varint
(`Modulus` lies between two places: 2^64 between 2^63 and 2^70), and
`FrameAssumption` what the bytes of the code are: the first byte of gzip data, 0x1f,
begins no key of a response (0x0a, 0x2a, 0x40), `gzip` and `none` are different
texts, and texts are bytes. `InputAssumption` puts what the run decodes among what
the theorems on the wire are about.

Each inductive invariant below was checked by TLC on the run of its module before
it was proved.

| module | theorem | says |
|---|---|---|
| `TimelineProofs` | `TypeCorrect` | the tables keep their types |
| | `OneOpenInterval` | an active session has exactly one open interval, its newest |
| | `GaplessTimeline` | an interval ends when, and by the event by which, the next starts |
| | `EvidenceTheorem` | a recipient is shown on evidence of its own only |
| | `ActiveSessionUnique` | one active session per room |
| | `ClockTheorem` | both clocks run forward inside an interval as far as the code compares them |
| | `HistoryIsSettled` | no operation rewrites what is settled |
| | `Implementation` | the rows of any session implement `Timeline` |
| | `ReducerTypeCorrect` | the reducer's intervals and events keep their types |
| | `ReducerIsGapless` | its timeline has no gap and shows no recipient without evidence, whatever it refuses |
| | `ReducerImplements` | it implements `Timeline`, under calls that raise half way as well |
| | `ReplaysAgree` | the database refuses nothing that the reducer accepts, and until the tool raises it says the same of intervals, events, duplicates and late marks; of the fixtures replayed to the end, the comparison fails for those of more intervals than the tool lists and for no others |
| `RecordingProofs` | `ServiceImplementsStore` | the recording service works on the tables by the store's transactions only, so all of the above holds of it |
| | `RecordingTypeCorrect` | the service's memory and tasks keep their types |
| | `RoomRecordedOnce` | the service never has two active sessions of a room |
| | `NothingOutlivesARestart` | after any crashes and restarts, active sessions are of the present process |
| | `RecorderOwned` | a live FFmpeg process of this runtime is the one its room's entry names |
| | `SuccessorOwned` | an entry goes only when its own recording is finalized or never ran |
| | `StatusTrue` | status, reason and result agree with how the process exited |
| | `ReportOnce` | reason and result of a recording are written once |
| | `SessionsSupervised` | without cancelled tasks and clocks set back, each active session has a task that will end it, and an orderly shutdown (`ShutdownClean`) leaves none |
| | `IntervalClosed` | the refused end of the finding `recording_clock_step` needs a clock that is set back |
| `JobsProofs` | `Inductive` | its inductive invariant |
| | `RowsAgree` | job, attempts and outputs stay in step, whatever crashes or raises |
| | `NothingOverwritten` | a finished output and its file are never touched again |
| | `RunningIsServed` | while the database answers, a running job has the worker |
| | `SuccessStands` | while the database answers, success is of all outputs, on disk, and for good |
| | `EveryPlan` | for any segments that do not overlap and any intervals, an export plays its interval, all of it and nothing else, and every interval with enough media is exported |
| | `PlansAreExact` | so it is for every recording that the run plans |
| `SupervisorProofs` | `ResultsAreComplete` | a recorded result has the last progress printed and every segment closed |
| `StreamProofs` | `TrustedCache` | what is cached for a room are 2xx answers, of a static check of that room or of an observation by Chrome that ended on its page; on which page before that a medium was requested, it does not say |
| | `ChromeIsAlone` | one Chrome at a time, for any number of calls |
| `RoomProofs` | `WorkersFollowRooms` | once calls have returned, exactly the enabled rooms have a worker, and no other room has a task, whatever failed |
| | `OnlyConfirmedStops` | a worker stops a recording only after the configured number of offline checks in a row |
| `DatabaseProofs` | `DatabaseTypeCorrect` | connection, tables and tasks of the writer keep their types |
| | `MigrationsNeverHalf` | a migration's tables and its record are in the database together or not at all |
| | `WritesNeverHalf` | a write is in the database whole or not at all, cancelled ones included |
| | `WriterIsAtomic` | the writer implements `AtomicWrites` |
| | `ApplicationUsesTheWriter` | the application, over all its lives, works on the database by the writer's steps |
| | `MigrationsWholeOverLives`, `ApplicationIsAtomic` | so the two results above hold of it |
| | `TheEndIsLast` | `ended_at` is the last write of its runtime |
| `CaptureProofs` | `BundlesAreComplete` | what arrived on trusted sockets is what the bundle lists, in order, then at most one frame it failed on, those still in the queue and at most one that found it full; the bytes it counts are those on disk, within the limit |
| | `FixturesAreEvidence` | an exported event is a target message that was received, unchanged, whatever happened to the files |
| | `ReportsAreHonest` | the probe's report agrees with the frames received, the files written and, but for one, the pings sent |
| | `VarintsSurvive` | every number of a varint comes back from it, a negative one as its two's complement |
| | `MessagesTile` | of any bytes: the fields parsed from them lie end to end, a message cut anywhere but between two fields is refused, and written again the fields say the same |
| | `FramesSurvive` | every response that can be sent comes back from its frame, gzipped or not, and can be acknowledged exactly if it has a token; the acknowledgement says the same log id and token |
| | `WireFormatIsExact` | all three, for every input of the run |

### Store and recordings

`TimelineProofs` first reduces all operations to what happens to the rows of
*one* session: it is kept, started, moved (newest row closed, one opened, with
justification), closed or recovered (`Kinds`), while events only grow. There is one
lemma per operation (`StartDone`, `ApplyDone`, ..., joined in `StepDone`); they use
one lemma for each helper that writes rows. Then it proves each conjunct of the
inductive invariant

    IInv == Typed /\ OpenIffActive /\ RecoveredIsOver /\ EndsMeetStarts
            /\ EvidenceForEveryRecipient /\ ClocksRunForward /\ OneActivePerRoom

by one lemma over the kinds. The strengthening is needed: that the row a
transition closes is the only open one is `OpenIffActive`; that a row closed
behind its start is the last one of a recovered session needs
`RecoveredIsOver`, or a later step could append a row behind it; `Typed` is
`TypeOK` with a named set for the tables of events (`TypedIsTypeOK`).
`Implementation` maps initial states and each kind of step to `Timeline` or a
stutter under `IInv`.

The reducer is proved the same way: each call begins the
timeline, moves it, closes it or leaves the intervals alone (`RedKinds`), and
`RedInv` (types, `Gapless`, `EvidenceForEveryRecipient`, and that an end needs a
start) is kept by each kind. Two calls that raise half way leave an event, or a
cleared `connected`, behind; the intervals are untouched, so they stutter on
`Timeline`.

`ReplaysAgree` puts the two invariants together. A step of a replay is a step of
either one alone (`ReplayUsesTheStore`, `ReplayUsesTheReducer`), so `IInv` and
`RedInv` hold throughout. The invariant to add is `AgreeInv`: row by row and event
by event both say the same, and no other session has begun. That their columns
agree does not say by itself that both accept the next call, for the database
looks at its session's status and at the open row, the reducer at `ended` and at
its newest interval: `SamePlace` derives from `OpenIffActive` on the one side and
`Gapless` on the other that these coincide, and `SameClockCheck` that both compare
the same clocks. There is then one lemma per step of a fixture (`StartAgrees`,
`FrameAgrees`, `DisconnectAgrees`, `ReconnectAgrees`, `EndAgrees`). Without `Alone`,
the index on active sessions might refuse the start. Where the tool raises nothing
is left to agree on. The comparison is of lists: equal rows have equal projections
(`Projected`), and cutting the one at `ListLimit` makes a difference exactly if
there is more of it (`OverAgrees`).

`RecordingProofs` needs an invariant of the tasks first (`RInv`: a task that is
under way knows its room, and from a certain await on its session), since the
service passes what its tasks remember to the store. Under it each step is one
of four things to the tables (`StepKinds`): it inserts a row stamped by this
process, ends a session, restarts, or leaves them alone. `RecordingSpec => Spec`
follows, and with it the store's invariant `IInv`, from which
`NothingOutlivesARestart` takes that an active session has a first row and that
this row's start never changes. Its own strengthening is `OwnRecordings`: active
sessions are *recording* sessions, because recovery looks at no others.

That no process is out of the service's reach needs `OwnersInv`, which says what
each task may rely on at its await (`TaskKnows`) and what holds of a session
whoever works on it (`SessionKnown`). The heart of it: the task that checks the
entry holds the room's lock, so while it waits for the commit the entry can only
become empty; the entry of a task that awaits the spawn is its own, with no
process yet; and a recording is finalized only after its exit, so an entry that a
new start overwrites has no live process. There is one lemma per kind of step:
`QuietStep` and its two forms for those that move a single task, and one for each
step that changes an entry, a process or the runtime. That rows stay where they
are (`RowsStayLemma`) comes from the store's `IInv`; after a restart, processes
that are still alive have a start of an earlier runtime.

What the row says of the end rests on `EndsInv`: for each task what its await
implies of its session (`Place`: between the finalize lock and the result, the
lock is held and no result is there), one start per session (`OneStart`), and for
each session that the story told so far fits (`Told`), and that an entry whose
recording is not finalized has no result (`Entered`). The last is why a second
finalizer finds the flag set and why `ReportedOnce` holds.

`SessionsSupervised` takes three more. `ClockInv`: while no clock is set back, an
open interval began no later than now, so `end_session` is never refused.
`TasksInv`: a wait task works for its own session and a closing stop for its own
room, so the names of those who will end it are known. `WatchInv`: each active
session is watched (`Watches`), which asks one thing more than `WillEnd`: unless
its spawn has failed, the session is the one its room's entry names. A
start, a stop, a lost race or a finalizer that finds the flag set never takes the
last watcher away (`WatchStep`); and since `close()` waits for the wait tasks of all
entries, every watcher has ended its session by then (`NoneAfterClose`).

### Jobs

`RowsFollowTheJob` is not inductive: whether `finish_job` may write depends on what
the worker knows. `IInv` of `JobsProofs` adds the worker: at rest it remembers
nothing (`WorkerRests`), a job in hand is running unless a first `finish_job` has
already committed and raised behind its commit (`WorkerHasAJob`), and it has come
as far in its plan as its locals say (`PlanOrder`: what lies before `next` or was
kept is done, what lies behind is queued). `kept` is read before the first output
and used until the last; `PlanOrder` is what makes that stale value safe. A
finished file is in nobody's hands (`FinishedOrWriting`), which gives
`NothingOverwritten` for crashes at any await. `QInv` is the part that needs a
database that answers: `database_fails` is a variable that no step changes, so the
theorems hold for both kinds of database, and say for which.

### Export plans

`EveryPlan` is about one call of `build`, whatever its input, under two
hypotheses. The segments of a recording do not overlap where they have a length
(`Segments`): the recorder writes one after the other. And the intervals have ids
of their own: the id is a primary key. A gap inside an interval is not excluded; the property
itself claims the exact media only where the media of the interval has as many
milliseconds as the output, since trim and duration do not see a gap.

What ORDER BY lists is a CHOOSE, so that there is such a list at all, and that it has
each row once, is proved first (`SortExists`, `InOrderLists`). The media that
meets an interval, in order, then has no gap if its length is that of the interval
(`SelectedTile`): a gap, or a segment used twice, would show in the count. Played
end to end, segments without a gap are the milliseconds from the start of the first
to the end of the last (`SourcesJoin`, by induction along the list), and the trim
and the duration cut the interval out of them (`CutPlays`). Last, an interval of
the list is exported once (`PlanPicks`).

### Supervisor

The invariant says what is true at an await because of where the *others* stand:
who joins readers has seen the exit, a reader that is done has read all there will
be (`Readers`), a result that was returned is complete (`Complete`), the segments
a sync has read stay the segments there are, since FFmpeg is gone (`Sound`), and
the row is recorded once (`Row`). A stop that is cancelled inside the finalizer
leaves it marked finalized and unrecorded, which the invariant allows.

### Stream resolver

`Sound` is about each call alone: Chrome is up only under the browser lock, what
is kept was answered with 2xx, and what has survived to the clean-up is from an
observation that ended on the room's own page. (Media requested by another page in
between is kept when Chrome returns; a redirected static page is the room's.) `OneHolder` relates the calls, `CacheOK` the entries. What
Chrome does is any sequence of events, of which nothing is assumed.

### Room manager

`Settled` holds only when nobody is at work. `Followed` says why it will hold:
whoever has changed a row will still reconcile (`Announced`), or the reconcile
under way works on the rooms as they are now (`UpToDate`), or the workers are
already right. The list of rooms a reconcile has read is stale as soon as another
call writes; that call then stands at `discard` or `reconcile` itself. Whoever
removed a worker waits for it (`Awaited`). For `OfflineIsConfirmed` the counter of
a runtime is at most the streak of offline answers of the room (`CountsBelow`),
and a task that goes to stop has seen the counter full (`Fits`). An error leads a
worker back to its loop or ends its task, and a room whose worker's task is over
still has its worker (`AfterRaiseFits`, `FailureKeeps`, `StartedKeeps`): `Settled`
does not depend on what fails. Proving the
step of a check found two arms of a CASE that overlapped, which TLC resolves in
order and TLA+ does not; the arms are now disjoint.

### Database and application

`DatabaseProofs` is about any number of writes, each cancelled, failing or
killed anywhere. What a cancelled write leaves open stays on the connection, so
its invariant says whose changes the open transaction holds (`OpenOnes`: a
write inside the lock is alone with its changes, a cancelled one may have left
some of its own), that none are pending outside a transaction (`NoneOpen`), that
a migration runs alone (`ScriptAlone`), and who may have durable rows
(`RowsTold`). The heart of it: BEGIN raises while a transaction is open, so no
write ever commits what another one left behind; the mutant that joins the open
transaction breaks exactly this. `WriterIsAtomic` maps a commit to `TakeEffect`,
a raise to `Refuse`, and a cancellation or the death of the process, with a
commit that may or may not have happened, to `GoAway`.

The application has more variables and more control; `ApplicationUsesTheWriter`
shows that each of its steps is a step of the writer or a stutter, so the writer's
theorems carry over. `TheEndIsLast` needs `AInv`: a write that is under way is of
the present runtime and of a kind that the present stage allows (`Under`, with
`Allowed` by stage), and the last write begins only at the last stage (`Last`).

### Captures

`CaptureProofs` is about data that is summed and written in loops, so it begins
with induction. The library states induction with an operator as parameter, which
no installed prover instantiates; but its theorems on well-founded relations say
that a set of naturals has a smallest element, and `NatSetInduction` draws from
them induction over a *set*, which the provers can use: the set of those n for
which the claim holds is named where it is needed. From it follow that the sum over
a finite set is its element plus the rest (`SumStep`, `SumRemoves`, `SumAppends`:
the fold chooses an element, so that the choice does not matter has to be proved),
that the loop over the messages of a frame is defined at each of its steps
(`LoopDefined`, `ProbeLoopDefined`), and that it keeps whatever its body keeps
(`MessagesKeep`, `TargetsKeep`).

For the bundle, `CaptureInv` says that while the capture runs the recorded contents,
the frames that wait in the queue and one that was refused there are together what
arrived (`InStep`; `WaitingGrows` and `WaitingShrinks` are what an event adds and
taking one removes) and the counted bytes those on disk; after a failure one frame
may be missing, and bytes may be counted that no file has (a reservation is not
given back), hence the weaker `BundleIsAccounted` of the end. Each listed target names
a message of a frame seen (`Names`): the path is what ties an entry to its message,
and the frame's number in it is one that no earlier frame had. A
fixture then rests on the manifest, not on the disk, which may have changed.

For the probe, `ProbeInv` says where the counters stand at each stage: exactly
those of the frames received (`Exact`), all but an acknowledgement and a row while
one is being sent (`Unacked`), or between without and with the last frame after an
error (`Within`); that the files are those listed, each with its message (`Filed`);
and that the heartbeat has sent what it counts, or one more while it sends.
`ReportedAppends` says what a frame adds to each counter.

### The wire format

A number first. Its digits are quotients and remainders by the places
(`Euclid`, `DivDiv`), and their sum is the number again (`NumberOf`, by induction
from the lowest digit); so what `encode_varint` writes `decode_varint` reads
(`Encodes`, `VarintsSurvive`), and a negative number is first taken modulo 2^64.

Reading is unique: at one place lies one varint or none (`DecodeUnique`), one field
or none (`FieldUnique`), and in one message one chain of fields or none
(`ChainUnique`, `ParseUnique`). A reading depends on the bytes it covers only
(`DecodeMoves`, `FieldMoves`). From the two follow that data cut behind some field
has exactly the fields before (`ChainFront`), that data cut elsewhere has none
(`CutParses`), and that two messages one after the other say what both say
(`ReadsBoth`), hence any number of written fields (`ReadsAll`). `Reads` is the
invariant of this: the data and the list of what its fields say, without where they
lie.

The functions of the code look for the first field of a number or for all
of them (`FirstIs`, `RepeatedFront`); with the fields known, a message, a response,
a frame and an acknowledgement are put together and taken apart
(`MessageSurvives`, `ResponseSurvives`, `PushSurvives`, `AckSurvives`). What is
left is how the reader tells gzip from plain data, by its first bytes: no response
begins as gzip data does (`ResponseParts`, `GzipTold`), which is why a plain frame
is not taken for a compressed one.

### Only model-checked

* Liveness (`FairStopEndsTheSession`, `FairRoomComesFree`, `QuietCancelEndsTheJob`,
  `QuietQueuedIsServed`, `CallsReturn`, `LiveIsRecorded`, `WritesReturn`,
  `StopEnds`, `ExitIsFinalized`, `PipesAreRead`, `ResolveReturns`): the prover has
  no rules for fairness over ENABLED.

Every other property of the passing runs, all invariants among them, is a theorem
above.

## 6. Findings

* `recording_clock_step`: `end_session` refuses a wall clock behind the start of
  the open interval and `_close_recipient_session` swallows the refusal
  (`recording/service.py:400`). The result is recorded, the room comes free and
  the row stays active until the next start of the application; until then the
  index refuses every recording of the room. `docs/P1D_IMPLEMENTATION_REPORT.md:39`
  promises that every path closes the open interval.
* `application_cancelled_write`: a room's worker is cancelled while it writes.
  CancelledError is no `Exception`, so `Database.write` releases its lock without
  a rollback (`db/core.py:147`), and BEGIN of every later write raises, for all
  rooms, until the application is started again. `docs/P2A_IMPLEMENTATION_PLAN.md:19`
  promises that one room's failure does not touch the others. (Nothing is lost or
  half written: `WriterIsAtomic` holds.)
* `rooms_configuration`: a PATCH stops the recording, then awaits, then stores the
  change (`api/rooms.py:65`); the worker starts the old URL again in between, and
  neither the update nor its reconcile stops that recording.
  `docs/P2A_IMPLEMENTATION_PLAN.md:51` promises the next recording is a session of
  the new configuration.

### Further divergences

Each of these is a definition of its module that TLC refutes when it is made the
INVARIANT of a run; none of the runs above checks it.

| definition | module, and the cfg to change | what happens | what says otherwise |
|---|---|---|---|
| `EveryShutdownIsClean` | `Recording`; `Recording.cfg` with `RestartFaults = {{"cancel"}}` | a start cancelled while it awaits the commit of its row leaves an active row that `close()` does not end (`recording/service.py:195`) | `docs/P1D_IMPLEMENTATION_REPORT.md:37` |
| `CancelIsFinal` | `PostprocessJobs`; `Jobs.cfg` | a cancel accepted after the last output was exported is recorded, and the job ends `succeeded` (`postprocess/service.py:226`) | `docs/P3A_IMPLEMENTATION_PLAN.md:71` |
| `NothingLeftInTheWay` | `PostprocessJobs`; `Jobs.cfg` | the `.writing` file of a killed attempt refuses each retry (`postprocess/executor.py:86`) | `docs/architecture/architecture-baseline-v2.0/19-16-验收标准.md:11` |
| `DisabledIsNotRecorded` | `RoomManager`; `RoomsConfiguration.cfg` with `ManagerEnabled = FALSE`, `MaxCalls = 2` and `SPECIFICATION Spec` | a start that meets a disable between its stop and its write records a disabled room | `docs/P2A_IMPLEMENTATION_PLAN.md:50` |
| `NoChromeIsLeft` | `StreamResolver`; `Streams.cfg` | a timeout or a cancellation inside `_stop_browser` leaves Chrome running (`stream_resolver.py:427`) | `docs/P1A_IMPLEMENTATION_PLAN.md:73` |
| `UndecodableFramesAreCounted` | `EvidenceCapture`; `Evidence.cfg` | a damaged gzip body raises EOFError or zlib.error, no EnvelopeDecodeError, and the capture ends without manifest and report | `app/douyin/envelope.py:22` |
| `EveryProbeReports` | `Probe`; `Evidence.cfg` | the same in the probe; and a heartbeat that meets a closing connection raises in `finally`, past the report (`probe.py:377`) | `docs/protocol/CAPTURE_RUNBOOK.md:63` |

Seen while modelling, and not stated as findings because no document contradicts
them: `finish_job` reads the job again after its commit, and if that read fails
the handler finishes the job a second time, as `failed`; `claim_next` may fail
after its commit, and the job then says `running` until the next start (so the
properties of the scenario *quiet* are stated for a database that answers); a
second stop sets `_stop_stage` back while the first has gone further; the checks
of a start and of the check action do not count against the semaphore; an
error inside a worker's handler of errors ends the worker, and its room is not
watched until the next reconcile; the trim of an export does not see a gap of the media inside its interval; a killed
application leaves FFmpeg running, and nothing finds it.

## 7. Not modelled

* reads of the stores, paging, row decoding, `backup_to`, read connections: no
  state over time;
* parsing of HTML, JSON and progress lines, choice of the best candidate, stream
  plans and redaction: long functions of text, without state;
* checks of options, URLs, headers and paths at the start of the tools, settings,
  security middleware, paths, bootstrap: validation;
* the limit on the size of a decompressed body, durations (delays, jitter and
  back-off are any length), and hashes (equal content);
* packaging, smoke tests, the browser probe, the web page: sequential scripts
  around the application.

`Recording` and `PostprocessJobs` take a transaction as atomic. `WriterIsAtomic`
proves that it is; that a write may raise because of what another task left
open is covered in both by writes that fail.

## 8. The plan

Done: decoding, reducer, store with its proofs, replay, recording service,
supervisor, export jobs and plans, room manager with rooms and API, resolver,
database writer with its proofs, application, wire format, evidence, probe.

All safety invariants, action properties and refinements that the passing runs
check are proved; liveness is model-checked.

Models to add: the candidate selection as a pure algorithm; `RoomManager` with
`Recording` in place of its abstract service, by the refinement that its steps
promise; several runtimes over the files of a recording.

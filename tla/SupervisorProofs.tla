--------------------------- MODULE SupervisorProofs ---------------------------
(***************************************************************************)
(* Theorems about RecorderSupervisor: whatever is signalled, cancelled or  *)
(* fails, and in whatever order, a recorded result is complete, for any    *)
(* number of stops, lines and segments.                                    *)
(***************************************************************************)
EXTENDS RecorderSupervisor, TLAPS

Stages == InStop \cup {"natural", "none"}
Results == [stage : Stages, progress : Nat]
SessionRow == [active : BOOLEAN, progress : Nat, media : Nat, stage : Stages, recorded : BOOLEAN,
               entry : BOOLEAN, unread : BOOLEAN]

Types ==
    /\ SupervisorTypeOK
    /\ printed \in [Pipes -> Nat] /\ taken \in [Pipes -> Nat] /\ segments \in Nat
    /\ parsed \in [Tasks \cup Pipes -> Nat] /\ \A x \in Tasks \cup Pipes : parsed[x] <= segments
    /\ result \in [Tasks -> Results] /\ row \in SessionRow /\ finalized \in BOOLEAN

\* A stage that a stop has reached.
Reached(stage) == IF signals = {} THEN stage = "natural" ELSE stage \in signals

\* A reader that is done has read everything there will be.
Readers ==
    /\ last_progress = taken["stdout"] /\ Reached(_stop_stage)
    /\ \A p \in Pipes : reader[p] = "done" => Exited /\ taken[p] = printed[p]

Complete(r) == r.stage # "none" => Exited /\ r.progress = printed["stdout"] /\ Reached(r.stage)
AllSegments == row.unread \/ row.media = segments

\* What a task past the exit of FFmpeg brings along.
Sound(t) ==
    /\ task[t] \in {"join", "f_lock"} \cup InFinalizer => Exited
    /\ task[t] \in InFinalizer => finalized /\ ~row.recorded
    /\ Complete(result[t])
    /\ task[t] = "f_sync" => parsed[t] = segments
    /\ task[t] \in {"f_end", "f_record"} => AllSegments
    /\ task[t] = "f_record" => ~row.active

\* The row is written once, behind the last update of the progress.
Row ==
    /\ row.media <= segments
    /\ row.recorded => Exited /\ finalized /\ ~row.active /\ AllSegments
    /\ row.stage # "none" => row.recorded /\ Complete(row)

IInv == Types /\ Readers /\ (\A t \in Tasks : Sound(t)) /\ Row

\* The names of readers and tasks.
LEMMA Names ==
  /\ Pipes = {"stdout", "stderr"} /\ "nobody" \notin Tasks /\ "stdout" \notin Tasks
  /\ Cancellable \subseteq Tasks
BY SupervisorAssumption DEF Pipes, Tasks

\* A line of FFmpeg, a segment it closes, and its exit.
LEMMA FFmpegKeeps ==
  ASSUME IInv, (\E p \in Pipes : prints(p)) \/ closes_segment \/ exits
  PROVE  IInv'
<1> USE SupervisorAssumption DEF ffmpeg, supervisor, service
<1>1. CASE \E p \in Pipes : prints(p)
  <2> PICK p \in Pipes : prints(p)
    BY <1>1
  <2>1. Types'
    <3>1. /\ printed \in [Pipes -> Nat] /\ taken \in [Pipes -> Nat]
          /\ \A q \in Pipes : Lines[q] \in Nat /\ printed[q] \in 0 .. Lines[q] /\ taken[q] \in 0 .. printed[q]
      BY DEF IInv, Types, SupervisorTypeOK, Pipes
    <3>2. printed[p] < Lines[p] /\ printed' = [printed EXCEPT ![p] = @ + 1]
      BY DEF prints
    <3>3. /\ printed' \in [Pipes -> Nat]
          /\ \A q \in Pipes : printed'[q] \in 0 .. Lines[q] /\ taken[q] \in 0 .. printed'[q]
      BY <3>1, <3>2
    <3>4. UNCHANGED <<process, segments, signals, _stop_stage, taken, reader, task, finalize_lock,
                      parsed, result, row, finalized>>
      BY DEF prints
    <3> QED BY <3>1, <3>3, <3>4 DEF IInv, Types, SupervisorTypeOK
  <2>2. Readers'
    BY DEF IInv, Types, SupervisorTypeOK, Readers, Exited, Reached, prints
  <2>3. (\A t \in Tasks : Sound(t))'
    BY DEF IInv, Sound, Complete, Exited, Reached, AllSegments, prints
  <2>4. Row'
    BY DEF IInv, Row, Complete, Exited, Reached, AllSegments, prints
  <2> QED BY <2>1, <2>2, <2>3, <2>4 DEF IInv
<1>2. CASE closes_segment
  <2>1. Types'
    BY <1>2 DEF IInv, Types, SupervisorTypeOK, closes_segment
  <2>2. Readers'
    BY <1>2 DEF IInv, Types, Readers, Exited, Reached, closes_segment
  <2>3. (\A t \in Tasks : Sound(t))'
    BY <1>2 DEF IInv, Sound, Complete, Exited, Reached, AllSegments, InFinalizer, closes_segment
  <2>4. Row'
    BY <1>2 DEF IInv, Types, SessionRow, Row, Complete, Exited, Reached, AllSegments, closes_segment
  <2> QED BY <2>1, <2>2, <2>3, <2>4 DEF IInv
<1>3. CASE exits
  <2>1. Types'
    BY <1>3 DEF IInv, Types, SupervisorTypeOK, exits
  <2>2. Readers' /\ (\A t \in Tasks : Sound(t))' /\ Row'
    BY <1>3 DEF IInv, Readers, Sound, Row, Complete, Exited, Reached, AllSegments, exits
  <2> QED BY <2>1, <2>2 DEF IInv
<1> QED BY <1>1, <1>2, <1>3

\* What only moves readers leaves tasks and row as they are.
LEMMA ReaderMoves ==
  ASSUME IInv, Types', Readers', UNCHANGED <<ffmpeg, signals, service, task, result>>
  PROVE  IInv'
<1>1. (\A t \in Tasks : Sound(t))' /\ Row'
  BY DEF IInv, Sound, Row, Complete, Exited, Reached, AllSegments, ffmpeg, service
<1> QED BY <1>1 DEF IInv

\* A reader takes a line, or sees the end of its pipe.
LEMMA ReaderKeeps ==
  ASSUME IInv, NEW p \in Pipes, takes(p) \/ ends_of_file(p)
  PROVE  IInv'
<1> USE DEF ffmpeg, supervisor, service
<1>1. CASE takes(p)
  <2>1. printed \in [Pipes -> Nat] /\ taken \in [Pipes -> Nat] /\ reader[p] = "reading"
        /\ taken' = [taken EXCEPT ![p] = @ + 1] /\ taken[p] < printed[p]
    BY <1>1 DEF IInv, Types, takes
  <2>2. reader' = [reader EXCEPT ![p] = "progress"] \/ reader' = reader
        \/ reader' = [reader EXCEPT ![p] = "failed"]
    BY <1>1 DEF takes, Reader
  <2>3. UNCHANGED <<ffmpeg, signals, _stop_stage, service, task, result>>
    BY <1>1 DEF takes
  <2>4. last_progress' = taken'["stdout"]
    BY <1>1, <2>1, Names DEF IInv, Readers, takes
  <2>5. Types'
    BY <2>1, <2>2, <2>3 DEF IInv, Types, SupervisorTypeOK, Reading
  <2>6. Readers'
    BY <2>1, <2>2, <2>3, <2>4 DEF IInv, Types, SupervisorTypeOK, Readers, Exited, Reached
  <2> QED BY <2>3, <2>5, <2>6, ReaderMoves
<1>2. CASE ends_of_file(p)
  <2>1. Types'
    BY <1>2 DEF IInv, Types, SupervisorTypeOK, ends_of_file, Reader
  <2>2. Readers'
    BY <1>2 DEF IInv, Types, SupervisorTypeOK, Readers, Exited, Reached, ends_of_file, Reader
  <2> QED BY <1>2, <2>1, <2>2, ReaderMoves DEF ends_of_file
<1> QED BY <1>1, <1>2

\* The callback writes only what FFmpeg has done so far, and the progress only
\* as long as the row is active.
LEMMA CallbackKeeps ==
  ASSUME IInv, on_progress
  PROVE  IInv'
<1> USE DEF ffmpeg, service
<1>1. /\ reader["stdout"] \in {"progress", "session", "sync"}
      /\ reader' = [reader EXCEPT !["stdout"] = "reading"]
         \/ reader' = [reader EXCEPT !["stdout"] = "session"]
         \/ reader' = [reader EXCEPT !["stdout"] = "sync"]
  BY DEF on_progress, Reader, callback_fails
<1>2. UNCHANGED <<ffmpeg, signals, _stop_stage, taken, last_progress, finalized, finalize_lock, task, result>>
  BY DEF on_progress
<1>3. \/ row' = row
      \/ row.active /\ row' = [row EXCEPT !.progress = last_progress]
      \/ row' = [row EXCEPT !.media = IF parsed["stdout"] > @ THEN parsed["stdout"] ELSE @]
  BY DEF on_progress, update_progress, Sync
<1>4. parsed' = [parsed EXCEPT !["stdout"] = IF reader["stdout"] = "session" THEN segments ELSE 0]
  BY DEF on_progress, parse_segment_csv
<1>5. /\ row \in SessionRow /\ segments \in Nat /\ parsed \in [Tasks \cup Pipes -> Nat]
      /\ \A x \in Tasks \cup Pipes : parsed[x] <= segments
      /\ last_progress \in Nat /\ row.media <= segments
      /\ "stdout" \in Tasks \cup Pipes /\ parsed["stdout"] \in Nat
  BY Names DEF IInv, Types, Readers, Row
<1>6. /\ row' \in SessionRow /\ row'.media <= segments
      /\ row'.active = row.active /\ row'.stage = row.stage /\ row'.recorded = row.recorded
      /\ row'.entry = row.entry /\ row'.unread = row.unread
      /\ row'.progress # row.progress => row.active
      /\ row'.media = row.media \/ (row'.media = parsed["stdout"] /\ parsed["stdout"] > row.media)
  BY <1>3, <1>5 DEF SessionRow
<1>7. /\ parsed' \in [Tasks \cup Pipes -> Nat]
      /\ \A x \in Tasks \cup Pipes : parsed'[x] <= segments
      /\ \A x \in Tasks : parsed'[x] = parsed[x]
  BY <1>4, <1>5, Names
<1>8. Types'
  BY <1>1, <1>2, <1>6, <1>7 DEF IInv, Types, SupervisorTypeOK, Reading
<1>9. Readers'
  BY <1>1, <1>2 DEF IInv, Types, SupervisorTypeOK, Readers, Exited, Reached
<1>10. AllSegments => AllSegments'
  BY <1>2, <1>5, <1>6 DEF AllSegments, SessionRow
<1>11. (\A t \in Tasks : Sound(t))'
  BY <1>2, <1>6, <1>7, <1>10 DEF IInv, Sound, Complete, Exited, Reached
<1>12. Row'
  BY <1>2, <1>6, <1>10 DEF IInv, Row, Complete, Exited, Reached
<1> QED BY <1>8, <1>9, <1>11, <1>12 DEF IInv

-----------------------------------------------------------------------------
\* What moves one task, and leaves FFmpeg, the signals and the tables alone.
LEMMA TaskMoves ==
  ASSUME IInv, NEW t \in Tasks, NEW pc, task' = [task EXCEPT ![t] = pc],
         Types', Readers', Sound(t)',
         UNCHANGED <<process, printed, segments, signals, parsed, finalized, row>>,
         \A u \in Tasks \ {t} : result'[u] = result[u]
  PROVE  IInv'
<1>1. \A u \in Tasks \ {t} : task'[u] = task[u]
  BY DEF IInv, Types, SupervisorTypeOK
<1>2. ASSUME NEW u \in Tasks \ {t} PROVE Sound(u)'
  BY <1>1 DEF IInv, Sound, Complete, Exited, Reached, AllSegments
<1>3. Row'
  BY DEF IInv, Row, Complete, Exited, Reached, AllSegments
<1> QED BY <1>2, <1>3 DEF IInv

\* A stop on its way: it asks, waits and gives up waiting, gets _wait_lock and
\* sees the exit.
LEMMA StopKeeps ==
  ASSUME IInv, NEW t \in Tasks, stop(t) \/ stop_timeout(t)
  PROVE  IInv'
<1> USE DEF ffmpeg, service
<1>1. PICK pc \in {"wait"} \cup InStop : task' = [task EXCEPT ![t] = pc]
  BY DEF stop, stop_timeout, Goto, InStop
<1>2. /\ task[t] \in {"idle", "graceful", "terminate"}
      /\ UNCHANGED <<ffmpeg, taken, reader, last_progress, service, result>>
  BY DEF stop, stop_timeout, At
<1>3. \/ UNCHANGED <<signals, _stop_stage>>
      \/ ~Exited /\ \E s \in InStop : _stop_stage' = s /\ signals' = signals \cup {s}
  BY DEF stop, stop_timeout, Signal, InStop
<1>4. task[t] \notin InFinalizer /\ pc \notin {"join", "f_lock"} \cup InFinalizer
  BY <1>2 DEF InStop, InFinalizer
<1>5. Types'
  BY <1>1, <1>2, <1>3, <1>4 DEF IInv, Types, SupervisorTypeOK
<1>6. Readers'
  BY <1>2, <1>3 DEF IInv, Types, SupervisorTypeOK, Readers, Exited, Reached
<1>7. \A u \in Tasks : task'[u] = IF u = t THEN pc ELSE task[u]
  BY <1>1 DEF IInv, Types, SupervisorTypeOK
<1>8. \A r : Complete(r) => Complete(r)'
  BY <1>2, <1>3 DEF IInv, Types, SupervisorTypeOK, Complete, Exited, Reached
<1>9. (\A u \in Tasks : Sound(u))'
  BY <1>2, <1>4, <1>7, <1>8 DEF IInv, Sound, Exited, AllSegments, InFinalizer
<1>10. Row'
  BY <1>2, <1>8 DEF IInv, Row, Exited, AllSegments
<1> QED BY <1>5, <1>6, <1>9, <1>10 DEF IInv

\* wait and stop go on when FFmpeg has exited.
LEMMA WaitKeeps ==
  ASSUME IInv, NEW t \in Tasks, stop_exited(t) \/ wait(t) \/ wait_exited(t)
  PROVE  IInv'
<1> USE DEF ffmpeg, service
<1>1. PICK pc \in {"wait", "exit", "join"} : task' = [task EXCEPT ![t] = pc] /\ (pc = "join" => Exited)
  BY DEF stop_exited, wait, wait_exited, Goto
<1>2. /\ task[t] \in InStop \cup {"wait", "exit"}
      /\ UNCHANGED <<ffmpeg, signals, _stop_stage, taken, reader, last_progress, service, result>>
  BY DEF stop_exited, wait, wait_exited, At, supervisor
<1>3. task[t] \notin InFinalizer /\ pc \notin InFinalizer /\ task'[t] = pc
  BY <1>1, <1>2 DEF InStop, InFinalizer, IInv, Types, SupervisorTypeOK
<1>4. Types'
  BY <1>1, <1>2, <1>3 DEF IInv, Types, SupervisorTypeOK
<1>5. Readers'
  BY <1>2 DEF IInv, Readers, Exited, Reached
<1>6. Sound(t)'
  BY <1>1, <1>2, <1>3 DEF IInv, Sound, Complete, Exited, Reached, AllSegments, InFinalizer
<1> QED BY <1>1, <1>2, <1>4, <1>5, <1>6, TaskMoves

\* wait returns a result behind both readers, or raises without one.
LEMMA JoinKeeps ==
  ASSUME IInv, NEW t \in Tasks, wait_returns(t) \/ wait_raises(t)
  PROVE  IInv'
<1> USE DEF ffmpeg, service
<1>1. PICK pc \in {"f_lock", "raised", "cancelled"} : task' = [task EXCEPT ![t] = pc]
  BY DEF wait_returns, wait_raises, Goto
<1>2. /\ task[t] = "join" /\ Exited
      /\ UNCHANGED <<ffmpeg, signals, _stop_stage, taken, reader, last_progress, service>>
  BY DEF wait_returns, wait_raises, At, IInv, Sound
<1>3. \/ UNCHANGED result
      \/ /\ \A p \in Pipes : reader[p] = "done"
         /\ result' = [result EXCEPT ![t] = Got]
  BY DEF wait_returns, wait_raises, Joined, IInv, Types, SupervisorTypeOK
<1>4. task[t] \notin InFinalizer /\ pc \notin InFinalizer /\ task'[t] = pc
  BY <1>1, <1>2 DEF InFinalizer, IInv, Types, SupervisorTypeOK
<1>5. Got \in Results
  BY DEF Got, Results, Stages, IInv, Types, SupervisorTypeOK, Readers, Pipes
<1>6. result' \in [Tasks -> Results] /\ \A u \in Tasks \ {t} : result'[u] = result[u]
  BY <1>3, <1>5 DEF IInv, Types
<1>7. Types'
  BY <1>1, <1>2, <1>4, <1>6 DEF IInv, Types, SupervisorTypeOK, Answered
<1>8. Readers'
  BY <1>2 DEF IInv, Readers, Exited, Reached
<1>9. Complete(result[t])'
  <2>1. CASE UNCHANGED result
    BY <1>2, <2>1 DEF IInv, Sound, Complete, Exited, Reached
  <2>2. CASE (\A p \in Pipes : reader[p] = "done") /\ result' = [result EXCEPT ![t] = Got]
    <3>1. result'[t] = Got
      BY <2>2 DEF IInv, Types
    <3>2. last_progress = printed["stdout"] /\ Reached(_stop_stage)
      BY <2>2, Names DEF IInv, Readers
    <3> QED BY <1>2, <3>1, <3>2 DEF Complete, Got, Exited, Reached
  <2> QED BY <1>3, <2>1, <2>2
<1>10. Sound(t)'
  BY <1>1, <1>2, <1>4, <1>9 DEF Sound, Exited, InFinalizer
<1> QED BY <1>1, <1>2, <1>6, <1>7, <1>8, <1>10, TaskMoves

\* A cancelled task leaves what it holds, and takes the readers it joins along.
LEMMA CancelKeeps ==
  ASSUME IInv, NEW t \in Tasks, cancel(t)
  PROVE  IInv'
<1> USE DEF ffmpeg, service
<1>1. /\ task' = [task EXCEPT ![t] = "cancelled"]
      /\ reader' = [p \in Pipes |-> IF At(t, "join") /\ reader[p] \in Reading THEN "cancelled" ELSE reader[p]]
      /\ finalize_lock' = IF finalize_lock = t THEN "nobody" ELSE finalize_lock
      /\ UNCHANGED <<ffmpeg, signals, _stop_stage, taken, last_progress, parsed, finalized, row, result>>
  BY DEF cancel, Goto
<1>2. "cancelled" \notin InFinalizer \cup {"join", "f_lock"} /\ task'[t] = "cancelled"
  BY <1>1 DEF InFinalizer, IInv, Types, SupervisorTypeOK
<1>3. \A p \in Pipes : reader'[p] = reader[p] \/ reader'[p] = "cancelled"
  BY <1>1
<1>4. reader' \in [Pipes -> Reading \cup {"done", "failed", "cancelled"}]
  BY <1>1 DEF IInv, Types, SupervisorTypeOK
<1>5. \A u \in Tasks : task'[u] \in InFinalizer <=> finalize_lock' = u
  BY <1>1, <1>2, Names DEF IInv, Types, SupervisorTypeOK
<1>6. Types'
  BY <1>1, <1>4, <1>5 DEF IInv, Types, SupervisorTypeOK, Answered
<1>7. Readers'
  BY <1>1, <1>3 DEF IInv, Readers, Exited, Reached
<1>8. Sound(t)'
  BY <1>1, <1>2 DEF IInv, Sound, Complete, Exited, Reached, InFinalizer
<1> QED BY <1>1, <1>6, <1>7, <1>8, TaskMoves

-----------------------------------------------------------------------------
\* The finalizer: whoever gets it first records, the others return.
LEMMA LockedKeeps ==
  ASSUME IInv, NEW t \in Tasks, finalize_locked(t)
  PROVE  IInv'
<1> USE DEF ffmpeg
<1>1. /\ task[t] = "f_lock" /\ finalize_lock = "nobody" /\ Exited
      /\ UNCHANGED <<ffmpeg, supervisor, parsed, row>>
  BY DEF finalize_locked, At, IInv, Sound
<1>2. Readers'
  BY <1>1 DEF IInv, Readers, Exited, Reached, supervisor
<1>3. CASE finalized
  <2>1. /\ task' = [task EXCEPT ![t] = "returned"] /\ result' = [result EXCEPT ![t] = NoResult]
        /\ UNCHANGED <<finalized, finalize_lock>>
    BY <1>3 DEF finalize_locked, Goto
  <2>2. task'[t] = "returned" /\ result'[t] = NoResult /\ task[t] \notin InFinalizer
        /\ "returned" \notin InFinalizer /\ NoResult \in Results
    BY <1>1, <2>1 DEF InFinalizer, NoResult, Results, Stages, IInv, Types, SupervisorTypeOK
  <2>3. Types'
    BY <1>1, <2>1, <2>2 DEF IInv, Types, SupervisorTypeOK, Answered, supervisor
  <2>4. Sound(t)'
    BY <2>2 DEF Sound, Complete, NoResult, InFinalizer
  <2>5. \A u \in Tasks \ {t} : result'[u] = result[u]
    BY <2>1 DEF IInv, Types
  <2> QED BY <1>1, <1>2, <2>1, <2>3, <2>4, <2>5, TaskMoves DEF supervisor
<1>4. CASE ~finalized
  <2>1. /\ task' = [task EXCEPT ![t] = "f_session"] /\ finalized' = TRUE /\ finalize_lock' = t
        /\ UNCHANGED result
    BY <1>4 DEF finalize_locked, Goto
  <2>2. \A u \in Tasks : task'[u] = IF u = t THEN "f_session" ELSE task[u]
    BY <2>1 DEF IInv, Types, SupervisorTypeOK
  <2>3. "f_session" \in InFinalizer /\ \A u \in Tasks : task[u] \notin InFinalizer
    BY <1>1, Names DEF InFinalizer, IInv, Types, SupervisorTypeOK
  <2>4. Types'
    BY <1>1, <2>1, <2>2, <2>3 DEF IInv, Types, SupervisorTypeOK, supervisor
  <2>5. ~row.recorded
    BY <1>4 DEF IInv, Row
  <2>6. (\A u \in Tasks : Sound(u))'
    BY <1>1, <2>1, <2>2, <2>3, <2>5
       DEF IInv, Sound, Complete, Exited, Reached, AllSegments, supervisor, InFinalizer
  <2>7. Row'
    BY <1>1, <2>1 DEF IInv, Row, Complete, Exited, Reached, AllSegments, supervisor
  <2> QED BY <1>2, <2>4, <2>6, <2>7 DEF IInv
<1> QED BY <1>3, <1>4

\* Only the finalizer of the moment is at work.
LEMMA Alone ==
  ASSUME IInv, NEW t \in Tasks, task[t] \in InFinalizer
  PROVE  /\ finalize_lock = t /\ \A u \in Tasks \ {t} : task[u] \notin InFinalizer
         /\ Exited /\ finalized /\ ~row.recorded /\ row.stage = "none"
BY DEF IInv, Types, SupervisorTypeOK, Sound, Row

\* The finalizer writes: its list is complete, for FFmpeg has exited.
LEMMA SyncKeeps ==
  ASSUME IInv, NEW t \in Tasks, _sync_segments(t)
  PROVE  IInv'
<1> USE DEF ffmpeg
<1>1. /\ task[t] \in {"f_session", "f_sync"} /\ task[t] \in InFinalizer
      /\ UNCHANGED <<ffmpeg, supervisor, finalized, finalize_lock, result>>
  BY DEF _sync_segments, At, InFinalizer
<1>2. finalize_lock = t /\ (\A u \in Tasks \ {t} : task[u] \notin InFinalizer)
      /\ Exited /\ finalized /\ ~row.recorded /\ row.stage = "none"
  BY <1>1, Alone
<1>3. PICK pc \in {"f_sync", "f_end"} : task' = [task EXCEPT ![t] = pc]
  BY DEF _sync_segments, Goto
<1>4. \A u \in Tasks : task'[u] = IF u = t THEN pc ELSE task[u]
  BY <1>3 DEF IInv, Types, SupervisorTypeOK
<1>5. parsed' = [parsed EXCEPT ![t] = IF pc = "f_sync" THEN segments ELSE 0]
  BY <1>4 DEF _sync_segments, parse_segment_csv
<1>6. /\ segments \in Nat /\ parsed \in [Tasks \cup Pipes -> Nat] /\ row \in SessionRow
      /\ \A x \in Tasks \cup Pipes : parsed[x] <= segments
      /\ row.media <= segments /\ parsed[t] \in Nat
  BY DEF IInv, Types, Row
<1>7. /\ parsed' \in [Tasks \cup Pipes -> Nat] /\ \A x \in Tasks \cup Pipes : parsed'[x] <= segments
      /\ pc = "f_sync" => parsed'[t] = segments
  BY <1>5, <1>6
<1>8. \/ pc = "f_sync" /\ row' = row
      \/ row' = [row EXCEPT !.unread = TRUE]
      \/ /\ parsed[t] = segments
         /\ row' = [row EXCEPT !.media = IF parsed[t] > @ THEN parsed[t] ELSE @]
  BY <1>3, <1>4 DEF _sync_segments, At, Goto, Sync, IInv, Sound
<1>9. /\ row' \in SessionRow /\ row'.media <= segments /\ row'.active = row.active
      /\ row'.recorded = row.recorded /\ row'.stage = row.stage /\ row'.progress = row.progress
      /\ pc = "f_end" => row'.unread \/ row'.media = segments
  <2>1. CASE pc = "f_sync" /\ row' = row
    BY <1>6, <2>1
  <2>2. CASE row' = [row EXCEPT !.unread = TRUE]
    BY <1>6, <2>2 DEF SessionRow
  <2>3. CASE parsed[t] = segments /\ row' = [row EXCEPT !.media = IF parsed[t] > @ THEN parsed[t] ELSE @]
    <3>1. row.media \in Nat /\ (IF segments > row.media THEN segments ELSE row.media) = segments
      BY <1>6 DEF SessionRow
    <3>2. row' = [row EXCEPT !.media = segments]
      BY <2>3, <3>1
    <3> QED BY <1>6, <3>2 DEF SessionRow
  <2> QED BY <1>8, <2>1, <2>2, <2>3
<1>10. Types'
  BY <1>1, <1>2, <1>3, <1>4, <1>7, <1>9 DEF IInv, Types, SupervisorTypeOK, supervisor, InFinalizer
<1>11. Readers'
  BY <1>1 DEF IInv, Readers, Exited, Reached, supervisor
<1>12. (\A u \in Tasks : Sound(u))'
  BY <1>1, <1>2, <1>4, <1>7, <1>9
     DEF IInv, Sound, Complete, Exited, Reached, AllSegments, supervisor, InFinalizer
<1>13. Row'
  BY <1>1, <1>2, <1>9 DEF IInv, Row, Complete, Exited, Reached, AllSegments, supervisor
<1> QED BY <1>10, <1>11, <1>12, <1>13 DEF IInv

\* The row ends, and then takes what the result of its finalizer says.
LEMMA RecordedKeeps ==
  ASSUME IInv, NEW t \in Tasks, finalize_recorded(t)
  PROVE  IInv'
<1> USE DEF ffmpeg
<1>1. /\ task[t] \in {"f_end", "f_record"} /\ task[t] \in InFinalizer
      /\ UNCHANGED <<ffmpeg, supervisor, parsed, finalized, result>>
  BY DEF finalize_recorded, At, InFinalizer
<1>2. /\ finalize_lock = t /\ (\A u \in Tasks \ {t} : task[u] \notin InFinalizer)
      /\ Exited /\ finalized /\ ~row.recorded /\ row.stage = "none" /\ AllSegments
      /\ row \in SessionRow /\ row.media <= segments
      /\ result[t] \in Results /\ Complete(result[t])
  BY <1>1, Alone DEF IInv, Sound, Types, Row
<1>3. Readers'
  BY <1>1 DEF IInv, Readers, Exited, Reached, supervisor
<1>4. CASE task[t] = "f_end"
  <2>1. /\ task' = [task EXCEPT ![t] = "f_record"] /\ row' = [row EXCEPT !.active = FALSE]
        /\ UNCHANGED finalize_lock
    BY <1>4 DEF finalize_recorded, Goto, At
  <2>2. \A u \in Tasks : task'[u] = IF u = t THEN "f_record" ELSE task[u]
    BY <2>1 DEF IInv, Types, SupervisorTypeOK
  <2>3. /\ row' \in SessionRow /\ ~row'.active /\ row'.recorded = row.recorded
        /\ row'.stage = row.stage /\ row'.media = row.media /\ row'.unread = row.unread
    BY <1>2, <2>1 DEF SessionRow
  <2>4. Types'
    BY <1>1, <1>2, <2>1, <2>2, <2>3 DEF IInv, Types, SupervisorTypeOK, supervisor, InFinalizer
  <2>5. (\A u \in Tasks : Sound(u))'
    BY <1>1, <1>2, <2>2, <2>3
       DEF IInv, Sound, Complete, Exited, Reached, AllSegments, supervisor, InFinalizer
  <2>6. Row'
    BY <1>1, <1>2, <2>3 DEF Row, Complete, Exited, Reached, AllSegments, supervisor
  <2> QED BY <1>3, <2>4, <2>5, <2>6 DEF IInv
<1>5. CASE task[t] = "f_record"
  <2>1. /\ task' = [task EXCEPT ![t] = "returned"] /\ finalize_lock' = "nobody"
        /\ row' = [row EXCEPT !.progress = result[t].progress, !.stage = result[t].stage,
                              !.recorded = TRUE, !.entry = FALSE]
    BY <1>5 DEF finalize_recorded, Goto, At
  <2>2. \A u \in Tasks : task'[u] = IF u = t THEN "returned" ELSE task[u]
    BY <2>1 DEF IInv, Types, SupervisorTypeOK
  <2>3. ~row.active /\ "returned" \notin InFinalizer
    BY <1>5 DEF IInv, Sound, InFinalizer
  <2>4. /\ row' \in SessionRow /\ row'.active = row.active /\ row'.recorded
        /\ row'.stage = result[t].stage /\ row'.progress = result[t].progress
        /\ row'.media = row.media /\ row'.unread = row.unread
    BY <1>2, <2>1 DEF SessionRow, Results
  <2>5. \A u \in Tasks : task'[u] \notin InFinalizer
    BY <1>2, <2>2, <2>3
  <2>6. Types'
    BY <1>1, <1>2, <2>1, <2>2, <2>4, <2>5, Names DEF IInv, Types, SupervisorTypeOK, supervisor, Answered
  <2>7. (\A u \in Tasks : Sound(u))'
    BY <1>1, <1>2, <2>2, <2>5
       DEF IInv, Sound, Complete, Exited, Reached, supervisor, InFinalizer
  <2>8. Row'
    BY <1>1, <1>2, <2>3, <2>4 DEF Row, Complete, Exited, Reached, AllSegments, supervisor
  <2> QED BY <1>3, <2>6, <2>7, <2>8 DEF IInv
<1> QED BY <1>1, <1>4, <1>5

\* A finalizer that raises gives its lock back and records nothing.
LEMMA RaisesKeeps ==
  ASSUME IInv, NEW t \in Tasks, finalize_raises(t)
  PROVE  IInv'
<1> USE DEF ffmpeg
<1>1. /\ task[t] \in InFinalizer /\ task' = [task EXCEPT ![t] = "raised"] /\ finalize_lock' = "nobody"
      /\ UNCHANGED <<ffmpeg, supervisor, parsed, finalized, row, result>>
  BY DEF finalize_raises, Goto
<1>2. "raised" \notin InFinalizer /\ task'[t] = "raised"
      /\ \A u \in Tasks : task'[u] \notin InFinalizer
  BY <1>1, Alone DEF InFinalizer, IInv, Types, SupervisorTypeOK
<1>3. Types'
  BY <1>1, <1>2, Names DEF IInv, Types, SupervisorTypeOK, supervisor, Answered
<1>4. Readers' /\ Sound(t)'
  BY <1>1, <1>2 DEF IInv, Readers, Sound, Complete, Exited, Reached, supervisor, InFinalizer
<1> QED BY <1>1, <1>3, <1>4, TaskMoves DEF supervisor

-----------------------------------------------------------------------------
\* So every step keeps the invariant.
LEMMA StepKeeps ==
  ASSUME IInv, [SupervisorNext]_svars
  PROVE  IInv'
<1>1. CASE UNCHANGED svars
  BY <1>1 DEF svars, ffmpeg, supervisor, service, IInv, Types, SupervisorTypeOK, Readers, Sound, Row,
              Complete, Exited, Reached, AllSegments
<1>2. ASSUME NEW t \in Tasks, stop(t) \/ TaskStep(t) \/ cancel(t)
      PROVE  IInv'
  BY <1>2, StopKeeps, WaitKeeps, JoinKeeps, CancelKeeps, LockedKeeps, SyncKeeps, RecordedKeeps, RaisesKeeps
     DEF TaskStep
<1>3. ASSUME ReaderStep PROVE IInv'
  BY <1>3, ReaderKeeps, CallbackKeeps DEF ReaderStep
<1> QED BY <1>1, <1>2, <1>3, FFmpegKeeps DEF SupervisorNext

\* It holds when FFmpeg was just started.
LEMMA InitHolds ==
  ASSUME SupervisorInit
  PROVE  IInv
<1> USE DEF SupervisorInit
<1>1. \A p \in Pipes : Lines[p] \in Nat /\ printed[p] = 0 /\ taken[p] = 0 /\ reader[p] = "reading"
  BY SupervisorAssumption DEF Pipes
<1>2. \A t \in Tasks : task[t] \in {"exit", "idle"} /\ result[t] = NoResult
  OBVIOUS
<1>3. NoResult \in Results /\ row \in SessionRow
  BY DEF NoResult, Results, Stages, SessionRow
<1>4. finalize_lock = "nobody" /\ \A t \in Tasks : t # "nobody" /\ task[t] \notin InFinalizer
  BY <1>2, Names DEF InFinalizer
<1>5. SupervisorTypeOK
  BY <1>1, <1>2, <1>4 DEF SupervisorTypeOK, Reading, Answered
<1>6. Types
  <2>1. result \in [Tasks -> Results]
    BY <1>3
  <2>2. segments = 0 /\ finalized = FALSE /\ parsed = [x \in Tasks \cup Pipes |-> 0]
    OBVIOUS
  <2>3. printed \in [Pipes -> Nat] /\ taken \in [Pipes -> Nat]
    OBVIOUS
  <2> HIDE DEF SupervisorInit
  <2>4. /\ parsed \in [Tasks \cup Pipes -> Nat] /\ \A x \in Tasks \cup Pipes : parsed[x] <= segments
        /\ segments \in Nat /\ finalized \in BOOLEAN
    <3>1. 0 <= 0 /\ 0 \in Nat
      OBVIOUS
    <3>2. parsed \in [Tasks \cup Pipes -> Nat]
      BY <2>2, <3>1
    <3> QED BY <2>2, <3>1, <3>2
  <2> QED BY <1>3, <1>5, <2>1, <2>3, <2>4 DEF Types
<1>7. Readers /\ Row
  BY <1>1, Names DEF Readers, Row, Reached, Complete
<1>8. \A t \in Tasks : Sound(t)
  BY <1>2 DEF Sound, Complete, NoResult, InFinalizer
<1> QED BY <1>6, <1>7, <1>8 DEF IInv

\* It holds in every state of a recording.
LEMMA Inductive == SupervisorSpec => []IInv
BY InitHolds, StepKeeps, PTL DEF SupervisorSpec

\* Whatever stop, cancellation or failure comes in between: a recorded result
\* has the last progress FFmpeg printed and every segment it closed, and names
\* a stage that was reached.
THEOREM ResultsAreComplete == SupervisorSpec => []ResultIsComplete
<1>1. ASSUME IInv PROVE ResultIsComplete
  BY <1>1 DEF IInv, Types, Row, Complete, Reached, AllSegments, ResultIsComplete, StageIsReal
<1> QED BY <1>1, Inductive, PTL

=============================================================================

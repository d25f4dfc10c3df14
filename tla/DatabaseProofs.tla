--------------------------- MODULE DatabaseProofs ---------------------------
(***************************************************************************)
(* Theorems about DatabaseWriter, for any writes, and about Application,   *)
(* whose every step is one of the writer: what the writer promises holds   *)
(* over starts, stops and crashes, and a runtime's end is its last write.  *)
(***************************************************************************)
EXTENDS Application, TLAPS

\* One task at a time is inside the lock; while a migration runs none is.
OneInside == \A o, p \in Ops : pc[o] \in Inside /\ pc[p] \in Inside => o = p
ScriptAlone ==
    script # "none" => /\ connection = "transaction" /\ LockFree /\ pending = Nothing
                       /\ schema_migrations < Migrations
NoneOpen == connection # "transaction" => pending = Nothing

\* Whose changes the open transaction holds, and how many.
OpenOnes ==
    \A o \in Ops :
        /\ pending[o] > 0 => rows[o] = 0 /\ pc[o] \in {"operation", "commit", "rollback", "cancelled"}
        /\ pc[o] = "operation" => pending[o] < Statements
        /\ pc[o] = "commit" /\ connection = "transaction" => pending[o] = Statements
        /\ pc[o] \in {"operation", "commit", "rollback"} => \A p \in Ops \ {o} : pending[p] = 0

\* Who has rows in the database.
RowsTold ==
    \A o \in Ops : /\ rows[o] > 0 => pc[o] \in {"returned", "cancelled", "lost"}
                   /\ pc[o] = "returned" => rows[o] = Statements

IInv == /\ TypeOK /\ MigrationsAreWhole /\ AllOrNothing
        /\ OneInside /\ ScriptAlone /\ NoneOpen /\ OpenOnes /\ RowsTold

\* A database that was never opened satisfies the invariant.
LEMMA InitIInv == DatabaseInit => IInv
BY DatabaseAssumption
   DEF DatabaseInit, IInv, TypeOK, MigrationsAreWhole, AllOrNothing, OneInside, ScriptAlone,
       NoneOpen, OpenOnes, RowsTold, Nothing, Inside, InFlight, Answers, LockFree

\* The invariant without its parts on the schema, which a step of a write
\* leaves alone.
USE DatabaseAssumption DEF Inside, InFlight, Answers, Nothing

\* Connecting, a step of the migrations, a migration that raises, and closing keep it.
LEMMA MigrationKeepsIInv ==
  ASSUME IInv, connect \/ MigrationStep \/ migration_raises \/ close
  PROVE  IInv'
<1> USE DEF IInv, TypeOK, MigrationsAreWhole, AllOrNothing, OneInside, ScriptAlone,
            NoneOpen, OpenOnes, RowsTold, LockFree, schema
<1>1. CASE connect
  BY <1>1 DEF connect
<1>2. CASE migration_begins
  BY <1>2 DEF migration_begins
<1>3. CASE migration_runs
  BY <1>3 DEF migration_runs
<1>4. CASE migration_commits
  BY <1>4 DEF migration_commits
<1>5. CASE migration_raises
  BY <1>5 DEF migration_raises, closed
<1>6. CASE close
  BY <1>6 DEF close, closed
<1> QED BY <1>1, <1>2, <1>3, <1>4, <1>5, <1>6 DEF MigrationStep

\* A kill drops what is not committed; a commit under way has happened or not.
LEMMA KilledKeepsIInv == ASSUME IInv, killed PROVE IInv'
<1> USE DEF IInv, TypeOK, MigrationsAreWhole, AllOrNothing, OneInside, ScriptAlone,
            NoneOpen, OpenOnes, RowsTold, LockFree, schema
<1>1. CASE rows' = rows
  BY <1>1 DEF killed
<1>2. CASE connection = "transaction" /\ (\E o \in Ops : pc[o] = "commit") /\ rows' = Durable
  <2>1. PICK o \in Ops : pc[o] = "commit"
    BY <1>2
  <2>2. /\ pending[o] = Statements /\ rows[o] = 0
        /\ \A p \in Ops \ {o} : pending[p] = 0
    BY <2>1, <1>2
  <2>3. /\ rows'[o] = Statements /\ pc'[o] = "lost"
        /\ \A p \in Ops \ {o} : rows'[p] = rows[p]
    BY <2>1, <2>2, <1>2 DEF killed, Durable
  <2> QED BY <2>1, <2>2, <2>3, <1>2 DEF killed, Durable
<1> QED BY <1>1, <1>2 DEF killed

\* A write, step by step, keeps it: rows change inside the transaction of the lock holder.
LEMMA WriteKeepsIInv ==
  ASSUME IInv, NEW o \in Ops, write(o) \/ WriteStep(o)
  PROVE  IInv'
<1> USE DEF IInv, TypeOK, MigrationsAreWhole, AllOrNothing, OneInside, ScriptAlone,
            NoneOpen, OpenOnes, RowsTold, LockFree, schema, Goes
<1>1. CASE write(o)
  BY <1>1 DEF write
<1>2. CASE locked(o)
  BY <1>2 DEF locked
<1>3. CASE begin(o)
  BY <1>3 DEF begin
<1>4. CASE begin_raises(o)
  BY <1>4 DEF begin_raises
<1>5. CASE statement(o)
  BY <1>5 DEF statement, Executed
<1>6. CASE commit(o)
  BY <1>6 DEF commit, Committed, Durable
<1>7. CASE operation_raises(o)
  BY <1>7 DEF operation_raises
<1>8. CASE rollback(o)
  BY <1>8 DEF rollback, RolledBack
<1> QED BY <1>1, <1>2, <1>3, <1>4, <1>5, <1>6, <1>7, <1>8 DEF WriteStep

\* A cancelled write keeps it.
LEMMA CancelKeepsIInv == ASSUME IInv, NEW o \in Ops, cancel(o) PROVE IInv'
<1> USE DEF IInv, TypeOK, MigrationsAreWhole, AllOrNothing, OneInside, ScriptAlone,
            NoneOpen, OpenOnes, RowsTold, LockFree, schema, Goes, cancel, Abandoned
<1>1. CASE pc[o] = "begin"
  BY <1>1
<1>2. CASE pc[o] = "operation"
  BY <1>2 DEF Executed
<1>3. CASE pc[o] = "commit"
  BY <1>3 DEF Committed, Durable
<1>4. CASE pc[o] = "rollback"
  BY <1>4 DEF RolledBack
<1>5. CASE pc[o] = "lock"
  BY <1>5
<1> QED BY <1>1, <1>2, <1>3, <1>4, <1>5

\* Every step keeps it.
LEMMA NextIInv == ASSUME IInv, [DatabaseNext]_dvars PROVE IInv'
<1>1. CASE UNCHANGED dvars
  BY <1>1 DEF IInv, TypeOK, MigrationsAreWhole, AllOrNothing, OneInside, ScriptAlone,
              NoneOpen, OpenOnes, RowsTold, LockFree, dvars
<1>2. CASE connect \/ MigrationStep \/ migration_raises \/ close
  BY <1>2, MigrationKeepsIInv
<1>3. CASE killed
  BY <1>3, KilledKeepsIInv
<1>4. CASE \E o \in Ops : write(o) \/ WriteStep(o)
  BY <1>4, WriteKeepsIInv
<1>5. CASE \E o \in Ops : cancel(o)
  BY <1>5, CancelKeepsIInv
<1> QED BY <1>1, <1>2, <1>3, <1>4, <1>5 DEF DatabaseNext

\* The inductive invariant holds in every state of the writer.
THEOREM DatabaseInvariance == DatabaseSpec => []IInv
<1>1. DatabaseInit => IInv
  BY InitIInv
<1>2. IInv /\ [DatabaseNext]_dvars => IInv'
  BY NextIInv
<1> QED BY <1>1, <1>2, PTL DEF DatabaseSpec

\* The connection, the lock and the rows keep their types.
THEOREM DatabaseTypeCorrect == DatabaseSpec => []TypeOK
<1>1. IInv => TypeOK
  BY DEF IInv
<1> QED BY <1>1, DatabaseInvariance, PTL

\* A migration and its record are in the database together, whenever the
\* process is killed.
THEOREM MigrationsNeverHalf == DatabaseSpec => []MigrationsAreWhole
<1>1. IInv => MigrationsAreWhole
  BY DEF IInv
<1> QED BY <1>1, DatabaseInvariance, PTL

\* No part of a write is ever in the database without the rest, although a
\* cancelled write leaves its transaction open.
THEOREM WritesNeverHalf == DatabaseSpec => []AllOrNothing
<1>1. IInv => AllOrNothing
  BY DEF IInv
<1> QED BY <1>1, DatabaseInvariance, PTL

-----------------------------------------------------------------------------
(* The writer implements AtomicWrites. *)

AStep == AW!Next \/ UNCHANGED AW!avars

\* A step without rows or answers changed is a stutter of the atomic writes.
LEMMA QuietStep ==
  ASSUME IInv, UNCHANGED rows,
         \A o \in Ops : pc'[o] = pc[o] \/ (pc[o] \notin Answers /\ pc'[o] \notin Answers)
  PROVE  AStep
<1>1. Done' = Done
  BY DEF Done
<1>2. Answer' = Answer
  BY DEF Answer
<1> QED BY <1>1, <1>2 DEF AStep, AW!avars

\* A step that changes one answer changes the function at one place.
LEMMA AnswerAt ==
  ASSUME IInv, NEW o \in Ops, NEW to \in Answers, Goes(o, to)
  PROVE  Answer' = [Answer EXCEPT ![o] = IF to \in {"cancelled", "lost"} THEN "unknown" ELSE to]
BY DEF Answer, Goes, IInv, TypeOK

\* A commit is where the write takes effect: all of its rows and its answer at once.
LEMMA CommitTakesEffect ==
  ASSUME IInv, NEW o \in Ops, commit(o)
  PROVE  AW!TakeEffect(o)
<1>1. /\ pending[o] = Statements /\ pc[o] = "commit"
      /\ \A p \in Ops \ {o} : pending[p] = 0
  BY DEF commit, IInv, OpenOnes
<1>2. Done' = Done \cup {o}
  BY <1>1 DEF commit, Committed, Durable, Done, IInv, TypeOK
<1>3. Answer[o] = "none"
  BY <1>1 DEF Answer
<1>4. Answer' = [Answer EXCEPT ![o] = "returned"]
  BY AnswerAt DEF commit
<1> QED BY <1>2, <1>3, <1>4 DEF AW!TakeEffect

\* A write that raises was refused: it changed no row.
LEMMA RaiseRefuses ==
  ASSUME IInv, NEW o \in Ops, pc[o] \in InFlight, Goes(o, "raised"), UNCHANGED rows
  PROVE  AW!Refuse(o)
<1>1. Done' = Done
  BY DEF Done
<1>2. Answer[o] = "none"
  BY DEF Answer
<1>3. Answer' = [Answer EXCEPT ![o] = "raised"]
  BY AnswerAt
<1> QED BY <1>1, <1>2, <1>3 DEF AW!Refuse

\* A cancelled caller goes away without an answer.
LEMMA CancelGoesAway ==
  ASSUME IInv, NEW o \in Ops, cancel(o)
  PROVE  AW!GoAway
<1>1. Answer' = [Answer EXCEPT ![o] = "unknown"]
  BY AnswerAt DEF cancel
<1>2. Answer \in [Ops -> {"none", "returned", "raised", "unknown"}] /\ Answer[o] = "none"
  BY DEF cancel, Answer, IInv, TypeOK
<1>3. {p \in Ops : Answer'[p] # Answer[p]} = {o}
  BY <1>1, <1>2
<1>4. Done \subseteq Done' /\ Done' \subseteq Done \cup {o}
  <2>1. CASE UNCHANGED rows
    BY <2>1 DEF Done
  <2>2. CASE pc[o] = "commit" /\ connection = "transaction" /\ Committed
    <3>1. \A p \in Ops \ {o} : pending[p] = 0
      BY <2>2 DEF IInv, OpenOnes
    <3> QED BY <3>1, <2>2 DEF Done, Committed, Durable, IInv, TypeOK
  <2> QED BY <2>1, <2>2 DEF cancel, Abandoned
<1> QED BY <1>1, <1>2, <1>3, <1>4 DEF AW!GoAway

\* A kill takes all callers away without an answer.
LEMMA KilledGoesAway == ASSUME IInv, killed PROVE AW!GoAway
<1> DEFINE gone == {o \in Ops : Answer'[o] # Answer[o]}
<1>1. Answer' \in [Ops -> {"none", "returned", "raised", "unknown"}]
  BY DEF killed, Answer, IInv, TypeOK
<1>2. \A o \in gone : Answer[o] = "none" /\ Answer'[o] = "unknown"
  BY DEF killed, Answer, IInv, TypeOK
<1>3. Done \subseteq Done' /\ Done' \subseteq Done \cup gone
  <2>1. CASE rows' = rows
    BY <2>1 DEF Done
  <2>2. CASE connection = "transaction" /\ (\E o \in Ops : pc[o] = "commit") /\ rows' = Durable
    <3>1. PICK o \in Ops : pc[o] = "commit"
      BY <2>2
    <3>2. \A p \in Ops \ {o} : pending[p] = 0
      BY <3>1 DEF IInv, OpenOnes
    <3>3. Answer[o] = "none" /\ Answer'[o] = "unknown"
      BY <3>1 DEF killed, Answer, IInv, TypeOK
    <3>4. o \in gone
      BY <3>3
    <3>5. Done \subseteq Done' /\ Done' \subseteq Done \cup {o}
      BY <3>2, <2>2 DEF Done, Durable, IInv, TypeOK
    <3> QED BY <3>4, <3>5
  <2> QED BY <2>1, <2>2 DEF killed
<1> QED BY <1>1, <1>2, <1>3 DEF AW!GoAway

\* Each step of a write is a step of the atomic writes or a stutter.
LEMMA WriteStepMaps ==
  ASSUME IInv, NEW o \in Ops, write(o) \/ WriteStep(o)
  PROVE  AStep
<1> USE DEF IInv, TypeOK, Goes
<1>1. CASE write(o)
  BY <1>1, QuietStep DEF write
<1>2. CASE locked(o)
  <2>1. CASE connection = "none"
    BY <1>2, <2>1, RaiseRefuses DEF locked, AStep, AW!Next
  <2>2. CASE connection # "none"
    BY <1>2, <2>2, QuietStep DEF locked
  <2> QED BY <2>1, <2>2
<1>3. CASE begin(o)
  BY <1>3, QuietStep DEF begin
<1>4. CASE begin_raises(o)
  BY <1>4, RaiseRefuses DEF begin_raises, AStep, AW!Next
<1>5. CASE statement(o)
  BY <1>5, QuietStep DEF statement
<1>6. CASE commit(o)
  BY <1>6, CommitTakesEffect DEF AStep, AW!Next
<1>7. CASE operation_raises(o)
  BY <1>7, QuietStep DEF operation_raises
<1>8. CASE rollback(o)
  BY <1>8, RaiseRefuses DEF rollback, AStep, AW!Next
<1> QED BY <1>1, <1>2, <1>3, <1>4, <1>5, <1>6, <1>7, <1>8 DEF WriteStep

\* Each step of the writer is one.
LEMMA NextMaps == ASSUME IInv, [DatabaseNext]_dvars PROVE AStep
<1>1. CASE UNCHANGED dvars
  BY <1>1, QuietStep DEF dvars
<1>2. CASE connect \/ MigrationStep \/ migration_raises \/ close
  BY <1>2, QuietStep DEF connect, MigrationStep, migration_begins, migration_runs,
     migration_commits, migration_raises, close, closed
<1>3. CASE killed
  BY <1>3, KilledGoesAway DEF AStep, AW!Next
<1>4. CASE \E o \in Ops : write(o) \/ WriteStep(o)
  BY <1>4, WriteStepMaps
<1>5. CASE \E o \in Ops : cancel(o)
  BY <1>5, CancelGoesAway DEF AStep, AW!Next
<1> QED BY <1>1, <1>2, <1>3, <1>4, <1>5 DEF DatabaseNext

\* To its callers the writer is AtomicWrites: however writes are cancelled,
\* fail or are cut off, each is in the database as a whole or not at all, and
\* who got an answer got the true one.
THEOREM WriterIsAtomic == DatabaseSpec => ImplementsAtomicWrites
<1>1. DatabaseInit => AW!Init
  BY DEF DatabaseInit, AW!Init, Done, Answer
<1>2. IInv /\ [DatabaseNext]_dvars => [AW!Next]_(AW!avars)
  BY NextMaps DEF AStep
<1> QED BY <1>1, <1>2, DatabaseInvariance, PTL DEF DatabaseSpec, ImplementsAtomicWrites, AW!Spec

-----------------------------------------------------------------------------
(* The application uses the writer, and nothing else.                      *)
HIDE DEF Inside, InFlight, Answers, Nothing

Modes == {"down", "migrating", "instance", "recover", "postprocess", "ended"} \cup Exporting
LifeTypes == mode \in Modes /\ runtime \in 0 .. Runtimes /\ (mode # "down" => runtime > 0)

\* The names of a runtime that is up are writes of the database.
LEMMA OpsOfRuntime ==
  ASSUME LifeTypes, mode # "down"
  PROVE  /\ \A n \in Names : Of(n) \in Ops
         /\ {"instance", "recover", "postprocess", "finalize", "ended"} \subseteq Names
         /\ Workers \subseteq Names /\ Requests \subseteq Names /\ Exports \subseteq Names
BY ApplicationAssumption DEF LifeTypes, Of, Names, Closing

\* The writes of a start, in their order.
LEMMA BootingIs ==
  Booting[1] = "instance" /\ Booting[2] = "recover" /\ Booting[3] = "postprocess"
BY DEF Booting

\* What a step of the application does with the database.
LEMMA Writes ==
  ASSUME LifeTypes, [ApplicationNext]_avars
  PROVE  [DatabaseNext]_dvars
<1>1. CASE UNCHANGED avars
  BY <1>1 DEF avars
<1>2. CASE LifeStep
  <2>1. CASE starts
    BY <2>1 DEF starts, DatabaseNext
  <2>2. CASE migrates
    BY <2>2 DEF migrates, DatabaseNext
  <2>3. CASE boots
    <3>1. mode # "down"
      BY <2>3, BootingIs DEF boots
    <3>2. Of("instance") \in Ops /\ Of("recover") \in Ops /\ Of("postprocess") \in Ops
      BY <3>1, OpsOfRuntime
    <3>3. UNCHANGED dvars \/ write(Of("instance")) \/ write(Of("recover")) \/ write(Of("postprocess"))
      BY <2>3, BootingIs DEF boots
    <3> QED BY <3>2, <3>3 DEF DatabaseNext
  <2>4. CASE start_raises
    BY <2>4 DEF start_raises, DatabaseNext
  <2> QED BY <1>2, <2>1, <2>2, <2>3, <2>4 DEF LifeStep
<1>3. CASE works \/ worker_cancelled \/ stops
  <2>1. mode # "down"
    BY <1>3 DEF works, worker_cancelled, stops, Exporting
  <2> QED BY <1>3, <2>1, OpsOfRuntime DEF works, worker_cancelled, stops, DatabaseNext
<1>4. CASE StopStep
  <2>1. mode # "down"
    BY <1>4 DEF StopStep, manager_closed, recording_closed, postprocess_closed, database_closed
  <2>2. Of("finalize") \in Ops /\ Of("ended") \in Ops
    BY <2>1, OpsOfRuntime
  <2> QED BY <1>4, <2>2 DEF StopStep, manager_closed, recording_closed, postprocess_closed,
             database_closed, DatabaseNext
<1>5. CASE crash
  BY <1>5 DEF crash, DatabaseNext
<1>6. CASE \E o \in Ops : WritersStep(o)
  BY <1>6 DEF WritersStep, DatabaseNext
<1> QED BY <1>1, <1>2, <1>3, <1>4, <1>5, <1>6 DEF ApplicationNext

\* The stages of a life keep their types.
LEMMA LifeStays ==
  ASSUME LifeTypes, [ApplicationNext]_avars
  PROVE  LifeTypes'
<1> USE ApplicationAssumption DEF LifeTypes, Modes, Exporting
<1>1. CASE UNCHANGED avars
  BY <1>1 DEF avars
<1>2. CASE LifeStep
  BY <1>2, BootingIs DEF LifeStep, starts, migrates, boots, start_raises
<1>3. CASE works \/ worker_cancelled \/ stops
  BY <1>3 DEF works, worker_cancelled, stops
<1>4. CASE StopStep
  BY <1>4 DEF StopStep, manager_closed, recording_closed, postprocess_closed, database_closed
<1>5. CASE crash
  BY <1>5 DEF crash
<1>6. CASE \E o \in Ops : WritersStep(o)
  BY <1>6 DEF WritersStep
<1> QED BY <1>1, <1>2, <1>3, <1>4, <1>5, <1>6 DEF ApplicationNext

\* So they have them in every state of the application.
LEMMA LifeTypesAlways == ApplicationSpec => []LifeTypes
<1>1. ApplicationInit => LifeTypes
  BY ApplicationAssumption DEF ApplicationInit, LifeTypes, Modes
<1> QED BY <1>1, LifeStays, PTL DEF ApplicationSpec

\* Starting, running, stopping and crashing are steps of the writer or leave
\* it alone.
THEOREM ApplicationUsesTheWriter == ApplicationSpec => DatabaseSpec
<1>1. ApplicationInit => DatabaseInit
  BY DEF ApplicationInit
<1> QED BY <1>1, Writes, LifeTypesAlways, PTL DEF ApplicationSpec, DatabaseSpec

\* Whatever the life of the application does: no migration without its record.
THEOREM MigrationsWholeOverLives == ApplicationSpec => []MigrationsAreWhole
BY ApplicationUsesTheWriter, MigrationsNeverHalf

\* Room workers, requests, exports and the writes of start and stop all see
\* atomic writes and true answers.
THEOREM ApplicationIsAtomic == ApplicationSpec => ImplementsAtomicWrites
BY ApplicationUsesTheWriter, WriterIsAtomic


-----------------------------------------------------------------------------
(* The end of a runtime.                                                   *)

\* The writes that may be under way, by the stage of the runtime's life.
Allowed(n) ==
    \/ mode \in {"instance", "recover", "postprocess", "ended"} /\ n = mode
    \/ mode \in {"running", "manager"} /\ n \in Workers
    \/ mode = "running" /\ n \in Requests
    \/ mode \in {"running", "manager", "recording"} /\ n = "finalize"
    \/ mode \in Exporting /\ n \in Exports

\* Nobody but the current runtime writes, and its end is written in its last
\* stage.
Under(r, n) ==
    /\ r > runtime => pc[<<r, n>>] = "none"
    /\ pc[<<r, n>>] \in InFlight => r = runtime /\ Allowed(n)
Last(r) == pc[<<r, "ended">>] # "none" => r < runtime \/ mode \in {"ended", "down"}
AInv == (\A r \in 1 .. Runtimes, n \in Names : Under(r, n)) /\ \A r \in 1 .. Runtimes : Last(r)

\* What is under way has no answer yet and has begun.
LEMMA PcValues ==
  /\ "none" \notin InFlight /\ "lock" \in InFlight
  /\ \A a \in Answers : a \notin InFlight /\ a # "none"
BY DEF InFlight, Inside, Answers

\* A write is a runtime and a name, and the last write is not one of the working ones.
LEMMA Pairs ==
  /\ \A r \in 1 .. Runtimes, n \in Names : <<r, n>> \in Ops
  /\ \A o \in Ops : \E r \in 1 .. Runtimes, n \in Names : o = <<r, n>>
  /\ "ended" \in Names /\ "finalize" \in Names /\ "ended" \notin Workers \cup Requests \cup Exports
<1>1. Ops = (1 .. Runtimes) \X Names
  BY ApplicationAssumption
<1>2. "ended" \in Closing /\ "finalize" \in Closing /\ Closing \subseteq Names
  BY DEF Names, Closing
<1>3. "ended" \notin Workers \cup Requests \cup Exports
  BY <1>2, ApplicationAssumption
<1> QED BY <1>1, <1>2, <1>3

\* What a write does to the pcs: it begins, goes on or ends at its own place.
LEMMA OnePc ==
  ASSUME TypeOK, NEW o \in Ops, WriteStep(o) \/ cancel(o)
  PROVE  /\ pc[o] \in InFlight /\ pc'[o] # "none"
         /\ \A p \in Ops \ {o} : pc'[p] = pc[p]
<1> USE DEF TypeOK, Goes, InFlight, Inside
<1>1. CASE cancel(o)
  BY <1>1 DEF cancel
<1>2. CASE locked(o) \/ begin(o) \/ begin_raises(o)
  BY <1>2 DEF locked, begin, begin_raises
<1>3. CASE statement(o) \/ commit(o)
  BY <1>3 DEF statement, commit
<1>4. CASE operation_raises(o) \/ rollback(o)
  BY <1>4 DEF operation_raises, rollback
<1> QED BY <1>1, <1>2, <1>3, <1>4 DEF WriteStep

\* A write goes on: nothing new is under way.
LEMMA GoesOnKeeps ==
  ASSUME TypeOK, AInv, NEW o \in Ops, WriteStep(o) \/ cancel(o), UNCHANGED <<mode, runtime>>
  PROVE  AInv'
<1>1. pc[o] \in InFlight /\ pc'[o] # "none" /\ \A p \in Ops \ {o} : pc'[p] = pc[p]
  BY OnePc
<1>2. PICK s \in 1 .. Runtimes, m \in Names : o = <<s, m>>
  BY Pairs
<1>3. ASSUME NEW r \in 1 .. Runtimes, NEW n \in Names
      PROVE  Under(r, n)'
  <2>1. CASE <<r, n>> = o
    <3>1. Under(r, n) /\ pc[<<r, n>>] # "none"
      BY <1>1, <2>1, PcValues DEF AInv
    <3> QED BY <1>1, <2>1, <3>1 DEF Under, Allowed
  <2>2. CASE <<r, n>> # o
    <3>1. pc'[<<r, n>>] = pc[<<r, n>>]
      BY <1>1, <2>2, Pairs
    <3> QED BY <3>1 DEF AInv, Under, Allowed
  <2> QED BY <2>1, <2>2
<1>4. ASSUME NEW r \in 1 .. Runtimes
      PROVE  Last(r)'
  <2>1. pc'[<<r, "ended">>] # "none" => pc[<<r, "ended">>] # "none"
    BY <1>1, Pairs, PcValues
  <2> QED BY <2>1 DEF AInv, Last
<1> QED BY <1>3, <1>4 DEF AInv

\* A write of the current runtime begins, in a stage that allows it.
LEMMA BeginsKeeps ==
  ASSUME TypeOK, LifeTypes, AInv, mode # "down", NEW n \in Names, write(Of(n)), Allowed(n)',
         runtime' = runtime, mode' # "down",
         \A m \in Names : pc[Of(m)] \in InFlight => Allowed(m)',
         n = "ended" \/ pc[Of("ended")] # "none" => mode' = "ended"
  PROVE  AInv'
<1>1. /\ runtime \in 1 .. Runtimes /\ Of(n) = <<runtime, n>> /\ <<runtime, n>> \in Ops
      /\ runtime \in Nat
  BY OpsOfRuntime, ApplicationAssumption DEF LifeTypes, Of
<1>2. pc'[<<runtime, n>>] = "lock" /\ \A p \in Ops \ {<<runtime, n>>} : pc'[p] = pc[p]
  BY <1>1 DEF write, Goes, TypeOK
<1>3. ASSUME NEW r \in 1 .. Runtimes, NEW m \in Names
      PROVE  Under(r, m)'
  <2>1. CASE r = runtime /\ m = n
    BY <2>1 DEF Under
  <2>2. CASE ~(r = runtime /\ m = n)
    <3>1. pc'[<<r, m>>] = pc[<<r, m>>]
      BY <1>2, <2>2, Pairs
    <3>2. Under(r, m)
      BY DEF AInv
    <3>3. r = runtime => Of(m) = <<r, m>>
      BY DEF Of
    <3> QED BY <3>1, <3>2, <3>3 DEF Under
  <2> QED BY <2>1, <2>2
<1>4. ASSUME NEW r \in 1 .. Runtimes
      PROVE  Last(r)'
  <2>1. CASE r = runtime /\ n = "ended"
    BY <2>1 DEF Last
  <2>2. CASE ~(r = runtime /\ n = "ended")
    <3>1. pc'[<<r, "ended">>] = pc[<<r, "ended">>]
      BY <1>2, <2>2, Pairs
    <3>2. Last(r) /\ (r = runtime => Of("ended") = <<r, "ended">>) /\ Under(r, "ended")
      BY Pairs DEF AInv, Of
    <3>3. r < runtime \/ r = runtime \/ r > runtime
      BY <1>1
    <3> QED BY <3>1, <3>2, <3>3 DEF Last, Under
  <2> QED BY <2>1, <2>2
<1> QED BY <1>3, <1>4 DEF AInv

\* A stage passes, and what is under way is allowed in the next one.
LEMMA StageKeeps ==
  ASSUME TypeOK, LifeTypes, AInv, UNCHANGED <<pc, runtime>>, mode # "down",
         \A m \in Names : pc[Of(m)] \in InFlight => Allowed(m)',
         pc[Of("ended")] # "none" => mode' \in {"ended", "down"}
  PROVE  AInv'
<1>1. runtime \in Nat
  BY ApplicationAssumption DEF LifeTypes
<1>2. ASSUME NEW r \in 1 .. Runtimes, NEW m \in Names
      PROVE  Under(r, m)'
  <2>1. Under(r, m) /\ (r = runtime => Of(m) = <<r, m>>)
    BY DEF AInv, Of
  <2> QED BY <2>1 DEF Under
<1>3. ASSUME NEW r \in 1 .. Runtimes
      PROVE  Last(r)'
  <2>1. Last(r) /\ (r = runtime => Of("ended") = <<r, "ended">>) /\ Under(r, "ended")
    BY Pairs DEF AInv, Of
  <2>2. r < runtime \/ r = runtime \/ r > runtime
    BY <1>1
  <2> QED BY <2>1, <2>2 DEF Last, Under
<1> QED BY <1>2, <1>3 DEF AInv

\* After a kill nothing is under way.
LEMMA KillKeeps ==
  ASSUME TypeOK, LifeTypes, AInv, killed, mode' = "down", runtime' = runtime
  PROVE  AInv'
<1>1. \A o \in Ops : pc'[o] = IF pc[o] \in InFlight THEN "lost" ELSE pc[o]
  BY DEF killed
<1>2. "lost" \notin InFlight /\ runtime \in Nat
  BY PcValues, ApplicationAssumption DEF Answers, LifeTypes
<1>3. ASSUME NEW r \in 1 .. Runtimes, NEW m \in Names
      PROVE  Under(r, m)'
  <2>1. Under(r, m) /\ <<r, m>> \in Ops
    BY Pairs DEF AInv
  <2>2. r > runtime => pc[<<r, m>>] = "none"
    BY <2>1 DEF Under
  <2>3. "none" \notin InFlight
    BY PcValues
  <2> QED BY <1>1, <1>2, <2>1, <2>2, <2>3 DEF Under
<1>4. ASSUME NEW r \in 1 .. Runtimes
      PROVE  Last(r)'
  BY DEF Last
<1> QED BY <1>3, <1>4 DEF AInv


\* What is under way in the current runtime.
LEMMA Current ==
  ASSUME LifeTypes, AInv, mode # "down"
  PROVE  /\ \A m \in Names : pc[Of(m)] \in InFlight => Allowed(m)
         /\ pc[Of("ended")] # "none" => mode = "ended"
<1>1. runtime \in 1 .. Runtimes /\ ~(runtime < runtime) /\ \A m : Of(m) = <<runtime, m>>
  BY ApplicationAssumption DEF LifeTypes, Of
<1> QED BY <1>1, Pairs DEF AInv, Under, Last

\* The stages of a start.
LEMMA StartKeeps ==
  ASSUME TypeOK, LifeTypes, AInv, LifeStep
  PROVE  AInv'
<1>1. CASE starts
  <2>1. mode = "down" /\ mode' = "migrating" /\ runtime' = runtime + 1 /\ pc' = pc /\ runtime \in Nat
    BY <1>1, ApplicationAssumption DEF starts, connect, LifeTypes
  <2>2. ASSUME NEW r \in 1 .. Runtimes, NEW n \in Names
        PROVE  Under(r, n)'
    <3>1. Under(r, n) /\ ~Allowed(n)
      BY <2>1 DEF AInv, Allowed, Exporting
    <3> QED BY <2>1, <3>1 DEF Under
  <2>3. ASSUME NEW r \in 1 .. Runtimes
        PROVE  Last(r)'
    <3>1. Under(r, "ended")
      BY Pairs DEF AInv
    <3>2. r <= runtime \/ r > runtime
      BY <2>1
    <3> QED BY <2>1, <3>1, <3>2 DEF Last, Under
  <2> QED BY <2>2, <2>3 DEF AInv
<1>2. CASE migrates
  <2>1. mode = "migrating" /\ mode' \in {"migrating", "down"} /\ UNCHANGED <<pc, runtime>>
    BY <1>2 DEF migrates, MigrationStep, migration_begins, migration_runs, migration_commits, migration_raises
  <2>2. \A m \in Names : pc[Of(m)] \notin InFlight
    BY <2>1, Current DEF Allowed, Exporting
  <2>3. pc[Of("ended")] = "none"
    BY <2>1, Current
  <2> QED BY <2>1, <2>2, <2>3, StageKeeps
<1>3. CASE boots
  <2>1. ASSUME NEW n \in {"instance", "recover", "postprocess"}, write(Of(n)), mode' = n, runtime' = runtime,
               mode # "ended", mode # "down", \A m \in Names : pc[Of(m)] \notin InFlight
        PROVE  AInv'
    <3>1. n \in Names /\ n # "ended"
      BY <2>1, OpsOfRuntime
    <3>2. pc[Of("ended")] = "none"
      BY <2>1, Current
    <3>3. Allowed(n)' /\ mode' # "down"
      BY <2>1 DEF Allowed
    <3> QED BY <2>1, <3>1, <3>2, <3>3, BeginsKeeps
  <2>2. CASE mode = "migrating" /\ write(Of("instance")) /\ mode' = "instance" /\ runtime' = runtime
    <3>1. \A m \in Names : pc[Of(m)] \notin InFlight
      BY <2>2, Current DEF Allowed, Exporting
    <3> QED BY <2>1, <2>2, <3>1
  <2>3. ASSUME mode \in {"instance", "recover", "postprocess"}, pc[Of(mode)] = "returned"
        PROVE  \A m \in Names : pc[Of(m)] \notin InFlight
    <3>1. "returned" \notin InFlight
      BY PcValues DEF Answers
    <3> QED BY <2>3, <3>1, Current DEF Allowed, Exporting
  <2>4. CASE mode = "instance" /\ pc[Of(mode)] = "returned" /\ write(Of("recover"))
             /\ mode' = "recover" /\ runtime' = runtime
    BY <2>1, <2>3, <2>4
  <2>5. CASE mode = "recover" /\ pc[Of(mode)] = "returned" /\ write(Of("postprocess"))
             /\ mode' = "postprocess" /\ runtime' = runtime
    BY <2>1, <2>3, <2>5
  <2>6. CASE mode = "postprocess" /\ pc[Of(mode)] = "returned" /\ mode' = "running"
             /\ UNCHANGED <<dvars, runtime>>
    <3>1. pc[Of("ended")] = "none" /\ pc' = pc
      BY <2>6, Current DEF dvars
    <3> QED BY <2>3, <2>6, <3>1, StageKeeps
  <2> QED BY <1>3, <2>2, <2>4, <2>5, <2>6, BootingIs DEF boots
<1>4. CASE start_raises
  BY <1>4, KillKeeps DEF start_raises
<1> QED BY <1>1, <1>2, <1>3, <1>4 DEF LifeStep

\* Work goes on as long as the stage allows it.
LEMMA WorkKeeps ==
  ASSUME TypeOK, LifeTypes, AInv, works \/ worker_cancelled \/ stops
  PROVE  AInv'
<1>1. mode # "down" /\ runtime' = runtime /\ mode # "ended"
  BY DEF works, worker_cancelled, stops, Exporting
<1>2. pc[Of("ended")] = "none" /\ \A m \in Names : pc[Of(m)] \in InFlight => Allowed(m)
  BY <1>1, Current
<1>3. CASE works
  <2>1. mode' = mode /\ \A n : Allowed(n)' = Allowed(n)
    BY <1>3 DEF works, Allowed
  <2>2. PICK n : write(Of(n)) /\ Allowed(n) /\ n \in Workers \cup Requests \cup Exports \cup {"finalize"}
    BY <1>3 DEF works, Allowed
  <2>3. n \in Names /\ n # "ended"
    BY <1>1, <2>2, OpsOfRuntime, Pairs
  <2> QED BY <1>1, <1>2, <2>1, <2>2, <2>3, BeginsKeeps
<1>4. CASE worker_cancelled
  <2>1. PICK n \in Workers : cancel(Of(n))
    BY <1>4 DEF worker_cancelled
  <2>2. Of(n) \in Ops
    BY <1>1, OpsOfRuntime
  <2> QED BY <1>4, <2>1, <2>2, GoesOnKeeps DEF worker_cancelled
<1>5. CASE stops
  <2>1. mode = "running" /\ mode' = "manager" /\ UNCHANGED <<pc, runtime>>
        /\ \A n \in Requests : pc[Of(n)] \notin InFlight
    BY <1>5 DEF stops, dvars, Runs
  <2>2. \A m \in Names : pc[Of(m)] \in InFlight => Allowed(m)'
    BY <1>2, <2>1 DEF Allowed, Exporting
  <2> QED BY <1>1, <1>2, <2>1, <2>2, StageKeeps
<1> QED BY <1>3, <1>4, <1>5

\* Each stage of a stop waits for what the next one does not allow.
LEMMA StopKeeps ==
  ASSUME TypeOK, LifeTypes, AInv, StopStep
  PROVE  AInv'
<1>1. mode # "down" /\ runtime' = runtime
  BY DEF StopStep, manager_closed, recording_closed, postprocess_closed, database_closed
<1>2. /\ pc[Of("ended")] # "none" => mode = "ended"
      /\ \A m \in Names : pc[Of(m)] \in InFlight => Allowed(m)
  BY <1>1, Current
<1>3. CASE manager_closed
  <2>1. mode = "manager" /\ mode' = "recording" /\ \A n \in Workers : pc[Of(n)] \notin InFlight
    BY <1>3 DEF manager_closed, Runs
  <2>2. (\A m \in Names : pc[Of(m)] \in InFlight => Allowed(m)') /\ Allowed("finalize")'
    BY <1>2, <2>1 DEF Allowed, Exporting
  <2>3. CASE write(Of("finalize"))
    BY <1>1, <1>2, <2>1, <2>2, <2>3, Pairs, BeginsKeeps
  <2>4. CASE UNCHANGED dvars
    BY <1>1, <1>2, <2>1, <2>2, <2>4, StageKeeps DEF dvars
  <2> QED BY <1>3, <2>3, <2>4 DEF manager_closed
<1>4. CASE recording_closed
  <2>1. mode = "recording" /\ mode' = "exports" /\ pc[Of("finalize")] \notin InFlight /\ UNCHANGED pc
    BY <1>4, PcValues DEF recording_closed, Answered, dvars
  <2>2. \A m \in Names : pc[Of(m)] \in InFlight => Allowed(m)'
    BY <1>2, <2>1 DEF Allowed, Exporting
  <2> QED BY <1>1, <1>2, <2>1, <2>2, StageKeeps
<1>5. CASE postprocess_closed
  <2>1. mode = "exports" /\ mode' = "ended" /\ write(Of("ended"))
        /\ \A n \in Exports : pc[Of(n)] \notin InFlight
    BY <1>5 DEF postprocess_closed, Runs
  <2>2. (\A m \in Names : pc[Of(m)] \in InFlight => Allowed(m)') /\ Allowed("ended")'
    BY <1>2, <2>1 DEF Allowed, Exporting
  <2> QED BY <1>1, <2>1, <2>2, Pairs, BeginsKeeps
<1>6. CASE database_closed
  <2>1. mode = "ended" /\ mode' = "down" /\ pc[Of("ended")] \notin InFlight /\ UNCHANGED pc
    BY <1>6, PcValues DEF database_closed, Answered, close
  <2>2. \A m \in Names : pc[Of(m)] \notin InFlight
    BY <1>2, <2>1 DEF Allowed, Exporting
  <2> QED BY <1>1, <2>1, <2>2, StageKeeps
<1> QED BY <1>3, <1>4, <1>5, <1>6 DEF StopStep

\* Every step of the application keeps the order of start, work and stop.
LEMMA LifeKeeps ==
  ASSUME TypeOK, LifeTypes, AInv, [ApplicationNext]_avars
  PROVE  AInv'
<1>1. CASE UNCHANGED avars
  BY <1>1 DEF avars, dvars, AInv, Under, Last, Allowed
<1>2. CASE crash
  BY <1>2, KillKeeps DEF crash
<1>3. CASE \E o \in Ops : WritersStep(o)
  BY <1>3, GoesOnKeeps DEF WritersStep
<1> QED BY <1>1, <1>2, <1>3, StartKeeps, WorkKeeps, StopKeeps DEF ApplicationNext

\* However a runtime is stopped, cancelled, fails or is killed: when its end is
\* in the database, nothing of it is under way any more.
THEOREM TheEndIsLast == ApplicationSpec => []EndedIsLast
<1>1. ApplicationInit => AInv
  <2> SUFFICES ASSUME ApplicationInit PROVE AInv
    OBVIOUS
  <2>1. \A r \in 1 .. Runtimes, n \in Names : pc[<<r, n>>] = "none"
    BY Pairs DEF ApplicationInit, DatabaseInit
  <2> QED BY <2>1, Pairs, PcValues DEF AInv, Under, Last
<1>2. IInv /\ LifeTypes /\ AInv => EndedIsLast
  <2> SUFFICES ASSUME IInv, LifeTypes, AInv, NEW r \in 1 .. Runtimes, rows[<<r, "ended">>] > 0,
                      NEW n \in Names, pc[<<r, n>>] \in InFlight
               PROVE  FALSE
    BY DEF EndedIsLast
  <2>1. pc[<<r, "ended">>] \in {"returned", "cancelled", "lost"}
    BY Pairs DEF IInv, RowsTold
  <2>2. pc[<<r, "ended">>] \in Answers
    BY <2>1 DEF Answers
  <2>3. r = runtime /\ Allowed(n) /\ ~(r < runtime)
    BY ApplicationAssumption DEF AInv, Under, LifeTypes
  <2>4. mode \in {"ended", "down"}
    BY <2>2, <2>3, PcValues DEF AInv, Last
  <2>5. n = "ended"
    BY <2>3, <2>4 DEF Allowed, Exporting
  <2> QED BY <2>2, <2>5, PcValues
<1>3. IInv /\ LifeTypes /\ AInv /\ [ApplicationNext]_avars => AInv'
  BY LifeKeeps DEF IInv
<1>4. ApplicationSpec => []IInv
  BY ApplicationUsesTheWriter, DatabaseInvariance
<1> QED BY <1>1, <1>2, <1>3, <1>4, LifeTypesAlways, PTL DEF ApplicationSpec

=============================================================================

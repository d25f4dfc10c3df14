--------------------------- MODULE DatabaseWriter ---------------------------
(***************************************************************************)
(* app/db/core.py: the one writer connection, its lock, the transaction of *)
(* a write and the migrations of initialize.                               *)
(*                                                                         *)
(* A write is a task whose pc names the await it stands at.  aiosqlite     *)
(* runs statements in a thread of its own, in order: a statement that was  *)
(* given to it runs although the task that awaits it is cancelled.  SQLite *)
(* keeps the changes of an open transaction to the connection until COMMIT.*)
(***************************************************************************)
EXTENDS Naturals

CONSTANTS Ops,          \* writes: every call of Database.write is one of them
          Statements,   \* statements of an operation
          Migrations,   \* how many MIGRATIONS there are
          Cancellable,  \* writes whose task may be cancelled
          Faults        \* what the database may raise in: "begin", "operation", "migration"

ASSUME DatabaseAssumption ==
    /\ Statements \in Nat \ {0} /\ Migrations \in Nat
    /\ Cancellable \subseteq Ops
    /\ Faults \subseteq {"begin", "operation", "migration"}

VARIABLES
    connection, \* _writer: "none", "idle", or "transaction" while one is open
    rows,       \* write -> how many of its statements are in the database
    pending,    \* the same of the open transaction
    pc,         \* write -> where its task is, or its answer
    script,     \* of the migration under way: "none", "begun", "changed", "recorded"
    tables,     \* migrations whose tables are in the database
    schema_migrations   \* migrations whose record is

dvars == <<connection, rows, pending, pc, script, tables, schema_migrations>>
schema == <<script, tables, schema_migrations>>

Inside == {"begin", "operation", "commit", "rollback"}   \* of `async with _write_lock'
InFlight == {"lock"} \cup Inside
Answers == {"returned", "raised", "cancelled", "lost"}
Nothing == [o \in Ops |-> 0]

\* Mistake: a cancelled write keeps the lock.
LockFreeOfCancelled == \A o \in Ops : pc[o] \notin Inside \cup {"cancelled"}
LockFree == \A o \in Ops : pc[o] \notin Inside
Goes(o, to) == pc' = [pc EXCEPT ![o] = to]

DatabaseInit ==
    /\ connection = "none" /\ script = "none"
    /\ rows = Nothing /\ pending = Nothing
    /\ pc = [o \in Ops |-> "none"]
    /\ tables = 0 /\ schema_migrations = 0

-----------------------------------------------------------------------------
(* initialize *)

connect ==
    /\ connection = "none" /\ LockFree
    /\ connection' = "idle"
    /\ UNCHANGED <<rows, pending, pc, schema>>

\* _apply_one_migration: one script from BEGIN to COMMIT, which runs in the
\* thread, so the process may die between any two of its statements.
migration_begins ==
    /\ connection = "idle" /\ LockFree /\ schema_migrations < Migrations
    /\ connection' = "transaction" /\ script' = "begun"
    /\ UNCHANGED <<rows, pending, pc, tables, schema_migrations>>
\* Mistake: the tables are changed outside the transaction.
MigrationUnbracketed ==
    /\ \/ script = "begun" /\ script' = "changed" /\ tables' = tables + 1
       \/ script = "changed" /\ script' = "recorded" /\ tables' = tables
    /\ UNCHANGED <<connection, rows, pending, pc, schema_migrations>>
migration_runs ==
    /\ \/ script = "begun" /\ script' = "changed"
       \/ script = "changed" /\ script' = "recorded"
    /\ UNCHANGED <<connection, rows, pending, pc, tables, schema_migrations>>
migration_commits ==
    /\ script = "recorded"
    /\ script' = "none" /\ connection' = "idle"
    /\ tables' = tables + 1 /\ schema_migrations' = schema_migrations + 1
    /\ UNCHANGED <<rows, pending, pc>>

\* close(), and the exception of a migration, which is rolled back and closes
\* the connection.  SQLite rolls back what a closed connection left open.
closed ==
    /\ connection' = "none" /\ script' = "none" /\ pending' = Nothing
    /\ UNCHANGED <<rows, tables, schema_migrations>>
migration_raises ==
    /\ "migration" \in Faults /\ script # "none"
    /\ closed /\ UNCHANGED pc
close ==
    /\ connection # "none" /\ script = "none"
    /\ closed /\ UNCHANGED pc

-----------------------------------------------------------------------------
(* write *)

write(o) ==
    /\ pc[o] = "none" /\ Goes(o, "lock")
    /\ UNCHANGED <<connection, rows, pending, schema>>

\* _require_writer raises when there is no connection.
locked(o) ==
    /\ pc[o] = "lock" /\ LockFree /\ script = "none"
    /\ Goes(o, IF connection = "none" THEN "raised" ELSE "begin")
    /\ UNCHANGED <<connection, rows, pending, schema>>

\* Mistake: a write joins the transaction it finds open.
BeginAnyway(o) ==
    /\ pc[o] = "begin" /\ connection # "none"
    /\ connection' = "transaction" /\ Goes(o, "operation")
    /\ UNCHANGED <<rows, pending, schema>>

\* BEGIN IMMEDIATE, before the `try': it raises while a transaction is open on
\* the connection, or when another process keeps the database locked.
begin(o) ==
    /\ pc[o] = "begin" /\ connection = "idle"
    /\ connection' = "transaction" /\ Goes(o, "operation")
    /\ UNCHANGED <<rows, pending, schema>>
begin_raises(o) ==
    /\ pc[o] = "begin"
    /\ connection # "idle" \/ "begin" \in Faults
    /\ Goes(o, "raised")
    /\ UNCHANGED <<connection, rows, pending, schema>>

\* The operation's statements, then the commit; either may raise.
Executed(o) == pending' = [pending EXCEPT ![o] = @ + 1]
statement(o) ==
    /\ pc[o] = "operation" /\ connection = "transaction"
    /\ Executed(o)
    /\ Goes(o, IF pending[o] + 1 = Statements THEN "commit" ELSE "operation")
    /\ UNCHANGED <<connection, rows, schema>>
Durable == [o \in Ops |-> IF pending[o] > 0 THEN pending[o] ELSE rows[o]]
Committed ==
    /\ rows' = Durable
    /\ pending' = Nothing /\ connection' = "idle"
commit(o) ==
    /\ pc[o] = "commit" /\ connection = "transaction"
    /\ Committed /\ Goes(o, "returned")
    /\ UNCHANGED schema

\* `except Exception': the connection was closed, or the database raised.
operation_raises(o) ==
    /\ pc[o] \in {"operation", "commit"}
    /\ connection = "none" \/ "operation" \in Faults
    /\ Goes(o, "rollback")
    /\ UNCHANGED <<connection, rows, pending, schema>>
RolledBack ==
    /\ pending' = Nothing
    /\ connection' = IF connection = "transaction" THEN "idle" ELSE connection
rollback(o) ==
    /\ pc[o] = "rollback"
    /\ RolledBack /\ Goes(o, "raised")
    /\ UNCHANGED <<rows, schema>>

\* The task is cancelled at its await.  The lock is released; the statement
\* runs; a CancelledError is no Exception, so nothing is rolled back.
Executes(o) ==
    \/ pc[o] = "begin" /\ connection = "idle"
    \/ pc[o] \in {"operation", "commit"} /\ connection = "transaction"
    \/ pc[o] = "rollback"
Abandoned(o) ==
    \/ pc[o] = "begin" /\ connection = "idle"
       /\ connection' = "transaction" /\ UNCHANGED <<rows, pending>>
    \/ pc[o] = "operation" /\ connection = "transaction"
       /\ Executed(o) /\ UNCHANGED <<connection, rows>>
    \/ pc[o] = "commit" /\ connection = "transaction" /\ Committed
    \/ pc[o] = "rollback" /\ RolledBack /\ UNCHANGED rows
    \/ ~Executes(o) /\ UNCHANGED <<connection, rows, pending>>
cancel(o) ==
    /\ o \in Cancellable /\ pc[o] \in InFlight
    /\ Abandoned(o) /\ Goes(o, "cancelled")
    /\ UNCHANGED schema

\* The process is killed; a commit that was under way has happened or not.
killed ==
    /\ connection' = "none" /\ script' = "none" /\ pending' = Nothing
    /\ \/ rows' = rows
       \/ connection = "transaction" /\ (\E o \in Ops : pc[o] = "commit") /\ rows' = Durable
    /\ UNCHANGED <<tables, schema_migrations>>
    /\ pc' = [o \in Ops |-> IF pc[o] \in InFlight THEN "lost" ELSE pc[o]]

-----------------------------------------------------------------------------
WriteStep(o) ==
    \/ locked(o) \/ begin(o) \/ begin_raises(o) \/ statement(o) \/ commit(o)
    \/ operation_raises(o) \/ rollback(o)
MigrationStep == migration_begins \/ migration_runs \/ migration_commits
DatabaseNext ==
    \/ connect \/ MigrationStep \/ migration_raises \/ close \/ killed
    \/ \E o \in Ops : write(o) \/ WriteStep(o) \/ cancel(o)

DatabaseSpec == DatabaseInit /\ [][DatabaseNext]_dvars

-----------------------------------------------------------------------------
(* The type of the variables. *)
TypeOK ==
    /\ connection \in {"none", "idle", "transaction"}
    /\ rows \in [Ops -> 0 .. Statements] /\ pending \in [Ops -> 0 .. Statements]
    /\ pc \in [Ops -> {"none"} \cup InFlight \cup Answers]
    /\ script \in {"none", "begun", "changed", "recorded"}
    /\ tables \in 0 .. Migrations /\ schema_migrations \in 0 .. Migrations

(* The tables and their record change together, whenever the process dies  *)
(* (db/core.py, _apply_one_migration).                                     *)
MigrationsAreWhole == tables = schema_migrations

(* A write is in the database as a whole or not at all, cancelled ones and *)
(* what they left behind included (db/core.py, write).                     *)
AllOrNothing == \A o \in Ops : rows[o] \in {0, Statements}

Done == {o \in Ops : rows[o] > 0}
Answer == [o \in Ops |-> IF pc[o] \in {"cancelled", "lost"} THEN "unknown"
                         ELSE IF pc[o] \in {"returned", "raised"} THEN pc[o] ELSE "none"]
AW == INSTANCE AtomicWrites WITH done <- Done, answer <- Answer

(* Callers see atomic writes and true answers: a write that returned is in *)
(* the database for good, one that raised never gets there, and a write    *)
(* that nobody waits for any more never gets there in part.                *)
ImplementsAtomicWrites == AW!Spec
=============================================================================

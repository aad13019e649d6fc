----------------------------- MODULE Migrations -----------------------------
(***************************************************************************)
(* migrations/runner.py, run by every start-up of the API (api/server.py)  *)
(* and at the head of every job of a worker (worker/tasks.py), on one      *)
(* database and without a lock: several starters apply the same files at   *)
(* the same time.  A starter is one call; a restart is another starter.    *)
(*                                                                         *)
(* Step 0 creates the table of migrations, steps 1..Files are the .sql     *)
(* files in name order, step Files + 1 is the approvals table, which only  *)
(* the API creates (api/routes.py, init_approval_table).                   *)
(***************************************************************************)
EXTENDS Integers, FiniteSets

CONSTANTS Starters,   \* the calls of run_migrations
          Apis,       \* those made by the API's start-up
          Processes,  \* the starters of one operating-system process die together
          Files,      \* how many .sql files the code ships
          Altering    \* the files that ALTER a table: they wait for its lock, then look

ASSUME MigrationsAssumption ==
  /\ Files \in Nat \ {0}
  /\ Apis \subseteq Starters
  /\ Starters # {}
  /\ Processes \subseteq SUBSET Starters
  /\ Altering \subseteq 2..Files

VARIABLES stage,     \* where each starter is
          at,        \* the step it has reached
          applied,   \* applied_names: the rows it read before its first file
          saw,       \* whether the objects of its step existed when it began it
          inPlace,   \* the steps whose objects are committed
          recorded   \* the files with a row in the migrations table

migrationVars == <<stage, at, applied, saw, inPlace, recorded>>

Versions == 1..Files
ApprovalTable == Files + 1
Ended == {"ready", "failed", "crashed"}
Stages == {"new", "executing", "reading", "scanning", "recording"} \cup Ended

(* A database at any version, its last file perhaps without its row.       *)
MigrationsInit ==
  /\ stage = [s \in Starters |-> "new"]
  /\ at = [s \in Starters |-> 0]
  /\ applied = [s \in Starters |-> {}]
  /\ saw = [s \in Starters |-> FALSE]
  /\ \E k \in 0..Files : \E r \in {k, k - 1} \cap Nat :
       /\ recorded = 1..r
       /\ inPlace \in (IF k = 0 THEN {{}, {0}} ELSE {0..k, 0..k \cup {ApprovalTable}})

-----------------------------------------------------------------------------
(* The statements of a step are sent as one string, so they are one        *)
(* transaction; the existence check comes before the commit of the others. *)
Execute(s, k) ==
  /\ stage' = [stage EXCEPT ![s] = "executing"]
  /\ at' = [at EXCEPT ![s] = k]
  /\ saw' = [saw EXCEPT ![s] = k \in inPlace]

Start(s) ==
  /\ stage[s] = "new"
  /\ Execute(s, 0)
  /\ UNCHANGED <<applied, inPlace, recorded>>

CollidesWithItself(s) == at[s] \in inPlace \ Altering

(* CREATE ... IF NOT EXISTS raises when another session committed the same *)
(* object after the check.                                                 *)
Collides(s) == ~saw[s] /\ at[s] \in inPlace \ Altering

AfterStep(k) ==
  IF k = 0 THEN "reading" ELSE IF k = ApprovalTable THEN "ready" ELSE "recording"

Commit(s) ==
  /\ stage[s] = "executing"
  /\ ~Collides(s)
  /\ inPlace' = inPlace \cup {at[s]}
  /\ stage' = [stage EXCEPT ![s] = AfterStep(at[s])]
  /\ UNCHANGED <<at, applied, saw, recorded>>

(* The exception leaves run_migrations: the API does not start, the job is *)
(* marked failed.                                                          *)
Collide(s) ==
  /\ stage[s] = "executing"
  /\ Collides(s)
  /\ stage' = [stage EXCEPT ![s] = "failed"]
  /\ UNCHANGED <<at, applied, saw, inPlace, recorded>>

ReadApplied(s) ==
  /\ stage[s] = "reading"
  /\ applied' = [applied EXCEPT ![s] = recorded]
  /\ at' = [at EXCEPT ![s] = 1]
  /\ stage' = [stage EXCEPT ![s] = "scanning"]
  /\ UNCHANGED <<saw, inPlace, recorded>>

Pending(s) == (at[s]..Files) \ applied[s]

RecordsFirst(s) ==
  /\ stage[s] = "scanning"
  /\ \E k \in Pending(s) :
       (\A m \in Pending(s) : k <= m) /\ Execute(s, k) /\ recorded' = recorded \cup {k}
  /\ UNCHANGED <<applied, inPlace>>

NextFile(s) ==
  /\ stage[s] = "scanning"
  /\ \E k \in Pending(s) : (\A m \in Pending(s) : k <= m) /\ Execute(s, k)
  /\ UNCHANGED <<applied, inPlace, recorded>>

(* INSERT ... ON CONFLICT (name) DO NOTHING, after the file's commit.      *)
Record(s) ==
  /\ stage[s] = "recording"
  /\ recorded' = recorded \cup {at[s]}
  /\ at' = [at EXCEPT ![s] = @ + 1]
  /\ stage' = [stage EXCEPT ![s] = "scanning"]
  /\ UNCHANGED <<applied, saw, inPlace>>

Done(s) ==
  /\ stage[s] = "scanning"
  /\ Pending(s) = {}
  /\ IF s \in Apis THEN Execute(s, ApprovalTable)
     ELSE stage' = [stage EXCEPT ![s] = "ready"] /\ UNCHANGED <<at, saw>>
  /\ UNCHANGED <<applied, inPlace, recorded>>

(* An open transaction is rolled back: its step is not in place.           *)
Crash(P) ==
  /\ \E s \in P : stage[s] \notin Ended
  /\ stage' = [s \in Starters |->
                 IF s \in P /\ stage[s] \notin Ended THEN "crashed" ELSE stage[s]]
  /\ UNCHANGED <<at, applied, saw, inPlace, recorded>>

Migrate(s) ==
  \/ Start(s) \/ Commit(s) \/ Collide(s) \/ ReadApplied(s)
  \/ NextFile(s) \/ Record(s) \/ Done(s)

MigrationsNext == (\E s \in Starters : Migrate(s)) \/ (\E P \in Processes : Crash(P))

MigrationsSpec == MigrationsInit /\ [][MigrationsNext]_migrationVars

-----------------------------------------------------------------------------
MigrationsTypeOK ==
  /\ stage \in [Starters -> Stages]
  /\ at \in [Starters -> 0..ApprovalTable]
  /\ applied \in [Starters -> SUBSET Versions]
  /\ saw \in [Starters -> BOOLEAN]
  /\ inPlace \subseteq 0..ApprovalTable
  /\ recorded \subseteq Versions

(* A file with a row is in the schema, and the files before it are too:    *)
(* whoever skips it because of the row skips nothing that is missing.      *)
RecordedInPlace ==
  \A k \in recorded : 1..k \subseteq inPlace

(* Whoever gets past run_migrations, API or job, has the whole schema      *)
(* under it, with a row for every file, whatever the other starters did    *)
(* and wherever they died.                                                 *)
ReadyHasSchema ==
  \A s \in Starters : stage[s] = "ready" =>
    /\ Versions \subseteq inPlace \cap recorded
    /\ s \in Apis => ApprovalTable \in inPlace

(* Starters that race on an object raise, but never all of them: as long   *)
(* as no process is killed, one start always gets through.                 *)
SomebodySurvives ==
  (\A s \in Starters : stage[s] # "crashed") => \E s \in Starters : stage[s] # "failed"

=============================================================================

-------------------------- MODULE MigrationsProofs --------------------------
(* Proofs about Migrations: for any number of starters, files and crashes. *)
EXTENDS Migrations, TLAPS

(* Every file before the step a starter has reached has its row.           *)
Behind(s) == \A m \in Versions : m < at[s] => m \in recorded

StarterInv(s) ==
  /\ applied[s] \subseteq recorded
  /\ Behind(s)
  /\ stage[s] = "scanning" => at[s] >= 1
  /\ stage[s] = "recording" => at[s] \in Versions /\ at[s] \in inPlace
  /\ stage[s] = "ready" => /\ Versions \subseteq recorded
                           /\ s \in Apis => ApprovalTable \in inPlace

(* Rows are written after their file, and files are applied in order.      *)
SchemaInv ==
  /\ recorded \subseteq inPlace
  /\ \A m \in Versions : m \in inPlace => \A n \in Versions : n < m => n \in inPlace

IInv == MigrationsTypeOK /\ SchemaInv /\ \A s \in Starters : StarterInv(s)

(* The starter that committed last is not among those it made collide.     *)
Doomed(s) == stage[s] = "failed" \/ (stage[s] = "executing" /\ Collides(s))
SurvivorInv ==
  (\A s \in Starters : stage[s] # "crashed") => \E s \in Starters : ~Doomed(s)

LEMMA InitIInv == MigrationsInit => IInv
<1> SUFFICES ASSUME MigrationsInit PROVE IInv
  OBVIOUS
<1> USE MigrationsAssumption
<1>0. PICK k \in 0..Files : \E r \in {k, k - 1} \cap Nat :
        /\ recorded = 1..r
        /\ inPlace \in (IF k = 0 THEN {{}, {0}} ELSE {0..k, 0..k \cup {ApprovalTable}})
  BY DEF MigrationsInit
<1>1. PICK r \in {k, k - 1} \cap Nat :
        /\ recorded = 1..r
        /\ inPlace \in (IF k = 0 THEN {{}, {0}} ELSE {0..k, 0..k \cup {ApprovalTable}})
  BY <1>0
<1>2. MigrationsTypeOK
  BY <1>1 DEF MigrationsInit, MigrationsTypeOK, Stages, Ended, Versions, ApprovalTable
<1>3. recorded \subseteq inPlace
  BY <1>1
<1>4. \A m \in Versions : m \in inPlace => \A n \in Versions : n < m => n \in inPlace
  BY <1>1 DEF Versions, ApprovalTable
<1>5. ASSUME NEW s \in Starters PROVE StarterInv(s)
  BY DEF StarterInv, Behind, MigrationsInit, Versions
<1> QED
  BY <1>2, <1>3, <1>4, <1>5 DEF IInv, SchemaInv

LEMMA TypeStep ==
  ASSUME IInv, [MigrationsNext]_migrationVars
  PROVE  MigrationsTypeOK'
<1> USE MigrationsAssumption DEF IInv, MigrationsTypeOK, Stages, Ended, Versions, ApprovalTable
<1>1. ASSUME NEW s \in Starters, Migrate(s) PROVE MigrationsTypeOK'
  <2>1. CASE Start(s)
    BY <2>1 DEF Start, Execute
  <2>2. CASE Commit(s)
    BY <2>2 DEF Commit, AfterStep
  <2>3. CASE Collide(s)
    BY <2>3 DEF Collide
  <2>4. CASE ReadApplied(s)
    BY <2>4 DEF ReadApplied
  <2>5. CASE NextFile(s)
    BY <2>5 DEF NextFile, Execute, Pending
  <2>6. CASE Record(s)
    <3>1. at[s] \in Versions
      BY <2>6 DEF Record, StarterInv
    <3>2. at[s] + 1 \in 0..ApprovalTable
      BY <3>1
    <3> QED
      BY <2>6, <3>1, <3>2 DEF Record
  <2>7. CASE Done(s)
    <3>1. CASE s \in Apis
      <4>1. /\ Execute(s, ApprovalTable)
            /\ UNCHANGED <<applied, inPlace, recorded>>
        BY <2>7, <3>1 DEF Done
      <4>2. ApprovalTable \in 0..ApprovalTable
        OBVIOUS
      <4> QED
        BY <4>1, <4>2 DEF Execute
    <3>2. CASE s \notin Apis
      BY <2>7, <3>2 DEF Done
    <3> QED
      BY <3>1, <3>2
  <2> QED
    BY <1>1, <2>1, <2>2, <2>3, <2>4, <2>5, <2>6, <2>7 DEF Migrate
<1>2. ASSUME NEW P \in Processes, Crash(P) PROVE MigrationsTypeOK'
  BY <1>2 DEF Crash
<1>3. CASE UNCHANGED migrationVars
  BY <1>3 DEF migrationVars
<1> QED
  BY <1>1, <1>2, <1>3 DEF MigrationsNext

(* Nothing that is in place or recorded is ever taken away.                *)
LEMMA SchemaGrows ==
  ASSUME MigrationsNext
  PROVE  inPlace \subseteq inPlace' /\ recorded \subseteq recorded'
BY DEF MigrationsNext, Migrate, Start, Commit, Collide, ReadApplied, NextFile, Record, Done, Crash

(* What a starter knows stays true while others move.                      *)
LEMMA Undisturbed ==
  ASSUME IInv, MigrationsNext, NEW t \in Starters,
         at'[t] = at[t], applied'[t] = applied[t],
         stage'[t] = stage[t] \/ stage'[t] \in {"failed", "crashed"}
  PROVE  StarterInv(t)'
BY SchemaGrows DEF IInv, StarterInv, Behind

LEMMA StarterStep ==
  ASSUME IInv, NEW s \in Starters, Migrate(s)
  PROVE  SchemaInv' /\ \A t \in Starters : StarterInv(t)'
<1> USE MigrationsAssumption DEF IInv, MigrationsTypeOK
<1>0. MigrationsNext
  BY DEF MigrationsNext
<1>1. CASE Start(s)
  <2>1. SchemaInv'
    BY <1>1 DEF Start, SchemaInv
  <2>2. StarterInv(s)'
    BY <1>1 DEF Start, Execute, StarterInv, Behind, Versions
  <2>3. \A t \in Starters \ {s} : StarterInv(t)'
    BY <1>0, <1>1, Undisturbed DEF Start, Execute
  <2> QED
    BY <2>1, <2>2, <2>3
<1>2. CASE Commit(s)
  <2>1. SchemaInv'
    BY <1>2 DEF Commit, SchemaInv, StarterInv, Behind, Versions, ApprovalTable
  <2>2. StarterInv(s)'
    BY <1>2 DEF Commit, AfterStep, StarterInv, Behind, Versions, ApprovalTable
  <2>3. \A t \in Starters \ {s} : StarterInv(t)'
    BY <1>0, <1>2, Undisturbed DEF Commit
  <2> QED
    BY <2>1, <2>2, <2>3
<1>3. CASE Collide(s)
  <2>1. SchemaInv'
    BY <1>3 DEF Collide, SchemaInv
  <2>2. \A t \in Starters : StarterInv(t)'
    BY <1>0, <1>3, Undisturbed DEF Collide
  <2> QED
    BY <2>1, <2>2
<1>4. CASE ReadApplied(s)
  <2>1. SchemaInv'
    BY <1>4 DEF ReadApplied, SchemaInv
  <2>2. StarterInv(s)'
    BY <1>4 DEF ReadApplied, StarterInv, Behind, Versions
  <2>3. \A t \in Starters \ {s} : StarterInv(t)'
    BY <1>0, <1>4, Undisturbed DEF ReadApplied
  <2> QED
    BY <2>1, <2>2, <2>3
<1>5. CASE NextFile(s)
  <2>1. SchemaInv'
    BY <1>5 DEF NextFile, SchemaInv
  <2>2. StarterInv(s)'
    BY <1>5 DEF NextFile, Execute, Pending, StarterInv, Behind, Versions
  <2>3. \A t \in Starters \ {s} : StarterInv(t)'
    BY <1>0, <1>5, Undisturbed DEF NextFile, Execute
  <2> QED
    BY <2>1, <2>2, <2>3
<1>6. CASE Record(s)
  <2>1. SchemaInv'
    BY <1>6 DEF Record, SchemaInv, StarterInv
  <2>2. StarterInv(s)'
    BY <1>6 DEF Record, StarterInv, Behind, Versions
  <2>3. \A t \in Starters \ {s} : StarterInv(t)'
    BY <1>0, <1>6, Undisturbed DEF Record
  <2> QED
    BY <2>1, <2>2, <2>3
<1>7. CASE Done(s)
  <2>1. SchemaInv'
    BY <1>7 DEF Done, SchemaInv
  <2>2. Versions \subseteq recorded
    BY <1>7 DEF Done, Pending, StarterInv, Behind, Versions
  <2>3. StarterInv(s)'
    BY <1>7, <2>2 DEF Done, Execute, StarterInv, Behind, Versions, ApprovalTable
  <2>4. \A t \in Starters \ {s} : StarterInv(t)'
    BY <1>0, <1>7, Undisturbed DEF Done, Execute
  <2> QED
    BY <2>1, <2>3, <2>4
<1> QED
  BY <1>1, <1>2, <1>3, <1>4, <1>5, <1>6, <1>7 DEF Migrate

LEMMA NextIInv == IInv /\ [MigrationsNext]_migrationVars => IInv'
<1> SUFFICES ASSUME IInv, [MigrationsNext]_migrationVars PROVE IInv'
  OBVIOUS
<1>1. MigrationsTypeOK'
  BY TypeStep
<1>2. ASSUME NEW s \in Starters, Migrate(s)
      PROVE  SchemaInv' /\ \A t \in Starters : StarterInv(t)'
  BY <1>2, StarterStep
<1>3. ASSUME NEW P \in Processes, Crash(P)
      PROVE  SchemaInv' /\ \A t \in Starters : StarterInv(t)'
  <2>0. MigrationsNext
    BY <1>3 DEF MigrationsNext
  <2>1. SchemaInv'
    BY <1>3 DEF Crash, IInv, SchemaInv
  <2>2. \A t \in Starters : StarterInv(t)'
    BY <1>3, <2>0, Undisturbed DEF Crash
  <2> QED
    BY <2>1, <2>2
<1>4. CASE UNCHANGED migrationVars
  BY <1>4 DEF migrationVars, IInv, MigrationsTypeOK, SchemaInv, StarterInv, Behind
<1> QED
  BY <1>1, <1>2, <1>3, <1>4 DEF MigrationsNext, IInv

(* The invariant holds in every reachable state.                           *)
LEMMA Inductive == MigrationsSpec => []IInv
<1> QED
  BY InitIInv, NextIInv, PTL DEF MigrationsSpec

(* Types: each variable of a start-up keeps its range.                     *)
THEOREM MigrationsTypeCorrect == MigrationsSpec => []MigrationsTypeOK
<1>1. IInv => MigrationsTypeOK
  BY DEF IInv
<1> QED
  BY <1>1, Inductive, PTL

(* A row vouches for its file and for every file before it.                *)
THEOREM RowsVouchForFiles == MigrationsSpec => []RecordedInPlace
<1>1. IInv => RecordedInPlace
  <2> SUFFICES ASSUME IInv, NEW k \in recorded PROVE 1..k \subseteq inPlace
    BY DEF RecordedInPlace
  <2>1. k \in Versions /\ k \in inPlace
    BY DEF IInv, MigrationsTypeOK, SchemaInv
  <2> QED
    BY <2>1, MigrationsAssumption DEF IInv, SchemaInv, Versions
<1> QED
  BY <1>1, Inductive, PTL

(* A start-up that returns has the whole schema.                           *)
THEOREM ReadyMeansMigrated == MigrationsSpec => []ReadyHasSchema
<1>1. IInv => ReadyHasSchema
  BY DEF IInv, SchemaInv, StarterInv, ReadyHasSchema
<1> QED
  BY <1>1, Inductive, PTL

LEMMA InitSurvivor == MigrationsInit => SurvivorInv
<1>1. PICK s : s \in Starters
  BY MigrationsAssumption
<1> QED
  BY <1>1 DEF MigrationsInit, SurvivorInv, Doomed

LEMMA NextSurvivor ==
  ASSUME IInv, SurvivorInv, [MigrationsNext]_migrationVars
  PROVE  SurvivorInv'
<1> SUFFICES ASSUME \A s \in Starters : stage'[s] # "crashed"
             PROVE  \E s \in Starters : ~Doomed(s)'
  BY DEF SurvivorInv
<1> USE DEF IInv, MigrationsTypeOK
<1>1. ASSUME NEW s \in Starters, Migrate(s) PROVE \E t \in Starters : ~Doomed(t)'
  <2>1. \A t \in Starters : stage[t] # "crashed"
    BY <1>1 DEF Migrate, Start, Commit, Collide, ReadApplied, NextFile, Record, Done, Execute
  <2>2. PICK t \in Starters : ~Doomed(t)
    BY <2>1 DEF SurvivorInv
  <2>3. CASE Commit(s)
    BY <2>3 DEF Commit, AfterStep, Doomed
  <2>4. CASE Collide(s)
    <3>1. t # s
      BY <2>2, <2>4 DEF Collide, Doomed
    <3> QED
      BY <2>2, <2>4, <3>1 DEF Collide, Doomed, Collides
  <2>5. CASE Start(s) \/ NextFile(s)
    <3>1. ~Doomed(s)'
      BY <2>5 DEF Start, NextFile, Execute, Doomed, Collides
    <3> QED
      BY <3>1
  <2>6. CASE ReadApplied(s) \/ Record(s)
    <3>1. ~Doomed(s)'
      BY <2>6 DEF ReadApplied, Record, Doomed
    <3> QED
      BY <3>1
  <2>7. CASE Done(s)
    <3>1. ~Doomed(s)'
      BY <2>7 DEF Done, Execute, Doomed, Collides
    <3> QED
      BY <3>1
  <2> QED
    BY <1>1, <2>3, <2>4, <2>5, <2>6, <2>7 DEF Migrate
<1>2. ASSUME NEW P \in Processes, Crash(P) PROVE FALSE
  BY <1>2, MigrationsAssumption DEF Crash, Ended
<1>3. CASE UNCHANGED migrationVars
  BY <1>3 DEF migrationVars, SurvivorInv, Doomed, Collides
<1> QED
  BY <1>1, <1>2, <1>3 DEF MigrationsNext

(* Racing starters never all fail: the last to commit cannot collide.      *)
THEOREM OneStartSurvives == MigrationsSpec => []SomebodySurvives
<1>1. SurvivorInv => SomebodySurvives
  BY DEF SurvivorInv, SomebodySurvives, Doomed
<1>2. IInv /\ SurvivorInv /\ [MigrationsNext]_migrationVars => SurvivorInv'
  BY NextSurvivor
<1> QED
  BY <1>1, <1>2, InitSurvivor, Inductive, PTL DEF MigrationsSpec
=============================================================================

------------------------- MODULE LongTermMemoryProofs -------------------------
(***************************************************************************)
(* What holds of the memories table for any number of runs, users, jobs and *)
(* rows, any TOP_K, and however often a run is delivered again or a user    *)
(* erased.                                                                 *)
(***************************************************************************)
EXTENDS LongTermMemory, SequenceTheorems, FiniteSetTheorems, TLAPS

\* The ranges, with a count for every row ever inserted; a job drives a run and
\* is in the planning or behind it, and only a free slot drives none.
TableInv ==
    /\ TypeOK
    /\ access_count \in Seq(Nat) /\ Len(access_count) = Len(lessons)
    /\ \A s \in Slots : at[s] # "idle" => driven[s] \in Runs
    /\ \A s \in Slots : at[s] = "idle" => found[s] = {}

\* What a job has in hand, or a plan rests on, belongs to the run's user, and is
\* no more than was asked for.
Scoped(p, ids) ==
    /\ Cardinality(ids) <= TOP_K
    /\ \A i \in ids : lessons[i].owner = UserOf[p]
ScopeInv ==
    /\ \A s \in Slots : at[s] # "idle" => Scoped(driven[s], found[s])
    /\ \A p \in Runs : Scoped(p, memory_ids_used[p])

\* The runs that were over at an erasure are over still.
OverInv == \A u \in Users : \A p \in over[u] : Over(p)

\* The runs whose committed plan rests on a row, the jobs about to commit one, and
\* the jobs of a user that have still to count what they find: each job has
\* counted a row once at most.
Resting(i) == {p \in Runs : i \in memory_ids_used[p]}
Holding(i) == {s \in Slots : i \in found[s] /\ at[s] = "plan"}
Uncounted(u) == {s \in Slots : at[s] \in {"search", "touch"} /\ UserOf[driven[s]] = u}
CoversUse(i) ==
    /\ Cardinality(Resting(i)) + Cardinality(Holding(i)) <= access_count[i]
    /\ access_count[i] + Cardinality(Uncounted(lessons[i].owner)) <= plannings[lessons[i].owner]
CountInv ==
    /\ \A u \in Users : Cardinality(Uncounted(u)) <= plannings[u]
    /\ \A i \in rows : CoversUse(i)

------------------------------------------------------------------------------
(* The ranges.                                                             *)

\* A longer table has all the ids of the shorter one.
LEMMA InsertedLast ==
  ASSUME NEW S, NEW s \in Seq(S), NEW e \in S
  PROVE  /\ Append(s, e) \in Seq(S) /\ Len(Append(s, e)) = Len(s) + 1
         /\ DOMAIN Append(s, e) = DOMAIN s \cup {Len(s) + 1} /\ Len(s) + 1 \notin DOMAIN s
         /\ \A i \in DOMAIN s : Append(s, e)[i] = s[i]
         /\ Append(s, e)[Len(s) + 1] = e
  BY AppendProperties, LenProperties

LEMMA FunctionIsSequence ==
  ASSUME NEW S, NEW n \in Nat, NEW f \in [1..n -> S]
  PROVE  f \in Seq(S) /\ Len(f) = n
  OBVIOUS

LEMMA TableInit == Init => TableInv
  BY MemoryAssumption DEF Init, TableInv, TypeOK, Places

\* The run a job drives is one with a user.
LEMMA Drives ==
  ASSUME TableInv, NEW s \in Slots, at[s] # "idle"
  PROVE  driven[s] \in Runs /\ UserOf[driven[s]] \in Users
  BY MemoryAssumption DEF TableInv, TypeOK

LEMMA TableStep == TableInv /\ [Next]_vars => TableInv'
<1> SUFFICES ASSUME TableInv, [Next]_vars PROVE TableInv'
  OBVIOUS
<1> USE MemoryAssumption DEF TableInv, TypeOK, Places, table, jobs, threads, history, Free
<1>1. ASSUME NEW s \in Slots, Search(s) PROVE TableInv'
  <2>1. PICK T \in TopOf(Candidates(s)) : found' = [found EXCEPT ![s] = T]
    BY <1>1 DEF Search
  <2>2. T \subseteq DOMAIN lessons
    BY <2>1 DEF TopOf, Candidates
  <2>3. at' \in [Slots -> Places] /\ \A q \in Slots : at'[q] # "idle" => at[q] # "idle"
    BY <1>1 DEF Search
  <2> QED
    BY <1>1, <2>1, <2>2, <2>3 DEF Search
<1>2. ASSUME NEW s \in Slots, Touch(s) PROVE TableInv'
  <2>1. /\ access_count' \in [DOMAIN lessons -> Nat]
        /\ DOMAIN lessons = 1..Len(lessons) /\ Len(lessons) \in Nat
    BY <1>2, LenProperties DEF Touch, Bump
  <2>2. access_count' \in Seq(Nat) /\ Len(access_count') = Len(lessons)
    BY <2>1, FunctionIsSequence
  <2> QED
    BY <1>2, <2>1, <2>2 DEF Touch
<1>3. ASSUME NEW s \in Slots, CommitPlan(s) PROVE TableInv'
  <2>1. found[s] \in SUBSET DOMAIN lessons /\ driven[s] \in Runs
    BY <1>3 DEF CommitPlan
  <2> QED
    BY <1>3, <2>1 DEF CommitPlan
<1>4. ASSUME NEW s \in Slots, Leave(s) \/ NoLesson(s) \/ CommitAnswer(s) PROVE TableInv'
  <2>1. CASE Leave(s)
    BY <2>1 DEF Leave
  <2>2. CASE NoLesson(s)
    BY <2>2 DEF NoLesson
  <2>3. CASE CommitAnswer(s)
    BY <2>3 DEF CommitAnswer
  <2> QED
    BY <1>4, <2>1, <2>2, <2>3
<1>5. ASSUME NEW s \in Slots, Insert(s) PROVE TableInv'
  <2>0. driven[s] \in Runs /\ [owner |-> UserOf[driven[s]], source |-> driven[s]] \in [owner : Users, source : Runs]
    BY <1>5 DEF Insert
  <2>1. lessons' \in Seq([owner : Users, source : Runs]) /\ DOMAIN lessons \subseteq DOMAIN lessons'
    BY <1>5, <2>0, InsertedLast DEF Insert
  <2>2. access_count' \in Seq(Nat) /\ Len(access_count') = Len(lessons')
    BY <1>5, <2>0, InsertedLast DEF Insert
  <2>3. access_count' \in [DOMAIN lessons' -> Nat]
    BY <2>1, <2>2, LenProperties
  <2>4. rows' \subseteq DOMAIN lessons'
    BY <1>5, <2>0, InsertedLast DEF Insert
  <2>5. /\ found' \in [Slots -> SUBSET DOMAIN lessons'] /\ at' \in [Slots -> Places]
        /\ memory_ids_used' \in [Runs -> SUBSET DOMAIN lessons']
        /\ \A q \in Slots : at'[q] # "idle" => driven'[q] \in Runs
    BY <1>5, <2>1 DEF Insert
  <2> QED
    BY <1>5, <2>1, <2>2, <2>3, <2>4, <2>5 DEF Insert
<1>6. ASSUME NEW s \in Slots, NEW p \in Runs, Deliver(s, p) PROVE TableInv'
  <2>1. checkpoint[p] \in {"search", "work"} /\ UserOf[p] \in Users
    BY <1>6 DEF Deliver, GoesOn
  <2>2. plannings' \in [Users -> Nat]
    BY <1>6, <2>1 DEF Deliver
  <2> QED
    BY <1>6, <2>1, <2>2 DEF Deliver
<1>7. ASSUME NEW u \in Users, Erase(u) PROVE TableInv'
  BY <1>7 DEF Erase
<1>8. CASE UNCHANGED vars
  BY <1>8 DEF vars
<1> QED
  BY <1>1, <1>2, <1>3, <1>4, <1>5, <1>6, <1>7, <1>8 DEF Next, Step, Quiet

THEOREM MemoryTypeCorrect == Spec => []TypeOK
<1>1. TableInv => TypeOK
  BY DEF TableInv
<1> QED
  BY <1>1, TableInit, TableStep, PTL DEF Spec

LEMMA TableAlways == Spec => []TableInv
  BY TableInit, TableStep, PTL DEF Spec

\* A row keeps its user and its source.
LEMMA LessonsStay ==
  ASSUME TableInv, [Next]_vars
  PROVE  /\ DOMAIN lessons \subseteq DOMAIN lessons'
         /\ \A i \in DOMAIN lessons : lessons'[i] = lessons[i]
<1>1. CASE \E s \in Slots : Insert(s)
  <2>1. PICK s \in Slots : Insert(s)
    BY <1>1
  <2>2. [owner |-> UserOf[driven[s]], source |-> driven[s]] \in [owner : Users, source : Runs]
    BY <2>1, Drives DEF Insert
  <2> QED
    BY <2>1, <2>2, InsertedLast DEF Insert, TableInv, TypeOK
<1>2. CASE ~\E s \in Slots : Insert(s)
  <2>1. lessons' = lessons
    BY <1>2 DEF Next, Step, Deliver, Leave, Search, Touch, CommitPlan, NoLesson, CommitAnswer,
                Erase, Quiet, vars, table
  <2> QED
    BY <2>1
<1> QED
  BY <1>1, <1>2

------------------------------------------------------------------------------
(* Attribution.                                                            *)

LEMMA RowsFinite == TableInv => IsFiniteSet(rows)
<1> SUFFICES ASSUME TableInv PROVE IsFiniteSet(rows)
  OBVIOUS
<1>1. rows \subseteq 1..Len(lessons) /\ Len(lessons) \in Nat
  BY LenProperties DEF TableInv, TypeOK
<1> QED
  <2>1. 1 \in Int /\ Len(lessons) \in Int
    BY <1>1
  <2>2. IsFiniteSet(1..Len(lessons))
    BY <2>1, FS_Interval
  <2> QED
    BY <1>1, <2>2, FS_Subset

LEMMA TopIsScoped ==
  ASSUME TableInv, NEW s \in Slots, NEW T \in TopOf(Candidates(s))
  PROVE  Scoped(driven[s], T) /\ T \in SUBSET DOMAIN lessons
<1>1. Cardinality(Candidates(s)) \in Nat
  BY RowsFinite, FS_Subset, FS_CardinalityType DEF Candidates
<1> QED
  BY <1>1, MemoryAssumption DEF TopOf, Candidates, Scoped, TableInv, TypeOK

LEMMA NothingIsScoped == \A p : Scoped(p, {})
  BY FS_EmptySet, MemoryAssumption DEF Scoped

\* Ids stay scoped when the table grows.
LEMMA StaysScoped ==
  ASSUME TableInv, [Next]_vars, NEW p, NEW ids \in SUBSET DOMAIN lessons, Scoped(p, ids)
  PROVE  /\ Cardinality(ids) <= TOP_K
         /\ \A i \in ids : lessons'[i].owner = UserOf[p]
  BY LessonsStay DEF Scoped

\* What a step puts in the hand of a job that stays, and into a plan.
LEMMA HandsMove ==
  ASSUME TableInv, [Next]_vars
  PROVE  /\ \A s \in Slots : at'[s] # "idle" =>
               \/ found'[s] = {}
               \/ driven'[s] = driven[s] /\ at[s] # "idle"
                  /\ found'[s] \in {found[s]} \cup TopOf(Candidates(s))
         /\ \A p \in Runs :
               \/ memory_ids_used'[p] \in {memory_ids_used[p], {}}
               \/ \E s \in Slots : at[s] # "idle" /\ driven[s] = p /\ memory_ids_used'[p] = found[s]
<1> USE DEF TableInv, TypeOK, Places, jobs, threads, Free
<1> DEFINE Hands == \A s \in Slots : at'[s] # "idle" =>
               \/ found'[s] = {}
               \/ driven'[s] = driven[s] /\ at[s] # "idle"
                  /\ found'[s] \in {found[s]} \cup TopOf(Candidates(s))
           Plans == \A p \in Runs :
               \/ memory_ids_used'[p] \in {memory_ids_used[p], {}}
               \/ \E s \in Slots : at[s] # "idle" /\ driven[s] = p /\ memory_ids_used'[p] = found[s]
<1>1. ASSUME NEW s \in Slots, Search(s) PROVE Hands /\ Plans
  <2>1. PICK T \in TopOf(Candidates(s)) : found' = [found EXCEPT ![s] = T]
    BY <1>1 DEF Search
  <2> QED
    BY <1>1, <2>1 DEF Search
<1>2. ASSUME NEW s \in Slots, CommitPlan(s) PROVE Hands /\ Plans
  BY <1>2 DEF CommitPlan
<1>3. ASSUME NEW s \in Slots, Touch(s) \/ Insert(s) \/ NoLesson(s) PROVE Hands /\ Plans
  BY <1>3 DEF Touch, Insert, NoLesson
<1>4. ASSUME NEW s \in Slots, Leave(s) \/ CommitAnswer(s) PROVE Hands /\ Plans
  BY <1>4 DEF Leave, CommitAnswer
<1>5. ASSUME NEW s \in Slots, NEW p \in Runs, Deliver(s, p) PROVE Hands /\ Plans
  BY <1>5 DEF Deliver
<1>6. ASSUME NEW u \in Users, Erase(u) PROVE Hands /\ Plans
  BY <1>6 DEF Erase
<1>7. CASE UNCHANGED vars
  BY <1>7 DEF vars
<1> QED
  BY <1>1, <1>2, <1>3, <1>4, <1>5, <1>6, <1>7 DEF Next, Step, Quiet

LEMMA ScopeStep == TableInv /\ ScopeInv /\ [Next]_vars => ScopeInv'
<1> SUFFICES ASSUME TableInv, ScopeInv, [Next]_vars PROVE ScopeInv'
  OBVIOUS
<1> USE DEF TableInv, TypeOK
<1>1. ASSUME NEW s \in Slots, at'[s] # "idle" PROVE Scoped(driven[s], found[s])'
  <2>1. CASE found'[s] = {}
    BY <2>1, FS_EmptySet, MemoryAssumption DEF Scoped
  <2>2. CASE found'[s] # {}
    <3>1. /\ driven'[s] = driven[s] /\ at[s] # "idle"
          /\ found'[s] \in {found[s]} \cup TopOf(Candidates(s))
      BY <1>1, <2>2, HandsMove
    <3>2. Scoped(driven[s], found'[s]) /\ found'[s] \in SUBSET DOMAIN lessons
      BY <3>1, TopIsScoped DEF ScopeInv
    <3>3. /\ Cardinality(found'[s]) <= TOP_K
          /\ \A i \in found'[s] : lessons'[i].owner = UserOf[driven[s]]
      BY <3>2, StaysScoped
    <3> QED
      BY <3>1, <3>3 DEF Scoped
  <2> QED
    BY <2>1, <2>2
<1>2. ASSUME NEW p \in Runs PROVE Scoped(p, memory_ids_used[p])'
  <2>1. Scoped(p, memory_ids_used'[p]) /\ memory_ids_used'[p] \in SUBSET DOMAIN lessons
    <3>1. CASE memory_ids_used'[p] \in {memory_ids_used[p], {}}
      BY <3>1, NothingIsScoped DEF ScopeInv
    <3>2. ASSUME NEW s \in Slots, at[s] # "idle", driven[s] = p, memory_ids_used'[p] = found[s]
          PROVE  Scoped(p, memory_ids_used'[p]) /\ memory_ids_used'[p] \in SUBSET DOMAIN lessons
      BY <3>2 DEF ScopeInv
    <3> QED
      BY <3>1, <3>2, HandsMove
  <2>2. /\ Cardinality(memory_ids_used'[p]) <= TOP_K
        /\ \A i \in memory_ids_used'[p] : lessons'[i].owner = UserOf[p]
    BY <2>1, StaysScoped
  <2> QED
    BY <2>2 DEF Scoped
<1> QED
  BY <1>1, <1>2 DEF ScopeInv

LEMMA ScopeInit == Init => ScopeInv
<1> SUFFICES ASSUME Init PROVE ScopeInv
  OBVIOUS
<1> QED
  BY NothingIsScoped DEF Init, ScopeInv

\* A run's attribution names lessons of its own user only, and at most TOP_K.
THEOREM AttributionScoped == Spec => []AttributionIsScoped
<1>1. ScopeInv => AttributionIsScoped
  BY DEF ScopeInv, Scoped, AttributionIsScoped
<1> QED
  BY <1>1, ScopeInit, TableAlways, ScopeStep, PTL DEF Spec

------------------------------------------------------------------------------
(* Erasure.                                                                *)

\* A run that is over stays so: nothing is delivered for it, and a job that goes
\* on drives another run.
LEMMA OverStays ==
  ASSUME TableInv, [Next]_vars, NEW p \in Runs, Over(p)
  PROVE  Over(p)'
<1> USE DEF TableInv, TypeOK, Places, Over, jobs, threads, Free
<1>1. ASSUME NEW s \in Slots, NEW q \in Runs, Deliver(s, q) PROVE Over(p)'
  BY <1>1 DEF Deliver, GoesOn
<1>2. ASSUME NEW s \in Slots, CommitPlan(s) PROVE Over(p)'
  BY <1>2 DEF CommitPlan
<1>3. ASSUME NEW s \in Slots, Leave(s) \/ CommitAnswer(s) PROVE Over(p)'
  BY <1>3, MemoryAssumption DEF Leave, CommitAnswer
<1>4. CASE UNCHANGED <<driven, checkpoint>>
  BY <1>4
<1> QED
  BY <1>1, <1>2, <1>3, <1>4 DEF Next, Step, Search, Touch, Insert, NoLesson, Erase, Quiet, vars

LEMMA OverStep == TableInv /\ OverInv /\ [Next]_vars => OverInv'
<1> SUFFICES ASSUME TableInv, OverInv, [Next]_vars, NEW u \in Users, NEW p \in over'[u]
             PROVE  Over(p)'
  BY DEF OverInv
<1>1. over'[u] = over[u] \/ over'[u] = {q \in Runs : Over(q)}
  <2>1. CASE \E v \in Users : Erase(v)
    BY <2>1 DEF Erase, TableInv, TypeOK
  <2>2. CASE ~\E v \in Users : Erase(v)
    BY <2>2 DEF Next, Step, Deliver, Leave, Search, Touch, CommitPlan, Insert, NoLesson,
                CommitAnswer, Quiet, vars, history
  <2> QED
    BY <2>1, <2>2
<1>2. p \in Runs /\ Over(p)
  BY <1>1 DEF OverInv, TableInv, TypeOK
<1> QED
  BY <1>2, OverStays

\* A row is inserted by a job, and the run it drives is not over; and an erasure
\* leaves no row of its user.
LEMMA ErasureStep ==
  TableInv /\ OverInv /\ ErasureHolds /\ [Next]_vars => ErasureHolds'
<1> SUFFICES ASSUME TableInv, OverInv, ErasureHolds, [Next]_vars, NEW i \in rows'
             PROVE  lessons'[i].source \notin over'[lessons'[i].owner]
  BY DEF ErasureHolds
<1> USE DEF TableInv, TypeOK, Places
<1>1. ASSUME NEW s \in Slots, Insert(s)
      PROVE  lessons'[i].source \notin over'[lessons'[i].owner]
  <2>0. [owner |-> UserOf[driven[s]], source |-> driven[s]] \in [owner : Users, source : Runs]
    BY <1>1, Drives DEF Insert
  <2>1. /\ over' = over
        /\ lessons' = Append(lessons, [owner |-> UserOf[driven[s]], source |-> driven[s]])
        /\ rows' = rows \cup {Len(lessons) + 1}
    BY <1>1, <2>0, InsertedLast DEF Insert, history
  <2>2. CASE i \in rows
    BY <2>1, <2>2, LessonsStay DEF ErasureHolds
  <2>3. CASE i \notin rows
    <3>1. lessons'[i].owner = UserOf[driven[s]] /\ lessons'[i].source = driven[s]
      BY <2>0, <2>1, <2>3, InsertedLast
    <3>2. ~Over(driven[s]) /\ UserOf[driven[s]] \in Users
      BY <1>1, Drives DEF Insert, Over
    <3> QED
      BY <2>1, <3>1, <3>2 DEF OverInv
  <2> QED
    BY <2>2, <2>3
<1>2. ASSUME NEW u \in Users, Erase(u)
      PROVE  lessons'[i].source \notin over'[lessons'[i].owner]
  BY <1>2 DEF Erase, Erased, ErasureHolds
<1>3. CASE UNCHANGED <<lessons, rows, over>>
  BY <1>3 DEF ErasureHolds
<1> QED
  BY <1>1, <1>2, <1>3 DEF Next, Step, Deliver, Leave, Search, Touch, CommitPlan, NoLesson,
                          CommitAnswer, Quiet, vars, table, history

\* After an erasure the user's rows all come from runs that were not over then.
THEOREM ErasuresHold == Spec => []ErasureHolds
<1>1. Init => OverInv /\ ErasureHolds
  BY DEF Init, OverInv, ErasureHolds
<1> QED
  BY <1>1, TableAlways, OverStep, ErasureStep, PTL DEF Spec

------------------------------------------------------------------------------
(* The counts.                                                             *)

\* Sets of runs and of slots are finite, so that they can be counted.
LEMMA Counting ==
  ASSUME NEW S, S \subseteq Runs \/ S \subseteq Slots
  PROVE  /\ IsFiniteSet(S) /\ Cardinality(S) \in Nat
         /\ \A T \in SUBSET S : Cardinality(T) \in Nat /\ Cardinality(T) <= Cardinality(S)
<1>1. IsFiniteSet(S)
  BY MemoryAssumption, FS_Subset
<1>2. \A T \in SUBSET S : IsFiniteSet(T) /\ Cardinality(T) <= Cardinality(S)
  BY <1>1, FS_Subset
<1> QED
  BY <1>1, <1>2, FS_CardinalityType

LEMMA OneMore ==
  ASSUME NEW S, NEW e, S \subseteq Runs \/ S \subseteq Slots
  PROVE  /\ Cardinality(S \cup {e}) = IF e \in S THEN Cardinality(S) ELSE Cardinality(S) + 1
         /\ Cardinality(S \ {e}) = IF e \in S THEN Cardinality(S) - 1 ELSE Cardinality(S)
  BY Counting, FS_AddElement, FS_RemoveElement

\* The numbers of CoversUse.
LEMMA Numbers ==
  ASSUME TableInv
  PROVE  /\ \A i : Cardinality(Resting(i)) \in Nat /\ Cardinality(Holding(i)) \in Nat
         /\ \A u : Cardinality(Uncounted(u)) \in Nat
         /\ \A i \in rows : lessons[i].owner \in Users /\ access_count[i] \in Nat
         /\ \A u \in Users : plannings[u] \in Nat
<1>1. ASSUME NEW i PROVE Cardinality(Resting(i)) \in Nat /\ Cardinality(Holding(i)) \in Nat
  BY Counting DEF Resting, Holding
<1>2. ASSUME NEW u PROVE Cardinality(Uncounted(u)) \in Nat
  BY Counting DEF Uncounted
<1>3. \A i \in rows : lessons[i].owner \in Users /\ access_count[i] \in Nat
  <2> SUFFICES ASSUME NEW i \in rows
               PROVE  lessons[i].owner \in Users /\ access_count[i] \in Nat
    OBVIOUS
  <2>1. i \in DOMAIN lessons
    BY DEF TableInv, TypeOK
  <2>2. lessons[i] \in [owner : Users, source : Runs]
    <3>1. lessons \in Seq([owner : Users, source : Runs])
      BY DEF TableInv, TypeOK
    <3>2. i \in 1..Len(lessons)
      BY <2>1, <3>1, LenProperties
    <3> QED
      BY <3>1, <3>2, ElementOfSeq
  <2> QED
    BY <2>1, <2>2 DEF TableInv, TypeOK
<1> QED
  BY <1>1, <1>2, <1>3 DEF TableInv, TypeOK

\* Fewer users of a row and fewer jobs to come, with the same counts.
LEMMA NotCounted ==
  ASSUME TableInv, CountInv, [Next]_vars,
         UNCHANGED access_count, UNCHANGED plannings, rows' \subseteq rows,
         \A i \in rows : Resting(i)' \subseteq Resting(i) /\ Holding(i)' \subseteq Holding(i),
         \A u \in Users : Uncounted(u)' \subseteq Uncounted(u)
  PROVE  CountInv'
<1>1. ASSUME NEW u \in Users
      PROVE  /\ Cardinality(Uncounted(u)') <= Cardinality(Uncounted(u))
             /\ Cardinality(Uncounted(u)') \in Nat /\ Cardinality(Uncounted(u)) \in Nat
             /\ plannings[u] \in Nat /\ Cardinality(Uncounted(u)) <= plannings[u]
  <2>1. Uncounted(u) \subseteq Slots
    BY DEF Uncounted
  <2> QED
    BY <2>1, Counting, Numbers DEF CountInv
<1>2. ASSUME NEW i \in rows' PROVE CoversUse(i)'
  <2>1. i \in rows /\ lessons'[i] = lessons[i]
    BY <1>2, LessonsStay DEF TableInv, TypeOK
  <2>2. lessons[i].owner \in Users /\ access_count[i] \in Nat
    BY <2>1, Numbers
  <2>3. /\ Cardinality(Resting(i)') <= Cardinality(Resting(i)) /\ Cardinality(Resting(i)') \in Nat
        /\ Cardinality(Holding(i)') <= Cardinality(Holding(i)) /\ Cardinality(Holding(i)') \in Nat
        /\ Cardinality(Resting(i)) \in Nat /\ Cardinality(Holding(i)) \in Nat
    <3>1. Resting(i) \subseteq Runs /\ Holding(i) \subseteq Slots
      BY DEF Resting, Holding
    <3> QED
      BY <2>1, <3>1, Counting
  <2>4. CoversUse(i)
    BY <2>1 DEF CountInv
  <2> QED
    BY <1>1, <2>1, <2>2, <2>3, <2>4 DEF CoversUse
<1> QED
  BY <1>1, <1>2 DEF CountInv

\* A job that touches its rows counts those it then holds, and has counted.
LEMMA TouchCounts ==
  ASSUME TableInv, ScopeInv, CountInv, [Next]_vars, NEW s \in Slots, Touch(s)
  PROVE  CountInv'
<1> DEFINE v == UserOf[driven[s]]
<1>0. at' = [at EXCEPT ![s] = "plan"] /\ at[s] = "touch" /\ UNCHANGED <<driven, found, plannings, rows, lessons, memory_ids_used>>
  BY DEF Touch, threads, history
<1>1. ASSUME NEW u \in Users
      PROVE  /\ Cardinality(Uncounted(u)') = IF u = v THEN Cardinality(Uncounted(u)) - 1
                                            ELSE Cardinality(Uncounted(u))
             /\ Cardinality(Uncounted(u)) \in Nat /\ plannings[u] \in Nat
             /\ Cardinality(Uncounted(u)) <= plannings[u]
  <2>1. Uncounted(u)' = Uncounted(u) \ {s} /\ Uncounted(u) \subseteq Slots
    BY <1>0 DEF Uncounted, TableInv, TypeOK
  <2>2. s \in Uncounted(u) <=> u = v
    BY <1>0 DEF Uncounted
  <2> QED
    BY <2>1, <2>2, OneMore, Numbers DEF CountInv
<1>2. ASSUME NEW i \in rows PROVE CoversUse(i)'
  <2>1. CoversUse(i)
    BY DEF CountInv
  <2>2. /\ Resting(i)' = Resting(i)
        /\ Holding(i)' = (IF i \in found[s] THEN Holding(i) \cup {s} ELSE Holding(i))
    BY <1>0 DEF Resting, Holding, TableInv, TypeOK
  <2>3. s \notin Holding(i) /\ Holding(i) \subseteq Slots
    BY <1>0 DEF Holding
  <2>4. Cardinality(Holding(i)') = Cardinality(Holding(i)) + (IF i \in found[s] THEN 1 ELSE 0)
    BY <2>2, <2>3, OneMore, Numbers
  <2>5. access_count'[i] = access_count[i] + (IF i \in found[s] THEN 1 ELSE 0)
    BY DEF Touch, Touched, Bump, TableInv, TypeOK
  <2>6. i \in found[s] => lessons[i].owner = v
    BY <1>0 DEF ScopeInv, Scoped
  <2>7. /\ Cardinality(Resting(i)) \in Nat /\ Cardinality(Holding(i)) \in Nat
        /\ lessons[i].owner \in Users /\ access_count[i] \in Nat
    BY Numbers
  <2> PICK o \in Users : o = lessons[i].owner
    BY <2>7
  <2>8. /\ Cardinality(Uncounted(o)') <= Cardinality(Uncounted(o))
        /\ i \in found[s] => Cardinality(Uncounted(o)') = Cardinality(Uncounted(o)) - 1
        /\ Cardinality(Uncounted(o)) \in Nat /\ Cardinality(Uncounted(o)') \in Int
        /\ plannings[o] \in Nat
    BY <1>1, <2>6, <2>7
  <2>9. CoversUse(i)' <=>
           /\ Cardinality(Resting(i)) + Cardinality(Holding(i)') <= access_count'[i]
           /\ access_count'[i] + Cardinality(Uncounted(o)') <= plannings[o]
    BY <1>0, <2>2 DEF CoversUse
  <2>10. /\ Cardinality(Resting(i)) + Cardinality(Holding(i)) <= access_count[i]
         /\ access_count[i] + Cardinality(Uncounted(o)) <= plannings[o]
    BY <2>1 DEF CoversUse
  <2>11. CASE i \in found[s]
    BY <2>4, <2>5, <2>7, <2>8, <2>9, <2>10, <2>11
  <2>12. CASE i \notin found[s]
    BY <2>4, <2>5, <2>7, <2>8, <2>9, <2>10, <2>12
  <2> QED
    BY <2>11, <2>12
<1> QED
  <2>1. \A u \in Users : Cardinality(Uncounted(u)') <= plannings[u]
    BY <1>1
  <2> QED
    BY <1>0, <1>2, <2>1 DEF CountInv

\* A plan that commits on a row was held by its job.
LEMMA CommitCounts ==
  ASSUME TableInv, CountInv, [Next]_vars, NEW s \in Slots, CommitPlan(s)
  PROVE  CountInv'
<1>0. /\ at' = [at EXCEPT ![s] = "work"] /\ found' = [found EXCEPT ![s] = {}] /\ at[s] = "plan"
      /\ UNCHANGED <<driven, plannings, rows, lessons, access_count>>
  BY DEF CommitPlan, table, history
<1>1. PICK ids \in {found[s], {}} : memory_ids_used' = [memory_ids_used EXCEPT ![driven[s]] = ids]
  BY DEF CommitPlan
<1>2. ASSUME NEW u \in Users PROVE Uncounted(u)' = Uncounted(u)
  BY <1>0 DEF Uncounted, TableInv, TypeOK
<1>3. ASSUME NEW i \in rows PROVE CoversUse(i)'
  <2>1. CoversUse(i)
    BY DEF CountInv
  <2>2. Holding(i)' = Holding(i) \ {s} /\ (i \in found[s] => s \in Holding(i))
    BY <1>0 DEF Holding, TableInv, TypeOK
  <2>3. Resting(i)' \subseteq Resting(i) \cup (IF i \in found[s] THEN {driven[s]} ELSE {})
    BY <1>1 DEF Resting, TableInv, TypeOK
  <2>4. Resting(i) \subseteq Runs /\ Holding(i) \subseteq Slots /\ driven[s] \in Runs
    BY <1>0, Drives DEF Resting, Holding
  <2>5. /\ Cardinality(Resting(i)) \in Nat /\ Cardinality(Holding(i)) \in Nat
        /\ lessons[i].owner \in Users /\ access_count[i] \in Nat
    BY Numbers
  <2>6. CASE i \in found[s]
    <3>1. Cardinality(Holding(i)') = Cardinality(Holding(i)) - 1
      BY <2>2, <2>4, <2>6, OneMore
    <3>2. /\ Cardinality(Resting(i)') \in Nat
          /\ Cardinality(Resting(i)') <= Cardinality(Resting(i)) + 1
      <4>1. Resting(i) \cup {driven[s]} \subseteq Runs /\ Resting(i)' \subseteq Resting(i) \cup {driven[s]}
        BY <2>3, <2>4, <2>6
      <4>2. Cardinality(Resting(i) \cup {driven[s]}) <= Cardinality(Resting(i)) + 1
        <5>1. Cardinality(Resting(i) \cup {driven[s]})
                = IF driven[s] \in Resting(i) THEN Cardinality(Resting(i)) ELSE Cardinality(Resting(i)) + 1
          BY <2>4, OneMore
        <5> QED
          BY <2>5, <5>1
      <4>3. /\ Cardinality(Resting(i)') \in Nat
            /\ Cardinality(Resting(i)') <= Cardinality(Resting(i) \cup {driven[s]})
            /\ Cardinality(Resting(i) \cup {driven[s]}) \in Nat
        BY <4>1, Counting
      <4> QED
        BY <2>5, <4>2, <4>3
    <3> QED
      BY <1>0, <1>2, <2>1, <2>5, <3>1, <3>2 DEF CoversUse
  <2>7. CASE i \notin found[s]
    <3>1. Resting(i)' \subseteq Resting(i) /\ Holding(i)' \subseteq Holding(i)
      BY <2>2, <2>3, <2>7
    <3>2. /\ Cardinality(Resting(i)') \in Nat /\ Cardinality(Resting(i)') <= Cardinality(Resting(i))
          /\ Cardinality(Holding(i)') \in Nat /\ Cardinality(Holding(i)') <= Cardinality(Holding(i))
      BY <2>4, <3>1, Counting
    <3> QED
      BY <1>0, <1>2, <2>1, <2>5, <3>2 DEF CoversUse
  <2> QED
    BY <2>6, <2>7
<1> QED
  BY <1>0, <1>2, <1>3 DEF CountInv

\* Nobody holds a row or rests on it when it is inserted.
LEMMA InsertCounts ==
  ASSUME TableInv, CountInv, [Next]_vars, NEW s \in Slots, Insert(s)
  PROVE  CountInv'
<1>0. /\ at' = [at EXCEPT ![s] = "commit"] /\ at[s] = "work"
      /\ UNCHANGED <<driven, found, plannings, memory_ids_used>>
  BY DEF Insert, threads, history
<1>1. ASSUME NEW u \in Users PROVE Uncounted(u)' = Uncounted(u)
  BY <1>0 DEF Uncounted, TableInv, TypeOK
<1>2. ASSUME NEW i PROVE Resting(i)' = Resting(i) /\ Holding(i)' = Holding(i)
  BY <1>0 DEF Resting, Holding, TableInv, TypeOK
<1>3. [owner |-> UserOf[driven[s]], source |-> driven[s]] \in [owner : Users, source : Runs]
  BY <1>0, Drives
<1>4. ASSUME NEW i \in rows PROVE CoversUse(i)'
  <2>1. CoversUse(i) /\ i \in DOMAIN lessons /\ lessons[i].owner \in Users
    BY Numbers DEF CountInv, TableInv, TypeOK
  <2>2. access_count'[i] = access_count[i]
    BY <2>1, InsertedLast DEF Insert, TableInv, TypeOK
  <2>3. lessons'[i] = lessons[i]
    BY <2>1, LessonsStay
  <2> QED
    BY <1>0, <1>1, <1>2, <2>1, <2>2, <2>3 DEF CoversUse
<1>5. ASSUME NEW i \in rows' \ rows PROVE CoversUse(i)'
  <2>1. i = Len(lessons) + 1 /\ i \notin DOMAIN lessons /\ lessons'[i].owner = UserOf[driven[s]]
    BY <1>3, <1>5, InsertedLast DEF Insert, TableInv, TypeOK
  <2>2. access_count'[i] = 0
    BY <2>1, InsertedLast DEF Insert, TableInv
  <2>3. Holding(i) = {} /\ Resting(i) = {}
    BY <2>1 DEF Holding, Resting, TableInv, TypeOK
  <2>4. PICK o \in Users : o = UserOf[driven[s]]
    BY <1>0, Drives
  <2>5. /\ Cardinality(Uncounted(o)') <= plannings'[o]
        /\ Cardinality(Uncounted(o)') \in Nat /\ plannings'[o] \in Nat
    BY <1>0, <1>1, Numbers DEF CountInv
  <2> QED
    <3>1. Cardinality(Resting(i)') = 0 /\ Cardinality(Holding(i)') = 0
      BY <1>2, <2>3, FS_EmptySet
    <3>2. lessons'[i].owner = o
      BY <2>1, <2>4
    <3>3. CoversUse(i)' <=>
             /\ Cardinality(Resting(i)') + Cardinality(Holding(i)') <= access_count'[i]
             /\ access_count'[i] + Cardinality(Uncounted(o)') <= plannings'[o]
      BY <3>2 DEF CoversUse
    <3> QED
      BY <2>2, <2>5, <3>1, <3>3
<1> QED
  BY <1>0, <1>1, <1>4, <1>5 DEF CountInv

\* A job that begins with the planning has still to count.
LEMMA DeliverCounts ==
  ASSUME TableInv, CountInv, [Next]_vars, NEW s \in Slots, NEW p \in Runs, Deliver(s, p)
  PROVE  CountInv'
<1>0. /\ at' = [at EXCEPT ![s] = checkpoint[p]] /\ driven' = [driven EXCEPT ![s] = p]
      /\ at[s] = "idle" /\ checkpoint[p] \in {"search", "work"} /\ UserOf[p] \in Users
      /\ UNCHANGED <<rows, lessons, access_count, found, memory_ids_used>>
  BY MemoryAssumption DEF Deliver, GoesOn, table, threads, TableInv, TypeOK
<1>1. ASSUME NEW u \in Users
      PROVE  \/ Uncounted(u)' = Uncounted(u) /\ plannings'[u] = plannings[u]
             \/ Uncounted(u)' = Uncounted(u) \cup {s} /\ plannings'[u] = plannings[u] + 1
  <2>1. CASE checkpoint[p] = "search" /\ UserOf[p] = u
    BY <1>0, <2>1 DEF Uncounted, Deliver, TableInv, TypeOK
  <2>2. CASE ~(checkpoint[p] = "search" /\ UserOf[p] = u)
    BY <1>0, <2>2 DEF Uncounted, Deliver, TableInv, TypeOK
  <2> QED
    BY <2>1, <2>2
<1>2. ASSUME NEW u \in Users
      PROVE  /\ plannings[u] \in Nat /\ plannings'[u] \in Nat
             /\ Cardinality(Uncounted(u)) \in Nat /\ Cardinality(Uncounted(u)') \in Nat
             /\ Cardinality(Uncounted(u)') + plannings[u] <= Cardinality(Uncounted(u)) + plannings'[u]
             /\ Cardinality(Uncounted(u)) <= plannings[u]
  <2>1. Uncounted(u) \subseteq Slots
    BY DEF Uncounted
  <2>2. /\ plannings[u] \in Nat /\ Cardinality(Uncounted(u)) \in Nat
        /\ Cardinality(Uncounted(u)) <= plannings[u]
    BY Numbers DEF CountInv
  <2>3. /\ Cardinality(Uncounted(u) \cup {s}) \in Nat
        /\ Cardinality(Uncounted(u) \cup {s}) <= Cardinality(Uncounted(u)) + 1
    <3>1. Cardinality(Uncounted(u) \cup {s})
            = IF s \in Uncounted(u) THEN Cardinality(Uncounted(u)) ELSE Cardinality(Uncounted(u)) + 1
      BY <2>1, OneMore
    <3> QED
      BY <2>2, <3>1
  <2> QED
    BY <1>1, <2>2, <2>3
<1>3. ASSUME NEW i \in rows PROVE CoversUse(i)'
  <2>1. CoversUse(i) /\ lessons[i].owner \in Users /\ access_count[i] \in Nat
    BY Numbers DEF CountInv
  <2>2. Resting(i)' = Resting(i) /\ Holding(i)' = Holding(i)
    BY <1>0 DEF Resting, Holding, TableInv, TypeOK
  <2> QED
    BY <1>0, <1>2, <2>1, <2>2 DEF CoversUse
<1> QED
  <2>1. \A u \in Users : Cardinality(Uncounted(u)') <= plannings'[u]
    BY <1>2
  <2> QED
    BY <1>0, <1>3, <2>1 DEF CountInv

LEMMA CountStep == TableInv /\ ScopeInv /\ CountInv /\ [Next]_vars => CountInv'
<1> SUFFICES ASSUME TableInv, ScopeInv, CountInv, [Next]_vars PROVE CountInv'
  OBVIOUS
<1>1. ASSUME NEW s \in Slots, Search(s) PROVE CountInv'
  <2>1. /\ UNCHANGED <<access_count, plannings, rows, memory_ids_used, driven>>
        /\ at[s] = "search" /\ at' \in {[at EXCEPT ![s] = "plan"], [at EXCEPT ![s] = "touch"]}
    BY <1>1 DEF Search, table, threads, history
  <2>2. at'[s] = "plan" => found'[s] = {}
    BY <1>1 DEF Search, TableInv, TypeOK
  <2>3. \A q \in Slots : q # s => at'[q] = at[q] /\ found'[q] = found[q]
    BY <1>1, <2>1 DEF Search, TableInv, TypeOK
  <2>4. \A i \in rows : Resting(i)' \subseteq Resting(i) /\ Holding(i)' \subseteq Holding(i)
    BY <2>1, <2>2, <2>3 DEF Resting, Holding
  <2>5. \A u \in Users : Uncounted(u)' \subseteq Uncounted(u)
    BY <2>1, <2>3 DEF Uncounted
  <2> QED
    BY <2>1, <2>4, <2>5, NotCounted
<1>2. ASSUME NEW s \in Slots, Leave(s) \/ NoLesson(s) \/ CommitAnswer(s) PROVE CountInv'
  <2>1. /\ UNCHANGED <<access_count, plannings, rows, memory_ids_used>>
        /\ at'[s] \in {"idle", "commit"}
        /\ \A q \in Slots : q # s => at'[q] = at[q] /\ found'[q] = found[q] /\ driven'[q] = driven[q]
    BY <1>2 DEF Leave, NoLesson, CommitAnswer, Free, table, threads, history, TableInv, TypeOK
  <2>2. \A i \in rows : Resting(i)' \subseteq Resting(i) /\ Holding(i)' \subseteq Holding(i)
    BY <2>1 DEF Resting, Holding
  <2>3. \A u \in Users : Uncounted(u)' \subseteq Uncounted(u)
    BY <2>1 DEF Uncounted
  <2> QED
    BY <2>1, <2>2, <2>3, NotCounted
<1>3. ASSUME UNCHANGED <<access_count, plannings, jobs, threads>>, rows' \subseteq rows
      PROVE  CountInv'
  BY <1>3, NotCounted DEF jobs, threads, Resting, Holding, Uncounted
<1>4. ASSUME NEW u \in Users, Erase(u) PROVE CountInv'
  BY <1>3, <1>4 DEF Erase
<1>5. CASE UNCHANGED vars
  BY <1>3, <1>5 DEF vars, table, history
<1> QED
  BY <1>1, <1>2, <1>4, <1>5, TouchCounts, CommitCounts, InsertCounts, DeliverCounts
     DEF Next, Step, Quiet

\* access_count covers every use of a row that is still there, and no more is
\* counted than jobs have begun to plan for its user.
THEOREM CountsCover == Spec => []CountsCoverUse
<1>1. Init => CountInv
  <2> SUFFICES ASSUME Init PROVE CountInv
    OBVIOUS
  <2>1. \A u \in Users : Uncounted(u) = {} /\ plannings[u] = 0
    BY DEF Init, Uncounted
  <2>2. \A u \in Users : Cardinality(Uncounted(u)) <= plannings[u]
    BY <2>1, FS_EmptySet
  <2> QED
    BY <2>2 DEF CountInv, Init
<1>2. TableInv /\ CountInv => CountsCoverUse
  <2> SUFFICES ASSUME TableInv, CountInv, NEW i \in rows
               PROVE  /\ Cardinality(Resting(i)) + Cardinality(Holding(i)) <= access_count[i]
                      /\ access_count[i] <= plannings[lessons[i].owner]
    BY DEF CountsCoverUse, Resting, Holding
  <2>1. CoversUse(i)
    BY DEF CountInv
  <2> QED
    BY <2>1, Numbers DEF CoversUse
<1> QED
  BY <1>1, <1>2, ScopeInit, TableAlways, ScopeStep, CountStep, PTL DEF Spec
==============================================================================

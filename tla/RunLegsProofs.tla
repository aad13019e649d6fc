----------------------------- MODULE RunLegsProofs -----------------------------
(***************************************************************************)
(* What holds of the legs of a run for any number of branches and tools, any *)
(* limits and windows, and however often a worker dies or an insert fails:   *)
(* the rate limit, the audit and the totals.                               *)
(***************************************************************************)
EXTENDS RunLegs, SequenceTheorems, FiniteSetTheorems, TLAPS

\* The times of a tool's admitted calls, in order; and what is not in the
\* registry's list any more is out of the window.
InOrder(t) ==
    \A i, j \in DOMAIN admitted[t] :
        i <= j => admitted[t][i] <= admitted[t][j] /\ admitted[t][j] <= now
Pruned(t) ==
    /\ usage[t] \subseteq DOMAIN admitted[t]
    /\ RateLimit[t] # 0 =>
           \A i \in DOMAIN admitted[t] \ usage[t] : now - admitted[t][i] >= Window
\* At any time, RateLimit[t] calls reach back over a whole window.
Spread(t) ==
    RateLimit[t] # 0 =>
        \A i \in DOMAIN admitted[t] : i + RateLimit[t] \in DOMAIN admitted[t] =>
            admitted[t][i + RateLimit[t]] - admitted[t][i] >= Window
Windowed(t) == InOrder(t) /\ Pruned(t) /\ Spread(t)
WindowInv == \A t \in Tools : Windowed(t)

\* The calls of a tool that are on the way to their row.
Pending(t) == {b \in Branches : branch[b].at \in {"tool", "log"} /\ branch[b].tool = t}
Missing(t) == called[t] - audit[t] - Cardinality(Pending(t))
Lost == crashes * Cardinality(Branches) + logFailures

\* What a leg has recorded was recorded, and that was paid for.
TotalsInv ==
    /\ recorder <= recorded /\ recorded <= paid
    /\ run.total <= recorded

------------------------------------------------------------------------------
(* The ranges.                                                             *)

LEMMA AddedLast ==
  ASSUME NEW S, NEW s \in Seq(S), NEW e \in S
  PROVE  /\ Append(s, e) \in Seq(S) /\ Len(s) \in Nat
         /\ DOMAIN s = 1..Len(s) /\ DOMAIN Append(s, e) = 1..(Len(s) + 1)
         /\ \A i \in DOMAIN s : Append(s, e)[i] = s[i]
         /\ Append(s, e)[Len(s) + 1] = e
  BY AppendProperties, LenProperties

LEMMA RestIsTyped ==
  /\ AtRest \in BranchRecords /\ AtRest.at = "rest"
  /\ AtRest = [at |-> "rest", tool |-> AtRest.tool, tries |-> 0] /\ AtRest.tool \in Tools
<1>1. (CHOOSE t \in Tools : TRUE) \in Tools
  BY LimitsAssumption
<1> QED
  BY <1>1 DEF AtRest, BranchRecords, Places

LEMMA TypeInit == Init => TypeOK
<1> SUFFICES ASSUME Init PROVE TypeOK
  OBVIOUS
<1> USE LimitsAssumption DEF Init
<1>1. branch \in [Branches -> BranchRecords]
  BY RestIsTyped
<1>2. admitted \in [Tools -> Seq(0..MaxTime)] /\ now \in 0..MaxTime
  BY EmptySeq
<1>3. run \in RunRows
  BY DEF RunRows, Statuses
<1>4. usage \in [Tools -> SUBSET (Nat \ {0})]
  OBVIOUS
<1>5. audit \in [Tools -> Nat] /\ called \in [Tools -> Nat]
  OBVIOUS
<1> QED
  BY <1>1, <1>2, <1>3, <1>4, <1>5 DEF TypeOK

\* What a model call makes of a branch: it never puts it on the way to a row.
ModelStep(b) ==
    \/ \E kind \in {"complete", "structured"} : Ask(b, kind)
    \/ Respond(b) \/ Invalid(b) \/ PostFails(b)

LEMMA ModelMoves ==
  ASSUME TypeOK, NEW b \in Branches, ModelStep(b)
  PROVE  \E new \in BranchRecords :
            branch' = [branch EXCEPT ![b] = new] /\ new.at \notin {"tool", "log"}
<1> DEFINE Becomes(new) ==
             /\ new \in BranchRecords
             /\ branch' = [branch EXCEPT ![b] = new] /\ new.at \notin {"tool", "log"}
<1> SUFFICES \E new : Becomes(new)
  OBVIOUS
<1>0. branch \in [Branches -> BranchRecords] /\ branch[b] \in BranchRecords
  BY DEF TypeOK
<1>1. ASSUME NEW kind \in {"complete", "structured"}, Ask(b, kind) PROVE \E new : Becomes(new)
  <2>1. [at |-> kind, tool |-> AtRest.tool, tries |-> 1] \in BranchRecords
    <3>1. AtRest.tool \in Tools
      BY RestIsTyped
    <3> QED
      BY <3>1 DEF BranchRecords, Places
  <2>2. Becomes([at |-> kind, tool |-> AtRest.tool, tries |-> 1])
    BY <1>1, <2>1 DEF Ask
  <2> QED
    BY <2>2
<1>2. CASE Invalid(b) /\ Repairs(b)
  <2>1. branch' = [branch EXCEPT ![b].tries = @ + 1] /\ branch[b].at = "structured"
    BY <1>2 DEF Invalid, At
  <2> DEFINE new == [at |-> "structured", tool |-> branch[b].tool, tries |-> 2]
  <2>2. [branch[b] EXCEPT !.tries = branch[b].tries + 1] = new /\ new \in BranchRecords
    BY <1>0, <1>2, <2>1 DEF BranchRecords, Places, Repairs
  <2>3. branch' = [branch EXCEPT ![b] = new]
    BY <2>1, <2>2
  <2> QED
    BY <2>2, <2>3
<1>3. CASE Respond(b) \/ PostFails(b) \/ (Invalid(b) /\ ~Repairs(b))
  <2>1. branch' = [branch EXCEPT ![b] = AtRest]
    BY <1>3 DEF Respond, PostFails, Invalid
  <2> QED
    BY <2>1, RestIsTyped
<1> QED
  BY <1>1, <1>2, <1>3 DEF ModelStep

\* What any step makes of a branch.
LEMMA BranchTyped ==
  ASSUME TypeOK, NEW b \in Branches, Step(b)
  PROVE  branch' \in [Branches -> BranchRecords]
<1>0. branch \in [Branches -> BranchRecords] /\ branch[b] \in BranchRecords
  BY DEF TypeOK
<1>1. ASSUME NEW t \in Tools, CallTool(b, t) PROVE branch' \in [Branches -> BranchRecords]
  <2>1. PICK place \in {"tool", "log"} :
           branch' = [branch EXCEPT ![b] = [at |-> place, tool |-> t, tries |-> 0]]
    BY <1>1 DEF CallTool
  <2>2. [at |-> place, tool |-> t, tries |-> 0] \in BranchRecords
    BY DEF BranchRecords, Places
  <2> QED
    BY <1>0, <2>1, <2>2
<1>2. CASE FinishTool(b)
  <2>1. branch' = [branch EXCEPT ![b].at = "log"]
    BY <1>2 DEF FinishTool, AfterTool
  <2>2. [branch[b] EXCEPT !.at = "log"] \in BranchRecords
    BY <1>0 DEF BranchRecords, Places
  <2> QED
    BY <1>0, <2>1, <2>2
<1>3. CASE LogTool(b) \/ LogFails(b)
  <2>1. branch' = [branch EXCEPT ![b] = AtRest] /\ AtRest \in BranchRecords
    BY <1>3, RestIsTyped DEF LogTool, LogFails
  <2> QED
    BY <1>0, <2>1
<1>4. CASE ModelStep(b)
  BY <1>0, <1>4, ModelMoves
<1> QED
  BY <1>1, <1>2, <1>3, <1>4 DEF Step, ModelStep

\* What a step makes of the row of the run.
LEMMA RunTyped == ASSUME TypeOK, [Next]_vars PROVE run' \in RunRows
<1>1. ASSUME NEW s \in Statuses
      PROVE  [run EXCEPT !.status = s] \in RunRows /\ [status |-> s, total |-> recorder] \in RunRows
  BY <1>1 DEF TypeOK, RunRows
<1>2. run.status \in Statuses
  BY DEF TypeOK, RunRows
<1>3. CASE StartLeg
  BY <1>1, <1>3 DEF StartLeg, TypeOK, Statuses
<1>4. CASE Pause \/ Complete
  BY <1>1, <1>4 DEF Pause, Complete, Statuses
<1>5. CASE Raise
  <2>1. PICK s \in {"failed", run.status} : run' = [run EXCEPT !.status = s]
    BY <1>5 DEF Raise
  <2>2. s \in Statuses
    BY <1>2, <2>1 DEF Statuses
  <2> QED
    BY <1>1, <2>1, <2>2
<1>6. CASE run' = run
  BY <1>6 DEF TypeOK
<1>7. \/ StartLeg \/ Pause \/ Complete \/ Raise \/ run' = run
  BY DEF Next, Tick, Crash, Step, CallTool, FinishTool, LogTool, LogFails, Ask, Respond, Invalid,
         PostFails, vars, rows
<1> QED
  BY <1>3, <1>4, <1>5, <1>6, <1>7

LEMMA RespondRecords ==
  ASSUME NEW b \in Branches, Respond(b)
  PROVE  /\ UNCHANGED <<up, usage, rows, now, called, admitted, legs, crashes, logFailures>>
         /\ paid' = paid + 1 /\ recorder' = recorder + 1 /\ recorded' = recorded + 1
  BY DEF Respond, Record

LEMMA TypeStep == TypeOK /\ [Next]_vars => TypeOK'
<1> SUFFICES ASSUME TypeOK, [Next]_vars PROVE TypeOK'
  OBVIOUS
<1>0. run' \in RunRows
  BY RunTyped
<1> USE LimitsAssumption DEF TypeOK, process, rows, world
<1>1. CASE Tick
  BY <1>1 DEF Tick
<1>2. CASE StartLeg
  <2>1. usage' \in [Tools -> SUBSET (Nat \ {0})] /\ admitted' \in [Tools -> Seq(0..MaxTime)]
    BY <1>2, EmptySeq DEF StartLeg, NoUsage
  <2> QED
    BY <1>0, <1>2, <2>1 DEF StartLeg
<1>3. CASE Pause \/ Complete \/ Raise
  <2>1. LegEnds
    BY <1>3 DEF Pause, Complete, Raise
  <2> QED
    BY <1>0, <2>1 DEF LegEnds
<1>4. CASE Crash
  <2>1. branch' \in [Branches -> BranchRecords]
    <3>1. AtRest \in BranchRecords
      BY RestIsTyped
    <3> QED
      BY <1>4, <3>1 DEF Crash
  <2>2. /\ UNCHANGED <<usage, recorder, rows, now, called, admitted, paid, recorded, legs, logFailures>>
        /\ up' \in BOOLEAN /\ crashes' \in Nat
    <3>1. up' \in BOOLEAN
      BY <1>4 DEF Crash
    <3>2. crashes' \in Nat
      BY <1>4 DEF Crash
    <3>3. UNCHANGED <<usage, recorder, rows, now, called, admitted, paid, recorded, legs, logFailures>>
      BY <1>4 DEF Crash
    <3> QED
      BY <3>1, <3>2, <3>3
  <2> QED
    BY <1>0, <2>1, <2>2
<1>5. ASSUME NEW b \in Branches, Step(b) PROVE TypeOK'
  <2>0. branch' \in [Branches -> BranchRecords]
    BY <1>5, BranchTyped
  <2>1. ASSUME NEW t \in Tools, CallTool(b, t) PROVE TypeOK'
    <3>1. admitted' \in [Tools -> Seq(0..MaxTime)]
      BY <2>1, AddedLast DEF CallTool
    <3>2. usage' \in [Tools -> SUBSET (Nat \ {0})]
      <4>1. Len(admitted[t]) + 1 \in Nat \ {0} /\ Fresh(t) \in SUBSET (Nat \ {0})
        BY LenProperties DEF Fresh
      <4> QED
        BY <2>1, <4>1 DEF CallTool
    <3>3. called' \in [Tools -> Nat]
      BY <2>1 DEF CallTool
    <3> QED
      BY <2>0, <2>1, <3>1, <3>2, <3>3 DEF CallTool
  <2>2. CASE FinishTool(b) \/ LogFails(b)
    BY <2>0, <2>2 DEF FinishTool, LogFails
  <2>3. CASE LogTool(b)
    <3>1. branch[b].tool \in Tools
      BY DEF BranchRecords
    <3>2. audit' \in [Tools -> Nat]
      BY <2>3, <3>1 DEF LogTool
    <3> QED
      BY <2>0, <2>3, <3>2 DEF LogTool
  <2>4. ASSUME NEW kind \in {"complete", "structured"}, Ask(b, kind) PROVE TypeOK'
    BY <2>0, <2>4 DEF Ask
  <2>5. CASE Respond(b) \/ Invalid(b) \/ PostFails(b)
    <3>1. /\ UNCHANGED <<up, usage, rows, now, called, admitted, legs, crashes, logFailures>>
          /\ paid' \in Nat /\ recorder' \in Nat /\ recorded' \in Nat
      <4>1. CASE Respond(b)
        BY <4>1, RespondRecords
      <4>2. CASE Invalid(b) \/ PostFails(b)
        BY <4>2 DEF Invalid, PostFails, RecordsNothing
      <4> QED
        BY <2>5, <4>1, <4>2
    <3> QED
      BY <2>0, <3>1
  <2> QED
    BY <1>5, <2>1, <2>2, <2>3, <2>4, <2>5 DEF Step
<1>6. CASE UNCHANGED vars
  BY <1>6 DEF vars
<1> QED
  BY <1>1, <1>2, <1>3, <1>4, <1>5, <1>6 DEF Next

THEOREM LegsTypeCorrect == Spec => []TypeOK
  BY TypeInit, TypeStep, PTL DEF Spec

------------------------------------------------------------------------------
(* The totals.                                                             *)

LEMMA TotalsStep == TypeOK /\ TotalsInv /\ [Next]_vars => TotalsInv'
<1> SUFFICES ASSUME TypeOK, TotalsInv, [Next]_vars PROVE TotalsInv'
  OBVIOUS
<1> USE DEF TypeOK, TotalsInv, process, rows, world
<1>1. CASE Tick \/ Crash
  BY <1>1 DEF Tick, Crash
<1>2. CASE StartLeg
  <2>1. run'.total = run.total
    BY <1>2 DEF StartLeg, RunRows
  <2> QED
    BY <1>2, <2>1 DEF StartLeg
<1>3. CASE Pause \/ Complete \/ Raise
  <2>1. run'.total \in {run.total, recorder}
    BY <1>3 DEF Pause, Complete, Raise, RunRows
  <2> QED
    BY <1>3, <2>1 DEF Pause, Complete, Raise, LegEnds
<1>4. ASSUME NEW b \in Branches, NEW t \in Tools, CallTool(b, t) PROVE TotalsInv'
  BY <1>4 DEF CallTool
<1>5. ASSUME NEW b \in Branches, FinishTool(b) \/ LogTool(b) \/ LogFails(b) PROVE TotalsInv'
  BY <1>5 DEF FinishTool, LogTool, LogFails
<1>6. ASSUME NEW b \in Branches, NEW kind \in {"complete", "structured"}, Ask(b, kind)
      PROVE  TotalsInv'
  BY <1>6 DEF Ask
<1>7. ASSUME NEW b \in Branches, Respond(b) \/ Invalid(b) \/ PostFails(b) PROVE TotalsInv'
  <2>1. CASE Respond(b)
    BY <2>1, RespondRecords DEF RunRows
  <2>2. CASE Invalid(b)
    BY <2>2 DEF Invalid
  <2>3. CASE PostFails(b)
    BY <2>3 DEF PostFails, RecordsNothing
  <2> QED
    BY <1>7, <2>1, <2>2, <2>3
<1>8. CASE UNCHANGED vars
  BY <1>8 DEF vars
<1> QED
  BY <1>1, <1>2, <1>3, <1>4, <1>5, <1>6, <1>7, <1>8 DEF Next, Step

\* The totals of a run never claim more than the models were paid for.
THEOREM RowsNeverOverstate == Spec => []RowNeverOverstates
<1>1. Init => TotalsInv
  BY DEF Init, TotalsInv
<1>2. TotalsInv => RowNeverOverstates
  BY DEF TotalsInv, RowNeverOverstates
<1> QED
  BY <1>1, <1>2, LegsTypeCorrect, TotalsStep, PTL DEF Spec

------------------------------------------------------------------------------
(* The audit.                                                              *)

\* Branches are finitely many, so that they can be counted.
LEMMA BranchSets ==
  ASSUME NEW S \in SUBSET Branches
  PROVE  IsFiniteSet(S) /\ Cardinality(S) \in Nat /\ Cardinality(S) <= Cardinality(Branches)
  BY LimitsAssumption, FS_Subset, FS_CardinalityType

LEMMA OneMoreBranch ==
  ASSUME NEW S \in SUBSET Branches, NEW b \in Branches \ S
  PROVE  Cardinality(S \cup {b}) = Cardinality(S) + 1
  BY BranchSets, FS_AddElement

LEMMA LostIsNat ==
  ASSUME TypeOK
  PROVE  Lost \in Nat /\ Cardinality(Branches) \in Nat
         /\ (crashes + 1) * Cardinality(Branches) = crashes * Cardinality(Branches) + Cardinality(Branches)
<1>1. Cardinality(Branches) \in Nat
  BY BranchSets
<1>2. \A m, n \in Nat : m * n \in Nat /\ (m + 1) * n = m * n + n
  OBVIOUS
<1> QED
  BY <1>1, <1>2 DEF TypeOK, Lost

GapInv == \A t \in Tools : Missing(t) \in 0..Lost

\* One branch of a tool leaves for its row, or for nothing.
LEMMA PendingLeaves ==
  ASSUME TypeOK, NEW b \in Branches, At(b, "log"), NEW t \in Tools,
         branch' = [branch EXCEPT ![b] = AtRest]
  PROVE  /\ Cardinality(Pending(t)) \in Nat /\ Cardinality(Pending(t)') \in Nat
         /\ branch[b].tool = t => Cardinality(Pending(t)) = Cardinality(Pending(t)') + 1
         /\ branch[b].tool # t => Cardinality(Pending(t)') = Cardinality(Pending(t))
<1> USE DEF TypeOK
<1>1. AtRest.at = "rest"
  BY RestIsTyped
<1>2. Pending(t) \subseteq Branches /\ Pending(t)' \subseteq Branches
  BY DEF Pending
<1>3. branch[b].tool = t => Pending(t) = Pending(t)' \cup {b} /\ b \notin Pending(t)'
  BY <1>1 DEF Pending, At
<1>4. branch[b].tool # t => Pending(t)' = Pending(t)
  BY <1>1 DEF Pending, At
<1> QED
  BY <1>2, <1>3, <1>4, BranchSets, OneMoreBranch

LEMMA GapStep == TypeOK /\ GapInv /\ [Next]_vars => GapInv'
<1> SUFFICES ASSUME TypeOK, GapInv, [Next]_vars, NEW t \in Tools
             PROVE  Missing(t)' \in 0..Lost'
  BY DEF GapInv
<1>0. /\ Missing(t) \in 0..Lost /\ called[t] \in Nat /\ audit[t] \in Nat
      /\ crashes \in Nat /\ logFailures \in Nat
  BY DEF GapInv, TypeOK
<1> USE DEF process, rows, world
\* A step that neither calls nor logs.
<1>1. ASSUME UNCHANGED <<called, audit, crashes, logFailures>>, Pending(t)' = Pending(t)
      PROVE  Missing(t)' \in 0..Lost'
  BY <1>0, <1>1 DEF Missing, Lost
<1>2. CASE Tick \/ StartLeg \/ Pause \/ Complete \/ Raise \/ UNCHANGED vars
  <2>1. UNCHANGED <<called, audit, crashes, logFailures, branch>>
    BY <1>2 DEF Tick, StartLeg, Pause, Complete, Raise, LegEnds, vars
  <2> QED
    BY <1>1, <2>1 DEF Pending
<1>3. CASE Crash
  <2>1. UNCHANGED <<called, audit, logFailures>> /\ crashes' = crashes + 1
        /\ branch' = [b \in Branches |-> AtRest]
    BY <1>3 DEF Crash
  <2>2. Pending(t)' = {}
    BY <2>1, RestIsTyped DEF Pending
  <2>3. Cardinality(Pending(t)') = 0
    BY <2>2, FS_EmptySet
  <2>4. Cardinality(Pending(t)) \in Nat /\ Cardinality(Pending(t)) <= Cardinality(Branches)
    BY BranchSets DEF Pending
  <2>5. Lost' = Lost + Cardinality(Branches) /\ Lost \in Nat /\ Cardinality(Branches) \in Nat
    <3>1. /\ crashes * Cardinality(Branches) \in Nat /\ Cardinality(Branches) \in Nat
          /\ (crashes + 1) * Cardinality(Branches) = crashes * Cardinality(Branches) + Cardinality(Branches)
      BY <1>0, LostIsNat
    <3> QED
      BY <1>0, <2>1, <3>1, LostIsNat DEF Lost
  <2>6. Missing(t)' = Missing(t) + Cardinality(Pending(t))
    BY <1>0, <2>1, <2>3, <2>4 DEF Missing
  <2> QED
    BY <1>0, <2>4, <2>5, <2>6
<1>4. ASSUME NEW b \in Branches, Step(b) PROVE Missing(t)' \in 0..Lost'
  <2>1. ASSUME NEW u \in Tools, CallTool(b, u) PROVE Missing(t)' \in 0..Lost'
    <3>1. UNCHANGED <<audit, crashes, logFailures>> /\ called' = [called EXCEPT ![u] = @ + 1]
      BY <2>1 DEF CallTool
    <3>2. PICK place \in {"tool", "log"} :
             branch' = [branch EXCEPT ![b] = [at |-> place, tool |-> u, tries |-> 0]]
      BY <2>1 DEF CallTool
    <3>3. branch[b].at = "rest" /\ branch \in [Branches -> BranchRecords]
      BY <2>1 DEF CallTool, At, TypeOK
    <3>4. CASE u = t
      <4>1. Pending(t)' = Pending(t) \cup {b} /\ b \notin Pending(t)
        BY <3>2, <3>3, <3>4 DEF Pending
      <4>2. Cardinality(Pending(t)') = Cardinality(Pending(t)) + 1 /\ Cardinality(Pending(t)) \in Nat
        BY <4>1, OneMoreBranch, BranchSets DEF Pending
      <4>3. called'[t] = called[t] + 1
        BY <3>1, <3>4 DEF TypeOK
      <4> QED
        BY <1>0, <3>1, <4>2, <4>3 DEF Missing, Lost
    <3>5. CASE u # t
      <4>1. Pending(t)' = Pending(t)
        BY <3>2, <3>3, <3>5 DEF Pending
      <4>2. called'[t] = called[t]
        BY <3>1, <3>5 DEF TypeOK
      <4> QED
        BY <1>0, <3>1, <4>1, <4>2 DEF Missing, Lost
    <3> QED
      BY <3>4, <3>5
  <2>2. CASE FinishTool(b)
    <3>1. UNCHANGED <<called, audit, crashes, logFailures>>
          /\ branch' = [branch EXCEPT ![b].at = "log"] /\ branch[b].at = "tool"
      BY <2>2 DEF FinishTool, AfterTool, At
    <3>2. Pending(t)' = Pending(t)
      BY <3>1 DEF Pending, TypeOK, BranchRecords
    <3> QED
      BY <1>1, <3>1, <3>2
  <2>3. CASE LogTool(b)
    <3>1. UNCHANGED <<called, crashes, logFailures>> /\ At(b, "log")
          /\ audit' = [audit EXCEPT ![branch[b].tool] = @ + 1]
          /\ branch' = [branch EXCEPT ![b] = AtRest]
      BY <2>3 DEF LogTool
    <3>2. /\ Cardinality(Pending(t)) \in Nat /\ Cardinality(Pending(t)') \in Nat
          /\ branch[b].tool = t => Cardinality(Pending(t)) = Cardinality(Pending(t)') + 1
          /\ branch[b].tool # t => Cardinality(Pending(t)') = Cardinality(Pending(t))
      BY <3>1, PendingLeaves
    <3>3. /\ branch[b].tool = t => audit'[t] = audit[t] + 1
          /\ branch[b].tool # t => audit'[t] = audit[t]
      BY <3>1 DEF TypeOK
    <3> QED
      BY <1>0, <3>1, <3>2, <3>3 DEF Missing, Lost
  <2>4. CASE LogFails(b)
    <3>1. UNCHANGED <<called, audit, crashes>> /\ At(b, "log")
          /\ logFailures' = logFailures + 1 /\ branch' = [branch EXCEPT ![b] = AtRest]
      BY <2>4 DEF LogFails
    <3>2. /\ Cardinality(Pending(t)) \in Nat /\ Cardinality(Pending(t)') \in Nat
          /\ branch[b].tool = t => Cardinality(Pending(t)) = Cardinality(Pending(t)') + 1
          /\ branch[b].tool # t => Cardinality(Pending(t)') = Cardinality(Pending(t))
      BY <3>1, PendingLeaves
    <3>3. Lost' = Lost + 1 /\ Lost \in Nat
      <4>1. crashes * Cardinality(Branches) \in Nat
        BY <1>0, LostIsNat
      <4> QED
        BY <1>0, <3>1, <4>1 DEF Lost
    <3> QED
      BY <1>0, <3>1, <3>2, <3>3 DEF Missing
  <2>5. CASE ModelStep(b)
    <3>1. UNCHANGED <<called, audit, crashes, logFailures>> /\ branch[b].at \notin {"tool", "log"}
      BY <2>5 DEF ModelStep, Ask, Respond, Record, Invalid, PostFails, Asking, At
    <3>2. PICK new \in BranchRecords : branch' = [branch EXCEPT ![b] = new] /\ new.at \notin {"tool", "log"}
      BY <2>5, ModelMoves
    <3>3. Pending(t)' = Pending(t)
      BY <3>1, <3>2 DEF Pending, TypeOK
    <3> QED
      BY <1>1, <3>1, <3>3
  <2> QED
    BY <1>4, <2>1, <2>2, <2>3, <2>4, <2>5 DEF Step, ModelStep
<1> QED
  BY <1>2, <1>3, <1>4 DEF Next

\* A call loses its row to a crash or a failing insert only, one a branch.
THEOREM AuditGapBounded == Spec => []AuditGap
<1>1. Init => GapInv
  <2> SUFFICES ASSUME Init, NEW t \in Tools PROVE Missing(t) \in 0..Lost
    BY DEF GapInv
  <2>1. Pending(t) = {}
    BY RestIsTyped DEF Init, Pending
  <2>2. Missing(t) = 0
    BY <2>1, FS_EmptySet DEF Init, Missing
  <2> QED
    BY <2>2, TypeInit, LostIsNat
<1>2. GapInv => AuditGap
  BY DEF GapInv, Missing, Lost, Pending, AuditGap
<1> QED
  BY <1>1, <1>2, LegsTypeCorrect, GapStep, PTL DEF Spec

------------------------------------------------------------------------------
(* The rate limit.                                                         *)

\* What the registry still knows of is what the whole history says.
LEMMA FreshIsExact ==
  ASSUME TypeOK, NEW t \in Tools, RateLimit[t] # 0, Pruned(t)
  PROVE  Fresh(t) = {i \in DOMAIN admitted[t] : now - admitted[t][i] < Window}
<1>1. ASSUME NEW i \in DOMAIN admitted[t]
      PROVE  now - admitted[t][i] < Window <=> ~(now - admitted[t][i] >= Window)
  BY LenProperties, LimitsAssumption DEF TypeOK
<1> QED
  BY <1>1 DEF Fresh, Pruned

\* The calls since a recent one are all recent: below the limit there are fewer
\* than RateLimit[t] of them.
LEMMA BelowLimitIsSpread ==
  ASSUME TypeOK, NEW t \in Tools, RateLimit[t] # 0, InOrder(t), Pruned(t), BelowLimit(t),
         NEW i \in DOMAIN admitted[t], i + RateLimit[t] = Len(admitted[t]) + 1
  PROVE  now - admitted[t][i] >= Window
<1> DEFINE n == Len(admitted[t])
<1>1. /\ n \in Nat /\ DOMAIN admitted[t] = 1..n /\ RateLimit[t] \in Nat
      /\ \A j \in 1..n : admitted[t][j] \in Nat
      /\ now \in Nat /\ Window \in Nat
  BY LenProperties, LimitsAssumption DEF TypeOK
<1> SUFFICES ASSUME now - admitted[t][i] < Window PROVE FALSE
  BY <1>1
<1> HIDE DEF n
<1>2. i..n \subseteq Fresh(t)
  <2> SUFFICES ASSUME NEW j \in i..n PROVE j \in Fresh(t)
    OBVIOUS
  <2>1. j \in 1..n /\ i <= j
    BY <1>1
  <2>2. admitted[t][i] <= admitted[t][j]
    BY <1>1, <2>1 DEF InOrder
  <2>3. now - admitted[t][j] < Window
    BY <1>1, <2>1, <2>2
  <2> QED
    BY <1>1, <2>1, <2>3, FreshIsExact
<1>3. IsFiniteSet(Fresh(t))
  <2>1. 1 \in Int /\ n \in Int
    BY <1>1
  <2>2. IsFiniteSet(1..n)
    BY <2>1, FS_Interval
  <2>3. Fresh(t) \subseteq 1..n
    BY <1>1 DEF Fresh, Pruned
  <2> QED
    BY <2>2, <2>3, FS_Subset
<1>4. Cardinality(i..n) <= Cardinality(Fresh(t)) /\ Cardinality(Fresh(t)) \in Nat
  BY <1>2, <1>3, FS_Subset, FS_CardinalityType
<1>5. Cardinality(i..n) = RateLimit[t]
  <2>1. i \in Int /\ n \in Int /\ i <= n /\ n - i + 1 = RateLimit[t]
    <3>1. i + RateLimit[t] = n + 1
      BY DEF n
    <3> QED
      BY <1>1, <3>1
  <2>2. Cardinality(i..n) = IF i > n THEN 0 ELSE n - i + 1
    BY <2>1, FS_Interval
  <2> QED
    BY <2>1, <2>2
<1> QED
  BY <1>1, <1>4, <1>5 DEF BelowLimit

\* An admitted call keeps what is known of its tool's window.
LEMMA AdmitKeeps ==
  ASSUME TypeOK, NEW t \in Tools, Windowed(t), now' = now,
         admitted'[t] = Append(admitted[t], now),
         RateLimit[t] # 0 => BelowLimit(t),
         IF RateLimit[t] = 0 THEN usage'[t] = usage[t]
         ELSE usage'[t] = Fresh(t) \cup {Len(admitted[t]) + 1}
  PROVE  Windowed(t)'
<1> DEFINE n == Len(admitted[t])
<1>1. /\ n \in Nat /\ DOMAIN admitted[t] = 1..n /\ DOMAIN admitted'[t] = 1..(n + 1)
      /\ \A j \in 1..n : admitted'[t][j] = admitted[t][j]
      /\ admitted'[t][n + 1] = now
  <2>1. admitted[t] \in Seq(0..MaxTime) /\ now \in 0..MaxTime
    BY DEF TypeOK
  <2> QED
    BY <2>1, AddedLast
<1>2. /\ \A j \in 1..n : admitted[t][j] \in Nat
      /\ now \in Nat /\ RateLimit[t] \in Nat /\ Window \in Nat
  BY LenProperties, LimitsAssumption DEF TypeOK
<1>3. RateLimit[t] # 0 =>
          \A i \in 1..n : i + RateLimit[t] = n + 1 => now - admitted[t][i] >= Window
  BY <1>1, BelowLimitIsSpread DEF Windowed
<1>4. RateLimit[t] # 0 => Fresh(t) = {i \in 1..n : now - admitted[t][i] < Window}
  BY <1>1, FreshIsExact DEF Windowed
<1> HIDE DEF n
<1>5. InOrder(t)'
  <2> SUFFICES ASSUME NEW i \in 1..(n + 1), NEW j \in 1..(n + 1), i <= j
               PROVE  admitted'[t][i] <= admitted'[t][j] /\ admitted'[t][j] <= now
    BY <1>1 DEF InOrder
  <2>1. \A m \in 1..n : admitted[t][m] <= now
    BY <1>1 DEF Windowed, InOrder
  <2>2. CASE j = n + 1
    BY <1>1, <1>2, <2>1, <2>2
  <2>3. CASE j \in 1..n
    <3>1. i \in 1..n
      BY <1>1, <2>3
    <3> QED
      BY <1>1, <1>2, <2>1, <2>3, <3>1 DEF Windowed, InOrder
  <2> QED
    BY <1>1, <2>2, <2>3
<1>6. Pruned(t)'
  <2>1. CASE RateLimit[t] = 0
    BY <1>1, <2>1 DEF Pruned, Windowed
  <2>2. CASE RateLimit[t] # 0
    <3>1. usage'[t] = {i \in 1..n : now - admitted[t][i] < Window} \cup {n + 1}
      BY <1>4, <2>2 DEF n
    <3>2. usage'[t] \subseteq 1..(n + 1)
      BY <1>1, <3>1
    <3>3. ASSUME NEW i \in 1..(n + 1), i \notin usage'[t]
          PROVE  now - admitted'[t][i] >= Window
      BY <1>1, <1>2, <3>1, <3>3
    <3> QED
      BY <1>1, <3>2, <3>3 DEF Pruned
  <2> QED
    BY <2>1, <2>2
<1>7. Spread(t)'
  <2> SUFFICES ASSUME RateLimit[t] # 0, NEW i \in 1..(n + 1), i + RateLimit[t] \in 1..(n + 1)
               PROVE  admitted'[t][i + RateLimit[t]] - admitted'[t][i] >= Window
    BY <1>1 DEF Spread
  <2>1. i \in 1..n
    BY <1>1, <1>2
  <2>2. CASE i + RateLimit[t] = n + 1
    BY <1>1, <1>3, <2>1, <2>2
  <2>3. CASE i + RateLimit[t] \in 1..n
    BY <1>1, <2>1, <2>3 DEF Windowed, Spread
  <2> QED
    BY <1>1, <2>2, <2>3
<1> QED
  BY <1>5, <1>6, <1>7 DEF Windowed

\* A call that is refused may still prune the list.
LEMMA RefusalKeeps ==
  ASSUME TypeOK, NEW t \in Tools, Windowed(t), now' = now, admitted'[t] = admitted[t],
         usage'[t] = usage[t] \/ (RateLimit[t] # 0 /\ usage'[t] = Fresh(t))
  PROVE  Windowed(t)'
<1>1. InOrder(t)' /\ Spread(t)'
  BY DEF Windowed, InOrder, Spread
<1>2. CASE usage'[t] = usage[t]
  BY <1>1, <1>2 DEF Windowed, Pruned
<1>3. CASE RateLimit[t] # 0 /\ usage'[t] = Fresh(t)
  <2>1. \A i \in DOMAIN admitted[t] :
            now - admitted[t][i] >= Window \/ now - admitted[t][i] < Window
    BY LenProperties, LimitsAssumption DEF TypeOK
  <2>2. Fresh(t) = {i \in DOMAIN admitted[t] : now - admitted[t][i] < Window}
    BY <1>3, FreshIsExact DEF Windowed
  <2>3. Pruned(t)'
    BY <1>3, <2>1, <2>2 DEF Pruned
  <2> QED
    BY <1>1, <2>3 DEF Windowed
<1> QED
  BY <1>2, <1>3

LEMMA WindowStep == TypeOK /\ WindowInv /\ [Next]_vars => WindowInv'
<1> SUFFICES ASSUME TypeOK, WindowInv, [Next]_vars, NEW t \in Tools PROVE Windowed(t)'
  BY DEF WindowInv, Windowed
<1>0. Windowed(t)
  BY DEF WindowInv, Windowed
<1>1. CASE UNCHANGED <<usage, now, admitted>>
  BY <1>0, <1>1 DEF Windowed, InOrder, Pruned, Spread
<1>2. CASE Tick
  <2>1. now' = now + 1 /\ UNCHANGED <<usage, admitted>>
    BY <1>2 DEF Tick, process
  <2>2. now \in Nat /\ Window \in Nat /\ \A i \in DOMAIN admitted[t] : admitted[t][i] \in Nat
    BY LenProperties, LimitsAssumption DEF TypeOK
  <2>3. InOrder(t)' /\ Spread(t)'
    BY <1>0, <2>1, <2>2 DEF Windowed, InOrder, Spread
  <2>4. Pruned(t)'
    BY <1>0, <2>1, <2>2 DEF Windowed, Pruned
  <2> QED
    BY <2>3, <2>4 DEF Windowed
<1>3. CASE StartLeg
  <2>1. usage'[t] = {} /\ admitted'[t] = <<>>
    BY <1>3 DEF StartLeg, NoUsage
  <2> QED
    BY <2>1 DEF Windowed, InOrder, Pruned, Spread
<1>4. ASSUME NEW b \in Branches, NEW u \in Tools, CallTool(b, u) PROVE Windowed(t)'
  <2> DEFINE limited == RateLimit[u] # 0
             admit == b \in Allowed[u] /\ (limited => BelowLimit(u))
  <2>1. /\ usage' = IF ~(b \in Allowed[u]) \/ ~limited THEN usage
                    ELSE [usage EXCEPT ![u] = Fresh(u) \cup IF admit THEN {Len(admitted[u]) + 1} ELSE {}]
        /\ admitted' = IF admit THEN [admitted EXCEPT ![u] = Append(@, now)] ELSE admitted
        /\ now' = now
    BY <1>4 DEF CallTool
  <2>2. /\ usage \in [Tools -> SUBSET (Nat \ {0})] /\ admitted \in [Tools -> Seq(0..MaxTime)]
    BY DEF TypeOK
  <2>3. CASE u # t
    <3>1. usage'[t] = usage[t] /\ admitted'[t] = admitted[t]
      BY <2>1, <2>2, <2>3
    <3> QED
      BY <1>0, <2>1, <3>1, RefusalKeeps
  <2>4. CASE u = t /\ admit
    <3>1. admitted'[t] = Append(admitted[t], now)
      BY <2>1, <2>2, <2>4
    <3>2. IF RateLimit[t] = 0 THEN usage'[t] = usage[t]
          ELSE usage'[t] = Fresh(t) \cup {Len(admitted[t]) + 1}
      BY <2>1, <2>2, <2>4
    <3> QED
      BY <1>0, <2>1, <2>4, <3>1, <3>2, AdmitKeeps
  <2>5. CASE u = t /\ ~admit
    <3>1. admitted'[t] = admitted[t]
      BY <2>1, <2>5
    <3>2. usage'[t] = usage[t] \/ (RateLimit[t] # 0 /\ usage'[t] = Fresh(t))
      BY <2>1, <2>2, <2>5
    <3> QED
      BY <1>0, <2>1, <3>1, <3>2, RefusalKeeps
  <2> QED
    BY <2>3, <2>4, <2>5
<1>5. \/ Tick \/ StartLeg \/ \E b \in Branches, u \in Tools : CallTool(b, u)
      \/ UNCHANGED <<usage, now, admitted>>
  BY DEF Next, Step, Pause, Complete, Raise, LegEnds, Crash, FinishTool, LogTool, LogFails, Ask,
         Respond, Invalid, PostFails, vars, process, world
<1> QED
  BY <1>1, <1>2, <1>3, <1>4, <1>5

\* However the branches of a leg interleave, a limited tool is admitted when, and
\* only when, fewer than its limit were admitted within the window.
THEOREM RateLimitsHold == Spec => []RateLimitHolds
<1>1. Init => WindowInv
  <2> SUFFICES ASSUME Init, NEW t \in Tools PROVE Windowed(t)
    BY DEF WindowInv, Windowed
  <2>1. usage[t] = {} /\ admitted[t] = <<>>
    BY DEF Init
  <2> QED
    BY <2>1 DEF Windowed, InOrder, Pruned, Spread
<1>2. TypeOK /\ WindowInv => RateLimitHolds
  <2> SUFFICES ASSUME TypeOK, WindowInv PROVE RateLimited /\ LimitIsExact
    BY DEF RateLimitHolds
  <2>1. RateLimited
    BY DEF WindowInv, Windowed, Spread, RateLimited
  <2>2. \A t \in Tools : RateLimit[t] # 0 =>
           Fresh(t) = {i \in DOMAIN admitted[t] : now - admitted[t][i] < Window}
    BY FreshIsExact DEF WindowInv, Windowed
  <2>3. LimitIsExact
    BY <2>2 DEF LimitIsExact
  <2> QED
    BY <2>1, <2>3
<1> QED
  BY <1>1, <1>2, LegsTypeCorrect, WindowStep, PTL DEF Spec
==============================================================================

------------------------- MODULE PlanValidationProofs -------------------------
(***************************************************************************)
(* The rounds of _cycles decide acyclicity, for every set of ids and every  *)
(* plan over them.  The argument is RoundsInv: the resolved ids are never   *)
(* entangled, so a plan resolved to the last id is acyclic, and the ids     *)
(* left when no one is ready are a set without a source.                   *)
(***************************************************************************)
EXTENDS PlanValidation, TLAPS

\* Ids, the two sets of the loop and the outcome stay in their ranges.
THEOREM TypeCorrect == Spec => []TypeOK
<1>1. Init => TypeOK
  BY DraftsAssumption DEF Init, TypeOK
<1>2. TypeOK /\ [Next]_vars => TypeOK'
  BY DEF TypeOK, DraftPlans, Next, CheckFields, Waiting, Round, Remaining, Ready, Finish, Done, vars
<1> QED
  BY <1>1, <1>2, PTL DEF Spec

\* Before the loop nothing is resolved.
LEMMA RoundsInit == Init => RoundsInv
  BY DEF Init, RoundsInv

\* Any set with a newly resolved id has a member free of the others: an old
\* resolved id's set has one already, and a new one depends on old ones only.
LEMMA RoundKeepsSources ==
  ASSUME TypeOK, RoundsInv, Round,
         NEW S \in SUBSET draft.tasks, S \cap resolved' # {}
  PROVE  \E t \in S : draft.deps[t] \cap S = {}
<1>1. CASE S \cap resolved # {}
  BY <1>1 DEF RoundsInv
<1>2. CASE S \cap resolved = {}
  <2>1. PICK t \in S : t \in Ready
    BY <1>2 DEF Round
  <2>2. draft.deps[t] \subseteq resolved
    BY <2>1 DEF Ready
  <2> QED
    BY <1>2, <2>2
<1> QED
  BY <1>1, <1>2

\* A round resolves what depends on resolved ids only; what remains in the end
\* has no source among itself.
LEMMA RoundsStep == TypeOK /\ RoundsInv /\ [Next]_vars => RoundsInv'
<1> SUFFICES ASSUME TypeOK, RoundsInv, [Next]_vars PROVE RoundsInv'
  OBVIOUS
<1>1. CASE CheckFields
  BY <1>1 DEF CheckFields, Waiting, RoundsInv
<1>2. CASE Round
  <2>1. draft' = draft /\ verdict' = verdict /\ verdict = "rounds"
    BY <1>2 DEF Round
  <2>2. \A S \in SUBSET draft.tasks :
           S \cap resolved' # {} => \E t \in S : draft.deps[t] \cap S = {}
    BY <1>2, RoundKeepsSources
  <2>3. resolved' \cup remaining' = draft.tasks /\ resolved' \cap remaining' = {}
    BY <1>2, <2>1 DEF Round, Remaining, Ready, RoundsInv
  <2>4. FieldsOK(draft)
    BY <2>1 DEF RoundsInv
  <2> QED
    BY <2>1, <2>2, <2>3, <2>4 DEF RoundsInv
<1>3. CASE Finish
  BY <1>3 DEF Finish, RoundsInv, Ready
<1>4. CASE UNCHANGED vars
  BY <1>4 DEF vars, RoundsInv, Ready
<1> QED
  BY <1>1, <1>2, <1>3, <1>4 DEF Next, Done

\* Resolved ids never lie on a cycle, at any round.
THEOREM RoundsCorrect == Spec => []RoundsInv
  BY TypeCorrect, RoundsInit, RoundsStep, PTL DEF Spec

\* The verdict of the loop is the plan's acyclicity.
THEOREM ValidationIsRight == Spec => []VerdictIsRight
<1>1. TypeOK /\ RoundsInv => VerdictIsRight
  <2> SUFFICES ASSUME TypeOK, RoundsInv PROVE VerdictIsRight
    OBVIOUS
  <2>1. FieldsOK(draft) => (ValidPlan(draft) <=> Acyclic(draft.tasks, draft.deps))
    BY DEF FieldsOK, ValidPlan, KnownDeps
  <2>2. ASSUME verdict = "valid" PROVE ValidPlan(draft)
    <3>1. resolved = draft.tasks /\ FieldsOK(draft)
      BY <2>2 DEF RoundsInv
    <3>2. Acyclic(draft.tasks, draft.deps)
      BY <3>1 DEF RoundsInv, Acyclic
    <3> QED
      BY <2>1, <3>1, <3>2
  <2>3. ASSUME verdict = "cycle" PROVE ~ValidPlan(draft)
    <3>1. /\ FieldsOK(draft) /\ remaining # {} /\ Ready = {}
          /\ resolved \cup remaining = draft.tasks
      BY <2>3 DEF RoundsInv
    <3>2. ASSUME NEW t \in remaining PROVE draft.deps[t] \cap remaining # {}
      BY <3>1 DEF FieldsOK, Ready
    <3>3. ~Acyclic(draft.tasks, draft.deps)
      BY <3>1, <3>2 DEF Acyclic
    <3> QED
      BY <2>1, <3>1, <3>3
  <2>4. ASSUME verdict = "errors" PROVE ~ValidPlan(draft)
    BY <2>4 DEF RoundsInv, ValidPlan, FieldsOK, KnownDeps
  <2> QED
    BY <2>2, <2>3, <2>4 DEF VerdictIsRight
<1> QED
  BY <1>1, TypeCorrect, RoundsCorrect, PTL
==============================================================================

------------------------------ MODULE PlanRules ------------------------------
(***************************************************************************)
(* What graph/validate.py accepts as a plan.  A drafted plan is a record:  *)
(*   tasks       the subtask ids, a set                                    *)
(*   deps        for every id its declared dependencies                    *)
(*   wellFormed  the checks that look at one subtask's own fields: ids     *)
(*               non-empty and distinct, a description, a specialist of    *)
(*               the whitelist                                             *)
(***************************************************************************)
EXTENDS FiniteSets, Integers

CONSTANT MaxSubtasks    \* max_subtasks, 12 by default

(***************************************************************************)
(* No dependency cycle, in the form the scheduler needs: in every set of   *)
(* subtasks that is still to do, one depends on nothing else in the set.   *)
(* PlanValidation shows that the loop of _cycles computes this.            *)
(***************************************************************************)
Acyclic(tasks, deps) ==
    \A S \in SUBSET tasks : S # {} => \E t \in S : deps[t] \cap S = {}

\* Every dependency is another subtask of the plan.
KnownDeps(tasks, deps) == \A t \in tasks : deps[t] \subseteq tasks \ {t}

ValidButForCycles(draft) ==
    /\ draft.tasks # {} /\ Cardinality(draft.tasks) <= MaxSubtasks
    /\ draft.wellFormed /\ KnownDeps(draft.tasks, draft.deps)

\* validate_plan returned no error.
ValidPlan(draft) ==
    /\ draft.tasks # {}
    /\ Cardinality(draft.tasks) <= MaxSubtasks
    /\ draft.wellFormed
    /\ KnownDeps(draft.tasks, draft.deps)
    /\ Acyclic(draft.tasks, draft.deps)
==============================================================================

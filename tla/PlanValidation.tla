---------------------------- MODULE PlanValidation ----------------------------
(***************************************************************************)
(* validate_plan and the loop of _cycles (Kahn's algorithm), one step per   *)
(* round: what the loop computes is the acyclicity the scheduler needs      *)
(* (Acyclic of PlanRules, on which OrchestraGraph rests).                  *)
(***************************************************************************)
EXTENDS PlanRules

CONSTANTS
    Subtasks,       \* the ids a draft may use
    Drafts          \* the drafts to validate

DraftPlans == [tasks : SUBSET Subtasks, deps : [Subtasks -> SUBSET Subtasks], wellFormed : BOOLEAN]
ASSUME DraftsAssumption == Drafts \subseteq DraftPlans

VARIABLES
    draft,          \* the plan under validation
    resolved,       \* ids whose dependencies were resolved before them
    remaining,      \* the other ids
    verdict         \* "fields", "rounds", and then the outcome
vars == <<draft, resolved, remaining, verdict>>

Init ==
    /\ draft \in Drafts
    /\ resolved = {} /\ remaining = {}
    /\ verdict = "fields"

\* Everything validate_plan checks before it looks for cycles.
FieldsOK(plan) ==
    /\ plan.tasks # {} /\ Cardinality(plan.tasks) <= MaxSubtasks
    /\ plan.wellFormed
    /\ \A t \in plan.tasks : plan.deps[t] \subseteq plan.tasks \ {t}

Waiting(plan) == plan.tasks

CheckFields ==
    /\ verdict = "fields"
    /\ verdict' = IF FieldsOK(draft) THEN "rounds" ELSE "errors"
    /\ remaining' = IF FieldsOK(draft) THEN Waiting(draft) ELSE {}
    /\ UNCHANGED <<draft, resolved>>

ReadyIfAny == {t \in remaining : draft.deps[t] = {} \/ draft.deps[t] \cap resolved # {}}
Ready == {t \in remaining : draft.deps[t] \subseteq resolved}

StillRemaining == remaining
Remaining == remaining \ Ready

Round ==
    /\ verdict = "rounds" /\ Ready # {}
    /\ resolved' = resolved \cup Ready
    /\ remaining' = Remaining
    /\ UNCHANGED <<draft, verdict>>

\* The loop returns: all resolved, or no id of the remaining ones is ready.
Finish ==
    /\ verdict = "rounds" /\ Ready = {}
    /\ verdict' = IF remaining = {} THEN "valid" ELSE "cycle"
    /\ UNCHANGED <<draft, resolved, remaining>>

Done == verdict \in {"valid", "cycle", "errors"} /\ UNCHANGED vars

Next == CheckFields \/ Round \/ Finish \/ Done
Spec == Init /\ [][Next]_vars
FairSpec == Spec /\ WF_vars(CheckFields \/ Round \/ Finish)

------------------------------------------------------------------------------
TypeOK ==
    /\ draft \in DraftPlans
    /\ resolved \in SUBSET Subtasks
    /\ remaining \in SUBSET Subtasks
    /\ verdict \in {"fields", "rounds", "valid", "cycle", "errors"}

\* The rounds partition the plan, and whatever contains a resolved id has a
\* member that depends on nothing else in it.
RoundsInv ==
    /\ verdict # "fields" => (verdict # "errors" <=> FieldsOK(draft))
    /\ verdict \in {"rounds", "valid", "cycle"} =>
           resolved \cup remaining = draft.tasks /\ resolved \cap remaining = {}
    /\ verdict = "fields" => resolved = {}
    /\ \A S \in SUBSET draft.tasks :
           S \cap resolved # {} => \E t \in S : draft.deps[t] \cap S = {}
    /\ verdict = "valid" => remaining = {}
    /\ verdict = "cycle" => remaining # {} /\ Ready = {}

\* validate_plan returns no error exactly for the plans that the scheduler can
\* run to the end: no accepted plan has a cycle, no acyclic one is refused.
VerdictIsRight ==
    /\ verdict = "valid" => ValidPlan(draft)
    /\ verdict \in {"cycle", "errors"} => ~ValidPlan(draft)

\* The loop ends on every input: each round resolves at least one id.
Ends == <>(verdict \in {"valid", "cycle", "errors"})

==============================================================================

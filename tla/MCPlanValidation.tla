--------------------------- MODULE MCPlanValidation ---------------------------
(***************************************************************************)
(* All plans of three ids that may also name a fourth, plans of four ids    *)
(* that are over the limit, and a plan with an error in a field.           *)
(***************************************************************************)
EXTENDS PlanValidation

CONSTANTS a, b, c, d

\* Only the dependencies of the plan's own subtasks are its own.
Plans(tasks, ok) ==
    {[tasks |-> tasks, wellFormed |-> ok,
      deps |-> [s \in Subtasks |-> IF s \in tasks THEN edges[s] ELSE {}]] :
        edges \in [tasks -> SUBSET Subtasks]}

MCDrafts ==
    UNION {Plans(tasks, TRUE) : tasks \in {{}, {a}, {a, b}, {a, b, c}}}
        \cup Plans({a, b}, FALSE)
        \cup {[tasks |-> Subtasks, wellFormed |-> TRUE, deps |-> [s \in Subtasks |-> {}]]}
==============================================================================

--------------------------- MODULE MCOrchestraGraph ---------------------------
(***************************************************************************)
(* Instances of OrchestraGraph for TLC, with the plans the model may draft.*)
(***************************************************************************)
EXTENDS OrchestraGraph, TLC

CONSTANTS a, b, c

Draft(tasks, edges, ok, low) ==
    [tasks |-> tasks,
     deps |-> [s \in Subtasks |-> {d \in Subtasks : <<s, d>> \in edges}],
     wellFormed |-> ok, lowConfidence |-> low]

\* Two subtasks: independent, in a chain, of low confidence, in a cycle, and a
\* plan with a field error.
MCPairDrafts ==
    {Draft({a, b}, {}, TRUE, FALSE), Draft({a, b}, {<<b, a>>}, TRUE, FALSE),
     Draft({a, b}, {<<b, a>>}, TRUE, TRUE),
     Draft({a, b}, {<<a, b>>, <<b, a>>}, TRUE, FALSE),
     Draft({a}, {}, FALSE, FALSE)}

\* Three subtasks: two and then one that needs both; a cycle of three.
MCTripleDrafts ==
    {Draft({a, b, c}, {<<c, a>>, <<c, b>>}, TRUE, FALSE),
     Draft({a, b, c}, {<<b, a>>, <<c, b>>, <<a, c>>}, TRUE, FALSE)}
==============================================================================

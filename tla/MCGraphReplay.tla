---------------------------- MODULE MCGraphReplay ----------------------------
(* An instance of GraphReplay for TLC, with the plans the model may draft. *)
EXTENDS GraphReplay

CONSTANTS a, b

Draft(tasks, edges, ok, low) ==
    [tasks |-> tasks,
     deps |-> [s \in Subtasks |-> {d \in Subtasks : <<s, d>> \in edges}],
     wellFormed |-> ok, lowConfidence |-> low]

\* A chain, an edited request that needs the other order, a single subtask of
\* low confidence, and a draft with a field error.
MCReplayDrafts ==
    {Draft({a, b}, {<<b, a>>}, TRUE, FALSE), Draft({a, b}, {<<a, b>>}, TRUE, FALSE),
     Draft({a}, {}, TRUE, TRUE), Draft({b}, {}, FALSE, FALSE)}
==============================================================================

---------------------------- MODULE GatePositions ----------------------------
(***************************************************************************)
(* Where a checkpointed run can be, seen from outside the graph.  A         *)
(* position is a number: 0 before the run starts, WorkAfter(k) while it     *)
(* works with k gates behind it, AtGate(k) while it waits at gate k, and    *)
(* End.  A gate is a call of interrupt(); its number is also the key of its *)
(* approvals row.                                                          *)
(***************************************************************************)
EXTENDS Integers

CONSTANTS
    Gates,      \* bound: the number of gates a run may meet
    Answers     \* what a human may answer

ASSUME GatesAssumption == Gates \in Nat
ASSUME AnswersAssumption == "none" \notin Answers /\ "pending" \notin Answers

GateIds == 1..Gates
WorkAfter(k) == 2 * k + 1
AtGate(k) == 2 * k
End == 2 * Gates + 2
Positions == 0..End

\* Where the work after k gates may lead.
Onward(k) == {End} \cup {AtGate(g) : g \in {k + 1} \cap GateIds}
==============================================================================

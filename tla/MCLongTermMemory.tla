--------------------------- MODULE MCLongTermMemory ---------------------------
(***************************************************************************)
(* Runs of one user and one of another; two jobs at a time.                *)
(***************************************************************************)
EXTENDS LongTermMemory, TLC

CONSTANTS p1, p2, p3, s1, s2, u1, u2
MCUserOf == [p \in Runs |-> IF p = p3 THEN u2 ELSE u1]
Symmetric == Permutations({p1, p2}) \cup Permutations({s1, s2})
==============================================================================

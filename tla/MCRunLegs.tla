------------------------------ MODULE MCRunLegs ------------------------------
(***************************************************************************)
(* RunLegs for TLC: a limited tool and one without a limit that only one    *)
(* branch may use.                                                         *)
(***************************************************************************)
EXTENDS RunLegs

CONSTANTS b1, b2, search, files
MCAllowed == [t \in Tools |-> IF t = search THEN Branches ELSE {b1}]
MCRateLimit == [t \in Tools |-> IF t = search THEN 2 ELSE 0]
==============================================================================

----------------------------- MODULE GateContract -----------------------------
(***************************************************************************)
(* What a durable, human-gated run promises, without workers, queues or     *)
(* API: the run passes its gates in order; it asks once at each; a human    *)
(* answers once; and it goes on only with the answer to the gate it is at.  *)
(***************************************************************************)
EXTENDS GatePositions

VARIABLES
    position,
    asked,      \* by gate: "none", "pending" or the human's answer
    passed      \* by gate: the answer it was passed with, or "none"

contractVars == <<position, asked, passed>>

ContractInit ==
    /\ position = 0
    /\ asked = [k \in GateIds |-> "none"]
    /\ passed = [k \in GateIds |-> "none"]

Begin ==
    /\ position = 0
    /\ position' = WorkAfter(0)
    /\ UNCHANGED <<asked, passed>>

Advance ==
    /\ \E k \in 0..Gates : position = WorkAfter(k) /\ position' \in Onward(k)
    /\ UNCHANGED <<asked, passed>>

Ask(k) ==
    /\ position = AtGate(k)
    /\ asked[k] = "none"
    /\ asked' = [asked EXCEPT ![k] = "pending"]
    /\ UNCHANGED <<position, passed>>

Reply(k, answer) ==
    /\ asked[k] = "pending"
    /\ asked' = [asked EXCEPT ![k] = answer]
    /\ UNCHANGED <<position, passed>>

Pass(k) ==
    /\ position = AtGate(k)
    /\ asked[k] \in Answers
    /\ position' = WorkAfter(k)
    /\ passed' = [passed EXCEPT ![k] = asked[k]]
    /\ UNCHANGED asked

ContractNext ==
    \/ Begin \/ Advance
    \/ \E k \in GateIds : Ask(k) \/ Pass(k) \/ \E answer \in Answers : Reply(k, answer)

Contract == ContractInit /\ [][ContractNext]_contractVars

\* What the contract guarantees: a gate behind the run was passed with the
\* answer that is on record for it.
PassedAsAnswered ==
    \A k \in GateIds : passed[k] # "none" => passed[k] = asked[k] /\ position > AtGate(k)
==============================================================================

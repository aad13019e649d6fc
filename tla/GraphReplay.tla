----------------------------- MODULE GraphReplay -----------------------------
(***************************************************************************)
(* POST /tasks/{id}/replay (api/server.py, graph/replay.py) beside the run *)
(* it replays: the channels of the run's latest checkpoint, whatever its   *)
(* status, with those the request replaces, are the input of the same      *)
(* graph in a fresh thread.  Edited inputs other than channels of this     *)
(* model are what makes the planning model draft another plan.             *)
(*                                                                         *)
(* The graph of a replay has a checkpointer, so its gates interrupt, but   *)
(* no tool executor and no memory, and nobody resumes it: the request      *)
(* returns at the end, at a failure or at the first gate that asks.  From  *)
(* Replay on, the variables of OrchestraGraph are those of the replay.     *)
(***************************************************************************)
EXTENDS OrchestraGraph, FiniteSets

CONSTANT MaxEdits   \* bound: channels one request replaces
ASSUME EditsAssumption == MaxEdits \in Nat

VARIABLES
    replaying,      \* the request has been made
    seed,           \* the results it hands to the graph
    unreadable      \* they are JSON objects without a status
request == <<replaying, seed, unreadable>>
replayVars == <<vars, request>>

NoSeed == [s \in Subtasks |-> "none"]
ReplayInit == Init /\ replaying = FALSE /\ seed = NoSeed /\ unreadable = FALSE

SourceStep ==
    /\ ~replaying
    /\ WorkerStep \/ HumanStep \/ RunFails
    /\ UNCHANGED request

\* apply_edits: a request may replace any field of the checkpoint; another one
\* is refused.  The supervisor overwrites an edited plan, so those are left out.
Fields == {"results", "attempts", "pending_approvals", "failure_decisions", "final_response"}
Edits == {edited \in SUBSET Fields : Cardinality(edited) <= MaxEdits}

\* Results in a request are none, or objects that dispatch cannot read.
EditedResults(edited) == IF "results" \in edited THEN NoSeed ELSE results
ForgetsResults(edited) == NoSeed
CarriedOver(edited) == EditedResults(edited)

\* Of a recorded decision only its presence is read, of a request only that it
\* is pending, of a response only that there is one; a count of attempts leaves
\* a retry or does not.
ApplyEdits(edited) ==
    /\ seed' = EditedResults(edited) /\ results' = CarriedOver(edited)
    /\ unreadable' \in {FALSE, "results" \in edited}
    /\ IF "attempts" \in edited THEN attempts' \in [Subtasks -> {0, MAX_SUBTASK_ATTEMPTS}]
       ELSE UNCHANGED attempts
    /\ IF "pending_approvals" \in edited THEN approvals' \in [Signatures -> {"none", "pending"}]
       ELSE UNCHANGED approvals
    /\ IF "failure_decisions" \in edited THEN decisions' \in [Subtasks -> {"none", "reject"}]
       ELSE UNCHANGED decisions
    /\ IF "final_response" \in edited THEN final' \in {"none", "synthesized"}
       ELSE UNCHANGED final

\* ainvoke with them: the thread and what it did to the world are new.
Replay ==
    /\ ~replaying /\ replaying' = TRUE
    /\ \E edited \in Edits : ApplyEdits(edited)
    /\ node' = "supervisor" /\ sends' = {} /\ written' = NothingWritten /\ asks' = {}
    /\ turns' = NoTurns /\ drafted' = FALSE
    /\ performed' = [sig \in Signatures |-> 0] /\ outputs' = [s \in Subtasks |-> 0]
    /\ passing' = [s \in Subtasks |-> FALSE]
    /\ lessons' = 0 /\ handedOver' = FALSE /\ crashes' = 0
    /\ UNCHANGED <<plan, deps, lowConfidence>>

\* interrupt(): the invocation returns, the replay stops there.
Interrupted ==
    \/ node = "plan_approval" /\ AsksAboutPlan
    \/ node \in {"action_approval", "failure_approval"}

ReadsResults == (node = "dispatch" /\ plan # {}) \/ node = "synthesize"

\* The checkpointer raises, or a node that reads an edited value it cannot use.
ReplayFails ==
    /\ node \notin {"end", "failed"}
    /\ node' = "failed"
    /\ UNCHANGED <<channels, sends, written, asks, memory, world>>

\* A call of a tool only yields an observation; there is no memory to extract.
ReplayNode ==
    /\ ~(unreadable /\ ReadsResults)
    /\ \/ NodeSupervisor \/ PassPlanGate \/ NodeDispatch \/ NodeExecute \/ NodeReview
       \/ \E s \in Subtasks : Observe(s) \/ Answer(s) \/ FailBranch(s)
       \/ KeepFinal \/ (WriteAnswer /\ lessons' = lessons) \/ CommitAnswer

ReplayStep ==
    /\ replaying /\ ~Interrupted
    /\ ReplayNode \/ ReplayFails
    /\ UNCHANGED request

Returned == replaying /\ (Interrupted \/ node \in {"end", "failed"})

ReplayNext ==
    \/ SourceStep \/ Replay \/ ReplayStep
    \/ Returned /\ UNCHANGED replayVars

ReplaySpec == ReplayInit /\ [][ReplayNext]_replayVars /\ WF_replayVars(ReplayStep)

------------------------------------------------------------------------------
\* The request returns, whatever state it was seeded with: inherited or edited
\* attempts, requests and verdicts cannot send the graph round for ever.
ReplayReturns == replaying ~> Returned

\* What the source run had accepted is neither executed nor judged again, unless
\* the request itself replaces the results: whatever plan and whichever other
\* edits the replay starts from, and however far it gets.
AcceptedStays ==
    \A s \in Subtasks : seed[s] = "accepted" => results[s] = "accepted" /\ outputs[s] = 0

\* replay.py:9 "the replay re-executes the graph from its entry node with the
\* edited inputs, exactly like a fresh run of the edited request would go":
\* refuted, a subtask whose id the source run had settled is not executed.
ReplayExecutesPlan ==
    replaying /\ final = "synthesized" /\ node = "end" =>
        \A s \in plan : outputs[s] > 0 \/ \E d \in deps[s] : results[d] # "accepted"

\* files/architecture.md:14 "subtasks with no unmet dependencies run": refuted,
\* a retry the replay inherits is sent whatever its new plan says.
ReplayRespectsDependencies == replaying => \A s \in sends : DepsAccepted(s)
==============================================================================

---------------------------- MODULE OrchestraGraph ----------------------------
(***************************************************************************)
(* One run of the LangGraph of graph/build.py over one checkpointed thread. *)
(*                                                                         *)
(*   supervisor -> plan_approval -> dispatch -> execute_subtask (in        *)
(*   parallel) -> review -> action_approval | failure_approval | dispatch  *)
(*   -> ... -> synthesize                                                  *)
(*                                                                         *)
(* The worker invokes the graph with durability="sync": a super-step is    *)
(* committed before the next one starts.  An action of this module is one  *)
(* committed super-step, but for the two super-steps that act on the world *)
(* before they commit: the branches of execute_subtask, which call tools,  *)
(* and synthesize, which stores a memory.  A crash loses what those had    *)
(* not committed and the super-step runs again.                            *)
(***************************************************************************)
EXTENDS PlanRules

CONSTANTS
    Subtasks,       \* subtask ids a plan may use
    Calls,          \* the sensitive calls (tool and arguments) a model may ask
    Drafts,         \* the plans the planning model may answer with
    MaxTurns,       \* MAX_TOOL_ITERATIONS of the specialist loop
    MaxCrashes      \* bound: worker crashes in one behaviour

ASSUME DraftsAssumption ==
    Drafts \subseteq [tasks : SUBSET Subtasks, deps : [Subtasks -> SUBSET Subtasks],
                      wellFormed : BOOLEAN, lowConfidence : BOOLEAN]
ASSUME BoundsAssumption == MaxTurns \in Nat \ {0} /\ MaxCrashes \in Nat

\* The channels of GraphState, all in the checkpoint.
VARIABLES
    plan,           \* ids of the plan in force; {} when there is none
    deps,           \* dependencies, by subtask
    lowConfidence,  \* plan_confidence < LOW_CONFIDENCE_THRESHOLD
    results,        \* status of each subtask's result, "none" when absent
    attempts,       \* attempts judged so far
    approvals,      \* pending_approvals: status by signature
    decisions,      \* failure_decisions
    final           \* final_response

channels == <<plan, deps, lowConfidence, results, attempts, approvals, decisions, final>>

\* The thread's position, and the writes of branches that have finished.
VARIABLES
    node,           \* pending super-step; "end" or "failed" when there is none
    sends,          \* subtasks of the pending execute_subtask super-step
    written,        \* what each finished branch of it returned
    asks            \* the approvals those branches asked for
thread == <<node, sends, written, asks>>

\* In the worker's memory only.
VARIABLES
    turns,          \* iterations of each branch's specialist loop
    drafted         \* synthesize has its answer and has not committed
memory == <<turns, drafted>>

\* The world outside, and history.
VARIABLES
    performed,      \* how often each sensitive call has run, counted up to twice
    outputs,        \* outputs each subtask has produced (history)
    passing,        \* last output of the subtask scored above the threshold (history)
    lessons,        \* memories stored for this task
    handedOver,     \* a human has answered "take_over" at some gate (history)
    crashes
world == <<performed, outputs, passing, lessons, handedOver, crashes>>

vars == <<channels, thread, memory, world>>

------------------------------------------------------------------------------
MAX_SUBTASK_ATTEMPTS == 2

\* tool_signature: subtask, tool and arguments, "the unit a human approval covers".
Signatures == Subtasks \X Calls

Statuses == {"none", "success", "error", "retry", "escalate", "accepted"}
Nodes == {"supervisor", "plan_approval", "dispatch", "execute_subtask", "review",
          "action_approval", "failure_approval", "synthesize", "end", "failed"}

\* ApprovalDecision.action is a free string: the documented four, and the
\* "retry" the failure gate offers.
HumanActions == {"approve", "modify", "reject", "take_over", "retry"}

NothingWritten == [s \in Subtasks |-> "none"]
NoTurns == [s \in Subtasks |-> 0]

Pending == {sig \in Signatures : approvals[sig] = "pending"}
Resolved(status) == status \in {"approved", "rejected"}
Escalated(res, dec) == {s \in Subtasks : res[s] = "escalate" /\ dec[s] = "none"}

Init ==
    /\ plan = {} /\ deps = [s \in Subtasks |-> {}] /\ lowConfidence = FALSE
    /\ results = [s \in Subtasks |-> "none"]
    /\ attempts = [s \in Subtasks |-> 0]
    /\ approvals = [sig \in Signatures |-> "none"]
    /\ decisions = [s \in Subtasks |-> "none"]
    /\ final = "none"
    /\ node = "supervisor" /\ sends = {} /\ written = NothingWritten /\ asks = {}
    /\ turns = NoTurns /\ drafted = FALSE
    /\ performed = [sig \in Signatures |-> 0] /\ outputs = [s \in Subtasks |-> 0]
    /\ passing = [s \in Subtasks |-> FALSE]
    /\ lessons = 0 /\ handedOver = FALSE /\ crashes = 0

------------------------------------------------------------------------------
(* supervisor: plan, validate, regenerate once.                            *)

AdoptPlan(draft) ==
    /\ ValidPlan(draft)
    /\ plan' = draft.tasks
    /\ deps' = draft.deps
    /\ lowConfidence' = draft.lowConfidence

\* Both drafts were invalid: an empty plan and a note in shared_context.
NoPlan ==
    /\ \E draft \in Drafts : ~ValidPlan(draft)
    /\ plan' = {}
    /\ UNCHANGED <<deps, lowConfidence>>

NodeSupervisor ==
    /\ node = "supervisor"
    /\ NoPlan \/ \E draft \in Drafts : AdoptPlan(draft)
    /\ node' = "plan_approval"
    /\ UNCHANGED <<results, attempts, approvals, decisions, final, sends, written,
                   asks, memory, world>>

------------------------------------------------------------------------------
(* plan_approval: interrupts on a plan of low confidence.                  *)

AsksAboutPlan == plan # {} /\ lowConfidence

PassPlanGate ==
    /\ node = "plan_approval"
    /\ ~AsksAboutPlan
    /\ node' = "dispatch"
    /\ UNCHANGED <<channels, sends, written, asks, memory, world>>

\* apply_plan_decision.  The decision the API records has no "plan" key, so
\* "modify" keeps the proposed plan, which is valid.
KeptPlan(action) == plan
PlanAfter(action) == IF action \in {"approve", "modify"} THEN plan ELSE {}
FinalAfter(action) ==
    CASE action \in {"approve", "modify"} -> final
      [] action = "take_over"             -> "taken_over"
      [] OTHER                            -> "rejected"

DecidePlan(action) ==
    /\ node = "plan_approval"
    /\ AsksAboutPlan
    /\ plan' = PlanAfter(action)
    /\ final' = FinalAfter(action)
    /\ handedOver' = (handedOver \/ action = "take_over")
    /\ node' = "dispatch"
    /\ UNCHANGED <<deps, lowConfidence, results, attempts, approvals, decisions,
                   sends, written, asks, memory, performed, outputs, passing, lessons, crashes>>

------------------------------------------------------------------------------
(* dispatch: the only place that schedules subtasks.                       *)

DepsAccepted(s) == \A d \in deps[s] : results[d] = "accepted"
ReadyOnAnyResult == {s \in plan : results[s] = "none" /\ \A d \in deps[s] : results[d] # "none"}
ReadyUnlessAsked == {s \in plan : /\ results[s] = "none" /\ DepsAccepted(s)
                                  /\ \A c \in Calls : approvals[<<s, c>>] = "none"}
Ready == {s \in plan : results[s] = "none" /\ DepsAccepted(s)}
RetriesAndEscalations == {s \in plan : results[s] \in {"retry", "escalate"}}
Retries == {s \in plan : results[s] = "retry"}

WaitsForEscalated ==
    /\ node = "dispatch"
    /\ sends' = Ready \cup Retries
    /\ node' = IF sends' # {} THEN "execute_subtask"
               ELSE IF \E s \in plan : results[s] = "escalate" THEN "review" ELSE "synthesize"
    /\ UNCHANGED <<channels, written, asks, memory, world>>

NodeDispatch ==
    /\ node = "dispatch"
    /\ sends' = Ready \cup Retries
    /\ node' = IF sends' # {} THEN "execute_subtask" ELSE "synthesize"
    /\ UNCHANGED <<channels, written, asks, memory, world>>

------------------------------------------------------------------------------
(* execute_subtask: one branch per subtask sent, running in parallel.  The  *)
(* specialist's loop takes one turn of its model at a time.                *)

Running(s) == node = "execute_subtask" /\ s \in sends /\ written[s] = "none"
CanTurn(s) == Running(s) /\ turns[s] < MaxTurns

\* execute_tool's gate, under the approvals the branch was sent with.
MayRunUnlessRejected(sig) == approvals[sig] # "rejected"
MayRun(sig) == approvals[sig] = "approved"
AsksUnlessApproved(sig) == approvals[sig] # "approved"
NeedsApproval(sig) == ~Resolved(approvals[sig])

\* A call that is not sensitive, or one a human rejected: an observation.
Observe(s) ==
    /\ CanTurn(s)
    /\ turns' = [turns EXCEPT ![s] = @ + 1]
    /\ UNCHANGED <<channels, thread, drafted, world>>

\* execute_tool with the approved signature: the call runs.
UseTool(s, c) ==
    /\ CanTurn(s)
    /\ MayRun(<<s, c>>)
    /\ turns' = [turns EXCEPT ![s] = @ + 1]
    /\ performed' = [performed EXCEPT ![<<s, c>>] = IF @ < 2 THEN @ + 1 ELSE @]
    /\ UNCHANGED <<channels, thread, drafted, outputs, passing, lessons, handedOver, crashes>>

\* A branch's return value becomes a pending write of the super-step.
Return(s, value) ==
    /\ Running(s)
    /\ written' = [written EXCEPT ![s] = value]
    /\ turns' = [turns EXCEPT ![s] = 0]
    /\ UNCHANGED <<channels, node, sends, drafted, world>>

\* execute_tool raised ApprovalRequired: the branch gives up its work so far.
AskApproval(s, c) ==
    /\ CanTurn(s)
    /\ NeedsApproval(<<s, c>>)
    /\ Return(s, "ask")
    /\ asks' = asks \cup {<<s, c>>}

\* A final answer, or the last observation at the cap.
Answer(s) == Return(s, "success") /\ UNCHANGED asks

\* A failure of the model or of a tool is a result, not a crash.
FailBranch(s) == Return(s, "error") /\ UNCHANGED asks

\* All branches returned: their writes are merged and committed.
NodeExecute ==
    /\ node = "execute_subtask"
    /\ \A s \in sends : written[s] # "none"
    /\ LET produced == {s \in sends : written[s] \in {"success", "error"}} IN
       /\ results' = [s \in Subtasks |-> IF s \in produced THEN written[s] ELSE results[s]]
       /\ outputs' = [s \in Subtasks |-> IF s \in produced THEN outputs[s] + 1 ELSE outputs[s]]
    /\ approvals' = [sig \in Signatures |-> IF sig \in asks THEN "pending" ELSE approvals[sig]]
    /\ node' = "review"
    /\ sends' = {} /\ written' = NothingWritten /\ asks' = {}
    /\ UNCHANGED <<plan, deps, lowConfidence, attempts, decisions, final, memory,
                   performed, passing, lessons, handedOver, crashes>>

------------------------------------------------------------------------------
(* review: judge every output the batch produced, then route.              *)

ReviewerAnswers == {"accept", "retry", "escalate", "unknown"}

\* The reviewer's decision after the override by its own scores.
RawVerdict(answer, passes) == answer
ReviewerVerdict(answer, passes) ==
    CASE answer = "accept" /\ ~passes  -> "retry"
      [] answer = "escalate" /\ passes -> "accept"
      [] OTHER                         -> answer

UnmappedStatus(verdict, attempt) == verdict
OneRetryTooMany(verdict, attempt) ==
    CASE verdict = "accept"                                   -> "accepted"
      [] verdict = "retry" /\ attempt <= MAX_SUBTASK_ATTEMPTS -> "retry"
      [] OTHER                                                -> "escalate"
StatusAfter(verdict, attempt) ==
    CASE verdict = "accept"                                   -> "accepted"
      [] verdict = "retry" /\ attempt < MAX_SUBTASK_ATTEMPTS  -> "retry"
      [] OTHER                                                -> "escalate"

Judged == {s \in plan : results[s] \in {"success", "error"}}
AttemptsOfReviewed ==
    [s \in Subtasks |-> IF s \in plan /\ results[s] = "success" THEN attempts[s] + 1 ELSE attempts[s]]
AttemptsAfter == [s \in Subtasks |-> IF s \in Judged THEN attempts[s] + 1 ELSE attempts[s]]

\* A failed specialist needs no reviewer: it is retried while attempts remain.
VerdictOn(s, answer, passes) ==
    IF results[s] = "error" THEN "retry" ELSE ReviewerVerdict(answer, passes)

RouteAfterReview(res) ==
    CASE Pending # {}                                  -> "action_approval"
      [] Pending = {} /\ Escalated(res, decisions) # {} -> "failure_approval"
      [] OTHER                                         -> "dispatch"

NodeReview ==
    /\ node = "review"
    /\ \E answer \in [Judged -> ReviewerAnswers], passes \in [Judged -> BOOLEAN] :
        /\ results' = [s \in Subtasks |->
               IF s \in Judged
               THEN StatusAfter(VerdictOn(s, answer[s], passes[s]), AttemptsAfter[s])
               ELSE results[s]]
        /\ passing' = [s \in Subtasks |-> IF s \in Judged THEN results[s] = "success" /\ passes[s]
                                          ELSE passing[s]]
    /\ attempts' = AttemptsAfter
    /\ node' = RouteAfterReview(results')
    /\ UNCHANGED <<plan, deps, lowConfidence, approvals, decisions, final, sends, written,
                   asks, memory, performed, outputs, lessons, handedOver, crashes>>

------------------------------------------------------------------------------
(* The two later gates.  Each asks about the first entry in insertion      *)
(* order; the order is abstracted to a choice.  A gate that resumes or is  *)
(* run again asks the same question, so only the answer is a step.         *)

DecideAction(sig, action) ==
    /\ node = "action_approval"
    /\ sig \in Pending
    /\ approvals' = [approvals EXCEPT ![sig] =
           IF action \in {"approve", "modify"} THEN "approved" ELSE "rejected"]
    /\ handedOver' = (handedOver \/ action = "take_over")
    /\ node' = "dispatch"
    /\ UNCHANGED <<plan, deps, lowConfidence, results, attempts, decisions, final, sends,
                   written, asks, memory, performed, outputs, passing, lessons, crashes>>

DecideFailure(s, action) ==
    /\ node = "failure_approval"
    /\ s \in Escalated(results, decisions)
    /\ decisions' = [decisions EXCEPT ![s] =
           IF action \in {"approve", "retry"} THEN action ELSE "reject"]
    /\ results' = [results EXCEPT ![s] =
           CASE action = "approve" -> "accepted"
             [] action = "retry"   -> "retry"
             [] OTHER              -> "escalate"]
    /\ handedOver' = (handedOver \/ action = "take_over")
    /\ node' = "dispatch"
    /\ UNCHANGED <<plan, deps, lowConfidence, attempts, approvals, final, sends, written,
                   asks, memory, performed, outputs, passing, lessons, crashes>>

------------------------------------------------------------------------------
(* synthesize: the writer's answer, then one memory, then the commit.      *)

NoResults == \A s \in Subtasks : results[s] = "none"
KeepsFinal == final # "none" /\ NoResults

\* A rejected or taken-over plan already has its final response.
KeepFinal ==
    /\ node = "synthesize" /\ KeepsFinal
    /\ node' = "end"
    /\ UNCHANGED <<channels, sends, written, asks, memory, world>>

\* The extractor's own failure never fails the run.
WriteAnswer ==
    /\ node = "synthesize" /\ ~KeepsFinal /\ ~drafted
    /\ drafted' = TRUE
    /\ lessons' \in {lessons, lessons + 1}
    /\ UNCHANGED <<channels, thread, turns, performed, outputs, passing, handedOver, crashes>>

CommitAnswer ==
    /\ node = "synthesize" /\ drafted
    /\ final' = "synthesized" /\ node' = "end" /\ drafted' = FALSE
    /\ UNCHANGED <<plan, deps, lowConfidence, results, attempts, approvals, decisions,
                   sends, written, asks, turns, world>>

------------------------------------------------------------------------------
(* Failures.                                                               *)

\* A model call of a node raised: the invocation raises and the task fails.
RunFails ==
    /\ node \in {"supervisor", "review", "synthesize"} /\ ~drafted /\ ~KeepsFinal
    /\ node' = "failed"
    /\ UNCHANGED <<channels, sends, written, asks, memory, world>>

\* The worker dies and the message is redelivered: the pending super-step
\* starts again, but for branches whose writes had reached the checkpointer.
Crash ==
    /\ crashes < MaxCrashes
    /\ node \in {"execute_subtask", "synthesize"}
    /\ \E lost \in SUBSET {s \in sends : written[s] # "none"} :
        /\ written' = [s \in Subtasks |-> IF s \in lost THEN "none" ELSE written[s]]
        /\ asks' = {sig \in asks : sig[1] \notin lost}
    /\ turns' = NoTurns /\ drafted' = FALSE
    /\ crashes' = crashes + 1
    /\ UNCHANGED <<channels, node, sends, performed, outputs, passing, lessons, handedOver>>

------------------------------------------------------------------------------
Branch(s) ==
    \/ Observe(s) \/ Answer(s) \/ FailBranch(s)
    \/ \E c \in Calls : UseTool(s, c) \/ AskApproval(s, c)

WorkerStep ==
    \/ NodeSupervisor \/ PassPlanGate \/ NodeDispatch \/ NodeExecute \/ NodeReview
    \/ KeepFinal \/ WriteAnswer \/ CommitAnswer
    \/ \E s \in Subtasks : Branch(s)

HumanStep ==
    \E action \in HumanActions :
        \/ DecidePlan(action)
        \/ \E sig \in Signatures : DecideAction(sig, action)
        \/ \E s \in Subtasks : DecideFailure(s, action)

Done == node \in {"end", "failed"} /\ UNCHANGED vars

Next == WorkerStep \/ HumanStep \/ RunFails \/ Crash \/ Done

Spec == Init /\ [][Next]_vars

\* The broker redelivers a lost run, and a human answers in the end.
FairSpec == Spec /\ WF_vars(WorkerStep) /\ WF_vars(HumanStep)

------------------------------------------------------------------------------
(* Properties.                                                             *)

TypeOK ==
    /\ plan \in SUBSET Subtasks
    /\ deps \in [Subtasks -> SUBSET Subtasks]
    /\ lowConfidence \in BOOLEAN
    /\ results \in [Subtasks -> Statuses]
    /\ attempts \in [Subtasks -> Nat]
    /\ approvals \in [Signatures -> {"none", "pending", "approved", "rejected"}]
    /\ decisions \in [Subtasks -> {"none", "approve", "retry", "reject"}]
    /\ final \in {"none", "rejected", "taken_over", "synthesized"}
    /\ node \in Nodes
    /\ sends \in SUBSET Subtasks
    /\ written \in [Subtasks -> {"none", "success", "error", "ask"}]
    /\ asks \in SUBSET Signatures
    /\ turns \in [Subtasks -> 0..MaxTurns]
    /\ drafted \in BOOLEAN
    /\ performed \in [Signatures -> 0..2]
    /\ outputs \in [Subtasks -> Nat]
    /\ passing \in [Subtasks -> BOOLEAN]
    /\ lessons \in Nat
    /\ handedOver \in BOOLEAN
    /\ crashes \in 0..MaxCrashes

\* A subtask is sent, and so has a result, only once every dependency of it
\* was accepted - and an accepted dependency never stops being accepted while
\* batches, reviews, gates and crashes go by (deps_accepted, build.py:265).
DependenciesAccepted ==
    \A s \in plan : s \in sends \/ results[s] # "none" => DepsAccepted(s)

\* A subtask is judged at most MAX_SUBTASK_ATTEMPTS times, and once more only
\* when a human asked for it at the failure gate (build.py:26, :454).
AttemptCap ==
    \A s \in Subtasks :
        attempts[s] <= MAX_SUBTASK_ATTEMPTS + (IF decisions[s] = "retry" THEN 1 ELSE 0)

\* Every output of a specialist is judged exactly once, whatever was sent
\* again after a gate or a crash (node_review skips what is already decided).
JudgedOnce ==
    \A s \in Subtasks : outputs[s] = attempts[s] + (IF s \in Judged THEN 1 ELSE 0)

\* A sensitive call has run only if its own signature is approved, and still is
\* (execute_tool, execution.py:85; a later request cannot reopen the entry).
SensitiveOnlyApproved ==
    \A sig \in Signatures : performed[sig] > 0 => approvals[sig] = "approved"

\* A plan that a human rejected or took over never runs a subtask, and its
\* explanatory response survives to the end (apply_plan_decision, node_synthesize).
StoppedPlanNeverRuns ==
    final \in {"rejected", "taken_over"} =>
        /\ plan = {} /\ sends = {} /\ NoResults /\ ~drafted
        /\ \A sig \in Signatures : performed[sig] = 0

\* An output below the reviewer's threshold is accepted only by a human at the
\* failure gate (the override of reviewer.py:45).
AcceptedMeetsThreshold ==
    \A s \in Subtasks : results[s] = "accepted" => passing[s] \/ decisions[s] = "approve"

\* A valid plan reaches synthesis with every subtask accepted, unless one of
\* them was escalated: nothing is left behind by the scheduler (build.py:284).
NothingLeftBehind ==
    node \in {"synthesize", "end"} =>
        \/ \A s \in plan : results[s] = "accepted"
        \/ \E s \in plan : results[s] = "escalate"

\* A subtask that stopped to ask a human is sent again: no run reaches synthesis
\* before every subtask with a recorded request was decided (build.py:338).
NoRunEndsWaiting ==
    node \in {"synthesize", "end"} =>
        \A sig \in Signatures :
            approvals[sig] # "none" => results[sig[1]] \in {"accepted", "escalate"}

\* A human's answer about a signature is never undone by a later request for it.
AnswersStick ==
    [][\A sig \in Signatures :
          Resolved(approvals[sig]) => approvals'[sig] = approvals[sig]]_vars

\* Accepted is final, and so is a rejection at the failure gate: no later batch
\* runs such a subtask again.
VerdictsStick ==
    [][\A s \in Subtasks :
          /\ results[s] = "accepted" => results'[s] = "accepted"
          /\ decisions[s] = "reject" => results'[s] = results[s] /\ s \notin sends']_vars

\* Every run ends, if workers are restarted and humans answer: gates, retries
\* and approvals cannot send the graph round for ever.
RunEnds == <>(node \in {"end", "failed"})

------------------------------------------------------------------------------
(* The inductive invariant behind them (OrchestraGraphProofs), in layers.   *)

\* The position of the thread determines which channels are in use.
ThreadInv ==
    /\ node \in {"supervisor", "plan_approval"} =>
           /\ NoResults /\ final = "none"
           /\ \A sig \in Signatures : approvals[sig] = "none" /\ performed[sig] = 0
    /\ sends # {} => node = "execute_subtask"
    /\ \A s \in sends : s \in plan /\ results[s] \in {"none", "retry"}
    /\ \A s \in Subtasks : written[s] # "none" => s \in sends
    /\ \A sig \in asks : /\ sig[1] \in sends /\ written[sig[1]] = "ask"
                         /\ ~Resolved(approvals[sig])
    /\ \A s \in Subtasks : results[s] # "none" => s \in plan
    /\ \A s \in Subtasks : results[s] \in {"success", "error"} => node \in {"review", "failed"}
    /\ drafted => node = "synthesize" /\ ~KeepsFinal
    /\ final = "synthesized" => node = "end"
    /\ final \in {"rejected", "taken_over"} =>
           /\ node \in {"dispatch", "synthesize", "end"} /\ plan = {}
           /\ \A sig \in Signatures : performed[sig] = 0

\* The plan in force is a valid one; a subtask that was sent or that asked has
\* its dependencies accepted; synthesis starts when nothing can be scheduled.
ScheduleInv ==
    /\ KnownDeps(plan, deps) /\ Acyclic(plan, deps)
    /\ DependenciesAccepted
    /\ \A sig \in Signatures : approvals[sig] # "none" => sig[1] \in plan /\ DepsAccepted(sig[1])
    /\ node \in {"synthesize", "end"} => Ready = {} /\ Retries = {}

\* A subtask that can still be sent has an attempt left.
AttemptLimit(s) == MAX_SUBTASK_ATTEMPTS + (IF decisions[s] = "retry" THEN 1 ELSE 0)
AttemptInv ==
    \A s \in Subtasks :
        /\ attempts[s] <= AttemptLimit(s)
        /\ results[s] = "none" => attempts[s] = 0 /\ decisions[s] = "none"
        /\ results[s] \in {"success", "error", "retry"} => attempts[s] < AttemptLimit(s)
        /\ decisions[s] = "reject" => results[s] = "escalate"

------------------------------------------------------------------------------
(* What documents and comments of the repository say and the code does not. *)

\* PRD.md:21 "[When] a specialist fails twice, the run pauses and waits for a
\* human": no run ends with an escalation nobody was asked about.
EveryEscalationAsked == node = "end" => Escalated(results, decisions) = {}

\* build.py:109 "Ask a human what to do about a subtask that failed twice".
FailureGateAfterTwoFailures ==
    node = "failure_approval" =>
        \A s \in Escalated(results, decisions) : attempts[s] >= MAX_SUBTASK_ATTEMPTS

\* build.py:338 "the subtask will be re-dispatched with the decision once a
\* human answers".
AskedSubtaskIsRedispatched ==
    [][\A sig \in Signatures, action \in HumanActions :
          DecideAction(sig, action) => results[sig[1]] \in {"none", "retry"}]_vars

\* approval_nodes.py:11 "take_over  mark the task for a human and end the
\* agent's run".
TakeOverEndsRun == [][handedOver => performed' = performed]_vars

\* files/architecture.md:31 "tool calls carry an idempotency key": with one turn
\* per branch, a call does not run twice before its subtask has an output.
ApprovedCallRunsOnce ==
    \A sig \in Signatures : outputs[sig[1]] = 0 => performed[sig] <= 1

\* build.py:517 "one lesson per successful run".
OneLessonPerRun == lessons <= 1

\* docs/decisions.md:32 "then the run fails loudly": no synthesis without a plan.
InvalidPlanFails == final = "synthesized" => plan # {}
==============================================================================

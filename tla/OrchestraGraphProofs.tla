------------------------- MODULE OrchestraGraphProofs -------------------------
(***************************************************************************)
(* Proofs of the invariants of OrchestraGraph, and of what a replay of it  *)
(* keeps, for every set of subtasks, calls and drafted plans.  The         *)
(* invariant is built in layers, each inductive relative to the ones below *)
(* it:                                                                     *)
(*   TypeOK        what the variables range over                           *)
(*   ThreadInv     where the thread is determines which channels are used  *)
(*   ScheduleInv   what may be scheduled, and what is left when nothing is *)
(*   AttemptInv    how attempts, outputs and statuses are related          *)
(***************************************************************************)
EXTENDS GraphReplay, TLAPS

\* The channels and the position start in their ranges.
LEMMA TypeInit == Init => TypeOK
<1> SUFFICES ASSUME Init PROVE TypeOK
  OBVIOUS
<1> USE DEF Init
<1>1. deps \in [Subtasks -> SUBSET Subtasks]
  OBVIOUS
<1>2. approvals \in [Signatures -> {"none", "pending", "approved", "rejected"}]
  OBVIOUS
<1>3. performed \in [Signatures -> 0..2]
  OBVIOUS
<1>4. turns \in [Subtasks -> 0..MaxTurns] /\ crashes \in 0..MaxCrashes
  BY BoundsAssumption DEF NoTurns
<1>5. attempts \in [Subtasks -> Nat] /\ outputs \in [Subtasks -> Nat] /\ lessons \in Nat
  OBVIOUS
<1>6. passing \in [Subtasks -> BOOLEAN]
  OBVIOUS
<1> QED
  BY <1>1, <1>2, <1>3, <1>4, <1>5, <1>6 DEF TypeOK, Statuses, Nodes, NothingWritten

\* Every step keeps every variable in its range.
LEMMA TypeStep == TypeOK /\ [Next]_vars => TypeOK'
<1> SUFFICES ASSUME TypeOK, [Next]_vars PROVE TypeOK'
  OBVIOUS
<1> USE DEF TypeOK, Statuses, Nodes, Signatures, channels, thread, memory, world
<1>1. CASE NodeSupervisor
  BY <1>1, DraftsAssumption DEF NodeSupervisor, NoPlan, AdoptPlan
<1>2. CASE PassPlanGate
  BY <1>2 DEF PassPlanGate
<1>3. CASE NodeDispatch
  BY <1>3 DEF NodeDispatch, Ready, Retries
<1>4. CASE NodeExecute
  BY <1>4 DEF NodeExecute, NothingWritten
<1>5. CASE NodeReview
  <2>1. AttemptsAfter \in [Subtasks -> Nat]
    BY DEF AttemptsAfter
  <2>2. \A v, n : StatusAfter(v, n) \in Statuses
    BY DEF StatusAfter
  <2>3. \A res : RouteAfterReview(res) \in Nodes
    BY DEF RouteAfterReview
  <2>4. results' \in [Subtasks -> Statuses]
    BY <1>5, <2>2 DEF NodeReview
  <2>5. passing' \in [Subtasks -> BOOLEAN]
    <3>1. PICK passes \in [Judged -> BOOLEAN] :
             passing' = [s \in Subtasks |-> IF s \in Judged THEN results[s] = "success" /\ passes[s]
                                           ELSE passing[s]]
      BY <1>5 DEF NodeReview
    <3>2. ASSUME NEW s \in Subtasks
          PROVE  (IF s \in Judged THEN results[s] = "success" /\ passes[s] ELSE passing[s]) \in BOOLEAN
      OBVIOUS
    <3> QED
      BY <3>1, <3>2
  <2>6. node' \in Nodes
    BY <1>5, <2>3 DEF NodeReview
  <2> QED
    BY <1>5, <2>1, <2>4, <2>5, <2>6 DEF NodeReview
<1>6. CASE KeepFinal
  BY <1>6 DEF KeepFinal
<1>7. CASE WriteAnswer
  BY <1>7 DEF WriteAnswer
<1>8. CASE CommitAnswer
  BY <1>8 DEF CommitAnswer
<1>9. ASSUME NEW s \in Subtasks, Branch(s) PROVE TypeOK'
  <2>1. CASE Observe(s)
    BY <2>1, BoundsAssumption DEF Observe, CanTurn
  <2>2. CASE Answer(s)
    BY <2>2, BoundsAssumption DEF Answer, Return
  <2>3. CASE FailBranch(s)
    BY <2>3, BoundsAssumption DEF FailBranch, Return
  <2>4. ASSUME NEW c \in Calls, UseTool(s, c) PROVE TypeOK'
    BY <2>4, BoundsAssumption DEF UseTool, CanTurn
  <2>5. ASSUME NEW c \in Calls, AskApproval(s, c) PROVE TypeOK'
    BY <2>5, BoundsAssumption DEF AskApproval, Return
  <2> QED
    BY <1>9, <2>1, <2>2, <2>3, <2>4, <2>5 DEF Branch
<1>10. ASSUME NEW action \in HumanActions, DecidePlan(action) PROVE TypeOK'
  BY <1>10 DEF DecidePlan, PlanAfter, FinalAfter, HumanActions
<1>11. ASSUME NEW action \in HumanActions, NEW sig \in Signatures, DecideAction(sig, action)
       PROVE TypeOK'
  BY <1>11 DEF DecideAction, HumanActions
<1>12. ASSUME NEW action \in HumanActions, NEW s \in Subtasks, DecideFailure(s, action)
       PROVE TypeOK'
  BY <1>12 DEF DecideFailure, HumanActions
<1>13. CASE RunFails
  BY <1>13 DEF RunFails
<1>14. CASE Crash
  <2>1. written' \in [Subtasks -> {"none", "success", "error", "ask"}]
    BY <1>14 DEF Crash
  <2>2. asks' \in SUBSET Signatures
    BY <1>14 DEF Crash
  <2>3. crashes' \in 0..MaxCrashes
    BY <1>14, BoundsAssumption DEF Crash
  <2>4. turns' \in [Subtasks -> 0..MaxTurns]
    BY <1>14, BoundsAssumption DEF Crash, NoTurns
  <2> QED
    BY <1>14, <2>1, <2>2, <2>3, <2>4 DEF Crash
<1>15. CASE UNCHANGED vars
  BY <1>15 DEF vars
<1> HIDE DEF TypeOK, Statuses, Nodes, Signatures, channels, thread, memory, world
<1>16. CASE WorkerStep
  BY <1>16, <1>1, <1>2, <1>3, <1>4, <1>5, <1>6, <1>7, <1>8, <1>9 DEF WorkerStep
<1>17. CASE HumanStep
  BY <1>17, <1>10, <1>11, <1>12 DEF HumanStep
<1>18. CASE Done
  BY <1>18, <1>15 DEF Done
<1> QED
  BY <1>13, <1>14, <1>15, <1>16, <1>17, <1>18 DEF Next

\* Type correctness of the graph's channels, position and history.
THEOREM TypeCorrect == Spec => []TypeOK
  BY TypeInit, TypeStep, PTL DEF Spec

------------------------------------------------------------------------------
(* ThreadInv.                                                              *)

\* Before planning nothing was sent, written, asked or answered.
LEMMA ThreadInit == Init => ThreadInv
  BY DEF Init, ThreadInv, NoResults, NothingWritten, Signatures

\* A branch touches neither the channels nor the position; what it writes is
\* its own pending write, and an approval it asks for is an open one.
LEMMA BranchThread ==
  ASSUME TypeOK, ThreadInv, NEW s \in Subtasks, Branch(s)
  PROVE  ThreadInv'
<1> USE DEF channels, thread, memory, world, Signatures
<1>1. CASE Observe(s)
  BY <1>1 DEF Observe, CanTurn, Running, ThreadInv, NoResults, KeepsFinal, Resolved
<1>2. ASSUME NEW c \in Calls, UseTool(s, c) PROVE ThreadInv'
  <2>1. approvals[<<s, c>>] = "approved" /\ node = "execute_subtask" /\ s \in sends
    BY <1>2 DEF UseTool, CanTurn, Running, MayRun
  <2>2. final \notin {"rejected", "taken_over"}
    BY <2>1 DEF ThreadInv
  <2> QED
    BY <1>2, <2>1, <2>2 DEF UseTool, ThreadInv, NoResults, KeepsFinal, Resolved
<1>3. ASSUME NEW value \in {"success", "error"}, Return(s, value), UNCHANGED asks
      PROVE  ThreadInv'
  <2>1. s \in sends /\ written[s] = "none"
    BY <1>3 DEF Return, Running
  <2>2. \A sig \in asks : written'[sig[1]] = "ask"
    BY <1>3, <2>1 DEF Return, TypeOK, ThreadInv
  <2> QED
    BY <1>3, <2>1, <2>2 DEF Return, TypeOK, ThreadInv, NoResults, KeepsFinal, Resolved
<1>4. ASSUME NEW c \in Calls, AskApproval(s, c) PROVE ThreadInv'
  <2>1. s \in sends /\ written[s] = "none" /\ ~Resolved(approvals[<<s, c>>])
    BY <1>4 DEF AskApproval, Return, Running, NeedsApproval
  <2>2. ASSUME NEW sig \in asks'
        PROVE  sig[1] \in sends /\ written'[sig[1]] = "ask" /\ ~Resolved(approvals[sig])
    <3>1. CASE sig = <<s, c>>
      BY <1>4, <2>1, <3>1 DEF AskApproval, Return, TypeOK
    <3>2. CASE sig \in asks
      BY <1>4, <2>1, <3>2 DEF AskApproval, Return, TypeOK, ThreadInv
    <3> QED
      BY <1>4, <3>1, <3>2 DEF AskApproval
  <2> QED
    BY <1>4, <2>1, <2>2 DEF AskApproval, Return, TypeOK, ThreadInv, NoResults, KeepsFinal, Resolved
<1> QED
  BY <1>1, <1>2, <1>3, <1>4 DEF Branch, Answer, FailBranch

\* Every super-step, branch, human answer and crash keeps position and channels
\* in step.
LEMMA ThreadStep == TypeOK /\ ThreadInv /\ [Next]_vars => ThreadInv'
<1> SUFFICES ASSUME TypeOK, ThreadInv, [Next]_vars PROVE ThreadInv'
  OBVIOUS
<1> USE DEF channels, thread, memory, world
<1>1. CASE NodeSupervisor
  BY <1>1 DEF NodeSupervisor, ThreadInv, NoResults, KeepsFinal, Resolved
<1>2. CASE PassPlanGate
  BY <1>2 DEF PassPlanGate, ThreadInv, NoResults, KeepsFinal, Resolved
<1>3. CASE NodeDispatch
  BY <1>3 DEF NodeDispatch, Ready, Retries, TypeOK, ThreadInv, NoResults, KeepsFinal, Resolved
<1>4. CASE NodeExecute
  BY <1>4 DEF NodeExecute, NothingWritten, TypeOK, ThreadInv, NoResults, KeepsFinal, Resolved
<1>5. CASE NodeReview
  <2>1. \A v, n : StatusAfter(v, n) \in {"accepted", "retry", "escalate"}
    BY DEF StatusAfter
  <2>2. \A s \in Subtasks : results'[s] \notin {"success", "error"}
    BY <1>5, <2>1 DEF NodeReview, ThreadInv, TypeOK, Statuses, Judged
  <2>3. \A s \in Subtasks : results'[s] # "none" => s \in plan
    BY <1>5 DEF NodeReview, ThreadInv, Judged
  <2>4. node' \in {"action_approval", "failure_approval", "dispatch"}
    BY <1>5 DEF NodeReview, RouteAfterReview
  <2>5. sends = {} /\ final = "none" /\ ~drafted
    BY <1>5 DEF NodeReview, ThreadInv, TypeOK
  <2> QED
    BY <1>5, <2>2, <2>3, <2>4, <2>5 DEF NodeReview, TypeOK, ThreadInv, Resolved
<1>6. CASE KeepFinal
  BY <1>6 DEF KeepFinal, ThreadInv, NoResults, KeepsFinal, Resolved
<1>7. CASE WriteAnswer
  BY <1>7 DEF WriteAnswer, ThreadInv, NoResults, KeepsFinal, Resolved
<1>8. CASE CommitAnswer
  BY <1>8 DEF CommitAnswer, ThreadInv, NoResults, KeepsFinal, Resolved
<1>9. ASSUME NEW s \in Subtasks, Branch(s) PROVE ThreadInv'
  BY <1>9, BranchThread
<1>10. ASSUME NEW action \in HumanActions, DecidePlan(action) PROVE ThreadInv'
  BY <1>10 DEF DecidePlan, PlanAfter, FinalAfter, ThreadInv, NoResults, KeepsFinal, Resolved
<1>11. ASSUME NEW action \in HumanActions, NEW sig \in Signatures, DecideAction(sig, action)
       PROVE ThreadInv'
  BY <1>11 DEF DecideAction, TypeOK, ThreadInv, NoResults, KeepsFinal, Resolved
<1>12. ASSUME NEW action \in HumanActions, NEW s \in Subtasks, DecideFailure(s, action)
       PROVE ThreadInv'
  BY <1>12 DEF DecideFailure, Escalated, TypeOK, ThreadInv, NoResults, KeepsFinal, Resolved
<1>13. CASE RunFails
  BY <1>13 DEF RunFails, ThreadInv, NoResults, KeepsFinal, Resolved
<1>14. CASE Crash
  BY <1>14 DEF Crash, TypeOK, ThreadInv, NoResults, KeepsFinal, Resolved
<1>15. CASE UNCHANGED vars
  BY <1>15 DEF vars, ThreadInv, NoResults, KeepsFinal, Resolved
<1> HIDE DEF channels, thread, memory, world
<1>16. CASE WorkerStep
  BY <1>16, <1>1, <1>2, <1>3, <1>4, <1>5, <1>6, <1>7, <1>8, <1>9 DEF WorkerStep
<1>17. CASE HumanStep
  BY <1>17, <1>10, <1>11, <1>12 DEF HumanStep
<1>18. CASE Done
  BY <1>18, <1>15 DEF Done
<1> QED
  BY <1>13, <1>14, <1>15, <1>16, <1>17, <1>18 DEF Next

\* The position of the thread always tells which channels are in use.
THEOREM ThreadCorrect == Spec => []ThreadInv
  BY TypeCorrect, ThreadInit, ThreadStep, PTL DEF Spec

------------------------------------------------------------------------------
(* ScheduleInv.                                                            *)

\* What a step may change of what the scheduler reads: accepted is final; only
\* dispatch sends; a result comes of a branch that was sent; a request comes of
\* one that asked; and synthesis is entered with nothing to schedule.
StepShape ==
    /\ \A s \in Subtasks : results[s] = "accepted" => results'[s] = "accepted"
    /\ \A s \in sends' : s \in sends \/ (node = "dispatch" /\ s \in Ready \cup Retries)
    /\ \A s \in Subtasks : results'[s] # "none" => results[s] # "none" \/ s \in sends
    /\ \A sig \in Signatures : approvals'[sig] # "none" => approvals[sig] # "none" \/ sig \in asks
    /\ node \in {"supervisor", "plan_approval"} \/ (plan' = plan /\ deps' = deps)
    /\ node' \in {"synthesize", "end"} =>
           /\ results' = results /\ plan' = plan /\ deps' = deps
           /\ node \in {"synthesize", "end"} \/ (Ready = {} /\ Retries = {})

\* What no branch touches before its super-step commits.
LEMMA BranchFrame ==
  ASSUME NEW s \in Subtasks, Branch(s)
  PROVE  /\ UNCHANGED <<channels, node, sends, outputs, passing>>
         /\ node = "execute_subtask" /\ s \in sends
<1> USE DEF channels, thread, memory, world, Return, Running, CanTurn
<1>1. CASE Observe(s)
  BY <1>1 DEF Observe
<1>2. CASE Answer(s) \/ FailBranch(s)
  BY <1>2 DEF Answer, FailBranch
<1>3. CASE \E c \in Calls : UseTool(s, c)
  BY <1>3 DEF UseTool
<1>4. CASE \E c \in Calls : AskApproval(s, c)
  BY <1>4 DEF AskApproval
<1> QED
  BY <1>1, <1>2, <1>3, <1>4 DEF Branch

\* In the sense of scheduling, a branch is a step that changes nothing.
LEMMA BranchShape ==
  ASSUME TypeOK, ThreadInv, NEW s \in Subtasks, Branch(s) PROVE StepShape
  BY BranchFrame DEF StepShape, channels

\* Every step has the shape the scheduler relies on: nothing accepted is lost,
\* only dispatch sends, results and requests come from what was sent, and the
\* plan is fixed once it has passed its gate.
LEMMA Shape == TypeOK /\ ThreadInv /\ [Next]_vars => StepShape
<1> SUFFICES ASSUME TypeOK, ThreadInv, [Next]_vars PROVE StepShape
  OBVIOUS
<1> USE DEF channels, thread, memory, world, StepShape
<1>1. CASE NodeSupervisor
  BY <1>1 DEF NodeSupervisor
<1>2. CASE PassPlanGate
  BY <1>2 DEF PassPlanGate
<1>3. CASE NodeDispatch
  BY <1>3 DEF NodeDispatch
<1>4. CASE NodeExecute
  BY <1>4 DEF NodeExecute, TypeOK, ThreadInv
<1>5. CASE NodeReview
  <2>1. node' \notin {"synthesize", "end"} /\ sends = {} /\ sends' = {}
    BY <1>5 DEF NodeReview, RouteAfterReview, ThreadInv
  <2>2. \A s \in Subtasks : s \notin Judged => results'[s] = results[s]
    BY <1>5 DEF NodeReview
  <2>3. \A s \in Judged : results[s] \notin {"none", "accepted"}
    BY DEF Judged
  <2>4. UNCHANGED <<approvals, plan, deps>>
    BY <1>5 DEF NodeReview
  <2> QED
    BY <2>1, <2>2, <2>3, <2>4
<1>6. CASE KeepFinal
  BY <1>6 DEF KeepFinal
<1>7. CASE WriteAnswer
  BY <1>7 DEF WriteAnswer
<1>8. CASE CommitAnswer
  BY <1>8 DEF CommitAnswer
<1>9. ASSUME NEW s \in Subtasks, Branch(s) PROVE StepShape
  BY <1>9, BranchShape
<1>10. ASSUME NEW action \in HumanActions, DecidePlan(action) PROVE StepShape
  BY <1>10 DEF DecidePlan
<1>11. ASSUME NEW action \in HumanActions, NEW sig \in Signatures, DecideAction(sig, action)
       PROVE StepShape
  BY <1>11 DEF DecideAction, Pending, TypeOK
<1>12. ASSUME NEW action \in HumanActions, NEW s \in Subtasks, DecideFailure(s, action)
       PROVE StepShape
  BY <1>12 DEF DecideFailure, Escalated, TypeOK
<1>13. CASE RunFails
  BY <1>13 DEF RunFails
<1>14. CASE Crash
  BY <1>14 DEF Crash
<1>15. CASE UNCHANGED vars
  BY <1>15 DEF vars
<1> HIDE DEF channels, thread, memory, world, StepShape
<1>16. CASE WorkerStep
  BY <1>16, <1>1, <1>2, <1>3, <1>4, <1>5, <1>6, <1>7, <1>8, <1>9 DEF WorkerStep
<1>17. CASE HumanStep
  BY <1>17, <1>10, <1>11, <1>12 DEF HumanStep
<1>18. CASE Done
  BY <1>18, <1>15 DEF Done
<1> QED
  BY <1>13, <1>14, <1>15, <1>16, <1>17, <1>18 DEF Next

\* The plan gate keeps the plan or empties it; the supervisor adopts a valid one.
LEMMA PlanValid ==
  ASSUME TypeOK, ThreadInv, ScheduleInv, [Next]_vars
  PROVE  KnownDeps(plan', deps') /\ Acyclic(plan', deps')
<1> DEFINE Good(p, d) == KnownDeps(p, d) /\ Acyclic(p, d)
<1> SUFFICES Good(plan', deps')
  OBVIOUS
<1>1. Good(plan, deps)
  BY DEF ScheduleInv
<1>2. Good({}, deps)
  BY DEF KnownDeps, Acyclic
<1> HIDE DEF Good
<1>3. CASE plan' = plan /\ deps' = deps
  BY <1>1, <1>3
<1>4. CASE NodeSupervisor
  <2>1. ASSUME NEW draft \in Drafts, AdoptPlan(draft) PROVE Good(plan', deps')
    BY <2>1 DEF AdoptPlan, ValidPlan, Good
  <2> QED
    BY <1>2, <1>4, <2>1 DEF NodeSupervisor, NoPlan
<1>5. ASSUME NEW action \in HumanActions, DecidePlan(action) PROVE Good(plan', deps')
  BY <1>1, <1>2, <1>5 DEF DecidePlan, PlanAfter
<1>6. (plan' = plan /\ deps' = deps) \/ NodeSupervisor
      \/ \E action \in HumanActions : DecidePlan(action)
  <2>1. (plan' = plan /\ deps' = deps) \/ node \in {"supervisor", "plan_approval"}
    BY Shape DEF StepShape
  <2>2. ASSUME NEW s \in Subtasks, Branch(s) PROVE plan' = plan /\ deps' = deps
    BY <2>2, BranchFrame DEF channels
  <2> QED
    BY <2>1, <2>2 DEF Next, WorkerStep, HumanStep, NodeSupervisor, PassPlanGate, NodeDispatch,
       NodeExecute, NodeReview, KeepFinal, WriteAnswer, CommitAnswer, DecideAction, DecideFailure,
       RunFails, Crash, Done, vars, channels
<1> QED
  BY <1>3, <1>4, <1>5, <1>6

\* An empty plan is valid and leaves nothing to schedule.
LEMMA ScheduleInit == Init => ScheduleInv
  BY DEF Init, ScheduleInv, KnownDeps, Acyclic, DependenciesAccepted, Signatures

\* A step of that shape keeps the schedule: accepted dependencies stay accepted, and
\* synthesis is entered only by a dispatch that found nothing to send.
LEMMA ScheduleStep == TypeOK /\ ThreadInv /\ ScheduleInv /\ [Next]_vars => ScheduleInv'
<1> SUFFICES ASSUME TypeOK, ThreadInv, ScheduleInv, [Next]_vars PROVE ScheduleInv'
  OBVIOUS
<1>1. StepShape /\ TypeOK'
  BY Shape, TypeStep
<1>2. KnownDeps(plan', deps') /\ Acyclic(plan', deps')
  BY PlanValid
<1>3. CASE node \in {"supervisor", "plan_approval"}
  <2>1. \A s \in Subtasks : results'[s] = "none"
    BY <1>1, <1>3 DEF StepShape, ThreadInv, NoResults, TypeOK
  <2>2. \A sig \in Signatures : approvals'[sig] = "none"
    BY <1>1, <1>3 DEF StepShape, ThreadInv, TypeOK
  <2>3. sends' = {}
    BY <1>1, <1>3 DEF StepShape, ThreadInv
  <2>4. node' \notin {"synthesize", "end"}
    <3>1. ASSUME NEW s \in Subtasks, Branch(s) PROVE FALSE
      BY <1>3, <3>1, BranchFrame
    <3> QED
      BY <1>3, <3>1 DEF Next, WorkerStep, HumanStep, NodeSupervisor, PassPlanGate, NodeDispatch,
         NodeExecute, NodeReview, KeepFinal, WriteAnswer, CommitAnswer, DecidePlan, DecideAction,
         DecideFailure, RunFails, Crash, Done, vars, thread
  <2> QED
    BY <1>1, <1>2, <2>1, <2>2, <2>3, <2>4 DEF ScheduleInv, DependenciesAccepted, TypeOK
<1>4. CASE plan' = plan /\ deps' = deps
  <2>1. \A s \in Subtasks : DepsAccepted(s) => DepsAccepted(s)'
    BY <1>1, <1>4 DEF DepsAccepted, StepShape, TypeOK
  <2>2. ASSUME NEW s \in plan, s \in sends' \/ results'[s] # "none" PROVE DepsAccepted(s)
    BY <1>1, <2>2 DEF StepShape, ScheduleInv, DependenciesAccepted, Ready, Retries, TypeOK
  <2>3. ASSUME NEW sig \in Signatures, approvals'[sig] # "none"
        PROVE  sig[1] \in plan /\ DepsAccepted(sig[1])
    <3>1. CASE approvals[sig] # "none"
      BY <3>1 DEF ScheduleInv
    <3>2. CASE sig \in asks
      BY <3>2 DEF ScheduleInv, DependenciesAccepted, ThreadInv
    <3> QED
      BY <1>1, <2>3, <3>1, <3>2 DEF StepShape
  <2>4. node' \in {"synthesize", "end"} => (Ready = {} /\ Retries = {})'
    BY <1>1, <1>4 DEF StepShape, ScheduleInv, Ready, Retries, DepsAccepted
  <2>5. DependenciesAccepted'
    BY <1>1, <1>4, <2>1, <2>2 DEF DependenciesAccepted, TypeOK
  <2>6. \A sig \in Signatures : approvals'[sig] # "none" => sig[1] \in plan' /\ DepsAccepted(sig[1])'
    BY <1>4, <2>1, <2>3 DEF TypeOK
  <2> QED
    BY <1>2, <2>4, <2>5, <2>6 DEF ScheduleInv
<1> QED
  BY <1>1, <1>3, <1>4 DEF StepShape

\* The scheduler of dispatch works on a valid plan and accepted dependencies.
THEOREM ScheduleCorrect == Spec => []ScheduleInv
  BY TypeCorrect, ThreadCorrect, ScheduleInit, ScheduleStep, PTL DEF Spec

\* Dependencies were accepted before anything ran that depends on them.
THEOREM DependenciesAreAccepted == Spec => []DependenciesAccepted
<1>1. ScheduleInv => DependenciesAccepted
  BY DEF ScheduleInv
<1> QED
  BY <1>1, ScheduleCorrect, PTL

\* An acyclic plan has a ready subtask among those without a result, unless a
\* result of it was not accepted: the scheduler leaves nothing behind.
THEOREM NothingIsLeftBehind == Spec => []NothingLeftBehind
<1>1. TypeOK /\ ThreadInv /\ ScheduleInv => NothingLeftBehind
  <2> SUFFICES ASSUME TypeOK, ThreadInv, ScheduleInv, node \in {"synthesize", "end"},
                      \A s \in plan : results[s] # "escalate"
               PROVE  \A s \in plan : results[s] = "accepted"
    BY DEF NothingLeftBehind
  <2> DEFINE missing == {s \in plan : results[s] = "none"}
  <2>1. \A s \in plan : results[s] \in {"none", "accepted"}
    BY DEF TypeOK, Statuses, ThreadInv, ScheduleInv, Retries
  <2>2. ASSUME missing # {} PROVE FALSE
    <3>1. PICK s \in missing : deps[s] \cap missing = {}
      BY <2>2 DEF ScheduleInv, Acyclic
    <3>2. deps[s] \subseteq plan
      BY DEF ScheduleInv, KnownDeps
    <3>3. DepsAccepted(s)
      BY <2>1, <3>1, <3>2 DEF DepsAccepted
    <3> QED
      BY <3>3 DEF Ready, ScheduleInv
  <2> QED
    BY <2>1, <2>2
<1> QED
  BY <1>1, TypeCorrect, ThreadCorrect, ScheduleCorrect, PTL

\* A subtask that stopped to ask was ready, and so was sent again.
THEOREM NoRunEndsBeforeItsAnswers == Spec => []NoRunEndsWaiting
<1>1. TypeOK /\ ThreadInv /\ ScheduleInv => NoRunEndsWaiting
  <2> SUFFICES ASSUME TypeOK, ThreadInv, ScheduleInv, node \in {"synthesize", "end"},
                      NEW sig \in Signatures, approvals[sig] # "none"
               PROVE  results[sig[1]] \in {"accepted", "escalate"}
    BY DEF NoRunEndsWaiting
  <2>1. sig[1] \in Subtasks /\ sig[1] \in plan /\ DepsAccepted(sig[1])
    BY DEF ScheduleInv, Signatures
  <2>2. results[sig[1]] \notin {"none", "retry"}
    BY <2>1 DEF ScheduleInv, Ready, Retries
  <2>3. results[sig[1]] \notin {"success", "error"}
    BY <2>1 DEF ThreadInv
  <2> QED
    BY <2>1, <2>2, <2>3 DEF TypeOK, Statuses
<1> QED
  BY <1>1, TypeCorrect, ThreadCorrect, ScheduleCorrect, PTL

------------------------------------------------------------------------------
(* AttemptInv, and the judgement of every output.                          *)

\* No attempt was made yet.
LEMMA AttemptInit == Init => AttemptInv /\ JudgedOnce
  BY DEF Init, AttemptInv, AttemptLimit, MAX_SUBTASK_ATTEMPTS, JudgedOnce, Judged

\* Steps that leave results, attempts, decisions, outputs and the plan alone.
LEMMA AttemptFrame ==
  ASSUME AttemptInv, JudgedOnce, UNCHANGED <<results, attempts, decisions, outputs, plan>>
  PROVE  AttemptInv' /\ JudgedOnce'
  BY DEF AttemptInv, AttemptLimit, JudgedOnce, Judged

\* The merge of a batch adds one output to each subtask that produced one, all of
\* which have an attempt left.
LEMMA AttemptExecute ==
  ASSUME TypeOK, ThreadInv, AttemptInv, JudgedOnce, NodeExecute
  PROVE  AttemptInv' /\ JudgedOnce'
<1> DEFINE produced == {s \in sends : written[s] \in {"success", "error"}}
<1>1. /\ results' = [s \in Subtasks |-> IF s \in produced THEN written[s] ELSE results[s]]
      /\ outputs' = [s \in Subtasks |-> IF s \in produced THEN outputs[s] + 1 ELSE outputs[s]]
      /\ UNCHANGED <<plan, attempts, decisions>>
  BY DEF NodeExecute
<1>2. \A s \in produced : s \in plan /\ results[s] \in {"none", "retry"}
                          /\ written[s] \in {"success", "error"}
  BY DEF ThreadInv
<1> HIDE DEF produced
<1>3. ASSUME NEW s \in Subtasks, s \in produced
      PROVE  /\ attempts[s] < AttemptLimit(s) /\ decisions[s] # "reject"
             /\ outputs'[s] = attempts[s] + 1 /\ results'[s] \in {"success", "error"}
  BY <1>1, <1>2, <1>3 DEF AttemptInv, AttemptLimit, MAX_SUBTASK_ATTEMPTS, JudgedOnce, Judged, TypeOK
<1>4. AttemptInv'
  BY <1>1, <1>3 DEF AttemptInv, AttemptLimit, TypeOK
<1>5. JudgedOnce'
  BY <1>1, <1>2, <1>3 DEF JudgedOnce, Judged, TypeOK
<1> QED
  BY <1>4, <1>5

\* A review spends one attempt on every output, and retries only below the cap.
LEMMA AttemptReview ==
  ASSUME TypeOK, ThreadInv, AttemptInv, JudgedOnce, NodeReview
  PROVE  AttemptInv' /\ JudgedOnce'
<1>1. UNCHANGED <<plan, decisions, outputs>> /\ attempts' = AttemptsAfter
  BY DEF NodeReview
<1>2. ASSUME NEW s \in Subtasks, s \in Judged
      PROVE  /\ results'[s] \in {"accepted", "retry", "escalate"}
             /\ results'[s] = "retry" => attempts'[s] < MAX_SUBTASK_ATTEMPTS
             /\ attempts'[s] = attempts[s] + 1
             /\ attempts[s] < AttemptLimit(s) /\ decisions[s] # "reject"
  <2>1. attempts'[s] = attempts[s] + 1
    BY <1>1, <1>2 DEF AttemptsAfter
  <2>2. PICK v : results'[s] = StatusAfter(v, AttemptsAfter[s])
    BY <1>2 DEF NodeReview
  <2>3. attempts[s] < AttemptLimit(s) /\ decisions[s] # "reject"
    BY <1>2 DEF Judged, AttemptInv
  <2> QED
    BY <1>1, <2>1, <2>2, <2>3 DEF StatusAfter
<1>3. ASSUME NEW s \in Subtasks, s \notin Judged
      PROVE  results'[s] = results[s] /\ attempts'[s] = attempts[s]
  BY <1>1, <1>3 DEF NodeReview, AttemptsAfter
<1>4. AttemptInv'
  <2> SUFFICES ASSUME NEW s \in Subtasks
               PROVE  /\ attempts'[s] <= AttemptLimit(s)'
                      /\ results'[s] = "none" => attempts'[s] = 0 /\ decisions'[s] = "none"
                      /\ results'[s] \in {"success", "error", "retry"} => attempts'[s] < AttemptLimit(s)'
                      /\ decisions'[s] = "reject" => results'[s] = "escalate"
    BY DEF AttemptInv
  <2>1. AttemptLimit(s)' = AttemptLimit(s) /\ decisions'[s] = decisions[s]
    BY <1>1 DEF AttemptLimit
  <2>2. CASE s \in Judged
    BY <1>2, <2>1, <2>2 DEF AttemptLimit, MAX_SUBTASK_ATTEMPTS, TypeOK
  <2>3. CASE s \notin Judged
    BY <1>3, <2>1, <2>3 DEF AttemptInv
  <2> QED
    BY <2>2, <2>3
<1>5. JudgedOnce'
  <2> SUFFICES ASSUME NEW s \in Subtasks
               PROVE  outputs'[s] = attempts'[s] + (IF s \in Judged' THEN 1 ELSE 0)
    BY DEF JudgedOnce
  <2>1. outputs'[s] = outputs[s] /\ outputs[s] \in Nat /\ attempts[s] \in Nat
    BY <1>1 DEF TypeOK
  <2>2. CASE s \in Judged
    <3>1. s \notin Judged'
      BY <1>2, <2>2 DEF Judged
    <3> QED
      BY <1>2, <2>1, <2>2, <3>1 DEF JudgedOnce
  <2>3. CASE s \notin Judged
    <3>1. s \notin Judged'
      BY <1>1, <1>3, <2>3 DEF Judged
    <3> QED
      BY <1>3, <2>1, <2>3, <3>1 DEF JudgedOnce
  <2> QED
    BY <2>2, <2>3
<1> QED
  BY <1>4, <1>5

\* Only the merge, the review and the failure gate move attempts and outputs.
LEMMA AttemptStep ==
  TypeOK /\ ThreadInv /\ AttemptInv /\ JudgedOnce /\ [Next]_vars => AttemptInv' /\ JudgedOnce'
<1> SUFFICES ASSUME TypeOK, ThreadInv, AttemptInv, JudgedOnce, [Next]_vars
             PROVE  AttemptInv' /\ JudgedOnce'
  OBVIOUS
<1>1. CASE NodeExecute
  BY <1>1, AttemptExecute
<1>2. CASE NodeReview
  BY <1>2, AttemptReview
<1>3. ASSUME NEW s \in Subtasks, Branch(s) PROVE AttemptInv' /\ JudgedOnce'
  BY <1>3, BranchFrame, AttemptFrame DEF channels
<1>4. ASSUME NEW action \in HumanActions, NEW s \in Subtasks, DecideFailure(s, action)
      PROVE  AttemptInv' /\ JudgedOnce'
  BY <1>4 DEF DecideFailure, Escalated, AttemptInv, AttemptLimit, MAX_SUBTASK_ATTEMPTS,
     JudgedOnce, Judged, TypeOK
<1>5. CASE NodeSupervisor
  <2>1. UNCHANGED <<results, attempts, decisions, outputs>> /\ \A s \in Subtasks : results[s] = "none"
    BY <1>5 DEF NodeSupervisor, ThreadInv, NoResults, world
  <2> QED
    BY <2>1 DEF AttemptInv, AttemptLimit, JudgedOnce, Judged
<1>6. ASSUME NEW action \in HumanActions, DecidePlan(action) PROVE AttemptInv' /\ JudgedOnce'
  <2>1. UNCHANGED <<results, attempts, decisions, outputs>> /\ \A s \in Subtasks : results[s] = "none"
    BY <1>6 DEF DecidePlan, ThreadInv, NoResults
  <2> QED
    BY <2>1 DEF AttemptInv, AttemptLimit, JudgedOnce, Judged
<1>7. CASE UNCHANGED <<results, attempts, decisions, outputs, plan>>
  BY <1>7, AttemptFrame
<1>8. CASE WorkerStep
  BY <1>1, <1>2, <1>3, <1>5, <1>7, <1>8 DEF WorkerStep, PassPlanGate, NodeDispatch, KeepFinal,
     WriteAnswer, CommitAnswer, channels, world
<1>9. CASE HumanStep
  BY <1>4, <1>6, <1>7, <1>9 DEF HumanStep, DecideAction
<1>10. CASE RunFails \/ Crash \/ Done \/ UNCHANGED vars
  BY <1>7, <1>10 DEF RunFails, Crash, Done, vars, channels, world
<1> QED
  BY <1>8, <1>9, <1>10 DEF Next

\* The accounting of attempts and outputs holds throughout a run.
THEOREM AttemptCorrect == Spec => [](AttemptInv /\ JudgedOnce)
  BY TypeCorrect, ThreadCorrect, AttemptInit, AttemptStep, PTL DEF Spec

\* No subtask is judged more often than the cap and a human's retry allow.
THEOREM AttemptsAreCapped == Spec => []AttemptCap
<1>1. AttemptInv => AttemptCap
  BY DEF AttemptInv, AttemptLimit, AttemptCap
<1> QED
  BY <1>1, AttemptCorrect, PTL

\* No output of a specialist escapes judgement, and none is judged twice.
THEOREM EveryOutputIsJudgedOnce == Spec => []JudgedOnce
  BY AttemptCorrect, PTL

------------------------------------------------------------------------------
(* Humans' answers.                                                        *)

\* Only a branch's request and a human's answer change the status of a
\* signature, and neither touches one that is resolved.
LEMMA ApprovalShape ==
  ASSUME TypeOK, ThreadInv, [Next]_vars, NEW sig \in Signatures
  PROVE  /\ Resolved(approvals[sig]) => approvals'[sig] = approvals[sig]
         /\ performed'[sig] > 0 => performed[sig] > 0 \/ approvals[sig] = "approved"
<1> DEFINE Kept == approvals'[sig] = approvals[sig]
           Unused == performed'[sig] = performed[sig]
           Goal == /\ Resolved(approvals[sig]) => approvals'[sig] = approvals[sig]
                   /\ performed'[sig] > 0 => performed[sig] > 0 \/ approvals[sig] = "approved"
<1>1. CASE NodeExecute
  BY <1>1 DEF NodeExecute, ThreadInv, TypeOK
<1>2. ASSUME NEW s \in Subtasks, Branch(s) PROVE Goal
  <2>1. Kept
    BY <1>2, BranchFrame DEF channels
  <2>2. CASE \E k \in Calls : UseTool(s, k)
    <3>1. PICK k \in Calls : UseTool(s, k)
      BY <2>2
    <3>2. approvals[<<s, k>>] = "approved"
      BY <3>1 DEF UseTool, MayRun
    <3>3. sig = <<s, k>> \/ Unused
      BY <3>1 DEF UseTool, TypeOK
    <3> QED
      BY <2>1, <3>2, <3>3
  <2>3. CASE Observe(s) \/ Answer(s) \/ FailBranch(s) \/ \E k \in Calls : AskApproval(s, k)
    BY <2>1, <2>3 DEF Observe, Answer, FailBranch, AskApproval, Return, world
  <2> QED
    BY <1>2, <2>2, <2>3 DEF Branch
<1>3. ASSUME NEW action \in HumanActions, NEW asked \in Signatures, DecideAction(asked, action)
      PROVE  Goal
  BY <1>3 DEF DecideAction, Pending, Resolved, TypeOK
<1>4. CASE Kept /\ Unused
  BY <1>4
<1> HIDE DEF Goal
<1>5. CASE WorkerStep
  BY <1>1, <1>2, <1>4, <1>5 DEF WorkerStep, NodeSupervisor, PassPlanGate, NodeDispatch, NodeReview,
     KeepFinal, WriteAnswer, CommitAnswer, channels, world, Goal
<1>6. CASE HumanStep
  BY <1>3, <1>4, <1>6 DEF HumanStep, DecidePlan, DecideFailure, Goal
<1>7. CASE RunFails \/ Crash \/ Done \/ UNCHANGED vars
  BY <1>4, <1>7 DEF RunFails, Crash, Done, vars, channels, world, Goal
<1> QED
  BY <1>5, <1>6, <1>7 DEF Next, Goal

\* An approval or a rejection given by a human is never undone by a request.
THEOREM HumanAnswersStick == Spec => AnswersStick
<1> DEFINE Stick == \A sig \in Signatures :
                       Resolved(approvals[sig]) => approvals'[sig] = approvals[sig]
<1>1. TypeOK /\ ThreadInv /\ [Next]_vars => [Stick]_vars
  BY ApprovalShape
<1> QED
  BY <1>1, TypeCorrect, ThreadCorrect, PTL DEF Spec, AnswersStick

\* No sensitive call runs without the approval of that very call.
THEOREM SensitiveCallsAreApproved == Spec => []SensitiveOnlyApproved
<1>1. Init => SensitiveOnlyApproved
  BY DEF Init, SensitiveOnlyApproved
<1>2. TypeOK /\ ThreadInv /\ SensitiveOnlyApproved /\ [Next]_vars => SensitiveOnlyApproved'
  <2> SUFFICES ASSUME TypeOK, ThreadInv, SensitiveOnlyApproved, [Next]_vars,
                      NEW sig \in Signatures, performed'[sig] > 0
               PROVE  approvals'[sig] = "approved"
    BY DEF SensitiveOnlyApproved, Signatures
  <2>1. approvals[sig] = "approved"
    BY ApprovalShape DEF SensitiveOnlyApproved
  <2> QED
    BY <2>1, ApprovalShape DEF Resolved
<1> QED
  BY <1>1, <1>2, TypeCorrect, ThreadCorrect, PTL DEF Spec

\* A plan a human stopped never runs anything, and its response is kept.
THEOREM StoppedPlansNeverRun == Spec => []StoppedPlanNeverRuns
<1>1. TypeOK /\ ThreadInv => StoppedPlanNeverRuns
  BY DEF TypeOK, ThreadInv, StoppedPlanNeverRuns, NoResults, KeepsFinal
<1> QED
  BY <1>1, TypeCorrect, ThreadCorrect, PTL

------------------------------------------------------------------------------
(* Verdicts.                                                               *)

\* What a step may do to a result: a branch's output replaces none or retry, a
\* review replaces an output, a human an escalation nobody has decided.
LEMMA ResultShape ==
  ASSUME TypeOK, ThreadInv, [Next]_vars, NEW s \in Subtasks,
         ~NodeReview, results'[s] # results[s]
  PROVE  \/ s \in sends /\ results'[s] \in {"success", "error"}
         \/ /\ results[s] = "escalate" /\ decisions[s] = "none"
            /\ results'[s] = "accepted" => decisions'[s] = "approve"
<1>1. CASE NodeExecute
  BY <1>1 DEF NodeExecute
<1>2. ASSUME NEW r \in Subtasks, Branch(r) PROVE FALSE
  BY <1>2, BranchFrame DEF channels
<1>3. ASSUME NEW action \in HumanActions, NEW r \in Subtasks, DecideFailure(r, action)
      PROVE  /\ results[s] = "escalate" /\ decisions[s] = "none"
             /\ results'[s] = "accepted" => decisions'[s] = "approve"
  <2>1. s = r
    BY <1>3 DEF DecideFailure, TypeOK
  <2> QED
    BY <1>3, <2>1 DEF DecideFailure, Escalated, TypeOK
<1>4. CASE WorkerStep
  BY <1>1, <1>2, <1>4 DEF WorkerStep, NodeSupervisor, PassPlanGate, NodeDispatch, KeepFinal,
     WriteAnswer, CommitAnswer, channels
<1>5. CASE HumanStep
  BY <1>3, <1>5 DEF HumanStep, DecidePlan, DecideAction
<1>6. CASE RunFails \/ Crash \/ Done \/ UNCHANGED vars
  BY <1>6 DEF RunFails, Crash, Done, vars, channels
<1> QED
  BY <1>4, <1>5, <1>6 DEF Next

\* A human's decision on a subtask is only ever made where there is none.
LEMMA DecisionShape ==
  ASSUME TypeOK, [Next]_vars, NEW s \in Subtasks, decisions[s] # "none"
  PROVE  decisions'[s] = decisions[s]
<1>1. ASSUME NEW r \in Subtasks, Branch(r) PROVE decisions'[s] = decisions[s]
  BY <1>1, BranchFrame DEF channels
<1>2. CASE WorkerStep
  BY <1>1, <1>2 DEF WorkerStep, NodeSupervisor, PassPlanGate, NodeDispatch, NodeExecute, NodeReview,
     KeepFinal, WriteAnswer, CommitAnswer, channels
<1>3. CASE HumanStep
  BY <1>3 DEF HumanStep, DecidePlan, DecideAction, DecideFailure, Escalated, TypeOK
<1>4. CASE RunFails \/ Crash \/ Done \/ UNCHANGED vars
  BY <1>4 DEF RunFails, Crash, Done, vars, channels
<1> QED
  BY <1>2, <1>3, <1>4 DEF Next

\* Accepted subtasks and those a human rejected are settled for good.
THEOREM SettledVerdictsStick == Spec => VerdictsStick
<1> DEFINE Stick == \A s \in Subtasks :
                       /\ results[s] = "accepted" => results'[s] = "accepted"
                       /\ decisions[s] = "reject" => results'[s] = results[s] /\ s \notin sends'
<1>1. TypeOK /\ ThreadInv /\ AttemptInv /\ [Next]_vars => [Stick]_vars
  <2> SUFFICES ASSUME TypeOK, ThreadInv, AttemptInv, [Next]_vars, NEW s \in Subtasks
               PROVE  /\ results[s] = "accepted" => results'[s] = "accepted"
                      /\ decisions[s] = "reject" => results'[s] = results[s] /\ s \notin sends'
    OBVIOUS
  <2>1. results[s] = "accepted" => results'[s] = "accepted"
    BY Shape DEF StepShape
  <2>2. ASSUME decisions[s] = "reject" PROVE results'[s] = results[s] /\ s \notin sends'
    <3>1. results[s] = "escalate"
      BY <2>2 DEF AttemptInv
    <3>2. s \notin sends'
      BY <3>1, Shape DEF StepShape, ThreadInv, Ready, Retries
    <3>3. NodeReview => results'[s] = results[s]
      BY <3>1 DEF NodeReview, Judged
    <3>4. s \notin sends
      BY <3>1 DEF ThreadInv
    <3> QED
      BY <2>2, <3>2, <3>3, <3>4, ResultShape
  <2> QED
    BY <2>1, <2>2
<1> QED
  BY <1>1, TypeCorrect, ThreadCorrect, AttemptCorrect, PTL DEF Spec, VerdictsStick

\* Only a human accepts an output that the reviewer scored below the threshold.
THEOREM AcceptedOutputsMeetThreshold == Spec => []AcceptedMeetsThreshold
<1>1. Init => AcceptedMeetsThreshold
  BY DEF Init, AcceptedMeetsThreshold
<1>2. TypeOK /\ ThreadInv /\ AcceptedMeetsThreshold /\ [Next]_vars => AcceptedMeetsThreshold'
  <2> SUFFICES ASSUME TypeOK, ThreadInv, AcceptedMeetsThreshold, [Next]_vars,
                      NEW s \in Subtasks, results'[s] = "accepted"
               PROVE  passing'[s] \/ decisions'[s] = "approve"
    BY DEF AcceptedMeetsThreshold
  <2>1. decisions[s] = "approve" => decisions'[s] = "approve"
    BY DecisionShape
  <2>2. CASE NodeReview /\ s \in Judged
    <3>1. PICK answer \in [Judged -> ReviewerAnswers], passes \in [Judged -> BOOLEAN] :
            /\ results' = [r \in Subtasks |->
                  IF r \in Judged
                  THEN StatusAfter(VerdictOn(r, answer[r], passes[r]), AttemptsAfter[r])
                  ELSE results[r]]
            /\ passing' = [r \in Subtasks |-> IF r \in Judged THEN results[r] = "success" /\ passes[r]
                                              ELSE passing[r]]
      BY <2>2 DEF NodeReview
    <3>2. StatusAfter(VerdictOn(s, answer[s], passes[s]), AttemptsAfter[s]) = "accepted"
      BY <2>2, <3>1
    <3>3. VerdictOn(s, answer[s], passes[s]) = "accept"
      BY <3>2 DEF StatusAfter
    <3>4. results[s] # "error" /\ passes[s]
      BY <3>3 DEF VerdictOn, ReviewerVerdict
    <3>5. results[s] = "success"
      BY <2>2, <3>4 DEF Judged
    <3>6. passing'[s] = (results[s] = "success" /\ passes[s])
      BY <2>2, <3>1
    <3> QED
      BY <3>4, <3>5, <3>6
  <2>3. CASE NodeReview /\ s \notin Judged
    BY <2>1, <2>3 DEF NodeReview, AcceptedMeetsThreshold
  <2>4. CASE ~NodeReview
    <3>1. passing' = passing
      <4>1. ASSUME NEW r \in Subtasks, Branch(r) PROVE passing' = passing
        BY <4>1, BranchFrame
      <4> QED
        BY <2>4, <4>1 DEF Next, WorkerStep, HumanStep, NodeSupervisor, PassPlanGate, NodeDispatch,
           NodeExecute, KeepFinal, WriteAnswer, CommitAnswer, DecidePlan, DecideAction,
           DecideFailure, RunFails, Crash, Done, vars, world
    <3>2. results[s] = "accepted" \/ decisions'[s] = "approve"
      BY <2>4, ResultShape
    <3> QED
      BY <2>1, <3>1, <3>2 DEF AcceptedMeetsThreshold
  <2> QED
    BY <2>2, <2>3, <2>4
<1> QED
  BY <1>1, <1>2, TypeCorrect, ThreadCorrect, PTL DEF Spec

------------------------------------------------------------------------------
(* What a replay keeps.  The lemmas above about the results cannot be     *)
(* used: they rest on ThreadInv, and a replay starts with results at the   *)
(* supervisor.                                                             *)

SeedInv ==
    /\ replaying \in BOOLEAN
    /\ ~replaying => seed = NoSeed
    /\ \A s \in Subtasks : seed[s] = "accepted" =>
           results[s] = "accepted" /\ outputs[s] = 0 /\ s \notin sends

LEMMA SeedInit == ReplayInit => SeedInv
  BY DEF ReplayInit, SeedInv, NoSeed

\* A replay sends what is ready or in retry, and accepted is neither; only what
\* was sent is written, and only a written output is judged.
LEMMA ReplayKeepsAccepted ==
  ASSUME SeedInv, ReplayStep PROVE SeedInv'
<1> SUFFICES ASSUME NEW s \in Subtasks, seed[s] = "accepted"
             PROVE  results'[s] = "accepted" /\ outputs'[s] = 0 /\ s \notin sends'
  BY DEF SeedInv, ReplayStep, request
<1> USE DEF channels, thread, memory, world
<1>1. results[s] = "accepted" /\ outputs[s] = 0 /\ s \notin sends
  BY DEF SeedInv
<1>2. CASE NodeDispatch
  BY <1>1, <1>2 DEF NodeDispatch, Ready, Retries
<1>3. CASE NodeExecute
  BY <1>1, <1>3 DEF NodeExecute
<1>4. CASE NodeReview
  <2>1. s \notin Judged
    BY <1>1 DEF Judged
  <2> QED
    BY <1>1, <1>4, <2>1 DEF NodeReview
<1>5. CASE NodeSupervisor \/ PassPlanGate \/ KeepFinal \/ WriteAnswer \/ CommitAnswer
            \/ ReplayFails
  BY <1>1, <1>5 DEF NodeSupervisor, PassPlanGate, KeepFinal, WriteAnswer, CommitAnswer, ReplayFails
<1>6. ASSUME NEW r \in Subtasks, Observe(r) \/ Answer(r) \/ FailBranch(r)
      PROVE  results'[s] = "accepted" /\ outputs'[s] = 0 /\ s \notin sends'
  BY <1>1, <1>6 DEF Observe, Answer, FailBranch, Return
<1> QED
  BY <1>2, <1>3, <1>4, <1>5, <1>6 DEF ReplayStep, ReplayNode

LEMMA SeedStep == SeedInv /\ [ReplayNext]_replayVars => SeedInv'
<1> SUFFICES ASSUME SeedInv, [ReplayNext]_replayVars PROVE SeedInv'
  OBVIOUS
<1>1. CASE SourceStep
  <2>1. seed' = NoSeed /\ replaying' = FALSE
    BY <1>1 DEF SourceStep, SeedInv, request
  <2> QED
    BY <2>1 DEF SeedInv, NoSeed
<1>2. CASE Replay
  <2>1. \A s \in Subtasks : outputs'[s] = 0
    BY <1>2 DEF Replay
  <2>2. results' = seed' /\ sends' = {} /\ replaying' = TRUE
    BY <1>2 DEF Replay, ApplyEdits, CarriedOver
  <2> QED
    BY <2>1, <2>2 DEF SeedInv
<1>3. CASE ReplayStep
  BY <1>3, ReplayKeepsAccepted
<1>4. CASE UNCHANGED replayVars
  BY <1>4 DEF SeedInv, replayVars, request, vars, channels, thread, world
<1> QED
  BY <1>1, <1>2, <1>3, <1>4 DEF ReplayNext

\* What the source run had accepted and the request does not replace is neither
\* executed nor judged again by the replay, whatever else the request edits
\* (graph/replay.py:54-64, :101, build.py:259).
THEOREM AcceptedResultsStay == ReplaySpec => []AcceptedStays
<1>1. SeedInv => AcceptedStays
  BY DEF SeedInv, AcceptedStays
<1> QED
  BY <1>1, SeedInit, SeedStep, PTL DEF ReplaySpec
==============================================================================

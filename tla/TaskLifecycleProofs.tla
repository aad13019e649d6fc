------------------------ MODULE TaskLifecycleProofs ------------------------
(***************************************************************************)
(* What holds of API, queue and workers for any number of gates, crashes    *)
(* and failures, humans and answers: decisions stay, and, as long as no two  *)
(* jobs drive the run at once, the run only goes forward, a completed task   *)
(* is one whose run has ended, and no task is left queued or running but by *)
(* a lost message.                                                         *)
(*                                                                         *)
(* Then that the system implements GateContract, for any number of gates    *)
(* and of worker slots and for an API that may die, as long as no message   *)
(* is delivered twice and one human decides, what the contract promises,    *)
(* and what the clients are told.                                          *)
(***************************************************************************)
EXTENDS EventStream, GateContract, SequenceTheorems, TLAPS

USE DEF history

\* The ranges, with those a job and a request have once they are under way.
RangeInv ==
    /\ TypeOK
    /\ \A w \in Workers :
           job[w].at \notin {"idle", "ack"} => job[w].answer \in {"none"} \cup Answers
    /\ \A h \in Humans :
           human[h].at # "rest" => human[h].gate \in GateIds /\ human[h].answer \in Answers

------------------------------------------------------------------------------
(* The ranges.                                                             *)

\* A status of a run row is overwritten, wherever the index of the job points.
LEMMA StatusReplaced ==
  ASSUME NEW S, NEW s \in Seq(S), NEW i, NEW e \in S
  PROVE  [s EXCEPT ![i] = e] \in Seq(S) /\ Len([s EXCEPT ![i] = e]) = Len(s)
<1>1. CASE i \in 1..Len(s)
  BY <1>1, ExceptSeq
<1>2. CASE i \notin 1..Len(s)
  <2>1. DOMAIN s = 1..Len(s)
    OBVIOUS
  <2>2. [s EXCEPT ![i] = e] = s
    BY <1>2, <2>1
  <2> QED
    BY <2>2
<1> QED
  BY <1>1, <1>2

LEMMA RangeInit == Init => RangeInv
  BY GatesAssumption DEF Init, RangeInv, TypeOK, Statuses, Messages, RunTask, AtRest, Idle,
     Stages, Positions, End, GateIds

LEMMA QueueGrows ==
  ASSUME ready \in [Messages -> Nat], NEW m \in Messages, Enqueue(m)
  PROVE  ready' \in [Messages -> Nat]
  BY DEF Enqueue

\* What is known of a request in progress.
RequestType == [at : {"rest", "resolve", "enqueue"}, gate : 0..Gates, answer : {"none"} \cup Answers]
HumansTyped ==
    /\ human \in [Humans -> RequestType]
    /\ \A h \in Humans :
           human[h].at # "rest" => human[h].gate \in GateIds /\ human[h].answer \in Answers

LEMMA RequestEnds ==
  ASSUME HumansTyped, NEW h \in Humans, human' = [human EXCEPT ![h] = AtRest]
  PROVE  HumansTyped'
<1>1. AtRest \in RequestType /\ AtRest.at = "rest"
  BY GatesAssumption DEF AtRest, RequestType
<1> HIDE DEF RequestType, AtRest
<1> QED
  BY <1>1 DEF HumansTyped

LEMMA RangeApi ==
  ASSUME RangeInv, Create \/ ApiCrash \/ \E h \in Humans : Decide(h)
  PROVE  RangeInv'
<1> USE GatesAssumption DEF RangeInv, TypeOK, Statuses, GateIds, Messages, RunTask
<1>1. CASE InsertTask
  BY <1>1 DEF InsertTask, bounds
<1>2. CASE EnqueueRun
  <2>1. ready' \in [Messages -> Nat]
    BY <1>2, QueueGrows DEF EnqueueRun
  <2> QED
    BY <1>2, <2>1 DEF EnqueueRun, bounds
<1>3. CASE ApiCrash
  <2>1. apiCrashes' \in Nat /\ creating' \in {"insert", "enqueue", "done"} /\ lost' \subseteq Messages
    <3>1. apiCrashes' \in Nat /\ creating' \in {"insert", "enqueue", "done"}
      BY <1>3 DEF ApiCrash
    <3>2. \/ lost' \in {lost, lost \cup {RunTask}}
          \/ \E h \in Humans : human[h].at # "rest" /\ lost' \in {lost, lost \cup {human[h].gate}}
      BY <1>3 DEF ApiCrash
    <3> QED
      BY <3>1, <3>2
  <2>2. HumansTyped'
    <3>1. HumansTyped
      BY DEF HumansTyped, RequestType
    <3> QED
      BY <1>3, <3>1, RequestEnds DEF ApiCrash, HumansTyped, RequestType
  <2> QED
    BY <1>3, <2>1, <2>2 DEF ApiCrash, store, HumansTyped, RequestType
<1>4. ASSUME NEW h \in Humans, NEW g \in GateIds, NEW answer \in Answers, CheckApproval(h, g, answer)
      PROVE  RangeInv'
  BY <1>4 DEF CheckApproval, store, bounds
<1>5. ASSUME NEW h \in Humans, ResolveApproval(h) PROVE RangeInv'
  BY <1>5 DEF ResolveApproval, bounds
<1>6. ASSUME NEW h \in Humans, EnqueueResume(h) PROVE RangeInv'
  <2>1. ready' \in [Messages -> Nat]
    BY <1>6, QueueGrows DEF EnqueueResume
  <2>2. HumansTyped'
    <3>1. HumansTyped
      BY DEF HumansTyped, RequestType
    <3> QED
      BY <1>6, <3>1, RequestEnds DEF EnqueueResume
  <2> QED
    BY <1>6, <2>1, <2>2 DEF EnqueueResume, bounds, HumansTyped, RequestType
<1> QED
  BY <1>1, <1>2, <1>3, <1>4, <1>5, <1>6 DEF Create, Decide

\* What is known of a job.
JobType == [at : Stages, msg : Messages, answer : {"none", "pending"} \cup Answers,
            hasCheckpoint : BOOLEAN, run : Nat, pos : Positions, expired : BOOLEAN]
JobsTyped ==
    /\ job \in [Workers -> JobType]
    /\ \A w \in Workers :
           job[w].at \notin {"idle", "ack"} => job[w].answer \in {"none"} \cup Answers

LEMMA JobChanges ==
  ASSUME JobsTyped, NEW w \in Workers, NEW new \in JobType, job' = [job EXCEPT ![w] = new],
         new.at \notin {"idle", "ack"} => new.answer \in {"none"} \cup Answers
  PROVE  JobsTyped'
<1> HIDE DEF JobType
<1> QED
  BY DEF JobsTyped

LEMMA JobMoves ==
  ASSUME JobsTyped, NEW w \in Workers, NEW stage \in Stages, job' = Moved(w, stage),
         job[w].at # "idle" /\ (job[w].at = "ack" => stage \in {"idle", "ack"})
  PROVE  JobsTyped'
<1> DEFINE new == [job[w] EXCEPT !.at = stage]
<1>1. new \in JobType /\ new.at = stage /\ new.answer = job[w].answer
  BY DEF JobsTyped, JobType
<1>2. job' = [job EXCEPT ![w] = new]
  BY DEF Moved
<1>3. stage \notin {"idle", "ack"} => job[w].answer \in {"none"} \cup Answers
  BY DEF JobsTyped
<1> HIDE DEF new
<1> QED
  BY <1>1, <1>2, <1>3, JobChanges

LEMMA IdleTyped == Idle \in JobType /\ Idle.at = "idle"
  BY GatesAssumption DEF Idle, JobType, Stages, Messages, RunTask, Positions, End

LEMMA JobIdles ==
  ASSUME JobsTyped, NEW w \in Workers, job' = [job EXCEPT ![w] = Idle]
  PROVE  JobsTyped'
  BY IdleTyped, JobChanges

\* A job that has been taken, and one that starts or goes on with the run.
LEMMA RangeStart ==
  ASSUME RangeInv, NEW w \in Workers,
         (\E m \in Messages : Take(w, m)) \/ Read(w) \/ Open(w) \/ FindRun(w) \/ StartRun(w)
  PROVE  RangeInv'
<1>0. JobsTyped /\ runs \in Seq({"running", "awaiting_human", "completed", "failed"})
  BY DEF RangeInv, TypeOK, JobsTyped, JobType
<1>1. ASSUME NEW m \in Messages, Take(w, m) PROVE RangeInv'
  <2> DEFINE new == [Idle EXCEPT !.at = "connect", !.msg = m]
  <2>1. job' = [job EXCEPT ![w] = new]
    BY <1>1 DEF Take
  <2>2. new \in JobType /\ new.answer = "none"
    BY IdleTyped DEF JobType, Stages, Idle
  <2> HIDE DEF new
  <2>3. JobsTyped'
    BY <1>0, <2>1, <2>2, JobChanges
  <2>4. ready' \in [Messages -> Nat]
    <3>1. ready \in [Messages -> Nat]
      BY DEF RangeInv, TypeOK
    <3>2. ready[m] > 0 /\ ready' = [ready EXCEPT ![m] = @ - 1]
      BY <1>1 DEF Take, Available
    <3> QED
      BY <3>1, <3>2
  <2> QED
    BY <1>1, <2>3, <2>4 DEF Take, bounds, RangeInv, TypeOK, JobsTyped, JobType
<1>2. CASE Read(w)
  <2> DEFINE m == job[w].msg
             new == [job[w] EXCEPT !.answer = Recorded(m), !.at = IF MayGoOn(m) THEN "run" ELSE "ack"]
  <2>1. m \in Messages /\ job[w] \in JobType
    BY <1>0 DEF JobsTyped, JobType
  <2>2. Recorded(m) \in {"none", "pending"} \cup Answers
    BY <2>1 DEF Recorded, RangeInv, TypeOK, Messages
  <2>3. MayGoOn(m) => Recorded(m) \in {"none"} \cup Answers
    BY DEF MayGoOn, Recorded, Resolved
  <2> HIDE DEF m
  <2>4. new.at = (IF MayGoOn(m) THEN "run" ELSE "ack") /\ new.answer = Recorded(m)
    BY <2>1 DEF JobType
  <2>5. /\ new \in JobType
        /\ new.at \notin {"idle", "ack"} => new.answer \in {"none"} \cup Answers
    BY <2>1, <2>2, <2>3, <2>4 DEF JobType, Stages
  <2>6. job' = [job EXCEPT ![w] = new]
    BY <1>2 DEF Read, m
  <2> HIDE DEF new
  <2>7. JobsTyped'
    BY <1>0, <2>5, <2>6, JobChanges
  <2> QED
    BY <1>2, <2>7 DEF Read, store, bounds, RangeInv, TypeOK, JobsTyped, JobType
<1>4. CASE Open(w)
  <2> DEFINE new == [job[w] EXCEPT !.hasCheckpoint = thread # 0, !.at = "find"]
  <2>1. /\ new \in JobType
        /\ new.at \notin {"idle", "ack"} => new.answer \in {"none"} \cup Answers
    BY <1>0, <1>4 DEF Open, At, JobsTyped, JobType, Stages
  <2>2. job' = [job EXCEPT ![w] = new]
    BY <1>4 DEF Open
  <2> HIDE DEF new
  <2>3. JobsTyped'
    BY <1>0, <2>1, <2>2, JobChanges
  <2> QED
    BY <1>4, <2>3 DEF Open, store, bounds, RangeInv, TypeOK, JobsTyped, JobType
<1>5. CASE FindRun(w)
  <2> DEFINE new == [job[w] EXCEPT !.run = Len(runs), !.at = IF NeedsRun THEN "start" ELSE "invoke"]
  <2>1. /\ new \in JobType
        /\ new.at \notin {"idle", "ack"} => new.answer \in {"none"} \cup Answers
    BY <1>0, <1>5 DEF FindRun, At, JobsTyped, JobType, Stages
  <2>2. job' = [job EXCEPT ![w] = new]
    BY <1>5 DEF FindRun
  <2> HIDE DEF new
  <2>3. JobsTyped'
    BY <1>0, <2>1, <2>2, JobChanges
  <2> QED
    BY <1>5, <2>3 DEF FindRun, store, bounds, RangeInv, TypeOK, JobsTyped, JobType
<1>3. CASE StartRun(w)
  <2> DEFINE new == [job[w] EXCEPT !.run = Len(runs'), !.at = "invoke"]
  <2>1. runs' \in Seq({"running", "awaiting_human", "completed", "failed"}) /\ Len(runs') \in Nat
    BY <1>0, <1>3 DEF StartRun
  <2>2. /\ new \in JobType
        /\ new.at \notin {"idle", "ack"} => new.answer \in {"none"} \cup Answers
    BY <1>0, <1>3, <2>1 DEF StartRun, At, JobsTyped, JobType, Stages
  <2>3. job' = [job EXCEPT ![w] = new]
    BY <1>3 DEF StartRun
  <2> HIDE DEF new
  <2>4. JobsTyped'
    BY <1>0, <2>2, <2>3, JobChanges
  <2> QED
    BY <1>3, <2>1, <2>4 DEF StartRun, bounds, RangeInv, TypeOK, JobsTyped, JobType
<1> QED
  BY <1>1, <1>2, <1>3, <1>4, <1>5

\* Where the run can be, and where a job leaves it.
LEMMA PositionsTyped ==
  /\ \A k \in 0..Gates : WorkAfter(k) \in Positions /\ Onward(k) \subseteq Positions
  /\ \A k \in GateIds : AtGate(k) \in Positions /\ k \in 0..Gates /\ k \in Messages
  BY GatesAssumption DEF WorkAfter, AtGate, Onward, Positions, End, GateIds, Messages

LEMMA RangeRun ==
  ASSUME RangeInv, NEW w \in Workers, Invoke(w) \/ Drive(w) \/ PassGate(w)
  PROVE  RangeInv'
<1>0. JobsTyped /\ thread \in Positions
  BY DEF RangeInv, TypeOK, JobsTyped, JobType
<1>1. CASE Invoke(w)
  <2>1. thread' \in Positions
    <3>1. WorkAfter(0) \in Positions
      BY PositionsTyped, GatesAssumption
    <3> QED
      BY <1>0, <1>1, <3>1 DEF Invoke
  <2> DEFINE keeps == \E k \in GateIds : thread' = AtGate(k)
             new == [job[w] EXCEPT !.pos = thread', !.at = "drive",
                                   !.answer = IF keeps THEN @ ELSE "none"]
  <2>2. job' = [job EXCEPT ![w] = new]
    BY <1>1 DEF Invoke
  <2> HIDE DEF keeps
  <2>3. /\ new \in JobType
        /\ new.at \notin {"idle", "ack"} => new.answer \in {"none"} \cup Answers
    BY <1>0, <1>1, <2>1 DEF Invoke, At, JobsTyped, JobType, Stages
  <2> HIDE DEF new
  <2>4. JobsTyped'
    BY <1>0, <2>2, <2>3, JobChanges
  <2> QED
    BY <1>1, <2>1, <2>4 DEF Invoke, bounds, RangeInv, TypeOK, JobsTyped, JobType
<1>2. CASE Drive(w)
  <2>1. thread' \in Positions
    BY <1>2, PositionsTyped DEF Drive
  <2> DEFINE new == [job[w] EXCEPT !.pos = thread']
  <2>2. /\ new \in JobType
        /\ new.at \notin {"idle", "ack"} => new.answer \in {"none"} \cup Answers
    BY <1>0, <1>2, <2>1 DEF Drive, At, JobsTyped, JobType, Stages
  <2>3. job' = [job EXCEPT ![w] = new]
    BY <1>2 DEF Drive
  <2> HIDE DEF new
  <2>4. JobsTyped'
    BY <1>0, <2>2, <2>3, JobChanges
  <2> QED
    BY <1>2, <2>1, <2>4 DEF Drive, bounds, RangeInv, TypeOK, JobsTyped, JobType
<1>3. CASE PassGate(w)
  <2>1. PICK k \in GateIds : /\ thread' = WorkAfter(k)
                             /\ applied' = [applied EXCEPT ![k] = <<job[w].msg, job[w].answer>>]
    BY <1>3 DEF PassGate
  <2>2. thread' \in Positions
    BY <2>1, PositionsTyped
  <2>3. applied' \in [GateIds -> (0..Gates) \X ({"none"} \cup Answers)]
    <3>1. job[w].msg \in 0..Gates /\ job[w].answer \in {"none"} \cup Answers
      BY <1>0, <1>3, GatesAssumption DEF PassGate, At, JobsTyped, JobType, Messages, RunTask, GateIds
    <3> QED
      BY <2>1, <3>1 DEF RangeInv, TypeOK
  <2> DEFINE new == [job[w] EXCEPT !.pos = thread', !.answer = "none"]
  <2>4. /\ new \in JobType
        /\ new.at \notin {"idle", "ack"} => new.answer \in {"none"} \cup Answers
    BY <1>0, <2>2 DEF JobsTyped, JobType, Stages
  <2>5. job' = [job EXCEPT ![w] = new]
    BY <1>3 DEF PassGate
  <2> HIDE DEF new
  <2>6. JobsTyped'
    BY <1>0, <2>4, <2>5, JobChanges
  <2> QED
    BY <1>3, <2>2, <2>3, <2>6 DEF PassGate, bounds, RangeInv, TypeOK, JobsTyped, JobType
<1> QED
  BY <1>1, <1>2, <1>3

\* The other steps only move a job on and write a row.
RunStatuses == {"running", "awaiting_human", "completed", "failed"}

LEMMA RangeRest ==
  ASSUME RangeInv, NEW w \in Workers,
         \/ SetRunning(w) \/ Return(w) \/ Publish(w) \/ SetAwaiting(w) \/ MarkPaused(w)
         \/ CompleteTask(w) \/ CompleteRun(w) \/ Raise(w) \/ FailTask(w) \/ FailRun(w)
         \/ Ack(w) \/ Crash(w) \/ Expire(w)
  PROVE  RangeInv'
<1>0. JobsTyped /\ runs \in Seq(RunStatuses)
  BY DEF RangeInv, TypeOK, JobsTyped, JobType, RunStatuses
<1>1. CASE SetRunning(w)
  <2>1. JobsTyped'
    BY <1>0, <1>1, JobMoves DEF SetRunning, At, Stages
  <2>2. lost' \subseteq Messages
    BY <1>1 DEF SetRunning, RangeInv, TypeOK
  <2> QED
    BY <1>1, <2>1, <2>2 DEF SetRunning, bounds, Statuses, RangeInv, TypeOK, JobsTyped, JobType
<1>2. CASE Return(w)
  <2>1. JobsTyped'
    BY <1>0, <1>2, JobMoves DEF Return, AfterReturn, At, Stages
  <2> QED
    BY <1>2, <2>1 DEF Return, store, bounds, RangeInv, TypeOK, JobsTyped, JobType
<1>3. CASE Publish(w)
  <2>1. JobsTyped'
    BY <1>0, <1>3, JobMoves DEF Publish, At, Stages
  <2>2. rows' \in [GateIds -> {"none", "pending"} \cup Answers]
    <3>1. \A k \in GateIds : RowAfterPause(k) \in {"none", "pending"} \cup Answers
      BY DEF RowAfterPause, RangeInv, TypeOK
    <3> QED
      BY <1>3, <3>1 DEF Publish, RangeInv, TypeOK
  <2> QED
    BY <1>3, <2>1, <2>2 DEF Publish, bounds, RangeInv, TypeOK, JobsTyped, JobType
<1>4. CASE SetAwaiting(w)
  <2>1. JobsTyped'
    BY <1>0, <1>4, JobMoves DEF SetAwaiting, At, Stages
  <2> QED
    BY <1>4, <2>1 DEF SetAwaiting, bounds, Statuses, RangeInv, TypeOK, JobsTyped, JobType
<1>5. CASE MarkPaused(w)
  <2>1. JobsTyped'
    BY <1>0, <1>5, JobMoves DEF MarkPaused, At, Stages
  <2>2. runs' \in Seq(RunStatuses)
    BY <1>0, <1>5, StatusReplaced DEF MarkPaused, RunStatuses
  <2> QED
    BY <1>5, <2>1, <2>2 DEF MarkPaused, bounds, RunStatuses, RangeInv, TypeOK, JobsTyped, JobType
<1>6. CASE CompleteTask(w)
  <2>1. JobsTyped'
    BY <1>0, <1>6, JobMoves DEF CompleteTask, At, Stages
  <2> QED
    BY <1>6, <2>1 DEF CompleteTask, bounds, Statuses, RangeInv, TypeOK, JobsTyped, JobType
<1>7. CASE CompleteRun(w)
  <2>1. JobsTyped'
    BY <1>0, <1>7, JobMoves DEF CompleteRun, At, Stages
  <2>2. runs' \in Seq(RunStatuses)
    BY <1>0, <1>7, StatusReplaced DEF CompleteRun, RunStatuses
  <2> QED
    BY <1>7, <2>1, <2>2 DEF CompleteRun, bounds, RunStatuses, RangeInv, TypeOK, JobsTyped, JobType
<1>8. CASE Raise(w)
  <2>1. job[w].at # "idle" /\ job[w].at # "ack"
    BY <1>8 DEF Raise, Fallible
  <2>2. PICK stage \in AfterRaise(w) : job' = Moved(w, stage)
    BY <1>8 DEF Raise
  <2>3. stage \in Stages
    BY <2>2 DEF AfterRaise, Stages
  <2>4. JobsTyped'
    BY <1>0, <2>1, <2>2, <2>3, JobMoves
  <2>5. failures' \in Nat
    BY <1>8 DEF Raise, RangeInv, TypeOK
  <2>6. lost' \subseteq Messages
    <3>1. job[w].msg \in Messages /\ lost \subseteq Messages
      BY DEF RangeInv, TypeOK
    <3>2. lost' = lost \/ lost' = lost \cup {job[w].msg}
      BY <1>8 DEF Raise
    <3> QED
      BY <3>1, <3>2
  <2> QED
    BY <1>8, <2>4, <2>5, <2>6 DEF Raise, store, RangeInv, TypeOK, JobsTyped, JobType
<1>9. CASE FailTask(w)
  <2>1. JobsTyped'
    BY <1>0, <1>9, JobMoves DEF FailTask, At, Stages
  <2> QED
    BY <1>9, <2>1 DEF FailTask, StatusOfFailure, bounds, Statuses, RangeInv, TypeOK, JobsTyped, JobType
<1>10. CASE FailRun(w)
  <2>1. JobsTyped'
    BY <1>0, <1>10, JobMoves DEF FailRun, At, Stages
  <2>2. runs' \in Seq(RunStatuses)
    BY <1>0, <1>10, StatusReplaced DEF FailRun, RunStatuses
  <2> QED
    BY <1>10, <2>1, <2>2 DEF FailRun, bounds, RunStatuses, RangeInv, TypeOK, JobsTyped, JobType
<1>11. CASE Ack(w)
  <2>1. JobsTyped'
    BY <1>0, <1>11, JobIdles DEF Ack
  <2> QED
    BY <1>11, <2>1 DEF Ack, store, bounds, RangeInv, TypeOK, JobsTyped, JobType
<1>12. CASE Crash(w)
  <2>1. JobsTyped'
    BY <1>0, <1>12, JobIdles DEF Crash
  <2>2. ready' \in [Messages -> Nat]
    <3>1. job[w].msg \in Messages /\ ready \in [Messages -> Nat]
      BY DEF RangeInv, TypeOK
    <3> QED
      BY <1>12, <3>1, QueueGrows DEF Crash
  <2>3. crashes' \in Nat
    BY <1>12 DEF Crash, RangeInv, TypeOK
  <2> QED
    BY <1>12, <2>1, <2>2, <2>3 DEF Crash, RangeInv, TypeOK, JobsTyped, JobType
<1>13. CASE Expire(w)
  <2>1. JobsTyped'
    <3> DEFINE new == [job[w] EXCEPT !.expired = TRUE]
    <3>1. /\ new \in JobType
          /\ new.at \notin {"idle", "ack"} => new.answer \in {"none"} \cup Answers
      BY <1>0 DEF JobsTyped, JobType
    <3>2. job' = [job EXCEPT ![w] = new]
      BY <1>13 DEF Expire
    <3> HIDE DEF new
    <3> QED
      BY <1>0, <3>1, <3>2, JobChanges
  <2>2. ready' \in [Messages -> Nat]
    <3>1. job[w].msg \in Messages /\ ready \in [Messages -> Nat]
      BY DEF RangeInv, TypeOK
    <3> QED
      BY <1>13, <3>1, QueueGrows DEF Expire
  <2>3. expiries' \in Nat
    BY <1>13 DEF Expire, RangeInv, TypeOK
  <2> QED
    BY <1>13, <2>1, <2>2, <2>3 DEF Expire, RangeInv, TypeOK, JobsTyped, JobType
<1> QED
  BY <1>1, <1>2, <1>3, <1>4, <1>5, <1>6, <1>7, <1>8, <1>9, <1>10, <1>11, <1>12, <1>13

LEMMA RangeStep == RangeInv /\ [Next]_vars => RangeInv'
<1> SUFFICES ASSUME RangeInv, [Next]_vars PROVE RangeInv'
  OBVIOUS
<1>1. CASE Create \/ ApiCrash \/ \E h \in Humans : Decide(h)
  BY <1>1, RangeApi
<1>2. ASSUME NEW w \in Workers, Work(w) \/ Raise(w) \/ Crash(w) \/ Expire(w) PROVE RangeInv'
  BY <1>2, RangeStart, RangeRun, RangeRest DEF Work
<1>3. CASE UNCHANGED vars
  BY <1>3 DEF vars, store, actors, bounds, RangeInv, TypeOK
<1> QED
  BY <1>1, <1>2, <1>3 DEF Next, Quiet

------------------------------------------------------------------------------
(* What one slot does to the others.                                       *)

OthersKeep(w) == \A v \in Workers \ {w} : job'[v] = job[v]

LEMMA OnlyOneJob ==
  ASSUME RangeInv, NEW w \in Workers, NEW new, job' = [job EXCEPT ![w] = new]
  PROVE  OthersKeep(w) /\ job'[w] = new
  BY DEF RangeInv, TypeOK, OthersKeep

\* A job that only goes to another stage keeps the rest of what it knows.
LEMMA MovedKeeps ==
  ASSUME RangeInv, NEW w \in Workers, NEW stage, job' = Moved(w, stage)
  PROVE  /\ OthersKeep(w) /\ job'[w].at = stage
         /\ job'[w].msg = job[w].msg /\ job'[w].answer = job[w].answer
         /\ job'[w].hasCheckpoint = job[w].hasCheckpoint /\ job'[w].pos = job[w].pos
         /\ job'[w].expired = job[w].expired
  BY DEF RangeInv, TypeOK, Moved, OthersKeep

\* What the other steps of a job leave behind.
LEMMA TakeKeeps ==
  ASSUME RangeInv, NEW w \in Workers, NEW m \in Messages, Take(w, m)
  PROVE  /\ OthersKeep(w) /\ job'[w].at = "connect" /\ job'[w].msg = m
         /\ job'[w].hasCheckpoint = FALSE /\ job'[w].expired = FALSE
<1> DEFINE new == [Idle EXCEPT !.at = "connect", !.msg = m]
<1>1. /\ new.at = "connect" /\ new.msg = m
      /\ new.hasCheckpoint = FALSE /\ new.expired = FALSE
  BY DEF Idle
<1>2. job' = [job EXCEPT ![w] = new]
  BY DEF Take
<1> HIDE DEF new
<1> QED
  BY <1>1, <1>2, OnlyOneJob

LEMMA ReadKeeps ==
  ASSUME RangeInv, NEW w \in Workers, Read(w)
  PROVE  /\ OthersKeep(w) /\ job'[w].answer = Recorded(job[w].msg)
         /\ job'[w].at = IF MayGoOn(job[w].msg) THEN "run" ELSE "ack"
         /\ job'[w].hasCheckpoint = job[w].hasCheckpoint
         /\ job'[w].msg = job[w].msg /\ job'[w].expired = job[w].expired
<1> DEFINE m == job[w].msg
           new == [job[w] EXCEPT !.answer = Recorded(m), !.at = IF MayGoOn(m) THEN "run" ELSE "ack"]
<1> HIDE DEF m
<1>1. /\ new.at = (IF MayGoOn(m) THEN "run" ELSE "ack") /\ new.answer = Recorded(m)
      /\ new.hasCheckpoint = job[w].hasCheckpoint
      /\ new.msg = job[w].msg /\ new.expired = job[w].expired
  BY DEF RangeInv, TypeOK
<1>2. job' = [job EXCEPT ![w] = new]
  BY DEF Read, m
<1> HIDE DEF new
<1> QED
  BY <1>1, <1>2, OnlyOneJob DEF m

LEMMA OpenKeeps ==
  ASSUME RangeInv, NEW w \in Workers, Open(w)
  PROVE  /\ OthersKeep(w) /\ job'[w].at = "find"
         /\ job'[w].hasCheckpoint = (thread # 0) /\ job'[w].msg = job[w].msg
         /\ job'[w].answer = job[w].answer /\ job'[w].expired = job[w].expired
<1> DEFINE new == [job[w] EXCEPT !.hasCheckpoint = thread # 0, !.at = "find"]
<1>1. /\ new.at = "find"
      /\ new.hasCheckpoint = (thread # 0) /\ new.msg = job[w].msg
      /\ new.answer = job[w].answer /\ new.expired = job[w].expired
  BY DEF RangeInv, TypeOK
<1>2. job' = [job EXCEPT ![w] = new]
  BY DEF Open
<1> HIDE DEF new
<1> QED
  BY <1>1, <1>2, OnlyOneJob

LEMMA FindRunKeeps ==
  ASSUME RangeInv, NEW w \in Workers, FindRun(w)
  PROVE  /\ OthersKeep(w) /\ job'[w].at = IF NeedsRun THEN "start" ELSE "invoke"
         /\ job'[w].hasCheckpoint = job[w].hasCheckpoint /\ job'[w].msg = job[w].msg
         /\ job'[w].answer = job[w].answer /\ job'[w].expired = job[w].expired
<1> DEFINE new == [job[w] EXCEPT !.run = Len(runs), !.at = IF NeedsRun THEN "start" ELSE "invoke"]
<1>1. /\ new.at = IF NeedsRun THEN "start" ELSE "invoke"
      /\ new.hasCheckpoint = job[w].hasCheckpoint /\ new.msg = job[w].msg
      /\ new.answer = job[w].answer /\ new.expired = job[w].expired
  BY DEF RangeInv, TypeOK
<1>2. job' = [job EXCEPT ![w] = new]
  BY DEF FindRun
<1> HIDE DEF new
<1> QED
  BY <1>1, <1>2, OnlyOneJob

LEMMA StartRunKeeps ==
  ASSUME RangeInv, NEW w \in Workers, StartRun(w)
  PROVE  /\ OthersKeep(w) /\ job'[w].at = "invoke"
         /\ job'[w].hasCheckpoint = job[w].hasCheckpoint /\ job'[w].msg = job[w].msg
         /\ job'[w].answer = job[w].answer /\ job'[w].expired = job[w].expired
<1> DEFINE new == [job[w] EXCEPT !.run = Len(runs'), !.at = "invoke"]
<1>1. /\ new.at = "invoke" /\ new.hasCheckpoint = job[w].hasCheckpoint
      /\ new.msg = job[w].msg /\ new.answer = job[w].answer /\ new.expired = job[w].expired
  BY DEF RangeInv, TypeOK
<1>2. job' = [job EXCEPT ![w] = new]
  BY DEF StartRun
<1> HIDE DEF new
<1> QED
  BY <1>1, <1>2, OnlyOneJob

LEMMA InvokeKeeps ==
  ASSUME RangeInv, NEW w \in Workers, Invoke(w)
  PROVE  /\ OthersKeep(w) /\ job'[w].at = "drive" /\ job'[w].pos = thread'
         /\ job'[w].answer = IF \E k \in GateIds : thread' = AtGate(k) THEN job[w].answer ELSE "none"
         /\ job'[w].msg = job[w].msg /\ job'[w].expired = job[w].expired
<1> DEFINE keeps == \E k \in GateIds : thread' = AtGate(k)
           new == [job[w] EXCEPT !.pos = thread', !.at = "drive",
                                 !.answer = IF keeps THEN @ ELSE "none"]
<1>1. /\ new.at = "drive" /\ new.pos = thread'
      /\ new.answer = IF keeps THEN job[w].answer ELSE "none"
      /\ new.msg = job[w].msg /\ new.expired = job[w].expired
  BY DEF RangeInv, TypeOK
<1>2. job' = [job EXCEPT ![w] = new]
  BY DEF Invoke
<1> HIDE DEF new
<1> QED
  BY <1>1, <1>2, OnlyOneJob

LEMMA DriveKeeps ==
  ASSUME RangeInv, NEW w \in Workers, Drive(w) \/ PassGate(w)
  PROVE  /\ OthersKeep(w) /\ job'[w].at = "drive" /\ job'[w].pos = thread'
         /\ job'[w].answer = IF Drive(w) THEN job[w].answer ELSE "none"
         /\ job'[w].msg = job[w].msg /\ job'[w].expired = job[w].expired
<1>1. CASE Drive(w)
  <2> DEFINE new == [job[w] EXCEPT !.pos = thread']
  <2>1. /\ new.at = "drive" /\ new.pos = thread' /\ new.answer = job[w].answer
        /\ new.msg = job[w].msg /\ new.expired = job[w].expired
    BY <1>1 DEF RangeInv, TypeOK, Drive, At
  <2>2. job' = [job EXCEPT ![w] = new]
    BY <1>1 DEF Drive
  <2> HIDE DEF new
  <2> QED
    BY <1>1, <2>1, <2>2, OnlyOneJob
<1>2. CASE PassGate(w) /\ ~Drive(w)
  <2> DEFINE new == [job[w] EXCEPT !.pos = thread', !.answer = "none"]
  <2>1. /\ new.at = "drive" /\ new.pos = thread' /\ new.answer = "none"
        /\ new.msg = job[w].msg /\ new.expired = job[w].expired
    BY <1>2 DEF RangeInv, TypeOK, PassGate, At
  <2>2. job' = [job EXCEPT ![w] = new]
    BY <1>2 DEF PassGate
  <2> HIDE DEF new
  <2> QED
    BY <1>2, <2>1, <2>2, OnlyOneJob
<1> QED
  BY <1>1, <1>2

LEMMA ExpireKeeps ==
  ASSUME RangeInv, NEW w \in Workers, Expire(w)
  PROVE  /\ OthersKeep(w) /\ job'[w].at = job[w].at /\ job'[w].msg = job[w].msg
         /\ job'[w].hasCheckpoint = job[w].hasCheckpoint /\ job'[w].pos = job[w].pos
<1> DEFINE new == [job[w] EXCEPT !.expired = TRUE]
<1>1. /\ new.at = job[w].at /\ new.msg = job[w].msg
      /\ new.hasCheckpoint = job[w].hasCheckpoint /\ new.pos = job[w].pos
  BY DEF RangeInv, TypeOK
<1>2. job' = [job EXCEPT ![w] = new]
  BY DEF Expire
<1> HIDE DEF new
<1> QED
  BY <1>1, <1>2, OnlyOneJob

------------------------------------------------------------------------------
(* Decisions, whatever else happens.                                       *)

\* Only a decision and a pause write a row.
LEMMA RowsStay ==
  ASSUME [Next]_vars
  PROVE  \/ UNCHANGED rows
         \/ \E h \in Humans : ResolveApproval(h)
         \/ \E w \in Workers : Publish(w)
  BY DEF Next, ApiCrash, Create, Quiet, Decide, Work, InsertTask, EnqueueRun, CheckApproval,
     EnqueueResume, Take, Read, SetRunning, Open, FindRun, StartRun, Invoke, Drive, PassGate, Return,
     SetAwaiting, MarkPaused, CompleteTask, CompleteRun, Raise, FailTask, FailRun, Ack, Crash,
     Expire, store, vars

LEMMA DecisionStep ==
  ASSUME RangeInv, [Next]_vars, NEW g \in GateIds, Resolved(g)
  PROVE  rows'[g] \in Answers
<1>1. ASSUME NEW h \in Humans, ResolveApproval(h) PROVE rows'[g] \in Answers
  BY <1>1 DEF ResolveApproval, Resolved, RangeInv, TypeOK
<1>2. ASSUME NEW w \in Workers, Publish(w) PROVE rows'[g] \in Answers
  BY <1>2, AnswersAssumption DEF Publish, RowAfterPause, Resolved, RangeInv, TypeOK
<1> QED
  BY <1>1, <1>2, RowsStay DEF Resolved

LEMMA RangesHold == Spec => []RangeInv
  BY RangeInit, RangeStep, PTL DEF Spec

\* The rows, the queue and the actors keep their ranges.
THEOREM LifecycleTypeCorrect == Spec => []TypeOK
<1>1. RangeInv => TypeOK
  BY DEF RangeInv
<1> QED
  BY <1>1, RangesHold, PTL

\* A decided row is never reopened, neither by a pause at the same gate nor by
\* a second decision of the same gate, which can only replace the answer.
THEOREM DecisionsStand == Spec => DecisionsStay
<1>1. RangeInv /\ [Next]_vars =>
        [\A g \in GateIds : Resolved(g) => rows'[g] \in Answers]_rows
  BY DecisionStep
<1> QED
  BY <1>1, RangesHold, PTL DEF Spec, DecisionsStay

------------------------------------------------------------------------------
(* One driver at a time: the run goes forward, and completed means ended.  *)

\* The stages in which a job can still move the run or ask its question.
Driving == {"connect", "run", "open", "find", "start", "invoke", "drive", "publish"}
Drives(w) == job[w].at \in Driving

\* No two jobs drive the run; with one slot no two jobs can.
Exclusive == \A v, w \in Workers : Drives(v) /\ Drives(w) => v = w
OneSlot == \A v, w \in Workers : v = w

\* What a job has read of the run is still so.
Fresh(w) ==
    /\ job[w].at \in {"find", "start", "invoke"} => job[w].hasCheckpoint = (thread # 0)
    /\ job[w].at = "start" => Len(runs) = 0
    /\ job[w].at \in {"invoke", "drive"} => Len(runs) = 1
    /\ job[w].at \in {"drive", "publish"} => job[w].pos = thread
    /\ job[w].at = "complete" => thread = End
RowOfRun ==
    /\ status = "completed" => thread = End
    /\ thread # 0 => Len(runs) = 1
    /\ Len(runs) <= 1
FreshInv == (\A w \in Workers : Fresh(w)) /\ RowOfRun

LEMMA FreshInit == Init => FreshInv
  BY DEF Init, FreshInv, Fresh, RowOfRun, Idle

\* A step that leaves the run alone, but for the status of its row.
LEMMA FreshKept ==
  ASSUME FreshInv, thread' = thread, Len(runs') = Len(runs),
         status' = "completed" => thread = End,
         \A v \in Workers : job'[v] = job[v] \/ Fresh(v)'
  PROVE  FreshInv'
<1>1. ASSUME NEW v \in Workers PROVE Fresh(v)'
  BY DEF FreshInv, Fresh
<1> QED
  BY <1>1 DEF FreshInv, RowOfRun

LEMMA NoRowOrOne == RangeInv /\ FreshInv => Len(runs) = 0 \/ Len(runs) = 1
<1>1. RangeInv => Len(runs) \in Nat
  BY LenProperties DEF RangeInv, TypeOK
<1>2. FreshInv => Len(runs) <= 1
  BY DEF FreshInv, RowOfRun
<1> QED
  BY <1>1, <1>2

\* The driver moves the run or gives it its row.
LEMMA FreshMoved ==
  ASSUME Exclusive, FreshInv, NEW w \in Workers, OthersKeep(w), Drives(w), Fresh(w)',
         UNCHANGED status, Len(runs') = 1, thread' = thread \/ thread # End
  PROVE  FreshInv'
<1>1. ASSUME NEW v \in Workers \ {w} PROVE Fresh(v)'
  <2>1. job'[v] = job[v] /\ job[v].at \notin Driving
    BY DEF OthersKeep, Exclusive, Drives
  <2>2. job[v].at = "complete" => thread' = End
    BY DEF FreshInv, Fresh
  <2> QED
    BY <2>1, <2>2 DEF Fresh, Driving
<1> QED
  BY <1>1 DEF FreshInv, RowOfRun

\* Where a stretch of work and a passed gate leave from and lead to.
LEMMA WaysOnward ==
  /\ End \in Nat /\ End > 0
  /\ \A k \in 0..Gates :
         /\ WorkAfter(k) # End /\ WorkAfter(k) > 0
         /\ \A p \in Onward(k) : p \in Nat /\ p > WorkAfter(k)
  /\ \A k \in GateIds : AtGate(k) # End /\ WorkAfter(k) > AtGate(k) /\ AtGate(k) > 0
  BY GatesAssumption DEF End, WorkAfter, AtGate, Onward, GateIds

LEMMA DriverGoesOn ==
  ASSUME RangeInv, Exclusive, FreshInv, NEW w \in Workers, Invoke(w) \/ Drive(w) \/ PassGate(w)
  PROVE  FreshInv' /\ thread' >= thread
<1>0. Drives(w) /\ Fresh(w) /\ UNCHANGED <<status, runs>> /\ thread \in Nat
  BY GatesAssumption DEF Invoke, Drive, PassGate, At, Drives, Driving, FreshInv, RangeInv, TypeOK,
     Positions, End
<1>1. CASE Invoke(w)
  <2>1. thread' = thread \/ (thread = 0 /\ thread' = WorkAfter(0))
    BY <1>0, <1>1 DEF Invoke, At, MayStartFresh, Fresh
  <2>2. OthersKeep(w) /\ job'[w].at = "drive" /\ job'[w].pos = thread' /\ Len(runs) = 1
    BY <1>0, <1>1, InvokeKeeps DEF Invoke, At, Fresh
  <2>3. thread' >= thread /\ (thread' = thread \/ thread # End)
    BY <1>0, <2>1, WaysOnward DEF WorkAfter
  <2>4. Fresh(w)'
    BY <1>0, <2>2 DEF Fresh
  <2> QED
    BY <1>0, <2>2, <2>3, <2>4, FreshMoved
<1>2. CASE Drive(w) \/ PassGate(w)
  <2>1. OthersKeep(w) /\ job'[w].at = "drive" /\ job'[w].pos = thread' /\ Len(runs) = 1
        /\ job[w].pos = thread
    BY <1>0, <1>2, DriveKeeps DEF Drive, PassGate, At, Fresh
  <2>2. thread # End /\ thread' > thread
    <3>1. CASE Drive(w)
      BY <2>1, <3>1, WaysOnward DEF Drive
    <3>2. CASE PassGate(w)
      BY <2>1, <3>2, WaysOnward DEF PassGate
    <3> QED
      BY <1>2, <3>1, <3>2
  <2>3. thread' \in Nat
    <3>1. thread' \in Positions
      BY <1>2, PositionsTyped, GatesAssumption DEF Drive, PassGate, GateIds
    <3> QED
      BY <3>1, GatesAssumption DEF Positions, End
  <2>4. Fresh(w)'
    BY <1>0, <2>1 DEF Fresh
  <2> QED
    BY <1>0, <2>1, <2>2, <2>3, <2>4, FreshMoved
<1> QED
  BY <1>1, <1>2

LEMMA DriverStarts ==
  ASSUME RangeInv, Exclusive, FreshInv, NEW w \in Workers, StartRun(w)
  PROVE  FreshInv' /\ thread' = thread
<1>1. /\ UNCHANGED <<status, thread>> /\ runs' = Append(runs, "running")
      /\ job[w].at = "start" /\ Drives(w) /\ Fresh(w)
  BY DEF StartRun, At, Drives, Driving, FreshInv
<1>2. Len(runs') = 1
  BY <1>1 DEF Fresh, RangeInv, TypeOK
<1>3. OthersKeep(w) /\ Fresh(w)'
  BY <1>1, <1>2, StartRunKeeps DEF Fresh
<1> QED
  BY <1>1, <1>2, <1>3, FreshMoved

\* The remaining steps leave the run where it is: some leave the job where
\* nothing is asked of it, the others with what it has read.
Unread == Stages \ {"find", "start", "invoke", "drive", "publish", "complete"}

LEMMA UnreadIsFresh ==
  ASSUME RangeInv, NEW w \in Workers, NEW stage \in Unread, job' = Moved(w, stage)
  PROVE  \A v \in Workers : job'[v] = job[v] \/ Fresh(v)'
<1>1. OthersKeep(w) /\ job'[w].at = stage
  BY MovedKeeps
<1>2. Fresh(w)'
  BY <1>1 DEF Fresh, Unread
<1> QED
  BY <1>1, <1>2 DEF OthersKeep

LEMMA IdleIsFresh ==
  ASSUME RangeInv, NEW w \in Workers, job' = [job EXCEPT ![w] = Idle]
  PROVE  \A v \in Workers : job'[v] = job[v] \/ Fresh(v)'
<1>1. OthersKeep(w) /\ job'[w] = Idle
  BY OnlyOneJob
<1>2. Fresh(w)'
  BY <1>1, IdleTyped DEF Fresh
<1> QED
  BY <1>1, <1>2 DEF OthersKeep

LEMMA RunStays ==
  ASSUME RangeInv, FreshInv, NEW w \in Workers,
         \/ \E m \in Messages : Take(w, m)
         \/ Read(w) \/ SetRunning(w) \/ Open(w) \/ FindRun(w) \/ Return(w) \/ Publish(w) \/ SetAwaiting(w)
         \/ MarkPaused(w) \/ CompleteTask(w) \/ CompleteRun(w) \/ Raise(w) \/ FailTask(w)
         \/ FailRun(w) \/ Ack(w) \/ Crash(w) \/ Expire(w)
  PROVE  FreshInv' /\ thread' = thread
<1>0. thread' = thread
  BY DEF Take, Read, SetRunning, Open, FindRun, Return, Publish, SetAwaiting, MarkPaused, CompleteTask,
     CompleteRun, Raise, FailTask, FailRun, Ack, Crash, Expire, store
<1>1. Len(runs') = Len(runs)
  <2>1. runs \in Seq(RunStatuses)
    BY DEF RangeInv, TypeOK, RunStatuses
  <2>2. \/ UNCHANGED runs
        \/ \E i : \E e \in RunStatuses : runs' = [runs EXCEPT ![i] = e]
    BY DEF Take, Read, SetRunning, Open, FindRun, Return, Publish, SetAwaiting, MarkPaused, CompleteTask,
       CompleteRun, Raise, FailTask, FailRun, Ack, Crash, Expire, store, RunStatuses
  <2> QED
    BY <2>1, <2>2, StatusReplaced
<1>2. status' = "completed" => thread = End
  BY DEF Take, Read, SetRunning, Open, FindRun, Return, Publish, SetAwaiting, MarkPaused, CompleteTask,
     CompleteRun, Raise, FailTask, StatusOfFailure, FailRun, Ack, Crash, Expire, store, At,
     FreshInv, Fresh, RowOfRun
<1>3. \A v \in Workers : job'[v] = job[v] \/ Fresh(v)'
  <2>1. ASSUME NEW stage \in Unread, job' = Moved(w, stage)
        PROVE  \A v \in Workers : job'[v] = job[v] \/ Fresh(v)'
    BY <2>1, UnreadIsFresh
  <2>2. CASE \/ SetRunning(w) \/ Publish(w) \/ SetAwaiting(w) \/ MarkPaused(w) \/ CompleteTask(w)
             \/ CompleteRun(w) \/ Raise(w) \/ FailTask(w) \/ FailRun(w)
    <3>1. \E stage \in Unread : job' = Moved(w, stage)
      BY <2>2 DEF SetRunning, Publish, SetAwaiting, MarkPaused, CompleteTask, CompleteRun, Raise,
         AfterRaise, FailTask, FailRun, Unread, Stages
    <3> QED
      BY <2>1, <3>1
  <2>3. CASE Ack(w) \/ Crash(w)
    <3>1. job' = [job EXCEPT ![w] = Idle]
      BY <2>3 DEF Ack, Crash
    <3> QED
      BY <3>1, IdleIsFresh
  <2>4. ASSUME NEW m \in Messages, Take(w, m)
        PROVE  \A v \in Workers : job'[v] = job[v] \/ Fresh(v)'
    <3>1. OthersKeep(w) /\ job'[w].at = "connect"
      BY <2>4, TakeKeeps
    <3>2. Fresh(w)'
      BY <3>1 DEF Fresh
    <3> QED
      BY <3>1, <3>2 DEF OthersKeep
  <2>8. CASE Read(w)
    <3>1. OthersKeep(w) /\ job'[w].at \in {"run", "ack"}
      BY <2>8, ReadKeeps
    <3>2. Fresh(w)'
      BY <3>1 DEF Fresh
    <3> QED
      BY <3>1, <3>2 DEF OthersKeep
  <2>9. CASE Open(w)
    <3>1. Fresh(w)'
      BY <1>0, <2>9, OpenKeeps DEF Fresh
    <3> QED
      BY <2>9, <3>1, OpenKeeps DEF OthersKeep
  <2>5. CASE FindRun(w)
    <3>1. Len(runs) = 0 \/ Len(runs) = 1
      BY NoRowOrOne
    <3>2. job[w].hasCheckpoint = (thread # 0)
      BY <2>5 DEF FindRun, At, FreshInv, Fresh
    <3>3. Fresh(w)'
      BY <1>0, <1>1, <2>5, <3>1, <3>2, FindRunKeeps DEF Fresh, NeedsRun
    <3> QED
      BY <2>5, <3>3, FindRunKeeps DEF OthersKeep
  <2>6. CASE Return(w)
    <3>1. job[w].at = "drive" /\ (Paused(w) \/ job[w].pos = End) /\ job[w].pos = thread
      BY <2>6 DEF Return, At, FreshInv, Fresh
    <3>2. AfterReturn(w) \in {"publish", "complete"} /\ (AfterReturn(w) = "complete" => thread = End)
      BY <3>1 DEF AfterReturn
    <3>3. OthersKeep(w) /\ job'[w].at = AfterReturn(w) /\ job'[w].pos = thread
      BY <2>6, <3>1, MovedKeeps DEF Return
    <3> HIDE DEF AfterReturn
    <3>4. Fresh(w)'
      BY <1>0, <3>2, <3>3 DEF Fresh
    <3> QED
      BY <3>3, <3>4 DEF OthersKeep
  <2>7. CASE Expire(w)
    <3>1. UNCHANGED runs /\ Fresh(w)
      BY <2>7 DEF Expire, FreshInv
    <3>2. Fresh(w)'
      BY <1>0, <2>7, <3>1, ExpireKeeps DEF Fresh
    <3> QED
      BY <2>7, <3>2, ExpireKeeps DEF OthersKeep
  <2> QED
    BY <2>2, <2>3, <2>4, <2>5, <2>6, <2>7, <2>8, <2>9
<1> QED
  BY <1>0, <1>1, <1>2, <1>3, FreshKept

\* As long as one job drives, the run only goes forward and every job knows
\* where it is.
LEMMA FreshStep ==
  ASSUME RangeInv, Exclusive, FreshInv, [Next]_vars
  PROVE  FreshInv' /\ thread' >= thread
<1>0. thread \in Nat
  BY GatesAssumption DEF RangeInv, TypeOK, Positions, End
<1>1. CASE \/ Create \/ ApiCrash \/ UNCHANGED vars \/ \E h \in Humans : Decide(h)
  <2>1. UNCHANGED <<thread, runs, job>> /\ (status' = status \/ status' = "queued")
    BY <1>1 DEF Create, InsertTask, EnqueueRun, ApiCrash, Decide, CheckApproval, ResolveApproval,
       EnqueueResume, store, actors, vars
  <2> QED
    BY <1>0, <2>1, FreshKept DEF FreshInv, RowOfRun
<1>2. ASSUME NEW w \in Workers, Work(w) \/ Raise(w) \/ Crash(w) \/ Expire(w)
      PROVE  FreshInv' /\ thread' >= thread
  <2>1. CASE Invoke(w) \/ Drive(w) \/ PassGate(w)
    BY <2>1, DriverGoesOn
  <2>2. CASE StartRun(w)
    BY <1>0, <2>2, DriverStarts
  <2>3. CASE ~(Invoke(w) \/ Drive(w) \/ PassGate(w) \/ StartRun(w))
    BY <1>0, <1>2, <2>3, RunStays DEF Work
  <2> QED
    BY <2>1, <2>2, <2>3
<1> QED
  BY <1>1, <1>2 DEF Next, Quiet

LEMMA EndedWhenCompleted == FreshInv => CompletedRunsEnded
  BY WaysOnward DEF FreshInv, RowOfRun, CompletedRunsEnded

LEMMA SlotIsFresh ==
  ASSUME OneSlot
  PROVE  Spec => [](RangeInv /\ FreshInv)
<1>1. Init => RangeInv /\ FreshInv
  BY RangeInit, FreshInit
<1>2. (RangeInv /\ FreshInv) /\ [Next]_vars => (RangeInv /\ FreshInv)'
  BY OneSlot, RangeStep, FreshStep DEF OneSlot, Exclusive
<1> QED
  BY <1>1, <1>2, PTL DEF Spec

\* With one worker slot, and whatever is redelivered, crashes or fails, a task
\* is completed only when its run has ended, and the run has had one row.
THEOREM CompletedMeansEnded ==
  ASSUME OneSlot
  PROVE  Spec => []CompletedRunsEnded
<1>1. RangeInv /\ FreshInv => CompletedRunsEnded
  BY EndedWhenCompleted
<1> QED
  BY <1>1, SlotIsFresh, PTL

\* Under the same assumption the checkpoint only goes forward.
THEOREM ProgressIsKept ==
  ASSUME OneSlot
  PROVE  Spec => ProgressKept
<1>1. (RangeInv /\ FreshInv) /\ [Next]_vars => [thread' >= thread]_thread
  BY FreshStep DEF OneSlot, Exclusive
<1> QED
  BY <1>1, SlotIsFresh, PTL DEF Spec, ProgressKept

------------------------------------------------------------------------------
(* No task is left queued or running.                                      *)

Resting == {"awaiting_human", "completed", "failed"}

\* The stages in which a job still has to write the status of the task.
Owing == {"connect", "run", "open", "find", "start", "invoke", "drive", "publish", "await",
          "complete", "fail"}
Queued == \E m \in Messages : ready[m] > 0
SomeoneOwes == Queued \/ \E w \in Workers : job[w].at \in Owing

\* Whoever resumes has a decision.
Usable(m) == m # RunTask => rows[m] \in Answers
MessagesUsable ==
    /\ \A m \in Messages : ready[m] > 0 => Usable(m)
    /\ \A w \in Workers : job[w].at # "idle" => Usable(job[w].msg)
    /\ \A h \in Humans : human[h].at = "enqueue" => Usable(human[h].gate)

\* A held message that will not be delivered again is in the queue already,
\* where it waits for the one slot.
NoneInParallel == OneSlot \/ MaxExpiries = 0
ExpiredWait ==
    \A w \in Workers : job[w].at # "idle" /\ job[w].expired => OneSlot /\ ready[job[w].msg] > 0

\* An unfinished status has its debtor, or a message was lost.
DebtKnown == creating = "done" /\ status \notin Resting => SomeoneOwes \/ lost # {}

DebtInv == MessagesUsable /\ ExpiredWait /\ DebtKnown

LEMMA DebtInit == Init => DebtInv
  BY DEF Init, DebtInv, MessagesUsable, ExpiredWait, DebtKnown, Idle, AtRest

\* What was usable stays so.
LEMMA UsableStays ==
  ASSUME RangeInv, [Next]_vars, NEW m \in Messages, Usable(m)
  PROVE  m # RunTask => rows'[m] \in Answers
<1>1. CASE m \in GateIds
  BY <1>1, DecisionStep DEF Usable, Resolved
<1> QED
  BY <1>1 DEF Messages

\* A step keeps all messages usable if those it adds are.
LEMMA UsableAfter ==
  ASSUME RangeInv, RangeInv', [Next]_vars,
         \A m \in Messages : ready'[m] > 0 => Usable(m),
         \A w \in Workers : job'[w].at # "idle" => Usable(job'[w].msg),
         \A h \in Humans : human'[h].at = "enqueue" =>
             Usable(human'[h].gate) \/ rows'[human'[h].gate] \in Answers
  PROVE  MessagesUsable'
<1>1. \A m \in Messages : Usable(m) => (m # RunTask => rows'[m] \in Answers)
  BY UsableStays
<1>2. \A w \in Workers : job'[w].msg \in Messages
  BY DEF RangeInv, TypeOK
<1>3. \A h \in Humans : human'[h].at = "enqueue" => human'[h].gate \in Messages
  BY DEF RangeInv, Messages
<1>4. \A m \in Messages : ready'[m] > 0 => (m # RunTask => rows'[m] \in Answers)
  BY <1>1
<1>5. \A w \in Workers : job'[w].at # "idle" =>
          (job'[w].msg # RunTask => rows'[job'[w].msg] \in Answers)
  BY <1>1, <1>2
<1>6. \A h \in Humans : human'[h].at = "enqueue" =>
          (human'[h].gate # RunTask => rows'[human'[h].gate] \in Answers)
  BY <1>1, <1>3
<1> QED
  BY <1>4, <1>5, <1>6 DEF MessagesUsable, Usable

\* What a queue holds after a message was added.
LEMMA QueueAfter ==
  ASSUME RangeInv, NEW m \in Messages, Enqueue(m)
  PROVE  /\ ready'[m] > 0
         /\ \A n \in Messages : ready[n] > 0 => ready'[n] > 0
         /\ \A n \in Messages : ready'[n] > 0 => ready[n] > 0 \/ n = m
  BY DEF Enqueue, RangeInv, TypeOK

\* The steps of the API.
LEMMA DebtOfApi ==
  ASSUME RangeInv, RangeInv', DebtInv, Create \/ ApiCrash \/ \E h \in Humans : Decide(h)
  PROVE  DebtInv'
<1>0. UNCHANGED job /\ [Next]_vars
  BY DEF Create, ApiCrash, Decide, InsertTask, EnqueueRun, CheckApproval, ResolveApproval,
     EnqueueResume, Next
<1>1. \A m \in Messages : ready[m] > 0 => ready'[m] > 0
  BY QueueAfter DEF Create, ApiCrash, Decide, InsertTask, EnqueueRun, CheckApproval,
     ResolveApproval, EnqueueResume, store, RangeInv, Messages
<1>2. \A m \in Messages : ready'[m] > 0 => Usable(m)
  <2>1. CASE EnqueueRun
    <3>1. RunTask \in Messages /\ Usable(RunTask)
      BY DEF Messages, Usable
    <3> QED
      BY <2>1, <3>1, QueueAfter DEF EnqueueRun, DebtInv, MessagesUsable
  <2>2. ASSUME NEW h \in Humans, EnqueueResume(h)
        PROVE  \A m \in Messages : ready'[m] > 0 => Usable(m)
    <3>1. human[h].gate \in Messages /\ Usable(human[h].gate) /\ Enqueue(human[h].gate)
      BY <2>2 DEF EnqueueResume, RangeInv, Messages, DebtInv, MessagesUsable
    <3> QED
      BY <3>1, QueueAfter DEF DebtInv, MessagesUsable
  <2>3. CASE UNCHANGED ready
    BY <2>3 DEF DebtInv, MessagesUsable
  <2> QED
    BY <2>1, <2>2, <2>3 DEF Create, ApiCrash, Decide, InsertTask, CheckApproval, ResolveApproval,
       store
<1>3. \A h \in Humans : human'[h].at = "enqueue" =>
          Usable(human'[h].gate) \/ rows'[human'[h].gate] \in Answers
  <2>1. ASSUME NEW i \in Humans, ResolveApproval(i), NEW h \in Humans, human'[h].at = "enqueue"
        PROVE  Usable(human'[h].gate) \/ rows'[human'[h].gate] \in Answers
    <3>1. CASE h = i
      BY <2>1, <3>1 DEF ResolveApproval, RangeInv, TypeOK
    <3>2. CASE h # i
      BY <2>1, <3>2 DEF ResolveApproval, DebtInv, MessagesUsable, RangeInv, TypeOK
    <3> QED
      BY <3>1, <3>2
  <2>2. CASE ~\E i \in Humans : ResolveApproval(i)
    <3>1. \A h \in Humans : human'[h].at = "enqueue" => human'[h] = human[h]
      BY <2>2 DEF Create, ApiCrash, Decide, InsertTask, EnqueueRun, CheckApproval, EnqueueResume,
         AtRest, RangeInv, TypeOK
    <3> QED
      BY <3>1 DEF DebtInv, MessagesUsable
  <2> QED
    BY <2>1, <2>2
<1>4. MessagesUsable'
  <2>1. \A w \in Workers : job'[w].at # "idle" => Usable(job'[w].msg)
    BY <1>0 DEF DebtInv, MessagesUsable
  <2> QED
    BY <1>0, <1>2, <1>3, <2>1, UsableAfter
<1>5. ExpiredWait'
  BY <1>0, <1>1 DEF DebtInv, ExpiredWait, RangeInv, TypeOK
<1>6. DebtKnown'
  <2>1. SomeoneOwes => SomeoneOwes'
    BY <1>0, <1>1 DEF SomeoneOwes, Queued
  <2>2. CASE EnqueueRun
    <3>1. RunTask \in Messages /\ ready'[RunTask] > 0
      BY <2>2, QueueAfter DEF EnqueueRun, Messages
    <3> QED
      BY <3>1 DEF DebtKnown, SomeoneOwes, Queued
  <2>3. CASE InsertTask
    BY <2>3 DEF InsertTask, DebtKnown
  <2>4. CASE \E h \in Humans : Decide(h)
    BY <2>1, <2>4 DEF Decide, CheckApproval, ResolveApproval, EnqueueResume, store, DebtInv,
       DebtKnown
  <2>5. CASE ApiCrash
    <3>1. \/ UNCHANGED <<status, creating>> /\ lost \subseteq lost'
          \/ RunTask \in lost'
      BY <2>5 DEF ApiCrash, store
    <3> QED
      BY <2>1, <3>1 DEF DebtInv, DebtKnown
  <2> QED
    BY <2>2, <2>3, <2>4, <2>5 DEF Create
<1> QED
  BY <1>4, <1>5, <1>6 DEF DebtInv

\* A job goes to another stage: it still owes the status, or has written it.
LEMMA DebtOfMoves ==
  ASSUME RangeInv, RangeInv', DebtInv, [Next]_vars, NEW w \in Workers, OthersKeep(w),
         job[w].at # "idle", job'[w].msg = job[w].msg, job'[w].expired = job[w].expired,
         UNCHANGED <<ready, human, creating>>,
         \/ job'[w].at \in Owing
         \/ status' \in Resting
         \/ job[w].at \notin Owing /\ UNCHANGED status /\ lost \subseteq lost'
         \/ lost' # {}
  PROVE  DebtInv'
<1>1. MessagesUsable'
  <2>1. \A v \in Workers : job'[v].at # "idle" => Usable(job'[v].msg)
    BY DEF OthersKeep, DebtInv, MessagesUsable
  <2> QED
    BY <2>1, UsableAfter DEF DebtInv, MessagesUsable
<1>2. ExpiredWait'
  BY DEF OthersKeep, DebtInv, ExpiredWait
<1>3. DebtKnown'
  <2>1. CASE job[w].at \notin Owing /\ UNCHANGED status /\ lost \subseteq lost'
    BY <2>1 DEF OthersKeep, DebtInv, DebtKnown, SomeoneOwes, Queued
  <2>2. CASE job'[w].at \in Owing \/ status' \in Resting \/ lost' # {}
    BY <2>2 DEF DebtKnown, SomeoneOwes
  <2> QED
    BY <2>1, <2>2
<1> QED
  BY <1>1, <1>2, <1>3 DEF DebtInv

\* Every stage ends in such a step.
LEMMA DebtOfWork ==
  ASSUME RangeInv, RangeInv', DebtInv, NEW w \in Workers,
         \/ Read(w) \/ SetRunning(w) \/ Open(w) \/ FindRun(w) \/ StartRun(w) \/ Invoke(w)
         \/ Drive(w) \/ PassGate(w) \/ Return(w) \/ Publish(w) \/ SetAwaiting(w) \/ MarkPaused(w)
         \/ CompleteTask(w) \/ CompleteRun(w) \/ Raise(w) \/ FailTask(w) \/ FailRun(w)
  PROVE  DebtInv'
<1>0. [Next]_vars /\ UNCHANGED <<ready, human, creating>> /\ job[w].at # "idle"
  <2>1. Work(w) \/ Raise(w)
    BY DEF Work
  <2>2. UNCHANGED <<ready, human, creating>>
    BY DEF Read, SetRunning, Open, FindRun, StartRun, Invoke, Drive, PassGate, Return, Publish,
       SetAwaiting, MarkPaused, CompleteTask, CompleteRun, Raise, FailTask, FailRun, store
  <2>3. job[w].at # "idle"
    BY DEF Read, SetRunning, Open, FindRun, StartRun, Invoke, Drive, PassGate, Return, Publish,
       SetAwaiting, MarkPaused, CompleteTask, CompleteRun, Raise, FailTask, FailRun, At, Fallible
  <2> QED
    BY <2>1, <2>2, <2>3 DEF Next
<1>1. ASSUME NEW stage, job' = Moved(w, stage),
             \/ stage \in Owing
             \/ status' \in Resting
             \/ job[w].at \notin Owing /\ UNCHANGED status /\ lost \subseteq lost'
             \/ lost' # {}
      PROVE  DebtInv'
  BY <1>0, <1>1, MovedKeeps, DebtOfMoves
<1>2. CASE SetRunning(w)
  BY <1>1, <1>2 DEF SetRunning, Owing
<1>3. CASE Return(w)
  BY <1>1, <1>3 DEF Return, AfterReturn, Owing
<1>4. CASE Publish(w)
  BY <1>1, <1>4 DEF Publish, Owing
<1>5. CASE Raise(w)
  <2>1. PICK stage \in AfterRaise(w) :
            /\ job' = Moved(w, stage)
            /\ lost' = IF LosesMessage(w, stage) THEN lost \cup {job[w].msg} ELSE lost
    BY <1>5 DEF Raise
  <2>2. CASE stage = "fail"
    BY <1>1, <2>1, <2>2 DEF Owing
  <2>3. CASE stage = "ack" /\ At(w, "fail_run")
    <3>1. job[w].at \notin Owing /\ UNCHANGED status /\ lost \subseteq lost'
      BY <1>5, <2>1, <2>3 DEF Raise, At, Owing, store
    <3> QED
      BY <1>1, <2>1, <3>1
  <2>4. CASE stage = "ack" /\ ~At(w, "fail_run")
    <3>1. lost' # {}
      BY <2>1, <2>4 DEF LosesMessage
    <3> QED
      BY <1>1, <2>1, <3>1
  <2>5. stage \in {"fail", "ack"}
    BY <2>1 DEF AfterRaise
  <2> QED
    BY <2>2, <2>3, <2>4, <2>5
<1>6. CASE SetAwaiting(w) \/ CompleteTask(w) \/ FailTask(w)
  <2>1. status' \in Resting /\ \E stage \in Stages : job' = Moved(w, stage)
    BY <1>6 DEF SetAwaiting, CompleteTask, FailTask, StatusOfFailure, Resting, Stages
  <2> QED
    BY <1>1, <2>1
<1>7. CASE MarkPaused(w) \/ CompleteRun(w) \/ FailRun(w)
  <2>1. /\ job[w].at \notin Owing /\ UNCHANGED <<status, lost>>
        /\ \E stage \in Stages : job' = Moved(w, stage)
    BY <1>7 DEF MarkPaused, CompleteRun, FailRun, At, Owing, Stages
  <2> QED
    BY <1>1, <2>1
<1>8. CASE Open(w) \/ FindRun(w) \/ StartRun(w) \/ Invoke(w) \/ Drive(w) \/ PassGate(w)
  <2>1. /\ OthersKeep(w) /\ job'[w].at \in Owing
        /\ job'[w].msg = job[w].msg /\ job'[w].expired = job[w].expired
    BY <1>8, OpenKeeps, FindRunKeeps, StartRunKeeps, InvokeKeeps, DriveKeeps DEF Owing
  <2> QED
    BY <1>0, <2>1, DebtOfMoves
<1>9. CASE Read(w)
  <2>1. Usable(job[w].msg)
    BY <1>0 DEF DebtInv, MessagesUsable
  <2>2. job'[w].at = "run" /\ OthersKeep(w)
        /\ job'[w].msg = job[w].msg /\ job'[w].expired = job[w].expired
    BY <1>9, <2>1, ReadKeeps DEF Usable, MayGoOn, Resolved
  <2> QED
    BY <1>0, <2>2, DebtOfMoves DEF Owing
<1> QED
  BY <1>2, <1>3, <1>4, <1>5, <1>6, <1>7, <1>8, <1>9

\* A delivery passes the debt from the queue to the job.
LEMMA DebtTaken ==
  ASSUME NoneInParallel, RangeInv, RangeInv', DebtInv, NEW w \in Workers, NEW m \in Messages,
         Take(w, m)
  PROVE  DebtInv'
<1>0. /\ [Next]_vars /\ UNCHANGED <<status, rows, human, creating>>
      /\ ready[m] > 0 /\ job[w].at = "idle"
      /\ ready' = [ready EXCEPT ![m] = @ - 1]
  BY DEF Take, Available, At, Next, Work
<1>1. Usable(m)
  BY <1>0 DEF DebtInv, MessagesUsable
<1>2. /\ OthersKeep(w) /\ job'[w].msg = m /\ job'[w].at = "connect" /\ job'[w].expired = FALSE
  BY TakeKeeps
<1>3. MessagesUsable'
  <2>1. \A n \in Messages : ready'[n] > 0 => Usable(n)
    BY <1>0 DEF DebtInv, MessagesUsable, RangeInv, TypeOK
  <2>2. \A v \in Workers : job'[v].at # "idle" => Usable(job'[v].msg)
    BY <1>1, <1>2 DEF OthersKeep, DebtInv, MessagesUsable
  <2>3. \A h \in Humans : human'[h].at = "enqueue" => Usable(human'[h].gate)
    BY <1>0 DEF DebtInv, MessagesUsable
  <2> QED
    BY <1>0, <2>1, <2>2, <2>3, UsableAfter
<1>4. ExpiredWait'
  <2>1. ASSUME NEW v \in Workers, job'[v].at # "idle", job'[v].expired PROVE FALSE
    <3>1. v # w /\ job'[v] = job[v]
      BY <1>2, <2>1 DEF OthersKeep
    <3>2. OneSlot
      BY <2>1, <3>1 DEF DebtInv, ExpiredWait
    <3> QED
      BY <3>1, <3>2 DEF OneSlot
  <2> QED
    BY <2>1 DEF ExpiredWait
<1>5. DebtKnown'
  BY <1>2 DEF DebtKnown, SomeoneOwes, Owing
<1> QED
  BY <1>3, <1>4, <1>5 DEF DebtInv

\* A job gives its message up, to nobody or back to the queue, or loses it to
\* the queue and goes on.
LEMMA DebtReturned ==
  ASSUME NoneInParallel, RangeInv, RangeInv', DebtInv, NEW w \in Workers,
         Ack(w) \/ Crash(w) \/ Expire(w)
  PROVE  DebtInv'
<1>0. /\ [Next]_vars /\ UNCHANGED <<status, human, creating>>
      /\ job[w].at # "idle" /\ job[w].msg \in Messages /\ Usable(job[w].msg)
  <2>1. Work(w) \/ Crash(w) \/ Expire(w)
    BY DEF Work
  <2>2. UNCHANGED <<status, human, creating>> /\ job[w].at # "idle"
    BY DEF Ack, Crash, Expire, store, At
  <2> QED
    BY <2>1, <2>2 DEF Next, RangeInv, TypeOK, DebtInv, MessagesUsable
<1>1. /\ \A n \in Messages : ready[n] > 0 => ready'[n] > 0
      /\ \A n \in Messages : ready'[n] > 0 => ready[n] > 0 \/ n = job[w].msg
  BY <1>0, QueueAfter DEF Ack, Crash, Expire, store
<1>2. OthersKeep(w) /\ (job'[w].at # "idle" => job'[w].at = job[w].at /\ job'[w].msg = job[w].msg)
  <2>1. CASE Ack(w) \/ Crash(w)
    <3>1. job' = [job EXCEPT ![w] = Idle]
      BY <2>1 DEF Ack, Crash
    <3>2. OthersKeep(w) /\ job'[w] = Idle
      BY <3>1, OnlyOneJob
    <3> QED
      BY <3>2, IdleTyped
  <2>2. CASE Expire(w)
    BY <2>2, ExpireKeeps
  <2> QED
    BY <2>1, <2>2
<1>3. MessagesUsable'
  <2>1. \A n \in Messages : ready'[n] > 0 => Usable(n)
    BY <1>0, <1>1 DEF DebtInv, MessagesUsable
  <2>2. \A v \in Workers : job'[v].at # "idle" => Usable(job'[v].msg)
    BY <1>0, <1>2 DEF OthersKeep, DebtInv, MessagesUsable
  <2>3. \A h \in Humans : human'[h].at = "enqueue" => Usable(human'[h].gate)
    BY <1>0 DEF DebtInv, MessagesUsable
  <2> QED
    BY <1>0, <2>1, <2>2, <2>3, UsableAfter
<1>4. ExpiredWait'
  <2>1. ASSUME NEW v \in Workers \ {w}, job'[v].at # "idle", job'[v].expired
        PROVE  OneSlot /\ ready'[job'[v].msg] > 0
    <3>1. job'[v] = job[v] /\ job[v].msg \in Messages
      BY <1>2 DEF OthersKeep, RangeInv, TypeOK
    <3> QED
      BY <1>1, <2>1, <3>1 DEF DebtInv, ExpiredWait
  <2>2. ASSUME job'[w].at # "idle" PROVE OneSlot /\ ready'[job'[w].msg] > 0
    <3>1. Expire(w)
      <4>1. CASE Ack(w) \/ Crash(w)
        <5>1. job' = [job EXCEPT ![w] = Idle]
          BY <4>1 DEF Ack, Crash
        <5> QED
          BY <2>2, <5>1, OnlyOneJob, IdleTyped
      <4> QED
        BY <4>1
    <3>2. OneSlot
      BY <3>1 DEF NoneInParallel, Expire, RangeInv, TypeOK
    <3>3. ready'[job[w].msg] > 0
      BY <1>0, <3>1, QueueAfter DEF Expire
    <3> QED
      BY <1>2, <2>2, <3>2, <3>3
  <2> QED
    BY <2>1, <2>2 DEF ExpiredWait
<1>5. DebtKnown'
  <2>1. CASE Ack(w)
    <3>1. UNCHANGED <<ready, lost>> /\ job[w].at \notin Owing
      BY <2>1 DEF Ack, At, Owing, store
    <3> QED
      BY <1>0, <1>2, <3>1 DEF OthersKeep, DebtInv, DebtKnown, SomeoneOwes, Queued
  <2>2. CASE Crash(w) \/ Expire(w)
    <3>1. ready'[job[w].msg] > 0
      <4>1. CASE Enqueue(job[w].msg)
        BY <1>0, <4>1, QueueAfter
      <4>2. CASE ~Enqueue(job[w].msg)
        <5>1. job[w].expired /\ UNCHANGED ready
          BY <2>2, <4>2 DEF Crash, Expire, Redelivered
        <5> QED
          BY <1>0, <5>1 DEF DebtInv, ExpiredWait
      <4> QED
        BY <4>1, <4>2
    <3> QED
      BY <1>0, <3>1 DEF DebtKnown, SomeoneOwes, Queued
  <2> QED
    BY <2>1, <2>2
<1> QED
  BY <1>3, <1>4, <1>5 DEF DebtInv

LEMMA DebtStep ==
  NoneInParallel /\ RangeInv /\ RangeInv' /\ DebtInv /\ [Next]_vars => DebtInv'
<1> SUFFICES ASSUME NoneInParallel, RangeInv, RangeInv', DebtInv, [Next]_vars PROVE DebtInv'
  OBVIOUS
<1>1. CASE Create \/ ApiCrash \/ \E h \in Humans : Decide(h)
  BY <1>1, DebtOfApi
<1>2. ASSUME NEW w \in Workers, Work(w) \/ Raise(w) \/ Crash(w) \/ Expire(w) PROVE DebtInv'
  BY <1>2, DebtOfWork, DebtTaken, DebtReturned DEF Work
<1>3. CASE UNCHANGED vars
  BY <1>3 DEF vars, store, actors, DebtInv, MessagesUsable, Usable, ExpiredWait, DebtKnown,
     SomeoneOwes, Queued
<1> QED
  BY <1>1, <1>2, <1>3 DEF Next, Quiet

\* A task that nobody works on waits for a human or has ended, unless a message
\* was lost: with one slot, or as long as no delivery outlives its deadline,
\* through any crashes of workers and of the API, and exceptions anywhere in a
\* job, those before its first status and in its handlers included.
THEOREM NothingIsLeftRunning ==
  ASSUME NoneInParallel
  PROVE  Spec => []RestingStatus
<1>1. Init => RangeInv /\ DebtInv
  BY RangeInit, DebtInit
<1>2. (RangeInv /\ DebtInv) /\ [Next]_vars => (RangeInv /\ DebtInv)'
  BY NoneInParallel, RangeStep, DebtStep
<1>3. RangeInv /\ DebtInv => RestingStatus
  BY DEF DebtInv, DebtKnown, SomeoneOwes, Queued, Owing, Resting, RestingStatus, Busy, At,
     RangeInv, TypeOK, Statuses
<1> QED
  BY <1>1, <1>2, <1>3, PTL DEF Spec

------------------------------------------------------------------------------
(* What GateContract promises, for any number of gates and any answers.     *)
(* A system that keeps the contract inherits it.                           *)

\* The ranges, and what is known of a gate that was passed: its answer is the
\* one on record, which no reply can replace, and the run is beyond it.
ContractInv ==
    /\ position \in Nat
    /\ asked \in [GateIds -> {"none", "pending"} \cup Answers]
    /\ passed \in [GateIds -> {"none"} \cup Answers]
    /\ \A k \in GateIds :
           passed[k] # "none" => /\ passed[k] = asked[k] /\ asked[k] \in Answers
                                 /\ position > AtGate(k)

\* Nothing was asked or passed at the start.
LEMMA ContractInitially == ContractInit => ContractInv
  BY DEF ContractInit, ContractInv

\* Work leads onward, never back.
LEMMA AdvanceGoesOn ==
  ASSUME ContractInv, Advance PROVE position' \in Nat /\ position' > position
<1>1. PICK k \in 0..Gates : position = WorkAfter(k) /\ position' \in Onward(k)
  BY DEF Advance
<1> QED
  BY <1>1, GatesAssumption DEF WorkAfter, Onward, End, AtGate, GateIds

\* A gate is asked about once, answered once, and passed with that answer.
LEMMA ContractStep == ContractInv /\ [ContractNext]_contractVars => ContractInv'
<1> SUFFICES ASSUME ContractInv, [ContractNext]_contractVars PROVE ContractInv'
  OBVIOUS
<1>1. CASE Begin
  BY <1>1 DEF Begin, ContractInv, WorkAfter, AtGate, GateIds
<1>2. CASE Advance
  <2>1. position' \in Nat /\ position' > position
    BY <1>2, AdvanceGoesOn
  <2>2. \A k \in GateIds : AtGate(k) \in Int
    BY DEF AtGate, GateIds
  <2>3. UNCHANGED <<asked, passed>>
    BY <1>2 DEF Advance
  <2> QED
    BY <2>1, <2>2, <2>3 DEF ContractInv
<1>3. ASSUME NEW k \in GateIds, Ask(k) PROVE ContractInv'
  BY <1>3, AnswersAssumption DEF Ask, ContractInv
<1>4. ASSUME NEW k \in GateIds, NEW answer \in Answers, Reply(k, answer) PROVE ContractInv'
  BY <1>4, AnswersAssumption DEF Reply, ContractInv
<1>5. ASSUME NEW k \in GateIds, Pass(k) PROVE ContractInv'
  BY <1>5, AnswersAssumption DEF Pass, ContractInv, AtGate, WorkAfter, GateIds
<1>6. CASE UNCHANGED contractVars
  BY <1>6 DEF contractVars, ContractInv
<1> QED
  BY <1>1, <1>2, <1>3, <1>4, <1>5, <1>6 DEF ContractNext

\* A gate behind the run was passed with the human's answer on record for it.
THEOREM GatesArePassedAsAnswered == Contract => []PassedAsAnswered
<1>1. ContractInv => PassedAsAnswered
  BY DEF ContractInv, PassedAsAnswered
<1> QED
  BY <1>1, ContractInitially, ContractStep, PTL DEF Contract

------------------------------------------------------------------------------
(* TaskLifecycle implements GateContract.  The argument is that of a baton: *)
(* the request that creates the task, a queued message, a job that has not  *)
(* published yet, a pending row or a decision that is not enqueued yet.     *)
(* There is at most one, and it stands where the checkpoint stands.        *)

\* Every message is delivered once, and the answers are one human's.
Reliable ==
    /\ MaxCrashes = 0 /\ MaxExpiries = 0
    /\ \A g, h \in Humans : g = h

------------------------------------------------------------------------------
(* The invariant.                                                          *)

NothingQueued == \A m \in Messages : ready[m] = 0
NobodyDrives == \A w \in Workers : ~Drives(w)
NobodyEnqueues == \A h \in Humans : human[h].at # "enqueue"
NothingPending == \A g \in GateIds : rows[g] # "pending"
OnlyQueued(m) == ready[m] = 1 /\ \A n \in Messages \ {m} : ready[n] = 0

\* At most one baton.
BatonInv ==
    /\ creating # "done" =>
           NothingQueued /\ NobodyDrives /\ NobodyEnqueues /\ thread = 0
    /\ \A m \in Messages : ready[m] > 0 =>
           OnlyQueued(m) /\ NobodyDrives /\ NobodyEnqueues /\ NothingPending
    /\ \A w \in Workers : Drives(w) =>
           (\A v \in Workers : Drives(v) => v = w) /\ NobodyEnqueues /\ NothingPending
    /\ \A h \in Humans : human[h].at = "enqueue" => NothingPending
    /\ \A g, k \in GateIds : rows[g] = "pending" /\ rows[k] = "pending" => g = k

\* The answer to gate g is wanted: the run waits there.
Answered(g) == thread = AtGate(g) /\ rows[g] \in Answers

RowsInv ==
    \A g \in GateIds : /\ rows[g] # "none" => AtGate(g) <= thread
                       /\ rows[g] = "pending" => thread = AtGate(g)
                       /\ ready[g] > 0 => Answered(g)
HumansInv ==
    \A h \in Humans :
        /\ human[h].at = "resolve" => rows[human[h].gate] = "pending"
        /\ human[h].at = "enqueue" => Answered(human[h].gate)

\* A job that has only its message, one that starts or resumes the run, and
\* one that is inside it.
Connecting(w) ==
    /\ job[w].msg = RunTask => thread = 0 /\ ~job[w].hasCheckpoint
    /\ job[w].msg # RunTask => Answered(job[w].msg)
Starting(w) ==
    IF job[w].msg = RunTask THEN thread = 0 /\ ~job[w].hasCheckpoint
    ELSE Answered(job[w].msg) /\ job[w].answer = rows[job[w].msg]
Inside(w) ==
    /\ job[w].pos = thread
    /\ CarriesAnswer(w) /\ job[w].at = "drive" =>
           Answered(job[w].msg) /\ job[w].answer = rows[job[w].msg]
    /\ ~CarriesAnswer(w) \/ job[w].at = "publish" =>
           \A k \in GateIds : thread = AtGate(k) => rows[k] = "none"
InPlace(w) ==
    /\ job[w].at = "connect" => Connecting(w)
    /\ job[w].at \in {"run", "open", "find", "start", "invoke"} => Starting(w)
    /\ job[w].at \in {"drive", "publish"} => Inside(w)
JobsInv == \A w \in Workers : InPlace(w)

PlaceInv == RowsInv /\ HumansInv /\ JobsInv /\ (ready[RunTask] > 0 => thread = 0)

LifeInv == RangeInv /\ BatonInv /\ PlaceInv

------------------------------------------------------------------------------
(* The baton.                                                              *)

\* Nothing has happened yet, so nothing is where it should not be.
LEMMA LifeInit == Init => LifeInv
<1> SUFFICES ASSUME Init PROVE LifeInv
  OBVIOUS
<1>1. RangeInv
  BY RangeInit
<1>2. BatonInv
  BY DEF Init, BatonInv, NothingQueued, NobodyDrives, NobodyEnqueues, Drives, Driving, Idle, AtRest
<1>3. PlaceInv
  BY DEF Init, PlaceInv, RowsInv, HumansInv, JobsInv, InPlace, Idle, AtRest, GateIds, Messages, RunTask
<1> QED
  BY <1>1, <1>2, <1>3 DEF LifeInv

\* What is known of another job depends on nothing that such a step changes.
LEMMA OthersInPlace ==
  ASSUME NEW w \in Workers, OthersKeep(w), UNCHANGED <<rows, thread>>,
         NEW v \in Workers \ {w}, InPlace(v)
  PROVE  InPlace(v)'
  BY DEF OthersKeep, InPlace, Connecting, Starting, Inside, Answered, CarriesAnswer

\* A job goes on with its baton, or drops it, and nothing else happens.
LEMMA JobGoesOn ==
  ASSUME RangeInv, BatonInv, PlaceInv, NEW w \in Workers, OthersKeep(w),
         UNCHANGED <<rows, thread, ready, human, creating>>,
         Drives(w)' => Drives(w), InPlace(w)'
  PROVE  BatonInv' /\ PlaceInv'
<1>1. \A v \in Workers : Drives(v)' => Drives(v)
  BY DEF OthersKeep, Drives
<1>2. BatonInv'
  BY <1>1 DEF BatonInv, NothingQueued, NobodyDrives, NobodyEnqueues, NothingPending, OnlyQueued
<1>3. JobsInv'
  BY OthersInPlace DEF JobsInv, PlaceInv
<1> QED
  BY <1>2, <1>3 DEF PlaceInv, RowsInv, HumansInv, Answered

\* The job that holds the baton moves the run on.
LEMMA JobMovesRun ==
  ASSUME RangeInv, BatonInv, PlaceInv, NEW w \in Workers, OthersKeep(w), Drives(w),
         UNCHANGED <<rows, ready, human, creating>>, thread' \in Nat, thread' >= thread, InPlace(w)'
  PROVE  BatonInv' /\ PlaceInv'
<1>1. /\ creating = "done" /\ NothingQueued /\ NobodyEnqueues /\ NothingPending
      /\ \A v \in Workers : Drives(v) => v = w
  <2>1. ready \in [Messages -> Nat]
    BY DEF RangeInv, TypeOK
  <2> QED
    BY <2>1 DEF BatonInv, NobodyDrives, NothingQueued
<1>2. \A v \in Workers : Drives(v)' => v = w
  BY <1>1 DEF OthersKeep, Drives
<1>3. BatonInv'
  BY <1>1, <1>2 DEF BatonInv, NothingQueued, NobodyDrives, NobodyEnqueues, NothingPending, OnlyQueued
<1>4. JobsInv'
  <2>1. ASSUME NEW v \in Workers \ {w} PROVE InPlace(v)'
    <3>1. ~Drives(v)'
      BY <1>2, <2>1
    <3> QED
      BY <3>1 DEF InPlace, Drives, Driving
  <2> QED
    BY <2>1 DEF JobsInv
<1>5. RowsInv'
  <2>1. \A g \in GateIds : AtGate(g) \in Int /\ g \in Messages
    BY DEF AtGate, GateIds, Messages
  <2>2. thread \in Nat
    BY GatesAssumption DEF RangeInv, TypeOK, Positions, End
  <2> QED
    BY <1>1, <2>1, <2>2 DEF RowsInv, PlaceInv, NothingPending, NothingQueued
<1>6. HumansInv'
  <2>1. ASSUME NEW h \in Humans PROVE human[h].at \in {"rest", "resolve", "enqueue"}
                /\ (human[h].at # "rest" => human[h].gate \in GateIds)
    BY DEF RangeInv, TypeOK
  <2>2. \A h \in Humans : human[h].at = "rest"
    BY <1>1, <2>1 DEF PlaceInv, HumansInv, NothingPending, NobodyEnqueues
  <2> QED
    BY <2>2 DEF HumansInv
<1>7. ready'[RunTask] = 0
  BY <1>1 DEF NothingQueued, Messages
<1> QED
  BY <1>3, <1>4, <1>5, <1>6, <1>7 DEF PlaceInv

\* A job drops its baton, or had none.
LEMMA JobDrops ==
  ASSUME RangeInv, BatonInv, PlaceInv, NEW w \in Workers, OthersKeep(w),
         UNCHANGED <<rows, thread, ready, human, creating>>, job'[w].at \notin Driving
  PROVE  BatonInv' /\ PlaceInv'
<1>1. ~Drives(w)'
  BY DEF Drives
<1>2. InPlace(w)'
  BY DEF InPlace, Driving
<1> QED
  BY <1>1, <1>2, JobGoesOn

LEMMA BatonDropped ==
  ASSUME RangeInv, BatonInv, PlaceInv, NEW w \in Workers,
         \/ SetAwaiting(w) \/ MarkPaused(w) \/ CompleteTask(w) \/ CompleteRun(w)
         \/ Raise(w) \/ FailTask(w) \/ FailRun(w) \/ Ack(w)
  PROVE  BatonInv' /\ PlaceInv'
<1>1. UNCHANGED <<rows, thread, ready, human, creating>>
  BY DEF SetAwaiting, MarkPaused, CompleteTask, CompleteRun, Raise, FailTask, FailRun, Ack, store
<1>2. \/ \E stage \in Stages \ Driving : job' = Moved(w, stage)
      \/ job' = [job EXCEPT ![w] = Idle]
  <2>1. CASE Raise(w)
    <3>1. AfterRaise(w) \subseteq Stages \ Driving
      BY DEF AfterRaise, Stages, Driving
    <3> QED
      BY <2>1, <3>1 DEF Raise
  <2>2. CASE \/ SetAwaiting(w) \/ MarkPaused(w) \/ CompleteTask(w) \/ CompleteRun(w)
             \/ FailTask(w) \/ FailRun(w) \/ Ack(w)
    BY <2>2 DEF SetAwaiting, MarkPaused, CompleteTask, CompleteRun, FailTask, FailRun, Ack,
       Stages, Driving
  <2> QED
    BY <2>1, <2>2
<1>3. OthersKeep(w) /\ job'[w].at \notin Driving
  <2>1. ASSUME NEW stage \in Stages \ Driving, job' = Moved(w, stage)
        PROVE  OthersKeep(w) /\ job'[w].at \notin Driving
    BY <2>1, MovedKeeps
  <2>2. ASSUME job' = [job EXCEPT ![w] = Idle] PROVE OthersKeep(w) /\ job'[w].at \notin Driving
    <3>1. OthersKeep(w) /\ job'[w] = Idle
      BY <2>2, OnlyOneJob
    <3> QED
      BY <3>1, IdleTyped DEF Driving
  <2> QED
    BY <1>2, <2>1, <2>2
<1> QED
  BY <1>1, <1>3, JobDrops

\* A job goes on with its baton.
LEMMA BatonKept ==
  ASSUME RangeInv, BatonInv, PlaceInv, NEW w \in Workers,
         \/ Read(w) \/ SetRunning(w) \/ Open(w) \/ FindRun(w) \/ StartRun(w) \/ Return(w)
  PROVE  BatonInv' /\ PlaceInv'
<1>0. UNCHANGED <<rows, thread, ready, human, creating>>
  BY DEF Read, SetRunning, Open, FindRun, StartRun, Return, store
<1>1. Drives(w)
  BY DEF Read, SetRunning, Open, FindRun, StartRun, Return, At, Drives, Driving
<1>2. OthersKeep(w) /\ InPlace(w)'
  <2>0. InPlace(w)
    BY DEF PlaceInv, JobsInv
  <2>1. CASE SetRunning(w)
    <3>1. job' = Moved(w, "open") /\ job[w].at = "run"
      BY <2>1 DEF SetRunning, At
    <3> QED
      BY <1>0, <2>0, <3>1, MovedKeeps DEF InPlace, Connecting, Starting, Answered
  <2>2. CASE Open(w)
    <3>1. job[w].at = "open" /\ job'[w].at = "find"
      BY <2>2, OpenKeeps DEF Open, At
    <3> QED
      BY <1>0, <2>0, <2>2, <3>1, OpenKeeps DEF InPlace, Connecting, Starting, Answered
  <2>3. CASE StartRun(w)
    <3>1. job[w].at = "start"
      BY <2>3 DEF StartRun, At
    <3> QED
      BY <1>0, <2>0, <2>3, <3>1, StartRunKeeps DEF InPlace, Connecting, Starting, Answered
  <2>4. CASE Return(w)
    <3>1. job' = Moved(w, AfterReturn(w)) /\ job[w].at = "drive"
      BY <2>4 DEF Return, At
    <3>2. AfterReturn(w) = "publish" => ~CarriesAnswer(w)
      BY DEF AfterReturn, Paused
    <3>3. AfterReturn(w) \in {"publish", "complete"}
      BY DEF AfterReturn
    <3>4. /\ OthersKeep(w) /\ job'[w].at = AfterReturn(w)
          /\ job'[w].pos = job[w].pos
      BY <3>1, MovedKeeps
    <3> HIDE DEF AfterReturn
    <3> QED
      BY <1>0, <2>0, <3>1, <3>2, <3>3, <3>4 DEF InPlace, Inside
  <2>5. CASE Read(w)
    <3>1. job[w].at = "connect" /\ job[w].msg \in Messages
      BY <2>5 DEF Read, At, RangeInv, TypeOK
    <3>2. Connecting(w)
      BY <2>0, <3>1 DEF InPlace
    <3>3. MayGoOn(job[w].msg)
      BY <3>2 DEF Connecting, MayGoOn, Answered, Resolved
    <3> QED
      BY <1>0, <2>5, <3>1, <3>2, <3>3, ReadKeeps DEF InPlace, Connecting, Starting, Answered, Recorded
  <2>6. CASE FindRun(w)
    <3>1. job[w].at = "find" /\ job'[w].at \in {"start", "invoke"}
      BY <2>6, FindRunKeeps DEF FindRun, At
    <3> QED
      BY <1>0, <2>0, <2>6, <3>1, FindRunKeeps DEF InPlace, Connecting, Starting, Answered
  <2> QED
    BY <2>1, <2>2, <2>3, <2>4, <2>5, <2>6
<1> QED
  BY <1>0, <1>1, <1>2, JobGoesOn

\* The job with the baton moves the run: into its work, to the next gate, and
\* past a gate with the answer that the message is about.
LEMMA BatonMovesRun ==
  ASSUME RangeInv, BatonInv, PlaceInv, NEW w \in Workers, Invoke(w) \/ Drive(w) \/ PassGate(w)
  PROVE  BatonInv' /\ PlaceInv'
<1>0. /\ UNCHANGED <<rows, ready, human, creating>> /\ Drives(w) /\ InPlace(w)
      /\ thread \in Nat /\ job[w].msg \in Messages
  BY GatesAssumption DEF Invoke, Drive, PassGate, At, Drives, Driving, PlaceInv, JobsInv,
     RangeInv, TypeOK, Positions, End
<1>1. \A k \in GateIds : AtGate(k) \in Nat /\ WorkAfter(k) \in Nat /\ WorkAfter(k) > AtGate(k)
  BY GatesAssumption DEF AtGate, WorkAfter, GateIds
<1>2. \A k \in GateIds, i \in 0..Gates : WorkAfter(i) # AtGate(k)
  BY GatesAssumption DEF AtGate, WorkAfter, GateIds
<1>3. thread' \in Nat /\ thread' >= thread /\ OthersKeep(w) /\ InPlace(w)'
  <2>1. CASE Invoke(w)
    <3>1. job[w].at = "invoke"
      BY <2>1 DEF Invoke, At
    <3>3. /\ OthersKeep(w) /\ job'[w].at = "drive" /\ job'[w].pos = thread'
          /\ job'[w].answer = IF \E k \in GateIds : thread' = AtGate(k) THEN job[w].answer ELSE "none"
          /\ job'[w].msg = job[w].msg
      BY <2>1, InvokeKeeps
    <3>4. Starting(w)
      BY <1>0, <3>1 DEF InPlace
    <3>5. CASE MayStartFresh(w)
      <4>1. thread' = WorkAfter(0) /\ thread = 0 /\ job[w].msg = RunTask
        BY <2>1, <3>4, <3>5 DEF Invoke, Starting, MayStartFresh
      <4>2. WorkAfter(0) \in Nat /\ WorkAfter(0) >= 0 /\ \A k \in GateIds : WorkAfter(0) # AtGate(k)
        BY <1>2, GatesAssumption DEF WorkAfter
      <4> QED
        BY <3>3, <4>1, <4>2 DEF InPlace, Inside, CarriesAnswer
    <3>6. CASE ~MayStartFresh(w)
      <4>1. thread' = thread /\ job[w].msg # RunTask
        BY <2>1, <3>4, <3>6 DEF Invoke, Starting, MayStartFresh
      <4>2. job[w].msg \in GateIds /\ Answered(job[w].msg) /\ job[w].answer = rows[job[w].msg]
        BY <1>0, <3>4, <4>1 DEF Starting, Messages
      <4>3. job'[w].answer = job[w].answer /\ job[w].answer # "none"
        BY <3>3, <4>1, <4>2, AnswersAssumption DEF Answered
      <4> QED
        BY <1>0, <3>3, <4>1, <4>2, <4>3 DEF InPlace, Inside, CarriesAnswer, Answered
    <3> QED
      BY <1>0, <3>3, <3>5, <3>6
  <2>2. CASE Drive(w)
    <3>2. job[w].at = "drive"
      BY <2>2 DEF Drive, At
    <3>3. /\ OthersKeep(w) /\ job'[w].at = "drive" /\ job'[w].pos = thread'
          /\ job'[w].msg = job[w].msg /\ job'[w].answer = job[w].answer
      BY <2>2, DriveKeeps
    <3>4. PICK i \in 0..Gates : job[w].pos = WorkAfter(i) /\ thread' \in Onward(i)
      BY <2>2 DEF Drive
    <3>5. thread = WorkAfter(i) /\ ~CarriesAnswer(w)
      <4>1. Inside(w)
        BY <1>0, <3>2 DEF InPlace
      <4>2. job[w].msg # RunTask => job[w].msg \in GateIds
        BY <1>0 DEF Messages
      <4> QED
        BY <1>2, <3>2, <3>4, <4>1, <4>2 DEF Inside, Answered, CarriesAnswer
    <3>6. thread' \in Nat /\ thread' > thread
      BY <3>4, <3>5, GatesAssumption DEF Onward, WorkAfter, AtGate, End, GateIds
    <3>7. \A k \in GateIds : thread' = AtGate(k) => rows[k] = "none"
      BY <1>0, <1>1, <3>6 DEF PlaceInv, RowsInv
    <3> QED
      BY <1>0, <3>3, <3>5, <3>6, <3>7 DEF InPlace, Inside, CarriesAnswer
  <2>3. CASE PassGate(w)
    <3>2. job[w].at = "drive"
      BY <2>3 DEF PassGate, At
    <3>3. /\ OthersKeep(w) /\ job'[w].at = "drive" /\ job'[w].pos = thread'
          /\ job'[w].msg = job[w].msg /\ (job'[w].answer = "none" \/ Drive(w))
      BY <2>3, DriveKeeps
    <3>4. PICK k \in GateIds : job[w].pos = AtGate(k) /\ thread' = WorkAfter(k)
      BY <2>3 DEF PassGate
    <3>5. thread = AtGate(k)
      BY <1>0, <3>2, <3>4 DEF InPlace, Inside
    <3>6. ~Drive(w)
      BY <1>2, <3>4 DEF Drive
    <3>7. \A g \in GateIds : WorkAfter(k) # AtGate(g)
      BY <1>2, GatesAssumption DEF GateIds
    <3> QED
      BY <1>0, <1>1, <3>2, <3>3, <3>4, <3>5, <3>6, <3>7 DEF InPlace, Inside, CarriesAnswer
  <2> QED
    BY <2>1, <2>2, <2>3
<1> QED
  BY <1>0, <1>3, JobMovesRun

\* While nobody holds the baton as a job, nothing is asked of the jobs.
LEMMA NobodyInPlace == NobodyDrives => JobsInv
  BY DEF NobodyDrives, Drives, JobsInv, InPlace, Driving

LEMMA GatesAreLater == \A g \in GateIds : AtGate(g) \in Nat /\ AtGate(g) > 0 /\ g # RunTask
  BY DEF AtGate, GateIds, RunTask

\* A message is taken by a job that can use it.
LEMMA BatonTaken ==
  ASSUME RangeInv, BatonInv, PlaceInv, NEW w \in Workers, NEW m \in Messages, Take(w, m)
  PROVE  BatonInv' /\ PlaceInv'
<1>0. ready \in [Messages -> Nat] /\ ready[m] > 0
  BY DEF Take, Available, RangeInv, TypeOK
<1>1. /\ OnlyQueued(m) /\ NobodyDrives /\ NobodyEnqueues /\ NothingPending
      /\ creating = "done"
  BY <1>0 DEF BatonInv, NothingQueued
<1>2. UNCHANGED <<rows, thread, human, creating>>
  BY DEF Take
<1>3. NothingQueued'
  BY <1>0, <1>1 DEF Take, OnlyQueued, NothingQueued
<1>4. OthersKeep(w) /\ job'[w].at = "connect" /\ job'[w].msg = m /\ job'[w].hasCheckpoint = FALSE
  BY TakeKeeps
<1>7. \A v \in Workers : Drives(v)' => v = w
  BY <1>1, <1>4 DEF OthersKeep, NobodyDrives, Drives
<1>8. BatonInv'
  BY <1>1, <1>2, <1>3, <1>7 DEF BatonInv, NothingQueued, NobodyEnqueues, NothingPending
<1>9. JobsInv'
  <2>1. m # RunTask => Answered(m) /\ m \in GateIds
    BY <1>0 DEF PlaceInv, RowsInv, Messages
  <2>2. m = RunTask => thread = 0
    BY <1>0 DEF PlaceInv
  <2>3. InPlace(w)'
    BY <1>2, <1>4, <2>1, <2>2 DEF InPlace, Connecting, Answered
  <2>4. \A v \in Workers \ {w} : InPlace(v)'
    BY <1>7 DEF InPlace, Drives, Driving
  <2> QED
    BY <2>3, <2>4 DEF JobsInv
<1>10. RowsInv' /\ HumansInv' /\ (ready'[RunTask] > 0 => thread' = 0)
  <2>1. \A n \in Messages : ready'[n] = 0
    BY <1>3 DEF NothingQueued
  <2> QED
    BY <1>2, <2>1 DEF PlaceInv, RowsInv, HumansInv, Answered, Messages
<1> QED
  BY <1>8, <1>9, <1>10 DEF PlaceInv

\* A pause becomes a pending row, and the job is left without the baton.
LEMMA BatonPublished ==
  ASSUME RangeInv, BatonInv, PlaceInv, NEW w \in Workers, Publish(w)
  PROVE  BatonInv' /\ PlaceInv'
<1>0. UNCHANGED <<thread, ready, human, creating>> /\ job[w].at = "publish" /\ job' = Moved(w, "await")
  BY DEF Publish, At
<1>1. Drives(w)
  BY <1>0 DEF Drives, Driving
<1>2. /\ creating = "done" /\ NothingQueued /\ NobodyEnqueues /\ NothingPending
      /\ \A v \in Workers : Drives(v) => v = w
  <2>1. ready \in [Messages -> Nat]
    BY DEF RangeInv, TypeOK
  <2> QED
    BY <1>1, <2>1 DEF BatonInv, NobodyDrives, NothingQueued
<1>3. PICK k \in GateIds : job[w].pos = AtGate(k) /\ rows' = [rows EXCEPT ![k] = RowAfterPause(k)]
  BY DEF Publish
<1>4. thread = AtGate(k) /\ rows[k] = "none"
  BY <1>0, <1>3 DEF PlaceInv, JobsInv, InPlace, Inside
<1>5. rows'[k] = "pending" /\ \A g \in GateIds \ {k} : rows'[g] = rows[g]
  BY <1>3, <1>4 DEF RowAfterPause, RangeInv, TypeOK
<1>6. NobodyDrives'
  <2>1. OthersKeep(w) /\ job'[w].at = "await"
    BY <1>0, MovedKeeps
  <2> QED
    BY <1>2, <2>1 DEF NobodyDrives, OthersKeep, Drives, Driving
<1>7. BatonInv'
  <2>1. ready' = ready /\ \A m \in Messages : ~(ready[m] > 0)
    BY <1>0, <1>2 DEF NothingQueued
  <2>2. \A g \in GateIds : rows'[g] = "pending" => g = k
    BY <1>2, <1>5 DEF NothingPending
  <2> QED
    BY <1>0, <1>2, <1>6, <2>1, <2>2 DEF BatonInv, NobodyDrives, NobodyEnqueues
<1>8. JobsInv'
  BY <1>6, NobodyInPlace DEF NobodyDrives, JobsInv, InPlace, Drives, Driving
<1>9. RowsInv'
  <2>1. \A m \in Messages : ~(ready'[m] > 0)
    BY <1>0, <1>2 DEF NothingQueued
  <2>2. \A g \in GateIds : rows'[g] # "none" => AtGate(g) <= thread
    BY <1>4, <1>5, GatesAreLater DEF PlaceInv, RowsInv
  <2>3. \A g \in GateIds : rows'[g] = "pending" => thread = AtGate(g)
    BY <1>2, <1>4, <1>5 DEF NothingPending
  <2> QED
    BY <1>0, <2>1, <2>2, <2>3 DEF RowsInv, Messages
<1>10. HumansInv'
  <2>1. \A h \in Humans : human[h].at # "enqueue" /\ human[h].at # "resolve"
    <3>1. \A h \in Humans : human[h].at # "rest" => human[h].gate \in GateIds
      BY DEF RangeInv
    <3> QED
      BY <1>2, <3>1 DEF PlaceInv, HumansInv, NothingPending, NobodyEnqueues
  <2> QED
    BY <1>0, <2>1 DEF HumansInv
<1> QED
  BY <1>0, <1>7, <1>8, <1>9, <1>10 DEF PlaceInv

\* POST /tasks, and requests that begin or die.
LEMMA BatonOfRequests ==
  ASSUME RangeInv, BatonInv, PlaceInv,
         \/ InsertTask \/ ApiCrash
         \/ \E h \in Humans, g \in GateIds, answer \in Answers : CheckApproval(h, g, answer)
  PROVE  BatonInv' /\ PlaceInv'
<1>1. UNCHANGED <<rows, thread, ready, job>> /\ (creating' # "done" => creating # "done")
  BY DEF InsertTask, ApiCrash, CheckApproval, store
<1>2. \A h \in Humans : \/ human'[h] = human[h] \/ human'[h].at = "rest"
                        \/ human'[h].at = "resolve" /\ rows[human'[h].gate] = "pending"
  BY DEF InsertTask, ApiCrash, CheckApproval, MayDecide, AtRest, RangeInv, TypeOK
<1>3. \A h \in Humans : human'[h].at = "enqueue" => human[h].at = "enqueue" /\ human'[h] = human[h]
  BY <1>2
<1>4. BatonInv'
  BY <1>1, <1>3 DEF BatonInv, NothingQueued, NobodyDrives, NobodyEnqueues, NothingPending,
     OnlyQueued, Drives
<1>5. HumansInv'
  BY <1>1, <1>2, <1>3 DEF PlaceInv, HumansInv, Answered
<1>6. JobsInv'
  BY <1>1 DEF PlaceInv, JobsInv, InPlace, Connecting, Starting, Inside, Answered, CarriesAnswer
<1> QED
  BY <1>1, <1>5, <1>6, <1>4 DEF PlaceInv, RowsInv, Answered

LEMMA BatonEnqueued ==
  ASSUME RangeInv, BatonInv, PlaceInv, EnqueueRun
  PROVE  BatonInv' /\ PlaceInv'
<1>1. /\ UNCHANGED <<rows, thread, human, job>> /\ creating' = "done" /\ creating # "done"
      /\ ready' = [ready EXCEPT ![RunTask] = @ + 1]
  BY DEF EnqueueRun, Enqueue
<1>2. NothingQueued /\ NobodyDrives /\ NobodyEnqueues /\ thread = 0
  BY <1>1 DEF BatonInv
<1>3. NothingPending
  BY <1>2, GatesAreLater DEF NothingPending, PlaceInv, RowsInv
<1>4. ready'[RunTask] = 1 /\ \A n \in Messages \ {RunTask} : ready'[n] = 0
  BY <1>1, <1>2 DEF NothingQueued, RangeInv, TypeOK, Messages
<1>5. BatonInv'
  BY <1>1, <1>2, <1>3, <1>4 DEF BatonInv, OnlyQueued, NobodyDrives, NobodyEnqueues,
     NothingPending, Drives
<1>6. RowsInv'
  BY <1>1, <1>4, GatesAreLater DEF PlaceInv, RowsInv, Answered, Messages
<1>7. HumansInv' /\ JobsInv'
  BY <1>1 DEF PlaceInv, HumansInv, JobsInv, InPlace, Connecting, Starting, Inside, Answered, CarriesAnswer
<1> QED
  BY <1>1, <1>2, <1>5, <1>6, <1>7 DEF PlaceInv

\* The decision: a pending row becomes an answer, and the answer a message.
LEMMA BatonDecided ==
  ASSUME Reliable, RangeInv, BatonInv, PlaceInv, NEW h \in Humans, ResolveApproval(h)
  PROVE  BatonInv' /\ PlaceInv'
<1> DEFINE g == human[h].gate
<1>0. /\ UNCHANGED <<thread, ready, creating, job>> /\ human[h].at = "resolve"
      /\ rows' = [rows EXCEPT ![g] = human[h].answer]
      /\ human' = [human EXCEPT ![h].at = "enqueue"]
  BY DEF ResolveApproval
<1>1. g \in GateIds /\ human[h].answer \in Answers /\ rows[g] = "pending" /\ thread = AtGate(g)
  BY <1>0 DEF RangeInv, PlaceInv, HumansInv, RowsInv
<1>2. NothingQueued /\ NobodyDrives /\ creating = "done"
  <2>1. ready \in [Messages -> Nat]
    BY DEF RangeInv, TypeOK
  <2>2. ~NothingPending
    BY <1>1 DEF NothingPending
  <2> QED
    BY <1>1, <2>1, <2>2, GatesAreLater DEF BatonInv, NothingQueued, NobodyDrives
<1>3. rows'[g] \in Answers /\ \A k \in GateIds \ {g} : rows'[k] = rows[k] /\ rows[k] # "pending"
  BY <1>0, <1>1 DEF RangeInv, TypeOK, BatonInv
<1>4. NothingPending'
  BY <1>3, AnswersAssumption DEF NothingPending
<1>5. human'[h].at = "enqueue" /\ human'[h].gate = g
  BY <1>0 DEF RangeInv, TypeOK
<1>6. BatonInv'
  <2>1. \A m \in Messages : ~(ready'[m] > 0)
    BY <1>0, <1>2 DEF NothingQueued
  <2>2. NobodyDrives' /\ creating' = "done"
    BY <1>0, <1>2 DEF NobodyDrives, Drives
  <2> QED
    BY <1>4, <2>1, <2>2 DEF BatonInv, NothingPending, NobodyDrives
<1>7. RowsInv'
  <2>1. \A m \in Messages : ~(ready'[m] > 0)
    BY <1>0, <1>2 DEF NothingQueued
  <2>2. \A k \in GateIds : rows'[k] # "none" => AtGate(k) <= thread
    BY <1>1, <1>3, GatesAreLater DEF PlaceInv, RowsInv
  <2> QED
    BY <1>0, <1>4, <2>1, <2>2 DEF RowsInv, NothingPending, Messages
<1>8. HumansInv'
  <2>1. ASSUME NEW i \in Humans PROVE i = h
    BY DEF Reliable
  <2>2. human'[h].at = "enqueue" /\ thread' = AtGate(human'[h].gate)
        /\ rows'[human'[h].gate] \in Answers
    BY <1>0, <1>1, <1>3, <1>5
  <2> HIDE DEF g
  <2> QED
    BY <2>1, <2>2 DEF HumansInv, Answered
<1>9. JobsInv'
  BY <1>0, <1>2 DEF NobodyDrives, JobsInv, InPlace, Drives, Driving
<1> QED
  BY <1>0, <1>2, <1>6, <1>7, <1>8, <1>9 DEF PlaceInv, NothingQueued, Messages

LEMMA BatonSent ==
  ASSUME Reliable, RangeInv, BatonInv, PlaceInv, NEW h \in Humans, EnqueueResume(h)
  PROVE  BatonInv' /\ PlaceInv'
<1> DEFINE g == human[h].gate
<1>0. /\ UNCHANGED <<rows, thread, creating, job>> /\ human[h].at = "enqueue"
      /\ ready' = [ready EXCEPT ![g] = @ + 1]
      /\ human' = [human EXCEPT ![h] = AtRest]
  BY DEF EnqueueResume, Enqueue
<1>1. g \in GateIds /\ g \in Messages /\ Answered(g) /\ NothingPending
  BY <1>0 DEF RangeInv, PlaceInv, HumansInv, BatonInv, NothingPending, Messages
<1>2. NothingQueued /\ NobodyDrives /\ creating = "done"
  <2>1. ready \in [Messages -> Nat]
    BY DEF RangeInv, TypeOK
  <2>2. ~NobodyEnqueues
    BY <1>0 DEF NobodyEnqueues
  <2> QED
    BY <2>1, <2>2 DEF BatonInv, NothingQueued, NobodyDrives
<1>3. ready'[g] = 1 /\ \A n \in Messages \ {g} : ready'[n] = 0
  BY <1>0, <1>1, <1>2 DEF NothingQueued, RangeInv, TypeOK
<1>4. \A i \in Humans : human'[i].at = "rest"
  <2>1. ASSUME NEW i \in Humans PROVE i = h
    BY DEF Reliable
  <2>2. human'[h] = AtRest
    BY <1>0 DEF RangeInv, TypeOK
  <2> QED
    BY <2>1, <2>2 DEF AtRest
<1>5. NobodyDrives' /\ NothingPending' /\ creating' = "done"
  BY <1>0, <1>1, <1>2 DEF NobodyDrives, Drives, NothingPending
<1> HIDE DEF g
<1>6. BatonInv'
  BY <1>3, <1>4, <1>5 DEF BatonInv, OnlyQueued, NobodyEnqueues, NobodyDrives, NothingPending
<1>7. RowsInv'
  BY <1>0, <1>1, <1>3 DEF PlaceInv, RowsInv, Answered, Messages
<1>8. HumansInv' /\ JobsInv'
  BY <1>4, <1>5 DEF HumansInv, NobodyDrives, JobsInv, InPlace, Drives, Driving
<1>9. ~(ready'[RunTask] > 0)
  BY <1>1, <1>3, GatesAreLater DEF Messages
<1> QED
  BY <1>6, <1>7, <1>8, <1>9 DEF PlaceInv

\* Under Reliable every step hands the one baton on, or keeps it.
LEMMA LifeStep == Reliable /\ LifeInv /\ [Next]_vars => LifeInv'
<1> SUFFICES ASSUME Reliable, LifeInv, [Next]_vars PROVE LifeInv'
  OBVIOUS
<1>0. RangeInv' /\ RangeInv /\ BatonInv /\ PlaceInv
  BY RangeStep DEF LifeInv
<1>1. CASE Create
  BY <1>0, <1>1, BatonOfRequests, BatonEnqueued DEF Create, LifeInv
<1>2. CASE ApiCrash
  BY <1>0, <1>2, BatonOfRequests DEF LifeInv
<1>3. ASSUME NEW h \in Humans, Decide(h) PROVE LifeInv'
  BY <1>0, <1>3, BatonOfRequests, BatonDecided, BatonSent DEF Decide, LifeInv
<1>4. ASSUME NEW w \in Workers, Work(w) \/ Raise(w) PROVE LifeInv'
  BY <1>0, <1>4, BatonTaken, BatonPublished, BatonMovesRun, BatonKept, BatonDropped
     DEF Work, LifeInv
<1>5. ASSUME NEW w \in Workers, Crash(w) \/ Expire(w) PROVE LifeInv'
  <2>1. crashes \in Nat /\ expiries \in Nat
    BY <1>0 DEF RangeInv, TypeOK
  <2> QED
    BY <1>5, <2>1 DEF Reliable, Crash, Expire
<1>6. CASE UNCHANGED vars
  BY <1>0, <1>6 DEF vars, store, actors, LifeInv, BatonInv, NothingQueued, NobodyDrives,
     NobodyEnqueues, NothingPending, OnlyQueued, Drives, PlaceInv, RowsInv, HumansInv, JobsInv,
     InPlace, Connecting, Starting, Inside, Answered, CarriesAnswer
<1> QED
  BY <1>1, <1>2, <1>3, <1>4, <1>5, <1>6 DEF Next, Quiet

LEMMA LifeHolds ==
  ASSUME Reliable
  PROVE  Spec => []LifeInv
<1>1. LifeInv /\ [Next]_vars => LifeInv'
  BY Reliable, LifeStep
<1> QED
  BY <1>1, LifeInit, PTL DEF Spec

------------------------------------------------------------------------------
(* The refinement.                                                         *)

\* A step of the system is one of the contract, or none.
LEMMA PromiseInit == Init => Promise!ContractInit
<1> SUFFICES ASSUME Init PROVE Promise!ContractInit
  OBVIOUS
<1>1. OwnPass = [g \in GateIds |-> "none"]
  BY DEF Init, OwnPass
<1> QED
  BY <1>1 DEF Init, Promise!ContractInit, GateIds, Promise!GateIds

LEMMA NoPromiseStep ==
  ASSUME UNCHANGED <<thread, rows, applied>>
  PROVE  UNCHANGED <<thread, rows, OwnPass>>
  BY DEF OwnPass

\* The gate a resumed job is at is the one its message is about.
LEMMA ResumesOwnGate ==
  ASSUME LifeInv, NEW w \in Workers, PassGate(w)
  PROVE  job[w].msg \in GateIds /\ Answered(job[w].msg) /\ job[w].answer = rows[job[w].msg]
         /\ job[w].pos = thread
<1>1. job[w].at = "drive" /\ CarriesAnswer(w) /\ job[w].msg \in Messages
  BY DEF PassGate, At, LifeInv, RangeInv, TypeOK
<1>2. Inside(w)
  BY <1>1 DEF LifeInv, PlaceInv, JobsInv, InPlace
<1> QED
  BY <1>1, <1>2 DEF Inside, CarriesAnswer, Messages

LEMMA PassKeepsPromise ==
  ASSUME LifeInv, NEW w \in Workers, PassGate(w)
  PROVE  \E k \in GateIds : Promise!Pass(k)
<1> DEFINE m == job[w].msg
<1>1. m \in GateIds /\ thread = AtGate(m) /\ rows[m] \in Answers /\ job[w].answer = rows[m]
      /\ job[w].pos = thread
  BY ResumesOwnGate DEF Answered
<1>2. PICK k \in GateIds : /\ job[w].pos = AtGate(k) /\ thread' = WorkAfter(k)
                           /\ applied' = [applied EXCEPT ![k] = <<m, job[w].answer>>]
  BY DEF PassGate
<1>3. k = m
  BY <1>1, <1>2 DEF AtGate, GateIds
<1>4. UNCHANGED rows
  BY DEF PassGate
<1>5. OwnPass' = [OwnPass EXCEPT ![k] = rows[k]]
  <2>1. applied' = [applied EXCEPT ![k] = <<k, rows[k]>>] /\ DOMAIN applied = GateIds
    BY <1>1, <1>2, <1>3 DEF LifeInv, RangeInv, TypeOK
  <2>2. k # 0
    BY DEF GateIds
  <2> QED
    BY <2>1, <2>2 DEF OwnPass
<1> QED
  BY <1>1, <1>2, <1>3, <1>4, <1>5
     DEF Promise!Pass, Promise!AtGate, Promise!WorkAfter, AtGate, WorkAfter

LEMMA DriveKeepsPromise ==
  ASSUME LifeInv, NEW w \in Workers, Invoke(w) \/ Drive(w)
  PROVE  Promise!Begin \/ Promise!Advance \/ UNCHANGED <<thread, rows, OwnPass>>
<1>1. UNCHANGED <<rows, OwnPass>> /\ InPlace(w)
  BY DEF Invoke, Drive, OwnPass, LifeInv, PlaceInv, JobsInv
<1>2. CASE Drive(w)
  <2>1. job[w].pos = thread
    BY <1>1, <1>2 DEF Drive, At, InPlace, Inside
  <2> QED
    BY <1>1, <1>2, <2>1 DEF Drive, Promise!Advance, WorkAfter, Onward, End, AtGate, GateIds,
       Promise!WorkAfter, Promise!Onward, Promise!End, Promise!AtGate, Promise!GateIds
<1>3. CASE Invoke(w)
  <2>1. thread' = thread \/ (thread = 0 /\ thread' = WorkAfter(0))
    BY <1>1, <1>3 DEF Invoke, At, InPlace, Starting, MayStartFresh
  <2> QED
    BY <1>1, <2>1 DEF Promise!Begin, WorkAfter, Promise!WorkAfter
<1> QED
  BY <1>2, <1>3

LEMMA PublishKeepsPromise ==
  ASSUME LifeInv, NEW w \in Workers, Publish(w)
  PROVE  \E k \in GateIds : Promise!Ask(k)
<1>1. job[w].at = "publish" /\ UNCHANGED <<thread, OwnPass>>
  BY DEF Publish, At, OwnPass
<1>2. PICK k \in GateIds : job[w].pos = AtGate(k) /\ rows' = [rows EXCEPT ![k] = RowAfterPause(k)]
  BY DEF Publish
<1>3. thread = AtGate(k) /\ rows[k] = "none"
  BY <1>1, <1>2 DEF LifeInv, PlaceInv, JobsInv, InPlace, Inside
<1> QED
  BY <1>1, <1>2, <1>3 DEF RowAfterPause, Promise!Ask, Promise!AtGate, AtGate

LEMMA ReplyKeepsPromise ==
  ASSUME LifeInv, NEW h \in Humans, ResolveApproval(h)
  PROVE  \E k \in GateIds, answer \in Answers : Promise!Reply(k, answer)
<1>1. UNCHANGED <<thread, OwnPass>>
  BY DEF ResolveApproval, OwnPass
<1>2. /\ human[h].gate \in GateIds /\ human[h].answer \in Answers
      /\ rows[human[h].gate] = "pending"
      /\ rows' = [rows EXCEPT ![human[h].gate] = human[h].answer]
  BY DEF ResolveApproval, LifeInv, RangeInv, PlaceInv, HumansInv
<1> QED
  BY <1>1, <1>2 DEF Promise!Reply

LEMMA PromiseStep ==
  ASSUME LifeInv, [Next]_vars
  PROVE  [Promise!ContractNext]_<<thread, rows, OwnPass>>
<1> USE DEF Promise!ContractNext, Promise!GateIds, GateIds
<1>1. ASSUME NEW w \in Workers, PassGate(w) \/ Invoke(w) \/ Drive(w) \/ Publish(w)
      PROVE  Promise!ContractNext \/ UNCHANGED <<thread, rows, OwnPass>>
  BY <1>1, PassKeepsPromise, DriveKeepsPromise, PublishKeepsPromise
<1>2. ASSUME NEW h \in Humans, ResolveApproval(h)
      PROVE  Promise!ContractNext
  BY <1>2, ReplyKeepsPromise
<1>3. CASE UNCHANGED <<thread, rows, applied>>
  BY <1>3, NoPromiseStep
<1>4. \/ \E w \in Workers : PassGate(w) \/ Invoke(w) \/ Drive(w) \/ Publish(w)
      \/ \E h \in Humans : ResolveApproval(h)
      \/ UNCHANGED <<thread, rows, applied>>
  BY DEF Next, ApiCrash, Create, Quiet, Decide, Work, InsertTask, EnqueueRun, CheckApproval,
     EnqueueResume, Take, Read, SetRunning, Open, FindRun, StartRun, Return, SetAwaiting, MarkPaused,
     CompleteTask, CompleteRun, Raise, FailTask, FailRun, Ack, Crash, Expire, store, vars
<1> QED
  BY <1>1, <1>2, <1>3, <1>4

\* API, queue and workers together keep the contract of a gated run: it passes
\* its gates in order, each with the answer a human recorded for that gate,
\* whoever fails and even when the API dies, as long as no message is delivered
\* twice and one human decides.
THEOREM LifecycleKeepsPromise ==
  ASSUME Reliable
  PROVE  Spec => KeepsPromise
<1>1. LifeInv /\ [Next]_vars => [Promise!ContractNext]_<<thread, rows, OwnPass>>
  BY PromiseStep
<1>2. [Promise!ContractNext]_<<thread, rows, OwnPass>> => [Promise!ContractNext]_(Promise!contractVars)
  BY DEF Promise!contractVars
<1> QED
  BY <1>1, <1>2, PromiseInit, LifeHolds, PTL DEF Spec, KeepsPromise, Promise!Contract

\* What a gate was passed with is what its row says, for good.
AppliedInv ==
    \A g \in GateIds : applied[g][1] # 0 => applied[g] = <<g, rows[g]>> /\ rows[g] \in Answers

\* A gate is passed with its own row's answer, and neither a pause nor a human
\* changes a row that is decided.
LEMMA AppliedStep ==
  ASSUME LifeInv, AppliedInv, [Next]_vars
  PROVE  AppliedInv'
<1>1. ASSUME NEW w \in Workers, PassGate(w) PROVE AppliedInv'
  <2> DEFINE m == job[w].msg
  <2>1. /\ m \in GateIds /\ thread = AtGate(m) /\ rows[m] \in Answers
        /\ job[w].answer = rows[m] /\ job[w].pos = thread /\ UNCHANGED rows
    BY <1>1, ResumesOwnGate DEF Answered, PassGate
  <2>2. PICK k \in GateIds : job[w].pos = AtGate(k) /\ applied' = [applied EXCEPT ![k] = <<m, job[w].answer>>]
    BY <1>1 DEF PassGate
  <2>3. k = m
    BY <2>1, <2>2 DEF AtGate, GateIds
  <2>4. applied'[m] = <<m, rows[m]>> /\ \A g \in GateIds \ {m} : applied'[g] = applied[g]
    BY <2>1, <2>2, <2>3 DEF LifeInv, RangeInv, TypeOK
  <2> QED
    BY <2>1, <2>4 DEF AppliedInv
<1>2. ASSUME UNCHANGED applied, \A g \in GateIds : rows[g] \in Answers => rows'[g] = rows[g]
      PROVE  AppliedInv'
  BY <1>2 DEF AppliedInv
<1>3. ASSUME NEW w \in Workers, Publish(w) PROVE AppliedInv'
  <2>1. UNCHANGED applied
    BY <1>3 DEF Publish
  <2>2. \A g \in GateIds : rows[g] \in Answers => rows'[g] = rows[g]
    BY <1>3, AnswersAssumption DEF Publish, RowAfterPause, LifeInv, RangeInv, TypeOK
  <2> QED
    BY <1>2, <2>1, <2>2
<1>4. ASSUME NEW h \in Humans, ResolveApproval(h) PROVE AppliedInv'
  <2>1. UNCHANGED applied
    BY <1>4 DEF ResolveApproval
  <2>2. rows[human[h].gate] = "pending" /\ rows' = [rows EXCEPT ![human[h].gate] = human[h].answer]
    BY <1>4 DEF ResolveApproval, LifeInv, PlaceInv, HumansInv
  <2>3. \A g \in GateIds : rows[g] \in Answers => rows'[g] = rows[g]
    BY <2>2, AnswersAssumption DEF LifeInv, RangeInv, TypeOK
  <2> QED
    BY <1>2, <2>1, <2>3
<1>5. \/ \E w \in Workers : PassGate(w) \/ Publish(w)
      \/ \E h \in Humans : ResolveApproval(h)
      \/ UNCHANGED <<rows, applied>>
  BY DEF Next, ApiCrash, Create, Quiet, Decide, Work, InsertTask, EnqueueRun, CheckApproval,
     EnqueueResume, Take, Read, SetRunning, Open, FindRun, StartRun, Invoke, Drive, Return, SetAwaiting,
     MarkPaused, CompleteTask, CompleteRun, Raise, FailTask, FailRun, Ack, Crash, Expire, store, vars
<1> QED
  BY <1>1, <1>2, <1>3, <1>4, <1>5

\* What TRD.md:143 and server.py:302 say of the approvals holds under these
\* assumptions: every gate was passed with the decision recorded for that very
\* gate, and the record still shows it.  Without either assumption it does not
\* (MaxCrashes or MaxExpiries above 0, or a second human).
THEOREM RecordsAreTrue ==
  ASSUME Reliable
  PROVE  Spec => [](DecisionMatchesGate /\ AuditRecordHolds)
<1>1. Init => AppliedInv
  BY DEF Init, AppliedInv
<1>2. LifeInv /\ AppliedInv /\ [Next]_vars => AppliedInv'
  BY AppliedStep
<1>3. AppliedInv => DecisionMatchesGate /\ AuditRecordHolds
  BY DEF AppliedInv, DecisionMatchesGate, AuditRecordHolds, GateIds
<1> QED
  BY <1>1, <1>2, <1>3, LifeHolds, PTL DEF Spec

------------------------------------------------------------------------------
(* The client.                                                             *)

\* The stream only watches.
LEMMA StreamIsLifecycle == StreamSpec => Spec
<1>1. StreamInit => Init
  BY DEF StreamInit
<1>2. [StreamNext]_streamVars => [Next]_vars
  BY DEF StreamNext, streamVars, OpenStream, Poll, RunOut
<1> QED
  BY <1>1, <1>2, PTL DEF StreamSpec, Spec

\* One job at a time drives the run, so all of them know where it is.
LEMMA BatonIsExclusive == LifeInv => Exclusive
  BY DEF LifeInv, BatonInv, Exclusive

LEMMA FreshHolds ==
  ASSUME Reliable
  PROVE  Spec => [](RangeInv /\ Exclusive /\ FreshInv)
<1>1. LifeInv /\ FreshInv /\ [Next]_vars => FreshInv'
  BY BatonIsExclusive, FreshStep DEF LifeInv
<1>2. LifeInv /\ FreshInv => RangeInv /\ Exclusive /\ FreshInv
  BY BatonIsExclusive DEF LifeInv
<1> QED
  BY <1>1, <1>2, FreshInit, LifeHolds, PTL DEF Spec

\* A run at its end stays there.
LEMMA EndIsLast ==
  ASSUME RangeInv, RangeInv', Exclusive, FreshInv, [Next]_vars, thread = End
  PROVE  thread' = End
<1>1. thread' >= thread
  BY FreshStep
<1>2. thread' \in 0..End
  BY DEF RangeInv, TypeOK, Positions
<1> QED
  BY <1>1, <1>2, WaysOnward

\* What a stream can have told.
StreamTyped ==
    stream \in [at : {"closed", "open", "done", "over"}, last : {"none"} \cup Statuses,
                done : {"none"} \cup TERMINAL_STATUSES]
ToldInv == StreamTyped /\ ToldCompletedMeansEnd

LEMMA ToldStep ==
  ASSUME RangeInv, RangeInv', Exclusive, FreshInv, [StreamNext]_streamVars, ToldInv
  PROVE  ToldInv'
<1> USE DEF ToldInv, StreamTyped, ToldCompletedMeansEnd
<1>1. CASE Poll
  <2>1. UNCHANGED thread /\ status \in Statuses /\ (status = "completed" => thread = End)
    BY <1>1 DEF Poll, vars, store, RangeInv, TypeOK, FreshInv, RowOfRun
  <2> QED
    BY <1>1, <2>1 DEF Poll, EndsStream
<1>2. CASE OpenStream \/ RunOut
  <2>1. UNCHANGED thread
    BY <1>2 DEF OpenStream, RunOut, vars, store
  <2> QED
    BY <1>2, <2>1 DEF OpenStream, RunOut, NotOpen
<1>3. CASE UNCHANGED stream /\ [Next]_vars
  BY <1>3, EndIsLast
<1> QED
  BY <1>1, <1>2, <1>3 DEF StreamNext, streamVars

\* A client is told "completed" only of a run that is at its end, and the run
\* stays there: for every number of slots and any failures, and an API that may
\* die, as long as no message is delivered twice and one human decides.
THEOREM ClientsAreToldTheTruth ==
  ASSUME Reliable
  PROVE  StreamSpec => []ToldCompletedMeansEnd
<1>1. StreamInit => ToldInv
  BY DEF StreamInit, NotOpen, ToldInv, StreamTyped, ToldCompletedMeansEnd
<1>2. /\ RangeInv /\ Exclusive /\ FreshInv /\ (RangeInv /\ Exclusive /\ FreshInv)'
      /\ [StreamNext]_streamVars /\ ToldInv
      => ToldInv'
  BY ToldStep
<1>3. ToldInv => ToldCompletedMeansEnd
  BY DEF ToldInv
<1> QED
  BY <1>1, <1>2, <1>3, StreamIsLifecycle, FreshHolds, PTL DEF StreamSpec
=============================================================================

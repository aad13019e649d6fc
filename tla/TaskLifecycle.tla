---------------------------- MODULE TaskLifecycle ----------------------------
(***************************************************************************)
(* A task outside its graph: the API that creates it and records human      *)
(* decisions, the broker that delivers run_task and resume_task, the        *)
(* workers that drive the checkpointed run to its next stop, and the rows   *)
(* they leave in tasks, approvals and run_metadata.                        *)
(*                                                                         *)
(* One task.  An action is the code between two awaits that another         *)
(* process can get in between.  OrchestraGraph is the inside of Drive.     *)
(***************************************************************************)
EXTENDS GatePositions, Sequences

CONSTANTS
    Workers,        \* worker slots (celery --concurrency)
    Humans,         \* who may call POST /approvals/{id}/decide
    MaxCrashes,     \* bound: slots that die while they hold a message
    MaxExpiries,    \* bound: deliveries that outlive visibility_timeout
    MaxFailures,    \* bound: exceptions in jobs
    MaxApiCrashes   \* bound: API requests that die before they enqueue

ASSUME BoundsAssumption ==
    {MaxCrashes, MaxExpiries, MaxFailures, MaxApiCrashes} \subseteq Nat

\* What is stored.
VARIABLES
    status,         \* tasks.status; "absent" before POST /tasks
    rows,           \* approvals, by gate: "none", "pending" or the answer
    runs,           \* run_metadata.status of the task's rows, oldest first
    thread,         \* position of the latest checkpoint
    ready           \* messages in the queue, by message
store == <<status, rows, runs, thread, ready>>

\* Who is doing what.
VARIABLES
    creating,       \* progress of POST /tasks
    human,          \* progress of each POST /approvals/{id}/decide
    job             \* progress of each worker slot
actors == <<creating, human, job>>

\* History and the counters that bound the environment.
VARIABLES
    applied,        \* by gate: the row and the answer it was last passed with
    lost,           \* messages nobody will make up for: see Raise and ApiCrash
    crashes, expiries, failures, apiCrashes
history == <<applied, lost>>
bounds == <<crashes, expiries, failures, apiCrashes>>

vars == <<store, actors, history, bounds>>

------------------------------------------------------------------------------
\* A message is 0 for run_task(task) and g for resume_task(task, row g).
RunTask == 0
Messages == {RunTask} \cup GateIds

Resolved(g) == rows[g] \in Answers
Statuses == {"absent", "queued", "running", "awaiting_human", "completed", "failed"}
TERMINAL_STATUSES == {"completed", "failed"}

Stages == {"idle", "connect", "run", "open", "find", "start", "invoke", "drive", "publish",
           "await", "mark", "complete", "complete_run", "fail", "fail_run", "ack"}
Fallible == Stages \ {"idle", "ack"}

Idle == [at |-> "idle", msg |-> RunTask, answer |-> "none", hasCheckpoint |-> FALSE,
         run |-> 0, pos |-> 0, expired |-> FALSE]
AtRest == [at |-> "rest", gate |-> 0, answer |-> "none"]

Init ==
    /\ status = "absent" /\ rows = [g \in GateIds |-> "none"] /\ runs = <<>> /\ thread = 0
    /\ ready = [m \in Messages |-> 0]
    /\ creating = "insert" /\ human = [h \in Humans |-> AtRest] /\ job = [w \in Workers |-> Idle]
    /\ applied = [g \in GateIds |-> <<0, "none">>] /\ lost = {}
    /\ crashes = 0 /\ expiries = 0 /\ failures = 0 /\ apiCrashes = 0

Enqueue(m) == ready' = [ready EXCEPT ![m] = @ + 1]

------------------------------------------------------------------------------
(* The API.                                                                *)

\* create_task: the row first, then run_task.delay.
InsertTask ==
    /\ creating = "insert"
    /\ status' = "queued"
    /\ creating' = "enqueue"
    /\ UNCHANGED <<rows, runs, thread, ready, human, job, history, bounds>>

EnqueueRun ==
    /\ creating = "enqueue"
    /\ Enqueue(RunTask)
    /\ creating' = "done"
    /\ UNCHANGED <<status, rows, runs, thread, human, job, history, bounds>>

\* decide_approval: get_approval and its guard, resolve_approval, .delay.
MayDecideAgain(g) == rows[g] # "none"
MayDecide(g) == rows[g] = "pending"

CheckApproval(h, g, answer) ==
    /\ human[h].at = "rest"
    /\ MayDecide(g)
    /\ human' = [human EXCEPT ![h] = [at |-> "resolve", gate |-> g, answer |-> answer]]
    /\ UNCHANGED <<store, creating, job, history, bounds>>

ResolveApproval(h) ==
    /\ human[h].at = "resolve"
    /\ rows' = [rows EXCEPT ![human[h].gate] = human[h].answer]
    /\ human' = [human EXCEPT ![h].at = "enqueue"]
    /\ UNCHANGED <<status, runs, thread, ready, creating, job, history, bounds>>

EnqueueResume(h) ==
    /\ human[h].at = "enqueue"
    /\ Enqueue(human[h].gate)
    /\ human' = [human EXCEPT ![h] = AtRest]
    /\ UNCHANGED <<status, rows, runs, thread, creating, job, history, bounds>>

\* The API process dies between two steps of a request, and the message it
\* has not sent for what it wrote is lost: there is no outbox.
ApiCrash ==
    /\ apiCrashes < MaxApiCrashes
    /\ \/ /\ creating = "enqueue" /\ creating' = "done" /\ lost' = lost \cup {RunTask}
          /\ UNCHANGED human
       \/ \E h \in Humans :
            /\ human[h].at # "rest"
            /\ human' = [human EXCEPT ![h] = AtRest]
            /\ lost' = IF human[h].at = "enqueue" THEN lost \cup {human[h].gate} ELSE lost
            /\ UNCHANGED creating
    /\ apiCrashes' = apiCrashes + 1
    /\ UNCHANGED <<store, job, applied, crashes, expiries, failures>>

------------------------------------------------------------------------------
(* A worker slot.                                                          *)

At(w, stage) == job[w].at = stage
Moved(w, stage) == [job EXCEPT ![w].at = stage]

\* A delivery.
Available(m) == ready[m] > 0
Take(w, m) ==
    /\ At(w, "idle") /\ Available(m)
    /\ ready' = [ready EXCEPT ![m] = @ - 1]
    /\ job' = [job EXCEPT ![w] = [Idle EXCEPT !.at = "connect", !.msg = m]]
    /\ UNCHANGED <<status, rows, runs, thread, creating, human, history, bounds>>

\* create_pool, run_migrations, and the first read: resume_task reads the row's
\* resolution and gives up without one, run_task finds its task.
Recorded(m) == IF m = RunTask THEN "none" ELSE rows[m]
MayGoOn(m) == m = RunTask \/ Resolved(m)
Read(w) ==
    /\ At(w, "connect")
    /\ job' = [job EXCEPT ![w].answer = Recorded(job[w].msg),
                          ![w].at = IF MayGoOn(job[w].msg) THEN "run" ELSE "ack"]
    /\ UNCHANGED <<store, creating, human, history, bounds>>

\* set_task_status(..., "running").  A delivery that gets here makes up for an
\* earlier one of the same message that was lost.
SetRunning(w) ==
    /\ At(w, "run")
    /\ status' = "running"
    /\ lost' = lost \ {job[w].msg}
    /\ job' = Moved(w, "open")
    /\ UNCHANGED <<rows, runs, thread, ready, creating, human, applied, bounds>>

\* create_checkpointer and aget_tuple.
Open(w) ==
    /\ At(w, "open")
    /\ job' = [job EXCEPT ![w].hasCheckpoint = thread # 0, ![w].at = "find"]
    /\ UNCHANGED <<store, creating, human, history, bounds>>

\* latest_run_id.
AlwaysNeedsRun == TRUE
NeedsRun == Len(runs) = 0
FindRun(w) ==
    /\ At(w, "find")
    /\ job' = [job EXCEPT ![w].run = Len(runs),
                          ![w].at = IF NeedsRun THEN "start" ELSE "invoke"]
    /\ UNCHANGED <<store, creating, human, history, bounds>>

StartRun(w) ==
    /\ At(w, "start")
    /\ runs' = Append(runs, "running")
    /\ job' = [job EXCEPT ![w].run = Len(runs'), ![w].at = "invoke"]
    /\ UNCHANGED <<status, rows, thread, ready, creating, human, history, bounds>>

\* ainvoke loads the latest checkpoint; run_task starts the run afresh when it
\* had found none.  A resume value is of use only if a gate is pending there.
FreshStart(w) == job[w].msg = RunTask
MayStartFresh(w) == job[w].msg = RunTask /\ ~job[w].hasCheckpoint

Invoke(w) ==
    /\ At(w, "invoke")
    /\ thread' = IF MayStartFresh(w) THEN WorkAfter(0) ELSE thread
    /\ job' = [job EXCEPT ![w].pos = thread', ![w].at = "drive",
                          ![w].answer = IF \E k \in GateIds : thread' = AtGate(k) THEN @ ELSE "none"]
    /\ UNCHANGED <<status, rows, runs, ready, creating, human, history, bounds>>

\* A stretch of super-steps up to the next gate or the end, committed.
Drive(w) ==
    /\ At(w, "drive")
    /\ \E k \in 0..Gates : job[w].pos = WorkAfter(k) /\ thread' \in Onward(k)
    /\ job' = [job EXCEPT ![w].pos = thread']
    /\ UNCHANGED <<status, rows, runs, ready, creating, human, history, bounds>>

\* Command(resume=...) answers whatever gate the run is at, once.
CarriesAnswer(w) == job[w].msg # RunTask /\ job[w].answer # "none"
PassGate(w) ==
    /\ At(w, "drive") /\ CarriesAnswer(w)
    /\ \E k \in GateIds :
        /\ job[w].pos = AtGate(k)
        /\ thread' = WorkAfter(k)
        /\ applied' = [applied EXCEPT ![k] = <<job[w].msg, job[w].answer>>]
    /\ job' = [job EXCEPT ![w].pos = thread', ![w].answer = "none"]
    /\ UNCHANGED <<status, rows, runs, ready, creating, human, lost, bounds>>

\* ainvoke returned: with an interrupt, or with the final state.
Paused(w) == \E k \in GateIds : job[w].pos = AtGate(k) /\ ~CarriesAnswer(w)
CompletedAnyway(w) == "complete"
AfterReturn(w) == IF Paused(w) THEN "publish" ELSE "complete"
Return(w) ==
    /\ At(w, "drive")
    /\ Paused(w) \/ job[w].pos = End
    /\ job' = Moved(w, AfterReturn(w))
    /\ UNCHANGED <<store, creating, human, history, bounds>>

\* record_interrupt_approvals: a new row is pending, an old one keeps its status.
ReopenedRow(g) == "pending"
RowAfterPause(g) == IF rows[g] = "none" THEN "pending" ELSE rows[g]
Publish(w) ==
    /\ At(w, "publish")
    /\ \E k \in GateIds : /\ job[w].pos = AtGate(k)
                          /\ rows' = [rows EXCEPT ![k] = RowAfterPause(k)]
    /\ job' = Moved(w, "await")
    /\ UNCHANGED <<status, runs, thread, ready, creating, human, history, bounds>>

SetAwaiting(w) ==
    /\ At(w, "await")
    /\ status' = "awaiting_human"
    /\ job' = Moved(w, "mark")
    /\ UNCHANGED <<rows, runs, thread, ready, creating, human, history, bounds>>

MarkPaused(w) ==
    /\ At(w, "mark")
    /\ runs' = [runs EXCEPT ![job[w].run] = "awaiting_human"]
    /\ job' = Moved(w, "ack")
    /\ UNCHANGED <<status, rows, thread, ready, creating, human, history, bounds>>

CompleteTask(w) ==
    /\ At(w, "complete")
    /\ status' = "completed"
    /\ job' = Moved(w, "complete_run")
    /\ UNCHANGED <<rows, runs, thread, ready, creating, human, history, bounds>>

CompleteRun(w) ==
    /\ At(w, "complete_run")
    /\ runs' = [runs EXCEPT ![job[w].run] = "completed"]
    /\ job' = Moved(w, "ack")
    /\ UNCHANGED <<status, rows, thread, ready, creating, human, history, bounds>>

\* A statement raised.  Before there is a pool, and in the handler itself, no
\* handler writes a status; the others fail the task, and run_task its run.
AfterRaise(w) ==
    CASE At(w, "connect") -> {"fail", "ack"}
      [] job[w].at \in {"fail", "fail_run"} -> {"ack"}
      [] OTHER -> {"fail"}

\* The message is acknowledged all the same.  It is lost if the task is left
\* with the status it had, or the human's answer was not used.
BeforeAnswer == {"connect", "run", "open", "find", "start", "invoke"}
LosesMessage(w, stage) ==
    \/ stage = "ack" /\ ~At(w, "fail_run")
    \/ job[w].msg # RunTask /\ job[w].at \in BeforeAnswer
Raise(w) ==
    /\ job[w].at \in Fallible
    /\ At(w, "drive") => \E k \in 0..Gates : job[w].pos = WorkAfter(k)
    /\ failures < MaxFailures
    /\ failures' = failures + 1
    /\ \E stage \in AfterRaise(w) :
        /\ job' = Moved(w, stage)
        /\ lost' = IF LosesMessage(w, stage) THEN lost \cup {job[w].msg} ELSE lost
    /\ UNCHANGED <<store, creating, human, applied, crashes, expiries, apiCrashes>>

StatusOfFailedRun(w) == IF job[w].msg = RunTask THEN "failed" ELSE status
StatusOfFailure(w) == "failed"
FailTask(w) ==
    /\ At(w, "fail")
    /\ status' = StatusOfFailure(w)
    /\ job' = Moved(w, IF job[w].msg = RunTask THEN "fail_run" ELSE "ack")
    /\ UNCHANGED <<rows, runs, thread, ready, creating, human, history, bounds>>

FailRun(w) ==
    /\ At(w, "fail_run")
    /\ runs' = IF runs = <<>> THEN runs ELSE [runs EXCEPT ![Len(runs)] = "failed"]
    /\ job' = Moved(w, "ack")
    /\ UNCHANGED <<status, rows, thread, ready, creating, human, history, bounds>>

\* task_acks_late: the message is gone only now, also when the task raised.
Ack(w) ==
    /\ At(w, "ack")
    /\ job' = [job EXCEPT ![w] = Idle]
    /\ UNCHANGED <<store, creating, human, history, bounds>>

------------------------------------------------------------------------------
(* The broker.                                                             *)

\* The slot dies and its unacknowledged message is delivered again.
AckedEarly(w) == FALSE
Redelivered(w) == ~job[w].expired
Crash(w) ==
    /\ ~At(w, "idle") /\ crashes < MaxCrashes
    /\ IF Redelivered(w) THEN Enqueue(job[w].msg) ELSE UNCHANGED ready
    /\ job' = [job EXCEPT ![w] = Idle]
    /\ crashes' = crashes + 1
    /\ UNCHANGED <<status, rows, runs, thread, creating, human, history, expiries, failures, apiCrashes>>

\* visibility_timeout: a message held too long is delivered again while its
\* worker goes on.
Expire(w) ==
    /\ ~At(w, "idle") /\ ~job[w].expired /\ expiries < MaxExpiries
    /\ Enqueue(job[w].msg)
    /\ job' = [job EXCEPT ![w].expired = TRUE]
    /\ expiries' = expiries + 1
    /\ UNCHANGED <<status, rows, runs, thread, creating, human, history, crashes, failures, apiCrashes>>

------------------------------------------------------------------------------
Create == InsertTask \/ EnqueueRun
Decide(h) ==
    \/ \E g \in GateIds, answer \in Answers : CheckApproval(h, g, answer)
    \/ ResolveApproval(h) \/ EnqueueResume(h)
Work(w) ==
    \/ \E m \in Messages : Take(w, m)
    \/ Read(w) \/ SetRunning(w) \/ Open(w) \/ FindRun(w) \/ StartRun(w)
    \/ Invoke(w) \/ Drive(w) \/ PassGate(w)
    \/ Return(w) \/ Publish(w) \/ SetAwaiting(w) \/ MarkPaused(w)
    \/ CompleteTask(w) \/ CompleteRun(w) \/ FailTask(w) \/ FailRun(w) \/ Ack(w)

Busy == creating = "enqueue" \/ (\E w \in Workers : ~At(w, "idle"))
        \/ (\E m \in Messages : ready[m] > 0) \/ (\E h \in Humans : human[h].at # "rest")
Quiet == ~Busy /\ creating = "done" /\ (\A g \in GateIds : rows[g] # "pending") /\ UNCHANGED vars

Next ==
    \/ Create \/ ApiCrash \/ Quiet
    \/ \E h \in Humans : Decide(h)
    \/ \E w \in Workers : Work(w) \/ Raise(w) \/ Crash(w) \/ Expire(w)

Spec == Init /\ [][Next]_vars

\* The API goes on with what it accepted unless it dies, humans decide, slots
\* keep working.
Fairness ==
    /\ WF_vars(Create)
    /\ \A h \in Humans : WF_vars(Decide(h))
    /\ \A w \in Workers : WF_vars(Work(w))
FairSpec == Spec /\ Fairness

------------------------------------------------------------------------------
(* Properties.                                                             *)

TypeOK ==
    /\ status \in Statuses
    /\ rows \in [GateIds -> {"none", "pending"} \cup Answers]
    /\ runs \in Seq({"running", "awaiting_human", "completed", "failed"})
    /\ thread \in Positions
    /\ ready \in [Messages -> Nat]
    /\ creating \in {"insert", "enqueue", "done"}
    /\ human \in [Humans -> [at : {"rest", "resolve", "enqueue"}, gate : 0..Gates,
                             answer : {"none"} \cup Answers]]
    /\ job \in [Workers -> [at : Stages, msg : Messages, answer : {"none", "pending"} \cup Answers,
                            hasCheckpoint : BOOLEAN, run : Nat, pos : Positions, expired : BOOLEAN]]
    /\ applied \in [GateIds -> (0..Gates) \X ({"none"} \cup Answers)]
    /\ lost \subseteq Messages
    /\ {crashes, expiries, failures, apiCrashes} \subseteq Nat

\* A redelivered message continues the run: the checkpoint never goes back to a
\* position the run had left (worker/tasks.py:5).
ProgressKept == [][thread' >= thread]_thread

\* A decided row is not reopened by a pause at the same gate (routes.py:89).
DecisionsStay == [][\A g \in GateIds : Resolved(g) => rows'[g] \in Answers]_rows

\* A task is reported completed only when its run has reached the end, and is
\* not taken back from there; and whatever was redelivered, the run has had one
\* run_metadata row (run_metadata.latest_run_id).
CompletedRunsEnded == status = "completed" => thread = End /\ Len(runs) = 1

\* No task is left behind as queued or running but by a lost message: when
\* nothing is in flight, the task waits for a human or has ended, or an API died
\* before it sent the message, or a job raised where no handler wrote a status.
RestingStatus ==
    ~Busy /\ creating = "done" => status \in {"awaiting_human", "completed", "failed"} \/ lost # {}

\* Every task that was accepted comes to rest in a terminal status, but by a
\* lost message: whatever crashes, expires and raises, as long as every message
\* was sent, every failure recorded and every answer used.
Settles == <>[](status \in TERMINAL_STATUSES \/ lost # {})

\* The promise of a gated run, for deliveries that are not repeated and one
\* decision per row.
OwnPass == [g \in GateIds |->
    IF applied[g][1] = 0 THEN "none" ELSE IF applied[g][1] = g THEN applied[g][2] ELSE "foreign"]
Promise == INSTANCE GateContract WITH position <- thread, asked <- rows, passed <- OwnPass
KeepsPromise == Promise!Contract

------------------------------------------------------------------------------
(* What documents and comments of the repository say and the code does not. *)

\* files/TRD.md:143 "an approval record with status `approved` for that exact
\* call": a gate is passed with the decision recorded for it.
DecisionMatchesGate == \A g \in GateIds : applied[g][1] \in {0, g}

\* tasks.py:180 "the task is marked ``awaiting_human`` and nothing else happens
\* until the API hands the decision to resume_task": a task that waits for a
\* human can be decided, or a decision is on its way to a worker.
PausedIsDecidable ==
    status = "awaiting_human" => Busy \/ \E g \in GateIds : rows[g] = "pending"

\* repository.py:4 "never loses a task": every accepted task ends.
NeverLosesATask == <>[](status \in TERMINAL_STATUSES)

\* server.py:302 "The approvals row is the durable audit record".
AuditRecordHolds ==
    \A g \in GateIds : applied[g][1] = g => applied[g][2] = rows[g]

\* run_metadata.py:4 "failed on error".
FailedTaskFailsRun ==
    status = "failed" /\ ~Busy => \A i \in DOMAIN runs : runs[i] = "failed"
==============================================================================

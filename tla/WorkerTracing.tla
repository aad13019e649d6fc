--------------------------- MODULE WorkerTracing ---------------------------
(***************************************************************************)
(* The spans of the jobs of one worker process: observability/setup.py,    *)
(* spans.py and exporter.py, as worker/tasks.py calls them after           *)
(* run_migrations.  The worker runs its jobs on threads (--pool=threads),  *)
(* which share the module's provider, one buffer and one exporter.  The    *)
(* trace endpoint (api/server.py) reads what is stored.                    *)
(*                                                                         *)
(* OpenTelemetry's provider and batch processor are external: the first    *)
(* provider set stays, ended spans go to its buffer, the processor's       *)
(* thread and force_flush export batches one at a time, and a batch whose  *)
(* export fails is dropped.                                                *)
(***************************************************************************)
EXTENDS Integers, FiniteSets, Sequences, SequencesExt

CONSTANTS Jobs,        \* the jobs the process runs, past run_migrations
          SpansOf,     \* the spans each job ends; the last is task.run, the parent
          BatchSize,   \* the processor's max_export_batch_size
          None

ASSUME TracingAssumption ==
  /\ None \notin Jobs
  /\ SpansOf \in [Jobs -> Nat \ {0}]
  /\ BatchSize \in Nat \ {0}

VARIABLES job,          \* where each job is
          provider,     \* setup._provider, by the job that built it
          installed,    \* the provider OpenTelemetry uses
          builders,     \* the jobs that built a provider and an exporter
          ended,        \* how many of its spans each job has ended
          buffer,       \* the ended spans the processor has not taken
          export,       \* the batch of the call of export() in progress, <<>> if there is none
          coroutines,   \* the runs of _export on the exporter's loop
          pools,        \* how many pools the exporter created
          rows,         \* the spans table
          exported,     \* the spans of calls that returned SUCCESS
          dropped       \* the spans of calls that returned FAILURE

spanVars == <<buffer, export, coroutines, pools, rows, exported, dropped>>
providerVars == <<provider, installed, builders>>
vars == <<job, providerVars, ended, spanVars>>

Spans == UNION {{j} \X (1..SpansOf[j]) : j \in Jobs}
Parent(s) == IF s[2] = SpansOf[s[1]] THEN None ELSE <<s[1], SpansOf[s[1]]>>

Over == {"completed", "paused", "skipped", "failed", "crashed"}
Steps == {"waiting", "building", "built", "publishing", "running", "flushing", "flushed"} \cup Over
Timer == "timer"

TracingInit ==
  /\ job = [j \in Jobs |-> "waiting"]
  /\ provider = None /\ installed = None /\ builders = {}
  /\ ended = [j \in Jobs |-> 0]
  /\ buffer = <<>> /\ export = <<>> /\ coroutines = {} /\ pools = 0
  /\ rows = {} /\ exported = {} /\ dropped = {}

Goto(j, step) == job' = [job EXCEPT ![j] = step]

-----------------------------------------------------------------------------
(* configure_tracing: the check, the construction, the installation and    *)
(* the assignment are steps between which another thread may run.          *)
Configure(j) ==
  /\ job[j] = "waiting"
  /\ Goto(j, IF provider = None THEN "building" ELSE "running")
  /\ UNCHANGED <<providerVars, ended, spanVars>>

BuildProvider(j) ==
  /\ job[j] = "building"
  /\ builders' = builders \cup {j}
  /\ Goto(j, "built")
  /\ UNCHANGED <<provider, installed, ended, spanVars>>

(* set_tracer_provider keeps the provider it has and only logs a warning.  *)
InstallProvider(j) ==
  /\ job[j] = "built"
  /\ installed' = IF installed = None THEN j ELSE installed
  /\ Goto(j, "publishing")
  /\ UNCHANGED <<provider, builders, ended, spanVars>>

PublishProvider(j) ==
  /\ job[j] = "publishing"
  /\ provider' = j
  /\ Goto(j, "running")
  /\ UNCHANGED <<installed, builders, ended, spanVars>>

-----------------------------------------------------------------------------
(* The task, or the decision to resume it with, is not in the database.    *)
Skip(j) ==
  /\ job[j] = "running" /\ ended[j] = 0
  /\ Goto(j, "skipped")
  /\ UNCHANGED <<providerVars, ended, spanVars>>

EndSpan(j) ==
  /\ job[j] = "running" /\ ended[j] < SpansOf[j]
  /\ ended' = [ended EXCEPT ![j] = @ + 1]
  /\ buffer' = Append(buffer, <<j, ended'[j]>>)
  /\ UNCHANGED <<job, providerVars, export, coroutines, pools, rows, exported, dropped>>

(* The graph raises inside task.run: the span ends, the job is failed and  *)
(* nothing flushes.                                                        *)
RunRaises(j) ==
  /\ job[j] = "running" /\ ended[j] < SpansOf[j]
  /\ ended' = [ended EXCEPT ![j] = SpansOf[j]]
  /\ buffer' = Append(buffer, <<j, SpansOf[j]>>)
  /\ Goto(j, "failed")
  /\ UNCHANGED <<providerVars, export, coroutines, pools, rows, exported, dropped>>

SkipsFlush(j) ==
  /\ job[j] = "running" /\ ended[j] = SpansOf[j]
  /\ Goto(j, "flushed")
  /\ UNCHANGED <<providerVars, ended, spanVars>>

(* flush_tracing flushes the module's provider: when that is not the       *)
(* installed one, its buffer is empty and the call returns at once.        *)
StartFlush(j) ==
  /\ job[j] = "running" /\ ended[j] = SpansOf[j]
  /\ Goto(j, IF provider = installed THEN "flushing" ELSE "flushed")
  /\ UNCHANGED <<providerVars, ended, spanVars>>

EndFlush(j) ==
  /\ job[j] = "flushing" /\ buffer = <<>> /\ export = <<>>
  /\ Goto(j, "flushed")
  /\ UNCHANGED <<providerVars, ended, spanVars>>

(* The stop of the run is written to the database, which may refuse it.    *)
Settle(j) ==
  /\ job[j] = "flushed"
  /\ \E stop \in {"completed", "paused", "failed"} : Goto(j, stop)
  /\ UNCHANGED <<providerVars, ended, spanVars>>

-----------------------------------------------------------------------------
Exporters == {Timer} \cup {j \in Jobs : job[j] = "flushing"}

(* The processor calls export() under its lock; export() hands _export to  *)
(* the exporter's loop and waits for its result.                           *)
CallExport(by) ==
  /\ by \in Exporters
  /\ export = <<>> /\ buffer # <<>>
  /\ \E n \in 1..Len(buffer) :
       /\ n = BatchSize \/ (n < BatchSize /\ n = Len(buffer))
       /\ LET batch == SubSeq(buffer, 1, n) IN
            /\ export' = batch
            /\ coroutines' = coroutines \cup {[batch |-> batch, todo |-> batch, at |-> "start"]}
            /\ buffer' = SubSeq(buffer, n + 1, Len(buffer))
  /\ UNCHANGED <<job, providerVars, ended, pools, rows, exported, dropped>>

WaitsForEver == FALSE

(* future.result(timeout=30): the call gives up, the coroutine goes on.    *)
Timeout ==
  /\ export # <<>>
  /\ dropped' = dropped \cup ToSet(export)
  /\ export' = <<>>
  /\ UNCHANGED <<job, providerVars, ended, buffer, coroutines, pools, rows, exported>>

Becomes(c, new) == coroutines' = (coroutines \ {c}) \cup {new}

(* _get_pool: the exporter's pool is looked at, then awaited, then set.    *)
GetPool(c) ==
  /\ c.at = "start"
  /\ Becomes(c, [c EXCEPT !.at = IF pools = 0 THEN "creating" ELSE "inserting"])
  /\ UNCHANGED <<job, providerVars, ended, buffer, export, pools, rows, exported, dropped>>

SetPool(c) ==
  /\ c.at = "creating"
  /\ pools' = pools + 1
  /\ Becomes(c, [c EXCEPT !.at = "inserting"])
  /\ UNCHANGED <<job, providerVars, ended, buffer, export, rows, exported, dropped>>

(* One statement per span, each its own transaction.                       *)
InsertSpan(c) ==
  /\ c.at = "inserting" /\ c.todo # <<>>
  /\ rows' = rows \cup {Head(c.todo)}
  /\ Becomes(c, [c EXCEPT !.todo = Tail(@)])
  /\ UNCHANGED <<job, providerVars, ended, buffer, export, pools, exported, dropped>>

(* A result nobody waits for any more is lost.                             *)
Return(c) ==
  /\ c.at = "inserting" /\ c.todo = <<>>
  /\ coroutines' = coroutines \ {c}
  /\ IF export = c.batch
     THEN export' = <<>> /\ exported' = exported \cup ToSet(c.batch)
     ELSE UNCHANGED <<export, exported>>
  /\ UNCHANGED <<job, providerVars, ended, buffer, pools, rows, dropped>>

Raise(c) ==
  /\ c.at = "creating" \/ (c.at = "inserting" /\ c.todo # <<>>)
  /\ coroutines' = coroutines \ {c}
  /\ IF export = c.batch
     THEN export' = <<>> /\ dropped' = dropped \cup ToSet(c.batch)
     ELSE UNCHANGED <<export, dropped>>
  /\ UNCHANGED <<job, providerVars, ended, buffer, pools, rows, exported>>

-----------------------------------------------------------------------------
(* The process is killed with what it buffered; nothing of it restarts.     *)
ProcessDies ==
  /\ \E j \in Jobs : job[j] \notin Over
  /\ job' = [j \in Jobs |-> IF job[j] \in Over THEN job[j] ELSE "crashed"]
  /\ buffer' = <<>> /\ export' = <<>> /\ coroutines' = {}
  /\ UNCHANGED <<providerVars, ended, pools, rows, exported, dropped>>

JobStep(j) ==
  \/ Configure(j) \/ BuildProvider(j) \/ InstallProvider(j) \/ PublishProvider(j)
  \/ Skip(j) \/ EndSpan(j) \/ RunRaises(j) \/ StartFlush(j) \/ EndFlush(j) \/ Settle(j)

Next ==
  \/ \E j \in Jobs : JobStep(j)
  \/ \E by \in {Timer} \cup Jobs : CallExport(by)
  \/ Timeout
  \/ \E c \in coroutines : GetPool(c) \/ SetPool(c) \/ InsertSpan(c) \/ Return(c) \/ Raise(c)
  \/ ProcessDies

(* A thread goes on, the processor's thread exports what waits, and a call *)
(* gives up after its timeout.  Nothing is assumed of the database behind  *)
(* the exporter: its coroutines need never move.                           *)
Spec ==
  /\ TracingInit
  /\ [][Next]_vars
  /\ \A j \in Jobs : WF_vars(JobStep(j))
  /\ WF_vars(CallExport(Timer))
  /\ WF_vars(Timeout)

-----------------------------------------------------------------------------
(* get_task_trace reads every span of the traces of a task and _span_tree  *)
(* hangs each under its parent's row, or makes it a root when there is no  *)
(* such row.                                                               *)
Roots(stored) == {s \in stored : Parent(s) \notin stored}
Children(stored, s) == {c \in stored : Parent(c) = s}
SpanTree(stored) ==
  Roots(stored) \cup UNION {Children(stored, s) : s \in stored}

GetTaskTrace(j) == SpanTree({s \in rows : s[1] = j})

-----------------------------------------------------------------------------
TypeOK ==
  /\ job \in [Jobs -> Steps]
  /\ {provider, installed} \subseteq Jobs \cup {None}
  /\ builders \subseteq Jobs
  /\ ended \in [Jobs -> Nat]
  /\ ToSet(buffer \o export) \cup rows \cup exported \cup dropped \subseteq Spans
  /\ pools \in Nat

(* What export() reports as stored is stored.                              *)
SuccessIsStored == exported \subseteq rows

(* "call before marking a run complete" (setup.py): with one provider in   *)
(* the process, the trace of a run marked complete or paused shows every   *)
(* span of it, but for those whose export reported a failure; none still   *)
(* waits in the process, where a crash would lose it.                      *)
TraceIsWhole ==
  Cardinality(builders) = 1 =>
    \A j \in Jobs : job[j] \in {"completed", "paused"} =>
      ({j} \X (1..SpansOf[j])) \ dropped \subseteq GetTaskTrace(j)

(* "Install the Postgres span exporter exactly once per process" (setup.py *)
(* :21): refuted, two first jobs of a worker both find no provider.        *)
InstalledOnce == Cardinality(builders) <= 1

(* A database that never answers the exporter holds no run back.           *)
EveryJobStops == \A j \in Jobs : <>(job[j] \in Over)
=============================================================================

------------------------------ MODULE EvalMatrix ------------------------------
(***************************************************************************)
(* The eval harness: run_matrix over configs and repeats, run_config over   *)
(* the tasks, with the response cache and the budget between a task and the *)
(* model.  The harness may be killed and started again on the same          *)
(* database.  Costs are whole units; a prompt is its task.                 *)
(***************************************************************************)
EXTENDS Integers, FiniteSets

CONSTANTS
    Configs,        \* how many configs the matrix goes through
    Repeats,        \* --repeats, for each of them
    Tasks,          \* how many tasks the locked set has
    Cap,            \* --budget-max
    MaxCost,        \* bound: what one response may cost
    MaxCrashes,     \* bound: the harness is killed
    MaxFailures,    \* bound: tasks that raise
    MaxStops        \* bound: statements that raise outside a task

ASSUME EvalAssumption == {Configs, Repeats, Tasks, Cap, MaxCost} \subseteq Nat \ {0}

\* A run is a config and a repeat, in the order of the two loops.
Runs == Configs * Repeats
RunIds == 1..Runs
ConfigOf(i) == ((i - 1) \div Repeats) + 1
TaskIds == 1..Tasks

VARIABLES
    pool,           \* was a database handed in
    at,             \* what the harness is about to do
    r, k,           \* run and task it is at
    spent,          \* Budget.spent_usd of this run
    graded,         \* length of run_config's grades
    owed,           \* what the response in hand costs
    memory          \* LLMCache._memory
harness == <<at, r, k, spent, graded, owed, memory>>

VARIABLES
    cache,          \* llm_cache
    results,        \* eval_results rows, by run and task
    output          \* summary files: tasks and whether aborted
stored == <<cache, results, output>>

VARIABLES
    bill,           \* by task: responses the provider was paid for
    paid,           \* what it was paid since this run began
    lost,           \* the part of it that no budget was charged with
    crashes, failures, stops
money == <<bill, paid, lost>>
bounds == <<crashes, failures, stops>>
history == <<money, bounds>>

vars == <<pool, harness, stored, history>>

NoOutput == [tasks |-> 0, aborted |-> FALSE, there |-> FALSE]

Init ==
    /\ pool \in BOOLEAN
    /\ at = "run" /\ r = 0 /\ k = 1 /\ spent = 0 /\ graded = 0 /\ owed = 0 /\ memory = {}
    /\ cache = {} /\ results = [i \in RunIds |-> [t \in TaskIds |-> 0]]
    /\ output = [i \in RunIds |-> NoOutput]
    /\ bill = [t \in TaskIds |-> 0] /\ paid = 0 /\ lost = 0
    /\ crashes = 0 /\ failures = 0 /\ stops = 0

\* The provider is paid for a response to the task at hand.
Pay(cost) ==
    /\ bill' = [bill EXCEPT ![k] = @ + 1]
    /\ paid' = paid + cost

------------------------------------------------------------------------------
\* The next config and repeat, with a budget and a cache object of its own.
NextRun ==
    /\ at = "run"
    /\ IF r = Runs THEN at' = "done" /\ UNCHANGED <<r, k, spent, graded, owed, memory, paid, lost>>
       ELSE /\ at' = "task" /\ r' = r + 1 /\ k' = 1
            /\ spent' = 0 /\ graded' = 0 /\ owed' = 0 /\ memory' = {} /\ paid' = 0 /\ lost' = 0
    /\ UNCHANGED <<pool, stored, bill, bounds>>

\* CachedProvider.complete: a hit needs no provider and costs nothing.
NeverCached(t) == FALSE
Cached(t) == pool /\ t \in memory \cup cache
NoTaskLeft == k > Tasks
Begin ==
    /\ at = "task"
    /\ at' = IF NoTaskLeft THEN "summary" ELSE IF Cached(k) THEN "save" ELSE "ask"
    /\ memory' = IF ~NoTaskLeft /\ Cached(k) THEN memory \cup {k} ELSE memory
    /\ UNCHANGED <<pool, r, k, spent, graded, owed, stored, history>>

\* Budget.charge, after the response is in the cache.
OverCapAlone(total) == owed > Cap
OverCap(total) == total > Cap
Unmarked == "summary"
AfterTrip == "abort"
Charge ==
    /\ spent' = spent + owed
    /\ at' = IF OverCap(spent') THEN AfterTrip ELSE "save"

Answer ==
    /\ at = "ask"
    /\ \E cost \in 1..MaxCost : Pay(cost) /\ owed' = cost
    /\ at' = "store"
    /\ UNCHANGED <<pool, r, k, spent, graded, memory, stored, lost, bounds>>

Store ==
    /\ at = "store"
    /\ Charge
    /\ memory' = IF pool THEN memory \cup {k} ELSE memory
    /\ cache' = IF pool THEN cache \cup {k} ELSE cache
    /\ UNCHANGED <<pool, r, k, graded, owed, results, output, history>>

\* The provider, which may have been paid, or the cache raised: the task has
\* failed, nothing is charged.
SkipsTheRun == "run"
AfterFailure == "save"
TaskFails ==
    /\ at \in {"ask", "store"} /\ failures < MaxFailures
    /\ \/ at = "ask" /\ UNCHANGED <<memory, money>>
       \/ at = "ask" /\ UNCHANGED memory /\ \E cost \in 1..MaxCost : Pay(cost) /\ lost' = lost + cost
       \/ at = "store" /\ pool /\ memory' = memory \cup {k}
          /\ lost' = lost + owed /\ UNCHANGED <<bill, paid>>
    /\ failures' = failures + 1
    /\ at' = AfterFailure
    /\ UNCHANGED <<pool, r, k, spent, graded, owed, stored, crashes, stops>>

\* grades.append, then the row.
Save ==
    /\ at = "save"
    /\ graded' = graded + 1
    /\ results' = IF pool THEN [results EXCEPT ![r][k] = @ + 1] ELSE results
    /\ k' = k + 1 /\ at' = "task" /\ owed' = 0
    /\ UNCHANGED <<pool, r, spent, memory, cache, output, history>>

Summarise ==
    /\ at \in {"summary", "abort"}
    /\ output' = [output EXCEPT ![r] = [tasks |-> graded, aborted |-> at = "abort", there |-> TRUE]]
    /\ at' = "run"
    /\ UNCHANGED <<pool, r, k, spent, graded, owed, memory, cache, results, history>>

\* What raises outside run_single_task ends the whole matrix: the upsert of
\* eval_runs, the row of a graded task, the summary file.
Stop ==
    /\ \/ pool /\ (at = "save" \/ (at = "run" /\ r < Runs))
       \/ at \in {"summary", "abort"}
    /\ stops < MaxStops /\ stops' = stops + 1
    /\ at' = "stopped"
    /\ UNCHANGED <<pool, r, k, spent, graded, owed, memory, stored, money, crashes, failures>>

Crash ==
    /\ at \notin {"done", "stopped"} /\ crashes < MaxCrashes
    /\ crashes' = crashes + 1
    /\ at' = "stopped"
    /\ UNCHANGED <<pool, r, k, spent, graded, owed, memory, stored, money, failures, stops>>

\* The operator starts the harness again, from the first run.
Restart ==
    /\ at = "stopped"
    /\ at' = "run" /\ r' = 0 /\ k' = 1 /\ spent' = 0 /\ graded' = 0 /\ owed' = 0 /\ memory' = {}
    /\ paid' = 0 /\ lost' = 0
    /\ UNCHANGED <<pool, stored, bill, bounds>>

Work == NextRun \/ Begin \/ Answer \/ Store \/ TaskFails \/ Save \/ Summarise
Done == at = "done" /\ UNCHANGED vars
Next == Work \/ Stop \/ Crash \/ Restart \/ Done

Spec == Init /\ [][Next]_vars
\* One process that awaits its calls: it goes on as long as it lives.
FairSpec == Spec /\ WF_vars(Work)

------------------------------------------------------------------------------
TypeOK ==
    /\ pool \in BOOLEAN
    /\ at \in {"run", "task", "ask", "store", "save", "summary", "abort", "done", "stopped"}
    /\ r \in 0..Runs /\ k \in 1..(Tasks + 1) /\ memory \subseteq TaskIds /\ cache \subseteq TaskIds
    /\ graded \in 0..Tasks
    /\ results \in [RunIds -> [TaskIds -> Nat]] /\ bill \in [TaskIds -> Nat]
    /\ output \in [RunIds -> [tasks : 0..Tasks, aborted : BOOLEAN, there : BOOLEAN]]
    /\ spent \in Nat /\ owed \in Nat /\ paid \in Nat /\ lost \in Nat
    /\ crashes \in Nat /\ failures \in Nat /\ stops \in Nat

\* What one repeat of a config really pays is at most its cap and one response,
\* but for responses that were paid for and lost before they were charged; and
\* no task is begun over the cap (budget.py:26, run.py:58).
OvershootIsOneResponse ==
    /\ paid - lost <= Cap + MaxCost
    /\ at \in {"task", "ask", "save"} => paid - lost <= Cap

\* With a database the same prompt is paid for once over all configs, repeats
\* and restarts, but for answers that a crash or an error kept from the cache
\* (cache.py:93).
PromptsArePaidOnce ==
    pool => \A t \in TaskIds : bill[t] <= 1 + crashes + failures

\* A summary that is not marked aborted covers the whole task set, and every
\* task a summary counts has a row (run.py:116).
SummariesAreBacked ==
    \A i \in RunIds : output[i].there =>
        /\ ~output[i].aborted => output[i].tasks = Tasks
        /\ pool => \A t \in 1..output[i].tasks : results[i][t] > 0

\* Failing tasks and tripped budgets do not keep the matrix from reporting every
\* run, and neither does anything else as long as a harness that was killed or
\* has stopped on an error is started again (run.py:174).
MatrixCompletes ==
    <>[](at = "stopped") \/ <>(at = "done" /\ \A i \in RunIds : output[i].there)

------------------------------------------------------------------------------
(* What documents and comments of the repository say and the code does not. *)

\* run.py:176 "each config gets its own Budget: a config that trips the cap is
\* aborted": each repeat gets one, and the next repeat of the config is run.
TrippedConfigIsAborted ==
    \A i, j \in RunIds :
        i < j /\ ConfigOf(i) = ConfigOf(j) /\ output[i].aborted => ~output[j].there

\* budget.py:6 "a runaway matrix can never overspend": even one repeat does.
NeverOverspends == paid <= Cap
==============================================================================

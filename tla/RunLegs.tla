------------------------------- MODULE RunLegs -------------------------------
(***************************************************************************)
(* A run, leg by leg.  A leg is one call of _run_graph: it builds a tool    *)
(* registry with its rate-limit windows and a recorder of model usage, lets *)
(* the branches of the graph use both, and is gone when the run pauses,     *)
(* ends, raises or its worker dies.  What stays are the rows of tool_calls  *)
(* and run_metadata.                                                       *)
(*                                                                         *)
(* Branches interleave at the awaits of one event loop; the checks of a     *)
(* registry run between two of them.  Costs are counted in responses.      *)
(***************************************************************************)
EXTENDS Integers, Sequences, FiniteSets

CONSTANTS
    Branches,       \* subtasks a leg executes side by side
    Tools,
    Allowed,        \* by tool: the branches whose specialist may use it
    RateLimit,      \* by tool: calls per window, 0 for none
    Window,         \* the 60 s of a rate limit, in ticks
    MaxTime,        \* bound: ticks
    MaxCalls,       \* bound: tool calls of the run
    MaxPaid,        \* bound: responses of the models
    MaxLegs, MaxCrashes, MaxLogFailures

ASSUME LimitsAssumption ==
    /\ RateLimit \in [Tools -> Nat] /\ Window \in Nat \ {0} /\ MaxTime \in Nat
    /\ Allowed \in [Tools -> SUBSET Branches] /\ IsFiniteSet(Branches) /\ Tools # {}

\* Of the worker process, for one leg.
VARIABLES
    up,             \* is a leg running
    usage,          \* ToolRegistry._usage: by tool, which admitted calls it keeps the time of
    recorder,       \* RunRecorder: responses recorded
    branch          \* what each branch is waiting for
process == <<up, usage, recorder, branch>>

\* In the database.
VARIABLES
    run,            \* the run_metadata row: status and total
    audit           \* by tool: rows of tool_calls
rows == <<run, audit>>

\* The world and its history.
VARIABLES
    now,
    called,         \* by tool: calls that reached the registry
    admitted,       \* by tool: when the leg's calls were admitted
    paid,           \* responses the models sent
    recorded,       \* responses any leg recorded
    legs, crashes, logFailures
world == <<now, called, admitted, paid, recorded, legs, crashes, logFailures>>

vars == <<process, rows, world>>

------------------------------------------------------------------------------
AtRest == [at |-> "rest", tool |-> CHOOSE t \in Tools : TRUE, tries |-> 0]
At(b, place) == branch[b].at = place
AllAtRest == \A b \in Branches : At(b, "rest")
Calls == {<<t, i>> : t \in Tools, i \in 1..MaxCalls}
CallsMade == Cardinality({c \in Calls : c[2] <= called[c[1]]})

Init ==
    /\ up = FALSE /\ usage = [t \in Tools |-> {}] /\ recorder = 0
    /\ branch = [b \in Branches |-> AtRest]
    /\ run = [status |-> "absent", total |-> 0] /\ audit = [t \in Tools |-> 0]
    /\ now = 0 /\ called = [t \in Tools |-> 0] /\ admitted = [t \in Tools |-> <<>>]
    /\ paid = 0 /\ recorded = 0 /\ legs = 0 /\ crashes = 0 /\ logFailures = 0

Tick == now < MaxTime /\ now' = now + 1
        /\ UNCHANGED <<process, rows, called, admitted, paid, recorded, legs, crashes, logFailures>>

\* _run_graph: a new registry, a new recorder, and the run row unless there is one.
NoUsage == [t \in Tools |-> {}]
StartLeg ==
    /\ ~up /\ legs < MaxLegs
    /\ up' = TRUE /\ legs' = legs + 1
    /\ usage' = NoUsage /\ recorder' = 0
    /\ admitted' = [t \in Tools |-> <<>>]
    /\ run' = IF run.status = "absent" THEN [run EXCEPT !.status = "running"] ELSE run
    /\ UNCHANGED <<branch, audit, now, called, paid, recorded, crashes, logFailures>>

------------------------------------------------------------------------------
(* A tool call.                                                            *)

\* The timestamps _check_rate_limit keeps.
Fresh(t) == {i \in usage[t] : now - admitted[t][i] < Window}
UpToLimit(t) == Cardinality(Fresh(t)) <= RateLimit[t]
BelowLimit(t) == Cardinality(Fresh(t)) < RateLimit[t]

\* Permission, then the limit; an admitted call takes its place at once.
CallTool(b, t) ==
    /\ up /\ At(b, "rest") /\ CallsMade < MaxCalls
    /\ called' = [called EXCEPT ![t] = @ + 1]
    /\ LET permitted == b \in Allowed[t]
           limited == RateLimit[t] # 0
           admit == permitted /\ (limited => BelowLimit(t))
       IN  /\ usage' = IF ~permitted \/ ~limited THEN usage
                       ELSE [usage EXCEPT ![t] = Fresh(t) \cup IF admit THEN {Len(admitted[t]) + 1} ELSE {}]
           /\ admitted' = IF admit THEN [admitted EXCEPT ![t] = Append(@, now)] ELSE admitted
           /\ branch' = [branch EXCEPT ![b] = [at |-> IF admit THEN "tool" ELSE "log",
                                               tool |-> t, tries |-> 0]]
    /\ UNCHANGED <<up, recorder, rows, now, paid, recorded, legs, crashes, logFailures>>

\* tool.run returned or raised: both make a ToolResult.
LoggedIfItSucceeded == {"log", "rest"}
AfterTool == {"log"}
FinishTool(b) ==
    /\ At(b, "tool")
    /\ \E place \in AfterTool : branch' = [branch EXCEPT ![b].at = place]
    /\ UNCHANGED <<up, usage, recorder, rows, world>>

LogTool(b) ==
    /\ At(b, "log")
    /\ audit' = [audit EXCEPT ![branch[b].tool] = @ + 1]
    /\ branch' = [branch EXCEPT ![b] = AtRest]
    /\ UNCHANGED <<up, usage, recorder, run, world>>

\* The insert raises: the branch fails with it and the tool's result is dropped.
LogFails(b) ==
    /\ At(b, "log") /\ logFailures < MaxLogFailures
    /\ logFailures' = logFailures + 1
    /\ branch' = [branch EXCEPT ![b] = AtRest]
    /\ UNCHANGED <<up, usage, recorder, rows, now, called, admitted, paid, recorded, legs, crashes>>

------------------------------------------------------------------------------
(* A model call.  A structured answer that does not validate is asked for   *)
(* once more; what is recorded is last_usage, the last response.           *)

Ask(b, kind) ==
    /\ up /\ At(b, "rest") /\ paid < MaxPaid
    /\ branch' = [branch EXCEPT ![b] = [at |-> kind, tool |-> AtRest.tool, tries |-> 1]]
    /\ UNCHANGED <<up, usage, recorder, rows, world>>

Asking(b) == branch[b].at \in {"complete", "structured"}
Record(b) == recorder' = recorder + 1 /\ recorded' = recorded + 1

\* A response that is used.
Respond(b) ==
    /\ Asking(b) /\ paid < MaxPaid
    /\ paid' = paid + 1 /\ Record(b)
    /\ branch' = [branch EXCEPT ![b] = AtRest]
    /\ UNCHANGED <<up, usage, rows, now, called, admitted, legs, crashes, logFailures>>

\* A response that does not validate: asked again, or raised after the second.
Repairs(b) == branch[b].tries = 1
Invalid(b) ==
    /\ At(b, "structured") /\ paid < MaxPaid
    /\ paid' = paid + 1
    /\ branch' = IF Repairs(b) THEN [branch EXCEPT ![b].tries = @ + 1]
                 ELSE [branch EXCEPT ![b] = AtRest]
    /\ UNCHANGED <<up, usage, recorder, rows, now, called, admitted, recorded, legs, crashes, logFailures>>

\* _post gave up, or the answer has no choices: it may have been paid for, and
\* nothing is recorded.
RecordsAnyway(b) == recorder' = recorder + 1 /\ recorded' = recorded + 1
RecordsNothing(b) == UNCHANGED <<recorder, recorded>>
PostFails(b) ==
    /\ Asking(b) /\ RecordsNothing(b)
    /\ paid' \in {paid, paid + 1} /\ paid' <= MaxPaid
    /\ branch' = [branch EXCEPT ![b] = AtRest]
    /\ UNCHANGED <<up, usage, rows, now, called, admitted, legs, crashes, logFailures>>

------------------------------------------------------------------------------
(* The end of a leg.                                                       *)

LegEnds == up /\ AllAtRest /\ up' = FALSE
           /\ UNCHANGED <<usage, recorder, branch, audit, world>>

Pause == LegEnds /\ run' = [run EXCEPT !.status = "awaiting_human"]
Complete == LegEnds /\ run' = [status |-> "completed", total |-> recorder]

\* run_task fails its row, unless that raises too; resume_task leaves it.
Raise == LegEnds /\ \E s \in {"failed", run.status} : run' = [run EXCEPT !.status = s]

Crash ==
    /\ up /\ crashes < MaxCrashes
    /\ up' = FALSE /\ crashes' = crashes + 1
    /\ branch' = [b \in Branches |-> AtRest]
    /\ UNCHANGED <<usage, recorder, rows, now, called, admitted, paid, recorded, legs, logFailures>>

Step(b) ==
    \/ \E t \in Tools : CallTool(b, t)
    \/ FinishTool(b) \/ LogTool(b) \/ LogFails(b)
    \/ \E kind \in {"complete", "structured"} : Ask(b, kind)
    \/ Respond(b) \/ Invalid(b) \/ PostFails(b)

Next == Tick \/ StartLeg \/ Pause \/ Complete \/ Raise \/ Crash \/ \E b \in Branches : Step(b)

Spec == Init /\ [][Next]_vars

------------------------------------------------------------------------------
Places == {"rest", "tool", "log", "complete", "structured"}
BranchRecords == [at : Places, tool : Tools, tries : 0..2]
Statuses == {"absent", "running", "awaiting_human", "completed", "failed"}
RunRows == [status : Statuses, total : Nat]

TypeOK ==
    /\ up \in BOOLEAN /\ usage \in [Tools -> SUBSET (Nat \ {0})]
    /\ branch \in [Branches -> BranchRecords] /\ run \in RunRows
    /\ audit \in [Tools -> Nat] /\ called \in [Tools -> Nat]
    /\ now \in 0..MaxTime /\ admitted \in [Tools -> Seq(0..MaxTime)]
    /\ recorder \in Nat /\ paid \in Nat /\ recorded \in Nat
    /\ legs \in Nat /\ crashes \in Nat /\ logFailures \in Nat

\* However the branches of a leg interleave, no stretch of Window ticks holds
\* more admitted calls of a limited tool than its limit (registry.py:81).
RateLimited ==
    \A t \in Tools : RateLimit[t] # 0 =>
        \A i \in DOMAIN admitted[t] : i + RateLimit[t] \in DOMAIN admitted[t] =>
            admitted[t][i + RateLimit[t]] - admitted[t][i] >= Window

\* The pruned list decides as the whole history would: a call is refused only
\* when the limit was really used within the window (registry.py:85).
LimitIsExact ==
    up => \A t \in Tools : RateLimit[t] # 0 =>
        Cardinality(Fresh(t)) = Cardinality({i \in DOMAIN admitted[t] : now - admitted[t][i] < Window})

\* A call of a limited tool is admitted if, and only if, fewer than its limit
\* were admitted within the window, for the branches of a leg together.
RateLimitHolds == RateLimited /\ LimitIsExact

\* Every call that reached the registry, refused ones included, has its row or
\* is on the way to it; only a crash or a failing insert loses rows, at most
\* one a branch (execution.py:96).
AuditGap ==
    \A t \in Tools :
        LET pending == Cardinality({b \in Branches : branch[b].at \in {"tool", "log"} /\ branch[b].tool = t})
            missing == called[t] - audit[t] - pending
        IN  missing \in 0..(crashes * Cardinality(Branches) + logFailures)

\* The totals of a run never claim more than the models were paid for, through
\* repairs, failed posts, crashes and repeated legs (recording.py:59).
RowNeverOverstates == run.total <= recorded /\ recorded <= paid

\* run_metadata.py:4 "completed with token/cost/latency totals when the run
\* finishes": the totals are those of the whole run.
TotalsCoverRun == run.status = "completed" /\ ~up => run.total = recorded
==============================================================================

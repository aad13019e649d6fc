--------------------------- MODULE EvalMatrixProofs ---------------------------
(***************************************************************************)
(* What holds of the eval harness for any number of configs, repeats and    *)
(* tasks, any cap and any costs, and however often it is killed, a task     *)
(* fails or the matrix stops on an error.                                   *)
(***************************************************************************)
EXTENDS EvalMatrix, TLAPS

\* The ranges, and where the harness stands: it is in a run from NextRun to
\* Summarise, at a task from Begin to Save, and it has graded what lies behind.
PositionInv ==
    /\ TypeOK
    /\ at \notin {"run", "stopped"} => r \in RunIds
    /\ at \in {"ask", "store", "save"} => k \in TaskIds
    /\ at = "summary" => k = Tasks + 1
    /\ graded = k - 1

\* What was paid since the run began is charged, lost, or the price of the
\* response in hand; only a run below its cap asks for one.
MoneyInv ==
    /\ at # "stopped" => paid = spent + lost + (IF at = "store" THEN owed ELSE 0)
    /\ paid - lost <= Cap + MaxCost
    /\ owed <= MaxCost
    /\ spent <= Cap + MaxCost
    /\ at \in {"task", "ask", "store", "save"} => spent <= Cap

\* With a database, every paid response is in the cache, in hand, or was lost to
\* a crash or an error; and a provider is asked for what the cache does not have.
InCacheOrHand(t) == t \in cache \/ (at = "store" /\ k = t)
BillInv ==
    pool => /\ at \in {"ask", "store"} => k \notin cache
            /\ \A t \in TaskIds :
                  bill[t] <= (IF InCacheOrHand(t) THEN 1 ELSE 0) + crashes + failures

\* The tasks a run in progress has graded have their rows.
RowsInv ==
    pool /\ at \notin {"run", "done", "stopped"} => \A t \in 1..graded : results[r][t] > 0

------------------------------------------------------------------------------
(* The ranges.                                                             *)

LEMMA RunsPositive == Runs \in Nat \ {0}
  BY EvalAssumption DEF Runs

LEMMA PositionInit == Init => PositionInv
  BY EvalAssumption, RunsPositive DEF Init, PositionInv, TypeOK, NoOutput, RunIds, TaskIds

LEMMA PositionStep == PositionInv /\ [Next]_vars => PositionInv'
<1> SUFFICES ASSUME PositionInv, [Next]_vars PROVE PositionInv'
  OBVIOUS
<1> USE DEF PositionInv, TypeOK, harness, stored, history, money, bounds
<1>0. \A i : (i \in TaskIds <=> i \in Int /\ 1 <= i /\ i <= Tasks) /\ (i \in RunIds <=> i \in Int /\ 1 <= i /\ i <= Runs)
  BY EvalAssumption, RunsPositive DEF TaskIds, RunIds
<1>1. CASE NextRun
  BY <1>0, <1>1, EvalAssumption, RunsPositive DEF NextRun
<1>2. CASE Begin
  <2>1. memory' \subseteq TaskIds
    BY <1>0, <1>2, EvalAssumption DEF Begin, NoTaskLeft, Cached
  <2>2. /\ at' \in {"summary", "save", "ask"}
        /\ at' = "summary" => k = Tasks + 1
        /\ at' # "summary" => k \in TaskIds
    <3>1. CASE NoTaskLeft
      BY <1>2, <3>1, EvalAssumption DEF Begin, NoTaskLeft
    <3>2. CASE ~NoTaskLeft
      <4>1. k \in TaskIds
        BY <3>2, EvalAssumption DEF NoTaskLeft, TaskIds
      <4>2. at' \in {"save", "ask"}
        BY <1>2, <3>2 DEF Begin
      <4> QED
        BY <4>1, <4>2
    <3> QED
      BY <3>1, <3>2
  <2> QED
    BY <1>2, <2>1, <2>2 DEF Begin
<1>3. CASE Answer
  <2>1. bill' \in [TaskIds -> Nat]
    <3>1. k \in TaskIds
      BY <1>3 DEF Answer
    <3>2. bill[k] + 1 \in Nat
      BY <3>1
    <3> QED
      BY <1>3, <3>1, <3>2 DEF Answer, Pay
  <2>2. owed' \in Nat /\ paid' \in Nat
    BY <1>3, EvalAssumption DEF Answer, Pay
  <2> QED
    BY <1>3, <2>1, <2>2 DEF Answer
<1>4. CASE Store
  <2>1. spent' \in Nat /\ at' \in {"save", "abort"}
    BY <1>4 DEF Store, Charge, AfterTrip
  <2>2. memory' \subseteq TaskIds /\ cache' \subseteq TaskIds
    BY <1>4 DEF Store
  <2> QED
    BY <1>4, <2>1, <2>2 DEF Store
<1>5. CASE TaskFails
  <2>1. k \in TaskIds /\ memory' \subseteq TaskIds
    BY <1>5 DEF TaskFails
  <2>2. bill' \in [TaskIds -> Nat] /\ paid' \in Nat /\ lost' \in Nat
    BY <1>5, <2>1, EvalAssumption DEF TaskFails, Pay, money
  <2>3. failures' \in Nat /\ at' = "save"
    BY <1>5 DEF TaskFails, AfterFailure
  <2> QED
    BY <1>5, <2>1, <2>2, <2>3 DEF TaskFails
<1>6. CASE Save
  <2>1. r \in RunIds /\ k \in TaskIds
    BY <1>6 DEF Save
  <2>2. results' \in [RunIds -> [TaskIds -> Nat]]
    BY <1>6, <2>1 DEF Save
  <2>3. graded' = k /\ k' = k + 1 /\ graded' \in 0..Tasks /\ k' \in 1..(Tasks + 1)
    BY <1>0, <1>6, <2>1, EvalAssumption DEF Save
  <2> QED
    BY <1>6, <2>1, <2>2, <2>3 DEF Save
<1>7. CASE Summarise
  BY <1>7 DEF Summarise
<1>8. CASE Stop \/ Crash
  BY <1>8 DEF Stop, Crash
<1>9. CASE Restart
  BY <1>9, EvalAssumption, RunsPositive DEF Restart
<1>10. CASE UNCHANGED vars
  BY <1>10 DEF vars
<1> QED
  BY <1>1, <1>2, <1>3, <1>4, <1>5, <1>6, <1>7, <1>8, <1>9, <1>10 DEF Next, Work, Done

THEOREM MatrixTypeCorrect == Spec => []TypeOK
<1>1. PositionInv => TypeOK
  BY DEF PositionInv
<1> QED
  BY <1>1, PositionInit, PositionStep, PTL DEF Spec

LEMMA PositionAlways == Spec => []PositionInv
  BY PositionInit, PositionStep, PTL DEF Spec

------------------------------------------------------------------------------
(* The budget.                                                             *)

\* Only Charge adds to what is spent, and what it adds is in hand.
LEMMA MoneyStep == PositionInv /\ MoneyInv /\ [Next]_vars => MoneyInv'
<1> SUFFICES ASSUME PositionInv, MoneyInv, [Next]_vars PROVE MoneyInv'
  OBVIOUS
<1>0. /\ spent \in Nat /\ owed \in Nat /\ paid \in Nat /\ lost \in Nat
      /\ Cap \in Nat /\ MaxCost \in Nat
  BY EvalAssumption DEF PositionInv, TypeOK
<1> USE <1>0 DEF MoneyInv, harness, stored, history, money, bounds
<1>1. CASE NextRun \/ Restart
  BY <1>1 DEF NextRun, Restart
<1>2. CASE Begin
  BY <1>2 DEF Begin
<1>3. CASE Answer
  BY <1>3 DEF Answer, Pay
<1>4. CASE Store
  BY <1>4 DEF Store, Charge, OverCap, AfterTrip
<1>5. CASE TaskFails
  BY <1>5 DEF TaskFails, Pay, AfterFailure
<1>6. CASE Save \/ Summarise
  BY <1>6 DEF Save, Summarise
<1>7. CASE Stop \/ Crash
  BY <1>7 DEF Stop, Crash
<1>8. CASE UNCHANGED vars
  BY <1>8 DEF vars
<1> QED
  BY <1>1, <1>2, <1>3, <1>4, <1>5, <1>6, <1>7, <1>8 DEF Next, Work, Done

\* One repeat of a config pays for at most its cap and one response, but for
\* responses that were lost before they could be charged.
THEOREM BudgetHoldsToOneResponse == Spec => []OvershootIsOneResponse
<1>1. Init => MoneyInv
  BY EvalAssumption DEF Init, MoneyInv
<1>2. PositionInv /\ MoneyInv => OvershootIsOneResponse
  BY EvalAssumption DEF PositionInv, TypeOK, MoneyInv, OvershootIsOneResponse
<1> QED
  BY <1>1, <1>2, PositionAlways, MoneyStep, PTL DEF Spec

------------------------------------------------------------------------------
(* The bill.                                                               *)

LEMMA BillStep == PositionInv /\ BillInv /\ [Next]_vars => BillInv'
<1> SUFFICES ASSUME PositionInv, BillInv, [Next]_vars PROVE BillInv'
  OBVIOUS
<1> USE EvalAssumption DEF PositionInv, TypeOK, BillInv, InCacheOrHand, TaskIds,
        harness, stored, history, money, bounds
<1>1. CASE NextRun \/ Restart
  BY <1>1 DEF NextRun, Restart
<1>2. CASE Begin
  BY <1>2 DEF Begin, Cached, NoTaskLeft
<1>3. CASE Answer
  BY <1>3 DEF Answer, Pay
<1>4. CASE Store
  BY <1>4 DEF Store, Charge, AfterTrip
<1>5. CASE TaskFails
  <2>1. /\ UNCHANGED <<pool, cache, crashes, k>> /\ failures' = failures + 1
        /\ at' = "save" /\ k \in 1..Tasks /\ crashes \in Nat /\ failures \in Nat
    BY <1>5 DEF TaskFails, AfterFailure
  <2>2. \A t \in 1..Tasks : bill[t] \in Nat
    OBVIOUS
  <2>3. CASE at = "ask" /\ bill' = [bill EXCEPT ![k] = @ + 1]
    <3>1. \A t \in 1..Tasks : bill'[t] = IF t = k THEN bill[t] + 1 ELSE bill[t]
      BY <2>3
    <3> QED
      BY <2>1, <2>2, <2>3, <3>1
  <2>4. CASE bill' = bill
    BY <2>1, <2>2, <2>4
  <2> QED
    BY <1>5, <2>3, <2>4 DEF TaskFails, Pay
<1>6. CASE Save \/ Summarise
  BY <1>6 DEF Save, Summarise
<1>7. CASE Stop
  <2>1. UNCHANGED <<pool, cache, bill, crashes, failures>> /\ at # "store" /\ at' = "stopped"
    BY <1>7 DEF Stop
  <2> QED
    BY <2>1
<1>8. CASE Crash
  <2>1. /\ UNCHANGED <<pool, cache, bill, failures>> /\ at' = "stopped"
        /\ crashes \in Nat /\ failures \in Nat /\ crashes' = crashes + 1
    BY <1>8 DEF Crash
  <2> QED
    BY <2>1
<1>9. CASE UNCHANGED vars
  BY <1>9 DEF vars
<1> QED
  BY <1>1, <1>2, <1>3, <1>4, <1>5, <1>6, <1>7, <1>8, <1>9 DEF Next, Work, Done

\* With a database a prompt is paid for once, and once more for each crash or
\* error that kept an answer from the cache.
THEOREM PromptsPaidOnce == Spec => []PromptsArePaidOnce
<1>1. Init => BillInv
  BY DEF Init, BillInv, InCacheOrHand
<1>2. PositionInv /\ BillInv => PromptsArePaidOnce
  BY DEF PositionInv, TypeOK, BillInv, PromptsArePaidOnce
<1> QED
  BY <1>1, <1>2, PositionAlways, BillStep, PTL DEF Spec

------------------------------------------------------------------------------
(* The summaries.                                                          *)

\* Rows are only added: what has a row keeps it.
LEMMA RowsStay ==
  ASSUME PositionInv, [Next]_vars
  PROVE  /\ pool' = pool
         /\ \A i \in RunIds, t \in TaskIds : results[i][t] > 0 => results'[i][t] > 0
<1> USE DEF PositionInv, TypeOK, harness, stored, history, money, bounds
<1>1. CASE Save
  BY <1>1 DEF Save
<1>2. CASE ~Save
  BY <1>2 DEF Next, Work, NextRun, Begin, Answer, Store, TaskFails, Summarise, Stop, Crash, Restart, Done, vars
<1> QED
  BY <1>1, <1>2

LEMMA RowsStep == PositionInv /\ RowsInv /\ [Next]_vars => RowsInv'
<1> SUFFICES ASSUME PositionInv, RowsInv, [Next]_vars PROVE RowsInv'
  OBVIOUS
<1> USE EvalAssumption DEF PositionInv, TypeOK, RowsInv, RunIds, TaskIds, harness, stored, history, money, bounds
<1>1. CASE NextRun \/ Restart
  <2>1. graded' = 0 \/ at' \in {"run", "done"}
    BY <1>1 DEF NextRun, Restart
  <2>2. graded' = 0 => 1..graded' = {}
    OBVIOUS
  <2> QED
    BY <2>1, <2>2
<1>2. CASE Begin
  BY <1>2 DEF Begin
<1>3. CASE Answer \/ Store \/ TaskFails
  BY <1>3 DEF Answer, Store, Charge, TaskFails
<1>4. CASE Save
  <2> SUFFICES ASSUME pool, NEW t \in 1..k PROVE results'[r][t] > 0
    BY <1>4 DEF Save
  <2>1. r \in RunIds /\ k \in TaskIds /\ results[r] \in [TaskIds -> Nat]
    BY <1>4 DEF Save
  <2>2. results'[r] = [results[r] EXCEPT ![k] = @ + 1] /\ results[r][k] \in Nat
    BY <1>4, <2>1 DEF Save
  <2>3. CASE t = k
    BY <2>1, <2>2, <2>3
  <2>4. CASE t # k
    BY <1>4, <2>1, <2>2, <2>4 DEF Save
  <2> QED
    BY <2>3, <2>4
<1>5. CASE Summarise
  BY <1>5 DEF Summarise
<1>6. CASE Stop \/ Crash
  BY <1>6 DEF Stop, Crash
<1>7. CASE UNCHANGED vars
  BY <1>7 DEF vars
<1> QED
  BY <1>1, <1>2, <1>3, <1>4, <1>5, <1>6, <1>7 DEF Next, Work, Done

LEMMA SummariesStep ==
  PositionInv /\ RowsInv /\ SummariesAreBacked /\ [Next]_vars => SummariesAreBacked'
<1> SUFFICES ASSUME PositionInv, RowsInv, SummariesAreBacked, [Next]_vars
             PROVE  SummariesAreBacked'
  OBVIOUS
<1>1. \A i \in RunIds : 1..output[i].tasks \subseteq TaskIds
  BY EvalAssumption DEF PositionInv, TypeOK, TaskIds
<1>2. CASE Summarise
  <2> SUFFICES ASSUME NEW i \in RunIds, output'[i].there
               PROVE  /\ ~output'[i].aborted => output'[i].tasks = Tasks
                      /\ pool => \A t \in 1..output'[i].tasks : results[i][t] > 0
    BY <1>2 DEF Summarise, SummariesAreBacked
  <2>1. CASE i = r
    <3>1. /\ output'[i].tasks = graded
          /\ output'[i].aborted <=> at = "abort"
      BY <1>2, <2>1 DEF Summarise, PositionInv, TypeOK
    <3>2. at = "summary" => graded = Tasks
      BY EvalAssumption DEF PositionInv, TypeOK
    <3> QED
      BY <1>2, <2>1, <3>1, <3>2 DEF Summarise, RowsInv
  <2>2. CASE i # r
    BY <1>2, <2>2 DEF Summarise, SummariesAreBacked, PositionInv, TypeOK
  <2> QED
    BY <2>1, <2>2
<1>3. CASE ~Summarise
  <2>1. output' = output
    BY <1>3 DEF Next, Work, NextRun, Begin, Answer, Store, TaskFails, Save, Stop, Crash, Restart, Done,
                vars, stored
  <2> QED
    BY <1>1, <2>1, RowsStay DEF SummariesAreBacked
<1> QED
  BY <1>2, <1>3

\* A summary covers the whole task set unless it says otherwise, and counts
\* tasks that have a row.
THEOREM SummariesBacked == Spec => []SummariesAreBacked
<1>1. Init => RowsInv /\ SummariesAreBacked
  BY DEF Init, RowsInv, SummariesAreBacked, NoOutput, RunIds
<1> QED
  BY <1>1, PositionAlways, RowsStep, SummariesStep, PTL DEF Spec
==============================================================================

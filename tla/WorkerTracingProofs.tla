------------------------- MODULE WorkerTracingProofs -------------------------
(***************************************************************************)
(* Proof of WorkerTracing's TraceIsWhole, for every number of jobs, spans  *)
(* and batches.  The invariant has three parts: which provider a job       *)
(* flushes, where the spans of a job are until it has flushed them, and    *)
(* what a call that reports success has inserted.                          *)
(***************************************************************************)
EXTENDS WorkerTracing, FiniteSetTheorems, SequenceTheorems, TLAPS

SpanIds == Jobs \X Nat
Coroutines == [batch : Seq(SpanIds), todo : Seq(SpanIds), at : {"start", "creating", "inserting"}]

RangeInv ==
  /\ job \in [Jobs -> Steps]
  /\ ended \in [Jobs -> Nat]
  /\ {buffer, export} \subseteq Seq(SpanIds)
  /\ coroutines \subseteq Coroutines

(* A job that runs has a provider to flush, and it is the installed one    *)
(* when only one was built.                                                *)
Configured == {"running", "flushing", "flushed", "completed", "paused"}
ProviderInv ==
  /\ builders \subseteq Jobs /\ IsFiniteSet(builders)
  /\ {provider, installed} \subseteq builders \cup {None}
  /\ provider # None => installed # None
  /\ \A j \in Jobs :
       /\ job[j] \in {"built", "publishing"} => j \in builders
       /\ job[j] = "publishing" => installed # None
       /\ job[j] \in Configured => provider # None

OneProvider == \A x, y \in builders : x = y

(* An ended span of a live job is buffered, in the call in progress, or    *)
(* reported; after the flush it is reported.                               *)
Reported == exported \cup dropped
SpansUpTo(j, n) == {j} \X (1..n)
FlushOf(j) ==
  /\ job[j] \in {"waiting", "building", "built", "publishing"} => ended[j] = 0
  /\ job[j] \in {"running", "flushing"} =>
       SpansUpTo(j, ended[j]) \subseteq ToSet(buffer) \cup ToSet(export) \cup Reported
  /\ job[j] = "flushing" => ended[j] = SpansOf[j]
  /\ OneProvider /\ job[j] \in {"flushed", "completed", "paused"} =>
       SpansUpTo(j, SpansOf[j]) \subseteq Reported
FlushInv == \A j \in Jobs : FlushOf(j)

(* A coroutine has inserted what it no longer has to do.                   *)
StoredInv ==
  /\ SuccessIsStored
  /\ \A c \in coroutines : ToSet(c.batch) \subseteq rows \cup ToSet(c.todo)

TraceInv == RangeInv /\ ProviderInv /\ FlushInv /\ StoredInv

-----------------------------------------------------------------------------
(* The members of the sequences the buffer goes through.                   *)
LEMMA EmptySet == ToSet(<<>>) = {}
  BY DEF ToSet

LEMMA AppendSet ==
  ASSUME NEW S, NEW s \in Seq(S), NEW e \in S
  PROVE  /\ Append(s, e) \in Seq(S)
         /\ ToSet(Append(s, e)) = ToSet(s) \cup {e}
<1>1. Append(s, e) \in Seq(S) /\ Len(Append(s, e)) = Len(s) + 1
  OBVIOUS
<1>2. \A i \in 1..Len(s) : Append(s, e)[i] = s[i]
  OBVIOUS
<1>3. Append(s, e)[Len(s) + 1] = e
  OBVIOUS
<1>4. Len(s) \in Nat /\ DOMAIN s = 1..Len(s) /\ DOMAIN Append(s, e) = 1..(Len(s) + 1)
  BY <1>1
<1>5. 1..(Len(s) + 1) = 1..Len(s) \cup {Len(s) + 1}
  BY <1>4
<1> QED
  BY <1>1, <1>2, <1>3, <1>4, <1>5 DEF ToSet

LEMMA SplitSet ==
  ASSUME NEW S, NEW s \in Seq(S), NEW n \in 1..Len(s)
  PROVE  /\ SubSeq(s, 1, n) \in Seq(S) /\ SubSeq(s, n + 1, Len(s)) \in Seq(S)
         /\ ToSet(s) \subseteq ToSet(SubSeq(s, 1, n)) \cup ToSet(SubSeq(s, n + 1, Len(s)))
<1> DEFINE front == SubSeq(s, 1, n)
           back == SubSeq(s, n + 1, Len(s))
<1>1. Len(s) \in Nat /\ n \in Nat /\ n <= Len(s) /\ DOMAIN s = 1..Len(s)
  OBVIOUS
<1>2. front \in Seq(S) /\ Len(front) = n /\ \A i \in 1..n : front[i] = s[i]
  BY <1>1, SubSeqProperties
<1>3. back \in Seq(S) /\ Len(back) = Len(s) - n /\ \A i \in 1..(Len(s) - n) : back[i] = s[n + i]
  <2>1. \A i \in (n + 1)..Len(s) : s[i] \in S
    BY <1>1
  <2>2. back \in Seq(S) /\ Len(back) = (IF n + 1 <= Len(s) THEN Len(s) - (n + 1) + 1 ELSE 0)
        /\ \A i \in 1..(Len(s) - (n + 1) + 1) : back[i] = s[(n + 1) + i - 1]
    BY <1>1, <2>1, SubSeqProperties
  <2> HIDE DEF back
  <2>3. ASSUME NEW i \in 1..(Len(s) - n) PROVE back[i] = s[n + i]
    <3>1. i \in 1..(Len(s) - (n + 1) + 1) /\ (n + 1) + i - 1 = n + i
      BY <1>1
    <3> QED
      BY <2>2, <3>1
  <2>4. Len(back) = Len(s) - n
    <3>1. CASE n + 1 <= Len(s)
      BY <1>1, <2>2, <3>1
    <3>2. CASE ~(n + 1 <= Len(s))
      <4>1. \A m, l \in Nat : m <= l /\ ~(m + 1 <= l) => l - m = 0
        OBVIOUS
      <4>2. Len(back) = 0
        BY <2>2, <3>2
      <4> QED
        BY <1>1, <3>2, <4>1, <4>2
    <3> QED
      BY <3>1, <3>2
  <2> QED
    BY <2>2, <2>3, <2>4
<1> HIDE DEF front, back
<1>4. ASSUME NEW i \in 1..Len(s) PROVE s[i] \in ToSet(front) \cup ToSet(back)
  <2>1. CASE i <= n
    <3>1. i \in DOMAIN front /\ front[i] = s[i]
      BY <1>1, <1>2, <2>1
    <3> QED
      BY <3>1 DEF ToSet
  <2>2. CASE ~(i <= n)
    <3>1. i - n \in DOMAIN back /\ back[i - n] = s[i]
      BY <1>1, <1>3, <2>2
    <3> QED
      BY <3>1 DEF ToSet
  <2> QED
    BY <2>1, <2>2
<1>5. ToSet(s) \subseteq ToSet(front) \cup ToSet(back)
  BY <1>1, <1>4 DEF ToSet
<1> QED
  BY <1>2, <1>3, <1>5 DEF front, back

LEMMA HeadTailSet ==
  ASSUME NEW S, NEW s \in Seq(S), s # <<>>
  PROVE  Tail(s) \in Seq(S) /\ Head(s) \in S /\ ToSet(s) \subseteq {Head(s)} \cup ToSet(Tail(s))
<1>1. Len(s) \in Nat \ {0} /\ DOMAIN s = 1..Len(s)
  OBVIOUS
<1>2. Tail(s) \in Seq(S) /\ Len(Tail(s)) = Len(s) - 1 /\ Head(s) = s[1]
  OBVIOUS
<1>3. ASSUME NEW i \in 2..Len(s) PROVE s[i] \in ToSet(Tail(s))
  <2>1. i - 1 \in DOMAIN Tail(s) /\ Tail(s)[i - 1] = s[i]
    BY <1>1, <1>2
  <2> QED
    BY <2>1 DEF ToSet
<1>4. \A i \in 1..Len(s) : i = 1 \/ i \in 2..Len(s)
  BY <1>1
<1> QED
  BY <1>1, <1>2, <1>3, <1>4 DEF ToSet

-----------------------------------------------------------------------------
LEMMA TraceInit == TracingInit => TraceInv
<1> SUFFICES ASSUME TracingInit PROVE TraceInv
  OBVIOUS
<1> USE DEF TracingInit
<1>1. RangeInv
  BY DEF RangeInv, Steps
<1>2. ProviderInv
  BY FS_EmptySet DEF ProviderInv, Configured
<1>3. FlushInv
  BY DEF FlushInv, FlushOf
<1>4. StoredInv
  BY DEF StoredInv, SuccessIsStored
<1> QED
  BY <1>1, <1>2, <1>3, <1>4 DEF TraceInv

(* The steps of a job beside the buffer.                                   *)
LEMMA RangeStep ==
  ASSUME RangeInv, [Next]_vars
  PROVE  RangeInv'
<1> USE TracingAssumption DEF RangeInv, Steps, Over, Goto, spanVars, providerVars
<1>1. ASSUME NEW j \in Jobs, JobStep(j) PROVE RangeInv'
  <2>1. CASE EndSpan(j) \/ RunRaises(j)
    <3>1. ended' \in [Jobs -> Nat] /\ job' \in [Jobs -> Steps]
      <4>1. SpansOf[j] \in Nat
        OBVIOUS
      <4>2. CASE EndSpan(j)
        BY <4>2 DEF EndSpan
      <4>3. CASE RunRaises(j)
        BY <4>1, <4>3 DEF RunRaises
      <4> QED
        BY <2>1, <4>2, <4>3
    <3>2. \E n \in Nat : buffer' = Append(buffer, <<j, n>>)
      BY <2>1, <3>1 DEF EndSpan, RunRaises
    <3>3. buffer' \in Seq(SpanIds)
      BY <3>2, AppendSet DEF SpanIds
    <3> QED
      BY <2>1, <3>1, <3>3 DEF EndSpan, RunRaises
  <2>2. CASE ~(EndSpan(j) \/ RunRaises(j))
    <3>1. UNCHANGED <<ended, spanVars>> /\ job' \in [Jobs -> Steps]
      BY <1>1, <2>2 DEF JobStep, Configure, BuildProvider, InstallProvider, PublishProvider,
           Skip, StartFlush, EndFlush, Settle
    <3> QED
      BY <3>1
  <2> QED
    BY <2>1, <2>2
<1>2. ASSUME NEW by \in {Timer} \cup Jobs, CallExport(by) PROVE RangeInv'
  <2>1. PICK n \in 1..Len(buffer) :
          /\ export' = SubSeq(buffer, 1, n)
          /\ coroutines' = coroutines \cup
                {[batch |-> SubSeq(buffer, 1, n), todo |-> SubSeq(buffer, 1, n), at |-> "start"]}
          /\ buffer' = SubSeq(buffer, n + 1, Len(buffer))
    BY <1>2 DEF CallExport
  <2>2. SubSeq(buffer, 1, n) \in Seq(SpanIds) /\ SubSeq(buffer, n + 1, Len(buffer)) \in Seq(SpanIds)
    BY SplitSet
  <2>3. coroutines' \subseteq Coroutines
    <3>1. [batch |-> SubSeq(buffer, 1, n), todo |-> SubSeq(buffer, 1, n), at |-> "start"] \in Coroutines
      BY <2>2 DEF Coroutines
    <3> QED
      BY <2>1, <3>1
  <2> QED
    BY <1>2, <2>1, <2>2, <2>3 DEF CallExport
<1>3. ASSUME NEW c \in coroutines, GetPool(c) \/ SetPool(c) \/ InsertSpan(c) \/ Return(c) \/ Raise(c)
      PROVE RangeInv'
  <2>1. c \in Coroutines
    OBVIOUS
  <2>2. CASE GetPool(c) \/ SetPool(c)
    <3>1. \A at \in {"creating", "inserting"} : [c EXCEPT !.at = at] \in Coroutines
      BY <2>1 DEF Coroutines
    <3>2. \E at \in {"creating", "inserting"} : Becomes(c, [c EXCEPT !.at = at])
      BY <2>2 DEF GetPool, SetPool
    <3>3. coroutines' \subseteq Coroutines
      BY <3>1, <3>2 DEF Becomes
    <3> QED
      BY <2>2, <3>3 DEF GetPool, SetPool
  <2>3. CASE InsertSpan(c)
    <3>1. Tail(c.todo) \in Seq(SpanIds)
      BY <2>1, <2>3, HeadTailSet DEF InsertSpan, Coroutines
    <3>2. [c EXCEPT !.todo = Tail(c.todo)] \in Coroutines
      BY <2>1, <3>1 DEF Coroutines
    <3>3. coroutines' \subseteq Coroutines
      BY <2>3, <3>2 DEF InsertSpan, Becomes
    <3> QED
      BY <2>3, <3>3 DEF InsertSpan
  <2>4. CASE Return(c) \/ Raise(c)
    <3>1. <<>> \in Seq(SpanIds)
      OBVIOUS
    <3>2. export' \in {export, <<>>} /\ coroutines' \subseteq coroutines /\ UNCHANGED <<job, ended, buffer>>
      BY <2>4 DEF Return, Raise
    <3> QED
      BY <3>1, <3>2
  <2> QED
    BY <1>3, <2>2, <2>3, <2>4
<1>4. CASE Timeout
  BY <1>4 DEF Timeout
<1>5. CASE ProcessDies
  BY <1>5 DEF ProcessDies
<1>6. CASE UNCHANGED vars
  BY <1>6 DEF vars
<1> QED
  BY <1>1, <1>2, <1>3, <1>4, <1>5, <1>6 DEF Next

(* No step but those of configure_tracing concerns the providers, and only *)
(* a job that saw a provider goes on to run.                               *)
LEMMA ProviderStep ==
  ASSUME RangeInv, ProviderInv, [Next]_vars
  PROVE  ProviderInv'
<1> USE TracingAssumption DEF RangeInv, ProviderInv, Configured, Goto
<1>1. ASSUME NEW j \in Jobs, JobStep(j) PROVE ProviderInv'
  <2>1. CASE Configure(j)
    BY <2>1 DEF Configure, providerVars
  <2>2. CASE BuildProvider(j)
    <3>1. IsFiniteSet(builders')
      BY <2>2, FS_AddElement DEF BuildProvider
    <3> QED
      BY <2>2, <3>1 DEF BuildProvider
  <2>3. CASE InstallProvider(j)
    BY <2>3 DEF InstallProvider
  <2>4. CASE PublishProvider(j)
    BY <2>4 DEF PublishProvider
  <2>5. CASE Skip(j) \/ EndSpan(j) \/ RunRaises(j)
    BY <2>5 DEF Skip, EndSpan, RunRaises, providerVars
  <2>6. CASE StartFlush(j) \/ EndFlush(j) \/ Settle(j)
    BY <2>6 DEF StartFlush, EndFlush, Settle, providerVars
  <2> QED
    BY <1>1, <2>1, <2>2, <2>3, <2>4, <2>5, <2>6 DEF JobStep
<1>2. CASE ProcessDies
  BY <1>2 DEF ProcessDies, providerVars
<1>3. CASE UNCHANGED <<job, providerVars>>
  BY <1>3 DEF providerVars
<1>4. ASSUME NEW by \in {Timer} \cup Jobs, CallExport(by) PROVE UNCHANGED <<job, providerVars>>
  BY <1>4 DEF CallExport
<1>5. ASSUME NEW c \in coroutines, GetPool(c) \/ SetPool(c) \/ InsertSpan(c) \/ Return(c) \/ Raise(c)
      PROVE UNCHANGED <<job, providerVars>>
  BY <1>5 DEF GetPool, SetPool, InsertSpan, Return, Raise
<1> QED
  BY <1>1, <1>2, <1>3, <1>4, <1>5 DEF Next, Timeout, vars

-----------------------------------------------------------------------------
(* Where the spans of a job may be.                                        *)
Somewhere == ToSet(buffer) \cup ToSet(export) \cup Reported

(* The exporter moves spans from the buffer to its call and from there to  *)
(* what is reported, and loses none of them.                               *)
LEMMA ExporterKeepsSpans ==
  ASSUME RangeInv,
         \/ \E by \in {Timer} \cup Jobs : CallExport(by)
         \/ Timeout
         \/ \E c \in coroutines : GetPool(c) \/ SetPool(c) \/ InsertSpan(c) \/ Return(c) \/ Raise(c)
  PROVE  /\ Somewhere \subseteq Somewhere' /\ Reported \subseteq Reported'
         /\ UNCHANGED <<job, ended, builders>>
<1> USE DEF Somewhere, Reported, providerVars
<1>1. ASSUME NEW by \in {Timer} \cup Jobs, CallExport(by)
      PROVE  /\ Somewhere \subseteq Somewhere' /\ Reported \subseteq Reported'
             /\ UNCHANGED <<job, ended, builders>>
  <2>1. PICK n \in 1..Len(buffer) :
          export' = SubSeq(buffer, 1, n) /\ buffer' = SubSeq(buffer, n + 1, Len(buffer))
    BY <1>1 DEF CallExport
  <2>2. ToSet(buffer) \subseteq ToSet(export') \cup ToSet(buffer')
    BY <2>1, SplitSet DEF RangeInv
  <2>3. ToSet(export) = {}
    BY <1>1, EmptySet DEF CallExport
  <2>4. (ToSet(buffer))' = ToSet(buffer') /\ (ToSet(export))' = ToSet(export')
    BY DEF ToSet
  <2> QED
    BY <1>1, <2>2, <2>3, <2>4 DEF CallExport
<1>2. CASE Timeout
  <2>1. (ToSet(buffer))' = ToSet(buffer)
    BY <1>2 DEF Timeout, ToSet
  <2> QED
    BY <1>2, <2>1 DEF Timeout
<1>3. ASSUME NEW c \in coroutines, GetPool(c) \/ SetPool(c) \/ InsertSpan(c)
      PROVE  /\ Somewhere \subseteq Somewhere' /\ Reported \subseteq Reported'
             /\ UNCHANGED <<job, ended, builders>>
  <2>1. (ToSet(buffer))' = ToSet(buffer) /\ (ToSet(export))' = ToSet(export)
    BY <1>3 DEF GetPool, SetPool, InsertSpan, ToSet
  <2> QED
    BY <1>3, <2>1 DEF GetPool, SetPool, InsertSpan
<1>4. ASSUME NEW c \in coroutines, Return(c) \/ Raise(c)
      PROVE  /\ Somewhere \subseteq Somewhere' /\ Reported \subseteq Reported'
             /\ UNCHANGED <<job, ended, builders>>
  <2>1. (ToSet(buffer))' = ToSet(buffer)
    BY <1>4 DEF Return, Raise, ToSet
  <2>2. CASE export = c.batch
    BY <1>4, <2>1, <2>2 DEF Return, Raise
  <2>3. CASE export # c.batch
    <3>1. (ToSet(export))' = ToSet(export)
      BY <1>4, <2>3 DEF Return, Raise, ToSet
    <3> QED
      BY <1>4, <2>1, <2>3, <3>1 DEF Return, Raise
  <2> QED
    BY <2>2, <2>3
<1> QED
  BY <1>1, <1>2, <1>3, <1>4

(* A job's own steps: its spans enter the buffer, and it passes the flush  *)
(* when the buffer and the exporter have nothing left.                     *)
LEMMA JobKeepsSpans ==
  ASSUME RangeInv, ProviderInv, FlushInv, NEW j \in Jobs, JobStep(j)
  PROVE  FlushInv'
<1> SUFFICES ASSUME NEW i \in Jobs PROVE FlushOf(i)'
  BY DEF FlushInv
<1> USE TracingAssumption DEF RangeInv, Goto, spanVars, providerVars
<1>1. FlushOf(i) /\ FlushOf(j)
  BY DEF FlushInv
<1>2. OneProvider' => OneProvider
  <2>1. builders \subseteq builders'
    BY DEF JobStep, Configure, BuildProvider, InstallProvider, PublishProvider, Skip, EndSpan,
       RunRaises, StartFlush, EndFlush, Settle
  <2> QED
    BY <2>1 DEF OneProvider
<1>3. CASE EndSpan(j) \/ RunRaises(j)
  <2>1. PICK n \in Nat : buffer' = Append(buffer, <<j, n>>) /\ (EndSpan(j) => n = ended[j] + 1)
    <3>1. CASE EndSpan(j)
      <4>1. ended[j] + 1 \in Nat /\ buffer' = Append(buffer, <<j, ended[j] + 1>>)
        BY <3>1 DEF EndSpan
      <4> QED
        BY <4>1
    <3>2. CASE RunRaises(j) /\ ~EndSpan(j)
      <4>1. SpansOf[j] \in Nat /\ buffer' = Append(buffer, <<j, SpansOf[j]>>)
        BY <3>2 DEF RunRaises
      <4> QED
        BY <3>2, <4>1
    <3> QED
      BY <1>3, <3>1, <3>2
  <2>2. ToSet(buffer') = ToSet(buffer) \cup {<<j, n>>}
    <3>1. <<j, n>> \in SpanIds /\ buffer \in Seq(SpanIds)
      BY DEF SpanIds
    <3> QED
      BY <2>1, <3>1, AppendSet
  <2>3. (ToSet(buffer))' = ToSet(buffer') /\ (ToSet(export))' = ToSet(export) /\ Reported' = Reported
    BY <1>3 DEF EndSpan, RunRaises, ToSet, Reported
  <2>4. CASE i # j
    <3>1. job'[i] = job[i] /\ ended'[i] = ended[i]
      BY <1>3, <2>4 DEF EndSpan, RunRaises
    <3> QED
      BY <1>1, <1>2, <2>2, <2>3, <3>1 DEF FlushOf
  <2>5. CASE i = j /\ EndSpan(j)
    <3>1. job'[j] = "running" /\ job[j] = "running" /\ ended'[j] = ended[j] + 1
      BY <2>5 DEF EndSpan
    <3>2. SpansUpTo(j, ended[j] + 1) \subseteq SpansUpTo(j, ended[j]) \cup {<<j, n>>}
      BY <2>1, <2>5 DEF SpansUpTo
    <3> QED
      BY <1>1, <2>2, <2>3, <2>5, <3>1, <3>2 DEF FlushOf
  <2>6. CASE i = j /\ RunRaises(j)
    BY <2>6 DEF RunRaises, FlushOf
  <2> QED
    BY <1>3, <2>4, <2>5, <2>6
<1>4. CASE ~EndSpan(j) /\ ~RunRaises(j)
  <2>1. UNCHANGED <<ended, spanVars>> /\ (i # j => job'[i] = job[i])
    BY <1>4 DEF JobStep, Configure, BuildProvider, InstallProvider, PublishProvider, Skip,
       StartFlush, EndFlush, Settle
  <2>2. (ToSet(buffer))' = ToSet(buffer) /\ (ToSet(export))' = ToSet(export) /\ Reported' = Reported
    BY <2>1 DEF ToSet, Reported
  <2>3. CASE i # j
    BY <1>1, <1>2, <2>1, <2>2, <2>3 DEF FlushOf
  <2>4. CASE i = j /\ (Configure(j) \/ PublishProvider(j))
    <3>1. ended[j] = 0 /\ job'[j] \in {"building", "running"}
      BY <1>1, <2>4 DEF Configure, PublishProvider, FlushOf
    <3>2. SpansUpTo(j, ended[j]) = {}
      BY <3>1 DEF SpansUpTo
    <3> QED
      BY <2>1, <2>4, <3>1, <3>2 DEF FlushOf
  <2>5. CASE i = j /\ (BuildProvider(j) \/ InstallProvider(j) \/ Skip(j))
    BY <1>1, <2>1, <2>5 DEF BuildProvider, InstallProvider, Skip, FlushOf
  <2>6. CASE i = j /\ StartFlush(j)
    <3>1. OneProvider => provider = installed
      BY <2>6 DEF OneProvider, StartFlush, ProviderInv, Configured
    <3> QED
      BY <1>1, <1>2, <2>1, <2>2, <2>6, <3>1 DEF StartFlush, FlushOf
  <2>7. CASE i = j /\ EndFlush(j)
    <3>1. ToSet(buffer) = {} /\ ToSet(export) = {}
      BY <2>7, EmptySet DEF EndFlush
    <3> QED
      BY <1>1, <2>1, <2>2, <2>7, <3>1 DEF EndFlush, FlushOf
  <2>8. CASE i = j /\ Settle(j)
    BY <1>1, <1>2, <2>1, <2>2, <2>8 DEF Settle, FlushOf
  <2> QED
    BY <1>4, <2>3, <2>4, <2>5, <2>6, <2>7, <2>8 DEF JobStep
<1> QED
  BY <1>3, <1>4

LEMMA FlushStep ==
  ASSUME RangeInv, ProviderInv, FlushInv, [Next]_vars
  PROVE  FlushInv'
<1>1. ASSUME NEW j \in Jobs, JobStep(j) PROVE FlushInv'
  BY <1>1, JobKeepsSpans
<1>2. CASE Somewhere \subseteq Somewhere' /\ Reported \subseteq Reported'
           /\ UNCHANGED <<job, ended, builders>>
  BY <1>2 DEF FlushInv, FlushOf, Somewhere, OneProvider
<1>3. CASE ProcessDies
  BY <1>3 DEF ProcessDies, FlushInv, FlushOf, Reported, OneProvider, RangeInv, Over, providerVars
<1>4. CASE UNCHANGED vars
  <2>1. (ToSet(buffer))' = ToSet(buffer) /\ (ToSet(export))' = ToSet(export)
    BY <1>4 DEF vars, spanVars, ToSet
  <2>2. Somewhere' = Somewhere /\ Reported' = Reported
    BY <1>4, <2>1 DEF vars, spanVars, Somewhere, Reported
  <2> QED
    BY <1>2, <1>4, <2>2 DEF vars, providerVars
<1> QED
  BY <1>1, <1>2, <1>3, <1>4, ExporterKeepsSpans DEF Next

-----------------------------------------------------------------------------
(* A coroutine inserts the head of what is left; success is reported of    *)
(* one that has nothing left.                                              *)
LEMMA StoredStep ==
  ASSUME RangeInv, StoredInv, [Next]_vars
  PROVE  StoredInv'
<1> USE DEF StoredInv, SuccessIsStored, spanVars
<1>1. ASSUME NEW c \in coroutines, InsertSpan(c) PROVE StoredInv'
  <2>1. c \in Coroutines /\ c.todo # <<>>
    BY <1>1 DEF RangeInv, InsertSpan
  <2>2. ToSet(c.todo) \subseteq {Head(c.todo)} \cup ToSet(Tail(c.todo))
    BY <2>1, HeadTailSet DEF Coroutines
  <2> DEFINE new == [c EXCEPT !.todo = Tail(c.todo)]
  <2>3. new.batch = c.batch /\ new.todo = Tail(c.todo)
    BY <2>1 DEF Coroutines
  <2> HIDE DEF new
  <2>4. rows' = rows \cup {Head(c.todo)} /\ coroutines' = (coroutines \ {c}) \cup {new}
        /\ exported' = exported
    BY <1>1 DEF InsertSpan, Becomes, new
  <2>5. ToSet(new.batch) \subseteq rows' \cup ToSet(new.todo)
    BY <2>2, <2>3, <2>4
  <2>6. ASSUME NEW d \in coroutines' PROVE ToSet(d.batch) \subseteq rows' \cup ToSet(d.todo)
    BY <2>4, <2>5
  <2> QED
    BY <2>4, <2>6 DEF ToSet
<1>2. ASSUME NEW c \in coroutines, GetPool(c) \/ SetPool(c) PROVE StoredInv'
  <2>1. PICK at \in {"creating", "inserting"} : Becomes(c, [c EXCEPT !.at = at])
    BY <1>2 DEF GetPool, SetPool
  <2> DEFINE new == [c EXCEPT !.at = at]
  <2>2. new.batch = c.batch /\ new.todo = c.todo
    BY DEF RangeInv, Coroutines
  <2> HIDE DEF new
  <2>3. coroutines' = (coroutines \ {c}) \cup {new} /\ UNCHANGED <<rows, exported>>
    BY <1>2, <2>1 DEF GetPool, SetPool, Becomes, new
  <2>4. ASSUME NEW d \in coroutines' PROVE ToSet(d.batch) \subseteq rows \cup ToSet(d.todo)
    BY <2>2, <2>3
  <2> QED
    BY <2>3, <2>4 DEF ToSet
<1>3. ASSUME NEW c \in coroutines, Return(c) PROVE StoredInv'
  <2>1. ToSet(c.batch) \subseteq rows
    BY <1>3, EmptySet DEF Return
  <2>2. coroutines' \subseteq coroutines /\ rows' = rows /\ exported' \subseteq exported \cup ToSet(c.batch)
    BY <1>3 DEF Return
  <2> QED
    BY <2>1, <2>2 DEF ToSet
<1>4. ASSUME NEW by \in {Timer} \cup Jobs, CallExport(by) PROVE StoredInv'
  <2>1. PICK batch : coroutines' = coroutines \cup {[batch |-> batch, todo |-> batch, at |-> "start"]}
    BY <1>4 DEF CallExport
  <2>2. UNCHANGED <<rows, exported>>
    BY <1>4 DEF CallExport
  <2>3. ASSUME NEW d \in coroutines' PROVE ToSet(d.batch) \subseteq rows \cup ToSet(d.todo)
    BY <2>1
  <2> QED
    BY <2>2, <2>3 DEF ToSet
<1>5. CASE coroutines' \subseteq coroutines /\ UNCHANGED <<rows, exported>>
  BY <1>5 DEF ToSet
<1>6. ASSUME NEW c \in coroutines, Raise(c) PROVE coroutines' \subseteq coroutines /\ UNCHANGED <<rows, exported>>
  BY <1>6 DEF Raise
<1>7. ASSUME NEW j \in Jobs, JobStep(j) PROVE coroutines' \subseteq coroutines /\ UNCHANGED <<rows, exported>>
  BY <1>7 DEF JobStep, Configure, BuildProvider, InstallProvider, PublishProvider, Skip, EndSpan,
     RunRaises, StartFlush, EndFlush, Settle
<1> QED
  BY <1>1, <1>2, <1>3, <1>4, <1>5, <1>6, <1>7 DEF Next, Timeout, ProcessDies, vars

-----------------------------------------------------------------------------
(* Every row of a job's spans hangs under its parent's row or is a root.   *)
LEMMA TraceShowsEveryRow ==
  ASSUME NEW j PROVE {s \in rows : s[1] = j} \subseteq GetTaskTrace(j)
BY DEF GetTaskTrace, SpanTree, Roots, Children

LEMMA TraceInvariant == Spec => []TraceInv
<1>1. TraceInv /\ [Next]_vars => TraceInv'
  BY RangeStep, ProviderStep, FlushStep, StoredStep DEF TraceInv
<1> QED
  BY <1>1, TraceInit, PTL DEF Spec

(* With one provider, the trace of a run that was marked complete or       *)
(* paused lacks only spans whose export reported a failure (setup.py:39).  *)
THEOREM TracesAreWhole == Spec => []TraceIsWhole
<1>1. TraceInv => TraceIsWhole
  <2> SUFFICES ASSUME TraceInv, Cardinality(builders) = 1, NEW j \in Jobs,
                      job[j] \in {"completed", "paused"}
               PROVE  ({j} \X (1..SpansOf[j])) \ dropped \subseteq GetTaskTrace(j)
    BY DEF TraceIsWhole
  <2>1. OneProvider
    <3>1. \E x : builders = {x}
      BY FS_Singleton DEF TraceInv, ProviderInv
    <3> QED
      BY <3>1 DEF OneProvider
  <2>2. {j} \X (1..SpansOf[j]) \subseteq exported \cup dropped
    BY <2>1 DEF TraceInv, FlushInv, FlushOf, SpansUpTo, Reported
  <2>3. ({j} \X (1..SpansOf[j])) \ dropped \subseteq {s \in rows : s[1] = j}
    BY <2>2 DEF TraceInv, StoredInv, SuccessIsStored
  <2> QED
    BY <2>3, TraceShowsEveryRow
<1> QED
  BY <1>1, TraceInvariant, PTL
=============================================================================

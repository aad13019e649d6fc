---------------------------- MODULE LongTermMemory ----------------------------
(***************************************************************************)
(* The memories table under concurrent runs: planning searches a user's     *)
(* rows and counts the access in a second statement, a finished run stores  *)
(* a lesson, and a user may be erased at any time.  A run goes on from its   *)
(* checkpoint in every job that is delivered for it: its first, one after a  *)
(* pause, a crash or a failure, or one beside a job that is still at work.   *)
(* Similarity is a free choice.                                            *)
(***************************************************************************)
EXTENDS Integers, FiniteSets, Sequences

CONSTANTS
    Runs, Users,
    UserOf,         \* by run: whose it is ("anonymous" is a user like others)
    Slots,          \* jobs the workers can have at once
    NoRun,          \* what a free slot drives
    TOP_K,
    MaxRows,        \* bound: rows ever inserted
    MaxDeliveries,  \* bound: jobs ever begun
    MaxErasures     \* bound: erasures

ASSUME MemoryAssumption ==
    /\ UserOf \in [Runs -> Users] /\ NoRun \notin Runs /\ TOP_K \in Nat \ {0}
    /\ IsFiniteSet(Runs) /\ IsFiniteSet(Slots)

VARIABLES
    lessons,        \* every row ever inserted: its user_id and source_task_id
    access_count,   \* by id, the position in lessons
    rows            \* ids that are still in the table
table == <<lessons, access_count, rows>>

VARIABLES
    driven,         \* by slot: the run its job drives
    at,             \* by slot: what the job is about to do
    found           \* by slot: the ids in its hand
jobs == <<driven, at, found>>

VARIABLES
    checkpoint,     \* by run: the super-step its latest checkpoint goes on with
    memory_ids_used \* by run: the ids its committed plan rests on
threads == <<checkpoint, memory_ids_used>>

VARIABLES
    over,           \* by user: the runs that were over at the last erasure
    plannings,      \* by user: jobs that began with the planning
    deliveries, erasures
history == <<over, plannings, deliveries, erasures>>

vars == <<table, jobs, threads, history>>

Init ==
    /\ lessons = <<>> /\ access_count = <<>> /\ rows = {}
    /\ driven = [s \in Slots |-> NoRun] /\ at = [s \in Slots |-> "idle"]
    /\ found = [s \in Slots |-> {}]
    /\ checkpoint = [p \in Runs |-> "search"] /\ memory_ids_used = [p \in Runs |-> {}]
    /\ over = [u \in Users |-> {}] /\ plannings = [u \in Users |-> 0]
    /\ deliveries = 0 /\ erasures = 0

------------------------------------------------------------------------------
(* Jobs: what a worker does with a message of the run.                     *)

\* run_task or resume_task: the run goes on from its latest checkpoint, also
\* after a failure and beside a job that has outlived its delivery; there is
\* nothing to go on with when the run has ended.
GoesOn(p) == checkpoint[p] # "over"
Deliver(s, p) ==
    /\ at[s] = "idle" /\ GoesOn(p)
    /\ deliveries < MaxDeliveries /\ deliveries' = deliveries + 1
    /\ driven' = [driven EXCEPT ![s] = p] /\ at' = [at EXCEPT ![s] = checkpoint[p]]
    /\ plannings' = IF checkpoint[p] = "search" THEN [plannings EXCEPT ![UserOf[p]] = @ + 1]
                    ELSE plannings
    /\ UNCHANGED <<table, found, threads, over, erasures>>

\* The slot is free, and what the job had in hand is gone.
Free(s) ==
    /\ driven' = [driven EXCEPT ![s] = NoRun]
    /\ at' = [at EXCEPT ![s] = "idle"] /\ found' = [found EXCEPT ![s] = {}]

\* The worker dies, or the embedding, a model or the database raises and the run
\* fails, or the run pauses: the super-step it was in has not been committed.
Leave(s) ==
    /\ at[s] # "idle" /\ Free(s)
    /\ UNCHANGED <<table, threads, history>>

------------------------------------------------------------------------------
(* Planning: node_supervisor and MemoryRetriever.retrieve.                 *)

\* search_memories: the user's rows, at most TOP_K of them.
AnyRow(s) == rows
Candidates(s) == {i \in rows : lessons[i].owner = UserOf[driven[s]]}
TopOf(S) == {T \in SUBSET S : Cardinality(T) = IF Cardinality(S) < TOP_K THEN Cardinality(S) ELSE TOP_K}

Search(s) ==
    /\ at[s] = "search"
    /\ \E T \in TopOf(Candidates(s)) :
          /\ found' = [found EXCEPT ![s] = T]
          /\ at' = [at EXCEPT ![s] = IF T = {} THEN "plan" ELSE "touch"]
    /\ UNCHANGED <<table, driven, threads, history>>

\* _touch_accessed: rows that were erased since are not there to be counted.
BestOnly(s) == {i \in found[s] \cap rows : \A j \in found[s] : i <= j}
Touched(s) == found[s] \cap rows
Bump == 1
Touch(s) ==
    /\ at[s] = "touch" /\ at' = [at EXCEPT ![s] = "plan"]
    /\ access_count' = [i \in DOMAIN lessons |-> access_count[i] + IF i \in Touched(s) THEN Bump ELSE 0]
    /\ UNCHANGED <<rows, lessons, driven, found, threads, history>>

\* The context and the plan; the super-step commits with the ids it used, or
\* without them when the plan was invalid twice.
CommitPlan(s) ==
    /\ at[s] = "plan" /\ at' = [at EXCEPT ![s] = "work"]
    /\ \E ids \in {found[s], {}} : memory_ids_used' = [memory_ids_used EXCEPT ![driven[s]] = ids]
    /\ checkpoint' = [checkpoint EXCEPT ![driven[s]] = "work"]
    /\ found' = [found EXCEPT ![s] = {}]
    /\ UNCHANGED <<table, driven, history>>

------------------------------------------------------------------------------
(* The end of a run: node_synthesize and MemoryExtractor.extract.          *)

\* save_memory.
Insert(s) ==
    /\ at[s] = "work" /\ at' = [at EXCEPT ![s] = "commit"]
    /\ Len(lessons) < MaxRows
    /\ lessons' = Append(lessons, [owner |-> UserOf[driven[s]], source |-> driven[s]])
    /\ access_count' = Append(access_count, 0)
    /\ rows' = rows \cup {Len(lessons')}
    /\ UNCHANGED <<driven, found, threads, history>>

\* An extraction that raises is logged and left out, and there is none for a
\* plan that a human stopped.
NoLesson(s) ==
    /\ at[s] = "work" /\ at' = [at EXCEPT ![s] = "commit"]
    /\ UNCHANGED <<table, driven, found, threads, history>>

\* The last super-step commits.
CommitAnswer(s) ==
    /\ at[s] = "commit" /\ Free(s)
    /\ checkpoint' = [checkpoint EXCEPT ![driven[s]] = "over"]
    /\ UNCHANGED <<table, memory_ids_used, history>>

------------------------------------------------------------------------------
\* A run is over when its end is committed and no job drives it any more.
Over(p) == checkpoint[p] = "over" /\ \A s \in Slots : driven[s] # p

\* DELETE /users/{user_id}/memories.
ErasedIfRead(u) == {i \in rows : lessons[i].owner = u /\ access_count[i] > 0}
Erased(u) == {i \in rows : lessons[i].owner = u}
Erase(u) ==
    /\ erasures < MaxErasures /\ erasures' = erasures + 1
    /\ rows' = rows \ Erased(u)
    /\ over' = [over EXCEPT ![u] = {p \in Runs : Over(p)}]
    /\ UNCHANGED <<lessons, access_count, jobs, threads, plannings, deliveries>>

\* Between two deliveries nothing need happen.
Quiet == (\A s \in Slots : at[s] = "idle") /\ UNCHANGED vars

Step(s) ==
    \/ Leave(s) \/ Search(s) \/ Touch(s) \/ CommitPlan(s)
    \/ Insert(s) \/ NoLesson(s) \/ CommitAnswer(s)
Next ==
    \/ \E s \in Slots : Step(s) \/ \E p \in Runs : Deliver(s, p)
    \/ \E u \in Users : Erase(u)
    \/ Quiet

Spec == Init /\ [][Next]_vars

------------------------------------------------------------------------------
Places == {"idle", "search", "touch", "plan", "work", "commit"}

TypeOK ==
    /\ lessons \in Seq([owner : Users, source : Runs]) /\ rows \subseteq DOMAIN lessons
    /\ access_count \in [DOMAIN lessons -> Nat]
    /\ driven \in [Slots -> Runs \cup {NoRun}] /\ at \in [Slots -> Places]
    /\ found \in [Slots -> SUBSET DOMAIN lessons]
    /\ checkpoint \in [Runs -> {"search", "work", "over"}]
    /\ memory_ids_used \in [Runs -> SUBSET DOMAIN lessons]
    /\ over \in [Users -> SUBSET Runs] /\ plannings \in [Users -> Nat]
    /\ deliveries \in Nat /\ erasures \in Nat

\* The attribution of a run names lessons of its own user only, at most TOP_K,
\* through concurrent inserts, erasures and repeated planning (store.py:89).
AttributionIsScoped ==
    \A p \in Runs : /\ Cardinality(memory_ids_used[p]) <= TOP_K
                    /\ \A i \in memory_ids_used[p] : lessons[i].owner = UserOf[p]

\* access_count covers the use of a row: every committed plan that rests on a
\* row that is still there was counted, and so was every job about to commit
\* one; and no more is counted than jobs have begun to plan for the row's user
\* (store.py:124).
CountsCoverUse ==
    \A i \in rows :
        LET used == Cardinality({p \in Runs : i \in memory_ids_used[p]})
            held == Cardinality({s \in Slots : i \in found[s] /\ at[s] = "plan"})
        IN  /\ used + held <= access_count[i]
            /\ access_count[i] <= plannings[lessons[i].owner]

\* After an erasure the user's rows all come from runs that were not over then:
\* no delivery brings a run back that had ended (server.py:404).
ErasureHolds ==
    \A i \in rows : lessons[i].source \notin over[lessons[i].owner]
==============================================================================

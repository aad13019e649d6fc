----------------------------- MODULE EventStream -----------------------------
(***************************************************************************)
(* GET /tasks/{id}/events (api/server.py): a server-sent stream that polls *)
(* the task row beside everything TaskLifecycle does to it.  A client may  *)
(* open one whenever the task exists; one client at a time is followed.    *)
(***************************************************************************)
EXTENDS TaskLifecycle

VARIABLE stream   \* where the stream is, and what it has sent
streamVars == <<vars, stream>>

NotOpen == [at |-> "closed", last |-> "none", done |-> "none"]

StreamInit == Init /\ stream = NotOpen

\* _get_task_or_404, then a generator that has told nothing yet.
OpenStream ==
    /\ stream.at = "closed" /\ status # "absent"
    /\ stream' = [NotOpen EXCEPT !.at = "open"]
    /\ UNCHANGED vars

\* One tick: a status event when the row has changed, and after a terminal
\* one the done event, which ends the stream.
EndsOnSuccess(s) == s = "completed"
EndsStream(s) == s \in TERMINAL_STATUSES
Poll ==
    /\ stream.at = "open"
    /\ stream' = IF EndsStream(status)
                 THEN [at |-> "done", last |-> status, done |-> status]
                 ELSE [stream EXCEPT !.last = status]
    /\ UNCHANGED vars

\* SSE_MAX_TICKS: after an hour of polls the stream ends without a done event.
RunOut ==
    /\ stream.at = "open"
    /\ stream' = [stream EXCEPT !.at = "over"]
    /\ UNCHANGED vars

StreamNext ==
    \/ OpenStream \/ Poll \/ RunOut
    \/ Next /\ UNCHANGED stream

StreamSpec == StreamInit /\ [][StreamNext]_streamVars /\ WF_streamVars(Poll)

------------------------------------------------------------------------------
\* Whoever was told that the task completed was told so of a run that had
\* reached its end, and the run stays there even when the status of the row is
\* set back later, by a slower worker or by a failing write of the run row.
ToldCompletedMeansEnd == stream.done = "completed" => thread = End

\* A stream that is kept open tells its client how the task ended, on every way
\* a task can end (server.py:114 "until the task reaches a terminal state").
ClientIsTold ==
    (<>[](status \in {"completed", "failed"})) => <>[](stream.at # "open")

\* server.py:114 "status changes until the task reaches a terminal state": what
\* the done event said is what the task remains.  Refuted: complete_run raises
\* after complete_task, and a client told "completed" has a failed task.
DoneIsFinal == stream.done # "none" => status = stream.done
==============================================================================

----------------------------- MODULE RunManager -----------------------------
(***************************************************************************)
(* The daemon's Manager (internal/daemon): the HTTP handlers that submit   *)
(* and cancel runs, the goroutine that records how each run ended, the map *)
(* of running runs they share, and the rows of the runs table, across      *)
(* database errors, the signal that ends the Manager's context, crashes    *)
(* and restarts of the daemon.                                             *)
(*                                                                         *)
(* Abstractions: of the engine a run sees what PipelineRuns promises, that *)
(* a runtime ends once, with nil or an error, stopped or not; owners and   *)
(* visibility are left out, since a refused request changes nothing; each  *)
(* run is cancelled by at most one request.                                *)
(***************************************************************************)
EXTENDS FiniteSets

CONSTANT Runs   \* the identifiers of the runs that may be submitted

VARIABLES
  up,         \* the daemon process runs
  signalled,  \* m.ctx is done: SIGINT or SIGTERM came; the server goes on serving
  submit,     \* Submit: none, started, stopping, adding, returned, lost
  runtime,    \* the PipelineRuntime: absent, running, succeeded, failed, lost
  stopped,    \* the runtime's context is cancelled
  status,     \* Run.status, with none before NewRun
  waiter,     \* the completion goroutine: none, waiting, settled, removed, answered, done, lost
  running,    \* Manager.running
  row,        \* the run's row: none, running, succeeded, failed, interrupted
  unsaved,    \* history: runs whose final UpdateRun returned an error in this process
  cancel      \* Cancel: none, found, stopping, stopped, refused, lost

vars == <<up, signalled, submit, runtime, stopped, status, waiter, running, row, unsaved, cancel>>

Verdicts == {"succeeded", "failed"}
Ended(r) == runtime[r] \in Verdicts

TypeOK ==
  /\ up \in BOOLEAN
  /\ signalled \in BOOLEAN
  /\ submit \in [Runs -> {"none", "started", "stopping", "adding", "returned", "lost"}]
  /\ runtime \in [Runs -> {"absent", "running", "lost"} \cup Verdicts]
  /\ stopped \in [Runs -> BOOLEAN]
  /\ status \in [Runs -> {"none", "running"} \cup Verdicts]
  /\ \A r \in Runs : status[r] = "none" <=> submit[r] = "none"
  /\ waiter \in [Runs -> {"none", "waiting", "settled", "removed", "answered", "done", "lost"}]
  /\ running \in SUBSET Runs
  /\ row \in [Runs -> {"none", "running", "interrupted"} \cup Verdicts]
  /\ unsaved \in SUBSET Runs
  /\ cancel \in [Runs -> {"none", "found", "stopping", "stopped", "refused", "lost"}]

Init ==
  /\ up = TRUE
  /\ signalled = FALSE
  /\ submit = [r \in Runs |-> "none"]
  /\ runtime = [r \in Runs |-> "absent"]
  /\ stopped = [r \in Runs |-> FALSE]
  /\ status = [r \in Runs |-> "none"]
  /\ waiter = [r \in Runs |-> "none"]
  /\ running = {}
  /\ row = [r \in Runs |-> "none"]
  /\ unsaved = {}
  /\ cancel = [r \in Runs |-> "none"]

-----------------------------------------------------------------------------
(* Submit *)

\* m.exec.Submit starts the runtime under m.ctx; NewRun wraps it.
Submit(r) ==
  /\ up /\ submit[r] = "none"
  /\ submit' = [submit EXCEPT ![r] = "started"]
  /\ runtime' = [runtime EXCEPT ![r] = "running"]
  /\ stopped' = [stopped EXCEPT ![r] = signalled]
  /\ status' = [status EXCEPT ![r] = "running"]
  /\ UNCHANGED <<up, signalled, waiter, running, row, unsaved, cancel>>

\* store.CreateRun, which fails under a context that is done.
Create(r) ==
  /\ submit[r] = "started" /\ ~signalled
  /\ row' = [row EXCEPT ![r] = "running"]
  /\ submit' = [submit EXCEPT ![r] = "adding"]
  /\ UNCHANGED <<up, signalled, runtime, stopped, status, waiter, running, unsaved, cancel>>

\* Mutant of CreateFails: the run is left running.
CreateFailsUnstopped(r) ==
  /\ submit[r] = "started"
  /\ submit' = [submit EXCEPT ![r] = "adding"]
  /\ UNCHANGED <<up, signalled, runtime, stopped, status, waiter, running, row, unsaved, cancel>>

\* CreateRun returns an error, for the context or the database, with the row
\* written or not: pr.Stop cancels and waits, and Submit goes on as if it were.
\* (A write the signal overtakes is as good as one before it: from then on no
\* handler can read a row.)
CreateFails(r) ==
  /\ submit[r] = "started"
  /\ \/ UNCHANGED row
     \/ ~signalled /\ row' = [row EXCEPT ![r] = "running"]
  /\ submit' = [submit EXCEPT ![r] = "stopping"]
  /\ stopped' = [stopped EXCEPT ![r] = TRUE]
  /\ UNCHANGED <<up, signalled, runtime, status, waiter, running, unsaved, cancel>>

CreateStopped(r) ==
  /\ submit[r] = "stopping" /\ Ended(r)
  /\ submit' = [submit EXCEPT ![r] = "adding"]
  /\ UNCHANGED <<up, signalled, runtime, stopped, status, waiter, running, row, unsaved, cancel>>

\* Mutant of Add: no completion goroutine is launched.
AddUnwatched(r) ==
  /\ submit[r] = "adding"
  /\ submit' = [submit EXCEPT ![r] = "returned"]
  /\ running' = running \cup {r}
  /\ UNCHANGED <<up, signalled, runtime, stopped, status, waiter, row, unsaved, cancel>>

\* m.add, then the completion goroutine is launched and the client answered.
Add(r) ==
  /\ submit[r] = "adding"
  /\ submit' = [submit EXCEPT ![r] = "returned"]
  /\ running' = running \cup {r}
  /\ waiter' = [waiter EXCEPT ![r] = "waiting"]
  /\ UNCHANGED <<up, signalled, runtime, stopped, status, row, unsaved, cancel>>

-----------------------------------------------------------------------------
(* The runtime and the completion goroutine *)

\* close(pe.done): a cancelled runtime usually ends with an error but may have
\* nothing left to cancel.
RuntimeEnds(r) ==
  /\ runtime[r] = "running"
  /\ \E v \in Verdicts : runtime' = [runtime EXCEPT ![r] = v]
  /\ UNCHANGED <<up, signalled, submit, stopped, status, waiter, running, row, unsaved, cancel>>

\* Mutant of Settle: the error of Wait is ignored.
SettleSucceeded(r) ==
  /\ waiter[r] = "waiting" /\ Ended(r)
  /\ waiter' = [waiter EXCEPT ![r] = "settled"]
  /\ status' = [status EXCEPT ![r] = "succeeded"]
  /\ UNCHANGED <<up, signalled, submit, runtime, stopped, running, row, unsaved, cancel>>

\* pr.Wait returns; SetStatus and SetFinishedAt.
Settle(r) ==
  /\ waiter[r] = "waiting" /\ Ended(r)
  /\ waiter' = [waiter EXCEPT ![r] = "settled"]
  /\ status' = [status EXCEPT ![r] = runtime[r]]
  /\ UNCHANGED <<up, signalled, submit, runtime, stopped, running, row, unsaved, cancel>>

\* Mutant of Remove: run.done is closed before the row is saved.
RemoveAndClose(r) ==
  /\ waiter[r] = "settled"
  /\ waiter' = [waiter EXCEPT ![r] = "done"]
  /\ running' = running \ {r}
  /\ UNCHANGED <<up, signalled, submit, runtime, stopped, status, row, unsaved, cancel>>

Remove(r) ==
  /\ waiter[r] = "settled"
  /\ waiter' = [waiter EXCEPT ![r] = "removed"]
  /\ running' = running \ {r}
  /\ UNCHANGED <<up, signalled, submit, runtime, stopped, status, row, unsaved, cancel>>

\* store.UpdateRun writes the row and returns nil.
Save(r) ==
  /\ waiter[r] = "removed" /\ ~signalled /\ row[r] # "none"
  /\ row' = [row EXCEPT ![r] = status[r]]
  /\ waiter' = [waiter EXCEPT ![r] = "answered"]
  /\ UNCHANGED <<up, signalled, submit, runtime, stopped, status, running, unsaved, cancel>>

\* UpdateRun returns an error, which is only logged: there is no row, or the
\* context or the database failed it, with the row written or not.
SaveFails(r) ==
  /\ waiter[r] = "removed"
  /\ \/ UNCHANGED row
     \/ ~signalled /\ row[r] # "none" /\ row' = [row EXCEPT ![r] = status[r]]
  /\ unsaved' = unsaved \cup {r}
  /\ waiter' = [waiter EXCEPT ![r] = "answered"]
  /\ UNCHANGED <<up, signalled, submit, runtime, stopped, status, running, cancel>>

\* The goroutine returns: the deferred close(run.done).
CloseDone(r) ==
  /\ waiter[r] = "answered"
  /\ waiter' = [waiter EXCEPT ![r] = "done"]
  /\ UNCHANGED <<up, signalled, submit, runtime, stopped, status, running, row, unsaved, cancel>>

-----------------------------------------------------------------------------
(* Cancel *)

\* GetRunSecure finds the row of the caller's run, whatever its status.
Find(r) ==
  /\ up /\ ~signalled
  /\ row[r] # "none" /\ cancel[r] = "none"
  /\ cancel' = [cancel EXCEPT ![r] = "found"]
  /\ UNCHANGED <<up, signalled, submit, runtime, stopped, status, waiter, running, row, unsaved>>

\* The run is looked up in the map: Stop begins.
StopRun(r) ==
  /\ cancel[r] = "found" /\ r \in running
  /\ cancel' = [cancel EXCEPT ![r] = "stopping"]
  /\ stopped' = [stopped EXCEPT ![r] = TRUE]
  /\ UNCHANGED <<up, signalled, submit, runtime, status, waiter, running, row, unsaved>>

\* The run is not in the map: ErrRunNotRunning, 409.
Refuse(r) ==
  /\ cancel[r] = "found" /\ r \notin running
  /\ cancel' = [cancel EXCEPT ![r] = "refused"]
  /\ UNCHANGED <<up, signalled, submit, runtime, stopped, status, waiter, running, row, unsaved>>

\* Mutant of CancelReturns: the request waits for the final row.
CancelAwaitsRow(r) ==
  /\ cancel[r] = "stopping" /\ row[r] # "running"
  /\ cancel' = [cancel EXCEPT ![r] = "stopped"]
  /\ UNCHANGED <<up, signalled, submit, runtime, stopped, status, waiter, running, row, unsaved>>

\* Mutant of CancelReturns: run.Stop is started and not waited for.
CancelAtOnce(r) ==
  /\ cancel[r] = "stopping"
  /\ cancel' = [cancel EXCEPT ![r] = "stopped"]
  /\ UNCHANGED <<up, signalled, submit, runtime, stopped, status, waiter, running, row, unsaved>>

CancelReturns(r) ==
  /\ cancel[r] = "stopping" /\ Ended(r)
  /\ cancel' = [cancel EXCEPT ![r] = "stopped"]
  /\ UNCHANGED <<up, signalled, submit, runtime, stopped, status, waiter, running, row, unsaved>>

-----------------------------------------------------------------------------
(* The process *)

\* The signal ends m.ctx and with it every runtime's context; nothing shuts the
\* HTTP server down.
Signal ==
  /\ up /\ ~signalled
  /\ signalled' = TRUE
  /\ stopped' = [r \in Runs |-> stopped[r] \/ runtime[r] = "running"]
  /\ UNCHANGED <<up, submit, runtime, status, waiter, running, row, unsaved, cancel>>

\* The process dies: goroutines, requests and the map are gone, the rows stay.
Crash ==
  /\ up
  /\ up' = FALSE
  /\ submit' = [r \in Runs |-> IF submit[r] \in {"none", "returned"} THEN submit[r] ELSE "lost"]
  /\ runtime' = [r \in Runs |-> IF runtime[r] = "running" THEN "lost" ELSE runtime[r]]
  /\ waiter' = [r \in Runs |-> IF waiter[r] \in {"none", "done"} THEN waiter[r] ELSE "lost"]
  /\ cancel' = [r \in Runs |-> IF cancel[r] \in {"found", "stopping"} THEN "lost" ELSE cancel[r]]
  /\ running' = {}
  /\ UNCHANGED <<signalled, stopped, status, row, unsaved>>

\* Mutant of Restart: every row is marked, whatever its status.
RestartMarksAll ==
  /\ ~up
  /\ up' = TRUE
  /\ signalled' = FALSE
  /\ row' = [r \in Runs |-> IF row[r] # "none" THEN "interrupted" ELSE row[r]]
  /\ unsaved' = {}
  /\ UNCHANGED <<submit, runtime, stopped, status, waiter, running, cancel>>

\* NewManager: MarkInterruptedRuns, then an empty map.
Restart ==
  /\ ~up
  /\ up' = TRUE
  /\ signalled' = FALSE
  /\ row' = [r \in Runs |-> IF row[r] = "running" THEN "interrupted" ELSE row[r]]
  /\ unsaved' = {}
  /\ UNCHANGED <<submit, runtime, stopped, status, waiter, running, cancel>>

-----------------------------------------------------------------------------
Submitting(r) == Create(r) \/ CreateFails(r) \/ CreateStopped(r) \/ Add(r)
Completing(r) == Settle(r) \/ Remove(r) \/ Save(r) \/ SaveFails(r) \/ CloseDone(r)
Cancelling(r) == StopRun(r) \/ Refuse(r) \/ CancelReturns(r)

Next ==
  \/ \E r \in Runs : Submit(r) \/ Submitting(r) \/ RuntimeEnds(r) \/ Completing(r)
                     \/ Find(r) \/ Cancelling(r)
  \/ Signal \/ Crash \/ Restart

Spec == Init /\ [][Next]_vars

\* The goroutines and the handlers go on; nothing is assumed of the runtimes,
\* of the clients, or of the process being restarted.
Fairness == \A r \in Runs : WF_vars(Submitting(r)) /\ WF_vars(Completing(r)) /\ WF_vars(Cancelling(r))

FairSpec == Spec /\ Fairness

-----------------------------------------------------------------------------
(* Properties *)

\* A row that says how a run ended says the truth: what the runtime's Wait
\* returned, or that the daemon went down before it could be recorded.
RowTellsTruth ==
  \A r \in Runs :
    /\ row[r] \in Verdicts => runtime[r] = row[r]
    /\ row[r] = "interrupted" => submit[r] = "lost" \/ waiter[r] \in {"lost", "done"}

\* In a live daemon a row says "running" only while somebody is still going to
\* record the end of the run, or when recording it has failed.
NoStaleRow ==
  \A r \in Runs : up /\ row[r] = "running" =>
    \/ submit[r] \in {"stopping", "adding"}
    \/ waiter[r] \in {"waiting", "settled", "removed"}
    \/ r \in unsaved

\* A run that could not be recorded has been stopped before the client is told
\* its identifier: no pipeline runs that no row and no request can reach.
NothingRunsUnrecorded ==
  \A r \in Runs : submit[r] \in {"adding", "returned"} /\ row[r] = "none" => runtime[r] # "running"

\* The map holds exactly the runs whose completion is still to come, so that it
\* does not grow and Cancel finds every one of them.
MapMatchesWaiters ==
  \A r \in Runs : r \in running <=> waiter[r] \in {"waiting", "settled"}

\* Whoever waits on run.done (the GitHub reports) reads a final status that is
\* already in the database, unless saving it failed or the daemon went down.
DoneIsSaved ==
  \A r \in Runs : waiter[r] = "done" =>
    /\ status[r] = runtime[r] /\ runtime[r] \in Verdicts
    /\ row[r] = status[r] \/ r \in unsaved \/ row[r] \in {"none", "interrupted"}

\* Cancel answers with success only when the pipeline has ended.
CancelledHasEnded ==
  \A r \in Runs : cancel[r] = "stopped" => Ended(r)

\* A row that has left "running" is never written again, by a late completion,
\* a cancellation or the next daemon.
FinalRows ==
  [][\A r \in Runs : row[r] \notin {"none", "running"} => row'[r] = row[r]]_row

\* Of the places of Submit and of the completion goroutine RunRecords shows how far
\* the daemon has got with a run.
LifeOf(r) ==
  IF submit[r] = "none" THEN "none"
  ELSE IF submit[r] = "lost" \/ waiter[r] = "lost" THEN "cut"
  ELSE IF waiter[r] = "none" THEN "submitted"
  ELSE IF waiter[r] = "done" THEN "closed" ELSE "told"

Records == INSTANCE RunRecords WITH
  life <- [r \in Runs |-> LifeOf(r)], outcome <- runtime, record <- row,
  unwritten <- unsaved, granted <- {r \in Runs : cancel[r] = "stopped"}

\* Handlers, goroutines, map and database calls, with their failures, crashes and
\* restarts, keep the promises of RunRecords to the clients of the daemon.
KeepsRecords == Records!Promise

\* If pipelines end, every row leaves "running" or its update fails or the
\* daemon goes down, and every cancellation is answered.
PipelinesEnd == \A r \in Runs : []<>(runtime[r] # "running")

RowsSettle ==
  PipelinesEnd => \A r \in Runs : row[r] = "running" ~> row[r] # "running" \/ r \in unsaved \/ ~up

CancelsEnd ==
  PipelinesEnd => \A r \in Runs : cancel[r] = "found" ~> cancel[r] \in {"stopped", "refused", "lost"}

-----------------------------------------------------------------------------
(* The inductive invariant *)

\* Where Submit is, what has been done for the run, and what has not.
SubmitView(r) ==
  /\ submit[r] = "none" <=> runtime[r] = "absent"
  /\ submit[r] \in {"none", "started"} => row[r] = "none"
  /\ submit[r] = "stopping" => row[r] \in {"none", "running"}
  /\ submit[r] \in {"none", "started", "stopping", "adding"} => waiter[r] = "none"
  /\ submit[r] = "returned" => waiter[r] # "none"
  /\ submit[r] = "adding" => row[r] = "running" \/ (row[r] = "none" /\ Ended(r))

\* A row is final only when the completion goroutine has written it, or when
\* the next daemon has, and Cancel works on runs that have one.
RowView(r) ==
  /\ waiter[r] \in {"settled", "removed", "answered", "done"} =>
       Ended(r) /\ status[r] = runtime[r]
  /\ row[r] \in Verdicts => waiter[r] \in {"answered", "done", "lost"} /\ row[r] = runtime[r]
  /\ row[r] = "interrupted" => submit[r] = "lost" \/ waiter[r] \in {"lost", "done"}
  /\ waiter[r] = "waiting" => row[r] \in {"none", "running"} /\ (row[r] = "none" => Ended(r))
  /\ waiter[r] \in {"settled", "removed"} => row[r] \in {"none", "running"}
  /\ waiter[r] = "done" /\ row[r] = "running" => r \in unsaved
  /\ waiter[r] = "answered" => row[r] = runtime[r] \/ r \in unsaved
  /\ cancel[r] \in {"found", "stopping", "stopped"} => row[r] # "none"

\* A dead daemon has left nothing that acts; what is lost belongs to dead ones.
DeadView(r) ==
  /\ ~up => /\ submit[r] \in {"none", "returned", "lost"}
            /\ waiter[r] \in {"none", "done", "lost"}
            /\ runtime[r] # "running" /\ cancel[r] \notin {"found", "stopping"}
  /\ waiter[r] = "lost" \/ submit[r] = "lost" \/ runtime[r] = "lost" => runtime[r] # "running"
  /\ submit[r] = "lost" => waiter[r] = "none"
  /\ waiter[r] \in {"waiting", "settled", "removed", "answered", "done", "lost"} => submit[r] = "returned"
  /\ up /\ row[r] = "running" =>
       submit[r] \in {"stopping", "adding"} \/ waiter[r] \notin {"none", "lost"}
  /\ runtime[r] = "lost" => submit[r] = "lost" \/ waiter[r] = "lost"

IInv ==
  /\ TypeOK /\ MapMatchesWaiters /\ CancelledHasEnded
  /\ \A r \in Runs : SubmitView(r) /\ RowView(r) /\ DeadView(r)
=============================================================================

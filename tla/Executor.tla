------------------------------ MODULE Executor ------------------------------
(***************************************************************************)
(* The execution engine (pkg/engine): one goroutine per submitted pipeline *)
(* (PipelineRuntime.start) drives Kahn's algorithm (Scheduler) and feeds a *)
(* fixed pool of workers through one unbuffered queue that all pipelines   *)
(* share.  Each worker answers on the buffered results channel of the      *)
(* pipeline the job belongs to.                                            *)
(*                                                                         *)
(* Abstractions: a job is a model value, its body (ExecuteJob) takes any   *)
(* time and returns nil or an error; the order in which a range loop sends *)
(* the jobs of one slice is left open (Ready ranges over a Go map).        *)
(***************************************************************************)
EXTENDS Integers, Sequences, EngineInput

CONSTANTS
  Pipelines,    \* the runs that may be submitted to one executor
  Jobs,         \* the jobs of all of them
  PipelineOf,   \* the pipeline a job belongs to
  Deps,         \* the jobs its DependsOn names
  Workers,      \* the worker goroutines (maxParallel)
  NoJob         \* what a worker holds when it holds nothing

\* What Submit guarantees before it starts a runtime: Validate has accepted
\* the pipeline, so dependencies stay in the pipeline, name no job twice and
\* have no cycle (Validation!AcceptedIsRunnable).
ASSUME ValidatedPipelines ==
  NoJob \notin Jobs /\ Schedulable(Pipelines, Jobs, PipelineOf, Deps)

VARIABLES
  phase,       \* of a runtime: absent, submitted, running (start), closed (done)
  err,         \* pe.err, with the reason it was set; firstErr is the same value
  cancelled,   \* pe.ctx is done
  parentDone,  \* the context the runtimes derive from is done
  sending,     \* jobs the current range loop of start has yet to send
  indegree,    \* Scheduler.indegree
  processed,   \* Scheduler.processed
  dispatched,  \* Scheduler.dispatched
  sched,       \* history: what the scheduler was told of a job
  results,     \* pe.results, a buffered channel
  stage,       \* of a worker: idle, holding, opening (the log), executing, posting, exited
  held,        \* the job a worker took from the queue
  answer,      \* the error a posting worker will report
  job,         \* history: what the workers did with a job
  stopping,    \* of the callers of Stop: no, waiting, returned
  shutdown     \* of the caller of Shutdown: no, waiting, returned

schedVars == <<indegree, processed, dispatched, sched, sending>>
workerVars == <<stage, held, answer, job>>
callVars == <<stopping, shutdown, parentDone>>
vars == <<phase, err, cancelled, results, schedVars, workerVars, callVars>>

JobsOf(p) == {j \in Jobs : PipelineOf[j] = p}
Children(j) == {c \in Jobs : j \in Deps[c]}
\* Mutant of QueueClosed: Shutdown waits for the workers but closes nothing.
QueueLeftOpen == FALSE

QueueClosed == shutdown # "no"

JobResult == [job : Jobs, err : {"nil", "cancelled", "failed"}]

TypeOK ==
  /\ phase \in [Pipelines -> {"absent", "submitted", "running", "closed"}]
  /\ err \in [Pipelines -> {"nil", "cancelled", "failed", "panic"}]
  /\ cancelled \in [Pipelines -> BOOLEAN]
  /\ parentDone \in BOOLEAN
  /\ sending \in [Pipelines -> SUBSET Jobs]
  /\ indegree \in [Jobs -> Int]
  /\ processed \in [Pipelines -> Nat]
  /\ dispatched \in [Pipelines -> Nat]
  /\ sched \in [Jobs -> {"waiting", "dispatched", "completed", "failed"}]
  /\ results \in [Pipelines -> Seq(JobResult)]
  /\ stage \in [Workers -> {"idle", "holding", "opening", "executing", "posting", "exited"}]
  /\ held \in [Workers -> Jobs \cup {NoJob}]
  /\ \A w \in Workers : held[w] = NoJob <=> stage[w] \in {"idle", "exited"}
  /\ answer \in [Workers -> {"nil", "cancelled", "failed"}]
  /\ job \in [Jobs -> {"waiting", "admitted", "executing", "succeeded", "failed"}]
  /\ stopping \in [Pipelines -> {"no", "waiting", "returned"}]
  /\ shutdown \in {"no", "waiting", "returned"}

Init ==
  /\ phase = [p \in Pipelines |-> "absent"]
  /\ err = [p \in Pipelines |-> "nil"]
  /\ cancelled = [p \in Pipelines |-> FALSE]
  /\ parentDone = FALSE
  /\ sending = [p \in Pipelines |-> {}]
  /\ indegree = [j \in Jobs |-> Cardinality(Deps[j])]
  /\ processed = [p \in Pipelines |-> 0]
  /\ dispatched = [p \in Pipelines |-> 0]
  /\ sched = [j \in Jobs |-> "waiting"]
  /\ results = [p \in Pipelines |-> <<>>]
  /\ stage = [w \in Workers |-> "idle"]
  /\ held = [w \in Workers |-> NoJob]
  /\ answer = [w \in Workers |-> "nil"]
  /\ job = [j \in Jobs |-> "waiting"]
  /\ stopping = [p \in Pipelines |-> "no"]
  /\ shutdown = "no"

-----------------------------------------------------------------------------
(* Scheduler *)

\* Hand a set of jobs to the range loop that sends them.
Hand(p, next) ==
  /\ sending' = [sending EXCEPT ![p] = next]
  /\ dispatched' = [dispatched EXCEPT ![p] = @ + Cardinality(next)]

ReadyJobs(p) == {j \in JobsOf(p) : indegree[j] = 0}

\* The children that Complete(j) brings down to indegree 0.
Released(j) == {c \in Children(j) : indegree[c] = 1}

\* Mutant of SchedulerDone: the loop ends at the first error.
DoneAtError(p) == (processed[p] = dispatched[p]) \/ (err[p] # "nil")

SchedulerDone(p) == processed[p] = dispatched[p]

Complete(p, j) ==
  /\ processed' = [processed EXCEPT ![p] = @ + 1]
  /\ indegree' = [c \in Jobs |-> IF c \in Children(j) THEN indegree[c] - 1 ELSE indegree[c]]
  /\ Hand(p, Released(j))
  /\ sched' = [c \in Jobs |-> IF c = j THEN "completed"
                             ELSE IF c \in Released(j) THEN "dispatched" ELSE sched[c]]

\* Mutant of Fail: the failed job is not counted as processed.
FailUncounted(p, j) ==
  /\ sched' = [sched EXCEPT ![j] = "failed"]
  /\ UNCHANGED <<indegree, processed, dispatched, sending>>

Fail(p, j) ==
  /\ processed' = [processed EXCEPT ![p] = @ + 1]
  /\ sched' = [sched EXCEPT ![j] = "failed"]
  /\ UNCHANGED <<indegree, dispatched, sending>>

-----------------------------------------------------------------------------
(* PipelineRuntime *)

\* Executor.Submit: a child context of the caller's, and `go pe.start(queue)`.
Submit(p) ==
  /\ phase[p] = "absent"
  /\ phase' = [phase EXCEPT ![p] = "submitted"]
  /\ cancelled' = [cancelled EXCEPT ![p] = parentDone]
  /\ UNCHANGED <<err, results, schedVars, workerVars, callVars>>

\* start begins: the range over Ready().
Start(p) ==
  /\ phase[p] = "submitted"
  /\ phase' = [phase EXCEPT ![p] = "running"]
  /\ Hand(p, ReadyJobs(p))
  /\ sched' = [j \in Jobs |-> IF j \in ReadyJobs(p) THEN "dispatched" ELSE sched[j]]
  /\ UNCHANGED <<err, cancelled, results, indegree, processed, workerVars, callVars>>

\* Mutant of Dispatch: start stops sending once the runtime is cancelled.
DispatchUnlessCancelled(p, j, w) ==
  /\ phase[p] = "running" /\ j \in sending[p]
  /\ ~QueueClosed /\ ~cancelled[p]
  /\ stage[w] = "idle"
  /\ sending' = [sending EXCEPT ![p] = @ \ {j}]
  /\ stage' = [stage EXCEPT ![w] = "holding"]
  /\ held' = [held EXCEPT ![w] = j]
  /\ UNCHANGED <<phase, err, cancelled, results, indegree, processed, dispatched,
                 sched, answer, job, callVars>>

\* `queue <- WorkItem`: start and an idle worker meet on the unbuffered queue.
Dispatch(p, j, w) ==
  /\ phase[p] = "running" /\ j \in sending[p]
  /\ ~QueueClosed
  /\ stage[w] = "idle"
  /\ sending' = [sending EXCEPT ![p] = @ \ {j}]
  /\ stage' = [stage EXCEPT ![w] = "holding"]
  /\ held' = [held EXCEPT ![w] = j]
  /\ UNCHANGED <<phase, err, cancelled, results, indegree, processed, dispatched,
                 sched, answer, job, callVars>>

\* The same send on a queue Shutdown has closed panics; start recovers, records
\* the panic and closes done, whatever its jobs are doing.
PanicSend(p) ==
  /\ phase[p] = "running" /\ sending[p] # {}
  /\ QueueClosed
  /\ err' = [err EXCEPT ![p] = "panic"]
  /\ phase' = [phase EXCEPT ![p] = "closed"]
  /\ UNCHANGED <<cancelled, results, schedVars, workerVars, callVars>>

\* start waits in `<-pe.results`: it has sent all it had and is not Done.
Receiving(p) ==
  /\ phase[p] = "running" /\ sending[p] = {}
  /\ ~SchedulerDone(p)
  /\ results[p] # <<>>

\* Mutant of ReceiveError: the runtime is cancelled but pe.err is never set.
ErrorForgotten(p) ==
  /\ Receiving(p)
  /\ Head(results[p]).err # "nil" /\ err[p] = "nil"
  /\ results' = [results EXCEPT ![p] = Tail(@)]
  /\ Fail(p, Head(results[p]).job)
  /\ cancelled' = [cancelled EXCEPT ![p] = TRUE]
  /\ UNCHANGED <<phase, err, workerVars, callVars>>

\* The first error is kept and cancels the runtime.
ReceiveError(p) ==
  /\ Receiving(p)
  /\ Head(results[p]).err # "nil" /\ err[p] = "nil"
  /\ results' = [results EXCEPT ![p] = Tail(@)]
  /\ Fail(p, Head(results[p]).job)
  /\ err' = [err EXCEPT ![p] = Head(results[p]).err]
  /\ cancelled' = [cancelled EXCEPT ![p] = TRUE]
  /\ UNCHANGED <<phase, workerVars, callVars>>

\* Mutant of ReceiveDrained: a later error replaces the first.
DrainedOverwrites(p) ==
  /\ Receiving(p)
  /\ err[p] # "nil"
  /\ results' = [results EXCEPT ![p] = Tail(@)]
  /\ Fail(p, Head(results[p]).job)
  /\ err' = [err EXCEPT ![p] = IF Head(results[p]).err = "nil" THEN @ ELSE Head(results[p]).err]
  /\ UNCHANGED <<phase, cancelled, workerVars, callVars>>

\* After it, errors and successes alike are drained: no child is released.
ReceiveDrained(p) ==
  /\ Receiving(p)
  /\ err[p] # "nil"
  /\ results' = [results EXCEPT ![p] = Tail(@)]
  /\ Fail(p, Head(results[p]).job)
  /\ UNCHANGED <<phase, err, cancelled, workerVars, callVars>>

ReceiveSuccess(p) ==
  /\ Receiving(p)
  /\ Head(results[p]).err = "nil" /\ err[p] = "nil"
  /\ results' = [results EXCEPT ![p] = Tail(@)]
  /\ Complete(p, Head(results[p]).job)
  /\ UNCHANGED <<phase, err, cancelled, workerVars, callVars>>

\* The loop ends and the deferred close(pe.done) wakes every Wait.
Close(p) ==
  /\ phase[p] = "running" /\ sending[p] = {}
  /\ SchedulerDone(p)
  /\ phase' = [phase EXCEPT ![p] = "closed"]
  /\ UNCHANGED <<err, cancelled, results, schedVars, workerVars, callVars>>

\* Stop: cancel the runtime's context, then Wait.
Stop(p) ==
  /\ phase[p] # "absent" /\ stopping[p] = "no"
  /\ cancelled' = [cancelled EXCEPT ![p] = TRUE]
  /\ stopping' = [stopping EXCEPT ![p] = "waiting"]
  /\ UNCHANGED <<phase, err, results, schedVars, workerVars, shutdown, parentDone>>

StopReturns(p) ==
  /\ stopping[p] = "waiting" /\ phase[p] = "closed"
  /\ stopping' = [stopping EXCEPT ![p] = "returned"]
  /\ UNCHANGED <<phase, err, cancelled, results, schedVars, workerVars, shutdown, parentDone>>

\* The context given to Submit ends: the daemon's on a signal, the CLI's on ^C.
CancelParent ==
  /\ ~parentDone
  /\ parentDone' = TRUE
  /\ cancelled' = [p \in Pipelines |-> cancelled[p] \/ phase[p] # "absent"]
  /\ UNCHANGED <<phase, err, results, schedVars, workerVars, stopping, shutdown>>

-----------------------------------------------------------------------------
(* Workers *)

\* The worker finds the runtime cancelled and answers ctx.Err.
Refuse(w) ==
  /\ stage[w] = "holding" /\ cancelled[PipelineOf[held[w]]]
  /\ stage' = [stage EXCEPT ![w] = "posting"]
  /\ answer' = [answer EXCEPT ![w] = "cancelled"]
  /\ job' = [job EXCEPT ![held[w]] = "failed"]
  /\ UNCHANGED <<phase, err, cancelled, results, schedVars, held, callVars>>

\* Mutant of Admit: the worker does not look at the context.
AdmitCancelled(w) ==
  /\ stage[w] = "holding"
  /\ stage' = [stage EXCEPT ![w] = "opening"]
  /\ job' = [job EXCEPT ![held[w]] = "admitted"]
  /\ UNCHANGED <<phase, err, cancelled, results, schedVars, held, answer, callVars>>

\* The worker finds the context alive; it does not look again.
Admit(w) ==
  /\ stage[w] = "holding" /\ ~cancelled[PipelineOf[held[w]]]
  /\ stage' = [stage EXCEPT ![w] = "opening"]
  /\ job' = [job EXCEPT ![held[w]] = "admitted"]
  /\ UNCHANGED <<phase, err, cancelled, results, schedVars, held, answer, callVars>>

\* LogsStore.Open fails.
LogsFail(w) ==
  /\ stage[w] = "opening"
  /\ stage' = [stage EXCEPT ![w] = "posting"]
  /\ answer' = [answer EXCEPT ![w] = "failed"]
  /\ job' = [job EXCEPT ![held[w]] = "failed"]
  /\ UNCHANGED <<phase, err, cancelled, results, schedVars, held, callVars>>

\* The logs are open and ExecuteJob is entered, in a run that may be cancelled by now.
Execute(w) ==
  /\ stage[w] = "opening"
  /\ stage' = [stage EXCEPT ![w] = "executing"]
  /\ job' = [job EXCEPT ![held[w]] = "executing"]
  /\ UNCHANGED <<phase, err, cancelled, results, schedVars, held, answer, callVars>>

\* ExecuteJob returns: a cancelled job may still succeed (its last container call
\* was over), and fails with whatever the call it was in says.
ExecuteReturns(w) ==
  /\ stage[w] = "executing"
  /\ stage' = [stage EXCEPT ![w] = "posting"]
  /\ \E e \in {"nil", "failed"} :
       /\ answer' = [answer EXCEPT ![w] = e]
       /\ job' = [job EXCEPT ![held[w]] = IF e = "nil" THEN "succeeded" ELSE "failed"]
  /\ UNCHANGED <<phase, err, cancelled, results, schedVars, held, callVars>>

\* Mutant of Capacity: a results channel of one element.
OneResult(p) == 1

\* make(chan JobResult, len(p.Jobs)): a send on a full channel blocks.
Capacity(p) == Cardinality(JobsOf(p))

Post(w) ==
  LET p == PipelineOf[held[w]] IN
  /\ stage[w] = "posting"
  /\ Len(results[p]) < Capacity(p)
  /\ results' = [results EXCEPT ![p] = Append(@, [job |-> held[w], err |-> answer[w]])]
  /\ stage' = [stage EXCEPT ![w] = "idle"]
  /\ held' = [held EXCEPT ![w] = NoJob]
  /\ UNCHANGED <<phase, err, cancelled, schedVars, answer, job, callVars>>

\* Shutdown: close(queue), then wait for the workers' range loops to end.
Shutdown ==
  /\ shutdown = "no"
  /\ shutdown' = "waiting"
  /\ UNCHANGED <<phase, err, cancelled, results, schedVars, workerVars, stopping, parentDone>>

Exit(w) ==
  /\ stage[w] = "idle" /\ QueueClosed
  /\ stage' = [stage EXCEPT ![w] = "exited"]
  /\ UNCHANGED <<phase, err, cancelled, results, schedVars, held, answer, job, callVars>>

ShutdownReturns ==
  /\ shutdown = "waiting" /\ \A w \in Workers : stage[w] = "exited"
  /\ shutdown' = "returned"
  /\ UNCHANGED <<phase, err, cancelled, results, schedVars, workerVars, stopping, parentDone>>

-----------------------------------------------------------------------------
Runtime(p) ==
  \/ Start(p) \/ (\E j \in Jobs, w \in Workers : Dispatch(p, j, w)) \/ PanicSend(p)
  \/ ReceiveError(p) \/ ReceiveDrained(p) \/ ReceiveSuccess(p) \/ Close(p)

Worker(w) ==
  Refuse(w) \/ Admit(w) \/ LogsFail(w) \/ Execute(w) \/ Post(w) \/ Exit(w)

Next ==
  \/ \E p \in Pipelines : Runtime(p) \/ Submit(p) \/ Stop(p) \/ StopReturns(p)
  \/ \E w \in Workers : Worker(w) \/ ExecuteReturns(w)
  \/ CancelParent \/ Shutdown \/ ShutdownReturns

Spec == Init /\ [][Next]_vars

\* The goroutines run; a caller blocked in Stop or Shutdown is woken.  Nothing
\* is assumed of ExecuteReturns: ExecuteJob has no timeout.
Fairness ==
  /\ \A p \in Pipelines : WF_vars(Runtime(p)) /\ WF_vars(StopReturns(p))
  /\ \A w \in Workers : WF_vars(Worker(w))
  /\ WF_vars(ShutdownReturns)

FairSpec == Spec /\ Fairness
-----------------------------------------------------------------------------
(* Properties *)

\* A job is taken up only after every job it needs has run and succeeded, also
\* when results, errors and cancellations of several pipelines interleave.
DepsSucceeded ==
  \A j \in Jobs : job[j] # "waiting" => \A d \in Deps[j] : job[d] = "succeeded"

\* A job is in one place: waiting to be sent, with one worker, or answered
\* once.  So no job runs twice and the scheduler counts no job twice.
Unsent(j) == j \in sending[PipelineOf[j]]
Held(j) == \E w \in Workers : held[w] = j
Answers(j) == {i \in DOMAIN results[PipelineOf[j]] : results[PipelineOf[j]][i].job = j}

AtMostOnce ==
  \A j \in Jobs :
    /\ \A v, w \in Workers : held[v] = j /\ held[w] = j => v = w
    /\ \A i, k \in Answers(j) : i = k
    /\ ~(Unsent(j) /\ Held(j))
    /\ Answers(j) # {} => ~Unsent(j) /\ ~Held(j)

\* When done is closed, the pipeline has left the executor: no job of it is
\* queued, with a worker, or answered and unread.  Wait and Stop promise it;
\* only the panic of a send after Shutdown breaks it.
Quiescent ==
  \A p \in Pipelines : phase[p] = "closed" /\ err[p] # "panic" =>
    \A j \in JobsOf(p) : ~Unsent(j) /\ ~Held(j) /\ Answers(j) = {}

\* What Wait returns is the truth: nil exactly when every job ran and
\* succeeded, never when jobs were left out by a failure or a cancellation.
Verdict ==
  \A p \in Pipelines : phase[p] = "closed" =>
    (err[p] = "nil" <=> \A j \in JobsOf(p) : job[j] = "succeeded")

\* A worker never blocks on a results channel, so workers and the goroutines
\* that wait for an idle worker cannot wait for each other.
PostNeverBlocks ==
  \A w \in Workers : stage[w] = "posting" =>
    Len(results[PipelineOf[held[w]]]) < Capacity(PipelineOf[held[w]])

\* The first error is the one reported: later errors and cancellations leave
\* it alone (a panic replaces it), and nothing changes it after done is closed.
FirstErrorKept ==
  [][\A p \in Pipelines : err'[p] # err[p] =>
       phase[p] = "running" /\ (err[p] = "nil" \/ err'[p] = "panic")]_<<phase, err>>

\* If no job executes for ever, every submitted pipeline is closed, and every
\* caller of Stop and of Shutdown returns.
JobsEnd == \A w \in Workers : []<>(stage[w] # "executing")

Termination ==
  JobsEnd => \A p \in Pipelines : phase[p] = "submitted" ~> phase[p] = "closed"

StopEnds ==
  JobsEnd => \A p \in Pipelines : stopping[p] = "waiting" ~> stopping[p] = "returned"

ShutdownEnds == JobsEnd => (shutdown = "waiting" ~> shutdown = "returned")
=============================================================================

---------------------------- MODULE PipelineRuns ----------------------------
(***************************************************************************)
(* What the engine promises the callers of Submit, Stop and Wait, without  *)
(* its goroutines, queue, workers and counters: a job is admitted at most  *)
(* once, only when the jobs it needs have succeeded and its run is not     *)
(* cancelled; one that was admitted may begin after a cancellation; Wait   *)
(* returns once no job of the run is admitted or executes, with nil        *)
(* exactly when all of them succeeded.  A run whose executor is shut down  *)
(* under it may be aborted instead; its jobs may then still begin and end. *)
(***************************************************************************)
EXTENDS FiniteSets

CONSTANTS Pipelines, Jobs, PipelineOf, Deps

VARIABLES
  status,     \* of a run: absent, running, succeeded, failed, aborted
  cancelled,  \* the run was stopped, by a caller or by its first error
  job         \* of a job: waiting, admitted, executing, succeeded, failed

runVars == <<status, cancelled, job>>

JobsIn(p) == {j \in Jobs : PipelineOf[j] = p}

PromiseInit ==
  /\ status = [p \in Pipelines |-> "absent"]
  /\ cancelled = [p \in Pipelines |-> FALSE]
  /\ job = [j \in Jobs |-> "waiting"]

\* Submit: the run may be born cancelled, when the caller's context is over.
Accept(p) ==
  /\ status[p] = "absent"
  /\ status' = [status EXCEPT ![p] = "running"]
  /\ \E c \in BOOLEAN : cancelled' = [cancelled EXCEPT ![p] = c]
  /\ UNCHANGED job

Due(j) ==
  /\ status[PipelineOf[j]] \in {"running", "aborted"}
  /\ job[j] = "waiting"
  /\ \A d \in Deps[j] : job[d] = "succeeded"

Admit(j) ==
  /\ Due(j) /\ ~cancelled[PipelineOf[j]]
  /\ job' = [job EXCEPT ![j] = "admitted"]
  /\ UNCHANGED <<status, cancelled>>

Begin(j) ==
  /\ job[j] = "admitted"
  /\ job' = [job EXCEPT ![j] = "executing"]
  /\ UNCHANGED <<status, cancelled>>

\* The run is found cancelled, or the logs of the job cannot be opened.
Reject(j) ==
  /\ (Due(j) /\ cancelled[PipelineOf[j]]) \/ job[j] = "admitted"
  /\ job' = [job EXCEPT ![j] = "failed"]
  /\ UNCHANGED <<status, cancelled>>

End(j) ==
  /\ job[j] = "executing"
  /\ \E o \in {"succeeded", "failed"} : job' = [job EXCEPT ![j] = o]
  /\ UNCHANGED <<status, cancelled>>

\* Stop on one run, or the end of the context that several derive from.
Cancel(S) ==
  /\ \A p \in S : status[p] # "absent"
  /\ cancelled' = [p \in Pipelines |-> cancelled[p] \/ p \in S]
  /\ UNCHANGED <<status, job>>

Finish(p) ==
  /\ status[p] = "running"
  /\ \A j \in JobsIn(p) : job[j] \notin {"admitted", "executing"}
  /\ \/ /\ \A j \in JobsIn(p) : job[j] = "succeeded"
        /\ status' = [status EXCEPT ![p] = "succeeded"]
     \/ /\ \E j \in JobsIn(p) : job[j] = "failed"
        /\ status' = [status EXCEPT ![p] = "failed"]
  /\ UNCHANGED <<cancelled, job>>

Abort(p) ==
  /\ status[p] = "running"
  /\ \E j \in JobsIn(p) : job[j] = "waiting"
  /\ status' = [status EXCEPT ![p] = "aborted"]
  /\ UNCHANGED <<cancelled, job>>

PromiseNext ==
  \/ \E p \in Pipelines : Accept(p) \/ Finish(p) \/ Abort(p)
  \/ \E j \in Jobs : Admit(j) \/ Begin(j) \/ Reject(j) \/ End(j)
  \/ \E S \in SUBSET Pipelines : Cancel(S)

Promise == PromiseInit /\ [][PromiseNext]_runVars
=============================================================================

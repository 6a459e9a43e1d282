------------------------- MODULE ExecutorRefinement -------------------------
(* The executor implements what PipelineRuns promises. *)
EXTENDS Executor

\* What a caller of Wait can tell of a runtime.
StatusOf(p) ==
  IF phase[p] = "absent" THEN "absent"
  ELSE IF phase[p] # "closed" THEN "running"
  ELSE IF err[p] = "nil" THEN "succeeded"
  ELSE IF err[p] = "panic" THEN "aborted" ELSE "failed"

Runs == INSTANCE PipelineRuns WITH status <- [p \in Pipelines |-> StatusOf(p)]

\* Every behaviour of goroutines, queue and workers is one of PipelineRuns: the
\* engine keeps its promises to the callers of Submit, Stop and Wait.
KeepsPromise == Runs!Promise

\* What RunManager and RunCommand take of a runtime: it is started once, ends once,
\* and what Wait returns never changes after that.
StatusAdvances(p) ==
  \/ StatusOf(p) = "absent" /\ (StatusOf(p))' = "running"
  \/ StatusOf(p) = "running" /\ (StatusOf(p))' \in {"succeeded", "failed", "aborted"}
EndsOnce ==
  [][\A p \in Pipelines : StatusAdvances(p) \/ (StatusOf(p))' = StatusOf(p)]_<<phase, err>>
=============================================================================

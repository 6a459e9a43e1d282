----------------------------- MODULE EngineInput -----------------------------
(***************************************************************************)
(* What the engine takes for granted of the pipelines it is given.  The     *)
(* scheduler (Executor) and ExecuteJob (JobExecution) assume it; that       *)
(* Validate accepts nothing else is a property of Validation.               *)
(***************************************************************************)
EXTENDS FiniteSets

\* The dependencies of a job are jobs of its own pipeline, and there is no cycle:
\* every set of jobs has one that needs none of it.
Schedulable(pipelines, jobset, pipelineOf, deps) ==
  /\ IsFiniteSet(jobset)
  /\ pipelineOf \in [jobset -> pipelines]
  /\ deps \in [jobset -> SUBSET jobset]
  /\ \A j \in jobset : \A d \in deps[j] : pipelineOf[d] = pipelineOf[j]
  /\ \A S \in SUBSET jobset : S # {} => \E j \in S : deps[j] \cap S = {}

\* No two places of the lists of artifacts that jobs make name the same one, and what
\* a job needs is made by another job.
Deliverable(jobset, makes, needs) ==
  /\ \A j, k \in jobset : \A m \in DOMAIN makes[j], n \in DOMAIN makes[k] :
       makes[j][m] = makes[k][n] => j = k /\ m = n
  /\ \A j \in jobset : \A a \in needs[j] :
       \E k \in jobset \ {j} : \E m \in DOMAIN makes[k] : makes[k][m] = a
=============================================================================

------------------------- MODULE ExecutorInvariant --------------------------
(***************************************************************************)
(* The inductive invariant of Executor.  The properties of a pipeline that *)
(* has ended rest on what its goroutine, the workers and the channels hold *)
(* together at every moment before.                                        *)
(***************************************************************************)
EXTENDS ExecutorRefinement

\* Exactly the dispatched jobs are somewhere, each in one place, and the
\* slices and channels of a runtime hold jobs of its own pipeline.
Placement ==
  /\ AtMostOnce
  /\ \A j \in Jobs : sched[j] = "dispatched" <=> Unsent(j) \/ Held(j) \/ Answers(j) # {}
  /\ \A p \in Pipelines : sending[p] \subseteq JobsOf(p)
  /\ \A p \in Pipelines : \A i \in DOMAIN results[p] : PipelineOf[results[p][i].job] = p

\* What was executed agrees with where the job is and with what was answered.
JobView ==
  /\ \A j \in Jobs : sched[j] = "waiting" \/ Unsent(j) => job[j] = "waiting"
  /\ \A w \in Workers :
       /\ stage[w] = "holding" => job[held[w]] = "waiting"
       /\ stage[w] = "opening" => job[held[w]] = "admitted"
       /\ stage[w] = "executing" => job[held[w]] = "executing"
       /\ stage[w] = "posting" =>
            job[held[w]] = IF answer[w] = "nil" THEN "succeeded" ELSE "failed"
  /\ \A p \in Pipelines : \A i \in DOMAIN results[p] :
       job[results[p][i].job] = IF results[p][i].err = "nil" THEN "succeeded" ELSE "failed"
  /\ \A j \in Jobs : sched[j] = "completed" => job[j] = "succeeded"
  /\ \A j \in Jobs : sched[j] = "failed" => job[j] \in {"succeeded", "failed"}

\* Kahn's algorithm: indegree counts the dependencies not completed, and from
\* Start on exactly the jobs with none left have been dispatched.
Missing(j) == {d \in Deps[j] : sched[d] # "completed"}

Kahn ==
  /\ \A j \in Jobs : indegree[j] = Cardinality(Missing(j))
  /\ \A j \in Jobs : sched[j] # "waiting" => Missing(j) = {}
  /\ \A j \in Jobs : sched[j] = "waiting" /\ phase[PipelineOf[j]] \in {"running", "closed"}
       => Missing(j) # {}
  /\ \A j \in Jobs : phase[PipelineOf[j]] \in {"absent", "submitted"} => sched[j] = "waiting"

\* The counters and the channel count what they stand for.
Processed(p) == {j \in JobsOf(p) : sched[j] \in {"completed", "failed"}}
Dispatched(p) == {j \in JobsOf(p) : sched[j] # "waiting"}
Answered(p) == {j \in JobsOf(p) : Answers(j) # {}}

Counting ==
  \A p \in Pipelines :
    /\ processed[p] = Cardinality(Processed(p))
    /\ dispatched[p] = Cardinality(Dispatched(p))
    /\ Len(results[p]) = Cardinality(Answered(p))

\* pe.err tells the truth while the pipeline runs, and done is closed only
\* when every dispatched job is processed or a send has panicked.
Honest ==
  \A p \in Pipelines :
    /\ err[p] = "nil" => \A j \in JobsOf(p) : sched[j] # "failed"
    /\ err[p] \in {"cancelled", "failed"} => \E j \in JobsOf(p) : job[j] = "failed"
    /\ err[p] = "panic" => phase[p] = "closed" /\ sending[p] # {}
    /\ phase[p] = "closed" /\ err[p] # "panic" => SchedulerDone(p)

IInv == TypeOK /\ Placement /\ JobView /\ Kahn /\ Counting /\ Honest
=============================================================================

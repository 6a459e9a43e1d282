--------------------------- MODULE ExecutorProofs ---------------------------
(* Theorems about Executor, for every set of pipelines, jobs and workers. *)
EXTENDS ExecutorInvariant, FiniteSetTheorems, TLAPS

\* What Validate leaves of the pipelines.
LEMMA Validated ==
  /\ IsFiniteSet(Jobs) /\ NoJob \notin Jobs
  /\ PipelineOf \in [Jobs -> Pipelines] /\ Deps \in [Jobs -> SUBSET Jobs]
  /\ \A j \in Jobs : \A d \in Deps[j] : PipelineOf[d] = PipelineOf[j]
  /\ \A S \in SUBSET Jobs : S # {} => \E j \in S : Deps[j] \cap S = {}
BY ValidatedPipelines DEF Schedulable

\* The sets of jobs the counters count are finite.
LEMMA FiniteJobs ==
  ASSUME NEW S, S \subseteq Jobs
  PROVE  IsFiniteSet(S) /\ Cardinality(S) \in Nat
BY FS_Subset, FS_CardinalityType, Validated

\* The head of a channel is an answer, and receiving leaves a channel.
LEMMA Receive ==
  ASSUME NEW T, NEW s \in Seq(T), s # <<>>
  PROVE  /\ Head(s) \in T /\ Head(s) = s[1] /\ 1 \in DOMAIN s
         /\ Tail(s) \in Seq(T) /\ Len(Tail(s)) = Len(s) - 1
         /\ DOMAIN Tail(s) = 1 .. (Len(s) - 1)
         /\ \A i \in DOMAIN Tail(s) : i + 1 \in DOMAIN s /\ Tail(s)[i] = s[i + 1]
OBVIOUS

\* Sending keeps what a channel holds and adds the answer at its end.
LEMMA Send ==
  ASSUME NEW T, NEW s \in Seq(T), NEW e \in T
  PROVE  /\ Append(s, e) \in Seq(T) /\ Len(Append(s, e)) = Len(s) + 1
         /\ DOMAIN Append(s, e) = 1 .. (Len(s) + 1)
         /\ \A i \in DOMAIN s : i \in DOMAIN Append(s, e) /\ Append(s, e)[i] = s[i]
         /\ Append(s, e)[Len(s) + 1] = e
OBVIOUS

-----------------------------------------------------------------------------
\* The initial state is typed.
LEMMA InitType == Init => TypeOK
<1> SUFFICES ASSUME Init PROVE TypeOK
  OBVIOUS
<1>1. \A j \in Jobs : Cardinality(Deps[j]) \in Int
  BY FiniteJobs, Validated
<1>2. results \in [Pipelines -> Seq(JobResult)]
  BY DEF Init
<1>3. QED BY <1>1, <1>2 DEF Init, TypeOK

\* A step of a runtime's goroutine keeps the types.
LEMMA RuntimeType ==
  ASSUME TypeOK, NEW p \in Pipelines, Runtime(p)
  PROVE  TypeOK'
<1> USE DEF TypeOK, schedVars, workerVars, callVars
<1>1. CASE Start(p)
  <2>1. Cardinality(ReadyJobs(p)) \in Nat /\ ReadyJobs(p) \subseteq Jobs
    BY FiniteJobs DEF ReadyJobs, JobsOf
  <2>2. QED BY <1>1, <2>1 DEF Start, Hand
<1>2. CASE \E j \in Jobs, w \in Workers : Dispatch(p, j, w)
  BY <1>2, Validated DEF Dispatch
<1>3. CASE PanicSend(p)
  BY <1>3 DEF PanicSend
<1>4. CASE ReceiveError(p)
  <2>1. results[p] \in Seq(JobResult) /\ results[p] # <<>>
    BY <1>4 DEF ReceiveError, Receiving
  <2>2. Tail(results[p]) \in Seq(JobResult)
    BY <2>1, Receive
  <2>3. Head(results[p]) \in JobResult
    BY <2>1, Receive
  <2>4. Head(results[p]).job \in Jobs /\ Head(results[p]).err \in {"nil", "cancelled", "failed"}
    BY <2>3 DEF JobResult
  <2>5. QED BY <1>4, <2>2, <2>4 DEF ReceiveError, Fail
<1>5. CASE ReceiveDrained(p)
  <2>1. results[p] \in Seq(JobResult) /\ results[p] # <<>>
    BY <1>5 DEF ReceiveDrained, Receiving
  <2>2. Tail(results[p]) \in Seq(JobResult)
    BY <2>1, Receive
  <2>3. Head(results[p]) \in JobResult
    BY <2>1, Receive
  <2>4. Head(results[p]).job \in Jobs
    BY <2>3 DEF JobResult
  <2>5. QED BY <1>5, <2>2, <2>4 DEF ReceiveDrained, Fail
<1>6. CASE ReceiveSuccess(p)
  <2> DEFINE j == Head(results[p]).job
  <2>1. results[p] \in Seq(JobResult) /\ results[p] # <<>>
    BY <1>6 DEF ReceiveSuccess, Receiving
  <2>2. Tail(results[p]) \in Seq(JobResult)
    BY <2>1, Receive
  <2>3. Cardinality(Released(j)) \in Nat /\ Released(j) \subseteq Jobs
    BY FiniteJobs DEF Released, Children
  <2>4. ReceiveSuccess(p) => Complete(p, j) BY DEF ReceiveSuccess
  <2> HIDE DEF j
  <2>5. QED BY <1>6, <2>2, <2>3, <2>4 DEF ReceiveSuccess, Complete, Hand
<1>7. CASE Close(p)
  BY <1>7 DEF Close
<1>8. QED BY <1>1, <1>2, <1>3, <1>4, <1>5, <1>6, <1>7 DEF Runtime

\* A worker that is not idle and has not exited holds a job.
LEMMA BusyHolds ==
  ASSUME TypeOK, NEW w \in Workers, stage[w] \notin {"idle", "exited"}
  PROVE  held[w] \in Jobs
BY DEF TypeOK

\* A step of a worker keeps the types.
LEMMA WorkerType ==
  ASSUME TypeOK, NEW w \in Workers, Worker(w) \/ ExecuteReturns(w)
  PROVE  TypeOK'
<1> USE DEF TypeOK, schedVars, workerVars, callVars
<1>1. CASE Refuse(w)
  <2>1. /\ answer' \in [Workers -> {"nil", "cancelled", "failed"}]
        /\ job' \in [Jobs -> {"waiting", "admitted", "executing", "succeeded", "failed"}]
    BY <1>1 DEF Refuse
  <2>2. QED BY <1>1, <2>1 DEF Refuse
<1>a. CASE Admit(w) BY <1>a DEF Admit
<1>2. CASE LogsFail(w) BY <1>2 DEF LogsFail
<1>3. CASE Execute(w) BY <1>3 DEF Execute
<1>4. CASE ExecuteReturns(w)
  <2>1. PICK e \in {"nil", "failed"} :
          /\ answer' = [answer EXCEPT ![w] = e]
          /\ job' = [job EXCEPT ![held[w]] = IF e = "nil" THEN "succeeded" ELSE "failed"]
    BY <1>4 DEF ExecuteReturns
  <2>2. stage' = [stage EXCEPT ![w] = "posting"] /\ held[w] \in Jobs \cup {NoJob}
    BY <1>4 DEF ExecuteReturns
  <2>3. UNCHANGED <<phase, err, cancelled, results, schedVars, held, callVars>>
    BY <1>4 DEF ExecuteReturns
  <2>4. /\ answer' \in [Workers -> {"nil", "cancelled", "failed"}]
        /\ job' \in [Jobs -> {"waiting", "admitted", "executing", "succeeded", "failed"}]
    BY <2>1
  <2>5. \A v \in Workers : held'[v] = NoJob <=> stage'[v] \in {"idle", "exited"}
    BY <1>4, <2>2, <2>3 DEF ExecuteReturns
  <2>6. QED BY <2>2, <2>3, <2>4, <2>5
<1>5. CASE Post(w)
  <2> DEFINE q == PipelineOf[held[w]]
             r == [job |-> held[w], err |-> answer[w]]
  <2>0. held[w] \in Jobs
    BY <1>5, BusyHolds DEF Post
  <2>1. q \in Pipelines /\ r \in JobResult
    BY <2>0, Validated DEF JobResult
  <2>2. Append(results[q], r) \in Seq(JobResult)
    BY <2>1, Send
  <2>3. results' = [results EXCEPT ![q] = Append(results[q], r)]
    BY <1>5 DEF Post
  <2>4. results' \in [Pipelines -> Seq(JobResult)]
    BY <2>2, <2>3
  <2>5. QED BY <1>5, <2>4 DEF Post
<1>6. CASE Exit(w) BY <1>6 DEF Exit
<1>7. QED BY <1>1, <1>a, <1>2, <1>3, <1>4, <1>5, <1>6 DEF Worker

\* A caller's step keeps the types.
LEMMA CallerType ==
  ASSUME TypeOK,
         \/ \E p \in Pipelines : Submit(p) \/ Stop(p) \/ StopReturns(p)
         \/ CancelParent \/ Shutdown \/ ShutdownReturns
  PROVE  TypeOK'
<1> USE DEF TypeOK, schedVars, workerVars, callVars
<1>1. CASE \E p \in Pipelines : Submit(p)
  BY <1>1 DEF Submit
<1>2. CASE \E p \in Pipelines : Stop(p)
  BY <1>2 DEF Stop
<1>3. CASE \E p \in Pipelines : StopReturns(p)
  BY <1>3 DEF StopReturns
<1>4. CASE CancelParent
  <2>1. cancelled' \in [Pipelines -> BOOLEAN]
    BY <1>4 DEF CancelParent
  <2>2. QED BY <1>4, <2>1 DEF CancelParent
<1>5. CASE Shutdown
  BY <1>5 DEF Shutdown
<1>6. CASE ShutdownReturns
  BY <1>6 DEF ShutdownReturns
<1>7. QED BY <1>1, <1>2, <1>3, <1>4, <1>5, <1>6

\* A stuttering step keeps the types.
LEMMA StutterType == TypeOK /\ UNCHANGED vars => TypeOK'
BY DEF TypeOK, vars, schedVars, workerVars, callVars

\* Type correctness of the executor.
THEOREM Typing == Spec => []TypeOK
<1>1. TypeOK /\ [Next]_vars => TypeOK'
  BY RuntimeType, WorkerType, CallerType, StutterType DEF Next
<1>2. QED BY <1>1, InitType, PTL DEF Spec

-----------------------------------------------------------------------------
\* Receiving an answer takes its job, and no other, off the channel.
LEMMA Received ==
  ASSUME TypeOK, Placement, NEW p \in Pipelines, results[p] # <<>>,
         results' = [results EXCEPT ![p] = Tail(@)],
         NEW j, j = Head(results[p]).job
  PROVE  /\ j \in JobsOf(p) /\ sched[j] = "dispatched" /\ ~Unsent(j) /\ ~Held(j)
         /\ 1 \in Answers(j) /\ results[p][1] = Head(results[p])
         /\ Head(results[p]) \in JobResult
         /\ \A k \in Jobs : Answers(k)' # {} <=> Answers(k) # {} /\ k # j
         /\ \A k \in Jobs : \A i, n \in Answers(k)' : i = n
         /\ \A q \in Pipelines : \A i \in DOMAIN results'[q] :
              \E n \in DOMAIN results[q] : results'[q][i] = results[q][n]
         /\ Len(results'[p]) = Len(results[p]) - 1 /\ Len(results[p]) \in Nat
<1> DEFINE s == results[p]
           t == Tail(s)
<1>1. s \in Seq(JobResult) /\ s # <<>>
  BY DEF TypeOK
<1>2. /\ Head(s) \in JobResult /\ Head(s) = s[1] /\ 1 \in DOMAIN s
      /\ t \in Seq(JobResult) /\ Len(t) = Len(s) - 1 /\ DOMAIN t = 1 .. (Len(s) - 1)
      /\ \A i \in DOMAIN t : i + 1 \in DOMAIN s /\ t[i] = s[i + 1]
  BY <1>1, Receive
<1>3. Len(s) \in Nat /\ DOMAIN s = 1 .. Len(s)
  BY <1>1
<1>4. results'[p] = t /\ \A q \in Pipelines : q # p => results'[q] = results[q]
  BY DEF TypeOK
<1>5. j \in Jobs /\ PipelineOf[j] = p /\ 1 \in Answers(j)
  BY <1>2 DEF Placement, Answers, JobResult
<1>6. j \in JobsOf(p) /\ sched[j] = "dispatched" /\ ~Unsent(j) /\ ~Held(j)
  BY <1>5 DEF Placement, AtMostOnce, JobsOf
<1>7. \A n \in Answers(j) : n = 1
  BY <1>5 DEF Placement, AtMostOnce
<1> HIDE DEF s, t
<1>8. ASSUME NEW k \in Jobs, PipelineOf[k] # p
      PROVE  Answers(k)' = Answers(k) /\ k # j
  BY <1>4, <1>5, <1>8, Validated DEF Answers
<1>9. ASSUME NEW k \in Jobs, PipelineOf[k] = p
      PROVE  /\ Answers(k) = {i \in DOMAIN s : s[i].job = k}
             /\ Answers(k)' = {i \in DOMAIN t : t[i].job = k}
  BY <1>4, <1>9 DEF Answers, s
<1>10. \A k \in Jobs : \A i \in Answers(k)' : PipelineOf[k] = p => i + 1 \in Answers(k) /\ i \in Nat \ {0}
  BY <1>2, <1>3, <1>9
<1>11. \A k \in Jobs : \A i, n \in Answers(k)' : i = n
  <2>1. TAKE k \in Jobs
  <2>2. CASE PipelineOf[k] = p
    BY <2>2, <1>10 DEF Placement, AtMostOnce
  <2>3. CASE PipelineOf[k] # p
    BY <2>3, <1>8 DEF Placement, AtMostOnce
  <2>4. QED BY <2>2, <2>3
<1>12. Answers(j)' = {}
  BY <1>5, <1>7, <1>10
<1>13. ASSUME NEW k \in Jobs, k # j, PipelineOf[k] = p, Answers(k) # {}
       PROVE  Answers(k)' # {}
  <2>1. PICK n \in DOMAIN s : s[n].job = k
    BY <1>9, <1>13
  <2>2. n # 1
    BY <1>2, <1>13, <2>1 DEF s
  <2>3. n - 1 \in DOMAIN t /\ n = (n - 1) + 1
    BY <1>2, <1>3, <2>2
  <2>4. t[n - 1].job = k
    BY <1>2, <2>1, <2>3
  <2>5. Answers(k)' = {i \in DOMAIN t : t[i].job = k}
    BY <1>9, <1>13
  <2>6. n - 1 \in Answers(k)'
    BY <2>3, <2>4, <2>5
  <2>7. QED BY <2>6
<1>14. \A k \in Jobs : Answers(k)' # {} <=> Answers(k) # {} /\ k # j
  BY <1>8, <1>10, <1>12, <1>13
<1>15. \A q \in Pipelines : \A i \in DOMAIN results'[q] :
         \E n \in DOMAIN results[q] : results'[q][i] = results[q][n]
  BY <1>2, <1>4 DEF s
<1>16. QED BY <1>2, <1>3, <1>4, <1>5, <1>6, <1>11, <1>14, <1>15 DEF s, t

-----------------------------------------------------------------------------
(* What the inductive invariant implies. *)

\* A dependency that is not missing has been completed, hence has succeeded.
LEMMA InvDepsSucceeded == IInv => DepsSucceeded
<1> SUFFICES ASSUME IInv, NEW j \in Jobs, job[j] # "waiting", NEW d \in Deps[j]
             PROVE  job[d] = "succeeded"
  BY DEF DepsSucceeded
<1>1. d \in Jobs
  BY Validated
<1>2. sched[j] # "waiting"
  BY DEF IInv, JobView
<1>3. sched[d] = "completed"
  BY <1>2 DEF IInv, Kahn, Missing
<1>4. QED BY <1>1, <1>3 DEF IInv, JobView

\* When the counters agree, no job of the pipeline is dispatched and open.
LEMMA DoneMeansNoneOpen ==
  ASSUME IInv, NEW p \in Pipelines, SchedulerDone(p), NEW j \in JobsOf(p)
  PROVE  sched[j] # "dispatched"
<1>1. Processed(p) \in SUBSET Dispatched(p) /\ IsFiniteSet(Dispatched(p))
  BY FiniteJobs DEF Processed, Dispatched, JobsOf
<1>2. Cardinality(Processed(p)) = Cardinality(Dispatched(p))
  BY DEF IInv, Counting, SchedulerDone
<1>3. Processed(p) = Dispatched(p)
  BY <1>1, <1>2, FS_Subset
<1>4. QED BY <1>3 DEF Processed, Dispatched

\* The counters and the placement of the jobs leave nothing behind when done is closed.
LEMMA InvQuiescent == IInv => Quiescent
<1> SUFFICES ASSUME IInv, NEW p \in Pipelines, phase[p] = "closed", err[p] # "panic",
                    NEW j \in JobsOf(p)
             PROVE  ~Unsent(j) /\ ~Held(j) /\ Answers(j) = {}
  BY DEF Quiescent
<1>1. sched[j] # "dispatched"
  BY DoneMeansNoneOpen DEF IInv, Honest
<1>2. QED BY <1>1 DEF IInv, Placement, JobsOf

\* If no job failed, the jobs left waiting would each wait for another of
\* them, which a validated pipeline excludes.
LEMMA NoneLeftWaiting ==
  ASSUME IInv, NEW p \in Pipelines, phase[p] = "closed", err[p] = "nil",
         NEW j \in JobsOf(p)
  PROVE  sched[j] = "completed"
<1> DEFINE W == {k \in JobsOf(p) : sched[k] = "waiting"}
<1>1. \A k \in JobsOf(p) : sched[k] \in {"waiting", "completed"}
  BY DoneMeansNoneOpen DEF IInv, TypeOK, Honest, JobsOf
<1>2. ASSUME W # {} PROVE FALSE
  <2>1. W \in SUBSET Jobs
    BY DEF JobsOf
  <2>2. PICK k \in W : Deps[k] \cap W = {}
    BY <1>2, <2>1, Validated
  <2>3. Deps[k] \subseteq JobsOf(p)
    BY <2>2, Validated DEF JobsOf
  <2>4. Missing(k) = {}
    BY <1>1, <2>2, <2>3 DEF Missing
  <2>5. QED BY <2>2, <2>4 DEF IInv, Kahn, JobsOf
<1>3. QED BY <1>1, <1>2

\* Kahn's algorithm reaches every job unless one has failed.
LEMMA InvVerdict == IInv => Verdict
<1> SUFFICES ASSUME IInv, NEW p \in Pipelines, phase[p] = "closed"
             PROVE  err[p] = "nil" <=> \A j \in JobsOf(p) : job[j] = "succeeded"
  BY DEF Verdict
<1>1. ASSUME err[p] = "nil", NEW j \in JobsOf(p)
      PROVE  job[j] = "succeeded"
  <2>1. sched[j] = "completed"
    BY <1>1, NoneLeftWaiting
  <2>2. QED BY <2>1 DEF IInv, JobView, JobsOf
<1>2. ASSUME err[p] # "nil"
      PROVE  \E j \in JobsOf(p) : job[j] # "succeeded"
  <2>1. CASE err[p] = "panic"
    <3>1. PICK j \in JobsOf(p) : j \in sending[p]
      BY <2>1 DEF IInv, Honest, Placement
    <3>2. job[j] = "waiting"
      BY <3>1 DEF IInv, JobView, Unsent, JobsOf
    <3>3. QED BY <3>2
  <2>2. CASE err[p] \in {"cancelled", "failed"}
    <3>1. PICK j \in JobsOf(p) : job[j] = "failed"
      BY <2>2 DEF IInv, Honest
    <3>2. QED BY <3>1
  <2>3. QED BY <1>2, <2>1, <2>2 DEF IInv, TypeOK
<1>3. QED BY <1>1, <1>2

\* A job with a worker is not answered, so a slot of the channel is left.
LEMMA InvPostNeverBlocks == IInv => PostNeverBlocks
<1> SUFFICES ASSUME IInv, NEW w \in Workers, stage[w] = "posting"
             PROVE  Len(results[PipelineOf[held[w]]]) < Capacity(PipelineOf[held[w]])
  BY DEF PostNeverBlocks
<1> DEFINE j == held[w]
           p == PipelineOf[j]
<1>0. j \in Jobs
  BY BusyHolds DEF IInv
<1>1. j \in Jobs /\ Held(j) /\ p \in Pipelines
  BY <1>0, Validated DEF Held
<1>2. Answers(j) = {}
  BY <1>1 DEF IInv, Placement, AtMostOnce
<1>3. Answered(p) \in SUBSET (JobsOf(p) \ {j}) /\ j \in JobsOf(p)
  BY <1>1, <1>2 DEF Answered, JobsOf
<1>4. IsFiniteSet(JobsOf(p)) /\ Cardinality(JobsOf(p)) \in Nat
  BY FiniteJobs DEF JobsOf
<1>5. /\ IsFiniteSet(JobsOf(p) \ {j})
      /\ Cardinality(JobsOf(p) \ {j}) = Cardinality(JobsOf(p)) - 1
  BY <1>3, <1>4, FS_RemoveElement
<1>6. Cardinality(Answered(p)) <= Cardinality(JobsOf(p) \ {j})
  BY <1>3, <1>5, FS_Subset
<1>7. Cardinality(Answered(p)) \in Nat
  BY FiniteJobs DEF Answered, JobsOf
<1>8. Len(results[p]) = Cardinality(Answered(p))
  BY <1>1 DEF IInv, Counting
<1>9. QED BY <1>4, <1>5, <1>6, <1>7, <1>8 DEF Capacity

-----------------------------------------------------------------------------
(* The parts of the invariant that a step leaves alone. *)

\* Placement depends only on the queue, the workers, the channels and the scheduler.
LEMMA PlacementFrame ==
  Placement /\ UNCHANGED <<sending, held, results, sched>> => Placement'
BY DEF Placement, AtMostOnce, Unsent, Held, Answers, JobsOf

\* JobView depends on these and on what was executed.
LEMMA JobViewFrame ==
  JobView /\ UNCHANGED <<sched, sending, job, stage, held, answer, results>> => JobView'
BY DEF JobView, Unsent

\* Kahn depends on the scheduler and on the phases.
LEMMA KahnFrame ==
  Kahn /\ UNCHANGED <<indegree, sched, phase>> => Kahn'
BY DEF Kahn, Missing

\* Counting depends on the scheduler's counters and on the channels.
LEMMA CountingFrame ==
  Counting /\ UNCHANGED <<processed, dispatched, results, sched>> => Counting'
<1> SUFFICES ASSUME Counting, UNCHANGED <<processed, dispatched, results, sched>>
             PROVE  Counting'
  OBVIOUS
<1>1. \A p \in Pipelines : /\ Processed(p)' = Processed(p)
                           /\ Dispatched(p)' = Dispatched(p)
                           /\ Answered(p)' = Answered(p)
  BY DEF Processed, Dispatched, Answered, Answers, JobsOf
<1>2. QED BY <1>1 DEF Counting

\* Honest depends on errors, phases, jobs and the scheduler.
LEMMA HonestFrame ==
  Honest /\ UNCHANGED <<err, sched, job, phase, sending, processed, dispatched>> => Honest'
BY DEF Honest, SchedulerDone, JobsOf

\* The inductive invariant holds of an executor without pipelines.
LEMMA InitInv == Init => IInv
<1> SUFFICES ASSUME Init PROVE IInv
  OBVIOUS
<1>1. TypeOK
  BY InitType
<1>2. \A j \in Jobs : Answers(j) = {} /\ ~Unsent(j) /\ ~Held(j)
  BY Validated DEF Init, Answers, Unsent, Held
<1>3. Placement
  BY <1>2, Validated DEF Init, Placement, AtMostOnce, Held
<1>4. JobView
  BY Validated DEF Init, JobView
<1>5. \A j \in Jobs : Missing(j) = Deps[j]
  BY Validated DEF Init, Missing
<1>6. Kahn
  BY <1>5, Validated DEF Init, Kahn
<1>7. \A p \in Pipelines : Processed(p) = {} /\ Dispatched(p) = {} /\ Answered(p) = {}
  BY <1>2 DEF Init, Processed, Dispatched, Answered, JobsOf
<1>8. Counting
  BY <1>7, FS_EmptySet DEF Init, Counting
<1>9. Honest
  BY DEF Init, Honest, JobsOf
<1>10. QED BY <1>1, <1>3, <1>4, <1>6, <1>8, <1>9 DEF IInv

\* Steps of the callers change nothing the invariant looks at, but for Submit.
LEMMA CallerInv ==
  ASSUME IInv, TypeOK',
         \/ \E p \in Pipelines : Submit(p) \/ Stop(p) \/ StopReturns(p)
         \/ CancelParent \/ Shutdown \/ ShutdownReturns \/ UNCHANGED vars
  PROVE  IInv'
<1> USE PlacementFrame, JobViewFrame, KahnFrame, CountingFrame, HonestFrame
    DEF IInv, schedVars, workerVars, callVars
<1>1. CASE \E p \in Pipelines : Submit(p)
  <2>1. PICK p \in Pipelines : Submit(p)
    BY <1>1
  <2>2. Kahn'
    BY <2>1, Validated DEF Submit, Kahn, Missing, TypeOK
  <2>3. Honest'
    BY <2>1 DEF Submit, Honest, SchedulerDone, JobsOf, TypeOK
  <2>4. QED BY <2>1, <2>2, <2>3 DEF Submit
<1>2. CASE \E p \in Pipelines : Stop(p) \/ StopReturns(p)
  BY <1>2 DEF Stop, StopReturns
<1>3. CASE CancelParent \/ Shutdown \/ ShutdownReturns \/ UNCHANGED vars
  BY <1>3 DEF CancelParent, Shutdown, ShutdownReturns, vars
<1>4. QED BY <1>1, <1>2, <1>3

-----------------------------------------------------------------------------
(* The steps of the workers. *)

\* A worker that moves its job on, from holding it to its answer.
LEMMA JobStep ==
  ASSUME IInv, TypeOK', NEW w \in Workers,
         stage[w] \in {"holding", "opening", "executing"},
         UNCHANGED <<phase, err, results, indegree, processed, dispatched, sched, sending, held>>,
         NEW s \in {"opening", "executing", "posting"}, stage' = [stage EXCEPT ![w] = s],
         \A v \in Workers : v # w => answer'[v] = answer[v],
         NEW o \in {"admitted", "executing", "succeeded", "failed"},
         job' = [job EXCEPT ![held[w]] = o],
         s = "opening" => o = "admitted",
         s = "executing" => o = "executing",
         s = "posting" => o = IF answer'[w] = "nil" THEN "succeeded" ELSE "failed"
  PROVE  IInv'
<1> USE DEF IInv
<1>1. held[w] \in Jobs /\ Held(held[w])
  BY BusyHolds DEF Held
<1>2. \A v \in Workers : v # w => held[v] # held[w]
  BY <1>1 DEF Placement, AtMostOnce
<1>3. /\ sched[held[w]] = "dispatched" /\ ~Unsent(held[w]) /\ Answers(held[w]) = {}
      /\ job[held[w]] \in {"waiting", "admitted", "executing"}
  BY <1>1 DEF Placement, AtMostOnce, JobView
<1>4. \A p \in Pipelines : \A i \in DOMAIN results[p] : results[p][i].job # held[w]
  BY <1>1, <1>3 DEF Placement, Answers
<1>5. \A k \in Jobs : k # held[w] => job'[k] = job[k]
  BY <1>1 DEF TypeOK
<1>6. job'[held[w]] = o /\ stage'[w] = s
  BY <1>1 DEF TypeOK
<1>7. \A v \in Workers : v # w => stage'[v] = stage[v]
  BY DEF TypeOK
<1>8. JobView'
  <2>1. \A j \in Jobs : sched'[j] = "waiting" \/ Unsent(j)' => job'[j] = "waiting"
    BY <1>3, <1>5 DEF JobView, Unsent
  <2>2. \A v \in Workers :
          /\ stage'[v] = "holding" => job'[held'[v]] = "waiting"
          /\ stage'[v] = "opening" => job'[held'[v]] = "admitted"
          /\ stage'[v] = "executing" => job'[held'[v]] = "executing"
          /\ stage'[v] = "posting" =>
               job'[held'[v]] = IF answer'[v] = "nil" THEN "succeeded" ELSE "failed"
    <3>1. TAKE v \in Workers
    <3>2. CASE v = w
      BY <3>2, <1>6
    <3>3. CASE v # w /\ held[v] \in Jobs
      BY <3>3, <1>2, <1>5, <1>7 DEF JobView
    <3>4. CASE v # w /\ held[v] = NoJob
      BY <3>4, <1>7 DEF TypeOK
    <3>5. QED BY <3>2, <3>3, <3>4 DEF TypeOK
  <2>3. \A p \in Pipelines : \A i \in DOMAIN results'[p] :
          job'[results'[p][i].job] =
            IF results'[p][i].err = "nil" THEN "succeeded" ELSE "failed"
    <3>1. TAKE p \in Pipelines
    <3>2. TAKE i \in DOMAIN results'[p]
    <3>3. results[p] \in Seq(JobResult) /\ i \in 1 .. Len(results[p])
      BY DEF TypeOK
    <3>4. results[p][i] \in JobResult
      BY <3>3
    <3>5. results[p][i].job \in Jobs
      BY <3>4 DEF JobResult
    <3>6. QED BY <1>4, <1>5, <3>3, <3>5 DEF JobView
  <2>4. \A j \in Jobs : sched'[j] \in {"completed", "failed"} => job'[j] = job[j]
    BY <1>3, <1>5
  <2>5. QED BY <2>1, <2>2, <2>3, <2>4 DEF JobView
<1>9. Honest'
  BY <1>3, <1>5 DEF Honest, SchedulerDone, JobsOf
<1>10. QED BY <1>8, <1>9, PlacementFrame, KahnFrame, CountingFrame

\* Every step of a worker keeps the inductive invariant.
LEMMA WorkerInv ==
  ASSUME IInv, TypeOK', NEW w \in Workers, Worker(w) \/ ExecuteReturns(w)
  PROVE  IInv'
<1> USE DEF IInv
<1>1. CASE Refuse(w) \/ LogsFail(w)
  <2>1. PICK e \in {"cancelled", "failed"} : answer' = [answer EXCEPT ![w] = e]
    BY <1>1 DEF Refuse, LogsFail
  <2>2. answer'[w] = e /\ \A v \in Workers : v # w => answer'[v] = answer[v]
    BY <2>1 DEF TypeOK
  <2>3. /\ stage[w] \in {"holding", "opening"}
        /\ UNCHANGED <<phase, err, results, indegree, processed, dispatched, sched, sending, held>>
        /\ stage' = [stage EXCEPT ![w] = "posting"]
        /\ job' = [job EXCEPT ![held[w]] = "failed"]
    BY <1>1 DEF Refuse, LogsFail, schedVars
  <2>4. QED BY <2>2, <2>3, JobStep
<1>a. CASE Admit(w)
  <2>1. /\ stage[w] = "holding"
        /\ UNCHANGED <<phase, err, results, indegree, processed, dispatched, sched, sending, held>>
        /\ stage' = [stage EXCEPT ![w] = "opening"]
        /\ job' = [job EXCEPT ![held[w]] = "admitted"]
        /\ answer' = answer
    BY <1>a DEF Admit, schedVars
  <2>2. QED BY <2>1, JobStep
<1>2. CASE Execute(w)
  <2>1. /\ stage[w] = "opening"
        /\ UNCHANGED <<phase, err, results, indegree, processed, dispatched, sched, sending, held>>
        /\ stage' = [stage EXCEPT ![w] = "executing"]
        /\ job' = [job EXCEPT ![held[w]] = "executing"]
        /\ answer' = answer
    BY <1>2 DEF Execute, schedVars
  <2>2. QED BY <2>1, JobStep
<1>3. CASE ExecuteReturns(w)
  <2>1. PICK e \in {"nil", "failed"} :
          /\ answer' = [answer EXCEPT ![w] = e]
          /\ job' = [job EXCEPT ![held[w]] = IF e = "nil" THEN "succeeded" ELSE "failed"]
    BY <1>3 DEF ExecuteReturns
  <2>2. answer'[w] = e /\ \A v \in Workers : v # w => answer'[v] = answer[v]
    BY <2>1 DEF TypeOK
  <2>3. /\ stage[w] = "executing"
        /\ UNCHANGED <<phase, err, results, indegree, processed, dispatched, sched, sending, held>>
        /\ stage' = [stage EXCEPT ![w] = "posting"]
    BY <1>3 DEF ExecuteReturns, schedVars
  <2>4. CASE e = "nil" BY <2>1, <2>2, <2>3, <2>4, JobStep
  <2>5. CASE e = "failed" BY <2>1, <2>2, <2>3, <2>5, JobStep
  <2>6. QED BY <2>4, <2>5
<1>4. CASE Exit(w)
  <2>1. stage' = [stage EXCEPT ![w] = "exited"] /\ stage[w] = "idle"
    BY <1>4 DEF Exit
  <2>2. \A v \in Workers : stage'[v] # "exited" => stage'[v] = stage[v]
    BY <2>1 DEF TypeOK
  <2>3. JobView'
    BY <1>4, <2>2 DEF Exit, JobView, Unsent, schedVars
  <2>4. QED
    BY <1>4, <2>3, PlacementFrame, KahnFrame, CountingFrame, HonestFrame DEF Exit, schedVars
<1>5. CASE Post(w)
  <2>0. stage[w] = "posting"
    BY <1>5 DEF Post
  <2>1. PICK j \in Jobs : j = held[w]
    BY <2>0, BusyHolds
  <2>2. PICK p \in Pipelines : p = PipelineOf[j]
    BY <2>1, Validated
  <2> DEFINE r == [job |-> j, err |-> answer[w]]
             s == results[p]
             t == Append(s, r)
  <2>2a. r \in JobResult
    BY DEF TypeOK, JobResult
  <2>3. s \in Seq(JobResult) /\ Len(s) \in Nat /\ DOMAIN s = 1 .. Len(s)
    BY <2>2 DEF TypeOK
  <2>4. /\ Len(t) = Len(s) + 1 /\ DOMAIN t = 1 .. (Len(s) + 1)
        /\ \A i \in DOMAIN s : i \in DOMAIN t /\ t[i] = s[i]
        /\ t[Len(s) + 1] = r
    BY <2>2a, <2>3, Send
  <2>5. /\ results' = [results EXCEPT ![p] = t]
        /\ stage' = [stage EXCEPT ![w] = "idle"]
        /\ held' = [held EXCEPT ![w] = NoJob]
        /\ UNCHANGED <<phase, err, indegree, processed, dispatched, sched, sending, answer, job>>
    BY <1>5, <2>1, <2>2 DEF Post, schedVars
  <2>6. results'[p] = t /\ \A q \in Pipelines : q # p => results'[q] = results[q]
    BY <2>2, <2>5 DEF TypeOK
  <2>7. Held(j) /\ sched[j] = "dispatched" /\ ~Unsent(j) /\ Answers(j) = {}
    BY <2>1 DEF Held, Placement, AtMostOnce
  <2>8. held'[w] = NoJob /\ \A v \in Workers : v # w => held'[v] = held[v] /\ held[v] # j
    BY <2>1, <2>5 DEF TypeOK, Placement, AtMostOnce
  <2> HIDE DEF t, r, s
  <2>9. Answers(j)' = {Len(s) + 1}
    <3>1. Answers(j)' = {i \in DOMAIN t : t[i].job = j}
      BY <2>2, <2>6 DEF Answers
    <3>2. \A i \in DOMAIN s : s[i].job # j
      BY <2>2, <2>7 DEF Answers, s
    <3>3. r.job = j
      BY DEF r
    <3>4. QED BY <2>3, <2>4, <3>1, <3>2, <3>3
  <2>10. ASSUME NEW k \in Jobs, k # j PROVE Answers(k)' = Answers(k)
    <3>1. CASE PipelineOf[k] # p
      BY <3>1, <2>6, Validated DEF Answers
    <3>2. CASE PipelineOf[k] = p
      <4>1. Answers(k) = {i \in DOMAIN s : s[i].job = k}
        BY <3>2 DEF Answers, s
      <4>2. Answers(k)' = {i \in DOMAIN t : t[i].job = k}
        BY <3>2, <2>6 DEF Answers
      <4>3. r.job = j
        BY DEF r
      <4>4. QED BY <2>3, <2>4, <2>10, <4>1, <4>2, <4>3
    <3>3. QED BY <3>1, <3>2
  <2>11. ~Held(j)' /\ \A k \in Jobs : k # j => (Held(k)' <=> Held(k))
    BY <2>1, <2>8, Validated DEF Held
  <2>12. \A k \in Jobs : Unsent(k)' = Unsent(k)
    BY <2>5 DEF Unsent
  <2>13. \A q \in Pipelines : \A i \in DOMAIN results'[q] :
           \/ i \in DOMAIN results[q] /\ results'[q][i] = results[q][i]
           \/ q = p /\ results'[q][i] = r
    BY <2>3, <2>4, <2>6 DEF s
  <2>14. Placement'
    <3>1. \A k \in Jobs : \A u, v \in Workers : held'[u] = k /\ held'[v] = k => u = v
      BY <2>8, Validated DEF Placement, AtMostOnce
    <3>2. \A k \in Jobs : \A i, n \in Answers(k)' : i = n
      BY <2>9, <2>10 DEF Placement, AtMostOnce
    <3>3. AtMostOnce'
      BY <2>7, <2>9, <2>10, <2>11, <2>12, <3>1, <3>2 DEF Placement, AtMostOnce
    <3>4. \A k \in Jobs : sched'[k] = "dispatched" <=> Unsent(k)' \/ Held(k)' \/ Answers(k)' # {}
      BY <2>5, <2>7, <2>9, <2>10, <2>11, <2>12 DEF Placement
    <3>5. \A q \in Pipelines : \A i \in DOMAIN results'[q] : PipelineOf[results'[q][i].job] = q
      BY <2>2, <2>13 DEF Placement, r
    <3>6. QED BY <2>5, <3>3, <3>4, <3>5 DEF Placement, JobsOf
  <2>15. JobView'
    <3>1. \A v \in Workers : stage'[v] # "idle" => stage'[v] = stage[v] /\ held'[v] = held[v]
      BY <2>5 DEF TypeOK
    <3>2. job[j] = IF answer[w] = "nil" THEN "succeeded" ELSE "failed"
      BY <2>0, <2>1 DEF JobView
    <3>3. job[r.job] = IF r.err = "nil" THEN "succeeded" ELSE "failed"
      BY <3>2 DEF r
    <3>4. \A q \in Pipelines : \A i \in DOMAIN results'[q] :
            job'[results'[q][i].job] =
              IF results'[q][i].err = "nil" THEN "succeeded" ELSE "failed"
      BY <2>5, <2>13, <3>3 DEF JobView
    <3>5. \A v \in Workers :
            /\ stage'[v] = "holding" => job'[held'[v]] = "waiting"
            /\ stage'[v] = "opening" => job'[held'[v]] = "admitted"
            /\ stage'[v] = "executing" => job'[held'[v]] = "executing"
            /\ stage'[v] = "posting" =>
                 job'[held'[v]] = IF answer'[v] = "nil" THEN "succeeded" ELSE "failed"
      BY <2>5, <3>1 DEF JobView
    <3>6. QED BY <2>5, <2>12, <3>4, <3>5 DEF JobView
  <2>16. Counting'
    <3>1. Answered(p)' = Answered(p) \cup {j} /\ j \notin Answered(p)
      BY <2>1, <2>2, <2>7, <2>9, <2>10 DEF Answered, JobsOf
    <3>2. \A q \in Pipelines : q # p => Answered(q)' = Answered(q)
      BY <2>1, <2>2, <2>10 DEF Answered, JobsOf
    <3>3. IsFiniteSet(Answered(p)) /\ Cardinality(Answered(p)) \in Nat
      BY FiniteJobs DEF Answered, JobsOf
    <3>4. Cardinality(Answered(p)') = Cardinality(Answered(p)) + 1
      BY <3>1, <3>3, FS_AddElement
    <3>5. \A q \in Pipelines : Len(results'[q]) = Cardinality(Answered(q)')
      BY <2>3, <2>4, <2>6, <3>2, <3>4 DEF Counting, s
    <3>6. \A q \in Pipelines : Processed(q)' = Processed(q) /\ Dispatched(q)' = Dispatched(q)
      BY <2>5 DEF Processed, Dispatched, JobsOf
    <3>7. QED BY <2>5, <3>5, <3>6 DEF Counting
  <2>17. QED BY <2>5, <2>14, <2>15, <2>16, KahnFrame, HonestFrame
<1>6. QED BY <1>1, <1>a, <1>2, <1>3, <1>4, <1>5 DEF Worker

-----------------------------------------------------------------------------
(* The steps of a runtime's goroutine. *)

\* Start dispatches the jobs without dependencies; none was placed before.
LEMMA StartInv ==
  ASSUME IInv, TypeOK', NEW p \in Pipelines, Start(p)
  PROVE  IInv'
<1> USE DEF IInv
<1> DEFINE R == ReadyJobs(p)
<1>1. /\ phase[p] = "submitted" /\ phase' = [phase EXCEPT ![p] = "running"]
      /\ sending' = [sending EXCEPT ![p] = R]
      /\ dispatched' = [dispatched EXCEPT ![p] = @ + Cardinality(R)]
      /\ sched' = [j \in Jobs |-> IF j \in R THEN "dispatched" ELSE sched[j]]
      /\ UNCHANGED <<err, results, indegree, processed, held, stage, answer, job>>
  BY DEF Start, Hand, workerVars
<1>2. \A j \in JobsOf(p) : sched[j] = "waiting"
  BY <1>1 DEF Kahn, JobsOf
<1>3. \A j \in JobsOf(p) : ~Unsent(j) /\ ~Held(j) /\ Answers(j) = {}
  BY <1>2 DEF Placement, JobsOf
<1>4. R \subseteq JobsOf(p) /\ JobsOf(p) \subseteq Jobs
  BY DEF ReadyJobs, JobsOf
<1>5. \A j \in JobsOf(p) : IsFiniteSet(Missing(j)) /\ indegree[j] = Cardinality(Missing(j))
  BY <1>4, FiniteJobs, Validated DEF Missing, Kahn
<1>6. \A j \in JobsOf(p) : j \in R <=> Missing(j) = {}
  BY <1>5, FS_EmptySet DEF ReadyJobs
<1>7. sending'[p] = R /\ \A q \in Pipelines : q # p => sending'[q] = sending[q]
  BY <1>1 DEF TypeOK
<1>8. phase'[p] = "running" /\ \A q \in Pipelines : q # p => phase'[q] = phase[q]
  BY <1>1 DEF TypeOK
<1> HIDE DEF R
<1>9. \A j \in Jobs : Held(j)' = Held(j) /\ Answers(j)' = Answers(j)
  BY <1>1 DEF Held, Answers
<1>10. \A j \in Jobs : Unsent(j)' <=> Unsent(j) \/ j \in R
  BY <1>3, <1>4, <1>7, Validated DEF Unsent, JobsOf
<1>11. \A j \in Jobs : sched'[j] = IF j \in R THEN "dispatched" ELSE sched[j]
  BY <1>1
<1>12. Placement'
  <2>1. AtMostOnce'
    BY <1>1, <1>3, <1>4, <1>9, <1>10 DEF Placement, AtMostOnce
  <2>2. \A j \in Jobs : sched'[j] = "dispatched" <=> Unsent(j)' \/ Held(j)' \/ Answers(j)' # {}
    BY <1>9, <1>10, <1>11 DEF Placement
  <2>3. \A q \in Pipelines : sending'[q] \subseteq JobsOf(q)'
    BY <1>4, <1>7 DEF Placement, JobsOf
  <2>4. QED BY <1>1, <2>1, <2>2, <2>3 DEF Placement
<1>13. JobView'
  <2>1. \A j \in Jobs : sched'[j] = "waiting" \/ Unsent(j)' => job'[j] = "waiting"
    BY <1>1, <1>2, <1>4, <1>10, <1>11 DEF JobView
  <2>2. QED BY <1>1, <1>11, <2>1 DEF JobView
<1>14. \A j \in Jobs : sched'[j] = "completed" <=> sched[j] = "completed"
  BY <1>2, <1>4, <1>11
<1>15. \A j \in Jobs : Missing(j)' = Missing(j)
  BY <1>14, Validated DEF Missing
<1>16. Kahn'
  <2>1. \A j \in Jobs : sched'[j] # "waiting" => Missing(j)' = {}
    BY <1>4, <1>6, <1>11, <1>15 DEF Kahn
  <2>2. \A j \in Jobs : sched'[j] = "waiting" /\ phase'[PipelineOf[j]] \in {"running", "closed"}
          => Missing(j)' # {}
    BY <1>6, <1>8, <1>11, <1>15, Validated DEF Kahn, JobsOf
  <2>3. \A j \in Jobs : phase'[PipelineOf[j]] \in {"absent", "submitted"} => sched'[j] = "waiting"
    BY <1>4, <1>8, <1>11, Validated DEF Kahn, JobsOf
  <2>4. QED BY <1>1, <1>15, <2>1, <2>2, <2>3 DEF Kahn
<1>17. Counting'
  <2>1. Dispatched(p) = {} /\ Dispatched(p)' = R
    BY <1>2, <1>4, <1>11 DEF Dispatched, JobsOf
  <2>2. \A q \in Pipelines : q # p => Dispatched(q)' = Dispatched(q)
    BY <1>4, <1>11 DEF Dispatched, JobsOf
  <2>3. \A q \in Pipelines : Processed(q)' = Processed(q) /\ Answered(q)' = Answered(q)
    BY <1>2, <1>4, <1>9, <1>11 DEF Processed, Answered, JobsOf
  <2>4. Cardinality(R) \in Nat /\ dispatched[p] = 0
    BY <1>4, <2>1, FiniteJobs, FS_EmptySet DEF Counting
  <2>5. dispatched'[p] = Cardinality(R) /\ \A q \in Pipelines : q # p => dispatched'[q] = dispatched[q]
    BY <1>1, <2>4 DEF TypeOK
  <2>6. QED BY <1>1, <2>1, <2>2, <2>3, <2>5 DEF Counting
<1>18. Honest'
  <2>1. \A j \in Jobs : sched'[j] = "failed" <=> sched[j] = "failed"
    BY <1>2, <1>4, <1>11
  <2>2. err[p] # "panic"
    BY <1>1 DEF Honest
  <2>3. \A q \in Pipelines : q # p =>
          dispatched'[q] = dispatched[q] /\ (SchedulerDone(q)' <=> SchedulerDone(q))
    BY <1>1 DEF TypeOK, SchedulerDone
  <2>4. QED BY <1>1, <1>7, <1>8, <2>1, <2>2, <2>3 DEF Honest, JobsOf
<1>19. QED BY <1>12, <1>13, <1>16, <1>17, <1>18

\* A send moves the job from the slice to an idle worker.
LEMMA DispatchInv ==
  ASSUME IInv, TypeOK', NEW p \in Pipelines, NEW j \in Jobs, NEW w \in Workers,
         Dispatch(p, j, w)
  PROVE  IInv'
<1> USE DEF IInv
<1>1. /\ phase[p] = "running" /\ j \in sending[p] /\ stage[w] = "idle"
      /\ sending' = [sending EXCEPT ![p] = @ \ {j}]
      /\ stage' = [stage EXCEPT ![w] = "holding"]
      /\ held' = [held EXCEPT ![w] = j]
      /\ UNCHANGED <<phase, err, results, indegree, processed, dispatched, sched, answer, job>>
  BY DEF Dispatch
<1>2. PipelineOf[j] = p /\ Unsent(j)
  BY <1>1 DEF Placement, JobsOf, Unsent
<1>3. ~Held(j) /\ Answers(j) = {} /\ sched[j] = "dispatched" /\ job[j] = "waiting"
  BY <1>2 DEF Placement, AtMostOnce, JobView
<1>4. held[w] = NoJob /\ held'[w] = j /\ \A v \in Workers : v # w => held'[v] = held[v]
  BY <1>1 DEF TypeOK
<1>5. Held(j)' /\ \A k \in Jobs : k # j => (Held(k)' <=> Held(k))
  BY <1>4, Validated DEF Held
<1>6. sending'[p] = sending[p] \ {j} /\ \A q \in Pipelines : q # p => sending'[q] = sending[q]
  BY <1>1 DEF TypeOK
<1>7. \A k \in Jobs : Unsent(k)' <=> Unsent(k) /\ k # j
  BY <1>2, <1>6, Validated DEF Unsent
<1>8. \A k \in Jobs : Answers(k)' = Answers(k)
  BY <1>1 DEF Answers
<1>9. Placement'
  <2>1. \A k \in Jobs : \A u, v \in Workers : held'[u] = k /\ held'[v] = k => u = v
    BY <1>3, <1>4 DEF Placement, AtMostOnce, Held
  <2>2. AtMostOnce'
    BY <1>3, <1>5, <1>7, <1>8, <2>1 DEF Placement, AtMostOnce
  <2>3. \A k \in Jobs : sched'[k] = "dispatched" <=> Unsent(k)' \/ Held(k)' \/ Answers(k)' # {}
    BY <1>1, <1>3, <1>5, <1>7, <1>8 DEF Placement
  <2>4. \A q \in Pipelines : sending'[q] \subseteq JobsOf(q)'
    BY <1>6 DEF Placement, JobsOf
  <2>5. QED BY <1>1, <2>2, <2>3, <2>4 DEF Placement
<1>10. JobView'
  <2>1. \A v \in Workers :
          /\ stage'[v] = "holding" => job'[held'[v]] = "waiting"
          /\ stage'[v] = "opening" => job'[held'[v]] = "admitted"
          /\ stage'[v] = "executing" => job'[held'[v]] = "executing"
          /\ stage'[v] = "posting" =>
               job'[held'[v]] = IF answer'[v] = "nil" THEN "succeeded" ELSE "failed"
    <3>1. TAKE v \in Workers
    <3>2. stage'[w] = "holding" /\ (v # w => stage'[v] = stage[v])
      BY <1>1 DEF TypeOK
    <3>3. QED BY <1>1, <1>3, <1>4, <3>2 DEF JobView
  <2>2. QED BY <1>1, <1>7, <2>1 DEF JobView
<1>11. Honest'
  <2>1. err[p] # "panic"
    BY <1>1 DEF Honest
  <2>2. QED BY <1>1, <1>6, <2>1 DEF Honest, SchedulerDone, JobsOf
<1>12. QED BY <1>1, <1>9, <1>10, <1>11, KahnFrame, CountingFrame

\* The end of start, by its loop or by a panic, is the end of a running phase.
LEMMA EndInv ==
  ASSUME IInv, TypeOK', NEW p \in Pipelines, PanicSend(p) \/ Close(p)
  PROVE  IInv'
<1> USE DEF IInv
<1>1. /\ phase[p] = "running" /\ phase' = [phase EXCEPT ![p] = "closed"]
      /\ UNCHANGED <<results, indegree, processed, dispatched, sched, sending,
                     held, stage, answer, job>>
      /\ \/ err' = [err EXCEPT ![p] = "panic"] /\ sending[p] # {}
         \/ err' = err /\ SchedulerDone(p)
  BY DEF PanicSend, Close, schedVars, workerVars
<1>2. phase'[p] = "closed" /\ \A q \in Pipelines : q # p => phase'[q] = phase[q]
  BY <1>1 DEF TypeOK
<1>3. Kahn'
  <2>1. \A j \in Jobs : Missing(j)' = Missing(j)
    BY <1>1 DEF Missing
  <2>2. QED BY <1>1, <1>2, <2>1, Validated DEF Kahn
<1>4. Honest'
  <2>1. CASE err' = [err EXCEPT ![p] = "panic"] /\ sending[p] # {}
    <3>1. err'[p] = "panic" /\ \A q \in Pipelines : q # p => err'[q] = err[q]
      BY <2>1 DEF TypeOK
    <3>2. QED BY <1>1, <1>2, <2>1, <3>1 DEF Honest, SchedulerDone, JobsOf
  <2>2. CASE err' = err /\ SchedulerDone(p)
    BY <1>1, <1>2, <2>2 DEF Honest, SchedulerDone, JobsOf
  <2>3. QED BY <1>1, <2>1, <2>2
<1>5. QED BY <1>1, <1>3, <1>4, PlacementFrame, JobViewFrame, CountingFrame

\* The first and every later error, and the answers drained after it: the job
\* is counted as processed and stays out of the completed ones.
LEMMA ReceiveFailedInv ==
  ASSUME IInv, TypeOK', NEW p \in Pipelines, ReceiveError(p) \/ ReceiveDrained(p)
  PROVE  IInv'
<1> USE DEF IInv
<1>1. PICK j : j = Head(results[p]).job
  OBVIOUS
<1>2. /\ phase[p] = "running" /\ results[p] # <<>>
      /\ results' = [results EXCEPT ![p] = Tail(@)]
      /\ processed' = [processed EXCEPT ![p] = @ + 1]
      /\ sched' = [sched EXCEPT ![j] = "failed"]
      /\ UNCHANGED <<phase, indegree, dispatched, sending, held, stage, answer, job>>
  BY <1>1 DEF ReceiveError, ReceiveDrained, Receiving, Fail, workerVars
<1>3. \/ /\ Head(results[p]).err # "nil"
         /\ err' = [err EXCEPT ![p] = Head(results[p]).err]
      \/ err[p] # "nil" /\ err' = err
  BY DEF ReceiveError, ReceiveDrained
<1>4. /\ j \in JobsOf(p) /\ sched[j] = "dispatched" /\ ~Unsent(j) /\ ~Held(j)
      /\ 1 \in Answers(j) /\ results[p][1] = Head(results[p])
      /\ Head(results[p]) \in JobResult
      /\ \A k \in Jobs : Answers(k)' # {} <=> Answers(k) # {} /\ k # j
      /\ \A k \in Jobs : \A i, n \in Answers(k)' : i = n
      /\ \A q \in Pipelines : \A i \in DOMAIN results'[q] :
           \E n \in DOMAIN results[q] : results'[q][i] = results[q][n]
      /\ Len(results'[p]) = Len(results[p]) - 1 /\ Len(results[p]) \in Nat
  BY <1>1, <1>2, Received, ZenonT(30)
<1>5. j \in Jobs /\ PipelineOf[j] = p
  BY <1>4 DEF JobsOf
<1>6. \A k \in Jobs : sched'[k] = IF k = j THEN "failed" ELSE sched[k]
  BY <1>2, <1>5 DEF TypeOK
<1>7. \A k \in Jobs : Unsent(k)' = Unsent(k) /\ Held(k)' = Held(k)
  BY <1>2 DEF Unsent, Held
<1>8. job[j] = IF Head(results[p]).err = "nil" THEN "succeeded" ELSE "failed"
  <2>1. 1 \in DOMAIN results[p] /\ results[p][1].job = j
    BY <1>4, <1>5 DEF Answers
  <2>2. \A i \in DOMAIN results[p] :
          job[results[p][i].job] = IF results[p][i].err = "nil" THEN "succeeded" ELSE "failed"
    BY DEF JobView
  <2>3. QED BY <2>1, <2>2, <1>4
<1>9. Placement'
  <2>1. AtMostOnce'
    BY <1>2, <1>4, <1>7 DEF Placement, AtMostOnce
  <2>2. \A k \in Jobs : sched'[k] = "dispatched" <=> Unsent(k)' \/ Held(k)' \/ Answers(k)' # {}
    BY <1>4, <1>6, <1>7 DEF Placement
  <2>3. \A q \in Pipelines : \A i \in DOMAIN results'[q] : PipelineOf[results'[q][i].job] = q
    BY <1>4 DEF Placement
  <2>4. QED BY <1>2, <2>1, <2>2, <2>3 DEF Placement, JobsOf
<1>10. JobView'
  <2>1. \A k \in Jobs : sched'[k] = "waiting" \/ Unsent(k)' => job'[k] = "waiting"
    BY <1>2, <1>6, <1>7 DEF JobView
  <2>2. \A q \in Pipelines : \A i \in DOMAIN results'[q] :
          job'[results'[q][i].job] = IF results'[q][i].err = "nil" THEN "succeeded" ELSE "failed"
    BY <1>2, <1>4 DEF JobView
  <2>3. \A k \in Jobs : sched'[k] = "completed" => job'[k] = "succeeded"
    BY <1>2, <1>6 DEF JobView
  <2>4. \A k \in Jobs : sched'[k] = "failed" => job'[k] \in {"succeeded", "failed"}
    BY <1>2, <1>6, <1>8 DEF JobView
  <2>5. QED BY <1>2, <2>1, <2>2, <2>3, <2>4 DEF JobView
<1>11. Kahn'
  <2>1. \A k \in Jobs : Missing(k)' = Missing(k)
    BY <1>4, <1>6, Validated DEF Missing
  <2>2. \A k \in Jobs : sched'[k] = "waiting" <=> sched[k] = "waiting"
    BY <1>4, <1>6
  <2>3. QED BY <1>2, <2>1, <2>2 DEF Kahn
<1>12. Counting'
  <2>1. Processed(p)' = Processed(p) \cup {j} /\ j \notin Processed(p)
    BY <1>4, <1>6 DEF Processed, JobsOf
  <2>2. \A q \in Pipelines : q # p => Processed(q)' = Processed(q)
    BY <1>5, <1>6 DEF Processed, JobsOf
  <2>3. \A q \in Pipelines : Dispatched(q)' = Dispatched(q)
    BY <1>4, <1>6 DEF Dispatched, JobsOf
  <2>4. Answered(p)' = Answered(p) \ {j} /\ j \in Answered(p)
    BY <1>4 DEF Answered, JobsOf
  <2>5. \A q \in Pipelines : q # p => Answered(q)' = Answered(q)
    BY <1>4, <1>5 DEF Answered, JobsOf
  <2>6. IsFiniteSet(Processed(p)) /\ IsFiniteSet(Answered(p))
    BY FiniteJobs DEF Processed, Answered, JobsOf
  <2>7. Cardinality(Processed(p)') = processed[p] + 1
    BY <2>1, <2>6, FS_AddElement DEF Counting
  <2>8. Cardinality(Answered(p)') = Len(results[p]) - 1
    BY <2>4, <2>6, FS_RemoveElement DEF Counting
  <2>9. processed'[p] = processed[p] + 1 /\ \A q \in Pipelines : q # p =>
          processed'[q] = processed[q] /\ results'[q] = results[q]
    BY <1>2 DEF TypeOK
  <2>10. QED BY <1>2, <1>4, <2>2, <2>3, <2>5, <2>7, <2>8, <2>9 DEF Counting
<1>13. Honest'
  <2>1. err'[p] \in {"cancelled", "failed"} /\ \A q \in Pipelines : q # p => err'[q] = err[q]
    BY <1>2, <1>3, <1>4 DEF TypeOK, JobResult, Honest
  <2>2. \E k \in JobsOf(p) : job[k] = "failed"
    <3>1. CASE err[p] = "nil"
      <4>1. job[j] = "failed"
        BY <1>3, <1>8, <3>1
      <4>2. QED BY <1>4, <4>1
    <3>2. CASE err[p] # "nil"
      <4>1. err[p] \in {"cancelled", "failed"}
        BY <1>2, <3>2 DEF Honest, TypeOK
      <4>2. QED BY <4>1 DEF Honest
    <3>3. QED BY <3>1, <3>2
  <2>3. \A q \in Pipelines : q # p =>
          /\ \A k \in JobsOf(q) : sched'[k] = sched[k]
          /\ SchedulerDone(q)' <=> SchedulerDone(q)
    BY <1>2, <1>5, <1>6 DEF TypeOK, SchedulerDone, JobsOf
  <2>4. QED BY <1>2, <2>1, <2>2, <2>3 DEF Honest, JobsOf
<1>14. QED BY <1>9, <1>10, <1>11, <1>12, <1>13

\* A success releases the children that missed nothing else.  They were waiting,
\* and after it no other job is without missing dependencies.
LEMMA ReceiveSuccessInv ==
  ASSUME IInv, TypeOK', NEW p \in Pipelines, ReceiveSuccess(p)
  PROVE  IInv'
<1> USE DEF IInv
<1>1. PICK j : j = Head(results[p]).job
  OBVIOUS
<1>2. PICK N : N = Released(j)
  OBVIOUS
<1>3. /\ phase[p] = "running" /\ results[p] # <<>> /\ sending[p] = {}
      /\ Head(results[p]).err = "nil" /\ err[p] = "nil"
      /\ results' = [results EXCEPT ![p] = Tail(@)]
      /\ processed' = [processed EXCEPT ![p] = @ + 1]
      /\ indegree' = [c \in Jobs |-> IF c \in Children(j) THEN indegree[c] - 1 ELSE indegree[c]]
      /\ sending' = [sending EXCEPT ![p] = N]
      /\ dispatched' = [dispatched EXCEPT ![p] = @ + Cardinality(N)]
      /\ sched' = [c \in Jobs |-> IF c = j THEN "completed"
                                  ELSE IF c \in N THEN "dispatched" ELSE sched[c]]
      /\ UNCHANGED <<phase, err, held, stage, answer, job>>
  BY <1>1, <1>2 DEF ReceiveSuccess, Receiving, Complete, Hand, workerVars
<1>a. results[p] # <<>> /\ results' = [results EXCEPT ![p] = Tail(@)]
  BY <1>3
<1>4. /\ j \in JobsOf(p) /\ sched[j] = "dispatched" /\ ~Unsent(j) /\ ~Held(j)
      /\ 1 \in Answers(j) /\ results[p][1] = Head(results[p])
      /\ Head(results[p]) \in JobResult
      /\ \A k \in Jobs : Answers(k)' # {} <=> Answers(k) # {} /\ k # j
      /\ \A k \in Jobs : \A i, n \in Answers(k)' : i = n
      /\ \A q \in Pipelines : \A i \in DOMAIN results'[q] :
           \E n \in DOMAIN results[q] : results'[q][i] = results[q][n]
      /\ Len(results'[p]) = Len(results[p]) - 1 /\ Len(results[p]) \in Nat
  BY <1>1, <1>a, Received, ZenonT(30)
<1>5. j \in Jobs /\ PipelineOf[j] = p
  BY <1>4 DEF JobsOf
<1>6. job[j] = "succeeded"
  <2>1. 1 \in DOMAIN results[p] /\ results[p][1].job = j
    BY <1>4, <1>5 DEF Answers
  <2>2. \A i \in DOMAIN results[p] :
          job[results[p][i].job] = IF results[p][i].err = "nil" THEN "succeeded" ELSE "failed"
    BY DEF JobView
  <2>3. QED BY <2>1, <2>2, <1>3, <1>4
<1>7. \A c \in Jobs : IsFiniteSet(Missing(c)) /\ indegree[c] = Cardinality(Missing(c))
  BY FiniteJobs, Validated DEF Missing, Kahn
<1>8. \A c \in Jobs : c \in N <=> Missing(c) = {j}
  <2>1. TAKE c \in Jobs
  <2>2. CASE j \in Deps[c]
    <3>1. j \in Missing(c)
      BY <1>4, <2>2 DEF Missing
    <3>2. Cardinality(Missing(c)) = 1 <=> \E x : Missing(c) = {x}
      BY <1>7, FS_Singleton
    <3>3. c \in N <=> indegree[c] = 1
      BY <1>2, <2>2 DEF Released, Children
    <3>4. QED BY <1>7, <3>1, <3>2, <3>3
  <2>3. CASE j \notin Deps[c]
    BY <1>2, <2>3 DEF Released, Children, Missing
  <2>4. QED BY <2>2, <2>3
<1>9. \A c \in N : c \in JobsOf(p) /\ c # j /\ sched[c] = "waiting"
  <2>1. TAKE c \in N
  <2>2. c \in Jobs /\ j \in Deps[c]
    BY <1>2 DEF Released, Children
  <2>3. Missing(c) = {j}
    BY <1>8, <2>2
  <2>4. sched[c] = "waiting"
    BY <2>2, <2>3 DEF Kahn
  <2>5. QED BY <1>4, <1>5, <2>2, <2>4, Validated DEF JobsOf
<1>10. \A c \in N : ~Unsent(c) /\ ~Held(c) /\ Answers(c) = {}
  BY <1>9 DEF Placement, JobsOf
<1>11. \A c \in Jobs : sched'[c] = IF c = j THEN "completed"
                                   ELSE IF c \in N THEN "dispatched" ELSE sched[c]
  BY <1>3
<1>12. sending'[p] = N /\ \A q \in Pipelines : q # p => sending'[q] = sending[q]
  BY <1>3 DEF TypeOK
<1>13. \A c \in Jobs : (Unsent(c)' <=> Unsent(c) \/ c \in N) /\ (Held(c)' <=> Held(c))
  BY <1>3, <1>9, <1>12, Validated DEF Unsent, Held, JobsOf
<1>14. \A c \in Jobs : Missing(c)' = Missing(c) \ {j}
  BY <1>4, <1>9, <1>11, Validated DEF Missing
<1>15. Placement'
  <2>1. AtMostOnce'
    BY <1>3, <1>4, <1>9, <1>10, <1>13 DEF Placement, AtMostOnce
  <2>2. \A k \in Jobs : sched'[k] = "dispatched" <=> Unsent(k)' \/ Held(k)' \/ Answers(k)' # {}
    BY <1>4, <1>9, <1>11, <1>13 DEF Placement
  <2>3. \A q \in Pipelines : \A i \in DOMAIN results'[q] : PipelineOf[results'[q][i].job] = q
    BY <1>4 DEF Placement
  <2>4. \A q \in Pipelines : sending'[q] \subseteq JobsOf(q)'
    BY <1>9, <1>12 DEF Placement, JobsOf
  <2>5. QED BY <2>1, <2>2, <2>3, <2>4 DEF Placement
<1>16. JobView'
  <2>1. \A k \in Jobs : sched'[k] = "waiting" \/ Unsent(k)' => job'[k] = "waiting"
    BY <1>3, <1>4, <1>9, <1>11, <1>13 DEF JobView
  <2>2. \A q \in Pipelines : \A i \in DOMAIN results'[q] :
          job'[results'[q][i].job] = IF results'[q][i].err = "nil" THEN "succeeded" ELSE "failed"
    BY <1>3, <1>4 DEF JobView
  <2>3. \A k \in Jobs : sched'[k] = "completed" => job'[k] = "succeeded"
    BY <1>3, <1>6, <1>11 DEF JobView
  <2>4. \A k \in Jobs : sched'[k] = "failed" => job'[k] \in {"succeeded", "failed"}
    BY <1>3, <1>11 DEF JobView
  <2>5. QED BY <1>3, <2>1, <2>2, <2>3, <2>4 DEF JobView
<1>17. Kahn'
  <2>1. \A c \in Jobs : indegree'[c] = Cardinality(Missing(c)')
    <3>1. TAKE c \in Jobs
    <3>2. Cardinality(Missing(c) \ {j}) =
            IF j \in Missing(c) THEN Cardinality(Missing(c)) - 1 ELSE Cardinality(Missing(c))
      BY <1>7, FS_RemoveElement
    <3>3. c \in Children(j) <=> j \in Missing(c)
      BY <1>4, Validated DEF Children, Missing
    <3>4. QED BY <1>3, <1>7, <1>14, <3>2, <3>3
  <2>2. \A c \in Jobs : sched'[c] # "waiting" => Missing(c)' = {}
    <3>1. TAKE c \in Jobs
    <3>2. CASE c \in N
      BY <1>8, <1>14, <3>2
    <3>3. CASE c \notin N /\ sched[c] # "waiting"
      BY <1>14, <3>3 DEF Kahn
    <3>4. QED BY <1>4, <1>11, <3>2, <3>3
  <2>3. \A c \in Jobs : sched'[c] = "waiting" /\ phase'[PipelineOf[c]] \in {"running", "closed"}
          => Missing(c)' # {}
    <3>1. SUFFICES ASSUME NEW c \in Jobs, sched'[c] = "waiting",
                          phase'[PipelineOf[c]] \in {"running", "closed"}
                   PROVE  Missing(c)' # {}
      OBVIOUS
    <3>2. c \notin N /\ sched[c] = "waiting"
      BY <1>11, <3>1
    <3>3. Missing(c) # {} /\ Missing(c) # {j}
      BY <1>3, <1>8, <3>1, <3>2 DEF Kahn
    <3>4. QED BY <1>14, <3>3
  <2>4. \A c \in Jobs : phase'[PipelineOf[c]] \in {"absent", "submitted"} => sched'[c] = "waiting"
    BY <1>3, <1>4, <1>9, <1>11 DEF Kahn, JobsOf
  <2>5. QED BY <2>1, <2>2, <2>3, <2>4 DEF Kahn
<1>18. Counting'
  <2>1. Processed(p)' = Processed(p) \cup {j} /\ j \notin Processed(p)
    BY <1>4, <1>9, <1>11 DEF Processed, JobsOf
  <2>2. \A q \in Pipelines : q # p => Processed(q)' = Processed(q)
    BY <1>5, <1>9, <1>11 DEF Processed, JobsOf
  <2>3. Dispatched(p)' = Dispatched(p) \cup N /\ Dispatched(p) \cap N = {}
    BY <1>4, <1>9, <1>11 DEF Dispatched, JobsOf
  <2>4. \A q \in Pipelines : q # p => Dispatched(q)' = Dispatched(q)
    BY <1>5, <1>9, <1>11 DEF Dispatched, JobsOf
  <2>5. Answered(p)' = Answered(p) \ {j} /\ j \in Answered(p)
    BY <1>4 DEF Answered, JobsOf
  <2>6. \A q \in Pipelines : q # p => Answered(q)' = Answered(q)
    BY <1>4, <1>5 DEF Answered, JobsOf
  <2>7. /\ IsFiniteSet(Processed(p)) /\ IsFiniteSet(Answered(p)) /\ IsFiniteSet(Dispatched(p))
        /\ IsFiniteSet(N) /\ Cardinality(N) \in Nat /\ Cardinality(Dispatched(p)) \in Nat
    BY <1>9, FiniteJobs DEF Processed, Answered, Dispatched, JobsOf
  <2>8. Cardinality(Processed(p)') = processed[p] + 1
    <3>1. Cardinality(Processed(p)) = processed[p]
      BY DEF Counting
    <3>2. QED BY <2>1, <2>7, <3>1, FS_AddElement
  <2>9. Cardinality(Answered(p)') = Len(results[p]) - 1
    BY <2>5, <2>7, FS_RemoveElement DEF Counting
  <2>10. Cardinality(Dispatched(p)') = dispatched[p] + Cardinality(N)
    <3>1. Cardinality(Dispatched(p) \cup N) =
            Cardinality(Dispatched(p)) + Cardinality(N) - Cardinality(Dispatched(p) \cap N)
      BY <2>7, FS_Union
    <3>2. Cardinality(Dispatched(p) \cap N) = 0
      BY <2>3, FS_EmptySet
    <3>3. QED BY <2>3, <2>7, <3>1, <3>2 DEF Counting
  <2>11. /\ processed'[p] = processed[p] + 1 /\ dispatched'[p] = dispatched[p] + Cardinality(N)
         /\ \A q \in Pipelines : q # p =>
              /\ processed'[q] = processed[q] /\ dispatched'[q] = dispatched[q]
              /\ results'[q] = results[q]
    BY <1>3 DEF TypeOK
  <2>12. QED BY <1>4, <2>2, <2>4, <2>6, <2>8, <2>9, <2>10, <2>11 DEF Counting
<1>19. Honest'
  <2>1. \A k \in Jobs : sched'[k] = "failed" => sched[k] = "failed"
    BY <1>11
  <2>2. \A q \in Pipelines : q # p => (SchedulerDone(q)' <=> SchedulerDone(q))
    BY <1>3 DEF TypeOK, SchedulerDone
  <2>3. QED BY <1>3, <1>12, <2>1, <2>2 DEF Honest, JobsOf
<1>20. QED BY <1>15, <1>16, <1>17, <1>18, <1>19

\* Every step of a runtime's goroutine keeps the inductive invariant.
LEMMA RuntimeInv ==
  ASSUME IInv, TypeOK', NEW p \in Pipelines, Runtime(p)
  PROVE  IInv'
BY StartInv, DispatchInv, EndInv, ReceiveFailedInv, ReceiveSuccessInv DEF Runtime

\* The inductive invariant holds of every reachable state.
THEOREM Invariance == Spec => []IInv
<1>1. IInv /\ [Next]_vars => IInv'
  <2> SUFFICES ASSUME IInv, [Next]_vars PROVE IInv'
    OBVIOUS
  <2>1. TypeOK'
    BY RuntimeType, WorkerType, CallerType, StutterType DEF Next, IInv
  <2>2. QED BY <2>1, RuntimeInv, WorkerInv, CallerInv DEF Next
<1>2. QED BY <1>1, InitInv, PTL DEF Spec

\* A job runs only after all it depends on has succeeded.
THEOREM DependenciesFirst == Spec => []DepsSucceeded
BY Invariance, InvDepsSucceeded, PTL

\* No job is dispatched, held or answered twice.
THEOREM RunsOnce == Spec => []AtMostOnce
<1>1. IInv => AtMostOnce
  BY DEF IInv, Placement
<1>2. QED BY <1>1, Invariance, PTL

\* Once done is closed without a panic, nothing of the pipeline is left.
THEOREM ClosedIsQuiescent == Spec => []Quiescent
BY Invariance, InvQuiescent, PTL

\* Wait returns nil exactly when every job of the pipeline has succeeded.
THEOREM WaitTellsTheTruth == Spec => []Verdict
BY Invariance, InvVerdict, PTL

\* The results channel always has room for an answer: workers never block.
THEOREM WorkersNeverBlock == Spec => []PostNeverBlocks
BY Invariance, InvPostNeverBlocks, PTL

\* The first error is kept, and nothing is reported after done is closed.
THEOREM FirstErrorStays == Spec => FirstErrorKept
<1> DEFINE Kept == \A p \in Pipelines : err'[p] # err[p] =>
                     phase[p] = "running" /\ (err[p] = "nil" \/ err'[p] = "panic")
<1>1. TypeOK /\ [Next]_vars => Kept
  <2> SUFFICES ASSUME TypeOK, [Next]_vars, err' # err PROVE Kept
    OBVIOUS
  <2>1. PICK p \in Pipelines : PanicSend(p) \/ ReceiveError(p)
    BY DEF Next, Runtime, Worker, vars, Start, Dispatch, ReceiveDrained, ReceiveSuccess, Close,
           Submit, Stop, StopReturns, CancelParent, Shutdown, ShutdownReturns,
           Refuse, Admit, LogsFail, Execute, ExecuteReturns, Post, Exit
  <2>2. CASE PanicSend(p)
    BY <2>2 DEF PanicSend, TypeOK
  <2>3. CASE ReceiveError(p)
    BY <2>3 DEF ReceiveError, Receiving, TypeOK
  <2>4. QED BY <2>1, <2>2, <2>3
<1>2. QED BY <1>1, Typing, PTL DEF Spec, FirstErrorKept
-----------------------------------------------------------------------------
(* Refinement: every step of the executor is a step of PipelineRuns or changes *)
(* nothing that PipelineRuns shows; the inductive invariant supplies the       *)
(* guards.                                                                     *)

\* A job a worker has taken is due: its run is not over and it misses nothing.
LEMMA HeldIsDue ==
  ASSUME IInv, NEW w \in Workers, stage[w] = "holding"
  PROVE  /\ held[w] \in Jobs /\ PipelineOf[held[w]] \in Pipelines
         /\ Runs!Due(held[w])
<1> USE DEF IInv
<1>1. PICK j \in Jobs : j = held[w]
  BY BusyHolds
<1>2. PICK p \in Pipelines : p = PipelineOf[j]
  BY Validated
<1>3. sched[j] = "dispatched" /\ job[j] = "waiting"
  BY <1>1 DEF Placement, Held, JobView
<1>4. \A d \in Deps[j] : job[d] = "succeeded"
  <2>1. \A d \in Deps[j] : sched[d] = "completed" /\ d \in Jobs
    BY <1>3, Validated DEF Kahn, Missing
  <2>2. QED BY <2>1 DEF JobView
<1>5. StatusOf(p) \in {"running", "aborted"}
  <2>0. phase[p] \in {"absent", "submitted", "running", "closed"}
    BY DEF TypeOK
  <2>1. phase[p] \in {"running", "closed"}
    BY <1>2, <1>3, <2>0 DEF Kahn
  <2>2. phase[p] = "closed" => err[p] = "panic"
    BY <1>2, <1>3, DoneMeansNoneOpen DEF Honest, JobsOf
  <2>3. QED BY <2>1, <2>2 DEF StatusOf
<1>6. [q \in Pipelines |-> StatusOf(q)][p] = StatusOf(p)
  OBVIOUS
<1>7. QED BY <1>1, <1>2, <1>3, <1>4, <1>5, <1>6 DEF Runs!Due

\* A runtime that is closed without a panic has no job admitted or in execution.
LEMMA NoneExecuting ==
  ASSUME IInv, NEW p \in Pipelines, SchedulerDone(p), NEW j \in JobsOf(p)
  PROVE  job[j] \notin {"admitted", "executing"}
<1>1. sched[j] # "dispatched" /\ j \in Jobs
  BY DoneMeansNoneOpen DEF JobsOf
<1>2. sched[j] = "waiting" => job[j] = "waiting"
  BY <1>1 DEF IInv, JobView
<1>3. /\ sched[j] = "completed" => job[j] = "succeeded"
      /\ sched[j] = "failed" => job[j] \in {"succeeded", "failed"}
  BY <1>1 DEF IInv, JobView
<1>4. sched[j] \in {"waiting", "dispatched", "completed", "failed"}
  BY <1>1 DEF IInv, TypeOK
<1>5. QED BY <1>1, <1>2, <1>3, <1>4

\* The status of a run moves only with its phase, or with the error once closed.
LEMMA StatusFrame ==
  ASSUME \A p \in Pipelines : phase'[p] = phase[p] /\ (phase[p] = "closed" => err'[p] = err[p])
  PROVE  [p \in Pipelines |-> StatusOf(p)]' = [p \in Pipelines |-> StatusOf(p)]
BY DEF StatusOf

\* The effect of the end of one phase on the statuses.
LEMMA StatusMoves ==
  ASSUME NEW p \in Pipelines,
         \A q \in Pipelines : q # p => phase'[q] = phase[q] /\ err'[q] = err[q]
  PROVE  [q \in Pipelines |-> StatusOf(q)]' =
           [[q \in Pipelines |-> StatusOf(q)] EXCEPT ![p] = StatusOf(p)']
<1>1. \A q \in Pipelines : q # p => (StatusOf(q))' = StatusOf(q)
  BY DEF StatusOf
<1>2. QED BY <1>1

\* Cancelling one context is cancelling the set of its run alone.
LEMMA CancelOne ==
  ASSUME TypeOK, NEW p \in Pipelines, cancelled' = [cancelled EXCEPT ![p] = TRUE]
  PROVE  cancelled' = [q \in Pipelines |-> cancelled[q] \/ q \in {p}]
BY ZenonT(30) DEF TypeOK

\* What the goroutine of a runtime does is a step of the promise, or none.
LEMMA RuntimeSimulates ==
  ASSUME IInv, IInv', NEW p \in Pipelines, Runtime(p)
  PROVE  Runs!PromiseNext \/ UNCHANGED Runs!runVars
<1> USE DEF Runs!runVars
<1>1. CASE Start(p)
  <2>1. \A q \in Pipelines : (StatusOf(q))' = StatusOf(q)
    BY <1>1 DEF Start, StatusOf, IInv, TypeOK
  <2>2. QED BY <1>1, <2>1 DEF Start, workerVars
<1>2. CASE \E j \in Jobs, w \in Workers : Dispatch(p, j, w)
  BY <1>2, StatusFrame DEF Dispatch
<1>3. CASE ReceiveDrained(p) \/ ReceiveSuccess(p)
  BY <1>3, StatusFrame DEF ReceiveDrained, ReceiveSuccess, workerVars
<1>4. CASE ReceiveError(p)
  <2>1. /\ phase[p] = "running" /\ phase' = phase /\ job' = job
        /\ cancelled' = [cancelled EXCEPT ![p] = TRUE]
        /\ \A q \in Pipelines : q # p => err'[q] = err[q]
    BY <1>4 DEF ReceiveError, Receiving, workerVars, IInv, TypeOK
  <2>2. [q \in Pipelines |-> StatusOf(q)]' = [q \in Pipelines |-> StatusOf(q)]
    BY <2>1, StatusFrame
  <2>3. \A q \in {p} : [r \in Pipelines |-> StatusOf(r)][q] # "absent"
    BY <2>1 DEF StatusOf
  <2>4. cancelled' = [q \in Pipelines |-> cancelled[q] \/ q \in {p}]
    BY <2>1, CancelOne DEF IInv
  <2>5. Runs!Cancel({p})
    BY <2>1, <2>2, <2>3, <2>4 DEF Runs!Cancel
  <2>6. QED BY <2>5 DEF Runs!PromiseNext
<1>5. CASE PanicSend(p)
  <2>1. /\ phase[p] = "running" /\ sending[p] # {} /\ cancelled' = cancelled /\ job' = job
        /\ phase' = [phase EXCEPT ![p] = "closed"] /\ err' = [err EXCEPT ![p] = "panic"]
    BY <1>5 DEF PanicSend, workerVars
  <2>2. /\ (StatusOf(p))' = "aborted" /\ StatusOf(p) = "running"
        /\ \A q \in Pipelines : q # p => phase'[q] = phase[q] /\ err'[q] = err[q]
    BY <2>1 DEF StatusOf, IInv, TypeOK
  <2>3. PICK j \in Jobs : PipelineOf[j] = p /\ Unsent(j)
    BY <2>1 DEF IInv, Placement, JobsOf, Unsent
  <2>4. j \in Runs!JobsIn(p) /\ job[j] = "waiting"
    BY <2>3 DEF Runs!JobsIn, IInv, JobView
  <2>5. Runs!Abort(p)
    BY <2>1, <2>2, <2>4, StatusMoves DEF Runs!Abort
  <2>6. QED BY <2>5 DEF Runs!PromiseNext
<1>6. CASE Close(p)
  <2>1. /\ phase[p] = "running" /\ SchedulerDone(p) /\ cancelled' = cancelled /\ job' = job
        /\ phase' = [phase EXCEPT ![p] = "closed"] /\ err' = err
    BY <1>6 DEF Close, workerVars
  <2>2. /\ StatusOf(p) = "running" /\ phase'[p] = "closed" /\ err'[p] = err[p]
        /\ \A q \in Pipelines : q # p => phase'[q] = phase[q] /\ err'[q] = err[q]
    BY <2>1 DEF StatusOf, IInv, TypeOK
  <2>3. Runs!JobsIn(p) = JobsOf(p)
    BY DEF Runs!JobsIn, JobsOf
  <2>4. \A j \in JobsOf(p) : job[j] \notin {"admitted", "executing"}
    BY <2>1, NoneExecuting
  <2>5. Verdict'
    BY InvVerdict, PTL
  <2>6. err[p] = "nil" <=> \A j \in JobsOf(p) : job[j] = "succeeded"
    BY <2>1, <2>2, <2>5 DEF Verdict, JobsOf
  <2>7. err[p] # "panic"
    BY <2>1 DEF IInv, Honest
  <2>8. Runs!Finish(p)
    <3>1. CASE err[p] = "nil"
      <4>1. (StatusOf(p))' = "succeeded"
        BY <2>2, <3>1 DEF StatusOf
      <4>2. QED BY <2>1, <2>2, <2>3, <2>4, <2>6, <3>1, <4>1, StatusMoves DEF Runs!Finish
    <3>2. CASE err[p] # "nil"
      <4>1. (StatusOf(p))' = "failed"
        BY <2>2, <2>7, <3>2 DEF StatusOf
      <4>a. err[p] \in {"nil", "cancelled", "failed", "panic"}
        BY DEF IInv, TypeOK
      <4>2. \E j \in JobsOf(p) : job[j] = "failed"
        BY <2>7, <3>2, <4>a DEF IInv, Honest
      <4>3. QED BY <2>1, <2>2, <2>3, <2>4, <4>1, <4>2, StatusMoves DEF Runs!Finish
    <3>3. QED BY <3>1, <3>2
  <2>9. QED BY <2>8 DEF Runs!PromiseNext
<1>7. QED BY <1>1, <1>2, <1>3, <1>4, <1>5, <1>6 DEF Runtime

\* What a worker does is a step of the promise, or none.
LEMMA WorkerSimulates ==
  ASSUME IInv, NEW w \in Workers, Worker(w) \/ ExecuteReturns(w)
  PROVE  Runs!PromiseNext \/ UNCHANGED Runs!runVars
<1> USE DEF Runs!runVars
<1>1. [p \in Pipelines |-> StatusOf(p)]' = [p \in Pipelines |-> StatusOf(p)] /\ cancelled' = cancelled
  <2>1. phase' = phase /\ err' = err /\ cancelled' = cancelled
    BY DEF Worker, Refuse, Admit, LogsFail, Execute, ExecuteReturns, Post, Exit
  <2>2. QED BY <2>1, StatusFrame
<1>2. CASE Refuse(w)
  <2>1. /\ stage[w] = "holding" /\ job' = [job EXCEPT ![held[w]] = "failed"]
        /\ cancelled[PipelineOf[held[w]]]
    BY <1>2 DEF Refuse
  <2>2. held[w] \in Jobs /\ Runs!Due(held[w])
    BY <2>1, HeldIsDue
  <2>3. Runs!Reject(held[w])
    BY <1>1, <2>1, <2>2 DEF Runs!Reject
  <2>4. QED BY <2>2, <2>3 DEF Runs!PromiseNext
<1>3. CASE Admit(w)
  <2>1. /\ stage[w] = "holding" /\ job' = [job EXCEPT ![held[w]] = "admitted"]
        /\ ~cancelled[PipelineOf[held[w]]]
    BY <1>3 DEF Admit
  <2>2. held[w] \in Jobs /\ Runs!Due(held[w])
    BY <2>1, HeldIsDue
  <2>3. Runs!Admit(held[w])
    BY <1>1, <2>1, <2>2 DEF Runs!Admit
  <2>4. QED BY <2>2, <2>3 DEF Runs!PromiseNext
<1>a. ASSUME stage[w] = "opening"
      PROVE  held[w] \in Jobs /\ job[held[w]] = "admitted"
  BY <1>a, BusyHolds DEF IInv, JobView
<1>b. CASE LogsFail(w)
  <2>1. stage[w] = "opening" /\ job' = [job EXCEPT ![held[w]] = "failed"]
    BY <1>b DEF LogsFail
  <2>2. Runs!Reject(held[w])
    BY <1>1, <1>a, <2>1 DEF Runs!Reject
  <2>3. QED BY <1>a, <2>1, <2>2 DEF Runs!PromiseNext
<1>c. CASE Execute(w)
  <2>1. stage[w] = "opening" /\ job' = [job EXCEPT ![held[w]] = "executing"]
    BY <1>c DEF Execute
  <2>2. Runs!Begin(held[w])
    BY <1>1, <1>a, <2>1 DEF Runs!Begin
  <2>3. QED BY <1>a, <2>1, <2>2 DEF Runs!PromiseNext
<1>4. CASE ExecuteReturns(w)
  <2>1. PICK e \in {"nil", "failed"} :
          job' = [job EXCEPT ![held[w]] = IF e = "nil" THEN "succeeded" ELSE "failed"]
    BY <1>4 DEF ExecuteReturns
  <2>2. held[w] \in Jobs /\ job[held[w]] = "executing"
    BY <1>4, BusyHolds DEF ExecuteReturns, IInv, JobView
  <2>3. \E o \in {"succeeded", "failed"} : job' = [job EXCEPT ![held[w]] = o]
    BY <2>1
  <2>4. Runs!End(held[w])
    BY <1>1, <2>2, <2>3 DEF Runs!End
  <2>5. QED BY <2>2, <2>4 DEF Runs!PromiseNext
<1>5. CASE Post(w) \/ Exit(w)
  BY <1>1, <1>5 DEF Post, Exit
<1>6. QED BY <1>2, <1>3, <1>b, <1>c, <1>4, <1>5 DEF Worker

\* Submit, Stop, the context and Shutdown are steps of the promise, or none.
LEMMA CallerSimulates ==
  ASSUME IInv,
         \/ \E p \in Pipelines : Submit(p) \/ Stop(p) \/ StopReturns(p)
         \/ CancelParent \/ Shutdown \/ ShutdownReturns \/ UNCHANGED vars
  PROVE  Runs!PromiseNext \/ UNCHANGED Runs!runVars
<1> USE DEF Runs!runVars
<1>1. CASE \E p \in Pipelines : Submit(p)
  <2>1. PICK p \in Pipelines : Submit(p)
    BY <1>1
  <2>2. /\ phase[p] = "absent" /\ phase' = [phase EXCEPT ![p] = "submitted"]
        /\ cancelled' = [cancelled EXCEPT ![p] = parentDone] /\ err' = err /\ job' = job
    BY <2>1 DEF Submit, workerVars
  <2>3. /\ (StatusOf(p))' = "running" /\ StatusOf(p) = "absent" /\ parentDone \in BOOLEAN
        /\ \A q \in Pipelines : q # p => phase'[q] = phase[q] /\ err'[q] = err[q]
    BY <2>2 DEF StatusOf, IInv, TypeOK
  <2>4. \E c \in BOOLEAN : cancelled' = [cancelled EXCEPT ![p] = c]
    BY <2>2, <2>3
  <2>5. Runs!Accept(p)
    BY <2>2, <2>3, <2>4, StatusMoves DEF Runs!Accept
  <2>6. QED BY <2>5 DEF Runs!PromiseNext
<1>2. CASE \E p \in Pipelines : Stop(p)
  <2>1. PICK p \in Pipelines : Stop(p)
    BY <1>2
  <2>2. /\ phase[p] # "absent" /\ phase' = phase /\ err' = err /\ job' = job
        /\ cancelled' = [cancelled EXCEPT ![p] = TRUE]
    BY <2>1 DEF Stop, workerVars
  <2>3. [q \in Pipelines |-> StatusOf(q)]' = [q \in Pipelines |-> StatusOf(q)]
    BY <2>2, StatusFrame
  <2>4. \A q \in {p} : [r \in Pipelines |-> StatusOf(r)][q] # "absent"
    BY <2>2 DEF StatusOf
  <2>5. cancelled' = [q \in Pipelines |-> cancelled[q] \/ q \in {p}]
    BY <2>2, CancelOne DEF IInv
  <2>6. Runs!Cancel({p})
    BY <2>2, <2>3, <2>4, <2>5 DEF Runs!Cancel
  <2>7. QED BY <2>6 DEF Runs!PromiseNext
<1>3. CASE CancelParent
  <2> DEFINE S == {p \in Pipelines : phase[p] # "absent"}
  <2>1. /\ phase' = phase /\ err' = err /\ job' = job
        /\ cancelled' = [p \in Pipelines |-> cancelled[p] \/ p \in S]
    BY <1>3 DEF CancelParent, workerVars
  <2>2. [q \in Pipelines |-> StatusOf(q)]' = [q \in Pipelines |-> StatusOf(q)]
    BY <2>1, StatusFrame
  <2>3. \A q \in S : [r \in Pipelines |-> StatusOf(r)][q] # "absent"
    BY DEF StatusOf
  <2>4. Runs!Cancel(S)
    BY <2>1, <2>2, <2>3 DEF Runs!Cancel
  <2>5. QED BY <2>4 DEF Runs!PromiseNext
<1>4. CASE \/ \E p \in Pipelines : StopReturns(p)
           \/ Shutdown \/ ShutdownReturns \/ UNCHANGED vars
  BY <1>4, StatusFrame DEF StopReturns, Shutdown, ShutdownReturns, vars, workerVars
<1>5. QED BY <1>1, <1>2, <1>3, <1>4

\* Every step of the executor is one of PipelineRuns, or none.
LEMMA StepSimulates == IInv /\ IInv' /\ [Next]_vars => [Runs!PromiseNext]_Runs!runVars
BY RuntimeSimulates, WorkerSimulates, CallerSimulates DEF Next

\* The executor implements PipelineRuns: the goroutines, the shared queue, the
\* worker pool and the counters keep what Submit, Stop and Wait promise.
THEOREM Implements == Spec => KeepsPromise
<1>1. Init => Runs!PromiseInit
  BY DEF Init, Runs!PromiseInit, StatusOf
<1>2. QED BY <1>1, StepSimulates, Invariance, PTL DEF Spec, KeepsPromise, Runs!Promise

\* A runtime is started once and ends once, and the error Wait returns stays: what
\* the daemon and the client take of the engine.
THEOREM RuntimesEndOnce == Spec => EndsOnce
<1> DEFINE Shown == [p \in Pipelines |-> StatusOf(p)]
<1>1. ASSUME [Runs!PromiseNext]_Runs!runVars, NEW p \in Pipelines
      PROVE  StatusAdvances(p) \/ (StatusOf(p))' = StatusOf(p)
  <2>1. /\ Shown[p] = StatusOf(p) /\ (Shown[p])' = (StatusOf(p))'
        /\ (Shown[p])' = Shown'[p]
    OBVIOUS
  <2>2. CASE \E q \in Pipelines : Runs!Accept(q)
    <3>1. PICK q \in Pipelines : Shown[q] = "absent" /\ Shown' = [Shown EXCEPT ![q] = "running"]
      BY <2>2 DEF Runs!Accept
    <3>2. QED BY <2>1, <3>1 DEF StatusAdvances
  <2>3. CASE \E q \in Pipelines : Runs!Finish(q) \/ Runs!Abort(q)
    <3>1. PICK q \in Pipelines :
            /\ Shown[q] = "running"
            /\ \E v \in {"succeeded", "failed", "aborted"} : Shown' = [Shown EXCEPT ![q] = v]
      BY <2>3 DEF Runs!Finish, Runs!Abort
    <3>2. QED BY <2>1, <3>1 DEF StatusAdvances
  <2>4. CASE \/ \E j \in Jobs : Runs!Admit(j) \/ Runs!Begin(j) \/ Runs!Reject(j) \/ Runs!End(j)
             \/ \E S \in SUBSET Pipelines : Runs!Cancel(S)
             \/ UNCHANGED Runs!runVars
    <3>1. Shown' = Shown
      BY <2>4 DEF Runs!Admit, Runs!Begin, Runs!Reject, Runs!End, Runs!Cancel, Runs!runVars
    <3>2. QED BY <2>1, <3>1
  <2>5. QED BY <1>1, <2>2, <2>3, <2>4 DEF Runs!PromiseNext
<1>2. IInv /\ IInv' /\ [Next]_vars =>
        \A p \in Pipelines : StatusAdvances(p) \/ (StatusOf(p))' = StatusOf(p)
  BY <1>1, StepSimulates
<1>3. QED BY <1>2, Invariance, PTL DEF Spec, EndsOnce
=============================================================================

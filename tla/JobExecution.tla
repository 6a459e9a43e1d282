---------------------------- MODULE JobExecution ----------------------------
(***************************************************************************)
(* The bodies of the jobs of one pipeline (pkg/engine/runjob.go) with the   *)
(* Docker runner, the checkout and the artifact store they use: what is     *)
(* made for a job (a container, a temporary directory and the goroutine     *)
(* that streams it, artifact files) and what becomes of it when calls fail  *)
(* or the run is cancelled between any two of them.                         *)
(*                                                                         *)
(* Abstractions: a call that uses the run's context either does its work    *)
(* before the run is cancelled or fails, having done all of it, part of it  *)
(* or nothing; ensureImage changes nothing that is modelled and is part of  *)
(* Create; a CopyIn is its mkdir and its copy.                              *)
(* The executor starts a job once, when the jobs it depends on succeeded    *)
(* (Executor!DepsSucceeded).                                                *)
(***************************************************************************)
EXTENDS Naturals, Sequences, EngineInput

CONSTANTS
  Jobs, Artifacts,
  Steps,      \* the number of steps of a job
  Makes,      \* the artifacts a job produces, in order
  Needs,      \* the artifacts its dependencies require, in order
  HasSource   \* the pipeline names a repository to check out

ProducerOf(a) == CHOOSE j \in Jobs : \E m \in DOMAIN Makes[j] : Makes[j][m] = a

\* What Validate and DepsSucceeded leave: artifacts have one producer, no job
\* needs its own, and what is needed is produced by a job of the pipeline.
ASSUME JobConstants ==
  /\ Steps \in [Jobs -> Nat] /\ HasSource \in BOOLEAN
  /\ Makes \in [Jobs -> Seq(Artifacts)] /\ Needs \in [Jobs -> Seq(Artifacts)]
  /\ Deliverable(Jobs, Makes, [j \in Jobs |-> {Needs[j][n] : n \in DOMAIN Needs[j]}])

VARIABLES
  cancelled,  \* the context of the run is done
  at,         \* where ExecuteJob is, named for the call it makes next
  pos,        \* the position in the current loop
  failed,     \* ExecuteJob returns, or is about to return, an error
  container,  \* of a job: none, created, running, removed
  owned,      \* runner.Create returned an Execution
  refused,    \* history: Docker refused a removal of its own accord
  unanswered, \* history: Docker did what it was asked, the answer was lost
  tree,       \* the whole source tree is in the container
  inside,     \* what of an artifact is in the container: no, part, whole
  ran,        \* history: the steps that ended well
  dir,        \* the checkout's directory: none, made, removed, left
  stream,     \* tarDir: none, streaming, read, cut, broken, ended
  store,      \* the file of an artifact: absent, part, whole
  served      \* history: what readers of the API were given of an artifact

jobVars == <<at, pos, failed>>
dockerVars == <<container, owned, refused, unanswered>>
insideVars == <<tree, inside, ran>>
sourceVars == <<dir, stream>>
vars == <<cancelled, jobVars, dockerVars, insideVars, sourceVars, store, served>>

Places == {"waiting", "create", "start", "discard", "checkout", "copytree", "needs",
           "steps", "step", "makes", "copy", "remove", "returned"}

TypeOK ==
  /\ cancelled \in BOOLEAN
  /\ at \in [Jobs -> Places] /\ pos \in [Jobs -> Nat] /\ failed \in [Jobs -> BOOLEAN]
  /\ container \in [Jobs -> {"none", "created", "running", "removed"}]
  /\ owned \in SUBSET Jobs /\ refused \in SUBSET Jobs /\ unanswered \in SUBSET Jobs
  /\ tree \in [Jobs -> BOOLEAN]
  /\ inside \in [Jobs -> [Artifacts -> {"no", "part", "whole"}]]
  /\ ran \in [Jobs -> Nat]
  /\ dir \in [Jobs -> {"none", "made", "removed", "left"}]
  /\ stream \in [Jobs -> {"none", "streaming", "read", "cut", "broken", "ended"}]
  /\ store \in [Artifacts -> {"absent", "part", "whole"}]
  /\ served \in SUBSET (Artifacts \X {"part", "whole"})
  /\ \A j \in Jobs :
       /\ at[j] = "needs" => pos[j] \in 1..(Len(Needs[j]) + 1)
       /\ at[j] = "steps" => pos[j] \in 1..(Steps[j] + 1)
       /\ at[j] = "step" => pos[j] \in 1..Steps[j]
       /\ at[j] = "makes" => pos[j] \in 1..(Len(Makes[j]) + 1)
       /\ at[j] = "copy" => pos[j] \in 1..Len(Makes[j])

Init ==
  /\ cancelled = FALSE
  /\ at = [j \in Jobs |-> "waiting"] /\ pos = [j \in Jobs |-> 1]
  /\ failed = [j \in Jobs |-> FALSE]
  /\ container = [j \in Jobs |-> "none"]
  /\ owned = {} /\ refused = {} /\ unanswered = {}
  /\ tree = [j \in Jobs |-> FALSE]
  /\ inside = [j \in Jobs |-> [a \in Artifacts |-> "no"]]
  /\ ran = [j \in Jobs |-> 0]
  /\ dir = [j \in Jobs |-> "none"] /\ stream = [j \in Jobs |-> "none"]
  /\ store = [a \in Artifacts |-> "absent"]
  /\ served = {}

Go(j, place, position) ==
  /\ at' = [at EXCEPT ![j] = place]
  /\ pos' = [pos EXCEPT ![j] = position]
  /\ UNCHANGED failed

\* return err: the deferred Remove runs when there is an Execution.
Fail(j) ==
  /\ at' = [at EXCEPT ![j] = IF j \in owned THEN "remove" ELSE "returned"]
  /\ failed' = [failed EXCEPT ![j] = TRUE]
  /\ UNCHANGED pos

Succeeded(j) == at[j] = "returned" /\ ~failed[j]

-----------------------------------------------------------------------------
(* runner.Create *)

\* Mutant of Begin: a job starts beside the jobs it depends on.
BeginEarly(j) ==
  /\ at[j] = "waiting"
  /\ Go(j, "create", 1)
  /\ UNCHANGED <<cancelled, dockerVars, insideVars, sourceVars, store, served>>

Begin(j) ==
  /\ at[j] = "waiting"
  /\ \A n \in DOMAIN Needs[j] : Succeeded(ProducerOf(Needs[j][n]))
  /\ Go(j, "create", 1)
  /\ UNCHANGED <<cancelled, dockerVars, insideVars, sourceVars, store, served>>

Create(j) ==
  /\ at[j] = "create" /\ ~cancelled
  /\ container' = [container EXCEPT ![j] = "created"]
  /\ Go(j, "start", 1)
  /\ UNCHANGED <<cancelled, owned, refused, unanswered, insideVars, sourceVars, store, served>>

\* Docker may have created the container all the same.
CreateFails(j) ==
  /\ at[j] = "create" /\ Fail(j)
  /\ \/ UNCHANGED <<container, unanswered>>
     \/ /\ container' = [container EXCEPT ![j] = "created"]
        /\ unanswered' = unanswered \cup {j}
  /\ UNCHANGED <<cancelled, owned, refused, insideVars, sourceVars, store, served>>

Start(j) ==
  /\ at[j] = "start" /\ ~cancelled
  /\ container' = [container EXCEPT ![j] = "running"]
  /\ owned' = owned \cup {j}
  /\ Go(j, IF HasSource THEN "checkout" ELSE "needs", 1)
  /\ UNCHANGED <<cancelled, refused, unanswered, insideVars, sourceVars, store, served>>

\* Mutant of StartFails: the start is tried again until it works.
StartRetried(j) ==
  /\ at[j] = "start" /\ Go(j, "start", 1)
  /\ UNCHANGED <<cancelled, dockerVars, insideVars, sourceVars, store, served>>

StartFails(j) ==
  /\ at[j] = "start" /\ Go(j, "discard", 1)
  /\ \/ UNCHANGED <<container, unanswered>>
     \/ /\ container' = [container EXCEPT ![j] = "running"]
        /\ unanswered' = unanswered \cup {j}
  /\ UNCHANGED <<cancelled, owned, refused, insideVars, sourceVars, store, served>>

\* The removal of a container that did not start uses the run's context and no
\* Force, so it fails when the run is cancelled or the container runs.
Discard(j) ==
  /\ at[j] = "discard" /\ Fail(j)
  /\ \/ /\ ~cancelled /\ container[j] = "created"
        /\ container' = [container EXCEPT ![j] = "removed"] /\ UNCHANGED refused
     \/ /\ cancelled \/ container[j] = "running"
        /\ UNCHANGED <<container, refused>>
     \/ refused' = refused \cup {j} /\ UNCHANGED container
  /\ UNCHANGED <<cancelled, owned, unanswered, insideVars, sourceVars, store, served>>

-----------------------------------------------------------------------------
(* The source tree *)

\* Checkout: git works in a temporary directory, a goroutine streams it.
Clone(j) ==
  /\ at[j] = "checkout" /\ ~cancelled
  /\ dir' = [dir EXCEPT ![j] = "made"] /\ stream' = [stream EXCEPT ![j] = "streaming"]
  /\ Go(j, "copytree", 1)
  /\ UNCHANGED <<cancelled, dockerVars, insideVars, store, served>>

\* No directory, or git failed and it was removed, or the address does not
\* parse: the directory that was already made is left.
CloneFails(j) ==
  /\ at[j] = "checkout" /\ Fail(j)
  /\ \E d \in {"none", "removed", "left"} : dir' = [dir EXCEPT ![j] = d]
  /\ UNCHANGED <<cancelled, dockerVars, insideVars, stream, store, served>>

\* CopyIn reads the stream to its end.
CopyTree(j) ==
  /\ at[j] = "copytree" /\ stream[j] = "streaming" /\ ~cancelled
  /\ stream' = [stream EXCEPT ![j] = "read"]
  /\ tree' = [tree EXCEPT ![j] = TRUE]
  /\ Go(j, "needs", 1)
  /\ UNCHANGED <<cancelled, dockerVars, inside, ran, dir, store, served>>

\* Mutant of CopyTreeFails: the stream is not closed on the error path.
CopyTreeUnclosed(j) ==
  /\ at[j] = "copytree" /\ Fail(j)
  /\ UNCHANGED <<cancelled, dockerVars, insideVars, sourceVars, store, served>>

\* CopyIn fails, of itself or with the stream, with what it had copied left in
\* the container, all of it if only the answer is lost; r.Close unblocks the
\* goroutine.
CopyTreeFails(j) ==
  /\ at[j] = "copytree" /\ Fail(j)
  /\ \/ /\ stream' = [stream EXCEPT ![j] = IF @ = "streaming" THEN "cut" ELSE @]
        /\ UNCHANGED tree
     \/ /\ stream[j] = "streaming" /\ stream' = [stream EXCEPT ![j] = "read"]
        /\ tree' = [tree EXCEPT ![j] = TRUE]
  /\ UNCHANGED <<cancelled, dockerVars, inside, ran, dir, store, served>>

\* tarDir: the walk finds the run cancelled or a file it cannot read.
StreamBreaks(j) ==
  /\ stream[j] = "streaming"
  /\ stream' = [stream EXCEPT ![j] = "broken"]
  /\ UNCHANGED <<cancelled, jobVars, dockerVars, insideVars, dir, store, served>>

\* tarDir returns and removes the directory.
StreamEnds(j) ==
  /\ stream[j] \in {"read", "cut", "broken"}
  /\ stream' = [stream EXCEPT ![j] = "ended"] /\ dir' = [dir EXCEPT ![j] = "removed"]
  /\ UNCHANGED <<cancelled, jobVars, dockerVars, insideVars, store, served>>

-----------------------------------------------------------------------------
(* Artifacts in, steps, artifacts out *)

CopyNeed(j) ==
  /\ at[j] = "needs" /\ pos[j] <= Len(Needs[j]) /\ ~cancelled
  /\ store[Needs[j][pos[j]]] # "absent"
  /\ inside' = [inside EXCEPT ![j][Needs[j][pos[j]]] = store[Needs[j][pos[j]]]]
  /\ Go(j, "needs", pos[j] + 1)
  /\ UNCHANGED <<cancelled, dockerVars, tree, ran, sourceVars, store, served>>

\* Load or CopyIn fails: nothing is copied, a part, or all there is and only the
\* answer is lost.
CopyNeedFails(j) ==
  /\ at[j] = "needs" /\ pos[j] <= Len(Needs[j]) /\ Fail(j)
  /\ \/ UNCHANGED inside
     \/ /\ store[Needs[j][pos[j]]] # "absent"
        /\ \E c \in {"part", store[Needs[j][pos[j]]]} :
             inside' = [inside EXCEPT ![j][Needs[j][pos[j]]] = c]
  /\ UNCHANGED <<cancelled, dockerVars, tree, ran, sourceVars, store, served>>

NeedsDone(j) ==
  /\ at[j] = "needs" /\ pos[j] > Len(Needs[j])
  /\ Go(j, "steps", 1)
  /\ UNCHANGED <<cancelled, dockerVars, insideVars, sourceVars, store, served>>

StepBegins(j) ==
  /\ at[j] = "steps" /\ pos[j] <= Steps[j] /\ ~cancelled
  /\ Go(j, "step", pos[j])
  /\ UNCHANGED <<cancelled, dockerVars, insideVars, sourceVars, store, served>>

\* ExecCreate or ExecAttach fails.
StepRefused(j) ==
  /\ at[j] = "steps" /\ pos[j] <= Steps[j] /\ Fail(j)
  /\ UNCHANGED <<cancelled, dockerVars, insideVars, sourceVars, store, served>>

\* The output has ended and the exit code is 0.
StepEnds(j) ==
  /\ at[j] = "step" /\ ~cancelled
  /\ ran' = [ran EXCEPT ![j] = @ + 1]
  /\ Go(j, "steps", pos[j] + 1)
  /\ UNCHANGED <<cancelled, dockerVars, tree, inside, sourceVars, store, served>>

\* Another exit code, a lost connection, or a run cancelled by then.
StepFails(j) ==
  /\ at[j] = "step" /\ Fail(j)
  /\ UNCHANGED <<cancelled, dockerVars, insideVars, sourceVars, store, served>>

StepsDone(j) ==
  /\ at[j] = "steps" /\ pos[j] > Steps[j]
  /\ Go(j, "makes", 1)
  /\ UNCHANGED <<cancelled, dockerVars, insideVars, sourceVars, store, served>>

\* CopyOut, and the file of the artifact is made.
OpenArtifact(j) ==
  /\ at[j] = "makes" /\ pos[j] <= Len(Makes[j]) /\ ~cancelled
  /\ store' = [store EXCEPT ![Makes[j][pos[j]]] = "part"]
  /\ Go(j, "copy", pos[j])
  /\ UNCHANGED <<cancelled, dockerVars, insideVars, sourceVars, served>>

OpenArtifactFails(j) ==
  /\ at[j] = "makes" /\ pos[j] <= Len(Makes[j]) /\ Fail(j)
  /\ UNCHANGED <<cancelled, dockerVars, insideVars, sourceVars, store, served>>

\* What Docker had sent when the run was cancelled may be all there was to copy.
CopyArtifact(j) ==
  /\ at[j] = "copy"
  /\ store' = [store EXCEPT ![Makes[j][pos[j]]] = "whole"]
  /\ Go(j, "makes", pos[j] + 1)
  /\ UNCHANGED <<cancelled, dockerVars, insideVars, sourceVars, served>>

\* Mutant of CopyArtifactFails: the error of io.Copy is not looked at.
CopyArtifactUnchecked(j) ==
  /\ at[j] = "copy" /\ Go(j, "makes", pos[j] + 1)
  /\ UNCHANGED <<cancelled, dockerVars, insideVars, sourceVars, store, served>>

\* The copy fails, or the copy is whole and closing its source fails.
CopyArtifactFails(j) ==
  /\ at[j] = "copy" /\ Fail(j)
  /\ \E c \in {"part", "whole"} : store' = [store EXCEPT ![Makes[j][pos[j]]] = c]
  /\ UNCHANGED <<cancelled, dockerVars, insideVars, sourceVars, served>>

MakesDone(j) ==
  /\ at[j] = "makes" /\ pos[j] > Len(Makes[j])
  /\ Go(j, "remove", 1)
  /\ UNCHANGED <<cancelled, dockerVars, insideVars, sourceVars, store, served>>

\* Mutant of Remove: the removal uses the run's context.
RemoveInContext(j) ==
  /\ at[j] = "remove" /\ Go(j, "returned", 1)
  /\ \/ ~cancelled /\ container' = [container EXCEPT ![j] = "removed"] /\ UNCHANGED refused
     \/ cancelled /\ UNCHANGED <<container, refused>>
     \/ refused' = refused \cup {j} /\ UNCHANGED container
  /\ UNCHANGED <<cancelled, owned, unanswered, insideVars, sourceVars, store, served>>

\* The deferred Remove: forced, in a context the run's end does not cancel.
Remove(j) ==
  /\ at[j] = "remove" /\ Go(j, "returned", 1)
  /\ \/ container' = [container EXCEPT ![j] = "removed"] /\ UNCHANGED refused
     \/ refused' = refused \cup {j} /\ UNCHANGED container
  /\ UNCHANGED <<cancelled, owned, unanswered, insideVars, sourceVars, store, served>>

-----------------------------------------------------------------------------
\* PipelineRuntime.Stop, the run's first error, or the end of the daemon's context.
Cancel ==
  /\ ~cancelled /\ cancelled' = TRUE
  /\ UNCHANGED <<jobVars, dockerVars, insideVars, sourceVars, store, served>>

\* Manager.GetArtifact and the handler that copies the file to the client.
Serve(a) ==
  /\ store[a] # "absent"
  /\ served' = served \cup {<<a, store[a]>>}
  /\ UNCHANGED <<cancelled, jobVars, dockerVars, insideVars, sourceVars, store>>

ExecuteJob(j) ==
  \/ Create(j) \/ CreateFails(j) \/ Start(j) \/ StartFails(j) \/ Discard(j)
  \/ Clone(j) \/ CloneFails(j) \/ CopyTree(j) \/ CopyTreeFails(j)
  \/ CopyNeed(j) \/ CopyNeedFails(j) \/ NeedsDone(j)
  \/ StepBegins(j) \/ StepRefused(j) \/ StepsDone(j)
  \/ OpenArtifact(j) \/ OpenArtifactFails(j) \/ CopyArtifact(j) \/ CopyArtifactFails(j)
  \/ MakesDone(j) \/ Remove(j)

Next ==
  \/ \E j \in Jobs : Begin(j) \/ ExecuteJob(j) \/ StepEnds(j) \/ StepFails(j)
                     \/ StreamBreaks(j) \/ StreamEnds(j)
  \/ Cancel \/ \E a \in Artifacts : Serve(a)

Spec == Init /\ [][Next]_vars

\* The worker and the goroutine of a checkout go on; a step runs as long as it
\* likes, whatever becomes of the run.
Fairness == \A j \in Jobs : WF_vars(ExecuteJob(j)) /\ WF_vars(StreamEnds(j))

FairSpec == Spec /\ Fairness

-----------------------------------------------------------------------------
(* Properties *)

\* A container that was started is gone when its job is over, also when the
\* run was cancelled meanwhile; only Docker's refusal to remove it leaves it.
StartedIsRemoved ==
  \A j \in owned : at[j] = "returned" => container[j] = "removed" \/ j \in refused

\* A job reported as succeeded had its source and all it needs, ran all its
\* steps and left all its artifacts whole in the store.
SucceededIsComplete ==
  \A j \in Jobs : Succeeded(j) =>
    /\ HasSource => tree[j]
    /\ ran[j] = Steps[j]
    /\ \A n \in DOMAIN Needs[j] : inside[j][Needs[j][n]] = "whole"
    /\ \A m \in DOMAIN Makes[j] : store[Makes[j][m]] = "whole"

\* A job that goes on to its steps, or has run one, works with all it needs and
\* with no part of an artifact, although the store shows files that are being
\* written, keeps those whose copy failed, and a copy into the container may stop
\* halfway.
NeedsAreWhole ==
  \A j \in Jobs : at[j] \in {"steps", "step", "makes", "copy"} \/ ran[j] > 0 =>
    \A n \in DOMAIN Needs[j] : inside[j][Needs[j][n]] = "whole"

\* The directory of a checkout is removed however the copy ends: ExecuteJob and
\* tarDir never leave each other waiting.
SourceDirRemoved == \A j \in Jobs : dir[j] = "made" ~> dir[j] = "removed"

\* If steps end, every job that begins is over, cancelled or not.
StepsEnd == \A j \in Jobs : []<>(at[j] # "step")
JobsReturn == StepsEnd => \A j \in Jobs : at[j] = "create" ~> at[j] = "returned"

\* Artifacts are available after the job completes: no reader is given part of one.
ServedIsWhole == \A a \in Artifacts : <<a, "part">> \notin served

\* A container that does not start is removed as well: a job that is over has
\* left none, if Docker answered every call and refused no removal.
NoContainerLeft ==
  \A j \in Jobs \ (refused \cup unanswered) :
    at[j] = "returned" => container[j] \in {"none", "removed"}

-----------------------------------------------------------------------------
(* The inductive invariant *)

\* Between Create and the deferred Remove there is an Execution, and only then
\* or after it.
Ownership(j) ==
  /\ at[j] \in {"waiting", "create", "start", "discard"} => j \notin owned
  /\ at[j] \notin {"waiting", "create", "start", "discard", "returned"} => j \in owned
  /\ failed[j] => at[j] \in {"remove", "returned"}
  /\ at[j] = "returned" /\ j \notin owned => failed[j]

\* The job has passed every failing call up to a place of ExecuteJob.
Past(j, places) == at[j] \in places \/ (at[j] \in {"remove", "returned"} /\ ~failed[j])

Whole(s, n, content) == \A k \in DOMAIN s : k < n => content[s[k]] = "whole"

Passed(j) ==
  /\ Past(j, {"needs", "steps", "step", "makes", "copy"}) => (HasSource => tree[j])
  /\ at[j] = "needs" => Whole(Needs[j], pos[j], inside[j])
  /\ Past(j, {"steps", "step", "makes", "copy"}) \/ ran[j] > 0 =>
       Whole(Needs[j], Len(Needs[j]) + 1, inside[j])
  /\ at[j] \in {"waiting", "create", "start", "discard", "checkout", "copytree", "needs"} => ran[j] = 0
  /\ at[j] \in {"steps", "step"} => ran[j] = pos[j] - 1
  /\ Past(j, {"makes", "copy"}) => ran[j] = Steps[j]
  /\ at[j] \in {"makes", "copy"} => Whole(Makes[j], pos[j], store)
  /\ Past(j, {}) => Whole(Makes[j], Len(Makes[j]) + 1, store)

\* A job has begun only after those that make what it needs have succeeded.
Begun(j) ==
  at[j] # "waiting" => \A n \in DOMAIN Needs[j] : Succeeded(ProducerOf(Needs[j][n]))

IInv ==
  /\ TypeOK /\ StartedIsRemoved
  /\ \A j \in Jobs : Ownership(j) /\ Passed(j) /\ Begun(j)
=============================================================================

----------------------------- MODULE Validation -----------------------------
(***************************************************************************)
(* Pipeline.Validate (pkg/engine/validate.go), which stands between any    *)
(* pipeline a user writes and the scheduler: the checks of names and of    *)
(* references, then a depth-first search with three colours that reports   *)
(* every cycle of dependencies it closes.                                  *)
(*                                                                         *)
(* Abstractions: names and artifacts are model values; the checks of one   *)
(* field alone (identifiers, image, cmd, paths, visibility, globs) are the *)
(* flag `fields`; of the errors only the kinds are kept, and the cycles.   *)
(* The recursion of dfs is its stack: `path`, with in `next` the           *)
(* dependency the loop of each frame is at.                                *)
(***************************************************************************)
EXTENDS Integers, Sequences, EngineInput

CONSTANTS
  Names,      \* the names a pipeline may use for jobs
  Artifacts,  \* the names it may use for artifacts
  Inputs      \* the pipelines given to Validate

Dependency == [job : Names, requires : Seq(Artifacts)]
Job == [name : Names, artifacts : Seq(Artifacts), deps : Seq(Dependency)]
Release == [job : Names, name : Artifacts]
Pipeline == [fields : BOOLEAN, jobs : Seq(Job), releases : Seq(Release)]

ASSUME InputsAreTyped == Inputs \subseteq Pipeline

VARIABLES
  pipeline,  \* p, which Validate only reads
  errs,      \* the kinds of error that were added
  cycles,    \* the cycles that were reported
  root,      \* the job the loop over p.Jobs is at; 0 before validateGraphs
  color,     \* white, gray or black
  path,      \* the names on the current DFS path
  next,      \* for a name on the path, the dependency its loop is at
  verdict    \* pending, accepted, rejected

vars == <<pipeline, errs, cycles, root, color, path, next, verdict>>

Elements(s) == {s[i] : i \in DOMAIN s}
Repeats(s) == \E i, k \in DOMAIN s : i < k /\ s[i] = s[k]

jobs == pipeline.jobs
JobNames == {jobs[i].name : i \in DOMAIN jobs}

\* jobMap, filled by a loop over p.Jobs: of several jobs of one name the last.
LastNamed(n) ==
  CHOOSE i \in DOMAIN jobs :
    jobs[i].name = n /\ \A k \in DOMAIN jobs : jobs[k].name = n => k <= i

JobMap == [n \in JobNames |-> jobs[LastNamed(n)]]

Init ==
  /\ pipeline \in Inputs
  /\ errs = {}
  /\ cycles = {}
  /\ root = 0
  /\ color = [n \in Names |-> "white"]
  /\ path = <<>>
  /\ next = [n \in Names |-> 0]
  /\ verdict = "pending"

-----------------------------------------------------------------------------
(* The checks before validateGraphs *)

FieldErrors ==
  {e \in {"field", "no jobs", "job repeated", "artifact repeated"} :
     \/ e = "field" /\ ~pipeline.fields
     \/ e = "no jobs" /\ jobs = <<>>
     \/ e = "job repeated" /\ Repeats([i \in DOMAIN jobs |-> jobs[i].name])
     \/ e = "artifact repeated" /\ \E i \in DOMAIN jobs : Repeats(jobs[i].artifacts)}

\* depArtSeen before the i-th name of d.Requires: nothing is ever put in it.
DepArtSeen(d, i) == {}

Needed(j) == [k \in DOMAIN j.deps |-> j.deps[k].job]

DependencyErrors(j) ==
  {e \in {"self", "no such job", "dependency repeated", "require repeated", "not produced"} :
     \/ e = "self" /\ j.name \in Elements(Needed(j))
     \/ e = "no such job" /\ ~(Elements(Needed(j)) \subseteq JobNames)
     \/ e = "dependency repeated" /\ Repeats(Needed(j))
     \/ e = "require repeated" /\
          \E d \in Elements(j.deps) : \E i \in DOMAIN d.requires : d.requires[i] \in DepArtSeen(d, i)
     \/ e = "not produced" /\
          \E d \in Elements(j.deps) :
            d.job \in JobNames /\ ~(Elements(d.requires) \subseteq Elements(JobMap[d.job].artifacts))}

\* validateFields, validateDependencies, validateArtifacts.
Check ==
  /\ root = 0
  /\ errs' = FieldErrors \cup UNION {DependencyErrors(jobs[i]) : i \in DOMAIN jobs}
  /\ root' = 1
  /\ UNCHANGED <<pipeline, cycles, color, path, next, verdict>>

-----------------------------------------------------------------------------
(* validateGraphs *)

\* dfs(n) is called: n is gray, the last on the path, at its first dependency.
Enter(n) ==
  /\ color' = [color EXCEPT ![n] = "gray"]
  /\ path' = Append(path, n)

\* Mutant of Visit: one search, from the first job.
VisitFirst ==
  /\ root \in DOMAIN jobs /\ path = <<>>
  /\ root' = Len(jobs) + 1
  /\ Enter(jobs[root].name) /\ next' = [next EXCEPT ![jobs[root].name] = 1]
  /\ UNCHANGED <<pipeline, errs, cycles, verdict>>

\* The loop over p.Jobs starts a search at the jobs that are still white.
Visit ==
  /\ root \in DOMAIN jobs /\ path = <<>>
  /\ root' = root + 1
  /\ LET n == jobs[root].name IN
     IF color[n] = "white"
     THEN Enter(n) /\ next' = [next EXCEPT ![n] = 1]
     ELSE UNCHANGED <<color, path, next>>
  /\ UNCHANGED <<pipeline, errs, cycles, verdict>>

Top == path[Len(path)]
AtDependency == path # <<>> /\ next[Top] \in DOMAIN JobMap[Top].deps
Looked == JobMap[Top].deps[next[Top]].job

\* A name no job has (validateDependencies has reported it) or a black job.
Skip ==
  /\ AtDependency
  /\ Looked \notin JobNames \/ color[Looked] = "black"
  /\ next' = [next EXCEPT ![Top] = @ + 1]
  /\ UNCHANGED <<pipeline, errs, cycles, root, color, path, verdict>>

Descend ==
  /\ AtDependency
  /\ Looked \in JobNames /\ color[Looked] = "white"
  /\ Enter(Looked)
  /\ next' = [next EXCEPT ![Top] = @ + 1, ![Looked] = 1]
  /\ UNCHANGED <<pipeline, errs, cycles, root, verdict>>

\* Mutant of PathIndex: taken after the job was appended.
PathIndexAfter(n) == 1 + CHOOSE i \in DOMAIN path : path[i] = n

\* Where on the path a gray job stands.
PathIndex(n) == CHOOSE i \in DOMAIN path : path[i] = n

\* A gray job closes a cycle: the path from it on, and the job again.
Report ==
  /\ AtDependency
  /\ Looked \in JobNames /\ color[Looked] = "gray"
  /\ cycles' = cycles \cup {SubSeq(path, PathIndex(Looked), Len(path)) \o <<Looked>>}
  /\ next' = [next EXCEPT ![Top] = @ + 1]
  /\ UNCHANGED <<pipeline, errs, root, color, path, verdict>>

Leave ==
  /\ path # <<>> /\ ~AtDependency
  /\ path' = SubSeq(path, 1, Len(path) - 1)
  /\ color' = [color EXCEPT ![Top] = "black"]
  /\ UNCHANGED <<pipeline, errs, cycles, root, next, verdict>>

-----------------------------------------------------------------------------
\* LookupArtifact: the first job of that name is the one that counts.
LookupArtifact(n, a) ==
  \E i \in DOMAIN jobs :
    /\ jobs[i].name = n /\ \A k \in 1..i - 1 : jobs[k].name # n
    /\ a \in Elements(jobs[i].artifacts)

ReleasesValid ==
  /\ \A r \in Elements(pipeline.releases) : LookupArtifact(r.job, r.name)
  /\ ~Repeats(pipeline.releases)

\* Mutant of Return: validateGraphs has added its errors to a copy.
ReturnWithoutCycles ==
  /\ root = Len(jobs) + 1 /\ path = <<>> /\ verdict = "pending"
  /\ errs' = errs \cup {e \in {"release"} : ~ReleasesValid}
  /\ verdict' = IF errs' = {} THEN "accepted" ELSE "rejected"
  /\ UNCHANGED <<pipeline, cycles, root, color, path, next>>

\* validateGitHub, and the return of Validate.
Return ==
  /\ root = Len(jobs) + 1 /\ path = <<>> /\ verdict = "pending"
  /\ errs' = errs \cup {e \in {"release"} : ~ReleasesValid}
  /\ verdict' = IF errs' = {} /\ cycles = {} THEN "accepted" ELSE "rejected"
  /\ UNCHANGED <<pipeline, cycles, root, color, path, next>>

Next == Check \/ Visit \/ Skip \/ Descend \/ Report \/ Leave \/ Return

Spec == Init /\ [][Next]_vars

-----------------------------------------------------------------------------
(* Properties *)

\* The type invariant.
TypeOK ==
  /\ pipeline \in Inputs
  /\ errs \subseteq {"field", "no jobs", "job repeated", "artifact repeated", "self", "no such job",
                     "dependency repeated", "require repeated", "not produced", "release"}
  /\ cycles \subseteq Seq(Names)
  /\ root \in 0..Len(jobs) + 1
  /\ color \in [Names -> {"white", "gray", "black"}]
  /\ path \in Seq(JobNames)
  /\ next \in [Names -> Nat]
  /\ verdict \in {"pending", "accepted", "rejected"}

\* No set of jobs needs itself: every set has a job that needs none of it.
Needs(n) == Elements(Needed(JobMap[n]))
Acyclic == \A S \in SUBSET JobNames : S # {} => \E n \in S : Needs(n) \cap S = {}

\* The search reports a cycle exactly when there is one: colours, the order of
\* the jobs and searches that end early hide none and invent none.
CyclesFound == verdict # "pending" => (cycles = {} <=> Acyclic)

\* An artifact is kept under the names of its job and of its own (ArtifactPath).
Made(n) == [i \in DOMAIN JobMap[n].artifacts |-> <<n, JobMap[n].artifacts[i]>>]
Required(n) == UNION {{d.job} \X Elements(d.requires) : d \in Elements(JobMap[n].deps)}

\* What Submit may give the engine, which counts len(DependsOn) dependencies
\* for every job and waits for each of them, and what ExecuteJob may rely on.
Runnable ==
  /\ jobs # <<>>
  /\ \A i, k \in DOMAIN jobs : jobs[i].name = jobs[k].name => i = k
  /\ \A n \in JobNames : ~Repeats(Needed(JobMap[n]))
  /\ Schedulable({pipeline}, JobNames, [n \in JobNames |-> pipeline], [n \in JobNames |-> Needs(n)])
  /\ Deliverable(JobNames, [n \in JobNames |-> Made(n)], [n \in JobNames |-> Required(n)])

\* Only pipelines that the engine can run to the end are accepted: Validate gives
\* the scheduler and ExecuteJob what they assume of their input.
AcceptedIsRunnable == verdict = "accepted" => Runnable

\* A reported cycle, such as "a -> b -> a", is one: it ends where it began,
\* passes no job twice in between, and each job in it needs the next.
IsCycle(c) ==
  /\ Len(c) >= 2 /\ c[1] = c[Len(c)]
  /\ \A i, k \in 1..Len(c) - 1 : c[i] = c[k] => i = k
  /\ \A i \in 1..Len(c) - 1 : c[i] \in JobNames /\ c[i + 1] \in Needs(c[i])

CyclesAreReal == \A c \in cycles : IsCycle(c)

\* dfs enters no job that is still on its path, so it recurses no deeper than
\* there are jobs, whatever the cycles of the pipeline.
PathIsSimple ==
  /\ \A i, k \in DOMAIN path : path[i] = path[k] => i = k
  /\ \A n \in Names : color[n] = "gray" <=> n \in Elements(path)

-----------------------------------------------------------------------------
(* The inductive invariant *)

\* A frame is between its first dependency and the end of the list, and the
\* dependency before is the one whose frame is above.
Frames ==
  \A k \in DOMAIN path :
    /\ next[path[k]] \in 1..Len(JobMap[path[k]].deps) + 1
    /\ k < Len(path) => /\ next[path[k]] >= 2
                        /\ JobMap[path[k]].deps[next[path[k]] - 1].job = path[k + 1]

\* While no cycle is found, what a frame has looked at is black, or the frame
\* above; what is black needs only black jobs, and no cycle is among them.
Searched ==
  cycles = {} => \A k \in DOMAIN path : \A i \in 1..next[path[k]] - 1 :
    JobMap[path[k]].deps[i].job \in JobNames =>
      \/ color[JobMap[path[k]].deps[i].job] = "black"
      \/ k < Len(path) /\ JobMap[path[k]].deps[i].job = path[k + 1]

BlackClosed ==
  cycles = {} => \A n \in JobNames : color[n] = "black" =>
    \A m \in Needs(n) \cap JobNames : color[m] = "black"

BlackAcyclic ==
  cycles = {} => \A S \in SUBSET JobNames : S # {} /\ (\A n \in S : color[n] = "black") =>
    \E n \in S : Needs(n) \cap S = {}

\* The loop over p.Jobs leaves no white job behind it.
Roots ==
  /\ \A i \in DOMAIN jobs : i < root => color[jobs[i].name] # "white"
  /\ root = 0 => path = <<>> /\ verdict = "pending"

\* The verdict is that of the errors, which come from the checks made before
\* the search.
Outcome ==
  /\ root > 0 /\ errs = {} => FieldErrors = {} /\ \A i \in DOMAIN jobs : DependencyErrors(jobs[i]) = {}
  /\ verdict = "accepted" => errs = {} /\ cycles = {}
  /\ verdict # "pending" => root = Len(jobs) + 1 /\ path = <<>>

IInv ==
  /\ TypeOK /\ PathIsSimple /\ CyclesAreReal
  /\ Frames /\ Searched /\ BlackClosed /\ BlackAcyclic /\ Roots /\ Outcome
=============================================================================

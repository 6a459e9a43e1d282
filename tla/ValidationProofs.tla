-------------------------- MODULE ValidationProofs --------------------------
(* Theorems about Validation, for every pipeline. *)
EXTENDS Validation, SequenceTheorems, FiniteSetTheorems, WellFoundedInduction, TLAPS

\* The types of the parts of the pipeline that is validated.
LEMMA JobsTyped ==
  ASSUME TypeOK
  PROVE  jobs \in Seq(Job) /\ Len(jobs) \in Nat /\ DOMAIN jobs = 1..Len(jobs) /\ JobNames \subseteq Names
<1>1. pipeline \in Pipeline
  BY InputsAreTyped DEF TypeOK
<1>2. jobs \in Seq(Job)
  BY <1>1 DEF jobs, Pipeline
<1>3. \A i \in 1..Len(jobs) : jobs[i] \in Job
  BY <1>2
<1>4. Len(jobs) \in Nat /\ DOMAIN jobs = 1..Len(jobs)
  BY <1>2, LenProperties
<1>5. \A i \in DOMAIN jobs : jobs[i].name \in Names
  BY <1>3, <1>4 DEF Job
<1>6. QED BY <1>2, <1>4, <1>5 DEF JobNames

\* The map keeps, of every name, a job that has it.
LEMMA MapKeepsJobs ==
  ASSUME TypeOK, NEW n \in JobNames
  PROVE  \E i \in DOMAIN jobs : JobMap[n] = jobs[i] /\ jobs[i].name = n
<1> DEFINE T == {Len(jobs) - i : i \in {k \in DOMAIN jobs : jobs[k].name = n}}
<1>1. T \subseteq Nat /\ T # {}
  BY JobsTyped DEF JobNames
<1>2. PICK x \in T : \A y \in T : <<y, x>> \notin OpToRel(<, Nat)
  BY <1>1, WFMin, NatLessThanWellFounded, Zenon
<1>3. \A y \in T : ~(y < x)
  BY <1>1, <1>2, Zenon DEF OpToRel
<1>4. PICK i \in DOMAIN jobs : jobs[i].name = n /\ x = Len(jobs) - i
  OBVIOUS
<1>5. \A k \in DOMAIN jobs : jobs[k].name = n => k <= i
  <2> SUFFICES ASSUME NEW k \in DOMAIN jobs, jobs[k].name = n PROVE k <= i
    OBVIOUS
  <2>1. Len(jobs) - k \in T
    OBVIOUS
  <2>2. ~(Len(jobs) - k < Len(jobs) - i)
    BY <2>1, <1>3, <1>4
  <2>3. QED BY <2>2, JobsTyped
<1>6. LastNamed(n) \in DOMAIN jobs /\ jobs[LastNamed(n)].name = n
  BY <1>4, <1>5 DEF LastNamed
<1>7. QED BY <1>6 DEF JobMap

\* What a job in the map depends on is a sequence, and Needs are its jobs.
LEMMA MapTyped ==
  ASSUME TypeOK, NEW n \in JobNames
  PROVE  /\ JobMap[n].deps \in Seq(Dependency)
         /\ Len(JobMap[n].deps) \in Nat /\ DOMAIN JobMap[n].deps = 1..Len(JobMap[n].deps)
         /\ \A i \in DOMAIN JobMap[n].deps : JobMap[n].deps[i].job \in Names
         /\ Needs(n) = {JobMap[n].deps[i].job : i \in DOMAIN JobMap[n].deps}
<1>1. JobMap[n] \in Job
  BY MapKeepsJobs, JobsTyped
<1>2. JobMap[n].deps \in Seq(Dependency)
  BY <1>1 DEF Job
<1>3. \A i \in 1..Len(JobMap[n].deps) : JobMap[n].deps[i] \in Dependency
  BY <1>2
<1>4. Needs(n) = {JobMap[n].deps[i].job : i \in DOMAIN JobMap[n].deps}
  BY DEF Needs, Needed, Elements
<1>5. Len(JobMap[n].deps) \in Nat /\ DOMAIN JobMap[n].deps = 1..Len(JobMap[n].deps)
  BY <1>2, LenProperties
<1>6. \A i \in DOMAIN JobMap[n].deps : JobMap[n].deps[i].job \in Names
  BY <1>3, <1>5 DEF Dependency
<1>7. QED BY <1>2, <1>4, <1>5, <1>6

\* Validate only reads the pipeline: what is derived from it does not change.
LEMMA Constancy ==
  ASSUME pipeline' = pipeline
  PROVE  /\ jobs' = jobs /\ JobNames' = JobNames /\ JobMap' = JobMap
         /\ \A n : Needs(n)' = Needs(n)
         /\ \A c : IsCycle(c)' <=> IsCycle(c)
         /\ FieldErrors' = FieldErrors
         /\ \A j : DependencyErrors(j)' = DependencyErrors(j)
<1>1. jobs' = jobs /\ JobNames' = JobNames
  BY DEF jobs, JobNames
<1>2. JobMap' = JobMap
  BY <1>1 DEF JobMap, LastNamed
<1>3. \A n : Needs(n)' = Needs(n)
  BY <1>2 DEF Needs, Needed, Elements
<1>4. \A c : IsCycle(c)' <=> IsCycle(c)
  BY <1>1, <1>3 DEF IsCycle
<1>5. FieldErrors' = FieldErrors
  BY <1>1 DEF FieldErrors
<1>6. \A j : DependencyErrors(j)' = DependencyErrors(j)
  BY <1>1, <1>2 DEF DependencyErrors, Needed, Elements
<1>7. QED BY <1>1, <1>2, <1>3, <1>4, <1>5, <1>6

-----------------------------------------------------------------------------
\* The inductive invariant holds before any check.
LEMMA InitInv == Init => IInv
<1> SUFFICES ASSUME Init PROVE IInv
  OBVIOUS
<1>1. root = 0 /\ path = <<>> /\ cycles = {} /\ errs = {} /\ verdict = "pending"
      /\ color = [n \in Names |-> "white"] /\ next = [n \in Names |-> 0] /\ pipeline \in Inputs
  BY DEF Init
<1>2. jobs \in Seq(Job) /\ Len(jobs) \in Nat /\ DOMAIN jobs = 1..Len(jobs) /\ JobNames \subseteq Names
  <2>1. pipeline \in Pipeline
    BY <1>1, InputsAreTyped
  <2>2. jobs \in Seq(Job)
    BY <2>1 DEF jobs, Pipeline
  <2>3. Len(jobs) \in Nat /\ DOMAIN jobs = 1..Len(jobs) /\ \A i \in 1..Len(jobs) : jobs[i] \in Job
    BY <2>2, LenProperties, ElementOfSeq
  <2>4. QED BY <2>2, <2>3 DEF JobNames, Job
<1>3. TypeOK
  BY <1>1, <1>2 DEF TypeOK
<1>4. PathIsSimple /\ Frames /\ Searched /\ CyclesAreReal
  BY <1>1 DEF PathIsSimple, Frames, Searched, CyclesAreReal, Elements
<1>5. BlackClosed /\ BlackAcyclic
  BY <1>1, <1>2 DEF BlackClosed, BlackAcyclic
<1>6. Roots /\ Outcome
  BY <1>1, <1>2 DEF Roots, Outcome
<1>7. QED BY <1>3, <1>4, <1>5, <1>6 DEF IInv

\* The path: its length, its elements and, if it has any, its top.
LEMMA OnPath ==
  ASSUME TypeOK, PathIsSimple
  PROVE  /\ Len(path) \in Nat /\ DOMAIN path = 1..Len(path)
         /\ \A k \in DOMAIN path : path[k] \in JobNames /\ path[k] \in Names /\ color[path[k]] = "gray"
         /\ path # <<>> => Len(path) \in DOMAIN path /\ Top = path[Len(path)]
<1>1. path \in Seq(JobNames)
  BY DEF TypeOK
<1>2. Len(path) \in Nat /\ DOMAIN path = 1..Len(path) /\ (path # <<>> => Len(path) > 0)
  BY <1>1, LenProperties, EmptySeq
<1>3. \A k \in DOMAIN path : path[k] \in JobNames
  BY <1>1, <1>2, ElementOfSeq
<1>4. \A k \in DOMAIN path : path[k] \in Names
  BY <1>3, JobsTyped
<1>5. \A k \in DOMAIN path : color[path[k]] = "gray"
  BY <1>4 DEF PathIsSimple, Elements
<1>6. QED BY <1>2, <1>3, <1>4, <1>5 DEF Top

\* The dependency the top frame looks at.
LEMMA AtTop ==
  ASSUME TypeOK, PathIsSimple, Frames, path # <<>>
  PROVE  /\ Top \in JobNames /\ Top \in Names
         /\ Len(JobMap[Top].deps) \in Nat
         /\ next[Top] \in 1..Len(JobMap[Top].deps) + 1
         /\ AtDependency <=> next[Top] <= Len(JobMap[Top].deps)
         /\ ~AtDependency => next[Top] = Len(JobMap[Top].deps) + 1
         /\ AtDependency => /\ Looked \in Names /\ Looked \in Needs(Top)
                            /\ JobMap[Top].deps[next[Top]].job = Looked
<1>1. Top \in JobNames /\ Top \in Names
  BY OnPath
<1>2. next[Top] \in 1..Len(JobMap[Top].deps) + 1
  BY OnPath DEF Frames
<1>3. /\ Len(JobMap[Top].deps) \in Nat /\ DOMAIN JobMap[Top].deps = 1..Len(JobMap[Top].deps)
      /\ \A i \in DOMAIN JobMap[Top].deps : JobMap[Top].deps[i].job \in Names
      /\ Needs(Top) = {JobMap[Top].deps[i].job : i \in DOMAIN JobMap[Top].deps}
  BY <1>1, MapTyped
<1>4. AtDependency <=> next[Top] <= Len(JobMap[Top].deps)
  BY <1>2, <1>3 DEF AtDependency
<1>5. QED BY <1>1, <1>2, <1>3, <1>4 DEF Looked, AtDependency

\* A step that keeps the pipeline and the cycles keeps the cycles real.
LEMMA SameCycles ==
  ASSUME CyclesAreReal, pipeline' = pipeline, cycles' = cycles
  PROVE  CyclesAreReal'
BY Constancy DEF CyclesAreReal

\* A step that colours nothing black keeps what is known of black jobs.
LEMMA SameBlack ==
  ASSUME BlackClosed, BlackAcyclic, pipeline' = pipeline, cycles' = {} => cycles = {},
         \A n \in JobNames : color'[n] = "black" <=> color[n] = "black"
  PROVE  BlackClosed' /\ BlackAcyclic'
BY Constancy DEF BlackClosed, BlackAcyclic

-----------------------------------------------------------------------------
\* The checks before the search keep the invariant.
LEMMA CheckInv == ASSUME IInv, Check PROVE IInv'
<1> USE DEF Check, IInv
<1>1. TypeOK'
  <2>1. errs' \subseteq {"field", "no jobs", "job repeated", "artifact repeated", "self", "no such job",
                     "dependency repeated", "require repeated", "not produced", "release"}
    BY DEF FieldErrors, DependencyErrors
  <2>2. root' \in 0..Len(jobs) + 1
    BY JobsTyped
  <2>3. QED BY <2>1, <2>2, Constancy DEF TypeOK
<1>2. PathIsSimple' /\ Frames' /\ Searched'
  BY Constancy DEF PathIsSimple, Frames, Searched, Elements
<1>3. CyclesAreReal' /\ BlackClosed' /\ BlackAcyclic'
  BY SameCycles, SameBlack
<1>4. Roots'
  BY Constancy, JobsTyped DEF Roots
<1>5. Outcome'
  BY Constancy DEF Outcome, Roots
<1>6. QED BY <1>1, <1>2, <1>3, <1>4, <1>5

\* So does the return of Validate.
LEMMA ReturnInv == ASSUME IInv, Return PROVE IInv'
<1> USE DEF Return, IInv
<1>1. TypeOK'
  BY Constancy DEF TypeOK
<1>2. PathIsSimple' /\ Frames' /\ Searched'
  BY Constancy DEF PathIsSimple, Frames, Searched, Elements
<1>3. CyclesAreReal' /\ BlackClosed' /\ BlackAcyclic'
  BY SameCycles, SameBlack
<1>4. Roots' /\ Outcome'
  BY Constancy, JobsTyped DEF Roots, Outcome
<1>5. QED BY <1>1, <1>2, <1>3, <1>4

\* The loop of the top frame goes on to its next dependency.
LEMMA Advance ==
  ASSUME TypeOK, PathIsSimple, Frames, AtDependency,
         pipeline' = pipeline, path' = path, next' = [next EXCEPT ![Top] = @ + 1]
  PROVE  /\ next' \in [Names -> Nat] /\ Frames'
         /\ \A k \in DOMAIN path : next'[path[k]] = IF k = Len(path) THEN next[Top] + 1 ELSE next[path[k]]
<1>1. path # <<>>
  BY DEF AtDependency
<1>2. next \in [Names -> Nat] /\ Top \in Names
  BY <1>1, AtTop DEF TypeOK
<1>3. /\ next[Top] \in 1..Len(JobMap[Top].deps) /\ Len(JobMap[Top].deps) \in Nat
      /\ Len(path) \in DOMAIN path /\ DOMAIN path = 1..Len(path) /\ Top = path[Len(path)]
  BY <1>1, AtTop, OnPath
<1>4. next' \in [Names -> Nat]
  BY <1>2
<1>5. \A k \in DOMAIN path : path[k] \in Names /\ (k # Len(path) => path[k] # Top)
  BY <1>1, <1>3, OnPath DEF PathIsSimple
<1>6. \A k \in DOMAIN path : next'[path[k]] = IF k = Len(path) THEN next[Top] + 1 ELSE next[path[k]]
  BY <1>2, <1>3, <1>5
<1>7. Frames'
  BY <1>3, <1>6, Constancy DEF Frames
<1>8. QED BY <1>4, <1>6, <1>7

\* So does passing over a job that is black or does not exist.
LEMMA SkipInv == ASSUME IInv, Skip PROVE IInv'
<1> USE DEF Skip, IInv
<1>1. path # <<>> /\ AtDependency
  BY DEF AtDependency
<1>2. /\ next' \in [Names -> Nat] /\ Frames'
      /\ \A k \in DOMAIN path : next'[path[k]] = IF k = Len(path) THEN next[Top] + 1 ELSE next[path[k]]
  BY Advance
<1>3. /\ next[Top] \in 1..Len(JobMap[Top].deps) /\ Len(JobMap[Top].deps) \in Nat
      /\ JobMap[Top].deps[next[Top]].job = Looked
  BY <1>1, AtTop
<1>4. TypeOK'
  BY <1>2, Constancy DEF TypeOK
<1>5. PathIsSimple' /\ Outcome' /\ Roots'
  BY Constancy DEF PathIsSimple, Outcome, Roots, Elements
<1>6. CyclesAreReal' /\ BlackClosed' /\ BlackAcyclic'
  BY SameCycles, SameBlack
<1>7. Searched'
  <2> SUFFICES ASSUME cycles = {}, NEW k \in DOMAIN path, NEW i \in 1..next'[path[k]] - 1,
                      JobMap[path[k]].deps[i].job \in JobNames
               PROVE  \/ color[JobMap[path[k]].deps[i].job] = "black"
                      \/ k < Len(path) /\ JobMap[path[k]].deps[i].job = path[k + 1]
    BY Constancy DEF Searched
  <2>1. CASE i \in 1..next[path[k]] - 1
    BY <2>1 DEF Searched
  <2>2. CASE i \notin 1..next[path[k]] - 1
    <3>1. k = Len(path)
      BY <2>2, <1>2
    <3>2. i = next[Top]
      BY <2>2, <3>1, <1>1, <1>2, <1>3, OnPath
    <3>3. QED BY <3>1, <3>2, <1>1, <1>3, OnPath
  <2>3. QED BY <2>1, <2>2
<1>8. QED BY <1>2, <1>4, <1>5, <1>6, <1>7

\* Entering a white job, from the loop over p.Jobs or from the top frame.
LEMMA Push ==
  ASSUME IInv, NEW n \in JobNames, color[n] = "white", Enter(n),
         pipeline' = pipeline, cycles' = cycles, next' \in [Names -> Nat], next'[n] = 1,
         \A k \in DOMAIN path : k < Len(path) => next'[path[k]] = next[path[k]],
         path # <<>> => AtDependency /\ Looked = n /\ next'[Top] = next[Top] + 1
  PROVE  /\ color' \in [Names -> {"white", "gray", "black"}] /\ path' \in Seq(JobNames)
         /\ PathIsSimple' /\ Frames' /\ Searched' /\ CyclesAreReal' /\ BlackClosed' /\ BlackAcyclic'
<1> USE DEF IInv
<1>1. n \in Names /\ color \in [Names -> {"white", "gray", "black"}] /\ path \in Seq(JobNames)
  BY JobsTyped DEF TypeOK
<1>2. color' = [color EXCEPT ![n] = "gray"] /\ path' = Append(path, n)
  BY DEF Enter
<1>3. color' \in [Names -> {"white", "gray", "black"}]
  BY <1>1, <1>2
<1>4. /\ path' \in Seq(JobNames) /\ Len(path) \in Nat /\ Len(path') = Len(path) + 1
      /\ DOMAIN path = 1..Len(path) /\ DOMAIN path' = 1..Len(path) + 1
      /\ \A k \in 1..Len(path) : path'[k] = path[k]
      /\ path'[Len(path) + 1] = n
  BY <1>1, <1>2, AppendProperties, LenProperties
<1>5. \A k \in DOMAIN path : path[k] # n
  BY OnPath
<1>6. PathIsSimple'
  <2>1. Elements(path)' = Elements(path) \cup {n}
    BY <1>4 DEF Elements
  <2>2. \A m \in Names : color'[m] = "gray" <=> m \in Elements(path)'
    BY <2>1, <1>1, <1>2 DEF PathIsSimple
  <2>3. QED BY <2>2, <1>4, <1>5 DEF PathIsSimple
<1>7. CyclesAreReal' /\ BlackClosed' /\ BlackAcyclic'
  <2>1. \A m \in JobNames : color'[m] = "black" <=> color[m] = "black"
    BY <1>1, <1>2, JobsTyped
  <2>2. QED BY <2>1, SameCycles, SameBlack
<1>8. Len(JobMap[n].deps) \in Nat
  BY MapTyped
<1>9. path # <<>> => /\ next[Top] \in 1..Len(JobMap[Top].deps) /\ Len(JobMap[Top].deps) \in Nat
                     /\ JobMap[Top].deps[next[Top]].job = n /\ Len(path) >= 1 /\ Top = path[Len(path)]
  BY AtTop, OnPath
<1>10. \A k \in DOMAIN path : path # <<>>
  BY <1>4
<1>11. Frames'
  <2> SUFFICES ASSUME NEW k \in 1..Len(path) + 1
               PROVE  /\ next'[path'[k]] \in 1..Len(JobMap[path'[k]].deps) + 1
                      /\ k < Len(path) + 1 => /\ next'[path'[k]] >= 2
                                              /\ JobMap[path'[k]].deps[next'[path'[k]] - 1].job = path'[k + 1]
    BY <1>4, Constancy DEF Frames
  <2>1. CASE k = Len(path) + 1
    BY <2>1, <1>4, <1>8
  <2>2. CASE k \in 1..Len(path) /\ k = Len(path)
    <3>1. path # <<>> /\ k \in DOMAIN path
      BY <2>2, <1>4, <1>10
    <3>2. path'[k] = Top /\ path'[k + 1] = n
      BY <2>2, <3>1, <1>4, <1>9
    <3>3. next'[Top] = next[Top] + 1 /\ next[Top] \in 1..Len(JobMap[Top].deps) /\ Len(JobMap[Top].deps) \in Nat
          /\ JobMap[Top].deps[next[Top]].job = n
      BY <3>1, <1>9
    <3>4. next'[Top] \in 1..Len(JobMap[Top].deps) + 1 /\ next'[Top] >= 2 /\ next'[Top] - 1 = next[Top]
      BY <3>3
    <3>5. QED BY <3>2, <3>3, <3>4
  <2>3. CASE k \in 1..Len(path) /\ k < Len(path)
    <3>1. k \in DOMAIN path /\ k + 1 \in 1..Len(path)
      BY <2>3, <1>4
    <3>2. path'[k] = path[k] /\ path'[k + 1] = path[k + 1] /\ next'[path[k]] = next[path[k]]
      BY <2>3, <3>1, <1>4
    <3>3. QED BY <2>3, <3>1, <3>2 DEF Frames
  <2>4. k = Len(path) + 1 \/ (k \in 1..Len(path) /\ k = Len(path)) \/ (k \in 1..Len(path) /\ k < Len(path))
    <3>1. Len(path) \in Nat
      BY <1>4
    <3>2. QED BY <3>1
  <2>5. QED BY <2>1, <2>2, <2>3, <2>4
<1>12. Searched'
  <2> SUFFICES ASSUME cycles = {}, NEW k \in 1..Len(path) + 1, NEW i \in 1..next'[path'[k]] - 1,
                      JobMap[path'[k]].deps[i].job \in JobNames
               PROVE  \/ color'[JobMap[path'[k]].deps[i].job] = "black"
                      \/ k < Len(path) + 1 /\ JobMap[path'[k]].deps[i].job = path'[k + 1]
    BY <1>4, Constancy DEF Searched
  <2>1. CASE k = Len(path) + 1
    BY <2>1, <1>4
  <2>2. CASE k \in 1..Len(path) /\ i \in 1..next[path[k]] - 1
    <3>1. \/ color[JobMap[path[k]].deps[i].job] = "black"
          \/ k < Len(path) /\ JobMap[path[k]].deps[i].job = path[k + 1]
      BY <2>2, <1>4 DEF Searched
    <3>2. JobMap[path[k]].deps[i].job \in Names
      BY <2>2, <1>4, JobsTyped
    <3>3. QED BY <2>2, <3>1, <3>2, <1>1, <1>2, <1>4
  <2>3. CASE k \in 1..Len(path) /\ i \notin 1..next[path[k]] - 1
    <3>1. k = Len(path)
      BY <2>3, <1>4
    <3>2. i = next[Top]
      BY <2>3, <3>1, <1>4, <1>9, <1>10
    <3>3. QED BY <3>1, <3>2, <1>4, <1>9, <1>10
  <2>4. QED BY <2>1, <2>2, <2>3, <1>4
<1>13. QED BY <1>3, <1>4, <1>6, <1>7, <1>11, <1>12

\* So does the loop over p.Jobs, whether it starts a search or not.
LEMMA VisitInv == ASSUME IInv, Visit PROVE IInv'
<1> USE DEF Visit, IInv
<1> DEFINE n == jobs[root].name
<1>1. n \in JobNames /\ n \in Names /\ root \in DOMAIN jobs /\ root \in Nat /\ root + 1 \in 0..Len(jobs) + 1
  BY JobsTyped DEF JobNames
<1>2. color \in [Names -> {"white", "gray", "black"}] /\ next \in [Names -> Nat]
  BY DEF TypeOK
<1>3. CASE color[n] = "white"
  <2>1. Enter(n) /\ next' = [next EXCEPT ![n] = 1]
    BY <1>3
  <2>2. next' \in [Names -> Nat] /\ next'[n] = 1
    BY <2>1, <1>1, <1>2
  <2>3. DOMAIN path = {}
    BY OnPath
  <2>4. /\ color' \in [Names -> {"white", "gray", "black"}] /\ path' \in Seq(JobNames)
        /\ PathIsSimple' /\ Frames' /\ Searched' /\ CyclesAreReal' /\ BlackClosed' /\ BlackAcyclic'
    BY <1>1, <1>3, <2>1, <2>2, <2>3, Push
  <2>5. TypeOK'
    BY <2>2, <2>4, <1>1, Constancy DEF TypeOK
  <2>6. Roots' /\ Outcome'
    <3>1. \A m \in Names : color[m] # "white" => color'[m] # "white"
      BY <2>1, <1>2 DEF Enter
    <3>2. color'[n] # "white"
      BY <2>1, <1>1, <1>2 DEF Enter
    <3>3. \A i \in DOMAIN jobs : jobs[i].name \in Names
      BY JobsTyped DEF JobNames
    <3>4. Roots'
      BY <3>1, <3>2, <3>3, <1>1, JobsTyped, Constancy DEF Roots
    <3>5. Outcome'
      BY <1>1, JobsTyped, Constancy DEF Outcome
    <3>6. QED BY <3>4, <3>5
  <2>7. QED BY <2>4, <2>5, <2>6
<1>4. CASE color[n] # "white"
  <2>1. color' = color /\ path' = path /\ next' = next
    BY <1>4
  <2>2. TypeOK'
    BY <2>1, <1>1, Constancy DEF TypeOK
  <2>3. PathIsSimple' /\ Frames' /\ Searched'
    BY <2>1, Constancy DEF PathIsSimple, Frames, Searched, Elements
  <2>4. CyclesAreReal' /\ BlackClosed' /\ BlackAcyclic'
    BY <2>1, SameCycles, SameBlack
  <2>5. Roots' /\ Outcome'
    BY <2>1, <1>1, <1>4, JobsTyped, Constancy DEF Roots, Outcome
  <2>6. QED BY <2>2, <2>3, <2>4, <2>5
<1>5. QED BY <1>3, <1>4

\* So does the call of dfs for a white dependency.
LEMMA DescendInv == ASSUME IInv, Descend PROVE IInv'
<1> USE DEF Descend, IInv
<1>1. path # <<>> /\ AtDependency
  BY DEF AtDependency
<1>2. Top \in Names /\ Looked \in Names /\ Looked \in JobNames /\ color[Looked] = "white" /\ color[Top] = "gray"
  BY <1>1, AtTop, OnPath
<1>3. next \in [Names -> Nat] /\ color \in [Names -> {"white", "gray", "black"}]
  BY DEF TypeOK
<1>4. next' \in [Names -> Nat] /\ next'[Looked] = 1 /\ next'[Top] = next[Top] + 1
      /\ \A m \in Names : m # Top /\ m # Looked => next'[m] = next[m]
  BY <1>2, <1>3
<1>5. \A k \in DOMAIN path : k < Len(path) => next'[path[k]] = next[path[k]]
  <2> SUFFICES ASSUME NEW k \in DOMAIN path, k < Len(path) PROVE next'[path[k]] = next[path[k]]
    OBVIOUS
  <2>1. path[k] # Top /\ path[k] # Looked /\ path[k] \in Names
    BY <1>1, <1>2, OnPath DEF PathIsSimple
  <2>2. QED BY <2>1, <1>4
<1>6. /\ color' \in [Names -> {"white", "gray", "black"}] /\ path' \in Seq(JobNames)
      /\ PathIsSimple' /\ Frames' /\ Searched' /\ CyclesAreReal' /\ BlackClosed' /\ BlackAcyclic'
  BY <1>1, <1>2, <1>4, <1>5, Push
<1>7. TypeOK'
  BY <1>4, <1>6, Constancy DEF TypeOK
<1>8. Roots'
  <2>1. \A m \in Names : color[m] # "white" => color'[m] # "white"
    BY <1>3 DEF Enter
  <2>2. \A i \in DOMAIN jobs : jobs[i].name \in Names
    BY JobsTyped DEF JobNames
  <2>3. QED BY <2>1, <2>2, <1>1, Constancy DEF Roots
<1>9. Outcome'
  BY <1>1, Constancy DEF Outcome
<1>10. QED BY <1>6, <1>7, <1>8, <1>9

\* The path from a gray job on, closed by that job, is a cycle.
LEMMA ClosesCycle ==
  ASSUME IInv, AtDependency, Looked \in JobNames, color[Looked] = "gray"
  PROVE  LET c == SubSeq(path, PathIndex(Looked), Len(path)) \o <<Looked>>
         IN  c \in Seq(Names) /\ IsCycle(c)
<1> USE DEF IInv
<1> DEFINE m == PathIndex(Looked)
           L == Len(path)
           s == SubSeq(path, m, L)
           c == s \o <<Looked>>
<1>1. path # <<>> /\ L \in Nat /\ L \in DOMAIN path /\ DOMAIN path = 1..L /\ Top = path[L]
  BY OnPath DEF AtDependency
<1>2. Looked \in Names /\ Looked \in Needs(Top)
  BY <1>1, AtTop
<1>3. m \in 1..L /\ path[m] = Looked
  BY <1>1, <1>2 DEF PathIsSimple, Elements, PathIndex
<1>4. /\ s \in Seq(Names) /\ Len(s) = L - m + 1
      /\ \A i \in 1..L - m + 1 : s[i] = path[m + i - 1]
  <2>1. \A i \in m..L : path[i] \in Names
    BY <1>1, <1>3, OnPath
  <2>2. m \in Int /\ L \in Int /\ m <= L
    BY <1>1, <1>3
  <2> HIDE DEF m, L
  <2>3. QED BY <2>1, <2>2, SubSeqProperties
<1>5. /\ <<Looked>> \in Seq(Names) /\ Len(<<Looked>>) = 1 /\ <<Looked>>[1] = Looked
  BY <1>2
<1>6. /\ c \in Seq(Names) /\ Len(c) = L - m + 2
      /\ \A i \in 1..L - m + 1 : c[i] = path[m + i - 1]
      /\ c[L - m + 2] = Looked
  <2> HIDE DEF m, L, s
  <2>1. /\ c \in Seq(Names) /\ Len(c) = Len(s) + 1
        /\ \A i \in 1..Len(s) + 1 : c[i] = IF i <= Len(s) THEN s[i] ELSE <<Looked>>[i - Len(s)]
    BY <1>4, <1>5, ConcatProperties
  <2>2. QED BY <2>1, <1>1, <1>3, <1>4, <1>5
<1>7. Len(c) >= 2 /\ c[1] = c[Len(c)]
  <2> HIDE DEF m, L, c
  <2>1. 1 \in 1..L - m + 1 /\ m + 1 - 1 = m
    BY <1>1, <1>3
  <2>2. c[1] = Looked
    BY <2>1, <1>3, <1>6
  <2>3. c[Len(c)] = Looked /\ Len(c) >= 2
    BY <1>1, <1>3, <1>6
  <2>4. QED BY <2>2, <2>3
<1>8. \A i, k \in 1..Len(c) - 1 : c[i] = c[k] => i = k
  <2> SUFFICES ASSUME NEW i \in 1..Len(c) - 1, NEW k \in 1..Len(c) - 1, c[i] = c[k] PROVE i = k
    OBVIOUS
  <2> HIDE DEF m, L, c
  <2>1. i \in 1..L - m + 1 /\ k \in 1..L - m + 1
    BY <1>1, <1>3, <1>6
  <2>2. path[m + i - 1] = path[m + k - 1]
    BY <2>1, <1>6
  <2>3. m + i - 1 \in 1..L /\ m + k - 1 \in 1..L
    BY <2>1, <1>1, <1>3
  <2>4. m + i - 1 = m + k - 1
    BY <2>2, <2>3, <1>1 DEF PathIsSimple
  <2>5. QED BY <2>4, <1>3, <2>1
<1>9. \A k \in 1..L : k < L => path[k + 1] \in Needs(path[k])
  <2> SUFFICES ASSUME NEW k \in 1..L, k < L PROVE path[k + 1] \in Needs(path[k])
    OBVIOUS
  <2>1. path[k] \in JobNames
    BY <1>1, OnPath
  <2>2. /\ next[path[k]] \in 1..Len(JobMap[path[k]].deps) + 1 /\ next[path[k]] >= 2
        /\ JobMap[path[k]].deps[next[path[k]] - 1].job = path[k + 1]
    BY <1>1 DEF Frames
  <2>3. /\ Len(JobMap[path[k]].deps) \in Nat /\ DOMAIN JobMap[path[k]].deps = 1..Len(JobMap[path[k]].deps)
        /\ Needs(path[k]) = {JobMap[path[k]].deps[i].job : i \in DOMAIN JobMap[path[k]].deps}
    BY <2>1, MapTyped
  <2>4. next[path[k]] - 1 \in DOMAIN JobMap[path[k]].deps
    BY <2>2, <2>3
  <2>5. QED BY <2>2, <2>3, <2>4
<1>10. \A i \in 1..Len(c) - 1 : c[i] \in JobNames /\ c[i + 1] \in Needs(c[i])
  <2> SUFFICES ASSUME NEW i \in 1..Len(c) - 1 PROVE c[i] \in JobNames /\ c[i + 1] \in Needs(c[i])
    OBVIOUS
  <2> HIDE DEF m, L, c
  <2>1. i \in 1..L - m + 1 /\ c[i] = path[m + i - 1] /\ m + i - 1 \in 1..L
    BY <1>1, <1>3, <1>6
  <2>2. c[i] \in JobNames
    BY <2>1, <1>1, OnPath
  <2>3. CASE i = L - m + 1
    <3>1. m + i - 1 = L /\ i + 1 = L - m + 2
      BY <2>3, <1>1, <1>3
    <3>2. c[i] = Top /\ c[i + 1] = Looked
      BY <3>1, <2>1, <1>1, <1>6
    <3>3. QED BY <2>2, <3>2, <1>2
  <2>4. CASE i # L - m + 1
    <3>1. i + 1 \in 1..L - m + 1 /\ m + (i + 1) - 1 = (m + i - 1) + 1 /\ m + i - 1 < L
      BY <2>1, <2>4, <1>1, <1>3
    <3>2. c[i + 1] = path[(m + i - 1) + 1]
      BY <3>1, <1>6
    <3>3. QED BY <2>1, <2>2, <3>1, <3>2, <1>9
  <2>5. QED BY <2>3, <2>4
<1>11. QED BY <1>6, <1>7, <1>8, <1>10 DEF IsCycle

\* So does the report of a cycle.
LEMMA ReportInv == ASSUME IInv, Report PROVE IInv'
<1> USE DEF Report, IInv
<1> DEFINE c == SubSeq(path, PathIndex(Looked), Len(path)) \o <<Looked>>
<1>1. path # <<>> /\ AtDependency
  BY DEF AtDependency
<1>2. c \in Seq(Names) /\ IsCycle(c)
  BY ClosesCycle
<1>3. cycles' = cycles \cup {c}
  OBVIOUS
<1> HIDE DEF c
<1>4. next' \in [Names -> Nat] /\ Frames'
  BY Advance
<1>5. TypeOK'
  <2>1. cycles \subseteq Seq(Names)
    BY DEF TypeOK
  <2>2. cycles' \subseteq Seq(Names)
    BY <2>1, <1>2, <1>3
  <2>3. QED BY <2>2, <1>4, Constancy DEF TypeOK
<1>6. PathIsSimple' /\ Roots'
  BY Constancy DEF PathIsSimple, Roots, Elements
<1>7. CyclesAreReal'
  BY <1>2, <1>3, Constancy DEF CyclesAreReal
<1>8. Searched' /\ BlackClosed' /\ BlackAcyclic'
  BY <1>3 DEF Searched, BlackClosed, BlackAcyclic
<1>9. Outcome'
  BY <1>1, Constancy DEF Outcome
<1>10. QED BY <1>4, <1>5, <1>6, <1>7, <1>8, <1>9

\* So does the end of a call: what becomes black needs only black jobs.
LEMMA LeaveInv == ASSUME IInv, Leave PROVE IInv'
<1> USE DEF Leave, IInv
<1> DEFINE L == Len(path)
<1>1. /\ path \in Seq(JobNames) /\ L \in Nat /\ L \in DOMAIN path /\ DOMAIN path = 1..L /\ Top = path[L]
      /\ color \in [Names -> {"white", "gray", "black"}]
  BY OnPath DEF TypeOK
<1>2. Top \in JobNames /\ Top \in Names /\ color[Top] = "gray"
  BY <1>1, OnPath
<1>3. color' = [color EXCEPT ![Top] = "black"] /\ path' = SubSeq(path, 1, L - 1)
  OBVIOUS
<1>4. color' \in [Names -> {"white", "gray", "black"}]
  BY <1>1, <1>2, <1>3
<1>5. path' \in Seq(JobNames) /\ Len(path') = L - 1 /\ DOMAIN path' = 1..L - 1
      /\ \A k \in 1..L - 1 : path'[k] = path[k]
  <2>1. \A k \in 1..L - 1 : path[k] \in JobNames
    BY <1>1, OnPath
  <2>2. /\ path' \in Seq(JobNames) /\ Len(path') = (IF 1 <= L - 1 THEN L - 1 - 1 + 1 ELSE 0)
        /\ \A k \in 1..L - 1 - 1 + 1 : path'[k] = path[1 + k - 1]
    <3> HIDE DEF L
    <3>1. 1 \in Int /\ L - 1 \in Int
      BY <1>1
    <3>2. QED BY <2>1, <3>1, <1>3, SubSeqProperties
  <2> HIDE DEF L
  <2>3. DOMAIN path' = 1..Len(path')
    BY <2>2, LenProperties
  <2>4. Len(path') = L - 1
    BY <2>2, <1>1
  <2>5. \A k \in 1..L - 1 : k \in 1..L - 1 - 1 + 1 /\ 1 + k - 1 = k
    BY <1>1
  <2>6. QED BY <2>2, <2>3, <2>4, <2>5
<1>6. \A k \in 1..L - 1 : k \in DOMAIN path /\ path[k] # Top /\ path[k] \in Names
  <2>1. \A k \in 1..L - 1 : k \in DOMAIN path /\ k # L
    <3> HIDE DEF L
    <3>1. QED BY <1>1
  <2>2. QED BY <2>1, <1>1, OnPath DEF PathIsSimple
<1> HIDE DEF L
<1>7. TypeOK'
  BY <1>4, <1>5, Constancy DEF TypeOK
<1>8. PathIsSimple'
  <2>1. \A k \in 1..L : k = L \/ k \in 1..L - 1
    BY <1>1
  <2>2. Elements(path)' = Elements(path) \ {Top}
    BY <2>1, <1>1, <1>5, <1>6 DEF Elements
  <2>3. \A m \in Names : color'[m] = "gray" <=> m \in Elements(path)'
    BY <2>2, <1>1, <1>2, <1>3 DEF PathIsSimple
  <2>4. QED BY <2>3, <1>5, <1>6 DEF PathIsSimple
<1>9. CyclesAreReal'
  BY SameCycles
<1>10. Frames'
  <2> SUFFICES ASSUME NEW k \in 1..L - 1
               PROVE  /\ next[path[k]] \in 1..Len(JobMap[path[k]].deps) + 1
                      /\ k < L - 1 => /\ next[path[k]] >= 2
                                      /\ JobMap[path[k]].deps[next[path[k]] - 1].job = path'[k + 1]
    BY <1>5, Constancy DEF Frames
  <2>1. k \in DOMAIN path /\ (k < L - 1 => k < L /\ k + 1 \in 1..L - 1)
    BY <1>1, <1>6
  <2>2. k < L - 1 => path'[k + 1] = path[k + 1]
    BY <2>1, <1>5
  <2>3. QED BY <2>1, <2>2, <1>1 DEF Frames, L
<1>11. Searched'
  <2> SUFFICES ASSUME cycles = {}, NEW k \in 1..L - 1, NEW i \in 1..next[path[k]] - 1,
                      JobMap[path[k]].deps[i].job \in JobNames
               PROVE  \/ color'[JobMap[path[k]].deps[i].job] = "black"
                      \/ k < L - 1 /\ JobMap[path[k]].deps[i].job = path'[k + 1]
    <3>1. \A k \in 1..L - 1 : path'[k] = path[k]
      BY <1>5
    <3>2. DOMAIN path' = 1..L - 1 /\ Len(path') = L - 1 /\ next' = next /\ JobMap' = JobMap
          /\ JobNames' = JobNames /\ cycles' = cycles
      BY <1>5, Constancy
    <3> HIDE DEF Leave, IInv
    <3>3. QED BY <3>1, <3>2 DEF Searched
  <2>1. \/ color[JobMap[path[k]].deps[i].job] = "black"
        \/ k < L /\ JobMap[path[k]].deps[i].job = path[k + 1]
    BY <1>6 DEF Searched, L
  <2>2. CASE color[JobMap[path[k]].deps[i].job] = "black"
    BY <2>2, <1>1, <1>3, JobsTyped
  <2>3. CASE JobMap[path[k]].deps[i].job = path[k + 1] /\ k + 1 = L
    BY <2>3, <1>1, <1>2, <1>3
  <2>4. CASE JobMap[path[k]].deps[i].job = path[k + 1] /\ k < L - 1
    <3>1. k + 1 \in 1..L - 1
      BY <2>4, <1>1
    <3>2. QED BY <3>1, <2>4, <1>5
  <2>5. k + 1 = L \/ k < L - 1
    BY <1>1
  <2>6. QED BY <2>1, <2>2, <2>3, <2>4, <2>5
<1>12. cycles = {} => \A m \in Needs(Top) \cap JobNames : color[m] = "black"
  <2> SUFFICES ASSUME cycles = {}, NEW m \in Needs(Top), m \in JobNames PROVE color[m] = "black"
    OBVIOUS
  <2>1. /\ DOMAIN JobMap[Top].deps = 1..Len(JobMap[Top].deps) /\ Len(JobMap[Top].deps) \in Nat
        /\ Needs(Top) = {JobMap[Top].deps[i].job : i \in DOMAIN JobMap[Top].deps}
    BY <1>2, MapTyped
  <2>2. PICK i \in 1..Len(JobMap[Top].deps) : m = JobMap[Top].deps[i].job
    BY <2>1
  <2>3. next[Top] = Len(JobMap[Top].deps) + 1
    BY AtTop
  <2>4. i \in 1..next[path[L]] - 1
    BY <2>1, <2>3, <1>1
  <2>5. ~(L < L)
    BY <1>1
  <2>6. QED BY <2>2, <2>4, <2>5, <1>1 DEF Searched, L
<1>13. \A n \in Names : color'[n] = "black" <=> color[n] = "black" \/ n = Top
  BY <1>1, <1>2, <1>3
<1>14. BlackClosed'
  BY <1>12, <1>13, JobsTyped, Constancy DEF BlackClosed
<1>15. BlackAcyclic'
  <2> SUFFICES ASSUME cycles = {}, NEW S \in SUBSET JobNames, S # {}, \A n \in S : color'[n] = "black"
               PROVE  \E n \in S : Needs(n) \cap S = {}
    BY Constancy DEF BlackAcyclic
  <2>1. \A n \in S \ {Top} : color[n] = "black"
    BY <1>13, JobsTyped
  <2>2. CASE S = {Top}
    BY <2>2, <1>2, <1>12
  <2>3. CASE S # {Top}
    <3>1. PICK n \in S \ {Top} : Needs(n) \cap (S \ {Top}) = {}
      <4>1. S \ {Top} \in SUBSET JobNames /\ S \ {Top} # {}
        BY <2>3
      <4>2. QED BY <4>1, <2>1 DEF BlackAcyclic
    <3>2. Top \notin Needs(n)
      BY <2>1, <3>1, <1>2 DEF BlackClosed
    <3>3. QED BY <3>1, <3>2
  <2>4. QED BY <2>2, <2>3
<1>16. Roots'
  <2>1. \A m \in Names : color[m] # "white" => color'[m] # "white"
    BY <1>1, <1>3
  <2>2. \A i \in DOMAIN jobs : jobs[i].name \in Names
    BY JobsTyped DEF JobNames
  <2>3. QED BY <2>1, <2>2, Constancy DEF Roots
<1>17. Outcome'
  BY Constancy DEF Outcome
<1>18. QED BY <1>7, <1>8, <1>9, <1>10, <1>11, <1>14, <1>15, <1>16, <1>17
-----------------------------------------------------------------------------
\* The inductive invariant holds at every moment of the validation.
THEOREM SearchInvariant == Spec => []IInv
<1>1. IInv /\ [Next]_vars => IInv'
  <2> SUFFICES ASSUME IInv, [Next]_vars PROVE IInv'
    OBVIOUS
  <2>1. CASE UNCHANGED vars
    <3> USE <2>1 DEF vars, IInv
    <3>1. TypeOK' /\ CyclesAreReal' /\ BlackClosed' /\ BlackAcyclic'
      BY Constancy, SameCycles, SameBlack DEF TypeOK
    <3>2. PathIsSimple' /\ Frames' /\ Searched' /\ Roots' /\ Outcome'
      BY Constancy DEF PathIsSimple, Frames, Searched, Roots, Outcome, Elements
    <3>3. QED BY <3>1, <3>2
  <2>2. QED BY <2>1, CheckInv, VisitInv, SkipInv, DescendInv, ReportInv, LeaveInv, ReturnInv DEF Next
<1>2. QED BY <1>1, InitInv, PTL DEF Spec

\* A cycle among the reported ones is a set of jobs that needs itself.
LEMMA CycleNeedsItself ==
  ASSUME TypeOK, CyclesAreReal, cycles # {}
  PROVE  ~Acyclic
<1>1. PICK c \in cycles : IsCycle(c)
  BY DEF CyclesAreReal
<1>2. c \in Seq(Names) /\ Len(c) \in Nat /\ DOMAIN c = 1..Len(c)
  BY LenProperties DEF TypeOK
<1> DEFINE S == {c[i] : i \in 1..Len(c) - 1}
<1>3. S \in SUBSET JobNames /\ S # {}
  BY <1>1, <1>2 DEF IsCycle
<1>4. \A i \in 1..Len(c) - 1 : Needs(c[i]) \cap S # {}
  <2> SUFFICES ASSUME NEW i \in 1..Len(c) - 1 PROVE c[i + 1] \in Needs(c[i]) /\ c[i + 1] \in S
    OBVIOUS
  <2>1. c[i + 1] \in Needs(c[i]) /\ Len(c) >= 2 /\ c[1] = c[Len(c)]
    BY <1>1 DEF IsCycle
  <2>2. i + 1 \in 1..Len(c) - 1 \/ i + 1 = Len(c)
    <3>1. Len(c) \in Nat
      BY <1>2
    <3> HIDE DEF S
    <3>2. QED BY <3>1
  <2>3. 1 \in 1..Len(c) - 1
    BY <1>2, <2>1
  <2>4. QED BY <2>1, <2>2, <2>3
<1>5. \A n \in S : Needs(n) \cap S # {}
  BY <1>4
<1> HIDE DEF S
<1>6. QED BY <1>3, <1>5 DEF Acyclic

\* When the search is over every job is black, and so all of them are acyclic.
LEMMA SearchIsComplete ==
  ASSUME IInv, verdict # "pending", cycles = {}
  PROVE  Acyclic
<1>1. root = Len(jobs) + 1 /\ path = <<>>
  BY DEF IInv, Outcome
<1>2. \A n \in Names : color[n] # "gray"
  BY <1>1 DEF IInv, PathIsSimple, Elements
<1>3. \A n \in JobNames : color[n] # "white"
  <2>1. \A i \in DOMAIN jobs : i < root
    BY <1>1, JobsTyped DEF IInv
  <2>2. QED BY <2>1 DEF IInv, Roots, JobNames
<1>4. \A n \in JobNames : color[n] = "black"
  BY <1>2, <1>3, JobsTyped DEF IInv, TypeOK
<1>5. QED BY <1>4 DEF IInv, BlackAcyclic, Acyclic

\* Validate reports a cycle exactly when the dependencies have one.
THEOREM FindsExactlyCycles == Spec => []CyclesFound
<1>1. IInv => CyclesFound
  BY SearchIsComplete, CycleNeedsItself DEF IInv, CyclesFound
<1>2. QED BY <1>1, SearchInvariant, PTL

\* What Validate reports as a cycle is one.
THEOREM ReportsRealCycles == Spec => []CyclesAreReal
<1>1. IInv => CyclesAreReal
  BY DEF IInv
<1>2. QED BY <1>1, SearchInvariant, PTL

\* No job is entered twice on a path: the recursion of dfs is bounded.
THEOREM RecursionIsBounded == Spec => []PathIsSimple
<1>1. IInv => PathIsSimple
  BY DEF IInv
<1>2. QED BY <1>1, SearchInvariant, PTL

-----------------------------------------------------------------------------
(* What is accepted is what the engine assumes *)

LEMMA FinitelyManyJobs ==
  ASSUME TypeOK
  PROVE  IsFiniteSet(JobNames)
<1> DEFINE nameOf == [i \in DOMAIN jobs |-> jobs[i].name]
<1>1. DOMAIN jobs = 1..Len(jobs) /\ Len(jobs) \in Nat
  BY JobsTyped
<1>2. IsFiniteSet(DOMAIN jobs)
  BY <1>1, FS_Interval
<1>3. nameOf \in [DOMAIN jobs -> JobNames] /\ \A n \in JobNames : \E i \in DOMAIN jobs : nameOf[i] = n
  BY DEF JobNames
<1>4. nameOf \in Surjection(DOMAIN jobs, JobNames)
  BY <1>3 DEF Surjection
<1>5. QED
  BY <1>2, <1>4, FS_Surjection

\* Pipelines that can be scheduled alone can be scheduled together, as the executor
\* does, which holds the jobs of all of them: a set of jobs in which each needs one of
\* the set would be such a set within one pipeline.
THEOREM ScheduledTogether ==
  ASSUME NEW pipelines, NEW jobset, IsFiniteSet(jobset),
         NEW pipelineOf \in [jobset -> pipelines], NEW deps \in [jobset -> SUBSET jobset],
         \A p \in pipelines :
           LET own == {j \in jobset : pipelineOf[j] = p}
           IN  Schedulable({p}, own, [j \in own |-> p], [j \in own |-> deps[j]])
  PROVE  Schedulable(pipelines, jobset, pipelineOf, deps)
<1> DEFINE Own(p) == {j \in jobset : pipelineOf[j] = p}
<1>1. ASSUME NEW j \in jobset
      PROVE  /\ pipelineOf[j] \in pipelines /\ j \in Own(pipelineOf[j])
             /\ deps[j] \subseteq Own(pipelineOf[j])
  <2> DEFINE p == pipelineOf[j]
  <2>1. p \in pipelines /\ j \in Own(p)
    OBVIOUS
  <2>2. [k \in Own(p) |-> deps[k]] \in [Own(p) -> SUBSET Own(p)]
    BY <2>1 DEF Schedulable
  <2> HIDE DEF p
  <2>3. [k \in Own(p) |-> deps[k]][j] \in SUBSET Own(p)
    BY <2>1, <2>2
  <2>4. QED
    BY <2>1, <2>3 DEF p
<1>2. ASSUME NEW j \in jobset, NEW d \in deps[j] PROVE pipelineOf[d] = pipelineOf[j]
  BY <1>1
<1>3. ASSUME NEW S \in SUBSET jobset, S # {} PROVE \E j \in S : deps[j] \cap S = {}
  <2>1. PICK i \in S : TRUE
    BY <1>3
  <2> DEFINE p == pipelineOf[i]
  <2>2. p \in pipelines /\ i \in Own(p)
    BY <1>1
  <2>3. \A R \in SUBSET Own(p) : R # {} => \E j \in R : [k \in Own(p) |-> deps[k]][j] \cap R = {}
    BY <2>2 DEF Schedulable
  <2> HIDE DEF p
  <2>4. PICK j \in S \cap Own(p) : [k \in Own(p) |-> deps[k]][j] \cap (S \cap Own(p)) = {}
    BY <2>2, <2>3
  <2>5. deps[j] \cap (S \cap Own(p)) = {} /\ pipelineOf[j] = p
    BY <2>4
  <2>6. deps[j] \subseteq Own(p)
    BY <1>1, <2>4, <2>5
  <2>7. QED
    BY <2>4, <2>5, <2>6
<1>4. QED
  BY <1>2, <1>3 DEF Schedulable

\* The artifacts of an accepted pipeline have one producer each, and what is required
\* of a dependency is made by it.
LEMMA AcceptedIsDeliverable ==
  ASSUME IInv, \A i \in DOMAIN jobs : DependencyErrors(jobs[i]) = {}, FieldErrors = {}
  PROVE  Deliverable(JobNames, [n \in JobNames |-> Made(n)], [n \in JobNames |-> Required(n)])
<1>1. ASSUME NEW n \in JobNames
      PROVE  \E i \in DOMAIN jobs : JobMap[n] = jobs[i] /\ jobs[i].name = n
  BY MapKeepsJobs DEF IInv
<1>2. ASSUME NEW j \in JobNames, NEW k \in JobNames,
             NEW m \in DOMAIN Made(j), NEW n \in DOMAIN Made(k), Made(j)[m] = Made(k)[n]
      PROVE  j = k /\ m = n
  <2>1. j = k /\ JobMap[j].artifacts[m] = JobMap[j].artifacts[n]
    BY <1>2 DEF Made
  <2>2. PICK i \in DOMAIN jobs : JobMap[j] = jobs[i]
    BY <1>1
  <2>3. ~Repeats(jobs[i].artifacts)
    BY DEF FieldErrors
  <2>4. DOMAIN Made(j) = DOMAIN jobs[i].artifacts /\ DOMAIN jobs[i].artifacts = 1..Len(jobs[i].artifacts)
        /\ Len(jobs[i].artifacts) \in Nat
    <3>1. jobs[i] \in Job
      BY JobsTyped, ElementOfSeq DEF IInv
    <3>2. jobs[i].artifacts \in Seq(Artifacts)
      BY <3>1 DEF Job
    <3>3. QED
      BY <2>2, <3>2, LenProperties DEF Made
  <2>5. m \in Nat /\ n \in Nat /\ m \in DOMAIN jobs[i].artifacts /\ n \in DOMAIN jobs[i].artifacts
    BY <2>1, <2>4
  <2>6. ~(m < n) /\ ~(n < m)
    BY <2>1, <2>2, <2>3, <2>5 DEF Repeats
  <2>7. QED
    BY <2>1, <2>5, <2>6
<1>3. ASSUME NEW j \in JobNames, NEW a \in Required(j)
      PROVE  \E k \in JobNames \ {j} : \E m \in DOMAIN Made(k) : Made(k)[m] = a
  <2>1. PICK i \in DOMAIN jobs : JobMap[j] = jobs[i] /\ jobs[i].name = j
    BY <1>1
  <2>2. PICK d \in Elements(jobs[i].deps) : a \in {d.job} \X Elements(d.requires)
    BY <1>3, <2>1 DEF Required
  <2>3. PICK art \in Elements(d.requires) : a = <<d.job, art>>
    BY <2>2
  <2>4. d.job \in Elements(Needed(jobs[i]))
    BY DEF Elements, Needed
  <2>5. d.job \in JobNames /\ d.job # j
    BY <2>1, <2>4 DEF DependencyErrors
  <2>6. art \in Elements(JobMap[d.job].artifacts)
    BY <2>3, <2>5 DEF DependencyErrors
  <2>7. PICK m \in DOMAIN JobMap[d.job].artifacts : JobMap[d.job].artifacts[m] = art
    BY <2>6 DEF Elements
  <2>8. m \in DOMAIN Made(d.job) /\ Made(d.job)[m] = a
    BY <2>3, <2>7 DEF Made
  <2>9. QED
    BY <2>5, <2>8
<1>4. QED
  BY <1>2, <1>3 DEF Deliverable

\* A pipeline Validate accepts is one the executor can run to its end: it is what the
\* scheduler assumes of its graph and ExecuteJob of its artifacts.
THEOREM AcceptedCanRun == Spec => []AcceptedIsRunnable
<1>1. IInv => AcceptedIsRunnable
  <2> SUFFICES ASSUME IInv, verdict = "accepted" PROVE Runnable
    BY DEF AcceptedIsRunnable
  <2>1. errs = {} /\ cycles = {} /\ root > 0
    BY JobsTyped DEF IInv, Outcome
  <2>2. FieldErrors = {} /\ \A i \in DOMAIN jobs : DependencyErrors(jobs[i]) = {}
    BY <2>1 DEF IInv, Outcome
  <2>3. jobs # <<>> /\ ~Repeats([i \in DOMAIN jobs |-> jobs[i].name])
    BY <2>2 DEF FieldErrors
  <2>4. \A i, k \in DOMAIN jobs : jobs[i].name = jobs[k].name => i = k
    BY <2>3, JobsTyped DEF Repeats, IInv
  <2>5. \A i \in DOMAIN jobs : Elements(Needed(jobs[i])) \subseteq JobNames /\ ~Repeats(Needed(jobs[i]))
    BY <2>2 DEF DependencyErrors
  <2>6. \A n \in JobNames : Needs(n) \subseteq JobNames /\ ~Repeats(Needed(JobMap[n]))
    BY <2>5, MapKeepsJobs DEF IInv, Needs
  <2>7. Acyclic
    BY <2>1, SearchIsComplete
  <2>8. Schedulable({pipeline}, JobNames, [n \in JobNames |-> pipeline], [n \in JobNames |-> Needs(n)])
    <3> HIDE DEF Needs
    <3>1. IsFiniteSet(JobNames)
      BY FinitelyManyJobs DEF IInv
    <3>2. [n \in JobNames |-> Needs(n)] \in [JobNames -> SUBSET JobNames]
      BY <2>6
    <3>3. \A j \in JobNames : \A d \in [n \in JobNames |-> Needs(n)][j] :
            [n \in JobNames |-> pipeline][d] = [n \in JobNames |-> pipeline][j]
      BY <2>6
    <3>4. \A S \in SUBSET JobNames : S # {} => \E j \in S : [n \in JobNames |-> Needs(n)][j] \cap S = {}
      BY <2>7 DEF Acyclic
    <3>5. QED
      BY <3>1, <3>2, <3>3, <3>4 DEF Schedulable
  <2>9. QED BY <2>2, <2>3, <2>4, <2>6, <2>8, AcceptedIsDeliverable DEF Runnable
<1>2. QED BY <1>1, SearchInvariant, PTL
=============================================================================

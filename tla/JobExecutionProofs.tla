------------------------- MODULE JobExecutionProofs -------------------------
(* TLAPS proofs about JobExecution, for any jobs, steps and artifacts. *)
EXTENDS JobExecution, TLAPS

\* What Validate leaves of the jobs.
LEMMA Constants ==
  /\ Steps \in [Jobs -> Nat] /\ HasSource \in BOOLEAN
  /\ Makes \in [Jobs -> Seq(Artifacts)] /\ Needs \in [Jobs -> Seq(Artifacts)]
  /\ \A j, k \in Jobs : \A m \in DOMAIN Makes[j], n \in DOMAIN Makes[k] :
       Makes[j][m] = Makes[k][n] => j = k /\ m = n
  /\ \A j \in Jobs : \A n \in DOMAIN Needs[j] :
       \E k \in Jobs \ {j} : \E m \in DOMAIN Makes[k] : Makes[k][m] = Needs[j][n]
<1> DEFINE needs == [j \in Jobs |-> {Needs[j][n] : n \in DOMAIN Needs[j]}]
<1>1. Deliverable(Jobs, Makes, needs)
  BY JobConstants
<1>2. \A j \in Jobs : \A n \in DOMAIN Needs[j] : Needs[j][n] \in needs[j]
  OBVIOUS
<1> HIDE DEF needs
<1>3. \A j \in Jobs : \A n \in DOMAIN Needs[j] :
        \E k \in Jobs \ {j} : \E m \in DOMAIN Makes[k] : Makes[k][m] = Needs[j][n]
  BY <1>1, <1>2 DEF Deliverable
<1>4. QED
  BY <1>1, <1>3, JobConstants DEF Deliverable

\* What a job makes and needs are artifacts, at the positions 1 to the length.
LEMMA Lists ==
  ASSUME NEW j \in Jobs
  PROVE  /\ Len(Makes[j]) \in Nat /\ DOMAIN Makes[j] = 1..Len(Makes[j])
         /\ Len(Needs[j]) \in Nat /\ DOMAIN Needs[j] = 1..Len(Needs[j])
         /\ \A m \in 1..Len(Makes[j]) : Makes[j][m] \in Artifacts
         /\ \A n \in 1..Len(Needs[j]) : Needs[j][n] \in Artifacts
  BY Constants

\* TypeOK is preserved by every step.
LEMMA TypeStep == TypeOK /\ [Next]_vars => TypeOK'
<1> SUFFICES ASSUME TypeOK, [Next]_vars PROVE TypeOK'
  OBVIOUS
<1> USE DEF TypeOK
<1>1. ASSUME NEW j \in Jobs, Begin(j) PROVE TypeOK'
  BY <1>1, Constants DEF Begin, Go, Fail, Places, jobVars, dockerVars, insideVars, sourceVars
<1>2. ASSUME NEW j \in Jobs, Create(j) PROVE TypeOK'
  BY <1>2, Constants DEF Create, Go, Fail, Places, jobVars, dockerVars, insideVars, sourceVars
<1>3. ASSUME NEW j \in Jobs, CreateFails(j) PROVE TypeOK'
  <2>1. container' \in [Jobs -> {"none", "created", "running", "removed"}] /\ unanswered' \in SUBSET Jobs
    BY <1>3 DEF CreateFails
  <2> QED
    BY <1>3, <2>1 DEF CreateFails, Go, Fail, Places, jobVars, dockerVars, insideVars, sourceVars
<1>4. ASSUME NEW j \in Jobs, Start(j) PROVE TypeOK'
  BY <1>4, Constants DEF Start, Go, Fail, Places, jobVars, dockerVars, insideVars, sourceVars
<1>5. ASSUME NEW j \in Jobs, StartFails(j) PROVE TypeOK'
  BY <1>5, Constants DEF StartFails, Go, Fail, Places, jobVars, dockerVars, insideVars, sourceVars
<1>6. ASSUME NEW j \in Jobs, Discard(j) PROVE TypeOK'
  <2>1. container' \in [Jobs -> {"none", "created", "running", "removed"}] /\ refused' \in SUBSET Jobs
    BY <1>6 DEF Discard
  <2> QED
    BY <1>6, <2>1 DEF Discard, Go, Fail, Places, jobVars, dockerVars, insideVars, sourceVars
<1>7. ASSUME NEW j \in Jobs, Clone(j) PROVE TypeOK'
  BY <1>7, Constants DEF Clone, Go, Fail, Places, jobVars, dockerVars, insideVars, sourceVars
<1>8. ASSUME NEW j \in Jobs, CloneFails(j) PROVE TypeOK'
  BY <1>8, Constants DEF CloneFails, Go, Fail, Places, jobVars, dockerVars, insideVars, sourceVars
<1>9. ASSUME NEW j \in Jobs, CopyTree(j) PROVE TypeOK'
  BY <1>9, Constants DEF CopyTree, Go, Fail, Places, jobVars, dockerVars, insideVars, sourceVars
<1>10. ASSUME NEW j \in Jobs, CopyTreeFails(j) PROVE TypeOK'
  <2>1. /\ tree' \in [Jobs -> BOOLEAN]
        /\ stream' \in [Jobs -> {"none", "streaming", "read", "cut", "broken", "ended"}]
    BY <1>10 DEF CopyTreeFails
  <2> QED
    BY <1>10, <2>1 DEF CopyTreeFails, Go, Fail, Places, jobVars, dockerVars, insideVars, sourceVars
<1>11. ASSUME NEW j \in Jobs, CopyNeed(j) PROVE TypeOK'
  <2>1. Needs[j][pos[j]] \in Artifacts
    BY <1>11, Lists DEF CopyNeed
  <2>2. inside' \in [Jobs -> [Artifacts -> {"no", "part", "whole"}]]
    BY <1>11, <2>1 DEF CopyNeed
  <2> QED
    BY <1>11, <2>2, Lists DEF CopyNeed, Go, Fail, Places, jobVars, dockerVars, insideVars, sourceVars
<1>12. ASSUME NEW j \in Jobs, CopyNeedFails(j) PROVE TypeOK'
  <2>1. Needs[j][pos[j]] \in Artifacts
    BY <1>12, Lists DEF CopyNeedFails
  <2>2. inside' \in [Jobs -> [Artifacts -> {"no", "part", "whole"}]]
    <3>1. CASE UNCHANGED inside
      BY <3>1
    <3>2. CASE /\ store[Needs[j][pos[j]]] # "absent"
               /\ \E c \in {"part", store[Needs[j][pos[j]]]} :
                    inside' = [inside EXCEPT ![j][Needs[j][pos[j]]] = c]
      <4>1. PICK c \in {"part", store[Needs[j][pos[j]]]} :
              inside' = [inside EXCEPT ![j][Needs[j][pos[j]]] = c]
        BY <3>2
      <4>2. c \in {"part", "whole"}
        BY <2>1, <3>2
      <4> QED
        BY <2>1, <4>1, <4>2
    <3> QED
      BY <1>12, <3>1, <3>2 DEF CopyNeedFails
  <2> QED
    BY <1>12, <2>2 DEF CopyNeedFails, Go, Fail, Places, jobVars, dockerVars, insideVars, sourceVars
<1>13. ASSUME NEW j \in Jobs, NeedsDone(j) PROVE TypeOK'
  <2>1. 1 \in 1..(Steps[j] + 1)
    BY Constants
  <2>2. /\ at' = [at EXCEPT ![j] = "steps"] /\ pos' = [pos EXCEPT ![j] = 1]
        /\ UNCHANGED <<cancelled, failed, dockerVars, insideVars, sourceVars, store, served>>
    BY <1>13 DEF NeedsDone, Go
  <2> QED
    BY <2>1, <2>2 DEF Places, jobVars, dockerVars, insideVars, sourceVars
<1>14. ASSUME NEW j \in Jobs, StepBegins(j) PROVE TypeOK'
  BY <1>14, Constants DEF StepBegins, Go, Fail, Places, jobVars, dockerVars, insideVars, sourceVars
<1>15. ASSUME NEW j \in Jobs, StepRefused(j) PROVE TypeOK'
  BY <1>15, Constants, SMTT(30) DEF StepRefused, Go, Fail, Places, jobVars, dockerVars, insideVars, sourceVars
<1>16. ASSUME NEW j \in Jobs, StepEnds(j) PROVE TypeOK'
  <2>1. ran' \in [Jobs -> Nat]
    BY <1>16 DEF StepEnds
  <2>2. pos' \in [Jobs -> Nat] /\ at' \in [Jobs -> Places]
    BY <1>16 DEF StepEnds, Go, Places
  <2> QED
    BY <1>16, <2>1, <2>2, Constants DEF StepEnds, Go, Fail, Places, jobVars, dockerVars, insideVars, sourceVars
<1>17. ASSUME NEW j \in Jobs, StepFails(j) PROVE TypeOK'
  BY <1>17, Constants DEF StepFails, Go, Fail, Places, jobVars, dockerVars, insideVars, sourceVars
<1>18. ASSUME NEW j \in Jobs, StepsDone(j) PROVE TypeOK'
  BY <1>18, Constants DEF StepsDone, Go, Fail, Places, jobVars, dockerVars, insideVars, sourceVars
<1>19. ASSUME NEW j \in Jobs, OpenArtifact(j) PROVE TypeOK'
  <2>1. Makes[j][pos[j]] \in Artifacts /\ Len(Makes[j]) \in Nat
    BY <1>19, Lists DEF OpenArtifact
  <2>2. store' \in [Artifacts -> {"absent", "part", "whole"}]
    BY <1>19, <2>1 DEF OpenArtifact
  <2> QED
    BY <1>19, <2>1, <2>2 DEF OpenArtifact, Go, Fail, Places, jobVars, dockerVars, insideVars, sourceVars
<1>20. ASSUME NEW j \in Jobs, OpenArtifactFails(j) PROVE TypeOK'
  BY <1>20, Constants DEF OpenArtifactFails, Go, Fail, Places, jobVars, dockerVars, insideVars, sourceVars
<1>21. ASSUME NEW j \in Jobs, CopyArtifact(j) PROVE TypeOK'
  <2>1. Makes[j][pos[j]] \in Artifacts /\ Len(Makes[j]) \in Nat
    BY <1>21, Lists DEF CopyArtifact
  <2>2. store' \in [Artifacts -> {"absent", "part", "whole"}]
    BY <1>21, <2>1 DEF CopyArtifact
  <2> QED
    BY <1>21, <2>1, <2>2 DEF CopyArtifact, Go, Fail, Places, jobVars, dockerVars, insideVars, sourceVars
<1>22. ASSUME NEW j \in Jobs, CopyArtifactFails(j) PROVE TypeOK'
  <2>1. Makes[j][pos[j]] \in Artifacts /\ Len(Makes[j]) \in Nat
    BY <1>22, Lists DEF CopyArtifactFails
  <2>2. store' \in [Artifacts -> {"absent", "part", "whole"}]
    BY <1>22, <2>1 DEF CopyArtifactFails
  <2> QED
    BY <1>22, <2>1, <2>2 DEF CopyArtifactFails, Go, Fail, Places, jobVars, dockerVars, insideVars, sourceVars
<1>23. ASSUME NEW j \in Jobs, MakesDone(j) PROVE TypeOK'
  BY <1>23, Constants DEF MakesDone, Go, Fail, Places, jobVars, dockerVars, insideVars, sourceVars
<1>24. ASSUME NEW j \in Jobs, Remove(j) PROVE TypeOK'
  <2>1. CASE container' = [container EXCEPT ![j] = "removed"] /\ UNCHANGED refused
    BY <1>24, <2>1 DEF Remove, Go, Fail, Places, jobVars, dockerVars, insideVars, sourceVars
  <2>2. CASE refused' = refused \cup {j} /\ UNCHANGED container
    BY <1>24, <2>2 DEF Remove, Go, Fail, Places, jobVars, dockerVars, insideVars, sourceVars
  <2> QED
    BY <1>24, <2>1, <2>2 DEF Remove
<1>25. ASSUME NEW j \in Jobs, StreamBreaks(j) PROVE TypeOK'
  BY <1>25, Constants DEF StreamBreaks, Go, Fail, Places, jobVars, dockerVars, insideVars, sourceVars
<1>26. ASSUME NEW j \in Jobs, StreamEnds(j) PROVE TypeOK'
  BY <1>26, Constants DEF StreamEnds, Go, Fail, Places, jobVars, dockerVars, insideVars, sourceVars
<1>27. ASSUME Cancel PROVE TypeOK'
  BY <1>27 DEF Cancel, jobVars, dockerVars, insideVars, sourceVars
<1>28. ASSUME NEW a \in Artifacts, Serve(a) PROVE TypeOK'
  BY <1>28 DEF Serve, jobVars, dockerVars, insideVars, sourceVars
<1>29. CASE UNCHANGED vars
  BY <1>29 DEF vars, jobVars, dockerVars, insideVars, sourceVars
<1> QED
  BY <1>1, <1>2, <1>3, <1>4, <1>5, <1>6, <1>7, <1>8, <1>9, <1>10, <1>11, <1>12, <1>13, <1>14, <1>15, <1>16, <1>17, <1>18, <1>19, <1>20, <1>21, <1>22, <1>23, <1>24, <1>25, <1>26, <1>27, <1>28, <1>29 DEF Next, ExecuteJob

\* A job has an Execution exactly between Create and its removal.
LEMMA OwnershipStep == (TypeOK /\ StartedIsRemoved /\ \A k \in Jobs : Ownership(k)) /\ [Next]_vars => (StartedIsRemoved /\ \A k \in Jobs : Ownership(k))'
<1> SUFFICES ASSUME (TypeOK /\ StartedIsRemoved /\ \A k \in Jobs : Ownership(k)), [Next]_vars PROVE (StartedIsRemoved /\ \A k \in Jobs : Ownership(k))'
  OBVIOUS
<1>1. ASSUME NEW j \in Jobs, Begin(j) PROVE (StartedIsRemoved /\ \A k \in Jobs : Ownership(k))'
  BY <1>1 DEF Begin, Go, Fail, Ownership, StartedIsRemoved, TypeOK, Places, jobVars, dockerVars, insideVars, sourceVars
<1>2. ASSUME NEW j \in Jobs, Create(j) PROVE (StartedIsRemoved /\ \A k \in Jobs : Ownership(k))'
  BY <1>2 DEF Create, Go, Fail, Ownership, StartedIsRemoved, TypeOK, Places, jobVars, dockerVars, insideVars, sourceVars
<1>3. ASSUME NEW j \in Jobs, CreateFails(j) PROVE (StartedIsRemoved /\ \A k \in Jobs : Ownership(k))'
  BY <1>3 DEF CreateFails, Go, Fail, Ownership, StartedIsRemoved, TypeOK, Places, jobVars, dockerVars, insideVars, sourceVars
<1>4. ASSUME NEW j \in Jobs, Start(j) PROVE (StartedIsRemoved /\ \A k \in Jobs : Ownership(k))'
  BY <1>4 DEF Start, Go, Fail, Ownership, StartedIsRemoved, TypeOK, Places, jobVars, dockerVars, insideVars, sourceVars
<1>5. ASSUME NEW j \in Jobs, StartFails(j) PROVE (StartedIsRemoved /\ \A k \in Jobs : Ownership(k))'
  BY <1>5 DEF StartFails, Go, Fail, Ownership, StartedIsRemoved, TypeOK, Places, jobVars, dockerVars, insideVars, sourceVars
<1>6. ASSUME NEW j \in Jobs, Discard(j) PROVE (StartedIsRemoved /\ \A k \in Jobs : Ownership(k))'
  BY <1>6 DEF Discard, Go, Fail, Ownership, StartedIsRemoved, TypeOK, Places, jobVars, dockerVars, insideVars, sourceVars
<1>7. ASSUME NEW j \in Jobs, Clone(j) PROVE (StartedIsRemoved /\ \A k \in Jobs : Ownership(k))'
  BY <1>7 DEF Clone, Go, Fail, Ownership, StartedIsRemoved, TypeOK, Places, jobVars, dockerVars, insideVars, sourceVars
<1>8. ASSUME NEW j \in Jobs, CloneFails(j) PROVE (StartedIsRemoved /\ \A k \in Jobs : Ownership(k))'
  BY <1>8 DEF CloneFails, Go, Fail, Ownership, StartedIsRemoved, TypeOK, Places, jobVars, dockerVars, insideVars, sourceVars
<1>9. ASSUME NEW j \in Jobs, CopyTree(j) PROVE (StartedIsRemoved /\ \A k \in Jobs : Ownership(k))'
  BY <1>9 DEF CopyTree, Go, Fail, Ownership, StartedIsRemoved, TypeOK, Places, jobVars, dockerVars, insideVars, sourceVars
<1>10. ASSUME NEW j \in Jobs, CopyTreeFails(j) PROVE (StartedIsRemoved /\ \A k \in Jobs : Ownership(k))'
  BY <1>10 DEF CopyTreeFails, Go, Fail, Ownership, StartedIsRemoved, TypeOK, Places, jobVars, dockerVars, insideVars, sourceVars
<1>11. ASSUME NEW j \in Jobs, CopyNeed(j) PROVE (StartedIsRemoved /\ \A k \in Jobs : Ownership(k))'
  BY <1>11 DEF CopyNeed, Go, Fail, Ownership, StartedIsRemoved, TypeOK, Places, jobVars, dockerVars, insideVars, sourceVars
<1>12. ASSUME NEW j \in Jobs, CopyNeedFails(j) PROVE (StartedIsRemoved /\ \A k \in Jobs : Ownership(k))'
  BY <1>12 DEF CopyNeedFails, Go, Fail, Ownership, StartedIsRemoved, TypeOK, Places, jobVars, dockerVars, insideVars, sourceVars
<1>13. ASSUME NEW j \in Jobs, NeedsDone(j) PROVE (StartedIsRemoved /\ \A k \in Jobs : Ownership(k))'
  BY <1>13 DEF NeedsDone, Go, Fail, Ownership, StartedIsRemoved, TypeOK, Places, jobVars, dockerVars, insideVars, sourceVars
<1>14. ASSUME NEW j \in Jobs, StepBegins(j) PROVE (StartedIsRemoved /\ \A k \in Jobs : Ownership(k))'
  BY <1>14 DEF StepBegins, Go, Fail, Ownership, StartedIsRemoved, TypeOK, Places, jobVars, dockerVars, insideVars, sourceVars
<1>15. ASSUME NEW j \in Jobs, StepRefused(j) PROVE (StartedIsRemoved /\ \A k \in Jobs : Ownership(k))'
  BY <1>15 DEF StepRefused, Go, Fail, Ownership, StartedIsRemoved, TypeOK, Places, jobVars, dockerVars, insideVars, sourceVars
<1>16. ASSUME NEW j \in Jobs, StepEnds(j) PROVE (StartedIsRemoved /\ \A k \in Jobs : Ownership(k))'
  BY <1>16 DEF StepEnds, Go, Fail, Ownership, StartedIsRemoved, TypeOK, Places, jobVars, dockerVars, insideVars, sourceVars
<1>17. ASSUME NEW j \in Jobs, StepFails(j) PROVE (StartedIsRemoved /\ \A k \in Jobs : Ownership(k))'
  BY <1>17 DEF StepFails, Go, Fail, Ownership, StartedIsRemoved, TypeOK, Places, jobVars, dockerVars, insideVars, sourceVars
<1>18. ASSUME NEW j \in Jobs, StepsDone(j) PROVE (StartedIsRemoved /\ \A k \in Jobs : Ownership(k))'
  BY <1>18 DEF StepsDone, Go, Fail, Ownership, StartedIsRemoved, TypeOK, Places, jobVars, dockerVars, insideVars, sourceVars
<1>19. ASSUME NEW j \in Jobs, OpenArtifact(j) PROVE (StartedIsRemoved /\ \A k \in Jobs : Ownership(k))'
  BY <1>19 DEF OpenArtifact, Go, Fail, Ownership, StartedIsRemoved, TypeOK, Places, jobVars, dockerVars, insideVars, sourceVars
<1>20. ASSUME NEW j \in Jobs, OpenArtifactFails(j) PROVE (StartedIsRemoved /\ \A k \in Jobs : Ownership(k))'
  BY <1>20 DEF OpenArtifactFails, Go, Fail, Ownership, StartedIsRemoved, TypeOK, Places, jobVars, dockerVars, insideVars, sourceVars
<1>21. ASSUME NEW j \in Jobs, CopyArtifact(j) PROVE (StartedIsRemoved /\ \A k \in Jobs : Ownership(k))'
  BY <1>21 DEF CopyArtifact, Go, Fail, Ownership, StartedIsRemoved, TypeOK, Places, jobVars, dockerVars, insideVars, sourceVars
<1>22. ASSUME NEW j \in Jobs, CopyArtifactFails(j) PROVE (StartedIsRemoved /\ \A k \in Jobs : Ownership(k))'
  BY <1>22 DEF CopyArtifactFails, Go, Fail, Ownership, StartedIsRemoved, TypeOK, Places, jobVars, dockerVars, insideVars, sourceVars
<1>23. ASSUME NEW j \in Jobs, MakesDone(j) PROVE (StartedIsRemoved /\ \A k \in Jobs : Ownership(k))'
  BY <1>23 DEF MakesDone, Go, Fail, Ownership, StartedIsRemoved, TypeOK, Places, jobVars, dockerVars, insideVars, sourceVars
<1>24. ASSUME NEW j \in Jobs, Remove(j) PROVE (StartedIsRemoved /\ \A k \in Jobs : Ownership(k))'
  BY <1>24 DEF Remove, Go, Fail, Ownership, StartedIsRemoved, TypeOK, Places, jobVars, dockerVars, insideVars, sourceVars
<1>25. ASSUME NEW j \in Jobs, StreamBreaks(j) PROVE (StartedIsRemoved /\ \A k \in Jobs : Ownership(k))'
  BY <1>25 DEF StreamBreaks, Go, Fail, Ownership, StartedIsRemoved, TypeOK, Places, jobVars, dockerVars, insideVars, sourceVars
<1>26. ASSUME NEW j \in Jobs, StreamEnds(j) PROVE (StartedIsRemoved /\ \A k \in Jobs : Ownership(k))'
  BY <1>26 DEF StreamEnds, Go, Fail, Ownership, StartedIsRemoved, TypeOK, Places, jobVars, dockerVars, insideVars, sourceVars
<1>27. ASSUME Cancel PROVE (StartedIsRemoved /\ \A k \in Jobs : Ownership(k))'
  BY <1>27 DEF Cancel, Ownership, StartedIsRemoved, TypeOK, jobVars, dockerVars, insideVars, sourceVars
<1>28. ASSUME NEW a \in Artifacts, Serve(a) PROVE (StartedIsRemoved /\ \A k \in Jobs : Ownership(k))'
  BY <1>28 DEF Serve, Ownership, StartedIsRemoved, TypeOK, jobVars, dockerVars, insideVars, sourceVars
<1>29. CASE UNCHANGED vars
  BY <1>29 DEF vars, Ownership, StartedIsRemoved, TypeOK, jobVars, dockerVars, insideVars, sourceVars
<1> QED
  BY <1>1, <1>2, <1>3, <1>4, <1>5, <1>6, <1>7, <1>8, <1>9, <1>10, <1>11, <1>12, <1>13, <1>14, <1>15, <1>16, <1>17, <1>18, <1>19, <1>20, <1>21, <1>22, <1>23, <1>24, <1>25, <1>26, <1>27, <1>28, <1>29 DEF Next, ExecuteJob

\* An artifact that is needed has a producer in the pipeline.
LEMMA Producers ==
  ASSUME NEW j \in Jobs, NEW n \in DOMAIN Needs[j]
  PROVE  /\ ProducerOf(Needs[j][n]) \in Jobs
         /\ \E m \in DOMAIN Makes[ProducerOf(Needs[j][n])] :
              Makes[ProducerOf(Needs[j][n])][m] = Needs[j][n]
<1>1. \E k \in Jobs : \E m \in DOMAIN Makes[k] : Makes[k][m] = Needs[j][n]
  BY Constants
<1> QED
  BY <1>1 DEF ProducerOf

\* What a job that has begun needs is whole in the store.
LEMMA NeededIsWhole ==
  ASSUME IInv, NEW j \in Jobs, at[j] # "waiting", NEW n \in DOMAIN Needs[j]
  PROVE  store[Needs[j][n]] = "whole"
<1> DEFINE k == ProducerOf(Needs[j][n])
<1>1. k \in Jobs /\ Succeeded(k)
  BY Producers DEF IInv, Begun
<1>2. PICK m \in DOMAIN Makes[k] : Makes[k][m] = Needs[j][n]
  BY Producers
<1>3. Whole(Makes[k], Len(Makes[k]) + 1, store)
  BY <1>1 DEF IInv, Passed, Past, Succeeded
<1>4. m < Len(Makes[k]) + 1
  BY <1>1, <1>2, Lists
<1> QED
  BY <1>2, <1>3, <1>4 DEF Whole

\* A job that has succeeded stays so, and those that need it begin after it.
LEMMA BegunStep == (TypeOK /\ \A k \in Jobs : Ownership(k) /\ Begun(k)) /\ [Next]_vars => (\A k \in Jobs : Begun(k))'
<1> SUFFICES ASSUME (TypeOK /\ \A k \in Jobs : Ownership(k) /\ Begun(k)), [Next]_vars PROVE (\A k \in Jobs : Begun(k))'
  OBVIOUS
<1>1. ASSUME NEW j \in Jobs, Begin(j) PROVE (\A k \in Jobs : Begun(k))'
  BY <1>1, Producers DEF Begin, Go, Fail, Begun, Succeeded, Ownership, TypeOK, Places, jobVars, dockerVars, insideVars, sourceVars
<1>2. ASSUME NEW j \in Jobs, Create(j) PROVE (\A k \in Jobs : Begun(k))'
  BY <1>2, Producers DEF Create, Go, Fail, Begun, Succeeded, Ownership, TypeOK, Places, jobVars, dockerVars, insideVars, sourceVars
<1>3. ASSUME NEW j \in Jobs, CreateFails(j) PROVE (\A k \in Jobs : Begun(k))'
  BY <1>3, Producers DEF CreateFails, Go, Fail, Begun, Succeeded, Ownership, TypeOK, Places, jobVars, dockerVars, insideVars, sourceVars
<1>4. ASSUME NEW j \in Jobs, Start(j) PROVE (\A k \in Jobs : Begun(k))'
  BY <1>4, Producers DEF Start, Go, Fail, Begun, Succeeded, Ownership, TypeOK, Places, jobVars, dockerVars, insideVars, sourceVars
<1>5. ASSUME NEW j \in Jobs, StartFails(j) PROVE (\A k \in Jobs : Begun(k))'
  BY <1>5, Producers DEF StartFails, Go, Fail, Begun, Succeeded, Ownership, TypeOK, Places, jobVars, dockerVars, insideVars, sourceVars
<1>6. ASSUME NEW j \in Jobs, Discard(j) PROVE (\A k \in Jobs : Begun(k))'
  BY <1>6, Producers DEF Discard, Go, Fail, Begun, Succeeded, Ownership, TypeOK, Places, jobVars, dockerVars, insideVars, sourceVars
<1>7. ASSUME NEW j \in Jobs, Clone(j) PROVE (\A k \in Jobs : Begun(k))'
  BY <1>7, Producers DEF Clone, Go, Fail, Begun, Succeeded, Ownership, TypeOK, Places, jobVars, dockerVars, insideVars, sourceVars
<1>8. ASSUME NEW j \in Jobs, CloneFails(j) PROVE (\A k \in Jobs : Begun(k))'
  BY <1>8, Producers DEF CloneFails, Go, Fail, Begun, Succeeded, Ownership, TypeOK, Places, jobVars, dockerVars, insideVars, sourceVars
<1>9. ASSUME NEW j \in Jobs, CopyTree(j) PROVE (\A k \in Jobs : Begun(k))'
  BY <1>9, Producers DEF CopyTree, Go, Fail, Begun, Succeeded, Ownership, TypeOK, Places, jobVars, dockerVars, insideVars, sourceVars
<1>10. ASSUME NEW j \in Jobs, CopyTreeFails(j) PROVE (\A k \in Jobs : Begun(k))'
  BY <1>10, Producers DEF CopyTreeFails, Go, Fail, Begun, Succeeded, Ownership, TypeOK, Places, jobVars, dockerVars, insideVars, sourceVars
<1>11. ASSUME NEW j \in Jobs, CopyNeed(j) PROVE (\A k \in Jobs : Begun(k))'
  BY <1>11, Producers DEF CopyNeed, Go, Fail, Begun, Succeeded, Ownership, TypeOK, Places, jobVars, dockerVars, insideVars, sourceVars
<1>12. ASSUME NEW j \in Jobs, CopyNeedFails(j) PROVE (\A k \in Jobs : Begun(k))'
  BY <1>12, Producers DEF CopyNeedFails, Go, Fail, Begun, Succeeded, Ownership, TypeOK, Places, jobVars, dockerVars, insideVars, sourceVars
<1>13. ASSUME NEW j \in Jobs, NeedsDone(j) PROVE (\A k \in Jobs : Begun(k))'
  BY <1>13, Producers DEF NeedsDone, Go, Fail, Begun, Succeeded, Ownership, TypeOK, Places, jobVars, dockerVars, insideVars, sourceVars
<1>14. ASSUME NEW j \in Jobs, StepBegins(j) PROVE (\A k \in Jobs : Begun(k))'
  BY <1>14, Producers DEF StepBegins, Go, Fail, Begun, Succeeded, Ownership, TypeOK, Places, jobVars, dockerVars, insideVars, sourceVars
<1>15. ASSUME NEW j \in Jobs, StepRefused(j) PROVE (\A k \in Jobs : Begun(k))'
  BY <1>15, Producers DEF StepRefused, Go, Fail, Begun, Succeeded, Ownership, TypeOK, Places, jobVars, dockerVars, insideVars, sourceVars
<1>16. ASSUME NEW j \in Jobs, StepEnds(j) PROVE (\A k \in Jobs : Begun(k))'
  BY <1>16, Producers DEF StepEnds, Go, Fail, Begun, Succeeded, Ownership, TypeOK, Places, jobVars, dockerVars, insideVars, sourceVars
<1>17. ASSUME NEW j \in Jobs, StepFails(j) PROVE (\A k \in Jobs : Begun(k))'
  BY <1>17, Producers DEF StepFails, Go, Fail, Begun, Succeeded, Ownership, TypeOK, Places, jobVars, dockerVars, insideVars, sourceVars
<1>18. ASSUME NEW j \in Jobs, StepsDone(j) PROVE (\A k \in Jobs : Begun(k))'
  BY <1>18, Producers DEF StepsDone, Go, Fail, Begun, Succeeded, Ownership, TypeOK, Places, jobVars, dockerVars, insideVars, sourceVars
<1>19. ASSUME NEW j \in Jobs, OpenArtifact(j) PROVE (\A k \in Jobs : Begun(k))'
  BY <1>19, Producers DEF OpenArtifact, Go, Fail, Begun, Succeeded, Ownership, TypeOK, Places, jobVars, dockerVars, insideVars, sourceVars
<1>20. ASSUME NEW j \in Jobs, OpenArtifactFails(j) PROVE (\A k \in Jobs : Begun(k))'
  BY <1>20, Producers DEF OpenArtifactFails, Go, Fail, Begun, Succeeded, Ownership, TypeOK, Places, jobVars, dockerVars, insideVars, sourceVars
<1>21. ASSUME NEW j \in Jobs, CopyArtifact(j) PROVE (\A k \in Jobs : Begun(k))'
  BY <1>21, Producers DEF CopyArtifact, Go, Fail, Begun, Succeeded, Ownership, TypeOK, Places, jobVars, dockerVars, insideVars, sourceVars
<1>22. ASSUME NEW j \in Jobs, CopyArtifactFails(j) PROVE (\A k \in Jobs : Begun(k))'
  BY <1>22, Producers DEF CopyArtifactFails, Go, Fail, Begun, Succeeded, Ownership, TypeOK, Places, jobVars, dockerVars, insideVars, sourceVars
<1>23. ASSUME NEW j \in Jobs, MakesDone(j) PROVE (\A k \in Jobs : Begun(k))'
  BY <1>23, Producers DEF MakesDone, Go, Fail, Begun, Succeeded, Ownership, TypeOK, Places, jobVars, dockerVars, insideVars, sourceVars
<1>24. ASSUME NEW j \in Jobs, Remove(j) PROVE (\A k \in Jobs : Begun(k))'
  BY <1>24, Producers DEF Remove, Go, Fail, Begun, Succeeded, Ownership, TypeOK, Places, jobVars, dockerVars, insideVars, sourceVars
<1>25. ASSUME NEW j \in Jobs, StreamBreaks(j) PROVE (\A k \in Jobs : Begun(k))'
  BY <1>25, Producers DEF StreamBreaks, Go, Fail, Begun, Succeeded, Ownership, TypeOK, Places, jobVars, dockerVars, insideVars, sourceVars
<1>26. ASSUME NEW j \in Jobs, StreamEnds(j) PROVE (\A k \in Jobs : Begun(k))'
  BY <1>26, Producers DEF StreamEnds, Go, Fail, Begun, Succeeded, Ownership, TypeOK, Places, jobVars, dockerVars, insideVars, sourceVars
<1>27. ASSUME Cancel PROVE (\A k \in Jobs : Begun(k))'
  BY <1>27, Producers DEF Cancel, Begun, Succeeded, Ownership, TypeOK, jobVars, dockerVars, insideVars, sourceVars
<1>28. ASSUME NEW a \in Artifacts, Serve(a) PROVE (\A k \in Jobs : Begun(k))'
  BY <1>28, Producers DEF Serve, Begun, Succeeded, Ownership, TypeOK, jobVars, dockerVars, insideVars, sourceVars
<1>29. CASE UNCHANGED vars
  BY <1>29, Producers DEF vars, Begun, Succeeded, Ownership, TypeOK, jobVars, dockerVars, insideVars, sourceVars
<1> QED
  BY <1>1, <1>2, <1>3, <1>4, <1>5, <1>6, <1>7, <1>8, <1>9, <1>10, <1>11, <1>12, <1>13, <1>14, <1>15, <1>16, <1>17, <1>18, <1>19, <1>20, <1>21, <1>22, <1>23, <1>24, <1>25, <1>26, <1>27, <1>28, <1>29 DEF Next, ExecuteJob

\* Each place of ExecuteJob is reached with everything before it done.
LEMMA PassedStep == IInv /\ [Next]_vars => (\A k \in Jobs : Passed(k))'
<1> SUFFICES ASSUME IInv, [Next]_vars PROVE (\A k \in Jobs : Passed(k))'
  OBVIOUS
<1> TypeOK /\ \A k \in Jobs : Ownership(k) /\ Passed(k)
  BY DEF IInv
<1>1. ASSUME NEW j \in Jobs, Begin(j) PROVE (\A k \in Jobs : Passed(k))'
  BY <1>1, Lists DEF Begin, Go, Fail, Passed, Past, Whole, Ownership, TypeOK, Places, jobVars, dockerVars, insideVars, sourceVars
<1>2. ASSUME NEW j \in Jobs, Create(j) PROVE (\A k \in Jobs : Passed(k))'
  BY <1>2, Lists DEF Create, Go, Fail, Passed, Past, Whole, Ownership, TypeOK, Places, jobVars, dockerVars, insideVars, sourceVars
<1>3. ASSUME NEW j \in Jobs, CreateFails(j) PROVE (\A k \in Jobs : Passed(k))'
  BY <1>3, Lists DEF CreateFails, Go, Fail, Passed, Past, Whole, Ownership, TypeOK, Places, jobVars, dockerVars, insideVars, sourceVars
<1>4. ASSUME NEW j \in Jobs, Start(j) PROVE (\A k \in Jobs : Passed(k))'
  BY <1>4, Lists DEF Start, Go, Fail, Passed, Past, Whole, Ownership, TypeOK, Places, jobVars, dockerVars, insideVars, sourceVars
<1>5. ASSUME NEW j \in Jobs, StartFails(j) PROVE (\A k \in Jobs : Passed(k))'
  BY <1>5, Lists DEF StartFails, Go, Fail, Passed, Past, Whole, Ownership, TypeOK, Places, jobVars, dockerVars, insideVars, sourceVars
<1>6. ASSUME NEW j \in Jobs, Discard(j) PROVE (\A k \in Jobs : Passed(k))'
  BY <1>6, Lists DEF Discard, Go, Fail, Passed, Past, Whole, Ownership, TypeOK, Places, jobVars, dockerVars, insideVars, sourceVars
<1>7. ASSUME NEW j \in Jobs, Clone(j) PROVE (\A k \in Jobs : Passed(k))'
  BY <1>7, Lists DEF Clone, Go, Fail, Passed, Past, Whole, Ownership, TypeOK, Places, jobVars, dockerVars, insideVars, sourceVars
<1>8. ASSUME NEW j \in Jobs, CloneFails(j) PROVE (\A k \in Jobs : Passed(k))'
  BY <1>8, Lists DEF CloneFails, Go, Fail, Passed, Past, Whole, Ownership, TypeOK, Places, jobVars, dockerVars, insideVars, sourceVars
<1>9. ASSUME NEW j \in Jobs, CopyTree(j) PROVE (\A k \in Jobs : Passed(k))'
  BY <1>9, Lists DEF CopyTree, Go, Fail, Passed, Past, Whole, Ownership, TypeOK, Places, jobVars, dockerVars, insideVars, sourceVars
<1>10. ASSUME NEW j \in Jobs, CopyTreeFails(j) PROVE (\A k \in Jobs : Passed(k))'
  BY <1>10, Lists DEF CopyTreeFails, Go, Fail, Passed, Past, Whole, Ownership, TypeOK, Places, jobVars, dockerVars, insideVars, sourceVars
<1>11. ASSUME NEW j \in Jobs, CopyNeed(j) PROVE (\A k \in Jobs : Passed(k))'
  <2>1. pos[j] \in DOMAIN Needs[j] /\ Needs[j][pos[j]] \in Artifacts
    BY <1>11, Lists DEF CopyNeed, TypeOK
  <2>2. store[Needs[j][pos[j]]] = "whole"
    BY <1>11, <2>1, NeededIsWhole DEF CopyNeed
  <2>3. inside' = [inside EXCEPT ![j][Needs[j][pos[j]]] = "whole"]
    BY <1>11, <2>2 DEF CopyNeed
  <2>4. Passed(j)'
    BY <1>11, <2>1, <2>3, Lists DEF CopyNeed, Go, Passed, Past, Whole, TypeOK, insideVars
  <2>5. ASSUME NEW k \in Jobs \ {j} PROVE Passed(k)'
    BY <1>11, <2>3 DEF CopyNeed, Go, Passed, Past, Whole, TypeOK
  <2> QED
    BY <2>4, <2>5
<1>12. ASSUME NEW j \in Jobs, CopyNeedFails(j) PROVE (\A k \in Jobs : Passed(k))'
  BY <1>12, Lists DEF CopyNeedFails, Go, Fail, Passed, Past, Whole, Ownership, TypeOK, Places, jobVars, dockerVars, insideVars, sourceVars
<1>13. ASSUME NEW j \in Jobs, NeedsDone(j) PROVE (\A k \in Jobs : Passed(k))'
  BY <1>13, Lists DEF NeedsDone, Go, Fail, Passed, Past, Whole, Ownership, TypeOK, Places, jobVars, dockerVars, insideVars, sourceVars
<1>14. ASSUME NEW j \in Jobs, StepBegins(j) PROVE (\A k \in Jobs : Passed(k))'
  BY <1>14, Lists DEF StepBegins, Go, Fail, Passed, Past, Whole, Ownership, TypeOK, Places, jobVars, dockerVars, insideVars, sourceVars
<1>15. ASSUME NEW j \in Jobs, StepRefused(j) PROVE (\A k \in Jobs : Passed(k))'
  BY <1>15, Lists DEF StepRefused, Go, Fail, Passed, Past, Whole, Ownership, TypeOK, Places, jobVars, dockerVars, insideVars, sourceVars
<1>16. ASSUME NEW j \in Jobs, StepEnds(j) PROVE (\A k \in Jobs : Passed(k))'
  BY <1>16, Lists DEF StepEnds, Go, Fail, Passed, Past, Whole, Ownership, TypeOK, Places, jobVars, dockerVars, insideVars, sourceVars
<1>17. ASSUME NEW j \in Jobs, StepFails(j) PROVE (\A k \in Jobs : Passed(k))'
  BY <1>17, Lists DEF StepFails, Go, Fail, Passed, Past, Whole, Ownership, TypeOK, Places, jobVars, dockerVars, insideVars, sourceVars
<1>18. ASSUME NEW j \in Jobs, StepsDone(j) PROVE (\A k \in Jobs : Passed(k))'
  <2>1. Steps[j] \in Nat /\ pos[j] = Steps[j] + 1
    BY <1>18, Constants DEF StepsDone, TypeOK
  <2>2. ran[j] = Steps[j]
    BY <1>18, <2>1 DEF StepsDone, Passed, TypeOK
  <2> QED
    BY <1>18, <2>2, Lists DEF StepsDone, Go, Passed, Past, Whole, TypeOK, insideVars
<1>19. ASSUME NEW j \in Jobs, OpenArtifact(j) PROVE (\A k \in Jobs : Passed(k))'
  <2>1. pos[j] \in DOMAIN Makes[j] /\ Makes[j][pos[j]] \in Artifacts
    BY <1>19, Lists DEF OpenArtifact, TypeOK
  <2>2. ASSUME NEW k \in Jobs, NEW m \in DOMAIN Makes[k], k # j \/ m # pos[j]
        PROVE  store'[Makes[k][m]] = store[Makes[k][m]]
    BY <1>19, <2>1, <2>2, Lists, Constants DEF OpenArtifact, TypeOK
  <2>3. Passed(j)'
    <3>1. Whole(Makes[j], pos[j], store)'
      <4>1. Whole(Makes[j], pos[j], store) /\ pos'[j] = pos[j]
        BY <1>19 DEF OpenArtifact, Go, Passed, TypeOK
      <4>2. ASSUME NEW m \in DOMAIN Makes[j], m < pos[j]
            PROVE  store'[Makes[j][m]] = "whole"
        <5>1. m # pos[j]
          BY <4>2, <2>1, Lists
        <5> QED
          BY <4>1, <4>2, <5>1, <2>2 DEF Whole
      <4> QED
        BY <4>1, <4>2 DEF Whole
    <3>2. at'[j] = "copy" /\ pos'[j] = pos[j] /\ UNCHANGED <<tree, inside, ran>>
      BY <1>19 DEF OpenArtifact, Go, TypeOK, insideVars
    <3>3. /\ HasSource => tree[j]
          /\ ran[j] = Steps[j] /\ Whole(Needs[j], Len(Needs[j]) + 1, inside[j])
      BY <1>19 DEF OpenArtifact, Passed, Past
    <3> QED
      BY <3>1, <3>2, <3>3 DEF Passed, Past, Whole
  <2>4. ASSUME NEW k \in Jobs \ {j} PROVE Passed(k)'
    BY <1>19, <2>2 DEF OpenArtifact, Go, Fail, Passed, Past, Whole, TypeOK, insideVars
  <2> QED
    BY <2>3, <2>4
<1>20. ASSUME NEW j \in Jobs, OpenArtifactFails(j) PROVE (\A k \in Jobs : Passed(k))'
  BY <1>20, Lists DEF OpenArtifactFails, Go, Fail, Passed, Past, Whole, Ownership, TypeOK, Places, jobVars, dockerVars, insideVars, sourceVars
<1>21. ASSUME NEW j \in Jobs, CopyArtifact(j) PROVE (\A k \in Jobs : Passed(k))'
  BY <1>21, Lists DEF CopyArtifact, Go, Fail, Passed, Past, Whole, Ownership, TypeOK, Places, jobVars, dockerVars, insideVars, sourceVars
<1>22. ASSUME NEW j \in Jobs, CopyArtifactFails(j) PROVE (\A k \in Jobs : Passed(k))'
  <2>1. pos[j] \in DOMAIN Makes[j] /\ Makes[j][pos[j]] \in Artifacts
    BY <1>22, Lists DEF CopyArtifactFails, TypeOK
  <2>2. ASSUME NEW k \in Jobs, NEW m \in DOMAIN Makes[k], k # j \/ m # pos[j]
        PROVE  store'[Makes[k][m]] = store[Makes[k][m]]
    BY <1>22, <2>1, <2>2, Lists, Constants DEF CopyArtifactFails, TypeOK
  <2>3. Passed(j)'
    BY <1>22, <2>1, <2>2, Lists DEF CopyArtifactFails, Go, Fail, Passed, Past, Whole, Ownership, TypeOK, dockerVars, insideVars
  <2>4. ASSUME NEW k \in Jobs \ {j} PROVE Passed(k)'
    BY <1>22, <2>2 DEF CopyArtifactFails, Go, Fail, Passed, Past, Whole, TypeOK, insideVars
  <2> QED
    BY <2>3, <2>4
<1>23. ASSUME NEW j \in Jobs, MakesDone(j) PROVE (\A k \in Jobs : Passed(k))'
  BY <1>23, Lists DEF MakesDone, Go, Fail, Passed, Past, Whole, Ownership, TypeOK, Places, jobVars, dockerVars, insideVars, sourceVars
<1>24. ASSUME NEW j \in Jobs, Remove(j) PROVE (\A k \in Jobs : Passed(k))'
  BY <1>24, Lists DEF Remove, Go, Fail, Passed, Past, Whole, Ownership, TypeOK, Places, jobVars, dockerVars, insideVars, sourceVars
<1>25. ASSUME NEW j \in Jobs, StreamBreaks(j) PROVE (\A k \in Jobs : Passed(k))'
  BY <1>25, Lists DEF StreamBreaks, Go, Fail, Passed, Past, Whole, Ownership, TypeOK, Places, jobVars, dockerVars, insideVars, sourceVars
<1>26. ASSUME NEW j \in Jobs, StreamEnds(j) PROVE (\A k \in Jobs : Passed(k))'
  BY <1>26, Lists DEF StreamEnds, Go, Fail, Passed, Past, Whole, Ownership, TypeOK, Places, jobVars, dockerVars, insideVars, sourceVars
<1>27. ASSUME Cancel PROVE (\A k \in Jobs : Passed(k))'
  BY <1>27 DEF Cancel, Passed, Past, Whole, Ownership, TypeOK, jobVars, dockerVars, insideVars, sourceVars
<1>28. ASSUME NEW a \in Artifacts, Serve(a) PROVE (\A k \in Jobs : Passed(k))'
  BY <1>28 DEF Serve, Passed, Past, Whole, Ownership, TypeOK, jobVars, dockerVars, insideVars, sourceVars
<1>29. CASE UNCHANGED vars
  BY <1>29 DEF vars, Passed, Past, Whole, Ownership, TypeOK, jobVars, dockerVars, insideVars, sourceVars
<1> QED
  BY <1>1, <1>2, <1>3, <1>4, <1>5, <1>6, <1>7, <1>8, <1>9, <1>10, <1>11, <1>12, <1>13, <1>14, <1>15, <1>16, <1>17, <1>18, <1>19, <1>20, <1>21, <1>22, <1>23, <1>24, <1>25, <1>26, <1>27, <1>28, <1>29 DEF Next, ExecuteJob

\* The initial states satisfy the invariant.
LEMMA InitIInv == Init => IInv
<1> SUFFICES ASSUME Init PROVE IInv
  OBVIOUS
<1>1. TypeOK
  BY DEF Init, TypeOK, Places
<1>2. ASSUME NEW j \in Jobs PROVE Ownership(j) /\ Passed(j) /\ Begun(j)
  BY DEF Init, Ownership, Passed, Past, Begun
<1>3. StartedIsRemoved
  BY DEF Init, StartedIsRemoved
<1> QED
  BY <1>1, <1>2, <1>3 DEF IInv

\* Every step preserves the invariant.
LEMMA StepIInv == IInv /\ [Next]_vars => IInv'
<1> SUFFICES ASSUME IInv, [Next]_vars PROVE IInv'
  OBVIOUS
<1>1. TypeOK'
  BY TypeStep DEF IInv
<1>2. (StartedIsRemoved /\ \A k \in Jobs : Ownership(k))'
  BY OwnershipStep DEF IInv
<1>3. (\A k \in Jobs : Begun(k))'
  BY BegunStep DEF IInv
<1>4. (\A k \in Jobs : Passed(k))'
  BY PassedStep
<1> QED
  BY <1>1, <1>2, <1>3, <1>4 DEF IInv

\* The inductive invariant of the jobs of a pipeline.
THEOREM Invariance == Spec => []IInv
<1> QED
  BY InitIInv, StepIInv, PTL DEF Spec

\* Whatever fails and whenever the run is cancelled, the variables of ExecuteJob
\* and of what it works on stay in their types, the loops in their bounds.
THEOREM TypeCorrect == Spec => []TypeOK
<1>1. IInv => TypeOK
  BY DEF IInv
<1> QED
  BY <1>1, Invariance, PTL

\* The deferred Remove of ExecuteJob is reached on every way out: a job that is
\* over has no container that runs unless Docker refused to remove it.
THEOREM ContainersAreRemoved == Spec => []StartedIsRemoved
<1>1. IInv => StartedIsRemoved
  BY DEF IInv
<1> QED
  BY <1>1, Invariance, PTL

\* No job runs a step on part of an artifact, however many jobs share the store and
\* wherever copies stop.
THEOREM ArtifactsArriveWhole == Spec => []NeedsAreWhole
<1>1. ASSUME IInv PROVE NeedsAreWhole
  <2> SUFFICES ASSUME NEW j \in Jobs, NEW n \in DOMAIN Needs[j],
                      at[j] \in {"steps", "step", "makes", "copy"} \/ ran[j] > 0
               PROVE  inside[j][Needs[j][n]] = "whole"
    BY DEF NeedsAreWhole
  <2>1. Whole(Needs[j], Len(Needs[j]) + 1, inside[j])
    BY <1>1 DEF IInv, Passed, Past
  <2> QED
    BY <2>1, Lists DEF Whole
<1> QED
  BY <1>1, Invariance, PTL

\* What ExecuteJob reports as a success is one: source, needs, steps, artifacts.
THEOREM SuccessIsComplete == Spec => []SucceededIsComplete
<1>1. ASSUME IInv PROVE SucceededIsComplete
  <2> SUFFICES ASSUME NEW j \in Jobs, Succeeded(j)
               PROVE  /\ HasSource => tree[j]
                      /\ ran[j] = Steps[j]
                      /\ \A n \in DOMAIN Needs[j] : inside[j][Needs[j][n]] = "whole"
                      /\ \A m \in DOMAIN Makes[j] : store[Makes[j][m]] = "whole"
    BY DEF SucceededIsComplete
  <2>1. Passed(j) /\ at[j] = "returned" /\ ~failed[j]
    BY <1>1 DEF IInv, Succeeded
  <2> QED
    BY <2>1, Lists DEF Passed, Past, Whole
<1> QED
  BY <1>1, Invariance, PTL
=============================================================================

------------------------ MODULE GitHubIntegrationProofs ------------------------
(* Theorems about GitHubIntegration, for any deliveries, rows, events and pipelines. *)
EXTENDS GitHubIntegration, TLAPS

LEMMA SeqElements ==
  ASSUME NEW S, NEW q \in Seq(S)
  PROVE  /\ Len(q) \in Nat /\ DOMAIN q = 1..Len(q)
         /\ \A j \in DOMAIN q : q[j] \in S
<1>1. Len(q) \in Nat /\ DOMAIN q = 1..Len(q)
  OBVIOUS
<1>2. \A j \in 1..Len(q) : q[j] \in S
  OBVIOUS
<1>3. QED
  BY <1>1, <1>2

\* The artifacts a report uploads, and what they depend on.
LEMMA ArtifactsTyped ==
  ASSUME NEW k \in Runs
  PROVE  /\ Len(Artifacts(k)) \in Nat /\ DOMAIN Artifacts(k) = 1..Len(Artifacts(k))
         /\ \A j \in DOMAIN Artifacts(k) : Artifacts(k)[j].asset \in AssetNames
<1>1. Releases(File(k)) \in Seq([asset : AssetNames])
  BY GitHubConstants DEF File, Runs
<1>2. Artifacts(k) \in Seq([asset : AssetNames])
  BY <1>1 DEF Artifacts
<1>3. /\ Len(Artifacts(k)) \in Nat /\ DOMAIN Artifacts(k) = 1..Len(Artifacts(k))
      /\ \A j \in DOMAIN Artifacts(k) : Artifacts(k)[j] \in [asset : AssetNames]
  BY <1>2, SeqElements
<1>4. QED
  BY <1>3

LEMMA AssetTyped ==
  ASSUME NEW k \in Runs, art[k] \in DOMAIN Artifacts(k)
  PROVE  Asset(k) \in AssetNames
BY ArtifactsTyped DEF Asset

\* A pipeline has one of the names.
LEMMA NameTyped ==
  ASSUME NEW k \in Runs
  PROVE  File(k).name \in Names
BY DEF File, Runs, Names

LEMMA SameArtifacts ==
  ASSUME NEW k \in Runs, EventOf(k)' = EventOf(k)
  PROVE  Artifacts(k)' = Artifacts(k)
BY DEF Artifacts, EventOf, File, Releases

LEMMA EventKept ==
  ASSUME UNCHANGED event
  PROVE  /\ \A k \in Runs : Artifacts(k)' = Artifacts(k)
         /\ \A s \in Subs : event'[s[1]] = event[s[1]]
<1>1. \A k \in Runs : EventOf(k)' = EventOf(k)
  BY DEF EventOf
<1>2. QED
  BY <1>1, SameArtifacts

\* Without an event there are no artifacts.
LEMMA NoEventNoArtifacts ==
  ASSUME NEW k \in Runs, EventOf(k) = None
  PROVE  Artifacts(k) = <<>>
BY DEF Artifacts

\* A delivery is of no concern to what has begun.
LEMMA DeliveryIsNew ==
  ASSUME TypeOK, LoopView, NEW d \in Deliveries, Deliver(d)
  PROVE  /\ \A s \in Subs : s[1] = d => sub[s] = "none"
         /\ \A s \in Subs : s[1] # d => event'[s[1]] = event[s[1]] /\ sub'[s] = sub[s]
         /\ \A k \in Runs : k[1][1] = d => run[k] = "none" /\ report[k] = "none" /\ art[k] = 1
         /\ \A k \in Runs : k[1][1] # d => Artifacts(k)' = Artifacts(k)
         /\ \A k \in Runs : run[k] # "none" \/ report[k] # "none" => Artifacts(k)' = Artifacts(k)
         /\ event'[d] # None
<1>1. event[d] = None /\ event'[d] # None /\ \A c \in Deliveries : c # d => event'[c] = event[c]
  BY GitHubConstants DEF Deliver, TypeOK
<1>2. \A s \in Subs : s[1] = d => sub[s] = "none"
  BY <1>1 DEF LoopView, LoopAt
<1>3. \A s \in Subs : s[1] # d => event'[s[1]] = event[s[1]] /\ sub'[s] = sub[s]
  BY <1>1 DEF Deliver, Subs
<1>4. ASSUME NEW k \in Runs, k[1][1] = d PROVE run[k] = "none" /\ report[k] = "none" /\ art[k] = 1
  <2> PICK s \in Subs, i \in Files : k = <<s, i>>
    BY DEF Runs
  <2>1. LoopAt(s) /\ sub[s] = "none"
    BY <1>2, <1>4 DEF LoopView
  <2>2. at[s] = 1 /\ ~(i < 1)
    BY <2>1, GitHubConstants DEF LoopAt, Files
  <2>3. report[<<s, i>>] = "none" /\ run[<<s, i>>] = "none"
    BY <2>1, <2>2 DEF LoopAt
  <2>4. run[k] = "none" /\ report[k] = "none"
    BY <2>3
  <2>5. Artifacts(k) = <<>>
    BY <1>1, <1>4, NoEventNoArtifacts DEF EventOf
  <2>6. art[k] \in 1..1
    BY <2>5 DEF TypeOK
  <2>7. QED
    BY <2>4, <2>6
<1>5. ASSUME NEW k \in Runs, k[1][1] # d PROVE Artifacts(k)' = Artifacts(k)
  <2>1. k[1][1] \in Deliveries
    BY DEF Runs, Subs
  <2>2. EventOf(k)' = EventOf(k)
    BY <2>1, <1>1, <1>5 DEF EventOf
  <2>3. QED
    BY <2>2, SameArtifacts
<1>6. QED
  BY <1>1, <1>2, <1>3, <1>4, <1>5

LEMMA InitInv == Init => IInv
<1> SUFFICES ASSUME Init PROVE IInv
  OBVIOUS
<1> USE DEF Init
<1>1. TypeOK
  <2>1. \A k \in Runs : art[k] \in 1..(Len(Artifacts(k)) + 1)
    BY ArtifactsTyped
  <2>2. up \in BOOLEAN /\ signalled \in BOOLEAN
    OBVIOUS
  <2>3. at \in [Subs -> 1..(Len(Pipelines) + 1)]
    BY GitHubConstants
  <2>4. QED
    BY <2>1, <2>2, <2>3 DEF TypeOK, SubStates, ReportStates, AssetIds
<1>2. LoopView
  <2>1. ASSUME NEW s \in Subs PROVE LoopAt(s)
    BY GitHubConstants DEF LoopAt, Files, Runs
  <2>2. QED
    BY <2>1 DEF LoopView
<1>3. ReportView /\ StatusView /\ AssetView /\ MissingView
  BY DEF ReportView, ReportAt, StatusView, AssetView, MissingView
<1>4. QED
  BY <1>1, <1>2, <1>3 DEF IInv

\* A step that is not a delivery.
Work == [Next]_vars /\ \A d \in Deliveries : ~Deliver(d)

\* Every step keeps the types.
LEMMA StepType ==
  ASSUME TypeOK, LoopView, ReportView, Work
  PROVE  TypeOK'
<1> USE DEF TypeOK, SubStates, ReportStates, daemon, submits, reports, gitHub, Verdicts, Work
<1>a. UNCHANGED event => \A k \in Runs : Artifacts(k)' = Artifacts(k)
  BY EventKept
<1>1. ASSUME NEW s \in Subs, Load(s) PROVE TypeOK'
  BY <1>1, <1>a DEF Load, Reaches
<1>2. ASSUME NEW s \in Subs, LoadFails(s) PROVE TypeOK'
  BY <1>2, <1>a DEF LoadFails
<1>3. ASSUME NEW s \in Subs, Pass(s) PROVE TypeOK'
  <2>1. at' = [at EXCEPT ![s] = at[s] + 1] /\ at[s] \in Files
    BY <1>3 DEF Pass
  <2>2. at' \in [Subs -> 1..(Len(Pipelines) + 1)]
    BY <2>1, GitHubConstants DEF Files
  <2>3. QED
    BY <1>3, <1>a, <2>1, <2>2 DEF Pass
<1>4. ASSUME NEW s \in Subs, Skip(s) PROVE TypeOK'
  <2>1. at' = [at EXCEPT ![s] = at[s] + 1] /\ at[s] \in Files
    BY <1>4 DEF Skip
  <2>2. at' \in [Subs -> 1..(Len(Pipelines) + 1)]
    BY <2>1, GitHubConstants DEF Files
  <2>3. QED
    BY <1>4, <1>a, <2>1, <2>2 DEF Skip
<1>5. ASSUME NEW s \in Subs, Submit(s) PROVE TypeOK'
  <2>1. <<s, at[s]>> \in Runs
    BY <1>5 DEF Submit, Runs
  <2>2. QED
    BY <1>5, <1>a, <2>1 DEF Submit
<1>6. ASSUME NEW s \in Subs, SubmitFails(s) PROVE TypeOK'
  BY <1>6, <1>a DEF SubmitFails
<1>7. ASSUME NEW s \in Subs, PostPending(s) PROVE TypeOK'
  <2> DEFINE k == <<s, at[s]>>
  <2>1. at' = [at EXCEPT ![s] = at[s] + 1] /\ at[s] \in Files
    BY <1>7 DEF PostPending, LoopView, LoopAt
  <2>2. at' \in [Subs -> 1..(Len(Pipelines) + 1)]
    BY <2>1, GitHubConstants DEF Files
  <2>3. k \in Runs /\ File(k).name \in Names
    BY <2>1, NameTyped DEF Runs
  <2>4. status' \in [Names -> [state : {"none", "pending", "success", "failure"}, run : Runs \cup {None}]]
    <3>1. [state |-> "pending", run |-> k] \in [state : {"none", "pending", "success", "failure"}, run : Runs \cup {None}]
      BY <2>3
    <3>2. CASE UNCHANGED status
      BY <3>2
    <3>3. CASE status' = Shown(k, "pending")
      BY <2>3, <3>1, <3>3 DEF Shown
    <3>4. QED
      BY <1>7, <3>2, <3>3 DEF PostPending
  <2>5. QED
    BY <1>7, <1>a, <2>2, <2>4 DEF PostPending
<1>8. ASSUME NEW s \in Subs, Finish(s) PROVE TypeOK'
  BY <1>8, <1>a DEF Finish
<1>9. ASSUME NEW k \in Runs, RunEnds(k) PROVE TypeOK'
  BY <1>9, <1>a DEF RunEnds
<1>10. ASSUME NEW k \in Runs, Judge(k) PROVE TypeOK'
  BY <1>10, <1>a DEF Judge
<1>11. ASSUME NEW k \in Runs, Open(k) PROVE TypeOK'
  BY <1>11, <1>a DEF Open
<1>12. ASSUME NEW k \in Runs, Uploaded(k) PROVE TypeOK'
  BY <1>12, <1>a DEF Uploaded
<1>13. ASSUME NEW k \in Runs, List(k) PROVE TypeOK'
  <2>1. assets[Asset(k)] \in AssetIds
    BY <1>13, AssetTyped DEF List, ReportView, ReportAt
  <2>2. QED
    BY <1>13, <1>a, <2>1 DEF List
<1>14. ASSUME NEW k \in Runs, Delete(k) PROVE TypeOK'
  <2>1. art[k] \in DOMAIN Artifacts(k) /\ Asset(k) \in AssetNames
    BY <1>14, AssetTyped DEF Delete, Removed, Asset, ReportView, ReportAt
  <2>2. <<k, art[k]>> \in AssetIds /\ None \in AssetIds
    BY DEF AssetIds
  <2>3. QED
    BY <1>14, <1>a, <2>1, <2>2 DEF Delete, Removed, Asset
<1>15. ASSUME NEW k \in Runs, Upload(k) PROVE TypeOK'
  <2>1. art[k] \in DOMAIN Artifacts(k) /\ Asset(k) \in AssetNames
    BY <1>15, AssetTyped DEF Upload, Added, Asset, ReportView, ReportAt
  <2>2. <<k, art[k]>> \in AssetIds /\ None \in AssetIds
    BY DEF AssetIds
  <2>3. Len(Artifacts(k)) \in Nat /\ art[k] \in 1..Len(Artifacts(k))
    BY <2>1, ArtifactsTyped
  <2>4. \A j \in Runs : art'[j] \in 1..(Len(Artifacts(j)') + 1) /\ art'[j] \in Nat
    BY <1>15, <1>a, <2>3 DEF Upload, TypeOK
  <2>5. assets' \in [AssetNames -> AssetIds] /\ published' \in SUBSET AssetNames
    BY <1>15, <2>1, <2>2 DEF Upload, Added
  <2>6. art' \in [Runs -> Nat]
    BY <1>15, <2>4 DEF Upload
  <2>7. QED
    BY <1>15, <2>4, <2>5, <2>6 DEF Upload
<1>16. ASSUME NEW k \in Runs, AssetFails(k) PROVE TypeOK'
  <2>1. art[k] \in DOMAIN Artifacts(k) /\ Asset(k) \in AssetNames
    BY <1>16, AssetTyped DEF AssetFails, InArtifact, ReportView, ReportAt
  <2>2. <<k, art[k]>> \in AssetIds /\ None \in AssetIds
    BY DEF AssetIds
  <2>3. assets' \in [AssetNames -> AssetIds] /\ published' \in SUBSET AssetNames
    BY <1>16, <2>1, <2>2 DEF AssetFails, Removed, Added
  <2>4. QED
    BY <1>16, <1>a, <2>3 DEF AssetFails
<1>17. ASSUME NEW k \in Runs, PostVerdict(k) PROVE TypeOK'
  <2>1. verdict[k] \in {"success", "failure"} /\ File(k).name \in Names
    BY <1>17, NameTyped DEF PostVerdict, ReportView, ReportAt
  <2>2. status' \in [Names -> [state : {"none", "pending", "success", "failure"}, run : Runs \cup {None}]]
    <3>1. [state |-> verdict[k], run |-> k] \in [state : {"none", "pending", "success", "failure"}, run : Runs \cup {None}]
      BY <2>1
    <3>2. CASE UNCHANGED status
      BY <3>2
    <3>3. CASE status' = Shown(k, verdict[k])
      BY <2>1, <3>1, <3>3 DEF Shown
    <3>4. QED
      BY <1>17, <3>2, <3>3 DEF PostVerdict
  <2>3. QED
    BY <1>17, <1>a, <2>2 DEF PostVerdict
<1>18. CASE Signal
  BY <1>18, <1>a DEF Signal
<1>19. CASE Crash
  BY <1>19, <1>a DEF Crash
<1>20. CASE UNCHANGED vars
  BY <1>20, <1>a DEF vars
<1>21. QED
  BY <1>1, <1>2, <1>3, <1>4, <1>5, <1>6, <1>7, <1>8, <1>9, <1>10, <1>11, <1>12, <1>13,
     <1>14, <1>15, <1>16, <1>17, <1>18, <1>19, <1>20 DEF Next, Submitting, Reporting,
     Terminating

\* The account of a submission holds on while nothing of it changes.
LEMMA LoopStays ==
  ASSUME NEW s \in Subs, LoopAt(s), event'[s[1]] = event[s[1]], sub'[s] = sub[s], at'[s] = at[s],
         skipped'[s] = skipped[s],
         \A i \in Files : /\ run'[<<s, i>>] = "none" <=> run[<<s, i>>] = "none"
                          /\ report'[<<s, i>>] = "none" <=> report[<<s, i>>] = "none"
  PROVE  LoopAt(s)'
BY DEF LoopAt, Selected

\* Every step keeps the account of the submissions.
LEMMA StepLoop ==
  ASSUME TypeOK, LoopView, Work
  PROVE  LoopView'
<1> USE DEF daemon, submits, reports, gitHub, Work
<1>1. ASSUME NEW s \in Subs, Load(s) PROVE LoopView'
  <2>1. ASSUME NEW r \in Subs, r # s PROVE LoopAt(r)'
    BY <1>1, <2>1, LoopStays DEF Load, Reaches, TypeOK, LoopView, Runs
  <2>2. LoopAt(s)'
    BY <1>1, GitHubConstants DEF Load, Reaches, TypeOK, LoopView, LoopAt, Selected, Runs, Files
  <2>3. QED
    BY <2>1, <2>2 DEF LoopView
<1>2. ASSUME NEW s \in Subs, LoadFails(s) PROVE LoopView'
  <2>1. ASSUME NEW r \in Subs, r # s PROVE LoopAt(r)'
    BY <1>2, <2>1, LoopStays DEF LoadFails, TypeOK, LoopView, Runs
  <2>2. LoopAt(s)'
    BY <1>2, GitHubConstants DEF LoadFails, TypeOK, LoopView, LoopAt, Selected, Runs, Files
  <2>3. QED
    BY <2>1, <2>2 DEF LoopView
<1>3. ASSUME NEW s \in Subs, Pass(s) PROVE LoopView'
  <2>1. ASSUME NEW r \in Subs, r # s PROVE LoopAt(r)'
    BY <1>3, <2>1, LoopStays DEF Pass, TypeOK, LoopView, Runs
  <2>2. at[s] \in Nat /\ at'[s] = at[s] + 1 /\ sub[s] = "looping"
    BY <1>3, GitHubConstants DEF Pass, TypeOK, Files
  <2>3. \A i \in Files : /\ i \in Nat /\ (i = at[s] => ~Selected(s, i)')
                         /\ i # at[s] => (Selected(s, i)' <=> Selected(s, i))
    BY <1>3, <2>2, GitHubConstants DEF Pass, TypeOK, Selected, Files
  <2>4. UNCHANGED <<event, sub, run, report>>
    BY <1>3 DEF Pass
  <2>5. LoopAt(s)'
    <3>1. LoopAt(s)
      BY DEF LoopView
    <3>2. QED
      BY <2>2, <2>3, <2>4, <3>1 DEF LoopAt, Files
  <2>6. QED
    BY <2>1, <2>5 DEF LoopView
<1>4. ASSUME NEW s \in Subs, Skip(s) PROVE LoopView'
  <2>1. ASSUME NEW r \in Subs, r # s PROVE LoopAt(r)'
    BY <1>4, <2>1, LoopStays DEF Skip, TypeOK, LoopView, Runs
  <2>2. at[s] \in Nat /\ at'[s] = at[s] + 1 /\ sub[s] = "looping"
    BY <1>4, GitHubConstants DEF Skip, TypeOK, Files
  <2>3. \A i \in Files : /\ i \in Nat /\ (i = at[s] => ~Selected(s, i)')
                         /\ i # at[s] => (Selected(s, i)' <=> Selected(s, i))
    BY <1>4, <2>2, GitHubConstants DEF Skip, TypeOK, Selected, Files
  <2>4. UNCHANGED <<event, sub, run, report>>
    BY <1>4 DEF Skip
  <2>5. LoopAt(s)'
    <3>1. LoopAt(s)
      BY DEF LoopView
    <3>2. QED
      BY <2>2, <2>3, <2>4, <3>1 DEF LoopAt, Files
  <2>6. QED
    BY <2>1, <2>5 DEF LoopView
<1>5. ASSUME NEW s \in Subs, Submit(s) PROVE LoopView'
  <2>1. ASSUME NEW r \in Subs, r # s PROVE LoopAt(r)'
    BY <1>5, <2>1, LoopStays DEF Submit, TypeOK, LoopView, Runs
  <2>2. LoopAt(s)'
    BY <1>5, GitHubConstants DEF Submit, TypeOK, LoopView, LoopAt, Selected, Runs, Files
  <2>3. QED
    BY <2>1, <2>2 DEF LoopView
<1>6. ASSUME NEW s \in Subs, SubmitFails(s) PROVE LoopView'
  <2>1. ASSUME NEW r \in Subs, r # s PROVE LoopAt(r)'
    BY <1>6, <2>1, LoopStays DEF SubmitFails, TypeOK, LoopView, Runs
  <2>2. LoopAt(s)'
    BY <1>6, GitHubConstants DEF SubmitFails, TypeOK, LoopView, LoopAt, Selected, Runs, Files
  <2>3. QED
    BY <2>1, <2>2 DEF LoopView
<1>7. ASSUME NEW s \in Subs, PostPending(s) PROVE LoopView'
  <2> DEFINE k == <<s, at[s]>>
  <2>1. ASSUME NEW r \in Subs, r # s PROVE LoopAt(r)'
    BY <1>7, <2>1, LoopStays DEF PostPending, Shown, Reaches, TypeOK, LoopView, Runs
  <2>2. LoopAt(s) /\ at[s] \in Nat /\ at[s] \in Files /\ sub[s] = "posting" /\ run[k] # "none"
    <3>1. sub[s] = "posting" /\ LoopAt(s)
      BY <1>7 DEF PostPending, LoopView
    <3>2. QED
      BY <3>1, GitHubConstants DEF LoopAt, Files
  <2>3. k \in Runs /\ at'[s] = at[s] + 1 /\ sub'[s] = "looping" /\ UNCHANGED <<event, run, skipped>>
    BY <1>7, <2>2 DEF PostPending, Shown, Reaches, TypeOK, Runs
  <2>4. \A i \in Files : /\ i \in Nat /\ (Selected(s, i)' <=> Selected(s, i))
                         /\ report'[<<s, i>>] = IF i = at[s] THEN "waiting" ELSE report[<<s, i>>]
    BY <1>7, <2>2, <2>3, GitHubConstants DEF PostPending, Shown, Reaches, TypeOK, Selected, Files, Runs
  <2>5. LoopAt(s)'
    BY <2>2, <2>3, <2>4 DEF LoopAt
  <2>6. QED
    BY <2>1, <2>5 DEF LoopView
<1>8. ASSUME NEW s \in Subs, Finish(s) PROVE LoopView'
  <2>1. ASSUME NEW r \in Subs, r # s PROVE LoopAt(r)'
    BY <1>8, <2>1, LoopStays DEF Finish, TypeOK, LoopView, Runs
  <2>2. LoopAt(s)'
    BY <1>8, GitHubConstants DEF Finish, TypeOK, LoopView, LoopAt, Selected, Runs, Files
  <2>3. QED
    BY <2>1, <2>2 DEF LoopView
<1>9. ASSUME NEW k \in Runs, RunEnds(k) PROVE LoopView'
  <2>1. \A j \in Runs : /\ run'[j] = "none" <=> run[j] = "none"
                        /\ report'[j] = "none" <=> report[j] = "none"
    BY <1>9 DEF RunEnds, TypeOK, Verdicts
  <2>2. UNCHANGED submits
    BY <1>9 DEF RunEnds
  <2>3. QED
    BY <2>1, <2>2, LoopStays DEF LoopView, Runs
<1>10. ASSUME NEW k \in Runs, Judge(k) PROVE LoopView'
  <2>1. \A j \in Runs : /\ run'[j] = "none" <=> run[j] = "none"
                        /\ report'[j] = "none" <=> report[j] = "none"
    BY <1>10 DEF Judge, TypeOK, Verdicts
  <2>2. UNCHANGED submits
    BY <1>10 DEF Judge
  <2>3. QED
    BY <2>1, <2>2, LoopStays DEF LoopView, Runs
<1>11. ASSUME NEW k \in Runs, Open(k) PROVE LoopView'
  <2>1. \A j \in Runs : /\ run'[j] = "none" <=> run[j] = "none"
                        /\ report'[j] = "none" <=> report[j] = "none"
    BY <1>11 DEF Open, TypeOK, Verdicts
  <2>2. UNCHANGED submits
    BY <1>11 DEF Open
  <2>3. QED
    BY <2>1, <2>2, LoopStays DEF LoopView, Runs
<1>12. ASSUME NEW k \in Runs, Uploaded(k) PROVE LoopView'
  <2>1. \A j \in Runs : /\ run'[j] = "none" <=> run[j] = "none"
                        /\ report'[j] = "none" <=> report[j] = "none"
    BY <1>12 DEF Uploaded, TypeOK, Verdicts
  <2>2. UNCHANGED submits
    BY <1>12 DEF Uploaded
  <2>3. QED
    BY <2>1, <2>2, LoopStays DEF LoopView, Runs
<1>13. ASSUME NEW k \in Runs, List(k) PROVE LoopView'
  <2>1. \A j \in Runs : /\ run'[j] = "none" <=> run[j] = "none"
                        /\ report'[j] = "none" <=> report[j] = "none"
    BY <1>13 DEF List, Asset, TypeOK, Verdicts
  <2>2. UNCHANGED submits
    BY <1>13 DEF List, Asset
  <2>3. QED
    BY <2>1, <2>2, LoopStays DEF LoopView, Runs
<1>14. ASSUME NEW k \in Runs, Delete(k) PROVE LoopView'
  <2>1. \A j \in Runs : /\ run'[j] = "none" <=> run[j] = "none"
                        /\ report'[j] = "none" <=> report[j] = "none"
    BY <1>14 DEF Delete, Removed, Asset, TypeOK, Verdicts
  <2>2. UNCHANGED submits
    BY <1>14 DEF Delete, Removed, Asset
  <2>3. QED
    BY <2>1, <2>2, LoopStays DEF LoopView, Runs
<1>15. ASSUME NEW k \in Runs, Upload(k) PROVE LoopView'
  <2>1. \A j \in Runs : /\ run'[j] = "none" <=> run[j] = "none"
                        /\ report'[j] = "none" <=> report[j] = "none"
    BY <1>15 DEF Upload, Added, Asset, TypeOK, Verdicts
  <2>2. UNCHANGED submits
    BY <1>15 DEF Upload, Added, Asset
  <2>3. QED
    BY <2>1, <2>2, LoopStays DEF LoopView, Runs
<1>16. ASSUME NEW k \in Runs, AssetFails(k) PROVE LoopView'
  <2>1. \A j \in Runs : /\ run'[j] = "none" <=> run[j] = "none"
                        /\ report'[j] = "none" <=> report[j] = "none"
    BY <1>16 DEF AssetFails, InArtifact, Removed, Added, Asset, TypeOK, Verdicts
  <2>2. UNCHANGED submits
    BY <1>16 DEF AssetFails, InArtifact, Removed, Added, Asset
  <2>3. QED
    BY <2>1, <2>2, LoopStays DEF LoopView, Runs
<1>17. ASSUME NEW k \in Runs, PostVerdict(k) PROVE LoopView'
  <2>1. \A j \in Runs : /\ run'[j] = "none" <=> run[j] = "none"
                        /\ report'[j] = "none" <=> report[j] = "none"
    BY <1>17 DEF PostVerdict, Shown, TypeOK, Verdicts
  <2>2. UNCHANGED submits
    BY <1>17 DEF PostVerdict, Shown
  <2>3. QED
    BY <2>1, <2>2, LoopStays DEF LoopView, Runs
<1>18. CASE Signal
  <2>1. \A j \in Runs : /\ run'[j] = "none" <=> run[j] = "none"
                        /\ report'[j] = "none" <=> report[j] = "none"
    BY <1>18 DEF Signal, TypeOK, Verdicts
  <2>2. UNCHANGED submits
    BY <1>18 DEF Signal
  <2>3. QED
    BY <2>1, <2>2, LoopStays DEF LoopView, Runs
<1>19. CASE Crash
  <2>1. ASSUME NEW s \in Subs PROVE LoopAt(s)'
    BY <1>19 DEF Crash, TypeOK, LoopView, LoopAt, Selected, Runs, Files
  <2>2. QED
    BY <2>1 DEF LoopView
<1>20. CASE UNCHANGED vars
  <2>1. \A j \in Runs : /\ run'[j] = "none" <=> run[j] = "none"
                        /\ report'[j] = "none" <=> report[j] = "none"
    BY <1>20 DEF vars, TypeOK, Verdicts
  <2>2. UNCHANGED submits
    BY <1>20 DEF vars
  <2>3. QED
    BY <2>1, <2>2, LoopStays DEF LoopView, Runs
<1>21. QED
  BY <1>1, <1>2, <1>3, <1>4, <1>5, <1>6, <1>7, <1>8, <1>9, <1>10, <1>11, <1>12, <1>13,
     <1>14, <1>15, <1>16, <1>17, <1>18, <1>19, <1>20 DEF Next, Submitting, Reporting,
     Terminating

\* The run a submission is at has no report.
LEMMA Unreported ==
  ASSUME TypeOK, LoopView, ReportView, NEW s \in Subs, at[s] \in Files
  PROVE  report[<<s, at[s]>>] = "none" /\ verdict[<<s, at[s]>>] = "none"
<1>1. LoopAt(s) /\ at[s] \in Nat /\ <<s, at[s]>> \in Runs
  BY GitHubConstants DEF LoopView, Files, Runs
<1>2. report[<<s, at[s]>>] = "none"
  BY <1>1 DEF LoopAt
<1>3. ReportAt(<<s, at[s]>>)
  BY <1>1 DEF ReportView
<1>4. QED
  BY <1>2, <1>3 DEF ReportAt

\* The account of a report holds on while nothing of it changes.
LEMMA ReportStays ==
  ASSUME NEW k \in Runs, ReportAt(k), Artifacts(k)' = Artifacts(k), art'[k] = art[k],
         report'[k] = report[k], verdict'[k] = verdict[k], run'[k] = run[k]
  PROVE  ReportAt(k)'
BY DEF ReportAt

\* Every step keeps the account of the reports.
LEMMA StepReport ==
  ASSUME TypeOK, LoopView, ReportView, Work
  PROVE  ReportView'
<1> USE DEF daemon, submits, reports, gitHub, Work
<1>1. ASSUME NEW s \in Subs, Load(s) PROVE ReportView'
  BY <1>1, ReportStays, EventKept DEF Load, Reaches, ReportView
<1>2. ASSUME NEW s \in Subs, LoadFails(s) PROVE ReportView'
  BY <1>2, ReportStays, EventKept DEF LoadFails, ReportView
<1>3. ASSUME NEW s \in Subs, Pass(s) PROVE ReportView'
  BY <1>3, ReportStays, EventKept DEF Pass, ReportView
<1>4. ASSUME NEW s \in Subs, Skip(s) PROVE ReportView'
  BY <1>4, ReportStays, EventKept DEF Skip, ReportView
<1>5. ASSUME NEW s \in Subs, Submit(s) PROVE ReportView'
  <2> PICK k \in Runs : k = <<s, at[s]>>
    BY <1>5 DEF Submit, LoopView, LoopAt, Runs
  <2>1. report[k] = "none" /\ verdict[k] = "none"
    BY <1>5, Unreported DEF Submit, LoopView, LoopAt
  <2>2. ASSUME NEW j \in Runs, j # k PROVE ReportAt(j)'
    BY <1>5, <2>2, ReportStays, EventKept DEF Submit, ReportView, TypeOK
  <2>3. report'[k] \in {"none", "waiting"} /\ verdict'[k] = "none"
    BY <1>5, <2>1 DEF Submit, TypeOK
  <2>4. ReportAt(k)'
    BY <2>3 DEF ReportAt
  <2>5. QED
    BY <2>2, <2>4 DEF ReportView
<1>6. ASSUME NEW s \in Subs, SubmitFails(s) PROVE ReportView'
  BY <1>6, ReportStays, EventKept DEF SubmitFails, ReportView
<1>7. ASSUME NEW s \in Subs, PostPending(s) PROVE ReportView'
  <2> PICK k \in Runs : k = <<s, at[s]>>
    BY <1>7 DEF PostPending, Shown, Reaches, LoopView, LoopAt, Runs
  <2>1. report[k] = "none" /\ verdict[k] = "none"
    BY <1>7, Unreported DEF PostPending, Shown, Reaches, LoopView, LoopAt
  <2>2. ASSUME NEW j \in Runs, j # k PROVE ReportAt(j)'
    BY <1>7, <2>2, ReportStays, EventKept DEF PostPending, Shown, Reaches, ReportView, TypeOK
  <2>3. report'[k] \in {"none", "waiting"} /\ verdict'[k] = "none"
    BY <1>7, <2>1 DEF PostPending, Shown, Reaches, TypeOK
  <2>4. ReportAt(k)'
    BY <2>3 DEF ReportAt
  <2>5. QED
    BY <2>2, <2>4 DEF ReportView
<1>8. ASSUME NEW s \in Subs, Finish(s) PROVE ReportView'
  BY <1>8, ReportStays, EventKept DEF Finish, ReportView
<1>9. ASSUME NEW k \in Runs, RunEnds(k) PROVE ReportView'
  <2>1. ASSUME NEW j \in Runs, j # k PROVE ReportAt(j)'
    BY <1>9, <2>1, ReportStays, EventKept DEF RunEnds, ReportView, TypeOK
  <2>2. ReportAt(k)'
    BY <1>9, EventKept, ArtifactsTyped DEF RunEnds, ReportView, ReportAt, TypeOK, Verdicts
  <2>3. QED
    BY <2>1, <2>2 DEF ReportView
<1>10. ASSUME NEW k \in Runs, Judge(k) PROVE ReportView'
  <2>1. ASSUME NEW j \in Runs, j # k PROVE ReportAt(j)'
    BY <1>10, <2>1, ReportStays, EventKept DEF Judge, ReportView, TypeOK
  <2>2. Artifacts(k)' = Artifacts(k) /\ art'[k] = art[k] /\ run'[k] = run[k] /\ verdict[k] = "none"
    BY <1>10, EventKept DEF Judge, ReportView, ReportAt, TypeOK
  <2>3. ReportAt(k)'
    <3>1. CASE run[k] = "failed"
      <4>1. report'[k] = "posting" /\ verdict'[k] = "failure"
        BY <1>10, <3>1 DEF Judge, TypeOK
      <4>2. QED
        BY <2>2, <3>1, <4>1 DEF ReportAt
    <3>2. CASE run[k] = "succeeded" /\ EventOf(k).kind = "release"
      <4>1. report'[k] = "loading" /\ verdict'[k] = "none"
        BY <1>10, <2>2, <3>2 DEF Judge, TypeOK
      <4>2. QED
        BY <2>2, <3>2, <4>1 DEF ReportAt
    <3>3. CASE run[k] = "succeeded" /\ EventOf(k).kind # "release"
      <4>1. Artifacts(k) = <<>>
        BY <3>3 DEF Artifacts
      <4>2. art[k] \in 1..1
        BY <4>1 DEF TypeOK
      <4>3. art[k] = Len(Artifacts(k)) + 1
        BY <4>1, <4>2
      <4>4. report'[k] = "posting" /\ verdict'[k] = "success"
        BY <1>10, <3>3 DEF Judge, TypeOK
      <4>5. QED
        BY <2>2, <3>3, <4>3, <4>4 DEF ReportAt
    <3>4. QED
      BY <1>10, <3>1, <3>2, <3>3 DEF Judge, Verdicts
  <2>4. QED
    BY <2>1, <2>3 DEF ReportView
<1>11. ASSUME NEW k \in Runs, Open(k) PROVE ReportView'
  <2>1. ASSUME NEW j \in Runs, j # k PROVE ReportAt(j)'
    BY <1>11, <2>1, ReportStays, EventKept DEF Open, ReportView, TypeOK
  <2>2. ReportAt(k)'
    BY <1>11, EventKept, ArtifactsTyped DEF Open, ReportView, ReportAt, TypeOK, Verdicts
  <2>3. QED
    BY <2>1, <2>2 DEF ReportView
<1>12. ASSUME NEW k \in Runs, Uploaded(k) PROVE ReportView'
  <2>1. ASSUME NEW j \in Runs, j # k PROVE ReportAt(j)'
    BY <1>12, <2>1, ReportStays, EventKept DEF Uploaded, ReportView, TypeOK
  <2>2. ReportAt(k)'
    BY <1>12, EventKept, ArtifactsTyped DEF Uploaded, ReportView, ReportAt, TypeOK, Verdicts
  <2>3. QED
    BY <2>1, <2>2 DEF ReportView
<1>13. ASSUME NEW k \in Runs, List(k) PROVE ReportView'
  <2>1. ASSUME NEW j \in Runs, j # k PROVE ReportAt(j)'
    BY <1>13, <2>1, ReportStays, EventKept DEF List, Asset, ReportView, TypeOK
  <2>2. ReportAt(k)'
    BY <1>13, EventKept, ArtifactsTyped DEF List, Asset, ReportView, ReportAt, TypeOK, Verdicts
  <2>3. QED
    BY <2>1, <2>2 DEF ReportView
<1>14. ASSUME NEW k \in Runs, Delete(k) PROVE ReportView'
  <2>1. ASSUME NEW j \in Runs, j # k PROVE ReportAt(j)'
    BY <1>14, <2>1, ReportStays, EventKept DEF Delete, Removed, Asset, ReportView, TypeOK
  <2>2. ReportAt(k)'
    BY <1>14, EventKept, ArtifactsTyped DEF Delete, Removed, Asset, ReportView, ReportAt, TypeOK, Verdicts
  <2>3. QED
    BY <2>1, <2>2 DEF ReportView
<1>15. ASSUME NEW k \in Runs, Upload(k) PROVE ReportView'
  <2>1. ASSUME NEW j \in Runs, j # k PROVE ReportAt(j)'
    BY <1>15, <2>1, ReportStays, EventKept DEF Upload, Added, Asset, ReportView, TypeOK
  <2>2. ReportAt(k)'
    BY <1>15, EventKept, ArtifactsTyped DEF Upload, Added, Asset, ReportView, ReportAt, TypeOK, Verdicts
  <2>3. QED
    BY <2>1, <2>2 DEF ReportView
<1>16. ASSUME NEW k \in Runs, AssetFails(k) PROVE ReportView'
  <2>1. ASSUME NEW j \in Runs, j # k PROVE ReportAt(j)'
    BY <1>16, <2>1, ReportStays, EventKept DEF AssetFails, InArtifact, Removed, Added, Asset, ReportView, TypeOK
  <2>2. ReportAt(k)'
    BY <1>16, EventKept, ArtifactsTyped DEF AssetFails, InArtifact, Removed, Added, Asset, ReportView, ReportAt, TypeOK, Verdicts
  <2>3. QED
    BY <2>1, <2>2 DEF ReportView
<1>17. ASSUME NEW k \in Runs, PostVerdict(k) PROVE ReportView'
  <2>1. ASSUME NEW j \in Runs, j # k PROVE ReportAt(j)'
    BY <1>17, <2>1, ReportStays, EventKept DEF PostVerdict, Shown, ReportView, TypeOK
  <2>2. ReportAt(k)'
    BY <1>17, EventKept, ArtifactsTyped DEF PostVerdict, Shown, ReportView, ReportAt, TypeOK, Verdicts
  <2>3. QED
    BY <2>1, <2>2 DEF ReportView
<1>18. CASE Signal
  BY <1>18, ReportStays, EventKept DEF Signal, ReportView
<1>19. CASE Crash
  <2>1. ASSUME NEW k \in Runs PROVE ReportAt(k)'
    BY <1>19, EventKept DEF Crash, ReportView, ReportAt, TypeOK
  <2>2. QED
    BY <2>1 DEF ReportView
<1>20. CASE UNCHANGED vars
  BY <1>20, ReportStays, EventKept DEF vars, ReportView
<1>21. QED
  BY <1>1, <1>2, <1>3, <1>4, <1>5, <1>6, <1>7, <1>8, <1>9, <1>10, <1>11, <1>12, <1>13,
     <1>14, <1>15, <1>16, <1>17, <1>18, <1>19, <1>20 DEF Next, Submitting, Reporting,
     Terminating

\* Every step keeps the account of what the commit shows.
LEMMA StepStatus ==
  ASSUME TypeOK, LoopView, ReportView, StatusView, Work
  PROVE  StatusView'
<1> USE DEF daemon, submits, reports, gitHub, Work
<1>a. ASSUME UNCHANGED <<status, silent>>,
             \A j \in Runs : /\ report[j] # "none" => report'[j] # "none"
                             /\ report[j] = "done" => report'[j] = "done" /\ verdict'[j] = verdict[j]
                             /\ report'[j] = "done" => report[j] = "done"
      PROVE  StatusView'
  <2> SUFFICES ASSUME NEW n \in Names, status[n].state # "none" PROVE Posted(n, status[n].run)'
    BY <1>a DEF StatusView
  <2>1. Posted(n, status[n].run) /\ status[n].run \in Runs
    BY DEF StatusView, Posted
  <2>2. QED
    BY <1>a, <2>1 DEF Posted, File
<1>1. ASSUME NEW s \in Subs, Load(s) PROVE StatusView'
  BY <1>1, <1>a DEF Load, Reaches, TypeOK
<1>2. ASSUME NEW s \in Subs, LoadFails(s) PROVE StatusView'
  BY <1>2, <1>a DEF LoadFails, TypeOK
<1>3. ASSUME NEW s \in Subs, Pass(s) PROVE StatusView'
  BY <1>3, <1>a DEF Pass, TypeOK
<1>4. ASSUME NEW s \in Subs, Skip(s) PROVE StatusView'
  BY <1>4, <1>a DEF Skip, TypeOK
<1>5. ASSUME NEW s \in Subs, Submit(s) PROVE StatusView'
  BY <1>5, <1>a DEF Submit, TypeOK
<1>6. ASSUME NEW s \in Subs, SubmitFails(s) PROVE StatusView'
  BY <1>6, <1>a DEF SubmitFails, TypeOK
<1>7. ASSUME NEW s \in Subs, PostPending(s) PROVE StatusView'
  <2> PICK k \in Runs : k = <<s, at[s]>>
    BY <1>7 DEF PostPending, LoopView, LoopAt, Runs
  <2>1. report[k] = "none" /\ File(k).name \in Names
    BY <1>7, Unreported, NameTyped DEF PostPending, LoopView, LoopAt
  <2>2. report' = [report EXCEPT ![k] = "waiting"] /\ UNCHANGED <<silent, verdict>>
    BY <1>7 DEF PostPending
  <2>3. ASSUME NEW n \in Names, status'[n] = status[n], status[n].state # "none"
        PROVE  Posted(n, status[n].run)'
    <3> PICK j : j = status[n].run /\ Posted(n, j)
      BY <2>3 DEF StatusView
    <3>1. j \in Runs /\ j # k
      BY <2>1 DEF Posted
    <3>2. Posted(n, j)'
      BY <2>2, <2>3, <3>1 DEF Posted, File, TypeOK
    <3>3. QED
      BY <2>3, <3>2
  <2>4. CASE UNCHANGED status
    BY <2>3, <2>4 DEF StatusView
  <2>5. CASE status' = Shown(k, "pending")
    <3>1. status'[File(k).name] = [state |-> "pending", run |-> k]
      BY <2>1, <2>5 DEF Shown, TypeOK
    <3>2. Posted(File(k).name, k)'
      BY <2>1, <2>2, <3>1 DEF Posted, File, TypeOK
    <3>3. \A n \in Names \ {File(k).name} : status'[n] = status[n]
      BY <2>5 DEF Shown, TypeOK
    <3>4. QED
      BY <2>3, <3>1, <3>2, <3>3 DEF StatusView
  <2>6. QED
    BY <1>7, <2>4, <2>5 DEF PostPending
<1>8. ASSUME NEW s \in Subs, Finish(s) PROVE StatusView'
  BY <1>8, <1>a DEF Finish, TypeOK
<1>9. ASSUME NEW k \in Runs, RunEnds(k) PROVE StatusView'
  BY <1>9, <1>a DEF RunEnds, TypeOK
<1>10. ASSUME NEW k \in Runs, Judge(k) PROVE StatusView'
  BY <1>10, <1>a DEF Judge, TypeOK
<1>11. ASSUME NEW k \in Runs, Open(k) PROVE StatusView'
  BY <1>11, <1>a DEF Open, TypeOK
<1>12. ASSUME NEW k \in Runs, Uploaded(k) PROVE StatusView'
  BY <1>12, <1>a DEF Uploaded, TypeOK
<1>13. ASSUME NEW k \in Runs, List(k) PROVE StatusView'
  BY <1>13, <1>a DEF List, Asset, TypeOK
<1>14. ASSUME NEW k \in Runs, Delete(k) PROVE StatusView'
  BY <1>14, <1>a DEF Delete, Removed, Asset, TypeOK
<1>15. ASSUME NEW k \in Runs, Upload(k) PROVE StatusView'
  BY <1>15, <1>a DEF Upload, Added, Asset, TypeOK
<1>16. ASSUME NEW k \in Runs, AssetFails(k) PROVE StatusView'
  BY <1>16, <1>a DEF AssetFails, InArtifact, Removed, Added, Asset, TypeOK
<1>17. ASSUME NEW k \in Runs, PostVerdict(k) PROVE StatusView'
  <2>1. report[k] = "posting" /\ verdict[k] \in {"success", "failure"} /\ File(k).name \in Names
    BY <1>17, NameTyped DEF PostVerdict, TypeOK, ReportView, ReportAt
  <2>2. report' = [report EXCEPT ![k] = "done"] /\ UNCHANGED verdict
    BY <1>17 DEF PostVerdict
  <2>3. ASSUME NEW n \in Names, status'[n] = status[n], status[n].state # "none",
               status[n].run = k => k \in silent', silent \subseteq silent'
        PROVE  Posted(n, status[n].run)'
    <3> PICK j : j = status[n].run /\ Posted(n, j)
      BY <2>3 DEF StatusView
    <3>1. Posted(n, j)'
      BY <2>1, <2>2, <2>3 DEF Posted, File, TypeOK
    <3>2. QED
      BY <2>3, <3>1
  <2>4. CASE UNCHANGED status /\ silent' = silent \cup {k}
    BY <2>3, <2>4 DEF StatusView
  <2>5. CASE status' = Shown(k, verdict[k]) /\ UNCHANGED silent
    <3>1. status'[File(k).name] = [state |-> verdict[k], run |-> k]
      BY <2>1, <2>5 DEF Shown, TypeOK
    <3>2. Posted(File(k).name, k)'
      BY <2>1, <2>2, <3>1 DEF Posted, File, TypeOK
    <3>3. \A n \in Names \ {File(k).name} : status'[n] = status[n]
      BY <2>5 DEF Shown, TypeOK
    <3>4. \A n \in Names \ {File(k).name} : status[n].state # "none" => status[n].run # k
      BY DEF StatusView, Posted
    <3>5. QED
      BY <2>3, <2>5, <3>1, <3>2, <3>3, <3>4 DEF StatusView
  <2>6. QED
    BY <1>17, <2>4, <2>5 DEF PostVerdict
<1>18. CASE Signal
  BY <1>18, <1>a DEF Signal, TypeOK
<1>19. CASE Crash
  BY <1>19, <1>a DEF Crash, TypeOK
<1>20. CASE UNCHANGED vars
  BY <1>20, <1>a DEF vars, TypeOK
<1>21. QED
  BY <1>1, <1>2, <1>3, <1>4, <1>5, <1>6, <1>7, <1>8, <1>9, <1>10, <1>11, <1>12, <1>13,
     <1>14, <1>15, <1>16, <1>17, <1>18, <1>19, <1>20 DEF Next, Submitting, Reporting,
     Terminating

\* The account of an asset holds on while its run does.
LEMMA AssetStays ==
  ASSUME TypeOK, AssetView, NEW n \in AssetNames, assets'[n] = assets[n], assets[n] # None,
         \A k \in Runs : run[k] = "succeeded" =>
           run'[k] = "succeeded" /\ Artifacts(k)' = Artifacts(k) /\ art'[k] \in Nat /\ art[k] <= art'[k]
  PROVE  \E k \in Runs : \E j \in (DOMAIN Artifacts(k))' :
           /\ assets'[n] = <<k, j>> /\ run'[k] = "succeeded"
           /\ j <= art'[k] /\ Artifacts(k)'[j].asset = n
<1> PICK k \in Runs : \E j \in DOMAIN Artifacts(k) :
       /\ assets[n] = <<k, j>> /\ run[k] = "succeeded"
       /\ j <= art[k] /\ Artifacts(k)[j].asset = n
  BY DEF AssetView
<1>1. PICK j \in DOMAIN Artifacts(k) :
        /\ assets[n] = <<k, j>> /\ run[k] = "succeeded"
        /\ j <= art[k] /\ Artifacts(k)[j].asset = n
  OBVIOUS
<1>2. j \in Nat /\ art[k] \in Nat
  BY ArtifactsTyped DEF TypeOK
<1>3. QED
  BY <1>1, <1>2

\* Every step keeps the account of the assets there are.
LEMMA StepAsset ==
  ASSUME TypeOK, TypeOK', LoopView, ReportView, AssetView, Work
  PROVE  AssetView'
<1> USE DEF daemon, submits, reports, gitHub, Work
<1>a. ASSUME UNCHANGED <<event, assets>>,
             \A k \in Runs : run[k] = "succeeded" => run'[k] = "succeeded" /\ art'[k] = art[k]
      PROVE  AssetView'
  <2>1. \A k \in Runs : run[k] = "succeeded" =>
          run'[k] = "succeeded" /\ Artifacts(k)' = Artifacts(k) /\ art'[k] \in Nat /\ art[k] <= art'[k]
    BY <1>a, EventKept DEF TypeOK
  <2>2. QED
    BY <1>a, <2>1, AssetStays DEF AssetView
<1>1. ASSUME NEW s \in Subs, Load(s) PROVE AssetView'
  BY <1>1, <1>a DEF Load, Reaches, TypeOK, Verdicts
<1>2. ASSUME NEW s \in Subs, LoadFails(s) PROVE AssetView'
  BY <1>2, <1>a DEF LoadFails, TypeOK, Verdicts
<1>3. ASSUME NEW s \in Subs, Pass(s) PROVE AssetView'
  BY <1>3, <1>a DEF Pass, TypeOK, Verdicts
<1>4. ASSUME NEW s \in Subs, Skip(s) PROVE AssetView'
  BY <1>4, <1>a DEF Skip, TypeOK, Verdicts
<1>5. ASSUME NEW s \in Subs, Submit(s) PROVE AssetView'
  <2> PICK k \in Runs : k = <<s, at[s]>>
    BY <1>5 DEF Submit, Runs
  <2>1. LoopAt(s) /\ report[k] = "none"
    BY <1>5, Unreported DEF Submit, LoopView
  <2>2. run[k] = "none"
    BY <1>5, <2>1 DEF Submit, LoopAt
  <2>3. QED
    BY <1>5, <1>a, <2>2 DEF Submit, TypeOK
<1>6. ASSUME NEW s \in Subs, SubmitFails(s) PROVE AssetView'
  BY <1>6, <1>a DEF SubmitFails, TypeOK, Verdicts
<1>7. ASSUME NEW s \in Subs, PostPending(s) PROVE AssetView'
  BY <1>7, <1>a DEF PostPending, Shown, Reaches, TypeOK, Verdicts
<1>8. ASSUME NEW s \in Subs, Finish(s) PROVE AssetView'
  BY <1>8, <1>a DEF Finish, TypeOK, Verdicts
<1>9. ASSUME NEW k \in Runs, RunEnds(k) PROVE AssetView'
  BY <1>9, <1>a DEF RunEnds, TypeOK, Verdicts
<1>10. ASSUME NEW k \in Runs, Judge(k) PROVE AssetView'
  BY <1>10, <1>a DEF Judge, TypeOK, Verdicts
<1>11. ASSUME NEW k \in Runs, Open(k) PROVE AssetView'
  BY <1>11, <1>a DEF Open, TypeOK, Verdicts
<1>12. ASSUME NEW k \in Runs, Uploaded(k) PROVE AssetView'
  BY <1>12, <1>a DEF Uploaded, TypeOK, Verdicts
<1>13. ASSUME NEW k \in Runs, List(k) PROVE AssetView'
  BY <1>13, <1>a DEF List, Asset, TypeOK, Verdicts
<1>14. ASSUME NEW k \in Runs, Delete(k) PROVE AssetView'
  <2>1. art[k] \in DOMAIN Artifacts(k) /\ run[k] = "succeeded"
    BY <1>14 DEF Delete, Removed, Asset, InArtifact, ReportView, ReportAt
  <2>2. \A j \in Runs : run[j] = "succeeded" =>
          run'[j] = "succeeded" /\ Artifacts(j)' = Artifacts(j) /\ art'[j] \in Nat /\ art[j] <= art'[j]
    BY <1>14, EventKept DEF Delete, Removed, Asset, TypeOK
  <2>3. Asset(k) \in AssetNames /\ art[k] \in Nat /\ art[k] <= art'[k]
    BY <2>1, <2>2, AssetTyped DEF TypeOK
  <2>4. \A n \in AssetNames \ {Asset(k)} : assets'[n] = assets[n]
    BY <1>14 DEF Delete, Removed, Asset, TypeOK
  <2>5. assets'[Asset(k)] # None => assets'[Asset(k)] = assets[Asset(k)] \/ assets'[Asset(k)] = <<k, art[k]>>
    BY <1>14, <2>3 DEF Delete, Removed, Asset, TypeOK
  <2>6. run'[k] = "succeeded" /\ Artifacts(k)' = Artifacts(k) /\ Artifacts(k)[art[k]].asset = Asset(k)
    BY <2>1, <2>2 DEF Asset
  <2>7. QED
    BY <2>1, <2>2, <2>3, <2>4, <2>5, <2>6, AssetStays DEF AssetView
<1>15. ASSUME NEW k \in Runs, Upload(k) PROVE AssetView'
  <2>1. art[k] \in DOMAIN Artifacts(k) /\ run[k] = "succeeded"
    BY <1>15 DEF Upload, Added, Asset, InArtifact, ReportView, ReportAt
  <2>2. \A j \in Runs : run[j] = "succeeded" =>
          run'[j] = "succeeded" /\ Artifacts(j)' = Artifacts(j) /\ art'[j] \in Nat /\ art[j] <= art'[j]
    BY <1>15, EventKept DEF Upload, Added, Asset, TypeOK
  <2>3. Asset(k) \in AssetNames /\ art[k] \in Nat /\ art[k] <= art'[k]
    BY <2>1, <2>2, AssetTyped DEF TypeOK
  <2>4. \A n \in AssetNames \ {Asset(k)} : assets'[n] = assets[n]
    BY <1>15 DEF Upload, Added, Asset, TypeOK
  <2>5. assets'[Asset(k)] # None => assets'[Asset(k)] = assets[Asset(k)] \/ assets'[Asset(k)] = <<k, art[k]>>
    BY <1>15, <2>3 DEF Upload, Added, Asset, TypeOK
  <2>6. run'[k] = "succeeded" /\ Artifacts(k)' = Artifacts(k) /\ Artifacts(k)[art[k]].asset = Asset(k)
    BY <2>1, <2>2 DEF Asset
  <2>7. QED
    BY <2>1, <2>2, <2>3, <2>4, <2>5, <2>6, AssetStays DEF AssetView
<1>16. ASSUME NEW k \in Runs, AssetFails(k) PROVE AssetView'
  <2>1. art[k] \in DOMAIN Artifacts(k) /\ run[k] = "succeeded"
    BY <1>16 DEF AssetFails, InArtifact, Removed, Added, Asset, InArtifact, ReportView, ReportAt
  <2>2. \A j \in Runs : run[j] = "succeeded" =>
          run'[j] = "succeeded" /\ Artifacts(j)' = Artifacts(j) /\ art'[j] \in Nat /\ art[j] <= art'[j]
    BY <1>16, EventKept DEF AssetFails, InArtifact, Removed, Added, Asset, TypeOK
  <2>3. Asset(k) \in AssetNames /\ art[k] \in Nat /\ art[k] <= art'[k]
    BY <2>1, <2>2, AssetTyped DEF TypeOK
  <2>4. \A n \in AssetNames \ {Asset(k)} : assets'[n] = assets[n]
    BY <1>16 DEF AssetFails, InArtifact, Removed, Added, Asset, TypeOK
  <2>5. assets'[Asset(k)] # None => assets'[Asset(k)] = assets[Asset(k)] \/ assets'[Asset(k)] = <<k, art[k]>>
    BY <1>16, <2>3 DEF AssetFails, InArtifact, Removed, Added, Asset, TypeOK
  <2>6. run'[k] = "succeeded" /\ Artifacts(k)' = Artifacts(k) /\ Artifacts(k)[art[k]].asset = Asset(k)
    BY <2>1, <2>2 DEF Asset
  <2>7. QED
    BY <2>1, <2>2, <2>3, <2>4, <2>5, <2>6, AssetStays DEF AssetView
<1>17. ASSUME NEW k \in Runs, PostVerdict(k) PROVE AssetView'
  BY <1>17, <1>a DEF PostVerdict, Shown, TypeOK, Verdicts
<1>18. CASE Signal
  BY <1>18, <1>a DEF Signal, TypeOK, Verdicts
<1>19. CASE Crash
  BY <1>19, <1>a DEF Crash, TypeOK, Verdicts
<1>20. CASE UNCHANGED vars
  BY <1>20, <1>a DEF vars, TypeOK, Verdicts
<1>21. QED
  BY <1>1, <1>2, <1>3, <1>4, <1>5, <1>6, <1>7, <1>8, <1>9, <1>10, <1>11, <1>12, <1>13,
     <1>14, <1>15, <1>16, <1>17, <1>18, <1>19, <1>20 DEF Next, Submitting, Reporting,
     Terminating

\* What a name was lost to stays.
LEMMA OwingStays ==
  ASSUME NEW n, Missing(n),
         \A k \in Runs : Owing(k) /\ Asset(k) = n => Owing(k)' /\ Artifacts(k)' = Artifacts(k) /\ art'[k] = art[k]
  PROVE  Missing(n)'
BY DEF Missing, Asset

\* Every step keeps the account of the assets there were.
LEMMA StepMissing ==
  ASSUME TypeOK, LoopView, ReportView, MissingView, Work
  PROVE  MissingView'
<1> USE DEF daemon, submits, reports, gitHub, Work
<1>a. ASSUME UNCHANGED <<event, assets, published>>,
             \A k \in Runs : Owing(k) => art'[k] = art[k] /\ (Owing(k)' \/ report'[k] = "lost")
      PROVE  MissingView'
  <2>1. \A k \in Runs : Owing(k) => Owing(k)' /\ Artifacts(k)' = Artifacts(k) /\ art'[k] = art[k]
    BY <1>a, EventKept DEF Owing
  <2>2. QED
    BY <1>a, <2>1, OwingStays DEF MissingView
<1>1. ASSUME NEW s \in Subs, Load(s) PROVE MissingView'
  <2>1. \A j \in Runs : Owing(j) => art'[j] = art[j] /\ (Owing(j)' \/ report'[j] = "lost")
    BY <1>1, EventKept DEF Load, Reaches, TypeOK, Owing, ReportView, ReportAt
  <2>2. QED
    BY <1>1, <1>a, <2>1 DEF Load, Reaches
<1>2. ASSUME NEW s \in Subs, LoadFails(s) PROVE MissingView'
  <2>1. \A j \in Runs : Owing(j) => art'[j] = art[j] /\ (Owing(j)' \/ report'[j] = "lost")
    BY <1>2, EventKept DEF LoadFails, TypeOK, Owing, ReportView, ReportAt
  <2>2. QED
    BY <1>2, <1>a, <2>1 DEF LoadFails
<1>3. ASSUME NEW s \in Subs, Pass(s) PROVE MissingView'
  <2>1. \A j \in Runs : Owing(j) => art'[j] = art[j] /\ (Owing(j)' \/ report'[j] = "lost")
    BY <1>3, EventKept DEF Pass, TypeOK, Owing, ReportView, ReportAt
  <2>2. QED
    BY <1>3, <1>a, <2>1 DEF Pass
<1>4. ASSUME NEW s \in Subs, Skip(s) PROVE MissingView'
  <2>1. \A j \in Runs : Owing(j) => art'[j] = art[j] /\ (Owing(j)' \/ report'[j] = "lost")
    BY <1>4, EventKept DEF Skip, TypeOK, Owing, ReportView, ReportAt
  <2>2. QED
    BY <1>4, <1>a, <2>1 DEF Skip
<1>5. ASSUME NEW s \in Subs, Submit(s) PROVE MissingView'
  <2> PICK k \in Runs : k = <<s, at[s]>>
    BY <1>5 DEF Submit, LoopView, LoopAt, Runs
  <2>1. report[k] = "none" /\ verdict[k] = "none"
    BY <1>5, Unreported DEF Submit, LoopView, LoopAt
  <2>2. \A j \in Runs : Owing(j) => art'[j] = art[j] /\ Owing(j)'
    BY <1>5, <2>1, EventKept DEF Submit, TypeOK, Owing
  <2>3. QED
    BY <1>5, <1>a, <2>2 DEF Submit
<1>6. ASSUME NEW s \in Subs, SubmitFails(s) PROVE MissingView'
  <2>1. \A j \in Runs : Owing(j) => art'[j] = art[j] /\ (Owing(j)' \/ report'[j] = "lost")
    BY <1>6, EventKept DEF SubmitFails, TypeOK, Owing, ReportView, ReportAt
  <2>2. QED
    BY <1>6, <1>a, <2>1 DEF SubmitFails
<1>7. ASSUME NEW s \in Subs, PostPending(s) PROVE MissingView'
  <2> PICK k \in Runs : k = <<s, at[s]>>
    BY <1>7 DEF PostPending, Shown, Reaches, LoopView, LoopAt, Runs
  <2>1. report[k] = "none" /\ verdict[k] = "none"
    BY <1>7, Unreported DEF PostPending, Shown, Reaches, LoopView, LoopAt
  <2>2. \A j \in Runs : Owing(j) => art'[j] = art[j] /\ Owing(j)'
    BY <1>7, <2>1, EventKept DEF PostPending, Shown, Reaches, TypeOK, Owing
  <2>3. QED
    BY <1>7, <1>a, <2>2 DEF PostPending, Shown, Reaches
<1>8. ASSUME NEW s \in Subs, Finish(s) PROVE MissingView'
  <2>1. \A j \in Runs : Owing(j) => art'[j] = art[j] /\ (Owing(j)' \/ report'[j] = "lost")
    BY <1>8, EventKept DEF Finish, TypeOK, Owing, ReportView, ReportAt
  <2>2. QED
    BY <1>8, <1>a, <2>1 DEF Finish
<1>9. ASSUME NEW k \in Runs, RunEnds(k) PROVE MissingView'
  <2>1. \A j \in Runs : Owing(j) => art'[j] = art[j] /\ (Owing(j)' \/ report'[j] = "lost")
    BY <1>9, EventKept DEF RunEnds, TypeOK, Owing, ReportView, ReportAt
  <2>2. QED
    BY <1>9, <1>a, <2>1 DEF RunEnds
<1>10. ASSUME NEW k \in Runs, Judge(k) PROVE MissingView'
  <2>1. \A j \in Runs : Owing(j) => art'[j] = art[j] /\ (Owing(j)' \/ report'[j] = "lost")
    BY <1>10, EventKept DEF Judge, TypeOK, Owing, ReportView, ReportAt
  <2>2. QED
    BY <1>10, <1>a, <2>1 DEF Judge
<1>11. ASSUME NEW k \in Runs, Open(k) PROVE MissingView'
  <2>1. \A j \in Runs : Owing(j) => art'[j] = art[j] /\ (Owing(j)' \/ report'[j] = "lost")
    BY <1>11, EventKept DEF Open, TypeOK, Owing, ReportView, ReportAt
  <2>2. QED
    BY <1>11, <1>a, <2>1 DEF Open
<1>12. ASSUME NEW k \in Runs, Uploaded(k) PROVE MissingView'
  <2>1. \A j \in Runs : Owing(j) => art'[j] = art[j] /\ (Owing(j)' \/ report'[j] = "lost")
    BY <1>12, EventKept DEF Uploaded, TypeOK, Owing, ReportView, ReportAt
  <2>2. QED
    BY <1>12, <1>a, <2>1 DEF Uploaded
<1>13. ASSUME NEW k \in Runs, List(k) PROVE MissingView'
  <2>1. \A j \in Runs : Owing(j) => art'[j] = art[j] /\ (Owing(j)' \/ report'[j] = "lost")
    BY <1>13, EventKept DEF List, Asset, TypeOK, Owing, ReportView, ReportAt
  <2>2. QED
    BY <1>13, <1>a, <2>1 DEF List, Asset
<1>14. ASSUME NEW k \in Runs, Delete(k) PROVE MissingView'
  <2>1. art[k] \in DOMAIN Artifacts(k) /\ Asset(k) \in AssetNames
    BY <1>14, AssetTyped DEF Delete, Removed, Asset, ReportView, ReportAt
  <2> PICK m \in AssetNames : m = Asset(k)
    BY <2>1
  <2>2. Artifacts(k)' = Artifacts(k) /\ art'[k] = art[k] /\ Owing(k)'
    BY <1>14, <2>1, EventKept DEF Delete, Removed, Asset, TypeOK, Owing
  <2>3. Missing(m)'
    BY <2>2 DEF Missing, Asset
  <2>4. \A j \in Runs : Owing(j) => Owing(j)' /\ Artifacts(j)' = Artifacts(j) /\ art'[j] = art[j]
    BY <1>14, <2>2, EventKept DEF Delete, Removed, Asset, TypeOK, Owing
  <2>5. ASSUME NEW n \in published, n # m, assets'[n] = None PROVE Missing(n)'
    <3>1. assets'[n] = assets[n]
      BY <1>14, <2>5 DEF Delete, Removed, Asset, TypeOK
    <3>2. QED
      BY <2>4, <2>5, <3>1, OwingStays DEF MissingView
  <2>6. published' = published
    BY <1>14 DEF Delete, Removed, Asset
  <2>7. QED
    BY <2>3, <2>5, <2>6 DEF MissingView
<1>15. ASSUME NEW k \in Runs, Upload(k) PROVE MissingView'
  <2>1. art[k] \in DOMAIN Artifacts(k) /\ Asset(k) \in AssetNames
    BY <1>15, AssetTyped DEF Upload, Added, ReportView, ReportAt
  <2>2. <<k, art[k]>> # None
    BY GitHubConstants DEF TypeOK
  <2>3. assets'[Asset(k)] # None /\ published' = published \cup {Asset(k)}
    BY <1>15, <2>1, <2>2 DEF Upload, Added, TypeOK
  <2>4. ASSUME NEW n \in published, n # Asset(k), assets'[n] = None PROVE Missing(n)'
    <3>1. assets'[n] = assets[n]
      BY <1>15, <2>4 DEF Upload, Added, TypeOK
    <3>2. \A j \in Runs : j # k => Artifacts(j)' = Artifacts(j) /\ art'[j] = art[j] /\ (Owing(j) => Owing(j)')
      BY <1>15, EventKept DEF Upload, Added, TypeOK, Owing
    <3>3. QED
      BY <2>4, <3>1, <3>2, OwingStays DEF MissingView
  <2>5. QED
    BY <2>3, <2>4 DEF MissingView
<1>16. ASSUME NEW k \in Runs, AssetFails(k) PROVE MissingView'
  <2>1. art[k] \in DOMAIN Artifacts(k) /\ Asset(k) \in AssetNames
    BY <1>16, AssetTyped DEF AssetFails, InArtifact, ReportView, ReportAt
  <2> PICK m \in AssetNames : m = Asset(k)
    BY <2>1
  <2>2. Artifacts(k)' = Artifacts(k) /\ art'[k] = art[k] /\ Owing(k)'
    BY <1>16, <2>1, EventKept DEF AssetFails, TypeOK, Owing
  <2>3. Missing(m)'
    BY <2>2 DEF Missing, Asset
  <2>4. \A j \in Runs : Owing(j) => Owing(j)' /\ Artifacts(j)' = Artifacts(j) /\ art'[j] = art[j]
    BY <1>16, <2>2, EventKept DEF AssetFails, TypeOK, Owing
  <2>5. ASSUME NEW n \in published', n # m, assets'[n] = None PROVE Missing(n)'
    <3>1. assets'[n] = assets[n] /\ n \in published
      BY <1>16, <2>5 DEF AssetFails, Removed, Added, TypeOK
    <3>2. QED
      BY <2>4, <2>5, <3>1, OwingStays DEF MissingView
  <2>6. QED
    BY <2>3, <2>5 DEF MissingView
<1>17. ASSUME NEW k \in Runs, PostVerdict(k) PROVE MissingView'
  <2>1. \A j \in Runs : Owing(j) => art'[j] = art[j] /\ (Owing(j)' \/ report'[j] = "lost")
    BY <1>17, EventKept DEF PostVerdict, Shown, TypeOK, Owing, ReportView, ReportAt
  <2>2. QED
    BY <1>17, <1>a, <2>1 DEF PostVerdict, Shown
<1>18. CASE Signal
  <2>1. \A j \in Runs : Owing(j) => art'[j] = art[j] /\ (Owing(j)' \/ report'[j] = "lost")
    BY <1>18, EventKept DEF Signal, TypeOK, Owing, ReportView, ReportAt
  <2>2. QED
    BY <1>18, <1>a, <2>1 DEF Signal
<1>19. CASE Crash
  <2>1. \A j \in Runs : Owing(j) => art'[j] = art[j] /\ (Owing(j)' \/ report'[j] = "lost")
    BY <1>19, EventKept DEF Crash, TypeOK, Owing, ReportView, ReportAt
  <2>2. QED
    BY <1>19, <1>a, <2>1 DEF Crash
<1>20. CASE UNCHANGED vars
  <2>1. \A j \in Runs : Owing(j) => art'[j] = art[j] /\ (Owing(j)' \/ report'[j] = "lost")
    BY <1>20, EventKept DEF vars, TypeOK, Owing, ReportView, ReportAt
  <2>2. QED
    BY <1>20, <1>a, <2>1 DEF vars
<1>21. QED
  BY <1>1, <1>2, <1>3, <1>4, <1>5, <1>6, <1>7, <1>8, <1>9, <1>10, <1>11, <1>12, <1>13,
     <1>14, <1>15, <1>16, <1>17, <1>18, <1>19, <1>20 DEF Next, Submitting, Reporting,
     Terminating

\* A delivery keeps the invariant: it changes only the event and its submissions.
LEMMA DeliverInv ==
  ASSUME IInv, NEW d \in Deliveries, Deliver(d)
  PROVE  IInv'
<1> USE DEF daemon, submits, reports, gitHub
<1> DEFINE New(s) == s[1] = d
<1>1. TypeOK /\ LoopView
  BY DEF IInv
<1>2. UNCHANGED <<up, signalled, at, skipped, run, report, art, seen, verdict, silent, status, assets, published>>
  BY DEF Deliver
<1>3. \A k \in Runs : /\ k[1][1] = d => run[k] = "none" /\ report[k] = "none" /\ art[k] = 1
                      /\ k[1][1] # d => Artifacts(k)' = Artifacts(k)
                      /\ run[k] # "none" \/ report[k] # "none" => Artifacts(k)' = Artifacts(k)
  BY <1>1, DeliveryIsNew
<1>4. TypeOK'
  <2>1. ASSUME NEW k \in Runs PROVE art'[k] \in 1..(Len(Artifacts(k)') + 1)
    <3>1. CASE k[1][1] = d
      <4>1. Releases(File(k)) \in Seq([asset : AssetNames])
        BY GitHubConstants DEF File, Runs
      <4>2. Artifacts(k)' = <<>> \/ Artifacts(k)' = Releases(File(k))
        BY DEF Artifacts, File, Releases
      <4>3. Len(Artifacts(k)') \in Nat
        BY <4>1, <4>2
      <4>4. art'[k] = 1
        BY <1>2, <1>3, <3>1
      <4>5. QED
        BY <4>3, <4>4
    <3>2. CASE k[1][1] # d
      BY <1>1, <1>2, <1>3, <3>2 DEF TypeOK
    <3>3. QED
      BY <3>1, <3>2
  <2>2. event' \in [Deliveries -> Events \cup {None}] /\ sub' \in [Subs -> SubStates]
    BY <1>1 DEF Deliver, TypeOK, SubStates
  <2>3. QED
    BY <1>1, <1>2, <2>1, <2>2 DEF TypeOK
<1>5. LoopView'
  <2>1. ASSUME NEW s \in Subs, s[1] # d PROVE LoopAt(s)'
    BY <1>1, <1>2, <2>1, DeliveryIsNew, LoopStays DEF LoopView
  <2>2. ASSUME NEW s \in Subs, s[1] = d PROVE LoopAt(s)'
    <3>1. sub[s] = "none" /\ event'[d] # None
      BY <1>1, <2>2, DeliveryIsNew
    <3>2. at[s] = 1 /\ sub'[s] \in {"none", "loading"}
      BY <1>1, <3>1 DEF LoopView, LoopAt, Deliver
    <3>3. \A i \in Files : <<s, i>> \in Runs /\ run[<<s, i>>] = "none" /\ report[<<s, i>>] = "none" /\ ~(i < 1)
      BY <1>3, <2>2, GitHubConstants DEF Runs, Files
    <3>4. QED
      BY <1>2, <2>2, <3>1, <3>2, <3>3 DEF LoopAt
  <2>3. QED
    BY <2>1, <2>2 DEF LoopView
<1>6. ReportView'
  <2>1. ASSUME NEW k \in Runs PROVE ReportAt(k)'
    <3>1. CASE run[k] # "none" \/ report[k] # "none"
      BY <1>2, <1>3, <3>1, ReportStays DEF IInv, ReportView
    <3>2. CASE run[k] = "none" /\ report[k] = "none"
      BY <1>2, <3>2 DEF IInv, ReportView, ReportAt
    <3>3. QED
      BY <3>1, <3>2
  <2>2. QED
    BY <2>1 DEF ReportView
<1>7. StatusView'
  BY <1>2 DEF IInv, StatusView, Posted, File
<1>8. AssetView'
  <2>1. \A k \in Runs : run[k] = "succeeded" =>
          run'[k] = "succeeded" /\ Artifacts(k)' = Artifacts(k) /\ art'[k] \in Nat /\ art[k] <= art'[k]
    BY <1>1, <1>2, <1>3 DEF TypeOK
  <2>2. QED
    BY <1>1, <1>2, <2>1, AssetStays DEF IInv, AssetView
<1>9. MissingView'
  <2>1. \A k \in Runs : Owing(k) => Owing(k)' /\ Artifacts(k)' = Artifacts(k) /\ art'[k] = art[k]
    BY <1>2, <1>3 DEF IInv, ReportView, ReportAt, Owing
  <2>2. QED
    BY <1>2, <2>1, OwingStays DEF IInv, MissingView
<1>10. QED
  BY <1>4, <1>5, <1>6, <1>7, <1>8, <1>9 DEF IInv

\* The inductive invariant holds of every reachable state.
THEOREM Invariance == Spec => []IInv
<1>1. IInv /\ [Next]_vars => IInv'
  <2>1. IInv /\ Work => IInv'
    BY StepType, StepLoop, StepReport, StepStatus, StepAsset, StepMissing DEF IInv
  <2>2. QED
    BY <2>1, DeliverInv DEF Work
<1>2. QED
  BY InitInv, <1>1, PTL DEF Spec

\* No selected pipeline is left without a run, and no run without a report.
THEOREM SubmissionsAreWhole == Spec => []NoneLeftBehind
<1>1. IInv => NoneLeftBehind
  <2> SUFFICES ASSUME IInv, NEW s \in Subs, NEW i \in Files
               PROVE  /\ sub[s] = "returned" /\ Selected(s, i) => run[<<s, i>>] # "none"
                      /\ run[<<s, i>>] # "none" =>
                           \/ report[<<s, i>>] # "none"
                           \/ at[s] = i /\ sub[s] \in {"posting", "lost"}
    BY Zenon DEF NoneLeftBehind
  <2>1. LoopAt(s)
    BY DEF IInv, LoopView
  <2>2. sub[s] = "returned" => i < at[s]
    <3>1. at[s] \in 1..(Len(Pipelines) + 1)
      BY DEF IInv, TypeOK
    <3>2. QED
      BY <2>1, <3>1, GitHubConstants DEF LoopAt, Files
  <2>3. QED
    BY <2>1, <2>2 DEF LoopAt
<1>2. QED
  BY Invariance, <1>1, PTL

\* What the commit shows of a run is what became of it.
THEOREM StatusesAreTrue == Spec => []StatusIsVerdict
<1>1. IInv => StatusIsVerdict
  <2> SUFFICES ASSUME IInv, NEW n \in Names, NEW k, k = status[n].run, status[n].state # "none"
               PROVE  /\ k \in Runs
                      /\ status[n].state = "success" =>
                           run[k] = "succeeded" /\ art[k] = Len(Artifacts(k)) + 1
                      /\ status[n].state = "failure" =>
                           run[k] = "failed" \/ (run[k] = "succeeded" /\ art[k] \in DOMAIN Artifacts(k))
                      /\ status[n].state = "pending" => report[k] # "done" \/ k \in silent
    BY DEF StatusIsVerdict
  <2>1. Posted(n, k)
    BY DEF IInv, StatusView
  <2>2. ReportAt(k)
    BY <2>1 DEF IInv, ReportView, Posted
  <2>3. QED
    BY <2>1, <2>2 DEF Posted, ReportAt
<1>2. QED
  BY Invariance, <1>1, PTL

\* An asset is from a run that succeeded, and a name without one is accounted for.
THEOREM AssetsAreExplained == Spec => []AssetsAccounted
<1>1. IInv => AssetsAccounted
  <2> SUFFICES ASSUME IInv, NEW n \in AssetNames, assets[n] # None
               PROVE  LET k == assets[n][1] IN
                      /\ run[k] = "succeeded" /\ assets[n][2] <= art[k]
                      /\ Artifacts(k)[assets[n][2]].asset = n
    BY DEF AssetsAccounted, IInv, MissingView
  <2>1. PICK k \in Runs : \E j \in DOMAIN Artifacts(k) :
          /\ assets[n] = <<k, j>> /\ run[k] = "succeeded"
          /\ j <= art[k] /\ Artifacts(k)[j].asset = n
    BY DEF IInv, AssetView
  <2>2. QED
    BY <2>1
<1>2. QED
  BY Invariance, <1>1, PTL

\* The final status of a run stays until another run posts its own.
THEOREM FinalStatusesStay == Spec => FinalStays
<1> DEFINE Kept == \A n \in Names :
                     status[n].state \in {"success", "failure"} /\ status'[n].run = status[n].run
                       => status'[n] = status[n]
<1>1. IInv /\ [Next]_vars => Kept
  <2> SUFFICES ASSUME IInv, [Next]_vars, status' # status PROVE Kept
    OBVIOUS
  <2> USE DEF IInv, TypeOK, StatusView, ReportView, Shown
  <2>1. CASE \E s \in Subs : PostPending(s)
    <3> PICK s \in Subs : PostPending(s)
      BY <2>1
    <3> PICK k \in Runs : k = <<s, at[s]>>
      BY DEF PostPending, LoopView, LoopAt, Runs
    <3>1. report[k] = "none"
      BY Unreported DEF PostPending, LoopView, LoopAt
    <3>2. \A n \in Names : status'[n] = status[n] \/ status'[n].run = k
      <4>1. status' = [status EXCEPT ![File(k).name] = [state |-> "pending", run |-> k]]
        BY DEF PostPending
      <4>2. QED
        BY <4>1
    <3>3. \A n \in Names : status[n].state \in {"success", "failure"} => status[n].run # k
      BY <3>1 DEF Posted
    <3>4. QED
      BY <3>2, <3>3
  <2>2. CASE \E k \in Runs : PostVerdict(k)
    <3> PICK k \in Runs : PostVerdict(k)
      BY <2>2
    <3>1. report[k] = "posting"
      BY DEF PostVerdict
    <3>2. \A n \in Names : status'[n] = status[n] \/ status'[n].run = k
      BY DEF PostVerdict
    <3>3. \A n \in Names : status[n].state \in {"success", "failure"} => status[n].run # k
      BY <3>1 DEF Posted
    <3>4. QED
      BY <3>2, <3>3
  <2>3. QED
    BY <2>1, <2>2 DEF Next, Submitting, Reporting, Terminating, Deliver, Load, LoadFails, Pass, Skip,
       Submit, SubmitFails, Finish, RunEnds, Judge, Open, Uploaded, List, Delete, Upload, AssetFails,
       Signal, Crash, vars, gitHub, submits, reports, daemon
<1>2. QED
  BY <1>1, Invariance, PTL DEF Spec, FinalStays
================================================================================

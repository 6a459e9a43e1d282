-------------------------- MODULE GitHubIntegration --------------------------
(***************************************************************************)
(* The GitHub integration (internal/github, internal/daemon/api/github.go):*)
(* the webhook, the goroutine that submits the pipelines of a commit for   *)
(* each user who tracks the repository, and the goroutine of each run that *)
(* waits for it, replaces the assets of a release and reports a verdict.   *)
(*                                                                         *)
(* One repository, one commit and one release: the statuses of the commit  *)
(* and the assets of the release are what concurrent deliveries, users and *)
(* pipelines share.  The rows that track the repository are whatever the   *)
(* webhook reads (Accounts models them); a run is what RunManager promises,*)
(* that Wait returns once with a verdict.  A glob is the set of the names  *)
(* it matches.                                                             *)
(***************************************************************************)
EXTENDS Naturals, Sequences

CONSTANTS
  Deliveries,   \* webhook requests
  Owners,       \* users who may track the repository
  AnyBranch,    \* the branch of a row that names none
  Rows,         \* the rows a delivery may find: the branch each owner tracks, or None
  Events,       \* what a delivery may say
  Pipelines,    \* the files of the pipeline directory, in the order of the tree
  None

Files == 1..Len(Pipelines)
Subs == Deliveries \X Owners      \* submitPush, submitRelease: one per delivery and row
Runs == Subs \X Files
Names == {Pipelines[i].name : i \in Files}

VARIABLES
  up,         \* the daemon process runs
  signalled,  \* the manager's context is done; every call to GitHub and the store uses it
  event,      \* what each delivery said, None before it came
  sub,        \* none, loading, looping, posting, returned, failed, lost
  at,         \* the loop of SubmitPush and SubmitRelease: the next file
  skipped,    \* files that could not be read or parsed
  run,        \* none, running, succeeded, failed, lost
  report,     \* none, waiting, loading, listing, deleting, uploading, posting, done, lost
  art,        \* reportRelease: the next artifact
  seen,       \* the asset the listing found under the name
  verdict,    \* the state reportCompletion or reportRelease is to post
  silent,     \* history: runs whose last status could not be posted
  status,     \* GitHub: the last status of each context of the commit
  assets,     \* GitHub: the asset under each name, as the run and artifact it is from
  published   \* history: names that had an asset

vars == <<up, signalled, event, sub, at, skipped, run, report, art, seen, verdict, silent,
          status, assets, published>>

Verdicts == {"succeeded", "failed"}
Releases(p) == IF p.release = None THEN <<>> ELSE p.release.artifacts
AssetNames == UNION {{Releases(Pipelines[i])[j].asset : j \in DOMAIN Releases(Pipelines[i])} : i \in Files}

ASSUME GitHubConstants ==
  /\ None \notin Events /\ None \notin Runs \X Nat
  /\ Len(Pipelines) \in Nat
  /\ \A i \in Files : Releases(Pipelines[i]) \in Seq([asset : AssetNames])

File(k) == Pipelines[k[2]]
EventOf(k) == event[k[1][1]]
Artifacts(k) == IF EventOf(k) # None /\ EventOf(k).kind = "release" THEN Releases(File(k)) ELSE <<>>
Asset(k) == Artifacts(k)[art[k]].asset

-----------------------------------------------------------------------------
(* Which pipelines an event selects *)

\* matchesPush: no github block runs on every push; one kind of filter excludes
\* the other kind of ref, and a ref of neither kind needs both to be absent.
MatchesPush(p, ref) ==
  \/ ~p.github
  \/ /\ p.push # None
     /\ LET filter == IF ref.kind = "branch" THEN p.push.branches ELSE p.push.tags
        IN \/ p.push.branches = {} /\ p.push.tags = {}
           \/ ref.kind # "other" /\ \E glob \in filter : ref.name \in glob

MatchesRelease(p, action) ==
  /\ p.release # None
  /\ action = IF p.release.on = "unset" THEN "published" ELSE p.release.on

Selects(p, e) == IF e.kind = "push" THEN MatchesPush(p, e.ref) ELSE MatchesRelease(p, e.action)

\* The rows the webhook starts a goroutine for.  The branch of a row is compared
\* with the ref itself unless the ref is a branch, so only a row without one sees
\* tags; a release concerns every row, unless it is a draft.
Concerns(e, branch) ==
  IF e.kind = "release" THEN ~e.draft
  ELSE branch = AnyBranch \/ (e.ref.kind = "branch" /\ e.ref.name = branch)

-----------------------------------------------------------------------------

Init ==
  /\ up = TRUE
  /\ signalled = FALSE
  /\ event = [d \in Deliveries |-> None]
  /\ sub = [s \in Subs |-> "none"]
  /\ at = [s \in Subs |-> 1]
  /\ skipped = [s \in Subs |-> {}]
  /\ run = [k \in Runs |-> "none"]
  /\ report = [k \in Runs |-> "none"]
  /\ art = [k \in Runs |-> 1]
  /\ seen = [k \in Runs |-> None]
  /\ verdict = [k \in Runs |-> "none"]
  /\ silent = {}
  /\ status = [n \in Names |-> [state |-> "none", run |-> None]]
  /\ assets = [n \in AssetNames |-> None]
  /\ published = {}

\* What only the goroutines of the submissions, the reports and GitHub keep.
gitHub == <<status, assets, published>>
reports == <<report, art, seen, verdict, silent>>
submits == <<event, sub, at, skipped>>
daemon == <<up, signalled>>

\* A call under the manager's context can succeed.
Reaches == up /\ ~signalled

-----------------------------------------------------------------------------
(* The webhook and the submissions *)

\* handleGithubWebhook: the rows of the repository are listed and a goroutine is
\* started for each that the event concerns; the request is answered at once.
Deliver(d) ==
  /\ Reaches /\ event[d] = None
  /\ \E e \in Events, rows \in Rows :
       /\ event' = [event EXCEPT ![d] = e]
       /\ sub' = [s \in Subs |-> IF s[1] = d /\ rows[s[2]] # None /\ Concerns(e, rows[s[2]])
                                THEN "loading" ELSE sub[s]]
  /\ UNCHANGED <<daemon, at, skipped, run, reports, gitHub>>

\* Token, ResolveTagSHA and LoadPipelinesAtSHA: a file that cannot be read or
\* parsed is skipped (Skip), any other failure ends the submission.
Load(s) ==
  /\ sub[s] = "loading" /\ Reaches
  /\ sub' = [sub EXCEPT ![s] = "looping"]
  /\ UNCHANGED <<daemon, event, at, skipped, run, reports, gitHub>>

LoadFails(s) ==
  /\ up /\ sub[s] = "loading"
  /\ sub' = [sub EXCEPT ![s] = "failed"]
  /\ UNCHANGED <<daemon, event, at, skipped, run, reports, gitHub>>

Selected(s, i) == i \notin skipped[s] /\ Selects(Pipelines[i], event[s[1]])

\* The event does not select the pipeline.
Pass(s) ==
  /\ up /\ sub[s] = "looping" /\ at[s] \in Files /\ ~Selected(s, at[s])
  /\ at' = [at EXCEPT ![s] = @ + 1]
  /\ UNCHANGED <<daemon, event, sub, skipped, run, reports, gitHub>>

\* The file could not be read or parsed when the directory was loaded: it is not in
\* the list, and only the log says so.
Skip(s) ==
  /\ up /\ sub[s] = "looping" /\ at[s] \in Files /\ Selected(s, at[s])
  /\ at' = [at EXCEPT ![s] = @ + 1]
  /\ skipped' = [skipped EXCEPT ![s] = @ \cup {at[s]}]
  /\ UNCHANGED <<daemon, event, sub, run, reports, gitHub>>

\* mgr.Submit for the user of the row.
Submit(s) ==
  /\ up /\ sub[s] = "looping" /\ at[s] \in Files /\ Selected(s, at[s])
  /\ sub' = [sub EXCEPT ![s] = "posting"]
  /\ run' = [run EXCEPT ![<<s, at[s]>>] = "running"]
  /\ UNCHANGED <<daemon, event, at, skipped, reports, gitHub>>

\* Mutant of SubmitFails: the error moves on to the next pipeline.
SubmitSkips(s) ==
  /\ up /\ sub[s] = "looping" /\ at[s] \in Files /\ Selected(s, at[s])
  /\ at' = [at EXCEPT ![s] = @ + 1]
  /\ UNCHANGED <<daemon, event, sub, skipped, run, reports, gitHub>>

\* mgr.Submit refuses the pipeline: the rest is not submitted, what was submitted
\* before runs on, and the error is only logged.
SubmitFails(s) ==
  /\ up /\ sub[s] = "looping" /\ at[s] \in Files /\ Selected(s, at[s])
  /\ sub' = [sub EXCEPT ![s] = "failed"]
  /\ UNCHANGED <<daemon, event, at, skipped, run, reports, gitHub>>

Shown(k, state) == [status EXCEPT ![File(k).name] = [state |-> state, run |-> k]]

\* Mutant of PostPending: the report is started before the status is posted.
PostPendingLate(s) ==
  LET k == <<s, at[s]>> IN
  /\ up /\ sub[s] = "posting"
  /\ \/ /\ report[k] = "none"
        /\ report' = [report EXCEPT ![k] = "waiting"]
        /\ UNCHANGED <<sub, at, status>>
     \/ /\ report[k] # "none" /\ Reaches
        /\ status' = Shown(k, "pending")
        /\ sub' = [sub EXCEPT ![s] = "looping"]
        /\ at' = [at EXCEPT ![s] = @ + 1]
        /\ UNCHANGED report
  /\ UNCHANGED <<daemon, event, skipped, run, art, seen, verdict, silent, assets, published>>

\* Mutant of PostPending: a run whose status was posted is taken to be reported.
PostPendingAlone(s) ==
  LET k == <<s, at[s]>> IN
  /\ up /\ sub[s] = "posting"
  /\ \/ Reaches /\ status' = Shown(k, "pending") /\ UNCHANGED report
     \/ report' = [report EXCEPT ![k] = "waiting"] /\ UNCHANGED status
  /\ sub' = [sub EXCEPT ![s] = "looping"]
  /\ at' = [at EXCEPT ![s] = @ + 1]
  /\ UNCHANGED <<daemon, event, skipped, run, art, seen, verdict, silent, assets, published>>

\* The pending status is posted, or its failure logged; then the goroutine that
\* reports the run is started.
PostPending(s) ==
  LET k == <<s, at[s]>> IN
  /\ up /\ sub[s] = "posting"
  /\ \/ Reaches /\ status' = Shown(k, "pending")
     \/ UNCHANGED status
  /\ report' = [report EXCEPT ![k] = "waiting"]
  /\ sub' = [sub EXCEPT ![s] = "looping"]
  /\ at' = [at EXCEPT ![s] = @ + 1]
  /\ UNCHANGED <<daemon, event, skipped, run, art, seen, verdict, silent, assets, published>>

Finish(s) ==
  /\ up /\ sub[s] = "looping" /\ at[s] \notin Files
  /\ sub' = [sub EXCEPT ![s] = "returned"]
  /\ UNCHANGED <<daemon, event, at, skipped, run, reports, gitHub>>

RunEnds(k) ==
  /\ run[k] = "running"
  /\ \E v \in Verdicts : run' = [run EXCEPT ![k] = v]
  /\ UNCHANGED <<daemon, submits, reports, gitHub>>

-----------------------------------------------------------------------------
(* The report of a run *)

\* Mutant of Judge: the status of the run is not looked at.
JudgeSucceeded(k) ==
  /\ up /\ report[k] = "waiting" /\ run[k] \in Verdicts
  /\ report' = [report EXCEPT ![k] = IF Artifacts(k) = <<>> THEN "posting" ELSE "loading"]
  /\ verdict' = [verdict EXCEPT ![k] = IF Artifacts(k) = <<>> THEN "success" ELSE "none"]
  /\ UNCHANGED <<daemon, submits, run, art, seen, silent, gitHub>>

\* run.Wait returns.  A release goes on to its artifacts unless the run failed.
Judge(k) ==
  /\ up /\ report[k] = "waiting" /\ run[k] \in Verdicts
  /\ IF run[k] = "failed"
     THEN /\ report' = [report EXCEPT ![k] = "posting"]
          /\ verdict' = [verdict EXCEPT ![k] = "failure"]
     ELSE IF EventOf(k).kind = "release"
     THEN /\ report' = [report EXCEPT ![k] = "loading"]
          /\ UNCHANGED verdict
     ELSE /\ report' = [report EXCEPT ![k] = "posting"]
          /\ verdict' = [verdict EXCEPT ![k] = "success"]
  /\ UNCHANGED <<daemon, submits, run, art, seen, silent, gitHub>>

\* GetArtifact and the copy into a temporary file.
Open(k) ==
  /\ Reaches /\ report[k] = "loading" /\ art[k] \in DOMAIN Artifacts(k)
  /\ report' = [report EXCEPT ![k] = "listing"]
  /\ UNCHANGED <<daemon, submits, run, art, seen, verdict, silent, gitHub>>

\* All artifacts are uploaded.
Uploaded(k) ==
  /\ up /\ report[k] = "loading" /\ art[k] \notin DOMAIN Artifacts(k)
  /\ report' = [report EXCEPT ![k] = "posting"]
  /\ verdict' = [verdict EXCEPT ![k] = "success"]
  /\ UNCHANGED <<daemon, submits, run, art, seen, silent, gitHub>>

List(k) ==
  /\ Reaches /\ report[k] = "listing"
  /\ seen' = [seen EXCEPT ![k] = assets[Asset(k)]]
  /\ report' = [report EXCEPT ![k] = IF assets[Asset(k)] = None THEN "uploading" ELSE "deleting"]
  /\ UNCHANGED <<daemon, submits, run, art, verdict, silent, gitHub>>

\* GitHub deletes an asset by its number, not the one that took its name since, and
\* refuses to upload under a name that is taken.
Removed(k) ==
  /\ report[k] = "deleting" /\ assets[Asset(k)] = seen[k]
  /\ assets' = [assets EXCEPT ![Asset(k)] = None]
  /\ UNCHANGED published

Added(k) ==
  /\ report[k] = "uploading" /\ assets[Asset(k)] = None
  /\ assets' = [assets EXCEPT ![Asset(k)] = <<k, art[k]>>]
  /\ published' = published \cup {Asset(k)}

Delete(k) ==
  /\ Reaches /\ Removed(k)
  /\ report' = [report EXCEPT ![k] = "uploading"]
  /\ UNCHANGED <<daemon, submits, run, art, seen, verdict, silent, status>>

Upload(k) ==
  /\ Reaches /\ Added(k)
  /\ art' = [art EXCEPT ![k] = @ + 1]
  /\ report' = [report EXCEPT ![k] = "loading"]
  /\ UNCHANGED <<daemon, submits, run, seen, verdict, silent, status>>

InArtifact(k) ==
  \/ report[k] = "loading" /\ art[k] \in DOMAIN Artifacts(k)
  \/ report[k] \in {"listing", "deleting", "uploading"}

\* Mutant of AssetFails: the artifact is skipped.
AssetSkipped(k) ==
  /\ up /\ InArtifact(k)
  /\ report' = [report EXCEPT ![k] = "loading"]
  /\ art' = [art EXCEPT ![k] = @ + 1]
  /\ UNCHANGED <<daemon, submits, run, seen, verdict, silent, gitHub>>

\* Any call of an artifact fails, perhaps after GitHub did what it was asked: the
\* release is reported as failed and left as it is.
AssetFails(k) ==
  /\ up /\ InArtifact(k)
  /\ report' = [report EXCEPT ![k] = "posting"]
  /\ verdict' = [verdict EXCEPT ![k] = "failure"]
  /\ \/ UNCHANGED <<assets, published>>
     \/ Reaches /\ (Removed(k) \/ Added(k))
  /\ UNCHANGED <<daemon, submits, run, art, seen, silent, status>>

PostVerdict(k) ==
  /\ up /\ report[k] = "posting"
  /\ report' = [report EXCEPT ![k] = "done"]
  /\ \/ Reaches /\ status' = Shown(k, verdict[k]) /\ UNCHANGED silent
     \/ silent' = silent \cup {k} /\ UNCHANGED status
  /\ UNCHANGED <<daemon, submits, run, art, seen, verdict, assets, published>>

-----------------------------------------------------------------------------

Signal ==
  /\ Reaches
  /\ signalled' = TRUE
  /\ UNCHANGED <<up, submits, run, reports, gitHub>>

\* Nothing of this component survives the process: nobody reports its runs again.
Crash ==
  /\ up
  /\ up' = FALSE
  /\ sub' = [s \in Subs |-> IF sub[s] \in {"loading", "looping", "posting"} THEN "lost" ELSE sub[s]]
  /\ run' = [k \in Runs |-> IF run[k] = "running" THEN "lost" ELSE run[k]]
  /\ report' = [k \in Runs |-> IF report[k] \in {"none", "done"} THEN report[k] ELSE "lost"]
  /\ UNCHANGED <<signalled, event, at, skipped, art, seen, verdict, silent, gitHub>>

Terminating == (up => \A s \in Subs : sub[s] \in {"none", "returned", "failed"})
               /\ (\A k \in Runs : run[k] # "running" /\ report[k] \in {"none", "done", "lost"})
               /\ UNCHANGED vars

Submitting(s) == Load(s) \/ LoadFails(s) \/ Pass(s) \/ Skip(s) \/ Submit(s) \/ SubmitFails(s)
                 \/ PostPending(s) \/ Finish(s)
Reporting(k) == Judge(k) \/ Open(k) \/ Uploaded(k) \/ List(k) \/ Delete(k) \/ Upload(k)
                \/ AssetFails(k) \/ PostVerdict(k)

Next ==
  \/ \E d \in Deliveries : Deliver(d)
  \/ \E s \in Subs : Submitting(s)
  \/ \E k \in Runs : RunEnds(k) \/ Reporting(k)
  \/ Signal \/ Crash \/ Terminating

Spec == Init /\ [][Next]_vars

\* The goroutines go on, and every run ends.
Fairness ==
  /\ \A s \in Subs : WF_vars(Submitting(s))
  /\ \A k \in Runs : WF_vars(RunEnds(k)) /\ WF_vars(Reporting(k))

FairSpec == Spec /\ Fairness

-----------------------------------------------------------------------------
(* Properties *)

SubStates == {"none", "loading", "looping", "posting", "returned", "failed", "lost"}
ReportStates == {"none", "waiting", "loading", "listing", "deleting", "uploading", "posting", "done", "lost"}
AssetIds == (Runs \X Nat) \cup {None}

\* The type invariant.
TypeOK ==
  /\ up \in BOOLEAN /\ signalled \in BOOLEAN
  /\ event \in [Deliveries -> Events \cup {None}]
  /\ sub \in [Subs -> SubStates]
  /\ at \in [Subs -> 1..(Len(Pipelines) + 1)]
  /\ skipped \in [Subs -> SUBSET Files]
  /\ run \in [Runs -> {"none", "running", "lost"} \cup Verdicts]
  /\ report \in [Runs -> ReportStates]
  /\ art \in [Runs -> Nat] /\ \A k \in Runs : art[k] \in 1..(Len(Artifacts(k)) + 1)
  /\ seen \in [Runs -> AssetIds]
  /\ verdict \in [Runs -> {"none", "success", "failure"}]
  /\ silent \in SUBSET Runs
  /\ status \in [Names -> [state : {"none", "pending", "success", "failure"}, run : Runs \cup {None}]]
  /\ assets \in [AssetNames -> AssetIds]
  /\ published \in SUBSET AssetNames

\* SubmitPush and SubmitRelease leave no selected pipeline behind: when the loop is
\* over without an error each has a run, and every run whose status was posted has
\* a goroutine that is to report it, also when a later pipeline was refused.
NoneLeftBehind ==
  \A s \in Subs, i \in Files :
    /\ sub[s] = "returned" /\ Selected(s, i) => run[<<s, i>>] # "none"
    /\ run[<<s, i>>] # "none" =>
         \/ report[<<s, i>>] # "none"
         \/ at[s] = i /\ sub[s] \in {"posting", "lost"}

\* What GitHub shows under a context agrees with the run it links to, whichever of
\* the runs that share the context posted last: success only if the run succeeded
\* and every artifact of a release was uploaded, failure only if one of them did
\* not, pending only while its report is to come or could not be posted.
StatusIsVerdict ==
  \A n \in Names :
    LET k == status[n].run IN
    /\ status[n].state # "none" => k \in Runs
    /\ status[n].state = "success" =>
         run[k] = "succeeded" /\ art[k] = Len(Artifacts(k)) + 1
    /\ status[n].state = "failure" =>
         run[k] = "failed" \/ (run[k] = "succeeded" /\ art[k] \in DOMAIN Artifacts(k))
    /\ status[n].state = "pending" => report[k] # "done" \/ k \in silent

\* Who is to put an asset back, or failed to.
Owing(k) == /\ art[k] \in DOMAIN Artifacts(k)
            /\ report[k] \in {"uploading", "lost"} \/ verdict[k] = "failure"
Missing(n) == \E k \in Runs : Owing(k) /\ Asset(k) = n

\* Replacing an asset is three calls that other reports interleave with: an asset
\* is from a run that succeeded and uploaded it under that name, and a name that
\* had one has one unless a report is between its calls, failed there, or died.
AssetsAccounted ==
  \A n \in AssetNames :
    /\ assets[n] # None =>
         LET k == assets[n][1] IN
         /\ run[k] = "succeeded" /\ assets[n][2] <= art[k]
         /\ Artifacts(k)[assets[n][2]].asset = n
    /\ n \in published /\ assets[n] = None => Missing(n)

\* A final status is never set back to pending, or changed, by the run it is of:
\* the report starts after the pending status was posted.
FinalStays ==
  [][\A n \in Names :
       status[n].state \in {"success", "failure"} /\ status'[n].run = status[n].run
         => status'[n] = status[n]]_vars

\* A pending status is followed by a verdict of that run or of another of the same
\* context, unless posting fails or the daemon goes down.
StatusesSettle ==
  \A n \in Names :
    (status[n].state = "pending") ~>
      (status[n].state # "pending" \/ status[n].run \in silent \/ ~up)

\* What a submission has left behind it, and has not reached.
LoopAt(s) ==
  /\ sub[s] # "none" => event[s[1]] # None
  /\ sub[s] \in {"none", "loading"} => at[s] = 1
  /\ sub[s] = "posting" => at[s] \in Files /\ run[<<s, at[s]>>] # "none"
  /\ sub[s] = "returned" => at[s] \notin Files
  /\ \A i \in Files :
       /\ i < at[s] /\ Selected(s, i) => report[<<s, i>>] # "none"
       /\ report[<<s, i>>] # "none" => i < at[s] /\ run[<<s, i>>] # "none"
       /\ run[<<s, i>>] # "none" =>
            report[<<s, i>>] # "none" \/ (i = at[s] /\ sub[s] \in {"posting", "lost"})

LoopView == \A s \in Subs : LoopAt(s)

\* What the place of a report says of its run, its artifacts and its verdict.
ReportAt(k) ==
  /\ report[k] \in {"loading", "listing", "deleting", "uploading"} => run[k] = "succeeded"
  /\ report[k] \in {"listing", "deleting", "uploading"} => art[k] \in DOMAIN Artifacts(k)
  /\ report[k] \in {"posting", "done"} => verdict[k] # "none"
  /\ verdict[k] # "none" => report[k] \in {"posting", "done", "lost"}
  /\ verdict[k] = "success" => run[k] = "succeeded" /\ art[k] = Len(Artifacts(k)) + 1
  /\ verdict[k] = "failure" =>
       run[k] = "failed" \/ (run[k] = "succeeded" /\ art[k] \in DOMAIN Artifacts(k))

ReportView == \A k \in Runs : ReportAt(k)

\* A context shows what the report of its run has posted.
Posted(n, k) ==
  /\ k \in Runs /\ File(k).name = n
  /\ IF status[n].state = "pending" THEN report[k] # "none" /\ (report[k] = "done" => k \in silent)
     ELSE report[k] = "done" /\ verdict[k] = status[n].state

StatusView == \A n \in Names : status[n].state # "none" => Posted(n, status[n].run)

\* An asset is one that a report uploaded.
AssetView ==
  \A n \in AssetNames : assets[n] # None =>
    \E k \in Runs : \E j \in DOMAIN Artifacts(k) :
      /\ assets[n] = <<k, j>> /\ run[k] = "succeeded"
      /\ j <= art[k] /\ Artifacts(k)[j].asset = n

\* A name that has lost its asset is on somebody's account.
MissingView == \A n \in published : assets[n] = None => Missing(n)

\* The inductive invariant.
IInv == TypeOK /\ LoopView /\ ReportView /\ StatusView /\ AssetView /\ MissingView
=============================================================================

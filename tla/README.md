# JitTrippin in TLA+

JitTrippin is a small CI system written in Go: the daemon `jtd` runs pipelines
of containerised jobs for users and for GitHub webhooks, the client `jt` runs
them locally or on a daemon. This directory holds TLA+ models of its core,
the TLC configurations that check them on small instances, and proofs that
TLAPS checks for all instances. Paths below are relative to `src/`.

## The system

| Part | Source | State it keeps | Operations | Talks to |
|---|---|---|---|---|
| Executor, scheduler, workers | `pkg/engine/executor.go`, `scheduler.go` | in-degrees and counters per pipeline, the shared unbuffered job queue, a buffered results channel, a cancellable context and a `done` channel per pipeline | `Submit`, `start` (one goroutine per pipeline), `worker` (a fixed pool), `Stop`, `Wait`, `Shutdown` | validation, job execution, the log store |
| Validation | `pkg/engine/validate.go` | none between calls; colours and a path during one call | `Validate` | called by `Submit`, the CLI and the daemon |
| Job execution | `pkg/engine/runjob.go`, `pkg/runner` | a container, files of the artifact store | `ExecuteJob`, `Create`, `Exec`, `CopyIn`, `CopyOut`, `Remove` | Docker, checkout, artifacts |
| Logs | `pkg/logs` | line buffers, open files, the subscriber map | `Open`, `Write`, `Flush`, `Publish`, `Subscribe` | workers write, HTTP streams read |
| Run manager | `internal/daemon/daemon.go` | the map of running runs, a `Run` per run | `Submit`, the completion goroutine, `Cancel`, queries | executor, run store |
| Run store | `internal/store/store.go` | the `runs` table | `CreateRun`, `UpdateRun`, `MarkInterruptedRuns`, queries | PostgreSQL |
| GitHub integration | `internal/github` | cached installation tokens; at GitHub the statuses of a commit and the assets of a release | `SubmitPush`, `SubmitRelease`, a report for each run | manager, GitHub |
| Authentication | `internal/auth`, `internal/store/auth.go` | users, identities with the provider's tokens, states, codes, sessions | `Begin`, `Callback`, `Exchange`, `Authenticate`, `Token`, `Logout`, `Unlink` | GitHub as OAuth provider |
| User's resources | `internal/store/tracked.go`, `integrations.go`, `internal/github` | tracked repositories, user integrations | `TrackRepository`, `LinkUserIntegration`, `UnlinkUserIntegration` | authentication (for the token), GitHub |
| HTTP API | `internal/daemon/api` | none | handlers | all of the above |
| Client | `internal/cli` | the session file, the runs it watches | `run`, `auth`, `repos`, ... | HTTP API, or an executor of its own |
| Lua definitions | `pkg/lua` | none | a Lua file to a `Pipeline` | client, integration |

How they interact: a handler (or a webhook) calls `Manager.Submit`, which calls
`Executor.Submit`; that validates the pipeline and starts the goroutine that
owns the pipeline's scheduler. The goroutine hands ready jobs to the workers
through a queue that every pipeline shares; workers answer on the pipeline's
own results channel. When the goroutine has collected everything it handed out
it closes `done`; the manager's completion goroutine, blocked in `Wait`, then
records the verdict in the database, and whoever waits on the run (the GitHub
reports) goes on. A webhook reads the rows that track its repository, answers, and
leaves a goroutine for each; that goroutine submits the selected pipelines one by
one and leaves a goroutine for each run, which waits for it and reports to GitHub.
The client either has an executor of its own or submits, polls and cancels over HTTP. Cancellation, the signal that stops the daemon and the first
error of a pipeline all act through contexts.

What is hard: results arrive in any order and race with cancellations;
`Shutdown` closes a channel others send on (the panic is recovered); counters
decide when a goroutine stops reading a channel others write; the map of runs,
the row of a run and the runtime are three views of one thing, updated one
after the other while requests read them; the process may die between any two
of these steps. Several runs report to the same status and replace the same assets at
GitHub, each in several calls; logins and requests are sequences of single
statements that others interleave with; the client reads fields that its polling goroutine writes. `PROJECT.json` lists each hazard with its line and
the properties that cover it.

## Modules

| Module | Models | Checked by |
|---|---|---|
| `PipelineRuns` | the promise to callers of `Submit`, `Stop`, `Wait`: an abstract specification without queue, workers or counters | as property of `MCExecutor` |
| `EngineInput` | what the engine assumes of its pipelines: `Schedulable` (the scheduler) and `Deliverable` (`ExecuteJob`) | used by `Executor`, `JobExecution`, `Validation` |
| `Executor` | `executor.go`, `scheduler.go` in full | `MCExecutor`, `ExecutorProofs` |
| `ExecutorRefinement` | the mapping of `Executor` to `PipelineRuns` | `MCExecutor`, `ExecutorProofs` |
| `ExecutorInvariant` | the inductive invariant of `Executor` | `MCExecutor`, `ExecutorProofs` |
| `RunRecords` | the promise to callers of the manager: one record for each run, what it says and when an identifier, an end or a cancellation is given; an abstract specification without goroutines, map or database calls | as property of `MCRunManager` |
| `RunManager` | `Manager.Submit`, its completion goroutine, `Cancel`, the rows, crashes and restarts | `MCRunManager`, `RunManagerProofs` |
| `Validation` | `Pipeline.Validate`, the cycle search step by step | `MCValidation`, `ValidationProofs` |
| `JobExecution` | `ExecuteJob` with the Docker runner, the checkout and the artifact store | `MCJobExecution`, `JobExecutionProofs` |
| `LogPipeline` | `LineWriter`, the log file, `Broadcaster`, the live stream of the API | `MCLogPipeline`, `LogPipelineProofs` |
| `GitHubIntegration` | the webhook, `SubmitPush`, `SubmitRelease`, the reports of runs, the statuses and assets at GitHub | `MCGitHubIntegration`, `GitHubIntegrationProofs` |
| `Accounts` | logins, sessions, provider tokens and their refresh, identities, integrations, tracked repositories | `MCAccounts`, `AccountsProofs` |
| `RunCommand` | `jt run`: local runs, submission, polling, the main loop, the interrupt | `MCRunCommand`, `RunCommandProofs` |

The modules compose through what they promise: what `Executor` and `JobExecution` assume of
their pipelines (`ValidatedPipelines`, `JobConstants`) is stated once, in `EngineInput`, and is what
`Validation` proves of every pipeline that is accepted (`AcceptedCanRun`), alone or together with
others (`ScheduledTogether`); `Executor` implements `PipelineRuns`; `RunManager` uses of
a runtime only what `PipelineRuns` promises (it ends once, with a verdict,
whether it is stopped or not: `RuntimesEndOnce`) and implements `RunRecords`. `JobExecution` opens what `Executor` has as one
begin step and one end step of a body, and takes from it that a job starts once,
after the jobs it depends on succeeded (`DependenciesFirst`, `RunsOnce`);
`LogPipeline` opens what a step prints. `GitHubIntegration` and `RunCommand` use of a run only
what `RunManager` promises: it ends once, with a verdict that does not change (`FinalRows`,
`DoneIsSaved`). `Accounts` provides the rows that `GitHubIntegration` finds, which are any here.

Operators whose comment begins with "Mutant of" are plausible bugs; nothing
refers to them. Replacing the definition they are named after by them must make
the property given in `PROJECT.json` fail, which shows that the property can fail.

### Executor

* `phase`, `err`, `cancelled`, `results`, `indegree`, `processed`, `dispatched`
  are the fields of `PipelineRuntime` and `Scheduler`; `sending` is what the
  current `range` loop of `start` still has to send; `stage`, `held`, `answer` are
  where a worker is in its loop. `sched` and `job` are histories.
* A send on the unbuffered queue is one step of two processes (`Dispatch`): it
  happens when some worker is idle. A send on the closed queue is `PanicSend`.
* A worker looks at the context (`Refuse`, `Admit`), opens the log and enters the job body (`LogsFail`,
  `Execute`), leaves it (`ExecuteReturns`) and posts (`Post`), each a step of its own. It looks at the
  context once: a job that was admitted may still be executed after a cancellation.
* The order in which one slice of jobs is sent is left open, because `Ready`
  ranges over a Go map. Go's `select`-free channel operations are atomic.

### RunManager

* One action for each step of `Submit` and of the completion goroutine that
  another goroutine can see: the runtime starts (`Submit`), the row is inserted
  (`Create`) or not (`CreateFails`, `CreateStopped`), the map is updated (`Add`),
  the verdict is set (`Settle`), the map entry is removed (`Remove`), the row is
  updated (`Save`, `SaveFails`), the deferred `close` of `done` follows (`CloseDone`). `Cancel` reads the row (`Find`), then
  the map (`StopRun`, `Refuse`), then waits (`CancelReturns`).
* An INSERT or UPDATE that is answered with an error may have been carried out (`CreateFails`,
  `SaveFails`), unless the context was over before it began. The database settles such a call no later than its error
  is returned; a write that commits after that is not modelled.
* `Signal` ends the manager's context: the database calls of the manager, which use
  it, fail from then on, but the HTTP server goes on. `Crash` keeps only the
  rows; `Restart` is `MarkInterruptedRuns`. The row value `interrupted` is the
  database's `failed` with the error "interrupted by daemon".
* `RunRecords` sees of all this the row, the verdict of the runtime, whose cancellation was answered with
  success, and one `life` of each run (`LifeOf`): submitted, told to its submitter (`Add`), closed (`close(run.done)`),
  cut by a crash. There the verdict is written (`Write`, `WriteFails`) before the end is announced (`Close`),
  which needs that the record tells it or that writing it was answered with an error; an
  identifier is told only when the run has a record or is over, and a crash loses no record.

### Validation

* An input is a pipeline: jobs with names, artifacts and dependencies that
  require artifacts, and release artifacts. What the field checks say of single
  texts (name characters, absolute paths) is the flag `fields`.
* `Check` is the three list passes; `Visit`, `Skip`, `Descend`, `Report`, `Leave`
  are the recursive closure of `validateGraphs`, with its recursion as a stack; `Return`
  is the verdict. The roots are taken in the order of the list of jobs.

### JobExecution

* `at` is where `ExecuteJob` is, named for the call it makes next, `pos` the position
  in the current loop. Each call is an action that works and an action that fails; when a call
  changes something before its error is seen (a container was created but the
  answer was lost, a copy stopped halfway, an artifact was copied but its source does not close), the failing action
  has each outcome: `CopyNeedFails` leaves nothing, part or all of the artifact in the container.
  No check of the code looks at that again; that the job fails is what keeps its steps from working with it. `return err` goes to the deferred `Remove` when there is an
  `Execution`, and out of `ExecuteJob` when `Create` failed.
* `cancelled` is the context of the run: an operation that uses it either does its
  work before it is done or fails. `Remove` does not use it
  (`context.WithoutCancel`); the removal of a container that did not start does (`Discard`).
* `dir` and `stream` are the checkout's directory and the goroutine `tarDir` at the other
  end of the pipe. `store` is the file of each artifact and how much of it is there;
  `inside` what a container was given of it.
* `refused`, `unanswered`, `ran` and `served` are histories: what Docker refused of its own
  accord, did without being able to say so, which steps ended well, what clients were given.

### LogPipeline

* A byte is a newline or not; a chunk ends anywhere. `Write` adds it to the buffer of the
  stream, `Emit` encodes the first line to the file and takes the subscribers' map,
  `PublishNext` and `Deliver` are one round of the loop over it (the `range` and the
  `select`), `PublishEnds` takes the line out of the buffer.
* The two writers of a job are called by one goroutine (`stdcopy.StdCopy`), hence one
  `writer` at a time; the handlers are goroutines of their own.
* `Publish` walks the map without the lock. `walk` is `live` while that map is the one in
  `b.subs` and `stale` when it was removed with its last channel. A write to a map that is
  walked is a data race: nothing happens, or the Go runtime ends the process (`Race`). A send on a
  channel that was closed meanwhile panics in the worker's goroutine, which ends the process.
* A write to the file either encodes the whole line or fails with nothing of it written (`EmitFails`); a write cut by a full disk
  is left out.
* The end of the log is `JobEnds`, in which nothing happens to the buffer: `JobLog.Close`
  has no caller.

### GitHubIntegration

* One repository, commit and release: `status` and `assets` are what GitHub shows, `sub` and `at` where the
  goroutine of each submission is in its loop, `report` and `art` where the goroutine of each run is.
  A run is named by its submission and its pipeline file.
* `Deliver` is the webhook up to its answer; `Load`, `Pass`, `Skip`, `Submit`, `PostPending` the loop of
  `SubmitPush` and `SubmitRelease`, which differ only in the selection (`Selects`); `Judge` to `PostVerdict` are
  `reportCompletion` and `reportRelease`. `Skip` stands for the file that could not be read or parsed when the
  directory was loaded; it is decided when the loop reaches the file, since nobody looks at it before.
* Every call to GitHub is a step; `Reaches` is that the context of the webhook's goroutines, which is the manager's
  (`ro.mgr.Context()`), is not done. A failed status call is only logged (`silent`); a failed asset call may have
  been carried out.
* A glob is the set of names it matches, so `matchesPush` is about which filters exist and which kind
  of ref they see. Assets have identities, as at GitHub: deleting one that is gone fails, and so does uploading to a
  name that is taken.

### Accounts

* One action per statement or call of a handler: `ConsumeOAuthState`, `ProviderExchange`, `FindOrCreateIdentity` (one
  transaction), `UpdateTokens`, `CreateAuthCode` are `Callback`; `ConsumeAuthCode`, `CreateSession` are `Exchange`;
  `Authenticate`, `ReadToken`, `Refresh`, `SaveToken` are a request up to its handler, which is one of
  `Track`, `Link`, `Read` for the handlers that use the provider's token and `Untrack`, `Disconnect`, `RemoveIdentity`
  for the others.
* Rows are named by whoever inserts them, tokens by whoever got them: `owner[a] = c` says that the identity of
  account `a` belongs to the user row that callback `c` inserted.
* A refresh token of GitHub works once (`spent`). `age` is a token's distance to its expiry: `near` is less than the
  five minutes of `Token`, `over` less than the ten seconds of the oauth2 library.
* `lost`, `rewritten`, `stray` and `parted` are histories: the ways in which the code itself loses
  a token or leaves a row. The properties say that there are no others.

### RunCommand

* `status` and `errCount` are the fields of `liveRun`; `polling` and `got` are the goroutine `pollRuns`, whose answer is
  taken and applied in two steps; `look` and `half` are the main loop, which calls `terminal()` and `failed()` of a
  run under two locks. `server` is the row at the daemon, or the executor of a local run.
* Every call may fail with or without effect. `Interrupt` is the signal's context.

## Runs

Each run finishes within two minutes or so.

| Run | Instance | Shows |
|---|---|---|
| `executor_safety` | a diamond of 4 jobs and a one-job pipeline, 2 workers | safety and the refinement; 219 thousand states |
| `executor_liveness` | the same pipelines, 1 worker | pipelines close, `Stop` and `Shutdown` return; 76 thousand states |
| `manager` | 2 runs, one cancel request each, any number of crashes | rows, statuses and runtimes agree; the refinement of `RunRecords`; rows leave `running`, cancellations are answered; 287 thousand states |
| `validation` | every graph of 3 jobs with up to 2 dependencies each (one of them unknown), and 8,968 lists of up to 2 jobs with repeated names, artifacts, requirements and releases | the search finds exactly the cycles and what is accepted can be run |
| `job` | a job that makes two artifacts and a job that needs both and makes one; 2 steps and 1 | containers and directories are removed, artifacts arrive whole, jobs return; 21 thousand states |
| `job_left` | the same | **violated**: a container that was not started is left behind |
| `job_served` | the same | **violated**: a client is given part of an artifact |
| `log` | two streams of up to 3 bytes, chunks that hold a part, an end, two lines; 2 readers with channels of one line | the file is the output, readers miss only what found their channel full and never hold up the job; 970 thousand states |
| `log_panic` | the same with up to 2 bytes | **violated**: publishing may end the daemon |
| `github` | 1 delivery of a push or a release, 2 users, 2 pipelines, 2 assets | submissions are complete, statuses true and final and settled, assets accounted for; 140 thousand states |
| `accounts` | 2 logins, 2 accounts, 1 address or none; at most 5 callbacks, exchanges and requests | one session per login, the account's own user, usable tokens, explained rows; 530 thousand states |
| `run_command` | 2 pipelines | ok means success, interrupts reach every run, the command ends; 765 thousand states |

Why the bounds are enough. A diamond has what Kahn's algorithm can get wrong: a
job with two parents that end in either order, and two jobs released at once.
The second pipeline is there to hold a worker the first one needs. Two workers are what
it takes for results to arrive out of order and for a failure to meet a job
that runs, hence in the run of the safety properties; with one worker (the run of the liveness properties) the two jobs
released at once wait for each other and for the other pipeline, so that a runtime blocks on the queue while the worker has a
result for it and while it is stopped or the queue is closed. One cancel request and one `Stop` per run suffice because a second finds
the context already cancelled. Three jobs give cycles of length 1, 2
and 3, cycles reached from outside, and jobs coloured by an earlier root. Two artifacts
in one list are what it takes to fail between them, and the second job is the reader of a file
that its producer left half written. A channel of one line (256 in the code) is full after one
line, and three bytes make up to three lines or cut one twice. A release for two
users gives two runs of one pipeline, which is what it takes to share a status and to fight over an asset; a second
delivery adds only more of the same runs (two deliveries exceed what TLC can enumerate here, and the safety properties are proved
for any number). Two callbacks can present one state, find one user or two and log in to one account; two exchanges
can present one code; three requests can refresh, unlink and link at once. `MaxCalls` bounds their sum: five leave, after
one login (a callback and an exchange), three requests, or two logins and a request. Two runs are what it takes for the main
loop to look at one while the other changes. Beyond the instances every
safety property of a passing run is proved.

`CHECK_DEADLOCK FALSE` is set where the program really stops: an executor that was
shut down, a call of `Validate` that returned, a pipeline whose jobs are over, a log whose job is, a command that returned, and where the bound on calls is reached (`Accounts`). The runs of `RunManager` check for deadlock,
since a daemon can always be restarted, and so does that of `GitHubIntegration`, where `Terminating` says what it may stop in.

### Fairness

Weak fairness says that goroutines that can go on do: the runtime, the worker,
a caller that is woken, the steps of a request. It is assumed of the
operation as a whole, not of one outcome, so that no error must ever happen or
be avoided. A worker that is idle and a runtime blocked in a send meet because
Go serves the senders of a channel in order; it is the fairness of `Runtime`.
Nothing is assumed of job bodies (`ExecuteReturns`), which have no timeout in the
code, nor of clients, signals, crashes or restarts. So the liveness properties
carry the premise they need, that no job executes for ever (`JobsEnd`), that
pipelines end (`PipelinesEnd`), or that steps do (`StepsEnd`: a step of `JobExecution` ends
when its container says so, cancelled or not). In `LogPipeline` only the writer is fair:
readers need not read, leave or come. In `GitHubIntegration` the goroutines of submissions and reports are
fair and so is the end of a run: `StatusesSettle` is about what follows it. In `RunCommand` the main loop and the poller are
fair, calls come back because the client has a timeout, and runs end by premise (`RunsEnd`). `Accounts` promises nothing
that must happen: a handler that stops is one that failed.

### What the violations say

* `NoContainerLeft`: when `ContainerStart` fails, `DockerRunner.Create` removes the container in
  the same context. If the start failed because the run was cancelled, so does the removal, and there is no
  `Execution` whose deferred `Remove` would do it. The property leaves out the jobs whose container Docker
  refused to remove or about which its answer was lost.
* `ServedIsWhole`: an artifact has its final name while it is copied, and the API serves whatever
  is there. `NeedsAreWhole` holds all the same: the jobs that need it start after its producer.
* `PublishIsHarmless`: a reader that leaves between the `range` of `Publish` and its `select`
  has its channel closed; the send panics in the worker.

Seen in the models and left without a run, because the repository promises nothing that they break or the code says it
plainly:

* `Submit` inserts the row before it adds the run to the map. A `Cancel` between the two finds the row and answers 409
  "run is not running" while the pipeline goes on (`Refuse` of `RunManager` after `Create`).
* `validateDependencies` creates the set `depArtSeen` for each dependency, looks names up in it and never adds one: the
  error "references artifact ... more than once" is never reported.
* Output after the last newline stays in the `LineWriter`, for the worker never closes the log.
* `jt run` may say ok for a run that still goes on: three lost polls make the run terminal, an answer makes it running again
  before `failed()` is called, and the loop ends. `flicker` is exactly that case.
* A pipeline file that GitHub does not deliver is skipped like one that does not exist (`Skip`).
* A release may be shown as passed and lack an asset: another run of the same release replaced the asset and failed before it uploaded
  its own. `AssetsAccounted` names whose failure it is; the status of the first run is not taken back.
* A row that tracks a branch never sees tags: the webhook compares the branch with the full ref.
* A user whose token cannot be refreshed is answered "github not linked".
* A login under a new address leaves a user row without identity, which nobody can reach.

## Proofs

`ExecutorProofs`, `RunManagerProofs`, `ValidationProofs`, `JobExecutionProofs`, `LogPipelineProofs`,
`RunCommandProofs`, `AccountsProofs` and `GitHubIntegrationProofs` are checked by tlapm to the last leaf, for every value of the
constants. The theorems are listed in `PROJECT.json`.

**Executor.** The properties are not inductive by themselves: that a closed
pipeline is quiescent depends on counters meeting the number of jobs still
about. `IInv` (module `ExecutorInvariant`) says, beside typing, for
each job where it is (`Placement`: unsent, with one worker, answered, or
counted, in agreement with `sched`), what the history of its body is (`JobView`),
that in-degrees count the parents not yet completed (`Kahn`), that `dispatched - processed` is
the number of jobs unsent, held or answered (`Counting`), and that errors are kept as
soon as a job has failed (`Honest`). From it follow `DepsSucceeded`, `AtMostOnce`,
`Quiescent`, `Verdict` (which needs acyclicity: if no job failed and nothing is
about, the set of jobs never dispatched has a minimal element, and its in-degree is 0) and `PostNeverBlocks`.
`Implements` shows that every step of `Executor` is a step of `PipelineRuns`
or a stutter; `RuntimesEndOnce` draws from it what the manager and the client rely on, that a runtime starts once,
ends once and never changes its verdict.

**RunManager.** `IInv` ties the four views of a run together: `SubmitView` (what each
stage of `Submit` has done), `RowView` (what the row may say at each stage of
the completion goroutine), `DeadView` (a dead daemon has left nothing that acts). `RecordsAreKept` is the refinement: `Add` may tell
the identifier because `SubmitView` knows that a run without a row is over, `Save` is `Write`, and `SaveFails` is `WriteFails`, because `RowView` knows that the row of a run that is told and not yet answered
is `running` or missing; `CloseDone` may announce the end because the row was settled or is in `unsaved`, and
`CancelReturns` may grant because a run with a row never loses it.

**Validation.** The invariant of the depth-first search has the classic form:
the grey jobs are exactly the path, consecutive jobs of the path are
dependencies (`PathIsSimple`, `Frames`), black jobs have only black or already
reported successors (`BlackClosed`), and black jobs are acyclic unless a cycle has been reported
(`BlackAcyclic`). `AcceptedCanRun` then gives what `Executor` and `JobExecution` assume: from the three
list passes that names, dependencies and artifacts are unambiguous, from the search that there is no cycle. `ScheduledTogether`
takes it from one pipeline to all that an executor holds at once.

**JobExecution.** `IInv` adds to the properties, for each job: `Ownership` (there is an `Execution`
exactly from the start of the container on, and an error means the job is on its way out), `Passed` (what is done at
each place of `ExecuteJob`, loop positions included) and `Begun` (a job that has begun needs only what jobs that
succeeded make). That a copy into a container may stop halfway makes `NeedsAreWhole` a statement about places: it follows from
`Passed`, which says that a job has all its needs whole from its first step on, and `Passed` rests on the other two, of two jobs:
what a job that succeeded made is whole and stays so, since no other job writes it (`JobConstants`).

**LogPipeline.** `FileIsOutput` is inductive but for what the walk of `Publish` does to the buffer (`WalkView`); the
work is in the operators. `NewlineAt` is the least position of a newline. `DataIn` joins the lines of a stream by
recursion; the prover has no induction over data, so that its recursion has a value (`ComputesSome`), only one
(`ComputesOnce`), and grows by the line that is appended (`DataInAppend`) is shown by looking at the least number at which it would
fail, which exists because the numbers are well-founded (`LeastNumber`). `BytesAssociate` and its like are about
concatenation. `LiveLines` needs that the lines sent to a reader are increasing, all below the line being
published, and that the walk has passed or will pass every open handler; `SubscribersKept` that a walk is over the map in
`b.subs` or over one that was emptied.

**GitHubIntegration.** `IInv` says of each submission what its loop has left behind (`LoopView`), of each report what
its place means for its run, artifact and verdict (`ReportView`), and ties what GitHub shows to the reports: a status is
what the report of its run posted (`StatusView`), an asset is one that a report uploaded (`AssetView`), and a name that lost its asset is on
the account of a report (`MissingView`). The last is not an invariant of one report: a deletion by one run puts
the name on its account, whoever uploaded it, and an upload takes it off everybody's. From these follow
`NoneLeftBehind`, `StatusIsVerdict` and `AssetsAccounted`; `FinalStays` holds because a run whose report is not posted has no
final status yet.

**Accounts.** `IInv` adds to the properties `LoginView`: no two callbacks have consumed one state, no two exchanges
one code, a code is there only when its callback is done. `OneSessionPerLogin` follows in two steps, from session to code
and from code to state. `StableUser` needs that the user a callback keeps is the owner at the moment it was found and that only
`RemoveIdentity`, which records it, changes an owner. `StoredTokenUsable` needs `TokenView`: a refresh token belongs to
one account, in its row or in the hands of a request that read it there (`TokenOf`), and one that was obtained and is not stored yet is
unspent and in nobody's hands (`Unstored`). So a row can hold a spent token only if a request that read it has spent it since,
and that request is about to store the successor, lost it (`lost`), or another stored again what it had read before (`rewritten`).

**RunCommand.** `ToldTrue` says that the status of a run is never ahead of the daemon and that the answer on its way is
not older than the one before; `Looked` that what the main loop concludes of the runs it has passed stays true, because
verdicts do not change, but for the runs in `flicker`.

Assumptions: `GitHubConstants`, `AccountsConstants`, `RunCommandConstants`, `LogConstants` (constants are distinct and typed; a row or a
token is named after the call that wrote it, hence callbacks are not requests), `JobConstants` and `ValidatedPipelines` (what
`EngineInput` says of a pipeline, which `AcceptedCanRun` and `ScheduledTogether` derive from the code of `Validate`) and
`InputsAreTyped`. All are evaluated by TLC on every instance.

Only model-checked: liveness, which is outside the prover's reach (`Termination`, `StopEnds`, `ShutdownEnds`, `RowsSettle`,
`CancelsEnd`, `SourceDirRemoved`, `JobsReturn`, `WritersNotBlocked`, `StatusesSettle`, `CommandEnds`), and the violations. The inductive
invariants were each checked by TLC on the instances above before they were proved; `IInv` of `RunCommand` is part of its run.

## Not modelled, and the plan

Left of the plan: that `JobExecution` implements the
begin and end of a body in `PipelineRuns`; where the client keeps its session (`session.go`, `auth.go`: a keyring with a file as
fallback, of which a stale keyring entry wins), and the login dance with its local listener.

Not modelled, with the reason:

* the Lua conversion: one pass from a table to a `Pipeline`, without state;
* configuration files, encryption, random identifiers: no protocol;
* the installations table, which the install callback writes and nothing reads;
* the cache of installation tokens: it saves calls, and a call may fail in the model anyway;
* the log tails and the drawing of `jt run`, prompts and tables of the other commands, routing and JSON of the API;
* pages of listings: `ListUserInstallations` reads only the first page, so a user with many installations may be told that the app is
  not installed.

The parts of the modelled components that are left out are named in `PROJECT.json`.

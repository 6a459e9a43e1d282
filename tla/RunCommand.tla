------------------------------ MODULE RunCommand ------------------------------
(***************************************************************************)
(* The command jt run (internal/cli/run.go, client.go).  Without a session,*)
(* or with --local, it runs the pipelines one after the other in its own   *)
(* process.  Otherwise it submits all of them to the daemon and watches:   *)
(* one goroutine polls their status and writes it to fields that the main  *)
(* loop reads one method call at a time, until every run is over or the    *)
(* user interrupts, when the runs are cancelled.                           *)
(*                                                                         *)
(* The daemon is what RunManager promises: a row says running until the    *)
(* run has ended, then never changes.  Every call may fail, with or without*)
(* having been carried out; calls block and have no order among goroutines.*)
(***************************************************************************)
EXTENDS Naturals

CONSTANT N   \* pipelines in the project

ASSUME RunCommandConstants == N \in Nat \ {0}

Pipes == 1..N

VARIABLES
  at,          \* start, local, submitting, watching, ended, cancelling, returned
  pos,         \* the loops of runLocal, of the submissions and of the cancellations
  server,      \* each run where it runs: none, running, succeeded, failed
  interrupted, \* the context of the signal is done
  polling,     \* pollRuns: the run it asks about, 0 while it waits for the tick, N + 1 when gone
  got,         \* the answer of RunGet: none, unanswered, or what the row said
  status,      \* liveRun.status, unknown (the empty string) before an answer
  errCount,    \* liveRun.errCount, which is only compared with 3
  look,        \* the main loop: the run it looks at
  half,        \* it has called terminal() and not yet failed()
  allDone, failed,
  result,      \* none, ok, failed, cancelled, error
  asked,       \* history: runs whose cancellation was requested
  givenUp,     \* history: runs not cancelled because their status was error
  flicker      \* history: runs over for terminal() and not for failed() in this pass

vars == <<at, pos, server, interrupted, polling, got, status, errCount, look, half, allDone,
          failed, result, asked, givenUp, flicker>>

command == <<at, pos, result>>
poller == <<polling, got, status, errCount>>
loop == <<look, half, allDone, failed, flicker>>
cancels == <<asked, givenUp>>

Verdicts == {"succeeded", "failed"}

Init ==
  /\ at = "start" /\ pos = 1 /\ result = "none"
  /\ server = [p \in Pipes |-> "none"]
  /\ interrupted = FALSE
  /\ polling = 0 /\ got = "none"
  /\ status = [p \in Pipes |-> "unknown"]
  /\ errCount = [p \in Pipes |-> 0]
  /\ look = 1 /\ half = FALSE /\ allDone = TRUE /\ failed = FALSE /\ flicker = {}
  /\ asked = {} /\ givenUp = {}

Return(r) == at' = "returned" /\ result' = r /\ UNCHANGED pos

\* handleRun: local on request or without a session.
Choose ==
  /\ at = "start"
  /\ at' \in {"local", "submitting"}
  /\ UNCHANGED <<pos, result, server, interrupted, poller, loop, cancels>>

\* Ctrl-C.
Interrupt ==
  /\ at # "returned" /\ ~interrupted
  /\ interrupted' = TRUE
  /\ UNCHANGED <<command, server, poller, loop, cancels>>

RunEnds(p) ==
  /\ server[p] = "running"
  /\ \E v \in Verdicts : server' = [server EXCEPT ![p] = v]
  /\ UNCHANGED <<command, interrupted, poller, loop, cancels>>

-----------------------------------------------------------------------------
(* Local runs *)

\* NewExecutor and Submit for one pipeline; the signal's context is its parent.
LocalStart ==
  /\ at = "local" /\ pos \in Pipes /\ server[pos] = "none"
  /\ server' = [server EXCEPT ![pos] = "running"]
  /\ UNCHANGED <<command, interrupted, poller, loop, cancels>>

\* Submit, or the runner, fails before anything runs.
LocalRefused ==
  /\ at = "local" /\ pos \in Pipes /\ server[pos] = "none"
  /\ Return("error")
  /\ UNCHANGED <<server, interrupted, poller, loop, cancels>>

\* Wait: the first pipeline that fails ends the command.
LocalWait ==
  /\ at = "local" /\ pos \in Pipes /\ server[pos] \in Verdicts
  /\ IF server[pos] = "failed" THEN Return("failed") ELSE pos' = pos + 1 /\ UNCHANGED <<at, result>>
  /\ UNCHANGED <<server, interrupted, poller, loop, cancels>>

LocalDone ==
  /\ at = "local" /\ pos \notin Pipes
  /\ Return("ok")
  /\ UNCHANGED <<server, interrupted, poller, loop, cancels>>

-----------------------------------------------------------------------------
(* Submission *)

SubmitRun ==
  /\ at = "submitting" /\ pos \in Pipes
  /\ server' = [server EXCEPT ![pos] = "running"]
  /\ pos' = pos + 1
  /\ UNCHANGED <<at, result, interrupted, poller, loop, cancels>>

\* No session after all, a refusal, or no answer, perhaps after the daemon took the
\* run: what was submitted goes on and nobody watches it.
SubmitFails ==
  /\ at = "submitting" /\ pos \in Pipes
  /\ server' \in {server, [server EXCEPT ![pos] = "running"]}
  /\ Return("error")
  /\ UNCHANGED <<interrupted, poller, loop, cancels>>

\* The polling goroutine is started.
Submitted ==
  /\ at = "submitting" /\ pos \notin Pipes
  /\ at' = "watching"
  /\ UNCHANGED <<pos, result, server, interrupted, poller, loop, cancels>>

-----------------------------------------------------------------------------
(* pollRuns.  It goes on until the command has returned. *)

Tick ==
  /\ at \in {"watching", "ended", "cancelling"} /\ polling = 0
  /\ polling' = 1
  /\ UNCHANGED <<command, server, interrupted, got, status, errCount, loop, cancels>>

PollExits ==
  /\ at \in {"watching", "ended", "cancelling"} /\ polling = 0 /\ interrupted
  /\ polling' = N + 1
  /\ UNCHANGED <<command, server, interrupted, got, status, errCount, loop, cancels>>

\* The daemon answers from the row as it is, or the call fails.
RunGet ==
  /\ at # "returned" /\ polling \in Pipes /\ got = "none"
  /\ got' \in {server[polling], "unanswered"}
  /\ UNCHANGED <<command, server, interrupted, polling, status, errCount, loop, cancels>>

Counted(n) == IF n < 3 THEN n + 1 ELSE 3

\* Mutant of Apply: a daemon that does not answer has failed the run.
ApplyFailure ==
  /\ at # "returned" /\ polling \in Pipes /\ got # "none"
  /\ status' = [status EXCEPT ![polling] = IF got = "unanswered" THEN "failed" ELSE got]
  /\ got' = "none"
  /\ polling' = IF polling = N THEN 0 ELSE polling + 1
  /\ UNCHANGED <<command, server, interrupted, errCount, loop, cancels>>

\* The answer reaches the run's fields: the third failure in a row is the status
\* error, and any answer takes its place.
Apply ==
  /\ at # "returned" /\ polling \in Pipes /\ got # "none"
  /\ IF got = "unanswered"
     THEN /\ errCount' = [errCount EXCEPT ![polling] = Counted(@)]
          /\ status' = IF errCount'[polling] = 3 THEN [status EXCEPT ![polling] = "error"] ELSE status
     ELSE /\ errCount' = [errCount EXCEPT ![polling] = 0]
          /\ status' = [status EXCEPT ![polling] = got]
  /\ got' = "none"
  /\ polling' = IF polling = N THEN 0 ELSE polling + 1
  /\ UNCHANGED <<command, server, interrupted, loop, cancels>>

-----------------------------------------------------------------------------
(* The main loop *)

\* Mutant of Terminal: a failed run may still succeed.
TerminalUnlessFailed(p) == status[p] \in {"succeeded", "error"}

Terminal(p) == status[p] \notin {"running", "unknown"}

\* Mutant of HasFailed: a run whose daemon does not answer has not failed.
HasFailedOnly(p) == status[p] = "failed"

HasFailed(p) == status[p] \in {"failed", "error"}

CallTerminal ==
  /\ at = "watching" /\ look \in Pipes /\ ~half
  /\ half' = TRUE
  /\ allDone' = (allDone /\ Terminal(look))
  /\ flicker' = IF status[look] = "error" THEN flicker \cup {look} ELSE flicker
  /\ UNCHANGED <<command, server, interrupted, poller, look, failed, cancels>>

CallFailed ==
  /\ at = "watching" /\ look \in Pipes /\ half
  /\ half' = FALSE
  /\ failed' = (failed \/ HasFailed(look))
  /\ flicker' = IF status[look] = "error" THEN flicker \ {look} ELSE flicker
  /\ look' = look + 1
  /\ UNCHANGED <<command, server, interrupted, poller, allDone, cancels>>

\* The pass is over: all runs are, or the user wants no more, or the loop renders,
\* waits for the next frame and looks again.
EndPass ==
  /\ at = "watching" /\ look \notin Pipes
  /\ \/ /\ allDone \/ interrupted
        /\ at' = "ended"
        /\ UNCHANGED loop
     \/ /\ ~allDone /\ ~interrupted
        /\ look' = 1 /\ allDone' = TRUE /\ flicker' = {}
        /\ UNCHANGED <<at, half, failed>>
  /\ UNCHANGED <<pos, result, server, interrupted, poller, cancels>>

\* The checklist is printed; the signal decides first.
Conclude ==
  /\ at = "ended"
  /\ IF interrupted
     THEN at' = "cancelling" /\ pos' = 1 /\ UNCHANGED result
     ELSE Return(IF failed THEN "failed" ELSE "ok")
  /\ UNCHANGED <<server, interrupted, poller, loop, cancels>>

\* Mutant of Cancel: the first run that is over ends the loop.
CancelUntilOver ==
  /\ at = "cancelling" /\ pos \in Pipes
  /\ IF Terminal(pos)
     THEN Return("cancelled") /\ UNCHANGED <<server, cancels>>
     ELSE /\ pos' = pos + 1 /\ asked' = asked \cup {pos}
          /\ UNCHANGED <<at, result, server, givenUp>>
  /\ UNCHANGED <<interrupted, poller, loop>>

\* CancelRun for each run that does not look terminal.  The daemon answers when the
\* run is over; an error is ignored.
Cancel ==
  /\ at = "cancelling" /\ pos \in Pipes
  /\ IF Terminal(pos)
     THEN /\ givenUp' = IF status[pos] = "error" THEN givenUp \cup {pos} ELSE givenUp
          /\ UNCHANGED <<server, asked>>
     ELSE /\ asked' = asked \cup {pos}
          /\ \/ UNCHANGED server
             \/ server[pos] = "running" /\ \E v \in Verdicts : server' = [server EXCEPT ![pos] = v]
          /\ UNCHANGED givenUp
  /\ pos' = pos + 1
  /\ UNCHANGED <<at, result, interrupted, poller, loop>>

Cancelled ==
  /\ at = "cancelling" /\ pos \notin Pipes
  /\ Return("cancelled")
  /\ UNCHANGED <<server, interrupted, poller, loop, cancels>>

-----------------------------------------------------------------------------

Command ==
  \/ Choose \/ LocalStart \/ LocalRefused \/ LocalWait \/ LocalDone
  \/ SubmitRun \/ SubmitFails \/ Submitted
  \/ CallTerminal \/ CallFailed \/ EndPass \/ Conclude \/ Cancel \/ Cancelled

pollRuns == Tick \/ PollExits \/ RunGet \/ Apply

Next == Command \/ pollRuns \/ Interrupt \/ \E p \in Pipes : RunEnds(p)

Spec == Init /\ [][Next]_vars

\* Both goroutines go on and every call comes back (the client's calls time out).
FairSpec == Spec /\ WF_vars(Command) /\ WF_vars(pollRuns)

-----------------------------------------------------------------------------
(* Properties *)

\* The type invariant.
TypeOK ==
  /\ at \in {"start", "local", "submitting", "watching", "ended", "cancelling", "returned"}
  /\ pos \in 1..(N + 1)
  /\ server \in [Pipes -> {"none", "running"} \cup Verdicts]
  /\ interrupted \in BOOLEAN
  /\ polling \in 0..(N + 1)
  /\ got \in {"none", "unanswered", "running"} \cup Verdicts
  /\ status \in [Pipes -> {"unknown", "running", "error"} \cup Verdicts]
  /\ errCount \in [Pipes -> 0..3]
  /\ look \in 1..(N + 1)
  /\ half \in BOOLEAN /\ allDone \in BOOLEAN /\ failed \in BOOLEAN
  /\ result \in {"none", "ok", "failed", "cancelled", "error"}
  /\ asked \subseteq Pipes /\ givenUp \subseteq Pipes /\ flicker \subseteq Pipes

\* The command says ok, and exits with 0, only if every run succeeded, unless an
\* answer took the place of the status error between the calls of terminal() and
\* failed(): that run may still be running.
OkMeansSucceeded == result = "ok" => \A p \in Pipes : server[p] = "succeeded" \/ p \in flicker

\* When the user interrupts, every run that still runs was asked to stop, unless the
\* daemon had not answered three times in a row and the command took it for over.
CancelReachesAll ==
  result = "cancelled" => \A p \in Pipes : server[p] = "running" => p \in asked \cup givenUp

RunsEnd == \A p \in Pipes : []<>(server[p] # "running")

\* If runs end, so does the command, whatever the daemon answers and whenever the
\* user interrupts.
CommandEnds == RunsEnd => <>(at = "returned")

\* What the command was told is true, and what it is about to be told is not older.
ToldTrue ==
  /\ \A p \in Pipes : status[p] \in Verdicts => server[p] = status[p]
  /\ got # "none" => polling \in Pipes
  /\ got \in Verdicts => server[polling] = got
  /\ got = "running" => status[polling] \notin Verdicts
  /\ at \in {"watching", "ended", "cancelling"} => \A p \in Pipes : server[p] # "none"
  /\ at \in {"start", "local", "submitting"} =>
       polling = 0 /\ ~half /\ look = 1 /\ \A p \in Pipes : status[p] = "unknown"

\* What the main loop knows of the runs it has looked at.
Looked ==
  /\ at = "watching" /\ half => look \in Pipes
  /\ at = "watching" /\ half /\ allDone /\ look \notin flicker =>
       /\ server[look] \in Verdicts
       /\ status[look] \in Verdicts \cup {"error"}
       /\ ~(polling = look /\ got = "running")
  /\ at \in {"watching", "ended"} /\ allDone /\ ~failed =>
       \A p \in Pipes : p < look => server[p] = "succeeded" \/ p \in flicker
  /\ at = "ended" => interrupted \/ (allDone /\ look = N + 1)

\* The loops over the pipelines.
Loops ==
  /\ result # "none" <=> at = "returned"
  /\ at = "start" => pos = 1
  /\ at = "local" => \A p \in Pipes : p < pos => server[p] = "succeeded"
  /\ at = "submitting" => \A p \in Pipes : p < pos => server[p] # "none"
  /\ at = "cancelling" => \A p \in Pipes : p < pos /\ server[p] = "running" => p \in asked \cup givenUp

\* The inductive invariant.
IInv == TypeOK /\ ToldTrue /\ Looked /\ Loops /\ OkMeansSucceeded /\ CancelReachesAll
=============================================================================

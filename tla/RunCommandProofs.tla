--------------------------- MODULE RunCommandProofs ---------------------------
(* Theorems about RunCommand, for any number of pipelines. *)
EXTENDS RunCommand, TLAPS

LEMMA InitInv == Init => IInv
<1> SUFFICES ASSUME Init PROVE IInv
  OBVIOUS
<1> USE RunCommandConstants DEF Init, Pipes, Verdicts
<1>1. /\ interrupted \in BOOLEAN /\ half \in BOOLEAN
      /\ allDone \in BOOLEAN /\ failed \in BOOLEAN
  OBVIOUS
<1>2. TypeOK
  BY <1>1 DEF TypeOK
<1>3. ToldTrue /\ Looked
  BY DEF ToldTrue, Looked
<1>4. Loops /\ OkMeansSucceeded /\ CancelReachesAll
  BY DEF Loops, OkMeansSucceeded, CancelReachesAll
<1>5. QED
  BY <1>2, <1>3, <1>4 DEF IInv

\* Every step keeps the types.
LEMMA StepType ==
  ASSUME TypeOK, [Next]_vars
  PROVE  TypeOK'
<1> USE RunCommandConstants DEF TypeOK, Pipes, Verdicts
<1> USE DEF command, poller, loop, cancels, Return
<1>1. CASE Choose
  BY <1>1 DEF Choose
<1>2. CASE LocalStart
  BY <1>2 DEF LocalStart
<1>3. CASE LocalRefused
  BY <1>3 DEF LocalRefused
<1>4. CASE LocalWait
  BY <1>4 DEF LocalWait
<1>5. CASE LocalDone
  BY <1>5 DEF LocalDone
<1>6. CASE SubmitRun
  BY <1>6 DEF SubmitRun
<1>7. CASE SubmitFails
  BY <1>7 DEF SubmitFails
<1>8. CASE Submitted
  BY <1>8 DEF Submitted
<1>9. CASE CallTerminal
  BY <1>9 DEF CallTerminal
<1>10. CASE CallFailed
  <2>1. failed' \in BOOLEAN /\ half' \in BOOLEAN
    BY <1>10, Zenon DEF CallFailed
  <2>2. look' \in 1..(N + 1)
    BY <1>10 DEF CallFailed
  <2>3. flicker' \subseteq Pipes
    BY <1>10 DEF CallFailed
  <2>4. QED
    BY <1>10, <2>1, <2>2, <2>3 DEF CallFailed
<1>11. CASE EndPass
  <2>1. CASE at' = "ended" /\ UNCHANGED loop
    BY <1>11, <2>1 DEF EndPass
  <2>2. CASE look' = 1 /\ allDone' = TRUE /\ flicker' = {} /\ UNCHANGED <<at, half, failed>>
    BY <1>11, <2>2 DEF EndPass
  <2>3. QED
    BY <1>11, <2>1, <2>2 DEF EndPass
<1>12. CASE Conclude
  BY <1>12 DEF Conclude
<1>13. CASE Cancel
  <2>1. pos' = pos + 1 /\ pos \in Pipes
    BY <1>13, Zenon DEF Cancel
  <2>2. asked' \in {asked, asked \cup {pos}} /\ givenUp' \in {givenUp, givenUp \cup {pos}}
    BY <1>13, Zenon DEF Cancel
  <2>3. \/ UNCHANGED server
        \/ \E v \in Verdicts : server' = [server EXCEPT ![pos] = v]
    BY <1>13 DEF Cancel
  <2>4. server' \in [Pipes -> {"none", "running"} \cup Verdicts]
    BY <2>1, <2>3
  <2>5. UNCHANGED <<at, result, interrupted, poller, loop>>
    BY <1>13 DEF Cancel
  <2>6. QED
    BY <2>1, <2>2, <2>4, <2>5
<1>14. CASE Cancelled
  BY <1>14 DEF Cancelled
<1>15. CASE Tick
  BY <1>15 DEF Tick
<1>16. CASE PollExits
  BY <1>16 DEF PollExits
<1>17. CASE RunGet
  BY <1>17 DEF RunGet
<1>18. CASE Apply
  BY <1>18 DEF Apply, Counted
<1>19. CASE Interrupt
  BY <1>19 DEF Interrupt
<1>20. ASSUME NEW p \in Pipes, RunEnds(p) PROVE TypeOK'
  BY <1>20 DEF RunEnds
<1>21. CASE UNCHANGED vars
  BY <1>21 DEF vars
<1>22. QED
  BY <1>1, <1>2, <1>3, <1>4, <1>5, <1>6, <1>7, <1>8, <1>9, <1>10, <1>11, <1>12, <1>13,
     <1>14, <1>15, <1>16, <1>17, <1>18, <1>19, <1>20, <1>21 DEF Next, Command, pollRuns

\* Every step keeps what the command was told, has seen and has done.
LEMMA StepInv ==
  ASSUME IInv, TypeOK', [Next]_vars
  PROVE  IInv'
<1> DEFINE Parts == ToldTrue /\ Looked /\ Loops /\ OkMeansSucceeded /\ CancelReachesAll
<1> SUFFICES Parts'
  BY DEF IInv
<1> USE RunCommandConstants
    DEF IInv, TypeOK, ToldTrue, Looked, Loops, OkMeansSucceeded, CancelReachesAll, Pipes, Verdicts
<1> USE DEF command, poller, loop, cancels, Return
<1>1. CASE Choose
  BY <1>1 DEF Choose
<1>2. CASE LocalStart
  BY <1>2 DEF LocalStart
<1>3. CASE LocalRefused
  BY <1>3 DEF LocalRefused
<1>4. CASE LocalWait
  BY <1>4 DEF LocalWait
<1>5. CASE LocalDone
  BY <1>5 DEF LocalDone
<1>6. CASE SubmitRun
  BY <1>6 DEF SubmitRun
<1>7. CASE SubmitFails
  BY <1>7 DEF SubmitFails
<1>8. CASE Submitted
  BY <1>8 DEF Submitted
<1>9. CASE CallTerminal
  BY <1>9 DEF CallTerminal, Terminal
<1>10. CASE CallFailed
  BY <1>10 DEF CallFailed, HasFailed
<1>11. CASE EndPass
  BY <1>11 DEF EndPass
<1>12. CASE Conclude
  BY <1>12 DEF Conclude
<1>13. CASE Cancel
  <2>1. ToldTrue'
    <3>1. \/ UNCHANGED server
          \/ server[pos] = "running" /\ \E v \in Verdicts : server' = [server EXCEPT ![pos] = v]
      BY <1>13, Zenon DEF Cancel
    <3>2. UNCHANGED <<at, poller>> /\ at = "cancelling" /\ pos \in Pipes
      BY <1>13 DEF Cancel
    <3>3. CASE UNCHANGED server
      BY <3>2, <3>3
    <3>4. ASSUME server[pos] = "running",
                 NEW v \in Verdicts, server' = [server EXCEPT ![pos] = v]
          PROVE  ToldTrue'
      BY <3>2, <3>4 DEF ToldTrue
    <3>5. QED
      BY <3>1, <3>3, <3>4
  <2>2. Loops'
    <3>1. at' = "cancelling" /\ result' = result /\ pos' = pos + 1 /\ pos \in Pipes
      BY <1>13 DEF Cancel
    <3>2. asked \subseteq asked' /\ givenUp \subseteq givenUp'
      <4>1. asked' \in {asked, asked \cup {pos}} /\ givenUp' \in {givenUp, givenUp \cup {pos}}
        BY <1>13, Zenon DEF Cancel
      <4>2. QED
        BY <4>1
    <3>3. \A p \in Pipes : server'[p] = "running" => server[p] = "running"
      <4>1. \/ UNCHANGED server
            \/ \E v \in Verdicts : server' = [server EXCEPT ![pos] = v]
        BY <1>13, Zenon DEF Cancel
      <4>2. ASSUME NEW v \in Verdicts, server' = [server EXCEPT ![pos] = v],
                   NEW p \in Pipes, server'[p] = "running"
            PROVE  server[p] = "running"
        <5>1. p # pos
          BY <4>2
        <5>2. QED
          BY <4>2, <5>1
      <4>3. QED
        BY <4>1, <4>2, Zenon
    <3>4. server'[pos] = "running" => pos \in asked' \cup givenUp'
      <4>1. CASE Terminal(pos)
        <5>1. givenUp' = IF status[pos] = "error" THEN givenUp \cup {pos} ELSE givenUp
          BY <1>13, <4>1, Zenon DEF Cancel
        <5>2. status[pos] \in Verdicts \cup {"error"}
          BY <3>1, <4>1 DEF Terminal
        <5>3. status[pos] \in Verdicts => server[pos] = status[pos]
          BY <3>1
        <5>4. QED
          BY <3>1, <3>3, <5>1, <5>2, <5>3
      <4>2. CASE ~Terminal(pos)
        <5>1. asked' = asked \cup {pos}
          BY <1>13, <4>2, Zenon DEF Cancel
        <5>2. QED
          BY <5>1
      <4>3. QED
        BY <4>1, <4>2
    <3>5. ASSUME NEW p \in Pipes, p < pos + 1, server'[p] = "running"
          PROVE  p \in asked' \cup givenUp'
      BY <1>13, <3>2, <3>3, <3>4, <3>5 DEF Cancel
    <3>6. QED
      BY <1>13, <3>1, <3>5 DEF Cancel
  <2>3. at' = "cancelling" /\ result' = "none"
    BY <1>13 DEF Cancel
  <2>4. Looked' /\ OkMeansSucceeded' /\ CancelReachesAll'
    BY <2>3 DEF Looked, OkMeansSucceeded, CancelReachesAll
  <2>5. QED
    BY <2>1, <2>2, <2>4
<1>14. CASE Cancelled
  BY <1>14 DEF Cancelled
<1>15. CASE Tick
  BY <1>15 DEF Tick
<1>16. CASE PollExits
  BY <1>16 DEF PollExits
<1>17. CASE RunGet
  BY <1>17 DEF RunGet
<1>18. CASE Apply
  BY <1>18 DEF Apply, Counted
<1>19. CASE Interrupt
  BY <1>19 DEF Interrupt
<1>20. ASSUME NEW p \in Pipes, RunEnds(p) PROVE Parts'
  BY <1>20 DEF RunEnds
<1>21. CASE UNCHANGED vars
  BY <1>21 DEF vars
<1>22. QED
  BY <1>1, <1>2, <1>3, <1>4, <1>5, <1>6, <1>7, <1>8, <1>9, <1>10, <1>11, <1>12, <1>13,
     <1>14, <1>15, <1>16, <1>17, <1>18, <1>19, <1>20, <1>21 DEF Next, Command, pollRuns

\* The inductive invariant holds of every reachable state.
THEOREM Invariance == Spec => []IInv
<1>1. IInv /\ [Next]_vars => IInv'
  BY StepType, StepInv DEF IInv
<1>2. QED
  BY InitInv, <1>1, PTL DEF Spec

\* jt run exits with 0 only if every run succeeded, but for the flicker of a status.
THEOREM OkIsHonest == Spec => []OkMeansSucceeded
<1>1. IInv => OkMeansSucceeded
  BY DEF IInv
<1>2. QED
  BY Invariance, <1>1, PTL

\* After an interrupt no run that is still known to run was left alone.
THEOREM InterruptReachesAll == Spec => []CancelReachesAll
<1>1. IInv => CancelReachesAll
  BY DEF IInv
<1>2. QED
  BY Invariance, <1>1, PTL
=============================================================================

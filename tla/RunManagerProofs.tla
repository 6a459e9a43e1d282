-------------------------- MODULE RunManagerProofs --------------------------
(* Theorems about RunManager, for any number of runs. *)
EXTENDS RunManager, TLAPS

\* Initially there are no runs, no rows and nobody at work.
LEMMA InitInv == Init => IInv
<1>1. Init => TypeOK
  <2> SUFFICES ASSUME Init PROVE TypeOK
    OBVIOUS
  <2>1. \A r \in Runs : status[r] = "none" <=> submit[r] = "none"
    BY DEF Init
  <2>2. QED BY <2>1 DEF Init, TypeOK, Verdicts
<1>2. Init => MapMatchesWaiters /\ CancelledHasEnded
  BY DEF Init, MapMatchesWaiters, CancelledHasEnded
<1>3. Init => \A r \in Runs : SubmitView(r) /\ RowView(r) /\ DeadView(r)
  BY DEF Init, SubmitView, RowView, DeadView, Ended, Verdicts
<1>4. QED BY <1>1, <1>2, <1>3 DEF IInv

\* Every step keeps the types.
LEMMA StepType ==
  ASSUME IInv, [Next]_vars
  PROVE  TypeOK'
<1> TypeOK
  BY DEF IInv
<1> USE DEF TypeOK, Verdicts
<1>1. ASSUME NEW r \in Runs, Submit(r) PROVE TypeOK'
  BY <1>1 DEF Submit
<1>2. ASSUME NEW r \in Runs, Create(r) PROVE TypeOK'
  BY <1>2 DEF Create
<1>3. ASSUME NEW r \in Runs, CreateFails(r) PROVE TypeOK'
  BY <1>3 DEF CreateFails
<1>4. ASSUME NEW r \in Runs, CreateStopped(r) PROVE TypeOK'
  BY <1>4 DEF CreateStopped
<1>5. ASSUME NEW r \in Runs, Add(r) PROVE TypeOK'
  BY <1>5 DEF Add
<1>6. ASSUME NEW r \in Runs, RuntimeEnds(r) PROVE TypeOK'
  BY <1>6 DEF RuntimeEnds
<1>7. ASSUME NEW r \in Runs, Settle(r) PROVE TypeOK'
  <2>1. runtime[r] \in Verdicts
    BY <1>7 DEF Settle, Ended
  <2>2. submit[r] # "none"
    BY <1>7 DEF Settle, IInv, SubmitView
  <2>3. QED BY <1>7, <2>1, <2>2 DEF Settle
<1>8. ASSUME NEW r \in Runs, Remove(r) PROVE TypeOK'
  BY <1>8 DEF Remove
<1>9. ASSUME NEW r \in Runs, Save(r) PROVE TypeOK'
  BY <1>9 DEF Save
<1>10. ASSUME NEW r \in Runs, SaveFails(r) PROVE TypeOK'
  BY <1>10 DEF SaveFails
<1>a. ASSUME NEW r \in Runs, CloseDone(r) PROVE TypeOK'
  BY <1>a DEF CloseDone
<1>11. ASSUME NEW r \in Runs, Find(r) PROVE TypeOK'
  BY <1>11 DEF Find
<1>12. ASSUME NEW r \in Runs, StopRun(r) PROVE TypeOK'
  BY <1>12 DEF StopRun
<1>13. ASSUME NEW r \in Runs, Refuse(r) PROVE TypeOK'
  BY <1>13 DEF Refuse
<1>14. ASSUME NEW r \in Runs, CancelReturns(r) PROVE TypeOK'
  BY <1>14 DEF CancelReturns
<1>15. ASSUME Signal PROVE TypeOK'
  BY <1>15 DEF Signal
<1>16. ASSUME Crash PROVE TypeOK'
  BY <1>16 DEF Crash
<1>17. ASSUME Restart PROVE TypeOK'
  BY <1>17 DEF Restart
<1>18. ASSUME UNCHANGED vars PROVE TypeOK'
  BY <1>18 DEF vars
<1>19. QED
  BY <1>1, <1>2, <1>3, <1>4, <1>5, <1>6, <1>7, <1>8, <1>9, <1>10, <1>a,
     <1>11, <1>12, <1>13, <1>14, <1>15, <1>16, <1>17, <1>18
     DEF Next, Submitting, Completing, Cancelling

\* Every step of a run, and of the process, keeps what is known of all runs.
LEMMA StepInv ==
  ASSUME IInv, TypeOK', [Next]_vars
  PROVE  IInv'
<1> USE DEF IInv, TypeOK, Verdicts, Ended, MapMatchesWaiters, CancelledHasEnded,
            SubmitView, RowView, DeadView
<1>1. ASSUME NEW r \in Runs, Submit(r) PROVE IInv'
  BY <1>1 DEF Submit
<1>2. ASSUME NEW r \in Runs, Create(r) PROVE IInv'
  BY <1>2 DEF Create
<1>3. ASSUME NEW r \in Runs, CreateFails(r) PROVE IInv'
  BY <1>3 DEF CreateFails
<1>4. ASSUME NEW r \in Runs, CreateStopped(r) PROVE IInv'
  BY <1>4 DEF CreateStopped
<1>5. ASSUME NEW r \in Runs, Add(r) PROVE IInv'
  BY <1>5 DEF Add
<1>6. ASSUME NEW r \in Runs, RuntimeEnds(r) PROVE IInv'
  BY <1>6 DEF RuntimeEnds
<1>7. ASSUME NEW r \in Runs, Settle(r) PROVE IInv'
  BY <1>7 DEF Settle
<1>8. ASSUME NEW r \in Runs, Remove(r) PROVE IInv'
  BY <1>8 DEF Remove
<1>9. ASSUME NEW r \in Runs, Save(r) PROVE IInv'
  BY <1>9 DEF Save
<1>10. ASSUME NEW r \in Runs, SaveFails(r) PROVE IInv'
  BY <1>10 DEF SaveFails
<1>a. ASSUME NEW r \in Runs, CloseDone(r) PROVE IInv'
  BY <1>a DEF CloseDone
<1>11. ASSUME NEW r \in Runs, Find(r) \/ StopRun(r) PROVE IInv'
  BY <1>11 DEF Find, StopRun
<1>12. ASSUME NEW r \in Runs, Refuse(r) \/ CancelReturns(r) PROVE IInv'
  BY <1>12 DEF Refuse, CancelReturns
<1>13. ASSUME Signal PROVE IInv'
  BY <1>13 DEF Signal
<1>14. ASSUME Crash PROVE IInv'
  BY <1>14 DEF Crash
<1>15. ASSUME Restart PROVE IInv'
  BY <1>15 DEF Restart
<1>16. ASSUME UNCHANGED vars PROVE IInv'
  BY <1>16 DEF vars
<1>17. QED
  BY <1>1, <1>2, <1>3, <1>4, <1>5, <1>6, <1>7, <1>8, <1>9, <1>10, <1>a, <1>11, <1>12, <1>13, <1>14,
     <1>15, <1>16 DEF Next, Submitting, Completing, Cancelling

\* The inductive invariant holds of every reachable state.
THEOREM Invariance == Spec => []IInv
<1>1. IInv /\ [Next]_vars => IInv'
  BY StepType, StepInv DEF IInv
<1>2. QED BY <1>1, InitInv, PTL DEF Spec

\* What a final row says is what the runtime returned, or that it was lost.
THEOREM RowsTellTheTruth == Spec => []RowTellsTruth
<1>1. IInv => RowTellsTruth
  BY DEF IInv, RowTellsTruth, RowView, Verdicts, TypeOK
<1>2. QED BY <1>1, Invariance, PTL

\* A live daemon has somebody to end every row that says "running".
THEOREM RowsAreAttended == Spec => []NoStaleRow
<1>1. IInv => NoStaleRow
  BY DEF IInv, NoStaleRow, DeadView, RowView, Ended, Verdicts, TypeOK
<1>2. QED BY <1>1, Invariance, PTL

\* No pipeline runs unrecorded once Submit has got past CreateRun.
THEOREM UnrecordedIsOver == Spec => []NothingRunsUnrecorded
<1>1. IInv => NothingRunsUnrecorded
  BY DEF IInv, NothingRunsUnrecorded, SubmitView, RowView, DeadView, Verdicts, Ended, TypeOK
<1>2. QED BY <1>1, Invariance, PTL

\* The map of running runs never outgrows the goroutines that will empty it.
THEOREM MapIsExact == Spec => []MapMatchesWaiters
<1>1. IInv => MapMatchesWaiters
  BY DEF IInv
<1>2. QED BY <1>1, Invariance, PTL

\* Cancel answers with success only after the end of the pipeline.
THEOREM CancelWaits == Spec => []CancelledHasEnded
<1>1. IInv => CancelledHasEnded
  BY DEF IInv
<1>2. QED BY <1>1, Invariance, PTL

\* Nobody is told that a run is over before its row is, if the row can be saved.
THEOREM DoneAfterSave == Spec => []DoneIsSaved
<1>1. IInv => DoneIsSaved
  BY DEF IInv, DoneIsSaved, RowView, DeadView, Verdicts, Ended, TypeOK
<1>2. QED BY <1>1, Invariance, PTL

\* A row that is final stays as it is.
THEOREM FinalRowsStay == Spec => FinalRows
<1>1. IInv /\ [Next]_vars => \A r \in Runs : row[r] \notin {"none", "running"} => row'[r] = row[r]
  BY DEF IInv, TypeOK, RowView, SubmitView, Verdicts, Next, vars, Submit, Submitting, Create, CreateFails,
         CreateStopped, Add, RuntimeEnds, Completing, Settle, Remove, Save, SaveFails,
         CloseDone, Find,
         Cancelling, StopRun, Refuse, CancelReturns, Signal, Crash, Restart
<1>2. QED BY <1>1, Invariance, PTL DEF FinalRows, Spec
-----------------------------------------------------------------------------
(* Refinement: every step of the Manager is a step of RunRecords or changes   *)
(* nothing that RunRecords shows.                                             *)

Lives == [r \in Runs |-> LifeOf(r)]
Granted == {r \in Runs : cancel[r] = "stopped"}

\* How far the daemon has got with a run shows in Submit and in the completion
\* goroutine alone.
LEMMA LifeFrame ==
  ASSUME submit' = submit, waiter' = waiter
  PROVE  Lives' = Lives
BY DEF Lives, LifeOf

\* A step of one run moves the life of that run.
LEMMA LifeMoves ==
  ASSUME NEW r \in Runs,
         \A q \in Runs : q # r => submit'[q] = submit[q] /\ waiter'[q] = waiter[q]
  PROVE  Lives' = [Lives EXCEPT ![r] = LifeOf(r)']
<1>1. \A q \in Runs : q # r => (LifeOf(q))' = LifeOf(q)
  BY DEF LifeOf
<1>2. QED BY <1>1 DEF Lives

\* The cancellations granted change only with the request that is answered.
LEMMA GrantedFrame ==
  ASSUME \A q \in Runs : cancel'[q] = "stopped" <=> cancel[q] = "stopped"
  PROVE  Granted' = Granted
BY DEF Granted

\* What Submit does for a run launches it, records it and tells its identifier.
LEMMA SubmitSimulates ==
  ASSUME IInv, IInv', NEW r \in Runs, Submit(r) \/ Submitting(r)
  PROVE  Records!PromiseNext \/ UNCHANGED Records!recordVars
<1> USE DEF Records!recordVars
<1>1. CASE Submit(r)
  <2>1. /\ LifeOf(r) = "none" /\ (LifeOf(r))' = "submitted"
        /\ \A q \in Runs : q # r => submit'[q] = submit[q] /\ waiter'[q] = waiter[q]
    BY <1>1 DEF Submit, LifeOf, IInv, TypeOK, SubmitView
  <2>2. /\ Lives' = [Lives EXCEPT ![r] = "submitted"] /\ Lives[r] = "none"
    BY <2>1, LifeMoves DEF Lives
  <2>3. Granted' = Granted
    BY <1>1 DEF Granted, Submit
  <2>4. Records!Launch(r)
    BY <1>1, <2>2, <2>3 DEF Records!Launch, Submit, Lives, Granted
  <2>5. QED BY <2>4 DEF Records!PromiseNext
<1>2. CASE Create(r)
  <2>1. LifeOf(r) = "submitted" /\ (LifeOf(r))' = "submitted" /\ row[r] = "none"
    BY <1>2 DEF Create, LifeOf, IInv, TypeOK, SubmitView
  <2>2. \A q \in Runs : q # r => submit'[q] = submit[q] /\ waiter'[q] = waiter[q]
    BY <1>2 DEF Create, IInv, TypeOK
  <2>3. Lives' = Lives /\ Lives[r] = "submitted"
    BY <2>1, <2>2, LifeMoves DEF Lives
  <2>4. Granted' = Granted
    BY <1>2 DEF Granted, Create
  <2>5. Records!Record(r)
    BY <1>2, <2>1, <2>3, <2>4 DEF Records!Record, Create, Lives, Granted
  <2>6. QED BY <2>5 DEF Records!PromiseNext
<1>3. CASE (CreateFails(r) /\ row' = row) \/ CreateStopped(r)
  <2>1. LifeOf(r) = "submitted" /\ (LifeOf(r))' = "submitted"
    BY <1>3 DEF CreateFails, CreateStopped, LifeOf, IInv, TypeOK, SubmitView
  <2>2. \A q \in Runs : q # r => submit'[q] = submit[q] /\ waiter'[q] = waiter[q]
    BY <1>3 DEF CreateFails, CreateStopped, IInv, TypeOK
  <2>3. Lives' = Lives
    BY <2>1, <2>2, LifeMoves DEF Lives
  <2>4. Granted' = Granted
    BY <1>3 DEF Granted, CreateFails, CreateStopped
  <2>5. QED BY <1>3, <2>3, <2>4 DEF CreateFails, CreateStopped, Lives, Granted
<1>a. CASE CreateFails(r) /\ row' = [row EXCEPT ![r] = "running"]
  <2>1. LifeOf(r) = "submitted" /\ (LifeOf(r))' = "submitted" /\ row[r] = "none"
    BY <1>a DEF CreateFails, LifeOf, IInv, TypeOK, SubmitView
  <2>2. \A q \in Runs : q # r => submit'[q] = submit[q] /\ waiter'[q] = waiter[q]
    BY <1>a DEF CreateFails, IInv, TypeOK
  <2>3. Lives' = Lives /\ Lives[r] = "submitted"
    BY <2>1, <2>2, LifeMoves DEF Lives
  <2>4. Granted' = Granted
    BY <1>a DEF Granted, CreateFails
  <2>5. Records!Record(r)
    BY <1>a, <2>1, <2>3, <2>4 DEF Records!Record, CreateFails, Lives, Granted
  <2>6. QED BY <2>5 DEF Records!PromiseNext
<1>4. CASE Add(r)
  <2>1. LifeOf(r) = "submitted" /\ (LifeOf(r))' = "told"
    BY <1>4 DEF Add, LifeOf, IInv, TypeOK, SubmitView
  <2>2. \A q \in Runs : q # r => submit'[q] = submit[q] /\ waiter'[q] = waiter[q]
    BY <1>4 DEF Add, IInv, TypeOK
  <2>3. /\ Lives' = [Lives EXCEPT ![r] = "told"] /\ Lives[r] = "submitted"
    BY <2>1, <2>2, LifeMoves DEF Lives
  <2>4. Granted' = Granted
    BY <1>4 DEF Granted, Add
  <2>5. row[r] = "running" \/ Records!Final(r)
    BY <1>4 DEF Add, IInv, SubmitView, Ended, Verdicts, Records!Final
  <2>6. Records!Tell(r)
    BY <1>4, <2>3, <2>4, <2>5 DEF Records!Tell, Add, Lives, Granted
  <2>7. QED BY <2>6 DEF Records!PromiseNext
<1>5. QED BY <1>1, <1>2, <1>3, <1>a, <1>4 DEF Submitting, CreateFails

\* The completion goroutine shows two steps: UpdateRun, which may return an error,
\* and the close of run.done.
LEMMA CompletionSimulates ==
  ASSUME IInv, IInv', NEW r \in Runs, Completing(r)
  PROVE  Records!PromiseNext \/ UNCHANGED Records!recordVars
<1> USE DEF Records!recordVars
<1>1. Granted' = Granted
  BY DEF Granted, Completing, Settle, Remove, Save, SaveFails, CloseDone
<1>2. \A q \in Runs : q # r => submit'[q] = submit[q] /\ waiter'[q] = waiter[q]
  BY DEF Completing, Settle, Remove, Save, SaveFails, CloseDone, IInv, TypeOK
<1>3. CASE Settle(r) \/ Remove(r)
  <2>1. LifeOf(r) = "told" /\ (LifeOf(r))' = "told"
    BY <1>3 DEF Settle, Remove, LifeOf, IInv, TypeOK, DeadView
  <2>2. Lives' = Lives
    BY <1>2, <2>1, LifeMoves DEF Lives
  <2>3. QED BY <1>1, <1>3, <2>2 DEF Settle, Remove, Lives, Granted
<1>4. CASE Save(r) \/ SaveFails(r)
  <2>1. LifeOf(r) = "told" /\ (LifeOf(r))' = "told"
    BY <1>4 DEF Save, SaveFails, LifeOf, IInv, TypeOK, DeadView
  <2>2. Lives' = Lives /\ Lives[r] = "told"
    BY <1>2, <2>1, LifeMoves DEF Lives
  <2>3. Records!Final(r) /\ status[r] = runtime[r] /\ row[r] \in {"none", "running"}
    BY <1>4 DEF Save, SaveFails, IInv, RowView, Ended, Verdicts, Records!Final
  <2>4. CASE Save(r)
    <3>1. Records!Write(r)
      BY <1>1, <2>2, <2>3, <2>4
         DEF Records!Write, Records!Settled, Save, Lives, Granted
    <3>2. QED BY <3>1 DEF Records!PromiseNext
  <2>5. CASE SaveFails(r)
    <3>1. \/ row[r] = "running" /\ row' = [row EXCEPT ![r] = runtime[r]]
          \/ row' = row
      BY <2>3, <2>5 DEF SaveFails
    <3>2. Records!WriteFails(r)
      BY <1>1, <2>2, <2>3, <2>5, <3>1
         DEF Records!WriteFails, Records!Settled, SaveFails, Lives, Granted
    <3>3. QED BY <3>2 DEF Records!PromiseNext
  <2>6. QED BY <1>4, <2>4, <2>5
<1>5. CASE CloseDone(r)
  <2>1. LifeOf(r) = "told" /\ (LifeOf(r))' = "closed"
    BY <1>5 DEF CloseDone, LifeOf, IInv, TypeOK, DeadView
  <2>2. Lives' = [Lives EXCEPT ![r] = "closed"] /\ Lives[r] = "told"
    BY <1>2, <2>1, LifeMoves DEF Lives
  <2>3. Records!Final(r) /\ (row[r] = runtime[r] \/ r \in unsaved)
    BY <1>5 DEF CloseDone, IInv, RowView, Ended, Verdicts, Records!Final
  <2>4. Records!Close(r)
    BY <1>1, <1>5, <2>2, <2>3 DEF Records!Close, CloseDone, Lives, Granted
  <2>5. QED BY <2>4 DEF Records!PromiseNext
<1>6. QED BY <1>3, <1>4, <1>5 DEF Completing

\* A request to cancel shows when it is answered with success.
LEMMA CancelSimulates ==
  ASSUME IInv, IInv', NEW r \in Runs, Find(r) \/ Cancelling(r)
  PROVE  Records!PromiseNext \/ UNCHANGED Records!recordVars
<1> USE DEF Records!recordVars
<1>1. Lives' = Lives
  BY LifeFrame DEF Find, Cancelling, StopRun, Refuse, CancelReturns
<1>2. CASE Find(r) \/ StopRun(r) \/ Refuse(r)
  <2>1. Granted' = Granted
    BY <1>2, GrantedFrame DEF Find, StopRun, Refuse, IInv, TypeOK
  <2>2. QED BY <1>1, <1>2, <2>1 DEF Find, StopRun, Refuse, Lives, Granted
<1>3. CASE CancelReturns(r)
  <2>1. Granted' = Granted \cup {r}
    BY <1>3 DEF CancelReturns, Granted, IInv, TypeOK
  <2>2. Records!Final(r) /\ row[r] # "none"
    BY <1>3 DEF CancelReturns, IInv, RowView, Ended, Verdicts, Records!Final
  <2>3. Records!Grant(r)
    BY <1>1, <1>3, <2>1, <2>2 DEF Records!Grant, CancelReturns, Lives, Granted
  <2>4. QED BY <2>3 DEF Records!PromiseNext
<1>4. QED BY <1>2, <1>3 DEF Cancelling

\* The end of a pipeline, the signal, the crash and the restart.
LEMMA ProcessSimulates ==
  ASSUME IInv, IInv', (\E r \in Runs : RuntimeEnds(r)) \/ Signal \/ Crash \/ Restart
  PROVE  Records!PromiseNext \/ UNCHANGED Records!recordVars
<1> USE DEF Records!recordVars
<1>1. ASSUME NEW r \in Runs, RuntimeEnds(r)
      PROVE  Records!PromiseNext
  <2>1. Lives' = Lives /\ Granted' = Granted
    BY <1>1, LifeFrame DEF RuntimeEnds, Granted
  <2>2. Records!End(r)
    BY <1>1, <2>1 DEF RuntimeEnds, Verdicts, Records!End, Lives, Granted
  <2>3. QED BY <2>2 DEF Records!PromiseNext
<1>2. ASSUME Signal
      PROVE  UNCHANGED Records!recordVars
  <2>1. Lives' = Lives /\ Granted' = Granted
    BY <1>2, LifeFrame DEF Signal, Granted
  <2>2. QED BY <1>2, <2>1 DEF Signal, Lives, Granted
<1>3. ASSUME Crash
      PROVE  Records!PromiseNext
  <2>1. \A r \in Runs : (LifeOf(r))' =
          IF LifeOf(r) \in {"submitted", "told"} THEN "cut" ELSE LifeOf(r)
    BY <1>3 DEF Crash, LifeOf, IInv, TypeOK, SubmitView, DeadView
  <2>2. Lives' = [r \in Runs |-> IF Lives[r] \in {"submitted", "told"} THEN "cut" ELSE Lives[r]]
    BY <2>1 DEF Lives
  <2>3. Granted' = Granted
    BY <1>3, GrantedFrame DEF Crash
  <2>4. Records!Die
    BY <1>3, <2>2, <2>3 DEF Crash, Records!Die, Lives, Granted
  <2>5. QED BY <2>4 DEF Records!PromiseNext
<1>4. ASSUME Restart
      PROVE  Records!PromiseNext
  <2>1. Lives' = Lives /\ Granted' = Granted
    BY <1>4, LifeFrame DEF Restart, Granted
  <2>2. Records!Reboot
    BY <1>4, <2>1 DEF Restart, Records!Reboot, Lives, Granted
  <2>3. QED BY <2>2 DEF Records!PromiseNext
<1>5. QED BY <1>1, <1>2, <1>3, <1>4

\* The Manager keeps the promises of RunRecords: the handlers, the goroutines, the
\* map and the failing database calls, with crashes and restarts in between.
THEOREM RecordsAreKept == Spec => KeepsRecords
<1>1. Init => Records!PromiseInit
  <2> SUFFICES ASSUME Init PROVE Records!PromiseInit
    OBVIOUS
  <2>1. Lives = [r \in Runs |-> "none"] /\ Granted = {}
    BY DEF Init, Lives, LifeOf, Granted
  <2>2. QED BY <2>1 DEF Init, Records!PromiseInit, Lives, Granted
<1>2. IInv /\ IInv' /\ [Next]_vars => [Records!PromiseNext]_Records!recordVars
  <2>1. ASSUME UNCHANGED vars
        PROVE  UNCHANGED Records!recordVars
    <3>1. Lives' = Lives /\ Granted' = Granted
      BY <2>1, LifeFrame DEF vars, Granted
    <3>2. QED BY <2>1, <3>1 DEF vars, Records!recordVars, Lives, Granted
  <2>2. QED
    BY <2>1, SubmitSimulates, CompletionSimulates, CancelSimulates, ProcessSimulates DEF Next
<1>3. QED BY <1>1, <1>2, Invariance, PTL DEF Spec, KeepsRecords, Records!Promise
=============================================================================

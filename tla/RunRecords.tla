----------------------------- MODULE RunRecords ------------------------------
(***************************************************************************)
(* What the daemon promises whoever submits, cancels or looks up runs,      *)
(* without its goroutines, its map of running runs and its database calls:  *)
(* the record of a run says what became of it and is final once it does, an *)
(* identifier is given out only for a run that has a record or is over, the *)
(* end of a run is announced when its record tells it or writing it was     *)
(* answered with an error, a cancellation is granted when the run is over,  *)
(* and a crash loses no record.                                             *)
(***************************************************************************)
CONSTANT Runs

VARIABLES
  up,         \* there is a daemon
  life,       \* of a run: none, submitted, told (to its submitter), closed, cut (by a crash)
  outcome,    \* of its pipeline: absent, running, succeeded, failed, lost
  record,     \* none, running, succeeded, failed, interrupted
  unwritten,  \* the runs whose final write this daemon saw fail
  granted     \* the runs whose cancellation was granted

recordVars == <<up, life, outcome, record, unwritten, granted>>

Final(r) == outcome[r] \in {"succeeded", "failed"}

PromiseInit ==
  /\ up = TRUE
  /\ life = [r \in Runs |-> "none"] /\ outcome = [r \in Runs |-> "absent"]
  /\ record = [r \in Runs |-> "none"] /\ unwritten = {} /\ granted = {}

Launch(r) ==
  /\ up /\ life[r] = "none"
  /\ life' = [life EXCEPT ![r] = "submitted"]
  /\ outcome' = [outcome EXCEPT ![r] = "running"]
  /\ UNCHANGED <<up, record, unwritten, granted>>

Record(r) ==
  /\ life[r] = "submitted" /\ record[r] = "none"
  /\ record' = [record EXCEPT ![r] = "running"]
  /\ UNCHANGED <<up, life, outcome, unwritten, granted>>

\* The identifier is given out: the run can be looked up, or needs not to be.
Tell(r) ==
  /\ life[r] = "submitted" /\ (record[r] = "running" \/ Final(r))
  /\ life' = [life EXCEPT ![r] = "told"]
  /\ UNCHANGED <<up, outcome, record, unwritten, granted>>

End(r) ==
  /\ outcome[r] = "running"
  /\ \E v \in {"succeeded", "failed"} : outcome' = [outcome EXCEPT ![r] = v]
  /\ UNCHANGED <<up, life, record, unwritten, granted>>

\* The record comes to say how the run ended.
Settled(r) == record[r] = "running" /\ record' = [record EXCEPT ![r] = outcome[r]]

Write(r) ==
  /\ life[r] = "told" /\ Final(r)
  /\ Settled(r)
  /\ UNCHANGED <<up, life, outcome, unwritten, granted>>

\* The write is answered with an error and may have been done all the same.
WriteFails(r) ==
  /\ life[r] = "told" /\ Final(r)
  /\ Settled(r) \/ UNCHANGED record
  /\ unwritten' = unwritten \cup {r}
  /\ UNCHANGED <<up, life, outcome, granted>>

\* The end is announced: whoever waits for it can read it, or the write failed.
Close(r) ==
  /\ life[r] = "told" /\ Final(r)
  /\ record[r] = outcome[r] \/ r \in unwritten
  /\ life' = [life EXCEPT ![r] = "closed"]
  /\ UNCHANGED <<up, outcome, record, unwritten, granted>>

Grant(r) ==
  /\ Final(r) /\ record[r] # "none"
  /\ granted' = granted \cup {r}
  /\ UNCHANGED <<up, life, outcome, record, unwritten>>

Die ==
  /\ up /\ up' = FALSE
  /\ life' = [r \in Runs |-> IF life[r] \in {"submitted", "told"} THEN "cut" ELSE life[r]]
  /\ outcome' = [r \in Runs |-> IF outcome[r] = "running" THEN "lost" ELSE outcome[r]]
  /\ UNCHANGED <<record, unwritten, granted>>

Reboot ==
  /\ ~up /\ up' = TRUE
  /\ record' = [r \in Runs |-> IF record[r] = "running" THEN "interrupted" ELSE record[r]]
  /\ unwritten' = {}
  /\ UNCHANGED <<life, outcome, granted>>

PromiseNext ==
  \/ \E r \in Runs : Launch(r) \/ Record(r) \/ Tell(r) \/ End(r)
                     \/ Write(r) \/ WriteFails(r) \/ Close(r) \/ Grant(r)
  \/ Die \/ Reboot

Promise == PromiseInit /\ [][PromiseNext]_recordVars
=============================================================================

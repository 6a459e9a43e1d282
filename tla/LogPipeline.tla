----------------------------- MODULE LogPipeline -----------------------------
(***************************************************************************)
(* The log of one job (pkg/logs, internal/daemon/api): the worker writes    *)
(* what the container prints through a LineWriter per stream; each whole    *)
(* line is encoded to the log file and published by the Broadcaster to the  *)
(* HTTP handlers that stream the log live and come and go meanwhile.        *)
(*                                                                         *)
(* Abstractions: a byte is "c" or the newline "n"; a published line is its  *)
(* number in the file; a channel holds Capacity lines (256 in the code).    *)
(* The map of the subscribers of the job is an object of its own: Publish   *)
(* takes it under the lock and walks it without, while Subscribe and        *)
(* unsubscribe write to it.                                                 *)
(***************************************************************************)
EXTENDS Naturals, Sequences, Functions

CONSTANTS
  Streams,      \* stdout and stderr
  Chunks,       \* what one Write may be given, sequences of bytes
  MaxBytes,     \* bound on what the container prints to one stream
  Subscribers,  \* the handlers that may subscribe, once each
  Capacity,     \* of a subscriber's channel
  None

ASSUME LogConstants ==
  /\ Chunks \subseteq Seq({"c", "n"})
  /\ MaxBytes \in Nat /\ Capacity \in Nat
  /\ None \notin Streams /\ None \notin Subscribers

VARIABLES
  down,      \* what ended the daemon: no, race (a fatal error of the runtime), panic
  job,       \* the job that prints: running, over, broken (its log could not be written)
  written,   \* history: what the container printed to a stream
  buf,       \* LineWriter.buf
  writer,    \* the stream whose Write is under way
  file,      \* the lines of the log file
  entry,     \* b.subs has an entry for the job
  subs,      \* the channels in that entry's map
  walk,      \* Publish: no, live (walks that map), stale (walks one removed from b.subs)
  start,     \* the channels in the map when the walk began
  visited,   \* the channels the walk has taken
  target,    \* the channel the walk is about to send to
  handler,   \* of a subscriber: none, open, closed
  chan,      \* the lines in its channel
  got,       \* history: the lines it received
  since,     \* history: the lines in the file when it subscribed
  missed     \* history: the lines dropped because its channel was full

writeVars == <<job, written, buf, writer, file>>
walkVars == <<walk, start, visited, target>>
subVars == <<entry, subs>>
readVars == <<handler, chan, got, since, missed>>
vars == <<down, writeVars, walkVars, subVars, readVars>>

Byte == {"c", "n"}
Lines == [stream : Streams, data : Seq(Byte)]

Init ==
  /\ down = "no" /\ job = "running"
  /\ written = [st \in Streams |-> <<>>] /\ buf = [st \in Streams |-> <<>>]
  /\ writer = None /\ file = <<>>
  /\ entry = FALSE /\ subs = {}
  /\ walk = "no" /\ start = {} /\ visited = {} /\ target = None
  /\ handler = [s \in Subscribers |-> "none"]
  /\ chan = [s \in Subscribers |-> <<>>] /\ got = [s \in Subscribers |-> <<>>]
  /\ since = [s \in Subscribers |-> 0]
  /\ missed = [s \in Subscribers |-> {}]

-----------------------------------------------------------------------------
(* LineWriter *)

\* The end of the first line in a buffer, 0 when there is none.
NewlineAt(b) == IF "n" \in Range(b) THEN CHOOSE i \in DOMAIN b :
                  b[i] = "n" /\ \A k \in 1..(i - 1) : b[k] # "n" ELSE 0

\* Write: the bytes go to the buffer, then the loop looks for lines.
Write(st, chunk) ==
  /\ down = "no" /\ job = "running" /\ writer = None
  /\ Len(written[st]) + Len(chunk) <= MaxBytes
  /\ written' = [written EXCEPT ![st] = @ \o chunk]
  /\ buf' = [buf EXCEPT ![st] = @ \o chunk]
  /\ writer' = st
  /\ UNCHANGED <<down, job, file, walkVars, subVars, readVars>>

\* Mutant of Line: data[:i], the line without its newline.
LineCut(st) == [stream |-> st, data |-> SubSeq(buf[st], 1, NewlineAt(buf[st]) - 1)]

Line(st) == [stream |-> st, data |-> SubSeq(buf[st], 1, NewlineAt(buf[st]))]

\* emit: Encode the line to the file, then Publish takes the subscribers' map.
Emit(st) ==
  /\ down = "no" /\ writer = st /\ walk = "no" /\ NewlineAt(buf[st]) # 0
  /\ file' = Append(file, Line(st))
  /\ walk' = IF entry THEN "live" ELSE "stale"
  /\ start' = subs /\ visited' = {}
  /\ UNCHANGED <<down, job, written, buf, writer, target, subVars, readVars>>

\* Encode fails: Write and with it the step that printed fail; nothing is
\* written after it.
EmitFails(st) ==
  /\ down = "no" /\ writer = st /\ walk = "no" /\ NewlineAt(buf[st]) # 0
  /\ writer' = None /\ job' = "broken"
  /\ UNCHANGED <<down, written, buf, file, walkVars, subVars, readVars>>

WriteReturns(st) ==
  /\ down = "no" /\ writer = st /\ walk = "no" /\ NewlineAt(buf[st]) = 0
  /\ writer' = None
  /\ UNCHANGED <<down, job, written, buf, file, walkVars, subVars, readVars>>

\* ExecuteJob returns; the worker does not close the JobLog.
JobEnds ==
  /\ down = "no" /\ job = "running" /\ writer = None
  /\ job' = "over"
  /\ UNCHANGED <<down, written, buf, writer, file, walkVars, subVars, readVars>>

-----------------------------------------------------------------------------
(* Broadcaster *)

InWalk == IF walk = "live" THEN subs ELSE {}

\* for ch := range subs
PublishNext(s) ==
  /\ down = "no" /\ walk # "no" /\ target = None
  /\ s \in InWalk \ visited
  /\ target' = s /\ visited' = visited \cup {s}
  /\ UNCHANGED <<down, writeVars, walk, start, subVars, readVars>>

\* Mutant of Deliver: a send without the default case waits for room.
DeliverBlocking(s) ==
  /\ down = "no" /\ target = s /\ Len(chan[s]) < Capacity
  /\ target' = None
  /\ chan' = [chan EXCEPT ![s] = Append(@, Len(file))]
  /\ UNCHANGED <<down, writeVars, walk, start, visited, subVars, handler, got, since, missed>>

\* The select: send when there is room, else drop; a closed channel panics.
Deliver(s) ==
  /\ down = "no" /\ target = s
  /\ target' = None
  /\ IF handler[s] = "closed" THEN down' = "panic" /\ UNCHANGED <<chan, missed>>
     ELSE /\ UNCHANGED down
          /\ IF Len(chan[s]) < Capacity
             THEN chan' = [chan EXCEPT ![s] = Append(@, Len(file))] /\ UNCHANGED missed
             ELSE missed' = [missed EXCEPT ![s] = @ \cup {Len(file)}] /\ UNCHANGED chan
  /\ UNCHANGED <<writeVars, walk, start, visited, subVars, handler, got, since>>

\* Mutant of PublishEnds: the loop is left at the first channel that is full.
PublishEndsEarly ==
  /\ down = "no" /\ walk # "no" /\ target = None
  /\ \/ start \cap InWalk \subseteq visited
     \/ \E s \in visited : Len(file) \in missed[s]
  /\ walk' = "no"
  /\ buf' = [buf EXCEPT ![writer] = SubSeq(@, NewlineAt(@) + 1, Len(@))]
  /\ UNCHANGED <<down, job, written, writer, file, start, visited, target, subVars, readVars>>

\* The walk has met every channel that stayed in the map, and any that came.
\* Back in Write the line leaves the buffer.
PublishEnds ==
  /\ down = "no" /\ walk # "no" /\ target = None
  /\ start \cap InWalk \subseteq visited
  /\ walk' = "no"
  /\ buf' = [buf EXCEPT ![writer] = SubSeq(@, NewlineAt(@) + 1, Len(@))]
  /\ UNCHANGED <<down, job, written, writer, file, start, visited, target, subVars, readVars>>

\* A write to the map that Publish is walking is a data race: nothing happens,
\* or the runtime reports a concurrent map iteration and map write and exits.
Race == down' \in {"no"} \cup (IF walk = "live" THEN {"race"} ELSE {})

\* handleLogsLive: SubscribeLogs.
Subscribe(s) ==
  /\ down = "no" /\ handler[s] = "none"
  /\ entry' = TRUE /\ subs' = subs \cup {s}
  /\ handler' = [handler EXCEPT ![s] = "open"]
  /\ since' = [since EXCEPT ![s] = Len(file)]
  /\ Race
  /\ UNCHANGED <<writeVars, walkVars, chan, got, missed>>

\* Mutant of Unsubscribe: the entry is deleted whoever else is in it.
UnsubscribeAll(s) ==
  /\ down = "no" /\ handler[s] = "open"
  /\ subs' = {} /\ entry' = FALSE
  /\ handler' = [handler EXCEPT ![s] = "closed"]
  /\ walk' = IF walk = "live" THEN "stale" ELSE walk
  /\ Race
  /\ UNCHANGED <<writeVars, start, visited, target, chan, got, since, missed>>

\* The client is gone: unsubscribe deletes the channel, the entry when it was
\* the last one, and closes it.
Unsubscribe(s) ==
  /\ down = "no" /\ handler[s] = "open"
  /\ subs' = subs \ {s}
  /\ entry' = (subs' # {})
  /\ handler' = [handler EXCEPT ![s] = "closed"]
  /\ walk' = IF walk = "live" /\ subs' = {} THEN "stale" ELSE walk
  /\ Race
  /\ UNCHANGED <<writeVars, start, visited, target, chan, got, since, missed>>

Receive(s) ==
  /\ down = "no" /\ handler[s] = "open" /\ chan[s] # <<>>
  /\ got' = [got EXCEPT ![s] = Append(@, Head(chan[s]))]
  /\ chan' = [chan EXCEPT ![s] = Tail(@)]
  /\ UNCHANGED <<down, writeVars, walkVars, subVars, handler, since, missed>>

-----------------------------------------------------------------------------
Writing ==
  \/ \E st \in Streams : Emit(st) \/ EmitFails(st) \/ WriteReturns(st)
  \/ \E s \in Subscribers : PublishNext(s) \/ Deliver(s)
  \/ PublishEnds

Handling(s) == Subscribe(s) \/ Unsubscribe(s) \/ Receive(s)

Next ==
  \/ \E st \in Streams, chunk \in Chunks : Write(st, chunk)
  \/ Writing \/ JobEnds
  \/ \E s \in Subscribers : Handling(s)

Spec == Init /\ [][Next]_vars

\* The worker goes on once it is in Write; nothing is assumed of the container
\* or of the clients, which may stay without ever reading.
FairSpec == Spec /\ WF_vars(Writing)

-----------------------------------------------------------------------------
(* Properties *)

\* What a log holds of a stream: the bytes of its lines, one after the other.
DataIn(f, st) ==
  LET upTo[n \in 0..Len(f)] ==
        IF n = 0 THEN <<>>
        ELSE IF f[n].stream = st THEN upTo[n - 1] \o f[n].data ELSE upTo[n - 1]
  IN upTo[Len(f)]

Unpublished(st) == IF writer = st /\ walk # "no"
                   THEN SubSeq(buf[st], NewlineAt(buf[st]) + 1, Len(buf[st])) ELSE buf[st]

\* The file and the buffer hold exactly what was printed, in order, and every
\* line of the file ends with its only newline, whatever the chunks were.
FileIsOutput ==
  /\ \A st \in Streams : DataIn(file, st) \o Unpublished(st) = written[st]
  /\ \A i \in DOMAIN file : NewlineAt(file[i].data) = Len(file[i].data)

\* The lines a reader was given, and the number of those whose publication is over.
Seen(s) == got[s] \o chan[s]
Published == Len(file) - (IF walk = "no" THEN 0 ELSE 1)

InOrder(s) == \A i, k \in DOMAIN Seen(s) : i < k => Seen(s)[i] < Seen(s)[k]

NoneSkipped(s) ==
  handler[s] = "open" =>
    \A l \in (since[s] + 1)..Published : l \in Range(Seen(s)) \cup missed[s]

\* A live reader gets lines in order and none twice, and every line published
\* since it subscribed, except those that found its channel full.
LiveLines == \A s \in Subscribers : InOrder(s) /\ NoneSkipped(s)

\* The map holds exactly the open handlers' channels: no reader is cut off by
\* another one leaving, and no entry outlives its readers.
SubscribersKept ==
  /\ subs = {s \in Subscribers : handler[s] = "open"}
  /\ entry <=> subs # {}

\* A reader that does not read never holds up the job that prints.
WritersNotBlocked == writer # None ~> writer = None \/ down # "no"

\* "If subscriber is too slow, drop it": publishing a line delivers it or drops
\* it, and never ends the daemon.
PublishIsHarmless == down # "panic"

-----------------------------------------------------------------------------
(* The inductive invariant *)

TypeOK ==
  /\ down \in {"no", "race", "panic"} /\ job \in {"running", "over", "broken"}
  /\ written \in [Streams -> Seq(Byte)] /\ buf \in [Streams -> Seq(Byte)]
  /\ writer \in Streams \cup {None} /\ file \in Seq(Lines)
  /\ entry \in BOOLEAN /\ subs \subseteq Subscribers
  /\ walk \in {"no", "live", "stale"}
  /\ start \subseteq Subscribers /\ visited \subseteq Subscribers
  /\ target \in Subscribers \cup {None}
  /\ handler \in [Subscribers -> {"none", "open", "closed"}]
  /\ chan \in [Subscribers -> Seq(Nat)] /\ got \in [Subscribers -> Seq(Nat)]
  /\ since \in [Subscribers -> Nat] /\ missed \in [Subscribers -> SUBSET Nat]

\* While a line is published it is still the first of its writer's buffer, and a
\* channel the walk has taken is that of a handler that did subscribe.
WalkView ==
  /\ walk # "no" => writer \in Streams /\ NewlineAt(buf[writer]) # 0
  /\ target # None => walk # "no" /\ target \in visited
  /\ walk # "no" => \A s \in visited : handler[s] # "none"

\* The walk has not given the newest line to s.
Owed(s) == walk # "no" /\ (s \notin visited \/ target = s)

\* A reader has no line twice, owes none to a walk that is over, and is in the map
\* of every walk over a line that came after it subscribed.
ReaderView(s) ==
  /\ since[s] <= Len(file)
  /\ handler[s] = "none" => Seen(s) = <<>>
  /\ \A i \in DOMAIN Seen(s) : Seen(s)[i] <= Len(file) /\ (Owed(s) => Seen(s)[i] < Len(file))
  /\ handler[s] = "open" /\ walk # "no" =>
       /\ since[s] < Len(file) => s \in start /\ walk = "live"
       /\ ~Owed(s) => Len(file) \in Range(Seen(s)) \cup missed[s]

IInv ==
  /\ TypeOK /\ WalkView /\ FileIsOutput /\ SubscribersKept /\ LiveLines
  /\ \A s \in Subscribers : ReaderView(s)
=============================================================================

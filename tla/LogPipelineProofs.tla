-------------------------- MODULE LogPipelineProofs --------------------------
(* Theorems about LogPipeline, for any streams, output, readers and channel     *)
(* capacity.  What the recursion of DataIn computes is shown by looking at the *)
(* least number for which it would not.                                       *)
EXTENDS LogPipeline, SequenceTheorems, WellFoundedInduction, TLAPS

\* A set of natural numbers has a least element.
LEMMA LeastNumber ==
  ASSUME NEW T, T \subseteq Nat, T # {}
  PROVE  \E n \in T : \A m \in T : n <= m
<1> DEFINE R == {ss \in Nat \X Nat : ss[1] < ss[2]}
<1>1. IsWellFoundedOn(R, Nat)
  BY NatLessThanWellFounded DEF OpToRel
<1>2. ASSUME NEW m \in Nat, NEW n \in Nat, m < n PROVE <<m, n>> \in R
  BY <1>2
<1> HIDE DEF R
<1>3. PICK n \in T : \A m \in T : <<m, n>> \notin R
  BY <1>1, WFMin
<1>4. ASSUME NEW m \in T PROVE n <= m
  <2>1. m \in Nat /\ n \in Nat
    OBVIOUS
  <2>2. ~(m < n)
    BY <1>2, <1>3, <2>1, Zenon
  <2>3. QED
    BY <2>1, <2>2
<1>5. QED
  BY <1>4

-----------------------------------------------------------------------------
(* The recursion of DataIn *)

\* What the recursion asks of its values up to position k of a log.
Computes(g, f, st, k) ==
  /\ g[0] = <<>>
  /\ \A n \in 1..k : g[n] = IF f[n].stream = st THEN g[n - 1] \o f[n].data ELSE g[n - 1]

\* Two logs that agree up to a position have the same values up to it.
LEMMA ComputesOnce ==
  ASSUME NEW f, NEW h, NEW st, NEW k \in Nat, NEW g1, NEW g2,
         \A n \in 1..k : f[n] = h[n],
         Computes(g1, f, st, k), Computes(g2, h, st, k)
  PROVE  g1[k] = g2[k]
<1> DEFINE T == {n \in 0..k : g1[n] # g2[n]}
<1> SUFFICES ASSUME T # {} PROVE FALSE
  OBVIOUS
<1>0. T \subseteq Nat
  OBVIOUS
<1>1. PICK n \in T : \A m \in T : n <= m
  BY <1>0, LeastNumber, Zenon
<1>2. n # 0
  BY <1>1 DEF Computes
<1>3. n - 1 \in 0..k /\ n - 1 \notin T /\ n \in 1..k
  BY <1>1, <1>2
<1>4. g1[n - 1] = g2[n - 1]
  BY <1>3
<1>5. g1[n] = g2[n]
  BY <1>3, <1>4 DEF Computes
<1>6. QED
  BY <1>1, <1>5

\* The recursion has values, which are sequences of bytes.
LEMMA ComputesSome ==
  ASSUME NEW f \in Seq(Lines), NEW st
  PROVE  \E g \in [0..Len(f) -> Seq(Byte)] : Computes(g, f, st, Len(f))
<1> DEFINE Good(k) == \E g \in [0..k -> Seq(Byte)] : Computes(g, f, st, k)
           T == {k \in 0..Len(f) : ~Good(k)}
<1>0. Len(f) \in Nat /\ \A n \in 1..Len(f) : f[n].data \in Seq(Byte)
  <2>1. \A n \in 1..Len(f) : f[n] \in Lines
    BY ElementOfSeq
  <2>2. QED
    BY <2>1, LenProperties DEF Lines
<1> SUFFICES ASSUME T # {} PROVE FALSE
  BY <1>0
<1> HIDE DEF Good
<1>a. T \subseteq Nat
  BY <1>0
<1>1. PICK k \in T : \A m \in T : k <= m
  BY <1>a, LeastNumber, Zenon
<1> USE DEF Good
<1>2. k # 0
  <2>1. [n \in 0..0 |-> <<>>] \in [0..0 -> Seq(Byte)]
    BY EmptySeq
  <2>2. Computes([n \in 0..0 |-> <<>>], f, st, 0)
    BY DEF Computes
  <2>3. Good(0)
    BY <2>1, <2>2
  <2>4. QED
    BY <1>1, <2>3
<1>3. k - 1 \in 0..Len(f) /\ k \in 1..Len(f) /\ k - 1 \notin T
  BY <1>0, <1>1, <1>2
<1>4. Good(k - 1)
  BY <1>3
<1>5. PICK g \in [0..(k - 1) -> Seq(Byte)] : Computes(g, f, st, k - 1)
  BY <1>4
<1> DEFINE last == IF f[k].stream = st THEN g[k - 1] \o f[k].data ELSE g[k - 1]
           h == [n \in 0..k |-> IF n = k THEN last ELSE g[n]]
<1>6. last \in Seq(Byte)
  <2>1. g[k - 1] \in Seq(Byte) /\ f[k].data \in Seq(Byte)
    BY <1>0, <1>3, <1>5
  <2>2. QED
    BY <2>1, ConcatProperties
<1>7. h \in [0..k -> Seq(Byte)]
  <2>1. \A n \in 0..k : n # k => n \in 0..(k - 1)
    BY <1>3
  <2>2. QED
    BY <1>5, <1>6, <2>1
<1>8. Computes(h, f, st, k)
  <2>1. h[0] = <<>> /\ h[k] = last
    BY <1>3, <1>5 DEF Computes
  <2>2. ASSUME NEW n \in 1..(k - 1)
        PROVE  h[n] = g[n] /\ h[n - 1] = g[n - 1]
    BY <1>3
  <2>3. h[k - 1] = g[k - 1]
    BY <1>3
  <2>4. ASSUME NEW n \in 1..k
        PROVE  h[n] = IF f[n].stream = st THEN h[n - 1] \o f[n].data ELSE h[n - 1]
    <3>1. CASE n = k
      BY <2>1, <2>3, <3>1
    <3>2. CASE n # k
      <4>1. n \in 1..(k - 1)
        BY <1>3, <3>2
      <4>2. g[n] = IF f[n].stream = st THEN g[n - 1] \o f[n].data ELSE g[n - 1]
        BY <1>5, <4>1 DEF Computes
      <4>3. QED
        BY <2>2, <4>1, <4>2, Zenon
    <3>3. QED
      BY <3>1, <3>2
  <2>5. QED
    BY <2>1, <2>4 DEF Computes
<1>9. Good(k)
  BY <1>7, <1>8
<1>10. QED
  BY <1>1, <1>9

\* DataIn is the last of these values.
LEMMA DataInComputed ==
  ASSUME NEW f \in Seq(Lines), NEW st
  PROVE  \E g \in [0..Len(f) -> Seq(Byte)] : Computes(g, f, st, Len(f)) /\ DataIn(f, st) = g[Len(f)]
<1> DEFINE Is(g) == g = [n \in 0..Len(f) |->
                          IF n = 0 THEN <<>>
                          ELSE IF f[n].stream = st THEN g[n - 1] \o f[n].data ELSE g[n - 1]]
           u == CHOOSE g : Is(g)
<1>0. Len(f) \in Nat
  BY LenProperties
<1>1. PICK g \in [0..Len(f) -> Seq(Byte)] : Computes(g, f, st, Len(f))
  BY ComputesSome
<1>2. Is(g)
  <2>1. ASSUME NEW n \in 0..Len(f)
        PROVE  g[n] = IF n = 0 THEN <<>>
                      ELSE IF f[n].stream = st THEN g[n - 1] \o f[n].data ELSE g[n - 1]
    <3>1. CASE n = 0
      BY <1>1, <3>1 DEF Computes
    <3>2. CASE n # 0
      <4>1. n \in 1..Len(f)
        BY <1>0, <3>2
      <4>2. QED
        BY <1>1, <3>2, <4>1 DEF Computes
    <3>3. QED
      BY <3>1, <3>2
  <2>2. QED
    BY <1>1, <2>1
<1>3. Is(u)
  BY <1>2
<1> HIDE DEF u
<1>4. Computes(u, f, st, Len(f))
  <2>1. u[0] = <<>>
    BY <1>0, <1>3
  <2>2. ASSUME NEW n \in 1..Len(f)
        PROVE  u[n] = IF f[n].stream = st THEN u[n - 1] \o f[n].data ELSE u[n - 1]
    <3>1. n \in 0..Len(f) /\ n # 0
      BY <1>0
    <3>2. QED
      BY <1>3, <3>1
  <2>3. QED
    BY <2>1, <2>2 DEF Computes
<1>5. u[Len(f)] = g[Len(f)]
  BY <1>0, <1>1, <1>4, ComputesOnce
<1>6. DataIn(f, st) = u[Len(f)]
  BY DEF DataIn, u
<1>7. QED
  BY <1>1, <1>5, <1>6

\* A log is given nothing by no line, and by each line what it holds of the stream.
LEMMA DataInEmpty ==
  ASSUME NEW st
  PROVE  DataIn(<<>>, st) = <<>>
<1>1. <<>> \in Seq(Lines) /\ Len(<<>>) = 0
  BY EmptySeq
<1>2. PICK g : Computes(g, <<>>, st, Len(<<>>)) /\ DataIn(<<>>, st) = g[Len(<<>>)]
  BY <1>1, DataInComputed
<1>3. QED
  BY <1>1, <1>2 DEF Computes

LEMMA DataInAppend ==
  ASSUME NEW f \in Seq(Lines), NEW l \in Lines, NEW st
  PROVE  DataIn(Append(f, l), st) =
           IF l.stream = st THEN DataIn(f, st) \o l.data ELSE DataIn(f, st)
<1> DEFINE h == Append(f, l)
<1>1. /\ h \in Seq(Lines) /\ Len(f) \in Nat /\ Len(h) = Len(f) + 1
      /\ h[Len(f) + 1] = l /\ \A n \in 1..Len(f) : h[n] = f[n]
  BY AppendProperties, LenProperties
<1> HIDE DEF h
<1>2. PICK g1 \in [0..Len(f) -> Seq(Byte)] : Computes(g1, f, st, Len(f)) /\ DataIn(f, st) = g1[Len(f)]
  BY DataInComputed
<1>3. PICK g2 : Computes(g2, h, st, Len(h)) /\ DataIn(h, st) = g2[Len(h)]
  BY <1>1, DataInComputed
<1>4. Computes(g2, h, st, Len(f))
  BY <1>1, <1>3 DEF Computes
<1>5. g1[Len(f)] = g2[Len(f)]
  <2>1. \A n \in 1..Len(f) : f[n] = h[n]
    BY <1>1
  <2>2. Computes(g1, f, st, Len(f))
    BY <1>2
  <2>3. Len(f) \in Nat
    BY <1>1
  <2>4. QED
    BY <1>4, <2>1, <2>2, <2>3, ComputesOnce
<1>6. g2[Len(f) + 1] = IF l.stream = st THEN g2[Len(f)] \o l.data ELSE g2[Len(f)]
  BY <1>1, <1>3 DEF Computes
<1>7. QED
  BY <1>1, <1>2, <1>3, <1>5, <1>6 DEF h

LEMMA DataTyped ==
  ASSUME NEW f \in Seq(Lines), NEW st
  PROVE  DataIn(f, st) \in Seq(Byte)
<1>1. Len(f) \in Nat
  BY LenProperties
<1>2. QED
  BY <1>1, DataInComputed

-----------------------------------------------------------------------------
(* Lines *)

\* NewlineAt finds the first newline, if there is one.
LEMMA FirstNewline ==
  ASSUME NEW b \in Seq(Byte)
  PROVE  \/ /\ NewlineAt(b) = 0
            /\ \A i \in 1..Len(b) : b[i] # "n"
         \/ /\ NewlineAt(b) \in 1..Len(b) /\ b[NewlineAt(b)] = "n"
            /\ \A i \in 1..(NewlineAt(b) - 1) : b[i] # "n"
<1>1. Len(b) \in Nat /\ DOMAIN b = 1..Len(b)
  BY LenProperties
<1>2. CASE "n" \notin Range(b)
  BY <1>1, <1>2 DEF NewlineAt, Range
<1>3. CASE "n" \in Range(b)
  <2> DEFINE T == {i \in 1..Len(b) : b[i] = "n"}
             First(i) == b[i] = "n" /\ \A k \in 1..(i - 1) : b[k] # "n"
  <2>1. T \subseteq Nat /\ T # {}
    BY <1>1, <1>3 DEF Range
  <2>2. PICK i \in T : \A m \in T : i <= m
    BY <2>1, LeastNumber, Zenon
  <2>3. i \in DOMAIN b /\ First(i)
    BY <1>1, <2>2
  <2>4. NewlineAt(b) = CHOOSE k \in DOMAIN b : First(k)
    BY <1>3 DEF NewlineAt
  <2> HIDE DEF First
  <2>5. NewlineAt(b) \in DOMAIN b /\ First(NewlineAt(b))
    BY <2>3, <2>4
  <2>6. QED
    BY <1>1, <2>5 DEF First
<1>4. QED
  BY <1>2, <1>3

\* A buffer is its first line and the rest, and the line ends with its only newline.
LEMMA LineAndRest ==
  ASSUME NEW b \in Seq(Byte), NewlineAt(b) # 0
  PROVE  LET line == SubSeq(b, 1, NewlineAt(b))
             rest == SubSeq(b, NewlineAt(b) + 1, Len(b))
         IN  /\ line \in Seq(Byte) /\ rest \in Seq(Byte)
             /\ line \o rest = b
             /\ NewlineAt(line) = Len(line)
<1> DEFINE k == NewlineAt(b)
           line == SubSeq(b, 1, k)
           rest == SubSeq(b, k + 1, Len(b))
<1>1. /\ Len(b) \in Nat /\ k \in 1..Len(b) /\ b[k] = "n"
      /\ \A i \in 1..(k - 1) : b[i] # "n"
  BY FirstNewline, LenProperties
<1>2. \A i \in 1..Len(b) : b[i] \in Byte
  BY ElementOfSeq
<1> HIDE DEF k
<1>3. line \in Seq(Byte) /\ Len(line) = k /\ \A i \in 1..k : line[i] = b[i]
  <2>1. \A i \in 1..k : b[i] \in Byte
    BY <1>1, <1>2
  <2>2. 1 \in Int /\ k \in Int /\ 1 <= k
    BY <1>1
  <2> HIDE DEF line
  <2>3. /\ SubSeq(b, 1, k) \in Seq(Byte)
        /\ Len(SubSeq(b, 1, k)) = k - 1 + 1
        /\ \A i \in 1..(k - 1 + 1) : SubSeq(b, 1, k)[i] = b[1 + i - 1]
    BY <2>1, <2>2, SubSeqProperties
  <2>4. QED
    BY <2>2, <2>3 DEF line
<1>4. rest \in Seq(Byte)
  <2>1. \A i \in (k + 1)..Len(b) : b[i] \in Byte
    BY <1>1, <1>2
  <2>2. k + 1 \in Int /\ Len(b) \in Int
    BY <1>1
  <2>3. QED
    BY <2>1, <2>2, SubSeqProperties
<1>5. line \o rest = b
  <2>1. 1 \in 1..(Len(b) + 1) /\ k \in (1 - 1)..Len(b) /\ Len(b) \in k..Len(b)
    BY <1>1
  <2>2. SubSeq(b, 1, k) \o SubSeq(b, k + 1, Len(b)) = SubSeq(b, 1, Len(b))
    BY <2>1, ConcatAdjacentSubSeq
  <2>3. QED
    BY <2>2, SubSeqFull
<1> HIDE DEF line, rest
<1>6. NewlineAt(line) = k
  BY <1>1, <1>3, FirstNewline
<1>7. QED
  BY <1>3, <1>4, <1>5, <1>6 DEF line, rest, k

LEMMA BytesAssociate ==
  ASSUME NEW a \in Seq(Byte), NEW b \in Seq(Byte), NEW c \in Seq(Byte)
  PROVE  (a \o b) \o c = a \o (b \o c)
BY ConcatAssociative

-----------------------------------------------------------------------------
(* Channels *)

\* A line that is sent is the last a reader sees; receiving changes nothing of it.
LEMMA Sending ==
  ASSUME NEW g \in Seq(Nat), NEW c \in Seq(Nat), NEW x \in Nat
  PROVE  g \o Append(c, x) = Append(g \o c, x)
<1>1. c \o <<x>> = Append(c, x) /\ g \o c \in Seq(Nat) /\ <<x>> \in Seq(Nat)
  BY AppendIsConcat, ConcatProperties
<1>2. (g \o c) \o <<x>> = Append(g \o c, x)
  BY <1>1, AppendIsConcat
<1>3. QED
  BY <1>1, <1>2, ConcatAssociative

LEMMA Receiving ==
  ASSUME NEW g \in Seq(Nat), NEW c \in Seq(Nat), c # <<>>
  PROVE  /\ Append(g, Head(c)) \in Seq(Nat) /\ Tail(c) \in Seq(Nat)
         /\ Append(g, Head(c)) \o Tail(c) = g \o c
<1>1. Head(c) \in Nat /\ Tail(c) \in Seq(Nat) /\ <<Head(c)>> \in Seq(Nat)
  BY HeadTailProperties
<1>2. Append(g, Head(c)) = g \o <<Head(c)>> /\ Append(g, Head(c)) \in Seq(Nat)
  BY <1>1, AppendIsConcat, AppendProperties
<1>3. c = <<Head(c)>> \o Tail(c)
  OBVIOUS
<1>4. QED
  BY <1>1, <1>2, <1>3, ConcatAssociative

-----------------------------------------------------------------------------
(* The inductive invariant *)

LEMMA InitInv == Init => IInv
<1> SUFFICES ASSUME Init PROVE IInv
  OBVIOUS
<1> USE DEF Init
<1>1. <<>> \in Seq(Byte) /\ <<>> \in Seq(Lines) /\ <<>> \in Seq(Nat)
      /\ Len(<<>>) = 0 /\ DOMAIN <<>> = {}
  BY EmptySeq
<1>2. TypeOK
  BY <1>1 DEF TypeOK
<1>3. WalkView
  BY DEF WalkView
<1>4. FileIsOutput
  <2>1. ASSUME NEW st \in Streams PROVE DataIn(file, st) \o Unpublished(st) = written[st]
    <3>1. DataIn(file, st) = <<>> /\ Unpublished(st) = <<>> /\ written[st] = <<>>
      BY DataInEmpty DEF Unpublished
    <3>2. QED
      BY <1>1, <3>1, ConcatEmptySeq
  <2>2. QED
    BY <1>1, <2>1 DEF FileIsOutput
<1>5. SubscribersKept
  BY DEF SubscribersKept
<1>6. ASSUME NEW s \in Subscribers PROVE Seen(s) = <<>>
  BY <1>1, ConcatEmptySeq DEF Seen
<1>7. LiveLines
  BY <1>1, <1>6 DEF LiveLines, InOrder, NoneSkipped
<1>8. ASSUME NEW s \in Subscribers PROVE ReaderView(s)
  BY <1>1, <1>6 DEF ReaderView
<1>9. QED
  BY <1>2, <1>3, <1>4, <1>5, <1>7, <1>8 DEF IInv

\* Every step keeps the types.
LEMMA StepType ==
  ASSUME TypeOK, WalkView, [Next]_vars
  PROVE  TypeOK'
<1> USE DEF TypeOK, writeVars, walkVars, subVars, readVars
<1>0. Len(file) \in Nat
  BY LenProperties
<1>1. ASSUME NEW st \in Streams, NEW chunk \in Chunks, Write(st, chunk) PROVE TypeOK'
  <2>1. written[st] \o chunk \in Seq(Byte) /\ buf[st] \o chunk \in Seq(Byte)
    BY LogConstants, ConcatProperties DEF Byte
  <2>2. QED
    BY <1>1, <2>1 DEF Write
<1>2. ASSUME NEW st \in Streams, Emit(st) PROVE TypeOK'
  <2>1. Line(st) \in Lines
    BY <1>2, LineAndRest DEF Emit, Line, Lines
  <2>2. Append(file, Line(st)) \in Seq(Lines)
    BY <2>1, AppendProperties
  <2>3. QED
    BY <1>2, <2>2 DEF Emit
<1>3. ASSUME NEW st \in Streams, EmitFails(st) PROVE TypeOK'
  BY <1>3 DEF EmitFails
<1>4. ASSUME NEW st \in Streams, WriteReturns(st) PROVE TypeOK'
  BY <1>4 DEF WriteReturns
<1>5. ASSUME NEW s \in Subscribers, PublishNext(s) PROVE TypeOK'
  BY <1>5 DEF PublishNext
<1>6. ASSUME NEW s \in Subscribers, Deliver(s) PROVE TypeOK'
  <2>1. Append(chan[s], Len(file)) \in Seq(Nat)
    BY <1>0, AppendProperties
  <2>2. /\ chan' \in {chan, [chan EXCEPT ![s] = Append(chan[s], Len(file))]}
        /\ missed' \in {missed, [missed EXCEPT ![s] = missed[s] \cup {Len(file)}]}
    BY <1>6 DEF Deliver
  <2>4. chan' \in [Subscribers -> Seq(Nat)] /\ missed' \in [Subscribers -> SUBSET Nat]
    <3>1. missed[s] \cup {Len(file)} \in SUBSET Nat
      BY <1>0
    <3>2. QED
      BY <2>1, <2>2, <3>1
  <2>3. down' \in {"no", "panic"} /\ target' = None
    BY <1>6 DEF Deliver
  <2>5. QED
    BY <1>6, <2>3, <2>4 DEF Deliver
<1>7. CASE PublishEnds
  <2>1. writer \in Streams /\ NewlineAt(buf[writer]) # 0
    BY <1>7 DEF PublishEnds, WalkView
  <2>2. SubSeq(buf[writer], NewlineAt(buf[writer]) + 1, Len(buf[writer])) \in Seq(Byte)
    BY <2>1, LineAndRest
  <2>3. QED
    BY <1>7, <2>1, <2>2 DEF PublishEnds
<1>8. CASE JobEnds
  BY <1>8 DEF JobEnds
<1>9. ASSUME NEW s \in Subscribers, Subscribe(s) PROVE TypeOK'
  BY <1>0, <1>9 DEF Subscribe, Race
<1>10. ASSUME NEW s \in Subscribers, Unsubscribe(s) PROVE TypeOK'
  BY <1>10 DEF Unsubscribe, Race
<1>11. ASSUME NEW s \in Subscribers, Receive(s) PROVE TypeOK'
  <2>1. Append(got[s], Head(chan[s])) \in Seq(Nat) /\ Tail(chan[s]) \in Seq(Nat)
    BY <1>11, Receiving DEF Receive
  <2>2. QED
    BY <1>11, <2>1 DEF Receive
<1>12. CASE UNCHANGED vars
  BY <1>12 DEF vars
<1>13. QED
  BY <1>1, <1>2, <1>3, <1>4, <1>5, <1>6, <1>7, <1>8, <1>9, <1>10, <1>11, <1>12
  DEF Next, Writing, Handling

\* Every step keeps what a walk relies on, and the map of the subscribers.
LEMMA StepWalk ==
  ASSUME TypeOK, WalkView, SubscribersKept, [Next]_vars
  PROVE  WalkView' /\ SubscribersKept'
<1> USE DEF TypeOK, WalkView, SubscribersKept, writeVars, walkVars, subVars, readVars
<1>1. ASSUME NEW st \in Streams, NEW chunk \in Chunks, Write(st, chunk) PROVE WalkView' /\ SubscribersKept'
  BY <1>1, LogConstants DEF Write
<1>2. ASSUME NEW st \in Streams, Emit(st) PROVE WalkView' /\ SubscribersKept'
  BY <1>2 DEF Emit
<1>3. ASSUME NEW st \in Streams, EmitFails(st) PROVE WalkView' /\ SubscribersKept'
  BY <1>3 DEF EmitFails
<1>4. ASSUME NEW st \in Streams, WriteReturns(st) PROVE WalkView' /\ SubscribersKept'
  BY <1>4 DEF WriteReturns
<1>5. ASSUME NEW s \in Subscribers, PublishNext(s) PROVE WalkView' /\ SubscribersKept'
  <2>1. /\ target' = s /\ visited' = visited \cup {s} /\ s \in subs /\ walk # "no"
        /\ UNCHANGED <<walk, writer, buf, handler, subs, entry>>
    BY <1>5 DEF PublishNext, InWalk
  <2>2. QED
    BY <2>1
<1>6. ASSUME NEW s \in Subscribers, Deliver(s) PROVE WalkView' /\ SubscribersKept'
  BY <1>6 DEF Deliver
<1>7. CASE PublishEnds
  BY <1>7 DEF PublishEnds
<1>8. CASE JobEnds
  BY <1>8 DEF JobEnds
<1>9. ASSUME NEW s \in Subscribers, Subscribe(s) PROVE WalkView' /\ SubscribersKept'
  BY <1>9 DEF Subscribe
<1>10. ASSUME NEW s \in Subscribers, Unsubscribe(s) PROVE WalkView' /\ SubscribersKept'
  BY <1>10 DEF Unsubscribe
<1>11. ASSUME NEW s \in Subscribers, Receive(s) PROVE WalkView' /\ SubscribersKept'
  BY <1>11 DEF Receive
<1>12. CASE UNCHANGED vars
  BY <1>12 DEF vars
<1>13. QED
  BY <1>1, <1>2, <1>3, <1>4, <1>5, <1>6, <1>7, <1>8, <1>9, <1>10, <1>11, <1>12
  DEF Next, Writing, Handling

\* Every step keeps the file and the buffers together what was printed: bytes come to
\* both ends at once, and a line goes from the buffer to the file.
LEMMA StepFile ==
  ASSUME TypeOK, WalkView, FileIsOutput, [Next]_vars
  PROVE  FileIsOutput'
<1> USE DEF TypeOK, WalkView, writeVars, walkVars, subVars, readVars
<1>1. ASSUME NEW st \in Streams, NEW chunk \in Chunks, Write(st, chunk) PROVE FileIsOutput'
  <2>1. walk = "no" /\ walk' = "no" /\ file' = file
    BY <1>1, LogConstants DEF Write
  <2>2. chunk \in Seq(Byte)
    BY LogConstants DEF Byte
  <2>3. ASSUME NEW s \in Streams PROVE DataIn(file, s) \o buf'[s] = written'[s]
    <3>1. DataIn(file, s) \o buf[s] = written[s] /\ DataIn(file, s) \in Seq(Byte)
      BY <2>1, DataTyped DEF FileIsOutput, Unpublished
    <3>2. CASE s # st
      BY <1>1, <3>1, <3>2 DEF Write
    <3>3. CASE s = st
      <4>1. buf'[s] = buf[s] \o chunk /\ written'[s] = written[s] \o chunk
        BY <1>1, <3>3 DEF Write
      <4>2. buf[s] \in Seq(Byte)
        OBVIOUS
      <4>3. (DataIn(file, s) \o buf[s]) \o chunk = DataIn(file, s) \o (buf[s] \o chunk)
        BY ONLY <2>2, <3>1, <4>2, BytesAssociate
      <4>4. QED
        BY <3>1, <4>1, <4>3
    <3>4. QED
      BY <3>2, <3>3
  <2>4. QED
    BY <2>1, <2>3 DEF FileIsOutput, Unpublished
<1>2. ASSUME NEW st \in Streams, Emit(st) PROVE FileIsOutput'
  <2> DEFINE line == SubSeq(buf[st], 1, NewlineAt(buf[st]))
             rest == SubSeq(buf[st], NewlineAt(buf[st]) + 1, Len(buf[st]))
  <2>1. /\ line \in Seq(Byte) /\ rest \in Seq(Byte)
        /\ line \o rest = buf[st] /\ NewlineAt(line) = Len(line)
    BY <1>2, LineAndRest DEF Emit
  <2>2. /\ writer = st /\ walk = "no" /\ walk' # "no"
        /\ file' = Append(file, Line(st)) /\ UNCHANGED <<written, buf, writer>>
    BY <1>2 DEF Emit
  <2>3. Line(st) \in Lines /\ Line(st).stream = st /\ Line(st).data = line
    BY <2>1 DEF Line, Lines
  <2> HIDE DEF line, rest
  <2>4. ASSUME NEW s \in Streams PROVE DataIn(file', s) \o Unpublished(s)' = written'[s]
    <3>1. DataIn(file, s) \o buf[s] = written[s] /\ DataIn(file, s) \in Seq(Byte)
      BY <2>2, DataTyped DEF FileIsOutput, Unpublished
    <3>2. DataIn(file', s) = IF s = st THEN DataIn(file, s) \o line ELSE DataIn(file, s)
      BY <2>2, <2>3, DataInAppend
    <3>3. Unpublished(s)' = IF s = st THEN rest ELSE buf[s]
      BY <2>2 DEF Unpublished, rest
    <3>4. CASE s = st
      <4>1. (DataIn(file, s) \o line) \o rest = DataIn(file, s) \o (line \o rest)
        BY ONLY <2>1, <3>1, BytesAssociate
      <4>2. line \o rest = buf[s] /\ written'[s] = written[s]
        BY <2>1, <2>2, <3>4
      <4>3. QED
        BY <3>1, <3>2, <3>3, <3>4, <4>1, <4>2
    <3>5. CASE s # st
      BY <2>2, <3>1, <3>2, <3>3, <3>5
    <3>6. QED
      BY <3>4, <3>5
  <2>5. \A i \in DOMAIN file' : NewlineAt(file'[i].data) = Len(file'[i].data)
    <3>1. /\ DOMAIN file' = 1..(Len(file) + 1) /\ Len(file) \in Nat /\ DOMAIN file = 1..Len(file)
          /\ file'[Len(file) + 1] = Line(st) /\ \A i \in 1..Len(file) : file'[i] = file[i]
      BY <2>2, <2>3, AppendProperties, LenProperties
    <3>2. ASSUME NEW i \in DOMAIN file' PROVE NewlineAt(file'[i].data) = Len(file'[i].data)
      <4>1. CASE i = Len(file) + 1
        BY <2>1, <2>3, <3>1, <4>1
      <4>2. CASE i # Len(file) + 1
        <5>1. i \in DOMAIN file /\ file'[i] = file[i]
          BY <3>1, <4>2
        <5>2. QED
          BY <5>1 DEF FileIsOutput
      <4>3. QED
        BY <4>1, <4>2
    <3>3. QED
      BY <3>2
  <2>6. QED
    BY <2>4, <2>5 DEF FileIsOutput
<1>3. ASSUME UNCHANGED <<written, buf, writer, file, walk>> PROVE FileIsOutput'
  BY <1>3 DEF FileIsOutput, Unpublished
<1>4. ASSUME UNCHANGED <<written, buf, file>>, walk = "no", walk' = "no" PROVE FileIsOutput'
  BY <1>4 DEF FileIsOutput, Unpublished
<1>5. CASE PublishEnds
  <2>1. walk # "no" /\ walk' = "no" /\ writer \in Streams /\ UNCHANGED <<written, file, writer>>
    BY <1>5 DEF PublishEnds
  <2>2. ASSUME NEW s \in Streams PROVE buf'[s] = Unpublished(s)
    BY <1>5, <2>1 DEF PublishEnds, Unpublished
  <2>3. QED
    BY <2>1, <2>2 DEF FileIsOutput, Unpublished
<1>6. ASSUME UNCHANGED <<written, buf, writer, file>>,
             walk = "live" /\ walk' = "stale"
      PROVE  FileIsOutput'
  BY <1>6 DEF FileIsOutput, Unpublished
<1>7. ASSUME NEW s \in Subscribers, Unsubscribe(s) PROVE FileIsOutput'
  BY <1>3, <1>6, <1>7 DEF Unsubscribe
<1>8. ASSUME NEW st \in Streams, EmitFails(st) \/ WriteReturns(st) PROVE FileIsOutput'
  BY <1>4, <1>8 DEF EmitFails, WriteReturns
<1>9. ASSUME NEW s \in Subscribers, PublishNext(s) \/ Deliver(s) \/ Subscribe(s) \/ Receive(s)
      PROVE  FileIsOutput'
  BY <1>3, <1>9 DEF PublishNext, Deliver, Subscribe, Receive
<1>10. CASE JobEnds \/ UNCHANGED vars
  BY <1>3, <1>10 DEF JobEnds, vars
<1>11. QED
  BY <1>1, <1>2, <1>5, <1>7, <1>8, <1>9, <1>10 DEF Next, Writing, Handling

\* Every step keeps what a reader has seen and what a walk owes it.
LEMMA StepReader ==
  ASSUME TypeOK, WalkView, SubscribersKept, [Next]_vars,
         NEW s \in Subscribers, ReaderView(s), InOrder(s), NoneSkipped(s)
  PROVE  ReaderView(s)' /\ InOrder(s)' /\ NoneSkipped(s)'
<1> DEFINE Goal == ReaderView(s)' /\ InOrder(s)' /\ NoneSkipped(s)'
<1> USE DEF writeVars, walkVars, subVars, readVars
<1>0. /\ Len(file) \in Nat /\ since[s] \in Nat /\ missed[s] \subseteq Nat
      /\ chan[s] \in Seq(Nat) /\ got[s] \in Seq(Nat) /\ Seen(s) \in Seq(Nat)
      /\ Len(Seen(s)) \in Nat /\ DOMAIN Seen(s) = 1..Len(Seen(s))
      /\ \A i \in DOMAIN Seen(s) : Seen(s)[i] \in Nat
  <2>1. chan[s] \in Seq(Nat) /\ got[s] \in Seq(Nat) /\ since[s] \in Nat /\ missed[s] \subseteq Nat
    BY DEF TypeOK
  <2>2. Seen(s) \in Seq(Nat)
    BY <2>1, ConcatProperties DEF Seen
  <2>3. Len(file) \in Nat
    BY LenProperties DEF TypeOK
  <2>4. QED
    BY <2>1, <2>2, <2>3, LenProperties, ElementOfSeq
\* Nothing that concerns the reader changes.
<1>1. ASSUME UNCHANGED <<file, walk, start, visited, target, handler[s], since[s], missed[s], Seen(s)>>
      PROVE  Goal
  BY <1>1 DEF ReaderView, InOrder, NoneSkipped, Owed, Published
<1>2. ASSUME NEW st \in Streams, NEW chunk \in Chunks, Write(st, chunk) PROVE Goal
  BY <1>1, <1>2 DEF Write, Seen
<1>3. ASSUME NEW st \in Streams, Emit(st) PROVE Goal
  <2>1. /\ walk = "no" /\ walk' # "no" /\ Len(file') = Len(file) + 1 /\ visited' = {} /\ start' = subs
        /\ walk' = IF entry THEN "live" ELSE "stale"
        /\ UNCHANGED <<handler, since, missed, chan, got>>
    <3>1. Line(st) \in Lines
      BY <1>3, LineAndRest DEF TypeOK, Emit, Line, Lines
    <3>2. Len(Append(file, Line(st))) = Len(file) + 1
      BY <3>1, AppendProperties DEF TypeOK
    <3>3. QED
      BY <1>3, <3>2 DEF Emit
  <2>2. Seen(s)' = Seen(s) /\ Owed(s)' /\ ~Owed(s)
    BY <2>1 DEF Seen, Owed
  <2>3. InOrder(s)'
    BY <2>2 DEF InOrder
  <2>4. Published' = Published
    BY <1>0, <2>1 DEF Published
  <2>5. NoneSkipped(s)'
    BY <2>1, <2>2, <2>4 DEF NoneSkipped
  <2>6. handler[s] = "open" => s \in start' /\ walk' = "live"
    BY <2>1 DEF SubscribersKept
  <2>7. ReaderView(s)'
    BY <1>0, <2>1, <2>2, <2>6 DEF ReaderView
  <2>8. QED
    BY <2>3, <2>5, <2>7
<1>4. ASSUME NEW st \in Streams, EmitFails(st) PROVE Goal
  BY <1>1, <1>4 DEF EmitFails, Seen
<1>5. ASSUME NEW st \in Streams, WriteReturns(st) PROVE Goal
  BY <1>1, <1>5 DEF WriteReturns, Seen
<1>6. ASSUME NEW r \in Subscribers, PublishNext(r) PROVE Goal
  <2>1. /\ walk # "no" /\ target = None /\ target' = r /\ visited' = visited \cup {r} /\ r \notin visited
        /\ UNCHANGED <<file, walk, start, handler, since, missed, chan, got>>
    BY <1>6 DEF PublishNext
  <2>2. Seen(s)' = Seen(s) /\ (Owed(s)' <=> Owed(s)) /\ Published' = Published
    BY <2>1, LogConstants DEF Seen, Owed, Published
  <2>3. QED
    BY <2>1, <2>2 DEF ReaderView, InOrder, NoneSkipped
<1>7. ASSUME NEW r \in Subscribers, Deliver(r) PROVE Goal
  <2>1. /\ walk # "no" /\ target = r /\ target' = None /\ r # None
        /\ UNCHANGED <<file, walk, start, visited, handler, since, got>>
    BY <1>7, LogConstants DEF Deliver, WalkView
  <2>2. Published' = Published
    BY <2>1 DEF Published
  <2>3. CASE s # r
    <3>1. chan'[s] = chan[s] /\ missed'[s] = missed[s] /\ (Owed(s)' <=> Owed(s))
      BY <1>7, <2>1, <2>3, LogConstants DEF Deliver, TypeOK, Owed
    <3>2. Seen(s)' = Seen(s)
      BY <2>1, <3>1 DEF Seen
    <3>3. QED
      BY <2>1, <2>2, <3>1, <3>2 DEF ReaderView, InOrder, NoneSkipped
  <2>4. CASE s = r /\ handler[s] = "closed"
    <3>1. UNCHANGED <<chan, missed>>
      BY <1>7, <2>4 DEF Deliver
    <3>2. Seen(s)' = Seen(s) /\ Owed(s)
      BY <2>1, <2>4, <3>1 DEF Seen, Owed
    <3>3. QED
      BY <2>1, <2>2, <2>4, <3>1, <3>2 DEF ReaderView, InOrder, NoneSkipped
  <2>5. CASE s = r /\ handler[s] # "closed" /\ Len(chan[s]) < Capacity
    <3>1. chan'[s] = Append(chan[s], Len(file)) /\ UNCHANGED missed
      BY <1>7, <2>5 DEF Deliver, TypeOK
    <3>2. Seen(s)' = Append(Seen(s), Len(file)) /\ Owed(s)
      <4>1. got[s] \o Append(chan[s], Len(file)) = Append(got[s] \o chan[s], Len(file))
        BY <1>0, Sending
      <4>2. Seen(s)' = got[s] \o Append(chan[s], Len(file))
        BY <2>1, <3>1 DEF Seen
      <4>3. Owed(s)
        BY <2>1, <2>5 DEF Owed
      <4>4. QED
        BY <4>1, <4>2, <4>3 DEF Seen
    <3>3. /\ Len(Seen(s)') = Len(Seen(s)) + 1 /\ Seen(s)'[Len(Seen(s)) + 1] = Len(file)
          /\ \A i \in 1..Len(Seen(s)) : Seen(s)'[i] = Seen(s)[i]
          /\ DOMAIN Seen(s)' = 1..(Len(Seen(s)) + 1)
      BY <1>0, <3>2, AppendProperties, LenProperties
    <3>4. \A i \in 1..Len(Seen(s)) : Seen(s)[i] < Len(file)
      BY <1>0, <3>2 DEF ReaderView
    <3>5. InOrder(s)'
      <4>1. ASSUME NEW i \in 1..(Len(Seen(s)) + 1), NEW k \in 1..(Len(Seen(s)) + 1), i < k
            PROVE  Seen(s)'[i] < Seen(s)'[k]
        <5>1. i \in 1..Len(Seen(s)) /\ Seen(s)'[i] = Seen(s)[i]
          BY <1>0, <3>3, <4>1
        <5>2. CASE k = Len(Seen(s)) + 1
          BY <3>3, <3>4, <5>1, <5>2
        <5>3. CASE k # Len(Seen(s)) + 1
          <6>1. k \in 1..Len(Seen(s)) /\ Seen(s)'[k] = Seen(s)[k]
            BY <1>0, <3>3, <5>3
          <6>2. QED
            BY <1>0, <4>1, <5>1, <6>1 DEF InOrder
        <5>4. QED
          BY <5>2, <5>3
      <4>2. QED
        BY <3>3, <4>1 DEF InOrder
    <3>6. Range(Seen(s)') = Range(Seen(s)) \cup {Len(file)}
      <4>1. \A i \in 1..(Len(Seen(s)) + 1) : i \in 1..Len(Seen(s)) \/ i = Len(Seen(s)) + 1
        BY <1>0
      <4>2. Len(Seen(s)) + 1 \in DOMAIN Seen(s)' /\ DOMAIN Seen(s) \subseteq DOMAIN Seen(s)'
        BY <1>0, <3>3
      <4>3. QED
        BY <1>0, <3>3, <4>1, <4>2 DEF Range
    <3>7. NoneSkipped(s)'
      BY <2>1, <2>2, <3>1, <3>6 DEF NoneSkipped
    <3>8. \A i \in DOMAIN Seen(s)' : Seen(s)'[i] <= Len(file)
      BY <1>0, <3>3, <3>4
    <3>9. ~Owed(s)' /\ handler[s] # "none"
      BY <2>1, <2>5 DEF Owed, WalkView
    <3>10. ReaderView(s)'
      BY <2>1, <3>1, <3>6, <3>8, <3>9 DEF ReaderView
    <3>11. QED
      BY <3>5, <3>7, <3>10
  <2>6. CASE s = r /\ handler[s] # "closed" /\ ~(Len(chan[s]) < Capacity)
    <3>1. UNCHANGED chan /\ missed'[s] = missed[s] \cup {Len(file)}
      BY <1>7, <2>6 DEF Deliver, TypeOK
    <3>2. Seen(s)' = Seen(s) /\ Owed(s)
      BY <2>1, <2>6, <3>1 DEF Seen, Owed
    <3>3. QED
      BY <2>1, <2>2, <3>1, <3>2 DEF ReaderView, InOrder, NoneSkipped
  <2>7. QED
    BY <2>3, <2>4, <2>5, <2>6
<1>8. CASE PublishEnds
  <2>1. /\ walk # "no" /\ walk' = "no" /\ target = None /\ start \cap InWalk \subseteq visited
        /\ UNCHANGED <<file, start, visited, target, handler, since, missed, chan, got>>
    BY <1>8 DEF PublishEnds
  <2>2. Seen(s)' = Seen(s) /\ ~Owed(s)'
    BY <2>1 DEF Seen, Owed
  <2>3. InOrder(s)'
    BY <2>2 DEF InOrder
  <2>4. ReaderView(s)'
    BY <2>1, <2>2 DEF ReaderView
  <2>5. ASSUME handler[s] = "open", NEW l \in (since[s] + 1)..Len(file)
        PROVE  l \in Range(Seen(s)) \cup missed[s]
    <3>1. CASE l # Len(file)
      <4>1. l \in (since[s] + 1)..Published
        BY <1>0, <2>1, <2>5, <3>1 DEF Published
      <4>2. QED
        BY <2>5, <4>1 DEF NoneSkipped
    <3>2. CASE l = Len(file)
      <4>1. s \in start /\ walk = "live" /\ s \in subs
        BY <1>0, <2>1, <2>5, <3>2 DEF ReaderView, SubscribersKept
      <4>2. s \in visited
        BY <2>1, <4>1 DEF InWalk
      <4>3. ~Owed(s)
        BY <2>1, <4>2, LogConstants DEF Owed
      <4>4. QED
        BY <2>1, <2>5, <3>2, <4>3 DEF ReaderView
    <3>3. QED
      BY <3>1, <3>2
  <2>6. Published' = Len(file)
    BY <1>0, <2>1 DEF Published
  <2>7. NoneSkipped(s)'
    BY <2>1, <2>2, <2>5, <2>6 DEF NoneSkipped
  <2>8. QED
    BY <2>3, <2>4, <2>7
<1>9. CASE JobEnds
  BY <1>1, <1>9 DEF JobEnds, Seen
<1>10. ASSUME NEW r \in Subscribers, Subscribe(r) PROVE Goal
  <2>1. CASE s # r
    BY <1>1, <1>10, <2>1 DEF Subscribe, TypeOK, Seen
  <2>2. CASE s = r
    <3>1. /\ handler[s] = "none" /\ handler'[s] = "open" /\ since'[s] = Len(file)
          /\ UNCHANGED <<file, walk, start, visited, target, missed, chan, got>>
      BY <1>10, <2>2 DEF Subscribe, TypeOK
    <3>2. Seen(s)' = Seen(s) /\ Seen(s) = <<>> /\ Published' = Published
      BY <3>1 DEF Seen, Published, ReaderView
    <3>3. Published <= Len(file) /\ Published \in Int
      BY <1>0 DEF Published
    <3>4. NoneSkipped(s)' /\ InOrder(s)'
      BY <1>0, <3>1, <3>2, <3>3 DEF NoneSkipped, InOrder
    <3>5. walk' # "no" => Owed(s)'
      BY <3>1 DEF Owed, WalkView
    <3>6. ReaderView(s)'
      BY <1>0, <3>1, <3>2, <3>5 DEF ReaderView
    <3>7. QED
      BY <3>4, <3>6
  <2>3. QED
    BY <2>1, <2>2
<1>11. ASSUME NEW r \in Subscribers, Unsubscribe(r) PROVE Goal
  <2>1. /\ subs' = subs \ {r} /\ handler' = [handler EXCEPT ![r] = "closed"]
        /\ walk' = (IF walk = "live" /\ subs' = {} THEN "stale" ELSE walk)
        /\ UNCHANGED <<file, start, visited, target, since, missed, chan, got>>
    BY <1>11 DEF Unsubscribe
  <2>2. Seen(s)' = Seen(s) /\ (Owed(s)' <=> Owed(s)) /\ Published' = Published /\ (walk' = "no" <=> walk = "no")
    BY <2>1 DEF Seen, Owed, Published
  <2>3. handler'[s] = "open" => s # r /\ handler[s] = "open" /\ s \in subs /\ walk' = walk
    BY <2>1 DEF TypeOK, SubscribersKept
  <2>4. handler'[s] # "none"  \/ handler[s] = "none"
    BY <2>1 DEF TypeOK
  <2>5. QED
    BY <2>1, <2>2, <2>3, <2>4 DEF ReaderView, InOrder, NoneSkipped
<1>12. ASSUME NEW r \in Subscribers, Receive(r) PROVE Goal
  <2>1. UNCHANGED <<file, walk, start, visited, target, handler, since, missed>>
    BY <1>12 DEF Receive
  <2>2. Seen(s)' = Seen(s)
    <3>1. CASE s # r
      BY <1>12, <3>1 DEF Receive, TypeOK, Seen
    <3>2. CASE s = r
      <4>1. got'[s] = Append(got[s], Head(chan[s])) /\ chan'[s] = Tail(chan[s]) /\ chan[s] # <<>>
        BY <1>12, <3>2 DEF Receive, TypeOK
      <4>2. QED
        BY <1>0, <4>1, Receiving DEF Seen
    <3>3. QED
      BY <3>1, <3>2
  <2>3. QED
    BY <1>1, <2>1, <2>2
<1>13. CASE UNCHANGED vars
  BY <1>1, <1>13 DEF vars, Seen
<1>14. QED
  BY <1>2, <1>3, <1>4, <1>5, <1>6, <1>7, <1>8, <1>9, <1>10, <1>11, <1>12, <1>13
  DEF Next, Writing, Handling
-----------------------------------------------------------------------------
THEOREM Invariance == Spec => []IInv
<1>1. ASSUME IInv, [Next]_vars PROVE IInv'
  <2>1. TypeOK' /\ WalkView' /\ SubscribersKept' /\ FileIsOutput'
    BY <1>1, StepType, StepWalk, StepFile DEF IInv
  <2>2. ASSUME NEW s \in Subscribers PROVE ReaderView(s)' /\ InOrder(s)' /\ NoneSkipped(s)'
    BY <1>1, StepReader DEF IInv, LiveLines
  <2>3. QED
    BY <2>1, <2>2 DEF IInv, LiveLines
<1>2. QED
  BY InitInv, <1>1, PTL DEF Spec

\* LineWriter.Write, emit (logs.go, file.go): whatever the chunks the container's output
\* comes in, the file and the buffers hold it byte for byte and in order, and a line
\* of the file is what stood between two newlines.
THEOREM FileIsTheOutput == Spec => []FileIsOutput
<1>1. IInv => FileIsOutput
  BY DEF IInv
<1>2. QED
  BY Invariance, <1>1, PTL

\* Broadcaster.Publish (logs.go): a live reader gets the lines in order and none
\* twice, and misses of those published since it subscribed only the ones that found
\* its channel full.
THEOREM ReadersMissOnlyOverflow == Spec => []LiveLines
<1>1. IInv => LiveLines
  BY DEF IInv
<1>2. QED
  BY Invariance, <1>1, PTL

\* Subscribe and the function it returns: the map is exactly the open handlers, however
\* they come and go.
THEOREM SubscribersStay == Spec => []SubscribersKept
<1>1. IInv => SubscribersKept
  BY DEF IInv
<1>2. QED
  BY Invariance, <1>1, PTL
=============================================================================

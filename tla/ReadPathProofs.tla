----------------------------- MODULE ReadPathProofs -----------------------------
(***************************************************************************)
(* Machine-checked proofs about ReadPath, for any number of connections    *)
(* and frames and any capacity of the read channel.                        *)
(***************************************************************************)
EXTENDS ReadPath, SequenceTheorems, TLAPS

-----------------------------------------------------------------------------
(* The invariant *)

\* A readLoop has a frame in hand exactly while it pushes, a
\* processReadChannel handles only events and only while it runs, and it
\* returns only once its connection is closed.
ReadInv ==
  \A c \in Conns :
    /\ hand[c] # << >> <=> reader[c] = "push"
    /\ handling[c] # << >> => proc[c] = "run" /\ handling[c][1].kind = "event"
    /\ proc[c] = "done" => conn[c] = "cancelled"
    /\ conn[c] = "unused" => proc[c] = "none" /\ reader[c] = "none"

\* A goroutine has one frame or none.
LEMMA OneFrame ==
  /\ << >> \in AtMostOne
  /\ \A f \in Frames : <<f>> \in AtMostOne
  /\ \A s \in AtMostOne :
       /\ s \in Seq(Frames) /\ Len(s) \in {0, 1}
       /\ s # << >> => /\ Len(s) = 1
                       /\ s[1] \in Frames /\ Head(s) = s[1] /\ s = <<s[1]>>
  <1>1. << >> \in AtMostOne /\ \A f \in Frames : <<f>> \in AtMostOne
    BY DEF AtMostOne
  <1>2. ASSUME NEW s \in AtMostOne
        PROVE  /\ s \in Seq(Frames) /\ Len(s) \in {0, 1}
               /\ s # << >> => /\ Len(s) = 1
                               /\ s[1] \in Frames /\ Head(s) = s[1] /\ s = <<s[1]>>
    <2>1. CASE s = << >>
      BY <2>1, EmptySeq
    <2>2. ASSUME NEW f \in Frames, s = <<f>>
          PROVE  /\ s \in Seq(Frames) /\ Len(s) = 1 /\ s # << >>
                 /\ s[1] \in Frames /\ Head(s) = s[1] /\ s = <<s[1]>>
      BY <2>2
    <2> QED
      BY <2>1, <2>2 DEF AtMostOne
  <1> QED
    BY <1>1, <1>2

\* Nothing has been dialled yet.
LEMMA InitRead == Init => TypeOK /\ ReadInv
  <1> SUFFICES ASSUME Init PROVE TypeOK /\ ReadInv
    OBVIOUS
  <1>1. << >> \in Seq(Frames) /\ Len(<< >>) = 0 /\ 0 <= Capacity /\ 0 \in 0..MaxFrames
    BY ReadPathAssumption, EmptySeq DEF ReadPathAssumption
  <1>2. TypeOK
    BY <1>1, OneFrame DEF Init, TypeOK
  <1>3. ReadInv
    BY DEF Init, ReadInv
  <1> QED
    BY <1>2, <1>3

\* What a push makes of the read channel.
LEMMA PushFits ==
  ASSUME TypeOK, ReadInv, NEW c \in Conns, Push(c)
  PROVE  /\ readChan[c] \o hand[c] \in Seq(Frames)
         /\ Len(readChan[c] \o hand[c]) <= Capacity
  <1>1. /\ hand[c] \in AtMostOne /\ readChan[c] \in Seq(Frames)
        /\ Len(readChan[c]) < Capacity /\ Capacity \in Nat
    BY ReadPathAssumption DEF ReadPathAssumption, TypeOK, Push, PushTo, HasRoom
  <1>2. hand[c] \in Seq(Frames) /\ Len(hand[c]) \in {0, 1}
    BY <1>1, OneFrame
  <1>3. /\ readChan[c] \o hand[c] \in Seq(Frames)
        /\ Len(readChan[c] \o hand[c]) = Len(readChan[c]) + Len(hand[c])
        /\ Len(readChan[c]) \in Nat
    BY <1>1, <1>2, ConcatProperties, LenProperties
  <1>4. CASE Len(hand[c]) = 0
    BY <1>1, <1>3, <1>4
  <1>5. CASE Len(hand[c]) = 1
    BY <1>1, <1>3, <1>5
  <1> QED
    BY <1>2, <1>4, <1>5

\* What processReadChannel takes from the read channel.
LEMMA TakesTheHead ==
  ASSUME TypeOK, NEW c \in Conns, HasNext(c)
  PROVE  /\ Head(readChan[c]) \in Frames /\ Tail(readChan[c]) \in Seq(Frames)
         /\ Len(Tail(readChan[c])) <= Capacity
  <1>1. readChan[c] \in Seq(Frames) /\ readChan[c] # << >> /\ Len(readChan[c]) <= Capacity
    BY DEF TypeOK, HasNext
  <1>2. /\ Head(readChan[c]) \in Frames /\ Tail(readChan[c]) \in Seq(Frames)
        /\ Len(Tail(readChan[c])) = Len(readChan[c]) - 1 /\ Len(readChan[c]) \in Nat
    BY <1>1, HeadTailProperties, LenProperties
  <1> QED
    BY <1>1, <1>2, ReadPathAssumption DEF ReadPathAssumption

\* Every step keeps the types.
LEMMA NextType == TypeOK /\ ReadInv /\ [Next]_vars => TypeOK'
  <1> SUFFICES ASSUME TypeOK, ReadInv, [Next]_vars PROVE TypeOK'
    OBVIOUS
  <1> USE ReadPathAssumption, OneFrame DEF ReadPathAssumption, TypeOK
  <1>0. CloseCurrent => /\ current' \in Conns \cup {None}
                        /\ conn' \in [Conns -> {"unused", "live", "cancelled"}]
    BY DEF CloseCurrent
  <1>1. ASSUME NEW c \in Conns, Dial(c) PROVE TypeOK'
    BY <1>1 DEF Dial
  <1>2. CASE CloseConnection
    BY <1>0, <1>2 DEF CloseConnection, reading, processing
  <1>3. ASSUME NEW c \in Conns, NEW k \in Kinds, Receive(c, k) PROVE TypeOK'
    <2>1. arrived + 1 \in 1..MaxFrames /\ arrived' \in 0..MaxFrames
      BY <1>3 DEF Receive
    <2>2. Frame(c, arrived + 1, k) \in Frames
      BY <2>1 DEF Frames
    <2>3. /\ reader' \in [Conns -> {"none", "read", "push", "done"}]
          /\ hand' \in [Conns -> AtMostOne]
      BY <1>3, <2>2 DEF Receive, LoopHead
    <2> QED
      BY <1>3, <2>1, <2>3 DEF Receive, table, processing
  <1>4. ASSUME NEW c \in Conns, ReadFails(c) PROVE TypeOK'
    BY <1>0, <1>4 DEF ReadFails, table, processing
  <1>5. ASSUME NEW c \in Conns, Push(c) PROVE TypeOK'
    <2>1. /\ readChan' \in [Conns -> Seq(Frames)]
          /\ \A d \in Conns : Len(readChan'[d]) <= Capacity
      BY <1>5, PushFits DEF Push, PushTo
    <2>2. /\ reader' \in [Conns -> {"none", "read", "push", "done"}]
          /\ hand' \in [Conns -> AtMostOne]
      BY <1>5 DEF Push, PushTo, LoopHead
    <2> QED
      BY <1>5, <2>1, <2>2 DEF Push, PushTo, table, processing
  <1>6. ASSUME NEW c \in Conns, Drop(c) PROVE TypeOK'
    BY <1>6 DEF Drop, LoopHead, table, processing
  <1>7. ASSUME NEW c \in Conns, Take(c) PROVE TypeOK'
    <2>1. /\ readChan' \in [Conns -> Seq(Frames)]
          /\ \A d \in Conns : Len(readChan'[d]) <= Capacity
      BY <1>7, TakesTheHead DEF Take
    <2>2. handling' \in [Conns -> AtMostOne]
      BY <1>7, TakesTheHead DEF Take
    <2> QED
      BY <1>7, <2>1, <2>2 DEF Take, table, reading
  <1>8. ASSUME NEW c \in Conns, Publish(c) PROVE TypeOK'
    <2>1. published \o handling[c] \in Seq(Frames)
      BY ConcatProperties
    <2> QED
      BY <1>8, <2>1 DEF Publish, table, reading
  <1>9. ASSUME NEW c \in Conns, Return(c) PROVE TypeOK'
    BY <1>9 DEF Return, ReturnIf, table, reading
  <1>10. ASSUME NEW c \in Conns, DropPanics(c) \/ TakePanics(c) PROVE TypeOK'
    BY <1>10 DEF DropPanics, TakePanics, table, reading, processing
  <1>11. CASE UNCHANGED vars
    BY <1>11 DEF vars, table, reading, processing
  <1> QED
    BY <1>1, <1>2, <1>3, <1>4, <1>5, <1>6, <1>7, <1>8, <1>9, <1>10, <1>11 DEF Next, Step

\* Every step keeps the readLoops and the processors apart.
LEMMA NextRead == TypeOK /\ ReadInv /\ [Next]_vars => ReadInv'
  <1> SUFFICES ASSUME TypeOK, ReadInv, [Next]_vars PROVE ReadInv'
    OBVIOUS
  <1>0. /\ conn \in [Conns -> {"unused", "live", "cancelled"}]
        /\ reader \in [Conns -> {"none", "read", "push", "done"}]
        /\ proc \in [Conns -> {"none", "run", "done"}]
        /\ hand \in [Conns -> AtMostOne] /\ handling \in [Conns -> AtMostOne]
    BY DEF TypeOK
  <1> USE DEF ReadInv
  <1>1. ASSUME NEW c \in Conns, Dial(c) PROVE ReadInv'
    BY <1>0, <1>1 DEF Dial
  <1>2. CASE CloseConnection
    BY <1>0, <1>2 DEF CloseConnection, CloseCurrent, reading, processing
  <1>3. ASSUME NEW c \in Conns, NEW k \in Kinds, Receive(c, k) PROVE ReadInv'
    BY <1>0, <1>3 DEF Receive, LoopHead, table, processing
  <1>4. ASSUME NEW c \in Conns, ReadFails(c) PROVE ReadInv'
    BY <1>0, <1>4 DEF ReadFails, CloseCurrent, table, processing
  <1>5. ASSUME NEW c \in Conns, Push(c) \/ Drop(c) PROVE ReadInv'
    BY <1>0, <1>5 DEF Push, PushTo, Drop, LoopHead, table, processing
  <1>6. ASSUME NEW c \in Conns, Take(c) PROVE ReadInv'
    BY <1>0, <1>6 DEF Take, HasNext, table, reading
  <1>7. ASSUME NEW c \in Conns, Publish(c) PROVE ReadInv'
    BY <1>0, <1>7 DEF Publish, table, reading
  <1>8. ASSUME NEW c \in Conns, Return(c) PROVE ReadInv'
    BY <1>0, <1>8 DEF Return, ReturnIf, table, reading
  <1>9. ASSUME NEW c \in Conns, DropPanics(c) \/ TakePanics(c) PROVE ReadInv'
    BY <1>9 DEF DropPanics, TakePanics, table, reading, processing
  <1>10. CASE UNCHANGED vars
    BY <1>10 DEF vars, table, reading, processing
  <1> QED
    BY <1>1, <1>2, <1>3, <1>4, <1>5, <1>6, <1>7, <1>8, <1>9, <1>10 DEF Next, Step

-----------------------------------------------------------------------------
(* The refinement *)

\* Sequences of frames, one after the other.
LEMMA Concatenated ==
  ASSUME NEW s \in Seq(Frames), NEW t \in Seq(Frames), NEW u \in Seq(Frames)
  PROVE  /\ s \o t \in Seq(Frames) /\ Len(s \o t) = Len(s) + Len(t)
         /\ (s \o t) \o u = s \o (t \o u)
         /\ (s \o t) \o u \in Seq(Frames)
         /\ Len((s \o t) \o u) = Len(s) + Len(t) + Len(u)
         /\ Len(s) \in Nat /\ Len(t) \in Nat /\ Len(u) \in Nat
  <1>1. s \o t \in Seq(Frames) /\ Len(s \o t) = Len(s) + Len(t)
    BY ConcatProperties
  <1>2. (s \o t) \o u \in Seq(Frames) /\ Len((s \o t) \o u) = Len(s \o t) + Len(u)
    BY <1>1, ConcatProperties
  <1>3. (s \o t) \o u = s \o (t \o u)
    BY ConcatAssociative
  <1>4. Len(s) \in Nat /\ Len(t) \in Nat /\ Len(u) \in Nat
    BY LenProperties
  <1> QED
    BY <1>1, <1>2, <1>3, <1>4

\* The pending frames of a connection are its three places, one after the
\* other.
LEMMA PendingFrames ==
  ASSUME TypeOK, NEW c \in Conns, proc[c] # "done"
  PROVE  /\ handling[c] \in Seq(Frames) /\ readChan[c] \in Seq(Frames)
         /\ hand[c] \in Seq(Frames)
         /\ Pending(c) \in Seq(Frames)
         /\ Pending(c) = handling[c] \o (readChan[c] \o hand[c])
         /\ Len(Pending(c)) = Len(handling[c]) + Len(readChan[c]) + Len(hand[c])
  <1>1. handling[c] \in Seq(Frames) /\ readChan[c] \in Seq(Frames) /\ hand[c] \in Seq(Frames)
    BY OneFrame DEF TypeOK
  <1>2. Pending(c) = (handling[c] \o readChan[c]) \o hand[c]
    BY DEF Pending
  <1>3. PICK g \in Seq(Frames), r \in Seq(Frames), h \in Seq(Frames) :
          g = handling[c] /\ r = readChan[c] /\ h = hand[c]
    BY <1>1
  <1>4. Pending(c) = (g \o r) \o h
    BY <1>2, <1>3
  <1>5. /\ (g \o r) \o h \in Seq(Frames) /\ (g \o r) \o h = g \o (r \o h)
        /\ Len((g \o r) \o h) = Len(g) + Len(r) + Len(h)
    BY Concatenated
  <1> QED
    BY <1>1, <1>3, <1>4, <1>5

\* A step on one connection.
LEMMA OnePipe ==
  ASSUME NEW c \in Conns, NEW s, Pending(c)' = s,
         \A d \in Conns \ {c} : Pending(d)' = Pending(d)
  PROVE  [d \in Conns |-> Pending(d)'] = [[d \in Conns |-> Pending(d)] EXCEPT ![c] = s]
  OBVIOUS

\* A step in which no frame leaves or enters and no connection is closed.
LEMMA QuietPipes ==
  ASSUME \A c \in Conns : Pending(c)' = Pending(c),
         \A c \in Conns : conn'[c] = "cancelled" <=> conn[c] = "cancelled",
         published' = published
  PROVE  UNCHANGED Pipes!vars
  BY DEF Pipes!vars

\* A frame that arrives enters the pipe, unless nobody will take it.
LEMMA ReceivePuts ==
  ASSUME TypeOK, ReadInv, NEW c \in Conns, NEW k \in Kinds, Receive(c, k)
  PROVE  [Pipes!Next]_(Pipes!vars)
  <1> DEFINE f == Frame(c, arrived + 1, k)
  <1>1. /\ UNCHANGED <<conn, readChan, proc, handling, published>>
        /\ hand \in [Conns -> AtMostOne]
    BY DEF Receive, table, processing, TypeOK
  <1>2. CASE k = "skipped" \/ proc[c] = "done"
    <2>1. \A d \in Conns : Pending(d)' = Pending(d)
      BY <1>1, <1>2 DEF Receive, Pending
    <2> QED
      BY <1>1, <2>1, QuietPipes
  <1>3. CASE k # "skipped" /\ proc[c] # "done"
    <2>1. f \in Frames /\ hand[c] = << >> /\ hand' = [hand EXCEPT ![c] = <<f>>]
      <3>1. arrived + 1 \in 1..MaxFrames
        BY ReadPathAssumption DEF ReadPathAssumption, Receive, TypeOK
      <3>2. f \in Frames
        BY <3>1 DEF Frames
      <3> QED
        BY <1>3, <3>2 DEF Receive, ReadInv
    <2> HIDE DEF f
    <2>2. handling[c] \o readChan[c] \in Seq(Frames)
      BY <1>3, PendingFrames, ConcatProperties
    <2>3. Pending(c) = handling[c] \o readChan[c]
      BY <1>3, <2>1, <2>2, ConcatEmptySeq DEF Pending
    <2>4. Pending(c)' = (handling[c] \o readChan[c]) \o <<f>>
      BY <1>1, <1>3, <2>1 DEF Pending
    <2>5. Pending(c)' = Append(Pending(c), f)
      BY <2>1, <2>2, <2>3, <2>4, AppendIsConcat
    <2>6. \A d \in Conns \ {c} : Pending(d)' = Pending(d)
      BY <1>1, <2>1 DEF Pending
    <2>7. Pipes!Put(c, f)
      BY <1>1, <2>5, <2>6, OnePipe DEF Pipes!Put
    <2> QED
      BY <2>1, <2>7 DEF Pipes!Next
  <1> QED
    BY <1>2, <1>3

\* A push moves a frame within the pipe.
LEMMA PushStutters ==
  ASSUME TypeOK, ReadInv, NEW c \in Conns, Push(c)
  PROVE  [Pipes!Next]_(Pipes!vars)
  <1>1. /\ UNCHANGED <<conn, proc, handling, published>>
        /\ hand' = [hand EXCEPT ![c] = << >>]
        /\ readChan' = [readChan EXCEPT ![c] = readChan[c] \o hand[c]]
        /\ hand \in [Conns -> AtMostOne] /\ readChan \in [Conns -> Seq(Frames)]
    BY DEF Push, PushTo, table, processing, TypeOK
  <1>2. ASSUME proc[c] # "done" PROVE Pending(c)' = Pending(c)
    <2>1. /\ Pending(c) = handling[c] \o (readChan[c] \o hand[c])
          /\ Pending(c) \in Seq(Frames)
      BY <1>2, PendingFrames
    <2>2. Pending(c)' = (handling[c] \o (readChan[c] \o hand[c])) \o << >>
      BY <1>1, <1>2 DEF Pending
    <2> QED
      BY <2>1, <2>2, ConcatEmptySeq
  <1>3. ASSUME NEW d \in Conns PROVE Pending(d)' = Pending(d)
    BY <1>1, <1>2 DEF Pending
  <1> QED
    BY <1>1, <1>3, QuietPipes

\* A frame is dropped only as the newest of more than Capacity.
LEMMA DropOverflows ==
  ASSUME TypeOK, ReadInv, NEW c \in Conns, Drop(c)
  PROVE  [Pipes!Next]_(Pipes!vars)
  <1>1. /\ UNCHANGED <<conn, readChan, proc, handling, published>>
        /\ hand' = [hand EXCEPT ![c] = << >>]
        /\ hand \in [Conns -> AtMostOne] /\ readChan \in [Conns -> Seq(Frames)]
        /\ handling \in [Conns -> AtMostOne]
    BY DEF Drop, table, processing, TypeOK
  <1>2. \A d \in Conns \ {c} : Pending(d)' = Pending(d)
    BY <1>1 DEF Pending
  <1>3. CASE proc[c] = "done"
    <2>1. Pending(c)' = Pending(c)
      BY <1>1, <1>3 DEF Pending
    <2> QED
      BY <1>1, <1>2, <2>1, QuietPipes
  <1>4. CASE proc[c] # "done"
    <2>0. PICK s : s = handling[c] \o readChan[c]
      OBVIOUS
    <2>1. /\ hand[c] \in Seq(Frames) /\ Len(hand[c]) = 1
          /\ Len(readChan[c]) >= Capacity
      BY <1>1, OneFrame, ReadPathAssumption, LenProperties
      DEF ReadPathAssumption, Drop, HasRoom, ReadInv, TypeOK
    <2>2. /\ s \in Seq(Frames) /\ Len(s) = Len(handling[c]) + Len(readChan[c])
          /\ Len(handling[c]) \in Nat /\ Len(readChan[c]) \in Nat
      BY <1>4, <2>0, PendingFrames, Concatenated
    <2>3. Pending(c) = s \o hand[c] /\ Pending(c)' = s \o << >>
      BY <1>1, <1>4, <2>0 DEF Pending
    <2>4. /\ Pending(c) \in Seq(Frames) /\ Len(Pending(c)) = Len(s) + 1
          /\ Pending(c)' = s /\ Len(s) \in Nat
      <3>1. Pending(c) \in Seq(Frames) /\ Len(Pending(c)) = Len(s) + Len(hand[c])
        BY <1>4, <2>2, PendingFrames
      <3>2. s \o << >> = s /\ Len(s) \in Nat
        BY <2>2, ConcatEmptySeq, LenProperties
      <3> QED
        BY <2>1, <2>3, <3>1, <3>2
    <2>5. s = SubSeq(Pending(c), 1, Len(Pending(c)) - 1)
      <3>1. CASE s = << >>
        BY <2>4, <3>1, SubSeqEmpty, EmptySeq
      <3>2. CASE s # << >>
        <4>1. Len(s) \in 1..Len(s) /\ 1 \in 1..Len(s)
          <5>1. Len(s) \in Nat \ {0}
            BY <2>2, <3>2, EmptySeq
          <5> QED
            BY <5>1
        <4>2. SubSeq(s \o hand[c], 1, Len(s)) = SubSeq(s, 1, Len(s))
          BY <2>1, <2>2, <4>1, SubSeqOfConcat1
        <4>3. SubSeq(s, 1, Len(s)) = s
          BY <2>2, SubSeqFull
        <4>4. Len(Pending(c)) - 1 = Len(s)
          BY <2>4
        <4> QED
          BY <2>3, <4>2, <4>3, <4>4
      <3> QED
        BY <3>1, <3>2
    <2>6. Len(Pending(c)) > Capacity
      <3>1. Capacity \in Nat
        BY ReadPathAssumption DEF ReadPathAssumption
      <3> QED
        <4>1. \A x, y \in Nat : y >= Capacity => x + y + 1 > Capacity
          BY <3>1
        <4>2. Len(Pending(c)) = Len(handling[c]) + Len(readChan[c]) + 1
          BY <2>2, <2>4
        <4> QED
          BY <2>1, <2>2, <4>1, <4>2
    <2>7. Pipes!Overflow(c)
      BY <1>1, <1>2, <2>4, <2>5, <2>6, OnePipe DEF Pipes!Overflow
    <2> QED
      BY <2>7 DEF Pipes!Next
  <1> QED
    BY <1>3, <1>4

\* The first frame of a pipe and the rest.
LEMMA FirstOfPipe ==
  ASSUME NEW f \in Frames, NEW t \in Seq(Frames), NEW p, p = <<f>> \o t
  PROVE  p # << >> /\ Head(p) = f /\ Tail(p) = t
  <1>1. /\ <<f>> \in Seq(Frames) /\ Len(<<f>>) = 1 /\ Len(t) \in Nat /\ p \in Seq(Frames)
        /\ Len(p) = Len(t) + 1
        /\ \A i \in 1..Len(p) : p[i] = IF i <= 1 THEN f ELSE t[i - 1]
    BY ConcatProperties, LenProperties
  <1>2. p # << >> /\ Head(p) = f
    BY <1>1
  <1>3. /\ Tail(p) \in Seq(Frames) /\ Len(Tail(p)) = Len(t)
        /\ \A i \in 1..Len(t) : Tail(p)[i] = t[i]
    BY <1>1, <1>2, HeadTailProperties
  <1>4. Tail(p) = t
    BY <1>3, SeqEqual
  <1> QED
    BY <1>2, <1>4

\* An event that is taken stays in the pipe; any other frame leaves it.
LEMMA TakeDelivers ==
  ASSUME TypeOK, ReadInv, NEW c \in Conns, Take(c)
  PROVE  [Pipes!Next]_(Pipes!vars)
  <1>1. /\ UNCHANGED <<conn, hand, proc, published>>
        /\ proc[c] = "run" /\ handling[c] = << >> /\ readChan[c] # << >>
        /\ readChan \in [Conns -> Seq(Frames)] /\ handling \in [Conns -> AtMostOne]
    BY DEF Take, HasNext, table, reading, TypeOK
  <1>2. PICK f, t, h : f = Head(readChan[c]) /\ t = Tail(readChan[c]) /\ h = hand[c]
    OBVIOUS
  <1>3. /\ f \in Frames /\ t \in Seq(Frames) /\ h \in Seq(Frames) /\ <<f>> \in Seq(Frames)
        /\ readChan[c] = <<f>> \o t
    <2>1. f \in Frames /\ t \in Seq(Frames) /\ h \in Seq(Frames) /\ <<f>> \in Seq(Frames)
      BY <1>2, TakesTheHead, OneFrame DEF Take, TypeOK
    <2>2. readChan[c] = <<f>> \o t
      BY <1>1, <1>2
    <2> QED
      BY <2>1, <2>2
  <1>4. /\ readChan' = [readChan EXCEPT ![c] = t]
        /\ handling' = [handling EXCEPT ![c] = IF f.kind = "event" THEN <<f>> ELSE << >>]
    BY <1>2 DEF Take
  <1>5. Pending(c) = <<f>> \o (t \o h)
    <2>1. Pending(c) = (<< >> \o (<<f>> \o t)) \o h
      BY <1>1, <1>2, <1>3 DEF Pending
    <2>2. << >> \o (<<f>> \o t) = <<f>> \o t
      BY <1>3, ConcatProperties, ConcatEmptySeq
    <2>3. (<<f>> \o t) \o h = <<f>> \o (t \o h)
      BY <1>3, Concatenated
    <2> QED
      BY <2>1, <2>2, <2>3
  <1>6. \A d \in Conns \ {c} : Pending(d)' = Pending(d)
    BY <1>1, <1>4 DEF Pending
  <1>7. CASE f.kind = "event"
    <2>1. Pending(c)' = (<<f>> \o t) \o h
      BY <1>1, <1>2, <1>4, <1>7 DEF Pending
    <2>2. Pending(c)' = Pending(c)
      BY <1>3, <1>5, <2>1, Concatenated
    <2> QED
      BY <1>1, <1>6, <2>2, QuietPipes
  <1>8. CASE f.kind # "event"
    <2>1. t \o h \in Seq(Frames) /\ Pending(c)' = t \o h
      <3>1. Pending(c)' = (<< >> \o t) \o h
        BY <1>1, <1>2, <1>4, <1>8 DEF Pending
      <3> QED
        BY <1>3, <3>1, ConcatEmptySeq, ConcatProperties
    <2>2. Pending(c) # << >> /\ Head(Pending(c)) = f /\ Tail(Pending(c)) = t \o h
      BY <1>3, <1>5, <2>1, FirstOfPipe
    <2>3. Pipes!Deliver(c)
      BY <1>1, <1>6, <1>8, <2>1, <2>2, OnePipe DEF Pipes!Deliver
    <2> QED
      BY <2>3 DEF Pipes!Next
  <1> QED
    BY <1>7, <1>8

\* A published event leaves the pipe.
LEMMA PublishDelivers ==
  ASSUME TypeOK, ReadInv, NEW c \in Conns, Publish(c)
  PROVE  [Pipes!Next]_(Pipes!vars)
  <1>1. /\ UNCHANGED <<conn, hand, proc, readChan>>
        /\ proc[c] = "run" /\ handling[c] # << >> /\ handling[c][1].kind = "event"
        /\ handling \in [Conns -> AtMostOne] /\ published \in Seq(Frames)
        /\ handling' = [handling EXCEPT ![c] = << >>]
        /\ published' = published \o handling[c]
    BY DEF Publish, table, reading, TypeOK, ReadInv
  <1>2. PICK f \in Frames : handling[c] = <<f>>
    BY <1>1, OneFrame
  <1>3. PICK r \in Seq(Frames), h \in Seq(Frames) : r = readChan[c] /\ h = hand[c]
    BY OneFrame DEF TypeOK
  <1>4. f.kind = "event" /\ <<f>> \in Seq(Frames)
    BY <1>1, <1>2
  <1>5. Pending(c) = <<f>> \o (r \o h) /\ r \o h \in Seq(Frames)
    <2>1. Pending(c) = (<<f>> \o r) \o h
      BY <1>1, <1>2, <1>3 DEF Pending
    <2> QED
      BY <1>4, <2>1, Concatenated
  <1>6. Pending(c)' = r \o h
    <2>1. Pending(c)' = (<< >> \o r) \o h
      BY <1>1, <1>3 DEF Pending
    <2> QED
      BY <2>1, ConcatEmptySeq
  <1>7. \A d \in Conns \ {c} : Pending(d)' = Pending(d)
    BY <1>1 DEF Pending
  <1>8. Pending(c) # << >> /\ Head(Pending(c)) = f /\ Tail(Pending(c)) = r \o h
    BY <1>5, FirstOfPipe
  <1>9. published' = Append(published, f)
    BY <1>1, <1>2, AppendIsConcat
  <1>10. Pipes!Deliver(c)
    BY <1>1, <1>4, <1>6, <1>7, <1>8, <1>9, OnePipe DEF Pipes!Deliver
  <1> QED
    BY <1>10 DEF Pipes!Next

\* A processor that returns abandons the pipe of a closed connection.
LEMMA ReturnAbandons ==
  ASSUME TypeOK, ReadInv, NEW c \in Conns, Return(c)
  PROVE  [Pipes!Next]_(Pipes!vars)
  <1>1. /\ UNCHANGED <<conn, hand, readChan, handling, published>>
        /\ conn[c] = "cancelled" /\ proc' = [proc EXCEPT ![c] = "done"]
        /\ proc \in [Conns -> {"none", "run", "done"}]
    BY DEF Return, ReturnIf, table, reading, TypeOK
  <1>2. Pending(c)' = << >> /\ \A d \in Conns \ {c} : Pending(d)' = Pending(d)
    BY <1>1 DEF Pending
  <1>3. Pipes!Abandon(c)
    BY <1>1, <1>2, OnePipe DEF Pipes!Abandon
  <1> QED
    BY <1>3 DEF Pipes!Next

\* A connection is closed, or none is in the table.
LEMMA ClosesOne ==
  ASSUME TypeOK, CloseCurrent, UNCHANGED <<hand, readChan, proc, handling, published>>
  PROVE  [Pipes!Next]_(Pipes!vars)
  <1>1. \A c \in Conns : Pending(c)' = Pending(c)
    BY DEF Pending
  <1>2. CASE current \in Conns
    <2>1. PICK c \in Conns : c = current
      BY <1>2
    <2>2. {d \in Conns : conn'[d] = "cancelled"} =
            {d \in Conns : conn[d] = "cancelled"} \cup {c}
      BY <2>1 DEF CloseCurrent
    <2>3. Pipes!Close(c)
      BY <1>1, <2>2 DEF Pipes!Close
    <2> QED
      BY <2>3 DEF Pipes!Next
  <1>3. CASE current \notin Conns
    <2>1. \A c \in Conns : conn'[c] = conn[c]
      BY <1>3 DEF CloseCurrent
    <2> QED
      BY <1>1, <2>1, QuietPipes
  <1> QED
    BY <1>2, <1>3

\* Every step maps to a step of the pipes or leaves them alone.
LEMMA StepRefines == TypeOK /\ ReadInv /\ [Next]_vars => [Pipes!Next]_(Pipes!vars)
  <1> SUFFICES ASSUME TypeOK, ReadInv, [Next]_vars PROVE [Pipes!Next]_(Pipes!vars)
    OBVIOUS
  <1>1. ASSUME NEW c \in Conns, Dial(c) PROVE [Pipes!Next]_(Pipes!vars)
    <2>1. /\ UNCHANGED <<hand, readChan, handling, published>>
          /\ proc' = [proc EXCEPT ![c] = "run"] /\ conn' = [conn EXCEPT ![c] = "live"]
          /\ conn[c] = "unused" /\ proc[c] = "none"
          /\ conn \in [Conns -> {"unused", "live", "cancelled"}]
          /\ proc \in [Conns -> {"none", "run", "done"}]
      BY <1>1 DEF Dial, TypeOK, ReadInv
    <2>2. \A d \in Conns : Pending(d)' = Pending(d)
      BY <2>1 DEF Pending
    <2>3. \A d \in Conns : conn'[d] = "cancelled" <=> conn[d] = "cancelled"
      BY <2>1
    <2> QED
      BY <2>1, <2>2, <2>3, QuietPipes
  <1>2. CASE CloseConnection
    BY <1>2, ClosesOne DEF CloseConnection, reading, processing
  <1>3. ASSUME UNCHANGED <<conn, hand, readChan, proc, handling, published>>
        PROVE  [Pipes!Next]_(Pipes!vars)
    BY <1>3, QuietPipes DEF Pending
  <1>4. ASSUME NEW c \in Conns, ReadFails(c) PROVE [Pipes!Next]_(Pipes!vars)
    BY <1>3, <1>4, ClosesOne DEF ReadFails, table, processing
  <1>5. ASSUME NEW c \in Conns, DropPanics(c) \/ TakePanics(c)
        PROVE  [Pipes!Next]_(Pipes!vars)
    BY <1>3, <1>5 DEF DropPanics, TakePanics, table, reading, processing
  <1>6. CASE UNCHANGED vars
    BY <1>3, <1>6 DEF vars, table, reading, processing
  <1> QED
    BY <1>1, <1>2, <1>4, <1>5, <1>6, ReceivePuts, PushStutters, DropOverflows,
       TakeDelivers, PublishDelivers, ReturnAbandons
    DEF Next, Step

-----------------------------------------------------------------------------
(* Theorems *)

\* The invariant holds in every state of every behaviour.
THEOREM ReadInductive == Spec => [](TypeOK /\ ReadInv)
  <1>1. TypeOK /\ ReadInv /\ [Next]_vars => (TypeOK /\ ReadInv)'
    BY NextType, NextRead
  <1> QED
    BY <1>1, InitRead, PTL DEF Spec

\* Every variable of the read path keeps its type, and the read channel never
\* holds more than it was made for (relayManager.go:99, 226-232).
THEOREM TypeCorrect == Spec => []TypeOK
  BY ReadInductive, PTL

\* The read path implements a pipe per connection: frames leave it in order
\* and once, events are published, and a frame is lost only while more than
\* Capacity are unfinished or with a closed connection, for every capacity and
\* any number of connections (relayManager.go:199-280).
THEOREM Refinement == Spec => ImplementsFramePipe
  <1>1. Init => Pipes!Init
    <2> SUFFICES ASSUME Init PROVE Pipes!Init
      OBVIOUS
    <2>1. \A c \in Conns : Pending(c) = << >>
      BY ConcatEmptySeq, EmptySeq DEF Init, Pending
    <2> QED
      BY <2>1 DEF Init, Pipes!Init
  <1> QED
    BY <1>1, StepRefines, ReadInductive, PTL DEF Spec, ImplementsFramePipe, Pipes!Spec
================================================================================

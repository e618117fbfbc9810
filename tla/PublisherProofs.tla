---------------------------- MODULE PublisherProofs ----------------------------
(***************************************************************************)
(* Machine-checked proofs about Publisher, for any number of publishers,   *)
(* messages and failures.                                                  *)
(***************************************************************************)
EXTENDS Publisher, SequenceTheorems, TLAPS

\* A frame on the way is the current message of a publisher that waits for
\* the broker on a live connection.
FramesInv ==
  \A p \in Publishers :
    /\ pc[p] # "idle" => n[p] <= MaxMessages
    /\ wire[p] # {} => /\ pc[p] = "published"
                       /\ link[p] = "live"
                       /\ wire[p] = {Message(p, n[p])}

\* A declaration is refused only on a broken connection.  A publisher whose
\* connection has held since it declared the queue finds it there, or has been
\* deserted.
DeclaredInv ==
  \A p \in Publishers :
    /\ pc[p] = "refused" => link[p] # "live"
    /\ pc[p] \in {"declared", "published"} /\ link[p] = "live" /\ ~exists => deserted[p]

\* What has reached the queue, read or not.
Seen == got \o queue

\* A message that has arrived is of the past, or the one whose publisher still
\* waits and has no frame on the way.
ArrivedInv ==
  \A i \in 1..Len(Seen), p \in Publishers :
    Seen[i].from = p =>
      /\ Seen[i].id <= n[p]
      /\ Seen[i].id = n[p] => wire[p] = {} /\ pc[p] = "published"

PublisherInv ==
  TypeOK /\ FramesInv /\ DeclaredInv /\ ArrivedInv /\ PublishersKeepTheirOrder

\* A message says whose it is.
LEMMA MessageFields ==
  ASSUME NEW m \in Messages
  PROVE  m.from \in Publishers /\ m.id \in 1..MaxMessages /\ m = Message(m.from, m.id)
  BY DEF Messages, Message

\* The frames that a publisher can have on the way.
LEMMA FewFrames ==
  /\ {} \in AtMostOne
  /\ \A m \in Messages : {m} \in AtMostOne
  /\ \A w \in AtMostOne : \A m \in w : m \in Messages /\ w = {m}
  BY DEF AtMostOne

\* The order is one of what was seen.
LEMMA OrderOfSeen ==
  PublishersKeepTheirOrder <=>
    \A i, j \in 1..Len(Seen) :
      i < j /\ Seen[i].from = Seen[j].from => Seen[i].id < Seen[j].id
  BY DEF PublishersKeepTheirOrder, Seen

\* What has been seen, message by message.
LEMMA SeenMessages ==
  ASSUME TypeOK
  PROVE  /\ Seen \in Seq(Messages)
         /\ Len(Seen) \in Nat
         /\ \A i \in 1..Len(Seen) : Seen[i] \in Messages
         /\ Len(Seen) = Len(got) + Len(queue)
         /\ \A i \in 1..Len(Seen) :
              Seen[i] = IF i <= Len(got) THEN got[i] ELSE queue[i - Len(got)]
  BY ConcatProperties, LenProperties, ElementOfSeq DEF TypeOK, Seen

\* The numbers that the order is about.
LEMMA Numbers ==
  ASSUME TypeOK
  PROVE  /\ Len(Seen) \in Nat
         /\ \A i \in 1..Len(Seen) : Seen[i].id \in Nat /\ Seen[i].from \in Publishers
         /\ n \in [Publishers -> Nat]
  <1>1. MaxMessages \in Nat
    BY PublisherAssumption DEF PublisherAssumption
  <1>2. n \in [Publishers -> Nat]
    <2>1. n \in [Publishers -> 1..(MaxMessages + 1)]
      BY DEF TypeOK
    <2> QED
      BY <1>1, <2>1
  <1>3. ASSUME NEW i \in 1..Len(Seen)
        PROVE  Seen[i].id \in Nat /\ Seen[i].from \in Publishers
    <2>1. Seen[i] \in Messages
      BY SeenMessages
    <2>2. Seen[i].from \in Publishers /\ Seen[i].id \in 1..MaxMessages
      BY <2>1, MessageFields
    <2> QED
      BY <2>2
  <1> QED
    BY <1>2, <1>3, SeenMessages

\* The same in the next state.
LEMMA NumbersLater ==
  ASSUME TypeOK'
  PROVE  Len(Seen)' \in Nat /\ n' \in [Publishers -> Nat]
  <1>1. MaxMessages \in Nat
    BY PublisherAssumption DEF PublisherAssumption
  <1>2. n' \in [Publishers -> 1..(MaxMessages + 1)]
    BY DEF TypeOK
  <1>3. got' \in Seq(Messages) /\ queue' \in Seq(Messages)
    BY DEF TypeOK
  <1>4. Len(Seen)' \in Nat
    BY <1>3, ConcatProperties, LenProperties DEF Seen
  <1> QED
    BY <1>1, <1>2, <1>4

-----------------------------------------------------------------------------

\* No publisher has done anything yet.
LEMMA InitPublisherInv == Init => PublisherInv
  <1> SUFFICES ASSUME Init PROVE PublisherInv
    OBVIOUS
  <1>1. TypeOK
    <2>1. /\ 1 \in 1..(MaxMessages + 1) /\ 0 \in 0..MaxOutages /\ 0 \in 0..MaxLeaves
          /\ << >> \in Seq(Messages)
      BY PublisherAssumption, EmptySeq DEF PublisherAssumption
    <2> QED
      BY <2>1, FewFrames DEF Init, TypeOK
  <1>2. Len(Seen) = 0
    BY DEF Init, Seen
  <1>3. ArrivedInv /\ PublishersKeepTheirOrder
    BY <1>2 DEF ArrivedInv, PublishersKeepTheirOrder, Seen
  <1>4. FramesInv /\ DeclaredInv
    BY DEF Init, FramesInv, DeclaredInv
  <1> QED
    BY <1>1, <1>3, <1>4 DEF PublisherInv

\* Every step keeps the types.
LEMMA NextType == TypeOK /\ FramesInv /\ [Next]_vars => TypeOK'
  <1> SUFFICES ASSUME TypeOK, FramesInv, [Next]_vars PROVE TypeOK'
    OBVIOUS
  <1> USE PublisherAssumption, FewFrames DEF PublisherAssumption, TypeOK
  <1>1. CASE BrokerStops
    <2>1. outages' \in 0..MaxOutages
      BY <1>1 DEF BrokerStops
    <2>3. exists' \in BOOLEAN /\ queue' \in Seq(Messages) /\ got' = got
      <3>1. << >> \in Seq(Messages)
        BY EmptySeq
      <3> QED
        BY <1>1, <3>1 DEF BrokerStops
    <2>2. /\ link' \in [Publishers -> {"none", "live", "broken"}]
          /\ wire' \in [Publishers -> AtMostOne] /\ deserted' \in [Publishers -> BOOLEAN]
      BY <1>1 DEF BrokerStops
    <2> QED
      BY <1>1, <2>1, <2>2, <2>3 DEF BrokerStops
  <1>2. CASE BrokerStarts \/ Attach
    BY <1>2 DEF BrokerStarts, Attach, far, bounds
  <1>9. CASE Leave
    <2>1. /\ leaves' \in 0..MaxLeaves /\ << >> \in Seq(Messages)
          /\ deserted' \in [Publishers -> BOOLEAN]
      BY <1>9, EmptySeq DEF Leave
    <2> QED
      BY <1>9, <2>1 DEF Leave
  <1>3. CASE Read
    <2>1. Head(queue) \in Messages /\ Tail(queue) \in Seq(Messages)
      BY <1>3, HeadTailProperties DEF Read
    <2>2. Append(got, Head(queue)) \in Seq(Messages)
      BY <2>1, AppendProperties
    <2> QED
      BY <1>3, <2>1, <2>2 DEF Read, bounds
  <1>4. ASSUME NEW p \in Publishers, Route(p) PROVE TypeOK'
    <2>1. PICK m \in wire[p] : /\ wire' = [wire EXCEPT ![p] = wire[p] \ {m}]
                               /\ queue' = IF exists THEN Append(queue, m) ELSE queue
      BY <1>4 DEF Route
    <2>2. m \in Messages /\ wire[p] = {m}
      BY <2>1
    <2>3. queue' \in Seq(Messages)
      BY <2>1, <2>2, AppendProperties
    <2>4. wire' = [wire EXCEPT ![p] = {}]
      BY <2>1, <2>2
    <2>5. wire' \in [Publishers -> AtMostOne]
      BY <2>4
    <2> QED
      BY <1>4, <2>3, <2>5 DEF Route, bounds
  <1>5. ASSUME NEW p \in Publishers, PublishWithContext(p) PROVE TypeOK'
    <2>1. wire[p] = {} /\ n[p] \in 1..MaxMessages
      BY <1>5 DEF PublishWithContext, FramesInv
    <2>2. Message(p, n[p]) \in Messages
      BY <2>1 DEF Messages
    <2>3. wire[p] \cup {Message(p, n[p])} \in AtMostOne
      BY <2>1, <2>2
    <2>4. wire' \in [Publishers -> AtMostOne]
      BY <1>5, <2>3 DEF PublishWithContext
    <2> QED
      BY <1>5, <2>4 DEF PublishWithContext, far, bounds
  <1>6. ASSUME NEW p \in Publishers, Close(p) PROVE TypeOK'
    <2>1. n[p] <= MaxMessages
      BY <1>6 DEF Close, Finishes, FramesInv
    <2> QED
      BY <1>6, <2>1 DEF Close, Finishes, far, bounds
  <1>7. ASSUME NEW p \in Publishers,
               \/ Dial(p) \/ DialPanics(p) \/ OpenChannel(p) \/ ChannelPanics(p)
               \/ QueueDeclare(p)
        PROVE  TypeOK'
    BY <1>7 DEF Dial, DialPanics, OpenChannel, ChannelPanics, QueueDeclare, far, bounds
  <1>8. CASE UNCHANGED vars
    BY <1>8 DEF vars, far, bounds
  <1> QED
    BY <1>1, <1>2, <1>3, <1>4, <1>5, <1>6, <1>7, <1>8, <1>9
    DEF Next, setQueue

\* Every step keeps the frames and the declarations.
LEMMA NextFrames ==
  TypeOK /\ FramesInv /\ DeclaredInv /\ [Next]_vars => FramesInv' /\ DeclaredInv'
  <1> SUFFICES ASSUME TypeOK, FramesInv, DeclaredInv, [Next]_vars
               PROVE  FramesInv' /\ DeclaredInv'
    OBVIOUS
  <1> USE DEF FramesInv, DeclaredInv
  <1>0. /\ pc \in [Publishers -> {"idle", "dialled", "open", "declared", "refused",
                                  "published"}]
        /\ link \in [Publishers -> {"none", "live", "broken"}]
        /\ wire \in [Publishers -> AtMostOne]
        /\ n \in [Publishers -> 1..(MaxMessages + 1)]
        /\ deserted \in [Publishers -> BOOLEAN] /\ exists \in BOOLEAN
        /\ MaxMessages \in Nat
    BY PublisherAssumption DEF PublisherAssumption, TypeOK
  <1>1. CASE BrokerStops \/ Leave
    BY <1>0, <1>1 DEF BrokerStops, Leave
  <1>2. CASE BrokerStarts \/ Attach \/ Read \/ UNCHANGED vars
    BY <1>0, <1>2 DEF BrokerStarts, Attach, Read, vars, far
  <1>3. ASSUME NEW p \in Publishers, Route(p) PROVE FramesInv' /\ DeclaredInv'
    <2>1. wire' = [wire EXCEPT ![p] = {}]
      BY <1>0, <1>3, FewFrames DEF Route
    <2> QED
      BY <1>0, <1>3, <2>1 DEF Route
  <1>4. ASSUME NEW p \in Publishers, PublishWithContext(p)
        PROVE  FramesInv' /\ DeclaredInv'
    <2>1. wire[p] = {} /\ wire[p] \cup {Message(p, n[p])} = {Message(p, n[p])}
      BY <1>4 DEF PublishWithContext
    <2>2. wire' = IF link[p] = "live" THEN [wire EXCEPT ![p] = {Message(p, n[p])}] ELSE wire
      BY <1>4, <2>1 DEF PublishWithContext
    <2>3. /\ pc[p] \in {"declared", "refused"} /\ pc' = [pc EXCEPT ![p] = "published"]
          /\ UNCHANGED <<link, n, exists, deserted>>
      BY <1>4 DEF PublishWithContext, far
    <2>4. ASSUME NEW q \in Publishers
          PROVE  /\ pc'[q] # "idle" => n'[q] <= MaxMessages
                 /\ wire'[q] # {} => /\ pc'[q] = "published"
                                     /\ link'[q] = "live"
                                     /\ wire'[q] = {Message(q, n'[q])}
      <3>1. CASE q = p
        BY <1>0, <2>1, <2>2, <2>3, <3>1
      <3>2. CASE q # p
        BY <1>0, <2>2, <2>3, <3>2
      <3> QED
        BY <3>1, <3>2
    <2>5. DeclaredInv'
      <3>1. ASSUME NEW q \in Publishers, pc'[q] \in {"declared", "published"},
                   link'[q] = "live", ~exists'
            PROVE  deserted'[q]
        BY <1>0, <2>3, <3>1
      <3>2. ASSUME NEW q \in Publishers, pc'[q] = "refused" PROVE link'[q] # "live"
        BY <1>0, <2>3, <3>2
      <3> QED
        BY <3>1, <3>2
    <2> QED
      BY <2>4, <2>5
  <1>5. ASSUME NEW p \in Publishers, Close(p) PROVE FramesInv' /\ DeclaredInv'
    BY <1>0, <1>5 DEF Close, Finishes, far
  <1>6. ASSUME NEW p \in Publishers,
               Dial(p) \/ DialPanics(p) \/ OpenChannel(p) \/ ChannelPanics(p)
        PROVE  FramesInv' /\ DeclaredInv'
    BY <1>0, <1>6 DEF Dial, DialPanics, OpenChannel, ChannelPanics, far
  <1>7. ASSUME NEW p \in Publishers, QueueDeclare(p) PROVE FramesInv' /\ DeclaredInv'
    BY <1>0, <1>7 DEF QueueDeclare
  <1> QED
    BY <1>1, <1>2, <1>3, <1>4, <1>5, <1>6, <1>7 DEF Next, setQueue

-----------------------------------------------------------------------------
(* The order of what is seen *)

OrderInv == ArrivedInv /\ PublishersKeepTheirOrder

\* A step that takes messages off the end of what was seen, or none, keeps
\* the order if publishers only move on.
LEMMA LessIsInOrder ==
  ASSUME TypeOK, TypeOK', OrderInv,
         Len(Seen)' <= Len(Seen), \A i \in 1..Len(Seen)' : Seen'[i] = Seen[i],
         \A p \in Publishers :
           \/ n'[p] > n[p]
           \/ n'[p] = n[p] /\ (wire[p] = {} => wire'[p] = {})
                           /\ (pc[p] = "published" => pc'[p] = "published")
           \/ n'[p] = n[p] /\ pc[p] # "published"
  PROVE  OrderInv'
  <1>0. /\ Len(Seen) \in Nat /\ Len(Seen)' \in Nat
        /\ \A i \in 1..Len(Seen) : Seen[i].id \in Nat /\ Seen[i].from \in Publishers
        /\ n \in [Publishers -> Nat] /\ n' \in [Publishers -> Nat]
    <2>1. Len(Seen)' \in Nat /\ n' \in [Publishers -> Nat]
      BY NumbersLater
    <2> QED
      BY <2>1, Numbers
  <1>1. \A i \in 1..Len(Seen)' : i \in 1..Len(Seen)
    BY <1>0
  <1>2. ASSUME NEW i \in 1..Len(Seen)', NEW p \in Publishers, Seen'[i].from = p
        PROVE  /\ Seen'[i].id <= n'[p]
               /\ Seen'[i].id = n'[p] => wire'[p] = {} /\ pc'[p] = "published"
    <2>1. /\ i \in 1..Len(Seen) /\ Seen[i].id <= n[p]
          /\ Seen[i].id = n[p] => wire[p] = {} /\ pc[p] = "published"
      BY <1>1, <1>2 DEF OrderInv, ArrivedInv
    <2>2. Seen'[i].id = Seen[i].id /\ Seen[i].id \in Nat /\ n[p] \in Nat /\ n'[p] \in Nat
      BY <1>0, <2>1
    <2>3. CASE n'[p] > n[p]
      BY <2>1, <2>2, <2>3
    <2>4. CASE n'[p] = n[p]
      BY <2>1, <2>2, <2>4
    <2> QED
      BY <2>3, <2>4
  <1>3. PublishersKeepTheirOrder'
    BY <1>1 DEF OrderInv, PublishersKeepTheirOrder, Seen
  <1> QED
    BY <1>2, <1>3 DEF OrderInv, ArrivedInv

\* A frame that reaches its queue comes after all that its publisher sent.
LEMMA RouteKeepsOrder ==
  ASSUME TypeOK, TypeOK', FramesInv, OrderInv, NEW p \in Publishers, Route(p)
  PROVE  OrderInv'
  <1>1. PICK m \in wire[p] : /\ wire' = [wire EXCEPT ![p] = wire[p] \ {m}]
                             /\ queue' = IF exists THEN Append(queue, m) ELSE queue
    BY DEF Route
  <1>2. /\ m \in Messages /\ m = Message(p, n[p]) /\ pc[p] = "published" /\ wire'[p] = {}
        /\ UNCHANGED <<got, n, pc>>
    BY <1>1, FewFrames DEF TypeOK, FramesInv, Route
  <1>3. CASE ~exists
    <2>1. Seen' = Seen
      BY <1>1, <1>2, <1>3 DEF Seen
    <2> QED
      BY <1>1, <1>2, <2>1, SeenMessages, LessIsInOrder DEF TypeOK
  <1>4. CASE exists
    <2> DEFINE len == Len(Seen)
    <2>1. len \in Nat /\ Len(Seen)' = len + 1 /\ Seen'[len + 1] = m
          /\ \A i \in 1..len : Seen'[i] = Seen[i]
      <3>1. Seen' = Append(Seen, m)
        <4>1. queue' = queue \o <<m>> /\ got' = got
          BY <1>1, <1>2, <1>4, AppendIsConcat DEF TypeOK
        <4>2. got \o (queue \o <<m>>) = (got \o queue) \o <<m>>
          BY <1>2, ConcatAssociative DEF TypeOK
        <4>3. Seen \o <<m>> = Append(Seen, m)
          BY <1>2, SeenMessages, AppendIsConcat
        <4> QED
          BY <4>1, <4>2, <4>3 DEF Seen
      <3> QED
        BY <1>2, <3>1, SeenMessages, AppendProperties
    <2>2. /\ \A i \in 1..len : Seen[i].id \in Nat /\ Seen[i].from \in Publishers
          /\ n \in [Publishers -> Nat]
      BY Numbers
    <2>3. ASSUME NEW i \in 1..len, Seen[i].from = p PROVE Seen[i].id < n[p]
      <3>1. Seen[i].id <= n[p] /\ (Seen[i].id = n[p] => wire[p] = {})
        BY <2>3 DEF OrderInv, ArrivedInv
      <3> QED
        BY <1>1, <2>2, <3>1
    <2>4. m.from = p /\ m.id = n[p]
      BY <1>2 DEF Message
    <2>5. ASSUME NEW i \in 1..Len(Seen)', NEW q \in Publishers, Seen'[i].from = q
          PROVE  /\ Seen'[i].id <= n'[q]
                 /\ Seen'[i].id = n'[q] => wire'[q] = {} /\ pc'[q] = "published"
      <3>1. CASE i = len + 1
        BY <1>2, <2>1, <2>2, <2>4, <2>5, <3>1
      <3>2. CASE i \in 1..len
        <4>1. /\ Seen[i].id <= n[q]
              /\ Seen[i].id = n[q] => wire[q] = {} /\ pc[q] = "published"
          BY <2>1, <2>5, <3>2 DEF OrderInv, ArrivedInv
        <4>2. wire[q] = {} => wire'[q] = {}
          BY <1>1, <1>2 DEF TypeOK
        <4> QED
          BY <1>2, <2>1, <3>2, <4>1, <4>2
      <3> QED
        BY <2>1, <3>1, <3>2
    <2>6. ASSUME NEW i \in 1..Len(Seen)', NEW j \in 1..Len(Seen)', i < j,
                 Seen'[i].from = Seen'[j].from
          PROVE  Seen'[i].id < Seen'[j].id
      <3>1. CASE j = len + 1
        BY <2>1, <2>3, <2>4, <2>6, <3>1
      <3>2. CASE j \in 1..len
        <4>1. i \in 1..len /\ Seen'[i] = Seen[i] /\ Seen'[j] = Seen[j]
          BY <2>1, <2>6, <3>2
        <4> QED
          BY <2>6, <3>2, <4>1, OrderOfSeen DEF OrderInv
      <3> QED
        BY <2>1, <3>1, <3>2
    <2> QED
      BY <2>5, <2>6 DEF OrderInv, ArrivedInv, PublishersKeepTheirOrder, Seen
  <1> QED
    BY <1>3, <1>4 DEF TypeOK

\* Reading a message does not change what was seen.
LEMMA ReadKeepsSeen == TypeOK /\ Read => Seen' = Seen
  <1> SUFFICES ASSUME TypeOK, Read PROVE Seen' = Seen
    OBVIOUS
  <1> DEFINE h == Head(queue)
  <1> DEFINE t == Tail(queue)
  <1>1. /\ queue \in Seq(Messages) /\ queue # << >> /\ got \in Seq(Messages)
        /\ got' = Append(got, h) /\ queue' = t
    BY DEF TypeOK, Read
  <1>2. h \in Messages /\ t \in Seq(Messages) /\ <<h>> \in Seq(Messages)
    BY <1>1, HeadTailProperties
  <1>3. <<h>> \o t = queue
    BY <1>1
  <1> HIDE DEF h, t
  <1>4. Append(got, h) \o t = got \o (<<h>> \o t)
    BY <1>1, <1>2, AppendIsConcat, ConcatAssociative
  <1> QED
    BY <1>1, <1>3, <1>4 DEF Seen

\* Every step keeps the order.
LEMMA NextOrder ==
  TypeOK /\ TypeOK' /\ FramesInv /\ OrderInv /\ [Next]_vars => OrderInv'
  <1> SUFFICES ASSUME TypeOK, TypeOK', FramesInv, OrderInv, [Next]_vars
               PROVE  OrderInv'
    OBVIOUS
  <1>0. /\ pc \in [Publishers -> {"idle", "dialled", "open", "declared", "refused",
                                  "published"}]
        /\ n \in [Publishers -> 1..(MaxMessages + 1)] /\ \A p \in Publishers : n[p] \in Int
        /\ DOMAIN wire = Publishers
    BY PublisherAssumption DEF PublisherAssumption, TypeOK
  <1>1. ASSUME Seen' = Seen,
               \A p \in Publishers :
                 \/ n'[p] > n[p]
                 \/ n'[p] = n[p] /\ (wire[p] = {} => wire'[p] = {})
                                 /\ (pc[p] = "published" => pc'[p] = "published")
                 \/ n'[p] = n[p] /\ pc[p] # "published"
        PROVE  OrderInv'
    BY <1>1, SeenMessages, LessIsInOrder
  <1>2. CASE BrokerStops \/ Leave
    <2>1. Len(Seen)' <= Len(Seen) /\ \A i \in 1..Len(Seen)' : Seen'[i] = Seen[i]
      <3>1. CASE UNCHANGED <<got, queue>>
        BY <3>1, SeenMessages DEF Seen
      <3>2. CASE got' = got /\ queue' = << >>
        <4>1. Seen' = got /\ Len(got) \in Nat /\ Len(queue) \in Nat
          BY <3>2, ConcatEmptySeq, LenProperties DEF TypeOK, Seen
        <4> QED
          BY <4>1, SeenMessages
      <3> QED
        BY <1>2, <3>1, <3>2 DEF BrokerStops, Leave
    <2> QED
      BY <1>2, <2>1, LessIsInOrder DEF BrokerStops, Leave
  <1>3. CASE Read
    BY <1>1, <1>3, ReadKeepsSeen DEF Read
  <1>4. ASSUME NEW p \in Publishers, setQueue(p) PROVE OrderInv'
    <2>1. Seen' = Seen
      BY <1>4 DEF setQueue, Dial, DialPanics, OpenChannel, ChannelPanics, QueueDeclare,
        PublishWithContext, Close, Finishes, far, Seen
    <2>2. CASE PublishWithContext(p)
      BY <1>0, <1>1, <2>1, <2>2 DEF PublishWithContext
    <2>3. CASE Close(p)
      BY <1>0, <1>1, <2>1, <2>3 DEF Close, Finishes
    <2>4. CASE Dial(p) \/ DialPanics(p) \/ OpenChannel(p) \/ ChannelPanics(p) \/ QueueDeclare(p)
      BY <1>0, <1>1, <2>1, <2>4
      DEF Dial, DialPanics, OpenChannel, ChannelPanics, QueueDeclare
    <2> QED
      BY <1>4, <2>2, <2>3, <2>4 DEF setQueue
  <1>5. CASE BrokerStarts \/ Attach \/ UNCHANGED vars
    BY <1>1, <1>5 DEF BrokerStarts, Attach, vars, far, Seen
  <1> QED
    BY <1>2, <1>3, <1>4, <1>5, RouteKeepsOrder DEF Next

-----------------------------------------------------------------------------
(* Theorems *)

\* The invariant holds in every state of every behaviour.
THEOREM PublisherInductive == Spec => []PublisherInv
  <1>1. PublisherInv /\ [Next]_vars => PublisherInv'
    BY NextType, NextFrames, NextOrder DEF PublisherInv, OrderInv
  <1> QED
    BY <1>1, InitPublisherInv, PTL DEF Spec

\* Every variable of the publisher keeps its type; a publisher never has more
\* than one frame on the way.
THEOREM TypeCorrect == Spec => []TypeOK
  <1>1. PublisherInv => TypeOK
    BY DEF PublisherInv
  <1> QED
    BY <1>1, PublisherInductive, PTL

\* The broker sees a publication for a missing queue only after the reader
\* has left or the broker has failed (queueHandler.go:91-116).
THEOREM Routed == Spec => []PublicationsAreRouted
  <1>1. PublisherInv => PublicationsAreRouted
    BY DEF PublisherInv, FramesInv, DeclaredInv, PublicationsAreRouted
  <1> QED
    BY <1>1, PublisherInductive, PTL

\* What a publisher sends reaches the reader in order and once, however many
\* publishers there are and whatever fails (queueHandler.go:83, 89).
THEOREM OrderKept == Spec => []PublishersKeepTheirOrder
  <1>1. PublisherInv => PublishersKeepTheirOrder
    BY DEF PublisherInv
  <1> QED
    BY <1>1, PublisherInductive, PTL
================================================================================

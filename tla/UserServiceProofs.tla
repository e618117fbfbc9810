--------------------------- MODULE UserServiceProofs ---------------------------
(***************************************************************************)
(* Machine-checked proofs about UserService, for any requests, any number  *)
(* of failures of the broker and any number of restarts of the process.    *)
(***************************************************************************)
EXTENDS UserService, SequenceTheorems, TLAPS

-----------------------------------------------------------------------------
(* Queues as sequences without repetition *)

Distinct(s) == \A i, j \in 1..Len(s) : s[i] = s[j] => i = j

\* What is in a sequence from which the head is taken.
LEMMA TakingTheHead ==
  ASSUME NEW S, NEW s \in Seq(S), s # << >>
  PROVE  /\ Head(s) \in S /\ Tail(s) \in Seq(S)
         /\ \A x : InRange(x, s) <=> x = Head(s) \/ InRange(x, Tail(s))
         /\ Distinct(s) => Distinct(Tail(s)) /\ ~InRange(Head(s), Tail(s))
  <1>1. /\ Head(s) = s[1] /\ Head(s) \in S /\ Tail(s) \in Seq(S)
        /\ Len(s) \in Nat \ {0} /\ Len(Tail(s)) = Len(s) - 1
        /\ \A i \in 1..Len(Tail(s)) : Tail(s)[i] = s[i + 1]
    BY HeadTailProperties, EmptySeq
  <1>2. ASSUME NEW x PROVE InRange(x, s) <=> x = Head(s) \/ InRange(x, Tail(s))
    <2>1. ASSUME NEW i \in 1..Len(s), s[i] = x
          PROVE  x = Head(s) \/ InRange(x, Tail(s))
      <3>1. CASE i = 1
        BY <1>1, <2>1, <3>1
      <3>2. CASE i # 1
        <4>1. i - 1 \in 1..Len(Tail(s)) /\ Tail(s)[i - 1] = x
          BY <1>1, <2>1, <3>2
        <4> QED
          BY <4>1 DEF InRange
      <3> QED
        BY <3>1, <3>2
    <2>2. ASSUME NEW i \in 1..Len(Tail(s)), Tail(s)[i] = x PROVE InRange(x, s)
      <3>1. i + 1 \in 1..Len(s) /\ s[i + 1] = x
        BY <1>1, <2>2
      <3> QED
        BY <3>1 DEF InRange
    <2>3. x = Head(s) => InRange(x, s)
      BY <1>1 DEF InRange
    <2> QED
      BY <2>1, <2>2, <2>3 DEF InRange
  <1>3. Distinct(s) => Distinct(Tail(s)) /\ ~InRange(Head(s), Tail(s))
    BY <1>1 DEF Distinct, InRange
  <1> QED
    BY <1>1, <1>2, <1>3

\* What is in a sequence to which e is appended.
LEMMA Appending ==
  ASSUME NEW S, NEW s \in Seq(S), NEW e \in S
  PROVE  /\ Append(s, e) \in Seq(S)
         /\ \A x : InRange(x, Append(s, e)) <=> InRange(x, s) \/ x = e
         /\ Distinct(s) /\ ~InRange(e, s) => Distinct(Append(s, e))
  <1> DEFINE t == Append(s, e)
  <1>1. /\ t \in Seq(S) /\ Len(s) \in Nat /\ Len(t) = Len(s) + 1
        /\ \A i \in 1..Len(s) : t[i] = s[i]
        /\ t[Len(s) + 1] = e
    BY AppendProperties, LenProperties
  <1> HIDE DEF t
  <1>2. \A x : InRange(x, t) <=> InRange(x, s) \/ x = e
    BY <1>1 DEF InRange
  <1>3. Distinct(s) /\ ~InRange(e, s) => Distinct(t)
    BY <1>1 DEF Distinct, InRange
  <1> QED
    BY <1>1, <1>2, <1>3 DEF t

\* There is nothing in the empty queue.
LEMMA EmptyQueue == Distinct(<< >>) /\ \A x : ~InRange(x, << >>)
  BY DEF Distinct, InRange

\* The stages of a request: at least one, and each a stage.
LEMMA Programs ==
  ASSUME NEW r \in Requests
  PROVE  /\ Program(r) \in Seq(Stages)
         /\ Len(Program(r)) \in Nat \ {0}
  <1>1. QueueOf(r) \in Stages
    BY ServiceAssumption DEF ServiceAssumption, Stages
  <1>2. <<"metadata", "notes", "follows">> \in Seq(Stages)
    BY DEF Stages
  <1>3. CASE QueueOf(r) = "user_pub_key"
    BY <1>2, <1>3 DEF Program
  <1>4. CASE QueueOf(r) # "user_pub_key"
    BY <1>1, <1>4 DEF Program
  <1> QED
    BY <1>3, <1>4

-----------------------------------------------------------------------------
(* The way of a request *)

\* Requests are on their own queue, once, in the broker or in the client.
LinesInv ==
  \A q \in Used :
    /\ Distinct(queue[q]) /\ Distinct(buffer[q])
    /\ \A r \in Requests :
         /\ InRange(r, queue[q]) => ~InRange(r, buffer[q])
         /\ InRange(r, queue[q]) \/ InRange(r, buffer[q]) =>
              QueueOf(r) = q /\ r \in asked

\* What a consumer is at work on has left its queue and is not done.
CurrentInv ==
  \A q \in Used :
    current[q] # None =>
      /\ QueueOf(current[q]) = q
      /\ current[q] \in asked
      /\ ~Waits(current[q])
      /\ Len(started[current[q]]) < Len(Program(current[q]))

\* The stages that were started are the first ones of the program; none were
\* before the request is taken up.
StartedInv ==
  \A r \in Requests :
    /\ started[r] = SubSeq(Program(r), 1, Len(started[r]))
    /\ r \notin asked \/ Waits(r) => started[r] = << >>

ServiceInv == TypeOK /\ LinesInv /\ CurrentInv /\ StartedInv

\* A request is on a queue that is used.
LEMMA QueuesAreUsed == \A r \in Requests : QueueOf(r) \in Used
  BY DEF Used

\* The words that a well-formed request brings to the sessions.
LEMMA SessionWords ==
  ASSUME NEW r \in Requests, WellFormed(r), QueueOf(r) # "nostr_entity"
  PROVE  KeyOf(r) \in Words /\ UUID(r) \in Words
  <1>1. /\ Parts(r) \in Seq(Words) /\ Len(Parts(r)) \in Nat /\ NoWord \in Words
        /\ \A i \in 1..Len(Parts(r)) : Parts(r)[i] \in Words
    BY ServiceAssumption, LenProperties, ElementOfSeq DEF ServiceAssumption
  <1>2. /\ Len(Parts(r)) >= 2
        /\ QueueOf(r) = "follow_notes" => Len(Parts(r)) = 3
    BY <1>1 DEF WellFormed
  <1>3. UUID(r) \in Words
    BY <1>1, <1>2 DEF UUID
  <1>4. PubKey(r) \in Words /\ SearchText(r) \in Words
    BY <1>1, <1>2 DEF PubKey, SearchText
  <1> QED
    BY <1>3, <1>4 DEF KeyOf

\* What the range loop takes is the head of its buffer, and it is idle.
LEMMA TakenFromTheLine ==
  ASSUME ServiceInv, NEW q \in Used, NEW r \in Requests, NextDelivery(q, r)
  PROVE  /\ QueueOf(r) = q /\ r \in asked /\ Waits(r) /\ started[r] = << >>
         /\ current[q] = None
         /\ buffer' \in [Used -> Seq(Requests)]
         /\ UNCHANGED <<queue, asked, started>>
         /\ \A p \in Used : Distinct(buffer[p])'
         /\ \A p \in Used, x \in Requests :
              InRange(x, buffer[p])' <=> InRange(x, buffer[p]) /\ x # r
         /\ \A x \in Requests : Waits(x)' <=> Waits(x) /\ x # r
  <1>1. /\ buffer \in [Used -> Seq(Requests)] /\ buffer[q] # << >> /\ r = Head(buffer[q])
        /\ buffer' = [buffer EXCEPT ![q] = Tail(buffer[q])]
        /\ current[q] = None /\ UNCHANGED <<queue, asked, started>>
    BY DEF ServiceInv, TypeOK, NextDelivery, world
  <1>2. /\ Tail(buffer[q]) \in Seq(Requests)
        /\ \A x : InRange(x, buffer[q]) <=> x = r \/ InRange(x, Tail(buffer[q]))
        /\ Distinct(Tail(buffer[q])) /\ ~InRange(r, Tail(buffer[q]))
    BY <1>1, TakingTheHead DEF ServiceInv, LinesInv
  <1>3. QueueOf(r) = q /\ r \in asked /\ Waits(r) /\ started[r] = << >>
    BY <1>2 DEF ServiceInv, LinesInv, StartedInv, Waits
  <1>4. \A p \in Used \ {q} : ~InRange(r, buffer[p]) /\ ~InRange(r, queue[p])
    BY <1>3 DEF ServiceInv, LinesInv
  <1>5. \A p \in Used : Distinct(buffer[p])'
    BY <1>1, <1>2 DEF ServiceInv, LinesInv
  <1>6. \A p \in Used, x \in Requests :
          InRange(x, buffer[p])' <=> InRange(x, buffer[p]) /\ x # r
    BY <1>1, <1>2, <1>4
  <1>7. ~InRange(r, queue[q])
    BY <1>2 DEF ServiceInv, LinesInv
  <1>8. \A x \in Requests : Waits(x)' <=> Waits(x) /\ x # r
    BY <1>1, <1>3, <1>6, <1>7, QueuesAreUsed DEF Waits
  <1> QED
    BY <1>1, <1>2, <1>3, <1>5, <1>6, <1>8

\* What the broker hands over waits in the client.
LEMMA DeliveredToTheLine ==
  ASSUME ServiceInv, NEW q \in Used, Deliver(q)
  PROVE  /\ queue' \in [Used -> Seq(Requests)] /\ buffer' \in [Used -> Seq(Requests)]
         /\ LinesInv'
         /\ \A x \in Requests : Waits(x)' <=> Waits(x)
  <1> DEFINE h == Head(queue[q])
  <1>1. /\ queue \in [Used -> Seq(Requests)] /\ buffer \in [Used -> Seq(Requests)]
        /\ queue[q] # << >> /\ asked' = asked
        /\ queue' = [queue EXCEPT ![q] = Tail(queue[q])]
        /\ buffer' = [buffer EXCEPT ![q] = Append(buffer[q], h)]
    BY DEF ServiceInv, TypeOK, Deliver, HandOver
  <1>2. /\ h \in Requests /\ Tail(queue[q]) \in Seq(Requests)
        /\ \A x : InRange(x, queue[q]) <=> x = h \/ InRange(x, Tail(queue[q]))
        /\ Distinct(Tail(queue[q])) /\ ~InRange(h, Tail(queue[q]))
    BY <1>1, TakingTheHead DEF ServiceInv, LinesInv
  <1> HIDE DEF h
  <1>3. /\ Append(buffer[q], h) \in Seq(Requests)
        /\ \A x : InRange(x, Append(buffer[q], h)) <=> InRange(x, buffer[q]) \/ x = h
        /\ Distinct(Append(buffer[q], h))
    <2>1. Distinct(buffer[q]) /\ ~InRange(h, buffer[q])
      BY <1>2 DEF ServiceInv, LinesInv
    <2> QED
      BY <1>1, <1>2, <2>1, Appending
  <1>4. LinesInv'
    <2>1. ASSUME NEW p \in Used
          PROVE  /\ Distinct(queue[p])' /\ Distinct(buffer[p])'
                 /\ \A r \in Requests :
                      /\ InRange(r, queue[p])' => ~InRange(r, buffer[p])'
                      /\ InRange(r, queue[p])' \/ InRange(r, buffer[p])' =>
                           InRange(r, queue[p]) \/ InRange(r, buffer[p])
      BY <1>1, <1>2, <1>3 DEF ServiceInv, LinesInv
    <2> QED
      BY <1>1, <2>1 DEF ServiceInv, LinesInv
  <1>5. \A x \in Requests : Waits(x)' <=> Waits(x)
    BY <1>1, <1>2, <1>3, QueuesAreUsed DEF Waits
  <1> QED
    BY <1>1, <1>2, <1>3, <1>4, <1>5

\* What the application sends waits in the broker.
LEMMA AskedToTheLine ==
  ASSUME ServiceInv, NEW r \in Requests, Ask(r)
  PROVE  /\ queue' \in [Used -> Seq(Requests)]
         /\ LinesInv'
         /\ ~Waits(r)
         /\ \A x \in Requests : Waits(x)' <=> Waits(x) \/ x = r
  <1> DEFINE q == QueueOf(r)
  <1>1. /\ queue \in [Used -> Seq(Requests)] /\ r \notin asked
        /\ asked' = asked \cup {r} /\ buffer' = buffer
        /\ queue' = [queue EXCEPT ![q] = Append(queue[q], r)]
    BY DEF ServiceInv, TypeOK, Ask
  <1>2. q \in Used /\ QueueOf(r) = q
    BY QueuesAreUsed
  <1> HIDE DEF q
  <1>3. \A p \in Used : ~InRange(r, queue[p]) /\ ~InRange(r, buffer[p])
    BY <1>1 DEF ServiceInv, LinesInv
  <1>4. /\ Append(queue[q], r) \in Seq(Requests)
        /\ \A x : InRange(x, Append(queue[q], r)) <=> InRange(x, queue[q]) \/ x = r
        /\ Distinct(Append(queue[q], r))
    <2>1. Distinct(queue[q])
      BY <1>2 DEF ServiceInv, LinesInv
    <2> QED
      BY <1>1, <1>2, <1>3, <2>1, Appending
  <1>5. LinesInv'
    <2>1. ASSUME NEW p \in Used
          PROVE  /\ Distinct(queue[p])' /\ Distinct(buffer[p])'
                 /\ \A x \in Requests :
                      InRange(x, queue[p])' <=> InRange(x, queue[p]) \/ (x = r /\ p = q)
      BY <1>1, <1>2, <1>4 DEF ServiceInv, LinesInv
    <2> QED
      BY <1>1, <1>2, <1>3, <2>1 DEF ServiceInv, LinesInv
  <1>6. ~Waits(r) /\ \A x \in Requests : Waits(x)' <=> Waits(x) \/ x = r
    BY <1>1, <1>2, <1>3, <1>4, QueuesAreUsed DEF Waits
  <1> QED
    BY <1>1, <1>2, <1>4, <1>5, <1>6

\* The next stage of a request at work.
LEMMA NextStageStarts ==
  ASSUME ServiceInv, NEW q \in Used, FanOut(q), NEW r, r = current[q]
  PROVE  LET n == Len(started[r]) + 1 IN
         /\ r \in Requests /\ QueueOf(r) = q /\ r \in asked /\ ~Waits(r)
         /\ n \in 1..Len(Program(r))
         /\ started' = [started EXCEPT ![r] = SubSeq(Program(r), 1, n)]
         /\ SubSeq(Program(r), 1, n) \in Seq(Stages)
         /\ Len(SubSeq(Program(r), 1, n)) = n
         /\ current' = [current EXCEPT ![q] = IF n = Len(Program(r)) THEN None ELSE r]
         /\ UNCHANGED <<queue, buffer, asked>>
  <1> DEFINE n == Len(started[r]) + 1
  <1>1. /\ current \in [Used -> Requests \cup {None}] /\ r # None /\ r \in Requests
        /\ started \in [Requests -> Seq(Stages)] /\ Len(started[r]) \in Nat
        /\ started' = [started EXCEPT ![r] = started[r] \o NextStage(r)]
        /\ current' = [current EXCEPT ![q] = IF n = Len(Program(r)) THEN None ELSE r]
        /\ UNCHANGED <<queue, buffer, asked>>
    BY DEF ServiceInv, TypeOK, FanOut, StartNext, world
  <1>2. /\ QueueOf(r) = q /\ r \in asked /\ ~Waits(r)
        /\ Len(started[r]) < Len(Program(r))
    BY <1>1 DEF ServiceInv, CurrentInv
  <1>3. Program(r) \in Seq(Stages) /\ n \in 1..Len(Program(r)) /\ n - 1 = Len(started[r])
    BY <1>1, <1>2, Programs
  <1>4. SubSeq(Program(r), 1, n) = SubSeq(Program(r), 1, n - 1) \o <<Program(r)[n]>>
    <2>1. 1 \in 1..Len(Program(r))
      BY <1>3
    <2> HIDE DEF n
    <2> QED
      BY <1>3, <2>1, SubSeqRecursiveSecond
  <1>5. started[r] \o NextStage(r) = SubSeq(Program(r), 1, n)
    BY <1>1, <1>3, <1>4 DEF ServiceInv, StartedInv, NextStage
  <1>6. \A i \in 1..n : Program(r)[i] \in Stages
    BY <1>3, ElementOfSeq
  <1>7. SubSeq(Program(r), 1, n) \in Seq(Stages) /\ Len(SubSeq(Program(r), 1, n)) = n
    <2>1. 1 \in Int /\ n \in Int /\ 1 <= n /\ n - 1 + 1 = n
      BY <1>3
    <2> QED
      BY ONLY <1>6, <2>1, SubSeqProperties
  <1> QED
    BY <1>1, <1>2, <1>3, <1>5, <1>7

-----------------------------------------------------------------------------
(* The invariant *)

\* Nothing has been asked yet.
LEMMA InitServiceInv == Init => ServiceInv
  <1> SUFFICES ASSUME Init PROVE ServiceInv
    OBVIOUS
  <1>1. TypeOK
    <2>1. << >> \in Seq(Requests) /\ << >> \in Seq(Stages)
          /\ << >> \in Seq([req : Requests, fresh : BOOLEAN]) /\ Len(<< >>) = 0
      BY EmptySeq
    <2>2. ASSUME NEW r \in Requests PROVE 0 <= Len(Program(r))
      <3>1. Len(Program(r)) \in Nat \ {0}
        BY Programs
      <3> QED
        BY <3>1
    <2> QED
      BY <2>1, <2>2, ServiceAssumption DEF ServiceAssumption, Init, TypeOK, Nothing
  <1>2. LinesInv /\ CurrentInv
    BY EmptyQueue DEF Init, LinesInv, CurrentInv, Nothing
  <1>3. StartedInv
    <2>1. \A r : SubSeq(Program(r), 1, 0) = << >> /\ Len(<< >>) = 0
      BY SubSeqEmpty
    <2> QED
      BY <2>1 DEF Init, StartedInv
  <1> QED
    BY <1>1, <1>2, <1>3 DEF ServiceInv

\* Every step keeps the types.
LEMMA NextType == ServiceInv /\ [Next]_vars => TypeOK'
  <1> SUFFICES ASSUME ServiceInv, [Next]_vars PROVE TypeOK'
    OBVIOUS
  <1>0. TypeOK
    BY DEF ServiceInv
  <1> USE ServiceAssumption DEF ServiceAssumption
  <1>n. Nothing \in [Used -> Seq(Requests)]
    BY EmptySeq DEF Nothing
  <1>1. ASSUME NEW r \in Requests, Ask(r) PROVE TypeOK'
    <2>1. queue' \in [Used -> Seq(Requests)]
      BY <1>1, AskedToTheLine
    <2> QED
      BY <1>0, <1>1, <2>1 DEF TypeOK, Ask, sessions
  <1>2. CASE BrokerStops
    <2>1. outages' \in 0..MaxOutages /\ queue' \in [Used -> Seq(Requests)]
      BY <1>0, <1>n, <1>2 DEF TypeOK, BrokerStops
    <2>2. consumer' \in [Used -> {"start", "wait", "spin", "deaf", "off"}]
      BY <1>0, <1>2 DEF TypeOK, BrokerStops
    <2> QED
      BY <1>0, <1>n, <1>2, <2>1, <2>2 DEF TypeOK, BrokerStops, sessions
  <1>3. CASE BrokerStarts
    BY <1>0, <1>3 DEF TypeOK, BrokerStarts, sessions
  <1>4. CASE Crash
    <2>1. << >> \in Seq([req : Requests, fresh : BOOLEAN])
      BY EmptySeq
    <2> QED
      BY <1>0, <1>n, <1>4, <2>1 DEF TypeOK, Crash
  <1>5. CASE Restart
    BY <1>0, <1>5 DEF TypeOK, Restart, world, sessions
  <1>6. ASSUME NEW q \in Used, Connect(q) PROVE TypeOK'
    BY <1>0, <1>6 DEF TypeOK, Connect, world, sessions
  <1>7. ASSUME NEW q \in Used, Deliver(q) PROVE TypeOK'
    <2>1. queue' \in [Used -> Seq(Requests)] /\ buffer' \in [Used -> Seq(Requests)]
      BY <1>7, DeliveredToTheLine
    <2> QED
      BY <1>0, <1>7, <2>1 DEF TypeOK, Deliver, HandOver, sessions
  <1>8. ASSUME NEW q \in Used, NEW r \in Requests,
               Discard(q, r) \/ Skip(q, r) \/ Accept(q, r) \/ AcceptEntity(q, r)
        PROVE  TypeOK'
    <2>1. NextDelivery(q, r)
      BY <1>8 DEF Discard, Skip, Accept, AcceptEntity
    <2>2. buffer' \in [Used -> Seq(Requests)] /\ QueueOf(r) = q
      BY <2>1, TakenFromTheLine
    <2>3. UNCHANGED <<broker, queue, asked, outages, crashes, consumer, started>>
      BY <2>1 DEF NextDelivery, world
    <2>4. current' \in [Used -> Requests \cup {None}]
      BY <1>0, <1>8 DEF TypeOK, Discard, Skip, Accept, AcceptEntity
    <2>5. /\ pubKeyUUID' \in [Words -> Words \cup {None}]
          /\ verdicts' \in Seq([req : Requests, fresh : BOOLEAN])
      <3>1. CASE UNCHANGED sessions
        BY <1>0, <3>1 DEF TypeOK, sessions
      <3>2. CASE checkAndUpdateUUID(r) /\ WellFormed(r) /\ q # "nostr_entity"
        <4>1. KeyOf(r) \in Words /\ UUID(r) \in Words
          BY <2>2, <3>2, SessionWords
        <4>2. [req |-> r, fresh |-> Fresh(r)] \in [req : Requests, fresh : BOOLEAN]
          BY DEF Fresh
        <4> HIDE DEF Fresh
        <4>3. verdicts' \in Seq([req : Requests, fresh : BOOLEAN])
          BY <1>0, <3>2, <4>2, AppendProperties DEF TypeOK, checkAndUpdateUUID
        <4> QED
          BY <1>0, <3>2, <4>1, <4>3 DEF TypeOK, checkAndUpdateUUID
      <3> QED
        BY <1>8, <3>1, <3>2 DEF Discard, Skip, Accept, AcceptEntity
    <2> QED
      BY <1>0, <2>2, <2>3, <2>4, <2>5 DEF TypeOK
  <1>9. ASSUME NEW q \in Used, FanOut(q) PROVE TypeOK'
    <2>1. PICK r : r = current[q]
      OBVIOUS
    <2> DEFINE n == Len(started[r]) + 1
    <2> DEFINE s == SubSeq(Program(r), 1, n)
    <2>3. /\ r \in Requests /\ n \in 1..Len(Program(r)) /\ s \in Seq(Stages) /\ Len(s) = n
          /\ started' = [started EXCEPT ![r] = s]
          /\ current' = [current EXCEPT ![q] = IF n = Len(Program(r)) THEN None ELSE r]
      BY <1>9, <2>1, NextStageStarts
    <2> HIDE DEF n, s
    <2>2. /\ started' \in [Requests -> Seq(Stages)]
          /\ \A x \in Requests : Len(started'[x]) <= Len(Program(x))
          /\ current' \in [Used -> Requests \cup {None}]
      BY <1>0, <2>3 DEF TypeOK
    <2> QED
      BY <1>0, <1>9, <2>2 DEF TypeOK, FanOut, StartNext, world, sessions
  <1>10. CASE UNCHANGED vars
    BY <1>0, <1>10 DEF TypeOK, vars, world, sessions
  <1> QED
    BY <1>1, <1>2, <1>3, <1>4, <1>5, <1>6, <1>7, <1>8, <1>9, <1>10 DEF Next, Take

\* Every step keeps the requests on their lines.
LEMMA NextLines == ServiceInv /\ [Next]_vars => LinesInv'
  <1> SUFFICES ASSUME ServiceInv, [Next]_vars PROVE LinesInv'
    OBVIOUS
  <1>1. ASSUME NEW r \in Requests, Ask(r) PROVE LinesInv'
    BY <1>1, AskedToTheLine
  <1>2. CASE BrokerStops \/ Crash
    <2>1. /\ \A q \in Used : queue'[q] \in {queue[q], << >>} /\ buffer'[q] = << >>
          /\ asked' = asked
      BY <1>2 DEF BrokerStops, Crash, Nothing
    <2> QED
      BY <2>1, EmptyQueue DEF ServiceInv, LinesInv
  <1>3. ASSUME NEW q \in Used, Deliver(q) PROVE LinesInv'
    BY <1>3, DeliveredToTheLine
  <1>4. ASSUME NEW q \in Used, NEW r \in Requests, NextDelivery(q, r)
        PROVE  LinesInv'
    <2>1. /\ UNCHANGED <<queue, asked>>
          /\ \A p \in Used : Distinct(buffer[p])'
          /\ \A p \in Used, x \in Requests :
               InRange(x, buffer[p])' <=> InRange(x, buffer[p]) /\ x # r
      BY <1>4, TakenFromTheLine
    <2> QED
      BY <2>1 DEF ServiceInv, LinesInv
  <1>5. ASSUME UNCHANGED <<queue, buffer, asked>> PROVE LinesInv'
    BY <1>5 DEF ServiceInv, LinesInv
  <1>6. CASE \/ BrokerStarts \/ Restart \/ UNCHANGED vars
             \/ \E q \in Used : Connect(q) \/ FanOut(q)
    BY <1>5, <1>6 DEF BrokerStarts, Restart, Connect, FanOut, StartNext, vars, world
  <1> QED
    BY <1>1, <1>2, <1>3, <1>4, <1>5, <1>6
    DEF Next, Take, Discard, Skip, Accept, AcceptEntity

\* What a step that starts no stage and takes nothing up does to the requests:
\* none goes back to its queue and none gets to work.
Quiet ==
  /\ UNCHANGED started
  /\ asked \subseteq asked'
  /\ \A q \in Used : current'[q] \in {current[q], None}
  /\ \A x \in Requests : Waits(x)' => Waits(x) \/ x \notin asked

\* Such a step keeps what is known of the requests.
LEMMA QuietKeepsWork == ServiceInv /\ Quiet => CurrentInv' /\ StartedInv'
  <1> SUFFICES ASSUME ServiceInv, Quiet PROVE CurrentInv' /\ StartedInv'
    OBVIOUS
  <1>1. CurrentInv'
    <2> SUFFICES ASSUME NEW q \in Used, current'[q] # None
                 PROVE  /\ QueueOf(current'[q]) = q
                        /\ current'[q] \in asked'
                        /\ ~Waits(current[q])'
                        /\ Len(started'[current'[q]]) < Len(Program(current'[q]))
      BY DEF CurrentInv
    <2>1. current'[q] = current[q] /\ current[q] \in Requests
      BY DEF Quiet, ServiceInv, TypeOK
    <2> QED
      BY <2>1 DEF Quiet, ServiceInv, CurrentInv
  <1>2. StartedInv'
    BY DEF Quiet, ServiceInv, StartedInv
  <1> QED
    BY <1>1, <1>2

\* The steps that are quiet.
LEMMA QuietSteps ==
  ASSUME ServiceInv,
         \/ \E r \in Requests : Ask(r)
         \/ BrokerStops \/ BrokerStarts \/ Crash \/ Restart
         \/ \E q \in Used : Connect(q) \/ Deliver(q)
         \/ \E q \in Used, r \in Requests : Discard(q, r) \/ Skip(q, r)
         \/ UNCHANGED vars
  PROVE  Quiet
  <1>1. ASSUME NEW r \in Requests, Ask(r) PROVE Quiet
    <2>1. \A x \in Requests : Waits(x)' <=> Waits(x) \/ x = r
      BY <1>1, AskedToTheLine
    <2> QED
      BY <1>1, <2>1 DEF Ask, Quiet
  <1>2. CASE BrokerStops \/ Crash
    <2>1. \A q \in Used : queue'[q] \in {queue[q], << >>} /\ buffer'[q] = << >>
      BY <1>2 DEF BrokerStops, Crash, Nothing
    <2>2. \A x \in Requests : Waits(x)' => Waits(x)
      BY <2>1, QueuesAreUsed, EmptyQueue DEF Waits
    <2> QED
      BY <1>2, <2>2 DEF BrokerStops, Crash, Quiet
  <1>3. ASSUME NEW q \in Used, Deliver(q) PROVE Quiet
    <2>1. \A x \in Requests : Waits(x)' <=> Waits(x)
      BY <1>3, DeliveredToTheLine
    <2> QED
      BY <1>3, <2>1 DEF Deliver, HandOver, Quiet
  <1>4. ASSUME NEW q \in Used, NEW r \in Requests, Discard(q, r) \/ Skip(q, r)
        PROVE  Quiet
    <2>1. NextDelivery(q, r) /\ UNCHANGED current
      BY <1>4 DEF Discard, Skip
    <2>2. /\ UNCHANGED <<asked, started>>
          /\ \A x \in Requests : Waits(x)' <=> Waits(x) /\ x # r
      BY <2>1, TakenFromTheLine
    <2> QED
      BY <2>1, <2>2 DEF Quiet
  <1>5. ASSUME UNCHANGED <<queue, buffer, asked, current, started>> PROVE Quiet
    BY <1>5 DEF Quiet, Waits
  <1>6. CASE BrokerStarts \/ Restart \/ UNCHANGED vars \/ \E q \in Used : Connect(q)
    BY <1>5, <1>6 DEF BrokerStarts, Restart, Connect, vars, world
  <1> QED
    BY <1>1, <1>2, <1>3, <1>4, <1>6

\* What is taken up leaves its line for good.
LEMMA TakenUp ==
  ASSUME ServiceInv, NEW q \in Used, NEW r \in Requests, Accept(q, r) \/ AcceptEntity(q, r)
  PROVE  /\ QueueOf(r) = q /\ r \in asked /\ Waits(r) /\ started[r] = << >>
         /\ current[q] = None /\ current' = [current EXCEPT ![q] = r]
         /\ UNCHANGED <<asked, started>>
         /\ \A x \in Requests : Waits(x)' <=> Waits(x) /\ x # r
  <1>1. NextDelivery(q, r) /\ current' = [current EXCEPT ![q] = r]
    BY DEF Accept, AcceptEntity
  <1> QED
    BY <1>1, TakenFromTheLine

\* Every step keeps what is known of the requests.
LEMMA NextWork == ServiceInv /\ [Next]_vars => CurrentInv' /\ StartedInv'
  <1> SUFFICES ASSUME ServiceInv, [Next]_vars PROVE CurrentInv' /\ StartedInv'
    OBVIOUS
  <1>0. current \in [Used -> Requests \cup {None}] /\ started \in [Requests -> Seq(Stages)]
    BY DEF ServiceInv, TypeOK
  <1>1. ASSUME NEW q \in Used, NEW r \in Requests, Accept(q, r) \/ AcceptEntity(q, r)
        PROVE  CurrentInv' /\ StartedInv'
    <2>1. /\ QueueOf(r) = q /\ r \in asked /\ started[r] = << >>
          /\ current' = [current EXCEPT ![q] = r]
          /\ UNCHANGED <<asked, started>>
          /\ \A x \in Requests : Waits(x)' <=> Waits(x) /\ x # r
      BY <1>1, TakenUp
    <2>2. Len(started[r]) < Len(Program(r))
      BY <2>1, Programs, EmptySeq
    <2>3. ASSUME NEW p \in Used, current'[p] # None
          PROVE  /\ QueueOf(current'[p]) = p
                 /\ current'[p] \in asked'
                 /\ ~Waits(current[p])'
                 /\ Len(started'[current'[p]]) < Len(Program(current'[p]))
      <3>1. CASE p = q
        BY <1>0, <2>1, <2>2, <3>1
      <3>2. CASE p # q
        BY <1>0, <2>1, <2>3, <3>2 DEF ServiceInv, CurrentInv
      <3> QED
        BY <3>1, <3>2
    <2>4. StartedInv'
      BY <2>1 DEF ServiceInv, StartedInv
    <2> QED
      BY <2>3, <2>4 DEF CurrentInv
  <1>2. ASSUME NEW q \in Used, FanOut(q) PROVE CurrentInv' /\ StartedInv'
    <2>1. PICK r : r = current[q]
      OBVIOUS
    <2> DEFINE n == Len(started[r]) + 1
    <2> DEFINE s == SubSeq(Program(r), 1, n)
    <2>2. /\ r \in Requests /\ QueueOf(r) = q /\ r \in asked /\ ~Waits(r)
          /\ n \in 1..Len(Program(r)) /\ Len(s) = n
          /\ started' = [started EXCEPT ![r] = s]
          /\ current' = [current EXCEPT ![q] = IF n = Len(Program(r)) THEN None ELSE r]
          /\ UNCHANGED <<queue, buffer, asked>>
      BY <1>2, <2>1, NextStageStarts
    <2>3. Len(Program(r)) \in Nat
      BY <2>2, Programs
    <2> HIDE DEF n
    <2>4. \A x \in Requests : Waits(x)' <=> Waits(x)
      BY <2>2 DEF Waits
    <2>5. ASSUME NEW p \in Used, current'[p] # None
          PROVE  /\ QueueOf(current'[p]) = p
                 /\ current'[p] \in asked'
                 /\ ~Waits(current[p])'
                 /\ Len(started'[current'[p]]) < Len(Program(current'[p]))
      <3>1. CASE p = q
        <4>1. current'[p] = r /\ n # Len(Program(r)) /\ started'[r] = s
          BY <1>0, <2>2, <2>5, <3>1
        <4> QED
          BY <2>2, <2>3, <2>4, <3>1, <4>1
      <3>2. CASE p # q
        <4>1. current'[p] = current[p] /\ current[p] \in Requests
          BY <1>0, <2>2, <2>5, <3>2
        <4>2. QueueOf(current[p]) = p /\ current[p] # r
          BY <2>2, <2>5, <3>2, <4>1 DEF ServiceInv, CurrentInv
        <4> QED
          BY <1>0, <2>2, <2>4, <2>5, <4>1, <4>2 DEF ServiceInv, CurrentInv
      <3> QED
        BY <3>1, <3>2
    <2>6. StartedInv'
      <3>1. ASSUME NEW x \in Requests
            PROVE  /\ started'[x] = SubSeq(Program(x), 1, Len(started'[x]))
                   /\ x \notin asked' \/ Waits(x)' => started'[x] = << >>
        BY <1>0, <2>2, <2>4 DEF ServiceInv, StartedInv
      <3> QED
        BY <3>1 DEF StartedInv
    <2> QED
      BY <2>5, <2>6 DEF CurrentInv
  <1> QED
    BY <1>1, <1>2, QuietSteps, QuietKeepsWork DEF Next, Take

\* Every step preserves the inductive invariant.
LEMMA NextServiceInv == ServiceInv /\ [Next]_vars => ServiceInv'
  BY NextType, NextLines, NextWork DEF ServiceInv

-----------------------------------------------------------------------------
(* The refinement *)

\* The states of a request, one at a time.
LEMMA StateOfRequest ==
  ASSUME NEW r \in Requests
  PROVE  /\ State(r) = "unsent" <=> r \notin asked
         /\ State(r) = "sent" <=> r \in asked /\ Waits(r)
         /\ State(r) = "taken" <=> r \in asked /\ ~Waits(r) /\ current[QueueOf(r)] = r
         /\ State(r) = "over" <=> r \in asked /\ ~Waits(r) /\ current[QueueOf(r)] # r
  <1>1. CASE r \notin asked
    <2>1. State(r) = "unsent"
      BY <1>1 DEF State
    <2> QED
      BY <1>1, <2>1
  <1>2. CASE r \in asked /\ Waits(r)
    <2>1. State(r) = "sent"
      BY <1>2 DEF State
    <2> QED
      BY <1>2, <2>1
  <1>3. CASE r \in asked /\ ~Waits(r) /\ current[QueueOf(r)] = r
    <2>1. State(r) = "taken"
      BY <1>3 DEF State
    <2> QED
      BY <1>3, <2>1
  <1>4. CASE r \in asked /\ ~Waits(r) /\ current[QueueOf(r)] # r
    <2>1. State(r) = "over"
      BY <1>4 DEF State
    <2> QED
      BY <1>4, <2>1
  <1> QED
    BY <1>1, <1>2, <1>3, <1>4

\* A step in which some requests that wait or are at work are over.
LEMMA Losing ==
  ASSUME UNCHANGED started,
         \A x \in Requests :
           \/ State(x)' = State(x)
           \/ State(x) \in {"sent", "taken"} /\ State(x)' = "over"
  PROVE  Promise!Next
  <1> DEFINE gone == {x \in Requests : State(x)' # State(x)}
  <1>1. gone \in SUBSET {x \in Requests : State(x) \in {"sent", "taken"}}
    OBVIOUS
  <1>2. \A x \in Requests : State(x)' = IF x \in gone THEN "over" ELSE State(x)
    OBVIOUS
  <1> HIDE DEF gone
  <1>3. Promise!Lose
    BY <1>1, <1>2 DEF Promise!Lose
  <1> QED
    BY <1>3 DEF Promise!Next

\* Every step maps to a step of the promise.
LEMMA StepRefines == ServiceInv /\ ServiceInv' /\ [Next]_vars => Promise!Next
  <1> SUFFICES ASSUME ServiceInv, ServiceInv', [Next]_vars PROVE Promise!Next
    OBVIOUS
  <1>0. current \in [Used -> Requests \cup {None}] /\ started \in [Requests -> Seq(Stages)]
    BY DEF ServiceInv, TypeOK
  <1>1. ASSUME NEW r \in Requests, Ask(r) PROVE Promise!Next
    <2>1. /\ ~Waits(r) /\ \A x \in Requests : Waits(x)' <=> Waits(x) \/ x = r
          /\ r \notin asked /\ asked' = asked \cup {r} /\ UNCHANGED <<current, started>>
      BY <1>1, AskedToTheLine DEF Ask
    <2>2. State(r) = "unsent" /\ State(r)' = "sent"
      BY <2>1, StateOfRequest DEF State
    <2>3. ASSUME NEW x \in Requests \ {r} PROVE State(x)' = State(x)
      BY <2>1 DEF State
    <2>4. Promise!Send(r)
      BY <2>1, <2>2, <2>3 DEF Promise!Send
    <2> QED
      BY <2>4 DEF Promise!Next
  <1>2. ASSUME NEW q \in Used, NEW r \in Requests, Accept(q, r) \/ AcceptEntity(q, r)
        PROVE  Promise!Next
    <2>1. /\ QueueOf(r) = q /\ r \in asked /\ Waits(r)
          /\ current[q] = None /\ current' = [current EXCEPT ![q] = r]
          /\ UNCHANGED <<asked, started>>
          /\ \A x \in Requests : Waits(x)' <=> Waits(x) /\ x # r
      BY <1>2, TakenUp
    <2>2. State(r) = "sent" /\ State(r)' = "taken"
      <3>1. State(r) = "sent"
        BY <2>1 DEF State
      <3>2. r \in asked' /\ ~Waits(r)' /\ current'[QueueOf(r)] = r
        BY <1>0, <2>1
      <3>3. State(r)' = "taken"
        BY <3>2 DEF State
      <3> QED
        BY <3>1, <3>3
    <2>3. ASSUME NEW x \in Requests \ {r} PROVE State(x)' = State(x)
      <3>1. current'[QueueOf(x)] = x <=> current[QueueOf(x)] = x
        BY <1>0, <2>1, ServiceAssumption, QueuesAreUsed DEF ServiceAssumption
      <3> QED
        BY <2>1, <3>1 DEF State
    <2>4. Promise!TakeUp(r)
      BY <2>1, <2>2, <2>3 DEF Promise!TakeUp
    <2> QED
      BY <2>4 DEF Promise!Next
  <1>3. ASSUME NEW q \in Used, FanOut(q) PROVE Promise!Next
    <2>1. PICK r : r = current[q]
      OBVIOUS
    <2> DEFINE n == Len(started[r]) + 1
    <2>2. /\ r \in Requests /\ QueueOf(r) = q /\ r \in asked /\ ~Waits(r)
          /\ started' = [started EXCEPT ![r] = SubSeq(Program(r), 1, n)]
          /\ current' = [current EXCEPT ![q] = IF n = Len(Program(r)) THEN None ELSE r]
          /\ UNCHANGED <<queue, buffer, asked>>
      BY <1>3, <2>1, NextStageStarts
    <2>3. State(r) = "taken" /\ State(r)' = IF n = Len(Program(r)) THEN "over" ELSE "taken"
      <3>1. r # None /\ current[q] = r
        BY <2>1, <2>2, ServiceAssumption DEF ServiceAssumption
      <3>2. current'[q] = IF n = Len(Program(r)) THEN None ELSE r
        BY <1>0, <2>2
      <3>3. Waits(r)' <=> Waits(r)
        BY <2>2 DEF Waits
      <3> HIDE DEF n
      <3> QED
        BY <2>2, <3>1, <3>2, <3>3 DEF State
    <2>4. ASSUME NEW x \in Requests \ {r} PROVE State(x)' = State(x)
      <3>1. current'[QueueOf(x)] = x <=> current[QueueOf(x)] = x
        BY <1>0, <2>1, <2>2, ServiceAssumption, QueuesAreUsed DEF ServiceAssumption
      <3> QED
        BY <2>2, <3>1 DEF State, Waits
    <2>5. Promise!StartStage(r)
      BY <2>2, <2>3, <2>4 DEF Promise!StartStage
    <2> QED
      BY <2>2, <2>5 DEF Promise!Next
  <1>4. ASSUME Quiet, asked' = asked PROVE Promise!Next
    <2>1. ASSUME NEW x \in Requests
          PROVE  \/ State(x)' = State(x)
                 \/ State(x) \in {"sent", "taken"} /\ State(x)' = "over"
      <3>1. current'[QueueOf(x)] = x => current[QueueOf(x)] = x
        BY <1>4, ServiceAssumption, QueuesAreUsed DEF Quiet, ServiceAssumption
      <3>2. Waits(x)' => Waits(x) \/ x \notin asked
        BY <1>4 DEF Quiet
      <3>3. current[QueueOf(x)] = x => ~Waits(x)
        BY ServiceAssumption, QueuesAreUsed DEF ServiceInv, CurrentInv, ServiceAssumption
      <3> QED
        BY <1>4, <3>1, <3>2, <3>3 DEF State
    <2> QED
      BY <1>4, <2>1, Losing DEF Quiet
  <1>5. ASSUME NEW q \in Used, NEW r \in Requests, NextDelivery(q, r) PROVE asked' = asked
    BY <1>5 DEF NextDelivery, world
  <1>6. CASE \/ BrokerStops \/ BrokerStarts \/ Crash \/ Restart
             \/ \E q \in Used : Connect(q) \/ Deliver(q)
             \/ \E q \in Used, r \in Requests : Discard(q, r) \/ Skip(q, r)
             \/ UNCHANGED vars
    <2>1. Quiet
      BY <1>6, QuietSteps
    <2>2. asked' = asked
      BY <1>5, <1>6 DEF BrokerStops, BrokerStarts, Crash, Restart, Connect, Deliver,
        HandOver, Discard, Skip, vars, world
    <2> QED
      BY <1>4, <2>1, <2>2
  <1> QED
    BY <1>1, <1>2, <1>3, <1>6 DEF Next, Take

-----------------------------------------------------------------------------
(* Sessions *)

\* The verdicts up to the n-th that said fresh for the user k.
FreshOf(k, n) == {i \in 1..n : verdicts[i].fresh /\ Asker(verdicts[i].req) = k}

\* The map of sessions remembers the last fresh session of a user.
RemembersTheLast(k) ==
  \/ pubKeyUUID[k] = None /\ FreshOf(k, Len(verdicts)) = {}
  \/ \E i \in FreshOf(k, Len(verdicts)) :
       /\ \A j \in FreshOf(k, Len(verdicts)) : j <= i
       /\ pubKeyUUID[k] = UUID(verdicts[i].req)

SessionInv == SessionsAreServedOnce /\ \A k \in Words : RemembersTheLast(k)

\* A verdict keeps the sessions served once.
LEMMA VerdictKeepsSessions ==
  ASSUME TypeOK, SessionInv, NEW r \in Requests, WellFormed(r),
         QueueOf(r) # "nostr_entity", checkAndUpdateUUID(r)
  PROVE  SessionInv'
  <1>k. PICK k : k = KeyOf(r)
    OBVIOUS
  <1>n. PICK n : n = Len(verdicts)
    OBVIOUS
  <1>v. PICK v : v = [req |-> r, fresh |-> Fresh(r)]
    OBVIOUS
  <1>1. k \in Words /\ UUID(r) \in Words /\ UUID(r) # None /\ Asker(r) = k
    BY <1>k, SessionWords, ServiceAssumption DEF ServiceAssumption, Asker, KeyOf
  <1>2. /\ n \in Nat /\ Len(verdicts') = n + 1
        /\ \A i \in 1..n : verdicts'[i] = verdicts[i]
        /\ verdicts'[n + 1] = v
    <2>1. v \in [req : Requests, fresh : BOOLEAN]
      BY <1>v DEF Fresh
    <2> QED
      BY <1>n, <1>v, <2>1, AppendProperties, LenProperties DEF TypeOK, checkAndUpdateUUID
  <1>3. /\ v.req = r
        /\ v.fresh <=> pubKeyUUID[k] # UUID(r)
        /\ pubKeyUUID' = [pubKeyUUID EXCEPT ![k] = UUID(r)]
        /\ pubKeyUUID \in [Words -> Words \cup {None}]
    BY <1>k, <1>v DEF TypeOK, checkAndUpdateUUID, Fresh
  <1>4. ASSUME NEW w, NEW m \in 0..n PROVE FreshOf(w, m)' = FreshOf(w, m)
    <2>1. \A i \in 1..m : verdicts'[i] = verdicts[i]
      BY <1>2
    <2> QED
      BY <2>1 DEF FreshOf
  <1>5. ASSUME NEW w
        PROVE  FreshOf(w, n + 1)' =
                 FreshOf(w, n) \cup (IF v.fresh /\ w = k THEN {n + 1} ELSE {})
    <2>1. \A i : i \in 1..(n + 1) <=> i \in 1..n \/ i = n + 1
      BY <1>2
    <2> QED
      BY <1>1, <1>2, <1>3, <2>1 DEF FreshOf
  <1>6. v.fresh <=> \A j \in FreshOf(k, n) :
                      (\A i \in FreshOf(k, n) : i <= j) => UUID(verdicts[j].req) # UUID(r)
    <2>1. RemembersTheLast(k)
      BY <1>1 DEF SessionInv
    <2>2. CASE pubKeyUUID[k] = None /\ FreshOf(k, n) = {}
      BY <1>1, <1>3, <2>2
    <2>3. ASSUME NEW i \in FreshOf(k, n), \A j \in FreshOf(k, n) : j <= i,
                 pubKeyUUID[k] = UUID(verdicts[i].req)
          PROVE  v.fresh <=> \A j \in FreshOf(k, n) :
                   (\A h \in FreshOf(k, n) : h <= j) => UUID(verdicts[j].req) # UUID(r)
      <3>1. \A j \in FreshOf(k, n) : (\A h \in FreshOf(k, n) : h <= j) => j = i
        BY <1>2, <2>3 DEF FreshOf
      <3> QED
        BY <1>3, <2>3, <3>1
    <2> QED
      BY <1>n, <2>1, <2>2, <2>3 DEF RemembersTheLast
  <1>7. SessionsAreServedOnce'
    <2> DEFINE Served(i) ==
          verdicts[i].fresh <=>
            \A j \in FreshOf(Asker(verdicts[i].req), i - 1) :
              (\A h \in FreshOf(Asker(verdicts[i].req), i - 1) : h <= j)
                => UUID(verdicts[j].req) # UUID(verdicts[i].req)
    <2>1. SessionsAreServedOnce <=> \A i \in 1..n : Served(i)
      BY <1>n DEF SessionsAreServedOnce, FreshOf
    <2>2. SessionsAreServedOnce' <=> \A i \in 1..(n + 1) : Served(i)'
      BY <1>2 DEF SessionsAreServedOnce, FreshOf
    <2> HIDE DEF Served
    <2>3. ASSUME NEW i \in 1..n PROVE Served(i)'
      <3>1. i - 1 \in 0..n /\ verdicts'[i] = verdicts[i] /\ Served(i)
        BY <1>2, <2>1, <2>3 DEF SessionInv
      <3>2. FreshOf(Asker(verdicts[i].req), i - 1)' = FreshOf(Asker(verdicts[i].req), i - 1)
        BY <1>4, <3>1
      <3>3. \A j \in FreshOf(Asker(verdicts[i].req), i - 1) : verdicts'[j] = verdicts[j]
        BY <1>2 DEF FreshOf
      <3> QED
        BY <3>1, <3>2, <3>3 DEF Served
    <2>4. ASSUME NEW i, i = n + 1 PROVE Served(i)'
      <3>1. i - 1 = n /\ verdicts'[i] = v /\ Asker(v.req) = k /\ v.req = r
        BY <1>1, <1>2, <1>3, <2>4
      <3>2. FreshOf(Asker(verdicts[i].req), i - 1)' = FreshOf(k, n)
        BY <1>2, <1>4, <3>1
      <3>3. \A j \in FreshOf(k, n) : verdicts'[j] = verdicts[j]
        BY <1>2 DEF FreshOf
      <3> QED
        BY <1>6, <3>1, <3>2, <3>3 DEF Served
    <2> QED
      BY <1>2, <2>2, <2>3, <2>4
  <1>8. ASSUME NEW w \in Words PROVE RemembersTheLast(w)'
    <2>0. RemembersTheLast(w)
      BY DEF SessionInv
    <2>f. \A i \in FreshOf(w, n) : i \in 1..n /\ verdicts'[i] = verdicts[i]
      BY <1>2 DEF FreshOf
    <2>1. CASE v.fresh /\ w = k
      <3>1. n + 1 \in FreshOf(w, n + 1)' /\ \A j \in FreshOf(w, n + 1)' : j <= n + 1
        BY <1>2, <1>5, <2>1, <2>f
      <3>2. pubKeyUUID'[w] = UUID(verdicts'[n + 1].req)
        BY <1>1, <1>2, <1>3, <2>1
      <3> QED
        BY <1>2, <3>1, <3>2 DEF RemembersTheLast
    <2>2. CASE ~(v.fresh /\ w = k)
      <3>1. FreshOf(w, n + 1)' = FreshOf(w, n) /\ pubKeyUUID'[w] = pubKeyUUID[w]
        BY <1>1, <1>3, <1>5, <2>2
      <3> QED
        BY <1>n, <1>2, <2>0, <2>f, <3>1 DEF RemembersTheLast
    <2> QED
      BY <2>1, <2>2
  <1> QED
    BY <1>7, <1>8 DEF SessionInv

\* Every step keeps the sessions served once.
LEMMA NextSessions == ServiceInv /\ SessionInv /\ [Next]_vars => SessionInv'
  <1> SUFFICES ASSUME ServiceInv, SessionInv, [Next]_vars PROVE SessionInv'
    OBVIOUS
  <1>1. ASSUME UNCHANGED sessions PROVE SessionInv'
    BY <1>1 DEF sessions, SessionInv, SessionsAreServedOnce, RemembersTheLast, FreshOf
  <1>2. CASE Crash
    <2>1. verdicts' = << >> /\ Len(<< >>) = 0
      BY <1>2 DEF Crash
    <2>2. SessionsAreServedOnce'
      BY <2>1 DEF SessionsAreServedOnce
    <2>3. ASSUME NEW k \in Words PROVE RemembersTheLast(k)'
      BY <1>2, <2>1 DEF Crash, RemembersTheLast, FreshOf
    <2> QED
      BY <2>2, <2>3 DEF SessionInv
  <1>3. ASSUME NEW q \in Used, NEW r \in Requests, Skip(q, r) \/ Accept(q, r)
        PROVE  SessionInv'
    <2>1. /\ NextDelivery(q, r) /\ WellFormed(r) /\ q # "nostr_entity"
          /\ checkAndUpdateUUID(r)
      BY <1>3 DEF Skip, Accept
    <2>2. QueueOf(r) = q
      BY <2>1, TakenFromTheLine
    <2> QED
      BY <2>1, <2>2, VerdictKeepsSessions DEF ServiceInv
  <1>4. CASE \/ BrokerStops \/ BrokerStarts \/ Restart \/ UNCHANGED vars
             \/ \E r \in Requests : Ask(r)
             \/ \E q \in Used : Connect(q) \/ Deliver(q) \/ FanOut(q)
             \/ \E q \in Used, r \in Requests : Discard(q, r) \/ AcceptEntity(q, r)
    BY <1>1, <1>4 DEF BrokerStops, BrokerStarts, Restart, Ask, Connect, Deliver, HandOver,
      FanOut, StartNext, Discard, AcceptEntity, vars
  <1> QED
    BY <1>2, <1>3, <1>4 DEF Next, Take

-----------------------------------------------------------------------------
(* Theorems *)

\* The invariants hold in every state of every behaviour.
THEOREM ServiceInductive == Spec => [](ServiceInv /\ SessionInv)
  <1>1. Init => ServiceInv /\ SessionInv
    <2>1. Init => SessionInv
      BY DEF Init, SessionInv, SessionsAreServedOnce, RemembersTheLast, FreshOf
    <2> QED
      BY <2>1, InitServiceInv
  <1>2. ServiceInv /\ SessionInv /\ [Next]_vars => (ServiceInv /\ SessionInv)'
    BY NextServiceInv, NextSessions
  <1> QED
    BY <1>1, <1>2, PTL DEF Spec

\* Every variable of the user service keeps its type.
THEOREM TypeCorrect == Spec => []TypeOK
  <1>1. ServiceInv => TypeOK
    BY DEF ServiceInv
  <1> QED
    BY <1>1, ServiceInductive, PTL

\* A session is fresh exactly if the last fresh one of the same user was
\* another, for any number of requests and consumers (services.go:52-70).
THEOREM ServedOnce == Spec => []SessionsAreServedOnce
  <1>1. SessionInv => SessionsAreServedOnce
    BY DEF SessionInv
  <1> QED
    BY <1>1, ServiceInductive, PTL

\* The user service implements AtMostOnce: whatever fails and however often,
\* a request is taken up once or never and its fan-outs are started in their
\* order and once each (services.go:146-447, queueHandler.go:61-69).
THEOREM Refinement == Spec => ImplementsAtMostOnce
  <1>1. Init => Promise!Init
    BY DEF Init, Promise!Init, State
  <1>2. ServiceInv /\ ServiceInv' /\ [Next]_vars => [Promise!Next]_(Promise!vars)
    BY StepRefines
  <1> QED
    BY <1>1, <1>2, ServiceInductive, PTL DEF Spec, ImplementsAtMostOnce, Promise!Spec
================================================================================

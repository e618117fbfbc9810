---------------------------- MODULE WritePathProofs ----------------------------
(***************************************************************************)
(* Machine-checked proofs about RateLimiter by itself and about WritePath, *)
(* for any number of requests, connections and processors and any initial  *)
(* limit.                                                                  *)
(***************************************************************************)
EXTENDS WritePath, FiniteSetTheorems, SequenceTheorems, TLAPS

-----------------------------------------------------------------------------
(* The limiter by itself *)

\* While the tick of this interval is still in the buffer, everything that
\* passed was counted; after it was taken, what was counted before it comes
\* on top, and that was at most the limit.
PassedIsCounted == passed <= IF tick THEN count ELSE InitialLimit + count

IInv == TypeOK /\ PassedIsCounted /\ NoticeSlowsDown

\* Halving stays in the range of the limit and below half of it.
LEMMA HalvedIsHalf ==
  ASSUME NEW n \in 0..InitialLimit
  PROVE  /\ Halved(n) \in 0..InitialLimit
         /\ Halved(n) <= InitialLimit \div 2
  BY LimiterAssumption DEF LimiterAssumption, Halved

\* Before anything is sent and any NOTICE arrives.
LEMMA InitIInv == Init => IInv
  <1> SUFFICES ASSUME Init PROVE IInv
    OBVIOUS
  <1>1. TypeOK
    <2>1. count \in 0..InitialLimit /\ Limit \in 0..InitialLimit /\ passed \in Nat
      BY LimiterAssumption DEF LimiterAssumption, Init
    <2>2. tick \in BOOLEAN /\ noticed \in BOOLEAN
      BY DEF Init
    <2> QED
      BY <2>1, <2>2 DEF Init, TypeOK
  <1>2. PassedIsCounted
    BY LimiterAssumption DEF LimiterAssumption, Init, PassedIsCounted
  <1>3. NoticeSlowsDown
    BY DEF Init, NoticeSlowsDown
  <1> QED
    BY <1>1, <1>2, <1>3 DEF IInv

\* Every step preserves the inductive invariant.
LEMMA NextIInv == IInv /\ [Next]_vars => IInv'
  <1> SUFFICES ASSUME IInv, [Next]_vars PROVE IInv'
    OBVIOUS
  <1> USE LimiterAssumption DEF LimiterAssumption, IInv
  <1>1. ASSUME NEW w \in Writers, Call(w) \/ Lock(w) \/ Block(w) PROVE IInv'
    BY <1>1 DEF Call, Lock, Block, TypeOK, PassedIsCounted, NoticeSlowsDown
  <1>2. ASSUME NEW w \in Writers, Pass(w) PROVE IInv'
    <2>1. count' \in 0..InitialLimit
      BY <1>2 DEF Pass, HasRoom, TypeOK
    <2>2. TypeOK'
      BY <1>2, <2>1 DEF Pass, Return, TypeOK
    <2>3. PassedIsCounted'
      BY <1>2 DEF Pass, Return, TypeOK, PassedIsCounted
    <2> QED
      BY <1>2, <2>2, <2>3 DEF Pass, Return, NoticeSlowsDown
  <1>3. ASSUME NEW w \in Writers, Refill(w) PROVE IInv'
    <2>0. count' = 1 /\ tick' = FALSE /\ count' \in 0..InitialLimit /\ passed' \in Nat
      BY <1>3 DEF Refill, Return, TypeOK
    <2>1. TypeOK'
      BY <1>3, <2>0 DEF Refill, Return, TypeOK
    <2>2. PassedIsCounted'
      BY <1>3, <2>0 DEF Refill, Return, TypeOK, PassedIsCounted
    <2> QED
      BY <1>3, <2>1, <2>2 DEF Refill, Return, NoticeSlowsDown
  <1>4. CASE Tick
    BY <1>4 DEF Tick, TypeOK, PassedIsCounted, NoticeSlowsDown
  <1>5. ASSUME NEW p \in Processors, LoadLimit(p) PROVE IInv'
    BY <1>5 DEF LoadLimit, TypeOK, PassedIsCounted, NoticeSlowsDown
  <1>6. ASSUME NEW p \in Processors, StoreLimit(p) PROVE IInv'
    <2>1. loaded[p] \in 0..InitialLimit
      BY <1>6 DEF StoreLimit, TypeOK
    <2>2. Limit' \in 0..InitialLimit /\ Limit' <= InitialLimit \div 2
      BY <1>6, <2>1, HalvedIsHalf DEF StoreLimit
    <2> QED
      BY <1>6, <2>2 DEF StoreLimit, TypeOK, PassedIsCounted, NoticeSlowsDown
  <1>7. CASE UNCHANGED vars
    BY <1>7 DEF vars, TypeOK, PassedIsCounted, NoticeSlowsDown
  <1> QED
    BY <1>1, <1>2, <1>3, <1>4, <1>5, <1>6, <1>7 DEF Next, Allow

\* The inductive invariant holds in every state of every behaviour.
THEOREM Inductive == Spec => []IInv
  BY InitIInv, NextIInv, PTL DEF Spec

\* Every variable keeps its type: a count never exceeds the initial limit and
\* halving never leaves its range (rateLimiter.go:23-35).
THEOREM TypeCorrect == Spec => []TypeOK
  <1>1. IInv => TypeOK
    BY DEF IInv
  <1> QED
    BY <1>1, Inductive, PTL

\* Between two firings of the ticker at most twice the limit passes
\* (rateLimiter.go:23-35), for every limit and number of connections.
THEOREM BurstBounded == Spec => []BurstIsBounded
  <1>1. IInv => BurstIsBounded
    BY LimiterAssumption DEF LimiterAssumption, IInv, TypeOK, PassedIsCounted, BurstIsBounded
  <1> QED
    BY <1>1, Inductive, PTL

\* After the first processed NOTICE the limit is at most half, whatever the
\* races between the unsynchronised halvings (relayManager.go:276-277).
THEOREM NoticeHalves == Spec => []NoticeSlowsDown
  <1>1. IInv => NoticeSlowsDown
    BY DEF IInv
  <1> QED
    BY <1>1, Inductive, PTL

-----------------------------------------------------------------------------
(* The limiter in the composition *)

\* Every step of the write path is a step of the limiter or leaves it alone.
LEMMA LimiterSteps == PathTypeOK /\ [PathNext]_allVars => [Next]_vars
  <1> SUFFICES ASSUME PathTypeOK, [PathNext]_allVars PROVE [Next]_vars
    OBVIOUS
  <1>1. ASSUME NEW r \in Clients, HandOver(r) PROVE [Next]_vars
    <2>1. conn[r] \in Writers
      BY PathAssumption DEF PathAssumption, PathTypeOK
    <2> QED
      BY <1>1, <2>1 DEF HandOver, Next
  <1>2. ASSUME NEW r \in Clients, Wake(r) PROVE [Next]_vars
    BY <1>2 DEF Wake
  <1>3. ASSUME NEW w \in Writers, InAllow(w) PROVE [Next]_vars
    BY <1>3 DEF InAllow, Next
  <1>4. ASSUME NEW w \in Writers,
               WriteMessage(w) \/ WriteFails(w) \/ Exit(w) \/ Break(w) \/ Cancel(w)
        PROVE  [Next]_vars
    BY <1>4 DEF WriteMessage, Writes, WriteFails, Exit, Break, Cancel
  <1>5. ASSUME NEW p \in Processors, Notice(p) PROVE [Next]_vars
    BY <1>5 DEF Notice, Next
  <1>6. CASE Second
    BY <1>6 DEF Second, Next
  <1>7. CASE UNCHANGED allVars
    BY <1>7 DEF allVars
  <1> QED
    BY <1>1, <1>2, <1>3, <1>4, <1>5, <1>6, <1>7 DEF PathNext

\* What a write does to the wire.
LEMMA WriteAppends ==
  ASSUME PathTypeOK, NEW w \in Writers, WriteMessage(w)
  PROVE  \E m \in Messages :
           /\ holds[w] = <<m>>
           /\ wire' = [wire EXCEPT ![w] = Append(@, m)]
           /\ wire' \in [Writers -> Seq(Messages)]
  <1>1. PICK m \in Messages : holds[w] = <<m>>
    BY DEF PathTypeOK, WriteMessage, Writes, Allowed
  <1>2. wire[w] \in Seq(Messages) /\ wire \in [Writers -> Seq(Messages)]
    BY DEF PathTypeOK
  <1>3. wire[w] \o <<m>> = Append(wire[w], m) /\ Append(wire[w], m) \in Seq(Messages)
    BY <1>2, AppendIsConcat, AppendProperties
  <1>4. wire' = [wire EXCEPT ![w] = wire[w] \o <<m>>]
    BY <1>1 DEF WriteMessage, Writes
  <1> QED
    BY <1>1, <1>2, <1>3, <1>4

\* Every step keeps the types of the write path.
LEMMA NextPathType == PathTypeOK /\ TypeOK' /\ [PathNext]_allVars => PathTypeOK'
  <1> SUFFICES ASSUME PathTypeOK, TypeOK', [PathNext]_allVars PROVE PathTypeOK'
    OBVIOUS
  <1> USE DEF PathTypeOK
  <1>1. ASSUME NEW r \in Clients, HandOver(r) PROVE PathTypeOK'
    <2>1. Message(r, stage[r]) \in Messages
      BY <1>1 DEF HandOver, Messages
    <2> QED
      BY <1>1, <2>1 DEF HandOver
  <1>2. ASSUME NEW r \in Clients, Wake(r) PROVE PathTypeOK'
    BY <1>2 DEF Wake, vars
  <1>3. ASSUME NEW w \in Writers, InAllow(w) PROVE PathTypeOK'
    BY <1>3 DEF InAllow, path
  <1>4. ASSUME NEW w \in Writers, WriteMessage(w) PROVE PathTypeOK'
    <2>1. wire' \in [Writers -> Seq(Messages)]
      BY <1>4, WriteAppends
    <2> QED
      BY <1>4, <2>1 DEF WriteMessage, Writes
  <1>5. ASSUME NEW w \in Writers, WriteFails(w) \/ Exit(w) \/ Break(w) \/ Cancel(w)
        PROVE  PathTypeOK'
    BY <1>5 DEF WriteFails, Exit, Break, Cancel
  <1>6. ASSUME NEW p \in Processors, Notice(p) PROVE PathTypeOK'
    BY <1>6 DEF Notice, path
  <1>7. CASE Second
    BY <1>7 DEF Second
  <1>8. CASE UNCHANGED allVars
    BY <1>8 DEF allVars, path
  <1> QED
    BY <1>1, <1>2, <1>3, <1>4, <1>5, <1>6, <1>7, <1>8 DEF PathNext

-----------------------------------------------------------------------------
(* The burst on the wire *)

\* The writeLoops that have come back from Allow with a message to write.
Allowing == {w \in Writers : Allowed(w)}

\* What was written in this interval and what is allowed and not written yet
\* are covered together: the tick at the start of the interval found up to
\* one allowed message per connection, and at least one of what was counted
\* had passed by then.
WritesAreCounted ==
  IF Writers = {} THEN wrote = 0
  ELSE wrote + Cardinality(Allowing) <=
         (IF tick THEN count ELSE InitialLimit + count) + Cardinality(Writers) - 1

\* The count is 0 only until the first message passes.
FirstIsCounted == count = 0 => Allowing = {}

BurstInv == PathTypeOK /\ IInv /\ WritesAreCounted /\ FirstIsCounted

\* The sets of writeLoops are finite, so they can be counted.
LEMMA AllowingIsFinite ==
  /\ IsFiniteSet(Writers)
  /\ IsFiniteSet(Allowing)
  /\ Cardinality(Allowing) \in Nat
  /\ Cardinality(Writers) \in Nat
  /\ Cardinality(Allowing) <= Cardinality(Writers)
  /\ Writers # {} => Cardinality(Writers) >= 1
  <1>1. IsFiniteSet(Writers)
    BY PathAssumption DEF PathAssumption
  <1>2. Allowing \in SUBSET Writers
    BY DEF Allowing
  <1>3. IsFiniteSet(Allowing) /\ Cardinality(Allowing) <= Cardinality(Writers)
    BY <1>1, <1>2, FS_Subset
  <1>4. Cardinality(Allowing) \in Nat /\ Cardinality(Writers) \in Nat
    BY <1>1, <1>3, FS_CardinalityType
  <1>5. Cardinality(Writers) = 0 <=> Writers = {}
    BY <1>1, FS_EmptySet
  <1> QED
    BY <1>1, <1>3, <1>4, <1>5

\* A step in which one writeLoop comes back from Allow.
LEMMA OneMoreAllowed ==
  ASSUME NEW w \in Writers, \A v \in Writers \ {w} : Allowed(v)' <=> Allowed(v)
  PROVE  /\ Cardinality(Allowing)' \in Nat
         /\ Cardinality(Allowing)' <= Cardinality(Allowing) + 1
  <1>1. Allowing' \in SUBSET (Allowing \cup {w})
    BY DEF Allowing
  <1>2. /\ IsFiniteSet(Allowing \cup {w})
        /\ Cardinality(Allowing \cup {w}) <= Cardinality(Allowing) + 1
    <2>1. PICK A : A = Allowing
      OBVIOUS
    <2>2. IsFiniteSet(A) /\ Cardinality(A) \in Nat
      BY <2>1, AllowingIsFinite
    <2>3. /\ IsFiniteSet(A \cup {w})
          /\ \/ Cardinality(A \cup {w}) = Cardinality(A)
             \/ Cardinality(A \cup {w}) = Cardinality(A) + 1
      BY <2>2, FS_AddElement
    <2>4. Cardinality(A \cup {w}) <= Cardinality(A) + 1
      BY <2>2, <2>3
    <2> QED
      BY <2>1, <2>3, <2>4
  <1>3. Cardinality(Allowing') <= Cardinality(Allowing \cup {w})
    BY <1>1, <1>2, FS_Subset
  <1>4. Cardinality(Allowing') \in Nat /\ Cardinality(Allowing \cup {w}) \in Nat
    BY <1>1, <1>2, FS_Subset, FS_CardinalityType
  <1> QED
    BY <1>2, <1>3, <1>4, AllowingIsFinite

\* A step in which one writeLoop is done with its message.
LEMMA OneLessAllowed ==
  ASSUME NEW w \in Writers, Allowed(w), ~Allowed(w)',
         \A v \in Writers \ {w} : Allowed(v)' <=> Allowed(v)
  PROVE  Cardinality(Allowing)' = Cardinality(Allowing) - 1
  <1>1. Allowing' = Allowing \ {w} /\ w \in Allowing
    BY DEF Allowing
  <1> QED
    BY <1>1, AllowingIsFinite, FS_RemoveElement

\* A step that moves no writeLoop to or from its write.
LEMMA SameAllowed ==
  ASSUME \A v \in Writers : Allowed(v)' <=> Allowed(v)
  PROVE  Allowing' = Allowing
  BY DEF Allowing

\* The messages that pass are counted and those that are written were allowed.
LEMMA NextWritesAreCounted ==
  ASSUME BurstInv, PathNext
  PROVE  WritesAreCounted' /\ FirstIsCounted'
  <1> USE LimiterAssumption, AllowingIsFinite DEF LimiterAssumption
  <1>0. /\ count \in 0..InitialLimit /\ wrote \in Nat
        /\ writer \in [Writers -> {"select", "lock", "check", "wait"}]
        /\ holds \in [Writers -> {<< >>} \cup {<<m>> : m \in Messages}]
        /\ WritesAreCounted /\ FirstIsCounted
    BY DEF BurstInv, PathTypeOK, TypeOK
  <1>1. ASSUME NEW r \in Clients, HandOver(r)
        PROVE  Allowing' = Allowing /\ UNCHANGED <<count, tick, wrote>>
    <2>1. conn[r] \in Writers
      BY PathAssumption DEF PathAssumption, BurstInv, PathTypeOK
    <2>2. \A v \in Writers : Allowed(v)' <=> Allowed(v)
      BY <1>0, <1>1, <2>1 DEF HandOver, Call, Idle, Allowed
    <2> QED
      BY <1>1, <2>2, SameAllowed DEF HandOver, Call
  <1>2. ASSUME NEW r \in Clients, Wake(r)
        PROVE  Allowing' = Allowing /\ UNCHANGED <<count, tick, wrote>>
    BY <1>2, SameAllowed DEF Wake, vars, Allowed
  <1>3. ASSUME NEW w \in Writers, (Lock(w) \/ Block(w)) /\ UNCHANGED path
        PROVE  Allowing' = Allowing /\ UNCHANGED <<count, tick, wrote>>
    <2>1. \A v \in Writers : Allowed(v)' <=> Allowed(v)
      BY <1>0, <1>3 DEF Lock, Block, Allowed, path
    <2> QED
      BY <1>3, <2>1, SameAllowed DEF Lock, Block, path
  <1>4. ASSUME NEW p \in Processors, Notice(p)
        PROVE  Allowing' = Allowing /\ UNCHANGED <<count, tick, wrote>>
    BY <1>4, SameAllowed DEF Notice, LoadLimit, StoreLimit, path, Allowed
  <1>5. ASSUME NEW w \in Writers, Exit(w) \/ Break(w) \/ Cancel(w)
        PROVE  Allowing' = Allowing /\ UNCHANGED <<count, tick, wrote>>
    BY <1>5, SameAllowed DEF Exit, Break, Cancel, vars, Allowed
  <1>6. ASSUME Allowing' = Allowing, UNCHANGED <<count, tick, wrote>>
        PROVE  WritesAreCounted' /\ FirstIsCounted'
    BY <1>0, <1>6 DEF WritesAreCounted, FirstIsCounted
  <1>7. ASSUME NEW w \in Writers, Pass(w), UNCHANGED path
        PROVE  WritesAreCounted' /\ FirstIsCounted'
    <2>1. count' = count + 1 /\ UNCHANGED <<tick, wrote>>
      BY <1>7 DEF Pass, path
    <2>2. \A v \in Writers \ {w} : Allowed(v)' <=> Allowed(v)
      BY <1>0, <1>7 DEF Pass, Return, Allowed, path
    <2>3. /\ Cardinality(Allowing)' \in Nat
          /\ Cardinality(Allowing)' <= Cardinality(Allowing) + 1
      BY <2>2, OneMoreAllowed
    <2> QED
      BY <1>0, <2>1, <2>3 DEF WritesAreCounted, FirstIsCounted
  <1>8. ASSUME NEW w \in Writers, Refill(w), UNCHANGED path
        PROVE  WritesAreCounted' /\ FirstIsCounted'
    <2>1. count' = 1 /\ tick = TRUE /\ tick' = FALSE /\ wrote' = wrote
      BY <1>8 DEF Refill, path, BurstInv, PathTypeOK, TypeOK
    <2>2. \A v \in Writers \ {w} : Allowed(v)' <=> Allowed(v)
      BY <1>0, <1>8 DEF Refill, Return, Allowed, path
    <2>3. /\ Cardinality(Allowing)' \in Nat
          /\ Cardinality(Allowing)' <= Cardinality(Allowing) + 1
      BY <2>2, OneMoreAllowed
    <2> QED
      BY <1>0, <2>1, <2>3 DEF WritesAreCounted, FirstIsCounted
  <1>9. ASSUME NEW w \in Writers, WriteMessage(w) \/ WriteFails(w)
        PROVE  WritesAreCounted' /\ FirstIsCounted'
    <2>1. wrote' <= wrote + 1 /\ wrote' \in Nat /\ UNCHANGED <<count, tick, writer>>
      BY <1>0, <1>9 DEF WriteMessage, Writes, WriteFails, vars
    <2>2. /\ Allowed(w) /\ ~Allowed(w)'
          /\ \A v \in Writers \ {w} : Allowed(v)' <=> Allowed(v)
      BY <1>0, <1>9 DEF WriteMessage, Writes, WriteFails, vars, Allowed
    <2>3. Cardinality(Allowing)' = Cardinality(Allowing) - 1
      BY <2>2, OneLessAllowed
    <2>4. Allowing # {} /\ Writers # {}
      BY <2>2 DEF Allowing
    <2> QED
      BY <1>0, <2>1, <2>3, <2>4 DEF WritesAreCounted, FirstIsCounted
  <1>10. ASSUME Second PROVE WritesAreCounted' /\ FirstIsCounted'
    <2>1. tick' = TRUE /\ wrote' = 0 /\ count' = count
      BY <1>10 DEF Second, Tick
    <2>2. Allowing' = Allowing
      BY <1>10, SameAllowed DEF Second, Tick, Allowed
    <2>3. count = 0 => Cardinality(Allowing) = 0
      BY <1>0, FS_EmptySet DEF FirstIsCounted
    <2>4. FirstIsCounted'
      BY <1>0, <2>1, <2>2 DEF FirstIsCounted
    <2>5. Writers # {} => Cardinality(Allowing) <= count + Cardinality(Writers) - 1
      BY <1>0, <2>3
    <2> QED
      BY <2>1, <2>2, <2>4, <2>5 DEF WritesAreCounted
  <1> QED
    BY <1>1, <1>2, <1>3, <1>4, <1>5, <1>6, <1>7, <1>8, <1>9, <1>10
    DEF PathNext, InAllow, Allow

-----------------------------------------------------------------------------
(* The messages of a request *)

\* w's connection has been sent message t of request r.
Written(r, t) == \E i \in 1..Len(wire[conn[r]]) : wire[conn[r]][i] = Message(r, t)

\* The writeLoop of r's connection has taken message t of r.
Holds(r, t) == holds[conn[r]] = <<Message(r, t)>>

\* How far the messages of a request have come: its CLOSE was not handed over
\* while it waits to send it, and its REQ was written before its CLOSE is
\* taken, since a writeLoop that loses a message takes no other.
RequestInv(r) ==
  /\ stage[r] = "REQ" => ~Written(r, "REQ") /\ ~Holds(r, "REQ")
  /\ stage[r] # "done" => ~Written(r, "CLOSE") /\ ~Holds(r, "CLOSE")
  /\ stage[r] # "REQ" /\ conn[r] \notin gone => Written(r, "REQ") \/ Holds(r, "REQ")
  /\ Holds(r, "REQ") => ~Written(r, "REQ") /\ ~Written(r, "CLOSE")
  /\ Holds(r, "CLOSE") => ~Written(r, "CLOSE")

\* A writeLoop that has returned holds nothing.
GoneAreIdle == \A w \in gone : holds[w] = << >>

OrderInv ==
  /\ PathTypeOK
  /\ GoneAreIdle
  /\ EachOnceInOrder
  /\ \A r \in Clients : RequestInv(r)

\* A message says whose it is and what.
LEMMA MessageFields ==
  /\ \A m \in Messages : m.client \in Clients /\ m = Message(m.client, m.type)
  /\ \A m \in Messages : m.type \in {"REQ", "CLOSE"}
  /\ \A r, t : Message(r, t).client = r /\ Message(r, t).type = t
  BY DEF Messages, Message

\* An idle or moving writeLoop: nothing is written, taken or lost.
LEMMA QuietKeepsOrder ==
  ASSUME OrderInv, PathTypeOK', UNCHANGED <<conn, holds, wire>>,
         \A r \in Clients : (stage'[r] = "REQ" <=> stage[r] = "REQ")
                         /\ (stage'[r] = "done" <=> stage[r] = "done"),
         gone \subseteq gone', \A w \in gone' : holds[w] = << >>
  PROVE  OrderInv'
  <1>1. EachOnceInOrder' /\ GoneAreIdle'
    BY DEF OrderInv, EachOnceInOrder, GoneAreIdle
  <1>2. ASSUME NEW r \in Clients PROVE RequestInv(r)'
    BY DEF OrderInv, RequestInv, Written, Holds
  <1> QED
    BY <1>1, <1>2 DEF OrderInv

\* A message is taken by the writeLoop.
LEMMA HandOverKeepsOrder ==
  ASSUME OrderInv, PathTypeOK', NEW r \in Clients, HandOver(r)
  PROVE  OrderInv'
  <1> DEFINE w == conn[r]
  <1>0. /\ w \in Writers /\ w \notin gone /\ holds[w] = << >>
        /\ holds \in [Writers -> {<< >>} \cup {<<m>> : m \in Messages}]
        /\ stage \in [Clients -> {"REQ", "sleep", "CLOSE", "done"}]
    BY PathAssumption DEF PathAssumption, OrderInv, PathTypeOK, HandOver, Idle
  <1>1. /\ UNCHANGED <<conn, gone, wire>>
        /\ holds' = [holds EXCEPT ![w] = <<Message(r, stage[r])>>]
    BY DEF HandOver
  <1>2. EachOnceInOrder'
    BY <1>1 DEF OrderInv, EachOnceInOrder
  <1>3. GoneAreIdle'
    BY <1>0, <1>1 DEF OrderInv, GoneAreIdle
  <1>4. ASSUME NEW x \in Clients PROVE RequestInv(x)'
    <2>0. RequestInv(x) /\ \A t : Written(x, t)' <=> Written(x, t)
      BY <1>1 DEF OrderInv, Written
    <2>1. CASE x = r
      <3>1. \A t : Holds(r, t)' <=> t = stage[r]
        BY <1>0, <1>1, MessageFields DEF Holds
      <3>2. CASE stage[r] = "REQ"
        <4>1. stage'[r] = "sleep"
          BY <1>0, <3>2 DEF HandOver
        <4> QED
          BY <2>0, <2>1, <3>1, <3>2, <4>1 DEF RequestInv
      <3>3. CASE stage[r] = "CLOSE"
        <4>1. stage'[r] = "done"
          BY <1>0, <3>3 DEF HandOver
        <4>2. ~Holds(r, "REQ")
          BY <1>0 DEF Holds
        <4> QED
          BY <1>0, <2>0, <2>1, <3>1, <3>3, <4>1, <4>2 DEF RequestInv
      <3> QED
        BY <3>2, <3>3 DEF HandOver
    <2>2. CASE x # r
      <3>1. stage'[x] = stage[x]
        BY <1>0, <2>2 DEF HandOver
      <3>2. conn[x] = w => \A t : Holds(x, t)' <=> Holds(x, t)
        BY <1>0, <1>1, <2>2, MessageFields DEF Holds
      <3>3. conn[x] # w => \A t : Holds(x, t)' <=> Holds(x, t)
        BY <1>0, <1>1 DEF Holds
      <3> QED
        BY <1>1, <2>0, <3>1, <3>2, <3>3 DEF RequestInv
    <2> QED
      BY <2>1, <2>2
  <1> QED
    BY <1>2, <1>3, <1>4 DEF OrderInv

\* The message that the writeLoop holds goes to the end of the wire.
LEMMA WriteKeepsOrder ==
  ASSUME OrderInv, PathTypeOK', NEW w \in Writers, WriteMessage(w)
  PROVE  OrderInv'
  <1>0. /\ UNCHANGED <<conn, stage, gone>>
        /\ wire \in [Writers -> Seq(Messages)]
        /\ holds \in [Writers -> {<< >>} \cup {<<n>> : n \in Messages}]
        /\ holds' = [holds EXCEPT ![w] = << >>]
        /\ w \notin gone
    BY DEF OrderInv, PathTypeOK, WriteMessage, Writes, Allowed, GoneAreIdle
  <1>1. PICK m \in Messages : /\ holds[w] = <<m>>
                              /\ wire' = [wire EXCEPT ![w] = Append(@, m)]
    BY WriteAppends DEF OrderInv
  <1> DEFINE len == Len(wire[w])
  <1>2. /\ len \in Nat /\ Len(wire'[w]) = len + 1 /\ wire'[w][len + 1] = m
        /\ \A i \in 1..len : wire'[w][i] = wire[w][i] /\ wire[w][i] \in Messages
    BY <1>0, <1>1, AppendProperties, ElementOfSeq, LenProperties
  <1>3. \A r \in Clients : conn[r] # w => wire'[conn[r]] = wire[conn[r]]
    BY <1>0, <1>1, PathAssumption DEF PathAssumption, OrderInv, PathTypeOK
  <1> HIDE DEF len
  \* What r has on the wire and in the writeLoop's hand afterwards.
  <1>4. ASSUME NEW r \in Clients, conn[r] = w, NEW t
        PROVE  /\ Written(r, t)' <=> Written(r, t) \/ m = Message(r, t)
               /\ Holds(r, t) <=> m = Message(r, t)
               /\ ~Holds(r, t)'
    <2>1. Written(r, t)' <=> \E i \in 1..(len + 1) : wire'[w][i] = Message(r, t)
      BY <1>0, <1>2, <1>4 DEF Written
    <2>2. Written(r, t) <=> \E i \in 1..len : wire[w][i] = Message(r, t)
      BY <1>4 DEF Written, len
    <2>3. Written(r, t)' <=> Written(r, t) \/ m = Message(r, t)
      BY <1>2, <2>1, <2>2
    <2> QED
      BY <1>0, <1>1, <1>4, <2>3 DEF Holds
  <1>5. ASSUME NEW r \in Clients, conn[r] # w, NEW t
        PROVE  (Written(r, t)' <=> Written(r, t)) /\ (Holds(r, t)' <=> Holds(r, t))
    BY <1>0, <1>3, <1>5 DEF Written, Holds
  <1>6. ASSUME NEW r \in Clients PROVE RequestInv(r)'
    <2>1. CASE conn[r] # w
      BY <1>0, <1>5, <2>1 DEF OrderInv, RequestInv
    <2>2. CASE conn[r] = w
      BY <1>0, <1>4, <2>2, MessageFields DEF OrderInv, RequestInv
    <2> QED
      BY <2>1, <2>2
  <1>7. EachOnceInOrder'
    <2> SUFFICES ASSUME NEW r \in Clients, NEW j \in 1..Len(wire'[conn[r]])
                 PROVE  LET sent == wire'[conn[r]] IN
                        /\ \A i \in 1..(j - 1) :
                             sent[i].client = r /\ sent[j].client = r
                               => sent[i].type = "REQ" /\ sent[j].type = "CLOSE"
                        /\ sent[j] = Message(r, "CLOSE")
                             => \E i \in 1..(j - 1) : sent[i] = Message(r, "REQ")
      BY <1>0 DEF EachOnceInOrder
    <2>1. CASE conn[r] # w
      BY <1>3, <2>1 DEF OrderInv, EachOnceInOrder
    <2>2. CASE conn[r] = w /\ j \in 1..len
      <3>1. /\ \A i \in 1..(j - 1) :
                 wire[w][i].client = r /\ wire[w][j].client = r
                   => wire[w][i].type = "REQ" /\ wire[w][j].type = "CLOSE"
            /\ wire[w][j] = Message(r, "CLOSE")
                 => \E i \in 1..(j - 1) : wire[w][i] = Message(r, "REQ")
        BY <2>2 DEF OrderInv, EachOnceInOrder, len
      <3>2. \A i \in 1..j : wire'[w][i] = wire[w][i]
        BY <1>2, <2>2
      <3> QED
        BY <2>2, <3>1, <3>2
    <2>3. CASE conn[r] = w /\ j = len + 1 /\ m.client # r
      BY <1>2, <2>3, MessageFields
    <2>4. CASE conn[r] = w /\ j = len + 1 /\ m.client = r
      <3>1. m = Message(r, "REQ") \/ m = Message(r, "CLOSE")
        BY <2>4, MessageFields
      <3>2. CASE m = Message(r, "REQ")
        <4>1. ~Written(r, "REQ") /\ ~Written(r, "CLOSE")
          BY <1>4, <2>4, <3>2 DEF OrderInv, RequestInv
        <4>2. \A i \in 1..len : wire[w][i].client # r
          BY <1>2, <2>4, <4>1, MessageFields DEF Written, len
        <4> QED
          BY <1>2, <2>4, <3>2, <4>2, MessageFields
      <3>3. CASE m = Message(r, "CLOSE")
        <4>1. Holds(r, "CLOSE") /\ ~Holds(r, "REQ")
          BY <1>4, <2>4, <3>3, MessageFields
        <4>2. stage[r] = "done" /\ Written(r, "REQ") /\ ~Written(r, "CLOSE")
          BY <1>0, <2>4, <4>1 DEF OrderInv, RequestInv
        <4>3. \A i \in 1..len : wire[w][i].client = r => wire[w][i].type = "REQ"
          BY <1>2, <2>4, <4>2, MessageFields DEF Written, len
        <4>4. \E i \in 1..len : wire[w][i] = Message(r, "REQ")
          BY <2>4, <4>2 DEF Written, len
        <4> QED
          BY <1>2, <2>4, <3>3, <4>3, <4>4, MessageFields
      <3> QED
        BY <3>1, <3>2, <3>3
    <2> QED
      BY <1>0, <1>2, <2>1, <2>2, <2>3, <2>4
  <1>8. GoneAreIdle'
    BY <1>0 DEF OrderInv, GoneAreIdle
  <1> QED
    BY <1>6, <1>7, <1>8 DEF OrderInv

\* The message that the writeLoop holds is lost, and so is the writeLoop.
LEMMA FailureKeepsOrder ==
  ASSUME OrderInv, PathTypeOK', NEW w \in Writers, WriteFails(w)
  PROVE  OrderInv'
  <1>0. /\ UNCHANGED <<conn, stage, wire>>
        /\ holds \in [Writers -> {<< >>} \cup {<<m>> : m \in Messages}]
        /\ holds' = [holds EXCEPT ![w] = << >>]
        /\ gone' = gone \cup {w}
    BY DEF OrderInv, PathTypeOK, WriteFails
  <1>1. ASSUME NEW r \in Clients, NEW t
        PROVE  /\ Written(r, t)' <=> Written(r, t)
               /\ Holds(r, t)' => Holds(r, t)
               /\ conn[r] # w => (Holds(r, t)' <=> Holds(r, t))
    BY <1>0 DEF Written, Holds
  <1>2. ASSUME NEW r \in Clients PROVE RequestInv(r)'
    BY <1>0, <1>1 DEF OrderInv, RequestInv
  <1>3. EachOnceInOrder' /\ GoneAreIdle'
    BY <1>0 DEF OrderInv, EachOnceInOrder, GoneAreIdle, PathTypeOK
  <1> QED
    BY <1>2, <1>3 DEF OrderInv

\* Every step keeps the order of the messages.
LEMMA NextOrder == OrderInv /\ PathTypeOK' /\ [PathNext]_allVars => OrderInv'
  <1> SUFFICES ASSUME OrderInv, PathTypeOK', [PathNext]_allVars PROVE OrderInv'
    OBVIOUS
  <1>0. /\ stage \in [Clients -> {"REQ", "sleep", "CLOSE", "done"}]
        /\ GoneAreIdle
    BY DEF OrderInv, PathTypeOK
  <1>1. ASSUME NEW r \in Clients, Wake(r) PROVE OrderInv'
    BY <1>0, <1>1, QuietKeepsOrder DEF Wake, GoneAreIdle
  <1>2. ASSUME NEW w \in Writers, Exit(w) PROVE OrderInv'
    BY <1>0, <1>2, QuietKeepsOrder DEF Exit, Idle, GoneAreIdle
  <1>3. ASSUME UNCHANGED <<conn, stage, gone, holds, wire>> PROVE OrderInv'
    BY <1>0, <1>3, QuietKeepsOrder DEF GoneAreIdle
  <1>4. ASSUME NEW w \in Writers, InAllow(w) \/ Break(w) \/ Cancel(w)
        PROVE  UNCHANGED <<conn, stage, gone, holds, wire>>
    BY <1>4 DEF InAllow, Break, Cancel, path
  <1>5. ASSUME NEW p \in Processors, Notice(p)
        PROVE  UNCHANGED <<conn, stage, gone, holds, wire>>
    BY <1>5 DEF Notice, path
  <1>6. ASSUME Second \/ UNCHANGED allVars
        PROVE  UNCHANGED <<conn, stage, gone, holds, wire>>
    BY <1>6 DEF Second, allVars, path
  <1> QED
    BY <1>1, <1>2, <1>3, <1>4, <1>5, <1>6,
       HandOverKeepsOrder, WriteKeepsOrder, FailureKeepsOrder
    DEF PathNext

-----------------------------------------------------------------------------
(* Theorems *)

\* The inductive invariant of the write path: that of the limiter and the two
\* above.
WriteInv == BurstInv /\ OrderInv

\* Nothing is sent yet.
LEMMA InitWriteInv == PathInit => WriteInv
  <1> SUFFICES ASSUME PathInit PROVE WriteInv
    OBVIOUS
  <1>1. IInv
    BY InitIInv DEF PathInit
  <1>2. PathTypeOK
    <2>1. \A w \in Writers : wire[w] \in Seq(Messages)
      BY EmptySeq DEF PathInit
    <2> QED
      BY <1>1, <2>1 DEF PathInit, PathTypeOK, IInv
  <1>3. Allowing = {}
    BY DEF PathInit, Allowing, Allowed
  <1>4. WritesAreCounted /\ FirstIsCounted
    <2>1. Cardinality({}) = 0
      BY FS_EmptySet
    <2> QED
      BY <1>3, <2>1, LimiterAssumption, AllowingIsFinite
      DEF LimiterAssumption, PathInit, Init, WritesAreCounted, FirstIsCounted
  <1>5. \A r \in Clients, t \in {"REQ", "CLOSE"} : ~Written(r, t) /\ ~Holds(r, t)
    BY PathAssumption DEF PathAssumption, PathInit, Written, Holds
  <1>6. GoneAreIdle /\ EachOnceInOrder /\ \A r \in Clients : RequestInv(r)
    BY <1>5, PathAssumption
    DEF PathAssumption, PathInit, GoneAreIdle, EachOnceInOrder, RequestInv
  <1> QED
    BY <1>1, <1>2, <1>4, <1>6 DEF WriteInv, BurstInv, OrderInv

\* Every step preserves the inductive invariant.
LEMMA NextWriteInv == WriteInv /\ [PathNext]_allVars => WriteInv'
  <1> SUFFICES ASSUME WriteInv, [PathNext]_allVars PROVE WriteInv'
    OBVIOUS
  <1>1. IInv'
    BY LimiterSteps, NextIInv DEF WriteInv, BurstInv
  <1>2. PathTypeOK'
    BY <1>1, NextPathType DEF WriteInv, BurstInv, IInv
  <1>3. WritesAreCounted' /\ FirstIsCounted'
    <2>1. CASE UNCHANGED allVars
      BY <2>1 DEF allVars, vars, path, WriteInv, BurstInv, WritesAreCounted,
        FirstIsCounted, Allowing, Allowed
    <2> QED
      BY <2>1, NextWritesAreCounted DEF WriteInv
  <1> QED
    BY <1>1, <1>2, <1>3, NextOrder DEF WriteInv, BurstInv

\* The inductive invariant holds in every state of every behaviour.
THEOREM WritePathInductive == PathSpec => []WriteInv
  BY InitWriteInv, NextWriteInv, PTL DEF PathSpec

\* Every variable of the write path and of its limiter keeps its type.
THEOREM PathTypeCorrect == PathSpec => []PathTypeOK
  <1>1. WriteInv => PathTypeOK
    BY DEF WriteInv, BurstInv
  <1> QED
    BY <1>1, WritePathInductive, PTL

\* Between two firings of the ticker all relays together are sent at most
\* twice the limit and, but for one, a message per connection
\* (relayManager.go:303-309, rateLimiter.go:23-35).
THEOREM WireBurstBounded == PathSpec => []WireBurstIsBounded
  <1>1. WriteInv => WireBurstIsBounded
    BY LimiterAssumption, AllowingIsFinite
    DEF LimiterAssumption, WriteInv, BurstInv, PathTypeOK, TypeOK, WritesAreCounted,
      WireBurstIsBounded
  <1> QED
    BY <1>1, WritePathInductive, PTL

\* The bounds of the limiter hold where it is used: at most twice the limit
\* passes between two firings, and a NOTICE halves what the next ones may pass.
THEOREM LimiterInPlace == PathSpec => [](BurstIsBounded /\ NoticeSlowsDown)
  <1>1. WriteInv => BurstIsBounded /\ NoticeSlowsDown
    BY LimiterAssumption
    DEF LimiterAssumption, WriteInv, BurstInv, IInv, TypeOK, PassedIsCounted, BurstIsBounded
  <1> QED
    BY <1>1, WritePathInductive, PTL

\* The relay of a request sees its REQ before its CLOSE and each once, for any
\* number of requests on the connection (subscription.go:332-347).
THEOREM OnceInOrder == PathSpec => []EachOnceInOrder
  <1>1. WriteInv => EachOnceInOrder
    BY DEF WriteInv, OrderInv
  <1> QED
    BY <1>1, WritePathInductive, PTL
================================================================================

---------------------------- MODULE KeepAliveProofs ----------------------------
(***************************************************************************)
(* Proofs about KeepAlive, for every resolution and however long rm.mutex  *)
(* keeps pingHandler from its select.                                      *)
(***************************************************************************)
EXTENDS KeepAlive, TLAPS

\* The two intervals of the code, in units of time.
LEMMA Intervals ==
  /\ pongWait = 10 * Second
  /\ pingInterval = 9 * Second
  /\ Patience = 29 * Second
  /\ MaxAge = 29 * Second + MaxWait + 1
  /\ pongWait \in Nat /\ pingInterval \in Nat \ {0} /\ Patience \in Nat /\ MaxAge \in Nat
BY KeepAliveAssumption, SMT DEF pongWait, pingInterval, Patience, MaxAge

\* What one clock gains another loses.
LEMMA Tradeoff ==
  \A a, b, u \in Nat : \A t \in Nat \ {0} :
    b <= a + 1 /\ a + t <= u => b + (t - 1) <= u
BY SMT

\* Every step keeps the clocks in their ranges.
LEMMA NextClocks == ASSUME TypeOK, [Next]_vars PROVE ClocksOK'
<1> USE KeepAliveAssumption, Intervals DEF ClocksOK, OrNone
<1>0. ClocksOK
  BY DEF TypeOK
<1>1. CASE OtherLocks \/ OtherUnlocks \/ Dial \/ DialFails
  BY <1>0, <1>1 DEF OtherLocks, OtherUnlocks, Dial, DialFails, reader, pinger
<1>2. CASE DialSucceeds
  BY <1>0, <1>2, SMT DEF DialSucceeds, StartAnew
<1>3. CASE OtherCloses \/ PingCloses
  BY <1>0, <1>3, SMT DEF OtherCloses, PingCloses, CloseConnection, StartAnew
<1>4. CASE TickFires
  BY <1>0, <1>4, SMT DEF TickFires, reader
<1>5. CASE Check \/ PingFails
  BY <1>0, <1>5 DEF Check, PingFails, reader
<1>6. CASE Ping
  BY <1>0, <1>6, SMT DEF Ping, reader
<1>7. CASE Pong
  BY <1>0, <1>7, SMT DEF Pong, NextDeadline, pinger
<1>8. CASE EarlierPong
  BY <1>0, <1>8, SMT DEF EarlierPong, reader, pinger
<1>9. CASE DeadlineExpires \/ ReadFailsSilently
  BY <1>0, <1>9 DEF DeadlineExpires, ReadFailsSilently, StopsReading, pinger
<1>10. CASE Elapse
  <2>1. age' \in OrNone(0..MaxAge)
    BY <1>0, <1>10, SMT DEF Elapse, Older
  <2>2. deadline' \in OrNone(0..pongWait)
    BY <1>0, <1>10, SMT DEF Elapse, Less
  <2>3. tick' \in 0..pingInterval
    BY <1>0, <1>10, SMT DEF Elapse, Less
  <2>4. busy' \in 0..MaxWait
    BY <1>0, <1>10, SMT DEF Elapse
  <2>5. round' \in OrNone(0..(Second - 1))
    BY <1>0, <1>10, SMT DEF Elapse
  <2> QED
    BY <2>1, <2>2, <2>3, <2>4, <2>5
<1>11. CASE UNCHANGED vars
  BY <1>0, <1>11 DEF vars, reader, pinger
<1> QED
  BY <1>1, <1>2, <1>3, <1>4, <1>5, <1>6, <1>7, <1>8, <1>9, <1>10, <1>11 DEF Next

\* Every step keeps the flags in their types.
LEMMA NextFlags == ASSUME TypeOK, [Next]_vars PROVE FlagsOK'
<1> USE DEF FlagsOK
<1>0. FlagsOK
  BY DEF TypeOK
<1>1. CASE OtherLocks \/ OtherUnlocks \/ Dial \/ DialFails
  BY <1>0, <1>1, Zenon DEF OtherLocks, OtherUnlocks, Dial, DialFails, table, reader, pinger, past
<1>2. CASE DialSucceeds
  BY <1>0, <1>2, Zenon DEF DialSucceeds, StartAnew
<1>3. CASE OtherCloses \/ PingCloses
  BY <1>0, <1>3, Zenon DEF OtherCloses, PingCloses, CloseConnection, StartAnew
<1>4. CASE TickFires
  BY <1>0, <1>4, Zenon DEF TickFires, table, reader, past
<1>5. CASE Check \/ Ping \/ PingFails
  BY <1>0, <1>5, Zenon DEF Check, Ping, PingFails, table, reader, past
<1>6. CASE Pong \/ EarlierPong
  BY <1>0, <1>6, Zenon DEF Pong, EarlierPong, table, reader, pinger, past
<1>7. CASE DeadlineExpires \/ ReadFailsSilently
  BY <1>0, <1>7, Zenon DEF DeadlineExpires, ReadFailsSilently, StopsReading, table, pinger, past
<1>8. CASE Elapse
  BY <1>0, <1>8, Zenon DEF Elapse, table
<1>9. CASE UNCHANGED vars
  BY <1>0, <1>9, Zenon DEF vars, table, reader, pinger, past
<1> QED
  BY <1>1, <1>2, <1>3, <1>4, <1>5, <1>6, <1>7, <1>8, <1>9 DEF Next

\* The initial state is of the types.
LEMMA InitTypes == Init => TypeOK
<1>1. Init => FlagsOK
  BY Zenon DEF Init, FlagsOK
<1>2. Init => ClocksOK
  BY KeepAliveAssumption, Intervals, SMT DEF Init, ClocksOK, OrNone
<1> QED
  BY <1>1, <1>2 DEF TypeOK

\* Every variable keeps its type; in particular no deadline is further away
\* than pongWait (relayManager.go:187).
THEOREM TypeCorrect == Spec => []TypeOK
<1>1. TypeOK /\ [Next]_vars => TypeOK'
  BY NextClocks, NextFlags DEF TypeOK
<1> QED
  BY <1>1, InitTypes, PTL DEF Spec

-----------------------------------------------------------------------------
(* Silence *)

\* Readers and what was heard belong to a connection, and a pingHandler at its
\* select waits for nothing else.
Shape ==
  /\ reading => open
  /\ heard => open
  /\ ping = "select" => busy = 0 /\ ~buffered

\* A pingHandler that will be there for the next tick, because it is at its
\* select or only has a ping to write.
Punctual == ping \in {"select", "write"} /\ ~buffered

\* Of a connection that had a pong: until the next tick, the age of the last
\* pong and the time to that tick together do not pass the bound; after it,
\* what the age has passed the bound by is time that pingHandler was kept.
AgeAndTick ==
  heard => /\ age # None
           /\ IF Punctual THEN age + tick <= Patience ELSE age <= Patience + busy

SilenceInv == TypeOK /\ Shape /\ AgeAndTick

\* Nothing is heard or read before the first dial.
LEMMA InitSilence == Init => SilenceInv
<1> SUFFICES ASSUME Init PROVE SilenceInv
  OBVIOUS
<1>1. TypeOK
  BY InitTypes
<1>2. Shape /\ AgeAndTick
  BY Zenon DEF Init, Shape, AgeAndTick
<1> QED
  BY <1>1, <1>2 DEF SilenceInv

\* Every step keeps the shape.
LEMMA NextShape == ASSUME Shape, [Next]_vars PROVE Shape'
<1> USE DEF Shape
<1>1. CASE OtherLocks \/ OtherUnlocks \/ Dial \/ DialFails
  BY <1>1 DEF OtherLocks, OtherUnlocks, Dial, DialFails, table, reader, pinger, past
<1>2. CASE DialSucceeds
  BY <1>2 DEF DialSucceeds, StartAnew
<1>3. CASE OtherCloses \/ PingCloses
  BY <1>3 DEF OtherCloses, PingCloses, CloseConnection, StartAnew
<1>4. CASE TickFires
  BY <1>4 DEF TickFires, table, reader, past
<1>5. CASE Check \/ Ping \/ PingFails
  BY <1>5 DEF Check, Ping, PingFails, table, reader, past
<1>6. CASE Pong \/ EarlierPong
  BY <1>6 DEF Pong, EarlierPong, table, reader, pinger, past
<1>7. CASE DeadlineExpires \/ ReadFailsSilently
  BY <1>7 DEF DeadlineExpires, ReadFailsSilently, StopsReading, table, pinger, past
<1>8. CASE Elapse
  BY <1>8 DEF Elapse, table
<1>9. CASE UNCHANGED vars
  BY <1>9 DEF vars, table, reader, pinger, past
<1> QED
  BY <1>1, <1>2, <1>3, <1>4, <1>5, <1>6, <1>7, <1>8, <1>9 DEF Next

\* Every step keeps the age of the last pong within its bound.
LEMMA NextAge == ASSUME SilenceInv, [Next]_vars PROVE AgeAndTick'
<1> USE KeepAliveAssumption, Intervals DEF ClocksOK, OrNone, AgeAndTick
<1>0. ClocksOK /\ Shape /\ AgeAndTick
  BY DEF SilenceInv, TypeOK
<1>12. ASSUME UNCHANGED <<age, tick, pinger, heard>> PROVE AgeAndTick'
  <2>1. Punctual' <=> Punctual
    BY <1>12 DEF Punctual, pinger
  <2> QED
    BY <1>0, <1>12, <2>1, Zenon DEF pinger
<1>1. CASE OtherLocks \/ OtherUnlocks \/ Dial \/ DialFails
  BY <1>1, <1>12 DEF OtherLocks, OtherUnlocks, Dial, DialFails, past
<1>2. CASE DialSucceeds
  BY <1>2 DEF DialSucceeds, StartAnew
<1>3. CASE OtherCloses \/ PingCloses
  BY <1>3 DEF OtherCloses, PingCloses, CloseConnection, StartAnew
<1>4. CASE TickFires
  <2> SUFFICES ASSUME heard PROVE AgeAndTick'
    BY <1>4 DEF TickFires, past
  <2>1. age \in Nat /\ age <= Patience + busy /\ age' = age /\ busy' = busy
    BY <1>0, <1>4, SMT DEF TickFires
  <2>2. ~Punctual'
    BY <1>4 DEF TickFires, Punctual
  <2> QED
    BY <2>1, <2>2
<1>5. CASE Check
  <2> SUFFICES ASSUME heard PROVE AgeAndTick'
    BY <1>5 DEF Check, past
  <2>1. /\ age \in Nat /\ age <= Patience + busy
        /\ age' = age /\ tick' = tick /\ busy' = busy
    BY <1>0, <1>5, SMT DEF Check, Punctual
  <2>2. CASE Stale
    <3>1. ~Punctual'
      BY <1>5, <2>2 DEF Check, Punctual
    <3> QED
      BY <2>1, <3>1
  <2>3. CASE ~Stale
    <3>1. age + tick <= Patience
      BY <1>0, <2>1, <2>3, SMT DEF Stale
    <3> QED
      BY <2>1, <3>1
  <2> QED
    BY <2>2, <2>3
<1>6. CASE Ping
  <2> SUFFICES ASSUME heard PROVE AgeAndTick'
    BY <1>6 DEF Ping
  <2>1. CASE buffered
    BY <1>0, <1>6, <2>1 DEF Ping, Punctual
  <2>2. CASE ~buffered
    BY <1>0, <1>6, <2>2 DEF Ping, Punctual
  <2> QED
    BY <2>1, <2>2
<1>7. CASE PingFails
  <2> SUFFICES ASSUME heard PROVE AgeAndTick'
    BY <1>7 DEF PingFails, past
  <2>1. age \in Nat /\ age <= Patience + busy /\ age' = age /\ busy' = busy
    BY <1>0, <1>7, SMT DEF PingFails
  <2>2. ~Punctual'
    BY <1>7 DEF PingFails, Punctual
  <2> QED
    BY <2>1, <2>2
<1>8. CASE Pong \/ EarlierPong
  BY <1>0, <1>8, SMT DEF Pong, EarlierPong, pinger
<1>9. CASE DeadlineExpires \/ ReadFailsSilently
  BY <1>9, <1>12 DEF DeadlineExpires, ReadFailsSilently, StopsReading, past
<1>10. CASE Elapse
  <2> SUFFICES ASSUME heard PROVE AgeAndTick'
    BY <1>10 DEF Elapse
  <2>1. /\ age \in Nat /\ age' # None /\ age' \in Nat /\ age' <= age + 1
        /\ tick \in Nat \ {0} /\ tick' = tick - 1 /\ Patience \in Nat
    BY <1>0, <1>10, SMT DEF Elapse, Older, Less, Shape
  <2>2. Punctual' <=> Punctual
    BY <1>10 DEF Elapse, Punctual
  <2>3. CASE Punctual
    <3>1. age + tick <= Patience
      BY <1>0, <2>3, Zenon
    <3>2. age' + tick' <= Patience
      BY <2>1, <3>1, Tradeoff
    <3> QED
      BY <2>1, <2>2, <2>3, <3>2, Zenon
  <2>4. CASE ~Punctual
    <3>1. busy \in Nat /\ busy' = busy + 1
      BY <1>0, <1>10, <2>4, SMT DEF Elapse, Shape, Punctual
    <3>2. age' <= Patience + busy'
      BY <1>0, <2>1, <2>4, <3>1, SMT
    <3> QED
      BY <2>1, <2>2, <2>4, <3>2, Zenon
  <2> QED
    BY <2>3, <2>4
<1>11. CASE UNCHANGED vars
  BY <1>11, <1>12 DEF vars, past
<1> QED
  BY <1>1, <1>2, <1>3, <1>4, <1>5, <1>6, <1>7, <1>8, <1>9, <1>10, <1>11 DEF Next

\* The invariant says what the property says.
LEMMA SilenceImplied == SilenceInv => SilenceIsBounded
<1> SUFFICES ASSUME SilenceInv, heard PROVE age <= Patience + busy
  BY DEF SilenceIsBounded
<1>1. ClocksOK /\ AgeAndTick
  BY DEF SilenceInv, TypeOK
<1>2. age \in Nat /\ tick \in Nat /\ busy \in Nat
  BY <1>1, KeepAliveAssumption, Intervals, SMT DEF ClocksOK, OrNone, AgeAndTick
<1> QED
  BY <1>1, <1>2, Intervals, SMT DEF AgeAndTick

\* A connection that was alive and went silent leaves the table within twice
\* pongWait, one tick and the time pingHandler is kept from its select, for any
\* resolution and any such time (relayManager.go:144-169).
THEOREM SilenceBounded == Spec => []SilenceIsBounded
<1>1. SilenceInv /\ [Next]_vars => SilenceInv'
  <2> SUFFICES ASSUME SilenceInv, [Next]_vars PROVE SilenceInv'
    OBVIOUS
  <2>1. TypeOK'
    BY NextClocks, NextFlags DEF TypeOK, SilenceInv
  <2>2. Shape'
    BY NextShape DEF SilenceInv
  <2> QED
    BY <2>1, <2>2, NextAge DEF SilenceInv
<1> QED
  BY <1>1, SilenceImplied, InitSilence, PTL DEF Spec

-----------------------------------------------------------------------------
(* The steady relay *)

\* Where the clocks of a connection stand while every tick is followed by a
\* pong within a second: the deadline is at least that second away from the
\* next tick, or from the tick whose pong is still due; and what the age has
\* used up of pongWait, the deadline has lost too.
InStep ==
  /\ round # None => round + tick = pingInterval
  /\ ~heard => deadline = None
  /\ heard => /\ age # None /\ deadline # None
              /\ age + deadline <= pongWait
              /\ IF round = None THEN tick + Second <= deadline ELSE Second <= deadline + round

Steady == reading /\ ~missed

SteadyInv == TypeOK /\ Shape /\ (Steady => InStep)

\* In step, the deadline is never reached and the last pong is recent.
LEMMA KeptInStep ==
  ASSUME ClocksOK, InStep
  PROVE  deadline # 0 /\ (heard => age < 2 * pongWait)
<1> USE KeepAliveAssumption, Intervals DEF ClocksOK, OrNone
<1>1. CASE heard
  <2>1. age \in Nat /\ deadline \in Nat /\ age + deadline <= pongWait
    BY <1>1, SMT DEF InStep
  <2>2. deadline # 0
    BY <1>1, <2>1, SMT DEF InStep
  <2> QED
    BY <2>1, <2>2, SMT
<1>2. CASE ~heard
  BY <1>2 DEF InStep
<1> QED
  BY <1>1, <1>2

\* A dial starts in step, and as long as no pong is missed a connection stays
\* so.
LEMMA NextInStep == ASSUME SteadyInv, [Next]_vars PROVE (Steady => InStep)'
<1> USE KeepAliveAssumption, Intervals DEF ClocksOK, OrNone
<1>0. ClocksOK /\ Shape /\ (Steady => InStep)
  BY DEF SteadyInv, TypeOK
<1>1. CASE OtherLocks \/ OtherUnlocks \/ Dial \/ DialFails
  BY <1>0, <1>1 DEF OtherLocks, OtherUnlocks, Dial, DialFails, reader, past, Steady, InStep
<1>2. CASE DialSucceeds
  BY <1>2 DEF DialSucceeds, StartAnew, InStep
<1>3. CASE OtherCloses \/ PingCloses
  BY <1>3 DEF OtherCloses, PingCloses, CloseConnection, Steady
<1>4. CASE TickFires
  <2> SUFFICES ASSUME Steady PROVE InStep'
    BY <1>4 DEF TickFires, reader, past, Steady
  <2>1. /\ tick = 0 /\ tick' = pingInterval /\ round' = 0 /\ 0 # None
        /\ UNCHANGED <<age, deadline, heard>>
    BY <1>4 DEF TickFires, reader, past
  <2>2. round = None
    BY <1>0, <2>1, SMT DEF InStep
  <2> QED
    BY <1>0, <2>1, <2>2, SMT DEF InStep
<1>5. CASE Check \/ Ping \/ PingFails
  BY <1>0, <1>5 DEF Check, Ping, PingFails, reader, past, Steady, InStep
<1>6. CASE Pong
  <2> SUFFICES ASSUME Steady PROVE InStep'
    BY <1>6 DEF Pong, Steady
  <2> QED
    BY <1>0, <1>6, SMT DEF Pong, NextDeadline, InStep
<1>7. CASE EarlierPong
  <2> SUFFICES ASSUME Steady PROVE InStep'
    BY <1>7 DEF EarlierPong, reader, past, Steady
  <2>1. age' = 0 /\ UNCHANGED <<deadline, tick, round, heard>>
    BY <1>7 DEF EarlierPong, reader, past
  <2> QED
    BY <1>0, <2>1, SMT DEF InStep
<1>8. CASE DeadlineExpires \/ ReadFailsSilently
  BY <1>8 DEF DeadlineExpires, ReadFailsSilently, StopsReading, Steady
<1>9. CASE Elapse
  <2> SUFFICES ASSUME Steady, ~missed' PROVE InStep'
    BY <1>9 DEF Elapse, Steady
  <2>1. tick \in Nat \ {0} /\ tick' = tick - 1
    BY <1>0, <1>9, SMT DEF Elapse, Less, Shape, Steady
  <2>2. heard' = heard
    BY <1>9 DEF Elapse
  <2>3. /\ round = None => round' = None
        /\ round # None => round \in Nat /\ round' # None /\ round' = round + 1
    <3>1. round # None => round + 1 # Second
      BY <1>9, Zenon DEF Elapse
    <3>2. round' = IF round = None \/ round + 1 = Second THEN None ELSE round + 1
      BY <1>9 DEF Elapse
    <3> QED
      BY <1>0, <3>1, <3>2, SMT
  <2>4. ASSUME heard
        PROVE  /\ age \in Nat /\ age' # None /\ age' \in Nat /\ age' <= age + 1
               /\ deadline \in Nat \ {0} /\ deadline' # None /\ deadline' = deadline - 1
    BY <1>0, <1>9, <2>4, KeptInStep, SMT DEF Elapse, Older, Less, InStep
  <2>5. ~heard => deadline' = None
    BY <1>0, <1>9 DEF Elapse, Less, InStep
  <2>6. round' # None => round' + tick' = pingInterval
    BY <1>0, <2>1, <2>3, SMT DEF InStep
  <2>7. ASSUME heard
        PROVE  /\ age' + deadline' <= pongWait
               /\ IF round' = None THEN tick' + Second <= deadline' ELSE Second <= deadline' + round'
    BY <1>0, <2>1, <2>3, <2>4, <2>7, SMT DEF InStep
  <2> QED
    BY <2>2, <2>4, <2>5, <2>6, <2>7 DEF InStep
<1>10. CASE UNCHANGED vars
  BY <1>0, <1>10 DEF vars, reader, past, InStep, Steady
<1> QED
  BY <1>1, <1>2, <1>3, <1>4, <1>5, <1>6, <1>7, <1>8, <1>9, <1>10 DEF Next

\* No timer gives up a connection of a relay whose pongs are handled within a
\* second of each tick, for any resolution and any bound on what pingHandler
\* waits for (relayManager.go:144-197, 398-408).
THEOREM SteadyKept == Spec => []SteadyRelayIsKept
<1>1. Init => SteadyInv
  BY InitSilence, Zenon DEF SilenceInv, Init, SteadyInv, Steady
<1>2. SteadyInv /\ [Next]_vars => SteadyInv'
  <2> SUFFICES ASSUME SteadyInv, [Next]_vars PROVE SteadyInv'
    OBVIOUS
  <2>1. TypeOK' /\ Shape'
    BY NextClocks, NextFlags, NextShape DEF TypeOK, SteadyInv
  <2> QED
    BY <2>1, NextInStep DEF SteadyInv
<1>3. SteadyInv => SteadyRelayIsKept
  BY KeptInStep DEF SteadyInv, TypeOK, SteadyRelayIsKept, Steady
<1> QED
  BY <1>1, <1>2, <1>3, PTL DEF Spec
================================================================================

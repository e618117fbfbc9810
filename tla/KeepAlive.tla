------------------------------- MODULE KeepAlive -------------------------------
(***************************************************************************)
(* The keep-alive of one relay in relay/relayManager.go, in discrete time: *)
(* the ticker of pingHandler, the time of the last pong, which belongs to  *)
(* the URL and outlives its connection, and the read deadline that only a  *)
(* pong sets.                                                              *)
(*                                                                         *)
(* rm.mutex is held over every dial, of this relay or of another, for as   *)
(* long as the dialled relay likes (lines 63, 117-122 and 375-383), and    *)
(* pingHandler, the pong handler and CloseConnection wait for it.  Ticks   *)
(* fire when they are due, but what pingHandler does with them may come    *)
(* late.                                                                   *)
(*                                                                         *)
(* The variables describe the connection in the table and its goroutines.  *)
(* Those of earlier connections, closed or replaced, may still close the   *)
(* current one, because they act by URL, and may still store a pong; when  *)
(* attemptReconnect and GetConnection dial is left open.  RelayManager has *)
(* all of them, without time.                                              *)
(***************************************************************************)
EXTENDS Naturals

CONSTANTS
  Second,   \* units of time in a second: the resolution of the model
  MaxWait,  \* bound: how long pingHandler may be kept from its select
  None

ASSUME KeepAliveAssumption ==
  /\ Second \in Nat \ {0}
  /\ MaxWait \in Nat
  /\ None \notin Nat

VARIABLES
  mutex,     \* rm.mutex: "free", or held over a dial of this or another relay
  open,      \* the table has a connection
  earlier,   \* it had another one before, goroutines of which may be left
  age,       \* time.Since(rm.lastPongTimes[relayUrl]), or None
  reading,   \* readLoop runs, so pongs are seen
  deadline,  \* time to the read deadline, or None if none was set
  tick,      \* time to the next tick
  buffered,  \* a tick waits in the channel of the ticker
  ping,      \* where pingHandler is
  busy,      \* time since it last stood at its select
  round,     \* time since the last tick, until a pong is handled, or None
  pinged,    \* pingHandler has pinged this connection
  heard,     \* this connection has had a pong
  missed     \* no pong was handled within a second of a tick

table  == <<open, earlier>>
reader == <<reading, deadline>>
pinger == <<buffered, ping, busy>>
past   == <<pinged, heard, missed>>
vars == <<mutex, table, age, reader, tick, pinger, round, past>>

pongWait == 10 * Second
pingInterval == (pongWait * 9) \div 10

\* The longest time from a pong to the end of its connection, if pingHandler
\* never waits for anything.
Patience == 2 * pongWait + pingInterval
MaxAge == Patience + MaxWait + 1   \* older than that is all the same

OrNone(S) == S \cup {None}

FlagsOK ==
  /\ mutex \in {"free", "other", "own"}
  /\ ping \in {"select", "lock", "write", "close"}
  /\ open \in BOOLEAN /\ earlier \in BOOLEAN
  /\ reading \in BOOLEAN /\ buffered \in BOOLEAN
  /\ pinged \in BOOLEAN /\ heard \in BOOLEAN /\ missed \in BOOLEAN

ClocksOK ==
  /\ age \in OrNone(0..MaxAge)
  /\ deadline \in OrNone(0..pongWait)
  /\ tick \in 0..pingInterval
  /\ busy \in 0..MaxWait
  /\ round \in OrNone(0..(Second - 1))

TypeOK == FlagsOK /\ ClocksOK

Init ==
  /\ mutex = "free" /\ age = None
  /\ open = FALSE /\ earlier = FALSE /\ reading = FALSE
  /\ tick = 0 /\ deadline = None /\ round = None
  /\ ping = "select" /\ buffered = FALSE /\ busy = 0
  /\ pinged = FALSE /\ heard = FALSE /\ missed = FALSE

-----------------------------------------------------------------------------
(* rm.mutex, dialling and closing *)

\* The goroutines and timers of the connection are new, or gone with it.
StartAnew ==
  /\ deadline' = None /\ round' = None
  /\ ping' = "select" /\ buffered' = FALSE /\ busy' = 0
  /\ pinged' = FALSE /\ heard' = FALSE /\ missed' = FALSE

\* Some goroutine starts or ends a dial of another relay.
OtherLocks ==
  /\ mutex = "free"
  /\ mutex' = "other"
  /\ UNCHANGED <<table, age, reader, tick, pinger, round, past>>
OtherUnlocks ==
  /\ mutex = "other"
  /\ mutex' = "free"
  /\ UNCHANGED <<table, age, reader, tick, pinger, round, past>>

isConnected == open /\ age # None /\ age < 2 * pongWait

\* GetConnection dials when the relay is not in the table, and also when its
\* last pong is old or there was none; attemptReconnect only in the first case.
Dial ==
  /\ mutex = "free"
  /\ ~isConnected
  /\ mutex' = "own"
  /\ UNCHANGED <<table, age, reader, tick, pinger, round, past>>

\* createNewConnection: no read deadline yet, and lastPongTimes as it was.  A
\* connection that the table held is replaced, not closed.
DialSucceeds ==
  /\ mutex = "own"
  /\ mutex' = "free"
  /\ open' = TRUE
  /\ earlier' = (earlier \/ open)
  /\ reading' = TRUE
  /\ tick' = pingInterval
  /\ StartAnew
  /\ UNCHANGED age

DialFails ==
  /\ mutex = "own"
  /\ mutex' = "free"
  /\ UNCHANGED <<table, age, reader, tick, pinger, round, past>>

\* The critical section of CloseConnection.
CloseConnection ==
  /\ mutex = "free"
  /\ open' = FALSE
  /\ earlier' = TRUE
  /\ reading' = FALSE
  /\ tick' = 0
  /\ StartAnew
  /\ UNCHANGED <<mutex, age>>

\* writeLoop, readLoop or a goroutine of an earlier connection closes it.
OtherCloses == open /\ CloseConnection

-----------------------------------------------------------------------------
(* pingHandler *)

\* The ticker has room for one tick that pingHandler is not there to receive.
TickFires ==
  /\ open
  /\ tick = 0
  /\ tick' = pingInterval
  /\ round' = 0
  /\ IF ping = "select"
     THEN ping' = "lock" /\ UNCHANGED buffered
     ELSE buffered' = TRUE /\ UNCHANGED ping
  /\ UNCHANGED <<mutex, table, age, reader, busy, past>>

\* exists && time.Since(lastPong) > pongWait*2
StaleLater == age # None /\ age > 3 * pongWait         \* mutant
Stale == age # None /\ age > 2 * pongWait

\* It has got the mutex and looks up the last pong.
Check ==
  /\ ping = "lock"
  /\ mutex = "free"
  /\ ping' = IF Stale THEN "close" ELSE "write"
  /\ UNCHANGED <<mutex, table, age, reader, tick, buffered, busy, round, past>>

\* WriteControl returns, and a tick that fired meanwhile is received at once.
Ping ==
  /\ ping = "write"
  /\ pinged' = TRUE
  /\ ping' = IF buffered THEN "lock" ELSE "select"
  /\ busy' = IF buffered THEN busy ELSE 0
  /\ buffered' = FALSE
  /\ UNCHANGED <<mutex, table, age, reader, tick, round, heard, missed>>

\* The ping fails, or times out behind a write of writeLoop.
PingFails ==
  /\ ping = "write"
  /\ ping' = "close"
  /\ UNCHANGED <<mutex, table, age, reader, tick, buffered, busy, round, past>>

PingCloses == ping = "close" /\ CloseConnection

-----------------------------------------------------------------------------
(* readLoop and the pong handler *)

DeadlineOfATick == pingInterval                        \* mutant
TwiceTheWait == 2 * pongWait                           \* mutant
NextDeadline == pongWait

\* The pong handler has got the mutex.
Pong ==
  /\ reading
  /\ mutex = "free"
  /\ age' = 0
  /\ deadline' = NextDeadline
  /\ round' = None
  /\ heard' = TRUE
  /\ UNCHANGED <<mutex, table, reading, tick, pinger, pinged, missed>>

\* So has that of an earlier connection, which sets a deadline of its own.
EarlierPong ==
  /\ earlier
  /\ mutex = "free"
  /\ age' = 0
  /\ UNCHANGED <<mutex, table, reader, tick, pinger, round, past>>

\* NextReader fails, at the read deadline or before it, with an error that is
\* no close error: readLoop returns and leaves the connection in the table.
StopsReading ==
  /\ reading
  /\ reading' = FALSE
  /\ deadline' = None
  /\ UNCHANGED <<mutex, table, age, tick, pinger, round, past>>
DeadlineExpires == deadline = 0 /\ StopsReading
ReadFailsSilently == deadline # 0 /\ StopsReading

-----------------------------------------------------------------------------
(* Time *)

Less(t) == IF t = None \/ t = 0 THEN t ELSE t - 1
Older(t) == IF t = None \/ t = MaxAge THEN t ELSE t + 1

\* Time does not pass a tick that is due, a deadline unless the reader may be
\* in the pong handler, nor a goroutine that waits for a mutex that is free.
Elapse ==
  /\ open => tick # 0
  /\ deadline = 0 => mutex # "free"
  /\ ping \in {"lock", "close"} => mutex # "free"
  /\ ping # "select" => busy # MaxWait
  /\ age' = Older(age)
  /\ deadline' = Less(deadline)
  /\ tick' = Less(tick)
  /\ busy' = IF ping = "select" THEN 0 ELSE busy + 1
  /\ round' = IF round = None \/ round + 1 = Second THEN None ELSE round + 1
  /\ missed' = (missed \/ (round # None /\ round + 1 = Second))
  /\ UNCHANGED <<mutex, table, reading, buffered, ping, pinged, heard>>

Next ==
  \/ OtherLocks \/ OtherUnlocks
  \/ Dial \/ DialSucceeds \/ DialFails
  \/ OtherCloses
  \/ TickFires \/ Check \/ Ping \/ PingFails \/ PingCloses
  \/ Pong \/ EarlierPong
  \/ DeadlineExpires \/ ReadFailsSilently
  \/ Elapse

Spec == Init /\ [][Next]_vars

-----------------------------------------------------------------------------
(* Properties *)

\* As long as a pong is handled within a second of each tick, the waits of
\* pingHandler and of the pong handler for rm.mutex included, no timer gives
\* up a connection that had its first pong, whatever became of the ones before
\* it.  The deadline of ten seconds that a pong sets (line 187) outlives the
\* nine to the next tick and that second, so that the reader goes on; and the
\* last pong is never so old that pingHandler would close the connection (line
\* 156) or GetConnection replace it (line 407).
SteadyRelayIsKept ==
  reading /\ ~missed => deadline # 0 /\ (heard => age < 2 * pongWait)

\* A connection that had a pong and went silent, with or without its readLoop,
\* leaves the table, closed or replaced: no later than twice pongWait and one
\* tick after the last pong of the relay, and the time that pingHandler has
\* been kept from its select by rm.mutex or a ping (lines 152-162).
SilenceIsBounded ==
  heard => age <= Patience + busy

\* "No pong received for %s, closing" (line 157): a connection is closed for
\* want of a pong only after it was pinged.
SilentOnesWereAsked ==
  ping = "lock" /\ mutex = "free" /\ Stale => pinged
================================================================================

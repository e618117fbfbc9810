------------------------------ MODULE RateLimiter ------------------------------
(***************************************************************************)
(* rateLimiter/rateLimiter.go and its two users in relay/relayManager.go:  *)
(* every writeLoop calls Allow before it writes, and every                 *)
(* processReadChannel halves Limit, without the mutex, on a NOTICE.  One   *)
(* limiter is shared by the connections of all relays.                     *)
(*                                                                         *)
(* Allow waits for the ticker while it holds the mutex.  The load and the  *)
(* store of rateLimiter.Limit / 2 are two steps: they race with those of   *)
(* other NOTICEs and with the read of Limit in Allow.  An int is read and  *)
(* written whole on the platforms Go supports, so a read sees some value   *)
(* that was stored.                                                        *)
(***************************************************************************)
EXTENDS Naturals

CONSTANTS
  Writers,       \* writeLoop goroutines
  Processors,    \* processReadChannel goroutines
  InitialLimit,  \* the limit given to NewRateLimiter (5)
  None

ASSUME LimiterAssumption ==
  /\ InitialLimit \in Nat \ {0}
  /\ None \notin Writers

VARIABLES
  count,     \* rl.count
  Limit,     \* rl.Limit
  tick,      \* the one-place buffer of rl.ticker.C holds a tick
  mu,        \* the writer that holds rl.mu
  writer,    \* where a writeLoop is
  loaded,    \* the Limit a processor read and has not yet halved, or None
  passed,    \* messages let through since the ticker last fired
  noticed    \* a NOTICE was processed to the end

vars == <<count, Limit, tick, mu, writer, loaded, passed, noticed>>

TypeOK ==
  /\ count \in 0..InitialLimit
  /\ Limit \in 0..InitialLimit
  /\ tick \in BOOLEAN
  /\ mu \in Writers \cup {None}
  /\ writer \in [Writers -> {"select", "lock", "check", "wait"}]
  /\ loaded \in [Processors -> 0..InitialLimit \cup {None}]
  /\ passed \in Nat
  /\ noticed \in BOOLEAN

\* NewRateLimiter: the ticker starts at once and has not fired.
Init ==
  /\ count = 0
  /\ Limit = InitialLimit
  /\ tick = FALSE
  /\ mu = None
  /\ writer = [w \in Writers |-> "select"]
  /\ loaded = [p \in Processors |-> None]
  /\ passed = 0
  /\ noticed = FALSE

-----------------------------------------------------------------------------
(* Allow *)

\* writeLoop received a message and calls Allow.
Call(w) ==
  /\ writer[w] = "select"
  /\ writer' = [writer EXCEPT ![w] = "lock"]
  /\ UNCHANGED <<count, Limit, tick, mu, loaded, passed, noticed>>

\* rl.mu.Lock()
Lock(w) ==
  /\ writer[w] = "lock"
  /\ mu = None
  /\ mu' = w
  /\ writer' = [writer EXCEPT ![w] = "check"]
  /\ UNCHANGED <<count, Limit, tick, loaded, passed, noticed>>

\* Allow returns true and its deferred Unlock runs.
Return(w) ==
  /\ mu' = None
  /\ writer' = [writer EXCEPT ![w] = "select"]
  /\ passed' = passed + 1
  /\ UNCHANGED <<Limit, loaded, noticed>>

\* The test and the two ways out of it.
RoomForOneMore == count <= Limit                       \* mutant
HasRoom == count < Limit

Pass(w) ==
  /\ writer[w] = "check"
  /\ HasRoom
  /\ count' = count + 1
  /\ UNCHANGED tick
  /\ Return(w)

Block(w) ==
  /\ writer[w] = "check"
  /\ ~HasRoom
  /\ writer' = [writer EXCEPT ![w] = "wait"]
  /\ UNCHANGED <<count, Limit, tick, mu, loaded, passed, noticed>>

\* <-rl.ticker.C; rl.count = 1: the message that waited is not counted
\* against Limit, so it passes even when Limit is 0.
StartsFromZero(w) ==                                   \* mutant
  /\ writer[w] = "wait"
  /\ tick
  /\ tick' = FALSE
  /\ count' = 0
  /\ Return(w)
ChecksAgain(w) ==                                      \* mutant
  /\ writer[w] = "wait"
  /\ tick
  /\ tick' = FALSE
  /\ count' = 0
  /\ writer' = [writer EXCEPT ![w] = "check"]
  /\ UNCHANGED <<Limit, mu, loaded, passed, noticed>>
Refill(w) ==
  /\ writer[w] = "wait"
  /\ tick
  /\ tick' = FALSE
  /\ count' = 1
  /\ Return(w)

-----------------------------------------------------------------------------
(* The ticker and the NOTICEs *)

\* The ticker fires; a tick that nobody took is not doubled.
Tick ==
  /\ tick' = TRUE
  /\ passed' = 0
  /\ UNCHANGED <<count, Limit, mu, writer, loaded, noticed>>

LoadLimit(p) ==
  /\ loaded[p] = None
  /\ loaded' = [loaded EXCEPT ![p] = Limit]
  /\ UNCHANGED <<count, Limit, tick, mu, writer, passed, noticed>>

RoundedUp(n) == (n + 1) \div 2                         \* mutant
Halved(n) == n \div 2

StoreLimit(p) ==
  /\ loaded[p] # None
  /\ Limit' = Halved(loaded[p])
  /\ loaded' = [loaded EXCEPT ![p] = None]
  /\ noticed' = TRUE
  /\ UNCHANGED <<count, tick, mu, writer, passed>>

Allow(w) == Pass(w) \/ Block(w) \/ Refill(w)

Next ==
  \/ \E w \in Writers : Call(w) \/ Lock(w) \/ Allow(w)
  \/ \E p \in Processors : LoadLimit(p) \/ StoreLimit(p)
  \/ Tick

Spec == Init /\ [][Next]_vars

-----------------------------------------------------------------------------
(* Properties *)

(***************************************************************************)
(* Between two firings of the ticker the relays together are sent at most  *)
(* twice the limit, not once: a tick that was buffered while nobody waited *)
(* refills the limiter in the middle of an interval                        *)
(* (rateLimiter.go:23-35).                                                 *)
(***************************************************************************)
BurstIsBounded == passed <= 2 * InitialLimit

(***************************************************************************)
(* A NOTICE slows the writers down: once one was processed, the limit is   *)
(* at most half of the initial one, although racing NOTICEs lose updates   *)
(* and a late store may even raise it again (relayManager.go:276-277).     *)
(***************************************************************************)
NoticeSlowsDown == noticed => Limit <= InitialLimit \div 2

(***************************************************************************)
(* However many NOTICEs arrive, every message still passes: with a limit   *)
(* of 0 each one waits for a tick, holding the mutex, and the others for   *)
(* the mutex (rateLimiter.go:27-34).                                       *)
(***************************************************************************)
EveryMessagePasses == \A w \in Writers : writer[w] = "lock" ~> writer[w] = "select"
==============================================================================

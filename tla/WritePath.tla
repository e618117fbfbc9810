------------------------------- MODULE WritePath -------------------------------
(***************************************************************************)
(* The way of a message to its relay: request goroutines, the unbuffered   *)
(* write channel of their connection, writeLoop, and the rate limiter that *)
(* the writeLoops of all connections share, which is RateLimiter as it     *)
(* stands.  A connection is closed by anybody and is not replaced here;    *)
(* RelayManager has that.                                                  *)
(*                                                                         *)
(* A writeLoop that holds a message and is not in Allow has come back from *)
(* it and is about to write.  Goroutines that wait on a channel are served *)
(* in the order in which they came.                                        *)
(***************************************************************************)
EXTENDS RateLimiter, Sequences, FiniteSets

CONSTANTS
  Clients,  \* request goroutines
  Layouts   \* which writeLoop each of them may get from GetConnection

ASSUME PathAssumption ==
  /\ Layouts \subseteq [Clients -> Writers]
  /\ IsFiniteSet(Writers)

VARIABLES
  conn,    \* conn[r]: the writeLoop of the connection that r has
  stage,   \* where a request goroutine is
  socket,  \* the connection of a writeLoop
  gone,    \* writeLoops that have returned
  holds,   \* the message a writeLoop has taken: a sequence of at most one
  wire,    \* messages written to a connection
  wrote    \* messages written since the ticker last fired

path == <<conn, stage, socket, gone, holds, wire, wrote>>
allVars == <<vars, path>>

Message(r, t) == [client |-> r, type |-> t]
Messages == {Message(r, t) : r \in Clients, t \in {"REQ", "CLOSE"}}

PathTypeOK ==
  /\ TypeOK
  /\ conn \in Layouts
  /\ stage \in [Clients -> {"REQ", "sleep", "CLOSE", "done"}]
  /\ socket \in [Writers -> {"open", "failed", "closed"}]
  /\ gone \subseteq Writers
  /\ holds \in [Writers -> {<< >>} \cup {<<m>> : m \in Messages}]
  /\ wire \in [Writers -> Seq(Messages)]
  /\ wrote \in Nat

PathInit ==
  /\ Init
  /\ conn \in Layouts
  /\ stage = [r \in Clients |-> "REQ"]
  /\ socket = [w \in Writers |-> "open"]
  /\ gone = {}
  /\ holds = [w \in Writers |-> << >>]
  /\ wire = [w \in Writers |-> << >>]
  /\ wrote = 0

-----------------------------------------------------------------------------

Idle(w) == w \notin gone /\ holds[w] = << >>

\* writeChan <- message, received by the select of writeLoop, which calls
\* Allow.  The select may find a closed context and a sender at once.
HandOver(r) ==
  LET w == conn[r] IN
  /\ stage[r] \in {"REQ", "CLOSE"}
  /\ Idle(w)
  /\ Call(w)
  /\ holds' = [holds EXCEPT ![w] = <<Message(r, stage[r])>>]
  /\ stage' = [stage EXCEPT ![r] = IF @ = "REQ" THEN "sleep" ELSE "done"]
  /\ UNCHANGED <<conn, socket, gone, wire, wrote>>

\* closeSubscription has slept for five seconds.
Wake(r) ==
  /\ stage[r] = "sleep"
  /\ stage' = [stage EXCEPT ![r] = "CLOSE"]
  /\ UNCHANGED <<vars, conn, socket, gone, holds, wire, wrote>>

InAllow(w) == (Lock(w) \/ Allow(w)) /\ UNCHANGED path

Notice(p) == (LoadLimit(p) \/ StoreLimit(p)) /\ UNCHANGED path

Second == Tick /\ wrote' = 0 /\ UNCHANGED <<conn, stage, socket, gone, holds, wire>>

Allowed(w) == holds[w] # << >> /\ writer[w] = "select"

Writes(w) ==
  /\ Allowed(w)
  /\ socket[w] = "open"
  /\ wire' = [wire EXCEPT ![w] = @ \o holds[w]]
  /\ wrote' = wrote + 1
  /\ UNCHANGED <<vars, conn, stage, socket>>

RetriesLater(w) ==                                     \* mutant
  /\ Writes(w)
  /\ holds' \in {holds, [holds EXCEPT ![w] = << >>]}
  /\ UNCHANGED gone
WritesOneMessage(w) ==                                 \* mutant
  /\ Writes(w)
  /\ holds' = [holds EXCEPT ![w] = << >>]
  /\ gone' = gone \cup {w}
WriteMessage(w) ==
  /\ Writes(w)
  /\ holds' = [holds EXCEPT ![w] = << >>]
  /\ UNCHANGED gone

\* The connection is closed and writeLoop returns.
WriteFails(w) ==
  /\ Allowed(w)
  /\ socket[w] # "open"
  /\ socket' = [socket EXCEPT ![w] = "closed"]
  /\ gone' = gone \cup {w}
  /\ holds' = [holds EXCEPT ![w] = << >>]
  /\ UNCHANGED <<vars, conn, stage, wire, wrote>>

\* ctx.Done()
Exit(w) ==
  /\ Idle(w)
  /\ socket[w] = "closed"
  /\ gone' = gone \cup {w}
  /\ UNCHANGED <<vars, conn, stage, socket, holds, wire, wrote>>

Break(w) ==
  /\ socket[w] = "open"
  /\ socket' = [socket EXCEPT ![w] = "failed"]
  /\ UNCHANGED <<vars, conn, stage, gone, holds, wire, wrote>>

\* CloseConnection, called by another goroutine.
Cancel(w) ==
  /\ socket[w] # "closed"
  /\ socket' = [socket EXCEPT ![w] = "closed"]
  /\ UNCHANGED <<vars, conn, stage, gone, holds, wire, wrote>>

PathNext ==
  \/ Second
  \/ \E r \in Clients : HandOver(r) \/ Wake(r)
  \/ \E w \in Writers :
       \/ InAllow(w)
       \/ WriteMessage(w) \/ WriteFails(w)
       \/ Exit(w) \/ Break(w) \/ Cancel(w)
  \/ \E p \in Processors : Notice(p)

\* The ticker keeps firing and a goroutine that can run does.  A Go mutex
\* hands itself to a waiter that has waited for a millisecond, and senders on
\* a channel wait in a queue, so one that finds the mutex free, or a receiver,
\* again and again is served: strong fairness.
PathFairness ==
  /\ WF_allVars(Second)
  /\ \A r \in Clients : SF_allVars(HandOver(r)) /\ WF_allVars(Wake(r))
  /\ \A w \in Writers :
       /\ SF_allVars(Lock(w) /\ UNCHANGED path)
       /\ WF_allVars(Allow(w) /\ UNCHANGED path)
       /\ WF_allVars(WriteMessage(w) \/ WriteFails(w))

PathSpec == PathInit /\ [][PathNext]_allVars
FairPathSpec == PathSpec /\ PathFairness

-----------------------------------------------------------------------------
(* Properties *)

(***************************************************************************)
(* Between two firings of the ticker all relays together are sent up to    *)
(* twice the limit and, but for one, a message per connection, since a     *)
(* writeLoop may be stopped between Allow and its write                    *)
(* (relayManager.go:303-309, rateLimiter.go:23-35).                        *)
(***************************************************************************)
WireBurstIsBounded == wrote <= 2 * InitialLimit - 1 + Cardinality(Writers)

\* A relay sees the REQ of a subscription before its CLOSE and each once,
\* whatever other requests use the connection: of two messages of a request
\* the first is the REQ and the second the CLOSE, and no CLOSE comes without
\* its REQ (subscription.go:332-347).
EachOnceInOrder ==
  \A r \in Clients : LET sent == wire[conn[r]] IN
    \A j \in 1..Len(sent) :
      /\ \A i \in 1..(j - 1) :
           sent[i].client = r /\ sent[j].client = r
             => sent[i].type = "REQ" /\ sent[j].type = "CLOSE"
      /\ sent[j] = Message(r, "CLOSE")
           => \E i \in 1..(j - 1) : sent[i] = Message(r, "REQ")

(***************************************************************************)
(* A subscription whose REQ was handed over is opened and closed at its    *)
(* relay unless the connection is lost, whatever other requests use the    *)
(* connection and although NOTICEs have brought the limit to 0             *)
(* (relayManager.go:296-317, subscription.go:332-347).                     *)
(***************************************************************************)
SubscriptionsAreClosed ==
  \A r \in Clients :
    stage[r] # "REQ" ~>
      \/ \E i \in 1..Len(wire[conn[r]]) : wire[conn[r]][i] = Message(r, "CLOSE")
      \/ socket[conn[r]] # "open"
================================================================================

----------------------------- MODULE RelayManager -----------------------------
(***************************************************************************)
(* relay/relayManager.go and relay/connection.go: the table of relay       *)
(* connections, the goroutines of a connection that can close it, which    *)
(* are writeLoop, readLoop and pingHandler, and the request goroutines     *)
(* that obtain a write channel from the table and send on it.              *)
(* processReadChannel, the fourth goroutine of a connection, would call    *)
(* CloseConnection only on a closed read channel; NeverPanics explains     *)
(* why there is none.                                                      *)
(*                                                                         *)
(* Every access to the maps of RelayManager happens under rm.mutex.  A     *)
(* critical section is one step, except that a dial, made with the mutex   *)
(* held and without a HandshakeTimeout (lines 62-76, 117-122 and 375-383), *)
(* takes as long as the relay likes: mutex says who is dialling, and       *)
(* whatever else needs rm.mutex waits meanwhile.  What is read in a        *)
(* critical section and used after it (the last pong in pingHandler, the   *)
(* write channel returned by GetConnection) is used in a later step.  A    *)
(* connection stands for its socket, its context and its three channels,   *)
(* which createNewConnection makes together.                               *)
(***************************************************************************)
EXTENDS Naturals

CONSTANTS
  Relays,      \* relay URLs
  Conns,       \* connections the model may open: bounds successful dials
  Reaches,     \* Reaches[n]: the relay that n may be opened to: the bound by relay
  Clients,     \* request goroutines: each asks for a connection once
  Target,      \* Target[x]: the relay that request goroutine x wants
  Kind,        \* Kind[x]: which body x runs after GetConnection
  MaxRetries,  \* maxRetries of attemptReconnect (3)
  None

Loops == {"write", "read", "ping"}

ASSUME ManagerAssumption ==
  /\ None \notin Relays \cup Conns \cup Clients \cup (Loops \X Conns)
  /\ Clients \cap (Loops \X Conns) = {}
  /\ Target \in [Clients -> Relays]
  /\ Kind \in [Clients -> {"req", "note", "entity"}]
  /\ Reaches \in [Conns -> Relays]
  /\ MaxRetries \in Nat \ {0}

VARIABLES
  connections, \* rm.connections
  channels,    \* rm.eventChans, rm.readChans and rm.writeChans
  cancelFuncs, \* rm.contexts and rm.cancelFuncs
  lastPong,    \* rm.lastPongTimes: by URL, as an age against 2 * pongWait
  relayUrl,    \* the relayUrl argument of the goroutines of a connection
  sock,        \* the websocket
  cancelled,   \* connections whose context is cancelled
  closedChans, \* connections whose channels are closed
  pc,          \* pc[k][c]: where goroutine k of connection c is
  tries,       \* failed dials of a goroutine in attemptReconnect
  client,      \* where a request goroutine is
  handle,      \* the connection whose write channel it holds
  mutex,       \* who dials, and so holds rm.mutex: a request, a goroutine or None
  crashed      \* an unrecovered panic ended the process

tables  == <<connections, channels, cancelFuncs>>
network == <<sock, relayUrl, cancelled, closedChans>>
request == <<client, handle>>
vars == <<tables, network, lastPong, pc, tries, request, mutex, crashed>>

PCs == {"none", "run", "write", "close", "retry", "done"}

TypeOK ==
  /\ connections \in [Relays -> Conns \cup {None}]
  /\ channels    \in [Relays -> Conns \cup {None}]
  /\ cancelFuncs \in [Relays -> Conns \cup {None}]
  /\ lastPong \in [Relays -> {"none", "fresh", "stale"}]
  /\ relayUrl \in [Conns -> Relays \cup {None}]
  /\ sock \in [Conns -> {"unused", "open", "broken", "closed"}]
  /\ cancelled \subseteq Conns
  /\ closedChans \subseteq Conns
  /\ pc \in [Loops -> [Conns -> PCs]]
  /\ tries \in [Loops -> [Conns -> 0..MaxRetries]]
  /\ client \in [Clients -> {"new", "send", "unsubscribe", "done"}]
  /\ handle \in [Clients -> Conns \cup {None}]
  /\ mutex \in Clients \cup (Loops \X Conns) \cup {None}
  /\ crashed \in BOOLEAN

\* NewRelayManager: empty maps.
Init ==
  /\ connections = [r \in Relays |-> None]
  /\ channels    = [r \in Relays |-> None]
  /\ cancelFuncs = [r \in Relays |-> None]
  /\ lastPong = [r \in Relays |-> "none"]
  /\ relayUrl = [c \in Conns |-> None]
  /\ sock = [c \in Conns |-> "unused"]
  /\ cancelled = {}
  /\ closedChans = {}
  /\ pc = [k \in Loops |-> [c \in Conns |-> "none"]]
  /\ tries = [k \in Loops |-> [c \in Conns |-> 0]]
  /\ client = [x \in Clients |-> "new"]
  /\ handle = [x \in Clients |-> None]
  /\ mutex = None
  /\ crashed = FALSE

Goto(k, c, l) == pc' = [pc EXCEPT ![k][c] = l]
At(k, c, l) == pc[k][c] = l

-----------------------------------------------------------------------------
(* The table *)

\* The dial succeeded with connection n: the maps for r are overwritten and
\* the goroutines of n start.  Nothing is done to the connection the maps
\* held before, and lastPongTimes keeps its entry.  before is where the other
\* goroutines are after the step.
createNewConnection(r, n, before) ==
  /\ sock[n] = "unused"
  /\ Reaches[n] = r
  /\ connections' = [connections EXCEPT ![r] = n]
  /\ channels'    = [channels    EXCEPT ![r] = n]
  /\ cancelFuncs' = [cancelFuncs EXCEPT ![r] = n]
  /\ sock' = [sock EXCEPT ![n] = "open"]
  /\ relayUrl' = [relayUrl EXCEPT ![n] = r]
  /\ pc' = [k \in Loops |-> [before[k] EXCEPT ![n] = "run"]]
  /\ UNCHANGED <<cancelled, closedChans, lastPong, crashed>>

\* isConnected together with getExistingConnection.
isConnected(r) ==
  /\ connections[r] # None
  /\ channels[r] # None
  /\ lastPong[r] = "fresh"

\* GetConnection called by request goroutine x: the lookup, which ends with
\* the connection of the table or with a dial.
GetConnection(x) ==
  LET r == Target[x] IN
  /\ client[x] = "new"
  /\ mutex = None
  /\ \/ /\ isConnected(r)
        /\ handle' = [handle EXCEPT ![x] = channels[r]]
        /\ client' = [client EXCEPT ![x] = "send"]
        /\ UNCHANGED mutex
     \/ /\ ~isConnected(r)
        /\ mutex' = x
        /\ UNCHANGED request
  /\ UNCHANGED <<tables, network, lastPong, pc, tries, crashed>>

\* The dial of GetConnection returns, up to the point where x is about to
\* send.  After a failed dial every caller but RetrieveEmbeddedEntity goes on
\* with a nil channel.
RequestDialReturns(x) ==
  /\ mutex = x
  /\ mutex' = None
  /\ \/ /\ \E n \in Conns :
             /\ createNewConnection(Target[x], n, pc)
             /\ handle' = [handle EXCEPT ![x] = n]
        /\ client' = [client EXCEPT ![x] = "send"]
     \/ /\ client' = [client EXCEPT ![x] = IF Kind[x] = "entity" THEN "done" ELSE "send"]
        /\ UNCHANGED <<tables, network, lastPong, pc, handle, crashed>>
  /\ UNCHANGED tries

\* The channel maps after deleteRelayMappings, and the channels that
\* deleteRelayChannels closes when it finds the maps as m.
NothingDeleted(m, r) == m                              \* mutant
deleteRelayMappings(m, r) == [m EXCEPT ![r] = None]
deleteRelayChannels(m, r) == {m[r]} \ {None}

\* The two calls in the order CloseConnection makes them.
ClosedBeforeDeleted(r) == deleteRelayChannels(channels, r)   \* mutant
ChannelsClosedBy(r) == deleteRelayChannels(deleteRelayMappings(channels, r), r)

\* The contexts that CloseConnection(r) cancels.
NothingCancelled(r) == {}                              \* mutant
CancelledBy(r) == {cancelFuncs[r]} \ {None}

\* The critical section of CloseConnection(relayUrl), called by goroutine k
\* of connection c: it closes whatever connection the table holds for the URL.
CloseConnection(k, c) ==
  LET r == relayUrl[c] IN
  /\ At(k, c, "close")
  /\ mutex = None
  /\ \/ /\ connections[r] = None
        /\ Goto(k, c, "done")
        /\ UNCHANGED <<tables, sock, cancelled, closedChans>>
     \/ /\ connections[r] # None
        /\ cancelled' = cancelled \cup CancelledBy(r)
        /\ sock' = [sock EXCEPT ![connections[r]] = "closed"]
        /\ closedChans' = closedChans \cup ChannelsClosedBy(r)
        /\ connections' = deleteRelayMappings(connections, r)
        /\ channels'    = deleteRelayMappings(channels, r)
        /\ cancelFuncs' = deleteRelayMappings(cancelFuncs, r)
        /\ Goto(k, c, "retry")
  /\ UNCHANGED <<relayUrl, lastPong, tries, request, mutex, crashed>>

\* The test with which attemptReconnect starts a round.
AlwaysAbsent(r) == TRUE                                \* mutant
Present(r) == connections[r] # None                    \* mutant
Absent(r) == connections[r] = None

\* Where n failed dials leave a goroutine in attemptReconnect.
OneTooMany(n) == IF n <= MaxRetries THEN "retry" ELSE "done"   \* mutant
AfterFailures(n) == IF n < MaxRetries THEN "retry" ELSE "done"

\* A round of the loop in attemptReconnect: it returns or dials.
attemptReconnect(k, c) ==
  LET r == relayUrl[c] IN
  /\ At(k, c, "retry")
  /\ mutex = None
  /\ \/ /\ ~Absent(r)
        /\ Goto(k, c, "done")
        /\ UNCHANGED mutex
     \/ /\ Absent(r)
        /\ mutex' = <<k, c>>
        /\ UNCHANGED pc
  /\ UNCHANGED <<tables, network, lastPong, tries, request, crashed>>

\* The dial of attemptReconnect returns.
RetryDialReturns(k, c) ==
  /\ mutex = <<k, c>>
  /\ mutex' = None
  /\ \/ /\ \E n \in Conns :
             createNewConnection(relayUrl[c], n, [pc EXCEPT ![k][c] = "done"])
        /\ UNCHANGED tries
     \/ /\ tries' = [tries EXCEPT ![k][c] = @ + 1]
        /\ Goto(k, c, AfterFailures(tries[k][c] + 1))
        /\ UNCHANGED <<tables, network, lastPong, crashed>>
  /\ UNCHANGED request

-----------------------------------------------------------------------------
(* The goroutines of a connection *)

\* case <-ctx.Done(): return
Exit(k, c) ==
  /\ At(k, c, "run")
  /\ c \in cancelled
  /\ Goto(k, c, "done")
  /\ UNCHANGED <<tables, network, lastPong, tries, request, mutex, crashed>>

\* Request goroutine x sends its REQ, its EVENT or, five seconds later, its
\* CLOSE on the unbuffered write channel it holds, and writeLoop receives it.
\* On a closed channel the send panics; RetrieveEmbeddedEntity recovers.
Send(x) ==
  LET c == handle[x] IN
  /\ client[x] \in {"send", "unsubscribe"}
  /\ c # None
  /\ c \in closedChans \/ At("write", c, "run")
  /\ client' = [client EXCEPT ![x] =
                  IF c \in closedChans \/ Kind[x] = "note" \/ @ = "unsubscribe"
                  THEN "done" ELSE "unsubscribe"]
  /\ pc' = IF c \in closedChans THEN pc ELSE [pc EXCEPT !["write"][c] = "write"]
  /\ crashed' = (c \in closedChans /\ Kind[x] # "entity")
  /\ UNCHANGED <<tables, network, lastPong, tries, handle, mutex>>

\* writeLoop passes the rate limiter and writes the message it received.
WritesOneMessage(c) ==                                 \* mutant
  /\ At("write", c, "write")
  /\ Goto("write", c, IF sock[c] = "open" THEN "done" ELSE "close")
  /\ UNCHANGED <<tables, network, lastPong, tries, request, mutex, crashed>>
WriteMessage(c) ==
  /\ At("write", c, "write")
  /\ Goto("write", c, IF sock[c] = "open" THEN "run" ELSE "close")
  /\ UNCHANGED <<tables, network, lastPong, tries, request, mutex, crashed>>

\* The pong handler, called inside NextReader.
ReadPong(c) ==
  /\ At("read", c, "run")
  /\ mutex = None
  /\ sock[c] = "open"
  /\ lastPong' = [lastPong EXCEPT ![relayUrl[c]] = "fresh"]
  /\ UNCHANGED <<tables, network, pc, tries, request, mutex, crashed>>

\* NextReader fails on a socket that is dead.  Only a close frame of the peer
\* with a code other than going-away and abnormal-closure makes readLoop call
\* CloseConnection; on any other error it returns and leaves the table alone.
ReadError(c) ==
  /\ At("read", c, "run")
  /\ sock[c] \in {"broken", "closed"}
  /\ \/ Goto("read", c, "done")
     \/ sock[c] = "broken" /\ Goto("read", c, "close")
  /\ UNCHANGED <<tables, network, lastPong, tries, request, mutex, crashed>>

\* NextReader fails on a socket that can still be written: the read deadline
\* set by the pong handler passes, or the peer ends its half of the stream.
ReadEnds(c) ==
  /\ At("read", c, "run")
  /\ sock[c] = "open"
  /\ Goto("read", c, "done")
  /\ UNCHANGED <<tables, network, lastPong, tries, request, mutex, crashed>>

\* The ping fails on a socket that failed, and times out after pongWait when
\* writeLoop keeps the connection all that time, in a write that the peer
\* does not read.
PingFails(c) == sock[c] # "open" \/ At("write", c, "write")

\* The ticker of pingHandler fires and it gives up: the last pong of its URL,
\* looked up under rm.mutex, is too old, or the ping fails.  A ping that is
\* written changes nothing here: the pong it asks for is ReadPong.
GivesUp(c) ==
  \/ mutex = None /\ lastPong[relayUrl[c]] = "stale"
  \/ PingFails(c)
ReturnsWithoutClosing(c) ==                            \* mutant
  /\ At("ping", c, "run")
  /\ GivesUp(c)
  /\ Goto("ping", c, "done")
  /\ UNCHANGED <<tables, network, lastPong, tries, request, mutex, crashed>>
PingTick(c) ==
  /\ At("ping", c, "run")
  /\ GivesUp(c)
  /\ Goto("ping", c, "close")
  /\ UNCHANGED <<tables, network, lastPong, tries, request, mutex, crashed>>

-----------------------------------------------------------------------------
(* The world *)

\* The peer closes, or the local end learns that the transport failed or, by
\* a ping that times out, that nobody reads: from now on every read and write
\* on the socket returns an error.
Break(c) ==
  /\ sock[c] = "open"
  /\ sock' = [sock EXCEPT ![c] = "broken"]
  /\ UNCHANGED <<tables, relayUrl, cancelled, closedChans, lastPong, pc, tries, request, mutex, crashed>>

\* 2 * pongWait passes without a pong from r.
PongAges(r) ==
  /\ lastPong[r] = "fresh"
  /\ lastPong' = [lastPong EXCEPT ![r] = "stale"]
  /\ UNCHANGED <<tables, network, pc, tries, request, mutex, crashed>>

\* What goroutine k of connection c does on its own, as opposed to what the
\* peer or a request makes it do.  A write on an open socket is not among it:
\* it lasts until the peer reads.
LoopStep(k, c) ==
  \/ Exit(k, c) \/ CloseConnection(k, c) \/ attemptReconnect(k, c)
  \/ k = "write" /\ sock[c] # "open" /\ WriteMessage(c)
  \/ k = "read" /\ ReadError(c)
  \/ k = "ping" /\ PingTick(c)

ConnStep(c) ==
  \/ \E k \in Loops : LoopStep(k, c) \/ RetryDialReturns(k, c)
  \/ WriteMessage(c) \/ ReadPong(c) \/ ReadEnds(c) \/ Break(c)

Next ==
  /\ ~crashed
  /\ \/ \E x \in Clients : GetConnection(x) \/ RequestDialReturns(x) \/ Send(x)
     \/ \E c \in Conns : ConnStep(c)
     \/ \E r \in Relays : PongAges(r)

Spec == Init /\ [][Next]_vars

\* A goroutine that can run does run, a call on a socket that failed returns,
\* and a ping behind a write that does not return times out.  Nothing is
\* assumed of the peer, which need not read, answer a ping or answer a dial,
\* of the clock, or of when a request arrives.
Fairness ==
  /\ \A k \in Loops, c \in Conns : WF_vars(~crashed /\ LoopStep(k, c))
  /\ \A x \in Clients : WF_vars(~crashed /\ Send(x))

FairSpec == Spec /\ Fairness

-----------------------------------------------------------------------------
(* Safety *)

(***************************************************************************)
(* No request ever sends on a closed channel, although it keeps its write  *)
(* channel across the five seconds before its CLOSE and the connection may *)
(* be closed meanwhile.  It holds because deleteRelayMappings has emptied  *)
(* the maps by the time deleteRelayChannels looks for channels to close    *)
(* (relayManager.go:358-359): channels are abandoned, never closed.        *)
(***************************************************************************)
NeverPanics == ~crashed

(***************************************************************************)
(* The connection in the table is served: its context is live, a writer    *)
(* will receive what is sent on its channel or is about to close it, and   *)
(* its pingHandler is watching it or about to close it.  The reader is not *)
(* in the list: it may have returned silently (relayManager.go:209-215).   *)
(***************************************************************************)
CurrentIsServed ==
  \A r \in Relays : LET c == connections[r] IN
    c # None =>
      /\ relayUrl[c] = r
      /\ c \notin cancelled
      /\ sock[c] \in {"open", "broken"}
      /\ pc["write"][c] \in {"run", "write", "close"}
      /\ pc["ping"][c] \in {"run", "close"}

(***************************************************************************)
(* A relay that was connected once and has no connection now is not        *)
(* forgotten: some goroutine is in attemptReconnect for it, or one has     *)
(* used up its attempts (relayManager.go:345-396).                         *)
(***************************************************************************)
LostRelayIsRetried ==
  \A r \in Relays :
    connections[r] = None /\ (\E c \in Conns : relayUrl[c] = r) =>
      \E c \in Conns, k \in Loops :
        relayUrl[c] = r /\ (At(k, c, "retry") \/ tries[k][c] = MaxRetries)

(***************************************************************************)
(* The maps, seen without goroutines and sockets, are the link table: a    *)
(* connection in use is replaced without being closed only by              *)
(* GetConnection while the relay has no fresh pong, a reconnect never      *)
(* replaces anything, and every removal closes what it removes.            *)
(***************************************************************************)
Link == INSTANCE LinkTable WITH
  link <- connections,
  used <- {c \in Conns : sock[c] # "unused"},
  retired <- {c \in Conns : sock[c] = "closed"},
  confirmed <- {r \in Relays : lastPong[r] = "fresh"}

ImplementsLinkTable == Link!Spec
LinksAreLive == Link!LinksAreLive

-----------------------------------------------------------------------------
(* Liveness *)

(***************************************************************************)
(* What no code of the repository ensures: createConnection sets no        *)
(* HandshakeTimeout (relayManager.go:117-122), so a relay that accepts and *)
(* never answers keeps rm.mutex for good, and with it every goroutine that *)
(* has something to close and every request.  The properties below are     *)
(* about the behaviours in which no dial of any relay hangs for ever.      *)
(***************************************************************************)
EveryDialReturns == []<>(mutex = None)

(***************************************************************************)
(* A connection whose socket failed does not stay in the table: even when  *)
(* its readLoop returned silently and nothing is written to it, the next   *)
(* ping of pingHandler fails and closes it (relayManager.go:162-166), as   *)
(* soon as the dials in progress let it have rm.mutex.                     *)
(***************************************************************************)
BrokenIsDropped ==
  EveryDialReturns =>
    \A r \in Relays, c \in Conns :
      connections[r] = c /\ sock[c] = "broken" ~> connections[r] # c

(***************************************************************************)
(* All goroutines of a connection that was closed return, whatever they    *)
(* were blocked on: the context, the socket, a write that the peer did not *)
(* read, rm.mutex behind the dial of another, or a dial of their own       *)
(* (relayManager.go:149-152, 204-216, 293-317, 369-396).                   *)
(***************************************************************************)
ClosedLoopsReturn ==
  EveryDialReturns =>
    \A c \in Conns :
      sock[c] = "closed" ~> \A k \in Loops : At(k, c, "done")

(***************************************************************************)
(* A request blocked on the write channel of the connection in the table   *)
(* gets through, or that connection leaves the table, also when the peer   *)
(* does not read and writeLoop is stuck in WriteMessage, which has no      *)
(* deadline (relayManager.go:309): pingHandler times out and closes.  A    *)
(* request blocked on a connection that was replaced has no such promise.  *)
(***************************************************************************)
SendersAreServed ==
  EveryDialReturns =>
    \A x \in Clients, c \in Conns :
      handle[x] = c /\ client[x] # "done" /\ connections[Target[x]] = c
        ~> client[x] = "done" \/ connections[Target[x]] # c
==============================================================================

-------------------------- MODULE RelayManagerProofs --------------------------
(***************************************************************************)
(* Machine-checked proofs about RelayManager, for any number of relays,    *)
(* connections, requests and reconnect attempts.                           *)
(***************************************************************************)
EXTENDS RelayManager, TLAPS

\* The maps agree at every release of the mutex.
MapsAgree == channels = connections /\ cancelFuncs = connections

\* A connection that was never dialled has no goroutines and no URL; any
\* other belongs to one relay for good, and all its goroutines were started.
Dialled ==
  \A c \in Conns :
    IF sock[c] = "unused"
    THEN c \notin cancelled /\ relayUrl[c] = None /\ \A k \in Loops : pc[k][c] = "none"
    ELSE relayUrl[c] \in Relays /\ \A k \in Loops : pc[k][c] # "none"

\* A goroutine in attemptReconnect has an attempt left, and one that is not
\* there yet has made none: a goroutine loses its connection only once.
RetriesLeft ==
  \A k \in Loops, c \in Conns :
    /\ At(k, c, "retry") => tries[k][c] < MaxRetries
    /\ pc[k][c] \notin {"retry", "done"} => tries[k][c] = 0

\* Whoever dials still has the reason for which it started: a request finds
\* no answering connection and a goroutine no connection at all, because what
\* could change that needs rm.mutex.
DialsAreDue ==
  /\ \A x \in Clients : mutex = x => client[x] = "new" /\ ~isConnected(Target[x])
  /\ \A k \in Loops, c \in Conns :
       mutex = <<k, c>> => At(k, c, "retry") /\ connections[relayUrl[c]] = None

\* The inductive invariant.  closedChans stays empty because the maps are
\* emptied before deleteRelayChannels reads them; that is why nothing panics.
IInv ==
  /\ TypeOK
  /\ MapsAgree
  /\ Dialled
  /\ RetriesLeft
  /\ DialsAreDue
  /\ closedChans = {}
  /\ NeverPanics
  /\ CurrentIsServed
  /\ LostRelayIsRetried

-----------------------------------------------------------------------------
(* Types *)

\* The initial state satisfies the inductive invariant: nothing is dialled.
LEMMA InitIInv == Init => IInv
  <1> SUFFICES ASSUME Init PROVE IInv
    OBVIOUS
  <1>1. TypeOK
    <2>1. pc \in [Loops -> [Conns -> PCs]]
      BY DEF Init, PCs
    <2>2. tries \in [Loops -> [Conns -> 0..MaxRetries]]
      BY ManagerAssumption DEF ManagerAssumption, Init
    <2> QED
      BY <2>1, <2>2, ManagerAssumption DEF ManagerAssumption, Init, TypeOK
  <1>2. /\ MapsAgree /\ Dialled /\ RetriesLeft /\ closedChans = {}
        /\ NeverPanics /\ DialsAreDue
    BY ManagerAssumption
    DEF ManagerAssumption, Init, MapsAgree, Dialled, RetriesLeft, NeverPanics, At, DialsAreDue
  <1>3. CurrentIsServed
    BY DEF Init, CurrentIsServed
  <1>4. LostRelayIsRetried
    BY ManagerAssumption DEF ManagerAssumption, Init, LostRelayIsRetried
  <1> QED
    BY <1>1, <1>2, <1>3, <1>4 DEF IInv

\* Moving one goroutine to a program point keeps pc in its type.
LEMMA GotoType ==
  ASSUME TypeOK, NEW k \in Loops, NEW c \in Conns, NEW l \in PCs, Goto(k, c, l)
  PROVE  pc' \in [Loops -> [Conns -> PCs]]
  BY DEF TypeOK, Goto

\* A successful dial keeps every variable in its type.
LEMMA CreateType ==
  ASSUME TypeOK, NEW r \in Relays, NEW n \in Conns,
         NEW before, before \in [Loops -> [Conns -> PCs]],
         createNewConnection(r, n, before)
  PROVE  /\ connections' \in [Relays -> Conns \cup {None}]
         /\ channels' \in [Relays -> Conns \cup {None}]
         /\ cancelFuncs' \in [Relays -> Conns \cup {None}]
         /\ lastPong' \in [Relays -> {"none", "fresh", "stale"}]
         /\ relayUrl' \in [Conns -> Relays \cup {None}]
         /\ sock' \in [Conns -> {"unused", "open", "broken", "closed"}]
         /\ cancelled' \subseteq Conns /\ closedChans' \subseteq Conns
         /\ pc' \in [Loops -> [Conns -> PCs]]
         /\ crashed' \in BOOLEAN
  BY DEF TypeOK, createNewConnection, PCs

\* Every step keeps every variable in its type; that crashed is a Boolean is
\* the only part that needs the definition of a send on a closed channel.
LEMMA NextType == IInv /\ [Next]_vars => TypeOK'
  <1> SUFFICES ASSUME IInv, [Next]_vars PROVE TypeOK'
    OBVIOUS
  <1> USE ManagerAssumption DEF ManagerAssumption
  <1>0. TypeOK /\ Dialled /\ RetriesLeft /\ DialsAreDue
    BY DEF IInv
  <1>1. ASSUME NEW x \in Clients, GetConnection(x) PROVE TypeOK'
    <2>1. channels[Target[x]] \in Conns \cup {None}
      BY <1>0 DEF TypeOK
    <2>2. /\ handle' = handle \/ handle' = [handle EXCEPT ![x] = channels[Target[x]]]
          /\ client' = client \/ client' = [client EXCEPT ![x] = "send"]
          /\ mutex' = mutex \/ mutex' = x
          /\ UNCHANGED <<tables, network, lastPong, pc, tries, crashed>>
      BY <1>1 DEF GetConnection, request
    <2>3. handle' \in [Clients -> Conns \cup {None}]
      BY <1>0, <2>1, <2>2 DEF TypeOK
    <2>4. client' \in [Clients -> {"new", "send", "unsubscribe", "done"}]
      BY <1>0, <2>2 DEF TypeOK
    <2> QED
      BY <1>0, <2>2, <2>3, <2>4 DEF TypeOK, tables, network
  <1>13. ASSUME NEW x \in Clients, RequestDialReturns(x) PROVE TypeOK'
    <2> DEFINE r == Target[x]
    <2>1. r \in Relays /\ tries' = tries /\ mutex' = None
      BY <1>13 DEF RequestDialReturns
    <2>2. client' \in [Clients -> {"new", "send", "unsubscribe", "done"}]
      <3>1. client' = [client EXCEPT ![x] = "send"] \/ client' = [client EXCEPT ![x] = "done"]
        BY <1>13 DEF RequestDialReturns
      <3> QED
        BY <1>0, <3>1 DEF TypeOK
    <2>3. CASE \E n \in Conns : createNewConnection(r, n, pc) /\ handle' = [handle EXCEPT ![x] = n]
      <3>1. PICK n \in Conns : createNewConnection(r, n, pc) /\ handle' = [handle EXCEPT ![x] = n]
        BY <2>3
      <3>2. pc \in [Loops -> [Conns -> PCs]]
        BY <1>0 DEF TypeOK
      <3> HIDE DEF r
      <3>3. handle' \in [Clients -> Conns \cup {None}]
        BY <1>0, <3>1 DEF TypeOK
      <3> QED
        BY <1>0, <2>1, <2>2, <3>1, <3>2, <3>3, CreateType DEF TypeOK
    <2>4. CASE UNCHANGED <<tables, network, lastPong, pc, handle, crashed>>
      <3> HIDE DEF r
      <3> QED
        BY <1>0, <2>1, <2>2, <2>4 DEF TypeOK, tables, network
    <2> QED
      BY <1>13, <2>3, <2>4 DEF RequestDialReturns
  <1>2. ASSUME NEW x \in Clients, Send(x) PROVE TypeOK'
    BY <1>0, <1>2 DEF Send, TypeOK, tables, network, At, Loops, PCs
  <1>3. ASSUME NEW k \in Loops, NEW c \in Conns, Exit(k, c) PROVE TypeOK'
    BY <1>0, <1>3 DEF Exit, Goto, TypeOK, tables, network, request, PCs
  <1>4. ASSUME NEW k \in Loops, NEW c \in Conns, CloseConnection(k, c) PROVE TypeOK'
    <2> DEFINE r == relayUrl[c]
    <2>1. r \in Relays
      BY <1>0, <1>4 DEF Dialled, CloseConnection, At, TypeOK, PCs
    <2>2. pc' \in [Loops -> [Conns -> PCs]]
      BY <1>0, <1>4, GotoType DEF CloseConnection, PCs
    <2>3. UNCHANGED <<relayUrl, lastPong, tries, client, handle, mutex, crashed>>
      BY <1>4 DEF CloseConnection, request
    <2>4. CASE connections[r] = None /\ UNCHANGED <<tables, sock, cancelled, closedChans>>
      BY <1>0, <2>2, <2>3, <2>4 DEF TypeOK, tables
    <2>5. CASE connections[r] # None
      <3>1. connections[r] \in Conns /\ CancelledBy(r) \subseteq Conns
        BY <1>0, <2>1, <2>5 DEF TypeOK, CancelledBy
      <3>2. ChannelsClosedBy(r) = {}
        BY <1>0, <2>1
        DEF TypeOK, ChannelsClosedBy, deleteRelayMappings, deleteRelayChannels
      <3>3. /\ cancelled' = cancelled \cup CancelledBy(r)
            /\ closedChans' = closedChans \cup ChannelsClosedBy(r)
            /\ sock' = [sock EXCEPT ![connections[r]] = "closed"]
            /\ connections' = [connections EXCEPT ![r] = None]
            /\ channels' = [channels EXCEPT ![r] = None]
            /\ cancelFuncs' = [cancelFuncs EXCEPT ![r] = None]
        BY <1>4, <2>5 DEF CloseConnection, deleteRelayMappings
      <3> QED
        BY <1>0, <2>2, <2>3, <3>1, <3>2, <3>3 DEF TypeOK
    <2> QED
      BY <1>4, <2>4, <2>5 DEF CloseConnection
  <1>5. ASSUME NEW k \in Loops, NEW c \in Conns, attemptReconnect(k, c) PROVE TypeOK'
    <2>1. pc' \in [Loops -> [Conns -> PCs]]
      BY <1>0, <1>5, GotoType DEF attemptReconnect, TypeOK, PCs
    <2>2. mutex' \in Clients \cup (Loops \X Conns) \cup {None}
      BY <1>0, <1>5 DEF attemptReconnect, TypeOK
    <2> QED
      BY <1>0, <1>5, <2>1, <2>2 DEF attemptReconnect, TypeOK, tables, network, request
  <1>14. ASSUME NEW k \in Loops, NEW c \in Conns, RetryDialReturns(k, c) PROVE TypeOK'
    <2> DEFINE r == relayUrl[c]
               before == [pc EXCEPT ![k][c] = "done"]
    <2>1. r \in Relays /\ At(k, c, "retry") /\ mutex' = None
      BY <1>0, <1>14 DEF Dialled, DialsAreDue, RetryDialReturns, At
    <2>2. CASE /\ \E n \in Conns : createNewConnection(r, n, before)
               /\ UNCHANGED tries
      <3>1. PICK n \in Conns : createNewConnection(r, n, before)
        BY <2>2
      <3>2. before \in [Loops -> [Conns -> PCs]]
        BY <1>0 DEF TypeOK, PCs
      <3>3. UNCHANGED <<client, handle>>
        BY <1>14 DEF RetryDialReturns, request
      <3> HIDE DEF r, before
      <3> QED
        BY <1>0, <2>1, <2>2, <3>1, <3>2, <3>3, CreateType DEF TypeOK
    <2>3. CASE UNCHANGED <<tables, network, lastPong, crashed>>
      <3>1. tries[k][c] \in 0..MaxRetries /\ tries[k][c] < MaxRetries
        BY <1>0, <2>1 DEF RetriesLeft, TypeOK
      <3>2. tries[k][c] + 1 \in 0..MaxRetries
        BY <3>1
      <3>3. tries' = tries \/ tries' = [tries EXCEPT ![k][c] = tries[k][c] + 1]
        BY <1>0, <1>14 DEF RetryDialReturns, TypeOK
      <3>4. tries' \in [Loops -> [Conns -> 0..MaxRetries]]
        <4> DEFINE M == 0..MaxRetries
                   m == tries[k][c] + 1
        <4>1. tries \in [Loops -> [Conns -> M]] /\ m \in M
          BY <1>0, <3>2 DEF TypeOK
        <4>2. tries' = tries \/ tries' = [tries EXCEPT ![k][c] = m]
          BY <3>3
        <4> HIDE DEF M, m
        <4>3. tries' \in [Loops -> [Conns -> M]]
          BY <4>1, <4>2
        <4> QED
          BY <4>3 DEF M
      <3>5. pc' \in [Loops -> [Conns -> PCs]]
        <4>1. CASE \E n \in Conns : createNewConnection(r, n, before)
          BY <1>0, <2>1, <4>1, CreateType DEF TypeOK, PCs
        <4>2. CASE \E l \in {"retry", "done"} : Goto(k, c, l)
          BY <1>0, <4>2, GotoType DEF PCs
        <4> QED
          BY <1>14, <4>1, <4>2 DEF RetryDialReturns, AfterFailures
      <3> QED
        BY <1>0, <1>14, <2>3, <3>4, <3>5 DEF RetryDialReturns, TypeOK, tables, network, request
    <2> QED
      BY <1>14, <2>2, <2>3 DEF RetryDialReturns
  <1>6. ASSUME NEW c \in Conns, WriteMessage(c) PROVE TypeOK'
    BY <1>0, <1>6 DEF WriteMessage, Goto, TypeOK, tables, network, request, PCs, Loops
  <1>7. ASSUME NEW c \in Conns, ReadError(c) \/ ReadEnds(c) PROVE TypeOK'
    BY <1>0, <1>7 DEF ReadError, ReadEnds, Goto, TypeOK, tables, network, request, PCs, Loops
  <1>8. ASSUME NEW c \in Conns, PingTick(c) PROVE TypeOK'
    BY <1>0, <1>8 DEF PingTick, Goto, TypeOK, tables, network, request, PCs, Loops
  <1>9. ASSUME NEW c \in Conns, ReadPong(c) \/ Break(c) PROVE TypeOK'
    BY <1>0, <1>9 DEF ReadPong, Break, TypeOK, tables, network, request
  <1>10. ASSUME NEW r \in Relays, PongAges(r) PROVE TypeOK'
    BY <1>0, <1>10 DEF PongAges, TypeOK, tables, network, request
  <1>11. CASE UNCHANGED vars
    BY <1>0, <1>11 DEF vars, TypeOK, tables, network, request
  <1> QED
    BY <1>1, <1>2, <1>3, <1>4, <1>5, <1>6, <1>7, <1>8, <1>9, <1>10, <1>11, <1>13, <1>14
    DEF Next, ConnStep, LoopStep

-----------------------------------------------------------------------------
(* Preservation *)

\* Nobody loses the reason of a dial while it lasts: the steps that could take
\* it away, a close, a pong and another dial, wait for rm.mutex.
LEMMA NextDials == IInv /\ [Next]_vars => DialsAreDue'
  <1> SUFFICES ASSUME IInv, [Next]_vars PROVE DialsAreDue'
    OBVIOUS
  <1> USE ManagerAssumption DEF ManagerAssumption
  <1>0. TypeOK /\ DialsAreDue
    BY DEF IInv
  <1>1. ASSUME mutex' = None PROVE DialsAreDue'
    BY <1>1 DEF DialsAreDue
  <1>2. ASSUME NEW x \in Clients, GetConnection(x) PROVE DialsAreDue'
    <2>1. CASE mutex' = mutex
      BY <1>1, <1>2, <2>1 DEF GetConnection
    <2>2. CASE mutex' # mutex
      <3>1. /\ mutex' = x /\ client[x] = "new" /\ ~isConnected(Target[x])
            /\ UNCHANGED <<client, connections, channels, lastPong>>
        BY <1>2, <2>2 DEF GetConnection, request, tables
      <3> QED
        BY <3>1 DEF DialsAreDue, isConnected
    <2> QED
      BY <2>1, <2>2
  <1>3. ASSUME NEW k \in Loops, NEW c \in Conns, attemptReconnect(k, c) PROVE DialsAreDue'
    <2>1. CASE mutex' = mutex
      BY <1>1, <1>3, <2>1 DEF attemptReconnect
    <2>2. CASE mutex' # mutex
      <3>1. /\ mutex' = <<k, c>> /\ At(k, c, "retry") /\ connections[relayUrl[c]] = None
            /\ UNCHANGED <<pc, connections, relayUrl>>
        BY <1>3, <2>2 DEF attemptReconnect, Absent, tables, network
      <3> QED
        BY <3>1 DEF DialsAreDue, At
    <2> QED
      BY <2>1, <2>2
  <1>4. ASSUME \/ \E x \in Clients : RequestDialReturns(x)
               \/ \E k \in Loops, c \in Conns : CloseConnection(k, c) \/ RetryDialReturns(k, c)
               \/ \E c \in Conns : ReadPong(c)
        PROVE  DialsAreDue'
    BY <1>1, <1>4 DEF RequestDialReturns, RetryDialReturns, CloseConnection, ReadPong
  <1>5. ASSUME UNCHANGED <<mutex, tables, relayUrl>>,
               \A x \in Clients : client[x] = "new" => client'[x] = "new",
               \A r \in Relays : lastPong'[r] = lastPong[r] \/ lastPong'[r] # "fresh",
               \A k \in Loops, c \in Conns : At(k, c, "retry") => At(k, c, "retry")'
        PROVE  DialsAreDue'
    BY <1>0, <1>5 DEF DialsAreDue, isConnected, tables, TypeOK
  <1>6. ASSUME NEW x \in Clients, Send(x) PROVE DialsAreDue'
    <2>1. \A y \in Clients : client[y] = "new" => client'[y] = "new"
      BY <1>0, <1>6 DEF Send, TypeOK
    <2>2. \A k \in Loops, c \in Conns : At(k, c, "retry") => At(k, c, "retry")'
      BY <1>0, <1>6 DEF Send, TypeOK, At
    <2> QED
      BY <1>5, <1>6, <2>1, <2>2 DEF Send, network
  <1>7. ASSUME NEW c \in Conns,
               \/ WriteMessage(c) \/ ReadError(c) \/ ReadEnds(c) \/ PingTick(c)
               \/ \E k \in Loops : Exit(k, c)
        PROVE  DialsAreDue'
    <2>1. PICK k \in Loops, l \in PCs : ~At(k, c, "retry") /\ Goto(k, c, l)
      BY <1>7 DEF WriteMessage, ReadError, ReadEnds, PingTick, Exit, At, Loops, PCs
    <2>2. \A j \in Loops, d \in Conns : At(j, d, "retry") => At(j, d, "retry")'
      BY <1>0, <2>1 DEF Goto, TypeOK, At
    <2>3. UNCHANGED <<mutex, tables, network, lastPong, client>>
      BY <1>7 DEF WriteMessage, ReadError, ReadEnds, PingTick, Exit, request
    <2> QED
      BY <1>5, <2>2, <2>3 DEF network
  <1>8. ASSUME NEW c \in Conns, Break(c) PROVE DialsAreDue'
    BY <1>5, <1>8 DEF Break, request, At
  <1>9. ASSUME NEW r \in Relays, PongAges(r) PROVE DialsAreDue'
    <2>1. \A s \in Relays : lastPong'[s] = lastPong[s] \/ lastPong'[s] # "fresh"
      BY <1>0, <1>9 DEF PongAges, TypeOK
    <2> QED
      BY <1>5, <1>9, <2>1 DEF PongAges, request, network, At
  <1>10. CASE UNCHANGED vars
    BY <1>5, <1>10 DEF vars, request, network, At
  <1> QED
    BY <1>2, <1>3, <1>4, <1>6, <1>7, <1>8, <1>9, <1>10 DEF Next, ConnStep, LoopStep

\* What a successful dial for r does to the invariant, wherever it is made:
\* the new connection was never dialled, so its goroutines are all fresh, and
\* only a goroutine that was retrying for r may stop in the same step.
LEMMA CreateKeeps ==
  ASSUME IInv, TypeOK', DialsAreDue', NEW r \in Relays, NEW n \in Conns,
         NEW before, before \in [Loops -> [Conns -> PCs]],
         \A k \in Loops, c \in Conns :
           \/ before[k][c] = pc[k][c]
           \/ At(k, c, "retry") /\ before[k][c] = "done" /\ relayUrl[c] = r,
         createNewConnection(r, n, before),
         UNCHANGED tries
  PROVE  IInv'
  <1> USE ManagerAssumption DEF ManagerAssumption
  <1>0. /\ TypeOK /\ MapsAgree /\ Dialled /\ RetriesLeft /\ closedChans = {}
        /\ NeverPanics /\ CurrentIsServed /\ LostRelayIsRetried
    BY DEF IInv
  <1>1. /\ sock[n] = "unused" /\ n \notin cancelled /\ relayUrl[n] = None
        /\ \A k \in Loops : pc[k][n] = "none" /\ before[k][n] = "none" /\ tries[k][n] = 0
    BY <1>0 DEF createNewConnection, Dialled, RetriesLeft, At
  <1>2. /\ \A s \in Relays : connections'[s] = IF s = r THEN n ELSE connections[s]
        /\ \A c \in Conns : /\ relayUrl'[c] = IF c = n THEN r ELSE relayUrl[c]
                            /\ sock'[c] = IF c = n THEN "open" ELSE sock[c]
        /\ \A k \in Loops, c \in Conns : pc'[k][c] = IF c = n THEN "run" ELSE before[k][c]
        /\ UNCHANGED <<cancelled, closedChans, crashed, tries>>
    BY <1>0 DEF createNewConnection, TypeOK
  <1>3. MapsAgree'
    BY <1>0 DEF createNewConnection, MapsAgree
  <1>4. Dialled'
    BY <1>0, <1>1, <1>2 DEF Dialled, At
  <1>5. RetriesLeft'
    BY <1>0, <1>1, <1>2 DEF RetriesLeft, At
  <1>6. CurrentIsServed'
    <2> SUFFICES ASSUME NEW s \in Relays, connections'[s] # None
                 PROVE  LET c == connections'[s] IN
                        /\ relayUrl'[c] = s /\ c \notin cancelled'
                        /\ sock'[c] \in {"open", "broken"}
                        /\ pc'["write"][c] \in {"run", "write", "close"}
                        /\ pc'["ping"][c] \in {"run", "close"}
      BY DEF CurrentIsServed
    <2>1. CASE s = r
      BY <1>1, <1>2, <2>1 DEF Loops
    <2>2. CASE s # r
      <3> DEFINE c == connections[s]
      <3>1. /\ c \in Conns /\ connections'[s] = c /\ relayUrl[c] = s
            /\ c \notin cancelled /\ sock[c] \in {"open", "broken"}
            /\ pc["write"][c] \in {"run", "write", "close"}
            /\ pc["ping"][c] \in {"run", "close"}
        BY <1>0, <1>2, <2>2 DEF CurrentIsServed, TypeOK
      <3>2. c # n /\ before["write"][c] = pc["write"][c] /\ before["ping"][c] = pc["ping"][c]
        BY <1>1, <2>2, <3>1 DEF Loops, At
      <3> QED
        BY <1>2, <3>1, <3>2 DEF Loops
    <2> QED
      BY <2>1, <2>2
  <1>7. LostRelayIsRetried'
    <2> SUFFICES ASSUME NEW s \in Relays, connections'[s] = None,
                        NEW d \in Conns, relayUrl'[d] = s
                 PROVE  \E c \in Conns, k \in Loops :
                          relayUrl'[c] = s /\ (At(k, c, "retry")' \/ tries'[k][c] = MaxRetries)
      BY DEF LostRelayIsRetried
    <2>1. s # r /\ connections[s] = None /\ d # n /\ relayUrl[d] = s
      BY <1>2
    <2>2. PICK c \in Conns, k \in Loops :
            relayUrl[c] = s /\ (At(k, c, "retry") \/ tries[k][c] = MaxRetries)
      BY <1>0, <2>1 DEF LostRelayIsRetried
    <2>3. c # n /\ before[k][c] = pc[k][c]
      BY <1>1, <2>1, <2>2
    <2> QED
      BY <1>2, <2>2, <2>3 DEF At
  <1> QED
    BY <1>0, <1>2, <1>3, <1>4, <1>5, <1>6, <1>7 DEF IInv, NeverPanics

\* What moving one goroutine does to the invariant, when the tables and the
\* sockets stay as they are: the writer and the watcher of the connection in
\* the table must not return, and a retry ends only with a connection there.
LEMMA GotoKeeps ==
  ASSUME IInv, TypeOK', DialsAreDue', NEW k \in Loops, NEW c \in Conns,
         NEW l \in PCs \ {"none", "retry"},
         Goto(k, c, l),
         pc[k][c] # "none",
         l # "done" => pc[k][c] \notin {"retry", "done"},
         pc[k][c] = "retry" => connections[relayUrl[c]] # None,
         (\E r \in Relays : connections[r] = c) =>
           (k = "write" => l \in {"run", "write", "close"}) /\ (k = "ping" => l \in {"run", "close"}),
         UNCHANGED <<tables, network, tries, crashed>>
  PROVE  IInv'
  <1> USE ManagerAssumption DEF ManagerAssumption
  <1>0. /\ TypeOK /\ MapsAgree /\ Dialled /\ RetriesLeft /\ closedChans = {}
        /\ NeverPanics /\ CurrentIsServed /\ LostRelayIsRetried
    BY DEF IInv
  <1>1. /\ UNCHANGED <<connections, channels, cancelFuncs, sock, relayUrl, cancelled, closedChans>>
        /\ UNCHANGED <<tries, crashed>>
        /\ \A j \in Loops, d \in Conns :
             pc'[j][d] = IF j = k /\ d = c THEN l ELSE pc[j][d]
    BY <1>0 DEF tables, network, Goto, TypeOK
  <1>2. Dialled'
    BY <1>0, <1>1 DEF Dialled
  <1>3. RetriesLeft'
    BY <1>0, <1>1 DEF RetriesLeft, At
  <1>4. CurrentIsServed'
    BY <1>0, <1>1 DEF CurrentIsServed, Loops, TypeOK
  <1>5. LostRelayIsRetried'
    BY <1>0, <1>1 DEF LostRelayIsRetried, At
  <1> QED
    BY <1>0, <1>1, <1>2, <1>3, <1>4, <1>5 DEF IInv, NeverPanics, MapsAgree

\* But for the reasons of a dial, the invariant does not read lastPong, client,
\* handle or mutex.
LEMMA SameKeeps ==
  ASSUME IInv, TypeOK', DialsAreDue', UNCHANGED <<tables, network, pc, tries, crashed>>
  PROVE  IInv'
  BY DEF IInv, MapsAgree, Dialled, RetriesLeft, NeverPanics, CurrentIsServed,
         LostRelayIsRetried, At, tables, network

\* CloseConnection when it finds a connection: that connection is dialled, so
\* it belongs to r and to no other entry of the table, and the goroutine that
\* closed it, whichever connection it serves, is the one that will retry.
LEMMA CloseKeeps ==
  ASSUME IInv, TypeOK', DialsAreDue', NEW k \in Loops, NEW c \in Conns, CloseConnection(k, c),
         connections[relayUrl[c]] # None
  PROVE  IInv'
  <1> USE ManagerAssumption DEF ManagerAssumption
  <1> DEFINE r == relayUrl[c]
             cc == connections[r]
  <1>0. /\ TypeOK /\ MapsAgree /\ Dialled /\ RetriesLeft /\ closedChans = {}
        /\ NeverPanics /\ CurrentIsServed /\ LostRelayIsRetried
    BY DEF IInv
  <1>1. /\ r \in Relays /\ pc[k][c] = "close" /\ tries[k][c] = 0 /\ sock[c] # "unused"
    BY <1>0 DEF CloseConnection, At, Dialled, RetriesLeft
  <1>2. /\ cc \in Conns /\ relayUrl[cc] = r /\ sock[cc] # "unused"
        /\ CancelledBy(r) = {cc} /\ ChannelsClosedBy(r) = {}
    BY <1>0, <1>1
    DEF TypeOK, MapsAgree, CurrentIsServed, Dialled, CancelledBy,
        ChannelsClosedBy, deleteRelayMappings, deleteRelayChannels
  <1>3. /\ connections' = [connections EXCEPT ![r] = None]
        /\ channels' = [channels EXCEPT ![r] = None]
        /\ cancelFuncs' = [cancelFuncs EXCEPT ![r] = None]
        /\ cancelled' = cancelled \cup CancelledBy(r)
        /\ closedChans' = closedChans \cup ChannelsClosedBy(r)
        /\ sock' = [sock EXCEPT ![cc] = "closed"]
        /\ Goto(k, c, "retry")
        /\ UNCHANGED <<relayUrl, tries, crashed>>
    BY DEF CloseConnection, deleteRelayMappings
  <1> HIDE DEF r, cc
  <1>4. /\ \A s \in Relays : connections'[s] = IF s = r THEN None ELSE connections[s]
        /\ \A d \in Conns : sock'[d] = IF d = cc THEN "closed" ELSE sock[d]
        /\ cancelled' = cancelled \cup {cc} /\ closedChans' = {}
        /\ \A j \in Loops, d \in Conns :
             pc'[j][d] = IF j = k /\ d = c THEN "retry" ELSE pc[j][d]
    BY <1>0, <1>1, <1>2, <1>3 DEF TypeOK, Goto
  <1>5. MapsAgree'
    BY <1>0, <1>3 DEF MapsAgree
  <1>6. Dialled'
    BY <1>0, <1>1, <1>2, <1>3, <1>4 DEF Dialled
  <1>7. RetriesLeft'
    BY <1>0, <1>1, <1>3, <1>4 DEF RetriesLeft, At
  <1>8. CurrentIsServed'
    <2> SUFFICES ASSUME NEW s \in Relays, connections'[s] # None
                 PROVE  LET d == connections'[s] IN
                        /\ relayUrl'[d] = s /\ d \notin cancelled'
                        /\ sock'[d] \in {"open", "broken"}
                        /\ pc'["write"][d] \in {"run", "write", "close"}
                        /\ pc'["ping"][d] \in {"run", "close"}
      BY DEF CurrentIsServed
    <2> DEFINE d == connections[s]
    <2>1. s # r /\ connections'[s] = d /\ d # None
      BY <1>4
    <2>2. /\ d \in Conns /\ relayUrl[d] = s /\ d \notin cancelled
          /\ sock[d] \in {"open", "broken"}
          /\ pc["write"][d] \in {"run", "write", "close"}
          /\ pc["ping"][d] \in {"run", "close"}
      BY <1>0, <2>1 DEF CurrentIsServed, TypeOK
    <2>3. d # cc /\ d # c
      BY <1>2, <2>1, <2>2 DEF r
    <2> QED
      BY <1>3, <1>4, <2>1, <2>2, <2>3 DEF Loops
  <1>9. LostRelayIsRetried'
    <2> SUFFICES ASSUME NEW s \in Relays, connections'[s] = None,
                        NEW d \in Conns, relayUrl'[d] = s
                 PROVE  \E b \in Conns, j \in Loops :
                          relayUrl'[b] = s /\ (At(j, b, "retry")' \/ tries'[j][b] = MaxRetries)
      BY DEF LostRelayIsRetried
    <2>1. CASE s = r
      BY <1>3, <1>4, <2>1 DEF At, r
    <2>2. CASE s # r
      BY <1>0, <1>3, <1>4, <2>2 DEF LostRelayIsRetried, At
    <2> QED
      BY <2>1, <2>2
  <1> QED
    BY <1>0, <1>3, <1>4, <1>5, <1>6, <1>7, <1>8, <1>9 DEF IInv, NeverPanics

\* A dial that fails: the goroutine tries again while it has an attempt left,
\* and the attempt it used up is counted when it has none.
LEMMA FailureKeeps ==
  ASSUME IInv, TypeOK', DialsAreDue', NEW k \in Loops, NEW c \in Conns, At(k, c, "retry"),
         tries' = [tries EXCEPT ![k][c] = @ + 1],
         Goto(k, c, AfterFailures(tries[k][c] + 1)),
         UNCHANGED <<tables, network, crashed>>
  PROVE  IInv'
  <1> USE ManagerAssumption DEF ManagerAssumption
  <1>0. /\ TypeOK /\ MapsAgree /\ Dialled /\ RetriesLeft /\ closedChans = {}
        /\ NeverPanics /\ CurrentIsServed /\ LostRelayIsRetried
    BY DEF IInv
  <1>1. tries[k][c] \in 0..MaxRetries /\ tries[k][c] < MaxRetries
    BY <1>0 DEF RetriesLeft, TypeOK
  <1>2. /\ UNCHANGED <<connections, channels, cancelFuncs, sock, relayUrl, cancelled, closedChans>>
        /\ UNCHANGED crashed
        /\ \A j \in Loops, d \in Conns :
             j # k \/ d # c => pc'[j][d] = pc[j][d] /\ tries'[j][d] = tries[j][d]
        /\ tries'[k][c] = tries[k][c] + 1
        /\ pc'[k][c] = AfterFailures(tries[k][c] + 1)
    BY <1>0 DEF tables, network, Goto, TypeOK
  <1>3. \/ pc'[k][c] = "retry" /\ tries'[k][c] < MaxRetries
        \/ pc'[k][c] = "done" /\ tries'[k][c] = MaxRetries
    BY <1>1, <1>2 DEF AfterFailures
  <1>4. Dialled'
    BY <1>0, <1>2, <1>3 DEF Dialled, At
  <1>5. RetriesLeft'
    BY <1>0, <1>2, <1>3 DEF RetriesLeft, At
  <1>6. CurrentIsServed'
    BY <1>0, <1>2 DEF CurrentIsServed, Loops, TypeOK, At
  <1>7. LostRelayIsRetried'
    <2> SUFFICES ASSUME NEW s \in Relays, connections[s] = None,
                        NEW d \in Conns, relayUrl[d] = s
                 PROVE  \E b \in Conns, j \in Loops :
                          relayUrl[b] = s /\ (At(j, b, "retry")' \/ tries'[j][b] = MaxRetries)
      BY <1>2 DEF LostRelayIsRetried
    <2>1. PICK b \in Conns, j \in Loops :
            relayUrl[b] = s /\ (At(j, b, "retry") \/ tries[j][b] = MaxRetries)
      BY <1>0 DEF LostRelayIsRetried
    <2>2. CASE j = k /\ b = c
      BY <1>3, <2>1, <2>2 DEF At
    <2>3. CASE j # k \/ b # c
      BY <1>2, <2>1, <2>3 DEF At
    <2> QED
      BY <2>2, <2>3
  <1> QED
    BY <1>0, <1>2, <1>4, <1>5, <1>6, <1>7 DEF IInv, NeverPanics, MapsAgree

\* Every step preserves the inductive invariant.
LEMMA NextIInv == IInv /\ [Next]_vars => IInv'
  <1> SUFFICES ASSUME IInv, [Next]_vars PROVE IInv'
    OBVIOUS
  <1> USE ManagerAssumption DEF ManagerAssumption
  <1>0. /\ TypeOK /\ MapsAgree /\ Dialled /\ RetriesLeft /\ closedChans = {}
        /\ NeverPanics /\ CurrentIsServed /\ LostRelayIsRetried /\ DialsAreDue
    BY DEF IInv
  <1>t. TypeOK' /\ DialsAreDue'
    BY NextType, NextDials
  <1>1. ASSUME NEW x \in Clients, GetConnection(x) PROVE IInv'
    BY <1>1, <1>t, SameKeeps DEF GetConnection
  <1>13. ASSUME NEW x \in Clients, RequestDialReturns(x) PROVE IInv'
    <2> DEFINE r == Target[x]
    <2>1. CASE \E n \in Conns : createNewConnection(r, n, pc)
      <3>1. PICK n \in Conns : createNewConnection(r, n, pc)
        BY <2>1
      <3>2. UNCHANGED tries /\ r \in Relays /\ pc \in [Loops -> [Conns -> PCs]]
        BY <1>0, <1>13 DEF RequestDialReturns, TypeOK
      <3> HIDE DEF r
      <3> QED
        BY <1>t, <3>1, <3>2, CreateKeeps
    <2>2. CASE UNCHANGED <<tables, network, pc, crashed>>
      BY <1>13, <1>t, <2>2, SameKeeps DEF RequestDialReturns
    <2> QED
      BY <1>13, <2>1, <2>2 DEF RequestDialReturns
  <1>2. ASSUME NEW x \in Clients, Send(x) PROVE IInv'
    <2> DEFINE c == handle[x]
    <2>1. /\ c \in Conns /\ At("write", c, "run") /\ Goto("write", c, "write")
          /\ UNCHANGED <<tables, network, tries>> /\ UNCHANGED crashed
      BY <1>0, <1>2 DEF Send, TypeOK, Goto, NeverPanics
    <2>2. "write" \in Loops /\ "write" \in PCs \ {"none", "retry"}
      BY DEF Loops, PCs
    <2> HIDE DEF c
    <2> QED
      BY <1>t, <2>1, <2>2, GotoKeeps DEF At
  <1>3. ASSUME NEW k \in Loops, NEW c \in Conns, Exit(k, c) PROVE IInv'
    <2>1. \A r \in Relays : connections[r] # c
      BY <1>0, <1>3 DEF CurrentIsServed, Exit
    <2>2. "done" \in PCs \ {"none", "retry"}
      BY DEF PCs
    <2> QED
      BY <1>3, <1>t, <2>1, <2>2, GotoKeeps DEF Exit, At
  <1>4. ASSUME NEW k \in Loops, NEW c \in Conns, CloseConnection(k, c) PROVE IInv'
    <2>1. CASE connections[relayUrl[c]] # None
      BY <1>4, <1>t, <2>1, CloseKeeps
    <2>2. CASE connections[relayUrl[c]] = None
      <3>1. \A r \in Relays : connections[r] # c
        BY <1>0, <2>2 DEF CurrentIsServed
      <3>2. /\ At(k, c, "close") /\ Goto(k, c, "done")
            /\ UNCHANGED <<tables, network, tries, crashed>>
        BY <1>4, <2>2 DEF CloseConnection, network
      <3>3. "done" \in PCs \ {"none", "retry"}
        BY DEF PCs
      <3> QED
        BY <1>t, <3>1, <3>2, <3>3, GotoKeeps DEF At
    <2> QED
      BY <2>1, <2>2
  <1>5. ASSUME NEW k \in Loops, NEW c \in Conns, attemptReconnect(k, c) PROVE IInv'
    <2>1. CASE ~Absent(relayUrl[c])
      <3>1. /\ At(k, c, "retry") /\ connections[relayUrl[c]] # None
            /\ Goto(k, c, "done") /\ UNCHANGED <<tables, network, tries, crashed>>
        BY <1>5, <2>1 DEF attemptReconnect, Absent
      <3>2. (\E s \in Relays : connections[s] = c) => k \notin {"write", "ping"}
        BY <1>0, <3>1 DEF CurrentIsServed, At
      <3>3. "done" \in PCs \ {"none", "retry"}
        BY DEF PCs
      <3> QED
        BY <1>t, <3>1, <3>2, <3>3, GotoKeeps DEF At
    <2>2. CASE UNCHANGED pc
      BY <1>5, <1>t, <2>2, SameKeeps DEF attemptReconnect
    <2> QED
      BY <1>5, <2>1, <2>2 DEF attemptReconnect
  <1>14. ASSUME NEW k \in Loops, NEW c \in Conns, RetryDialReturns(k, c) PROVE IInv'
    <2> DEFINE r == relayUrl[c]
               before == [pc EXCEPT ![k][c] = "done"]
    <2>0. At(k, c, "retry") /\ r \in Relays
      BY <1>0, <1>14 DEF RetryDialReturns, DialsAreDue, At, Dialled
    <2>1. CASE (\E n \in Conns : createNewConnection(r, n, before)) /\ UNCHANGED tries
      <3>1. PICK n \in Conns : createNewConnection(r, n, before)
        BY <2>1
      <3>2. /\ before \in [Loops -> [Conns -> PCs]]
            /\ \A j \in Loops, d \in Conns :
                 \/ before[j][d] = pc[j][d]
                 \/ At(j, d, "retry") /\ before[j][d] = "done" /\ relayUrl[d] = r
        BY <1>0, <2>0 DEF TypeOK, PCs, At
      <3> HIDE DEF r, before
      <3> QED
        BY <1>t, <2>0, <2>1, <3>1, <3>2, CreateKeeps
    <2>2. CASE /\ tries' = [tries EXCEPT ![k][c] = @ + 1]
               /\ Goto(k, c, AfterFailures(tries[k][c] + 1))
               /\ UNCHANGED <<tables, network, lastPong, crashed>>
      BY <1>t, <2>0, <2>2, FailureKeeps
    <2> QED
      BY <1>14, <2>1, <2>2 DEF RetryDialReturns
  <1>6. ASSUME NEW c \in Conns, WriteMessage(c) PROVE IInv'
    <2>1. PICK l \in {"run", "close"} : Goto("write", c, l)
      BY <1>6 DEF WriteMessage
    <2>2. "write" \in Loops /\ l \in PCs \ {"none", "retry"} /\ l # "done"
      BY DEF Loops, PCs
    <2> QED
      BY <1>6, <1>t, <2>1, <2>2, GotoKeeps DEF WriteMessage, At
  <1>7. ASSUME NEW c \in Conns, ReadError(c) \/ ReadEnds(c) PROVE IInv'
    <2>1. PICK l \in {"done", "close"} : Goto("read", c, l)
      BY <1>7 DEF ReadError, ReadEnds
    <2>2. "read" \in Loops /\ l \in PCs \ {"none", "retry"}
      BY DEF Loops, PCs
    <2> QED
      BY <1>7, <1>t, <2>1, <2>2, GotoKeeps DEF ReadError, ReadEnds, At
  <1>8. ASSUME NEW c \in Conns, PingTick(c) PROVE IInv'
    <2>1. "ping" \in Loops /\ "close" \in PCs \ {"none", "retry"}
      BY DEF Loops, PCs
    <2> QED
      BY <1>8, <1>t, <2>1, GotoKeeps DEF PingTick, At
  <1>9. ASSUME NEW c \in Conns, ReadPong(c) PROVE IInv'
    BY <1>9, <1>t, SameKeeps DEF ReadPong
  <1>10. ASSUME NEW c \in Conns, Break(c) PROVE IInv'
    <2>1. /\ sock[c] = "open" /\ sock' = [sock EXCEPT ![c] = "broken"]
          /\ UNCHANGED <<connections, channels, cancelFuncs, relayUrl, cancelled,
                         closedChans, pc, tries, crashed>>
      BY <1>10 DEF Break, tables
    <2>2. \A d \in Conns : sock'[d] = IF d = c THEN "broken" ELSE sock[d]
      BY <1>0, <2>1 DEF TypeOK
    <2>3. Dialled' /\ CurrentIsServed'
      BY <1>0, <2>1, <2>2 DEF Dialled, CurrentIsServed
    <2> QED
      BY <1>0, <1>t, <2>1, <2>3
      DEF IInv, MapsAgree, RetriesLeft, NeverPanics, LostRelayIsRetried, At
  <1>11. ASSUME NEW r \in Relays, PongAges(r) PROVE IInv'
    BY <1>11, <1>t, SameKeeps DEF PongAges
  <1>12. CASE UNCHANGED vars
    BY <1>12, <1>t, SameKeeps DEF vars
  <1> QED
    BY <1>1, <1>2, <1>3, <1>4, <1>5, <1>6, <1>7, <1>8, <1>9, <1>10, <1>11, <1>12,
       <1>13, <1>14
    DEF Next, ConnStep, LoopStep

-----------------------------------------------------------------------------
(* The theorems *)

\* The inductive invariant holds in every state of every behaviour.
THEOREM Inductive == Spec => []IInv
  BY InitIInv, NextIInv, PTL DEF Spec

\* Every variable keeps its type; in particular no goroutine ever counts more
\* than maxRetries failed dials (relayManager.go:369-396).
THEOREM TypeCorrect == Spec => []TypeOK
  <1>1. IInv => TypeOK
    BY DEF IInv
  <1> QED
    BY <1>1, Inductive, PTL

\* No request ever panics on a closed write channel, however its five-second
\* wait is interleaved with closes and reconnects (relayManager.go:345-367).
THEOREM PanicFree == Spec => []NeverPanics
  <1>1. IInv => NeverPanics
    BY DEF IInv
  <1> QED
    BY <1>1, Inductive, PTL

\* The connection in the table always has a live context, a writer and a
\* pingHandler (relayManager.go:91-114, 345-367).
THEOREM Served == Spec => []CurrentIsServed
  <1>1. IInv => CurrentIsServed
    BY DEF IInv
  <1> QED
    BY <1>1, Inductive, PTL

\* A relay without connection is being redialled, or all attempts of some
\* goroutine for it were used up (relayManager.go:369-396).
THEOREM Retried == Spec => []LostRelayIsRetried
  <1>1. IInv => LostRelayIsRetried
    BY DEF IInv
  <1> QED
    BY <1>1, Inductive, PTL

-----------------------------------------------------------------------------
(* Refinement *)

\* What the table holds is open or failed but not closed, and no connection
\* is in it twice (relayManager.go:62-116).
THEOREM LinkedAndLive == Spec => []LinksAreLive
  <1>1. IInv => LinksAreLive
    <2> SUFFICES ASSUME IInv, NEW r \in Relays, connections[r] # None
                 PROVE  /\ sock[connections[r]] \notin {"unused", "closed"}
                        /\ connections[r] \in Conns
                        /\ \A s \in Relays \ {r} : connections[s] # connections[r]
      BY DEF LinksAreLive, Link!LinksAreLive
    <2> QED
      BY DEF IInv, TypeOK, CurrentIsServed
  <1> QED
    BY <1>1, Inductive, PTL

\* A successful dial in the table's own terms.
LEMMA CreateInstalls ==
  ASSUME IInv, NEW r \in Relays, NEW n \in Conns, NEW before,
         createNewConnection(r, n, before)
  PROVE  Link!Install(r, n)
  <1>1. /\ sock[n] = "unused" /\ sock' = [sock EXCEPT ![n] = "open"]
        /\ connections' = [connections EXCEPT ![r] = n] /\ lastPong' = lastPong
    BY DEF createNewConnection
  <1>2. \A c \in Conns : sock'[c] = IF c = n THEN "open" ELSE sock[c]
    BY <1>1 DEF IInv, TypeOK
  <1> QED
    BY <1>1, <1>2 DEF Link!Install

\* A step that leaves the table, the pongs and the sockets that count alone is
\* a stutter of the link table.
LEMMA QuietStutters ==
  ASSUME UNCHANGED <<connections, lastPong>>,
         \A c \in Conns : /\ sock'[c] = "unused" <=> sock[c] = "unused"
                          /\ sock'[c] = "closed" <=> sock[c] = "closed"
  PROVE  UNCHANGED Link!vars
  BY DEF Link!vars

\* Every step of the relay manager is a step of the link table or a stutter.
LEMMA StepRefines == IInv /\ [Next]_vars => [Link!Next]_(Link!vars)
  <1> SUFFICES ASSUME IInv, [Next]_vars PROVE [Link!Next]_(Link!vars)
    OBVIOUS
  <1> USE ManagerAssumption DEF ManagerAssumption
  <1>0. TypeOK /\ MapsAgree /\ Dialled /\ CurrentIsServed /\ DialsAreDue
    BY DEF IInv
  <1>1. ASSUME NEW x \in Clients, RequestDialReturns(x) PROVE [Link!Next]_(Link!vars)
    <2> DEFINE r == Target[x]
    <2>1. CASE \E n \in Conns : createNewConnection(r, n, pc)
      <3>1. PICK n \in Conns : createNewConnection(r, n, pc)
        BY <2>1
      <3>2. r \in Relays
        OBVIOUS
      <3>3. ~isConnected(r)
        BY <1>0, <1>1 DEF RequestDialReturns, DialsAreDue
      <3>4. connections[r] = None \/ lastPong[r] # "fresh"
        BY <1>0, <3>3 DEF isConnected, MapsAgree
      <3> HIDE DEF r
      <3>5. Link!Open(r, n) \/ Link!Replace(r, n)
        BY <3>1, <3>2, <3>4, CreateInstalls DEF Link!Open, Link!Replace
      <3> QED
        BY <3>2, <3>5 DEF Link!Next
    <2>2. CASE UNCHANGED <<tables, network, lastPong>>
      BY <2>2, QuietStutters DEF tables, network
    <2> QED
      BY <1>1, <2>1, <2>2 DEF RequestDialReturns
  <1>2. ASSUME NEW k \in Loops, NEW c \in Conns, CloseConnection(k, c)
        PROVE  [Link!Next]_(Link!vars)
    <2>0. PICK r \in Relays : r = relayUrl[c]
      BY <1>0, <1>2 DEF CloseConnection, At, Dialled
    <2>1. CASE connections[r] = None
      BY <1>2, <2>0, <2>1, QuietStutters DEF CloseConnection, tables
    <2>2. CASE connections[r] # None
      <3>1. connections[r] \in Conns /\ sock[connections[r]] # "unused"
        <4>1. connections[r] \in Conns
          BY <1>0, <2>2 DEF TypeOK
        <4>2. sock[connections[r]] \in {"open", "broken"}
          BY <1>0, <2>2 DEF CurrentIsServed
        <4> QED
          BY <4>1, <4>2
      <3>2. /\ connections' = [connections EXCEPT ![r] = None] /\ lastPong' = lastPong
            /\ sock' = [sock EXCEPT ![connections[r]] = "closed"]
        BY <1>2, <2>0, <2>2 DEF CloseConnection, deleteRelayMappings
      <3>3. \A d \in Conns : sock'[d] = IF d = connections[r] THEN "closed" ELSE sock[d]
        BY <1>0, <3>1, <3>2 DEF TypeOK
      <3>4. Link!Drop(r)
        BY <2>2, <3>1, <3>2, <3>3 DEF Link!Drop
      <3> QED
        BY <3>4 DEF Link!Next
    <2> QED
      BY <2>1, <2>2
  <1>3. ASSUME NEW k \in Loops, NEW c \in Conns, RetryDialReturns(k, c)
        PROVE  [Link!Next]_(Link!vars)
    <2> DEFINE before == [pc EXCEPT ![k][c] = "done"]
    <2>0. PICK r \in Relays : r = relayUrl[c] /\ connections[r] = None
      BY <1>0, <1>3 DEF RetryDialReturns, DialsAreDue, At, Dialled
    <2>1. CASE \E n \in Conns : createNewConnection(r, n, before)
      <3>1. PICK n \in Conns : createNewConnection(r, n, before)
        BY <2>1
      <3> HIDE DEF before
      <3>2. Link!Open(r, n)
        BY <2>0, <3>1, CreateInstalls DEF Link!Open
      <3> QED
        BY <3>2 DEF Link!Next
    <2>2. CASE UNCHANGED <<tables, network, lastPong>>
      BY <2>2, QuietStutters DEF tables, network
    <2> QED
      BY <1>3, <2>0, <2>1, <2>2 DEF RetryDialReturns
  <1>4. ASSUME NEW c \in Conns, ReadPong(c) PROVE [Link!Next]_(Link!vars)
    <2>0. PICK r \in Relays : r = relayUrl[c]
      BY <1>0, <1>4 DEF ReadPong, Dialled
    <2>1. lastPong' = [lastPong EXCEPT ![r] = "fresh"] /\ UNCHANGED <<connections, sock>>
      BY <1>4, <2>0 DEF ReadPong, tables, network
    <2>2. Link!Confirm(r)
      BY <1>0, <2>1 DEF Link!Confirm, TypeOK
    <2> QED
      BY <2>2 DEF Link!Next
  <1>5. ASSUME NEW r \in Relays, PongAges(r) PROVE [Link!Next]_(Link!vars)
    <2>1. Link!Expire(r)
      BY <1>0, <1>5 DEF PongAges, Link!Expire, TypeOK, tables, network
    <2> QED
      BY <2>1 DEF Link!Next
  <1>6. ASSUME NEW c \in Conns, Break(c) PROVE [Link!Next]_(Link!vars)
    BY <1>0, <1>6, QuietStutters DEF Break, TypeOK, tables
  <1>7. CASE UNCHANGED <<tables, network, lastPong>>
    BY <1>7, QuietStutters DEF tables, network
  <1>8. ASSUME NEW x \in Clients, GetConnection(x) \/ Send(x)
        PROVE  UNCHANGED <<tables, network, lastPong>>
    BY <1>8 DEF GetConnection, Send
  <1>9. ASSUME NEW c \in Conns,
               \/ WriteMessage(c) \/ ReadError(c) \/ ReadEnds(c) \/ PingTick(c)
               \/ \E k \in Loops : Exit(k, c) \/ attemptReconnect(k, c)
        PROVE  UNCHANGED <<tables, network, lastPong>>
    BY <1>9 DEF WriteMessage, ReadError, ReadEnds, PingTick, Exit, attemptReconnect
  <1>10. ASSUME UNCHANGED vars PROVE UNCHANGED <<tables, network, lastPong>>
    BY <1>10 DEF vars
  <1> QED
    BY <1>1, <1>2, <1>3, <1>4, <1>5, <1>6, <1>7, <1>8, <1>9, <1>10
    DEF Next, ConnStep, LoopStep

\* The relay manager implements the link table: a link in use is replaced
\* unclosed only by GetConnection without a fresh pong, a reconnect replaces
\* nothing, and a removal closes what it removes (relayManager.go:62-116,
\* 345-396).
THEOREM Refinement == Spec => ImplementsLinkTable
  <1>1. Init => Link!Init
    BY DEF Init, Link!Init
  <1> QED
    BY <1>1, StepRefines, Inductive, PTL DEF Spec, ImplementsLinkTable, Link!Spec
==============================================================================

------------------------------- MODULE Publisher -------------------------------
(***************************************************************************)
(* setQueue of queue/queueHandler.go, called by the processReadChannel of  *)
(* every connection: a broker connection, a channel, a declaration and a   *)
(* publication per message, on a queue that the broker deletes, with what  *)
(* is in it, when its last reader leaves.  The broker may fail, and the    *)
(* application that reads the queue may leave and come back.               *)
(*                                                                         *)
(* Queues do not interact, so there is one.  A publication is a frame on   *)
(* the publisher's socket, and nothing tells it what the broker does with  *)
(* it.  A call on a nil connection or channel panics, which stops the      *)
(* process; frames already sent are still on their way.                    *)
(***************************************************************************)
EXTENDS Naturals, Sequences

CONSTANTS
  Publishers,   \* processReadChannel goroutines
  MaxMessages,  \* messages of each: bounds the model
  MaxOutages,   \* failures of the broker: bounds the model
  MaxLeaves     \* times the reader leaves: bounds the model

ASSUME PublisherAssumption ==
  /\ MaxMessages \in Nat
  /\ MaxOutages \in Nat
  /\ MaxLeaves \in Nat

VARIABLES
  broker,    \* whether the broker can be reached
  exists,    \* whether the queue has been declared
  queue,     \* what is in it
  attached,  \* whether the application reads it
  got,       \* what the application has read
  pc,        \* where a publisher is in setQueue
  link,      \* its broker connection
  wire,      \* its frames on the way to the broker
  n,         \* the number of its current or next message
  up,        \* the process has not panicked
  deserted,  \* the reader has left since p's queue was declared
  outages, leaves

far == <<exists, queue, attached, got>>
bounds == <<outages, leaves>>
vars == <<broker, far, pc, link, wire, n, up, deserted, bounds>>

Message(p, i) == [from |-> p, id |-> i]
Messages == {Message(p, i) : p \in Publishers, i \in 1..MaxMessages}
AtMostOne == {{}} \cup {{m} : m \in Messages}

\* A publisher never has more than one frame on the way.
TypeOK ==
  /\ broker \in BOOLEAN
  /\ exists \in BOOLEAN
  /\ queue \in Seq(Messages)
  /\ attached \in BOOLEAN
  /\ got \in Seq(Messages)
  /\ pc \in [Publishers -> {"idle", "dialled", "open", "declared", "refused",
                            "published"}]
  /\ link \in [Publishers -> {"none", "live", "broken"}]
  /\ wire \in [Publishers -> AtMostOne]
  /\ n \in [Publishers -> 1..(MaxMessages + 1)]
  /\ up \in BOOLEAN
  /\ deserted \in [Publishers -> BOOLEAN]
  /\ outages \in 0..MaxOutages
  /\ leaves \in 0..MaxLeaves

Init ==
  /\ broker = TRUE
  /\ exists = FALSE
  /\ queue = << >>
  /\ attached = FALSE
  /\ got = << >>
  /\ pc = [p \in Publishers |-> "idle"]
  /\ link = [p \in Publishers |-> "none"]
  /\ wire = [p \in Publishers |-> {}]
  /\ n = [p \in Publishers |-> 1]
  /\ up = TRUE
  /\ deserted = [p \in Publishers |-> FALSE]
  /\ outages = 0
  /\ leaves = 0

-----------------------------------------------------------------------------
(* The broker and the application *)

\* All connections break.  A broker that restarts also loses its transient
\* queue; one that was only cut off keeps it as long as it has no reader.
BrokerStops ==
  /\ broker
  /\ outages < MaxOutages
  /\ outages' = outages + 1
  /\ broker' = FALSE
  /\ link' = [p \in Publishers |->
                IF link[p] = "live" THEN "broken" ELSE link[p]]
  /\ wire' = [p \in Publishers |-> {}]
  /\ attached' = FALSE
  /\ \/ exists' = FALSE /\ queue' = << >>
     \/ ~attached /\ UNCHANGED <<exists, queue>>
  /\ deserted' = [p \in Publishers |-> TRUE]
  /\ UNCHANGED <<got, pc, n, up, leaves>>

BrokerStarts ==
  /\ ~broker
  /\ broker' = TRUE
  /\ UNCHANGED <<far, pc, link, wire, n, up, deserted, bounds>>

\* Without the mandatory flag a message for a missing queue is dropped.
Route(p) ==
  /\ \E m \in wire[p] :
       /\ wire' = [wire EXCEPT ![p] = @ \ {m}]
       /\ queue' = IF exists THEN Append(queue, m) ELSE queue
  /\ UNCHANGED <<broker, exists, attached, got, pc, link, n, up, deserted,
                 bounds>>

\* The application declares the queue as setQueue does.
Attach ==
  /\ broker
  /\ ~attached
  /\ attached' = TRUE
  /\ exists' = TRUE
  /\ UNCHANGED <<broker, queue, got, pc, link, wire, n, up, deserted, bounds>>

Leave ==
  /\ attached
  /\ leaves < MaxLeaves
  /\ leaves' = leaves + 1
  /\ attached' = FALSE
  /\ exists' = FALSE
  /\ queue' = << >>
  /\ deserted' = [p \in Publishers |-> TRUE]
  /\ UNCHANGED <<broker, got, pc, link, wire, n, up, outages>>

Read ==
  /\ attached
  /\ queue # << >>
  /\ got' = Append(got, Head(queue))
  /\ queue' = Tail(queue)
  /\ UNCHANGED <<broker, exists, attached, pc, link, wire, n, up, deserted,
                 bounds>>

-----------------------------------------------------------------------------
(* setQueue *)

Dial(p) ==
  /\ pc[p] = "idle"
  /\ n[p] <= MaxMessages
  /\ broker
  /\ pc' = [pc EXCEPT ![p] = "dialled"]
  /\ link' = [link EXCEPT ![p] = "live"]
  /\ UNCHANGED <<broker, far, wire, n, up, deserted, bounds>>

\* The error is printed, and conn.Channel is called on a nil connection.
DialPanics(p) ==
  /\ pc[p] = "idle"
  /\ n[p] <= MaxMessages
  /\ ~broker
  /\ up' = FALSE
  /\ UNCHANGED <<broker, far, pc, link, wire, n, deserted, bounds>>

OpenChannel(p) ==
  /\ pc[p] = "dialled"
  /\ link[p] = "live"
  /\ pc' = [pc EXCEPT ![p] = "open"]
  /\ UNCHANGED <<broker, far, link, wire, n, up, deserted, bounds>>

\* The error is printed, and QueueDeclare is called on a nil channel.
ChannelPanics(p) ==
  /\ pc[p] = "dialled"
  /\ link[p] = "broken"
  /\ up' = FALSE
  /\ UNCHANGED <<broker, far, pc, link, wire, n, deserted, bounds>>

DeclaresNothing(p) ==                                  \* mutant
  /\ pc[p] = "open"
  /\ pc' = [pc EXCEPT ![p] =
              IF link[p] = "live" THEN "declared" ELSE "refused"]
  /\ deserted' = [deserted EXCEPT ![p] = @ /\ link[p] # "live"]
  /\ UNCHANGED <<broker, far, link, wire, n, up, bounds>>
QueueDeclare(p) ==
  /\ pc[p] = "open"
  /\ pc' = [pc EXCEPT ![p] =
              IF link[p] = "live" THEN "declared" ELSE "refused"]
  /\ exists' = (exists \/ link[p] = "live")
  /\ deserted' = [deserted EXCEPT ![p] = @ /\ link[p] # "live"]
  /\ UNCHANGED <<broker, queue, attached, got, link, wire, n, up, bounds>>

\* On a broken connection the error is printed and the message is gone.
PublishWithContext(p) ==
  /\ pc[p] \in {"declared", "refused"}
  /\ pc' = [pc EXCEPT ![p] = "published"]
  /\ wire' = IF link[p] = "live"
             THEN [wire EXCEPT ![p] = @ \cup {Message(p, n[p])}] ELSE wire
  /\ UNCHANGED <<broker, far, link, n, up, deserted, bounds>>

\* The deferred channel.Close waits for the broker's answer, which it gives
\* after the frames before it.
Finishes(p) ==
  /\ pc[p] = "published"
  /\ pc' = [pc EXCEPT ![p] = "idle"]
  /\ link' = [link EXCEPT ![p] = "none"]
  /\ n' = [n EXCEPT ![p] = @ + 1]
  /\ UNCHANGED <<broker, far, up, deserted, bounds>>

ClosesAtOnce(p) == Finishes(p) /\ UNCHANGED wire                    \* mutant
DropsTheConnection(p) == Finishes(p) /\ wire' = [wire EXCEPT ![p] = {}] \* mutant
WaitsForTheAnswer(p) ==                                            \* mutant
  link[p] = "live" /\ wire[p] = {} /\ Finishes(p) /\ UNCHANGED wire
Close(p) == wire[p] = {} /\ Finishes(p) /\ UNCHANGED wire

-----------------------------------------------------------------------------

setQueue(p) ==
  \/ Dial(p) \/ DialPanics(p)
  \/ OpenChannel(p) \/ ChannelPanics(p)
  \/ QueueDeclare(p)
  \/ PublishWithContext(p)
  \/ Close(p)

Next ==
  \/ BrokerStops \/ BrokerStarts
  \/ Attach \/ Leave \/ Read
  \/ \E p \in Publishers : Route(p) \/ (up /\ setQueue(p))

\* The broker comes back and routes, a reader that is there reads, and
\* goroutines that can run do so.  That anybody reads is not assumed.
Fairness ==
  /\ WF_vars(BrokerStarts)
  /\ WF_vars(Read)
  /\ \A p \in Publishers : WF_vars(Route(p)) /\ WF_vars(up /\ setQueue(p))

Spec == Init /\ [][Next]_vars
FairSpec == Spec /\ Fairness

-----------------------------------------------------------------------------
(* Properties *)

\* The broker never sees a publication for a queue that does not exist,
\* unless the reader has left or the broker has failed since it was declared
\* (queueHandler.go:91-116).
PublicationsAreRouted ==
  \A p \in Publishers : wire[p] # {} /\ ~exists => deserted[p]

(***************************************************************************)
(* What a connection publishes reaches the reader in order and once, with  *)
(* gaps where something was lost, although every message travels on a      *)
(* connection of its own (queueHandler.go:83, 89).                         *)
(***************************************************************************)
PublishersKeepTheirOrder ==
  LET seen == got \o queue IN
  \A i, j \in 1..Len(seen) :
    i < j /\ seen[i].from = seen[j].from => seen[i].id < seen[j].id

\* A message that was published is read, unless there is nobody to read it,
\* the reader leaves or the broker fails.
PublishedIsRead ==
  \A m \in Messages :
    m \in wire[m.from] /\ attached ~>
      (\E i \in 1..Len(got) : got[i] = m) \/ ~attached

\* No connection is held up for good by its publications: a failed broker
\* costs messages, and processes, but no publisher waits for it for ever.
PublishersFinish ==
  \A p \in Publishers : pc[p] # "idle" ~> pc[p] = "idle" \/ ~up
================================================================================

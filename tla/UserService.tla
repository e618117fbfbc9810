------------------------------ MODULE UserService ------------------------------
(***************************************************************************)
(* The user service, user/services.go: the consumers of the application's  *)
(* queues, the sessions they remember and the request goroutines they      *)
(* start, with a broker that may fail and a process that may stop and be   *)
(* started again.                                                          *)
(*                                                                         *)
(* ConsumeQueue asks for automatic acknowledgement, so the broker hands    *)
(* over all it has and forgets it; what the consumer has not taken up yet  *)
(* is in the client's buffer.  When the connection fails the client closes *)
(* the delivery channel and drops that buffer.  No consumer connects       *)
(* twice: its outer loop only ranges over the same channel again.          *)
(***************************************************************************)
EXTENDS Naturals, Sequences

CONSTANTS
  Requests,    \* requests of the application
  QueueOf(_),  \* the queue that the application puts a request on
  Parts(_),    \* its body (for a note, pubKeyUUID), split at the colons
  Whole(_),    \* whether it is JSON with all its fields, where JSON is wanted
  Words,       \* the parts of all requests, NoWord among them
  NoWord,      \* the empty part
  MaxOutages,  \* failures of the broker: bounds the model
  MaxCrashes,  \* stops of the process: bounds the model
  None

Queues == {"user_pub_key", "follow_list_metadata", "new_note", "search",
           "follow_notes", "nostr_entity"}

ASSUME ServiceAssumption ==
  /\ \A r \in Requests :
       QueueOf(r) \in Queues /\ Parts(r) \in Seq(Words) /\ Whole(r) \in BOOLEAN
  /\ NoWord \in Words
  /\ MaxOutages \in Nat
  /\ MaxCrashes \in Nat
  /\ None \notin Words
  /\ None \notin Requests

Used == {QueueOf(r) : r \in Requests}

VARIABLES
  broker,      \* whether the broker can be reached
  queue,       \* queue[q]: requests that the broker has
  buffer,      \* buffer[q]: requests handed over and not taken up
  consumer,    \* where the consumer of q is
  current,     \* current[q]: the request it is at work on, or None
  started,     \* started[r]: stages of r whose request goroutines were started
  pubKeyUUID,  \* the last session of a key, or None
  verdicts,    \* what checkAndUpdateUUID has said since the process started
  asked,       \* requests that the application has made
  outages, crashes

world == <<broker, queue, asked, outages, crashes>>
sessions == <<pubKeyUUID, verdicts>>
vars == <<world, sessions, buffer, consumer, current, started>>

\* The fan-outs of a request.  A stage starts one goroutine per relay.
Program(r) ==
  IF QueueOf(r) = "user_pub_key" THEN <<"metadata", "notes", "follows">>
                                 ELSE <<QueueOf(r)>>

Stages == {"metadata", "notes", "follows"} \cup Queues

\* start: before ConsumeQueue; wait: ranging over deliveries; spin: ranging
\* over a closed channel; deaf: ConsumeQueue failed, and the consumer has
\* returned or waits on a nil channel; off: the process is down.
TypeOK ==
  /\ broker \in BOOLEAN
  /\ queue \in [Used -> Seq(Requests)]
  /\ buffer \in [Used -> Seq(Requests)]
  /\ consumer \in [Used -> {"start", "wait", "spin", "deaf", "off"}]
  /\ current \in [Used -> Requests \cup {None}]
  /\ started \in [Requests -> Seq(Stages)]
  /\ \A r \in Requests : Len(started[r]) <= Len(Program(r))
  /\ pubKeyUUID \in [Words -> Words \cup {None}]
  /\ verdicts \in Seq([req : Requests, fresh : BOOLEAN])
  /\ asked \subseteq Requests
  /\ outages \in 0..MaxOutages
  /\ crashes \in 0..MaxCrashes

Nothing == [q \in Used |-> << >>]

Init ==
  /\ broker = TRUE
  /\ queue = Nothing
  /\ buffer = Nothing
  /\ consumer = [q \in Used |-> "start"]
  /\ current = [q \in Used |-> None]
  /\ started = [r \in Requests |-> << >>]
  /\ pubKeyUUID = [k \in Words |-> None]
  /\ verdicts = << >>
  /\ asked = {}
  /\ outages = 0
  /\ crashes = 0

-----------------------------------------------------------------------------
(* The application, the broker and the process *)

Ask(r) ==
  /\ broker
  /\ r \notin asked
  /\ asked' = asked \cup {r}
  /\ queue' = [queue EXCEPT ![QueueOf(r)] = Append(@, r)]
  /\ UNCHANGED <<broker, outages, crashes, sessions, buffer, consumer,
                 current, started>>

\* Connections break; a broker that restarts also loses its transient queues.
BrokerStops ==
  /\ broker
  /\ outages < MaxOutages
  /\ outages' = outages + 1
  /\ broker' = FALSE
  /\ queue' \in {queue, Nothing}
  /\ buffer' = Nothing
  /\ consumer' = [q \in Used |->
                    IF consumer[q] = "wait" THEN "spin" ELSE consumer[q]]
  /\ UNCHANGED <<asked, crashes, sessions, current, started>>

BrokerStarts ==
  /\ ~broker
  /\ broker' = TRUE
  /\ UNCHANGED <<queue, asked, outages, crashes, sessions, buffer, consumer,
                 current, started>>

\* Any goroutine that panics stops them all, as followsMetadata does for
\* some follow lists.
Crash ==
  /\ crashes < MaxCrashes
  /\ crashes' = crashes + 1
  /\ consumer' = [q \in Used |-> "off"]
  /\ buffer' = Nothing
  /\ current' = [q \in Used |-> None]
  /\ pubKeyUUID' = [k \in Words |-> None]
  /\ verdicts' = << >>
  /\ UNCHANGED <<broker, queue, asked, outages, started>>

\* main starts a consumer for every queue.
Restart ==
  /\ \A q \in Used : consumer[q] = "off"
  /\ consumer' = [q \in Used |-> "start"]
  /\ UNCHANGED <<world, sessions, buffer, current, started>>

-----------------------------------------------------------------------------
(* ConsumeQueue *)

Connect(q) ==
  /\ consumer[q] = "start"
  /\ consumer' = [consumer EXCEPT ![q] = IF broker THEN "wait" ELSE "deaf"]
  /\ UNCHANGED <<world, sessions, buffer, current, started>>

HandOver(q) ==
  /\ broker
  /\ consumer[q] = "wait"
  /\ queue[q] # << >>
  /\ buffer' = [buffer EXCEPT ![q] = Append(@, Head(queue[q]))]
  /\ UNCHANGED <<broker, asked, outages, crashes, sessions, consumer,
                 current, started>>

KeepsACopy(q) ==                                       \* mutant
  HandOver(q) /\ queue' \in {queue, [queue EXCEPT ![q] = Tail(@)]}
Deliver(q) == HandOver(q) /\ queue' = [queue EXCEPT ![q] = Tail(@)]

-----------------------------------------------------------------------------
(* The consumers *)

\* The checks before checkAndUpdateUUID.
WellFormed(r) ==
  /\ QueueOf(r) = "search" => Len(Parts(r)) >= 2
  /\ QueueOf(r) = "follow_notes" => Len(Parts(r)) = 3
  /\ QueueOf(r) = "nostr_entity" => Whole(r)
  /\ QueueOf(r) \notin {"search", "follow_notes", "nostr_entity"} =>
       Len(Parts(r)) = 2

PubKey(r) ==
  IF QueueOf(r) # "search" THEN Parts(r)[1]
  ELSE IF Len(Parts(r)) > 2 THEN Parts(r)[3] ELSE NoWord
SearchText(r) == IF QueueOf(r) = "search" THEN Parts(r)[1] ELSE NoWord
UUID(r) == IF QueueOf(r) = "follow_notes" THEN Parts(r)[3] ELSE Parts(r)[2]

\* The key in the map of sessions.
SearchFirst(r) ==                                      \* mutant
  IF SearchText(r) # NoWord THEN SearchText(r) ELSE PubKey(r)
KeyOf(r) == IF PubKey(r) # NoWord THEN PubKey(r) ELSE SearchText(r)

\* What is done with a request r out of the queue.
Fresh(r) == pubKeyUUID[KeyOf(r)] # UUID(r)

checkAndUpdateUUID(r) ==
  /\ pubKeyUUID' = [pubKeyUUID EXCEPT ![KeyOf(r)] = UUID(r)]
  /\ verdicts' = Append(verdicts, [req |-> r, fresh |-> Fresh(r)])

\* The range loop gets its next delivery.
NextDelivery(q, r) ==
  /\ consumer[q] = "wait"
  /\ current[q] = None
  /\ buffer[q] # << >>
  /\ r = Head(buffer[q])
  /\ buffer' = [buffer EXCEPT ![q] = Tail(@)]
  /\ UNCHANGED <<world, consumer, started>>

ReturnsOnMalformed(q, r) ==                            \* mutant
  /\ consumer[q] = "wait"
  /\ current[q] = None
  /\ buffer[q] # << >>
  /\ r = Head(buffer[q])
  /\ ~WellFormed(r)
  /\ consumer' = [consumer EXCEPT ![q] = "deaf"]
  /\ buffer' = [buffer EXCEPT ![q] = Tail(@)]
  /\ UNCHANGED <<world, sessions, current, started>>
Discard(q, r) ==
  /\ NextDelivery(q, r)
  /\ ~WellFormed(r)
  /\ UNCHANGED <<sessions, current>>

\* A repeated session, or a note whose other fields turn out to be missing
\* when its session is already remembered.
Skip(q, r) ==
  /\ NextDelivery(q, r)
  /\ WellFormed(r)
  /\ q # "nostr_entity"
  /\ ~Fresh(r) \/ ~Whole(r)
  /\ checkAndUpdateUUID(r)
  /\ UNCHANGED current

Accept(q, r) ==
  /\ NextDelivery(q, r)
  /\ WellFormed(r)
  /\ q # "nostr_entity"
  /\ Fresh(r)
  /\ Whole(r)
  /\ checkAndUpdateUUID(r)
  /\ current' = [current EXCEPT ![q] = r]

\* Entities are retrieved in every session, repeated or not.
AcceptEntity(q, r) ==
  /\ NextDelivery(q, r)
  /\ WellFormed(r)
  /\ q = "nostr_entity"
  /\ current' = [current EXCEPT ![q] = r]
  /\ UNCHANGED sessions

\* One fan-out; the consumer of user_pub_key sleeps between them.  A closed
\* delivery channel does not interrupt it.
StartNext(q, stages) ==
  /\ current[q] # None
  /\ LET r == current[q] IN
       /\ started' = [started EXCEPT ![r] = @ \o stages]
       /\ current' = [current EXCEPT ![q] =
                        IF Len(started[r]) + 1 = Len(Program(r)) THEN None ELSE r]
  /\ UNCHANGED <<world, sessions, buffer, consumer>>

NextStage(r) == <<Program(r)[Len(started[r]) + 1]>>
StopsWithTheChannel(q) ==                              \* mutant
  consumer[q] = "wait" /\ StartNext(q, NextStage(current[q]))
AllStagesEachTime(q) == StartNext(q, Program(current[q]))   \* mutant
FanOut(q) == StartNext(q, NextStage(current[q]))

-----------------------------------------------------------------------------

Take(q) ==
  \E r \in Requests :
    Discard(q, r) \/ Skip(q, r) \/ Accept(q, r) \/ AcceptEntity(q, r)

Next ==
  \/ \E r \in Requests : Ask(r)
  \/ BrokerStops \/ BrokerStarts
  \/ Crash \/ Restart
  \/ \E q \in Used : Connect(q) \/ Deliver(q) \/ Take(q) \/ FanOut(q)

\* The broker comes back and delivers, goroutines that can run do so.  That
\* anybody starts the process again is not assumed.
Fairness ==
  /\ WF_vars(BrokerStarts)
  /\ \A q \in Used :
       /\ WF_vars(Connect(q)) /\ WF_vars(Deliver(q))
       /\ WF_vars(Take(q)) /\ WF_vars(FanOut(q))

Spec == Init /\ [][Next]_vars
FairSpec == Spec /\ Fairness
-----------------------------------------------------------------------------
(* Properties *)

InRange(r, s) == \E i \in 1..Len(s) : s[i] = r
Waits(r) == InRange(r, queue[QueueOf(r)]) \/ InRange(r, buffer[QueueOf(r)])

\* How far a request has come.
State(r) ==
  IF r \notin asked THEN "unsent"
  ELSE IF Waits(r) THEN "sent"
  ELSE IF current[QueueOf(r)] = r THEN "taken" ELSE "over"

Promise == INSTANCE AtMostOnce WITH
  state <- [r \in Requests |-> State(r)],
  started <- started

(***************************************************************************)
(* Whatever fails and whenever the process is started again, a request is  *)
(* taken up at most once, its fan-outs start in order and once each, and   *)
(* nothing that is done or lost comes back (services.go:146-447,           *)
(* queueHandler.go:61-69).                                                 *)
(***************************************************************************)
ImplementsAtMostOnce == Promise!Spec

(***************************************************************************)
(* checkAndUpdateUUID (services.go:52-70), called by five consumers: a     *)
(* session is fresh exactly if the last fresh one of the same user, or of  *)
(* the same search when the user is unknown, was another.  This is what    *)
(* the shared map does, drops across the kinds of requests included; that  *)
(* they are wanted is not said anywhere.                                   *)
(***************************************************************************)
Asker(r) == IF PubKey(r) = NoWord THEN SearchText(r) ELSE PubKey(r)

SessionsAreServedOnce ==
  \A i \in 1..Len(verdicts) :
    LET r == verdicts[i].req
        Earlier == {j \in 1..(i - 1) :
                      verdicts[j].fresh /\ Asker(verdicts[j].req) = Asker(r)}
    IN verdicts[i].fresh <=>
         \A j \in Earlier :
           (\A k \in Earlier : k <= j) => UUID(verdicts[j].req) # UUID(r)

\* A request that is taken up gets all its fan-outs, also when the broker
\* fails in between, unless the process stops (services.go:172-180).
TakenRequestsAreCompleted ==
  \A r \in Requests :
    current[QueueOf(r)] = r ~>
      started[r] = Program(r) \/ consumer[QueueOf(r)] = "off"

\* While neither broker nor process fail, a request in the queue of a
\* consumer that ranges over it is dealt with, whatever other requests look
\* like (services.go:161-182).
QueuesAreServed ==
  \A r \in Requests :
    Waits(r) /\ consumer[QueueOf(r)] = "wait" ~>
      ~Waits(r) \/ ~broker \/ consumer[QueueOf(r)] = "off"

\* "[*] Waiting for messages. To exit press CTRL+C" (services.go:185): the
\* consumer that says so takes up what is in its queue while broker and
\* process work.
ConsumersWaitForMessages ==
  \A r \in Requests :
    Waits(r) /\ consumer[QueueOf(r)] \in {"wait", "spin"} ~>
      ~Waits(r) \/ ~broker \/ consumer[QueueOf(r)] = "off"
================================================================================

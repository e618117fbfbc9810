# A TLA+ model of go-socket-server

go-socket-server sits between a web application and the relays of the Nostr
network. The application puts requests on RabbitMQ queues; the server opens
websockets to relays, sends subscriptions, reads the answers and publishes them
on other RabbitMQ queues, marked with the user who asked. This directory holds
a model of it in TLA+, configurations that check the model with TLC, and proofs
checked by TLAPS.

## The system

| part | source | state | operations |
|---|---|---|---|
| relay connection table | `relay/relayManager.go`, `relay/connection.go` | per relay URL, under one mutex: the connection, its three channels, its context and cancel function, the time of the last pong | `GetConnection`, `createNewConnection`, `CloseConnection`, `attemptReconnect`; per connection the goroutines `writeLoop`, `readLoop`, `pingHandler`, `processReadChannel`; per request a goroutine that obtains a write channel and sends on it |
| rate limiter | `rateLimiter/rateLimiter.go` | a count, a limit, a ticker, a mutex | `Allow`, called by every `writeLoop`; the halving of the limit by a NOTICE |
| subscription requests | `subscriptions/subscription.go` | none but local variables | eight subscription functions, `CreateNoteEvent`, `closeSubscription` |
| subscription trackers | `search/tracker.go`, `tracking/` | maps from subscription id to the user or session that asked | add, look up; entries are never removed |
| event routing | `event/eventHandler.go` | none | `HandleEvent`, which looks the subscription up and publishes, and starts author lookups |
| publisher, consumer | `queue/queueHandler.go` | a broker connection per message | `setQueue`, `ConsumeQueue`, a function per queue |
| user service | `user/services.go` | the last session seen per key | six consumers (a seventh, `StartNpubMetadataQueue`, is never started), `checkAndUpdateUUID`, one request goroutine per relay |
| follow list store | `store/redis.go` | in Redis | `HandleFollowListPubKeys`, `ExtractPubKeys` |
| event signing | `data/` | none | hash, sign, verify |
| wiring | `cmd/server/main.go`, `core/` | none | starts a consumer per queue |

How they interact: a consumer of the user service starts a request goroutine
per relay; it calls `GetConnection`, puts an entry into a tracker and blocks on
the unbuffered write channel until `writeLoop` takes the message; `writeLoop`
calls `Allow` and writes; `readLoop` puts what comes back in the read channel;
`processReadChannel` takes it out and runs `HandleEvent`, which reads the
trackers, may start further request goroutines, and publishes.

What is hard about it: every goroutine of a connection knows only the relay
URL, so it acts on whatever connection the table holds for the URL at that
moment; connections are closed from three sides and reconnected by whoever
closed them; the mutex of the table is held over every dial, for as long as the
dialled relay likes; requests hold a channel across a close; the trackers are filled
before or after the request is sent, depending on the kind; the rate limiter
sleeps with its mutex held and is halved without it; a pong is remembered
longer than its connection; five consumers share one map of sessions; requests
are acknowledged before they are done; and errors of the broker and of Redis are
printed and then ignored.

What makes each part correct: the table holds at most one link per relay, a live
one, with its goroutines; the limiter bounds what relays see and lets everything
through; each relay sees a REQ before its CLOSE, once; events are published in
order and once each, to the user who asked; a request is taken up at most once
and then in full; each publisher's messages reach the reader in order; a note is
an event that a relay accepts.

## The modules

| module | models |
|---|---|
| `LinkTable` | the abstract promise of the relay manager: at most one live link per relay |
| `RelayManager` | the connection table, its goroutines and the requests; implements `LinkTable` |
| `RelayManagerProofs` | its theorems |
| `KeepAlive`, `KeepAliveProofs` | pings, pongs and deadlines of one relay in discrete time; its theorems |
| `RateLimiter` | the rate limiter; its theorems are in `WritePathProofs` |
| `WritePath`, `WritePathProofs` | the composition of request goroutines, `writeLoop`s and the limiter they share, extends `RateLimiter`; the theorems of both |
| `FramePipe` | the abstract promise of the read side: a pipe per connection that may lose frames in two ways only |
| `ReadPath`, `ReadPathProofs` | `readLoop`, the read channel, `processReadChannel`; implements `FramePipe`; its theorems |
| `EventRouting`, `EventRoutingProofs` | requests, trackers and routing; its theorems |
| `AtMostOnce` | the abstract promise about requests: taken up at most once, stages in order |
| `UserService`, `UserServiceProofs` | consumers, sessions and fan-outs under outages and crashes; implements `AtMostOnce`; its theorems |
| `Publisher`, `PublisherProofs` | `setQueue` with a broker that fails and a reader that leaves; its theorems |
| `Payloads`, `PayloadsProofs` | the events made of a new note, and the keys taken from a follow list; the theorems |
| `MCRelayManager`, `MCWritePath`, `MCEventRouting`, `MCUserService`, `MCPayloads` | the instances for TLC; the other modules are run as they are |

How they fit together: a request of `UserService` starts request goroutines,
which are the clients of `RelayManager` (where they get a connection), of
`WritePath` (how their messages get to the relay), of `EventRouting` (what they
track) or, for a note, of `Payloads`. `ReadPath` brings events to
`EventRouting`, whose publications are the messages of `Publisher`. `KeepAlive`
is `RelayManager` for one relay with the time.

Operators marked `mutant` are deliberately wrong variants of the definition
below them. Nothing uses them: each, put in place of that definition, makes a
property of a run fail, which shows that the run would notice the mistake.

### RelayManager

A connection (a member of `Conns`) stands for a socket, a context and the three
channels that `createNewConnection` makes together. `connections`, `channels`
and `cancelFuncs` are the maps of `RelayManager`; maps that are always written
and deleted together are one variable. `lastPong` abstracts the time of the
last pong to whether it is older than `2 * pongWait`. `pc[k][c]` is the program
point of goroutine `k` (writer, reader or pinger) of connection `c`: `run` is
its select, `close` the call of `CloseConnection`, `retry` the loop of
`attemptReconnect`. A request goroutine (`client`) calls `GetConnection` once,
sends, and, unless it publishes a note, sends its CLOSE later on the same
channel.

A critical section of `rm.mutex` is one step, with one exception. A dial is made
with the mutex held and without a `HandshakeTimeout`, so it lasts as long as the
relay likes: `mutex` says which request or which goroutine is dialling.
`GetConnection` is the lookup, which may start a dial, and `RequestDialReturns`
its end; `attemptReconnect` and `RetryDialReturns` are the two halves of a round
of the loop. Whatever needs the mutex (`GetConnection`, `CloseConnection`, the
next round of anybody's `attemptReconnect`, the pong handler, and `pingHandler`
before it looks at the last pong) waits while `mutex` is not `None`. The sleeps
between the rounds are the freedom of other actions to happen in between.

`sock` says what the socket does: `Break` makes every read and write fail,
`ReadEnds` ends only the reading side, as an expired read deadline or an end of
stream does. A write on an open socket lasts until the peer reads, and a ping
behind such a write times out (`PingFails`).
`ReadError` returns from `readLoop` with or without closing, since
the code closes only for some close codes.

Things the model makes visible: the connection that `GetConnection` replaces
when no fresh pong is known is not closed, and its goroutines go on; when they
fail later they close the connection that took its place. A relay that accepts
and never answers the handshake stops everything: no connection can be closed
and no request served any more, on any relay. After a failed dial
`GetConnection` returns a nil channel, and every caller but
`RetrieveEmbeddedEntity` then blocks for good (`handle` stays `None`).

### KeepAlive

`RelayManager` lets a pong age, a ping fail and a read deadline expire at any
time. `KeepAlive` keeps one relay and has the time instead: `Second` units make
a second, `pongWait` and `pingInterval` are computed as the code computes them,
and `Elapse` lets one unit pass on every clock.

`mutex` is `rm.mutex`: free, held over a dial of this relay (`own`) or of another
(`other`), for any time and as often as the other relays like. The variables
describe the connection in the table. `tick` and `buffered` are the ticker of
`pingHandler` and the one tick its channel can hold, `ping` where `pingHandler` is:
at its select, waiting for the mutex before it looks at the last pong, in
`WriteControl`, or in `CloseConnection`. `reading` and `deadline` are `readLoop` and
its read deadline, `age` is what `time.Since` of the last pong gives (`None`
before the first). Ticks fire when they are due, but `Check`, `Ping`, `Pong` and
`PingCloses` come when the mutex, the socket and the peer let them: time passes
over them, except that a goroutine does not wait for a mutex that is free.

Connections come and go as in `RelayManager`. `Dial` is possible whenever the
relay is not connected in the sense of `isConnected`, so an open connection whose
pong is old, or that had none, may be replaced without being closed. `earlier`
says that the table had another connection before: its goroutines act by URL, so
they may close the current one (`OtherCloses`) and may still store a pong
(`EarlierPong`), which sets no deadline of the current one. Only `Pong` sets a
deadline and only a reader sees pongs; closing and dialling leave `age` alone.

`missed`, `heard`, `pinged`, `busy` and `round` are history: whether more than a
second went by between a tick and the next pong, whether this connection had a
pong, whether it was pinged, how long `pingHandler` has been away from its
select, and the time since the last tick that waits for its pong.

Things the model makes visible: a pong that is handled a second or more after
its tick, be it slow itself, or `pingHandler` or the pong handler kept waiting
while some other relay is dialled, may lose to the read deadline; the deadline
ends `readLoop` alone, and the connection stays in the table until the pong is 20 s
old at a tick or `GetConnection` replaces it; a connection that is never asked for
and had no pong is never closed for its silence; the pong's time survives the
close, see the findings.

### RateLimiter

`writer[w]` is where a `writeLoop` is in `Allow`; `tick` is the one-place
buffer of the ticker's channel; `loaded` splits the halving into its load and
its store. `passed` and `noticed` are history: messages let through since the
ticker last fired, and whether some NOTICE was processed.

### WritePath

The limiter is `RateLimiter` as it stands; a `writeLoop` that holds a message
and is not in `Allow` is about to write it. `conn` is the connection that each
request goroutine got, `stage` where it is: REQ, the five seconds of
`closeSubscription`, CLOSE. A connection fails or is closed by somebody at any
time, and then its `writeLoop` returns; the reconnect is in `RelayManager`.
`wire` is what a relay sees, `wrote` counts what all relays see since the ticker
last fired.

Things the model makes visible: one message per connection may be stopped
between `Allow` and its write, so relays see more in an interval than the
limiter let through in it; a CLOSE that is not taken before its connection goes
is never sent.

### ReadPath

A connection is closed by somebody or replaced without a close, so goroutines of
several connections are at work at once. `hand` is the frame `readLoop` has,
`readChan` the channel, `handling` the event that is being published. A select
with several ready cases takes any of them. The kinds of frames are those the
code tells apart. `readLoop` closes what the table holds for the URL, which may
be another connection than its own.

Things the model makes visible: after a close, what is in the channel may be
published or lost; the log of a dropped frame indexes a message that may be
empty, and `HandleEvent` is given elements that may be missing: both panic, and
nobody recovers. The same log gives the buffer as `%d/100`, while the channel
holds 1000.

### EventRouting

`ask[s]` is the request goroutine of subscription `s`, and `Program` the order
in which the function it runs tracks, sends and closes. The goroutine per
search result and callback relay that asks for the author has an id made of the
event and the relay. `search`, `owner`, `follows`, `context` and `npub` are the
tracker maps, each written by an action of its own. `HandleEvent` takes an event
from the read channel, makes the lookups of `delegateKindOne` or leaves those of
`delegateKindZero` to the publications they precede, and `Publish` performs one
publication. Request ids never collide, since the code draws 16 random bytes.

Things the model makes visible: a kind-0 event is published to three queues,
two of which get an empty tag unless the event belongs to an entity or npub
request; a note asked for as an embedded entity is published as an ordinary
user note without a tag; the filter of a search says `kind` where relays expect
`kinds`, so it may be answered with events of any kind, a follow list among them,
which goes to `follow_list` like the answer to a follow list request;
`follows_metadata` is never published to; an author's
metadata may be published before the search result it belongs to.

### UserService

`queue[q]` is what the broker has, `buffer[q]` what it has handed over and
forgotten (`ConsumeQueue` asks for automatic acknowledgement), `current[q]` the
request a consumer is at work on, `started[r]` the fan-outs of a request so far:
three for `user_pub_key`, with two seconds between them, one for the others. A
fan-out starts its goroutines without blocking, so it is one step.
`pubKeyUUID` is the map that five consumers share. `BrokerStops` breaks all
connections, and may lose the transient queues; `Crash` stops the process, which
may be started again (`Restart`) with nothing remembered.

A body is given as its parts: the split at colons is what the code's checks
depend on, and which parts a text has is left to the instance.

Things the model makes visible: what was handed over when the broker fails or the
process stops is gone; the key in the map is the user alone when there is one,
so a search is skipped, with the log "Mapping already exists for search", after
any other request of the user in the same session; a note with missing fields
still claims its session. `SessionsAreServedOnce` describes these drops, it does
not exclude them: the repository does not say whether they are meant.

### Publisher

`setQueue` call by call: dial, channel, declaration, publication, the deferred
closes. A publication is a frame on the socket, which the broker routes later;
`Close` waits for the broker's answer, which comes after the frame. The queue is
deleted with what is in it when its reader leaves. Queues do not interact, so
there is one.

Things the model makes visible: a message for a queue whose reader has left and
come back in between is dropped silently; after "Failed to connect to RabbitMQ"
the code goes on with the nil connection, so a broker that cannot be reached
stops the process at the first event.

### Payloads

`CreateNoteEvent` makes an event for every relay, each at its own time. An id is
what was hashed, a signature who signed what. `json.Marshal` escapes `<`, `>`,
`&`, U+2028 and U+2029, so the id of a note with one of them is not the one that a relay
computes from the same fields: such a note is not accepted.
`HandleFollowListPubKeys` is one call with any list of tags, `ShortEvent` the
call for an event that Redis does not have in full.

Things the model makes visible: each relay may get the same note under another
id; after "Error signing the event" the event is sent unsigned; "Event not long
enough", and the errors before it, are followed by an index into the event, so a
user whose follow list is not in Redis stops the process.

## The runs

| run | instance | shows |
|---|---|---|
| `relay_safety` | 3 connections, 2 notes, 2 attempts | types; no send on a closed channel; the connection in the table is served; a lost relay is redialled; the table implements `LinkTable` and holds live connections only |
| `relay_liveness` | 2 connections and a subscription, another request that dials a relay which is never reached, 1 attempt, fair | provided that every dial returns: goroutines of a closed connection return; a request blocked on the connection in the table is served or that connection leaves the table; a failed connection leaves the table |
| `keepalive` | `Second` = 4, `MaxWait` = 12 s | a connection is given up by no timer while each tick is followed by a pong within a second; one that had a pong leaves the table within 29 s of the last, and the time `pingHandler` was kept from its select |
| `keepalive_log` | `Second` = 5, `MaxWait` = 0 | violated: see the findings |
| `write` | 2 requests on one connection or on two, 2 processors, limit 1, fair | at most 2 * limit messages allowed, and 2 * limit - 1 + connections written, between two ticks; the limit at most halved after a NOTICE; REQ before CLOSE, once; what is opened is closed or its connection lost; every message passes, also at limit 0 |
| `read` | 2 connections, room for 2, 3 frames of 5 kinds, fair | the read side implements `FramePipe`; processors of closed connections return; accepted events are published |
| `routing` | 4 requests, in three workloads; 2 callback relays, 2 events | attribution across kinds and through author lookups, with answers of any kind to a search; tags stay, also for the trackers filled late |
| `user_safety` | 5 requests on 4 queues, an outage, a crash | sessions are served once; requests are taken up at most once |
| `user_liveness` | 4 requests on 2 queues, an outage, a crash, fair | all stages of a request; malformed bodies hold nothing up |
| `user_log` | the same without the crash, fair | violated: see the findings |
| `publisher` | 2 publishers of 2 messages, an outage, a leave, fair | no publication without a queue unless the reader or the broker left; order, once each; what is published is read; publishers finish |
| `payloads` | 4 notes (good, with markup, foreign key, malformed key) at 2 moments; lists of up to 3 tags over 2 keys | which events a relay accepts; the keys are the reference definition's |

Why the bounds are enough:

- Relays do not interact in the table except through goroutines that know one
  URL and through the mutex, so one relay is enough to exercise every interleaving
  of one entry, and in `relay_liveness` a second one that is dialled in vain is
  enough to keep the mutex away from the first at any moment. `Reaches` says which
  relay each connection of the instance may be opened to. Three
  connections give a goroutine that outlives two generations. `Conns` bounds the
  successful dials, and `relay_safety` stops where the last of its connections has
  left the table (`DialsRemain`), since only dials that fail could follow.
  `MaxRetries` is 3 in the code: 2 gives success, giving up and a failure between,
  1 the first two.
  The theorems hold for every number of connections and attempts.
- In `KeepAlive` `MaxWait` bounds how long `pingHandler` is away from its select.
  Twelve seconds are longer than a ping interval, so ticks are buffered, longer
  than `pongWait`, so deadlines expire meanwhile, and long enough that a pong
  which was fresh at the tick is stale at the test. Ages beyond `MaxAge`, which is
  29 s and that wait, are one value, since nothing tells them apart; every other
  clock is bounded by the code. A quarter of a second is fine enough to put
  events between the nine seconds of a tick and the ten of a deadline. The
  theorems hold for every `MaxWait` and `Second`.
- A limit of 1 reaches every branch of `Allow`, and one NOTICE brings it to 0; two
  processors race. The code's limit of 5 is covered by the theorems, which hold
  for every limit. Two requests on one connection compete for it, on two for the
  limiter.
- In `ReadPath` two connections give the closed or replaced one and its
  successor, and three frames of one connection fill a channel of two and find it
  full.
- The workloads of `routing` are one request of each tracked kind, searches by a
  user, a session and nobody, and the kinds that are tracked late or not at all.
  `MaxEvents` bounds the events of all relays: one result of a search and one
  answer to the lookups it starts. 7 stands for every kind that `HandleEvent` has no
  case for.
- The requests of `user_safety` are those that share the map of sessions, in a
  repeated and in another session, and a malformed body before a good one. One
  outage and one crash may come before, between or after all steps.
- In `publisher` two messages are two neighbours on connections of their own; the
  outage and the leave may come at any call.
- Three tags give every pair of kinds a neighbour.

Symmetry is used where connections and requests are interchangeable and no
liveness is checked. `CHECK_DEADLOCK FALSE` is set where the system may stop: all
requests, frames, events or messages are used up, no connection is left, or the
process has panicked.

### Fairness

Where no fairness is named, none is assumed. The Go scheduler runs every
runnable goroutine, which is weak fairness of its steps.

`RelayManager`: weak fairness of every step of a goroutine that is not waiting
for the peer, for the mutex or for a request, and of a send that has a receiver;
an operation on a failed socket returns, and a ping behind a write that does not
return times out after `pongWait`. Of the peer nothing is assumed: it need not
read, answer a ping or answer a dial. The end of a dial (`RequestDialReturns`,
`RetryDialReturns`) and a write on an open socket therefore have no fairness.
Since a dial that never returns keeps `rm.mutex`, and with it everything, for
good, the three liveness properties are implications: `EveryDialReturns`, which is
`[]<>(mutex = None)`, is their premise. It is not a promise of the code, which
sets no `HandshakeTimeout`; without it TLC refutes all three, the last two by the
dial of the other relay that never ends. `writeLoop` is
assumed to get through `Allow`, which `write` checks (`EveryMessagePasses`).

`WritePath`: the ticker fires again and again, and goroutines that can run do.
Locking is strongly fair: a `sync.Mutex` hands itself over to a waiter that has
waited for a millisecond. So are the sends on a write channel: Go serves the
goroutines that wait on a channel in the order in which they came, so one that
finds a receiver again and again is served.

`ReadPath`: every step of a goroutine that can run, and the failure of a read on
a closed socket. That frames arrive is not assumed.

`UserService`: the broker comes back and delivers, and consumers that can run do.
That the process is started again is not assumed.

`Publisher`: the broker comes back and routes, publishers that can run do, and a
reader that is there reads. That there is a reader is not assumed.

## Findings

`keepalive_log` refutes that a connection is closed with "No pong received"
(`relay/relayManager.go:157`) only after it was pinged. `lastPongTimes` is kept
per URL and is cleared neither by `CloseConnection` nor by
`createNewConnection`. When the last pong is more than 11 s old at the redial,
it is more than 20 s old at the first tick of the new connection, nine seconds
later, and `pingHandler` closes it before it sends its first ping. The next
connection fares no better, since the pong only gets older: from one long
silence on, the relay is closed nine seconds after every reconnect.

`user_log`: a consumer says that it is "Waiting for messages"
(`user/services.go:185`). After the broker's connection has failed once, it spins
over the closed delivery channel (lines 161-162) and takes up nothing again.

## The proofs

`RelayManagerProofs` proves for any number of relays, connections, requests and
attempts, from `ManagerAssumption` alone, everything that `relay_safety` checks:
its five invariants and the refinement of `LinkTable`. The
safety invariants are not inductive by themselves. `IInv` adds: the maps agree at every
release of the mutex; a connection never dialled has no goroutine, and a dialled
one belongs to one relay for good; a goroutine in `attemptReconnect` has an
attempt left, and one not there yet has made none; no channel was ever closed; and
who holds the mutex over a dial still has reason to dial (`DialsAreDue`): a request
that has not got a connection, or a goroutine in `attemptReconnect` whose relay is
not in the table. The last is what makes it sound that the lookup and the dial are
two steps: nobody writes the maps in between, because everybody waits.
The proof has one lemma per way a step can matter to the table (a dial
succeeds, a dial fails, a connection is closed, one goroutine moves) and one
step per action that cites the lemma. The refinement is then proved step by step
from the invariant: a dial is `Open` or `Replace`, a close is `Drop`, a pong is
`Confirm`, its ageing `Expire`, and the rest stutters.

`KeepAliveProofs` proves type correctness, `SteadyRelayIsKept` and
`SilenceIsBounded` for every resolution `Second` and every bound `MaxWait`. For the
first, `InStep` says how the clocks are tied together as long as no pong was
missed: the deadline is at least a second away from the next tick, or from the
tick whose pong is still due, and what the age of the last pong has used up of
`pongWait` the deadline has lost too. It holds because `pongWait - pingInterval`
is a second. How long anybody waits for the mutex does not enter: a wait that
keeps the pong beyond the second makes `missed` true. For the second, `AgeAndTick`
says that age and time to the next tick together stay within the bound as long as
`pingHandler` will be there for that tick (`Punctual`), and that otherwise the age
passes it by no more than the time `pingHandler` has been away (`busy`). `Shape`
says that only an open connection is read or heard, and that who stands at the
select has not been kept.

For the limiter by itself `WritePathProofs` proves type correctness,
`BurstIsBounded` and `NoticeSlowsDown` for every limit and any number of
writers and processors. The strengthening is `PassedIsCounted`: while the tick
of the interval is in the buffer all messages were counted, and after it was
taken at most the limit was passed before.

For the whole path it proves, for any number of requests, relays, connections and
writers and every limit, the five safety properties of `write`. Those of
the limiter are proved again, since here its writers come and go with their
connections. `WriteInv` has two halves. `BurstInv` bounds the writes:
`WritesAreCounted` says that what was written since the tick and what is allowed
and not yet written are together at most what was counted, and all but one of
the writers more; a connection that goes takes its writer out of both sides, and
the first message of a new interval is counted before any is allowed
(`FirstIsCounted`), which is where the -1 of the bound comes from. `OrderInv`
follows each request through its REQ and its CLOSE (`RequestInv`): which of the
two is held by a `writeLoop`, on the wire or lost with the connection.

`ReadPathProofs` proves type correctness and the refinement of `FramePipe`, for
any number of connections and frames and any room in the channel. `ReadInv` ties
the program points of the two goroutines to what they hold. Each step is then one
step of the pipe or a stutter: a receive is its arrival, a drop and a close its
two ways to lose a frame, a publication its departure; what is in the pipe is
`handling \o readChan \o hand`, so that moving a frame from one to the next
changes nothing.

`EventRoutingProofs` proves, for any workload, any relays and any number of
events, everything that `routing` checks. `RoutingInv` goes along the way of an
answer. `AskInv`: a goroutine that was started is a request of its own or
looks an author up for the user of a search. `TrackerInv`: an entry is the
goroutine's own, and the entries that decide where notes and profiles go are
there from its first step on, so before its REQ. `EventInv`: what waits in
a channel answers a REQ that was sent, its number is its own, and the lookups
with that number are not started. `PublicationInv`: what is still to be
published, and what was, has the tag that the trackers have, or went out
before they had any. `ResultInv`: every lookup has its result. The step that
carries the proof is `Onward`: no step changes what a goroutine was started
for, nor an entry that was written. Whatever was attributed once therefore
stays attributed (`AttributedLater`, `PendingLater`, `DoneLater`), and each
action has to be looked at only for what it adds.

`UserServiceProofs` proves type correctness, `SessionsAreServedOnce` and the
refinement of `AtMostOnce`, for any requests and any number of outages and
crashes. `ServiceInv` says that a request is in one place: the queue of the
broker, the buffer of the client, each of which holds it once, or the consumer;
and that the stages started are the first ones of its program. `SessionInv` says
that the map remembers, for every key, the last session that was fresh.

`PublisherProofs` proves type correctness, `PublicationsAreRouted` and
`PublishersKeepTheirOrder`, for any number of publishers, messages, outages and
leaves. `PublisherInv` adds that a frame on the way is the current message of a
publisher which waits for the broker's answer, that a publisher whose connection
has held since its declaration finds the queue or has been deserted, and that
what arrived is of the past or the message still waited for. The wait in
`Close` is what it rests on: no message is sent while its predecessor is on the
way.

`PayloadsProofs` proves type correctness, `RelaysAcceptGoodNotes` and
`ReturnsTheKeys`, for any notes and keys and follow lists of any length. The
three are inductive together, since each handler's result follows from its
arguments. What `ExtractPubKeys` computes is an induction over the list.
The induction theorems of the library take the formula as a parameter, which the
provers cannot instantiate, so the proof goes by least counterexample
(`LeastNumber`, from the well-foundedness of the numbers): the recursive function
exists (`Collectable`), therefore satisfies its recursion
(`CollectedIsIt`), and there is no least number of tags after which it has
collected anything but the keys of the p tags (`CollectsTheKeys`).

Each inductive invariant was first checked by TLC on the instance of the
module's run. The assumptions on the constants are those named in the modules:
that sets are finite where they are counted, limits and bounds natural numbers,
in `RoutingAssumption` that a request is not an author lookup, and in
`PayloadAssumption` that None is no key, id or signature.

Only model-checked is liveness, which TLAPS does not handle:
`ClosedLoopsReturn`, `SendersAreServed`, `BrokenIsDropped`,
`SubscriptionsAreClosed`, `EveryMessagePasses`, `ClosedProcessorsReturn`,
`AcceptedEventsArePublished`, `TakenRequestsAreCompleted`, `QueuesAreServed`,
`PublishedIsRead` and `PublishersFinish`.

## Not modelled

- The wiring of `cmd/server/main.go` is in the model as far as it starts the
  consumers (`Restart` of `UserService`); it keeps no state.
- `StartNpubMetadataQueue`, `FollowsTracker` and `PrepareFollowsPubKeys` are
  never used by the program. The npub requests that the first would make are in
  `EventRouting` all the same, since the trackers and the routing know them.
- `core/interfaces.go` and `tracking/interfaces.go` declare interfaces only.
- The websocket, AMQP, Redis, hash and signature libraries and the relays are
  modelled by what the code sees of them.
- The format of the messages, and the texts of logs.
- Which of several relays a subscription goes to: `UserService` starts a fan-out
  as a whole, since its goroutines do not interact before they get to
  `RelayManager`.
- A search that contains a colon: the code splits it there and takes what
  follows for the session.

## The plan

Every component with state is modelled, and every safety property and refinement
that a run checks is proved. What is left are corollaries of the refinements:
what `FramePipe` and `AtMostOnce` promise by themselves, carried over to `ReadPath`
and `UserService`.

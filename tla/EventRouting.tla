------------------------------ MODULE EventRouting ------------------------------
(***************************************************************************)
(* How the answers of relays find the user who asked: the request          *)
(* goroutines of subscriptions/subscription.go, the maps of                *)
(* search/tracker.go and tracking/, and HandleEvent of                     *)
(* event/eventHandler.go, run by one processReadChannel per connection.    *)
(*                                                                         *)
(* An answer carries only a subscription id.  The id is drawn at random    *)
(* for each request goroutine, so it names the goroutine here, and only    *)
(* that goroutine ever writes the tracker entry of its id.  Each access to *)
(* a tracker is one critical section of its mutex.  Connections come and   *)
(* go here only in that unread events may be lost with one: RelayManager   *)
(* is about them.                                                          *)
(***************************************************************************)
EXTENDS Naturals, Sequences, Functions

CONSTANTS
  Requests,   \* request goroutines started by the user service
  Workloads,  \* what the goroutines may be asked for: functions from Requests
  Relays,     \* relay URLs
  Callbacks,  \* callbackRelays
  HexKeys,    \* keys that decode as hexadecimal
  MaxEvents,  \* events that relays may send: bounds the model
  Empty       \* the empty string, and the zero value of tracker entries

RequestKinds ==
  {"metadata", "userNotes", "followList", "followsMetadata", "followsNotes",
   "npub", "search", "entity"}

\* The author lookups that the nth event may start: one per callback relay.
Lookups == (1..MaxEvents) \X Callbacks
Subs == Requests \cup Lookups

ASSUME RoutingAssumption ==
  /\ \A w \in Workloads, q \in Requests :
       w[q].kind \in RequestKinds /\ w[q].relay \in Relays /\ w[q].origin = q
  /\ Callbacks \subseteq Relays
  /\ Requests \cap Lookups = {}
  /\ MaxEvents \in Nat

VARIABLES
  ask,         \* what goroutine s is for, or Empty while it is not started
  step,        \* how many steps of its program it has done
  search,      \* searchTrackerUUID
  owner,       \* subscriptionTracker
  follows,     \* newSubscriptionTracker
  context,     \* EmbeddedTracker.subscriptions
  npub,        \* NPubMetadataTracker.subscriptions
  readChan,    \* readChan[r]: events waiting for processReadChannel
  todo,        \* todo[r]: what HandleEvent still has to do
  published,   \* messages published to RabbitMQ, in order
  arrived      \* events sent by the relays so far

trackers == <<search, owner, follows, context, npub>>
vars == <<ask, step, trackers, readChan, todo, published, arrived>>

-----------------------------------------------------------------------------
(* The request goroutines *)

\* A request: the subscription function, the user's public key and session,
\* either of which may be Empty, the relay, and the request it came from.
Request(kind, pubkey, uuid, relay, origin) ==
  [kind |-> kind, pubkey |-> pubkey, uuid |-> uuid, relay |-> relay, origin |-> origin]

\* What a subscription function does, in its order.
Untracked == <<"send", "close">>
TrackedFirst == <<"track", "send", "close">>
TrackedLate == <<"send", "track", "close">>

TracksLate(kind) ==                                    \* mutant
  IF kind \in {"metadata", "userNotes", "followList"} THEN Untracked
  ELSE TrackedLate
Program(kind) ==
  CASE kind \in {"metadata", "userNotes", "followList"} -> Untracked
    [] kind \in {"entity", "npub"} -> TrackedLate
    [] OTHER -> TrackedFirst

\* Who asked: the public key if there is one, else the session.
KeyOf(pubkey, uuid) == IF pubkey = Empty THEN uuid ELSE pubkey

\* SearchedAuthorMetadata takes a search key that decodes as hexadecimal for
\* a public key and any other for a session.
OnlyPubkeys(key) == <<IF key \in HexKeys THEN key ELSE Empty, Empty>>   \* mutant
SplitKey(key) == IF key \in HexKeys THEN <<key, Empty>> ELSE <<Empty, key>>

\* FollowsMetadataSubscription stores "none" for what is empty.
OrNone(x) == IF x = Empty THEN "none" ELSE x
FollowsInfo(pubkey) ==
  [user |-> OrNone(pubkey), follows |-> "test", identifier |-> OrNone(Empty)]

Does(s, name) ==
  /\ ask[s] # Empty
  /\ step[s] < Len(Program(ask[s].kind))
  /\ Program(ask[s].kind)[step[s] + 1] = name
  /\ step' = [step EXCEPT ![s] = @ + 1]

\* One action per tracker, each one critical section.
Tracks(s, kinds) ==
  /\ Does(s, "track")
  /\ ask[s].kind \in kinds
  /\ UNCHANGED <<ask, readChan, todo, published, arrived>>

AddSearch(s) ==
  /\ Tracks(s, {"search", "author"})
  /\ search' = [search EXCEPT ![s] = KeyOf(ask[s].pubkey, ask[s].uuid)]
  /\ UNCHANGED <<owner, follows, context, npub>>

AddSubscription(s) ==
  /\ Tracks(s, {"followsNotes"})
  /\ owner' = [owner EXCEPT ![s] = KeyOf(ask[s].pubkey, ask[s].uuid)]
  /\ UNCHANGED <<search, follows, context, npub>>

FollowsMetadataSubscription(s) ==
  /\ Tracks(s, {"followsMetadata"})
  /\ follows' = [follows EXCEPT ![s] = FollowsInfo(ask[s].pubkey)]
  /\ UNCHANGED <<search, owner, context, npub>>

TrackEntity(s) ==
  /\ Tracks(s, {"entity"})
  /\ context' = [context EXCEPT ![s] = ask[s].uuid]
  /\ UNCHANGED <<search, owner, follows, npub>>

TrackNPub(s) ==
  /\ Tracks(s, {"npub"})
  /\ npub' = [npub EXCEPT ![s] = ask[s].uuid]
  /\ UNCHANGED <<search, owner, follows, context>>

Track(s) ==
  \/ AddSearch(s)
  \/ AddSubscription(s)
  \/ FollowsMetadataSubscription(s)
  \/ TrackEntity(s)
  \/ TrackNPub(s)

\* writeChan <- REQ
Send(s) ==
  /\ Does(s, "send")
  /\ UNCHANGED <<ask, trackers, readChan, todo, published, arrived>>

\* closeSubscription: the relay is told, the trackers keep their entries.
ForgetsOnClose(s) ==                                   \* mutant
  /\ Does(s, "close")
  /\ search' = [search EXCEPT ![s] = Empty]
  /\ context' = [context EXCEPT ![s] = Empty]
  /\ UNCHANGED <<ask, owner, follows, npub, readChan, todo, published, arrived>>
Close(s) ==
  /\ Does(s, "close")
  /\ UNCHANGED <<ask, trackers, readChan, todo, published, arrived>>

-----------------------------------------------------------------------------
(* The relays *)

\* The event kinds that the filter of a request lets through.  The filter of a
\* search names them under "kind", which relays do not know, so a relay may
\* answer it with any: profiles, notes, follow lists and, as Other, those that
\* HandleEvent has no case for.
Other == 7
AnswerKinds(kind) ==
  CASE kind \in {"metadata", "followsMetadata", "npub", "author"} -> {0}
    [] kind \in {"userNotes", "followsNotes"} -> {1}
    [] kind = "followList" -> {3}
    [] kind = "entity" -> {0, 1}
    [] OTHER -> {0, 1, 3, Other}

\* Once a relay has the REQ it may answer, as often and as late as it likes.
Sent(s) ==
  /\ ask[s] # Empty
  /\ \E i \in 1..step[s] : Program(ask[s].kind)[i] = "send"

Answer(s) ==
  /\ Sent(s)
  /\ arrived < MaxEvents
  /\ arrived' = arrived + 1
  /\ \E kind \in AnswerKinds(ask[s].kind) :
       readChan' = [readChan EXCEPT ![ask[s].relay] =
                      Append(@, [id |-> arrived + 1, sub |-> s, kind |-> kind])]
  /\ UNCHANGED <<ask, step, trackers, todo, published>>

-----------------------------------------------------------------------------
(* HandleEvent *)

InSearchEvent(s) == search[s] # Empty
InSubscriptionMapping(s) == owner[s] # Empty
AnyIdentifier(s) ==                                    \* mutant
  follows[s] # Empty /\ follows[s].user # Empty
InFollowsMetadataMapping(s) ==
  /\ follows[s] # Empty
  /\ follows[s].user # Empty
  /\ follows[s].identifier # "none"

Job(queue, e, to) == [queue |-> queue, id |-> e.id, sub |-> e.sub, to |-> to]

\* The note of a followed user goes out with the follower.
PackageEvent(e) == Job("user_notes", e, owner[e.sub])

\* Where delegateKindOne publishes a note, and to whom.
NoteJob(e) ==
  IF InSearchEvent(e.sub) THEN Job("search_results", e, search[e.sub])
  ELSE IF InSubscriptionMapping(e.sub) THEN PackageEvent(e)
  ELSE Job("user_notes", e, Empty)

\* The last part of delegateKindZero.
ProfileJob(e) ==
  IF InSearchEvent(e.sub) THEN Job("author_metadata", e, search[e.sub])
  ELSE IF InFollowsMetadataMapping(e.sub) THEN Job("follows_metadata", e, Empty)
  ELSE Job("user_metadata", e, Empty)

\* The parts of HandleEvent for event e that each end in a publication; there
\* is none for a kind without a case.
Jobs(e) ==
  CASE e.kind = 0 -> << Job("nostr_entities", e, Empty), Job("npub_result", e, Empty),
                        Job("profile", e, Empty) >>
    [] e.kind = 1 -> << NoteJob(e) >>
    [] e.kind = 3 -> << Job("follow_list", e, Empty) >>
    [] OTHER -> << >>

\* A note found by a search starts a goroutine per callback relay that asks
\* for its author, before it is itself published.
AskForAuthor(e) ==
  LET key == SplitKey(search[e.sub]) IN
  [s \in Subs |->
     IF s \in {e.id} \X Callbacks
     THEN Request("author", key[1], key[2], s[2], ask[e.sub].origin)
     ELSE ask[s]]

\* processReadChannel takes the next event of relay r.
HandleEvent(r) ==
  /\ todo[r] = << >>
  /\ readChan[r] # << >>
  /\ LET e == Head(readChan[r]) IN
       /\ todo' = [todo EXCEPT ![r] = Jobs(e)]
       /\ ask' = IF e.kind = 1 /\ InSearchEvent(e.sub) THEN AskForAuthor(e) ELSE ask
  /\ readChan' = [readChan EXCEPT ![r] = Tail(@)]
  /\ UNCHANGED <<step, trackers, published, arrived>>

\* What a publication looks up at its own turn: the lookups of
\* delegateKindZero come one after the other, each before its publication.
EntityLookup(j) == [j EXCEPT !.to = context[j.sub]]
NPubLookup(j) == [j EXCEPT !.to = npub[j.sub]]

LookedUp(j) ==
  CASE j.queue = "nostr_entities" -> EntityLookup(j)
    [] j.queue = "npub_result" -> NPubLookup(j)
    [] j.queue = "profile" -> ProfileJob(j)
    [] OTHER -> j

Publish(r) ==
  /\ todo[r] # << >>
  /\ published' = Append(published, LookedUp(Head(todo[r])))
  /\ todo' = [todo EXCEPT ![r] = Tail(@)]
  /\ UNCHANGED <<ask, step, trackers, readChan, arrived>>

\* The connection is closed: processReadChannel returns after the event it is
\* handling, and what is still in its channel is lost.
Lose(r) ==
  /\ readChan[r] # << >>
  /\ readChan' = [readChan EXCEPT ![r] = << >>]
  /\ UNCHANGED <<ask, step, trackers, todo, published, arrived>>

-----------------------------------------------------------------------------

Init ==
  /\ \E w \in Workloads :
       ask = [s \in Subs |-> IF s \in Requests THEN w[s] ELSE Empty]
  /\ step = [s \in Subs |-> 0]
  /\ search  = [s \in Subs |-> Empty]
  /\ owner   = [s \in Subs |-> Empty]
  /\ follows = [s \in Subs |-> Empty]
  /\ context = [s \in Subs |-> Empty]
  /\ npub    = [s \in Subs |-> Empty]
  /\ readChan = [r \in Relays |-> << >>]
  /\ todo = [r \in Relays |-> << >>]
  /\ published = << >>
  /\ arrived = 0

Next ==
  \/ \E s \in Subs : Track(s) \/ Send(s) \/ Close(s) \/ Answer(s)
  \/ \E r \in Relays : HandleEvent(r) \/ Publish(r) \/ Lose(r)

Spec == Init /\ [][Next]_vars

-----------------------------------------------------------------------------
(* Properties *)

Queues ==
  {"search_results", "author_metadata", "user_notes", "user_metadata",
   "follow_list", "nostr_entities", "npub_result"}

\* The published messages name their queue, and only queues of the server;
\* follows_metadata is not among them.
TypeOK ==
  /\ \A s \in Subs : step[s] <= 3
  /\ \A r \in Relays :
       \A i \in 1..Len(readChan[r]) : readChan[r][i].sub \in Subs
  /\ \A i \in 1..Len(published) :
       published[i].queue \in Queues /\ published[i].id \in 1..arrived

OriginOf(p) == ask[ask[p.sub].origin]
AskedBy(p) == KeyOf(OriginOf(p).pubkey, OriginOf(p).uuid)

(***************************************************************************)
(* The notes and profiles that a search finds, and the profiles of the     *)
(* authors it leads to, reach the user who searched; the notes of a        *)
(* followed user reach the follower; and no tag is ever somebody else's.   *)
(* What goes out without a key is the copy of a profile on the queues of   *)
(* entities and npubs, and a follow list, which only the search itself can *)
(* be answered with: its filter has no kinds (subscription.go:281), and    *)
(* HandleEvent asks no tracker about a follow list                         *)
(* (eventHandler.go:142-143).  However the sends, the five-second CLOSE,   *)
(* the author lookups on other relays and late answers interleave          *)
(* (subscription.go:183-330, eventHandler.go:77-123).                      *)
(***************************************************************************)
AnswersAreAttributed ==
  \A i \in 1..Len(published) :
    LET p == published[i] IN
    /\ OriginOf(p).kind = "search" /\ AskedBy(p) # Empty =>
         \/ p.queue \in {"search_results", "author_metadata"} /\ p.to = AskedBy(p)
         \/ p.queue \in {"nostr_entities", "npub_result"} /\ p.to = Empty
         \/ p.queue = "follow_list" /\ p.to = Empty /\ ask[p.sub].kind = "search"
    /\ OriginOf(p).kind = "followsNotes" => p.queue = "user_notes" /\ p.to = AskedBy(p)
    /\ p.to \in {Empty, AskedBy(p), OriginOf(p).uuid}

(***************************************************************************)
(* The author lookups that a search result started ask for the same user   *)
(* as the result, which is published or about to be, however the search    *)
(* key was taken apart and put together again (subscription.go:297-330).   *)
(***************************************************************************)
LookupsFollowResults ==
  \A n \in 1..MaxEvents, c \in Callbacks :
    ask[<<n, c>>] # Empty =>
      \E p \in Range(published) \cup UNION {Range(todo[r]) : r \in Relays} :
        /\ p.id = n
        /\ p.queue = "search_results"
        /\ p.to = KeyOf(ask[<<n, c>>].pubkey, ask[<<n, c>>].uuid)

(***************************************************************************)
(* An embedded entity or npub is tracked only after its REQ was sent       *)
(* (subscription.go:71-83, 259-268), so its first answers may go out       *)
(* untagged; but once one went out with its tag, none goes out without,    *)
(* not even an answer that comes after the CLOSE.                          *)
(***************************************************************************)
TagsArePermanent ==
  \A i, j \in 1..Len(published) :
    /\ i < j
    /\ published[i].sub = published[j].sub
    /\ published[i].queue = published[j].queue
    /\ published[i].to # Empty
    => published[j].to = published[i].to
==============================================================================

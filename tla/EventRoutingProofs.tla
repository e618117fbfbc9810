--------------------------- MODULE EventRoutingProofs ---------------------------
(***************************************************************************)
(* Machine-checked proofs about EventRouting, for any workload, any number *)
(* of relays and any number of events.                                     *)
(***************************************************************************)
EXTENDS EventRouting, SequenceTheorems, TLAPS

-----------------------------------------------------------------------------
(* Types *)

\* Who may ask: the public keys and sessions of the requests.
Keys == {Empty} \cup UNION {{w[q].pubkey, w[q].uuid} : w \in Workloads, q \in Requests}

AllKinds == RequestKinds \cup {"author"}
Events == [id : 1..MaxEvents, sub : Subs, kind : {0, 1, 3, Other}]

\* The publications that HandleEvent still has to do, and those that are done.
Lookup == {"nostr_entities", "npub_result", "profile"}
Pending == [queue : Lookup \cup {"search_results", "user_notes", "follow_list"},
            id : 1..MaxEvents, sub : Subs, to : Keys]
Done == [queue : Queues, id : 1..MaxEvents, sub : Subs, to : Keys]

Types ==
  /\ step \in [Subs -> 0..3]
  /\ search \in [Subs -> Keys]
  /\ owner \in [Subs -> Keys]
  /\ follows \in [Subs -> {Empty} \cup {FollowsInfo(k) : k \in Keys}]
  /\ context \in [Subs -> Keys]
  /\ npub \in [Subs -> Keys]
  /\ readChan \in [Relays -> Seq(Events)]
  /\ todo \in [Relays -> Seq(Pending)]
  /\ published \in Seq(Done)
  /\ arrived \in 0..MaxEvents

-----------------------------------------------------------------------------
(* The invariant, part by part *)

\* Who is behind goroutine s.
Key(s) == KeyOf(ask[s].pubkey, ask[s].uuid)

\* A goroutine that was started is a request of its own, or looks up the
\* author of what a search of the same user found.
AskInv ==
  \A s \in Subs :
    ask[s] # Empty =>
      /\ ask[s].kind \in AllKinds
      /\ ask[s].pubkey \in Keys /\ ask[s].uuid \in Keys /\ ask[s].relay \in Relays
      /\ s \in Requests => ask[s].origin = s /\ ask[s].kind # "author"
      /\ s \notin Requests =>
           /\ ask[s].kind = "author"
           /\ ask[s].origin \in Requests
           /\ ask[ask[s].origin] # Empty
           /\ ask[ask[s].origin].kind = "search"
           /\ Key(s) = Key(ask[s].origin)

\* A tracker entry is the goroutine's own, and those of searches and of
\* followed users' notes are there after the first step.
Tracked(s) ==
  /\ ask[s] = Empty => step[s] = 0
  /\ search[s] # Empty =>
       ask[s] # Empty /\ ask[s].kind \in {"search", "author"} /\ search[s] = Key(s)
  /\ owner[s] # Empty =>
       ask[s] # Empty /\ ask[s].kind = "followsNotes" /\ owner[s] = Key(s)
  /\ context[s] # Empty =>
       ask[s] # Empty /\ ask[s].kind = "entity" /\ context[s] = ask[s].uuid
  /\ npub[s] # Empty =>
       ask[s] # Empty /\ ask[s].kind = "npub" /\ npub[s] = ask[s].uuid
  /\ ask[s] # Empty /\ step[s] >= 1 =>
       /\ ask[s].kind \in {"search", "author"} => search[s] = Key(s)
       /\ ask[s].kind = "followsNotes" => owner[s] = Key(s)

TrackerInv == \A s \in Subs : Tracked(s)

\* An event answers a goroutine that sent its REQ, its number is its own, and
\* the lookups with that number are not started before it is handled.
EventInv ==
  /\ \A r \in Relays : \A i \in 1..Len(readChan[r]) :
       LET e == readChan[r][i] IN
       /\ Sent(e.sub)
       /\ e.kind \in AnswerKinds(ask[e.sub].kind)
       /\ e.id <= arrived
       /\ \A c \in Callbacks : ask[<<e.id, c>>] = Empty
  /\ \A q, r \in Relays : \A i \in 1..Len(readChan[q]), j \in 1..Len(readChan[r]) :
       readChan[q][i].id = readChan[r][j].id => q = r /\ i = j
  /\ \A n \in 1..MaxEvents, c \in Callbacks : n > arrived => ask[<<n, c>>] = Empty

\* What the trackers say now about a publication on a queue.
Tag(queue, s) ==
  IF queue \in {"search_results", "author_metadata"} THEN search[s]
  ELSE IF queue = "user_notes" THEN owner[s]
  ELSE IF queue = "nostr_entities" THEN context[s]
  ELSE IF queue = "npub_result" THEN npub[s]
  ELSE Empty

\* A publication that is tagged as AnswersAreAttributed says.
Attributed(p) ==
  /\ OriginOf(p).kind = "search" /\ AskedBy(p) # Empty =>
       \/ p.queue \in {"search_results", "author_metadata"} /\ p.to = AskedBy(p)
       \/ p.queue \in {"nostr_entities", "npub_result"} /\ p.to = Empty
       \/ p.queue = "follow_list" /\ p.to = Empty /\ ask[p.sub].kind = "search"
  /\ OriginOf(p).kind = "followsNotes" => p.queue = "user_notes" /\ p.to = AskedBy(p)
  /\ p.to \in {Empty, AskedBy(p), OriginOf(p).uuid}

\* What is still to do was tagged when the event was handled, or answers a
\* request for metadata and will be tagged when it is published.
PendingInv(j) ==
  /\ Sent(j.sub)
  /\ j.id <= arrived
  /\ IF j.queue \in Lookup THEN 0 \in AnswerKinds(ask[j.sub].kind)
     ELSE j.to = Tag(j.queue, j.sub) /\ Attributed(j)

\* What is done was tagged as the trackers still say, or before they did.
DoneInv(p) ==
  /\ Sent(p.sub)
  /\ p.id <= arrived
  /\ p.to \in {Empty, Tag(p.queue, p.sub)}
  /\ Attributed(p)

PublicationInv ==
  /\ \A r \in Relays : \A i \in 1..Len(todo[r]) : PendingInv(todo[r][i])
  /\ \A i \in 1..Len(published) : DoneInv(published[i])

\* The result that started a lookup, on its way or published.
ResultOf(n, c) ==
  \/ \E i \in 1..Len(published) :
       /\ published[i].id = n
       /\ published[i].queue = "search_results"
       /\ published[i].to = Key(<<n, c>>)
  \/ \E r \in Relays : \E i \in 1..Len(todo[r]) :
       /\ todo[r][i].id = n
       /\ todo[r][i].queue = "search_results"
       /\ todo[r][i].to = Key(<<n, c>>)

ResultInv ==
  \A n \in 1..MaxEvents, c \in Callbacks : ask[<<n, c>>] # Empty => ResultOf(n, c)

RoutingInv ==
  /\ Types /\ AskInv /\ TrackerInv /\ EventInv /\ PublicationInv /\ ResultInv
  /\ TagsArePermanent

-----------------------------------------------------------------------------
(* What the operators of the model do *)

\* A program has two or three steps; the trackers that decide where a note
\* goes are written in the first one.
LEMMA Programs ==
  ASSUME NEW k \in AllKinds
  PROVE  /\ Len(Program(k)) \in {2, 3}
         /\ k \in {"search", "author", "followsNotes"} => Program(k)[1] = "track"
  BY DEF AllKinds, RequestKinds, Program, Untracked, TrackedFirst, TrackedLate

\* What may be answered with what.
LEMMA Answers ==
  ASSUME NEW k \in AllKinds
  PROVE  /\ AnswerKinds(k) \subseteq {0, 1, 3, Other}
         /\ 0 \in AnswerKinds(k) => k \notin {"userNotes", "followsNotes", "followList"}
         /\ 1 \in AnswerKinds(k) => k # "author"
         /\ 3 \in AnswerKinds(k) => k \in {"followList", "search"}
  BY DEF AllKinds, RequestKinds, AnswerKinds, Other

\* A search key that is taken apart and put together again is the same.
LEMMA SplitAndBack ==
  ASSUME NEW key \in Keys
  PROVE  /\ SplitKey(key)[1] \in Keys /\ SplitKey(key)[2] \in Keys
         /\ KeyOf(SplitKey(key)[1], SplitKey(key)[2]) = key
  BY DEF SplitKey, KeyOf, Keys

\* Who is unknown has the empty key.
LEMMA EmptyIsAKey == Empty \in Keys
  BY DEF Keys

\* Every goroutine that an event may start has its place.
LEMMA LookupsAreSubs ==
  /\ \A n \in 1..MaxEvents, c \in Callbacks :
       <<n, c>> \in Subs /\ <<n, c>> \notin Requests
  /\ Requests \subseteq Subs
  BY RoutingAssumption DEF RoutingAssumption, Subs, Lookups

\* A goroutine knows who it works for, and has written its tracker entry.
LEMMA WhoAsked ==
  ASSUME Types, AskInv, TrackerInv, NEW s \in Subs, Sent(s)
  PROVE  /\ ask[s] # Empty /\ ask[s].kind \in AllKinds
         /\ search[s] = IF ask[s].kind \in {"search", "author"} THEN Key(s) ELSE Empty
         /\ owner[s] = IF ask[s].kind = "followsNotes" THEN Key(s) ELSE Empty
         /\ context[s] \in {Empty, ask[s].uuid}
         /\ npub[s] \in {Empty, ask[s].uuid}
         /\ ask[s].kind # "entity" => context[s] = Empty
         /\ ask[s].kind # "npub" => npub[s] = Empty
         /\ Key(s) = Key(ask[s].origin)
         /\ ask[s].origin \in Requests /\ ask[ask[s].origin] # Empty
         /\ ask[s].kind = "author" => ask[ask[s].origin].kind = "search"
         /\ ask[s].kind # "author" => ask[s].origin = s
  <1>1. ask[s] # Empty /\ \E i \in 1..step[s] : TRUE
    BY DEF Sent
  <1>2. step[s] \in Int /\ step[s] >= 1
    <2>1. step[s] \in 0..3
      BY DEF Types
    <2> QED
      BY <1>1, <2>1
  <1> QED
    BY <1>1, <1>2 DEF AskInv, TrackerInv, Tracked

-----------------------------------------------------------------------------
(* What is still true later *)

\* Goroutines keep what they were started for, what they have sent and the
\* tracker entries that were written.
Onward ==
  /\ \A s \in Subs : ask[s] # Empty => ask'[s] = ask[s]
  /\ \A s \in Subs :
       Sent(s) => Sent(s)' /\ search'[s] = search[s] /\ owner'[s] = owner[s]
  /\ \A s \in Subs : context[s] # Empty => context'[s] = context[s]
  /\ \A s \in Subs : npub[s] # Empty => npub'[s] = npub[s]
  /\ arrived' \in Nat /\ arrived' >= arrived

\* Whose the answer is does not change.
LEMMA AttributedLater ==
  ASSUME Types, AskInv, TrackerInv, Onward, NEW p, p.sub \in Subs, Sent(p.sub), Attributed(p)
  PROVE  Attributed(p)'
  <1>1. ask'[p.sub] = ask[p.sub] /\ ask'[ask[p.sub].origin] = ask[ask[p.sub].origin]
    BY WhoAsked, LookupsAreSubs DEF Onward
  <1> QED
    BY <1>1 DEF Attributed, OriginOf, AskedBy

\* What was tagged for a publication to come still is what the trackers say.
LEMMA PendingLater ==
  ASSUME Types, AskInv, TrackerInv, Onward, NEW j \in Pending, PendingInv(j)
  PROVE  PendingInv(j)'
  <1>1. j.sub \in Subs /\ j.id \in Nat /\ arrived \in Nat
        /\ j.queue \in Lookup \cup {"search_results", "user_notes", "follow_list"}
    BY RoutingAssumption DEF Pending, Types, RoutingAssumption
  <1>2. Sent(j.sub) /\ j.id <= arrived
    BY DEF PendingInv
  <1>3. Sent(j.sub)' /\ j.id <= arrived' /\ ask'[j.sub] = ask[j.sub]
        /\ search'[j.sub] = search[j.sub] /\ owner'[j.sub] = owner[j.sub]
    BY <1>1, <1>2, WhoAsked DEF Onward
  <1>4. CASE j.queue \in Lookup
    BY <1>3, <1>4 DEF PendingInv
  <1>5. CASE j.queue \notin Lookup
    <2>1. j.to = Tag(j.queue, j.sub) /\ Attributed(j)
      BY <1>5 DEF PendingInv
    <2>2. Attributed(j)'
      BY <1>1, <1>2, <2>1, AttributedLater
    <2>3. j.to = Tag(j.queue, j.sub)'
      BY <1>1, <1>3, <1>5, <2>1 DEF Tag
    <2> QED
      BY <1>3, <1>5, <2>2, <2>3 DEF PendingInv
  <1> QED
    BY <1>4, <1>5

\* What was published stays attributed to the same user.
LEMMA DoneLater ==
  ASSUME Types, AskInv, TrackerInv, Onward, NEW p \in Done, DoneInv(p)
  PROVE  DoneInv(p)'
  <1>1. p.sub \in Subs /\ p.id \in Nat /\ arrived \in Nat
    BY RoutingAssumption DEF Done, Types, RoutingAssumption
  <1>2. Sent(p.sub) /\ p.id <= arrived /\ p.to \in {Empty, Tag(p.queue, p.sub)} /\ Attributed(p)
    BY DEF DoneInv
  <1>3. Sent(p.sub)' /\ p.id <= arrived'
        /\ search'[p.sub] = search[p.sub] /\ owner'[p.sub] = owner[p.sub]
    BY <1>1, <1>2 DEF Onward
  <1>4. Attributed(p)'
    BY <1>1, <1>2, AttributedLater
  <1>5. p.to \in {Empty, Tag(p.queue, p.sub)'}
    BY <1>1, <1>2, <1>3 DEF Tag, Onward
  <1> QED
    BY <1>3, <1>4, <1>5 DEF DoneInv

-----------------------------------------------------------------------------
(* HandleEvent's publications *)

\* An event that may be handled: an answer to a REQ that was sent.
Expected(e) ==
  e \in Events /\ Sent(e.sub) /\ e.kind \in AnswerKinds(ask[e.sub].kind) /\ e.id <= arrived

\* A note that a search found goes to who searched, one of a followed user to
\* the follower, and any other goes out untagged.
LEMMA NoteIsAttributed ==
  ASSUME Types, AskInv, TrackerInv, NEW e, Expected(e), e.kind = 1
  PROVE  /\ NoteJob(e) \in Pending /\ PendingInv(NoteJob(e))
         /\ InSearchEvent(e.sub) =>
              /\ NoteJob(e) = Job("search_results", e, search[e.sub])
              /\ ask[e.sub].kind = "search" /\ search[e.sub] = Key(e.sub)
  <1>1. e.sub \in Subs /\ e.id \in 1..MaxEvents /\ Sent(e.sub) /\ e.id <= arrived
    BY DEF Expected, Events
  <1>2. ask[e.sub].kind \in AllKinds
    BY <1>1, WhoAsked
  <1>3. ask[e.sub].kind # "author"
    BY <1>2, Answers DEF Expected
  <1>4. /\ ask[e.sub].origin = e.sub
        /\ search[e.sub] = IF ask[e.sub].kind = "search" THEN Key(e.sub) ELSE Empty
        /\ owner[e.sub] = IF ask[e.sub].kind = "followsNotes" THEN Key(e.sub) ELSE Empty
    BY <1>1, <1>3, WhoAsked
  <1>5. search[e.sub] \in Keys /\ owner[e.sub] \in Keys /\ Empty \in Keys
    BY <1>1, EmptyIsAKey DEF Types
  <1>6. CASE InSearchEvent(e.sub)
    <2>1. /\ NoteJob(e) = Job("search_results", e, search[e.sub])
          /\ ask[e.sub].kind = "search" /\ search[e.sub] = Key(e.sub)
      BY <1>4, <1>6 DEF NoteJob, InSearchEvent
    <2>2. NoteJob(e) \in Pending
      BY <1>1, <1>5, <2>1 DEF Pending, Job
    <2>3. PendingInv(NoteJob(e))
      BY <1>1, <1>4, <2>1
      DEF PendingInv, Job, Lookup, Tag, Attributed, OriginOf, AskedBy, Key
    <2> QED
      BY <2>1, <2>2, <2>3
  <1>7. CASE ~InSearchEvent(e.sub)
    <2>1. NoteJob(e) = Job("user_notes", e, owner[e.sub])
      BY <1>7 DEF NoteJob, PackageEvent, InSubscriptionMapping
    <2>2. NoteJob(e) \in Pending
      BY <1>1, <1>5, <2>1 DEF Pending, Job
    <2>3. PendingInv(NoteJob(e))
      BY <1>1, <1>4, <1>7, <2>1
      DEF PendingInv, Job, Lookup, Tag, Attributed, OriginOf, AskedBy, Key, InSearchEvent
    <2> QED
      BY <1>7, <2>2, <2>3
  <1> QED
    BY <1>6, <1>7

\* What HandleEvent has to do for an event.
LEMMA JobsArePending ==
  ASSUME Types, AskInv, TrackerInv, NEW e, Expected(e)
  PROVE  /\ Jobs(e) \in Seq(Pending)
         /\ \A i \in 1..Len(Jobs(e)) : PendingInv(Jobs(e)[i])
         /\ e.kind = 1 => Jobs(e) = <<NoteJob(e)>>
  <1>1. /\ e.sub \in Subs /\ e.id \in 1..MaxEvents /\ Sent(e.sub) /\ e.id <= arrived
        /\ e.kind \in {0, 1, 3, Other} /\ Empty \in Keys
    BY EmptyIsAKey DEF Expected, Events
  <1>2. ask[e.sub].kind \in AllKinds /\ e.kind \in AnswerKinds(ask[e.sub].kind)
    BY <1>1, WhoAsked DEF Expected
  <1>3. CASE e.kind = 0
    <2> DEFINE a == Job("nostr_entities", e, Empty)
    <2> DEFINE b == Job("npub_result", e, Empty)
    <2> DEFINE c == Job("profile", e, Empty)
    <2>1. a \in Pending /\ b \in Pending /\ c \in Pending
      BY <1>1 DEF Pending, Job, Lookup
    <2>2. PendingInv(a) /\ PendingInv(b) /\ PendingInv(c)
      BY <1>1, <1>2, <1>3 DEF PendingInv, Job, Lookup
    <2>3. Jobs(e) = <<a, b, c>>
      BY <1>3 DEF Jobs
    <2> HIDE DEF a, b, c
    <2>4. Jobs(e) \in Seq(Pending) /\ Len(Jobs(e)) = 3
          /\ Jobs(e)[1] = a /\ Jobs(e)[2] = b /\ Jobs(e)[3] = c
      BY <2>1, <2>3
    <2> QED
      BY <1>3, <2>2, <2>4
  <1>4. CASE e.kind = 1
    <2>1. Jobs(e) = <<NoteJob(e)>>
      BY <1>4 DEF Jobs
    <2>2. Jobs(e) \in Seq(Pending) /\ Len(Jobs(e)) = 1 /\ Jobs(e)[1] = NoteJob(e)
      BY <1>4, <2>1, NoteIsAttributed
    <2> QED
      BY <1>4, <2>1, <2>2, NoteIsAttributed
  <1>5. CASE e.kind = 3
    <2> DEFINE f == Job("follow_list", e, Empty)
    <2>1. ask[e.sub].kind \in {"followList", "search"} /\ ask[e.sub].origin = e.sub
      BY <1>1, <1>2, <1>5, Answers, WhoAsked
    <2>2. f \in Pending /\ PendingInv(f)
      BY <1>1, <2>1
      DEF Pending, PendingInv, Job, Lookup, Tag, Attributed, OriginOf
    <2>3. Jobs(e) = <<f>>
      BY <1>5 DEF Jobs
    <2> HIDE DEF f
    <2>4. Jobs(e) \in Seq(Pending) /\ Len(Jobs(e)) = 1 /\ Jobs(e)[1] = f
      BY <2>2, <2>3
    <2> QED
      BY <1>5, <2>2, <2>4
  <1>6. CASE e.kind = Other
    <2>1. Jobs(e) = << >>
      BY <1>6 DEF Jobs, Other
    <2>2. Jobs(e) \in Seq(Pending) /\ Len(Jobs(e)) = 0 /\ e.kind # 1
      BY <1>6, <2>1 DEF Other
    <2> QED
      BY <2>2
  <1> QED
    BY <1>1, <1>3, <1>4, <1>5, <1>6

\* What a publication looks up at its turn is what the trackers say then.
LEMMA LookedUpIsDone ==
  ASSUME Types, AskInv, TrackerInv, NEW j \in Pending, PendingInv(j)
  PROVE  LET p == LookedUp(j) IN
         /\ p \in Done /\ DoneInv(p)
         /\ p.to = Tag(p.queue, p.sub)
         /\ p.id = j.id
         /\ j.queue = "search_results" => p = j
  <1>1. /\ j.sub \in Subs /\ j.id \in 1..MaxEvents /\ Sent(j.sub) /\ j.id <= arrived
        /\ j.queue \in Lookup \cup {"search_results", "user_notes", "follow_list"}
        /\ j.to \in Keys
    BY DEF Pending, PendingInv
  <1>2. /\ search[j.sub] \in Keys /\ context[j.sub] \in Keys /\ npub[j.sub] \in Keys
        /\ Empty \in Keys
    BY <1>1, EmptyIsAKey DEF Types
  <1> DEFINE k == ask[j.sub].kind
  <1> DEFINE o == ask[ask[j.sub].origin]
  <1>3. CASE j.queue \in Lookup
    <2>1. k \in AllKinds /\ k \notin {"userNotes", "followsNotes", "followList"}
      BY <1>1, <1>3, WhoAsked, Answers DEF PendingInv
    <2>2. /\ o.kind # "followsNotes"
          /\ o.kind = "search" =>
               context[j.sub] = Empty /\ npub[j.sub] = Empty /\ search[j.sub] = Key(j.sub)
          /\ Key(j.sub) = KeyOf(o.pubkey, o.uuid)
          /\ context[j.sub] \in {Empty, o.uuid}
          /\ npub[j.sub] \in {Empty, o.uuid}
          /\ search[j.sub] \in {Empty, Key(j.sub)}
      <3>1. CASE k = "author"
        BY <1>1, <3>1, WhoAsked DEF Key
      <3>2. CASE k # "author"
        BY <1>1, <2>1, <3>2, WhoAsked DEF Key
      <3> QED
        BY <3>1, <3>2
    <2>3. ASSUME NEW p, p.id = j.id, p.sub = j.sub,
                 p.queue = "author_metadata" => p.to = search[p.sub] /\ p.to # Empty,
                 p.queue = "nostr_entities" => p.to = context[p.sub],
                 p.queue = "npub_result" => p.to = npub[p.sub],
                 p.queue = "user_metadata" => p.to = Empty /\ search[p.sub] = Empty,
                 p.queue \in {"author_metadata", "nostr_entities", "npub_result",
                              "user_metadata"}
          PROVE  p.to = Tag(p.queue, p.sub) /\ DoneInv(p)
      <3>1. p.to = Tag(p.queue, p.sub)
        BY <2>3 DEF Tag
      <3>2. Attributed(p)
        BY <2>2, <2>3 DEF Attributed, OriginOf, AskedBy
      <3> QED
        BY <1>1, <2>3, <3>1, <3>2 DEF DoneInv
    <2>4. CASE j.queue = "nostr_entities"
      <3>1. LookedUp(j) = [j EXCEPT !.to = context[j.sub]]
        BY <2>4 DEF LookedUp, EntityLookup
      <3>2. LookedUp(j) \in Done
        BY <1>1, <1>2, <2>4, <3>1 DEF Pending, Done, Queues
      <3>3. LookedUp(j).id = j.id /\ LookedUp(j).sub = j.sub
            /\ LookedUp(j).queue = "nostr_entities" /\ LookedUp(j).to = context[j.sub]
        BY <2>4, <3>1 DEF Pending
      <3> QED
        BY <2>3, <2>4, <3>2, <3>3
    <2>5. CASE j.queue = "npub_result"
      <3>1. LookedUp(j) = [j EXCEPT !.to = npub[j.sub]]
        BY <2>5 DEF LookedUp, NPubLookup
      <3>2. LookedUp(j) \in Done
        BY <1>1, <1>2, <2>5, <3>1 DEF Pending, Done, Queues
      <3>3. LookedUp(j).id = j.id /\ LookedUp(j).sub = j.sub
            /\ LookedUp(j).queue = "npub_result" /\ LookedUp(j).to = npub[j.sub]
        BY <2>5, <3>1 DEF Pending
      <3> QED
        BY <2>3, <2>5, <3>2, <3>3
    <2>6. CASE j.queue = "profile"
      <3>1. ~InFollowsMetadataMapping(j.sub)
        BY <1>1 DEF InFollowsMetadataMapping, FollowsInfo, OrNone, Types
      <3>2. LookedUp(j) = IF search[j.sub] # Empty
                          THEN Job("author_metadata", j, search[j.sub])
                          ELSE Job("user_metadata", j, Empty)
        BY <2>6, <3>1 DEF LookedUp, ProfileJob, InSearchEvent
      <3>3. LookedUp(j) \in Done
        BY <1>1, <1>2, <3>2 DEF Job, Done, Queues
      <3>4. /\ LookedUp(j).id = j.id /\ LookedUp(j).sub = j.sub
            /\ \/ /\ LookedUp(j).queue = "author_metadata" /\ LookedUp(j).to = search[j.sub]
                  /\ search[j.sub] # Empty
               \/ /\ LookedUp(j).queue = "user_metadata" /\ LookedUp(j).to = Empty
                  /\ search[j.sub] = Empty
        BY <3>2 DEF Job
      <3> QED
        BY <2>3, <2>6, <3>3, <3>4
    <2> QED
      BY <1>3, <2>4, <2>5, <2>6 DEF Lookup
  <1>4. CASE j.queue \notin Lookup
    <2>1. LookedUp(j) = j
      BY <1>4 DEF LookedUp, Lookup
    <2>2. j.to = Tag(j.queue, j.sub) /\ Attributed(j)
      BY <1>4 DEF PendingInv
    <2>3. j \in Done
      BY <1>1, <1>4 DEF Pending, Done, Queues
    <2> QED
      BY <1>1, <2>1, <2>2, <2>3 DEF DoneInv
  <1> QED
    BY <1>3, <1>4

-----------------------------------------------------------------------------
(* What the steps do to the goroutines *)

\* The event that is handled is one that may be, and the lookups with its
\* number are not started.
LEMMA HeadIsExpected ==
  ASSUME Types, EventInv, NEW r \in Relays, readChan[r] # << >>
  PROVE  /\ Expected(Head(readChan[r]))
         /\ \A c \in Callbacks : ask[<<Head(readChan[r]).id, c>>] = Empty
  <1>1. Head(readChan[r]) = readChan[r][1] /\ readChan[r][1] \in Events /\ 1 \in 1..Len(readChan[r])
    BY EmptySeq, LenProperties, ElementOfSeq DEF Types
  <1> QED
    BY <1>1 DEF EventInv, Expected

\* The lookups that a note starts, if any.
LEMMA Starting ==
  ASSUME RoutingInv, NEW r \in Relays, HandleEvent(r), NEW e, e = Head(readChan[r])
  PROVE  \/ /\ ask' = ask /\ ~(e.kind = 1 /\ InSearchEvent(e.sub))
         \/ /\ e.kind = 1 /\ InSearchEvent(e.sub) /\ e.sub \in Requests
            /\ ask[e.sub] # Empty /\ ask[e.sub].kind = "search"
            /\ search[e.sub] = Key(e.sub)
            /\ \A c \in Callbacks :
                 /\ ask[<<e.id, c>>] = Empty
                 /\ ask'[<<e.id, c>>] = Request("author", SplitKey(search[e.sub])[1],
                                           SplitKey(search[e.sub])[2], c, e.sub)
            /\ \A s \in Subs : s \notin {e.id} \X Callbacks => ask'[s] = ask[s]
  <1>1. Expected(e) /\ readChan[r] # << >> /\ \A c \in Callbacks : ask[<<e.id, c>>] = Empty
    BY HeadIsExpected DEF RoutingInv, HandleEvent
  <1>2. CASE e.kind = 1 /\ InSearchEvent(e.sub)
    <2>1. ask' = AskForAuthor(e)
      BY <1>2 DEF HandleEvent
    <2>2. /\ e.sub \in Subs /\ e.id \in 1..MaxEvents
          /\ ask[e.sub].kind = "search" /\ search[e.sub] = Key(e.sub)
      BY <1>1, <1>2, NoteIsAttributed DEF RoutingInv, Expected, Events
    <2>3. ask[e.sub].origin = e.sub /\ e.sub \in Requests /\ ask[e.sub] # Empty
      BY <1>1, <2>2, WhoAsked DEF RoutingInv, Expected
    <2>4. ASSUME NEW c \in Callbacks
          PROVE  ask'[<<e.id, c>>] = Request("author", SplitKey(search[e.sub])[1],
                                       SplitKey(search[e.sub])[2], c, e.sub)
      BY <2>1, <2>2, <2>3, LookupsAreSubs DEF AskForAuthor
    <2>5. ASSUME NEW s \in Subs, s \notin {e.id} \X Callbacks PROVE ask'[s] = ask[s]
      BY <2>1, <2>5 DEF AskForAuthor
    <2> QED
      BY <1>1, <1>2, <2>2, <2>3, <2>4, <2>5
  <1>3. CASE ~(e.kind = 1 /\ InSearchEvent(e.sub))
    BY <1>3 DEF HandleEvent
  <1> QED
    BY <1>2, <1>3

\* Every step leaves what was started, sent and tracked.
LEMMA StepsGoOnward == RoutingInv /\ [Next]_vars => Onward
  <1> SUFFICES ASSUME RoutingInv, [Next]_vars PROVE Onward
    OBVIOUS
  <1>0. /\ step \in [Subs -> 0..3] /\ arrived \in Nat
        /\ DOMAIN search = Subs /\ DOMAIN owner = Subs
        /\ DOMAIN context = Subs /\ DOMAIN npub = Subs
    BY RoutingAssumption DEF RoutingAssumption, RoutingInv, Types
  <1>1. ASSUME NEW t \in Subs, step' = [step EXCEPT ![t] = @ + 1], ask' = ask, arrived' = arrived,
               \A s \in Subs : Sent(s) => search'[s] = search[s] /\ owner'[s] = owner[s],
               \A s \in Subs : context[s] # Empty => context'[s] = context[s],
               \A s \in Subs : npub[s] # Empty => npub'[s] = npub[s]
        PROVE  Onward
    <2>1. ASSUME NEW s \in Subs, Sent(s) PROVE Sent(s)'
      <3>1. PICK i \in 1..step[s] : Program(ask[s].kind)[i] = "send"
        BY <2>1 DEF Sent
      <3>2. i \in 1..step'[s]
        BY <1>0, <1>1
      <3> QED
        BY <1>1, <2>1, <3>1, <3>2 DEF Sent
    <2> QED
      BY <1>0, <1>1, <2>1 DEF Onward
  <1>2. ASSUME NEW t \in Subs, Track(t) PROVE Onward
    <2>1. ask[t] # Empty /\ step' = [step EXCEPT ![t] = @ + 1] /\ ask' = ask /\ arrived' = arrived
      BY <1>2 DEF Track, AddSearch, AddSubscription, FollowsMetadataSubscription, TrackEntity,
        TrackNPub, Tracks, Does
    <2>2. CASE AddSearch(t)
      <3>1. Sent(t) => search[t] = Key(t)
        BY <2>2, WhoAsked DEF AddSearch, Tracks, RoutingInv
      <3> QED
        BY <1>0, <1>1, <2>1, <2>2, <3>1 DEF AddSearch, Key
    <2>3. CASE AddSubscription(t)
      <3>1. Sent(t) => owner[t] = Key(t)
        BY <2>3, WhoAsked DEF AddSubscription, Tracks, RoutingInv
      <3> QED
        BY <1>0, <1>1, <2>1, <2>3, <3>1 DEF AddSubscription, Key
    <2>4. CASE FollowsMetadataSubscription(t)
      BY <1>1, <2>1, <2>4 DEF FollowsMetadataSubscription
    <2>5. CASE TrackEntity(t)
      <3>1. context[t] # Empty => context[t] = ask[t].uuid
        BY DEF RoutingInv, TrackerInv, Tracked
      <3> QED
        BY <1>0, <1>1, <2>1, <2>5, <3>1 DEF TrackEntity
    <2>6. CASE TrackNPub(t)
      <3>1. npub[t] # Empty => npub[t] = ask[t].uuid
        BY DEF RoutingInv, TrackerInv, Tracked
      <3> QED
        BY <1>0, <1>1, <2>1, <2>6, <3>1 DEF TrackNPub
    <2> QED
      BY <1>2, <2>2, <2>3, <2>4, <2>5, <2>6 DEF Track
  <1>3. ASSUME NEW t \in Subs, Send(t) \/ Close(t) PROVE Onward
    BY <1>1, <1>3 DEF Send, Close, Does, trackers
  <1>4. ASSUME NEW t \in Subs, Answer(t) PROVE Onward
    BY <1>0, <1>4 DEF Answer, trackers, Onward, Sent
  <1>5. ASSUME NEW r \in Relays, HandleEvent(r) PROVE Onward
    <2>1. UNCHANGED <<step, trackers, arrived>>
      BY <1>5 DEF HandleEvent
    <2>2. PICK e : e = Head(readChan[r])
      OBVIOUS
    <2>3. \A s \in Subs : ask[s] # Empty => ask'[s] = ask[s]
      BY <1>5, <2>2, Starting
    <2>4. \A s \in Subs : Sent(s) => Sent(s)'
      BY <2>1, <2>3 DEF Sent
    <2> QED
      BY <1>0, <2>1, <2>3, <2>4 DEF Onward, trackers
  <1>6. ASSUME NEW r \in Relays, Publish(r) \/ Lose(r) PROVE Onward
    BY <1>0, <1>6 DEF Publish, Lose, trackers, Onward, Sent
  <1>7. CASE UNCHANGED vars
    BY <1>0, <1>7 DEF vars, trackers, Onward, Sent
  <1> QED
    BY <1>2, <1>3, <1>4, <1>5, <1>6, <1>7 DEF Next

\* Every step keeps who the goroutines work for.
LEMMA NextAsk == RoutingInv /\ [Next]_vars => AskInv'
  <1> SUFFICES ASSUME RoutingInv, [Next]_vars PROVE AskInv'
    OBVIOUS
  <1>1. CASE ask' = ask
    BY <1>1 DEF RoutingInv, AskInv, Key
  <1>2. ASSUME NEW r \in Relays, HandleEvent(r), ask' # ask PROVE AskInv'
    <2>1. PICK e : e = Head(readChan[r])
      OBVIOUS
    <2>2. /\ e.sub \in Requests /\ ask[e.sub] # Empty /\ ask[e.sub].kind = "search"
          /\ search[e.sub] = Key(e.sub)
          /\ \A c \in Callbacks :
               ask'[<<e.id, c>>] = Request("author", SplitKey(search[e.sub])[1],
                                     SplitKey(search[e.sub])[2], c, e.sub)
          /\ \A s \in Subs : s \notin {e.id} \X Callbacks => ask'[s] = ask[s]
      BY <1>2, <2>1, Starting
    <2>3. e.id \in 1..MaxEvents
      BY <1>2, <2>1, HeadIsExpected DEF HandleEvent, RoutingInv, Expected, Events
    <2>4. \A q \in Requests : q \in Subs /\ q \notin {e.id} \X Callbacks
      BY <2>3, LookupsAreSubs
    <2>5. \A q \in Requests : ask'[q] = ask[q]
      BY <2>2, <2>4
    <2> DEFINE key == SplitKey(search[e.sub])
    <2>6. /\ key[1] \in Keys /\ key[2] \in Keys
          /\ KeyOf(key[1], key[2]) = Key(e.sub)
      BY <2>2, <2>4, SplitAndBack DEF RoutingInv, Types
    <2>7. ASSUME NEW s \in Subs, ask'[s] # Empty
          PROVE  /\ ask'[s].kind \in AllKinds
                 /\ ask'[s].pubkey \in Keys /\ ask'[s].uuid \in Keys /\ ask'[s].relay \in Relays
                 /\ s \in Requests => ask'[s].origin = s /\ ask'[s].kind # "author"
                 /\ s \notin Requests =>
                      /\ ask'[s].kind = "author"
                      /\ ask'[s].origin \in Requests
                      /\ ask'[ask'[s].origin] # Empty
                      /\ ask'[ask'[s].origin].kind = "search"
                      /\ Key(s)' = Key(ask[s].origin)'
      <3>1. CASE s \notin {e.id} \X Callbacks
        <4>1. ask'[s] = ask[s]
          BY <2>2, <3>1
        <4> QED
          BY <2>5, <2>7, <4>1 DEF RoutingInv, AskInv, Key
      <3>2. CASE s \in {e.id} \X Callbacks
        <4>1. PICK c \in Callbacks : s = <<e.id, c>>
          BY <3>2
        <4>2. ask'[s] = Request("author", key[1], key[2], c, e.sub)
          BY <2>2, <4>1
        <4>3. s \notin Requests /\ c \in Relays
          BY <2>3, <4>1, LookupsAreSubs, RoutingAssumption DEF RoutingAssumption
        <4>4. ask'[e.sub] = ask[e.sub]
          BY <2>2, <2>5
        <4> HIDE DEF key
        <4>5. /\ ask'[s].kind = "author" /\ ask'[s].pubkey = key[1] /\ ask'[s].uuid = key[2]
              /\ ask'[s].relay = c /\ ask'[s].origin = e.sub
          BY <4>2 DEF Request
        <4>6. Key(s)' = Key(ask[s].origin)'
          BY <2>6, <4>4, <4>5 DEF Key
        <4> QED
          BY <2>2, <2>6, <4>3, <4>4, <4>5, <4>6 DEF AllKinds
      <3> QED
        BY <3>1, <3>2
    <2> QED
      BY <2>7 DEF AskInv
  <1>3. ask' = ask \/ \E r \in Relays : HandleEvent(r)
    BY DEF Next, Track, AddSearch, AddSubscription, FollowsMetadataSubscription, TrackEntity,
      TrackNPub, Tracks, Send, Close, Answer, Publish, Lose, vars
  <1> QED
    BY <1>1, <1>2, <1>3

-----------------------------------------------------------------------------
(* What the steps do to the trackers, the events and the publications *)

\* Every step keeps the types.
LEMMA NextTypes == RoutingInv /\ [Next]_vars => Types'
  <1> SUFFICES ASSUME RoutingInv, [Next]_vars PROVE Types'
    OBVIOUS
  <1>0. Types
    BY DEF RoutingInv
  <1>1. ASSUME NEW t \in Subs, Track(t) PROVE Types'
    <2>1. /\ ask[t] # Empty /\ step[t] < Len(Program(ask[t].kind))
          /\ step' = [step EXCEPT ![t] = @ + 1]
          /\ UNCHANGED <<readChan, todo, published, arrived>>
      BY <1>1 DEF Track, AddSearch, AddSubscription, FollowsMetadataSubscription, TrackEntity,
        TrackNPub, Tracks, Does
    <2>2. ask[t].pubkey \in Keys /\ ask[t].uuid \in Keys /\ Key(t) \in Keys
      BY <2>1 DEF RoutingInv, AskInv, Key, KeyOf
    <2>3. Len(Program(ask[t].kind)) \in {2, 3}
      BY <2>1, Programs DEF RoutingInv, AskInv
    <2>4. step' \in [Subs -> 0..3]
      <3>0. step[t] \in 0..3
        BY <1>0 DEF Types
      <3>1. PICK len \in {2, 3} : len = Len(Program(ask[t].kind))
        BY <2>3
      <3>2. step[t] < len
        BY <2>1, <3>0, <3>1
      <3>3. step[t] + 1 \in 0..3
        BY <3>0, <3>2
      <3> QED
        BY <1>0, <2>1, <3>3 DEF Types
    <2>5. /\ search' \in [Subs -> Keys] /\ owner' \in [Subs -> Keys]
          /\ context' \in [Subs -> Keys] /\ npub' \in [Subs -> Keys]
      BY <1>0, <1>1, <2>2
      DEF Types, Track, AddSearch, AddSubscription, FollowsMetadataSubscription, TrackEntity,
        TrackNPub, Key
    <2>6. follows' \in [Subs -> {Empty} \cup {FollowsInfo(k) : k \in Keys}]
      BY <1>0, <1>1, <2>2
      DEF Types, Track, AddSearch, AddSubscription, FollowsMetadataSubscription, TrackEntity,
        TrackNPub
    <2> QED
      BY <1>0, <2>1, <2>4, <2>5, <2>6 DEF Types
  <1>2. ASSUME NEW t \in Subs, Send(t) \/ Close(t) PROVE Types'
    <2>1. /\ ask[t] # Empty /\ step[t] < Len(Program(ask[t].kind))
          /\ step' = [step EXCEPT ![t] = @ + 1]
          /\ UNCHANGED <<trackers, readChan, todo, published, arrived>>
      BY <1>2 DEF Send, Close, Does
    <2>2. Len(Program(ask[t].kind)) \in {2, 3}
      BY <2>1, Programs DEF RoutingInv, AskInv
    <2>3. step' \in [Subs -> 0..3]
      <3>0. step[t] \in 0..3
        BY <1>0 DEF Types
      <3>1. PICK len \in {2, 3} : len = Len(Program(ask[t].kind))
        BY <2>2
      <3>2. step[t] < len
        BY <2>1, <3>0, <3>1
      <3>3. step[t] + 1 \in 0..3
        BY <3>0, <3>2
      <3> QED
        BY <1>0, <2>1, <3>3 DEF Types
    <2> QED
      BY <1>0, <2>1, <2>3 DEF Types, trackers
  <1>3. ASSUME NEW t \in Subs, Answer(t) PROVE Types'
    <2>1. /\ arrived' = arrived + 1 /\ arrived' \in 1..MaxEvents
          /\ UNCHANGED <<step, trackers, todo, published>>
      BY <1>0, <1>3, RoutingAssumption DEF Answer, Types, RoutingAssumption
    <2>2. PICK kind \in AnswerKinds(ask[t].kind) :
            readChan' = [readChan EXCEPT ![ask[t].relay] =
                           Append(@, [id |-> arrived + 1, sub |-> t, kind |-> kind])]
      BY <1>3 DEF Answer
    <2>3. kind \in {0, 1, 3, Other} /\ ask[t].relay \in Relays
      BY <1>3, Answers DEF Answer, Sent, RoutingInv, AskInv
    <2>4. [id |-> arrived + 1, sub |-> t, kind |-> kind] \in Events
      BY <2>1, <2>3 DEF Events
    <2>5. readChan' \in [Relays -> Seq(Events)]
      BY <1>0, <2>2, <2>3, <2>4, AppendProperties DEF Types
    <2> QED
      BY <1>0, <2>1, <2>5 DEF Types, trackers
  <1>4. ASSUME NEW r \in Relays, HandleEvent(r) PROVE Types'
    <2>1. PICK e : e = Head(readChan[r])
      OBVIOUS
    <2>2. Jobs(e) \in Seq(Pending)
      BY <1>4, <2>1, HeadIsExpected, JobsArePending DEF HandleEvent, RoutingInv
    <2>3. Tail(readChan[r]) \in Seq(Events)
      BY <1>0, <1>4, HeadTailProperties DEF HandleEvent, Types
    <2> QED
      BY <1>0, <1>4, <2>1, <2>2, <2>3 DEF HandleEvent, Types, trackers
  <1>5. ASSUME NEW r \in Relays, Publish(r) PROVE Types'
    <2>1. /\ todo[r] \in Seq(Pending) /\ todo[r] # << >>
          /\ published' = Append(published, LookedUp(Head(todo[r])))
          /\ todo' = [todo EXCEPT ![r] = Tail(@)]
          /\ UNCHANGED <<step, trackers, readChan, arrived>>
      BY <1>0, <1>5 DEF Publish, Types
    <2>2. /\ Head(todo[r]) = todo[r][1] /\ Head(todo[r]) \in Pending
          /\ 1 \in 1..Len(todo[r]) /\ Tail(todo[r]) \in Seq(Pending)
      BY <2>1, HeadTailProperties, EmptySeq, LenProperties
    <2>3. PendingInv(Head(todo[r]))
      BY <2>2 DEF RoutingInv, PublicationInv
    <2>4. LookedUp(Head(todo[r])) \in Done
      BY <2>2, <2>3, LookedUpIsDone DEF RoutingInv
    <2>5. published' \in Seq(Done)
      BY <1>0, <2>1, <2>4, AppendProperties DEF Types
    <2> QED
      BY <1>0, <2>1, <2>2, <2>5 DEF Types, trackers
  <1>6. ASSUME NEW r \in Relays, Lose(r) PROVE Types'
    <2>1. << >> \in Seq(Events)
      BY EmptySeq
    <2> QED
      BY <1>0, <1>6, <2>1 DEF Lose, Types, trackers
  <1>7. CASE UNCHANGED vars
    BY <1>0, <1>7 DEF vars, trackers, Types
  <1> QED
    BY <1>1, <1>2, <1>3, <1>4, <1>5, <1>6, <1>7 DEF Next

\* Every step keeps the trackers.
LEMMA NextTracker == RoutingInv /\ [Next]_vars => TrackerInv'
  <1> SUFFICES ASSUME RoutingInv, [Next]_vars PROVE TrackerInv'
    OBVIOUS
  <1>0. /\ step \in [Subs -> 0..3]
        /\ DOMAIN search = Subs /\ DOMAIN owner = Subs
        /\ DOMAIN context = Subs /\ DOMAIN npub = Subs
    BY DEF RoutingInv, Types
  <1>1. \A s \in Subs : Tracked(s)
    BY DEF RoutingInv, TrackerInv
  <1>2. ASSUME NEW t \in Subs, Track(t) PROVE \A s \in Subs : Tracked(s)'
    <2>1. /\ ask[t] # Empty /\ ask' = ask
          /\ step' = [step EXCEPT ![t] = @ + 1]
      BY <1>2 DEF Track, AddSearch, AddSubscription, FollowsMetadataSubscription, TrackEntity,
        TrackNPub, Tracks, Does
    <2>2. ASSUME NEW s \in Subs, s # t PROVE Tracked(s)'
      BY <1>0, <1>1, <1>2, <2>1, <2>2
      DEF Tracked, Key, Track, AddSearch, AddSubscription, FollowsMetadataSubscription,
        TrackEntity, TrackNPub
    <2>3. Tracked(t) /\ step'[t] = step[t] + 1 /\ step[t] \in 0..3
      BY <1>0, <1>1, <2>1
    <2>4. ASSUME AddSearch(t) PROVE Tracked(t)'
      BY <1>0, <2>1, <2>3, <2>4 DEF AddSearch, Tracks, Tracked, Key
    <2>5. ASSUME AddSubscription(t) PROVE Tracked(t)'
      BY <1>0, <2>1, <2>3, <2>5 DEF AddSubscription, Tracks, Tracked, Key
    <2>6. ASSUME FollowsMetadataSubscription(t) PROVE Tracked(t)'
      BY <1>0, <2>1, <2>3, <2>6 DEF FollowsMetadataSubscription, Tracks, Tracked, Key
    <2>7. ASSUME TrackEntity(t) PROVE Tracked(t)'
      BY <1>0, <2>1, <2>3, <2>7 DEF TrackEntity, Tracks, Tracked, Key
    <2>8. ASSUME TrackNPub(t) PROVE Tracked(t)'
      BY <1>0, <2>1, <2>3, <2>8 DEF TrackNPub, Tracks, Tracked, Key
    <2> QED
      BY <1>2, <2>2, <2>4, <2>5, <2>6, <2>7, <2>8 DEF Track
  <1>3. ASSUME NEW t \in Subs, Send(t) \/ Close(t) PROVE \A s \in Subs : Tracked(s)'
    <2>1. /\ ask[t] # Empty /\ ask' = ask /\ UNCHANGED trackers
          /\ step' = [step EXCEPT ![t] = @ + 1]
          /\ Program(ask[t].kind)[step[t] + 1] # "track"
      BY <1>3 DEF Send, Close, Does
    <2>2. ask[t].kind \in AllKinds
      BY <2>1 DEF RoutingInv, AskInv
    <2>3. step[t] = 0 => ask[t].kind \notin {"search", "author", "followsNotes"}
      BY <2>1, <2>2, Programs
    <2>4. ASSUME NEW s \in Subs PROVE Tracked(s)'
      <3>1. /\ Tracked(s) /\ step[s] \in 0..3 /\ UNCHANGED <<search, owner, context, npub>>
            /\ step'[s] = IF s = t THEN step[s] + 1 ELSE step[s]
        BY <1>0, <1>1, <2>1 DEF trackers
      <3> QED
        BY <2>1, <2>3, <3>1 DEF Tracked, Key
    <2> QED
      BY <2>4
  <1>4. ASSUME NEW t \in Subs, Answer(t) PROVE \A s \in Subs : Tracked(s)'
    BY <1>1, <1>4 DEF Answer, trackers, Tracked, Key
  <1>5. ASSUME NEW r \in Relays, HandleEvent(r) PROVE \A s \in Subs : Tracked(s)'
    <2>1. PICK e : e = Head(readChan[r])
      OBVIOUS
    <2>2. UNCHANGED <<step, search, owner, context, npub>>
      BY <1>5 DEF HandleEvent, trackers
    <2>3. ASSUME NEW s \in Subs PROVE ask'[s] = ask[s] \/ ask[s] = Empty
      <3>1. CASE s \in {e.id} \X Callbacks
        BY <1>5, <2>1, <3>1, HeadIsExpected DEF HandleEvent, RoutingInv
      <3>2. CASE s \notin {e.id} \X Callbacks
        BY <1>5, <2>1, <3>2, Starting
      <3> QED
        BY <3>1, <3>2
    <2>4. ASSUME NEW s \in Subs PROVE Tracked(s)'
      BY <1>0, <1>1, <2>2, <2>3 DEF Tracked, Key
    <2> QED
      BY <2>4
  <1>6. ASSUME NEW r \in Relays, Publish(r) \/ Lose(r) PROVE \A s \in Subs : Tracked(s)'
    BY <1>1, <1>6 DEF Publish, Lose, trackers, Tracked, Key
  <1>7. ASSUME UNCHANGED vars PROVE \A s \in Subs : Tracked(s)'
    BY <1>1, <1>7 DEF vars, trackers, Tracked, Key
  <1>8. \A s \in Subs : Tracked(s)'
    BY <1>2, <1>3, <1>4, <1>5, <1>6, <1>7 DEF Next
  <1> QED
    BY <1>8 DEF TrackerInv

\* An event that was expected still is.
LEMMA ExpectedLater ==
  ASSUME RoutingInv, Onward, NEW e, Expected(e)
  PROVE  Expected(e)'
  <1>1. /\ e.sub \in Subs /\ e.id \in Nat /\ arrived \in Nat
        /\ e \in Events /\ Sent(e.sub) /\ e.kind \in AnswerKinds(ask[e.sub].kind) /\ e.id <= arrived
    BY RoutingAssumption DEF Expected, Events, RoutingAssumption, RoutingInv, Types
  <1>2. Sent(e.sub)' /\ ask'[e.sub] = ask[e.sub] /\ e.id <= arrived'
    BY <1>1, WhoAsked DEF Onward, RoutingInv
  <1> QED
    BY <1>1, <1>2 DEF Expected

\* The events that wait, one by one.
LEMMA Waiting ==
  ASSUME Types
  PROVE  EventInv <=>
         /\ \A r \in Relays : \A i \in 1..Len(readChan[r]) :
              /\ Expected(readChan[r][i])
              /\ \A c \in Callbacks : ask[<<readChan[r][i].id, c>>] = Empty
         /\ \A q, r \in Relays : \A i \in 1..Len(readChan[q]), j \in 1..Len(readChan[r]) :
              readChan[q][i].id = readChan[r][j].id => q = r /\ i = j
         /\ \A n \in 1..MaxEvents, c \in Callbacks : n > arrived => ask[<<n, c>>] = Empty
  <1>1. \A r \in Relays : \A i \in 1..Len(readChan[r]) : readChan[r][i] \in Events
    BY ElementOfSeq DEF Types
  <1> QED
    BY <1>1 DEF EventInv, Expected

\* The same in the next state, for a step that has to be put together.
LEMMA WaitingLater ==
  ASSUME Types',
         \A r \in Relays : \A i \in 1..Len(readChan[r])' : Expected(readChan[r][i])',
         \A r \in Relays : \A i \in 1..Len(readChan[r])' :
           \A c \in Callbacks : ask'[<<readChan'[r][i].id, c>>] = Empty,
         \A q, r \in Relays : \A i \in 1..Len(readChan[q])', j \in 1..Len(readChan[r])' :
           readChan'[q][i].id = readChan'[r][j].id => q = r /\ i = j,
         \A n \in 1..MaxEvents, c \in Callbacks : n > arrived' => ask'[<<n, c>>] = Empty
  PROVE  EventInv'
  BY DEF EventInv, Expected

\* A step that takes events off the front of a channel, or none.
LEMMA FewerEvents ==
  ASSUME RoutingInv, Types', Onward, arrived' = arrived, NEW d \in [Relays -> Nat],
         \A r \in Relays : \A i \in 1..Len(readChan[r])' :
           /\ i + d[r] \in 1..Len(readChan[r])
           /\ readChan'[r][i] = readChan[r][i + d[r]]
           /\ \A c \in Callbacks : ask'[<<readChan'[r][i].id, c>>] = Empty,
         \A n \in 1..MaxEvents, c \in Callbacks : n > arrived => ask'[<<n, c>>] = Empty
  PROVE  EventInv'
  <1>1. Types /\ EventInv
    BY DEF RoutingInv
  <1>2. ASSUME NEW r \in Relays, NEW i \in 1..Len(readChan[r])'
        PROVE  Expected(readChan[r][i])'
    <2>1. PICK e : e = readChan'[r][i]
      OBVIOUS
    <2>2. PICK k \in 1..Len(readChan[r]) : e = readChan[r][k]
      BY <2>1
    <2>3. Expected(e)
      BY <1>1, <2>2, Waiting
    <2>4. Expected(e)'
      BY <2>3, ExpectedLater
    <2> QED
      BY <2>1, <2>4
  <1>3. ASSUME NEW q \in Relays, NEW r \in Relays, NEW i \in 1..Len(readChan[q])',
               NEW j \in 1..Len(readChan[r])', readChan'[q][i].id = readChan'[r][j].id
        PROVE  q = r /\ i = j
    <2>1. PICK a \in 1..Len(readChan[q]) : a = i + d[q]
      OBVIOUS
    <2>2. PICK b \in 1..Len(readChan[r]) : b = j + d[r]
      OBVIOUS
    <2>3. readChan[q][a].id = readChan[r][b].id
      BY <1>3, <2>1, <2>2
    <2>4. q = r /\ a = b
      BY <1>1, <2>3, Waiting
    <2>5. d[q] \in Nat /\ i \in Int /\ j \in Int
      OBVIOUS
    <2> QED
      BY <2>1, <2>2, <2>4, <2>5
  <1>4. \A n \in 1..MaxEvents, c \in Callbacks : n > arrived' => ask'[<<n, c>>] = Empty
    OBVIOUS
  <1>5. \A r \in Relays : \A i \in 1..Len(readChan[r])' :
          \A c \in Callbacks : ask'[<<readChan'[r][i].id, c>>] = Empty
    OBVIOUS
  <1> QED
    BY <1>2, <1>3, <1>4, <1>5, WaitingLater

\* Every step keeps the events that wait apart and expected.
LEMMA NextEvents == RoutingInv /\ Types' /\ Onward /\ [Next]_vars => EventInv'
  <1> SUFFICES ASSUME RoutingInv, Types', Onward, [Next]_vars PROVE EventInv'
    OBVIOUS
  <1>0. Types /\ EventInv /\ arrived \in Nat
    BY RoutingAssumption DEF RoutingAssumption, RoutingInv, Types
  <1>1. ASSUME UNCHANGED <<ask, readChan, arrived>> PROVE EventInv'
    <2> DEFINE none == [r \in Relays |-> 0]
    <2>1. none \in [Relays -> Nat] /\ \A r \in Relays : none[r] = 0
      OBVIOUS
    <2> HIDE DEF none
    <2>2. ASSUME NEW r \in Relays, NEW i \in 1..Len(readChan[r])'
          PROVE  /\ i + none[r] \in 1..Len(readChan[r])
                 /\ readChan'[r][i] = readChan[r][i + none[r]]
                 /\ \A c \in Callbacks : ask'[<<readChan'[r][i].id, c>>] = Empty
      <3>1. i \in 1..Len(readChan[r]) /\ i + none[r] = i
        BY <1>1, <2>1
      <3> QED
        BY <1>0, <1>1, <3>1, Waiting
    <2> QED
      BY <1>0, <1>1, <2>1, <2>2, FewerEvents, Waiting
  <1>2. ASSUME NEW t \in Subs, Answer(t) PROVE EventInv'
    <2> DEFINE n == arrived + 1
    <2>1. PICK kind \in AnswerKinds(ask[t].kind) :
            readChan' = [readChan EXCEPT ![ask[t].relay] =
                           Append(@, [id |-> arrived + 1, sub |-> t, kind |-> kind])]
      BY <1>2 DEF Answer
    <2>2. PICK e : e = [id |-> n, sub |-> t, kind |-> kind]
      OBVIOUS
    <2>3. PICK l \in Relays : l = ask[t].relay
      BY <1>2 DEF Answer, Sent, RoutingInv, AskInv
    <2>4. /\ ask' = ask /\ arrived' = n /\ n \in 1..MaxEvents /\ Sent(t) /\ ask[t] # Empty
      BY <1>0, <1>2, RoutingAssumption DEF Answer, Sent, RoutingAssumption
    <2>5. e.id = n /\ e.sub = t /\ e.kind = kind /\ e \in Events
      <3>1. kind \in {0, 1, 3, Other}
        BY <2>4, Answers DEF RoutingInv, AskInv
      <3> QED
        BY <2>2, <2>4, <3>1 DEF Events
    <2>6. Sent(t)'
      BY <2>4 DEF Onward
    <2>7. Expected(e)'
      BY <2>4, <2>5, <2>6 DEF Expected
    <2>8. \A c \in Callbacks : ask[<<n, c>>] = Empty
      BY <1>0, <2>4, Waiting
    <2>9. PICK len : len = Len(readChan[l])
      OBVIOUS
    <2>10. /\ len \in Nat /\ Len(readChan'[l]) = len + 1
           /\ \A i \in 1..len : readChan'[l][i] = readChan[l][i]
           /\ readChan'[l][len + 1] = e
      <3>1. readChan[l] \in Seq(Events) /\ readChan'[l] = Append(readChan[l], e)
        BY <1>0, <2>1, <2>2, <2>3 DEF Types
      <3> QED
        BY <2>5, <2>9, <3>1, AppendProperties, LenProperties
    <2>11. ASSUME NEW r \in Relays, r # l PROVE readChan'[r] = readChan[r]
      BY <1>0, <2>1, <2>3, <2>11 DEF Types
    <2> HIDE DEF n
    <2>12. ASSUME NEW r \in Relays, NEW i \in 1..Len(readChan[r])'
           PROVE  \/ i \in 1..Len(readChan[r]) /\ readChan'[r][i] = readChan[r][i]
                  \/ r = l /\ i = len + 1 /\ readChan'[r][i] = e
      <3>1. CASE r = l
        BY <2>9, <2>10, <2>12, <3>1
      <3>2. CASE r # l
        BY <2>11, <2>12, <3>2
      <3> QED
        BY <3>1, <3>2
    <2>13. ASSUME NEW r \in Relays, NEW i \in 1..Len(readChan[r]), NEW f, f = readChan[r][i]
           PROVE  /\ Expected(f)' /\ f.id # n
                  /\ \A c \in Callbacks : ask'[<<f.id, c>>] = Empty
      <3>1. Expected(f) /\ \A c \in Callbacks : ask[<<f.id, c>>] = Empty
        BY <1>0, <2>13, Waiting
      <3>2. f.id <= arrived /\ f.id \in Int
        BY <3>1 DEF Expected, Events
      <3>3. f.id # n
        BY <1>0, <3>2 DEF n
      <3> QED
        BY <2>4, <3>1, <3>3, ExpectedLater
    <2>14. ASSUME NEW r \in Relays, NEW i \in 1..Len(readChan[r])', NEW f, f = readChan'[r][i]
           PROVE  Expected(f)' /\ \A c \in Callbacks : ask'[<<f.id, c>>] = Empty
      BY <2>4, <2>5, <2>7, <2>8, <2>12, <2>13, <2>14
    <2>15. ASSUME NEW q \in Relays, NEW r \in Relays, NEW i \in 1..Len(readChan[q])',
                  NEW j \in 1..Len(readChan[r])', readChan'[q][i].id = readChan'[r][j].id
           PROVE  q = r /\ i = j
      <3>1. CASE i \in 1..Len(readChan[q]) /\ readChan'[q][i] = readChan[q][i]
        <4>1. readChan'[q][i].id # n
          BY <2>13, <3>1
        <4>2. j \in 1..Len(readChan[r]) /\ readChan'[r][j] = readChan[r][j]
          BY <2>5, <2>12, <2>15, <4>1
        <4> QED
          BY <1>0, <2>15, <3>1, <4>2, Waiting
      <3>2. CASE q = l /\ i = len + 1 /\ readChan'[q][i] = e
        <4>1. readChan'[r][j].id = n
          BY <2>5, <2>15, <3>2
        <4>2. r = l /\ j = len + 1
          BY <2>12, <2>13, <4>1
        <4> QED
          BY <3>2, <4>2
      <3> QED
        BY <2>12, <3>1, <3>2
    <2>16. \A m \in 1..MaxEvents, c \in Callbacks : m > arrived' => ask'[<<m, c>>] = Empty
      <3>1. \A m \in 1..MaxEvents : m > n => m > arrived
        BY <1>0 DEF n
      <3> QED
        BY <1>0, <2>4, <3>1, Waiting
    <2> QED
      BY <2>14, <2>15, <2>16, WaitingLater
  <1>3. ASSUME NEW r \in Relays, HandleEvent(r) PROVE EventInv'
    <2> DEFINE d == [q \in Relays |-> IF q = r THEN 1 ELSE 0]
    <2>1. d \in [Relays -> Nat] /\ d[r] = 1 /\ \A q \in Relays : q # r => d[q] = 0
      OBVIOUS
    <2> HIDE DEF d
    <2>2. PICK e : e = Head(readChan[r])
      OBVIOUS
    <2>3. /\ readChan' = [readChan EXCEPT ![r] = Tail(readChan[r])] /\ readChan[r] # << >>
          /\ readChan[r] \in Seq(Events) /\ DOMAIN readChan = Relays /\ arrived' = arrived
      BY <1>0, <1>3 DEF HandleEvent, Types
    <2>4. PICK len : len = Len(readChan[r])
      OBVIOUS
    <2>5. PICK t : t = Tail(readChan[r])
      OBVIOUS
    <2>6. /\ e = readChan[r][1] /\ len \in Nat /\ len >= 1 /\ Len(t) = len - 1
          /\ \A i \in 1..Len(t) : t[i] = readChan[r][i + 1]
      BY <2>2, <2>3, <2>4, <2>5, HeadTailProperties, EmptySeq, LenProperties
    <2>7. readChan'[r] = t /\ \A q \in Relays : q # r => readChan'[q] = readChan[q]
      BY <2>3, <2>5
    <2>8. ASSUME NEW n \in 1..MaxEvents, NEW c \in Callbacks, n # e.id
          PROVE  ask'[<<n, c>>] = ask[<<n, c>>]
      <3>1. <<n, c>> \in Subs /\ <<n, c>> \notin {e.id} \X Callbacks
        BY <2>8, LookupsAreSubs
      <3> QED
        BY <1>3, <2>2, <3>1, Starting
    <2>9. ASSUME NEW q \in Relays, NEW i \in 1..Len(readChan[q])'
          PROVE  /\ i + d[q] \in 1..Len(readChan[q])
                 /\ readChan'[q][i] = readChan[q][i + d[q]]
                 /\ \A c \in Callbacks : ask'[<<readChan'[q][i].id, c>>] = Empty
      <3>1. PICK k \in 1..Len(readChan[q]) :
              k = i + d[q] /\ readChan'[q][i] = readChan[q][k] /\ (q = r => k # 1)
        <4>1. CASE q = r
          <5>1. i + 1 \in 1..len /\ readChan'[q][i] = readChan[r][i + 1] /\ i + 1 # 1
            BY <2>6, <2>7, <2>9, <4>1
          <5> QED
            BY <2>1, <2>4, <4>1, <5>1
        <4>2. CASE q # r
          <5>1. i \in 1..Len(readChan[q]) /\ i + 0 = i
            BY <2>7, <2>9, <4>2
          <5> QED
            BY <2>1, <2>7, <4>2, <5>1
        <4> QED
          BY <4>1, <4>2
      <3>2. PICK f : f = readChan[q][k]
        OBVIOUS
      <3>3. 1 \in 1..Len(readChan[r])
        BY <2>4, <2>6
      <3>4. f.id # e.id
        BY <1>0, <2>6, <3>1, <3>2, <3>3, Waiting
      <3>5. f.id \in 1..MaxEvents /\ \A c \in Callbacks : ask[<<f.id, c>>] = Empty
        BY <1>0, <3>2, Waiting DEF Expected, Events
      <3> QED
        BY <2>8, <3>1, <3>2, <3>4, <3>5
    <2>10. ASSUME NEW n \in 1..MaxEvents, NEW c \in Callbacks, n > arrived
           PROVE  ask'[<<n, c>>] = Empty
      <3>1. e.id \in 1..MaxEvents /\ e.id <= arrived
        BY <1>0, <2>2, <2>3, HeadIsExpected DEF Expected, Events
      <3>2. n # e.id
        BY <1>0, <2>10, <3>1
      <3> QED
        BY <1>0, <2>8, <2>10, <3>2, Waiting
    <2> QED
      BY <2>1, <2>3, <2>9, <2>10, FewerEvents
  <1>4. ASSUME NEW r \in Relays, Lose(r) PROVE EventInv'
    <2> DEFINE none == [q \in Relays |-> 0]
    <2>1. none \in [Relays -> Nat] /\ \A q \in Relays : none[q] = 0
      OBVIOUS
    <2> HIDE DEF none
    <2>2. /\ readChan' = [readChan EXCEPT ![r] = << >>] /\ DOMAIN readChan = Relays
          /\ ask' = ask /\ arrived' = arrived
      BY <1>0, <1>4 DEF Lose, Types
    <2>3. Len(readChan'[r]) = 0 /\ \A q \in Relays : q # r => readChan'[q] = readChan[q]
      BY <2>2
    <2>4. ASSUME NEW q \in Relays, NEW i \in 1..Len(readChan[q])'
          PROVE  /\ i + none[q] \in 1..Len(readChan[q])
                 /\ readChan'[q][i] = readChan[q][i + none[q]]
                 /\ \A c \in Callbacks : ask'[<<readChan'[q][i].id, c>>] = Empty
      <3>1. q # r
        BY <2>3, <2>4
      <3>2. i \in 1..Len(readChan[q]) /\ i + none[q] = i /\ readChan'[q] = readChan[q]
        BY <2>1, <2>3, <3>1
      <3> QED
        BY <1>0, <2>2, <3>2, Waiting
    <2> QED
      BY <1>0, <2>1, <2>2, <2>4, FewerEvents, Waiting
  <1>5. CASE UNCHANGED vars
    BY <1>1, <1>5 DEF vars
  <1>6. ASSUME NEW s \in Subs, Track(s) \/ Send(s) \/ Close(s) PROVE EventInv'
    BY <1>1, <1>6 DEF Track, AddSearch, AddSubscription, FollowsMetadataSubscription,
      TrackEntity, TrackNPub, Tracks, Send, Close
  <1>7. ASSUME NEW r \in Relays, Publish(r) PROVE EventInv'
    BY <1>1, <1>7 DEF Publish
  <1> QED
    BY <1>2, <1>3, <1>4, <1>5, <1>6, <1>7 DEF Next

\* The publications that are still to do, when all of them are tagged right.
LEMMA PublicationsLater ==
  ASSUME RoutingInv, Onward
  PROVE  /\ \A r \in Relays : \A i \in 1..Len(todo[r]) : \A j :
              j = todo[r][i] => PendingInv(j)'
         /\ \A i \in 1..Len(published) : \A p : p = published[i] => DoneInv(p)'
  <1>1. ASSUME NEW r \in Relays, NEW i \in 1..Len(todo[r]), NEW j, j = todo[r][i]
        PROVE  PendingInv(j)'
    <2>1. PendingInv(j) /\ todo[r] \in Seq(Pending)
      BY <1>1 DEF RoutingInv, PublicationInv, Types
    <2>2. j \in Pending
      BY <1>1, <2>1, ElementOfSeq
    <2> QED
      BY <2>1, <2>2, PendingLater DEF RoutingInv
  <1>2. ASSUME NEW i \in 1..Len(published), NEW p, p = published[i]
        PROVE  DoneInv(p)'
    <2>1. DoneInv(p) /\ published \in Seq(Done)
      BY <1>2 DEF RoutingInv, PublicationInv, Types
    <2>2. p \in Done
      BY <1>2, <2>1, ElementOfSeq
    <2> QED
      BY <2>1, <2>2, DoneLater DEF RoutingInv
  <1> QED
    BY <1>1, <1>2

\* What a publication does: the first job of a relay's handler is done, tagged
\* as the trackers say, and the others remain.
LEMMA Publishing ==
  ASSUME RoutingInv, NEW r \in Relays, Publish(r)
  PROVE  \E j \in Pending, p \in Done, m \in Nat, len \in Nat :
           /\ len = Len(todo[r]) /\ len >= 1 /\ j = todo[r][1]
           /\ Len(todo[r])' = len - 1 /\ \A i \in 1..(len - 1) : todo'[r][i] = todo[r][i + 1]
           /\ \A q \in Relays : q # r => todo'[q] = todo[q]
           /\ m = Len(published) /\ Len(published)' = m + 1 /\ published'[m + 1] = p
           /\ \A i \in 1..m : published'[i] = published[i]
           /\ DoneInv(p) /\ p.to = Tag(p.queue, p.sub) /\ p.id = j.id
           /\ j.queue = "search_results" => p = j
           /\ UNCHANGED <<ask, step, trackers, arrived>>
  <1>1. /\ todo[r] \in Seq(Pending) /\ todo[r] # << >> /\ published \in Seq(Done)
        /\ todo' = [todo EXCEPT ![r] = Tail(todo[r])] /\ DOMAIN todo = Relays
        /\ published' = Append(published, LookedUp(Head(todo[r])))
        /\ UNCHANGED <<ask, step, trackers, arrived>>
    BY DEF Publish, RoutingInv, Types
  <1>2. PICK j : j = Head(todo[r])
    OBVIOUS
  <1>3. PICK p : p = LookedUp(j)
    OBVIOUS
  <1>4. PICK len : len = Len(todo[r])
    OBVIOUS
  <1>5. PICK m : m = Len(published)
    OBVIOUS
  <1>6. PICK t : t = Tail(todo[r])
    OBVIOUS
  <1>7. /\ j = todo[r][1] /\ j \in Pending /\ len \in Nat /\ len >= 1
        /\ Len(t) = len - 1 /\ \A i \in 1..(len - 1) : t[i] = todo[r][i + 1]
    BY <1>1, <1>2, <1>4, <1>6, HeadTailProperties, EmptySeq, LenProperties
  <1>8. PendingInv(j)
    BY <1>4, <1>7 DEF RoutingInv, PublicationInv
  <1>9. /\ p \in Done /\ DoneInv(p) /\ p.to = Tag(p.queue, p.sub) /\ p.id = j.id
        /\ j.queue = "search_results" => p = j
    BY <1>3, <1>7, <1>8, LookedUpIsDone DEF RoutingInv
  <1>10. /\ m \in Nat /\ Len(published') = m + 1 /\ published'[m + 1] = p
         /\ \A i \in 1..m : published'[i] = published[i]
    <2>1. published' = Append(published, p)
      BY <1>1, <1>2, <1>3
    <2> QED
      BY <1>1, <1>5, <1>9, <2>1, AppendProperties, LenProperties
  <1>11. todo'[r] = t /\ \A q \in Relays : q # r => todo'[q] = todo[q]
    BY <1>1, <1>6
  <1> QED
    BY <1>1, <1>4, <1>5, <1>7, <1>9, <1>10, <1>11

\* Every step keeps the publications tagged right.
LEMMA NextPublications == RoutingInv /\ Onward /\ [Next]_vars => PublicationInv'
  <1> SUFFICES ASSUME RoutingInv, Onward, [Next]_vars PROVE PublicationInv'
    OBVIOUS
  <1>1. ASSUME UNCHANGED <<todo, published>> PROVE PublicationInv'
    BY <1>1, PublicationsLater DEF PublicationInv
  <1>2. ASSUME NEW r \in Relays, HandleEvent(r) PROVE PublicationInv'
    <2>1. PICK e : e = Head(readChan[r])
      OBVIOUS
    <2>2. Expected(e) /\ Jobs(e) \in Seq(Pending)
          /\ \A i \in 1..Len(Jobs(e)) : PendingInv(Jobs(e)[i])
      BY <1>2, <2>1, HeadIsExpected, JobsArePending DEF HandleEvent, RoutingInv
    <2>3. PICK jobs : jobs = Jobs(e)
      OBVIOUS
    <2>4. /\ todo'[r] = jobs /\ \A q \in Relays : q # r => todo'[q] = todo[q]
          /\ published' = published
      BY <1>2, <2>1, <2>3 DEF HandleEvent, RoutingInv, Types
    <2>5. ASSUME NEW i \in 1..Len(jobs), NEW j, j = jobs[i] PROVE PendingInv(j)'
      <3>1. PendingInv(j) /\ j \in Pending
        BY <2>2, <2>3, <2>5, ElementOfSeq
      <3> QED
        BY <3>1, PendingLater DEF RoutingInv
    <2>6. ASSUME NEW q \in Relays, NEW i \in 1..Len(todo[q])' PROVE PendingInv(todo[q][i])'
      <3>1. PICK j : j = todo'[q][i]
        OBVIOUS
      <3>2. CASE q = r
        BY <2>4, <2>5, <2>6, <3>1, <3>2
      <3>3. CASE q # r
        BY <2>4, <2>6, <3>1, <3>3, PublicationsLater
      <3> QED
        BY <3>2, <3>3
    <2> QED
      BY <2>4, <2>6, PublicationsLater DEF PublicationInv
  <1>3. ASSUME NEW r \in Relays, Publish(r) PROVE PublicationInv'
    <2>1. PICK j \in Pending, p \in Done, m \in Nat, len \in Nat :
           /\ len = Len(todo[r]) /\ len >= 1
           /\ Len(todo[r])' = len - 1 /\ \A i \in 1..(len - 1) : todo'[r][i] = todo[r][i + 1]
           /\ \A q \in Relays : q # r => todo'[q] = todo[q]
           /\ m = Len(published) /\ Len(published)' = m + 1 /\ published'[m + 1] = p
           /\ \A i \in 1..m : published'[i] = published[i]
           /\ DoneInv(p)
      BY <1>3, Publishing
    <2>2. ASSUME NEW q \in Relays, NEW i \in 1..Len(todo[q])' PROVE PendingInv(todo[q][i])'
      <3>1. PICK k \in 1..Len(todo[q]) : todo'[q][i] = todo[q][k]
        <4>1. CASE q = r
          <5>1. i + 1 \in 1..len /\ todo'[q][i] = todo[r][i + 1]
            BY <2>1, <2>2, <4>1
          <5> QED
            BY <2>1, <4>1, <5>1
        <4>2. CASE q # r
          BY <2>1, <2>2, <4>2
        <4> QED
          BY <4>1, <4>2
      <3>2. PICK k2 : k2 = todo[q][k]
        OBVIOUS
      <3> QED
        BY <3>1, <3>2, PublicationsLater
    <2>3. ASSUME NEW i \in 1..Len(published)' PROVE DoneInv(published[i])'
      <3>1. PICK d : d = published'[i]
        OBVIOUS
      <3>2. CASE i = m + 1
        <4>1. DoneInv(p)'
          BY <2>1, DoneLater DEF RoutingInv
        <4> QED
          BY <2>1, <3>2, <4>1
      <3>3. CASE i \in 1..m
        BY <2>1, <3>1, <3>3, PublicationsLater
      <3> QED
        BY <2>1, <2>3, <3>2, <3>3
    <2> QED
      BY <2>2, <2>3 DEF PublicationInv
  <1>4. ASSUME NEW s \in Subs, Track(s) \/ Send(s) \/ Close(s) \/ Answer(s)
        PROVE  PublicationInv'
    BY <1>1, <1>4 DEF Track, AddSearch, AddSubscription, FollowsMetadataSubscription,
      TrackEntity, TrackNPub, Tracks, Send, Close, Answer
  <1>5. ASSUME NEW r \in Relays, Lose(r) PROVE PublicationInv'
    BY <1>1, <1>5 DEF Lose
  <1>6. CASE UNCHANGED vars
    BY <1>1, <1>6 DEF vars
  <1> QED
    BY <1>2, <1>3, <1>4, <1>5, <1>6 DEF Next

\* Every step keeps the results that started the lookups.
LEMMA NextResults == RoutingInv /\ Onward /\ [Next]_vars => ResultInv'
  <1> SUFFICES ASSUME RoutingInv, Onward, [Next]_vars PROVE ResultInv'
    OBVIOUS
  <1>1. ASSUME NEW n \in 1..MaxEvents, NEW c \in Callbacks, ask[<<n, c>>] # Empty
        PROVE  ResultOf(n, c) /\ Key(<<n, c>>)' = Key(<<n, c>>)
    BY <1>1, LookupsAreSubs DEF RoutingInv, ResultInv, Onward, Key
  <1>2. ASSUME UNCHANGED <<ask, todo, published>> PROVE ResultInv'
    <2>1. ASSUME NEW n \in 1..MaxEvents, NEW c \in Callbacks, ask'[<<n, c>>] # Empty
          PROVE  ResultOf(n, c)'
      <3>1. ResultOf(n, c) /\ Key(<<n, c>>)' = Key(<<n, c>>)
        BY <1>1, <1>2, <2>1
      <3> QED
        BY <1>2, <3>1 DEF ResultOf
    <2> QED
      BY <2>1 DEF ResultInv
  <1>3. ASSUME NEW r \in Relays, HandleEvent(r) PROVE ResultInv'
    <2>1. PICK e : e = Head(readChan[r])
      OBVIOUS
    <2>2. /\ todo[r] = << >> /\ published' = published /\ DOMAIN todo = Relays
          /\ todo' = [todo EXCEPT ![r] = Jobs(e)]
      BY <1>3, <2>1 DEF HandleEvent, RoutingInv, Types
    <2>3. ASSUME NEW n \in 1..MaxEvents, NEW c \in Callbacks, ask[<<n, c>>] # Empty
          PROVE  ResultOf(n, c)'
      <3>1. ResultOf(n, c) /\ Key(<<n, c>>)' = Key(<<n, c>>)
        BY <1>1, <2>3
      <3>2. \A q \in Relays : \A i \in 1..Len(todo[q]) : q # r /\ todo'[q] = todo[q]
        BY <2>2
      <3> QED
        BY <2>2, <3>1, <3>2 DEF ResultOf
    <2>4. ASSUME NEW n \in 1..MaxEvents, NEW c \in Callbacks,
                 ask[<<n, c>>] = Empty, ask'[<<n, c>>] # Empty
          PROVE  ResultOf(n, c)'
      <3>1. <<n, c>> \in Subs
        BY LookupsAreSubs
      <3>2. /\ n = e.id /\ e.kind = 1 /\ InSearchEvent(e.sub)
            /\ ask'[<<n, c>>] = Request("author", SplitKey(search[e.sub])[1],
                                  SplitKey(search[e.sub])[2], c, e.sub)
            /\ e.sub \in Requests
        BY <1>3, <2>1, <2>4, <3>1, Starting
      <3>3. Key(<<n, c>>)' = search[e.sub]
        <4>1. search[e.sub] \in Keys
          BY <3>2, LookupsAreSubs DEF RoutingInv, Types
        <4>2. ask'[<<n, c>>].pubkey = SplitKey(search[e.sub])[1]
              /\ ask'[<<n, c>>].uuid = SplitKey(search[e.sub])[2]
          BY <3>2 DEF Request
        <4> QED
          BY <4>1, <4>2, SplitAndBack DEF Key
      <3>4. Expected(e)
        BY <1>3, <2>1, HeadIsExpected DEF HandleEvent, RoutingInv
      <3>5. todo'[r] = <<Job("search_results", e, search[e.sub])>>
        BY <2>2, <3>2, <3>4, JobsArePending, NoteIsAttributed DEF RoutingInv
      <3>6. PICK j : j = Job("search_results", e, search[e.sub])
        OBVIOUS
      <3>7. 1 \in 1..Len(todo'[r]) /\ todo'[r][1] = j
        BY <3>5, <3>6
      <3>8. j.id = n /\ j.queue = "search_results" /\ j.to = Key(<<n, c>>)'
        BY <3>2, <3>3, <3>6 DEF Job
      <3> QED
        BY <3>7, <3>8 DEF ResultOf
    <2> QED
      BY <2>3, <2>4 DEF ResultInv
  <1>4. ASSUME NEW r \in Relays, Publish(r) PROVE ResultInv'
    <2>1. PICK j \in Pending, p \in Done, m \in Nat, len \in Nat :
           /\ len = Len(todo[r]) /\ len >= 1 /\ j = todo[r][1]
           /\ Len(todo[r])' = len - 1 /\ \A i \in 1..(len - 1) : todo'[r][i] = todo[r][i + 1]
           /\ \A q \in Relays : q # r => todo'[q] = todo[q]
           /\ m = Len(published) /\ Len(published)' = m + 1 /\ published'[m + 1] = p
           /\ \A i \in 1..m : published'[i] = published[i]
           /\ j.queue = "search_results" => p = j
           /\ ask' = ask
      BY <1>4, Publishing
    <2>2. ASSUME NEW n \in 1..MaxEvents, NEW c \in Callbacks, ask'[<<n, c>>] # Empty
          PROVE  ResultOf(n, c)'
      <3>1. ResultOf(n, c) /\ Key(<<n, c>>)' = Key(<<n, c>>)
        BY <1>1, <2>1, <2>2
      <3>2. CASE \E i \in 1..Len(published) :
                   /\ published[i].id = n
                   /\ published[i].queue = "search_results"
                   /\ published[i].to = Key(<<n, c>>)
        <4>1. PICK i \in 1..m : /\ published[i].id = n
                                /\ published[i].queue = "search_results"
                                /\ published[i].to = Key(<<n, c>>)
          BY <2>1, <3>2
        <4>2. i \in 1..Len(published)' /\ published'[i] = published[i]
          BY <2>1
        <4> QED
          BY <3>1, <4>1, <4>2 DEF ResultOf
      <3>3. CASE \E q \in Relays : \E i \in 1..Len(todo[q]) :
                   /\ todo[q][i].id = n
                   /\ todo[q][i].queue = "search_results"
                   /\ todo[q][i].to = Key(<<n, c>>)
        <4>0. PICK q \in Relays : \E i \in 1..Len(todo[q]) :
                   /\ todo[q][i].id = n
                   /\ todo[q][i].queue = "search_results"
                   /\ todo[q][i].to = Key(<<n, c>>)
          BY <3>3
        <4>1. PICK i \in 1..Len(todo[q]) :
                   /\ todo[q][i].id = n
                   /\ todo[q][i].queue = "search_results"
                   /\ todo[q][i].to = Key(<<n, c>>)
          BY <4>0
        <4>2. CASE q # r
          <5>1. todo'[q] = todo[q]
            BY <2>1, <4>2
          <5> QED
            BY <3>1, <4>1, <5>1 DEF ResultOf
        <4>3. CASE q = r /\ i = 1
          <5>1. published'[m + 1] = todo[q][i] /\ m + 1 \in 1..Len(published)'
            BY <2>1, <4>1, <4>3
          <5> QED
            BY <3>1, <4>1, <5>1 DEF ResultOf
        <4>4. CASE q = r /\ i # 1
          <5>1. PICK k \in 1..(len - 1) : i = k + 1
            <6>1. i - 1 \in 1..(len - 1) /\ i = (i - 1) + 1
              BY <2>1, <4>4
            <6> QED
              BY <6>1
          <5>2. k \in 1..Len(todo[q])' /\ todo'[q][k] = todo[q][i]
            BY <2>1, <4>4, <5>1
          <5> QED
            BY <3>1, <4>1, <5>2 DEF ResultOf
        <4> QED
          BY <4>2, <4>3, <4>4
      <3> QED
        BY <3>1, <3>2, <3>3 DEF ResultOf
    <2> QED
      BY <2>2 DEF ResultInv
  <1>5. ASSUME NEW s \in Subs, Track(s) \/ Send(s) \/ Close(s) \/ Answer(s)
        PROVE  ResultInv'
    BY <1>2, <1>5 DEF Track, AddSearch, AddSubscription, FollowsMetadataSubscription,
      TrackEntity, TrackNPub, Tracks, Send, Close, Answer
  <1>6. ASSUME NEW r \in Relays, Lose(r) PROVE ResultInv'
    BY <1>2, <1>6 DEF Lose
  <1>7. CASE UNCHANGED vars
    BY <1>2, <1>7 DEF vars
  <1> QED
    BY <1>3, <1>4, <1>5, <1>6, <1>7 DEF Next

\* Every step keeps the tags that went out.
LEMMA NextTags == RoutingInv /\ [Next]_vars => TagsArePermanent'
  <1> SUFFICES ASSUME RoutingInv, [Next]_vars PROVE TagsArePermanent'
    OBVIOUS
  <1>1. CASE published' = published
    BY <1>1 DEF RoutingInv, TagsArePermanent
  <1>2. ASSUME NEW r \in Relays, Publish(r) PROVE TagsArePermanent'
    <2>1. PICK p \in Done, m \in Nat :
           /\ m = Len(published) /\ Len(published)' = m + 1 /\ published'[m + 1] = p
           /\ \A i \in 1..m : published'[i] = published[i]
           /\ p.to = Tag(p.queue, p.sub)
      BY <1>2, Publishing
    <2>2. ASSUME NEW i \in 1..Len(published)', NEW j \in 1..Len(published)', i < j,
                 published'[i].sub = published'[j].sub,
                 published'[i].queue = published'[j].queue,
                 published'[i].to # Empty
          PROVE  published'[j].to = published'[i].to
      <3>1. i \in 1..m /\ published'[i] = published[i]
        BY <2>1, <2>2
      <3>2. CASE j = m + 1
        <4>1. published[i].to \in {Empty, Tag(published[i].queue, published[i].sub)}
          BY <2>1, <3>1 DEF RoutingInv, PublicationInv, DoneInv
        <4> QED
          BY <2>1, <2>2, <3>1, <3>2, <4>1
      <3>3. CASE j \in 1..m
        BY <2>1, <2>2, <3>1, <3>3 DEF RoutingInv, TagsArePermanent
      <3> QED
        BY <2>1, <2>2, <3>2, <3>3
    <2> QED
      BY <2>2 DEF TagsArePermanent
  <1>3. published' = published \/ \E r \in Relays : Publish(r)
    BY DEF Next, Track, AddSearch, AddSubscription, FollowsMetadataSubscription, TrackEntity,
      TrackNPub, Tracks, Send, Close, Answer, HandleEvent, Lose, vars
  <1> QED
    BY <1>1, <1>2, <1>3

\* No goroutine but the requests is started at first, and none has done anything.
LEMMA InitRoutingInv == Init => RoutingInv
  <1> SUFFICES ASSUME Init PROVE RoutingInv
    OBVIOUS
  <1>1. PICK w \in Workloads : ask = [s \in Subs |-> IF s \in Requests THEN w[s] ELSE Empty]
    BY DEF Init
  <1>2. Types
    <2>1. << >> \in Seq(Events) /\ << >> \in Seq(Pending) /\ << >> \in Seq(Done)
          /\ 0 \in 0..MaxEvents /\ 0 \in 0..3
      BY EmptySeq, RoutingAssumption DEF RoutingAssumption
    <2> QED
      BY <2>1, EmptyIsAKey DEF Init, Types
  <1>3. AskInv
    <2>1. ASSUME NEW q \in Requests
          PROVE  /\ ask[q] = w[q]
                 /\ w[q].kind \in RequestKinds /\ w[q].relay \in Relays /\ w[q].origin = q
                 /\ w[q].pubkey \in Keys /\ w[q].uuid \in Keys
      <3>1. ask[q] = w[q]
        BY <1>1, LookupsAreSubs
      <3>2. w[q].kind \in RequestKinds /\ w[q].relay \in Relays /\ w[q].origin = q
        BY RoutingAssumption DEF RoutingAssumption
      <3>3. w[q].pubkey \in Keys /\ w[q].uuid \in Keys
        <4>1. PICK S : S = {w[q].pubkey, w[q].uuid}
          OBVIOUS
        <4>2. S \in {{v[t].pubkey, v[t].uuid} : v \in Workloads, t \in Requests}
          BY <4>1
        <4> QED
          BY <4>1, <4>2 DEF Keys
      <3> QED
        BY <3>1, <3>2, <3>3
    <2>2. \A s \in Subs : s \notin Requests => ask[s] = Empty
      BY <1>1
    <2>3. \A k \in RequestKinds : k \in AllKinds /\ k # "author"
      BY DEF RequestKinds, AllKinds
    <2> QED
      BY <2>1, <2>2, <2>3 DEF AskInv
  <1>4. TrackerInv
    BY DEF Init, TrackerInv, Tracked
  <1>5. \A n \in 1..MaxEvents, c \in Callbacks : ask[<<n, c>>] = Empty
    BY <1>1, LookupsAreSubs
  <1>6. \A r \in Relays : Len(readChan[r]) = 0 /\ Len(todo[r]) = 0
    BY DEF Init
  <1>7. Len(published) = 0
    BY DEF Init
  <1>8. EventInv
    BY <1>5, <1>6 DEF EventInv
  <1>9. PublicationInv /\ ResultInv /\ TagsArePermanent
    BY <1>5, <1>6, <1>7 DEF PublicationInv, ResultInv, TagsArePermanent
  <1> QED
    BY <1>2, <1>3, <1>4, <1>8, <1>9 DEF RoutingInv

-----------------------------------------------------------------------------
(* Theorems *)

\* The invariant holds in every state of every behaviour.
THEOREM RoutingInductive == Spec => []RoutingInv
  <1>1. RoutingInv /\ [Next]_vars => RoutingInv'
    BY StepsGoOnward, NextTypes, NextAsk, NextTracker, NextEvents, NextPublications,
      NextResults, NextTags DEF RoutingInv
  <1> QED
    BY <1>1, InitRoutingInv, PTL DEF Spec

\* Only queues of the server are published to, each publication is of an event
\* that arrived, and follows_metadata is never among them.
THEOREM TypeCorrect == Spec => []TypeOK
  <1>1. RoutingInv => TypeOK
    <2> SUFFICES ASSUME RoutingInv PROVE TypeOK
      OBVIOUS
    <2>1. /\ step \in [Subs -> 0..3] /\ readChan \in [Relays -> Seq(Events)]
          /\ published \in Seq(Done) /\ arrived \in Nat
      BY RoutingAssumption DEF RoutingAssumption, RoutingInv, Types
    <2>2. \A s \in Subs : step[s] <= 3
      BY <2>1
    <2>3. ASSUME NEW r \in Relays, NEW i \in 1..Len(readChan[r])
          PROVE  readChan[r][i].sub \in Subs
      <3>1. readChan[r][i] \in Events
        BY <2>1, ElementOfSeq
      <3> QED
        BY <3>1 DEF Events
    <2>4. ASSUME NEW i \in 1..Len(published)
          PROVE  published[i].queue \in Queues /\ published[i].id \in 1..arrived
      <3>1. published[i] \in Done
        BY <2>1, ElementOfSeq
      <3>2. published[i].queue \in Queues /\ published[i].id \in 1..MaxEvents
        BY <3>1 DEF Done
      <3>3. published[i].id <= arrived
        BY DEF RoutingInv, PublicationInv, DoneInv
      <3> QED
        BY <2>1, <3>2, <3>3
    <2> QED
      BY <2>2, <2>3, <2>4 DEF TypeOK
  <1> QED
    BY <1>1, RoutingInductive, PTL

\* What a search finds, the metadata of its authors and the notes of followed
\* users reach who asked, and no tag is somebody else's
\* (subscription.go:183-330, eventHandler.go:77-123).
THEOREM Attribution == Spec => []AnswersAreAttributed
  <1>1. RoutingInv => AnswersAreAttributed
    BY DEF RoutingInv, PublicationInv, DoneInv, Attributed, AnswersAreAttributed
  <1> QED
    BY <1>1, RoutingInductive, PTL

\* The author lookups ask for the user of the result that started them
\* (subscription.go:297-330).
THEOREM LookupsFollow == Spec => []LookupsFollowResults
  <1>1. RoutingInv => LookupsFollowResults
    <2> SUFFICES ASSUME RoutingInv, NEW n \in 1..MaxEvents, NEW c \in Callbacks,
                        ask[<<n, c>>] # Empty
                 PROVE  \E p \in Range(published) \cup UNION {Range(todo[r]) : r \in Relays} :
                          /\ p.id = n
                          /\ p.queue = "search_results"
                          /\ p.to = KeyOf(ask[<<n, c>>].pubkey, ask[<<n, c>>].uuid)
      BY DEF LookupsFollowResults
    <2>1. ResultOf(n, c)
      BY DEF RoutingInv, ResultInv
    <2>2. \A i \in 1..Len(published) : published[i] \in Range(published)
      BY DEF Range, RoutingInv, Types
    <2>3. ASSUME NEW r \in Relays, NEW i \in 1..Len(todo[r]) PROVE todo[r][i] \in Range(todo[r])
      <3>1. todo[r] \in Seq(Pending)
        BY DEF RoutingInv, Types
      <3> QED
        BY <3>1 DEF Range
    <2> QED
      BY <2>1, <2>2, <2>3 DEF ResultOf, Key
  <1> QED
    BY <1>1, RoutingInductive, PTL

\* Once an answer went out with its tag, none goes out without
\* (subscription.go:71-83, 259-268).
THEOREM Permanent == Spec => []TagsArePermanent
  <1>1. RoutingInv => TagsArePermanent
    BY DEF RoutingInv
  <1> QED
    BY <1>1, RoutingInductive, PTL
================================================================================

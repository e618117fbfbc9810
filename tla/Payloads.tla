-------------------------------- MODULE Payloads --------------------------------
(***************************************************************************)
(* The two computations on payloads that the server makes: the event that  *)
(* CreateNoteEvent and data/ make of a note, once per relay and each at    *)
(* its own time, and the public keys that store/redis.go takes from a      *)
(* follow list, which the application keeps in Redis and may not have      *)
(* there, or not in full.                                                  *)
(*                                                                         *)
(* An id stands for what was hashed, a signature for its key and what was  *)
(* signed.  json.Marshal writes some characters as escapes and an id is    *)
(* the hash of that; a relay that computes it hashes them as they are.     *)
(***************************************************************************)
EXTENDS Naturals, Sequences, FiniteSets

CONSTANTS
  NewNotes,    \* notes that the application asks to be published
  Escaped,     \* those with <, >, &, U+2028 or U+2029, which json.Marshal escapes
  PubHexKey,   \* PubHexKey[n]: the public key that comes with the note
  PrivHexKey,  \* PrivHexKey[n]: the one of its private key; None: malformed
  MaxClock,    \* seconds: bounds the model
  Keys,        \* public keys
  MaxTags,     \* tags of a follow list: bounds the model
  None

\* What is hashed: a public key, a time, a note, and whether json.Marshal
\* escaped some of it.
Hashes ==
  [pubkey : Keys, created : 0..MaxClock, content : NewNotes, escaped : BOOLEAN]
Signatures == [by : Keys, of : Hashes]

ASSUME PayloadAssumption ==
  /\ Escaped \subseteq NewNotes
  /\ PubHexKey \in [NewNotes -> Keys]
  /\ PrivHexKey \in [NewNotes -> Keys \cup {None}]
  /\ None \notin Keys \cup Hashes \cup Signatures \cup Seq(Keys)
  /\ MaxClock \in Nat
  /\ MaxTags \in Nat

VARIABLES
  clock,  \* time.Now().Unix()
  event,  \* the event made last, or None
  tags,   \* the tags of the follow list read last
  keys,   \* what was returned for it; None for nil
  up      \* the process has not panicked

vars == <<clock, event, tags, keys, up>>

\* A tag ["p", k] is its key k.  The others are no list, a list of one, one
\* that does not start with p, and one with a number or "" for its key.
Tags == Keys \cup {"noList", "single", "otherName", "number", "empty"}
TagLists == UNION {[1..m -> Tags] : m \in 0..MaxTags}

Fields(e, escapes) ==
  [pubkey |-> e.pubkey, created |-> e.created, content |-> e.content,
   escaped |-> escapes /\ e.content \in Escaped]

Events ==
  [pubkey : Keys, created : 0..MaxClock, content : NewNotes,
   id : Hashes \cup {None}, sig : Signatures \cup {None}]

TypeOK ==
  /\ clock \in 0..MaxClock
  /\ event \in Events \cup {None}
  /\ tags \in TagLists
  /\ keys \in Seq(Keys) \cup {None}
  /\ up \in BOOLEAN

Init == clock = 0 /\ event = None /\ tags = << >> /\ keys = None /\ up = TRUE

-----------------------------------------------------------------------------
(* Notes *)

NewEvent(n) ==
  [pubkey |-> PubHexKey[n], created |-> clock, content |-> n,
   id |-> None, sig |-> None]

GenerateId(e) == [e EXCEPT !.id = Fields(e, TRUE)]

\* A malformed key or id leaves the event without a signature.
SignsAnyway(e, key) == [e EXCEPT !.sig = [by |-> key, of |-> e.id]]   \* mutant
SignEvent(e, key) ==
  IF key = None \/ e.id = None THEN e
  ELSE [e EXCEPT !.sig = [by |-> key, of |-> e.id]]

SignsFirst(n) == GenerateId(SignEvent(NewEvent(n), PrivHexKey[n]))   \* mutant
Finished(n) == SignEvent(GenerateId(NewEvent(n)), PrivHexKey[n])

\* Errors are printed, and the event is handed over as it is.
CreateNoteEvent(n) ==
  /\ event' = Finished(n)
  /\ UNCHANGED <<clock, tags, keys, up>>

\* A GetConnection that dials may take seconds.
Second ==
  /\ clock < MaxClock
  /\ clock' = clock + 1
  /\ UNCHANGED <<event, tags, keys, up>>

-----------------------------------------------------------------------------
(* Follow lists *)

AnyName(tag) == tag \in Keys \cup {"otherName"}        \* mutant
IsPubKey(tag) == tag \in Keys

\* What is collected after each of the tags.
Collected(ts) ==
  LET pubKeys[i \in 0..Len(ts)] ==
        IF i = 0 THEN << >>
        ELSE IF IsPubKey(ts[i]) THEN Append(pubKeys[i - 1], ts[i])
        ELSE pubKeys[i - 1]
  IN pubKeys

ExtractPubKeys(ts) ==
  LET pubKeys == Collected(ts)[Len(ts)]
  IN IF pubKeys = << >> THEN None ELSE pubKeys

\* No user, no object in third place and no tags in it all end with no tags.
HandleFollowListPubKeys ==
  /\ tags' \in TagLists
  /\ keys' = ExtractPubKeys(tags')
  /\ UNCHANGED <<clock, event, up>>

\* followsEvent[2] of an event that Redis does not have, or not in full.
ShortEvent ==
  /\ up' = FALSE
  /\ UNCHANGED <<clock, event, tags, keys>>

Next ==
  /\ up
  /\ \/ \E n \in NewNotes : CreateNoteEvent(n)
     \/ Second
     \/ HandleFollowListPubKeys
     \/ ShortEvent

Spec == Init /\ [][Next]_vars

-----------------------------------------------------------------------------
(* Properties *)

\* VerifySignature, which the server itself never calls.
VerifySignature(e) == e.sig # None /\ e.sig.by = e.pubkey /\ e.sig.of = e.id

\* What a relay that follows the protocol checks.
Accepted(e) == e.id = Fields(e, FALSE) /\ VerifySignature(e)

\* A relay accepts the event of a note exactly if the keys of the note belong
\* together and no character of it was escaped, at whatever time it was made
\* (subscription.go:210-237, nostrEvent.go:23-64).
RelaysAcceptGoodNotes ==
  event # None =>
    LET n == event.content IN
    Accepted(event) <=> PrivHexKey[n] = PubHexKey[n] /\ n \notin Escaped

\* The p tags among the first n.
KeysAt(ts, n) == {i \in 1..n : ts[i] \in Keys}

\* What is returned is nil when there are no p tags, and otherwise has the key
\* of each p tag at the place that the tag has among them (redis.go:27-52).
ReturnsTheKeys ==
  LET found == KeysAt(tags, Len(tags)) IN
  IF found = {} THEN keys = None
  ELSE /\ keys # None
       /\ Len(keys) = Cardinality(found)
       /\ \A i \in found : keys[Cardinality(KeysAt(tags, i))] = tags[i]
================================================================================

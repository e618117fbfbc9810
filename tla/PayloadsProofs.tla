----------------------------- MODULE PayloadsProofs -----------------------------
(***************************************************************************)
(* Machine-checked proofs about Payloads, for any notes, any keys and      *)
(* follow lists of any length.                                             *)
(***************************************************************************)
EXTENDS Payloads, FiniteSetTheorems, SequenceTheorems, WellFoundedInduction, TLAPS

-----------------------------------------------------------------------------
(* Follow lists *)

\* Any numbers have a least one among them: what the inductions below rest on.
LEMMA LeastNumber ==
  ASSUME NEW T \in SUBSET Nat, T # {}
  PROVE  \E n \in T : \A m \in T : n <= m
  <1> DEFINE R == {p \in Nat \X Nat : p[1] < p[2]}
  <1>1. IsWellFoundedOn(R, Nat)
    BY NatLessThanWellFounded, Zenon DEF OpToRel
  <1> HIDE DEF R
  <1>2. PICK n \in T : \A m \in T : ~(<<m, n>> \in R)
    BY <1>1, WFMin
  <1>3. ASSUME NEW m \in T PROVE n <= m
    <2>1. <<m, n>> \notin R
      BY <1>2
    <2>2. m < n => <<m, n>> \in R
      BY DEF R
    <2> QED
      BY <2>1, <2>2
  <1> QED
    BY <1>3

\* What ExtractPubKeys does at one tag.
After(ts, f, i) ==
  IF i = 0 THEN << >>
  ELSE IF IsPubKey(ts[i]) THEN Append(f[i - 1], ts[i])
  ELSE f[i - 1]

\* f is what is collected from the first n tags.
Collects(ts, f, n) == f = [i \in 0..n |-> After(ts, f, i)]

\* The function that ExtractPubKeys computes exists.
LEMMA Collectable ==
  ASSUME NEW ts, NEW n \in Nat
  PROVE  \E f : Collects(ts, f, n)
  <1> DEFINE T == {m \in Nat : ~ \E f : Collects(ts, f, m)}
  <1> SUFFICES ASSUME T # {} PROVE FALSE
    OBVIOUS
  <1>1. PICK m \in T : \A k \in T : m <= k
    BY LeastNumber
  <1>2. m \in Nat /\ ~ \E f : Collects(ts, f, m)
    OBVIOUS
  <1>3. CASE m = 0
    <2> DEFINE f == [i \in 0..0 |-> << >>]
    <2>1. Collects(ts, f, 0)
      BY DEF Collects, After
    <2> QED
      BY <1>2, <1>3, <2>1
  <1>4. CASE m # 0
    <2>1. m - 1 \in Nat /\ m - 1 \notin T
      BY <1>1, <1>2, <1>4
    <2>2. PICK f : Collects(ts, f, m - 1)
      BY <2>1
    <2> DEFINE g == [i \in 0..m |-> IF i = m THEN After(ts, f, m) ELSE f[i]]
    <2>3. ASSUME NEW i \in 0..m PROVE g[i] = After(ts, g, i)
      <3>1. CASE i = m
        <4>1. g[m] = After(ts, f, m) /\ g[m - 1] = f[m - 1]
          BY <1>2, <1>4
        <4> QED
          BY <3>1, <4>1 DEF After
      <3>2. CASE i # m
        <4>1. i \in 0..(m - 1) /\ g[i] = f[i]
          BY <1>2, <3>2
        <4>2. f[i] = After(ts, f, i)
          BY <2>2, <4>1 DEF Collects
        <4>3. i # 0 => g[i - 1] = f[i - 1]
          BY <1>2, <3>2
        <4> QED
          BY <4>1, <4>2, <4>3 DEF After
      <3> QED
        BY <3>1, <3>2
    <2>4. Collects(ts, g, m)
      <3>1. g = [i \in 0..m |-> g[i]]
        OBVIOUS
      <3> HIDE DEF g
      <3> QED
        BY <2>3, <3>1 DEF Collects
    <2> QED
      BY <1>2, <2>4
  <1> QED
    BY <1>3, <1>4

\* What ExtractPubKeys has after a tag follows from what it had before.
LEMMA CollectedIsIt ==
  ASSUME NEW ts, Len(ts) \in Nat
  PROVE  Collects(ts, Collected(ts), Len(ts))
  <1>1. \E f : Collects(ts, f, Len(ts))
    BY Collectable
  <1>2. Collected(ts) = CHOOSE f : Collects(ts, f, Len(ts))
    BY DEF Collected, Collects, After
  <1> QED
    BY <1>1, <1>2, Zenon

\* The p tags among the first n are finitely many.
LEMMA KeysAtFinite ==
  ASSUME NEW ts, NEW n \in Nat
  PROVE  IsFiniteSet(KeysAt(ts, n)) /\ Cardinality(KeysAt(ts, n)) \in Nat
  <1>1. IsFiniteSet(1..n)
    BY FS_Interval
  <1>2. KeysAt(ts, n) \subseteq 1..n
    BY DEF KeysAt
  <1>3. IsFiniteSet(KeysAt(ts, n))
    BY <1>1, <1>2, FS_Subset
  <1> QED
    BY <1>3, FS_CardinalityType

\* One tag more is one p tag more, or none.
LEMMA OneTagMore ==
  ASSUME NEW ts, NEW n \in Nat, n # 0
  PROVE  /\ ts[n] \notin Keys => KeysAt(ts, n) = KeysAt(ts, n - 1)
         /\ ts[n] \in Keys =>
              /\ KeysAt(ts, n) = KeysAt(ts, n - 1) \cup {n}
              /\ Cardinality(KeysAt(ts, n)) = Cardinality(KeysAt(ts, n - 1)) + 1
  <1>1. n - 1 \in Nat /\ 1..n = (1..(n - 1)) \cup {n} /\ n \notin 1..(n - 1)
    OBVIOUS
  <1>2. ts[n] \notin Keys => KeysAt(ts, n) = KeysAt(ts, n - 1)
    BY <1>1 DEF KeysAt
  <1>3. ASSUME ts[n] \in Keys
        PROVE  /\ KeysAt(ts, n) = KeysAt(ts, n - 1) \cup {n}
               /\ Cardinality(KeysAt(ts, n)) = Cardinality(KeysAt(ts, n - 1)) + 1
    <2>1. KeysAt(ts, n) = KeysAt(ts, n - 1) \cup {n}
      BY <1>1, <1>3 DEF KeysAt
    <2>2. n \notin KeysAt(ts, n - 1)
      BY <1>1 DEF KeysAt
    <2>3. IsFiniteSet(KeysAt(ts, n - 1))
      BY <1>1, KeysAtFinite
    <2> QED
      BY <2>1, <2>2, <2>3, FS_AddElement
  <1> QED
    BY <1>2, <1>3

\* The place of a p tag is one of those that the earlier tags have filled.
LEMMA Placed ==
  ASSUME NEW ts, NEW n \in Nat, NEW i \in KeysAt(ts, n)
  PROVE  Cardinality(KeysAt(ts, i)) \in 1..Cardinality(KeysAt(ts, n))
  <1>1. i \in Nat /\ i \in KeysAt(ts, i) /\ KeysAt(ts, i) \subseteq KeysAt(ts, n)
    BY DEF KeysAt
  <1>2. Cardinality(KeysAt(ts, i)) <= Cardinality(KeysAt(ts, n))
    BY <1>1, KeysAtFinite, FS_Subset
  <1>3. Cardinality(KeysAt(ts, i)) # 0
    BY <1>1, KeysAtFinite, FS_EmptySet
  <1> QED
    BY <1>1, <1>2, <1>3, KeysAtFinite

\* found are the keys of the p tags among the first n, in their order.
AreTheKeys(ts, found, n) ==
  /\ found \in Seq(Keys)
  /\ Len(found) = Cardinality(KeysAt(ts, n))
  /\ \A i \in KeysAt(ts, n) : found[Cardinality(KeysAt(ts, i))] = ts[i]

\* Of no tags these are no keys.
LEMMA NoTags ==
  ASSUME NEW ts
  PROVE  AreTheKeys(ts, << >>, 0)
  <1>1. KeysAt(ts, 0) = {}
    BY DEF KeysAt
  <1>2. Cardinality(KeysAt(ts, 0)) = 0
    BY <1>1, FS_EmptySet
  <1>3. << >> \in Seq(Keys) /\ Len(<< >>) = 0
    OBVIOUS
  <1> QED
    BY <1>1, <1>2, <1>3 DEF AreTheKeys

\* A p tag appends its key, and any other tag nothing.
LEMMA TagAdds ==
  ASSUME NEW ts, NEW n \in Nat, n # 0, NEW found, AreTheKeys(ts, found, n - 1)
  PROVE  AreTheKeys(ts, IF IsPubKey(ts[n]) THEN Append(found, ts[n]) ELSE found, n)
  <1>1. found \in Seq(Keys) /\ Len(found) = Cardinality(KeysAt(ts, n - 1)) /\ n - 1 \in Nat
    BY DEF AreTheKeys
  <1>2. CASE ts[n] \notin Keys
    BY <1>2, OneTagMore DEF AreTheKeys, IsPubKey
  <1>3. CASE ts[n] \in Keys
    <2> DEFINE more == Append(found, ts[n])
    <2>1. /\ KeysAt(ts, n) = KeysAt(ts, n - 1) \cup {n}
          /\ Cardinality(KeysAt(ts, n)) = Len(found) + 1
      BY <1>1, <1>3, OneTagMore
    <2>2. /\ more \in Seq(Keys) /\ Len(more) = Len(found) + 1
          /\ more[Len(found) + 1] = ts[n]
          /\ \A j \in 1..Len(found) : more[j] = found[j]
      BY <1>1, <1>3
    <2>3. ASSUME NEW i \in KeysAt(ts, n) PROVE more[Cardinality(KeysAt(ts, i))] = ts[i]
      <3>1. CASE i = n
        BY <2>1, <2>2, <3>1
      <3>2. CASE i \in KeysAt(ts, n - 1)
        <4>1. Cardinality(KeysAt(ts, i)) \in 1..Len(found)
          BY <1>1, <3>2, Placed
        <4>2. found[Cardinality(KeysAt(ts, i))] = ts[i]
          BY <3>2 DEF AreTheKeys
        <4> HIDE DEF more
        <4> QED
          BY <2>2, <4>1, <4>2
      <3> QED
        BY <2>1, <3>1, <3>2
    <2>4. AreTheKeys(ts, more, n)
      BY <2>1, <2>2, <2>3 DEF AreTheKeys
    <2> QED
      BY <1>3, <2>4 DEF IsPubKey
  <1> QED
    BY <1>2, <1>3

\* What is collected after n tags are the keys of those tags: there is no
\* least number of tags after which it is not.
LEMMA CollectsTheKeys ==
  ASSUME NEW ts, Len(ts) \in Nat, NEW n \in 0..Len(ts)
  PROVE  AreTheKeys(ts, Collected(ts)[n], n)
  <1> DEFINE T == {k \in 0..Len(ts) : ~ AreTheKeys(ts, Collected(ts)[k], k)}
  <1> SUFFICES ASSUME T # {} PROVE FALSE
    OBVIOUS
  <1>1. PICK m \in T : \A k \in T : m <= k
    <2>1. T \in SUBSET Nat
      OBVIOUS
    <2> QED
      BY <2>1, LeastNumber
  <1>2. m \in 0..Len(ts) /\ ~ AreTheKeys(ts, Collected(ts)[m], m)
    OBVIOUS
  <1>3. Collected(ts)[m] = After(ts, Collected(ts), m)
    BY <1>2, CollectedIsIt DEF Collects
  <1>4. CASE m = 0
    BY <1>2, <1>3, <1>4, NoTags DEF After
  <1>5. CASE m # 0
    <2>1. m \in Nat /\ m - 1 \in 0..Len(ts) /\ m - 1 \notin T
      BY <1>1, <1>2, <1>5
    <2>2. AreTheKeys(ts, Collected(ts)[m - 1], m - 1)
      BY <2>1
    <2>3. AreTheKeys(ts, After(ts, Collected(ts), m), m)
      BY <1>5, <2>1, <2>2, TagAdds DEF After
    <2> QED
      BY <1>2, <1>3, <2>3
  <1> QED
    BY <1>4, <1>5

\* What the tags of a follow list say of their number.
LEMMA TagListsAreLists ==
  /\ \A ts \in TagLists : Len(ts) \in Nat
  /\ << >> \in TagLists
  <1>1. ASSUME NEW ts \in TagLists PROVE Len(ts) \in Nat
    <2>1. PICK m \in 0..MaxTags : ts \in [1..m -> Tags]
      BY DEF TagLists
    <2>2. m \in Nat
      BY PayloadAssumption DEF PayloadAssumption
    <2>3. ts \in Seq(Tags)
      BY <2>1, <2>2
    <2> QED
      BY <2>3
  <1>2. << >> \in [1..0 -> Tags] /\ 0 \in 0..MaxTags
    BY PayloadAssumption DEF PayloadAssumption
  <1> QED
    BY <1>1, <1>2 DEF TagLists

\* ExtractPubKeys returns nil for no p tags, and otherwise their keys.
LEMMA Extracts ==
  ASSUME NEW ts, Len(ts) \in Nat
  PROVE  IF KeysAt(ts, Len(ts)) = {} THEN ExtractPubKeys(ts) = None
         ELSE /\ AreTheKeys(ts, ExtractPubKeys(ts), Len(ts))
              /\ ExtractPubKeys(ts) # None
  <1> DEFINE found == Collected(ts)[Len(ts)]
  <1>1. AreTheKeys(ts, found, Len(ts))
    BY CollectsTheKeys
  <1>2. found \in Seq(Keys) /\ Len(found) = Cardinality(KeysAt(ts, Len(ts)))
    BY <1>1 DEF AreTheKeys
  <1>3. ExtractPubKeys(ts) = IF found = << >> THEN None ELSE found
    BY DEF ExtractPubKeys
  <1>4. found # None
    BY <1>2, PayloadAssumption DEF PayloadAssumption
  <1>5. KeysAt(ts, Len(ts)) = {} <=> Len(found) = 0
    BY <1>2, KeysAtFinite, FS_EmptySet
  <1> HIDE DEF found
  <1>6. Len(found) = 0 <=> found = << >>
    BY <1>2
  <1> QED
    BY <1>1, <1>3, <1>4, <1>5, <1>6

-----------------------------------------------------------------------------
(* Notes *)

\* The id of a note's event, and its signature if the private key is not
\* malformed.
LEMMA FinishedIs ==
  ASSUME NEW n \in NewNotes, clock \in 0..MaxClock
  PROVE  LET e == Finished(n)
             hash == [pubkey |-> PubHexKey[n], created |-> clock, content |-> n,
                      escaped |-> n \in Escaped]
         IN /\ hash \in Hashes
            /\ e = [pubkey |-> PubHexKey[n], created |-> clock, content |-> n,
                    id |-> hash,
                    sig |-> IF PrivHexKey[n] = None THEN None
                            ELSE [by |-> PrivHexKey[n], of |-> hash]]
  <1> DEFINE hash == [pubkey |-> PubHexKey[n], created |-> clock, content |-> n,
                      escaped |-> n \in Escaped]
             e == [pubkey |-> PubHexKey[n], created |-> clock, content |-> n,
                   id |-> hash, sig |-> None]
  <1>1. hash \in Hashes
    BY PayloadAssumption DEF PayloadAssumption, Hashes
  <1>2. hash # None
    BY <1>1, PayloadAssumption DEF PayloadAssumption
  <1>3. Fields(NewEvent(n), TRUE) = hash
    BY DEF Fields, NewEvent
  <1>4. GenerateId(NewEvent(n)) = e
    <2>1. GenerateId(NewEvent(n)) = [NewEvent(n) EXCEPT !.id = hash]
      BY <1>3, Zenon DEF GenerateId
    <2> HIDE DEF hash
    <2> QED
      BY <2>1 DEF NewEvent
  <1>5. e.id = hash
    OBVIOUS
  <1>6. Finished(n) = IF PrivHexKey[n] = None THEN e
                      ELSE [e EXCEPT !.sig = [by |-> PrivHexKey[n], of |-> hash]]
    BY <1>2, <1>4, <1>5 DEF Finished, SignEvent
  <1> QED
    BY <1>1, <1>6

\* The event of a note is an event, and a relay accepts it exactly if its keys
\* belong together and nothing in it was escaped.
LEMMA FinishedIsGood ==
  ASSUME NEW n \in NewNotes, clock \in 0..MaxClock
  PROVE  LET e == Finished(n) IN
         /\ e \in Events /\ e.content = n
         /\ Accepted(e) <=> PrivHexKey[n] = PubHexKey[n] /\ n \notin Escaped
  <1> DEFINE hash == [pubkey |-> PubHexKey[n], created |-> clock, content |-> n,
                      escaped |-> n \in Escaped]
             e == Finished(n)
  <1>1. /\ hash \in Hashes
        /\ e = [pubkey |-> PubHexKey[n], created |-> clock, content |-> n,
                id |-> hash,
                sig |-> IF PrivHexKey[n] = None THEN None
                        ELSE [by |-> PrivHexKey[n], of |-> hash]]
    BY FinishedIs
  <1>2. PubHexKey[n] \in Keys /\ PrivHexKey[n] \in Keys \cup {None} /\ None \notin Keys
    BY PayloadAssumption DEF PayloadAssumption
  <1>3. PrivHexKey[n] # None =>
          [by |-> PrivHexKey[n], of |-> hash] \in Signatures
    BY <1>1, <1>2 DEF Signatures
  <1>4. e \in Events
    BY <1>1, <1>2, <1>3 DEF Events
  <1>5. Fields(e, FALSE) = [pubkey |-> PubHexKey[n], created |-> clock,
                            content |-> n, escaped |-> FALSE]
    <2>1. e.pubkey = PubHexKey[n] /\ e.created = clock /\ e.content = n
      BY <1>1
    <2> QED
      BY <2>1, Zenon DEF Fields
  <1>6. e.id = Fields(e, FALSE) <=> n \notin Escaped
    <2>1. e.id = hash
      BY <1>1
    <2>2. hash = [pubkey |-> PubHexKey[n], created |-> clock,
                  content |-> n, escaped |-> FALSE] <=> n \notin Escaped
      <3>1. CASE n \in Escaped
        <4>1. hash.escaped = TRUE
          BY <3>1, Zenon
        <4> HIDE DEF hash
        <4> QED
          BY <3>1, <4>1
      <3>2. CASE n \notin Escaped
        <4>1. (n \in Escaped) = FALSE
          BY <3>2
        <4> QED
          BY <3>2, <4>1, Zenon
      <3> QED
        BY <3>1, <3>2
    <2> QED
      BY <1>5, <2>1, <2>2, Zenon
  <1>7. VerifySignature(e) <=> PrivHexKey[n] = PubHexKey[n]
    <2>1. CASE PrivHexKey[n] = None
      BY <1>1, <1>2, <2>1 DEF VerifySignature
    <2>2. CASE PrivHexKey[n] # None
      <3>1. [by |-> PrivHexKey[n], of |-> hash] # None
        BY <1>3, <2>2, PayloadAssumption DEF PayloadAssumption
      <3> QED
        BY <1>1, <2>2, <3>1 DEF VerifySignature
    <2> QED
      BY <2>1, <2>2
  <1> HIDE DEF hash
  <1>8. e.content = n
    BY <1>1
  <1> QED
    BY <1>4, <1>6, <1>7, <1>8 DEF Accepted

-----------------------------------------------------------------------------
(* The inductive invariant *)

\* Each property holds of what one handler returns, from the types alone.
IInv == TypeOK /\ RelaysAcceptGoodNotes /\ ReturnsTheKeys

\* Before the first note and the first follow list.
LEMMA InitIInv == Init => IInv
  <1> SUFFICES ASSUME Init PROVE IInv
    OBVIOUS
  <1>1. TypeOK
    BY PayloadAssumption, TagListsAreLists DEF PayloadAssumption, Init, TypeOK
  <1>2. RelaysAcceptGoodNotes
    BY DEF Init, RelaysAcceptGoodNotes
  <1>3. KeysAt(tags, Len(tags)) = {}
    BY DEF Init, KeysAt
  <1>4. ReturnsTheKeys
    BY <1>3 DEF Init, ReturnsTheKeys
  <1> QED
    BY <1>1, <1>2, <1>4 DEF IInv

\* Every step preserves the inductive invariant.
LEMMA NextIInv == IInv /\ [Next]_vars => IInv'
  <1> SUFFICES ASSUME IInv, [Next]_vars PROVE IInv'
    OBVIOUS
  <1>1. ASSUME NEW n \in NewNotes, CreateNoteEvent(n) PROVE IInv'
    <2>1. clock \in 0..MaxClock
      BY DEF IInv, TypeOK
    <2>2. /\ event' \in Events /\ event'.content = n
          /\ Accepted(event') <=> PrivHexKey[n] = PubHexKey[n] /\ n \notin Escaped
      BY <1>1, <2>1, FinishedIsGood DEF CreateNoteEvent
    <2>3. RelaysAcceptGoodNotes'
      BY <2>2 DEF RelaysAcceptGoodNotes, Accepted, VerifySignature, Fields
    <2> QED
      BY <1>1, <2>2, <2>3 DEF CreateNoteEvent, IInv, TypeOK, ReturnsTheKeys, KeysAt
  <1>2. CASE Second
    BY <1>2, PayloadAssumption DEF PayloadAssumption, Second, IInv, TypeOK,
         RelaysAcceptGoodNotes, Accepted, VerifySignature, Fields, ReturnsTheKeys, KeysAt
  <1>3. CASE HandleFollowListPubKeys
    <2>1. tags' \in TagLists /\ Len(tags') \in Nat /\ keys' = ExtractPubKeys(tags')
      BY <1>3, TagListsAreLists DEF HandleFollowListPubKeys
    <2>2. IF KeysAt(tags', Len(tags')) = {} THEN keys' = None
          ELSE AreTheKeys(tags', keys', Len(tags')) /\ keys' # None
      BY <2>1, Extracts
    <2>3. ReturnsTheKeys'
      BY <2>2 DEF ReturnsTheKeys, AreTheKeys, KeysAt
    <2>4. keys' \in Seq(Keys) \cup {None}
      BY <2>2 DEF AreTheKeys
    <2> QED
      BY <1>3, <2>1, <2>3, <2>4 DEF HandleFollowListPubKeys, IInv, TypeOK,
           RelaysAcceptGoodNotes, Accepted, VerifySignature, Fields
  <1>4. CASE ShortEvent \/ UNCHANGED vars
    BY <1>4 DEF ShortEvent, vars, IInv, TypeOK, RelaysAcceptGoodNotes, Accepted,
         VerifySignature, Fields, ReturnsTheKeys, KeysAt
  <1> QED
    BY <1>1, <1>2, <1>3, <1>4 DEF Next

\* The inductive invariant holds in every state of every behaviour.
THEOREM PayloadsInductive == Spec => []IInv
  BY InitIInv, NextIInv, PTL DEF Spec

\* Every variable keeps its type: an event has an id, and a signature by a key
\* over an id or none (nostrEvent.go:23-64), and what is collected from a follow
\* list are public keys (redis.go:27-52).
THEOREM TypeCorrect == Spec => []TypeOK
  <1>1. IInv => TypeOK
    BY DEF IInv
  <1> QED
    BY <1>1, PayloadsInductive, PTL

\* A relay accepts the event of a note exactly if its keys belong together and
\* nothing in it was escaped, for any notes, keys and times
\* (subscription.go:210-237, nostrEvent.go:23-64).
THEOREM GoodNotes == Spec => []RelaysAcceptGoodNotes
  <1>1. IInv => RelaysAcceptGoodNotes
    BY DEF IInv
  <1> QED
    BY <1>1, PayloadsInductive, PTL

\* From a follow list of any length with tags of every kind, the keys of its p
\* tags are returned in their order, and nil if there are none (redis.go:27-52).
THEOREM KeysReturned == Spec => []ReturnsTheKeys
  <1>1. IInv => ReturnsTheKeys
    BY DEF IInv
  <1> QED
    BY <1>1, PayloadsInductive, PTL
================================================================================

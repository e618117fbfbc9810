---------------------------- MODULE MCRelayManager ----------------------------
(* Instances of RelayManager for model checking. *)
EXTENDS RelayManager, TLC

CONSTANTS r1, r2, x1, x2

\* Every dial that succeeds is one of r1.
ToOneRelay == [n \in Conns |-> r1]

\* Two interchangeable requests that publish a note.
OneRelay == [x \in {x1, x2} |-> r1]
Notes == [x \in {x1, x2} |-> "note"]
NoteSymmetry == Permutations(Conns) \cup Permutations(Clients)

\* A bound: the search does not go on once the last of the connections has left
\* the table.  What could follow is only dials that fail.
DialsRemain ==
  (\A c \in Conns : sock[c] # "unused") => \E r \in Relays : connections[r] # None

\* A request that sends a CLOSE five seconds after its REQ, and another that
\* dials a relay which cannot be reached, or answers late, or never.
TwoTargets == (x1 :> r1) @@ (x2 :> r2)
OneOfEach == (x1 :> "req") @@ (x2 :> "note")
==============================================================================

---------------------------- MODULE MCEventRouting ----------------------------
(* The workloads of EventRouting for model checking. *)
EXTENDS EventRouting, TLC

CONSTANTS q1, q2, q3, q4, alice, session, ra, rb, rc

Four(w, x, y, z) == (q1 :> w) @@ (q2 :> x) @@ (q3 :> y) @@ (q4 :> z)

\* One request of each kind whose answers are told apart by a tracker.
FourKinds ==
  Four(Request("search", alice, session, rc, q1),
       Request("followsNotes", Empty, session, ra, q2),
       Request("entity", Empty, session, ra, q3),
       Request("followsMetadata", alice, session, ra, q4))

\* Searches by a known user, by a session and by nobody, next to the request
\* for the user's own profile that comes without any tracker entry.
ThreeSearches ==
  Four(Request("search", alice, session, rc, q1),
       Request("search", Empty, session, rc, q2),
       Request("search", Empty, Empty, rc, q3),
       Request("metadata", alice, session, ra, q4))

\* The requests that are tracked late, and those that are not tracked.
LateKinds ==
  Four(Request("entity", Empty, session, ra, q1),
       Request("npub", Empty, session, ra, q2),
       Request("followList", alice, session, rc, q3),
       Request("userNotes", alice, session, rc, q4))

AllThree == {FourKinds, ThreeSearches, LateKinds}
==============================================================================

------------------------------ MODULE LinkTable ------------------------------
(***************************************************************************)
(* What the relay manager promises to the rest of the server, without its  *)
(* goroutines, channels or sockets: a table with at most one link per      *)
(* relay.  A link is opened with a connection that was never used before.  *)
(* It leaves the table in one of two ways: it is dropped, and then its     *)
(* connection is closed for good in the same step, or it is replaced by a  *)
(* newer connection, which is allowed only while nothing confirms that the *)
(* relay answers.                                                          *)
(***************************************************************************)
CONSTANTS
  Relays,   \* relay URLs
  Conns,    \* connections
  None      \* no connection

VARIABLES
  link,       \* link[r]: the connection in the table for relay r, or None
  used,       \* connections that were ever opened
  retired,    \* connections that were closed
  confirmed   \* relays that answered recently

vars == <<link, used, retired, confirmed>>

TypeOK ==
  /\ link \in [Relays -> Conns \cup {None}]
  /\ used \subseteq Conns
  /\ retired \subseteq Conns
  /\ confirmed \subseteq Relays

Init ==
  /\ link = [r \in Relays |-> None]
  /\ used = {}
  /\ retired = {}
  /\ confirmed = {}

\* Both ways to put connection c in the table for r.
Install(r, c) ==
  /\ c \notin used
  /\ link' = [link EXCEPT ![r] = c]
  /\ used' = used \cup {c}
  /\ UNCHANGED <<retired, confirmed>>

Open(r, c) == link[r] = None /\ Install(r, c)

Replace(r, c) ==
  /\ link[r] # None
  /\ r \notin confirmed
  /\ Install(r, c)

Drop(r) ==
  /\ link[r] # None
  /\ retired' = retired \cup {link[r]}
  /\ link' = [link EXCEPT ![r] = None]
  /\ UNCHANGED <<used, confirmed>>

Confirm(r) == confirmed' = confirmed \cup {r} /\ UNCHANGED <<link, used, retired>>
Expire(r)  == confirmed' = confirmed \ {r} /\ UNCHANGED <<link, used, retired>>

Next ==
  \E r \in Relays :
    \/ \E c \in Conns : Open(r, c) \/ Replace(r, c)
    \/ Drop(r)
    \/ Confirm(r)
    \/ Expire(r)

Spec == Init /\ [][Next]_vars

(***************************************************************************)
(* The table never holds a closed connection, and never the same one for   *)
(* two relays: what GetConnection hands out (relayManager.go:62) is usable *)
(* at that moment and belongs to the relay asked for.                      *)
(***************************************************************************)
LinksAreLive ==
  \A r \in Relays :
    link[r] # None =>
      /\ link[r] \in used \ retired
      /\ \A s \in Relays \ {r} : link[s] # link[r]
==============================================================================

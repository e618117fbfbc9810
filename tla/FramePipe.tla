------------------------------- MODULE FramePipe -------------------------------
(***************************************************************************)
(* What the read side of a connection promises, without its goroutines and *)
(* channels: a pipe per connection.  Frames leave it in the order in which *)
(* they entered, each at most once, and events that leave it are           *)
(* published.  A frame is lost in two ways only: as the newest one while   *)
(* more than Capacity frames are in the pipe, or with a closed connection. *)
(***************************************************************************)
EXTENDS Naturals, Sequences

CONSTANTS
  Conns,     \* connections
  Capacity,  \* frames that fit into the read channel
  Frames     \* what relays send

VARIABLES
  pipe,    \* pipe[c]: frames read from c and not yet dealt with
  closed,  \* connections that were closed
  out      \* events published, of all connections

vars == <<pipe, closed, out>>

Init ==
  /\ pipe = [c \in Conns |-> << >>]
  /\ closed = {}
  /\ out = << >>

Put(c, f) ==
  /\ pipe' = [pipe EXCEPT ![c] = Append(@, f)]
  /\ UNCHANGED <<closed, out>>

Overflow(c) ==
  /\ Len(pipe[c]) > Capacity
  /\ pipe' = [pipe EXCEPT ![c] = SubSeq(@, 1, Len(@) - 1)]
  /\ UNCHANGED <<closed, out>>

Deliver(c) ==
  /\ pipe[c] # << >>
  /\ out' = IF Head(pipe[c]).kind = "event" THEN Append(out, Head(pipe[c])) ELSE out
  /\ pipe' = [pipe EXCEPT ![c] = Tail(@)]
  /\ UNCHANGED closed

Close(c) ==
  /\ closed' = closed \cup {c}
  /\ UNCHANGED <<pipe, out>>

Abandon(c) ==
  /\ c \in closed
  /\ pipe' = [pipe EXCEPT ![c] = << >>]
  /\ UNCHANGED <<closed, out>>

Next ==
  \E c \in Conns :
    \/ \E f \in Frames : Put(c, f)
    \/ Overflow(c) \/ Deliver(c)
    \/ Close(c) \/ Abandon(c)

Spec == Init /\ [][Next]_vars
================================================================================

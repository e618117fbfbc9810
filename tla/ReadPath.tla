-------------------------------- MODULE ReadPath --------------------------------
(***************************************************************************)
(* The read side of the connections to one relay: readLoop, the buffered   *)
(* read channel, processReadChannel and processMessage of                  *)
(* relay/relayManager.go, as far as HandleEvent's publication.  A          *)
(* connection is closed by somebody or replaced without being closed, so   *)
(* the goroutines of several connections may be at work at once.           *)
(*                                                                         *)
(* conn.Close interrupts the NextReader a readLoop waits in, but not a     *)
(* readLoop that has just got a frame.  A select with several ready cases  *)
(* takes any of them.  EventRouting has what HandleEvent does in detail;   *)
(* here it is one publication that takes a while.                          *)
(***************************************************************************)
EXTENDS Naturals, Sequences

CONSTANTS
  Conns,      \* connections the model may dial
  Capacity,   \* the buffer of the read channel (1000)
  Kinds,      \* kinds of frames that relays send, see FrameKinds
  MaxFrames,  \* frames of all connections: bounds the model
  None

\* event: an EVENT message with an object in third place; other: any other
\* message that has no effect beyond the log and the rate limiter; skipped:
\* no text or no JSON array; empty: the JSON array [] or null; short: an EVENT
\* message of fewer than three elements.
FrameKinds == {"event", "other", "skipped", "empty", "short"}

ASSUME ReadPathAssumption ==
  /\ Capacity \in Nat \ {0}
  /\ MaxFrames \in Nat
  /\ Kinds \subseteq FrameKinds
  /\ None \notin Conns

VARIABLES
  current,   \* the connection in the table, or None
  conn,      \* whether a connection's context is live
  reader,    \* where a readLoop is: in NextReader, with a frame, or returned
  hand,      \* the frame it has: a sequence of at most one
  readChan,  \* the read channel
  proc,      \* whether a processReadChannel has returned
  handling,  \* the event HandleEvent is at work on: a sequence of at most one
  published, \* events published, in order
  arrived,   \* frames read so far
  up         \* the process has not panicked

table == <<current, conn>>
reading == <<reader, hand>>
processing == <<proc, handling, published>>
vars == <<table, reading, readChan, processing, arrived, up>>

Frame(c, n, k) == [conn |-> c, id |-> n, kind |-> k]
Frames == {Frame(c, n, k) : c \in Conns, n \in 1..MaxFrames, k \in Kinds}
AtMostOne == {<< >>} \cup {<<f>> : f \in Frames}

\* The read channel never holds more than it was made for (line 99).
TypeOK ==
  /\ current \in Conns \cup {None}
  /\ conn \in [Conns -> {"unused", "live", "cancelled"}]
  /\ reader \in [Conns -> {"none", "read", "push", "done"}]
  /\ hand \in [Conns -> AtMostOne]
  /\ readChan \in [Conns -> Seq(Frames)]
  /\ \A c \in Conns : Len(readChan[c]) <= Capacity
  /\ proc \in [Conns -> {"none", "run", "done"}]
  /\ handling \in [Conns -> AtMostOne]
  /\ published \in Seq(Frames)
  /\ arrived \in 0..MaxFrames
  /\ up \in BOOLEAN

Init ==
  /\ current = None
  /\ conn = [c \in Conns |-> "unused"]
  /\ reader = [c \in Conns |-> "none"]
  /\ hand = [c \in Conns |-> << >>]
  /\ readChan = [c \in Conns |-> << >>]
  /\ proc = [c \in Conns |-> "none"]
  /\ handling = [c \in Conns |-> << >>]
  /\ published = << >>
  /\ arrived = 0
  /\ up = TRUE

-----------------------------------------------------------------------------
(* Connections *)

\* createNewConnection: for an empty entry of the table, or in place of a
\* connection that GetConnection does not trust.
Dial(c) ==
  /\ conn[c] = "unused"
  /\ current' = c
  /\ conn' = [conn EXCEPT ![c] = "live"]
  /\ reader' = [reader EXCEPT ![c] = "read"]
  /\ proc' = [proc EXCEPT ![c] = "run"]
  /\ UNCHANGED <<hand, readChan, handling, published, arrived, up>>

\* CloseConnection works on what the table holds for the URL.
CloseCurrent ==
  /\ conn' = [c \in Conns |-> IF c = current THEN "cancelled" ELSE conn[c]]
  /\ current' = None

\* writeLoop and pingHandler, of this connection or of an older one.
CloseConnection ==
  /\ current # None
  /\ CloseCurrent
  /\ UNCHANGED <<reading, readChan, processing, arrived, up>>

-----------------------------------------------------------------------------
(* readLoop *)

\* The select at the head of the loop.
LoopHead(c) == IF conn[c] = "cancelled" THEN "done" ELSE "read"

\* NextReader and ReadAll return frame n of connection c.
Receive(c, k) ==
  /\ reader[c] = "read"
  /\ arrived < MaxFrames
  /\ arrived' = arrived + 1
  /\ IF k = "skipped"
     THEN reader' = [reader EXCEPT ![c] = LoopHead(c)] /\ UNCHANGED hand
     ELSE /\ reader' = [reader EXCEPT ![c] = "push"]
          /\ hand' = [hand EXCEPT ![c] = <<Frame(c, arrived + 1, k)>>]
  /\ UNCHANGED <<table, readChan, processing, up>>

\* NextReader fails: readLoop closes the connection for some errors, and
\* for the others, the one of a closed socket among them, only returns.
ReadFails(c) ==
  /\ reader[c] = "read"
  /\ reader' = [reader EXCEPT ![c] = "done"]
  /\ CloseCurrent \/ UNCHANGED table
  /\ UNCHANGED <<hand, readChan, processing, arrived, up>>

\* The select with a default: a full channel drops the frame.
RoomForOneMore(c) == Len(readChan[c]) <= Capacity      \* mutant
HasRoom(c) == Len(readChan[c]) < Capacity

PushTo(c, frames) ==
  /\ reader[c] = "push"
  /\ HasRoom(c)
  /\ readChan' = [readChan EXCEPT ![c] = frames]
  /\ hand' = [hand EXCEPT ![c] = << >>]
  /\ reader' = [reader EXCEPT ![c] = LoopHead(c)]
  /\ UNCHANGED <<table, processing, arrived, up>>

PushesInFront(c) == PushTo(c, hand[c] \o readChan[c])  \* mutant
Push(c) == PushTo(c, readChan[c] \o hand[c])

Drop(c) ==
  /\ reader[c] = "push"
  /\ ~HasRoom(c)
  /\ Head(hand[c]).kind # "empty"
  /\ hand' = [hand EXCEPT ![c] = << >>]
  /\ reader' = [reader EXCEPT ![c] = LoopHead(c)]
  /\ UNCHANGED <<table, readChan, processing, arrived, up>>

\* The log of the drop prints msg[0]; nobody recovers.
DropPanics(c) ==
  /\ reader[c] = "push"
  /\ ~HasRoom(c)
  /\ Head(hand[c]).kind = "empty"
  /\ up' = FALSE
  /\ UNCHANGED <<table, reading, readChan, processing, arrived>>

-----------------------------------------------------------------------------
(* processReadChannel *)

HasNext(c) ==
  /\ proc[c] = "run"
  /\ handling[c] = << >>
  /\ readChan[c] # << >>

\* processMessage and HandleEvent up to the publication.
Take(c) ==
  /\ HasNext(c)
  /\ Head(readChan[c]).kind # "short"
  /\ readChan' = [readChan EXCEPT ![c] = Tail(@)]
  /\ handling' = [handling EXCEPT ![c] =
                    IF Head(readChan[c]).kind = "event"
                    THEN <<Head(readChan[c])>> ELSE << >>]
  /\ UNCHANGED <<table, reading, proc, published, arrived, up>>

\* eventData[2]
TakePanics(c) ==
  /\ HasNext(c)
  /\ Head(readChan[c]).kind = "short"
  /\ up' = FALSE
  /\ UNCHANGED <<table, reading, readChan, processing, arrived>>

Publish(c) ==
  /\ handling[c] # << >>
  /\ published' = published \o handling[c]
  /\ handling' = [handling EXCEPT ![c] = << >>]
  /\ UNCHANGED <<table, reading, readChan, proc, arrived, up>>

\* ctx.Done(), which the select may pass over while frames are waiting.
ReturnIf(c, done) ==
  /\ proc[c] = "run"
  /\ handling[c] = << >>
  /\ done
  /\ proc' = [proc EXCEPT ![c] = "done"]
  /\ UNCHANGED <<table, reading, readChan, handling, published, arrived, up>>

ReturnsWhenReplaced(c) ==                              \* mutant
  ReturnIf(c, conn[c] = "cancelled" \/ c # current)
WaitsForClose(c) ==                                    \* mutant
  ReturnIf(c, conn[c] = "cancelled" /\ c = current)
Return(c) == ReturnIf(c, conn[c] = "cancelled")

-----------------------------------------------------------------------------

Step(c) ==
  \/ Dial(c)
  \/ \E k \in Kinds : Receive(c, k)
  \/ ReadFails(c)
  \/ Push(c) \/ Drop(c) \/ DropPanics(c)
  \/ Take(c) \/ TakePanics(c)
  \/ Publish(c)
  \/ Return(c)

Next == up /\ (CloseConnection \/ \E c \in Conns : Step(c))

\* Goroutines that can run do so; a NextReader on a closed socket fails.
Fairness ==
  \A c \in Conns :
    /\ WF_vars(up /\ (Push(c) \/ Drop(c) \/ DropPanics(c)))
    /\ WF_vars(up /\ conn[c] = "cancelled" /\ ReadFails(c))
    /\ WF_vars(up /\ (Take(c) \/ TakePanics(c) \/ Return(c)))
    /\ WF_vars(up /\ Publish(c))

Spec == Init /\ [][Next]_vars
FairSpec == Spec /\ Fairness

-----------------------------------------------------------------------------
(* Properties *)

\* What connection c has read and not dealt with.  A channel whose processor
\* has returned is garbage.
Pending(c) ==
  IF proc[c] = "done" THEN << >> ELSE handling[c] \o readChan[c] \o hand[c]

Pipes == INSTANCE FramePipe WITH
  pipe <- [c \in Conns |-> Pending(c)],
  closed <- {c \in Conns : conn[c] = "cancelled"},
  out <- published

(***************************************************************************)
(* The events of a connection are published in the order of their arrival, *)
(* each once, and the only ones missing came when more than Capacity       *)
(* frames were unfinished, or were left behind by a closed connection.     *)
(* Whatever readLoop, processReadChannel, closes and replacements do in    *)
(* between (relayManager.go:199-280).                                      *)
(***************************************************************************)
ImplementsFramePipe == Pipes!Spec

\* The processReadChannel of a closed connection returns, also when it was
\* publishing or frames kept its select busy (relayManager.go:243-261).
ClosedProcessorsReturn ==
  \A c \in Conns : conn[c] = "cancelled" ~> proc[c] = "done" \/ ~up

\* An event that got into the read channel is published unless its
\* connection is closed (relayManager.go:226-227, 249-260).
AcceptedEventsArePublished ==
  \A c \in Conns :
    \A n \in 1..MaxFrames :
      LET f == Frame(c, n, "event") IN
      (\E i \in 1..Len(readChan[c]) : readChan[c][i] = f)
        ~> \/ \E i \in 1..Len(published) : published[i] = f
           \/ conn[c] = "cancelled"
           \/ ~up
================================================================================

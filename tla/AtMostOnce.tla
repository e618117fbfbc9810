------------------------------- MODULE AtMostOnce -------------------------------
(***************************************************************************)
(* What the user service promises about a request of the application,      *)
(* without queues, consumers and failures: it is taken up once or never,   *)
(* its stages are started in their order and once each, and a request that *)
(* is over, done or lost, never comes back.                                *)
(***************************************************************************)
EXTENDS Naturals, Sequences

CONSTANTS
  Requests,
  Program(_)  \* the stages of a request, in order

VARIABLES
  state,   \* unsent, sent, taken or over
  started  \* started[r]: the stages of r that were started

vars == <<state, started>>

Init ==
  /\ state = [r \in Requests |-> "unsent"]
  /\ started = [r \in Requests |-> << >>]

Send(r) ==
  /\ state[r] = "unsent"
  /\ state' = [state EXCEPT ![r] = "sent"]
  /\ UNCHANGED started

TakeUp(r) ==
  /\ state[r] = "sent"
  /\ state' = [state EXCEPT ![r] = "taken"]
  /\ UNCHANGED started

\* With its last stage a request is over.
StartStage(r) ==
  /\ state[r] = "taken"
  /\ started' = [started EXCEPT ![r] = SubSeq(Program(r), 1, Len(@) + 1)]
  /\ state' = [state EXCEPT ![r] =
                 IF Len(started[r]) + 1 = Len(Program(r)) THEN "over" ELSE @]

\* Requests that are discarded, or lost with a broker or a process.
Lose ==
  \E gone \in SUBSET {r \in Requests : state[r] \in {"sent", "taken"}} :
    /\ state' = [r \in Requests |-> IF r \in gone THEN "over" ELSE state[r]]
    /\ UNCHANGED started

Next == Lose \/ \E r \in Requests : Send(r) \/ TakeUp(r) \/ StartStage(r)

Spec == Init /\ [][Next]_vars
================================================================================

------------------------------ MODULE MCPayloads ------------------------------
(* The instance of Payloads for model checking. *)
EXTENDS Payloads, TLC

CONSTANTS good, markup, foreign, malformed, alice, bob

\* The private key of a note is its author's, somebody else's or none.
Authors == [n \in NewNotes |-> alice]
Signers == (good :> alice) @@ (markup :> alice) @@ (foreign :> bob) @@ (malformed :> None)
================================================================================

------------------------------ MODULE MCWritePath ------------------------------
(* The instance of WritePath for model checking. *)
EXTENDS WritePath, TLC

CONSTANTS w1, w2, r1, r2

\* Two requests to one relay, or to two.
OneOrTwo == {(r1 :> w1) @@ (r2 :> w1), (r1 :> w1) @@ (r2 :> w2)}
================================================================================

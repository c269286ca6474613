------------------------------ MODULE MCWsHub ------------------------------
(* Constants for the model-checking runs of WsHub.                          *)
EXTENDS WsHub, TLC

CONSTANTS u1, u2, c1, c2, a

\* Two connections of one user, and a user without any.
TwoOfOne == c1 :> u1 @@ c2 :> u1
\* A message for each of the users and a balance for everyone.
AllSorts == {[user |-> u1, kind |-> "session"],
             [user |-> u2, kind |-> "session"],
             [user |-> NoUser, kind |-> "balance"]}
=============================================================================

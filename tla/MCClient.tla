------------------------------ MODULE MCClient ------------------------------
(* Client for TLC: two connections to one broker and one to another.        *)
EXTENDS Client, TLC

CONSTANTS k1, k2, k3, b1, b2
MCBrokerOf == k1 :> b1 @@ k2 :> b1 @@ k3 :> b2
=============================================================================

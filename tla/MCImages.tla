------------------------------ MODULE MCImages ------------------------------
(***************************************************************************)
(* Images and Creation for one pool of every policy.                       *)
(***************************************************************************)
EXTENDS Creation, TLC

CONSTANTS c1, c2, c3, a, b, n

ThreePools    == c1 :> a @@ c2 :> b @@ c3 :> n
ThreePolicies == a :> "Always" @@ b :> "IfNotPresent" @@ n :> "Never"

=============================================================================

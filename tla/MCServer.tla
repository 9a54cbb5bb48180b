------------------------------ MODULE MCServer ------------------------------
(***************************************************************************)
(* Server with model values for its pools and calls.                       *)
(***************************************************************************)
EXTENDS Server

CONSTANTS p1, p2, c1, c2

=============================================================================

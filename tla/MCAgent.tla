------------------------------- MODULE MCAgent -------------------------------
(***************************************************************************)
(* Boot, and with it Agent, in a machine of its own.                       *)
(***************************************************************************)
EXTENDS Boot

=============================================================================

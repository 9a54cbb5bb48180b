------------------------------- MODULE MCLogs -------------------------------
(***************************************************************************)
(* Logs with short wires.                                                  *)
(***************************************************************************)
EXTENDS Logs

=============================================================================

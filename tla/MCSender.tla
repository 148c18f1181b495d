------------------------------ MODULE MCSender ------------------------------
(* Values for the CONSTANTS of Sender. *)
EXTENDS Sender

CONSTANTS r1, r2
=============================================================================

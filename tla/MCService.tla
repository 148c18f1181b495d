------------------------------ MODULE MCService -----------------------------
(* Values for the CONSTANTS of Service. *)
EXTENDS Service, TLC

CONSTANTS c1, c2

\* A stop request or Ctrl+C, and a close (which a service does not tell apart).
StopAndClose == c1 :> "stop" @@ c2 :> "close"
=============================================================================

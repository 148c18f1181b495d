----------------------------- MODULE MCPipeline -----------------------------
(* Values for the CONSTANTS of Pipeline. *)
EXTENDS Pipeline, TLC

CONSTANTS f1, f2

\* Two files of one hour, of two processes of the server, and lock events in them.
SameHour == f1 :> 0 @@ f2 :> 0
Timeouts == [e \in Event |-> "TTIMEOUT"]
=============================================================================

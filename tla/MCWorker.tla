------------------------------ MODULE MCWorker ------------------------------
(* Values for the CONSTANTS of Worker. *)
EXTENDS Worker, TLC

CONSTANTS a, b

\* Two events of two aggregators that meet in one accumulator.
KindsOfTwo == a :> "TTIMEOUT" @@ b :> "TDEADLOCK"

KindsOfOne == a :> "TTIMEOUT"
=============================================================================

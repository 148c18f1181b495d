------------------------------ MODULE MCLogger ------------------------------
(* Values for the CONSTANTS of Logger. *)
EXTENDS Logger, TLC

CONSTANTS t1, t2

Threads == {t1, t2}
Symmetry == Permutations(Threads)
=============================================================================

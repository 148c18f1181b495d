---------------------------- MODULE MCStressTest ----------------------------
(* Values for the CONSTANTS of StressTest. *)
EXTENDS StressTest

\* An event is told from the others by its place.
Named(f, b, kinds) == [i \in DOMAIN kinds |-> [at |-> <<f, b, i>>, dbmssql |-> kinds[i]]]

Kinds == BoundedSeq(BOOLEAN, 2)

AnyEvent == [at : (1 .. 3) \X (1 .. 2) \X (1 .. 2), dbmssql : BOOLEAN]

\* Up to three files of up to two buffers of up to two events.
SmallLogs ==
    {<<>>} \cup {<< <<Named(1, 1, a), Named(1, 2, b)>> >> : a, b \in Kinds}
    \cup {<< <<Named(1, 1, a)>>, <<Named(2, 1, b), Named(2, 2, c)>> >> :
             a, b, c \in Kinds}
    \cup {<< <<Named(1, 1, a), Named(1, 2, b)>>, <<>>, <<Named(3, 1, c)>> >> :
             a, b, c \in Kinds}
=============================================================================

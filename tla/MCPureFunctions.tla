--------------------------- MODULE MCPureFunctions ---------------------------
(***************************************************************************)
(* Log files of two kinds: the BOM and up to three records, of which the   *)
(* last may be half written and what follows a header on its line may look *)
(* like one; and up to four pieces of text in any order.                   *)
(***************************************************************************)
EXTENDS PureFunctions

Record == <<"d", "d", ":", "d", "d", ".", "d", "d", "d", "d", "d", "d", "-">>
Bodies == {<<"d">>, <<"d", "nl", "x">>, <<"d", "x">> \o Record \o <<"d">>,
           <<"d", "x", "-", "d", "d", ".", "d">>}
Recorded == UNION {[1 .. k -> Bodies] : k \in 0 .. 3}

Log(bodies) ==
    <<"x", "x", "bf">> \o FlattenSeq([i \in DOMAIN bodies |-> Record \o bodies[i] \o <<"nl">>])

Pieces == {Record, <<"nl">>, <<"d">>, <<"x">>, <<"-">>}
Texted == UNION {[1 .. k -> Pieces] : k \in 1 .. 4}

MCFiles ==
    UNION {{SubSeq(Log(b), 1, size) :
               size \in (IF Len(Log(b)) > 18 THEN Len(Log(b)) - 15 ELSE 3) .. Len(Log(b))} :
           b \in Recorded}
    \cup {FlattenSeq(t) : t \in Texted}
MCWindows == {14, 20, 33, 200}

MCMoments == 0 .. 47
MCDelays == 0 .. 12

MCWords == {"http", "://", ":", "/", "server", "host", "domain", "80", "8080", "base", "hs"}
MCServers == {<<>>, <<"server">>, <<"host", "domain">>}
MCPorts == {<<"80">>, <<"8080">>}
MCTargets == {<<"/">>, <<"/", "base", "/", "hs">>}

MCLogs == AnalysedLogs
=============================================================================

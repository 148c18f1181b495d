------------------------------ MODULE MCParser ------------------------------
(* A set of logs for ParsedLog, and some contents that are not logs. *)
EXTENDS ParsedLog

K == <<"k">>
ContextKey == <<"C">>

Plain(t) == [quote |-> "none", chars |-> t]
Single(t) == [quote |-> "'", chars |-> t]
Double(t) == [quote |-> "dq", chars |-> t]

\* The ways a value can be written, and what can be inside the quotes.
AnyValue ==
    {Plain(<<>>), Plain(<<"v", "1">>), Plain(<<":", "-", ".">>),
     Single(<<>>), Single(<<",", "=">>), Single(<<"'">>), Single(<<"v", "dq">>),
     Double(<<"cr", "nl", "1">>), Double(<<"'", ",">>), Double(<<"dq", "'">>)}

AnyContext == {Single(<<"cr", "nl", "v">>), Single(<<"cr">>), Plain(<<"v">>)}

Record(properties) ==
    [minute |-> <<"0", "1">>, second |-> <<"5">>, msecond |-> <<"0">>,
     duration |-> <<"7">>, name |-> <<"E">>, level |-> <<"3">>,
     properties |-> properties]

ShortLogs == {<<Record(<<<<K, v>>>>)>> : v \in AnyValue}
        \cup {<<Record(<<<<ContextKey, v>>>>)>> : v \in AnyContext}

TwoProperties == {<<Record(<<<<K, v>>, <<K, w>>>>)>> :
                    v, w \in {Plain(<<>>), Single(<<"'">>), Double(<<",">>)}}

TwoRecords == {<<Record(<<<<K, v>>>>), Record(<<<<K, w>>>>)>> :
                 v, w \in {Plain(<<"v">>), Single(<<"nl">>)}}

MCLogs == ShortLogs \cup TwoProperties \cup TwoRecords

Begin == <<"0", ":", "0", ".", "0", "-", "0", ",", "E", ",", "0", ",">>

\* A blank line, a name with a digit, a key with a quote, a value after a
\* closing quote, an open quote, a file that begins with a new line.
NotLogs ==
    {Begin \o <<"k", "=", "nl", "nl", "0", ":">>,
     <<"0", ":", "0", ".", "0", "-", "0", ",", "E", "1", ",">>,
     Begin \o <<"'", "=">>,
     Begin \o <<"k", "=", "'", "a", "'", "b", "'", ",", "nl", "c">>,
     Begin \o <<"k", "=", "'", "dq", "nl", "0">>,
     <<"nl", "0", ":">>, <<"nl", "nl">>}

MCInputs == {LogText(log) : log \in MCLogs} \cup NotLogs

MCChar == {"0", "1", "3", "5", "7", ":", ".", "-", ",", "=", "'", "dq", "cr",
           "nl", "k", "C", "E", "v", "a", "b", "c"}

MCKnown == {K, ContextKey}
=============================================================================

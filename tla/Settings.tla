------------------------------ MODULE Settings ------------------------------
(***************************************************************************)
(* Reading settings.json (settings.cpp): a value is [type, value], and the *)
(* address of the receiver a sequence of words and of the signs "://", ":" *)
(* and "/".  A file that is missing is made with the values of the         *)
(* template; one that is no JSON object is taken for incorrect.            *)
(***************************************************************************)
EXTENDS Texts

\* The keys that are read, with the type each must have.
TypeOf == [logs_path |-> "string", service_path |-> "string", user |-> "string",
           password |-> "string", log_storage_duration_in_hours |-> "int64",
           duration_long_request |-> "int64"]

\* The values CreateSettings writes.
TemplateValue ==
    [logs_path |-> "", service_path |-> <<"http", "://", "server", ":", "port", "/", "base">>,
     user |-> "", password |-> "", log_storage_duration_in_hours |-> 24,
     duration_long_request |-> 3000000]
Template == [k \in DOMAIN TypeOf |-> [type |-> TypeOf[k], value |-> TemplateValue[k]]]

\* Server, port and target; what a return leaves unset is empty.
ParseServicePath(service_path) ==
    LET tmp == After(service_path, "://")
        Has(s, c) == \E i \in DOMAIN s : s[i] = c
        Target(s) == SubSeq(s, Len(Upto(s, "/")) + 1, Len(s))
        none == [server |-> <<>>, port |-> <<>>, target |-> <<>>]
    IN IF ~Has(service_path, "://") THEN none
       ELSE IF Has(tmp, ":")
       THEN LET port == After(tmp, ":")
            IN IF Has(port, "/")
               THEN [server |-> Upto(tmp, ":"), port |-> Upto(port, "/"), target |-> Target(port)]
               ELSE [none EXCEPT !.server = Upto(tmp, ":")]
       ELSE IF Has(tmp, "/")
       THEN [server |-> Upto(tmp, "/"), port |-> <<"80">>, target |-> Target(tmp)]
       ELSE none

\* A value that is there and has its type is taken.
ReadValue(j_object, key) ==
    key \in DOMAIN j_object /\ j_object[key].type = TypeOf[key]

\* (Seeded fault: whether the last value could be read decides.)
ReadLast(j_object) ==
    LET is_correct == ReadValue(j_object, "duration_long_request")
    IN [is_correct |-> is_correct,
        path |-> IF is_correct THEN ParseServicePath(j_object.service_path.value) ELSE <<>>]

\* Read, from the values in the file; the address is parsed when all are there.
Read(j_object) ==
    LET is_correct == \A key \in DOMAIN TypeOf : ReadValue(j_object, key)
    IN [is_correct |-> is_correct,
        path |-> IF is_correct THEN ParseServicePath(j_object.service_path.value) ELSE <<>>]
=============================================================================

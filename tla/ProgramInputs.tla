--------------------------- MODULE ProgramInputs ---------------------------
(***************************************************************************)
(* What the program makes of what it finds: the settings it is given       *)
(* (settings.cpp), a log file that was there before it (reader.cpp), and a *)
(* log that it is to analyse (RunAnalysis).  A behaviour takes a problem,  *)
(* of which the meaning is known, and answers with what the code computes. *)
(* InputProofs has the results for all files, windows, times, addresses    *)
(* and logs.                                                               *)
(***************************************************************************)
EXTENDS Reader, Settings, Analysis, FiniteSets

CONSTANTS Files,                   \* log files, as sequences of characters
          Windows,                 \* values of size_buffer
          Moments, Delays,         \* when a record is written, when it is read
          Words,                   \* the words of an address, with its signs
          Servers, Ports, Targets, \* parts of addresses, as sequences of words
          EventLogs                     \* sequences of events

Character == {"d", "x", "nl", "bf"} \cup {Header[k] : k \in DOMAIN Header}
ASSUME FilesAssumption == Files \subseteq Seq(Character) /\ Windows \subseteq Nat \ {0}

ASSUME TimesAssumption ==
    /\ HourLen \in Nat \ {0} /\ Extra \in Nat
    /\ Spring \in Int /\ Autumn \in Int
    /\ Moments \subseteq Int /\ Delays \subseteq Nat

\* The signs of an address are in no part of it, but for the slashes of the
\* target, which begins with one; a missing port is empty.
ASSUME AddressAssumption ==
    LET Without(signs) == {s \in Seq(Words) : \A i \in DOMAIN s : s[i] \notin signs}
    IN /\ {"http", "://", ":", "/"} \subseteq Words
       /\ Servers \subseteq Without({"://", ":", "/"})
       /\ Ports \subseteq Without({"://", ":", "/"})
       /\ Targets \subseteq {s \in Without({"://", ":"}) : s # <<>> /\ s[1] = "/"}

ASSUME LogsAssumption == \A log \in EventLogs : log \in Seq(ToSet(log))

VARIABLES problem, answer
inputs == <<problem, answer>>

-----------------------------------------------------------------------------
(* Log files. *)

Breaks == {"nl", "bf"}

\* The header of a record fills the characters after the h-th.
HeaderAfter(file, h) ==
    h + Len(Header) <= Len(file) /\ \A k \in DOMAIN Header : file[h + 14 - k] = Header[k]

\* Windows of w characters follow each other from the end of the file; two
\* characters are read together when they are in the same one.
Together(file, w, i, j) == (Len(file) - i) \div w = (Len(file) - j) \div w

\* A line starts after the s-th character, and a header in it, with no break
\* before it, is read together with that character.
LineWithHeader(file, w, s) ==
    /\ s \in DOMAIN file /\ file[s] \in Breaks
    /\ \E h \in s .. Len(file) :
          /\ HeaderAfter(file, h) /\ Together(file, w, s, h + Len(Header))
          /\ \A i \in s + 1 .. h : file[i] \notin Breaks

\* A record starts after the s-th character: its header, read together with
\* that character, and the digits of a duration, after which there is no sign
\* of a header or nothing yet.
RecordStart(file, w, s) ==
    /\ s \in DOMAIN file /\ file[s] \in Breaks
    /\ HeaderAfter(file, s) /\ Together(file, w, s, s + Len(Header))
    /\ \E e \in s + Len(Header) .. Len(file) :
          /\ \A i \in s + Len(Header) + 1 .. e : file[i] = "d"
          /\ e = Len(file) \/ file[e + 1] \in {"x"} \cup Breaks

-----------------------------------------------------------------------------
(* Settings: an address, and the keys that are missing or have a value of  *)
(* another type.                                                           *)

Address(server, port, target) ==
    LET end == IF port = <<>> THEN target ELSE <<":">> \o (port \o target)
    IN <<"http">> \o (<<"://">> \o (server \o end))

SettingsFile(address, missing, mistyped) ==
    [k \in DOMAIN TypeOf \ missing |->
        IF k \in mistyped THEN [type |-> "bool", value |-> TRUE]
        ELSE IF k = "service_path" THEN [type |-> "string", value |-> address]
        ELSE Template[k]]

-----------------------------------------------------------------------------
(* Rows of a report of sums. *)

\* The paths through nested rows: what is written for a key and what is below.
Written(row) == <<row.key, row.key_hash>>
LeavesLast(rows) == {<<Written(row), row.rows>> : row \in rows}
Leaves(Inner(_), rows) ==
    UNION {{<<Written(row), leaf>> : leaf \in Inner(row.rows)} : row \in rows}
Leaves2(rows) == Leaves(LeavesLast, rows)
Leaves3(rows) == Leaves(Leaves2, rows)
Leaves4(rows) == Leaves(Leaves3, rows)
Leaves5(rows) == Leaves(Leaves4, rows)

\* What is written for a moment, a name, and a text that is hashed.
Dated(key) == <<ToDateFormatString(key), <<>>>>
Plainly(key) == <<key, <<>>>>
WithHash(key) == <<key, <<"sha256", key>>>>
LockPath(key, below) ==
    <<Dated(key[1]), <<Plainly(key[2]), <<WithHash(key[3]), <<WithHash(key[4]), below>>>>>>>>
SqlPath(key, below) == LockPath(key, <<WithHash(key[5]), below>>)

\* keys and values are those of some of n events; the sum of the values of
\* the events that have the same keys as the k-th.
Total(n, keys, values, k) ==
    LET own == keys[k]
        sum[i \in 0 .. n] ==
            IF i = 0 THEN Zero(values[k])
            ELSE IF i \in DOMAIN keys /\ keys[i] = own THEN Plus(sum[i - 1], values[i])
            ELSE sum[i - 1]
    IN sum[n]

-----------------------------------------------------------------------------
InputProblems ==
    [kind : {"start"}, file : Files, window : Windows]
    \* calls: how often IsWorkingFile was called before.
    \cup [kind : {"time"}, written : Moments, later : Delays, calls : {0, 1}]
    \cup [kind : {"settings"}, server : Servers, port : Ports \cup {<<>>}, target : Targets,
          missing : SUBSET DOMAIN TypeOf, mistyped : SUBSET DOMAIN TypeOf]
    \cup [kind : {"analysis"}, log : EventLogs]

InputsInit == problem \in InputProblems /\ answer = <<>>

FindStart ==
    /\ problem.kind = "start"
    /\ answer' = <<FindStartPosition(problem.file, problem.window)>>

\* The file of the hour of the wall clock at which a record is written.
WatchFile ==
    /\ problem.kind = "time"
    /\ LET tm == GetFileTime(LocalTime(problem.written).tm_hour)
       IN answer' = <<IsWorkingFile(FileTime(tm, problem.calls),
                                    problem.written + problem.later)>>

ReadSettings ==
    /\ problem.kind = "settings"
    /\ answer' = <<Read(SettingsFile(Address(problem.server, problem.port, problem.target),
                                     problem.missing, problem.mistyped))>>

Analyze ==
    /\ problem.kind = "analysis"
    /\ answer' = <<RunAnalysis(problem.log)>>

InputsNext ==
    /\ answer = <<>>
    /\ UNCHANGED problem
    /\ FindStart \/ WatchFile \/ ReadSettings \/ Analyze

InputsSpec == InputsInit /\ [][InputsNext]_inputs

Answered(kind) == answer # <<>> /\ problem.kind = kind

(* FindStartPosition: reading starts at the very beginning or at a line    *)
(* that has a header, and not before any record whose header was read      *)
(* together with the character before it, whatever else is in the file.    *)
StartsAtARecord ==
    Answered("start") =>
        LET file == problem.file
            w == problem.window
        IN /\ answer[1] = 0 \/ LineWithHeader(file, w, answer[1])
           /\ \A s \in DOMAIN file : RecordStart(file, w, s) => s <= answer[1]

(* IsWorkingFile: a file is watched while the server writes it and for the *)
(* extra time, in the hour that autumn repeats too, and no longer than an  *)
(* hour on top.                                                            *)
WatchedWhileWritten ==
    Answered("time") =>
        /\ problem.later <= Extra => answer[1]
        /\ answer[1] => problem.later <= 2 * HourLen + Extra

(* Read: settings are correct just when no key is missing or of another    *)
(* type; the server, the port, 80 if there is none, and the target are     *)
(* then those of the address.                                              *)
SettingsReadBack ==
    Answered("settings") =>
        /\ answer[1].is_correct <=> problem.missing \cup problem.mistyped = {}
        /\ answer[1].is_correct =>
               answer[1].path = [server |-> problem.server,
                                 port |-> IF problem.port = <<>> THEN <<"80">> ELSE problem.port,
                                 target |-> problem.target]

(* RunAnalysis: for every minute, base, context and form of a query that   *)
(* occurs, and none other, there is one path through the rows, with the    *)
(* sums over exactly its events; locks are counted likewise, and each of   *)
(* them has a row of its own, in the order of the log.                     *)
AnalysisAddsUp ==
    Answered("analysis") =>
        LET log == problem.log
            Of(name) == {k \in DOMAIN log : log[k].name = name}
            sqlKeys == [k \in Of("DBMSSQL") |-> SqlKeys(log[k])]
            sqlValues == [k \in Of("DBMSSQL") |-> SqlValues(log[k])]
            lockKeys == [k \in Of("TTIMEOUT") |-> LockKeys(log[k])]
            ones == [k \in Of("TTIMEOUT") |-> <<1>>]
        IN /\ Leaves5(answer[1].DBMSSQL) =
                 {SqlPath(sqlKeys[k], Total(Len(log), sqlKeys, sqlValues, k)) : k \in Of("DBMSSQL")}
           /\ Leaves4(answer[1].TTIMEOUT) =
                 {LockPath(lockKeys[k], Total(Len(log), lockKeys, ones, k)) : k \in Of("TTIMEOUT")}
           /\ answer[1].MANAGED_LOCKS =
                 FlattenSeq([k \in DOMAIN log |->
                     IF log[k].name = "TTIMEOUT" THEN <<ManagedLockEvent(log[k])>> ELSE <<>>])
=============================================================================

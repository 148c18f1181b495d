------------------------------- MODULE Reader -------------------------------
(***************************************************************************)
(* What the reader of a file computes (reader.cpp): the place from which   *)
(* it starts to read, in a file that is a sequence of characters ("d" for  *)
(* any digit, "nl" for a line break, "bf" for the last byte of the BOM,    *)
(* "x" for anything else), and the time until which it watches the file.   *)
(***************************************************************************)
EXTENDS Integers, Sequences

-----------------------------------------------------------------------------
(* Where to start. *)

\* "mm:ss.dddddd-", the header of a record, from its end to its start.
Header == <<"-", "d", "d", "d", "d", "d", "d", ".", "d", "d", ":", "d", "d">>

\* (Seeded fault: the header need not start a line.)
FindStartPositionBufferAnywhere(buffer) ==
    LET back[i \in 0 .. Len(buffer)] == [pos \in 0 .. 13 |->
            IF pos = 13 THEN Len(buffer) - i
            ELSE IF i = 0 THEN -1
            ELSE back[i - 1][IF buffer[i] = Header[pos + 1] THEN pos + 1 ELSE 0]]
    IN back[Len(buffer)][0]

\* The distance from the end of the buffer to the start of the last line with
\* a header in it, -1 when there is none: back[i][pos] is what is found from
\* the i-th character back, pos of a header having matched.  A character that
\* ends a match does not begin another.
FindStartPositionBuffer(buffer) ==
    LET back[i \in 0 .. Len(buffer)] == [pos \in 0 .. 13 |->
            IF i = 0 THEN -1
            ELSE IF pos = 13
            THEN IF buffer[i] \in {"nl", "bf"} THEN Len(buffer) - i ELSE back[i - 1][13]
            ELSE back[i - 1][IF buffer[i] = Header[pos + 1] THEN pos + 1 ELSE 0]]
    IN back[Len(buffer)][0]

\* Window after window of size_buffer characters from the end of the file.
FindStartPosition(file, size_buffer) ==
    LET window[end \in 0 .. Len(file)] ==
            LET pos == IF end > size_buffer THEN end - size_buffer ELSE 0
                offset == FindStartPositionBuffer(SubSeq(file, pos + 1, end))
            IN IF offset # -1 THEN end - offset
               ELSE IF pos = 0 THEN 0 ELSE window[pos]
    IN window[Len(file)]

-----------------------------------------------------------------------------
(* How long a file is watched.  Times are ticks of standard time; in summer *)
(* the clock on the wall is an hour ahead, so that one of its hours comes   *)
(* twice in autumn and one is left out in spring.                           *)

CONSTANTS HourLen,        \* ticks in an hour
          Extra,          \* MAX_FILE__PROCESSING_TIME beyond an hour
          Spring, Autumn  \* summer is from Spring until Autumn

\* localtime: the hour the wall clock shows, and whether it is summer.
LocalTime(t) ==
    LET summer == t >= Spring /\ t < Autumn
    IN [tm_hour |-> (t + IF summer THEN HourLen ELSE 0) \div HourLen,
        tm_isdst |-> summer]

\* mktime: the start of that hour; the caller's tm becomes LocalTime of it.
MkTime(tm) == tm.tm_hour * HourLen - IF tm.tm_isdst THEN HourLen ELSE 0

\* (Seeded fault: the first of two hours of that name is meant.)
GetFileTimeFirst(hour) ==
    [tm_hour |-> hour,
     tm_isdst |-> LocalTime(MkTime([tm_hour |-> hour, tm_isdst |-> TRUE])).tm_isdst]

\* GetFileTime, from the hour in the name of the file: tm = {} is not summer.
GetFileTime(hour) == [tm_hour |-> hour, tm_isdst |-> FALSE]

\* file_time_ after any number of calls of IsWorkingFile.
FileTime(tm, calls) == IF calls = 0 THEN tm ELSE LocalTime(MkTime(tm))

\* IsWorkingFile, of a file with content.
IsWorkingFile(tm, cur_time) == cur_time - MkTime(tm) <= HourLen + Extra
=============================================================================

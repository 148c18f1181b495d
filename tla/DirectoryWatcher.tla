-------------------------- MODULE DirectoryWatcher --------------------------
(***************************************************************************)
(* The tailing of the log files: directory_watcher.cpp and reader.cpp.     *)
(* The 1C server opens a file per hour and appends to it, a piece of a     *)
(* record at a time; the watcher looks for files, reads what they gained   *)
(* since it last looked, and lets a file go once its hour is over.         *)
(*                                                                         *)
(* The content of a file is counted in pieces, after the BOM; three pieces *)
(* make a record: part of its header (minutes to microseconds), the rest   *)
(* of the header and the body, the new line that ends it.  Parser.tla has  *)
(* the way from a piece to the records it completes.                       *)
(***************************************************************************)
EXTENDS Integers, Sequences, FiniteSets

CONSTANTS File,        \* log files, of whatever process
          HourOf,      \* HourOf[f]: the hour in the file's name
          HourLen,     \* clock ticks in an hour (3600 seconds)
          Extra,       \* MAX_FILE__PROCESSING_TIME beyond an hour (10)
          Period,      \* DIRECTORY_READ_PERIOD (35)
          MaxTime,     \* bound: the last tick of the clock
          MaxRecords,  \* bound: records in a file
          MaxFailures, \* bound: how often a file cannot be opened
          MaxCrashes   \* bound: how often the process dies

ASSUME FileAssumption == HourOf \in [File -> Nat]
ASSUME TimeAssumption ==
    HourLen \in Nat \ {0} /\ Extra \in Nat /\ Period \in Nat
ASSUME BoundAssumption ==
    /\ MaxTime \in Nat /\ MaxRecords \in Nat
    /\ MaxFailures \in Nat /\ MaxCrashes \in Nat

-----------------------------------------------------------------------------
(* Positions and records. *)

Piece == 3  \* pieces in a record

\* The records of f that end at position p or before.
Records(f, p) == {<<f, k>> : k \in 1 .. p \div Piece}

\* The reader's pos_ before the BOM, which the parser takes for an error.
BeforeBOM == -1

\* FindStartPosition: the start of the last record whose header is there in
\* full, or else the very beginning.
StartPosition(size) ==
    LET k == (size + 1) \div Piece
    IN IF k = 0 THEN BeforeBOM ELSE Piece * (k - 1)

\* The last moment at which IsWorkingFile answers yes for file f.
Closes(f) == HourOf[f] * HourLen + HourLen + Extra

\* IsWorkingFile, opened being whether GetFileSize could open the file.
IsWorkingFile(f, time, opened, size) == opened /\ size > 0 /\ time <= Closes(f)

-----------------------------------------------------------------------------
VARIABLES now,       \* the wall clock
          size,      \* size[f]: the pieces of file f, -1 when there is none
          pc,        \* where ExecuteStep or Init is
          starting,  \* this is Init
          todo,      \* what the loop at hand has still to visit
          current,   \* the file ReadFiles is at
          curTime,   \* cur_time of ReadDirectory or ReadFiles
          lastRead,  \* last_directory_read_
          watched,   \* files_
          opened,    \* those whose stream is open
          pos,       \* pos[f]: the reader's pos_
          stale,     \* not_working_files
          events,    \* events_
          delivered, \* what the worker took, in order (history)
          skipped,   \* what Init cleared or a dead process held (history)
          onTime,    \* onTime[f]: the size at its close or before (history)
          failures,  \* how often a file could not be opened
          crashes    \* how often the process died

envVars == <<now, size, onTime>>
loopVars == <<pc, starting, todo, current, curTime, lastRead>>
fileVars == <<watched, opened, pos, stale>>
dataVars == <<events, delivered, skipped>>
vars == <<envVars, loopVars, fileVars, dataVars, failures, crashes>>

Exists == {f \in File : size[f] >= 0}

Init ==
    /\ now = 0
    /\ size = [f \in File |-> -1] /\ onTime = [f \in File |-> -1]
    /\ pc = "down" /\ starting = FALSE
    /\ todo = {} /\ current = "none" /\ curTime = 0 /\ lastRead = 0
    /\ watched = {} /\ opened = {} /\ stale = {}
    /\ pos = [f \in File |-> 0]
    /\ events = <<>> /\ delivered = <<>> /\ skipped = {}
    /\ failures = 0 /\ crashes = 0

-----------------------------------------------------------------------------
(* The clock and the 1C server. *)

Tick ==
    /\ now < MaxTime
    /\ now' = now + 1
    /\ UNCHANGED <<size, onTime, loopVars, fileVars, dataVars, failures, crashes>>

\* A file appears in its hour, with its BOM, or grows by a piece.
Write(f) ==
    /\ IF size[f] = -1 THEN now \div HourLen = HourOf[f]
                       ELSE size[f] < Piece * MaxRecords
    /\ size' = [size EXCEPT ![f] = @ + 1]
    /\ onTime' = IF now <= Closes(f) THEN [onTime EXCEPT ![f] = size[f] + 1]
                                     ELSE onTime
    /\ UNCHANGED <<now, loopVars, fileVars, dataVars, failures, crashes>>

\* An open that succeeds, or fails at the cost of a failure.
Opening(ok) ==
    /\ ok \/ failures < MaxFailures
    /\ failures' = IF ok THEN failures ELSE failures + 1

-----------------------------------------------------------------------------
(* The process. *)

InMemory == {events[i] : i \in DOMAIN events}
Delivered == {delivered[i] : i \in DOMAIN delivered}

\* All it held in memory goes.
Die ==
    /\ pc' = "down" /\ starting' = FALSE
    /\ todo' = {} /\ current' = "none"
    /\ watched' = {} /\ opened' = {} /\ stale' = {}
    /\ events' = <<>>
    /\ skipped' = skipped \cup (InMemory \ Delivered)
    /\ UNCHANGED <<curTime, lastRead, pos, delivered>>

Crash ==
    /\ pc # "down" /\ crashes < MaxCrashes
    /\ crashes' = crashes + 1
    /\ Die
    /\ UNCHANGED <<envVars, failures>>

\* ReadDirectory goes through the directory.
BeginScan ==
    /\ pc' = "scan"
    /\ todo' = Exists
    /\ curTime' = now

\* ReadFiles goes through files_.
BeginRead ==
    /\ pc' = "read"
    /\ todo' = watched
    /\ curTime' = now

\* Init, called by a new process: ReadDirectory(true).
Start ==
    /\ pc = "down"
    /\ starting' = TRUE
    /\ lastRead' = 0
    /\ BeginScan
    /\ UNCHANGED <<envVars, current, fileVars, dataVars, failures, crashes>>

\* (Seeded fault: the directory is read by the period alone.)
ExecuteStepPeriodic(anyway) ==
    /\ pc = "idle"
    /\ IF now - lastRead > Period THEN BeginScan ELSE BeginRead
    /\ UNCHANGED <<envVars, starting, current, lastRead, fileVars, dataVars,
                   failures, crashes>>

\* ExecuteStep(anyway).
ExecuteStep(anyway) ==
    /\ pc = "idle"
    /\ IF anyway \/ now - lastRead > Period THEN BeginScan ELSE BeginRead
    /\ UNCHANGED <<envVars, starting, current, lastRead, fileVars, dataVars,
                   failures, crashes>>

\* (Seeded fault: a new file is read from its end, as in Init.)
AddFileAtEnd(f) ==
    /\ pc = "scan" /\ f \in todo
    /\ todo' = todo \ {f}
    /\ IF f \in watched
       THEN UNCHANGED <<watched, pos, failures>>
       ELSE \E ok \in BOOLEAN :
              /\ Opening(ok)
              /\ IF IsWorkingFile(f, now, ok, size[f])
                 THEN /\ watched' = watched \cup {f}
                      /\ pos' = [pos EXCEPT ![f] = size[f]]
                 ELSE UNCHANGED <<watched, pos>>
    /\ UNCHANGED <<envVars, pc, starting, current, curTime, lastRead, opened,
                   stale, dataVars, crashes>>

AddFile(f) ==
    /\ pc = "scan" /\ f \in todo
    /\ todo' = todo \ {f}
    /\ IF f \in watched
       THEN UNCHANGED <<watched, pos, failures>>
       ELSE \E ok \in BOOLEAN :
              /\ Opening(ok)
              /\ IF IsWorkingFile(f, now, ok, size[f])
                 THEN /\ watched' = watched \cup {f}
                      /\ pos' = [pos EXCEPT ![f] = 0]
                 ELSE UNCHANGED <<watched, pos>>
    /\ UNCHANGED <<envVars, pc, starting, current, curTime, lastRead, opened,
                   stale, dataVars, crashes>>

\* (Seeded fault: the time of the reading is taken at its end.)
EndScanNow ==
    /\ pc = "scan" /\ todo = {}
    /\ lastRead' = now
    /\ IF starting THEN pc' = "seek" /\ todo' = watched /\ UNCHANGED curTime
                   ELSE BeginRead
    /\ UNCHANGED <<envVars, starting, current, fileVars, dataVars, failures,
                   crashes>>

EndScan ==
    /\ pc = "scan" /\ todo = {}
    /\ lastRead' = curTime
    /\ IF starting THEN pc' = "seek" /\ todo' = watched /\ UNCHANGED curTime
                   ELSE BeginRead
    /\ UNCHANGED <<envVars, starting, current, fileVars, dataVars, failures,
                   crashes>>

\* Init opens a file and finds where to start.
Seek(f) ==
    /\ pc = "seek" /\ f \in todo
    /\ todo' = todo \ {f}
    /\ \E ok \in BOOLEAN :
          /\ Opening(ok)
          /\ IF ok THEN /\ opened' = opened \cup {f}
                        /\ pos' = [pos EXCEPT ![f] = StartPosition(size[f])]
                        /\ skipped' = skipped \cup (Records(f, pos'[f]) \ Delivered)
                   ELSE UNCHANGED <<opened, pos, skipped>>
    /\ UNCHANGED <<envVars, pc, starting, current, curTime, lastRead, watched,
                   stale, events, delivered, crashes>>

EndSeek ==
    /\ pc = "seek" /\ todo = {}
    /\ BeginRead
    /\ UNCHANGED <<envVars, starting, current, lastRead, fileVars, dataVars,
                   failures, crashes>>

\* The records of f that the parser completes between two positions.
Parsed(f, from, to) ==
    [i \in 1 .. (to \div Piece) - (from \div Piece) |-> <<f, from \div Piece + i>>]

\* (Seeded fault: only Init opens files.)
ReadFileIfOpen(f) ==
    /\ pc = "read" /\ f \in todo
    /\ todo' = todo \ {f} /\ current' = f /\ pc' = "check"
    /\ \/ f \notin opened /\ UNCHANGED <<pos, events>>
       \/ /\ f \in opened /\ pos[f] # BeforeBOM
          /\ pos' = [pos EXCEPT ![f] = size[f]]
          /\ events' = events \o Parsed(f, pos[f], size[f])
    /\ UNCHANGED <<envVars, starting, curTime, lastRead, watched, opened, stale,
                   delivered, skipped, failures, crashes>>

\* Open, Read and Next of one file, with the parser on what they yield.
ReadFile(f) ==
    /\ pc = "read" /\ f \in todo
    /\ todo' = todo \ {f} /\ current' = f /\ pc' = "check"
    /\ \/ /\ f \notin opened /\ Opening(FALSE)
          /\ UNCHANGED <<opened, pos, events>>
       \/ /\ f \in opened \/ Opening(TRUE)
          /\ pos[f] # BeforeBOM
          /\ opened' = opened \cup {f}
          /\ pos' = [pos EXCEPT ![f] = size[f]]
          /\ events' = events \o Parsed(f, pos[f], size[f])
          /\ UNCHANGED failures
    /\ UNCHANGED <<envVars, starting, curTime, lastRead, watched, stale,
                   delivered, skipped, crashes>>

\* The BOM reaches the parser, which throws.
ReadBOM(f) ==
    /\ pc = "read" /\ f \in todo
    /\ f \in opened /\ pos[f] = BeforeBOM
    /\ Die
    /\ UNCHANGED <<envVars, failures, crashes>>

\* (Seeded fault: the clock is read after the file.)
CheckFileNow ==
    /\ pc = "check"
    /\ \E ok \in BOOLEAN :
          /\ Opening(ok)
          /\ stale' = IF IsWorkingFile(current, now, ok, size[current])
                      THEN stale ELSE stale \cup {current}
    /\ pc' = "read"
    /\ UNCHANGED <<envVars, starting, todo, current, curTime, lastRead,
                   watched, opened, pos, dataVars, crashes>>

\* IsWorkingFile of the file just read.
CheckFile ==
    /\ pc = "check"
    /\ \E ok \in BOOLEAN :
          /\ Opening(ok)
          /\ stale' = IF IsWorkingFile(current, curTime, ok, size[current])
                      THEN stale ELSE stale \cup {current}
    /\ pc' = "read"
    /\ UNCHANGED <<envVars, starting, todo, current, curTime, lastRead,
                   watched, opened, pos, dataVars, crashes>>

\* (Seeded fault: Init does not clear.)
EndReadNotCleared ==
    /\ pc = "read" /\ todo = {}
    /\ watched' = watched \ stale
    /\ opened' = opened \ stale
    /\ stale' = {}
    /\ starting' = FALSE
    /\ pc' = IF starting THEN "idle" ELSE "ready"
    /\ UNCHANGED <<envVars, todo, current, curTime, lastRead, pos, dataVars,
                   failures, crashes>>

\* DeleteFiles; Init clears the events it read.
EndRead ==
    /\ pc = "read" /\ todo = {}
    /\ watched' = watched \ stale
    /\ opened' = opened \ stale
    /\ stale' = {}
    /\ starting' = FALSE
    /\ IF starting THEN /\ pc' = "idle"
                        /\ events' = <<>>
                        /\ skipped' = skipped \cup (InMemory \ Delivered)
                   ELSE pc' = "ready" /\ UNCHANGED <<events, skipped>>
    /\ UNCHANGED <<envVars, todo, current, curTime, lastRead, pos, delivered,
                   failures, crashes>>

\* (Seeded fault: the events stay in the buffer.)
ClearEventsKept ==
    /\ pc = "ready"
    /\ delivered' = delivered \o events
    /\ pc' = "idle"
    /\ UNCHANGED <<envVars, starting, todo, current, curTime, lastRead,
                   fileVars, events, skipped, failures, crashes>>

\* The worker's use of GetEvents, and ClearEvents.
ClearEvents ==
    /\ pc = "ready"
    /\ delivered' = delivered \o events
    /\ events' = <<>>
    /\ pc' = "idle"
    /\ UNCHANGED <<envVars, starting, todo, current, curTime, lastRead,
                   fileVars, skipped, failures, crashes>>

Watcher == \/ Start \/ EndScan \/ EndSeek \/ CheckFile \/ EndRead \/ ClearEvents
           \/ \E f \in File : AddFile(f) \/ Seek(f) \/ ReadFile(f) \/ ReadBOM(f)

Next == \/ Watcher
        \/ \E anyway \in BOOLEAN : ExecuteStep(anyway)
        \/ Crash \/ Tick
        \/ \E f \in File : Write(f)

Spec == Init /\ [][Next]_vars

\* The process is started, and the worker calls ExecuteStep again and again,
\* with whatever argument.
FairSpec == Spec /\ WF_vars(Watcher \/ \E anyway \in BOOLEAN : ExecuteStep(anyway))

-----------------------------------------------------------------------------
(* Properties. *)

Event == File \X (1 .. MaxRecords)

\* What the worker has or will get of what was read.
Handed == delivered \o (IF starting THEN <<>> ELSE events)

(* The variables keep their types; only a file in files_ has an open       *)
(* stream, is awaiting deletion or is visited.                             *)
TypeOK ==
    /\ now \in Nat
    /\ size \in [File -> -1 .. Piece * MaxRecords]
    /\ onTime \in [File -> -1 .. Piece * MaxRecords]
    /\ pc \in {"down", "scan", "seek", "read", "check", "idle", "ready"}
    /\ starting \in BOOLEAN
    /\ todo \subseteq Exists /\ current \in File \cup {"none"}
    /\ curTime \in Nat /\ lastRead \in Nat
    /\ watched \subseteq Exists /\ opened \subseteq watched
    /\ stale \subseteq watched
    /\ pc \in {"seek", "read"} => todo \subseteq watched
    /\ pos \in [File -> -1 .. Piece * MaxRecords]
    /\ events \in Seq(Event) /\ delivered \in Seq(Event)
    /\ skipped \subseteq Event
    /\ failures \in Nat /\ crashes \in Nat

(* Nothing is passed over: a record before the reader's position was       *)
(* delivered, is about to be, or was there before the process (Init clears *)
(* it) or died with one.                                                   *)
NothingPassedOver ==
    \A f \in opened : Records(f, pos[f]) \subseteq Delivered \cup InMemory \cup skipped

(* The worker gets the records of a file in the order they were written,   *)
(* and none twice, nor one that an earlier process gave up, through all    *)
(* crashes and restarts, as long as every open of a file succeeds.         *)
OnceInOrder ==
    failures = 0 =>
      /\ \A i, j \in DOMAIN Handed :
            i < j /\ Handed[i][1] = Handed[j][1] => Handed[i][2] < Handed[j][2]
      /\ \A i \in DOMAIN Handed : Handed[i] \notin skipped

(* An open that fails makes IsWorkingFile drop the file; it is found again *)
(* and read from its beginning.  That is the only way to a duplicate, and  *)
(* one failure costs one of them at most.                                  *)
DuplicatesAreReopenings ==
    \A e \in Event :
        Cardinality({i \in DOMAIN Handed : Handed[i] = e}) <= 1 + failures

(* A file is let go only when all that was written to it by its close was  *)
(* read: the clock is sampled before the files are read, not after.        *)
LetGoWhenDone ==
    [][\A f \in watched \ watched' :
          pc' # "down" /\ failures = 0 => onTime[f] <= pos[f]]_vars

(* What is written to a file in files_ reaches the worker, unless Init or  *)
(* a crash drops it or the file is let go.                                 *)
EventuallyDelivered ==
    \A f \in File : \A k \in 1 .. MaxRecords :
        (f \in watched /\ size[f] >= Piece * k)
            ~> (<<f, k>> \in Delivered \cup skipped \/ f \notin watched)
=============================================================================

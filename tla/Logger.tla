------------------------------- MODULE Logger -------------------------------
(***************************************************************************)
(* The program's own log (logger.cpp): one file per hour in the directory  *)
(* "logs", written under the mutex print_ by the worker, the threads that  *)
(* send and the handlers, and cleaned by a detached thread that every      *)
(* opening starts.  Time is the count of hours; hours of the day repeat.   *)
(***************************************************************************)
EXTENDS Integers, Sequences, FiniteSets

CONSTANTS Thread,       \* the threads that print
          None,         \* no thread, no file
          HoursPerDay,  \* 24
          Default,      \* log_storage_duration_ as Open sets it: 24
          Configured,   \* log_storage_duration_in_hours of the settings
          MaxHour,      \* bound on the clock
          MaxMessages,  \* bound on the messages of a thread
          MaxFailures,  \* bound on the openings that fail
          MaxCleaners   \* the clock waits while more cleaners than this run

ASSUME NoneAssumption == None \notin Thread /\ None \notin Nat
ASSUME HourAssumption ==
    /\ HoursPerDay \in Nat \ {0} /\ Default \in Nat /\ Configured \in Nat
    /\ MaxHour \in Nat /\ MaxMessages \in Nat /\ MaxFailures \in Nat
    /\ MaxCleaners \in Nat

VARIABLES now,       \* the clock, in hours
          since,     \* the hour in which the lock was taken
          print_,    \* who holds the mutex
          pc,        \* where each thread is
          count,     \* the messages of each thread so far
          fs_,       \* the hour of the file that is open, or None
          cur_hour_,
          log_storage_duration_,
          configured,  \* the worker has set the duration
          files,     \* the hours of the files in the directory
          content,   \* content[h]: the pieces written into the file of hour h
          cleaners,  \* the threads that run DeleteLogHistory
          removed,   \* the files removed, each with the hour, and whether its
                     \* cleaner started with the setting known (history)
          failures   \* how many openings have failed

file == <<fs_, cur_hour_>>
storage == <<log_storage_duration_, configured>>
disk == <<files, content, removed>>
vars == <<now, since, print_, pc, count, file, storage, disk,
          cleaners, failures>>

Hour == 0..MaxHour

CurHour == now % HoursPerDay

Init ==
    /\ now = 0 /\ since = 0 /\ print_ = None
    /\ pc = [t \in Thread |-> "main"]
    /\ count = [t \in Thread |-> 0]
    /\ fs_ = None /\ cur_hour_ = None
    /\ log_storage_duration_ = Default /\ configured = FALSE
    /\ files = {} /\ content = [h \in Hour |-> <<>>] /\ removed = {}
    /\ cleaners = {} /\ failures = 0

Go(t, from, to) == pc[t] = from /\ pc' = [pc EXCEPT ![t] = to]

\* What a thread does under the lock is done within an hour.
Tick ==
    /\ now < MaxHour /\ Cardinality(cleaners) <= MaxCleaners
    /\ print_ # None => now = since
    /\ now' = now + 1
    /\ UNCHANGED <<since, print_, pc, count, file, storage, disk,
                   cleaners, failures>>

-----------------------------------------------------------------------------
(* Opening the file. *)

\* Open up to the opening: the duration, LogFileName (which reads the clock
\* again), and the file, which is new or appended to, or cannot be opened.
OpenFile ==
    /\ log_storage_duration_' = Default
    /\ cur_hour_' = CurHour
    /\ \/ fs_' = now /\ files' = files \cup {now} /\ UNCHANGED failures
       \/ /\ failures < MaxFailures
          /\ fs_' = None /\ failures' = failures + 1 /\ UNCHANGED files
    /\ UNCHANGED <<content, removed, configured>>

\* Its last lines: the thread that deletes gets the duration there is now.
StartCleaner ==
    cleaners' = cleaners \cup
        {[started |-> now, duration |-> log_storage_duration_, limit |-> None,
          told |-> configured]}

\* wmain opens the log before there is a second thread.
OpenFirst ==
    /\ \A t \in Thread : pc[t] = "main"
    /\ OpenFile
    /\ pc' = [t \in Thread |-> "idle"]
    /\ cleaners' = {[started |-> now, duration |-> Default, limit |-> None,
                      told |-> FALSE]}
    /\ UNCHANGED <<now, since, print_, count>>

\* The worker, once it has read the settings, without the lock.
SetLogStorageDuration ==
    /\ \A t \in Thread : pc[t] # "main"
    /\ ~configured /\ configured' = TRUE
    /\ log_storage_duration_' = Configured
    /\ UNCHANGED <<now, since, print_, pc, count, file, disk, cleaners, failures>>

-----------------------------------------------------------------------------
(* Print and NewFileWithLock. *)

Lock(t) == print_ = None /\ print_' = t /\ since' = now

\* Print up to the check for a new file.
BeginPrint(t) ==
    /\ count[t] < MaxMessages
    /\ Go(t, "idle", "check") /\ Lock(t)
    /\ UNCHANGED <<now, count, file, storage, disk, cleaners, failures>>

\* Seeded fault: the lock is forgotten.
NewFileWithoutLock(t) ==
    /\ Go(t, "idle", "checkOnly")
    /\ UNCHANGED <<now, since, print_, count, file, storage, disk,
                   cleaners, failures>>

NewFileWithLock(t) ==
    /\ Go(t, "idle", "checkOnly") /\ Lock(t)
    /\ UNCHANGED <<now, count, file, storage, disk, cleaners, failures>>

\* Where a thread goes on after NewFile: to its line, or out of the lock.
After(at) == IF at \in {"check", "clean"} THEN "filter" ELSE "unlock"

\* Seeded fault: the file that is open stays.
NewFileOnlyFirst(t) ==
    \E at \in {"check", "checkOnly"} :
        /\ Go(t, at, After(at))
        /\ UNCHANGED <<now, since, print_, count, file, storage,
                       disk, cleaners, failures>>

\* NewFile compares the hour of the day.
NewFile(t) ==
    \E at \in {"check", "checkOnly"} :
        /\ \/ /\ cur_hour_ = CurHour
              /\ Go(t, at, After(at))
              /\ UNCHANGED <<file, storage, disk, failures>>
           \/ /\ cur_hour_ # CurHour
              /\ Go(t, at, IF at = "check" THEN "clean" ELSE "cleanOnly")
              /\ OpenFile
        /\ UNCHANGED <<now, since, print_, count, cleaners>>

SpawnCleaner(t) ==
    \E at \in {"clean", "cleanOnly"} :
        /\ Go(t, at, After(at))
        /\ StartCleaner
        /\ UNCHANGED <<now, since, print_, count, file, storage,
                       disk, failures>>

\* A message of a lower type than the minimum, and not for anyway.
BelowMinimum(t) ==
    /\ Go(t, "filter", "unlock")
    /\ count' = [count EXCEPT ![t] = @ + 1]
    /\ UNCHANGED <<now, since, print_, file, storage, disk,
                   cleaners, failures>>

\* Writing to a file that could not be opened has no effect.
Put(t, piece) ==
    content' = IF fs_ = None THEN content
               ELSE [content EXCEPT ![fs_] =
                        Append(@, [by |-> t, nr |-> count[t], piece |-> piece,
                                   at |-> now])]

\* The time and the type of the message.
PutStamp(t) ==
    /\ Go(t, "filter", "message")
    /\ Put(t, "stamp")
    /\ UNCHANGED <<now, since, print_, count, file, storage, files,
                   removed, cleaners, failures>>

\* The message and the end of the line, flushed.
PutMessage(t) ==
    /\ Go(t, "message", "unlock")
    /\ Put(t, "message")
    /\ count' = [count EXCEPT ![t] = @ + 1]
    /\ UNCHANGED <<now, since, print_, file, storage, files,
                   removed, cleaners, failures>>

Unlock(t) ==
    /\ Go(t, "unlock", "idle")
    /\ print_' = None
    /\ UNCHANGED <<now, since, count, file, storage, disk, cleaners,
                   failures>>

-----------------------------------------------------------------------------
(* DeleteLogHistory. *)

\* The oldest name to keep, by the clock when the thread comes to run.
FindLimit(c) ==
    /\ c.limit = None
    /\ cleaners' = (cleaners \ {c}) \cup
           {[started |-> c.started, duration |-> c.duration,
             limit |-> now - c.duration, told |-> c.told]}
    /\ UNCHANGED <<now, since, print_, pc, count, file, storage, disk,
                   failures>>

\* Seeded fault: the boundary counts as old.
OldUpTo(c, h) == c.limit # None /\ h <= c.limit

Old(c, h) == c.limit # None /\ h < c.limit

\* The system does not remove a file that the program has open.
Remove(c, h) ==
    /\ h \in files /\ Old(c, h) /\ h # fs_
    /\ files' = files \ {h}
    /\ removed' = removed \cup {[hour |-> h, at |-> now, told |-> c.told]}
    /\ UNCHANGED <<now, since, print_, pc, count, file, storage,
                   content, cleaners, failures>>

\* The directory has been gone through.
EndCleaner(c) ==
    /\ c.limit # None
    /\ \A h \in files : Old(c, h) => h = fs_
    /\ cleaners' = cleaners \ {c}
    /\ UNCHANGED <<now, since, print_, pc, count, file, storage, disk,
                   failures>>

Cleaner(c) == FindLimit(c) \/ (\E h \in Hour : Remove(c, h)) \/ EndCleaner(c)

Writing(t) ==
    \/ NewFile(t) \/ SpawnCleaner(t) \/ BelowMinimum(t)
    \/ PutStamp(t) \/ PutMessage(t) \/ Unlock(t)

Next ==
    \/ Tick \/ OpenFirst \/ SetLogStorageDuration
    \/ \E t \in Thread : BeginPrint(t) \/ NewFileWithLock(t) \/ Writing(t)
    \/ \E c \in cleaners : Cleaner(c)

Spec == Init /\ [][Next]_vars

-----------------------------------------------------------------------------
(* Properties. *)

(* No thread writes into the line of another, and no line is split over    *)
(* two files, although the file changes while all of them print.           *)
LinesWhole ==
    \A h \in Hour :
        \A i \in DOMAIN content[h] :
            IF i % 2 = 1 THEN content[h][i].piece = "stamp"
            ELSE /\ content[h][i].piece = "message"
                 /\ content[h][i].by = content[h][i - 1].by
                 /\ content[h][i].nr = content[h][i - 1].nr

(* A line is in the file of its hour of the day, or of the hour before if  *)
(* the hour ended after the check.  The check knows no days: a program     *)
(* that prints nothing for a day goes on in the file of the day before.    *)
FileOfTheHour ==
    \A h \in Hour : \A i \in DOMAIN content[h] :
        /\ content[h][i].at >= h
        /\ (content[h][i].at - h) % HoursPerDay <= 1

(* No file goes before its time: not before the shorter of the two         *)
(* durations, whichever of them a cleaner got, and however late it ran.    *)
KeptLongEnough ==
    \A r \in removed : r.at - r.hour > Default \/ r.at - r.hour > Configured

(* The setting log_storage_duration_in_hours says for how many hours a     *)
(* file is kept, once the worker has given it to the logger.               *)
KeptAsConfigured == \A r \in removed : r.told => r.at - r.hour > Configured
=============================================================================

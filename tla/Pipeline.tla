------------------------------ MODULE Pipeline ------------------------------
(***************************************************************************)
(* The monitoring loop on top of the directory watcher: WorkerThread with  *)
(* the DirectoryWatcher it owns, from the piece of a record that reaches a *)
(* file to the report.  The steps of the watcher are those of              *)
(* DirectoryWatcher.tla; the steps of the thread that leave the watcher    *)
(* alone are those of Worker.tla, which this module implements.            *)
(*                                                                         *)
(* Every open of a file succeeds here; one process, until it is killed.    *)
(* An event that is read is known to be of the minute in its header.       *)
(***************************************************************************)
EXTENDS DirectoryWatcher

CONSTANTS SecPerMin, \* clock ticks in a minute (60)
          Grace,     \* the report waits until tm_sec exceeds this (10)
          Brisk,     \* the length of an iteration that counts as brisk
          KindOf     \* KindOf[e]: what the dispatch makes of event e

ASSUME CompositionAssumption ==
    /\ SecPerMin \in Nat \ {0} /\ Grace \in Nat
    /\ MaxFailures = 0 /\ MaxCrashes = 0
    /\ HourLen % SecPerMin = 0
    /\ Extra = Grace
    /\ Brisk \in Nat
    /\ 2 * Brisk <= Grace + 1

VARIABLES loop,       \* where WorkerThread is
          prevMinute, \* prevMinute of the loop
          sampleTime, \* curTime of the loop
          isNew,      \* is_new_minute of the loop
          held,       \* held[s]: aggregator or accumulator s
          reports,    \* the reports handed to a sending thread (history)
          lost,       \* lost[s]: what Init passed over (history)
          found,      \* the files that ever were in files_ (history)
          minuteOf,   \* minuteOf[e]: the minute in e's header
          inMinute,   \* those complete before their minute was over (history)
          late,       \* known to the watcher after the grace period (history)
          sampled,    \* when the loop last looked at the clock (history)
          slow,       \* an iteration was not Prompt (history)
          sluggish    \* an iteration was not brisk (history)

threadVars == <<loop, prevMinute, sampleTime, isNew, held, reports, lost,
                sampled, slow>>
headerVars == <<minuteOf, inMinute>>
seenVars == <<found, late>>

-----------------------------------------------------------------------------
(* What the worker sees. *)

Clock == [min |-> now \div SecPerMin, sec |-> now % SecPerMin]

InInit == loop \in {"start", "init", "crashed"}

\* The events of the files the watcher came to know.
Known == UNION {Records(f, size[f]) : f \in found}

Batch == IF loop = "dispatch" THEN InMemory ELSE {}

W == INSTANCE Worker WITH
    MaxLag <- MaxTime, MaxMinute <- MaxTime \div SecPerMin, MaxStarts <- 1,
    now <- Clock, pc <- loop, curTime <- sampleTime,
    written <- Known,
    unread <- IF InInit THEN Known ELSE Known \ (Delivered \cup skipped \cup Batch),
    stamp <- [e \in Event |-> IF e \in Known THEN minuteOf[e] ELSE 0],
    batch <- Batch, stop <- loop = "exited", starts <- crashes + 1

\* Kinds of events and minutes are as Worker.tla has them.
ASSUME WorkerAssumption == KindOf \in [Event -> W!Kinds] /\ Grace + 1 < SecPerMin

PipelineInit ==
    /\ Init
    /\ loop = "start" /\ prevMinute = 0 /\ isNew = FALSE
    /\ sampleTime = W!MinuteStart(0) /\ sampled = W!MinuteStart(0)
    /\ held = W!NoEvents /\ lost = W!NoEvents /\ reports = <<>>
    /\ found = {} /\ minuteOf = [e \in Event |-> 0] /\ inMinute = {} /\ late = {}
    /\ slow = FALSE /\ sluggish = FALSE

-----------------------------------------------------------------------------
(* The clock and the 1C server. *)

Ticks(t) == t.min * SecPerMin + t.sec

TimePasses ==
    /\ Tick
    /\ sluggish' = (sluggish \/ now' - Ticks(sampled) > Brisk)
    /\ UNCHANGED <<threadVars, headerVars, seenVars>>

\* The minutes of the hour in the name of file f, as far as they have come.
MinutesOf(f) ==
    {m \in 0 .. Clock.min : (m * SecPerMin) \div HourLen = HourOf[f]}

\* E comes to the watcher's knowledge: what of it is late for its minute.
LateOf(E, minute) == {e \in E : ~W!Leq(Clock, W!Deadline(minute[e]))}

\* A file appears or grows; a record that this completes has its minute.
LogGrows(f) ==
    /\ Write(f)
    /\ LET new == Records(f, size'[f]) \ Records(f, size[f])
       IN \E m \in MinutesOf(f) :
             /\ minuteOf' = [e \in Event |-> IF e \in new THEN m ELSE minuteOf[e]]
             /\ inMinute' = IF m = Clock.min THEN inMinute \cup new ELSE inMinute
             /\ late' = IF f \in found THEN late \cup LateOf(new, minuteOf') ELSE late
    /\ UNCHANGED <<threadVars, found, sluggish>>

-----------------------------------------------------------------------------
(* The watcher at work, called by the thread. *)

\* ReadDirectory comes to file f.
FileSeen(f) ==
    /\ AddFile(f)
    /\ found' = found \cup watched'
    /\ late' = late \cup
         LateOf(UNION {Records(g, size[g]) : g \in found' \ found}, minuteOf)
    /\ UNCHANGED <<threadVars, headerVars, sluggish>>

\* dw.Init() and dw.ExecuteStep(is_new_minute) begin.
CallWatcher ==
    /\ \/ loop = "init" /\ Start
       \/ loop = "read" /\ ExecuteStep(isNew)
    /\ UNCHANGED <<threadVars, headerVars, seenVars, sluggish>>

WatcherStep ==
    /\ EndScan \/ EndSeek \/ CheckFile \/ \E f \in File : Seek(f) \/ ReadFile(f)
    /\ UNCHANGED <<threadVars, headerVars, seenVars, sluggish>>

\* They return; Init has moved past what the files hold.
WatcherReturns ==
    /\ EndRead
    /\ loop' = IF starting THEN "check" ELSE "dispatch"
    /\ lost' = IF starting THEN [s \in W!Section |-> W!RoutedTo(s, skipped')]
                           ELSE lost
    /\ UNCHANGED <<prevMinute, sampleTime, isNew, held, reports, sampled, slow,
                   headerVars, seenVars, sluggish>>

\* The parser throws, and nobody catches.
Killed ==
    /\ \E f \in File : ReadBOM(f)
    /\ loop' = "crashed"
    /\ held' = W!NoEvents
    /\ UNCHANGED <<prevMinute, sampleTime, isNew, reports, lost, sampled, slow,
                   headerVars, seenVars, sluggish>>

-----------------------------------------------------------------------------
(* The thread between its calls. *)

\* The dispatch on event.Name() of what GetEvents gives, then ClearEvents.
DispatchEvents ==
    /\ loop = "dispatch"
    /\ ClearEvents
    /\ held' = [s \in W!Section |-> held[s] \cup W!RoutedTo(s, InMemory)]
    /\ loop' = "report"
    /\ UNCHANGED <<prevMinute, sampleTime, isNew, reports, lost, sampled, slow,
                   headerVars, seenVars, sluggish>>

ThreadStep ==
    /\ UNCHANGED <<vars, headerVars, seenVars, sluggish>>
    /\ \/ W!StartLoop \/ W!NewIteration \/ W!SendReport \/ W!NoReport \/ W!Pace

PipelineNext ==
    \/ TimePasses \/ CallWatcher \/ WatcherStep \/ WatcherReturns \/ Killed
    \/ DispatchEvents \/ ThreadStep
    \/ \E f \in File : LogGrows(f) \/ FileSeen(f)

PipelineSpec ==
    PipelineInit /\ [][PipelineNext]_<<vars, threadVars, headerVars, seenVars, sluggish>>

-----------------------------------------------------------------------------
(* Properties. *)

(* The loop with the real watcher in it implements the loop as Worker.tla  *)
(* has it, and so keeps what is proved of that: in particular, when a      *)
(* reading ends every event of a file that was found in time is there, if  *)
(* its grace period was over when the iteration began, and a file is let   *)
(* go no earlier.                                                          *)
ImplementsWorker == W!Spec

(* From the file to the report: an event that is in the log by the end of  *)
(* its minute is in the report of that minute, if there is one, unless     *)
(* Init passed over it and as long as no iteration takes more than half    *)
(* the grace period.  The file may be new: ReadDirectory must come to it   *)
(* before the hour in its name is closed, and whatever its period.         *)
PromptEventsReported ==
    ~sluggish =>
      \A i \in DOMAIN reports : \A s \in W!Aggregators :
        \A e \in W!RoutedTo(s, inMinute) :
           minuteOf[e] = reports[i].date => e \in reports[i].body[s] \cup lost[s]
=============================================================================

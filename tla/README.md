# Yellow Watcher: a verification development

Yellow Watcher is a Windows program, a service or a console program, that
follows the *technological log* of a 1C:Enterprise server: it tails the log
files, parses their events, and once a minute sends the locks, deadlocks, long
requests and database errors of the minute before to an HTTP service.  This
directory holds TLA+ models of that program, TLC configurations that check them
on small instances, and proofs, checked by TLAPS, that hold for every value of
the constants.

All source paths below are relative to `src/yellow-watcher/`.

    tlc -config MCWorker.cfg MCWorker.tla      # one run
    tlapm WorkerProofs.tla                     # the proofs about the worker

## 1. The system

| Component | State it keeps | Operations | Interacts with |
|---|---|---|---|
| Monitoring loop (`WorkerThread`, `yellow-watcher.cpp` 353-568; `event_aggregator.h`, `event_accumulator.h`) | `prevMinute`, `curTime`, three aggregators keyed by minute, three accumulators | one iteration: read, dispatch, report when due, sleep | calls the watcher, starts a sending thread per report, looks at the stop event |
| Tailing (`directory_watcher.cpp`, `reader.cpp`) | the files being watched, a position in each, the time of the last directory reading, a buffer of events | `Init`, `ExecuteStep`, `ClearEvents`; `OpenCursor`, `ReadNext`, `CloseCursor` | the file system, which the 1C server writes to; one parser per file |
| Parser (`parser.cpp`) | the current handler, the stack of quotes, the event under construction, the list of finished events | `Parse` on each chunk, `MoveEvents` | gets chunks cut anywhere, gives events |
| Sending (`sender.cpp`) | per session: the stream with its timer, the request and the response | `OnResolve`, `OnConnect`, `OnWrite`, `OnRead` | an HTTP server; the strings of a `Sender` that belongs to the worker |
| Process life (`yellow-watcher.cpp` 130-270, 570-810) | stop events, the worker's handle, the service status | `ServiceMain`, `ServiceCtrlHandler`, `RunConsole`, `HandlerRoutine` | the service manager, the console, the worker |
| Logger (`logger.cpp`) | the open file, its hour, the storage duration, the lock | `Open`, `Print`, `NewFile`, `NewFileWithLock`, `DeleteLogHistory` (a thread of its own) | every thread prints; the settings |
| Loading whole files (`LoadStressTest`, `yellow-watcher.cpp` 288-353) | the cursor, the batch, the request being gathered | the loop over `ReadNext` | the cursor of the directory watcher |
| Analysis mode (`RunAnalysis`, `yellow-watcher.cpp` 200-286; `event_aggregator.h`) | two nested aggregators and a list, for one run | `Add`, `SetGenerationRule`, `ToJsonArray` | the same cursor; the pure functions |
| Dates, settings, SQL texts, plans and contexts, rows of reports (`time.cpp`, `settings.cpp`, `SqlTextHash.cpp`, `functions.cpp`, `objects_event.cpp`, `event_tech_log.cpp`) | none | pure functions | used by the loop and by the analysis |

What is hard here, and what the properties are therefore about:

- **Ordering of clock readings.**  The minute of a report, the decision that a
  minute is new, the reading of the files and the sleep each use a different
  reading of the clock.  Late events, slow iterations, stops and crashes come
  between any two of them.
- **Chunks cut anywhere.**  The parser sees a file in pieces that end inside a
  number, a quoted value or a line break.
- **Files that come, grow, fail to open and are let go** while the reader holds
  a position in them, and a process that dies and starts again.
- **Threads without locks**: the service status, the stop events, the string
  members of `Sender`, the storage duration of the logger.
- **Partial failures**: opens whose result is not looked at, requests that get
  no answer, system calls that fail in `ServiceMain`.
- **Rewriting in passes**: the normal form of an SQL text is made by eight
  rewritings one after the other, one of them with a stack of characters that
  only some characters empty; a search that runs backwards through windows of a
  file; sums under five keys that come from different functions.

The correctness of the parts, in a sentence each:

- *Loop*: every event in the log is in one place; the report of a minute holds
  all of its events that came in time, and in its per-minute sections no others;
  reports are in order and none is missing.
- *Parser*: the events are the complete records of the text, however it is cut;
  no log makes it throw or run away.
- *Tailing*: nothing is passed over; no file is overlooked for longer than the period; no event comes twice unless a file could not
  be opened; a file is let go only when it has been read to its end.
- *Sending*: a session that logged no error delivered its report; nothing is
  accepted twice; every session ends.
- *Process life*: what the service manager hears is in order; nobody uses a
  closed handle; a stop, or Ctrl+C, ends the program.
- *Logger*: lines are whole and in the file of their hour; no file is removed
  before its time.
- *Loading*: every event is sent once, in order, in full requests.
- *Pure functions*: executions of one query have one normal form and different
  queries have different ones; reading starts at a record; a file is watched
  while the server writes it, whatever the clock on the wall does; a row says
  what the event was; the analysis adds up; a date reads back.

## 2. The modules

`MCx.tla` gives `x` its constants for TLC.

| Module | Models | Checked by | Proofs |
|---|---|---|---|
| `ReportLedger` | abstract: what the reports promise to whoever reads them | refined by `Worker` | `WorkerProofs!Refinement` |
| `Worker` | `WorkerThread` with its aggregators, accumulators, clock, crash and restart | `MCWorker.cfg`, `MCWorkerLive.cfg`; refined by `Pipeline` | `WorkerProofs` |
| `DirectoryWatcher` | `directory_watcher.cpp` and the reading of `reader.cpp`, with crash and restart | `MCDirectoryWatcher.cfg`, `MCDirectoryWatcherLive.cfg` | `DirectoryWatcherProofs` |
| `WatcherHistory` | `DirectoryWatcher` with the time of each file's first content, a history variable | `MCDirectoryWatcher.cfg` | `DirectoryWatcherProofs` |
| `Pipeline` | `WorkerThread` with its `DirectoryWatcher`: the steps of the two modules put together | `MCPipeline.cfg` | `PipelineProofs` |
| `Parser` | `parser.cpp`, a handler per action | `MCParser.cfg` | `ParserProofs` |
| `ParsedLog` | reference: the records of a text and what parsing it must give | used by `MCParser` | `ParserProofs` |
| `Service` | `ServiceMain` and its handler, `RunConsole` and `HandlerRoutine`, skeleton of the worker | `MCService.cfg` | `ServiceProofs` |
| `Sender` | the sessions, their timer, the server | `MCSender.cfg` | `SenderProofs` |
| `Logger` | `logger.cpp` | `MCLogger.cfg`, `MCLoggerConfigured.cfg` | `LoggerProofs` |
| `StressTest` | the cursor and the loop of `LoadStressTest` | `MCStressTest.cfg` | `InputProofs` |
| `Dates` | a moment packed into a number: packing, rounding, unpacking | `MCPureFunctions.cfg` | `InputProofs` |
| `Texts` | find and substr on sequences | `MCPureFunctions.cfg` | `InputProofs` |
| `Reader` | where reading starts; how long a file is watched | `MCPureFunctions.cfg` | `InputProofs` |
| `Settings` | `settings.cpp` | `MCPureFunctions.cfg` | `InputProofs` |
| `ProgramInputs` | the bench for `Reader`, `Settings` and `Analysis`: files, times, addresses and logs, as sets that are parameters | `MCPureFunctions.cfg` | `InputProofs` |
| `SqlTextHash` | the normal form of an SQL text | `MCPureFunctions.cfg` | |
| `EventFields` | plans, contexts, connections, the rows of a report | `MCPureFunctions.cfg` | |
| `Analysis` | the nested aggregators and `RunAnalysis` | `MCPureFunctions.cfg` | `InputProofs` |
| `PureFunctions` | the bench for `SqlTextHash` and `EventFields`, on top of `ProgramInputs`: inputs of which the meaning is known | `MCPureFunctions.cfg` | |

How they correspond to the code (`PROJECT.json`, "map", has the lines of every
definition):

**Worker.**  The label `pc` is the place in the iteration: `check` (the loop
condition and `is_new_minute`), `read` (`ExecuteStep`), `dispatch` (the loop over
the events), `report` (the condition of line 499 and what follows) and `pace` (the
sleep and the new `curTime`).  An event is a model value with a kind, which says
which sections it goes to, and gets the minute of its time stamp when it is
written.  Time is a pair (minute, second), as the code uses `tm_min` and
`tm_sec`.  Aggregators give the events of the report's minute (`Find`, `Delete`),
accumulators all they have.  The nested keys and sums below the minute, and the
JSON text, are abstracted.  `Crash` may happen between any two steps;
`Restart` is the service manager's restart action; what `Init` of the watcher
passes over is counted as `lost`.  `ExecuteStep` may leave out whatever reaches a
file after its turn: it has to deliver only what is `Due`, the events that came in
time and whose grace period was over when the iteration began.  That the real
watcher does so is what `Pipeline` shows.

**ReportLedger.**  For every section, its items are pending, published or
given up; an item is published in at most one report and never after it was given
up, in one atomic step per report.  `Worker` implements it by `Ledger`, with the
bodies of `reports` for `published`.

**Parser.**  A character is one of the characters the table distinguishes, or a
letter.  A step is a call of a handler with the lookup that follows it.
`BeginParse` takes the next chunk (any length: this is the nondeterminism), the
handlers consume characters and `MoveEvents` takes the events away.  Numbers are
kept as the digits they are read from.  `ParsedLog` states, without an automaton,
the text of a list of records and the events that are to be found in it, and which
records there are: at least one property each, keys without the characters that
end them, values in quotes with anything in them, or without quotes and then
without signs (`LogAssumption`).

**DirectoryWatcher.**  A record is three pieces: part of a header, the rest of
header and body, the new line that ends it; the server appends a piece at a
time, so the watcher meets records in all states.  `pc` goes through the three
loops of `ExecuteStep`: the reading of the directory (when the period is over, or
anyway), the reading of the files, the letting go.  Every open may fail, within
a bound.  A crash may come between any two steps.  `WatcherHistory` adds when a file
got its first content, by which the period of the directory readings is measured
(`FoundInPeriod`); it is a module of its own because `Pipeline` does not need it.

**Pipeline.**  `PipelineNext` takes the steps of the watcher from
`DirectoryWatcher` and those of the thread that do not touch the watcher from an
instance of `Worker`, whose variables are expressions over the state of the
composition: what is written is what is in the files the watcher knows, what is
unread is what it has not delivered, the batch is its buffer.  `CallWatcher` and
`WatcherReturns` are the call of `dw.Init()` or `dw.ExecuteStep` and its return;
`Killed` is the exception of the parser that nobody catches.  `HourOf` says which
hour is in the name of a file, and an event goes to the file of its hour.

**Service.**  The main thread, the worker and every control (a stop, a Ctrl+C, a
close) are threads of their own; one step is one system call or one assignment to
the shared status.  `mode` is `service` or `console` from the start.  The system calls whose failure the code lives with may fail.
Looking at a handle that is closed may give anything.

**Sender.**  A session goes through resolving, connecting, writing and reading;
the timer, set before `connect`, closes the stream.  The server may
accept, refuse, answer late or not at all, and may handle a request after the
session gave up.  Once the worker has left its block, a session that still
has to copy the strings of `sender` may find them whole, changed or gone.

**Logger.**  A line is two pieces, the stamp and the message.  `NewFile` is
tried before every line and by the worker.  A file is named after its hour.  Cleaners are
threads that find their limit and remove files at their own pace.

**StressTest.**  A file is a sequence of buffers, a buffer what one call of
`Parse` yields; an event is of one kind or of another that is not sent (`DBMSSQL`).
`ReadNext` keeps the rest of a buffer for the next batch.

**The pure functions.**  A text is a sequence of tokens: the characters the code
looks at one by one, the prefixes it compares as a whole (`@P`,
`<?query --`), and words for runs of anything else.  A loop over characters
with a few variables is a fold over the sequence with a record of these
variables; a chain of `find` and `remove_prefix` is `Upto` and `After`.
`SqlTextHash` has each rewriting of the code as one operator, and
`SqlHashDbMsSql` applies them in the code's order.  `Analysis` has an aggregator
as a record of its rule and a function from keys to aggregators or to sums; a sum
is a tuple, as `EventOptions` is.  The methods of an aggregator are templates over
its keys: `Add`, `SetGenerationRule` and `ToJsonArray` are operators that take
the method for one key less, and `Add5` is `Add` of `Add4`.  SHA-256 is `<<"sha256", text>>`.  In `Dates`
the bases 100 and 1000000 are parameters, since TLC counts to 2^31 only.
`PureFunctions` and `ProgramInputs` write an input down from a meaning (a query, an
event, an address) as the server would, in every variant, apply the operator
and ask for the meaning back.  For a log file `ProgramInputs` takes any text:
`LineWithHeader` and `RecordStart` say what is to be found in it, without the
automaton of the code.  For an analysis it takes any sequence of events: `Total` says
what the sum of the events with the keys of one of them is, without aggregators.  The
recursions of `FindStartPosition`, of its buffer and of the loop of `RunAnalysis` are
recursive functions on numbers, so that they can be reasoned about.

### Choices that matter

- Time does not run backwards: nobody adjusts the clock.  Summer time matters
  where the code goes from the name of a file to a time, and there it is modelled
  (`Reader`); elsewhere time is a line.
- A log file is only appended to; nobody truncates or replaces one.
- The directory holds only files that are named after an hour.
- A file that is open is not removed (Windows refuses it).
- In `Logger`, what a thread does under the lock ends within the hour or at the
  next (`Tick` waits), and no more than a bounded number of cleaners run
  when the hour changes.
- `offset_` is counted from the BOM as the parser does; the shift by
  `FindStartPosition` is not added, because nothing in the program uses it.
- In `StressTest` a file that cannot be opened ends the process: `ReadNext`
  does not look at the result of the open and uses a null buffer.
- In `Pipeline` every open succeeds and one process runs until it is killed:
  failures and restarts are in the two modules it is made of.
- In `Analysis` and `EventFields` real numbers are whole, and a text that
  `stoull` or `stod` would throw on is no input: the process ends there.
- In `Service`, properties of the service mode assume that `CreateThread`
  succeeded (`hThread`): `ServiceMain` does not look at its result, and the order
  of the reports is lost when it fails.  The run reaches those states too.

## 3. The runs

| Run | Shows | Instance | Distinct states |
|---|---|---|---|
| `worker` | conservation, order, completeness and purity of the reports; the loop implements the ledger | 2 events of two aggregators that meet in one accumulator; minutes of 3 seconds, a grace of 1 second, minutes 0 to 2, events late by up to one minute, 2 starts | 673 thousand |
| `worker_live` | what is held in a minute is in its report within the next minute, or dropped, unless an iteration is too long | 1 event, minutes of 4 seconds, a grace of 1, minutes 0 to 3 | 422 thousand |
| `parser` | the events are the complete records for all cuts; bounds, quotes, offsets, indexes; `Parse` returns | 26 logs (every form of a value, repeated keys, two records, values with commas, line breaks and quotes inside) and 7 texts that are no logs | 11 thousand |
| `directory_watcher` | nothing passed over, order, duplicates only from failed opens, let go when done, none overlooked for longer than the period | 1 file of up to 3 records, an hour of 2 ticks, a period of 1, 2 failures, 1 crash | 4.9 million |
| `directory_watcher_live` | the contents of watched files are delivered | 2 files of two hours, 1 record each, 1 failure, 1 crash | 586 thousand |
| `pipeline` | the composition implements `Worker`; an event that is in the log in its minute is in its report | 2 files of one hour, 1 record each, hours and minutes of 3 ticks, a grace of 1, a period of 4, 5 ticks | 1.2 million |
| `process` | order of the status reports, life of the stop event, a stop is answered, Ctrl+C ends the program | both modes, a stop (or Ctrl+C) and a close | 1.4 thousand |
| `logger` | whole lines, right file, no file removed before its time | 2 threads, a day of 3 hours, hours 0 to 3, durations 1 and 2, one failing open | 4.6 million |
| `logger_configured` | *a violation*, see section 5 | 1 thread, hours 0 to 6 | |
| `sender` | an unlogged session is an accepted report; none twice; sessions end | 2 sessions | 4.6 thousand |
| `stress_test` | every event once and in order | up to three files of up to two buffers of up to two events, batches of 2, requests of 3 | 22 thousand |
| `functions` | the pure functions against what they are for, see below | 50 queries of one or two conditions, parameters called in 2 ways, 2 layouts, 7 wrappings, every choice of other numbers; requests and locks; logs of up to 3 events; 0 to 3 records cut at 16 places and texts of up to four pieces in any order, 4 sizes of a window; 48 ticks of 12 hours with summer in the middle, read up to 12 ticks later; 3 servers, 3 ports, 2 targets and all defects of a settings file | 184 thousand |

Why these bounds are enough:

- *worker*: the grace period is a proper part of the minute and the clock passes
  two ends of a minute, so events are early, in time and late, an iteration may
  jump over the grace period or over a whole minute, and a second process meets
  what the first left.  Two events are enough for one to be reported while the
  other waits.  For all other values the safety properties are proved.
- *parser*: the logs have every form a value can take, alone and next to others,
  with what ends a value or a record inside its quotes; each text is cut in every
  way, since a chunk may have any length, one included.
- *worker_live*: a minute has two seconds in the grace period and two after it, and
  an iteration that is not too long takes up to two, so the samples may just miss
  or just meet the seconds in which the loop sends.  `HeldIsSent` speaks of
  minutes whose next minute ends before the clock does: where the clock stops, the
  loop would look at the same second for ever, which the real clock does not allow.
- *directory_watcher*: three records are enough for a read that finds nothing,
  part of one, and several; two failures let a file be dropped and found twice;
  a crash lets `Init` meet a file in every state.  The file stays a working file for
  three ticks, two more than the period, so it may become overdue.
- *pipeline*: the file may be found by the period or by the reading at a new
  minute, which is also the first of a new hour; the hour of the files ends while
  they are watched, and an iteration may be brisk, prompt or slow.  Instances
  with two hours and eight ticks (5 million states) and with an hour of two
  minutes and two records in a file (3.7 million) were checked as well.
- *process*: every thread there is, with two controls at once.
- *logger*: the day is shortened so that the hour of the day comes round again
  within the run.
- *functions*: what a condition leaves on the stack of `SqlHashDbMsSql` can only
  disturb what comes after it, so every condition stands before every other,
  under every wrapping.  A window of 14, 20 or 33
  characters cuts headers at every place; a body may look like a header, and a
  text of pieces has headers, parts of headers and line breaks in every order.
  The hours go over both changes of the clock.  Three events are enough for two
  of one key and one of another.  For all other files, windows, times, addresses and
  logs the properties are proved.
- *stress_test*: batches, buffers and requests of coprime or unequal sizes meet
  at every offset.

Runs have `CHECK_DEADLOCK FALSE` because bounded clocks and programs that end
stop for good.

For every property there is a *seeded fault* in the module (an operator that is
commented as one and stands before the operator it could replace): the mistake a
programmer could make in that code, with which TLC finds the property violated.
`PROJECT.json`, "mutants", has the list.

### Fairness

- `Worker`: weak fairness of the thread's steps and of `Tick`: the thread is scheduled and the
  clock runs.  No fairness of stop, crash, restart or of the server that writes.
  This alone does not make the loop send: see `HeldIsSent`, which is conditional on
  the length of the iterations (`slow`).
- `DirectoryWatcher`: weak fairness of the watcher together with `ExecuteStep` of any
  argument: the process is started and the loop calls `ExecuteStep` again and
  again.  Nothing is asked of the clock or of the argument; that files are found in
  their time is a safety property (`FoundInPeriod`, `PromptEventsReported`).
- `Service`: weak fairness of each thread of the process.
- `Sender`: weak fairness of `Step` of each session, which holds
  construction, resolving and the expiry of the timer; none of the network or the server.
- `Parser`: weak fairness of its next step: a call of `Parse` is never interrupted for good.

Nothing is asked of the user, the 1C server or the HTTP server.

## 4. The proofs

The proofs rest on the assumptions named in the modules and on nothing else.

**Worker** (`WorkerProofs`).  The assumptions are those of the module: kinds
are kinds, and `Grace + 1 < SecPerMin`.  The safety properties are not inductive.
The inductive invariant `IInv` adds:

| Part | Says | Why |
|---|---|---|
| `TypeOK` | types | everywhere |
| `ClockInv` | the minute of the loop is not after `curTime`, and `curTime` not after the clock, and every report is of a minute before `prevMinute` | the order of the reports, across restarts too |
| `IsNewInv` | in the iteration, `isNew` is what the two minutes say | links the reading of the directory to the report |
| `ReadInv` | between reading and report of a minute, what is unread of it missed the grace period | completeness of the report |
| `BufferInv` | the buffer is empty outside the dispatch | conservation |
| `SampleInv` | without a slow iteration, `curTime` is at most one minute ahead of `prevMinute` | no minute is missing |

Proved from it: `TypeCorrect`, `ConservationHolds`, `ReportsOrderedHolds`,
`OwnMinuteOnlyHolds`, `OnTimeEventsReportedHolds`, the action property
`ConsecutiveReportsHolds`, and `Refinement`: `Spec => Ledger!Spec`, every step is
a step of the ledger or a stutter.  By `ImplementsWorkerHolds` (below) these hold
of the composition with the watcher too (`WorkerStep` of `PipelineProofs`).

**Parser, any file** (`ParserProofs`).  The only assumption: inputs are sequences of
characters, cut in any way, logs or not.  `TypeCorrect` and `InBoundsHolds` are
proved together (`TypeInv`: the lookup after a handler is in the chunk only if
the handler left a character, which needs the types, and conversely).
`QuoteDisciplineHolds` says that one quote at most is on the stack, and only
inside a value.  `OffsetsInOrderHolds` rests on `OrderInv`, which adds the event
under construction to those that are finished, and so does `IndexSoundHolds`
on `IndexInv`: what `EndValue` appends is the last value of its key, and `Start`
leaves neither values nor indexes of the event before.

**Parser, the server's logs** (`ParserProofs` from "Induction" on).  For every set
of logs that meets `LogAssumption`, of any number of records with any number of
properties, however cut into chunks: `ExactlyTheCompleteRecordsHolds` and
`NeverDiesHolds`.  The invariant `LogInv` looks ahead, not back: it says of the
part of the file that is still to be read what it is.

| Part | Says |
|---|---|
| `Stand` | the events so far stand for the first records of the log, one for one |
| `Between` | what is left is the text of the later records, perhaps after the new line that ends the last one |
| `Within` | or one record is in hand: `InRecord` says, for the handler that ran last, what has been collected and what of the text of the record is left, before the text of the later records |
| `AtField`, `AtKey`, `AtValue`, `AtMvalue`, `AtEndValue` | the places in a record: how much of a field, of a key, of a value, of a quoted value (where one of two quotes may be read and the other not) |

A step then takes one character of what is left: what it is follows from the
format (`Runs`, `Goes`), the table's answer follows from it, and so does the
next place.  Nothing is said about chunks, since what is left of the file is
what it is wherever the chunk ends; this is why chunks make no difference.  That
the complete records are those whose text ends before the position
(`FollowsExact`) follows from the lengths.

**StressTest** (`InputProofs`).  For any files, batches and requests:
`EveryEventOnceHolds` and `DoneMeansSentHolds`.  `EveryEventOnce` adds up what is
sent, gathered, in the batch, left of the last buffer and unread; each step moves
an event from one to the next or drops one that is not of the kind.  With it go
`Control` (which variables mean something at which label: in the loop over the
batch the batch is not empty, and past the last file nothing is left of a
buffer) and `Requests` (every request that was sent is full until the last, what
is gathered is not).  That reading stops only with a full batch or at the end of
all files makes `DoneMeansSent` follow.

**Texts that are put together.**  The texts of a log, the events of the files and
the requests are sequences joined by `FlattenSeq`, which the library
defines by recursion.  Its induction theorems take an operator and cannot be used,
but induction over a *set* of numbers can be proved from the numbers being
well-founded (`NatSetInduction`), and with it that `FlattenSeq` of a sequence with
one element more, or of two sequences one after the other, is what one expects
(`FlattenAppend`, `FlattenConcat`, `FlattenOne`).  Both modules have these lemmas.

**DirectoryWatcher** (`DirectoryWatcherProofs`).  `TypeCorrect` and
`NothingPassedOverHolds`, for any number of files, records, failures and crashes.
`NothingPassedOver` is about files that were opened; it is inductive together with
`Fresh`: a file that is watched and not open yet has the position 0, so that its
first open starts at its beginning, and the file at which `ReadFiles` is, is one
of those it goes through.  Four more, for any interleaving with the server,
the clock and crashes:

| Theorem | Invariant | Says |
|---|---|---|
| `LetGoWhenDoneHolds` | `LetGoInv` | a file awaits deletion only if its hour was over when the reading began; what was written in time had been written by then, and was read (`Done`) |
| `FoundInPeriodHolds` | `FoundInv` | without failures: what had content when the last reading of the directory began is watched, awaits no deletion, or is closed (`Noticed`); while a reading lasts, what had content when it began is noticed or still ahead |
| `OnceInOrderHolds` | `OnceInv` | without failures: no record is known beyond the size of its file, nor, once Init has read the file, beyond its position (`Behind`, `Settled`); a file with known records that is not watched is not found anew but by a new process (`Gone`), because it was let go after its hour |
| `DuplicatesAreReopeningsHolds` | `DupInv` | with failures, an account: a record has one copy more than there were failures only while it is `Safe`, that is while no step but a failing open can hand it over again |

**Pipeline** (`PipelineProofs`).  `ImplementsWorkerHolds`: every step of
`PipelineNext` is a step of `Worker` or a stutter, for any files, hours, periods and
kinds of events, whenever minutes divide the hour in the name of a file and a file
stays in `files_` for the grace period after it (`CompositionAssumption`; the code
has 60, 3600, and 10 for both).  Each step of the pipeline is one of the watcher
(`WatcherSteps`), so the invariants above carry over (`Base`).  The invariant
`PipeInv` adds:

| Part | Says | Why |
|---|---|---|
| `Placed` | where the watcher is when the thread is at a label; `curTime` is not after the clock | the steps of the watcher are invisible where `Worker` has none |
| `BOMInInit` | the BOM is ahead of a reader only while Init is at work | the process dies with nothing in hand |
| `Filed` | what was read is of files that were found; an event known in its grace period was written before its file closes | what is delivered is in the log of `Worker`; the rest below |
| `Released` | a file that was let go is closed, and what was written to it in time was read | nothing due is in a file that is gone |
| `Visited` | behind `ReadFiles` nothing is left that was known in time and had its time before the iteration began | nothing due is left in a file that is watched |

The step that needs them is the return of `ExecuteStep` (`DueIsRead`): `Worker`
asks that everything due be in the batch.

What is proved of `Worker` is thereby had here too (`WP`, an instance of its
proofs): its invariant holds of the composition once kinds and minutes are as
`Worker` has them (`WorkerAssumption`: a grace period ends within the next
minute).  On it stands `PromptEventsReportedHolds`, from the piece of a record
in a file to the report.  `OnTimeEventsReported` has an event in the report of
its minute if the watcher knew of it within the grace period; what is left is
that a brisk loop finds the files.  `PromptInv` adds:

| Part | Says | Why |
|---|---|---|
| `OnSchedule` | without a slow iteration the clock is no more than `Brisk` after its last reading | what the loop does next, it does by then |
| `Timely` | an event in time is in a file; a late one is known, and its grace period is over | late is never what is found within the grace period |
| `InTime` | a minute that is over and not yet reported was found in time (`FoundInTime`), or the loop is on its way through the directory and has not gone past a file with events of it (`Looking`); a reported one was found in time | what the report needs |

Three steps carry it.  `Pace` reads the clock: if the minute has changed, the
iteration before began in the old one, so twice `Brisk` after its reading the grace
period still lasts (`BriskEnough`).  `ExecuteStep` reads the directory because
`isNew` is set (`CallInTime`).  And `ReadDirectory` does not leave out a file that
has events of the minute: it is not empty, and it closes no earlier than their
grace period ends (`FileSeenInTime`).  What is in time for a minute does not grow once
it is over (`MinuteSettled`).

**Sender** (`SenderProofs`).  `IInv` says of each session what its place implies:
before the request is written nothing of it is on the wire or accepted
(`NotYetSent`), the host it talks to is known when it talks (`HostKnown`), the
answer it has is the one the server gave (`AnswerTrue`), and silence means
acceptance (`Silent`).  Requests on the wire and accepted ones together are at
most one.  From it `SilenceMeansAcceptedHolds` and `AcceptedAtMostOnceHolds`.

**Logger** (`LoggerProofs`).  Three invariants.  For the cleaners: the limit of
each was a duration before some hour that is over (`CleanerInv`), whence
`KeptLongEnoughHolds`.  For the lines: whoever is between idle and idle holds
the lock (`Held`), the pieces of a file alternate, a file has an odd number
of pieces exactly while a thread is to write the message into it, and the last
piece is then that thread's stamp (`FileInv`); whence `LinesWholeHolds`, for any
number of threads and failing opens.  A third, `HourInv`, gives
`FileOfTheHourHolds`: while a thread is between the check and the end of its line,
whole days lie between the hour of the file and the hour, or the hour has ended
under the lock and one hour more.  The length of a day is a variable, so the
remainders have lemmas of their own (`Remainder`, `WholeDays`, `NextHour`).

**Service** (`ServiceProofs`).  What the main thread and the handlers may have
told the service manager is said by the places where they are: before `RUNNING`
(`BeforeRunning`), while a stop is being answered (`Answering`) and after the
worker has left (`Leaving`), which it does only once the stop event is set, that
is after the handler has reported `STOP_PENDING`.  `StatusInOrderHolds` and
`EventOutlivesUsersHolds` follow for any number of controls.

**Dates** (`InputProofs`).  For all bases, those of the code among them:
`DateReadsBack` (the parts that `ToDateFormatString` writes are the parts
that were packed), `RoundMinuteKeepsTheMinute` (rounding a packed date to its
minute is packing the date with no seconds, so the two ways in which the code makes
a key agree) and `OneKeyOneMinute`.  The argument peels one unit after the other
off: what is below a unit is less than the unit.  The parts are less than the base;
the fraction is less than a million.

**Where reading starts** (`InputProofs`).  `StartsAtARecordHolds`, for every
text, log or not, and every size of the buffer: `FindStartPosition` answers with
0 or with the start of a line that has a header, and with nothing before a record
whose header it could see in one window.  `FindStartPositionBuffer` reads
backwards, one character at a time, with what has matched of a header so far.

| Lemma | Says |
|---|---|
| `BacksExist`, `BackUnfold` | the recursion has a solution, and the code computes what it says |
| `BackSound` | what is found is the start of a line with a header: by induction over the characters read, for all that may have matched before |
| `BackComplete` | a record that lies ahead of the search is found, or something after it: read backwards, what follows the duration ends whatever had matched, its digits match nothing, and the header then matches to its end |
| `SearchExists`, `SearchUnfold` | the same as the first, for the recursion over the windows |
| `NextWindow`, `ShownTogether`, `TogetherBefore` | the borders of the windows lie at multiples of the size from the end: what one window shows has one quotient |
| `WindowFinds` | if the windows before give the answer, so does this one |

**How long a file is watched** (`InputProofs`).  `WatchedWhileWrittenHolds`, for any
length of an hour, any extra time and any two changes of the clock, in any order:
a file is watched while the server writes it and for the extra time, and at most
an hour longer.  The step that carries it is `MarkStays`: at the start of an hour
on the clock, `mktime` of `localtime` of a time is that time, although `mktime`
is given summer time for some and winter time for others, so `file_time_` means
the same time however often `IsWorkingFile` has corrected it.

**Settings** (`InputProofs`).  `SettingsReadBackHolds`, for any servers, ports and
targets without the signs of an address, and any set of keys that are missing or
of the wrong type: `CorrectFile` says that `Read` accepts just the files without a
defect, `AddressReadsBack` that the address gives back its parts.  It rests on what
`Upto` and `After` do with a text that is put together (`CutAt`): without the sign
in the first part, the cut is where it was joined.

**The analysis** (`InputProofs`).  `AnalysisAddsUpHolds`, for any log, of any length
and whatever its events are: the nested rows of `RunAnalysis` have one path for the
keys of every event, written by their rules, with the sum of the values of just the
events that have these keys; no path without an event; and all locks, in order.

| Lemma | Says |
|---|---|
| `Add1Facts` .. `Add5Facts` | after `Add` an aggregator knows the keys it was given and those it knew; it has added the values to these keys, from 0 if they were new, and left all others |
| `Rows1Facts` .. `Rows5Facts` | the paths through the rows are those of the keys it knows, each once, with the rule of each key and the values |
| `SumsExist`, `TotalUnfold` | the sums exist, and `Total` is the last of them |
| `KeysAfter4`, `KeysAfter5` | what is known after some events are the keys of these events: by induction over the log |
| `ValuesAfter4`, `ValuesAfter5` | the values are the sums so far, for every key, if all values have as many parts |
| `RowsAddUp4`, `RowsAddUp5` | the rows are the paths of the keys, with their totals |
| `AnalysedExists`, `RunAnalysisUnfold` | the loop of `RunAnalysis` has a solution, and the report is made of its last state |
| `LocksInOrder` | the list of locks is that of the log |

An instance for one key more is proved from the one for one key less as the template
is made from it: a key is a first key and the others (`KeysSplit`, `KeysJoin`), and an
aggregator that was not there before is one that knows nothing (`NothingKnown`).

**Left to TLC.**  Liveness (it needs fairness and `ENABLED`).  Two properties of
`PureFunctions`: `SameFormSameQuery` and `RowsTellTheEvent` calculate with given
texts, the one through eight rewritings of one text into another, the other through
numerals, which are what `ToString` of the module `TLC` says they are.  No constant
is in the texts, and TLC goes through all of them; that a text of any other
form keeps its meaning would need a grammar of SQL.  Every other safety property of
the runs that is to hold is proved.

## 5. What was found

`logger_configured`: `Logger::Open` sets `log_storage_duration_ = 24` whenever it
opens a file (`logger.cpp` line 83).  The value of the setting
`log_storage_duration_in_hours` (`settings.cpp` line 18) is given to the logger
once, after the first opening (`yellow-watcher.cpp` line 364), and is
overwritten at the first change of hour.  With a setting of more than 24 hours,
files are removed too early.  `KeptLongEnough` states what remains true.

What the composition shows: with the ten seconds of grace, an event that is in the
log by the end of its minute is in the report of that minute if no iteration takes
more than about five seconds.  The bound is tight: a file of a new hour is looked
for at most one iteration after the minute began, and what is found must have been
read by an iteration that began within the grace period.  A longer iteration
may find the file too late for the report, or when its hour is closed and never
(`PromptEventsReported`, `sluggish`).

Also visible in the models, without a statement of the repository that they
contradict:

- The condition of `yellow-watcher.cpp` line 499 looks at the second of the last sample
  of the clock: a loop whose samples all fall in seconds 0 to 10 never sends.
  Iterations of up to 49 seconds cannot bring this about (`HeldIsSent`,
  `ConsecutiveReports`), and of 50 seconds can: with `curTime.sec > Grace + 1` in its
  place `HeldIsSent` fails.
- An event that comes after the report of its minute stays in its aggregator for
  good; a detached session may outlive `sender`; a report that fails is logged
  and not sent again; a failing `CreateThread` is taken for a worker that has
  ended.
- `FindStartPositionBuffer` accepts a header only if the line it is in starts
  with one, but goes on to the start of the line without a look: text of the form
  of a header in the second line of a value makes reading start there.  A header
  that the border of a window cuts is not found; reading then starts
  at an earlier record, whose events were read before.
- `GetFileTime` leaves `tm_isdst` at 0, and `mktime` corrects the member in
  place: where clocks change, in summer a file is watched an hour longer than in
  winter, and its events carry the hour after theirs, in whose reports they are
  then found (`FileTime` of `Reader`).
- In `SqlTextHash`: a column number whose last digit is 0 is left (line 209); two
  temporary tables with one space between them, or two spaces before one, are not
  normalised; a text with both `@P1` and `@name` keeps the names; the first
  rewritings take `front()` of a text that may be empty (lines 130 and 137), as
  in `RunAnalysis` for an event with neither `Sql` nor `Func`.
- In `functions` and `objects_event`: numbers that are none throw, and nobody
  catches; the last line of a plan is dropped if no line break ends it; the last
  line of a context that is empty leads to `back()` of an empty text (line 40).
- In `settings.cpp`, an address without a port and with a colon in its path is cut
  at that colon (line 33).
- `RunAnalysis` has an aggregator for deadlocks and no event goes to it;
  `SetGenerationRule` reaches only the aggregators that exist when it is called.

## 6. What is not modelled

`PROJECT.json`, "components", has every part with its reason.  In short:

- the command line, the encodings and the installation of the service: calls of
  libraries and of the system in a row, without state of their own (the restart
  that the installation asks for is in `Worker`);
- of the rows of a report: the names of the columns, the values that are copied,
  averages nothing asks for, and the table of phrases that gives the
  cause of a database error;
- a directory that fails in the middle of being listed: the rest of it is
  then not seen before the next listing, which `EndScan` has for the whole listing
  only;
- two pieces the program does not use (`ttimeout_aggregator`, `timer_perf`).

## 7. How to go on

- `Pipeline` with failing opens and a restart: an open that fails at the wrong
  moment loses a file for an iteration, so `PromptEventsReported` needs a
  condition on them.
- The table of causes of `MsSqlExcpEvent` as an ordered list, against pairs of
  phrases in both languages.

----------------------------- MODULE StressTest -----------------------------
(***************************************************************************)
(* Reading whole files in batches: OpenCursor, ReadNext and CloseCursor    *)
(* of DirectoryWatcher, used by LoadStressTest, which sends the DBMSSQL    *)
(* events in requests of its own size.  ReadNext stops in the middle of a  *)
(* buffer when its batch is full and goes on there at the next call.       *)
(* A file is the sequence of its buffers, a buffer the sequence of the     *)
(* events that parsing it gives; an event is a record with its kind.       *)
(***************************************************************************)
EXTENDS Naturals, Sequences, SequencesExt

CONSTANTS Event,    \* the events of the log
          Logs,     \* the contents the directory may have
          Count,    \* ReadNext's argument: 1000
          MaxRows   \* max_rows: 1000

ASSUME LogAssumption == Logs \subseteq Seq(Seq(Seq(Event)))
ASSUME LimitAssumption == Count \in Nat \ {0} /\ MaxRows \in Nat \ {0}

VARIABLES files_,         \* the files, with their buffers
          pc,             \* where LoadStressTest or ReadNext is
          it_file_,       \* the current file
          reader_,        \* it has a reader
          buffer,         \* the next buffer of the file
          events_temp_, it_event_temp_,  \* the events of the last buffer
          events_, it,    \* the batch, and the loop over it
          rows, dbmssql,  \* what has been gathered for the next request
          sent,           \* the requests sent
          wanted          \* all DBMSSQL events of the files, in order (history)

log == <<files_, wanted>>
batch == <<events_, it>>
temp == <<events_temp_, it_event_temp_>>
cursor == <<it_file_, reader_, buffer, temp>>
request == <<rows, dbmssql, sent>>
vars == <<log, pc, cursor, batch, request>>

\* The DBMSSQL events among these.
DBMSSQL(events) ==
    FlattenSeq([i \in DOMAIN events |->
                    IF events[i].dbmssql THEN <<events[i]>> ELSE <<>>])

Init ==
    /\ files_ \in Logs
    /\ wanted = DBMSSQL(FlattenSeq([f \in DOMAIN files_ |-> FlattenSeq(files_[f])]))
    /\ pc = "next"
    /\ it_file_ = 1 /\ reader_ = FALSE /\ buffer = 1
    /\ events_temp_ = <<>> /\ it_event_temp_ = 1
    /\ events_ = <<>> /\ it = 1
    /\ rows = 0 /\ dbmssql = <<>> /\ sent = <<>>

Go(from, to) == pc = from /\ pc' = to

-----------------------------------------------------------------------------
(* ReadNext. *)

Full(events) == Len(events) >= Count

\* An event of the last buffer goes into the batch; a full batch is returned.
Take(next) ==
    /\ it_event_temp_ <= Len(events_temp_)
    /\ events_' = Append(events_, events_temp_[it_event_temp_])
    /\ it_event_temp_' = it_event_temp_ + 1
    /\ pc' = IF Full(events_') THEN "use" ELSE next
    /\ UNCHANGED <<log, it_file_, reader_, buffer, events_temp_, it, request>>

\* Seeded fault: what is left of the last buffer is not looked at.
TakeLeftNever ==
    /\ Go("next", "files")
    /\ UNCHANGED <<log, cursor, batch, request>>

\* What is left of the last buffer from the call before.
TakeLeft ==
    \/ pc = "next" /\ Take("next")
    \/ /\ Go("next", "files")
       /\ it_event_temp_ > Len(events_temp_)
       /\ UNCHANGED <<log, cursor, batch, request>>

\* The next file gets its reader.  Whether it could be opened is not asked:
\* reading from one that could not be ends the process.
OpenFile ==
    /\ pc = "files" /\ it_file_ <= Len(files_)
    /\ \/ reader_ /\ pc' = "buffer" /\ UNCHANGED <<reader_, buffer>>
       \/ ~reader_ /\ pc' = "buffer" /\ reader_' = TRUE /\ buffer' = 1
       \/ ~reader_ /\ pc' = "died" /\ UNCHANGED <<reader_, buffer>>
    /\ UNCHANGED <<log, it_file_, temp, batch, request>>

\* The reader's next buffer is parsed.
NextBuffer ==
    /\ pc = "buffer" /\ buffer <= Len(files_[it_file_])
    /\ pc' = "take"
    /\ events_temp_' = files_[it_file_][buffer]
    /\ it_event_temp_' = 1
    /\ buffer' = buffer + 1
    /\ UNCHANGED <<log, it_file_, reader_, batch, request>>

TakeParsed ==
    \/ pc = "take" /\ Take("take")
    \/ /\ Go("take", "buffer")
       /\ it_event_temp_ > Len(events_temp_)
       /\ UNCHANGED <<log, cursor, batch, request>>

CloseFile ==
    /\ pc = "buffer" /\ buffer > Len(files_[it_file_])
    /\ pc' = "files"
    /\ reader_' = FALSE /\ it_file_' = it_file_ + 1
    /\ UNCHANGED <<log, buffer, temp, batch, request>>

\* After the last file, a batch that is not full is returned all the same.
EndOfFiles ==
    /\ pc = "files" /\ it_file_ > Len(files_)
    /\ pc' = IF events_ # <<>> THEN "use" ELSE "rest"
    /\ UNCHANGED <<log, cursor, batch, request>>

ReadNext == \/ TakeLeft \/ OpenFile \/ NextBuffer \/ TakeParsed
            \/ CloseFile \/ EndOfFiles

-----------------------------------------------------------------------------
(* LoadStressTest. *)

\* Seeded fault: the count goes on after a request.
UseKeepRows ==
    /\ pc = "use" /\ it <= Len(events_)
    /\ LET found == DBMSSQL(<<events_[it]>>)
           gathered == dbmssql \o found
       IN  IF rows + Len(found) = MaxRows
           THEN sent' = Append(sent, gathered) /\ dbmssql' = <<>>
           ELSE sent' = sent /\ dbmssql' = gathered
    /\ rows' = rows + Len(DBMSSQL(<<events_[it]>>))
    /\ it' = it + 1
    /\ UNCHANGED <<log, pc, cursor, events_>>

\* An event of the batch is gathered, and a full request sent.
Use ==
    /\ pc = "use" /\ it <= Len(events_)
    /\ LET found == DBMSSQL(<<events_[it]>>)
           gathered == dbmssql \o found
       IN  IF rows + Len(found) = MaxRows
           THEN sent' = Append(sent, gathered) /\ dbmssql' = <<>> /\ rows' = 0
           ELSE /\ dbmssql' = gathered /\ rows' = rows + Len(found)
                /\ UNCHANGED sent
    /\ it' = it + 1
    /\ UNCHANGED <<log, pc, cursor, events_>>

ClearEvents ==
    /\ it > Len(events_) /\ Go("use", "next")
    /\ events_' = <<>> /\ it' = 1
    /\ UNCHANGED <<log, cursor, request>>

\* After the last batch, what has been gathered is sent.
SendRest ==
    /\ Go("rest", "done")
    /\ IF rows # 0
       THEN sent' = Append(sent, dbmssql) /\ dbmssql' = <<>>
       ELSE UNCHANGED <<sent, dbmssql>>
    /\ UNCHANGED <<log, cursor, batch, rows>>

LoadStressTest == Use \/ ClearEvents \/ SendRest

Next == ReadNext \/ LoadStressTest

Spec == Init /\ [][Next]_vars

-----------------------------------------------------------------------------
(* Properties. *)

Events(f) == FlattenSeq(files_[f])
Rest(s, i) == SubSeq(s, i, Len(s))

\* The events of the buffers that the cursor has not come to.
Unread ==
    IF it_file_ > Len(files_) THEN <<>>
    ELSE FlattenSeq(Rest(files_[it_file_], IF reader_ THEN buffer ELSE 1))
         \o FlattenSeq([f \in 1..(Len(files_) - it_file_) |-> Events(it_file_ + f)])

(* Wherever a batch or a request ends, in the middle of a buffer or at the *)
(* end of a file, every DBMSSQL event is in one place and in order: sent,  *)
(* gathered, in the batch, left of the last buffer or unread.              *)
EveryEventOnce ==
    wanted =
        FlattenSeq(sent) \o dbmssql
        \o DBMSSQL(Rest(events_, it) \o Rest(events_temp_, it_event_temp_) \o Unread)

(* When the program is done everything has been sent, in requests that are *)
(* full but for the last, and none of them empty.                          *)
DoneMeansSent ==
    pc = "done" =>
        /\ dbmssql = <<>>
        /\ FlattenSeq(sent) = wanted
        /\ \A i \in DOMAIN sent :
               IF i < Len(sent) THEN Len(sent[i]) = MaxRows
               ELSE Len(sent[i]) \in 1..MaxRows
=============================================================================

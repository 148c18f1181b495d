--------------------------- MODULE WatcherHistory ---------------------------
(***************************************************************************)
(* DirectoryWatcher with the time at which each file got its first piece:  *)
(* a history variable, which no step of the watcher looks at.  With it the *)
(* period of the directory readings has something to be measured by.       *)
(***************************************************************************)
EXTENDS DirectoryWatcher

VARIABLE since  \* since[f]: when f got its first piece

HistoryInit == Init /\ since = [f \in File |-> 0]

HistoryNext ==
    /\ Next
    /\ since' = [f \in File |-> IF size[f] < 1 /\ size'[f] >= 1 THEN now ELSE since[f]]

HistorySpec == HistoryInit /\ [][HistoryNext]_<<vars, since>>

-----------------------------------------------------------------------------
(* Between two readings of the directory no file is overlooked: when a     *)
(* step reads only the files it has, because the period is not over, every *)
(* file that has had content for more than the period, and is a working    *)
(* file still, is among them.  The time of a reading is taken before the   *)
(* directory is gone through, so what appears meanwhile is not taken for   *)
(* seen.                                                                   *)
FoundInPeriod ==
    [][pc = "idle" /\ pc' = "read" /\ failures = 0 =>
         \A f \in File :
            size[f] > 0 /\ since[f] + Period < now /\ now <= Closes(f)
            => f \in watched]_<<vars, since>>
=============================================================================

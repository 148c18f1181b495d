----------------------- MODULE MCDirectoryWatcherLive -----------------------
(* Values for the CONSTANTS of DirectoryWatcher. *)
EXTENDS DirectoryWatcher, TLC

CONSTANTS f1, f2

\* Two files of two hours.
TwoHours == f1 :> 0 @@ f2 :> 1
=============================================================================

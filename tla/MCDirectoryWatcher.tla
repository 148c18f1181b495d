------------------------- MODULE MCDirectoryWatcher -------------------------
(* Values for the CONSTANTS of DirectoryWatcher and WatcherHistory. *)
EXTENDS WatcherHistory, TLC

CONSTANTS f1

\* One file, of the first hour.
OneHour == f1 :> 0
=============================================================================

--------------------------- MODULE BackgroundWork ---------------------------
(***************************************************************************)
(* The components that work in the background, and what they promise       *)
(* together.  Their jobs are rows of one table, but of different kinds; no *)
(* transaction of one writes a row of another, except that a tick of       *)
(* ScheduledScan creates the scans OpportunityScan begins with.            *)
(***************************************************************************)
EXTENDS FitEvaluation, ScheduledScan, HuntRun, ContactSearch, OpportunityScan

\* No later transaction gives a scan another verdict, no later attempt fetches a source again
\* that was fetched, and a process without its lease changes no row of a scan.  Deleted runs,
\* cleared requests and stored results of hunts stay so.  An ended contact search stays ended,
\* and reaches nobody who asked not to be contacted.
EndedWorkStays == /\ VerdictFinal /\ FetchedOnce /\ StaleWritesNothing
                  /\ NothingComesBack
                  /\ SearchesKeepTheirEnd
=============================================================================

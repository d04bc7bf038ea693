-------------------------------- MODULE MCServer --------------------------------
(* Module Server for TLC.                                                     *)
EXTENDS Server

\* A checkout dispatches two jobs, the cancellation of a one-line order one.
JobCounts == [r \in Requests |-> IF r = "checkout" THEN 2 ELSE 1]

JobsOfRequests == UNION {{r} \X (1 .. JobCounts[r]) : r \in Requests}
================================================================================

--------------------------- MODULE MCParallelRuns ---------------------------
(* Small instances of ParallelRuns for TLC. *)
EXTENDS ParallelRuns, TLC

\* The second line of the pipeline was disabled after the first instance had passed
\* its start.
ShorterLater == <<2, 1, 1>>
=============================================================================

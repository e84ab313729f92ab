----------------------------- MODULE MCLogQueue -----------------------------
(***************************************************************************)
(* A small instance of LogQueue for TLC: a log, one that no attempt can    *)
(* write, and crashes that use up a job's stalls.                          *)
(***************************************************************************)
EXTENDS LogQueue

CONSTANTS log1, log2, long1

=============================================================================

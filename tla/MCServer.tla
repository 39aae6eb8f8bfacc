------------------------------ MODULE MCServer ------------------------------
(***************************************************************************)
(* An instance of Server for TLC, with its fairness: one process, so that  *)
(* nothing but its own ticks can do the scheduler's work.                  *)
(***************************************************************************)
EXTENDS Server
=============================================================================

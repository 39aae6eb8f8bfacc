----------------------------- MODULE MCCounter -----------------------------
(***************************************************************************)
(* Instances of Counter for TLC.  Two students and two counters, so that   *)
(* one student may be verified at both; four records, so that a record     *)
(* may be voided, entered again, and another student be verified.          *)
(***************************************************************************)
EXTENDS CounterPage, TLC

\* The default policy (domain/settings.js) admits whoever did not vote.
MCWalkInPolicy ==
  [i \in {"NO", "UNVOTED"} |->
     IF i = "NO" THEN "REQUIRE_AUTHORIZATION" ELSE "ALLOW"]

MCSymmetry == Permutations(Student) \cup Permutations(Request)
=============================================================================

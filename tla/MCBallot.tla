------------------------------ MODULE MCBallot ------------------------------
(***************************************************************************)
(* Instances of Ballot for TLC.  Two students and two requests are enough  *)
(* for every race the locks decide: a vote against another vote of the     *)
(* same student, a vote of one student against one of another, and a vote  *)
(* against a schedule edit, a cancellation or the cutoff.                  *)
(***************************************************************************)
EXTENDS Ballot, TLC

\* A poll that opens at once, one whose cutoff is later, one that opens late.
MCWindow == {[opens |-> 0, closes |-> 1], [opens |-> 0, closes |-> 2],
             [opens |-> 1, closes |-> 2]}

\* Students and requests are interchangeable.
MCSymmetry == Permutations(Student) \cup Permutations(Request)
=============================================================================

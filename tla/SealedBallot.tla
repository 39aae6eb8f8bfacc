---------------------------- MODULE SealedBallot ----------------------------
(***************************************************************************)
(* What voting on a meal promises, without transactions, locks or clocks:  *)
(* intentions change one at a time while the poll is open; closing the     *)
(* poll copies the intentions of some electorate, all at one instant; from *)
(* then on neither the intentions nor the copy ever change.                *)
(***************************************************************************)
CONSTANTS Student, Intent

VARIABLES
  phase,    \* "draft", "open", "sealed" or "void"
  ballot,   \* the current intention of every student
  result    \* the sealed intention, "ABSENT" outside the electorate

vars == <<phase, ballot, result>>

Init ==
  /\ phase = "draft"
  /\ ballot = [s \in Student |-> "UNVOTED"]
  /\ result = [s \in Student |-> "ABSENT"]

Open ==
  /\ phase = "draft"
  /\ phase' = "open"
  /\ UNCHANGED <<ballot, result>>

Cast(s, i) ==
  /\ phase = "open"
  /\ ballot' = [ballot EXCEPT ![s] = i]
  /\ UNCHANGED <<phase, result>>

Seal(electorate) ==
  /\ phase = "open"
  /\ phase' = "sealed"
  /\ result' = [s \in Student |->
                  IF s \in electorate THEN ballot[s] ELSE "ABSENT"]
  /\ UNCHANGED ballot

Void ==
  /\ phase' = "void"
  /\ UNCHANGED <<ballot, result>>

Next ==
  \/ Open
  \/ \E s \in Student, i \in Intent : Cast(s, i)
  \/ \E electorate \in SUBSET Student : Seal(electorate)
  \/ Void

Spec == Init /\ [][Next]_vars
=============================================================================

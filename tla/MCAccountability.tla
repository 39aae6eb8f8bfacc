-------------------------- MODULE MCAccountability --------------------------
(***************************************************************************)
(* Instances of Accountability for TLC.  Students meet only in the totals  *)
(* of a meal, and meals only in the tiers of a student's warnings: two     *)
(* meals on successive days, both inside the window, and one student for   *)
(* the warnings, one meal and two students for the totals.                 *)
(***************************************************************************)
EXTENDS CasePages

CONSTANTS EarlierSlot

MCServiceDate == [m \in Slot |-> IF m = EarlierSlot THEN 0 ELSE 1]
=============================================================================

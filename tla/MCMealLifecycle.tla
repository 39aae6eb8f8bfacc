-------------------------- MODULE MCMealLifecycle --------------------------
(***************************************************************************)
(* Instances of MealLifecycle, with its page, for TLC.  One slot, two      *)
(* supervisors' requests beside the scheduler, and two schedules, the      *)
(* second with a later cutoff, so that an edit may postpone a cutoff the   *)
(* scheduler has listed, or bring it forward; under the first one a slot   *)
(* can be approved before the earliest start.                              *)
(***************************************************************************)
EXTENDS MealPage

MCSchedule ==
  {[opens |-> 0, closes |-> 1, starts |-> 3, ends |-> 4],
   [opens |-> 0, closes |-> 2, starts |-> 3, ends |-> 4]}

\* With these numbers some targets are recommended, some are not, and with no
\* eligible student one of them is implausibly high.
MCServings == {40, 60}
MCEligibleCount == {0, 60}
=============================================================================

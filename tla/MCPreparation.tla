--------------------------- MODULE MCPreparation ---------------------------
(***************************************************************************)
(* Instances of Preparation, with its page, for TLC.                       *)
(***************************************************************************)
EXTENDS KitchenPage, TLC

CONSTANTS d1, d2

\* One dish is always on the menu; the other comes and goes.
MCMenus == {[d \in Dish |-> IF d = d1 THEN 50 ELSE u] : u \in {0, 100}}

\* Requests, and entries of the log, are interchangeable.
MCSymmetry == Permutations(Cook) \cup Permutations(Log)
=============================================================================

----------------------------- MODULE Lifecycle -----------------------------
(***************************************************************************)
(* The status graph of a meal slot (domain/lifecycle.js).  Every module    *)
(* that moves a slot takes its guards from here, as every service takes    *)
(* them from assertTransition and assertStatus.                            *)
(***************************************************************************)

\* The states of a slot (the enum meal_slot_status).
Status == {"DRAFT", "OPEN", "LOCKED", "FORECAST_READY", "APPROVED",
           "IN_SERVICE", "SERVICE_CLOSED", "RECONCILED", "CANCELLED"}

\* The states each state may move to.
Transitions ==
  [s \in Status |->
     CASE s = "DRAFT"          -> {"OPEN", "CANCELLED"}
       [] s = "OPEN"           -> {"LOCKED", "CANCELLED"}
       [] s = "LOCKED"         -> {"FORECAST_READY", "APPROVED", "CANCELLED"}
       [] s = "FORECAST_READY" -> {"FORECAST_READY", "APPROVED", "CANCELLED"}
       [] s = "APPROVED"       -> {"APPROVED", "IN_SERVICE", "CANCELLED"}
       [] s = "IN_SERVICE"     -> {"SERVICE_CLOSED"}
       [] s = "SERVICE_CLOSED" -> {"RECONCILED"}
       [] OTHER                -> {}]

CanTransition(from, to) == to \in Transitions[from]

\* The states in which a supervisor may still change the menu.
MenuEditable == {"DRAFT", "OPEN", "LOCKED", "FORECAST_READY"}

\* The states in which food quantities may be logged.
FoodLogOpen == {"APPROVED", "IN_SERVICE", "SERVICE_CLOSED", "RECONCILED"}
=============================================================================

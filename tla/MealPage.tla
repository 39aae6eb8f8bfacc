----------------------------- MODULE MealPage -----------------------------
(***************************************************************************)
(* What the supervisors' page of a meal offers (MealDetail.tsx).  The API  *)
(* sends a list of actions with the slot (allowedActions) and the page     *)
(* renders them with conditions of its own; every request is checked again *)
(* by the handlers modelled in MealLifecycle.                              *)
(***************************************************************************)
EXTENDS MealLifecycle

\* allowedActions, for one who may operate the mess.
AllowedActions ==
  CASE status = "DRAFT" -> {"EDIT", "PUBLISH", "CANCEL"}
    [] status = "OPEN" -> {"EDIT", "CANCEL"}
                          \cup {a \in {"LOCK"} : now >= times.closes}
    [] status \in {"LOCKED", "FORECAST_READY"} -> {"FORECAST", "APPROVE", "CANCEL"}
    [] status = "APPROVED" -> {"APPROVE", "START_SERVICE", "CANCEL"}
    [] status = "IN_SERVICE" -> {"CLOSE_SERVICE"}
    [] OTHER -> {}
AllowedMenuEdit == status \in MenuEditable

\* The page: a button for each of them, in every status.
Offered(a) == a \in AllowedActions

\* "Re-run" is in the head of the forecast's panel, "Generate" in the notice
\* that there is none yet.
ForecastButton ==
  /\ Offered("FORECAST")
  /\ forecasts # <<>> \/ status = "LOCKED"

\* A defect to be caught: the form asks for a reason for an override only.
NeedsReasonForOverride(n) == ~LatestIs(n)

\* ApprovePanel: the form cannot be sent without a reason in these cases.
NeedsReason(n) == ~LatestIs(n) \/ plan # NoPlan

\* What the page says next to Publish: the cutoff of this draft has passed, or
\* publishing requires at least one dish.
PublishIsDoomed == times.closes < now \/ ~menu

\* The page and the API agree on every meal that is reached, also on one whose
\* forecast was lost or whose poll another request has just counted: what the
\* API accepts the page offers, and what the page offers is accepted or the
\* page says why not.  Exceptions: a draft at the very instant of its cutoff,
\* and a start of service that is still too early.
MealPageFits ==
  /\ \A t \in Schedule : MayUpdate(t) => Offered("EDIT")
  /\ AllowedMenuEdit <=> MayEditMenu
  /\ MayPublish => Offered("PUBLISH")
  /\ Offered("PUBLISH") => MayPublish \/ PublishIsDoomed \/ now = times.closes
  /\ Offered("CANCEL") <=> MayCancel
  /\ Offered("LOCK") <=> CanLock
  /\ ForecastButton <=> ForecastAllowed
  /\ \A n \in Servings :
       /\ MayApprove(n, TRUE) => Offered("APPROVE")
       /\ Offered("APPROVE") /\ MayApprove(n, TRUE) =>
            (NeedsReason(n) <=> ~MayApprove(n, FALSE))
  /\ MayStartService => Offered("START_SERVICE")
  /\ Offered("START_SERVICE") => MayStartService \/ ~EarliestStartReached
  /\ Offered("CLOSE_SERVICE") <=> MayCloseService
=============================================================================

---------------------------- MODULE KitchenPage ----------------------------
(***************************************************************************)
(* What the kitchen's page of a meal offers (KitchenMeal.tsx), computed    *)
(* from the same rows as the API's checks, by rules of its own.            *)
(***************************************************************************)
EXTENDS Preparation

\* A defect to be caught: the page takes the statuses for work as final.
CanPrepBeforeService == status = "APPROVED"

CanPrep == status \in {"APPROVED", "IN_SERVICE", "SERVICE_CLOSED"}

StartButton(d) == CanPrep /\ tasks[d].status = "PENDING"

\* "Mark done" or "Correct", with the dialog behind it.
CompleteButton(d) == CanPrep /\ d \in TaskDishes

\* The form for leftovers and waste is always there; its categories are not.
ServedStarted == status \in {"IN_SERVICE", "SERVICE_CLOSED", "RECONCILED"}
CategoryOption(category) == ServedStarted \/ category = "KITCHEN_WASTE"
DishOption(d) == d \in TaskDishes

VoidButton(l) == logs[l].state = "LIVE"

\* The page and the API agree: the kitchen can do from the page all that the
\* API accepts of it, and what the page offers is accepted, but for two offers:
\* Start after the service has closed, and kitchen waste before the approval.
KitchenPageFits ==
  /\ \A d \in Dish :
       /\ MayStart(d) => StartButton(d)
       /\ StartButton(d) => MayStart(d) \/ status = "SERVICE_CLOSED"
       /\ CompleteButton(d) <=> MayComplete(d)
       /\ DishOption(d) => menu[d] # 0
  /\ \A category \in Categories :
       /\ MayLog(category) => CategoryOption(category)
       /\ CategoryOption(category) => \/ MayLog(category)
                                      \/ category = "KITCHEN_WASTE"
  /\ \A l \in Log : VoidButton(l) <=> l \in LiveLogs(Categories)
=============================================================================

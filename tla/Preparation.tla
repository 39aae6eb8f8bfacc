---------------------------- MODULE Preparation ----------------------------
(***************************************************************************)
(* The kitchen's side of one meal: the target approved by the supervisor   *)
(* becomes the tasks of the kitchen, which works them and logs what is     *)
(* left over (planning.service.js, kitchen.service.js), and analytics      *)
(* reads it all (metrics.js).                                              *)
(*                                                                         *)
(* A task is locked by its own row: startTask and completeTask look at the *)
(* slot without locking it.  addFoodLog locks the slot and looks at the    *)
(* tasks without locking them.  These three are two steps each, what they  *)
(* read and what they write; the others hold the rows they depend on and   *)
(* are one action.  How a slot changes its status is in MealLifecycle, the *)
(* ingredients are in Stock.                                               *)
(*                                                                         *)
(* A quantity that may be missing is a set of at most one number.          *)
(***************************************************************************)
EXTENDS Integers, FiniteSetsExt, Lifecycle

CONSTANTS
  Dish,    \* the dishes of the catalogue
  Menus,   \* the menus in use: the uptake of each dish in percent, 0 if it
           \* is not on the menu
  Target,  \* the numbers of servings a supervisor may approve
  Kg,      \* weights the kitchen may enter
  Cook,    \* requests of the kitchen in progress at the same time
  Log      \* bound on the entries of the food log

ASSUME ConstantAssumption ==
  /\ Menus \subseteq [Dish -> 0..100]
  /\ Target \subseteq Nat
  /\ Kg \subseteq Nat
  /\ IsFiniteSet(Dish) /\ IsFiniteSet(Log)

VARIABLES
  status,    \* meal_slots.status
  menu,      \* meal_slot_menu_items
  plan,      \* {approved_servings}, or {} without a plan
  tasks,     \* prep_tasks
  logs,      \* food_logs
  notices,   \* the keys of PREP_TARGET_APPROVED: the targets told
  request,   \* what each request has read and not yet written
  allowed    \* history: what the last check of leftovers allowed, if any

slotVars == <<status, menu>>
planVars == <<plan, notices>>
vars == <<slotVars, planVars, tasks, logs, request, allowed>>

Categories == {"REUSABLE_SURPLUS", "DISCARDED_SURPLUS", "PLATE_WASTE",
               "KITCHEN_WASTE"}
Leftovers == {"REUSABLE_SURPLUS", "DISCARDED_SURPLUS"}

NoTask == [status |-> "NONE", planned |-> 0, kg |-> 0]
NoLog == [state |-> "NONE", category |-> "KITCHEN_WASTE", kg |-> 0]
Idle == [step |-> "idle"]
RequestState ==
  {Idle}
  \cup [step : {"starting"}, dish : Dish]
  \cup [step : {"completing"}, dish : Dish, kg : Kg]
  \cup [step : {"logging"}, category : Categories, kg : Kg,
        allowed : SUBSET Int]

\* A slot whose poll is counted, as the kitchen first sees it.
Init ==
  /\ status = "FORECAST_READY"
  /\ menu \in Menus
  /\ plan = {}
  /\ tasks = [d \in Dish |-> NoTask]
  /\ logs = [l \in Log |-> NoLog]
  /\ notices = {}
  /\ request = [c \in Cook |-> Idle]
  /\ allowed = {}

-----------------------------------------------------------------------------
(* Row locks. *)

\* addFoodLog holds the slot row until it has written.
SlotRowFree == \A c \in Cook : request[c].step # "logging"

\* loadTask: SELECT ... FOR UPDATE on the task.
TaskRowFree(d) ==
  \A c \in Cook :
    request[c].step \in {"starting", "completing"} => request[c].dish # d

Menu == {d \in Dish : menu[d] # 0}
TaskDishes == {d \in Dish : tasks[d].status # "NONE"}

-----------------------------------------------------------------------------
(* The supervisor: the menu and the target. *)

\* A defect to be caught: the menu may also change once the target is approved.
UpdateMenuAnyTime(new) ==
  /\ SlotRowFree
  /\ status \in MenuEditable \cup {"APPROVED"}
  /\ menu' = new
  /\ UNCHANGED <<status, planVars, tasks, logs, request, allowed>>

UpdateMenu(new) ==
  /\ SlotRowFree
  /\ status \in MenuEditable
  /\ menu' = new
  /\ UNCHANGED <<status, planVars, tasks, logs, request, allowed>>

\* computeRequirements: servings of a dish are rounded up.
DishServings(d, servings) == (servings * menu[d] + 99) \div 100

\* A defect to be caught: a revision reaches the tasks already started too.
PlannedTasksAll(servings) ==
  [d \in Dish |->
     IF d \in Menu
       THEN [tasks[d] EXCEPT !.planned = DishServings(d, servings),
                             !.status = IF @ = "NONE" THEN "PENDING" ELSE @]
       ELSE tasks[d]]

\* The upsert of prep_tasks.
PlannedTasks(servings) ==
  [d \in Dish |->
     IF d \in Menu /\ tasks[d].status \in {"NONE", "PENDING"}
       THEN [status |-> "PENDING", planned |-> DishServings(d, servings),
             kg |-> 0]
       ELSE tasks[d]]

\* A new target or a revised one.  Which targets need a reason or are refused
\* is in MealLifecycle.
ApprovePlan(servings) ==
  /\ SlotRowFree
  /\ status \in {"LOCKED", "FORECAST_READY", "APPROVED"}
  /\ \A d \in Menu : TaskRowFree(d)
  /\ plan' = {servings}
  /\ tasks' = PlannedTasks(servings)
  /\ status' = "APPROVED"
  /\ notices' = notices \cup {servings}
  /\ UNCHANGED <<menu, logs, request, allowed>>

\* The other changes of status: service starts and ends, the meal is
\* reconciled or cancelled.
MoveSlot(to) ==
  /\ SlotRowFree
  /\ CanTransition(status, to)
  /\ to \in {"IN_SERVICE", "SERVICE_CLOSED", "RECONCILED", "CANCELLED"}
  /\ status' = to
  /\ UNCHANGED <<menu, planVars, tasks, logs, request, allowed>>

-----------------------------------------------------------------------------
(* The kitchen: the tasks. *)

MayStart(d) ==
  /\ status \in {"APPROVED", "IN_SERVICE"}
  /\ tasks[d].status = "PENDING"

BeginStart(c, d) ==
  /\ request[c] = Idle
  /\ TaskRowFree(d)
  /\ MayStart(d)
  /\ request' = [request EXCEPT ![c] = [step |-> "starting", dish |-> d]]
  /\ UNCHANGED <<slotVars, planVars, tasks, logs, allowed>>

StartTask(c) ==
  /\ request[c].step = "starting"
  /\ tasks' = [tasks EXCEPT ![request[c].dish].status = "IN_PROGRESS"]
  /\ request' = [request EXCEPT ![c] = Idle]
  /\ UNCHANGED <<slotVars, planVars, logs, allowed>>

\* Also of a task that is done, to correct it.  A weight far from the expected
\* one needs a note.
MayComplete(d) ==
  /\ status \in {"APPROVED", "IN_SERVICE", "SERVICE_CLOSED"}
  /\ tasks[d].status # "NONE"

BeginComplete(c, d, kg) ==
  /\ request[c] = Idle
  /\ TaskRowFree(d)
  /\ MayComplete(d)
  /\ request' = [request EXCEPT ![c] =
       [step |-> "completing", dish |-> d, kg |-> kg]]
  /\ UNCHANGED <<slotVars, planVars, tasks, logs, allowed>>

\* A defect to be caught: recording a weight again toggles the task.
CompletedToggling(task, kg) ==
  [task EXCEPT !.status = IF @ = "DONE" THEN "IN_PROGRESS" ELSE "DONE",
               !.kg = kg]

Completed(task, kg) == [task EXCEPT !.status = "DONE", !.kg = kg]

CompleteTask(c) ==
  LET q == request[c] IN
  /\ q.step = "completing"
  /\ tasks' = [tasks EXCEPT ![q.dish] = Completed(@, q.kg)]
  /\ request' = [request EXCEPT ![c] = Idle]
  /\ UNCHANGED <<slotVars, planVars, logs, allowed>>

-----------------------------------------------------------------------------
(* The kitchen: leftovers and waste. *)

LiveLogs(categories) ==
  {l \in Log : logs[l].state = "LIVE" /\ logs[l].category \in categories}
LoggedKg(categories) ==
  SumFunctionOnSet([l \in Log |-> logs[l].kg], LiveLogs(categories))

\* The weight of all dishes, and the tasks that are not done.
TasksKg == SumFunctionOnSet([d \in Dish |-> tasks[d].kg], TaskDishes)
OpenTasks == {d \in TaskDishes : tasks[d].status # "DONE"}

MayLog(category) ==
  status \in (IF category = "KITCHEN_WASTE" THEN FoodLogOpen
              ELSE FoodLogOpen \ {"APPROVED"})

\* A defect to be caught: an entry is weighed against what was prepared
\* without the entries there are.
LeftoversFitAlone(category, kg) ==
  category \in Leftovers /\ OpenTasks = {} /\ TasksKg > 0 =>
    100 * kg <= 102 * TasksKg

LeftoversFit(category, kg) ==
  category \in Leftovers /\ OpenTasks = {} /\ TasksKg > 0 =>
    100 * (LoggedKg(Leftovers) + kg) <= 102 * TasksKg

BeginFoodLog(c, category, kg) ==
  /\ request[c] = Idle
  /\ SlotRowFree
  /\ MayLog(category)
  /\ LeftoversFit(category, kg)
  /\ request' = [request EXCEPT ![c] =
       [step |-> "logging", category |-> category, kg |-> kg,
        allowed |-> IF category \notin Leftovers THEN allowed
                    ELSE IF OpenTasks = {} /\ TasksKg > 0 THEN {TasksKg}
                    ELSE {}]]
  /\ UNCHANGED <<slotVars, planVars, tasks, logs, allowed>>

AddFoodLog(c, l) ==
  LET q == request[c] IN
  /\ q.step = "logging"
  /\ logs[l] = NoLog
  /\ logs' = [logs EXCEPT ![l] =
       [state |-> "LIVE", category |-> q.category, kg |-> q.kg]]
  /\ allowed' = q.allowed
  /\ request' = [request EXCEPT ![c] = Idle]
  /\ UNCHANGED <<slotVars, planVars, tasks>>

\* An entry is voided, never changed, at any time after.  Nothing reads it
\* then, so that its columns are left out.
VoidFoodLog(l) ==
  /\ logs[l].state = "LIVE"
  /\ logs' = [logs EXCEPT ![l] = [NoLog EXCEPT !.state = "VOID"]]
  /\ UNCHANGED <<slotVars, planVars, tasks, request, allowed>>

\* A request fails before it commits.
AbortRequest(c) ==
  /\ request[c] # Idle
  /\ request' = [request EXCEPT ![c] = Idle]
  /\ UNCHANGED <<slotVars, planVars, tasks, logs, allowed>>

-----------------------------------------------------------------------------
(* mealMetrics: a metric that needs a missing input is missing. *)

PreparedKg == IF TaskDishes # {} /\ OpenTasks = {} THEN {TasksKg} ELSE {}

CategoryKg(category) ==
  IF LiveLogs({category}) = {} THEN {} ELSE {LoggedKg({category})}

DiscardedKg ==
  {s + p : s \in CategoryKg("DISCARDED_SURPLUS"), p \in CategoryKg("PLATE_WASTE")}

ServedKg ==
  {p - r - s : p \in PreparedKg, r \in CategoryKg("REUSABLE_SURPLUS"),
               s \in CategoryKg("DISCARDED_SURPLUS")}

-----------------------------------------------------------------------------

SupervisorStep ==
  \/ \E new \in Menus : UpdateMenu(new)
  \/ \E servings \in Target : ApprovePlan(servings)
  \/ \E to \in Status : MoveSlot(to)

CookStep(c) ==
  \/ \E d \in Dish : BeginStart(c, d)
  \/ StartTask(c)
  \/ \E d \in Dish, kg \in Kg : BeginComplete(c, d, kg)
  \/ CompleteTask(c)
  \/ \E category \in Categories, kg \in Kg : BeginFoodLog(c, category, kg)
  \/ \E l \in Log : AddFoodLog(c, l)
  \/ AbortRequest(c)

Next ==
  \/ SupervisorStep
  \/ \E c \in Cook : CookStep(c)
  \/ \E l \in Log : VoidFoodLog(l)

Spec == Init /\ [][Next]_vars

-----------------------------------------------------------------------------
(* Properties. *)

TypeOK ==
  /\ status \in Status
  /\ menu \in Menus
  /\ plan \in SUBSET Target
  /\ tasks \in [Dish -> [status : {"NONE", "PENDING", "IN_PROGRESS", "DONE"},
                         planned : Nat, kg : Nat]]
  /\ logs \in [Log -> [state : {"NONE", "LIVE", "VOID"},
                       category : Categories, kg : Nat]]
  /\ notices \subseteq Target
  /\ request \in [Cook -> RequestState]
  /\ allowed \in SUBSET Int

\* The kitchen cooks what was approved: once there is a plan, the tasks are
\* the dishes of the menu, those not started carry the servings of the target
\* in force, and the kitchen has been told of it, whatever menus and revisions
\* came in between.
KitchenFollowsPlan ==
  \A servings \in plan :
    /\ TaskDishes = Menu
    /\ \A d \in Menu : tasks[d].status = "PENDING" =>
         tasks[d].planned = DishServings(d, servings)
    /\ servings \in notices

\* A revision does not reach a dish that is being cooked or is done, also when
\* the request that starts it is under way as the revision comes.
StartedTasksKeepServings ==
  [][\A d \in Dish : tasks[d].status \in {"IN_PROGRESS", "DONE"} =>
       /\ tasks'[d].planned = tasks[d].planned
       /\ tasks'[d].status \in {"IN_PROGRESS", "DONE"}]_vars

\* "Leftovers cannot exceed what was recorded as prepared": entries made at the
\* same time do not get past the check together.  What was prepared is what the
\* last check read; it may have been corrected downwards since.
LeftoversFitPrepared ==
  \A kg \in allowed : 100 * LoggedKg(Leftovers) <= 102 * kg

\* "Missing data is null, never 0": what a meal has contributed to the rates it
\* goes on contributing.  A known metric of it becomes missing again by voiding
\* an entry only: no dish comes to the meal and none reopens.
KnownMetricsStayKnown ==
  [][(\E l \in Log : logs[l].state = "LIVE" /\ logs'[l].state = "VOID")
     \/ /\ PreparedKg # {} => PreparedKg' # {}
        /\ DiscardedKg # {} => DiscardedKg' # {}
        /\ ServedKg # {} => ServedKg' # {}]_vars
=============================================================================

------------------------- MODULE PreparationProofs -------------------------
(***************************************************************************)
(* Proofs about the kitchen's side of a meal, for any dishes, menus,       *)
(* targets and cooks.  A request that holds a task's row finds the task as *)
(* it read it (RequestsKnow), since a revision waits for the rows it would *)
(* change; and a plan has closed the menu (PlanClosesMenu).  What was      *)
(* logged is a sum over the entries: an entry adds its weight to it and a  *)
(* void takes it away (LeftoversInv).                                      *)
(***************************************************************************)
EXTENDS KitchenPage, SharedLemmas, TLAPS

Tables ==
  /\ menu \in [Dish -> 0..100]
  /\ plan \subseteq Target
  /\ tasks \in [Dish -> [status : {"NONE", "PENDING", "IN_PROGRESS", "DONE"},
                         planned : Nat, kg : Nat]]
  /\ logs \in [Log -> [state : {"NONE", "LIVE", "VOID"},
                       category : Categories, kg : Nat]]
  /\ request = [c \in Cook |-> request[c]]

HoldsTask(c) == request[c].step \in {"starting", "completing"}

RequestsKnow ==
  \A c \in Cook :
    /\ request[c].step = "starting" =>
         /\ request[c].dish \in Dish
         /\ tasks[request[c].dish].status = "PENDING"
    /\ request[c].step = "completing" =>
         /\ request[c].dish \in Dish
         /\ request[c].kg \in Kg
         /\ tasks[request[c].dish].status # "NONE"
    /\ request[c].step = "logging" =>
         request[c].category \in Categories /\ request[c].kg \in Kg

RowsHeldOnce ==
  \A b, c \in Cook :
    b # c /\ HoldsTask(b) /\ HoldsTask(c) => request[b].dish # request[c].dish

PlanClosesMenu ==
  IF plan = {} THEN \A d \in Dish : tasks[d].status = "NONE"
               ELSE status \notin MenuEditable

PreparationInv ==
  Tables /\ RequestsKnow /\ RowsHeldOnce /\ PlanClosesMenu /\ KitchenFollowsPlan

LEMMA ServingsAreNat ==
  ASSUME Tables, NEW d \in Dish, NEW servings \in Target
  PROVE  DishServings(d, servings) \in Nat
<1>1. servings \in Nat /\ menu[d] \in Nat
  BY ConstantAssumption DEF Tables
<1> DEFINE product == servings * menu[d]
<1>2. product \in Nat
  BY <1>1
<1> HIDE DEF product
<1>3. (product + 99) \div 100 \in Nat
  BY <1>2
<1> QED
  BY <1>3 DEF product, DishServings

LEMMA Initial == Init => PreparationInv
<1> SUFFICES ASSUME Init PROVE PreparationInv
  OBVIOUS
<1>1. Tables
  BY ConstantAssumption DEF Init, Tables, NoTask, NoLog, Categories
<1>2. RequestsKnow /\ RowsHeldOnce /\ PlanClosesMenu /\ KitchenFollowsPlan
  BY DEF Init, RequestsKnow, RowsHeldOnce, HoldsTask, PlanClosesMenu,
         KitchenFollowsPlan, NoTask, Idle
<1> QED
  BY <1>1, <1>2 DEF PreparationInv

-----------------------------------------------------------------------------
(* The supervisor. *)

LEMMA SupervisorSteps ==
  ASSUME PreparationInv, SupervisorStep
  PROVE  PreparationInv'
<1> USE DEF PreparationInv
<1>1. ASSUME NEW new \in Menus, UpdateMenu(new)
      PROVE  PreparationInv'
  <2>1. plan = {}
    BY <1>1 DEF UpdateMenu, PlanClosesMenu
  <2>2. Tables'
    BY <1>1, ConstantAssumption DEF UpdateMenu, Tables, planVars
  <2> QED
    BY <1>1, <2>1, <2>2 DEF UpdateMenu, RequestsKnow, RowsHeldOnce, HoldsTask,
       PlanClosesMenu, KitchenFollowsPlan, planVars
<1>2. ASSUME NEW servings \in Target, ApprovePlan(servings)
      PROVE  PreparationInv'
  <2>1. Tables'
    BY <1>2, ServingsAreNat DEF ApprovePlan, PlannedTasks, Tables, Menu
  <2>2. \A d \in Dish :
          \/ tasks'[d] = tasks[d]
          \/ /\ d \in Menu /\ tasks[d].status \in {"NONE", "PENDING"}
             /\ tasks'[d].status = "PENDING"
    BY <1>2 DEF ApprovePlan, PlannedTasks
  <2>3. \A c \in Cook : HoldsTask(c) => request[c].dish \notin Menu
    BY <1>2 DEF ApprovePlan, TaskRowFree, HoldsTask
  <2>4. RequestsKnow'
    <3> SUFFICES ASSUME NEW c \in Cook, HoldsTask(c)
                 PROVE  tasks'[request[c].dish] = tasks[request[c].dish]
      BY <1>2 DEF ApprovePlan, RequestsKnow, HoldsTask
    <3>1. request[c].dish \in Dish
      BY DEF RequestsKnow, HoldsTask
    <3> QED
      BY <2>2, <2>3, <3>1
  <2>5. (RowsHeldOnce /\ PlanClosesMenu)'
    BY <1>2 DEF ApprovePlan, RowsHeldOnce, HoldsTask, PlanClosesMenu, MenuEditable
  <2>6. KitchenFollowsPlan'
    <3>1. Menu' = Menu /\ plan' = {servings} /\ notices' = notices \cup {servings}
      BY <1>2 DEF ApprovePlan, Menu
    <3>2. TaskDishes \subseteq Menu
      BY DEF KitchenFollowsPlan, PlanClosesMenu, TaskDishes
    <3>3. \A d \in Dish : d \in Menu =>
            tasks'[d].status # "NONE"
      BY <1>2 DEF ApprovePlan, PlannedTasks, Tables
    <3>4. TaskDishes' = Menu'
      BY <2>2, <3>1, <3>2, <3>3 DEF TaskDishes, Menu
    <3>5. \A d \in Menu : tasks'[d].status = "PENDING" =>
            tasks'[d].planned = DishServings(d, servings)
      BY <1>2 DEF ApprovePlan, PlannedTasks, Menu, Tables
    <3>6. \A d \in Dish : DishServings(d, servings)' = DishServings(d, servings)
      BY <1>2 DEF ApprovePlan, DishServings
    <3> QED
      BY <3>1, <3>4, <3>5, <3>6 DEF KitchenFollowsPlan, Menu
  <2> QED
    BY <2>1, <2>4, <2>5, <2>6
<1>3. ASSUME NEW to \in Status, MoveSlot(to)
      PROVE  PreparationInv'
  BY <1>3 DEF MoveSlot, Tables, RequestsKnow, RowsHeldOnce, HoldsTask, PlanClosesMenu,
     KitchenFollowsPlan, TaskDishes, Menu, DishServings, planVars, MenuEditable
<1> QED
  BY <1>1, <1>2, <1>3 DEF SupervisorStep

-----------------------------------------------------------------------------
(* The kitchen. *)

\* What a step of one cook does to the tasks keeps the invariant, if it takes
\* no row another cook holds and turns no task into one that is not started.
LEMMA CookStepKeeps ==
  ASSUME PreparationInv,
         NEW c \in Cook,
         UNCHANGED <<slotVars, planVars>>,
         Tables',
         \A b \in Cook : b # c => request'[b] = request[b],
         HoldsTask(c)' =>
           /\ request'[c].dish \in Dish
           /\ TaskRowFree(request'[c].dish)
           /\ request'[c].step = "starting" => tasks[request'[c].dish].status = "PENDING"
           /\ request'[c].step = "completing" =>
                request'[c].kg \in Kg /\ tasks[request'[c].dish].status # "NONE"
           /\ tasks' = tasks,
         request'[c].step = "logging" =>
           request'[c].category \in Categories /\ request'[c].kg \in Kg,
         \A d \in Dish :
           \/ tasks'[d] = tasks[d]
           \/ /\ HoldsTask(c) /\ d = request[c].dish
              /\ tasks[d].status # "NONE"
              /\ tasks'[d].status \in {"IN_PROGRESS", "DONE"}
  PROVE  PreparationInv'
<1> USE DEF PreparationInv
<1>1. RowsHeldOnce'
  BY DEF RowsHeldOnce, HoldsTask, TaskRowFree
<1>2. RequestsKnow'
  <2> SUFFICES ASSUME NEW b \in Cook, b # c, HoldsTask(b)
               PROVE  tasks'[request[b].dish] = tasks[request[b].dish]
    BY DEF RequestsKnow, HoldsTask
  <2> QED
    BY DEF RequestsKnow, RowsHeldOnce, HoldsTask
<1>3. \A d \in Dish : tasks'[d].status = "NONE" <=> tasks[d].status = "NONE"
  OBVIOUS
<1>4. menu' = menu /\ status' = status /\ plan' = plan /\ notices' = notices
  BY DEF slotVars, planVars
<1>5. PlanClosesMenu'
  BY <1>3, <1>4 DEF PlanClosesMenu
<1>6. KitchenFollowsPlan'
  <2>1. TaskDishes' = TaskDishes /\ Menu' = Menu
    BY <1>3, <1>4 DEF TaskDishes, Menu
  <2>2. \A d \in Dish : tasks'[d].status = "PENDING" => tasks'[d] = tasks[d]
    OBVIOUS
  <2> QED
    BY <1>4, <2>1, <2>2 DEF KitchenFollowsPlan, DishServings, Menu
<1> QED
  BY <1>1, <1>2, <1>5, <1>6

LEMMA CookSteps ==
  ASSUME PreparationInv, NEW c \in Cook, CookStep(c)
  PROVE  PreparationInv'
<1> USE DEF PreparationInv
<1>1. ASSUME NEW d \in Dish, BeginStart(c, d)
      PROVE  PreparationInv'
  <2>1. request' = [request EXCEPT ![c] = [step |-> "starting", dish |-> d]]
    BY <1>1 DEF BeginStart
  <2>2. Tables'
    BY <1>1 DEF BeginStart, Tables, slotVars, planVars
  <2>3. /\ request'[c].step = "starting"
        /\ request'[c].dish = d
        /\ \A b \in Cook : b # c => request'[b] = request[b]
    BY <2>1 DEF Tables
  <2> QED
    BY <1>1, <2>2, <2>3, CookStepKeeps DEF BeginStart, MayStart
<1>2. ASSUME StartTask(c)
      PROVE  PreparationInv'
  <2>1. /\ request[c].dish \in Dish
        /\ tasks[request[c].dish].status = "PENDING"
        /\ HoldsTask(c)
        /\ request' = [request EXCEPT ![c] = Idle]
    BY <1>2 DEF StartTask, RequestsKnow, HoldsTask
  <2>2. Tables'
    BY <1>2, <2>1 DEF StartTask, Tables, slotVars, planVars
  <2>3. request'[c].step = "idle" /\ \A b \in Cook : b # c => request'[b] = request[b]
    BY <2>1 DEF Tables, Idle
  <2>4. \A d \in Dish :
          \/ tasks'[d] = tasks[d]
          \/ d = request[c].dish /\ tasks'[d].status = "IN_PROGRESS"
    BY <1>2, <2>1 DEF StartTask, Tables
  <2> QED
    BY <1>2, <2>1, <2>2, <2>3, <2>4, CookStepKeeps DEF StartTask, HoldsTask
<1>3. ASSUME NEW d \in Dish, NEW kg \in Kg, BeginComplete(c, d, kg)
      PROVE  PreparationInv'
  <2>1. request' = [request EXCEPT ![c] =
          [step |-> "completing", dish |-> d, kg |-> kg]]
    BY <1>3 DEF BeginComplete
  <2>2. Tables'
    BY <1>3 DEF BeginComplete, Tables, slotVars, planVars
  <2>3. /\ request'[c].step = "completing"
        /\ request'[c].dish = d
        /\ request'[c].kg = kg
        /\ \A b \in Cook : b # c => request'[b] = request[b]
    BY <2>1 DEF Tables
  <2> QED
    BY <1>3, <2>2, <2>3, CookStepKeeps DEF BeginComplete, MayComplete
<1>4. ASSUME CompleteTask(c)
      PROVE  PreparationInv'
  <2>1. /\ request[c].dish \in Dish
        /\ request[c].kg \in Nat
        /\ tasks[request[c].dish].status # "NONE"
        /\ HoldsTask(c)
        /\ request' = [request EXCEPT ![c] = Idle]
    BY <1>4, ConstantAssumption DEF CompleteTask, RequestsKnow, HoldsTask
  <2>2. Tables'
    BY <1>4, <2>1 DEF CompleteTask, Completed, Tables, slotVars, planVars
  <2>3. request'[c].step = "idle" /\ \A b \in Cook : b # c => request'[b] = request[b]
    BY <2>1 DEF Tables, Idle
  <2>4. \A d \in Dish :
          \/ tasks'[d] = tasks[d]
          \/ d = request[c].dish /\ tasks'[d].status = "DONE"
    BY <1>4, <2>1 DEF CompleteTask, Completed, Tables
  <2> QED
    BY <1>4, <2>1, <2>2, <2>3, <2>4, CookStepKeeps DEF CompleteTask, HoldsTask
<1>5. ASSUME NEW category \in Categories, NEW kg \in Kg, BeginFoodLog(c, category, kg)
      PROVE  PreparationInv'
  <2>1. /\ request'[c].step = "logging"
        /\ request'[c].category = category
        /\ request'[c].kg = kg
        /\ \A b \in Cook : b # c => request'[b] = request[b]
    BY <1>5 DEF BeginFoodLog, Tables
  <2>2. Tables'
    BY <1>5 DEF BeginFoodLog, Tables, slotVars, planVars
  <2> QED
    BY <1>5, <2>1, <2>2, CookStepKeeps DEF BeginFoodLog, HoldsTask
<1>6. ASSUME NEW l \in Log, AddFoodLog(c, l)
      PROVE  PreparationInv'
  <2>1. /\ request[c].category \in Categories
        /\ request[c].kg \in Nat
        /\ request' = [request EXCEPT ![c] = Idle]
    BY <1>6, ConstantAssumption DEF AddFoodLog, RequestsKnow
  <2>2. Tables'
    BY <1>6, <2>1 DEF AddFoodLog, Tables, slotVars, planVars
  <2>3. request'[c].step = "idle" /\ \A b \in Cook : b # c => request'[b] = request[b]
    BY <2>1 DEF Tables, Idle
  <2> QED
    BY <1>6, <2>2, <2>3, CookStepKeeps DEF AddFoodLog, HoldsTask
<1>7. ASSUME AbortRequest(c)
      PROVE  PreparationInv'
  <2>1. Tables'
    BY <1>7 DEF AbortRequest, Tables, slotVars, planVars
  <2>2. request'[c].step = "idle" /\ \A b \in Cook : b # c => request'[b] = request[b]
    BY <1>7 DEF AbortRequest, Tables, Idle
  <2> QED
    BY <1>7, <2>1, <2>2, CookStepKeeps DEF AbortRequest, HoldsTask
<1> QED
  BY <1>1, <1>2, <1>3, <1>4, <1>5, <1>6, <1>7 DEF CookStep

LEMMA Inductive == PreparationInv /\ [Next]_vars => PreparationInv'
<1> SUFFICES ASSUME PreparationInv, [Next]_vars
             PROVE  PreparationInv'
  OBVIOUS
<1>1. ASSUME NEW l \in Log, VoidFoodLog(l)
      PROVE  PreparationInv'
  <2>1. Tables'
    BY <1>1 DEF PreparationInv, VoidFoodLog, Tables, NoLog, Categories, slotVars, planVars
  <2> QED
    BY <1>1, <2>1 DEF PreparationInv, VoidFoodLog, RequestsKnow, RowsHeldOnce, HoldsTask,
       PlanClosesMenu, KitchenFollowsPlan, TaskDishes, Menu, DishServings, slotVars, planVars
<1>2. CASE UNCHANGED vars
  BY <1>2 DEF PreparationInv, Tables, RequestsKnow, RowsHeldOnce, HoldsTask,
     PlanClosesMenu, KitchenFollowsPlan, TaskDishes, Menu, DishServings, vars, slotVars,
     planVars
<1> QED
  BY <1>1, <1>2, SupervisorSteps, CookSteps DEF Next

LEMMA Invariant == Spec => []PreparationInv
  BY Initial, Inductive, PTL DEF Spec

-----------------------------------------------------------------------------
(* The theorems. *)

\* The kitchen cooks what was approved, whatever menus and revisions came in
\* between, for any dishes and targets.
THEOREM PlanIsFollowed == Spec => []KitchenFollowsPlan
<1>1. PreparationInv => KitchenFollowsPlan
  BY DEF PreparationInv
<1> QED
  BY <1>1, Invariant, PTL

\* The kitchen's page and the API agree, but for the two offers named, on every
\* meal that is reached.
THEOREM KitchenPageCorrect == Spec => []KitchenPageFits
<1>1. PreparationInv => KitchenPageFits
  <2> SUFFICES ASSUME PreparationInv
               PROVE  KitchenPageFits
    OBVIOUS
  <2> USE DEF PreparationInv
  <2>1. ASSUME NEW d \in Dish, DishOption(d)
        PROVE  menu[d] # 0
    <3>1. PICK servings \in plan : TRUE
      BY <2>1 DEF DishOption, TaskDishes, PlanClosesMenu
    <3>2. TaskDishes = Menu
      BY <3>1 DEF KitchenFollowsPlan
    <3> QED
      BY <2>1, <3>2 DEF DishOption, Menu
  <2>2. \A d \in Dish :
          /\ MayStart(d) => StartButton(d)
          /\ StartButton(d) => MayStart(d) \/ status = "SERVICE_CLOSED"
          /\ CompleteButton(d) <=> MayComplete(d)
    BY DEF MayStart, StartButton, CanPrep, CompleteButton, MayComplete, TaskDishes
  <2>3. \A category \in Categories :
          /\ MayLog(category) => CategoryOption(category)
          /\ CategoryOption(category) => MayLog(category) \/ category = "KITCHEN_WASTE"
    BY DEF MayLog, CategoryOption, ServedStarted, FoodLogOpen
  <2>4. \A l \in Log : VoidButton(l) <=> l \in LiveLogs(Categories)
    BY DEF VoidButton, LiveLogs, Tables
  <2> QED
    BY <2>1, <2>2, <2>3, <2>4 DEF KitchenPageFits
<1> QED
  BY <1>1, Invariant, PTL

\* No step takes a task that was started back, or changes its servings.
THEOREM StartedTasksKept == Spec => StartedTasksKeepServings
<1> DEFINE Kept(d) ==
      tasks[d].status \in {"IN_PROGRESS", "DONE"} =>
        /\ tasks'[d].planned = tasks[d].planned
        /\ tasks'[d].status \in {"IN_PROGRESS", "DONE"}
<1>1. ASSUME PreparationInv, [Next]_vars, NEW d \in Dish
      PROVE  Kept(d)
  <2> USE <1>1 DEF PreparationInv
  <2>1. ASSUME NEW servings \in Target, ApprovePlan(servings)
        PROVE  Kept(d)
    BY <2>1 DEF ApprovePlan, PlannedTasks
  <2>2. ASSUME NEW c \in Cook, StartTask(c)
        PROVE  Kept(d)
    BY <2>2 DEF StartTask, Tables
  <2>3. ASSUME NEW c \in Cook, CompleteTask(c)
        PROVE  Kept(d)
    BY <2>3 DEF CompleteTask, Completed, Tables
  <2>4. CASE UNCHANGED tasks
    BY <2>4
  <2> QED
    BY <2>1, <2>2, <2>3, <2>4
       DEF Next, SupervisorStep, CookStep, UpdateMenu, MoveSlot, BeginStart, BeginComplete,
           BeginFoodLog, AddFoodLog, AbortRequest, VoidFoodLog, vars
<1>2. PreparationInv /\ [Next]_vars => [\A d \in Dish : Kept(d)]_vars
  BY <1>1
<1> QED
  BY <1>2, Invariant, PTL DEF Spec, StartedTasksKeepServings

AllDone == TaskDishes # {} /\ OpenTasks = {}

LEMMA AllDoneStays ==
  ASSUME PreparationInv, [Next]_vars, AllDone
  PROVE  AllDone'
<1> USE DEF PreparationInv, AllDone, TaskDishes, OpenTasks
<1>1. \A d \in Dish : tasks[d].status \in {"NONE", "DONE"}
  BY DEF Tables
<1>2. ASSUME NEW servings \in Target, ApprovePlan(servings)
      PROVE  UNCHANGED tasks
  <2>1. plan # {}
    BY DEF PlanClosesMenu
  <2>2. TaskDishes = Menu
    BY <2>1 DEF KitchenFollowsPlan
  <2>3. \A d \in Menu : tasks[d].status = "DONE"
    BY <1>1, <2>2
  <2>4. tasks' = [d \in Dish |-> tasks[d]]
    BY <1>2, <2>3 DEF ApprovePlan, PlannedTasks, Menu
  <2> QED
    BY <2>4 DEF Tables
<1>3. ASSUME NEW c \in Cook, StartTask(c)
      PROVE  FALSE
  BY <1>1, <1>3 DEF StartTask, RequestsKnow
<1>4. ASSUME NEW c \in Cook, CompleteTask(c)
      PROVE  \A d \in Dish : tasks'[d].status = "DONE" <=> tasks[d].status = "DONE"
  BY <1>1, <1>4 DEF CompleteTask, Completed, RequestsKnow, Tables
<1>5. \A d \in Dish : tasks'[d].status = "NONE" <=> tasks[d].status = "NONE"
  <2>1. ASSUME NEW c \in Cook, CompleteTask(c)
        PROVE  \A d \in Dish : tasks'[d].status = "NONE" <=> tasks[d].status = "NONE"
    BY <1>1, <2>1 DEF CompleteTask, Completed, RequestsKnow, Tables
  <2> QED
    BY <1>2, <1>3, <2>1
       DEF Next, SupervisorStep, CookStep, UpdateMenu, MoveSlot, BeginStart, BeginComplete,
           BeginFoodLog, AddFoodLog, AbortRequest, VoidFoodLog, vars
<1>6. \A d \in Dish : tasks'[d].status = "DONE" <=> tasks[d].status = "DONE"
  BY <1>2, <1>3, <1>4
     DEF Next, SupervisorStep, CookStep, UpdateMenu, MoveSlot, BeginStart, BeginComplete,
         BeginFoodLog, AddFoodLog, AbortRequest, VoidFoodLog, vars
<1> QED
  BY <1>1, <1>5, <1>6

LEMMA EntriesStay ==
  ASSUME PreparationInv, [Next]_vars,
         \A l \in Log : logs[l].state = "LIVE" => logs'[l].state # "VOID",
         NEW category, LiveLogs({category}) # {}
  PROVE  LiveLogs({category})' # {}
<1> USE DEF PreparationInv
<1>1. PICK l \in Log : logs[l].state = "LIVE" /\ logs[l].category = category
  BY DEF LiveLogs
<1>2. logs'[l] = logs[l]
  <2>1. ASSUME NEW c \in Cook, NEW k \in Log, AddFoodLog(c, k)
        PROVE  logs'[l] = logs[l]
    BY <1>1, <2>1 DEF AddFoodLog, NoLog, Tables
  <2>2. ASSUME NEW k \in Log, VoidFoodLog(k)
        PROVE  logs'[l] = logs[l]
    <3>1. logs'[k].state = "VOID"
      BY <2>2 DEF VoidFoodLog, NoLog, Tables
    <3> QED
      BY <2>2, <3>1 DEF VoidFoodLog, Tables
  <2> QED
    BY <2>1, <2>2
       DEF Next, SupervisorStep, CookStep, UpdateMenu, ApprovePlan, MoveSlot, BeginStart,
           StartTask, BeginComplete, CompleteTask, BeginFoodLog, AbortRequest, vars
<1> QED
  BY <1>1, <1>2 DEF LiveLogs

\* A metric of a meal that is known becomes missing by voiding an entry only,
\* for any dishes, cooks and entries.
THEOREM KnownMetricsKept == Spec => KnownMetricsStayKnown
<1> DEFINE Voided == \E l \in Log : logs[l].state = "LIVE" /\ logs'[l].state = "VOID"
           Known == /\ PreparedKg # {} => PreparedKg' # {}
                    /\ DiscardedKg # {} => DiscardedKg' # {}
                    /\ ServedKg # {} => ServedKg' # {}
<1>1. PreparationInv /\ [Next]_vars => Voided \/ Known
  <2> SUFFICES ASSUME PreparationInv, [Next]_vars, ~Voided
               PROVE  Known
    OBVIOUS
  <2>1. PreparedKg # {} => PreparedKg' # {}
    BY AllDoneStays DEF PreparedKg, AllDone
  <2>2. ASSUME NEW category, CategoryKg(category) # {}
        PROVE  CategoryKg(category)' # {}
    BY <2>2, EntriesStay DEF CategoryKg
  <2>3. DiscardedKg # {} => DiscardedKg' # {}
    BY <2>2 DEF DiscardedKg
  <2>4. ASSUME ServedKg # {}
        PROVE  ServedKg' # {}
    <3>1. /\ PreparedKg # {}
          /\ CategoryKg("REUSABLE_SURPLUS") # {}
          /\ CategoryKg("DISCARDED_SURPLUS") # {}
      BY <2>4 DEF ServedKg
    <3>2. PICK p \in PreparedKg' : TRUE
      BY <2>1, <3>1
    <3>3. PICK r \in CategoryKg("REUSABLE_SURPLUS")' : TRUE
      BY <2>2, <3>1
    <3>4. PICK s \in CategoryKg("DISCARDED_SURPLUS")' : TRUE
      BY <2>2, <3>1
    <3>5. p - r - s \in ServedKg'
      BY <3>2, <3>3, <3>4 DEF ServedKg
    <3> QED
      BY <3>5
  <2> QED
    BY <2>1, <2>3, <2>4
<1>2. PreparationInv /\ [Next]_vars => [Voided \/ Known]_vars
  BY <1>1
<1> QED
  BY <1>2, Invariant, PTL DEF Spec, KnownMetricsStayKnown

-----------------------------------------------------------------------------
(* Leftovers.  An entry that has passed its check holds the slot's row, so   *)
(* that no other entry comes in before it is written: what it would add still *)
(* fits then.                                                                *)

Adds(c) == IF request[c].category \in Leftovers THEN request[c].kg ELSE 0

EntryFits ==
  \A c \in Cook : request[c].step = "logging" =>
    /\ request[c].allowed \subseteq Nat
    /\ \A kg \in request[c].allowed : 100 * (LoggedKg(Leftovers) + Adds(c)) <= 102 * kg

OneEntry ==
  \A b, c \in Cook : request[b].step = "logging" /\ request[c].step = "logging" => b = c

LeftoversInv == allowed \subseteq Nat /\ LeftoversFitPrepared /\ EntryFits /\ OneEntry

Weight == [l \in Log |-> logs[l].kg]

\* The weight of the leftovers is a sum of the entries that are not voided.
LeftoversWeighed ==
  LET live == LiveLogs(Leftovers) IN
  /\ IsFiniteSet(live) /\ \A l \in live : l \in Log /\ Weight[l] \in Nat
  /\ LoggedKg(Leftovers) = SumFunctionOnSet(Weight, live)
  /\ LoggedKg(Leftovers) \in Nat

LEMMA WeightsAreNat == Tables => LeftoversWeighed
<1> SUFFICES ASSUME Tables PROVE LeftoversWeighed
  OBVIOUS
<1> DEFINE live == LiveLogs(Leftovers)
<1>1. IsFiniteSet(live)
  BY ConstantAssumption, FS_Subset DEF LiveLogs
<1>2. \A l \in live : l \in Log /\ Weight[l] \in Nat
  BY DEF LiveLogs, Weight, Tables
<1>3. LoggedKg(Leftovers) = SumFunctionOnSet(Weight, live)
  BY DEF LoggedKg, Weight
<1>4. SumFunctionOnSet(Weight, live) \in Nat
  BY <1>1, <1>2, SumNat
<1> QED
  BY <1>1, <1>2, <1>3, <1>4 DEF LeftoversWeighed

\* What was prepared is a natural number.
LEMMA TasksAreNat ==
  ASSUME Tables
  PROVE  TasksKg \in Nat
<1> DEFINE kg == [d \in Dish |-> tasks[d].kg]
<1>1. IsFiniteSet(TaskDishes) /\ \A d \in TaskDishes : kg[d] \in Nat
  BY ConstantAssumption, FS_Subset DEF TaskDishes, Tables
<1> HIDE DEF kg
<1>2. SumFunctionOnSet(kg, TaskDishes) \in Nat
  BY <1>1, SumNat
<1> QED
  BY <1>2 DEF kg, TasksKg

\* An entry adds its weight to its category.
LEMMA EntryAdds ==
  ASSUME PreparationInv, Tables', NEW c \in Cook, NEW l \in Log, AddFoodLog(c, l)
  PROVE  LoggedKg(Leftovers)' = LoggedKg(Leftovers) + Adds(c)
<1> USE DEF PreparationInv
<1>1. /\ logs'[l] = [state |-> "LIVE", category |-> request[c].category, kg |-> request[c].kg]
      /\ \A k \in Log \ {l} : logs'[k] = logs[k]
      /\ logs[l].state = "NONE"
  BY DEF AddFoodLog, NoLog, Tables
<1> DEFINE before == LiveLogs(Leftovers)
           after == LiveLogs(Leftovers)'
<1>2. /\ IsFiniteSet(before) /\ \A k \in before : k \in Log /\ Weight[k] \in Nat
      /\ LoggedKg(Leftovers) = SumFunctionOnSet(Weight, before)
      /\ LoggedKg(Leftovers) \in Nat
  BY WeightsAreNat DEF LeftoversWeighed
<1>3. /\ IsFiniteSet(after) /\ \A k \in after : k \in Log /\ Weight'[k] \in Nat
      /\ LoggedKg(Leftovers)' = SumFunctionOnSet(Weight', after)
  <2>1. LeftoversWeighed'
    BY WeightsAreNat, PTL
  <2> QED
    BY <2>1 DEF LeftoversWeighed
<1>4. \A k \in before : k # l /\ Weight'[k] = Weight[k]
  BY <1>1, <1>2 DEF Weight, LiveLogs
<1>5. Weight'[l] = request[c].kg
  BY <1>1 DEF Weight
<1>6. CASE request[c].category \in Leftovers
  <2>1. after = before \cup {l}
    BY <1>1, <1>6 DEF LiveLogs
  <2>2. l \in after /\ after \ {l} = before
    BY <1>4, <2>1
  <2> HIDE DEF before, after
  <2>3. SumFunctionOnSet(Weight', after) = Weight'[l] + SumFunctionOnSet(Weight', before)
    BY <1>3, <2>2, SumRemoves
  <2>4. SumFunctionOnSet(Weight', before) = SumFunctionOnSet(Weight, before)
    BY <1>2, <1>4, SumSame
  <2>5. request[c].kg \in Nat
    BY ConstantAssumption DEF AddFoodLog, RequestsKnow
  <2> QED
    BY <1>2, <1>3, <1>5, <1>6, <2>3, <2>4, <2>5 DEF Adds
<1>7. CASE request[c].category \notin Leftovers
  <2>1. after = before
    BY <1>1, <1>7 DEF LiveLogs
  <2> HIDE DEF before, after
  <2>2. SumFunctionOnSet(Weight', before) = SumFunctionOnSet(Weight, before)
    BY <1>2, <1>4, SumSame
  <2> QED
    BY <1>2, <1>3, <1>7, <2>1, <2>2 DEF Adds
<1> QED
  BY <1>6, <1>7

\* A void takes from it at most.
LEMMA VoidTakes ==
  ASSUME Tables, Tables', NEW l \in Log, VoidFoodLog(l)
  PROVE  LoggedKg(Leftovers)' <= LoggedKg(Leftovers)
<1>1. logs'[l].state = "VOID" /\ \A k \in Log \ {l} : logs'[k] = logs[k]
  BY DEF VoidFoodLog, NoLog, Tables
<1> DEFINE before == LiveLogs(Leftovers)
           after == LiveLogs(Leftovers)'
<1>2. /\ IsFiniteSet(before) /\ \A k \in before : k \in Log /\ Weight[k] \in Nat
      /\ LoggedKg(Leftovers) = SumFunctionOnSet(Weight, before)
      /\ LoggedKg(Leftovers) \in Nat
  BY WeightsAreNat DEF LeftoversWeighed
<1>3. /\ IsFiniteSet(after) /\ \A k \in after : k \in Log /\ Weight'[k] \in Nat
      /\ LoggedKg(Leftovers)' = SumFunctionOnSet(Weight', after)
  <2>1. LeftoversWeighed'
    BY WeightsAreNat, PTL
  <2> QED
    BY <2>1 DEF LeftoversWeighed
<1>4. after = before \ {l} /\ \A k \in after : Weight'[k] = Weight[k]
  BY <1>1 DEF LiveLogs, Weight
<1> HIDE DEF before, after
<1>5. SumFunctionOnSet(Weight', after) = SumFunctionOnSet(Weight, after)
  BY <1>3, <1>4, SumSame
<1>6. CASE l \in before
  <2>1. SumFunctionOnSet(Weight, before) = Weight[l] + SumFunctionOnSet(Weight, after)
    BY <1>2, <1>4, <1>6, SumRemoves
  <2>2. SumFunctionOnSet(Weight, after) \in Nat
    BY <1>2, <1>3, <1>4, SumNat
  <2> QED
    BY <1>2, <1>3, <1>5, <1>6, <2>1, <2>2
<1>7. CASE l \notin before
  BY <1>2, <1>3, <1>4, <1>5, <1>7
<1> QED
  BY <1>6, <1>7

\* No step makes the leftovers exceed what their check allowed.
LEMMA LeftoversInductive ==
  PreparationInv /\ PreparationInv' /\ LeftoversInv /\ [Next]_vars => LeftoversInv'
<1> SUFFICES ASSUME PreparationInv, PreparationInv', LeftoversInv, [Next]_vars
             PROVE  LeftoversInv'
  OBVIOUS
<1> USE DEF PreparationInv
<1>1. LoggedKg(Leftovers) \in Nat /\ LoggedKg(Leftovers)' \in Nat
  <2>1. LeftoversWeighed /\ LeftoversWeighed'
    <3>1. Tables /\ Tables'
      OBVIOUS
    <3> QED
      BY <3>1, WeightsAreNat, PTL
  <2> QED
    BY <2>1 DEF LeftoversWeighed
<1>2. \A c \in Cook : request[c].step = "logging" => Adds(c) \in Nat
  BY ConstantAssumption DEF RequestsKnow, Adds
\* What writes no entry and begins none.
<1>3. ASSUME LoggedKg(Leftovers)' <= LoggedKg(Leftovers),
             allowed' = allowed,
             \A c \in Cook : request'[c].step = "logging" => request'[c] = request[c]
      PROVE  LeftoversInv'
  <2>1. LeftoversFitPrepared'
    <3> SUFFICES ASSUME NEW kg \in allowed
                 PROVE  100 * LoggedKg(Leftovers)' <= 102 * kg
      BY <1>3 DEF LeftoversFitPrepared
    <3>1. 100 * LoggedKg(Leftovers) <= 102 * kg /\ kg \in Nat
      BY DEF LeftoversInv, LeftoversFitPrepared
    <3> QED
      BY <1>1, <1>3, <3>1
  <2>2. EntryFits'
    <3> SUFFICES ASSUME NEW c \in Cook, request'[c].step = "logging", NEW kg \in request'[c].allowed
                 PROVE  /\ request'[c].allowed \subseteq Nat
                        /\ 100 * (LoggedKg(Leftovers)' + Adds(c)') <= 102 * kg
      BY <1>3 DEF EntryFits, LeftoversInv
    <3>1. request'[c] = request[c] /\ Adds(c)' = Adds(c) /\ Adds(c) \in Nat
      BY <1>2, <1>3 DEF Adds
    <3>2. /\ request[c].allowed \subseteq Nat
          /\ 100 * (LoggedKg(Leftovers) + Adds(c)) <= 102 * kg
      BY <3>1 DEF LeftoversInv, EntryFits
    <3> QED
      BY <1>1, <1>3, <3>1, <3>2
  <2>3. OneEntry'
    BY <1>3 DEF LeftoversInv, OneEntry
  <2> QED
    BY <1>3, <2>1, <2>2, <2>3 DEF LeftoversInv
<1>4. ASSUME NEW c \in Cook, NEW category \in Categories, NEW kg \in Kg,
             BeginFoodLog(c, category, kg)
      PROVE  LeftoversInv'
  <2>1. /\ request'[c].step = "logging" /\ request'[c].category = category
        /\ request'[c].kg = kg
        /\ request'[c].allowed = IF category \notin Leftovers THEN allowed
                                 ELSE IF OpenTasks = {} /\ TasksKg > 0 THEN {TasksKg}
                                 ELSE {}
        /\ \A b \in Cook : request[b].step # "logging"
        /\ \A b \in Cook : b # c => request'[b] = request[b]
        /\ allowed' = allowed /\ logs' = logs
    BY <1>4 DEF BeginFoodLog, SlotRowFree, Tables
  <2>2. LoggedKg(Leftovers)' = LoggedKg(Leftovers)
    BY <2>1 DEF LoggedKg, LiveLogs
  <2>3. OneEntry' /\ LeftoversFitPrepared' /\ allowed' \subseteq Nat
    BY <2>1, <2>2 DEF LeftoversInv, OneEntry, LeftoversFitPrepared
  <2>4. Adds(c)' = IF category \in Leftovers THEN kg ELSE 0
    BY <2>1 DEF Adds
  <2>5. request'[c].allowed \subseteq Nat
    BY <2>1, TasksAreNat DEF LeftoversInv
  <2>6. ASSUME NEW k \in request'[c].allowed
        PROVE  100 * (LoggedKg(Leftovers) + Adds(c)') <= 102 * k
    <3>1. CASE category \in Leftovers
      BY <1>4, <2>1, <2>4, <2>6, <3>1 DEF BeginFoodLog, LeftoversFit
    <3>2. CASE category \notin Leftovers
      BY <1>1, <2>1, <2>4, <2>6, <3>2 DEF LeftoversInv, LeftoversFitPrepared
    <3> QED
      BY <3>1, <3>2
  <2>7. EntryFits'
    BY <2>1, <2>2, <2>5, <2>6 DEF EntryFits
  <2> QED
    BY <2>3, <2>7 DEF LeftoversInv
<1>5. ASSUME NEW c \in Cook, NEW l \in Log, AddFoodLog(c, l)
      PROVE  LeftoversInv'
  <2>1. /\ request[c].step = "logging" /\ allowed' = request[c].allowed
        /\ request' = [request EXCEPT ![c] = Idle]
    BY <1>5 DEF AddFoodLog
  <2>2. \A b \in Cook : request'[b].step # "logging"
    BY <2>1 DEF LeftoversInv, OneEntry, Tables, Idle
  <2>3. LoggedKg(Leftovers)' = LoggedKg(Leftovers) + Adds(c)
    BY <1>5, EntryAdds
  <2>4. LeftoversFitPrepared' /\ allowed' \subseteq Nat
    BY <2>1, <2>3 DEF LeftoversFitPrepared, LeftoversInv, EntryFits
  <2>5. EntryFits' /\ OneEntry'
    BY <2>2 DEF EntryFits, OneEntry
  <2> QED
    BY <2>4, <2>5 DEF LeftoversInv
<1>6. ASSUME NEW l \in Log, VoidFoodLog(l)
      PROVE  LeftoversInv'
  BY <1>3, <1>6, VoidTakes DEF VoidFoodLog
<1>7. ASSUME logs' = logs, allowed' = allowed,
             \A c \in Cook : request'[c].step = "logging" => request'[c] = request[c]
      PROVE  LeftoversInv'
  <2>1. LoggedKg(Leftovers)' = LoggedKg(Leftovers)
    BY <1>7 DEF LoggedKg, LiveLogs
  <2> QED
    BY <1>1, <1>3, <1>7, <2>1
<1>8. CASE SupervisorStep \/ UNCHANGED vars
  BY <1>7, <1>8 DEF SupervisorStep, UpdateMenu, ApprovePlan, MoveSlot, vars
<1>9. ASSUME NEW c \in Cook,
             \/ \E d \in Dish : BeginStart(c, d)
             \/ StartTask(c)
             \/ \E d \in Dish, kg \in Kg : BeginComplete(c, d, kg)
             \/ CompleteTask(c)
             \/ AbortRequest(c)
      PROVE  LeftoversInv'
  <2>1. logs' = logs /\ allowed' = allowed
    BY <1>9 DEF BeginStart, StartTask, BeginComplete, CompleteTask, AbortRequest
  <2>2. /\ request'[c].step # "logging"
        /\ \A b \in Cook : b # c => request'[b] = request[b]
    BY <1>9 DEF BeginStart, StartTask, BeginComplete, CompleteTask, AbortRequest, Tables, Idle
  <2> QED
    BY <1>7, <2>1, <2>2
<1> QED
  BY <1>4, <1>5, <1>6, <1>8, <1>9 DEF Next, CookStep

LEMMA LeftoversInitial == Init => LeftoversInv
<1>1. Init => \A c \in Cook : request[c].step # "logging"
  BY DEF Init, Idle
<1> QED
  BY <1>1 DEF Init, LeftoversInv, LeftoversFitPrepared, EntryFits, OneEntry

\* The leftovers logged fit what the last check read of the kitchen's work, for
\* any number of entries made at the same time, and voided.
THEOREM LeftoversCorrect == Spec => []LeftoversFitPrepared
<1>1. LeftoversInv => LeftoversFitPrepared
  BY DEF LeftoversInv
<1> QED
  BY <1>1, Invariant, LeftoversInitial, LeftoversInductive, PTL DEF Spec

-----------------------------------------------------------------------------
(* Types. *)

RequestsTyped ==
  /\ status \in Status
  /\ menu \in Menus
  /\ notices \subseteq Target
  /\ request \in [Cook -> RequestState]

LEMMA RequestsTypedInductive ==
  PreparationInv /\ LeftoversInv /\ RequestsTyped /\ [Next]_vars => RequestsTyped'
<1> SUFFICES ASSUME PreparationInv, LeftoversInv, RequestsTyped, [Next]_vars
             PROVE  RequestsTyped'
  OBVIOUS
<1> USE DEF RequestsTyped
<1>1. CASE SupervisorStep
  BY <1>1 DEF SupervisorStep, UpdateMenu, ApprovePlan, MoveSlot, Status, planVars
<1>2. ASSUME NEW c \in Cook, NEW r \in RequestState,
             request' = [request EXCEPT ![c] = r], UNCHANGED <<slotVars, planVars>>
      PROVE  RequestsTyped'
  BY <1>2 DEF slotVars, planVars
<1>3. Idle \in RequestState
  BY DEF RequestState
<1>4. ASSUME NEW c \in Cook, NEW d \in Dish, BeginStart(c, d)
      PROVE  RequestsTyped'
  <2>1. [step |-> "starting", dish |-> d] \in RequestState
    BY DEF RequestState
  <2> QED
    BY <1>2, <1>4, <2>1 DEF BeginStart
<1>5. ASSUME NEW c \in Cook, NEW d \in Dish, NEW kg \in Kg, BeginComplete(c, d, kg)
      PROVE  RequestsTyped'
  <2>1. [step |-> "completing", dish |-> d, kg |-> kg] \in RequestState
    BY DEF RequestState
  <2> QED
    BY <1>2, <1>5, <2>1 DEF BeginComplete
<1>6. ASSUME NEW c \in Cook, NEW category \in Categories, NEW kg \in Kg,
             BeginFoodLog(c, category, kg)
      PROVE  RequestsTyped'
  <2> DEFINE reads == IF category \notin Leftovers THEN allowed
                      ELSE IF OpenTasks = {} /\ TasksKg > 0 THEN {TasksKg} ELSE {}
  <2>1. reads \in SUBSET Int
    BY TasksAreNat DEF LeftoversInv, PreparationInv
  <2>2. request' = [request EXCEPT ![c] =
          [step |-> "logging", category |-> category, kg |-> kg, allowed |-> reads]]
    BY <1>6 DEF BeginFoodLog
  <2> HIDE DEF reads
  <2>3. [step |-> "logging", category |-> category, kg |-> kg, allowed |-> reads] \in RequestState
    BY <2>1 DEF RequestState
  <2> QED
    BY <1>2, <1>6, <2>2, <2>3 DEF BeginFoodLog
<1>7. ASSUME NEW c \in Cook,
             StartTask(c) \/ CompleteTask(c) \/ AbortRequest(c) \/ \E l \in Log : AddFoodLog(c, l)
      PROVE  RequestsTyped'
  BY <1>2, <1>3, <1>7 DEF StartTask, CompleteTask, AbortRequest, AddFoodLog
<1>8. CASE UNCHANGED vars \/ \E l \in Log : VoidFoodLog(l)
  BY <1>8 DEF vars, VoidFoodLog, slotVars, planVars
<1> QED
  BY <1>1, <1>4, <1>5, <1>6, <1>7, <1>8 DEF Next, CookStep

\* Every state of the kitchen's side of a meal is well typed, the quantities it
\* sums up included.
THEOREM PreparationTypeCorrect == Spec => []TypeOK
<1>1. Init => RequestsTyped
  BY DEF Init, RequestsTyped, RequestState, Status
<1>2. PreparationInv /\ LeftoversInv /\ RequestsTyped => TypeOK
  BY DEF PreparationInv, LeftoversInv, RequestsTyped, TypeOK, Tables
<1>3. Init => LeftoversInv
  BY LeftoversInitial
<1> QED
  BY <1>1, <1>2, <1>3, Invariant, LeftoversInductive, RequestsTypedInductive, PTL DEF Spec
=============================================================================

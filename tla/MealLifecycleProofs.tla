------------------------ MODULE MealLifecycleProofs ------------------------
(***************************************************************************)
(* Proofs about MealLifecycle, for any number of supervisors' requests,    *)
(* any schedules, servings and tolerances, and every bound.                *)
(***************************************************************************)
EXTENDS MealPage, SharedLemmas, TLAPS

\* A forecast is added behind those there are, and makes the slot ready.
LEMMA AddForecastFacts ==
  ASSUME TypeOK, NEW isAutomatic \in BOOLEAN, AddForecast(isAutomatic)
  PROVE  /\ forecasts' \in Seq(Forecast)
         /\ Len(forecasts') = Len(forecasts) + 1
         /\ forecasts'[Len(forecasts) + 1].automatic = isAutomatic
         /\ \A k \in 1..Len(forecasts) : forecasts'[k] = forecasts[k]
         /\ status \in {"LOCKED", "FORECAST_READY"}
         /\ status' = "FORECAST_READY"
<1>1. PICK n \in Servings :
        forecasts' = Append(forecasts,
                            [recommended |-> n, automatic |-> isAutomatic])
  BY DEF AddForecast
<1>2. [recommended |-> n, automatic |-> isAutomatic] \in Forecast
  BY DEF Forecast
<1>3. forecasts \in Seq(Forecast)
  BY DEF TypeOK
<1> QED
  BY <1>1, <1>2, <1>3 DEF AddForecast, ForecastAllowed

\* It counts among the automatic ones if the cutoff asked for it.
LEMMA AutomaticForecastsAfter ==
  ASSUME TypeOK, NEW isAutomatic \in BOOLEAN, AddForecast(isAutomatic)
  PROVE  AutomaticForecasts' =
           AutomaticForecasts
             \cup (IF isAutomatic THEN {Len(forecasts) + 1} ELSE {})
<1> DEFINE n == Len(forecasts)
<1>1. n \in Nat
  BY DEF TypeOK
<1>2. /\ Len(forecasts') = n + 1
      /\ forecasts'[n + 1].automatic = isAutomatic
      /\ \A k \in 1..n : forecasts'[k] = forecasts[k]
  BY AddForecastFacts
<1>3. 1..(n + 1) = (1..n) \cup {n + 1}
  BY <1>1
<1>4. AutomaticForecasts' =
        {k \in (1..n) \cup {n + 1} : forecasts'[k].automatic}
  BY <1>2, <1>3 DEF AutomaticForecasts
<1>5. ASSUME NEW k \in (1..n) \cup {n + 1}
      PROVE  forecasts'[k].automatic <=>
               IF k = n + 1 THEN isAutomatic ELSE forecasts[k].automatic
  <2>1. CASE k = n + 1
    BY <1>2, <2>1
  <2>2. CASE k # n + 1
    BY <1>2, <2>2
  <2> QED
    BY <2>1, <2>2
<1>6. n + 1 \notin 1..n
  BY <1>1
<1> QED
  BY <1>4, <1>5, <1>6 DEF AutomaticForecasts

-----------------------------------------------------------------------------
(* Type correctness. *)

\* Every step keeps the types.
LEMMA TypeStep == TypeOK /\ [Next]_vars => TypeOK'
<1> SUFFICES ASSUME TypeOK, [Next]_vars PROVE TypeOK'
  OBVIOUS
<1> USE DEF TypeOK, slotVars
<1>1. ASSUME PublishSlot PROVE TypeOK'
  BY <1>1 DEF PublishSlot, Status
<1>2. ASSUME NEW t \in Schedule, UpdateSlot(t) PROVE TypeOK'
  BY <1>2 DEF UpdateSlot, MayUpdate
<1>3. ASSUME NEW hasDish \in BOOLEAN, UpdateMenu(hasDish) PROVE TypeOK'
  BY <1>3 DEF UpdateMenu
<1>4. ASSUME CancelSlot PROVE TypeOK'
  BY <1>4 DEF CancelSlot, Status, NoticeKind
<1>5. ASSUME NEW a \in Actor, LockSlot(a),
             tick' \in [phase : TickPhase, now : Nat, due : BOOLEAN]
      PROVE  TypeOK'
  <2>1. aggregate' \in [locked : BOOLEAN, at : Nat, eligible : Nat]
    BY <1>5, ConstantAssumption DEF LockSlot
  <2> QED
    BY <1>5, <2>1 DEF LockSlot, Status
<1>6. ASSUME RegenerateForecast PROVE TypeOK'
  BY <1>6, AddForecastFacts DEF RegenerateForecast, Status
<1>7. ASSUME NEW n \in Servings, NEW hasReason \in BOOLEAN,
             ApprovePlan(n, hasReason)
      PROVE  TypeOK'
  <2>1. ApprovedPlan(n) \in Plan
    BY DEF ApprovedPlan, Plan, LatestIs
  <2> QED
    BY <1>7, <2>1 DEF ApprovePlan, Status
<1>8. ASSUME StartService \/ CloseService \/ TickService \/ TickClose
      PROVE  TypeOK'
  BY <1>8 DEF StartService, CloseService, TickService, TickClose, TickDone,
       TransitionToService, TransitionToClosed, Status, NoticeKind
<1>9. ASSUME StartTick \/ NextPhase PROVE TypeOK'
  <2>1. ASSUME NEW phase \in TickPhase, NEW t \in Nat
        PROVE  Enter(phase, t) \in [phase : TickPhase, now : Nat, due : BOOLEAN]
    BY DEF Enter, DueFor, TickPhase
  <2>2. PhaseAfter(tick.phase) \in TickPhase
    BY DEF PhaseAfter, TickPhase
  <2>3. "cutoff" \in TickPhase /\ now \in Nat /\ tick.now \in Nat
    BY DEF TickPhase
  <2>4. tick' \in [phase : TickPhase, now : Nat, due : BOOLEAN]
    <3>1. CASE StartTick
      BY ONLY <3>1, <2>1, <2>3 DEF StartTick
    <3>2. CASE NextPhase
      BY ONLY <3>2, <2>1, <2>2, <2>3 DEF NextPhase
    <3> QED
      BY <1>9, <3>1, <3>2
  <2> QED
    BY <1>9, <2>4 DEF StartTick, NextPhase
<1>10. ASSUME TickCutoff PROVE TypeOK'
  BY <1>5, <1>10 DEF TickCutoff, TickDone, Actor
<1>11. ASSUME TickAlert PROVE TypeOK'
  BY <1>11 DEF TickAlert, TickDone, NoticeKind
<1>12. ASSUME NEW a \in Actor, ForecastAfterLock(a) PROVE TypeOK'
  BY <1>12, AddForecastFacts DEF ForecastAfterLock, Status, NoticeKind
<1>13. ASSUME NEW a \in Actor, ForecastFails(a) PROVE TypeOK'
  BY <1>13 DEF ForecastFails
<1>14. ASSUME Crash PROVE TypeOK'
  BY <1>14 DEF Crash, TickPhase
<1>15. ASSUME Tick PROVE TypeOK'
  BY <1>15 DEF Tick
<1>16. CASE UNCHANGED vars
  BY <1>16 DEF vars
<1>17. ASSUME NEW o \in Operator, LockFromRequest(o) PROVE TypeOK'
  BY <1>5, <1>17 DEF LockFromRequest, Actor
<1> QED
  BY <1>1, <1>2, <1>3, <1>4, <1>6, <1>7, <1>8, <1>9, <1>10, <1>11, <1>12,
     <1>13, <1>14, <1>15, <1>16, <1>17
     DEF Next, OperatorStep, SchedulerStep, ForecastStep

\* The rows of a slot and the memory of the processes that work on it keep
\* their types.
THEOREM TypeCorrect == Spec => []TypeOK
<1>1. Init => TypeOK
  BY ConstantAssumption
     DEF Init, TypeOK, Status, Forecast, NoticeKind, TickPhase
<1> QED
  BY <1>1, TypeStep, PTL DEF Spec

-----------------------------------------------------------------------------
(* The inductive invariant. *)

\* A step that leaves the slot's rows alone, and starts no forecast, only has
\* to keep the type and the list for service.
LEMMA SameSlot ==
  ASSUME LifecycleInv, TypeOK', ListedForService',
         UNCHANGED <<status, aggregate, forecasts, plan, startedAt>>,
         aggregate.locked => times' = times,
         \A a \in Actor : job'[a] = "forecasting" => job[a] = "forecasting",
         "FORECAST_READY" \in notices' <=> "FORECAST_READY" \in notices
  PROVE  LifecycleInv'
<1>1. RecordsMatchStatus' /\ PlanAnswersLatestForecast'
  BY DEF LifecycleInv, RecordsMatchStatus, PlanAnswersLatestForecast, LatestIs
<1>2. NeverEarly'
  BY DEF LifecycleInv, RecordsMatchStatus, NeverEarly
<1>3. CutoffForecastsOnce' /\ PendingForecast'
  BY DEF LifecycleInv, CutoffForecastsOnce, PendingForecast,
         AutomaticForecasts
<1> QED
  BY <1>1, <1>2, <1>3 DEF LifecycleInv

\* A lock: the poll was open, so there is no forecast and no other cutoff.
LEMMA LockStep ==
  ASSUME LifecycleInv, TypeOK', NEW a \in Actor, LockSlot(a),
         tick' = [tick EXCEPT !.due = FALSE] \/ tick' = tick
  PROVE  LifecycleInv'
<1> USE DEF LifecycleInv
<1>1. /\ ~aggregate.locked
      /\ status = "OPEN"
      /\ now >= times.closes
      /\ aggregate'.locked
      /\ aggregate'.at = now
      /\ status' = "LOCKED"
      /\ UNCHANGED <<now, times, menu, forecasts, plan, startedAt, notices>>
      /\ job' = [job EXCEPT ![a] = "forecasting"]
  BY TransitionFacts DEF LockSlot, CanLock, CutoffReached, TypeOK
<1>2. forecasts = <<>> /\ plan = NoPlan
  BY <1>1 DEF RecordsMatchStatus
<1>3. RecordsMatchStatus' /\ PlanAnswersLatestForecast'
  BY <1>1, <1>2 DEF RecordsMatchStatus, PlanAnswersLatestForecast
<1>4. NeverEarly'
  BY <1>1 DEF NeverEarly
<1>5. AutomaticForecasts = {} /\ AutomaticForecasts' = {}
  BY <1>1, <1>2 DEF AutomaticForecasts
<1>6. \A b \in Actor : job'[b] = "forecasting" => b = a
  BY <1>1 DEF PendingForecast, TypeOK
<1>7. CutoffForecastsOnce' /\ PendingForecast'
  BY <1>1, <1>5, <1>6 DEF CutoffForecastsOnce, PendingForecast
<1>8. ListedForService'
  BY <1>1 DEF ListedForService, TypeOK
<1> QED
  BY <1>3, <1>4, <1>7, <1>8

\* A forecast, the cutoff's own or one a supervisor asked for.
LEMMA ForecastStepKeepsInv ==
  ASSUME LifecycleInv, TypeOK', NEW isAutomatic \in BOOLEAN,
         AddForecast(isAutomatic),
         UNCHANGED <<now, times, menu, aggregate, plan, startedAt, tick>>,
         CutoffForecastsOnce', PendingForecast'
  PROVE  LifecycleInv'
<1> USE DEF LifecycleInv
<1>1. /\ status \in {"LOCKED", "FORECAST_READY"}
      /\ status' = "FORECAST_READY"
      /\ Len(forecasts') = Len(forecasts) + 1
  BY AddForecastFacts
<1>2. aggregate.locked /\ plan = NoPlan
  BY <1>1 DEF RecordsMatchStatus
<1>3. forecasts' # <<>>
  BY <1>1 DEF TypeOK
<1>4. RecordsMatchStatus' /\ PlanAnswersLatestForecast'
  BY <1>1, <1>2, <1>3 DEF RecordsMatchStatus, PlanAnswersLatestForecast
<1>5. NeverEarly' /\ ListedForService'
  BY <1>1 DEF NeverEarly, ListedForService
<1> QED
  BY <1>4, <1>5

\* The inductive step.
LEMMA LifecycleInvStep ==
  LifecycleInv /\ TypeOK' /\ [Next]_vars => LifecycleInv'
<1> SUFFICES ASSUME LifecycleInv, TypeOK', [Next]_vars PROVE LifecycleInv'
  OBVIOUS
<1> USE DEF LifecycleInv, slotVars
<1>1. ASSUME PublishSlot PROVE LifecycleInv'
  <2>1. status = "DRAFT" /\ status' = "OPEN"
    BY <1>1, TransitionFacts DEF PublishSlot, MayPublish, TypeOK
  <2> QED
    BY <1>1, <2>1 DEF PublishSlot, RecordsMatchStatus,
         PlanAnswersLatestForecast, LatestIs, NeverEarly, CutoffForecastsOnce, AutomaticForecasts,
         PendingForecast, ListedForService
<1>2. ASSUME NEW t \in Schedule, UpdateSlot(t) PROVE LifecycleInv'
  <2>1. ~aggregate.locked
    BY <1>2 DEF UpdateSlot, MayUpdate, RecordsMatchStatus
  <2>2. ListedForService'
    BY <1>2, <2>1 DEF UpdateSlot, ListedForService
  <2> QED
    BY <1>2, <2>1, <2>2, SameSlot DEF UpdateSlot
<1>3. ASSUME NEW hasDish \in BOOLEAN, UpdateMenu(hasDish) PROVE LifecycleInv'
  <2>1. ListedForService'
    BY <1>3 DEF UpdateMenu, ListedForService
  <2> QED
    BY <1>3, <2>1, SameSlot DEF UpdateMenu
<1>4. ASSUME CancelSlot PROVE LifecycleInv'
  <2>1. /\ status \in {"DRAFT", "OPEN", "LOCKED", "FORECAST_READY", "APPROVED"}
        /\ status' = "CANCELLED"
        /\ "FORECAST_READY" \in notices' <=> "FORECAST_READY" \in notices
        /\ UNCHANGED <<now, times, menu, aggregate, forecasts, plan,
                       startedAt, job, tick, crashes>>
    BY <1>4, TransitionFacts DEF CancelSlot, MayCancel, TypeOK
  <2>2. RecordsMatchStatus' /\ PlanAnswersLatestForecast'
    BY <2>1 DEF RecordsMatchStatus, PlanAnswersLatestForecast, LatestIs
  <2> QED
    BY <2>1, <2>2 DEF NeverEarly, CutoffForecastsOnce,
         AutomaticForecasts, PendingForecast, ListedForService
<1>5. ASSUME NEW o \in Operator, LockFromRequest(o) PROVE LifecycleInv'
  BY <1>5, LockStep DEF LockFromRequest, Actor
<1>6. ASSUME RegenerateForecast PROVE LifecycleInv'
  <2>1. AddForecast(FALSE)
    BY <1>6 DEF RegenerateForecast
  <2>2. AutomaticForecasts' = AutomaticForecasts
    BY <2>1, AutomaticForecastsAfter
  <2>3. CutoffForecastsOnce' /\ PendingForecast'
    BY <1>6, <2>2 DEF RegenerateForecast, CutoffForecastsOnce, PendingForecast
  <2> QED
    BY <1>6, <2>1, <2>3, ForecastStepKeepsInv DEF RegenerateForecast
<1>7. ASSUME NEW n \in Servings, NEW hasReason \in BOOLEAN,
             ApprovePlan(n, hasReason)
      PROVE  LifecycleInv'
  <2>1. /\ status \in {"LOCKED", "FORECAST_READY", "APPROVED"}
        /\ status' = "APPROVED"
        /\ plan' = ApprovedPlan(n)
        /\ UNCHANGED <<now, times, menu, aggregate, forecasts, startedAt,
                       notices, job, tick, crashes>>
    BY <1>7 DEF ApprovePlan, MayApprove
  <2>2. aggregate.locked
    BY <2>1 DEF RecordsMatchStatus
  <2>3. /\ plan'.forecast = Len(forecasts)
        /\ plan'.target = n
        /\ plan'.override <=> ~LatestIs(n)
    BY <2>1 DEF ApprovedPlan, LatestIs
  <2>4. PlanAnswersLatestForecast'
    BY <2>1, <2>3 DEF PlanAnswersLatestForecast, LatestIs
  <2>5. plan' # NoPlan
    <3>1. CASE forecasts = <<>>
      BY <2>3, <3>1 DEF NoPlan, LatestIs
    <3>2. CASE forecasts # <<>>
      BY <2>3, <3>2 DEF NoPlan, TypeOK
    <3> QED
      BY <3>1, <3>2
  <2>6. RecordsMatchStatus'
    BY <2>1, <2>2, <2>5 DEF RecordsMatchStatus
  <2> QED
    BY <2>1, <2>4, <2>6 DEF NeverEarly,
         CutoffForecastsOnce, AutomaticForecasts, PendingForecast,
         ListedForService
<1>8. ASSUME StartService \/ TickService PROVE LifecycleInv'
  <2>1. CASE status' = status
    <3>1. UNCHANGED <<now, status, times, menu, aggregate, forecasts, plan,
                      startedAt, notices, job>>
      BY <1>8, <2>1, TransitionFacts DEF StartService, MayStartService, TickService,
           TransitionToService, StillIn, TypeOK
    <3>2. ListedForService'
      BY <1>8, <3>1 DEF StartService, TickService, TickDone, Due,
           ListedForService, TypeOK
    <3> QED
      BY <3>1, <3>2, SameSlot
  <2>2. CASE status' # status
    <3>1. /\ status = "APPROVED"
          /\ TransitionToService
          /\ UNCHANGED <<now, job>>
      BY <1>8, <2>2, TransitionFacts DEF StartService, MayStartService, TickService, StillIn,
           TypeOK
    <3>2. ListedForService'
      BY <1>8, <3>1 DEF StartService, TickService, TickDone, Due,
           TransitionToService, ListedForService, TypeOK
    <3>3. now + EarlyStart >= times.starts
      <4>1. /\ now \in Nat
            /\ tick.now \in Nat
            /\ times.starts \in Nat
            /\ EarlyStart \in Nat
        BY ConstantAssumption DEF TypeOK
      <4>2. CASE StartService
        BY <4>2 DEF StartService, MayStartService, EarliestStartReached
      <4>3. CASE TickService
        BY <4>1, <4>3 DEF TickService, Due, ListedForService
      <4> QED
        BY <1>8, <4>2, <4>3
    <3>4. NeverEarly'
      BY <3>1, <3>3 DEF TransitionToService, NeverEarly
    <3>5. RecordsMatchStatus' /\ PlanAnswersLatestForecast'
      BY <3>1 DEF TransitionToService, RecordsMatchStatus,
           PlanAnswersLatestForecast, LatestIs
    <3> QED
      BY <3>1, <3>2, <3>4, <3>5 DEF TransitionToService, CutoffForecastsOnce, AutomaticForecasts, PendingForecast
  <2> QED
    BY <2>1, <2>2
<1>9. ASSUME CloseService \/ TickClose PROVE LifecycleInv'
  <2>1. ListedForService'
    BY <1>9 DEF CloseService, TickClose, TickDone, Due, TransitionToClosed,
         ListedForService, TypeOK
  <2>2. CASE status' = status
    <3>1. UNCHANGED <<now, status, times, menu, aggregate, forecasts, plan,
                      startedAt, notices, job>>
      BY <1>9, <2>2, TransitionFacts DEF CloseService, MayCloseService, TickClose,
           TransitionToClosed, StillIn, TypeOK
    <3> QED
      BY <2>1, <3>1, SameSlot
  <2>3. CASE status' # status
    <3>1. /\ status = "IN_SERVICE"
          /\ TransitionToClosed
          /\ UNCHANGED <<now, job>>
      BY <1>9, <2>3, TransitionFacts DEF CloseService, MayCloseService, TickClose, StillIn,
           TypeOK
    <3>2. RecordsMatchStatus' /\ PlanAnswersLatestForecast'
      BY <3>1 DEF TransitionToClosed, RecordsMatchStatus,
           PlanAnswersLatestForecast, LatestIs
    <3> QED
      BY <2>1, <3>1, <3>2 DEF TransitionToClosed, NeverEarly, CutoffForecastsOnce, AutomaticForecasts,
           PendingForecast
  <2> QED
    BY <2>2, <2>3
<1>10. ASSUME StartTick \/ NextPhase PROVE LifecycleInv'
  <2>1. ListedForService'
    <3>1. now \in Nat /\ tick.now \in Nat /\ tick.now <= now
      BY DEF TypeOK, ListedForService
    <3>2. PICK t \in {now, tick.now}, phase \in {"cutoff", PhaseAfter(tick.phase)} :
            tick' = Enter(phase, t)
      BY <1>10 DEF StartTick, NextPhase
    <3>3. /\ tick'.phase = phase
          /\ tick'.now = t
          /\ tick'.due = DueFor(phase, t)
      BY <3>2 DEF Enter
    <3>4. ASSUME tick'.phase = "service", tick'.due
          PROVE  aggregate.locked /\ times.starts <= t
      <4>1. status = "APPROVED" /\ times.starts <= t
        BY <3>3, <3>4 DEF DueFor
      <4> QED
        BY <4>1 DEF RecordsMatchStatus
    <3>5. UNCHANGED <<now, aggregate, times>>
      BY <1>10 DEF StartTick, NextPhase
    <3> QED
      BY <3>1, <3>3, <3>4, <3>5 DEF ListedForService
  <2> QED
    BY <1>10, <2>1, SameSlot DEF StartTick, NextPhase
<1>11. ASSUME TickCutoff PROVE LifecycleInv'
  <2>1. CASE \E a \in Actor : LockSlot(a)
    BY <1>11, <2>1, LockStep DEF TickCutoff, TickDone
  <2>2. CASE UNCHANGED <<now, status, slotVars, job, crashes>>
    <3>1. ListedForService'
      BY <1>11, <2>2 DEF TickCutoff, TickDone, ListedForService, TypeOK
    <3> QED
      BY <2>2, <3>1, SameSlot
  <2> QED
    BY <1>11, <2>1, <2>2 DEF TickCutoff, Actor
<1>12. ASSUME TickAlert PROVE LifecycleInv'
  <2>1. ListedForService'
    BY <1>12 DEF TickAlert, TickDone, ListedForService, TypeOK
  <2> QED
    BY <1>12, <2>1, SameSlot DEF TickAlert
<1>13. ASSUME NEW a \in Actor, ForecastAfterLock(a) PROVE LifecycleInv'
  <2>1. /\ job[a] = "forecasting"
        /\ AddForecast(TRUE)
        /\ job' = [job EXCEPT ![a] = "idle"]
        /\ "FORECAST_READY" \in notices'
    BY <1>13 DEF ForecastAfterLock
  <2>2. AutomaticForecasts = {} /\ aggregate.locked
    BY <2>1 DEF PendingForecast
  <2>3. AutomaticForecasts' = {Len(forecasts) + 1}
    BY <2>1, <2>2, AutomaticForecastsAfter
  <2>4. \A b \in Actor : job'[b] # "forecasting"
    BY <2>1 DEF CutoffForecastsOnce, TypeOK
  <2>5. CutoffForecastsOnce' /\ PendingForecast'
    BY <2>1, <2>3, <2>4 DEF CutoffForecastsOnce, PendingForecast
  <2> QED
    BY <1>13, <2>1, <2>5, ForecastStepKeepsInv DEF ForecastAfterLock
<1>14. ASSUME NEW a \in Actor, ForecastFails(a) PROVE LifecycleInv'
  <2>1. ListedForService'
    BY <1>14 DEF ForecastFails, ListedForService
  <2> QED
    BY <1>14, <2>1, SameSlot DEF ForecastFails, TypeOK
<1>15. ASSUME Crash PROVE LifecycleInv'
  <2>1. ListedForService'
    BY <1>15 DEF Crash, ListedForService, TypeOK
  <2> QED
    BY <1>15, <2>1, SameSlot DEF Crash
<1>16. ASSUME Tick PROVE LifecycleInv'
  <2>1. ListedForService'
    BY <1>16 DEF Tick, ListedForService, TypeOK
  <2> QED
    BY <1>16, <2>1, SameSlot DEF Tick
<1>17. CASE UNCHANGED vars
  <2>1. ListedForService'
    BY <1>17 DEF vars, ListedForService
  <2> QED
    BY <1>17, <2>1, SameSlot DEF vars
<1> QED
  BY <1>1, <1>2, <1>3, <1>4, <1>5, <1>6, <1>7, <1>8, <1>9, <1>10, <1>11,
     <1>12, <1>13, <1>14, <1>15, <1>16, <1>17
     DEF Next, OperatorStep, SchedulerStep, ForecastStep

\* The inductive invariant holds in every reachable state.
THEOREM LifecycleInvariant == Spec => []LifecycleInv
<1>1. Init => LifecycleInv
  <2> SUFFICES ASSUME Init PROVE LifecycleInv
    OBVIOUS
  <2>1. TypeOK
    BY ConstantAssumption
       DEF Init, TypeOK, Status, Forecast, NoticeKind, TickPhase
  <2>2. /\ status = "DRAFT"
        /\ ~aggregate.locked
        /\ forecasts = <<>>
        /\ plan = NoPlan
        /\ notices = {}
        /\ \A a \in Actor : job[a] = "idle"
        /\ tick.phase = "idle" /\ tick.now = 0 /\ now = 0
    BY DEF Init
  <2>3. RecordsMatchStatus /\ PlanAnswersLatestForecast
    BY <2>2 DEF RecordsMatchStatus, PlanAnswersLatestForecast
  <2>4. NeverEarly
    BY <2>2 DEF NeverEarly
  <2>5. AutomaticForecasts = {}
    BY <2>2 DEF AutomaticForecasts
  <2>6. CutoffForecastsOnce /\ PendingForecast /\ ListedForService
    BY <2>2, <2>5 DEF CutoffForecastsOnce, PendingForecast, ListedForService
  <2> QED
    BY <2>1, <2>3, <2>4, <2>6 DEF LifecycleInv
<1>2. LifecycleInv => TypeOK
  BY DEF LifecycleInv
<1> QED
  BY <1>1, <1>2, TypeStep, LifecycleInvStep, PTL DEF Spec

\* The status of a slot agrees with the rows beside it.
THEOREM RecordsCorrect == Spec => []RecordsMatchStatus
<1>1. LifecycleInv => RecordsMatchStatus
  BY DEF LifecycleInv
<1> QED
  BY <1>1, LifecycleInvariant, PTL

\* An approved target answers the latest forecast.
THEOREM PlanCorrect == Spec => []PlanAnswersLatestForecast
<1>1. LifecycleInv => PlanAnswersLatestForecast
  BY DEF LifecycleInv
<1> QED
  BY <1>1, LifecycleInvariant, PTL

\* No poll is counted before its cutoff, and no meal is served earlier than the
\* tolerance allows, by the scheduler or by hand; and cutoffs that run at once
\* count once and forecast at most once.
THEOREM Timely == Spec => []OnceAndInTime
<1>1. LifecycleInv => OnceAndInTime
  BY DEF LifecycleInv, OnceAndInTime
<1> QED
  BY <1>1, LifecycleInvariant, PTL

\* What the supervisors' page of a meal offers is accepted, or it says why not,
\* and what is accepted is offered, on every meal that is reached.
THEOREM MealPageCorrect == Spec => []MealPageFits
<1>1. LifecycleInv => MealPageFits
  <2> SUFFICES ASSUME LifecycleInv PROVE MealPageFits
    OBVIOUS
  <2> USE DEF LifecycleInv, Offered, AllowedActions
  <2>1. status \in Status \ {"RECONCILED"} /\ now \in Nat /\ times.closes \in Nat
    BY ConstantAssumption DEF TypeOK
  <2>2. /\ \A t \in Schedule : MayUpdate(t) => Offered("EDIT")
        /\ AllowedMenuEdit <=> MayEditMenu
    BY <2>1 DEF MayUpdate, AllowedMenuEdit, MayEditMenu
  <2>3. /\ MayPublish => Offered("PUBLISH")
        /\ Offered("PUBLISH") => MayPublish \/ PublishIsDoomed \/ now = times.closes
    BY <2>1, TransitionFacts DEF MayPublish, PublishIsDoomed
  <2>4. Offered("CANCEL") <=> MayCancel
    BY <2>1, TransitionFacts DEF MayCancel
  <2>5. Offered("LOCK") <=> CanLock
    BY <2>1, TransitionFacts DEF CanLock, CutoffReached, RecordsMatchStatus
  <2>6. ForecastButton <=> ForecastAllowed
    BY <2>1 DEF ForecastButton, ForecastAllowed, RecordsMatchStatus
  <2>7. ASSUME NEW n \in Servings
        PROVE  /\ MayApprove(n, TRUE) => Offered("APPROVE")
               /\ Offered("APPROVE") /\ MayApprove(n, TRUE) =>
                    (NeedsReason(n) <=> ~MayApprove(n, FALSE))
    BY <2>1 DEF MayApprove, NeedsReason
  <2>8. /\ MayStartService => Offered("START_SERVICE")
        /\ Offered("START_SERVICE") => MayStartService \/ ~EarliestStartReached
    BY <2>1, TransitionFacts DEF MayStartService
  <2>9. Offered("CLOSE_SERVICE") <=> MayCloseService
    BY <2>1, TransitionFacts DEF MayCloseService
  <2> QED
    BY <2>2, <2>3, <2>4, <2>5, <2>6, <2>7, <2>8, <2>9 DEF MealPageFits
<1> QED
  BY <1>1, LifecycleInvariant, PTL

-----------------------------------------------------------------------------
(* What a step may never do. *)

\* Every change of status is one of the graph.
LEMMA TransitionStep ==
  TypeOK /\ [Next]_vars =>
    (status' # status => CanTransition(status, status'))
<1> SUFFICES ASSUME TypeOK, [Next]_vars, status' # status
             PROVE  CanTransition(status, status')
  OBVIOUS
<1>1. status \in Status
  BY DEF TypeOK
<1>2. CASE PublishSlot \/ CancelSlot
  BY <1>2 DEF PublishSlot, MayPublish, CancelSlot, MayCancel
<1>3. ASSUME NEW a \in Actor, LockSlot(a)
      PROVE  CanTransition(status, status')
  BY <1>3 DEF LockSlot, CanLock
<1>4. ASSUME NEW isAutomatic \in BOOLEAN, AddForecast(isAutomatic)
      PROVE  CanTransition(status, status')
  BY <1>1, <1>4, AddForecastFacts, TransitionFacts
<1>5. ASSUME NEW n \in Servings, NEW hasReason \in BOOLEAN,
             ApprovePlan(n, hasReason)
      PROVE  CanTransition(status, status')
  BY <1>1, <1>5, TransitionFacts DEF ApprovePlan, MayApprove
<1>6. CASE StartService \/ TickService
  BY <1>1, <1>6, TransitionFacts
     DEF StartService, MayStartService, TickService, TransitionToService, StillIn
<1>7. CASE CloseService \/ TickClose
  BY <1>1, <1>7, TransitionFacts
     DEF CloseService, MayCloseService, TickClose, TransitionToClosed, StillIn
<1> QED
  BY <1>2, <1>3, <1>4, <1>5, <1>6, <1>7
     DEF Next, OperatorStep, SchedulerStep, ForecastStep, UpdateSlot,
         UpdateMenu, LockFromRequest, RegenerateForecast, StartTick, NextPhase,
         TickCutoff, TickAlert, ForecastAfterLock, ForecastFails, Crash, Tick,
         Actor, vars

\* Every change of status is a move of the graph.
THEOREM TransitionsCorrect == Spec => LifecycleRespected
<1>1. TypeOK /\ [Next]_vars =>
        [status' # status => CanTransition(status, status')]_vars
  BY TransitionStep
<1> QED
  BY <1>1, TypeCorrect, PTL DEF Spec, LifecycleRespected

\* What was counted stays, and so do the plan and the start of a served meal.
LEMMA FinalStep ==
  LifecycleInv /\ [Next]_vars =>
    /\ aggregate.locked =>
         /\ aggregate' = aggregate
         /\ times' = times
         /\ \A k \in 1..Len(forecasts) :
              k <= Len(forecasts') /\ forecasts'[k] = forecasts[k]
    /\ status \in {"IN_SERVICE", "SERVICE_CLOSED"} =>
         plan' = plan /\ startedAt' = startedAt
<1> SUFFICES ASSUME LifecycleInv, [Next]_vars
             PROVE  /\ aggregate.locked =>
                         /\ aggregate' = aggregate
                         /\ times' = times
                         /\ \A k \in 1..Len(forecasts) :
                              /\ k <= Len(forecasts')
                              /\ forecasts'[k] = forecasts[k]
                    /\ status \in {"IN_SERVICE", "SERVICE_CLOSED"} =>
                         plan' = plan /\ startedAt' = startedAt
  OBVIOUS
<1> DEFINE Kept ==
             /\ aggregate' = aggregate
             /\ times' = times
             /\ \A k \in 1..Len(forecasts) :
                  k <= Len(forecasts') /\ forecasts'[k] = forecasts[k]
           Served == plan' = plan /\ startedAt' = startedAt
<1>1. TypeOK /\ status \in Status
  BY DEF LifecycleInv, TypeOK
<1>2. Len(forecasts) \in Nat
  BY <1>1 DEF TypeOK
<1>3. ASSUME NEW t \in Schedule, UpdateSlot(t)
      PROVE  ~aggregate.locked /\ Served
  BY <1>3 DEF UpdateSlot, MayUpdate, LifecycleInv, RecordsMatchStatus
<1>4. ASSUME NEW a \in Actor, LockSlot(a)
      PROVE  ~aggregate.locked /\ Served
  BY <1>4 DEF LockSlot, CanLock
<1>5. ASSUME RegenerateForecast \/ (\E a \in Actor : ForecastAfterLock(a))
      PROVE  Kept /\ Served
  <2>1. PICK isAutomatic \in BOOLEAN : AddForecast(isAutomatic)
    BY <1>5 DEF RegenerateForecast, ForecastAfterLock
  <2>2. \A k \in 1..Len(forecasts) :
          k <= Len(forecasts') /\ forecasts'[k] = forecasts[k]
    BY <1>1, <1>2, <2>1, AddForecastFacts
  <2> QED
    BY <1>5, <2>2 DEF RegenerateForecast, ForecastAfterLock
<1>6. ASSUME NEW n \in Servings, NEW hasReason \in BOOLEAN,
             ApprovePlan(n, hasReason)
      PROVE  Kept /\ status \notin {"IN_SERVICE", "SERVICE_CLOSED"}
  BY <1>2, <1>6 DEF ApprovePlan, MayApprove
<1>7. ASSUME StartService \/ TickService
      PROVE  Kept /\ (status \in {"IN_SERVICE", "SERVICE_CLOSED"} => Served)
  BY <1>1, <1>2, <1>7, TransitionFacts
     DEF StartService, MayStartService, TickService, TransitionToService, StillIn, slotVars
<1>8. ASSUME CloseService \/ TickClose
      PROVE  Kept /\ Served
  BY <1>2, <1>8 DEF CloseService, TickClose, TransitionToClosed, slotVars
<1>9. ASSUME UNCHANGED <<times, aggregate, forecasts, plan, startedAt>>
      PROVE  Kept /\ Served
  BY <1>2, <1>9
<1>10. CASE UNCHANGED <<times, aggregate, forecasts, plan, startedAt>>
  BY <1>9, <1>10
<1>11. CASE ~UNCHANGED <<times, aggregate, forecasts, plan, startedAt>>
  <2>1. \/ \E t \in Schedule : UpdateSlot(t)
        \/ \E a \in Actor : LockSlot(a)
        \/ RegenerateForecast \/ (\E a \in Actor : ForecastAfterLock(a))
        \/ \E n \in Servings, hasReason \in BOOLEAN : ApprovePlan(n, hasReason)
        \/ StartService \/ TickService
        \/ CloseService \/ TickClose
    BY <1>11
       DEF Next, OperatorStep, SchedulerStep, ForecastStep, PublishSlot,
           UpdateMenu, CancelSlot, LockFromRequest, StartTick, NextPhase,
           TickCutoff, TickAlert, ForecastFails, Crash, Tick, Actor, vars,
           slotVars
  <2> QED
    BY <2>1, <1>3, <1>4, <1>5, <1>6, <1>7, <1>8
<1> QED
  BY <1>10, <1>11

\* What has been counted, and what is being served, stays.
THEOREM RecordsFinal == Spec => CountedIsFinal
<1>1. LifecycleInv /\ [Next]_vars =>
        [/\ aggregate.locked =>
              /\ aggregate' = aggregate
              /\ times' = times
              /\ \A k \in 1..Len(forecasts) :
                   k <= Len(forecasts') /\ forecasts'[k] = forecasts[k]
         /\ status \in {"IN_SERVICE", "SERVICE_CLOSED"} =>
              plan' = plan /\ startedAt' = startedAt]_vars
  BY FinalStep
<1> QED
  BY <1>1, LifecycleInvariant, PTL DEF Spec, CountedIsFinal
=============================================================================

--------------------------- MODULE MealLifecycle ---------------------------
(***************************************************************************)
(* One meal slot from draft to the end of service: the supervisors'        *)
(* operations, the cutoff with its two transactions, forecasts, the        *)
(* approval of a preparation target, and the scheduler that drives the     *)
(* slot by the clock (meals.service.js, forecasting.service.js,            *)
(* planning.service.js, jobs/scheduler.js).                                *)
(*                                                                         *)
(* Every transaction takes the slot row FOR UPDATE first, so each is one   *)
(* action.  What is not one transaction is not one action: processCutoff   *)
(* commits the lock before it forecasts, and the scheduler reads its lists *)
(* of due slots without a lock and works on them later.                    *)
(*                                                                         *)
(* Votes are in Ballot.  The notices whose key is not unique per slot, the *)
(* ingredient requirements and the kitchen tasks are not modelled here.    *)
(***************************************************************************)
EXTENDS Naturals, Sequences, Lifecycle

CONSTANTS
  Operator,      \* the supervisors' requests that run at the same time
  Schedule,      \* the times a supervisor may ask for
  Servings,      \* recommendations of the model and targets of supervisors
  EligibleCount, \* the possible numbers of eligible students at cutoff
  EarlyStart,    \* settings.service.earlyStartMinutes
  AlertLead,     \* how long before service an unapproved slot is announced
  MaxTime,       \* bound on the server clock
  MaxForecasts,  \* bound on the forecasts a supervisor asks for
  MaxCrashes     \* bound on the crashes of the API process

ASSUME ConstantAssumption ==
  /\ Schedule \subseteq [opens : Nat, closes : Nat, starts : Nat, ends : Nat]
  /\ Servings \subseteq Nat
  /\ EligibleCount \subseteq Nat
  /\ EarlyStart \in Nat
  /\ AlertLead \in Nat
  /\ MaxTime \in Nat
  /\ MaxForecasts \in Nat
  /\ MaxCrashes \in Nat

VARIABLES
  now,        \* the server clock
  status,     \* meal_slots.status
  times,      \* the four times of the slot
  menu,       \* whether the menu has a dish
  aggregate,  \* the row of cutoff_aggregates
  forecasts,  \* the rows of forecasts, by version
  plan,       \* the row of preparation_plans
  startedAt,  \* meal_slots.service_started_at
  notices,    \* the kinds of notice sent once per slot
  job,        \* what is left to do of each processCutoff in progress
  tick,       \* the scheduler's local state
  crashes     \* the crashes so far

slotVars == <<times, menu, aggregate, forecasts, plan, startedAt, notices>>
vars == <<now, status, slotVars, job, tick, crashes>>

Scheduler == "scheduler"
Actor == Operator \cup {Scheduler}

ASSUME OperatorAssumption == Scheduler \notin Operator

Forecast == [recommended : Servings, automatic : BOOLEAN]
Plan == [forecast : Nat, target : Servings, override : BOOLEAN]
\* No row.  An approval without a forecast is always an override.
NoPlan == [forecast |-> 0, target |-> 0, override |-> FALSE]
NoticeKind ==
  {"FORECAST_READY", "RECONCILIATION_DUE", "APPROVAL_NEEDED", "MEAL_CANCELLED"}
TickPhase == {"idle", "cutoff", "service", "close", "alerts"}

\* assertWindow, and the CHECKs of meal_slots.
AssertWindow(t) ==
  /\ t.starts < t.ends
  /\ t.closes <= t.starts
  /\ t.opens < t.closes

Init ==
  /\ now = 0
  /\ status = "DRAFT"
  /\ times \in {t \in Schedule : AssertWindow(t) /\ t.closes > now}
  /\ menu \in BOOLEAN
  /\ aggregate = [locked |-> FALSE, at |-> 0, eligible |-> 0]
  /\ forecasts = <<>>
  /\ plan = NoPlan
  /\ startedAt = 0
  /\ notices = {}
  /\ job = [a \in Actor |-> "idle"]
  /\ tick = [phase |-> "idle", now |-> 0, due |-> FALSE]
  /\ crashes = 0

-----------------------------------------------------------------------------
(* The supervisors' transactions before the cutoff. *)

MayPublish == CanTransition(status, "OPEN") /\ times.closes > now /\ menu

PublishSlot ==
  /\ MayPublish
  /\ status' = "OPEN"
  /\ UNCHANGED <<now, slotVars, job, tick, crashes>>

\* A poll that has begun is not moved into the future.
MayUpdate(t) ==
  /\ status \in {"DRAFT", "OPEN"}
  /\ AssertWindow(t)
  /\ status = "OPEN" => /\ t.closes > now
                        /\ ~(t.opens > now /\ times.opens <= now)

UpdateSlot(t) ==
  /\ MayUpdate(t)
  /\ times' = t
  /\ UNCHANGED <<now, status, menu, aggregate, forecasts, plan, startedAt,
                 notices, job, tick, crashes>>

MayEditMenu == status \in MenuEditable

UpdateMenu(hasDish) ==
  /\ MayEditMenu
  /\ menu' = hasDish
  /\ UNCHANGED <<now, status, times, aggregate, forecasts, plan, startedAt,
                 notices, job, tick, crashes>>

MayCancel == CanTransition(status, "CANCELLED")

CancelSlot ==
  /\ MayCancel
  /\ status' = "CANCELLED"
  /\ notices' = IF status = "DRAFT" THEN notices
                ELSE notices \cup {"MEAL_CANCELLED"}
  /\ UNCHANGED <<now, times, menu, aggregate, forecasts, plan, startedAt, job,
                 tick, crashes>>

-----------------------------------------------------------------------------
(* processCutoff: two transactions, by a supervisor or the scheduler. *)

\* A defect to be caught: the cutoff is not compared with the clock again, once
\* the slot was listed as due.
CutoffReachedWhenListed == TRUE

CutoffReached == now >= times.closes

\* A defect to be caught: a repeated cutoff starts over instead of returning
\* the aggregate that exists.
CanLockAgain ==
  status \in {"OPEN", "LOCKED", "FORECAST_READY"} /\ CutoffReached

\* What lockSlot checks.  Once locked it has nothing to do and nothing follows.
CanLock == ~aggregate.locked /\ CanTransition(status, "LOCKED") /\ CutoffReached

\* The first transaction, lockSlot; the forecast is left to do.
LockSlot(a) ==
  /\ job[a] = "idle"
  /\ CanLock
  /\ \E n \in EligibleCount :
       aggregate' = [locked |-> TRUE, at |-> now, eligible |-> n]
  /\ status' = "LOCKED"
  /\ job' = [job EXCEPT ![a] = "forecasting"]
  /\ UNCHANGED <<now, times, menu, forecasts, plan, startedAt, notices,
                 crashes>>

\* A defect to be caught: a forecast may also be added to an approved slot.
ForecastAllowedAnyTime == status \in {"LOCKED", "FORECAST_READY", "APPROVED"}

ForecastAllowed == status \in {"LOCKED", "FORECAST_READY"}

\* generateForecast: a new version, whatever the model recommends.
AddForecast(isAutomatic) ==
  /\ ForecastAllowed
  /\ \E n \in Servings :
       forecasts' = Append(forecasts,
                           [recommended |-> n, automatic |-> isAutomatic])
  /\ status' = IF status = "LOCKED" THEN "FORECAST_READY" ELSE status

\* The second transaction, with the notice to the supervisors.
ForecastAfterLock(a) ==
  /\ job[a] = "forecasting"
  /\ AddForecast(TRUE)
  /\ notices' = notices \cup {"FORECAST_READY"}
  /\ job' = [job EXCEPT ![a] = "idle"]
  /\ UNCHANGED <<now, times, menu, aggregate, plan, startedAt, tick, crashes>>

\* It is refused when the slot was approved or cancelled in between, or fails
\* for want of a connection; the lock stays.
ForecastFails(a) ==
  /\ job[a] = "forecasting"
  /\ job' = [job EXCEPT ![a] = "idle"]
  /\ UNCHANGED <<now, status, slotVars, tick, crashes>>

LockFromRequest(o) == LockSlot(o) /\ UNCHANGED tick

RegenerateForecast ==
  /\ Len(forecasts) < MaxForecasts
  /\ AddForecast(FALSE)
  /\ UNCHANGED <<now, times, menu, aggregate, plan, startedAt, notices, job,
                 tick, crashes>>

-----------------------------------------------------------------------------
(* Approval and service. *)

LatestIs(n) ==
  forecasts # <<>> /\ forecasts[Len(forecasts)].recommended = n

ApprovedPlan(n) ==
  [forecast |-> Len(forecasts), target |-> n, override |-> ~LatestIs(n)]

\* An override, or a revision of an approved target, needs a reason; a target
\* far above the number of eligible students is refused.
MayApprove(n, hasReason) ==
  /\ status \in {"LOCKED", "FORECAST_READY", "APPROVED"}
  /\ 2 * n <= 3 * aggregate.eligible \/ n <= aggregate.eligible + 50
  /\ LatestIs(n) \/ hasReason
  /\ plan = NoPlan \/ hasReason

ApprovePlan(n, hasReason) ==
  /\ MayApprove(n, hasReason)
  /\ plan' = ApprovedPlan(n)
  /\ status' = "APPROVED"
  /\ UNCHANGED <<now, times, menu, aggregate, forecasts, startedAt, notices,
                 job, tick, crashes>>

TransitionToService ==
  /\ status' = "IN_SERVICE"
  /\ startedAt' = now
  /\ UNCHANGED <<times, menu, aggregate, forecasts, plan, notices>>

TransitionToClosed ==
  /\ status' = "SERVICE_CLOSED"
  /\ notices' = notices \cup {"RECONCILIATION_DUE"}
  /\ UNCHANGED <<times, menu, aggregate, forecasts, plan, startedAt>>

\* A defect to be caught: the early start is measured from the cutoff.
EarliestStartFromCutoff == now + EarlyStart >= times.closes

EarliestStartReached == now + EarlyStart >= times.starts

MayStartService == CanTransition(status, "IN_SERVICE") /\ EarliestStartReached

StartService ==
  /\ MayStartService
  /\ TransitionToService
  /\ UNCHANGED <<now, job, tick, crashes>>

MayCloseService == CanTransition(status, "SERVICE_CLOSED")

CloseService ==
  /\ MayCloseService
  /\ TransitionToClosed
  /\ UNCHANGED <<now, job, tick, crashes>>

-----------------------------------------------------------------------------
(* The scheduler.  A tick reads the clock once; each of its phases lists the *)
(* due slots without a lock and then works on them.                          *)

\* A defect to be caught: a tick acts only on what falls due at its own time,
\* and so never on what fell due while the process was down.
DueForThisInstant(phase, t) ==
  CASE phase = "cutoff"  -> status = "OPEN" /\ times.closes = t
    [] phase = "service" -> status = "APPROVED" /\ times.starts = t
    [] phase = "close"   -> status = "IN_SERVICE" /\ times.ends = t
    [] phase = "alerts"  -> /\ status \in {"LOCKED", "FORECAST_READY"}
                            /\ times.starts = t + AlertLead
    [] OTHER             -> FALSE

\* The lists of tickJobs, at the time the tick started.
DueFor(phase, t) ==
  CASE phase = "cutoff"  -> status = "OPEN" /\ times.closes <= t
    [] phase = "service" -> status = "APPROVED" /\ times.starts <= t
    [] phase = "close"   -> status = "IN_SERVICE" /\ times.ends <= t
    [] phase = "alerts"  -> /\ status \in {"LOCKED", "FORECAST_READY"}
                            /\ times.starts <= t + AlertLead
    [] OTHER             -> FALSE

PhaseAfter(phase) ==
  CASE phase = "cutoff"  -> "service"
    [] phase = "service" -> "close"
    [] phase = "close"   -> "alerts"
    [] OTHER             -> "idle"

Enter(phase, t) == [phase |-> phase, now |-> t, due |-> DueFor(phase, t)]

StartTick ==
  /\ tick.phase = "idle"
  /\ tick' = Enter("cutoff", now)
  /\ UNCHANGED <<now, status, slotVars, job, crashes>>

NextPhase ==
  /\ tick.phase # "idle"
  /\ ~tick.due
  /\ job[Scheduler] = "idle"
  /\ tick' = Enter(PhaseAfter(tick.phase), tick.now)
  /\ UNCHANGED <<now, status, slotVars, job, crashes>>

Due(phase) == tick.phase = phase /\ tick.due
TickDone == tick' = [tick EXCEPT !.due = FALSE]

TickCutoff ==
  /\ Due("cutoff")
  /\ TickDone
  /\ \/ LockSlot(Scheduler)
     \/ ~CanLock /\ UNCHANGED <<now, status, slotVars, job, crashes>>

\* A defect to be caught: the list is trusted and the row not read again.
StillAsListed(s) == TRUE

\* The status read again under the row lock.
StillIn(s) == status = s

TickService ==
  /\ Due("service")
  /\ TickDone
  /\ IF StillIn("APPROVED") THEN TransitionToService
     ELSE UNCHANGED <<status, slotVars>>
  /\ UNCHANGED <<now, job, crashes>>

TickClose ==
  /\ Due("close")
  /\ TickDone
  /\ IF StillIn("IN_SERVICE") THEN TransitionToClosed
     ELSE UNCHANGED <<status, slotVars>>
  /\ UNCHANGED <<now, job, crashes>>

TickAlert ==
  /\ Due("alerts")
  /\ TickDone
  /\ notices' = notices \cup {"APPROVAL_NEEDED"}
  /\ UNCHANGED <<now, status, times, menu, aggregate, forecasts, plan,
                 startedAt, job, crashes>>

-----------------------------------------------------------------------------
(* The environment. *)

\* The API process dies: committed rows stay, everything in memory is lost.
Crash ==
  /\ crashes < MaxCrashes
  /\ crashes' = crashes + 1
  /\ job' = [a \in Actor |-> "idle"]
  /\ tick' = [phase |-> "idle", now |-> 0, due |-> FALSE]
  /\ UNCHANGED <<now, status, slotVars>>

Tick ==
  /\ now < MaxTime
  /\ now' = now + 1
  /\ UNCHANGED <<status, slotVars, job, tick, crashes>>

OperatorStep ==
  \/ PublishSlot
  \/ \E t \in Schedule : UpdateSlot(t)
  \/ \E hasDish \in BOOLEAN : UpdateMenu(hasDish)
  \/ CancelSlot
  \/ \E o \in Operator : LockFromRequest(o)
  \/ RegenerateForecast
  \/ \E n \in Servings, hasReason \in BOOLEAN : ApprovePlan(n, hasReason)
  \/ StartService
  \/ CloseService

SchedulerStep ==
  StartTick \/ NextPhase \/ TickCutoff \/ TickService \/ TickClose \/ TickAlert

ForecastStep(a) == ForecastAfterLock(a) \/ ForecastFails(a)

Next ==
  \/ OperatorStep
  \/ SchedulerStep
  \/ \E a \in Actor : ForecastStep(a)
  \/ Crash
  \/ Tick

Spec == Init /\ [][Next]_vars

\* The clock advances, the timer fires and the scheduler's queries return; a
\* second transaction once begun ends.  Nothing is asked of supervisors.
FairSpec ==
  /\ Spec
  /\ WF_vars(Tick)
  /\ WF_vars(SchedulerStep)
  /\ \A a \in Actor : WF_vars(ForecastStep(a))

-----------------------------------------------------------------------------
(* Properties. *)

TypeOK ==
  /\ now \in Nat
  /\ status \in Status \ {"RECONCILED"}
  /\ times \in {t \in Schedule : AssertWindow(t)}
  /\ menu \in BOOLEAN
  /\ aggregate \in [locked : BOOLEAN, at : Nat, eligible : Nat]
  /\ forecasts \in Seq(Forecast)
  /\ plan \in Plan \cup {NoPlan}
  /\ startedAt \in Nat
  /\ notices \subseteq NoticeKind
  /\ job \in [Actor -> {"idle", "forecasting"}]
  /\ tick \in [phase : TickPhase, now : Nat, due : BOOLEAN]
  /\ crashes \in Nat

\* The status of a slot agrees with the rows beside it, whatever cutoffs,
\* forecasts, approvals, cancellations and crashes came in between: the
\* kitchen never sees an approved meal without a target, nor a forecast or a
\* target for a poll that has not been counted.
RecordsMatchStatus ==
  /\ status # "CANCELLED" => (aggregate.locked <=> status \notin {"DRAFT", "OPEN"})
  /\ ~aggregate.locked => forecasts = <<>>
  /\ status = "LOCKED" => forecasts = <<>>
  /\ status = "FORECAST_READY" => forecasts # <<>>
  /\ status \in {"DRAFT", "OPEN", "LOCKED", "FORECAST_READY"} => plan = NoPlan
  /\ status \in {"APPROVED", "IN_SERVICE", "SERVICE_CLOSED"} => plan # NoPlan

\* An approved target says truly which forecast it answers and whether it
\* departs from it: no forecast is added behind an approval, not even by a
\* cutoff whose second transaction comes after it.
PlanAnswersLatestForecast ==
  plan # NoPlan =>
    /\ plan.forecast = Len(forecasts)
    /\ plan.override <=> ~LatestIs(plan.target)

\* Nothing happens before its time: no poll is counted before its cutoff and no
\* service starts earlier than the tolerance before its scheduled time, though
\* the scheduler decides on lists of due slots that a supervisor's edit may
\* have made stale.
NeverEarly ==
  /\ aggregate.locked => aggregate.at >= times.closes
  /\ status \in {"IN_SERVICE", "SERVICE_CLOSED"} =>
       startedAt + EarlyStart >= times.starts

AutomaticForecasts == {k \in 1..Len(forecasts) : forecasts[k].automatic}

\* However many cutoffs run at once, by the scheduler and by supervisors, they
\* count the poll once and forecast at most once, and the supervisors are told
\* exactly when there is a forecast of theirs ("concurrent cutoff processing
\* produces exactly one snapshot and one forecast").
CutoffForecastsOnce ==
  /\ \A a, b \in Actor :
       job[a] = "forecasting" /\ job[b] = "forecasting" => a = b
  /\ \A j, k \in AutomaticForecasts : j = k
  /\ AutomaticForecasts # {} <=> "FORECAST_READY" \in notices

\* The cutoff and the service happen once each, in time.
OnceAndInTime == NeverEarly /\ CutoffForecastsOnce

\* A cutoff still to forecast has locked the slot and added no forecast yet.
PendingForecast ==
  \A a \in Actor :
    job[a] = "forecasting" => aggregate.locked /\ AutomaticForecasts = {}

\* A slot listed for service was due by a clock reading in the past, and its
\* times have not changed since.
ListedForService ==
  /\ tick.now <= now
  /\ tick.phase = "service" /\ tick.due =>
       aggregate.locked /\ times.starts <= tick.now

\* The inductive invariant behind the invariants above.
LifecycleInv ==
  /\ TypeOK
  /\ RecordsMatchStatus
  /\ PlanAnswersLatestForecast
  /\ NeverEarly
  /\ CutoffForecastsOnce
  /\ PendingForecast
  /\ ListedForService

\* Every change of status is one of the graph of domain/lifecycle.js, those of
\* the scheduler included, which acts on lists read earlier and never calls
\* assertTransition itself.
LifecycleRespected ==
  [][status' # status => CanTransition(status, status')]_vars

\* What has been counted stays: after the lock neither the times nor the
\* aggregate change and forecasts are only added, and once service has started
\* the target does not change either.
CountedIsFinal ==
  [][/\ aggregate.locked =>
          /\ aggregate' = aggregate
          /\ times' = times
          /\ \A k \in 1..Len(forecasts) :
               k <= Len(forecasts') /\ forecasts'[k] = forecasts[k]
     /\ status \in {"IN_SERVICE", "SERVICE_CLOSED"} =>
          plan' = plan /\ startedAt' = startedAt]_vars

\* A published slot whose cutoff has passed is locked or cancelled, unless a
\* supervisor postpones the cutoff, also after a crash of the process.
CutoffIsProcessed ==
  (status = "OPEN" /\ now >= times.closes)
    ~> (status # "OPEN" \/ now < times.closes)

\* An approved meal is served and closed, or cancelled, without a supervisor.
ApprovedIsServed == status = "APPROVED" ~> status \in {"SERVICE_CLOSED", "CANCELLED"}

\* A tick "locks OPEN slots past their cutoff, snapshots intentions, generates a
\* forecast" and "every step is idempotent, so ticks can be retried"
\* (ARCHITECTURE.md): a locked slot does not stay without a forecast.  The code
\* does not guarantee it: after a crash or a failure between the two
\* transactions no later tick and no repeated lock request forecasts again.
LockedGetsForecast == status = "LOCKED" ~> status # "LOCKED"
=============================================================================

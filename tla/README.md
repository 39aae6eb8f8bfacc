# Formal model of the mess-management system (v2d)

This directory holds TLA+ models of the backend in `src/v2d_Backend` and of the pages
in `src/v2d_Frontend` that act on its state, the TLC configurations that check them on small instances, and proofs that the TLA+ proof
system TLAPS checks for instances of every size. `PROJECT.json` maps every
definition to the lines it models, and lists the hazards, runs, mutants and theorems.

Check a model with `tlc -config MCBallot.cfg MCBallot.tla`, a proof with
`tlapm BallotProofs.tla`.

## 1. The system

A hostel mess announces meals ("slots"). Students say before a cutoff whether they will
eat; at the cutoff the intentions are frozen and a forecast recommends a number of
servings; a supervisor approves a target; the kitchen prepares; a counter verifies who
eats; reconciliation compares intentions with attendance and warns those who voted YES
and did not come; they may appeal. The backend is one Node.js process (several may
run) over PostgreSQL at READ COMMITTED. All durable state is in tables; concurrency is
decided by row locks, unique indexes and the order of statements. The state in a
process is the scheduler's, between reading its lists and acting on them, its pool of
connections, the login limiter, and whatever a request has read and not yet written.
The web client is a React application: each page computes, from rows it has fetched,
what it offers, by rules of its own; tabs share one session cookie.

### Inventory

| Component | State | Operations | Interacts through | Correct if |
|---|---|---|---|---|
| Slot lifecycle rules `domain/lifecycle.js` | none | `canTransition`, `assertTransition` | called by every slot operation | every status change follows the graph |
| Voting `modules/votes` | `votes`, `vote_events` | `castVote`, `votingState`, views, meal pass | share lock on the slot row | no vote outside the window or after the count; history agrees with the vote |
| Cutoff `forecasting.service.js` | `vote_snapshots`, `cutoff_aggregates` | `lockSlot`, `processCutoff`, `lockFromRequest` | exclusive lock on the slot row | the snapshot is the ballot at one instant; counted once |
| Forecasts `modules/forecasting` | `forecasts` | `generateForecast`, `regenerateForecast`, pure model | slot row, history of earlier slots | automatic once per slot; never behind an approval; as much as is expected, and no more than there are students |
| Meal slots `modules/meals` | `meal_slots`, menu | create, edit, publish, menu, cancel, start, close | slot row, notices | times and records agree with the status |
| Planning `modules/planning` | `preparation_plans`, requirements, stock | `approvePlan`, procurement, stock | latest forecast, tasks | an approval says truly what it answers |
| Scheduler `jobs/scheduler.js` | lists of a tick, advisory lock | `tickJobs` | all slot operations | late, repeated and overlapping ticks do no harm; everything due is done |
| Kitchen `modules/kitchen` | tasks, food log, incidents | create, update, log, void | reads the slot's status | nothing logged for a meal that is over |
| Counter `modules/attendance` | `attendance_events` | `verify`, `voidAttendance` | share lock on the slot row | admitted once; no record escapes the outcomes |
| Reconciliation and appeals `modules/reconciliation` | `reconciliations`, `attendance_outcomes`, `warnings`, `appeals` | `reconcile`, `correctOutcome`, `submitAppeal`, `resolveAppeal` | slot row, warning row, settings | warnings follow outcomes; decisions are final |
| Notifications `modules/notifications` | `notifications` | `notify`, mark read | deduplication keys | told once, and told of each change |
| Accounts `modules/accounts` | users, roles, memberships | create, import, status, roles, codes, moves | sessions | an administrator remains; one mess a day |
| Authentication `modules/auth`, `middleware/session.js` | sessions, codes | login, activate, reset, change | accounts | a session ends with the credentials it was opened under; a code counts once |
| Middleware | rate-limit buckets in memory, CSRF token | per request | sessions | what is done is done as who was shown |
| Organisation, catalogue, settings | institutions, messes, dishes | create, update | read by all | a policy changes only if somebody meant it |
| Database access, process, migrations | pool, advisory locks, ledger of migrations | `withTransaction`, tick, shutdown, migrate | all | one tick at a time; nothing cut off; no version twice |
| Analytics, overview, audit | append-only log | reads, append | reads all | what is missing is missing, never 0 |
| Web client | tabs, session cache, forms | calls the API | HTTP | offers what the API accepts; retries are safe |

### What is hard here

- **Locks.** `castVote` and `verify` take the slot row FOR SHARE and run together;
  lifecycle changes take it FOR UPDATE. `FOR UPDATE` on a row that does not exist
  locks nothing. The clock is read before a wait and written after it.
- **Stale lists.** The scheduler lists due slots without a lock, then works on them;
  a supervisor may have postponed, cancelled or closed the slot in between.
- **Two transactions where one was meant.** `processCutoff` commits the lock before it
  forecasts; a crash, or an approval, can come in between.
- **Long sequences of legal calls.** Outcomes corrected back and forth while warnings
  are appealed, decided, withdrawn and revived.
- **Time.** Windows half open at one end, tolerances, deadlines, ticks that run late.
- **Reads before slow work.** A principal is resolved in two reads and used later; a
  login compares a password while the account may be suspended; a kitchen task looks
  at a slot it does not lock.
- **Two copies of one rule.** Each page decides what to offer by its own reading of the
  status, the deadline and the role, next to the check in the handler.
- **Processes.** A database that goes away in the middle of a tick, a pool with no
  connection left, SIGTERM under load, two deployments migrating at once.

The hazards, each at its line with the properties that watch it, are in
`PROJECT.json`.

## 2. The modules

```
Lifecycle            status graph (no state)
  Ballot             voting and cutoff       --implements-->  SealedBallot
  MealLifecycle      one slot, supervisors, scheduler, crashes
    MealPage         ... and the supervisors' page
  Counter            verifications, voids, reconciliation of the records
    CounterPage      ... and the counter's page
  Preparation        target, kitchen tasks, food log, metrics of one meal
    KitchenPage      ... and the kitchen's page
Accountability       outcomes, warnings, corrections, appeals of several meals
  CasePages          ... and the pages about outcomes, warnings and appeals
Access               accounts, roles, codes, sessions, logins
  AccountPage        ... and the page of an account
Residence            a student's mess by the day
Policies             settings and the form that edits them
Stock                stock of an ingredient, requirements, orders
Browser              tabs, cookie, CSRF token, retries
Workspace            roles, messes, workspace of a session, routes and pages of one person
Server               processes, pool, tick, advisory lock, shutdown
Migrator             schema migrations by concurrent deployments
Forecast             history, attendance rates, recommended servings
MC<Module>           the instances for TLC (MCPlatform: the last eight)
<Module>Proofs       the theorems (PlatformProofs: the last eight; a page's are with its rows)
SharedLemmas         the status graph, products and division, sums over finite sets
```

The modules look at the same rows at different resolution. The slot row's locks are the
interface: `Ballot` and `Counter` break the operations that hold it FOR SHARE into
steps and have those that hold it FOR UPDATE as one action each (nothing that touches
the slot can come between their statements); `MealLifecycle` has every transaction as
one action and breaks up what is *not* one transaction; `Accountability` breaks up the
exclusive transactions, because on two slots they do run together. The same division
is made elsewhere: a request is broken up exactly where the code gives up the row, or
never had it.

A page module EXTENDS the module of the rows it shows and adds operators only: what
each button's condition evaluates to, over the same variables. Its property compares
that with the guards of the handlers (`MayStart`, `MaySetStatus`, ...), most of which are
the operators the actions use. Both directions count: an offer that is refused, and a
possibility that is never offered. Known disagreements are named in the property.

**Lifecycle** is `TRANSITIONS`, `canTransition`, `MENU_EDITABLE` and `FOOD_LOG_OPEN`.

**SealedBallot** is the promise of voting: intentions change one at a time while a poll
is open; closing it copies the intentions of some electorate at one instant; after that
neither changes.

**Ballot** is `castVote` statement by statement (`BeginVote`: share lock, eligibility,
window; `ReadExisting`: the student's row; `RepeatVote`; `WriteVote`; `AbortVote`),
`publishSlot`, `updateSlot`, `cancelSlot`, `lockSlot`, and changes of membership at any
time. `votes`, `events`, `snapshot`, `aggregate` are the tables; `request` is what each
transaction has read. `SlotRowFree` and `VoteRowFree` are what the two row locks wait
for. A refused request has no effect and is no step.

**MealLifecycle** is one slot from draft to the end of service. `job[a]` is what is
left of a `processCutoff` between its two transactions; `tick` is the scheduler's phase,
the instant its tick began and whether the slot was on the list of this phase.
`Crash` loses both and keeps the rows. Notices whose key is unique per slot are a set.

**Counter** is `verify` in two steps, what it reads and its insert, `voidAttendance`,
the changes of status, and the rows `reconcile` computes. The unique index on valid
records is `NotYetAdmitted`, evaluated at the insert. Who is eligible now changes at any
time (`ChangeEligibility`), for no move or suspension touches the slot row; `MayVerify`
asks it of students outside the snapshot. The page lists the newest records first, cut
off twice: by the query (`ListLimit`, 500 in the code) and by what it renders (`Shown`,
40), so `Rendered` is a condition of `UndoButton`. `records` is in the order of
`verified_at`; two records of the same instant may be listed the other way round.

**Accountability** starts where service has ended. `BeginTransaction` takes a slot row
and reads the clock, the settings and the student's other warnings; `Reconcile` and
`CorrectOutcome` write and commit; `Rollback` gives up. `SubmitAppeal` and
`ResolveAppeal` lock the warning, not the slot, and so interleave with them.
`SwitchWarnings` is an administrator changing the policy at any time.

**Preparation** is the kitchen's side of one meal. `ApprovePlan` writes the target and its
tasks (only those still pending change), `UpdateMenu` what the status still allows.
`startTask`, `completeTask` and `addFoodLog` are two steps each: what they read of a
slot or of tasks they do not lock, and what they write. A quantity that may be missing
is a set of at most one number, so that "missing" is not zero.

**Access** is accounts with the statements of `resolveSession`, `login`, `redeemCode`,
`revokeRole` and `requestPasswordReset` broken up, and everything that runs under the
account's row lock as one action. A reset holds no lock that another reset needs: its
update supersedes those of the codes live when it began that still are
(`BeginReset`, `IssueReset`), and never sees the code another one is adding. Its insert
refers to the account and so waits for a request that has locked it. `request[r]` is what a request knows and has not yet
used. A session remembers, for the properties only, the password it was opened under
and whether its login had read the account before the last change (`late`).

**Residence** is `changeMembership` for a day to come or gone by, against `eligibility`
by the day and the list of meals by the open membership. **Policies** is
`updateSettings` with the form of `Settings.tsx`, which sends all it shows in two
requests. **Stock** is `recordTransaction` in two steps, and `computeRequirements`,
`applyOrderConstraints` and `procurementOutlook` as pure operators: `MealOrder` is what
is advised for one meal from its exact need (a fraction, `Missing`), which is also what an
approval freezes at its instant; `Required` is that need rounded to thousandths, as it is
shown and as the outlook adds it up. Frozen lines are not kept as state: the page and the
reports repeat them as they are, and no later order is computed from them. **Browser** is the
client's `request` in three steps with its one retry, while other tabs sign in and out.
**Server** is the pool as a count of connections, `tickJobs` with its advisory lock
and the variable `running`, and `shutdown`; a failure of the database frees locks and
ends what held a connection. **Migrator** is `migrate` statement by statement for
several releases; an applied migration may have been edited in a later release.

**Workspace** is one person: roles are assigned and revoked, messes opened and closed
(`GrantRole`, `RevokeRole`, `SetMessActive`), the session of a tab has an active role, and the tab
knows what the last answer told it. `Resolved` is `buildPrincipal` and the choice of the
role a request runs under; `Can` the capability a handler asks for; the routes and the
pages of each workspace are tables of what asks for what. A request is one step, for it
is resolved and judged at once; signing in and switching are two, the change and the
fetch of the session. The mess a tab opens with is any it may offer, since the one saved
in the browser may be any; a choice of none stays until the page is mounted again. A
student's mess is his membership (`Residence`) and is not chosen.

**Forecast** is what `generateForecast` writes: `LoadHistory` sums the outcomes of the
meals that may be learned from, `Posterior` and `ForecastAttendance` are the model
(rates as reduced fractions; `Recommended` is the least number of servings k that
`Reaches` k ≥ mean and (k - mean)² ≥ z²·variance, which is the code's ceil(mean + z·σ)
without the root, or else all students), and
`ConservativeFallback` what is written when the model throws. Meals are reconciled and
corrected, and the policy edited, between one version and the next. `MealLifecycle`
decides when a forecast is made and takes any number for its result.

Operators that a comment calls "a defect to be caught" are wrong versions of a
definition. No specification uses them; substituting one for the definition it
mutates must break the property it is listed with (`mutants` in `PROJECT.json`).

## 3. The runs

| Run | Question | Instance |
|---|---|---|
| `ballot` | Do snapshot, window and history survive every race of votes, edits and cutoff, and is voting a sealed ballot? | 2 students, 2 requests, 3 windows, times 0..2, 2 events per student |
| `ballot_repeated_vote` | *violated*: is a repeated vote always a no-op? | 1 student, as finding 1 |
| `ballot_evidence_order` | *violated*: does the history by time end with the vote? | 1 student, as finding 2 |
| `meal` | Do records, plan, forecasts, times and page stay consistent under supervisors, a late scheduler and a crash; is a due cutoff processed and an approved meal served? | 2 supervisors' requests, 2 schedules, times 0..4, 1 forecast on request, 1 crash, with fairness |
| `meal_locked_forecast` | *violated*: does a locked slot get its forecast? | 1 request, finding 3 |
| `counter` | Is everyone admitted once, do outcomes match the records, does the page fit? | 2 students, 2 counters, 4 records, of which the query returns 3 and the page renders 2 |
| `accountability` | Do warnings, appeals, totals, tiers and pages agree under every order of operations? | 2 meals on successive days in one window, 1 student, 2 corrections each, times 0..1 |
| `accountability_excused` | *violated*: does the stored number of excused students match? | 1 meal, 2 students, 1 correction, finding 4 |
| `access` | Do codes count once and sessions end with their credentials, how can the last administrator be lost, does the page fit? | 2 accounts, 2 requests, 2 sessions, 2 codes, 2 passwords, 1 failed login locks; `MCBound` |
| `preparation` | Does the kitchen work the plan, does started work keep its servings, do leftovers fit, do metrics stay known? | 2 dishes, 2 menus, 2 targets, 2 cooks, 2 log entries |
| `platform` | One property and more for each of eight parts: who acts in a tab, one tick and clean exits, flagged stock and sufficient orders, meals listed, policies on purpose, deployments, sound forecasts, a workspace that fits | 2 tabs; 2 processes; 2 clerks; 2 messes and 6 days; 2 administrators; 2 deployments of 4 releases; 4 earlier meals, 3 policies; 2 messes, 6 sets of roles, 2 changes |
| `scheduler_recovers` | *violated*: does a process that stays up go on ticking? | 1 process, 1 outage, with fairness, finding 5 |

`platform` puts eight modules that share no state into one state space: a behaviour is
about one of them (`subject`), and the others rest in one initial state. Nothing is
gained or lost by this but the number of runs; each part is checked as it would be alone.

### Bounds, and why they are enough

- `MaxTime` bounds the clock. Times are only compared, so it must exceed the last
  interesting instant: the later cutoff in `ballot` (2), the end of the later meal in
  `meal` (4), the instant after an appeal window in `accountability` (1).
- `MaxEvents` = 2 admits a vote, its repetition by a racing request and a change.
- Two students and two requests meet in every way two transactions can: on one
  student's row and on two. More requests only repeat these pairs, and the theorems
  cover any number.
- `MaxForecasts` bounds forecasts asked for by supervisors, never the automatic one.
- `MaxCrashes` = 1 puts the crash at every point; a second one finds the same rows.
- `MaxRecords` = 4 admits a record, its void, a second record of that student and one
  of another. With `ListLimit` = 3 and `Shown` = 2 (500 and 40 in the code) a valid
  record is pushed off the rendered part by the records after it, voided ones included.
- `MaxCorrections` = 2 lets an outcome be corrected away and back, which revives a warning.
- `AppealWindow` = 1 with `MaxTime` = 1 in `accountability` has the instant of issue,
  which is before the deadline, and the deadline itself, where button and handler differ;
  0 in `accountability_excused`, where appeals do not matter.
- In `access`, `Forgetful` is who may mistype a password: one account, since a failure
  concerns only the account it names; with `MaxFailedLogins` = 1 the lock is reached at
  once. Two codes are those of two resets at once, or a code and the one that replaces it;
  two sessions show a sign-out that misses one. Role assignments are the administrator's
  and the student's. `MCBound` ends a behaviour when both codes are issued and, besides,
  both sessions opened or a wrong password counted: codes meet codes, and sessions meet
  sessions, in every order, and codes meet sessions while one of either is left. The
  states it cuts off are checked, only not continued.
- `Target` = {1, 4} with an uptake of 50 and 100 percent makes servings round up and
  differ; `Kg` = {0, 1} separates nothing prepared from something.
- `MaxSession` = 2 is one session of each of two accounts, or two of one: the token of
  another session. `MaxOutages` = 2 lets the database go away again after its return.
  `PoolMax` = 2 is the least with which a tick's jobs can run at all (see finding 11).
- `Quantity` = {10, 30} and `MaxStock` = 60 reach a negative stock by one movement and by
  two (the unit is a ten-thousandth). The rules are a pack size that does not divide the
  minimum order and no pack size; the recipes yield 70 or 100 percent, which makes a
  need that is no whole number, and the uptakes round servings up. `PackPrecision` is
  1000000 in the code (packs are rounded to six decimals before they are rounded up); 100
  keeps TLC's integers inside 32 bits and is coarser, so its loss shows sooner.
- `LastDay` = 5 with moves ahead and in arrears has two moves in a row; `MaxEdits` = 2
  is one value typed in each form, or two in one. 0 is a value outside the schema.
- The forecast learns from four earlier meals: an ordinary one that only the longer
  window reaches, a special one, and two more, so that there are 0 to 3 to learn from and
  a limit of 2 leaves one out. Windows and limits are smaller than the schema's minimum
  (7 days, 3 meals), as only which meals are in matters. Three students, one of each
  group, keep the fractions inside TLC's 32 bits (it reports an overflow). The service
  levels of 50, 84 and 98 percent are those whose quantile is 0, 1 and 2.
- The workspace begins with one of six sets of roles, each of which answers a question
  (a supervisor who is an administrator too, one who cooks elsewhere, a cook who studies,
  ...); `MaxChanges` = 2 lets an administrator take away and give, or close and reopen,
  what the tab was told. Checked by itself with 4 changes nothing else comes up.
- Two meals reach tiers 1 and 2. Tier 3 needs three meals and is covered by the
  theorem `TiersCorrect` only.
- The symmetry sets permute students, requests, sessions, codes, cooks, log entries,
  tabs, clerks, administrators and deployments, on which no definition depends. No
  run with a liveness property uses symmetry.

The deadlock check is off where the system really stops: `MCCounter.cfg` (after
`RECONCILED` or `CANCELLED` nothing is left to do at the counter), `MCPreparation.cfg`
(a meal reconciled or cancelled, with all log entries used), `MCPlatform.cfg` and
`MCServer_SchedulerKeepsRunning.cfg` (the calendar and the stock are bounded, processes
exit). All other runs check for deadlock.

### Fairness

`FairSpec` of `MealLifecycle` assumes weak fairness of the clock, of the scheduler's
steps (a `setInterval` timer in the process, whose queries return) and of each second
transaction (its statements return or it fails). Nothing is asked of supervisors: they
may never act. A failed second transaction is a legal outcome, not an unfair one; a
crash restarts with an idle scheduler that goes on ticking. This presumes that each tick
gets its connection; finding 5 is about what happens when one does not.

`FairServerSpec` of `Server` assumes that the database returns, that requests end, and
that whatever a tick can do next it does (the timer fires, a connection is granted or
refused, a job ends). Shutdowns, kills, restarts and outages are never required. The
specifications without liveness properties assume no fairness.

## 4. What the checks found

1. **A repeated first vote can be recorded twice.** Two concurrent first votes of one
   student with one intention find no row to lock, and both insert; the second is
   recorded as a change with `previous_intent` NULL. The comment at
   `votes.service.js:30` calls it a no-op. The vote that counts is right.
2. **The evidence of an appeal may be in the wrong order.** `castVote` reads the clock
   before it waits for the student's row; `messAppeals` orders by `recorded_at`, so its
   last entry need not be the vote that counted.
3. **A slot can stay LOCKED without a forecast.** After a failure between the two
   transactions of `processCutoff` neither the scheduler (the slot is not OPEN) nor a
   repeated lock request (it is locked already) forecasts; a supervisor must ask.
   `docs/ARCHITECTURE.md:57` says every step can be retried.
4. **The stored number of excused students goes stale.** A correction recomputes the
   totals and keeps `excused` as reconciliation set it.
5. **One failed connection ends the scheduler.** `pool.connect()` stands before the `try`
   whose `finally` resets `running` (`scheduler.js:142`): after one rejection every later
   tick returns that same rejected promise, and a shutdown that awaits it never closes
   the server. A process that stays up does not tick again.

The rest came up while the models were written; the properties name them as exceptions,
and show that there are no others.

6. **Saving a policy writes an old time zone back.** The form keeps name, time zone and
   currency as first loaded and sends them with every save, in a request of its own
   (`Settings.tsx:29`). `PoliciesChangeOnPurpose` holds for the policies.
7. **The last administrator can be lost.** `revokeRole` counts without a lock and
   `setStatus` does not count; `AdminLostOnlyToFormerAdmin` shows that it takes a request
   of somebody who had stopped being an administrator while it ran.
8. **An invited account that was deactivated is stuck.** Reactivation asks for an
   activation code and `issueCode` refuses one (`accounts.service.js:213`, `266`).
9. **Two reset codes at once both stay usable**, although earlier codes are said to be
   revoked (`auth.service.js:193`). `NewCodeReplacesOlder` shows that only a reset leaves
   such a code, if that was issued after the reset had looked; each still counts once.
10. **Leftovers can exceed what was prepared** by a later correction downwards
    (`kitchen.service.js:213`). `LeftoversFitPrepared` states what holds: entries fit what
    their check read.
11. **A pool of one connection makes every tick fail.** `DB_POOL_MAX` may be 1
    (`env.js:30`): the tick holds the only connection with the advisory lock, and each of
    its jobs waits for another until it times out.
12. **After a move dated ahead the student's page shows the wrong mess** until the first
    day of the move (`votes.service.js:103`): meals he cannot vote for, and not those he can.
13. **Frozen requirements have a live total.** Lines are frozen at the approval; cost,
    missing recipes and completeness are computed anew (`planning.service.js:108`).
14. **Start is offered after the close** of the service (`KitchenMeal.tsx:274`) and refused.
15. **Students nobody counted do attend.** The recommendation is capped because "no one
    else can attend" (`model.js:18`), yet the counter admits those who joined after the
    cutoff. They are recorded as UNVOTED and attended, so the rate of those who do not vote
    is learned from them as well, of whom only those who came are on record.

16. **Students may not read the catalogue.** The table of capabilities says "read" for them
    (`docs/PERMISSIONS.md:26`), `can.viewCatalog` (`permissions.js:62`) leaves them out. No
    page of a student asks for it.
17. **An administrator cannot list attendance.** The table gives him read-only access
    (`docs/PERMISSIONS.md:23`); `listAttendance` (`attendance.service.js:156`) asks for the
    operation of the mess.
18. **An inactive mess is not offered to a supervisor who is an administrator too.**
    `messScope.tsx:6` promises the messes he is assigned to; `describeSession`
    (`auth.service.js:165`) lists the active ones of the institution instead. A supervisor
    who is no administrator is offered his. `MessesAreOffered` names the exception.

Smaller ones, which no property is about: the expected attendance is shown rounded to
hundredths, the buffer starts from the exact number, so the two can be one serving apart
(`ForecastIsSound` allows for it); the fallback, said to be conservative, recommends less
than the model where those who voted NO are likely to come (`model.js:104`); a change of the target to B and back to A
leaves the kitchen with the notice of B (`planning.service.js:213`), and an end of service
that moves alone, or a time that moves back, is not announced (`meals.service.js:394`);
50 due slots that fail at every tick starve those behind them (`scheduler.js:19`);
`Counter.tsx:96` opens a meal named in the address in any status; an appeal of a revived
warning, used up before, reads "Appeal window closed"; the dialog of `Reconcile.tsx`
announces warnings while they are switched off; the times dialog of `MealDetail.tsx`
sends all times as they were when it opened.

## 5. What is proved

All theorems hold for every value of the constants that meets the named assumptions of
its module: schedules and windows well formed, numbers natural; what is counted or
summed finite (`Student` in `Accountability`, `User` in `Access`, `Dish` and `Log` in
`Preparation`, `Meal` in `Stock`, `Past` in `Forecast`); at least one founder and one
password in `Access`; no account called `Nobody` in `Browser` and no mess called `noMess`
in `Workspace`; uptakes and yields of at most 100 percent in `Stock`; limits of the list of at least 1 in `CounterPage`; releases sequences of migrations in `Migrator`; a rate of at most 1, and no more attendees than students, in `Forecast`. TLC
evaluates every one of them. The proofs reach what TLC cannot: three requests, ten
processes, any amount of stock, any history.

Every invariant and every action property of the passing runs is a theorem. What is
left to TLC is at the end of this section.

**Ballot.** `BallotInv` is inductive: while a request is past its checks the slot is
OPEN and the instant it read lies inside the window (`InFlightVotesAreTimely`), a locked
slot is closed, events are past and inside the window, and snapshot and votes agree.
The first conjunct is why the snapshot is final: who holds the slot row has seen it
OPEN, and the lock cannot be taken meanwhile. `HistoryCorrect` needs in addition that a
request that has read an existing row still finds it. `RefinesSealedBallot` shows that
every step maps to a step of `SealedBallot` or to a stutter (a vote is cast at
`WriteVote`).

**MealLifecycle.** `LifecycleInv` adds to the checked invariants that a pending second
transaction belongs to a locked slot with no automatic forecast yet
(`PendingForecast`), and that a slot listed for service was listed at its start time
or later (`ListedForService`); the second is why the scheduler's stale list never starts
a meal early. From it follow the invariants, `CountedIsFinal`, that every status
change is one of the graph (`LifecycleRespected`, which no run repeats), and
`MealPageCorrect`: button by button, the condition on the page implies the guard of the
handler, given the times and records a slot of that status has.

**Counter.** `CounterInv` adds that a verification under way finds the slot in the
status it read (`VerificationHoldsSlot`), which is what the share lock is for. It gives
`AdmittedOnce`, `OutcomesMatchCounter` and `LateEntriesAreMarked`. `CounterPageCorrect`
needs in addition that a record is a walk-in exactly if its student had not voted YES
(`RecordsGenuine`): the page counts records where the reconciliation counts students. It
names what the page and the API differ in: a student neither in the snapshot nor eligible
may be entered and is refused, and a record that newer ones have pushed off the page can
be voided and is not offered.

**Accountability.** Every step treats the outcome, warning and appeal of one student at
one meal in one of six ways (`RowSteps`: kept, issued, cleared, charged, appealed,
decided). The invariant adds that meals not yet reconciled have neither warnings nor
appeals, and that the tier an open transaction has read is backed like one already
written. No step deletes a warning, so what backs a tier never shrinks, and a tier
computed from what was read earlier is still earned when it is written. All
invariants and both action properties the run checks are proved. `CasePagesCorrect` adds
that every outcome is classified by its intent, attendance and excuse
(`OutcomesClassified`) and that the warnings issued are as many as the no-shows not excused,
or none (`WarningsIssuedMatch`).

**Access.** A request is judged by what it knows: `RequestsKnow` says of each request,
step by step, what of its earlier reads is still true whatever the others did (a
principal's session, if it is live, is still his; the account was activated once). It
is stable because every step moves the tables forward only (`Moves`: an activated
account stays so, a session that was used is not handed out again, a spent code stays as
it is), and each operation is one lemma that shows this and its own effect. With the types,
the CHECK of the table (`PasswordMatchesStatus`) and `SessionsOfActivated` this gives
`AccessInv`, and from it `SessionsCorrect` and, as an action property, `CodesCorrect`: of
each operation, which codes it spends, adds and replaces, what it does to a password and
to a suspended account. Concurrent resets are in it without a lock between them.
`AdminsCorrect` needs one fact more, that who revokes the administrator's role revokes
another's (`RevokesOthers`): a requester who still is an administrator remains one.
`AccountPageCorrect` turns on one count: the page asks whether there are two
administrators, the handler whether another one remains.

**Preparation.** A request that holds a task's row finds the task as it read it
(`RequestsKnow`), because a revision waits for the rows it would change, and no two
requests hold one row (`RowsHeldOnce`); a plan closes the menu (`PlanClosesMenu`). So a
task that is being started is pending, and once all tasks are done none reopens, which is
what `KnownMetricsKept` rests on. `KitchenPageCorrect` follows from the same invariant.
`LeftoversCorrect` is about a sum over the entries: the transaction that checks an entry
holds the slot row until it has inserted it, so there is one at a time (`OneEntry`) and what
it read of the sum is at least the sum it adds to (`EntryFits`); a void only takes away.
`PreparationTypeCorrect` has the sums of weights, which are natural numbers.

**Server.** A tick that works holds the advisory lock and the lock has one holder, so
`OneTick`; a process past closing has no tick, so `OrderlyExits`.
**Stock.** A movement that overlapped with no other has read the stock it changes
(`AloneReadsTruly`), so `NegativeStockFlagged`. `OutlookCorrect` is arithmetic on fractions: `PacksSuffice` says how far below the exact
number of packs the rounded one can be (half of what packs are rounded to) and that it is
no pack above, `OrderSuffices` puts the minimum order in between, `NeedsBounds` bounds
what the rounding of one requirement loses, `SumScaled` and `TotalBounds` what a sum of
them does.
**Residence.** One membership is open,
intervals are disjoint and leave no gap; `MealsListed` follows. **Policies.** A form
shows what it fetched or what was typed (`ShownIsFetched`), what is sent keeps that
(`SentIsFetched`), and a save that has read the row reads the current one, for it holds
the row (`ReadIsCurrent`); `PoliciesOnPurpose` compares the three at the write.
**Browser.** A token belongs to the account the tab shows, or to a session that has
ended, or came with a retry that is done or under way (`TokenIsShown`), and the same holds
of what was sent (`SentAsShown`); `TabsAct` follows at the server.

**Migrator.** One deployment has the lock; what it no longer counts as pending is in the
ledger as its files have it (`PendingIsRest`), and the ledger is the set of what the schema
is the sequence of; `DeploymentsOrdered` follows for any number of releases, those with
edited or doubled versions included.
**Workspace.** A tab shows what it was told (`ShowsWhatItWasTold`); if that is still so,
each page's calls need only what its workspace has (`SupervisorNeeds`, `KitchenNeeds`, ...),
so `WorkspaceCorrect`.
**Forecast.** `ForecastCorrect` follows each fraction through the operations by its value:
`FractionReduces` says that lowest terms keep it, for which `Gcd` is shown to exist, to be
what its recursion says and to divide both numbers. `PosteriorMean` gives the mean of a group
as (rate·strength + attended) / (strength + total), `MeanBetween` puts it between the two
rates, `ServingsSuffice`, `RoundedScaled` and `CeilBounds` relate servings, prediction and
buffer to the sum of the means. Nothing is assumed of the variance, which only ever raises
the servings.

**SharedLemmas.** The library's sum over a set and `Gcd` are recursive functions, and an
induction theorem that takes a property as a parameter cannot be used here. Instead the
property is given as the set of numbers that have it (`NatSetInduction`, from the fact that
a well-founded relation has minimal elements). With it a recursion is shown to define a
function in stages: on sets of at most n elements, or on pairs whose second number is at most
n, for every n; any two stages agree where both are defined; so the function of all stages
satisfies the recursion, and `CHOOSE` finds one that does (`SumUnfolds`, `GcdUnfolds`).

Only model-checked: liveness (`CutoffIsProcessed`, `ApprovedIsServed`), as TLAPS does not
handle `ENABLED` and fairness here; and the five violations, which are counterexamples.

## 6. Not modelled

- Texts, wording, ordering and paging of views; audit rows (append-only, read by
  nobody in these components); e-mail addresses and passwords as strings, hashing, the
  shape of tokens and of the meal pass.
- More than one dish of a menu that takes the same ingredient (their needs are added up
  before they are rounded), changes of a menu between the cutoff and the approval, and the
  error of the floating-point numbers in which requirements are computed:
  `ceil(servings × uptake)` may be one more than the exact number.
- Nutrition, cost and emissions, and aggregates over several meals (`analytics`):
  `Preparation` has the quantities of one meal the metrics start from. Of the forecast:
  rounding errors of floating-point numbers, the approximation of the normal quantile,
  the interval, and the report on accuracy.
- Incidents (`kitchen.service.js:263-343`): rows with a status of their own that no
  other part reads.
- The content of notices, their delivery to each student and marking as read.
- Several slots at once under the scheduler (its batches of 50), `createSchedule`, time
  zones and daylight saving: a slot starts as a draft with well-formed times.
- Campuses, hostels, messes, meal types, dishes and baselines: single-row transactions
  without a state of their own.
- PostgreSQL itself: row locks, unique indexes, advisory locks and READ COMMITTED are
  taken as documented. A deadlock is an abort of one transaction, i.e. a rollback step.
- Charts, tables, layout and the analytics pages of the client; the demonstration data
  of `scripts/seedDemo.js`.

## 7. Plan

1. `Notices`: deduplication keys that depend on content (`SCHEDULE_CHANGED`,
   `PREP_TARGET_APPROVED`) over A, B, A sequences: what the recipients last read against
   what is true.
2. `SchedulerBatch`: several slots and the limit of a batch; liveness of a due slot
   behind failing ones.
3. Unit conversion as pure operators with a reference definition; the report on accuracy.
4. A refinement of `MealLifecycle` to an abstract meal (drafted, polled, counted,
   served) that hides the scheduler.

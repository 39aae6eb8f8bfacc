--------------------------- MODULE Accountability ---------------------------
(***************************************************************************)
(* What follows from attendance: reconciliation of closed meals, warnings  *)
(* for no-shows with a tier from the warnings before, corrections of       *)
(* reconciled outcomes, and the students' appeals                          *)
(* (reconciliation.service.js, accountability.service.js).                 *)
(*                                                                         *)
(* reconcile and correctOutcome hold the slot row FOR UPDATE, so that one  *)
(* at a time runs on a slot; on different slots they run together.  They   *)
(* read the clock and the settings and count the prior warnings, on other  *)
(* slots, before they write: BeginTransaction takes the lock and reads,    *)
(* and the two operations write and commit.  Appeals take the row of the   *)
(* warning, not the slot; each is one action.  Verifications and voids     *)
(* hold the slot FOR SHARE and are one action here; Counter has them in    *)
(* detail.                                                                 *)
(***************************************************************************)
EXTENDS Naturals, FiniteSets

CONSTANTS
  Slot,           \* the closed meals
  Student,        \* the students of the snapshots and of the counters
  ServiceDate,    \* the day of each meal
  WindowDays,     \* settings.warnings.windowDays
  AppealWindow,   \* settings.warnings.appealWindowDays, in units of the clock;
                  \* 0 if it ends before the clock's next value
  MaxTime,        \* bound on the server clock
  MaxCorrections  \* bound on the corrections of one meal

CutoffIntent == {"YES", "NO", "UNVOTED"}
NoShow == "YES_NO_SHOW"
Classification ==
  {"YES_ATTENDED", "YES_NO_SHOW", "NO_ABSENT", "NO_WALK_IN",
   "UNVOTED_ATTENDED", "UNVOTED_ABSENT", "EXCUSED"}

ASSUME ConstantAssumption ==
  /\ IsFiniteSet(Student)
  /\ ServiceDate \in [Slot -> Nat]
  /\ WindowDays \in Nat \ {0}
  /\ AppealWindow \in Nat
  /\ MaxTime \in Nat
  /\ MaxCorrections \in Nat

VARIABLES
  now,        \* the server clock
  enabled,    \* settings.warnings.enabled
  reconciled, \* the slots in status RECONCILED; the others are SERVICE_CLOSED
  snapshot,   \* the rows of vote_snapshots
  present,    \* who has a valid attendance record
  outcome,    \* the rows of attendance_outcomes
  warning,    \* the rows of warnings
  appeal,     \* the rows of appeals
  summary,    \* the rows of reconciliations
  tx          \* the transaction that holds each slot row FOR UPDATE

vars == <<now, enabled, reconciled, snapshot, present, outcome, warning,
          appeal, summary, tx>>

\* A table with one row for every meal and student.
Table(rows) == [Slot -> [Student -> rows]]

NoOutcome == [intent |-> "UNVOTED", attended |-> FALSE, class |-> "NONE"]
Outcome ==
  [intent : CutoffIntent, attended : BOOLEAN, class : Classification]

NoWarning == [status |-> "NONE", tier |-> 0, issuedAt |-> 0]
Warning ==
  [status : {"ACTIVE", "APPEALED", "UPHELD", "WAIVED", "VOIDED"},
   tier : 1..3, issuedAt : Nat]

Decision == {"UPHELD", "WAIVED"}

\* A warning that counts and that a correction withdraws.
LiveStatus == {"ACTIVE", "APPEALED", "UPHELD"}
Live(w) == w.status \in LiveStatus

\* classify: declaration, attendance and policy are independent inputs.
Classify(intent, attended, excused) ==
  IF intent = "YES"
  THEN IF attended THEN "YES_ATTENDED"
       ELSE IF excused THEN "EXCUSED" ELSE NoShow
  ELSE IF intent = "NO"
  THEN IF attended THEN "NO_WALK_IN" ELSE "NO_ABSENT"
  ELSE IF attended THEN "UNVOTED_ATTENDED" ELSE "UNVOTED_ABSENT"

IdleTx == [open |-> FALSE]
OpenTx ==
  [open : {TRUE}, at : Nat, enabled : BOOLEAN, tier : [Student -> 1..3]]

\* The two totals over the outcomes of a slot that the properties tell apart:
\* summarize counts every class and who attended.
CountsOf(rows) ==
  [class |-> [c \in Classification |->
                Cardinality({s \in Student : rows[s].class = c})],
   attended |-> Cardinality({s \in Student : rows[s].attended})]

Counts == [class : [Classification -> Nat], attended : Nat]

Summary ==
  [counts : Counts, excused : Nat, warningsIssued : Nat, corrections : Nat]

NoSummary ==
  [counts |-> CountsOf([s \in Student |-> NoOutcome]),
   excused |-> 0, warningsIssued |-> 0, corrections |-> 0]

Init ==
  /\ now = 0
  /\ enabled \in BOOLEAN
  /\ reconciled = {}
  /\ snapshot \in Table(CutoffIntent \cup {"ABSENT"})
  /\ present \in Table(BOOLEAN)
  /\ outcome = [m \in Slot |-> [s \in Student |-> NoOutcome]]
  /\ warning = [m \in Slot |-> [s \in Student |-> NoWarning]]
  /\ appeal = [m \in Slot |-> [s \in Student |-> "NONE"]]
  /\ summary = [m \in Slot |-> NoSummary]
  /\ tx = [m \in Slot |-> IdleTx]

-----------------------------------------------------------------------------
(* The counter, until reconciliation. *)

\* A late entry, or a void.
ChangeAttendance(m, s) ==
  /\ m \notin reconciled
  /\ ~tx[m].open
  /\ present' = [present EXCEPT ![m][s] = ~@]
  /\ UNCHANGED <<now, enabled, reconciled, snapshot, outcome, warning, appeal,
                 summary, tx>>

-----------------------------------------------------------------------------
(* reconcile and correctOutcome. *)

InWindow(k, m) ==
  /\ ServiceDate[k] + WindowDays > ServiceDate[m]
  /\ ServiceDate[k] <= ServiceDate[m]

\* A defect to be caught: later meals that were reconciled first count too.
PriorSlotsOrLater(m, s) ==
  {k \in Slot \ {m} : /\ ServiceDate[k] + WindowDays > ServiceDate[m]
                      /\ Live(warning[k][s])}

\* priorWarningCounts: the slots whose warnings count.
PriorSlots(m, s) ==
  {k \in Slot \ {m} : InWindow(k, m) /\ Live(warning[k][s])}

\* min(3, prior + 1), for the slots counted as prior.
TierAfter(slots) ==
  IF slots = {} THEN 1 ELSE IF Cardinality(slots) = 1 THEN 2 ELSE 3

\* FOR UPDATE on the slot row, and what is read before the writes: the clock,
\* the settings, the prior warnings.
BeginTransaction(m) ==
  /\ ~tx[m].open
  /\ tx' = [tx EXCEPT ![m] =
       [open |-> TRUE, at |-> now, enabled |-> enabled,
        tier |-> [s \in Student |-> TierAfter(PriorSlots(m, s))]]]
  /\ UNCHANGED <<now, enabled, reconciled, snapshot, present, outcome, warning,
                 appeal, summary>>

\* The request fails, is refused, or finds the meal reconciled already.
Rollback(m) ==
  /\ tx[m].open
  /\ tx' = [tx EXCEPT ![m] = IdleTx]
  /\ UNCHANGED <<now, enabled, reconciled, snapshot, present, outcome, warning,
                 appeal, summary>>

NewWarning(m, s) ==
  [status |-> "ACTIVE", tier |-> tx[m].tier[s], issuedAt |-> tx[m].at]

Declared(m, s) ==
  IF snapshot[m][s] = "ABSENT" THEN "UNVOTED" ELSE snapshot[m][s]

\* The rows of computeRows, classified.
ReconciledOutcome(m, s, excusals) ==
  IF snapshot[m][s] = "ABSENT" /\ ~present[m][s] THEN NoOutcome
  ELSE [intent   |-> Declared(m, s),
        attended |-> present[m][s],
        class    |-> Classify(Declared(m, s), present[m][s], s \in excusals)]

\* Only students who voted YES and were not verified can be excused.
Excusable(m) == {s \in Student : Declared(m, s) = "YES" /\ ~present[m][s]}

MayReconcile(m, excusals) ==
  /\ m \notin reconciled
  /\ excusals \subseteq Excusable(m)

Reconcile(m, excusals) ==
  /\ tx[m].open
  /\ MayReconcile(m, excusals)
  /\ LET noShows == Excusable(m) \ excusals
     IN  /\ outcome' = [outcome EXCEPT ![m] =
              [s \in Student |-> ReconciledOutcome(m, s, excusals)]]
         /\ warning' = [warning EXCEPT ![m] =
              [s \in Student |-> IF s \in noShows /\ tx[m].enabled
                                 THEN NewWarning(m, s) ELSE warning[m][s]]]
         /\ summary' = [summary EXCEPT ![m] =
              [counts         |-> CountsOf(outcome'[m]),
               excused        |-> Cardinality(excusals),
               warningsIssued |-> IF tx[m].enabled
                                  THEN Cardinality(noShows) ELSE 0,
               corrections    |-> 0]]
  /\ reconciled' = reconciled \cup {m}
  /\ tx' = [tx EXCEPT ![m] = IdleTx]
  /\ UNCHANGED <<now, enabled, snapshot, present, appeal>>

\* A defect to be caught: a warning under appeal is not withdrawn.
WithdrawnUnlessAppealed(w) ==
  IF w.status \in {"ACTIVE", "UPHELD"} THEN [w EXCEPT !.status = "VOIDED"]
  ELSE w

Withdrawn(w) == IF Live(w) THEN [w EXCEPT !.status = "VOIDED"] ELSE w

\* A defect to be caught: the appeal is left open.
AppealLeftOpen(a) == a

\* The appeal of a withdrawn warning.
AppealOfWithdrawn(a) == IF a = "PENDING" THEN "WAIVED" ELSE a

\* An existing warning is revived with its tier; otherwise one is issued.
Reissued(m, s) ==
  IF warning[m][s].status = "NONE" THEN NewWarning(m, s)
  ELSE [warning[m][s] EXCEPT !.status = "ACTIVE", !.issuedAt = tx[m].at]

\* A defect to be caught: the totals are computed from the rows before the
\* correction.
CorrectedCountsBefore(m, o) == CountsOf(outcome[m])

\* The totals over the outcomes o of slot m.
CorrectedCounts(m, o) == CountsOf(o[m])

\* The request changes attendance, gives an excuse, or both.  What it makes of
\* an outcome:
NewAttended(old, attended) ==
  IF attended = "SAME" THEN old.attended ELSE attended = "YES"

NewClass(old, attended, hasExcuse) ==
  LET newAtt  == NewAttended(old, attended)
      excused == hasExcuse \/ (old.class = "EXCUSED" /\ attended = "SAME")
  IN  Classify(old.intent, newAtt, excused /\ ~newAtt)

\* A request that changes nothing is refused.
MayCorrect(m, s, attended, hasExcuse) ==
  LET old == outcome[m][s]
  IN  /\ m \in reconciled
      /\ old # NoOutcome
      /\ attended # "SAME" \/ hasExcuse
      /\ \/ NewClass(old, attended, hasExcuse) # old.class
         \/ NewAttended(old, attended) # old.attended

CorrectOutcome(m, s, attended, hasExcuse) ==
  LET old    == outcome[m][s]
      newAtt == NewAttended(old, attended)
      new    == NewClass(old, attended, hasExcuse)
  IN  /\ tx[m].open
      /\ MayCorrect(m, s, attended, hasExcuse)
      /\ summary[m].corrections < MaxCorrections
      /\ outcome' = [outcome EXCEPT ![m][s] =
           [intent |-> old.intent, attended |-> newAtt, class |-> new]]
      /\ IF old.class = NoShow /\ new # NoShow
         THEN /\ warning' = [warning EXCEPT ![m][s] = Withdrawn(@)]
              /\ appeal' = IF Live(warning[m][s])
                           THEN [appeal EXCEPT ![m][s] = AppealOfWithdrawn(@)]
                           ELSE appeal
         ELSE /\ warning' =
                   IF new = NoShow /\ old.class # NoShow /\ tx[m].enabled
                   THEN [warning EXCEPT ![m][s] = Reissued(m, s)]
                   ELSE warning
              /\ UNCHANGED appeal
      /\ summary' = [summary EXCEPT ![m] =
           [counts         |-> CorrectedCounts(m, outcome'),
            excused        |-> @.excused,
            warningsIssued |-> @.warningsIssued,
            corrections    |-> @.corrections + 1]]
      /\ tx' = [tx EXCEPT ![m] = IdleTx]
      /\ UNCHANGED <<now, enabled, reconciled, snapshot, present>>

-----------------------------------------------------------------------------
(* Appeals. *)

MayAppeal(m, s) ==
  /\ appeal[m][s] = "NONE"
  /\ warning[m][s].status = "ACTIVE"
  /\ now <= warning[m][s].issuedAt + AppealWindow

SubmitAppeal(m, s) ==
  /\ MayAppeal(m, s)
  /\ appeal' = [appeal EXCEPT ![m][s] = "PENDING"]
  /\ warning' = [warning EXCEPT ![m][s].status = "APPEALED"]
  /\ UNCHANGED <<now, enabled, reconciled, snapshot, present, outcome, summary,
                 tx>>

\* A defect to be caught: any appeal can be resolved, also one that was.
ResolvableAgain(a) == a # "NONE"

Resolvable(a) == a = "PENDING"

ResolveAppeal(m, s, decision) ==
  /\ Resolvable(appeal[m][s])
  /\ appeal' = [appeal EXCEPT ![m][s] = decision]
  /\ warning' = [warning EXCEPT ![m][s].status = decision]
  /\ UNCHANGED <<now, enabled, reconciled, snapshot, present, outcome, summary,
                 tx>>

-----------------------------------------------------------------------------
(* The environment. *)

\* updateSettings, by an administrator.
SwitchWarnings ==
  /\ enabled' = ~enabled
  /\ UNCHANGED <<now, reconciled, snapshot, present, outcome, warning, appeal,
                 summary, tx>>

Tick ==
  /\ now < MaxTime
  /\ now' = now + 1
  /\ UNCHANGED <<enabled, reconciled, snapshot, present, outcome, warning,
                 appeal, summary, tx>>

SlotStep(m) ==
  \/ BeginTransaction(m)
  \/ Rollback(m)
  \/ \E excusals \in SUBSET Student : Reconcile(m, excusals)

CaseStep(m, s) ==
  \/ ChangeAttendance(m, s)
  \/ \E attended \in {"SAME", "YES", "NO"}, hasExcuse \in BOOLEAN :
       CorrectOutcome(m, s, attended, hasExcuse)
  \/ SubmitAppeal(m, s)
  \/ \E decision \in Decision : ResolveAppeal(m, s, decision)

Next ==
  \/ \E m \in Slot : SlotStep(m)
  \/ \E m \in Slot, s \in Student : CaseStep(m, s)
  \/ SwitchWarnings
  \/ Tick

Spec == Init /\ [][Next]_vars

-----------------------------------------------------------------------------
(* Properties. *)

TypeOK ==
  /\ now \in Nat
  /\ enabled \in BOOLEAN
  /\ reconciled \subseteq Slot
  /\ snapshot \in Table(CutoffIntent \cup {"ABSENT"})
  /\ present \in Table(BOOLEAN)
  /\ outcome \in Table(Outcome \cup {NoOutcome})
  /\ warning \in Table(Warning \cup {NoWarning})
  /\ appeal \in Table(Decision \cup {"NONE", "PENDING"})
  /\ summary \in [Slot -> Summary]
  /\ tx \in [Slot -> {IdleTx} \cup OpenTx]

\* The other warnings of the student, withdrawn ones included, in the window.
TierBacking(m, s) ==
  {k \in Slot \ {m} : InWindow(k, m) /\ warning[k][s].status # "NONE"}

\* A warning that counts against a student always has a no-show behind it:
\* whatever corrections and appeals came in which order, no student keeps a
\* live warning for a meal that was eaten, excused or not voted for ("warnings
\* follow the corrected classification").
LiveWarningIsNoShow ==
  \A m \in Slot, s \in Student :
    Live(warning[m][s]) => outcome[m][s].class = NoShow

\* Warning and appeal agree: an appeal is pending exactly while its warning is
\* under appeal, so that a correction leaves no appeal open behind a withdrawn
\* warning; and a decision on the warning is the decision of its appeal.
AppealMatchesWarning ==
  \A m \in Slot, s \in Student :
    /\ appeal[m][s] = "PENDING" <=> warning[m][s].status = "APPEALED"
    /\ warning[m][s].status \in Decision => appeal[m][s] = warning[m][s].status
    /\ warning[m][s].status = "NONE" => appeal[m][s] = "NONE"

\* The totals stored at reconciliation stay those of the outcomes after every
\* correction ("keep the stored summary consistent with the outcomes").
SummaryMatchesOutcomes ==
  \A m \in reconciled : summary[m].counts = CountsOf(outcome[m])

\* No formal or escalated warning comes out of the blue: a warning of tier n
\* has n - 1 other warnings of the student, of meals inside the window, behind
\* it, also when meals are reconciled together and earlier warnings are
\* withdrawn, revived or appealed meanwhile.
TierIsEarned ==
  \A m \in Slot, s \in Student :
    /\ warning[m][s].tier >= 2 => TierBacking(m, s) # {}
    /\ warning[m][s].tier = 3 =>
         \E j, k \in TierBacking(m, s) : j # k

\* A live warning ends only for a reason the student can be told: the outcome
\* is corrected, or an appeal that was pending is accepted.
WarningEndsWithCause ==
  [][\A m \in Slot, s \in Student :
       Live(warning[m][s]) /\ ~Live(warning'[m][s]) =>
         \/ outcome'[m][s].class # NoShow
         \/ appeal[m][s] = "PENDING" /\ appeal'[m][s] = "WAIVED"]_vars

\* A decision on an appeal is final: neither another supervisor nor a
\* correction decides it again, and it is never reopened.
DecisionIsFinal ==
  [][\A m \in Slot, s \in Student :
       appeal[m][s] \in Decision => appeal'[m][s] = appeal[m][s]]_vars

\* "Keep the stored summary consistent with the outcomes": the number of
\* excused students on the summary is the number of excused outcomes.  The
\* code does not guarantee it: a correction leaves the number as it was.
SummaryCountsExcused ==
  \A m \in reconciled :
    summary[m].excused = summary[m].counts.class["EXCUSED"]
=============================================================================

------------------------ MODULE AccountabilityProofs ------------------------
(***************************************************************************)
(* Proofs about Accountability, for any number of meals and any finite set *)
(* of students: type correctness; the agreement of warnings with outcomes, *)
(* with appeals and with the stored totals; the tier of every warning; the *)
(* pages; and the two promises about how a warning and a decision end.     *)
(*                                                                         *)
(* What makes the invariant inductive: meals that are not reconciled have  *)
(* neither warnings nor appeals, and the tier a transaction has read is    *)
(* backed by the same warnings as the tier it will write.  Withdrawing,    *)
(* appealing and reviving change the status of a warning and never remove  *)
(* its row, so the backing of a tier only grows.                           *)
(***************************************************************************)
EXTENDS CasePages, FiniteSetTheorems, TLAPS

\* What a tier n for student s at meal m asks for.
Earned(n, m, s) ==
  /\ n >= 2 => TierBacking(m, s) # {}
  /\ n = 3 => \E j, k \in TierBacking(m, s) : j # k

WarningsAfterReconciliation ==
  \A m \in Slot \ reconciled, s \in Student :
    warning[m][s] = NoWarning /\ appeal[m][s] = "NONE"

TransactionTierIsEarned ==
  \A m \in Slot, s \in Student : tx[m].open => Earned(tx[m].tier[s], m, s)

AccountabilityInv ==
  /\ TypeOK
  /\ LiveWarningIsNoShow
  /\ AppealMatchesWarning
  /\ SummaryMatchesOutcomes
  /\ TierIsEarned
  /\ WarningsAfterReconciliation
  /\ TransactionTierIsEarned


-----------------------------------------------------------------------------
(* The operators. *)

\* The totals over rows are numbers.
LEMMA CountsType ==
  ASSUME NEW rows
  PROVE  CountsOf(rows) \in Counts
<1>1. \A c \in Classification :
        Cardinality({s \in Student : rows[s].class = c}) \in Nat
  BY ConstantAssumption, FS_Subset, FS_CardinalityType
<1>2. Cardinality({s \in Student : rows[s].attended}) \in Nat
  BY ConstantAssumption, FS_Subset, FS_CardinalityType
<1> QED
  BY <1>1, <1>2 DEF CountsOf, Counts

\* The tier is one of three, and counts no more slots than there are.
LEMMA TierAfterEarned ==
  ASSUME NEW slots
  PROVE  /\ TierAfter(slots) \in 1..3
         /\ TierAfter(slots) >= 2 => slots # {}
         /\ TierAfter(slots) = 3 => \E j, k \in slots : j # k
<1>1. ASSUME slots # {}, \A j, k \in slots : j = k
      PROVE  Cardinality(slots) = 1
  <2>1. PICK j \in slots : slots = {j}
    BY <1>1
  <2> QED
    BY <2>1, FS_Singleton
<1> QED
  BY <1>1 DEF TierAfter

\* Every declaration and attendance has a class.
LEMMA ClassifyType ==
  ASSUME NEW intent \in CutoffIntent, NEW attended \in BOOLEAN,
         NEW excused \in BOOLEAN
  PROVE  Classify(intent, attended, excused) \in Classification
BY DEF Classify, Classification, CutoffIntent, NoShow

\* So has every correction.
LEMMA CorrectionType ==
  ASSUME NEW old \in Outcome, NEW attended \in {"SAME", "YES", "NO"},
         NEW hasExcuse \in BOOLEAN
  PROVE  /\ NewAttended(old, attended) \in BOOLEAN
         /\ NewClass(old, attended, hasExcuse) \in Classification
<1>1. /\ old.intent \in CutoffIntent
      /\ NewAttended(old, attended) \in BOOLEAN
  BY DEF Outcome, NewAttended
<1> QED
  BY <1>1, ClassifyType DEF NewClass

\* A table stays one when a row is replaced.
LEMMA TableUpdate ==
  ASSUME NEW R, NEW t \in Table(R), NEW m \in Slot, NEW s \in Student,
         NEW row \in R
  PROVE  [t EXCEPT ![m][s] = row] \in Table(R)
BY DEF Table

-----------------------------------------------------------------------------
(* Type correctness. *)

\* What reconciliation records of a student is an outcome, or nothing.
LEMMA ReconciledOutcomeType ==
  ASSUME TypeOK, NEW m \in Slot, NEW s \in Student, NEW excusals
  PROVE  /\ Declared(m, s) \in CutoffIntent
         /\ ReconciledOutcome(m, s, excusals) \in Outcome \cup {NoOutcome}
<1>1. /\ snapshot[m][s] \in CutoffIntent \cup {"ABSENT"}
      /\ present[m][s] \in BOOLEAN
  BY DEF TypeOK, Table
<1>2. Declared(m, s) \in CutoffIntent
  BY <1>1 DEF Declared, CutoffIntent
<1>3. Classify(Declared(m, s), present[m][s], s \in excusals) \in Classification
  BY <1>1, <1>2 DEF Classify, Classification, CutoffIntent, NoShow
<1> QED
  BY <1>1, <1>2, <1>3 DEF ReconciledOutcome, Outcome

\* A warning written under an open transaction is well formed.
LEMMA NewWarningType ==
  ASSUME TypeOK, NEW m \in Slot, NEW s \in Student, tx[m].open
  PROVE  NewWarning(m, s) \in Warning
<1>1. tx[m] \in OpenTx
  BY DEF TypeOK, IdleTx
<1> QED
  BY <1>1 DEF NewWarning, OpenTx, Warning, TypeOK

\* Every step keeps the types.
LEMMA TypeStep == TypeOK /\ AppealMatchesWarning /\ [Next]_vars => TypeOK'
<1> SUFFICES ASSUME TypeOK, AppealMatchesWarning, [Next]_vars PROVE TypeOK'
  OBVIOUS
<1> USE DEF TypeOK
<1>1. ASSUME NEW m \in Slot, NEW s \in Student, ChangeAttendance(m, s)
      PROVE  TypeOK'
  BY <1>1 DEF ChangeAttendance, Table
<1>2. ASSUME NEW m \in Slot, BeginTransaction(m) PROVE TypeOK'
  <2>1. [s \in Student |-> TierAfter(PriorSlots(m, s))] \in [Student -> 1..3]
    BY TierAfterEarned
  <2> QED
    BY <1>2, <2>1 DEF BeginTransaction, OpenTx
<1>3. ASSUME NEW m \in Slot, Rollback(m) PROVE TypeOK'
  BY <1>3 DEF Rollback
<1>4. ASSUME NEW m \in Slot, NEW excusals \in SUBSET Student,
             Reconcile(m, excusals)
      PROVE  TypeOK'
  <2>1. outcome' \in Table(Outcome \cup {NoOutcome})
    BY <1>4, ReconciledOutcomeType DEF Reconcile, Table
  <2>2. warning' \in Table(Warning \cup {NoWarning})
    BY <1>4, NewWarningType DEF Reconcile, Table
  <2>3. summary' \in [Slot -> Summary]
    <3>1. CountsOf(outcome'[m]) \in Counts
      BY CountsType
    <3>2. Cardinality(excusals) \in Nat
      BY ConstantAssumption, FS_Subset, FS_CardinalityType
    <3>3. Cardinality(Excusable(m) \ excusals) \in Nat
      BY ConstantAssumption, FS_Subset, FS_CardinalityType DEF Excusable
    <3> QED
      BY <1>4, <3>1, <3>2, <3>3 DEF Reconcile, Summary
  <2> QED
    BY <1>4, <2>1, <2>2, <2>3 DEF Reconcile
<1>5. ASSUME NEW m \in Slot, NEW s \in Student,
             NEW attended \in {"SAME", "YES", "NO"}, NEW hasExcuse \in BOOLEAN,
             CorrectOutcome(m, s, attended, hasExcuse)
      PROVE  TypeOK'
  <2> DEFINE old     == outcome[m][s]
             newAtt  == NewAttended(old, attended)
             new     == NewClass(old, attended, hasExcuse)
  <2>1. old \in Outcome
    BY <1>5 DEF CorrectOutcome, MayCorrect, Table
  <2>2. newAtt \in BOOLEAN /\ new \in Classification
    BY <2>1, CorrectionType
  <2>3. outcome' \in Table(Outcome \cup {NoOutcome})
    <3>1. [intent |-> old.intent, attended |-> newAtt, class |-> new] \in Outcome
      BY <2>1, <2>2 DEF Outcome
    <3> QED
      BY <1>5, <3>1 DEF CorrectOutcome, Table
  <2>4. /\ Withdrawn(warning[m][s]) \in Warning \cup {NoWarning}
        /\ Reissued(m, s) \in Warning
    <3>1. warning[m][s] \in Warning \cup {NoWarning}
      BY DEF Table
    <3>2. NewWarning(m, s) \in Warning
      BY <1>5, NewWarningType DEF CorrectOutcome
    <3>3. Withdrawn(warning[m][s]) \in Warning \cup {NoWarning}
      <4>1. CASE warning[m][s] \in Warning
        <5>1. [warning[m][s] EXCEPT !.status = "VOIDED"] \in Warning
          BY <4>1 DEF Warning
        <5> QED
          BY <4>1, <5>1 DEF Withdrawn
      <4>2. CASE warning[m][s] = NoWarning
        BY <4>2 DEF Withdrawn, NoWarning, Live, LiveStatus
      <4> QED
        BY <3>1, <4>1, <4>2
    <3>4. CASE warning[m][s].status = "NONE"
      BY <3>2, <3>3, <3>4 DEF Reissued
    <3>5. CASE warning[m][s].status # "NONE"
      <4>1. warning[m][s] \in Warning
        BY <3>1, <3>5 DEF NoWarning
      <4>2. tx[m].at \in Nat
        <5>1. tx[m].open
          BY <1>5 DEF CorrectOutcome
        <5>2. tx[m] \in OpenTx
          BY <5>1 DEF IdleTx
        <5> QED
          BY <5>2 DEF OpenTx
      <4>3. [warning[m][s] EXCEPT !.status = "ACTIVE", !.issuedAt = tx[m].at]
              \in Warning
        BY <4>1, <4>2 DEF Warning
      <4> QED
        BY <3>3, <3>5, <4>3 DEF Reissued
    <3> QED
      BY <3>4, <3>5
  <2>5. AppealOfWithdrawn(appeal[m][s]) \in Decision \cup {"NONE", "PENDING"}
    BY DEF AppealOfWithdrawn, Decision, Table
  <2>6. /\ warning' \in Table(Warning \cup {NoWarning})
        /\ appeal' \in Table(Decision \cup {"NONE", "PENDING"})
    <3>1. /\ \/ warning' = warning
             \/ warning' = [warning EXCEPT ![m][s] = Withdrawn(warning[m][s])]
             \/ warning' = [warning EXCEPT ![m][s] = Reissued(m, s)]
          /\ \/ appeal' = appeal
             \/ appeal' =
                  [appeal EXCEPT ![m][s] = AppealOfWithdrawn(appeal[m][s])]
      BY <1>5 DEF CorrectOutcome
    <3>2. warning' \in Table(Warning \cup {NoWarning})
      BY <2>4, <3>1, TableUpdate
    <3>3. appeal' \in Table(Decision \cup {"NONE", "PENDING"})
      BY <2>5, <3>1, TableUpdate
    <3> QED
      BY <3>2, <3>3
  <2>7. summary' \in [Slot -> Summary]
    <3>1. CorrectedCounts(m, outcome') \in Counts
      BY CountsType DEF CorrectedCounts
    <3>2. summary[m] \in Summary
      OBVIOUS
    <3> DEFINE row == [counts         |-> CorrectedCounts(m, outcome'),
                       excused        |-> summary[m].excused,
                       warningsIssued |-> summary[m].warningsIssued,
                       corrections    |-> summary[m].corrections + 1]
    <3>3. row \in Summary
      BY <3>1, <3>2 DEF Summary
    <3>4. summary' = [summary EXCEPT ![m] = row]
      BY <1>5 DEF CorrectOutcome
    <3> HIDE DEF row
    <3> QED
      BY <3>3, <3>4
  <2> QED
    BY <1>5, <2>3, <2>6, <2>7 DEF CorrectOutcome
<1>6. ASSUME NEW m \in Slot, NEW s \in Student, SubmitAppeal(m, s)
      PROVE  TypeOK'
  <2>1. warning[m][s] \in Warning
    BY <1>6 DEF SubmitAppeal, MayAppeal, NoWarning, Table
  <2>2. [warning[m][s] EXCEPT !.status = "APPEALED"] \in Warning
    BY <2>1 DEF Warning
  <2> QED
    BY <1>6, <2>2 DEF SubmitAppeal, Table
<1>7. ASSUME NEW m \in Slot, NEW s \in Student, NEW decision \in Decision,
             ResolveAppeal(m, s, decision)
      PROVE  TypeOK'
  <2>1. warning[m][s] \in Warning
    BY <1>7 DEF ResolveAppeal, Resolvable, AppealMatchesWarning, NoWarning,
            Table
  <2>2. [warning[m][s] EXCEPT !.status = decision] \in Warning
    BY <2>1 DEF Warning, Decision
  <2> QED
    BY <1>7, <2>2 DEF ResolveAppeal, Table
<1>8. ASSUME SwitchWarnings PROVE TypeOK'
  BY <1>8 DEF SwitchWarnings
<1>9. ASSUME Tick PROVE TypeOK'
  BY <1>9 DEF Tick
<1>10. CASE UNCHANGED vars
  BY <1>10 DEF vars
<1> QED
  BY <1>1, <1>2, <1>3, <1>4, <1>5, <1>6, <1>7, <1>8, <1>9, <1>10
     DEF Next, SlotStep, CaseStep

-----------------------------------------------------------------------------
(* What a step does to the outcome, the warning and the appeal of one      *)
(* student at one meal.                                                    *)

Kept(m, s) ==
  /\ warning'[m][s] = warning[m][s] /\ appeal'[m][s] = appeal[m][s]
  /\ m \notin reconciled \/
       (outcome[m][s].class = NoShow => outcome'[m][s].class = NoShow)

Issued(m, s) ==
  /\ m \notin reconciled /\ m \in reconciled' /\ tx[m].open
  /\ outcome'[m][s].class = NoShow
  /\ warning'[m][s] = NewWarning(m, s) /\ appeal'[m][s] = appeal[m][s]

Cleared(m, s) ==
  /\ outcome[m][s].class = NoShow /\ outcome'[m][s].class # NoShow
  /\ warning'[m][s] = Withdrawn(warning[m][s])
  /\ appeal'[m][s] = IF Live(warning[m][s]) THEN AppealOfWithdrawn(appeal[m][s])
                                            ELSE appeal[m][s]

Charged(m, s) ==
  /\ m \in reconciled /\ tx[m].open
  /\ outcome[m][s].class # NoShow /\ outcome'[m][s].class = NoShow
  /\ warning'[m][s] = Reissued(m, s) /\ appeal'[m][s] = appeal[m][s]

Appealed(m, s) ==
  /\ outcome'[m][s] = outcome[m][s]
  /\ warning[m][s].status = "ACTIVE" /\ appeal[m][s] = "NONE"
  /\ warning'[m][s] = [warning[m][s] EXCEPT !.status = "APPEALED"]
  /\ appeal'[m][s] = "PENDING"

Decided(m, s) ==
  /\ outcome'[m][s] = outcome[m][s]
  /\ appeal[m][s] = "PENDING" /\ appeal'[m][s] \in Decision
  /\ warning'[m][s] = [warning[m][s] EXCEPT !.status = appeal'[m][s]]

RowStep(m, s) ==
  \/ Kept(m, s) \/ Issued(m, s) \/ Cleared(m, s) \/ Charged(m, s)
  \/ Appealed(m, s) \/ Decided(m, s)

\* Reconciliation issues a warning with a no-show, or keeps the row's warning.
LEMMA ReconcileRows ==
  ASSUME TypeOK, NEW m \in Slot, NEW excusals \in SUBSET Student,
         Reconcile(m, excusals), NEW k \in Slot, NEW t \in Student
  PROVE  RowStep(k, t)
<1>1. CASE k # m
  <2>1. /\ outcome'[k] = outcome[k] /\ warning'[k] = warning[k]
        /\ appeal' = appeal
    BY <1>1 DEF Reconcile, TypeOK, Table
  <2> QED
    BY <2>1 DEF RowStep, Kept
<1>2. CASE k = m
  <2>1. /\ m \notin reconciled /\ tx[m].open /\ appeal' = appeal
        /\ m \in reconciled'
        /\ outcome'[m][t] = ReconciledOutcome(m, t, excusals)
    BY <1>2 DEF Reconcile, MayReconcile, TypeOK, Table
  <2>2. \/ warning'[m][t] = warning[m][t]
        \/ /\ t \in Excusable(m) \ excusals
           /\ warning'[m][t] = NewWarning(m, t)
    BY <1>2 DEF Reconcile, TypeOK, Table
  <2>3. ASSUME t \in Excusable(m) \ excusals
        PROVE  ReconciledOutcome(m, t, excusals).class = NoShow
    BY <2>3 DEF Excusable, ReconciledOutcome, Declared, Classify
  <2> QED
    BY <1>2, <2>1, <2>2, <2>3 DEF RowStep, Kept, Issued
<1> QED
  BY <1>1, <1>2

\* A correction clears or charges one row, or keeps its warning.
LEMMA CorrectOutcomeRows ==
  ASSUME TypeOK, NEW m \in Slot, NEW s \in Student,
         NEW attended \in {"SAME", "YES", "NO"}, NEW hasExcuse \in BOOLEAN,
         CorrectOutcome(m, s, attended, hasExcuse),
         NEW k \in Slot, NEW t \in Student
  PROVE  RowStep(k, t)
<1> USE DEF TypeOK, Table
<1>1. CASE k # m \/ t # s
  <2>1. /\ outcome'[k][t] = outcome[k][t]
        /\ warning'[k][t] = warning[k][t]
        /\ appeal'[k][t] = appeal[k][t]
    BY <1>1 DEF CorrectOutcome
  <2> QED
    BY <2>1 DEF RowStep, Kept
<1>2. CASE k = m /\ t = s
  <2>1. PICK new :
          /\ outcome'[m][s].class = new
          /\ IF outcome[m][s].class = NoShow /\ new # NoShow
             THEN /\ warning' =
                       [warning EXCEPT ![m][s] = Withdrawn(warning[m][s])]
                  /\ appeal' =
                       IF Live(warning[m][s])
                       THEN [appeal EXCEPT ![m][s] =
                               AppealOfWithdrawn(appeal[m][s])]
                       ELSE appeal
             ELSE /\ warning' =
                       IF new = NoShow /\ outcome[m][s].class # NoShow
                            /\ tx[m].enabled
                       THEN [warning EXCEPT ![m][s] = Reissued(m, s)]
                       ELSE warning
                  /\ appeal' = appeal
    BY DEF CorrectOutcome
  <2>2. CASE outcome[m][s].class = NoShow /\ new # NoShow
    BY <1>2, <2>1, <2>2 DEF RowStep, Cleared
  <2>3. CASE outcome[m][s].class # NoShow /\ new = NoShow /\ tx[m].enabled
    <3>1. m \in reconciled /\ tx[m].open
      BY DEF CorrectOutcome, MayCorrect
    <3> QED
      BY <1>2, <2>1, <2>3, <3>1 DEF RowStep, Charged
  <2>4. CASE /\ outcome[m][s].class = NoShow => new = NoShow
             /\ ~(outcome[m][s].class # NoShow /\ new = NoShow /\ tx[m].enabled)
    BY <1>2, <2>1, <2>4 DEF RowStep, Kept
  <2> QED
    BY <2>2, <2>3, <2>4
<1> QED
  BY <1>1, <1>2

\* Every step treats every row in one of the six ways.
LEMMA RowSteps ==
  ASSUME TypeOK, [Next]_vars, NEW k \in Slot, NEW t \in Student
  PROVE  RowStep(k, t)
<1> USE DEF TypeOK, Table
<1>1. CASE UNCHANGED <<outcome, warning, appeal>>
  BY <1>1 DEF RowStep, Kept
<1>2. ASSUME NEW m \in Slot, NEW s \in Student, SubmitAppeal(m, s)
      PROVE  RowStep(k, t)
  <2>1. CASE k = m /\ t = s
    BY <1>2, <2>1 DEF SubmitAppeal, MayAppeal, RowStep, Appealed
  <2>2. CASE k # m \/ t # s
    BY <1>2, <2>2 DEF SubmitAppeal, RowStep, Kept
  <2> QED
    BY <2>1, <2>2
<1>3. ASSUME NEW m \in Slot, NEW s \in Student, NEW decision \in Decision,
             ResolveAppeal(m, s, decision)
      PROVE  RowStep(k, t)
  <2>1. CASE k = m /\ t = s
    BY <1>3, <2>1 DEF ResolveAppeal, Resolvable, RowStep, Decided
  <2>2. CASE k # m \/ t # s
    BY <1>3, <2>2 DEF ResolveAppeal, RowStep, Kept
  <2> QED
    BY <2>1, <2>2
<1>4. ASSUME \/ \E m \in Slot, s \in Student : ChangeAttendance(m, s)
             \/ \E m \in Slot : BeginTransaction(m) \/ Rollback(m)
             \/ SwitchWarnings \/ Tick \/ UNCHANGED vars
      PROVE  UNCHANGED <<outcome, warning, appeal>>
  BY <1>4 DEF ChangeAttendance, BeginTransaction, Rollback, SwitchWarnings,
              Tick, vars
<1> QED
  BY <1>1, <1>2, <1>3, <1>4, ReconcileRows, CorrectOutcomeRows
     DEF Next, SlotStep, CaseStep

-----------------------------------------------------------------------------
(* Warnings, outcomes and appeals. *)

\* Every step keeps live warnings on no-shows.
LEMMA LiveWarningStep ==
  TypeOK /\ LiveWarningIsNoShow /\ AppealMatchesWarning
    /\ WarningsAfterReconciliation /\ [Next]_vars
    => LiveWarningIsNoShow'
<1> SUFFICES ASSUME TypeOK, LiveWarningIsNoShow, AppealMatchesWarning,
                    WarningsAfterReconciliation, [Next]_vars,
                    NEW m \in Slot, NEW s \in Student,
                    Live(warning'[m][s])
             PROVE  outcome'[m][s].class = NoShow
  BY DEF LiveWarningIsNoShow, Live
<1>1. RowStep(m, s)
  BY RowSteps
<1>2. ASSUME Kept(m, s) PROVE outcome'[m][s].class = NoShow
  BY <1>2 DEF Kept, Live, LiveStatus, LiveWarningIsNoShow, NoWarning,
              WarningsAfterReconciliation
<1>3. ASSUME Cleared(m, s) PROVE outcome'[m][s].class = NoShow
  <2>1. warning[m][s] \in Warning \cup {NoWarning}
    BY DEF TypeOK, Table
  <2>2. ~Live(Withdrawn(warning[m][s]))
    BY <2>1 DEF Withdrawn, Live, LiveStatus, Warning, NoWarning
  <2> QED
    BY <1>3, <2>2 DEF Cleared
<1>4. ASSUME Appealed(m, s) \/ Decided(m, s)
      PROVE  outcome'[m][s].class = NoShow
  <2>1. outcome'[m][s] = outcome[m][s]
    BY <1>4 DEF Appealed, Decided
  <2>2. Live(warning[m][s])
    BY <1>4 DEF Appealed, Decided, AppealMatchesWarning, Live, LiveStatus
  <2> QED
    BY <2>1, <2>2 DEF LiveWarningIsNoShow
<1> QED
  BY <1>1, <1>2, <1>3, <1>4 DEF RowStep, Issued, Charged

\* Every step keeps warnings and appeals in agreement.
LEMMA AppealMatchesStep ==
  TypeOK /\ LiveWarningIsNoShow /\ AppealMatchesWarning
    /\ WarningsAfterReconciliation /\ [Next]_vars
    => AppealMatchesWarning'
<1> SUFFICES ASSUME TypeOK, LiveWarningIsNoShow, AppealMatchesWarning,
                    WarningsAfterReconciliation, [Next]_vars,
                    NEW m \in Slot, NEW s \in Student
             PROVE
               /\ appeal'[m][s] = "PENDING" <=> warning'[m][s].status = "APPEALED"
               /\ warning'[m][s].status \in Decision =>
                    appeal'[m][s] = warning'[m][s].status
               /\ warning'[m][s].status = "NONE" => appeal'[m][s] = "NONE"
  BY DEF AppealMatchesWarning
<1> DEFINE Goal ==
      /\ appeal'[m][s] = "PENDING" <=> warning'[m][s].status = "APPEALED"
      /\ warning'[m][s].status \in Decision =>
           appeal'[m][s] = warning'[m][s].status
      /\ warning'[m][s].status = "NONE" => appeal'[m][s] = "NONE"
<1>1. RowStep(m, s)
  BY RowSteps
<1>2. warning[m][s] \in Warning \cup {NoWarning}
  BY DEF TypeOK, Table
<1>3. ASSUME Kept(m, s) PROVE Goal
  BY <1>3 DEF Kept, AppealMatchesWarning
<1>4. ASSUME Issued(m, s) PROVE Goal
  <2>1. appeal'[m][s] = "NONE" /\ warning'[m][s].status = "ACTIVE"
    BY <1>4 DEF Issued, WarningsAfterReconciliation, NewWarning
  <2> QED
    BY <2>1 DEF Decision
<1>5. ASSUME Cleared(m, s) PROVE Goal
  <2>1. CASE Live(warning[m][s])
    <3>1. /\ warning'[m][s].status = "VOIDED"
          /\ appeal'[m][s] = AppealOfWithdrawn(appeal[m][s])
      <4>1. warning[m][s] \in Warning
        BY <1>2, <2>1 DEF Live, LiveStatus, NoWarning
      <4> QED
        BY <1>5, <2>1, <4>1 DEF Cleared, Withdrawn, Warning
    <3> QED
      BY <3>1 DEF AppealOfWithdrawn, Decision
  <2>2. CASE ~Live(warning[m][s])
    BY <1>5, <2>2 DEF Cleared, Withdrawn, AppealMatchesWarning
  <2> QED
    BY <2>1, <2>2
<1>6. ASSUME Charged(m, s) PROVE Goal
  <2>1. appeal[m][s] # "PENDING"
    BY <1>6 DEF Charged, AppealMatchesWarning, LiveWarningIsNoShow, Live,
                LiveStatus
  <2>2. warning'[m][s].status = "ACTIVE"
    BY <1>2, <1>6 DEF Charged, Reissued, NewWarning, Warning, NoWarning
  <2> QED
    BY <1>6, <2>1, <2>2 DEF Charged, Decision
<1>7. ASSUME Appealed(m, s) \/ Decided(m, s) PROVE Goal
  <2>1. warning[m][s] \in Warning
    BY <1>2, <1>7 DEF Appealed, Decided, AppealMatchesWarning, NoWarning
  <2>2. CASE Appealed(m, s)
    BY <2>1, <2>2 DEF Appealed, Warning, Decision
  <2>3. CASE Decided(m, s)
    BY <2>1, <2>3 DEF Decided, Warning, Decision
  <2> QED
    BY <1>7, <2>2, <2>3
<1> QED
  BY <1>1, <1>3, <1>4, <1>5, <1>6, <1>7 DEF RowStep

\* No step warns about a meal that is not reconciled.
LEMMA AfterReconciliationStep ==
  TypeOK /\ WarningsAfterReconciliation /\ [Next]_vars
    => WarningsAfterReconciliation'
<1> SUFFICES ASSUME TypeOK, WarningsAfterReconciliation, [Next]_vars
             PROVE  WarningsAfterReconciliation'
  OBVIOUS
<1>1. reconciled \subseteq reconciled'
  <2>1. ASSUME NEW m \in Slot, NEW excusals \in SUBSET Student,
               Reconcile(m, excusals)
        PROVE  reconciled \subseteq reconciled'
    BY <2>1 DEF Reconcile
  <2>2. ASSUME NEW m \in Slot, NEW s \in Student, CaseStep(m, s)
        PROVE  reconciled' = reconciled
    BY <2>2 DEF CaseStep, ChangeAttendance, CorrectOutcome, SubmitAppeal,
                ResolveAppeal
  <2> QED
    BY <2>1, <2>2 DEF Next, SlotStep, BeginTransaction, Rollback,
                      SwitchWarnings, Tick, vars
<1>2. ASSUME NEW m \in Slot \ reconciled', NEW s \in Student
      PROVE  warning'[m][s] = NoWarning /\ appeal'[m][s] = "NONE"
  <2>1. warning[m][s] = NoWarning /\ appeal[m][s] = "NONE"
    BY <1>1, <1>2 DEF WarningsAfterReconciliation
  <2>2. ~Live(warning[m][s])
    BY <2>1 DEF NoWarning, Live, LiveStatus
  <2>3. Kept(m, s) \/ Cleared(m, s)
    <3>1. RowStep(m, s)
      BY RowSteps
    <3>2. m \notin reconciled
      BY <1>1, <1>2
    <3>3. warning[m][s].status # "ACTIVE" /\ appeal[m][s] # "PENDING"
      BY <2>1 DEF NoWarning
    <3> QED
      BY <1>2, <3>1, <3>2, <3>3 DEF RowStep, Issued, Charged, Appealed, Decided
  <2> QED
    BY <2>1, <2>2, <2>3 DEF Kept, Cleared, Withdrawn
<1> QED
  BY <1>2 DEF WarningsAfterReconciliation

-----------------------------------------------------------------------------
(* The stored totals. *)

\* Every step keeps the stored totals those of the outcomes.
LEMMA SummaryStep ==
  TypeOK /\ SummaryMatchesOutcomes /\ [Next]_vars => SummaryMatchesOutcomes'
<1> SUFFICES ASSUME TypeOK, SummaryMatchesOutcomes, [Next]_vars
             PROVE  SummaryMatchesOutcomes'
  OBVIOUS
<1> USE DEF SummaryMatchesOutcomes
<1>1. ASSUME NEW m \in Slot, NEW excusals \in SUBSET Student,
             Reconcile(m, excusals)
      PROVE  SummaryMatchesOutcomes'
  <2>1. /\ reconciled' = reconciled \cup {m}
        /\ summary'[m].counts = CountsOf(outcome'[m])
        /\ \A k \in Slot \ {m} : /\ outcome'[k] = outcome[k]
                                 /\ summary'[k] = summary[k]
    BY <1>1 DEF Reconcile, TypeOK, Table
  <2> QED
    BY <2>1 DEF TypeOK
<1>2. ASSUME NEW m \in Slot, NEW s \in Student,
             NEW attended \in {"SAME", "YES", "NO"}, NEW hasExcuse \in BOOLEAN,
             CorrectOutcome(m, s, attended, hasExcuse)
      PROVE  SummaryMatchesOutcomes'
  <2>1. /\ reconciled' = reconciled
        /\ summary'[m].counts = CountsOf(outcome'[m])
        /\ \A k \in Slot \ {m} : /\ outcome'[k] = outcome[k]
                                 /\ summary'[k] = summary[k]
    BY <1>2 DEF CorrectOutcome, CorrectedCounts, TypeOK, Table
  <2> QED
    BY <2>1 DEF TypeOK
<1>3. ASSUME UNCHANGED <<outcome, summary, reconciled>>
      PROVE  SummaryMatchesOutcomes'
  BY <1>3
<1>4. ASSUME NEW m \in Slot, NEW s \in Student,
             ChangeAttendance(m, s) \/ SubmitAppeal(m, s)
               \/ \E decision \in Decision : ResolveAppeal(m, s, decision)
      PROVE  UNCHANGED <<outcome, summary, reconciled>>
  BY <1>4 DEF ChangeAttendance, SubmitAppeal, ResolveAppeal
<1>5. ASSUME \/ \E m \in Slot : BeginTransaction(m) \/ Rollback(m)
             \/ SwitchWarnings \/ Tick \/ UNCHANGED vars
      PROVE  UNCHANGED <<outcome, summary, reconciled>>
  BY <1>5 DEF BeginTransaction, Rollback, SwitchWarnings, Tick, vars
<1> QED
  BY <1>1, <1>2, <1>3, <1>4, <1>5 DEF Next, SlotStep, CaseStep

-----------------------------------------------------------------------------
(* Tiers. *)

\* A row of warnings is never deleted, and its tier is the one it had or one
\* that the transaction had read.
LEMMA WarningRowStep ==
  ASSUME TypeOK, AppealMatchesWarning, [Next]_vars,
         NEW m \in Slot, NEW s \in Student
  PROVE  /\ warning[m][s].status # "NONE" => warning'[m][s].status # "NONE"
         /\ \/ warning'[m][s].tier = warning[m][s].tier
            \/ tx[m].open /\ warning'[m][s].tier = tx[m].tier[s]
<1>1. RowStep(m, s)
  BY RowSteps
<1>2. warning[m][s] \in Warning \cup {NoWarning}
  BY DEF TypeOK, Table
<1>3. CASE Kept(m, s)
  BY <1>3 DEF Kept
<1>4. CASE Issued(m, s)
  BY <1>4 DEF Issued, NewWarning
<1>5. CASE Cleared(m, s)
  BY <1>2, <1>5 DEF Cleared, Withdrawn, Warning, NoWarning
<1>6. CASE Charged(m, s)
  BY <1>2, <1>6 DEF Charged, Reissued, NewWarning, Warning, NoWarning
<1>7. CASE Appealed(m, s)
  BY <1>2, <1>7 DEF Appealed, Warning, NoWarning
<1>8. CASE Decided(m, s)
  BY <1>2, <1>8 DEF Decided, Warning, NoWarning, Decision
<1> QED
  BY <1>1, <1>3, <1>4, <1>5, <1>6, <1>7, <1>8 DEF RowStep

\* What backs a tier goes on backing it.
LEMMA EarnedStays ==
  ASSUME TypeOK, AppealMatchesWarning, [Next]_vars,
         NEW m \in Slot, NEW s \in Student, NEW n, Earned(n, m, s)
  PROVE  Earned(n, m, s)'
<1>1. TierBacking(m, s) \subseteq TierBacking(m, s)'
  BY WarningRowStep DEF TierBacking, InWindow
<1> QED
  BY <1>1 DEF Earned

\* Every step keeps the tiers earned.
LEMMA TierStep ==
  TypeOK /\ AppealMatchesWarning /\ TierIsEarned /\ TransactionTierIsEarned
    /\ [Next]_vars
    => TierIsEarned'
<1> SUFFICES ASSUME TypeOK, AppealMatchesWarning, TierIsEarned,
                    TransactionTierIsEarned, [Next]_vars,
                    NEW m \in Slot, NEW s \in Student
             PROVE  Earned(warning[m][s].tier, m, s)'
  BY DEF TierIsEarned, Earned
<1>1. PICK n : n = warning'[m][s].tier
  OBVIOUS
<1>2. Earned(n, m, s)
  BY <1>1, WarningRowStep DEF TierIsEarned, TransactionTierIsEarned, Earned
<1>3. Earned(n, m, s)'
  BY <1>2, EarnedStays
<1> QED
  BY <1>1, <1>3 DEF Earned

\* Every step keeps the tiers read by open transactions earned.
LEMMA TransactionTierStep ==
  TypeOK /\ AppealMatchesWarning /\ TransactionTierIsEarned /\ [Next]_vars
    => TransactionTierIsEarned'
<1> SUFFICES ASSUME TypeOK, AppealMatchesWarning, TransactionTierIsEarned,
                    [Next]_vars, NEW m \in Slot, NEW s \in Student,
                    tx'[m].open
             PROVE  Earned(tx[m].tier[s], m, s)'
  BY DEF TransactionTierIsEarned, Earned
<1>1. CASE tx'[m] = tx[m]
  <2>1. PICK n : n = tx[m].tier[s]
    OBVIOUS
  <2>2. Earned(n, m, s)'
    BY <1>1, <2>1, EarnedStays DEF TransactionTierIsEarned
  <2> QED
    BY <1>1, <2>1, <2>2 DEF Earned
<1>2. CASE BeginTransaction(m)
  <2>1. /\ tx'[m].tier[s] = TierAfter(PriorSlots(m, s))
        /\ warning' = warning
    BY <1>2 DEF BeginTransaction, TypeOK
  <2>2. PriorSlots(m, s) \subseteq TierBacking(m, s)'
    BY <2>1 DEF PriorSlots, TierBacking, InWindow, Live, LiveStatus
  <2>3. PICK slots : slots = PriorSlots(m, s)
    OBVIOUS
  <2> QED
    BY <2>1, <2>2, <2>3, TierAfterEarned DEF Earned
<1>3. tx'[m] = tx[m] \/ BeginTransaction(m)
  <2>1. ASSUME NEW k \in Slot, SlotStep(k)
        PROVE  tx'[m] = tx[m] \/ BeginTransaction(m)
    <3>1. BeginTransaction(k) \/ tx' = [tx EXCEPT ![k] = IdleTx]
      BY <2>1 DEF SlotStep, Rollback, Reconcile
    <3>2. CASE BeginTransaction(k)
      BY <3>2 DEF BeginTransaction, TypeOK
    <3>3. CASE tx' = [tx EXCEPT ![k] = IdleTx]
      BY <3>3 DEF TypeOK, IdleTx
    <3> QED
      BY <3>1, <3>2, <3>3
  <2>2. ASSUME NEW k \in Slot, NEW t \in Student, CaseStep(k, t)
        PROVE  tx'[m] = tx[m]
    BY <2>2 DEF CaseStep, ChangeAttendance, CorrectOutcome, SubmitAppeal,
                ResolveAppeal, TypeOK, IdleTx
  <2> QED
    BY <2>1, <2>2 DEF Next, SwitchWarnings, Tick, vars
<1> QED
  BY <1>1, <1>2, <1>3

-----------------------------------------------------------------------------
(* The theorems. *)

\* The inductive invariant of warnings, appeals and totals.
THEOREM AccountabilityInvariant == Spec => []AccountabilityInv
<1>1. Init => AccountabilityInv
  <2> SUFFICES ASSUME Init PROVE AccountabilityInv
    OBVIOUS
  <2> USE DEF Init
  <2>1. TypeOK
    <3>1. NoSummary \in Summary
      BY CountsType DEF NoSummary, Summary
    <3> QED
      BY <3>1 DEF TypeOK, Table
  <2>2. LiveWarningIsNoShow
    BY DEF LiveWarningIsNoShow, Live, LiveStatus, NoWarning
  <2>3. AppealMatchesWarning
    BY DEF AppealMatchesWarning, NoWarning, Decision
  <2>4. SummaryMatchesOutcomes /\ WarningsAfterReconciliation
    BY DEF SummaryMatchesOutcomes, WarningsAfterReconciliation
  <2>5. TierIsEarned /\ TransactionTierIsEarned
    BY DEF TierIsEarned, TransactionTierIsEarned, NoWarning, IdleTx
  <2> QED
    BY <2>1, <2>2, <2>3, <2>4, <2>5 DEF AccountabilityInv
<1>2. AccountabilityInv /\ [Next]_vars => AccountabilityInv'
  BY TypeStep, LiveWarningStep, AppealMatchesStep, AfterReconciliationStep,
     SummaryStep, TierStep, TransactionTierStep DEF AccountabilityInv
<1> QED
  BY <1>1, <1>2, PTL DEF Spec

\* Every table and every open transaction keeps its type.
THEOREM TypeCorrect == Spec => []TypeOK
BY AccountabilityInvariant, PTL DEF AccountabilityInv

\* No student keeps a live warning for a meal that is not a no-show.
THEOREM WarningsCorrect == Spec => []LiveWarningIsNoShow
BY AccountabilityInvariant, PTL DEF AccountabilityInv

\* Warning and appeal never disagree.
THEOREM AppealsCorrect == Spec => []AppealMatchesWarning
BY AccountabilityInvariant, PTL DEF AccountabilityInv

\* The stored totals are those of the outcomes after every correction.
THEOREM SummaryCorrect == Spec => []SummaryMatchesOutcomes
BY AccountabilityInvariant, PTL DEF AccountabilityInv

\* A tier has the warnings behind it that it counts.
THEOREM TiersCorrect == Spec => []TierIsEarned
BY AccountabilityInvariant, PTL DEF AccountabilityInv

\* A live warning ends only with a corrected outcome or an accepted appeal.
THEOREM WarningEndsCorrect == Spec => WarningEndsWithCause
<1>1. AccountabilityInv /\ [Next]_vars =>
        [\A m \in Slot, s \in Student :
           Live(warning[m][s]) /\ ~Live(warning'[m][s]) =>
             \/ outcome'[m][s].class # NoShow
             \/ appeal[m][s] = "PENDING" /\ appeal'[m][s] = "WAIVED"]_vars
  <2> SUFFICES ASSUME AccountabilityInv, [Next]_vars,
                      NEW m \in Slot, NEW s \in Student,
                      Live(warning[m][s]), ~Live(warning'[m][s])
               PROVE  \/ outcome'[m][s].class # NoShow
                      \/ appeal[m][s] = "PENDING" /\ appeal'[m][s] = "WAIVED"
    OBVIOUS
  <2> USE DEF AccountabilityInv
  <2>1. RowStep(m, s)
    BY RowSteps
  <2>2. warning[m][s] \in Warning
    BY DEF TypeOK, Table, Live, LiveStatus, NoWarning
  <2>3. ASSUME Issued(m, s) PROVE FALSE
    BY <2>3 DEF Issued, WarningsAfterReconciliation, NoWarning, Live, LiveStatus
  <2>4. ASSUME Charged(m, s) PROVE FALSE
    BY <2>4 DEF Charged, LiveWarningIsNoShow
  <2>5. ASSUME Appealed(m, s) PROVE FALSE
    BY <2>2, <2>5 DEF Appealed, Warning, Live, LiveStatus
  <2>6. ASSUME Decided(m, s)
        PROVE  appeal[m][s] = "PENDING" /\ appeal'[m][s] = "WAIVED"
    BY <2>2, <2>6 DEF Decided, Decision, Warning, Live, LiveStatus
  <2> QED
    BY <2>1, <2>3, <2>4, <2>5, <2>6 DEF RowStep, Kept, Cleared
<1> QED
  BY <1>1, AccountabilityInvariant, PTL DEF Spec, WarningEndsWithCause

\* No decided appeal is decided again or reopened.
THEOREM DecisionsCorrect == Spec => DecisionIsFinal
<1>1. AccountabilityInv /\ [Next]_vars =>
        [\A m \in Slot, s \in Student :
           appeal[m][s] \in Decision => appeal'[m][s] = appeal[m][s]]_vars
  <2> SUFFICES ASSUME AccountabilityInv, [Next]_vars,
                      NEW m \in Slot, NEW s \in Student,
                      appeal[m][s] \in Decision
               PROVE  appeal'[m][s] = appeal[m][s]
    OBVIOUS
  <2>1. RowStep(m, s)
    BY RowSteps DEF AccountabilityInv
  <2>2. appeal[m][s] \notin {"NONE", "PENDING"}
    BY DEF Decision
  <2> QED
    BY <2>1, <2>2 DEF RowStep, Kept, Issued, Cleared, Charged, Appealed, Decided,
                      AppealOfWithdrawn
<1> QED
  BY <1>1, AccountabilityInvariant, PTL DEF Spec, DecisionIsFinal

-----------------------------------------------------------------------------
(* The pages. *)

\* A recorded outcome is that of its declaration and its attendance.
OutcomesClassified ==
  \A m \in Slot, s \in Student :
    LET o == outcome[m][s]
    IN  o # NoOutcome =>
          \E excused \in BOOLEAN : o.class = Classify(o.intent, o.attended, excused)

\* The number of warnings issued is that of the no-shows not excused, or zero.
WarningsIssuedMatch ==
  \A m \in reconciled :
    summary[m].warningsIssued \in
      {0, Cardinality(Excusable(m)) - summary[m].excused}

\* What reconciliation records is classified.
LEMMA ReconciledIsClassified ==
  ASSUME NEW m \in Slot, NEW s \in Student, NEW excusals,
         ReconciledOutcome(m, s, excusals) # NoOutcome
  PROVE  \E excused \in BOOLEAN :
           ReconciledOutcome(m, s, excusals).class =
             Classify(ReconciledOutcome(m, s, excusals).intent,
                      ReconciledOutcome(m, s, excusals).attended, excused)
<1>1. (s \in excusals) \in BOOLEAN
  OBVIOUS
<1> QED
  BY <1>1 DEF ReconciledOutcome

\* Every step keeps the outcomes classified.
LEMMA ClassifiedStep ==
  TypeOK /\ OutcomesClassified /\ [Next]_vars => OutcomesClassified'
<1> SUFFICES ASSUME TypeOK, OutcomesClassified, [Next]_vars
             PROVE  OutcomesClassified'
  OBVIOUS
<1>1. ASSUME NEW m \in Slot, NEW excusals \in SUBSET Student,
             Reconcile(m, excusals)
      PROVE  OutcomesClassified'
  <2>1. \A k \in Slot \ {m} : outcome'[k] = outcome[k]
    BY <1>1 DEF Reconcile, TypeOK, Table
  <2>2. \A s \in Student : outcome'[m][s] = ReconciledOutcome(m, s, excusals)
    BY <1>1 DEF Reconcile, TypeOK, Table
  <2> QED
    BY <2>1, <2>2, ReconciledIsClassified DEF OutcomesClassified
<1>2. ASSUME NEW m \in Slot, NEW s \in Student,
             NEW attended \in {"SAME", "YES", "NO"}, NEW hasExcuse \in BOOLEAN,
             CorrectOutcome(m, s, attended, hasExcuse)
      PROVE  OutcomesClassified'
  <2> DEFINE old == outcome[m][s]
             new == [intent   |-> old.intent,
                     attended |-> NewAttended(old, attended),
                     class    |-> NewClass(old, attended, hasExcuse)]
  <2>1. outcome' = [outcome EXCEPT ![m][s] = new]
    BY <1>2 DEF CorrectOutcome
  <2>2. old \in Outcome
    BY <1>2 DEF CorrectOutcome, MayCorrect, TypeOK, Table
  <2>3. \E excused \in BOOLEAN :
          new.class = Classify(new.intent, new.attended, excused)
    BY <2>2, CorrectionType DEF NewClass
  <2>4. /\ outcome'[m][s] = new
        /\ \A k \in Slot, t \in Student :
             k # m \/ t # s => outcome'[k][t] = outcome[k][t]
    BY <2>1 DEF TypeOK, Table
  <2> QED
    BY <2>3, <2>4 DEF OutcomesClassified
<1>3. ASSUME UNCHANGED outcome PROVE OutcomesClassified'
  BY <1>3 DEF OutcomesClassified
<1> QED
  BY <1>1, <1>2, <1>3
     DEF Next, SlotStep, CaseStep, ChangeAttendance, BeginTransaction, Rollback,
         SubmitAppeal, ResolveAppeal, SwitchWarnings, Tick, vars

\* Those who can be excused are those the page lists, and they are finitely many.
LEMMA CandidatesAreExcusable ==
  ASSUME TypeOK, NEW m \in Slot
  PROVE  /\ NoShowCandidates(m) = Excusable(m)
         /\ IsFiniteSet(Excusable(m))
<1>1. \A s \in Student :
        Classify(Declared(m, s), present[m][s], FALSE) = NoShow
          <=> Declared(m, s) = "YES" /\ ~present[m][s]
  BY DEF Classify, NoShow
<1> QED
  BY <1>1, ConstantAssumption, FS_Subset DEF NoShowCandidates, Excusable

\* Every step keeps the number of warnings issued; that the counter stays as it
\* was once the meal is reconciled is what makes it last.
LEMMA WarningsIssuedStep ==
  TypeOK /\ WarningsIssuedMatch /\ [Next]_vars => WarningsIssuedMatch'
<1> SUFFICES ASSUME TypeOK, WarningsIssuedMatch, [Next]_vars
             PROVE  WarningsIssuedMatch'
  OBVIOUS
<1>1. ASSUME NEW m \in Slot, NEW excusals \in SUBSET Student,
             Reconcile(m, excusals)
      PROVE  WarningsIssuedMatch'
  <2>1. \A k \in Slot : Excusable(k)' = Excusable(k)
    BY <1>1 DEF Reconcile, Excusable, Declared
  <2>2. /\ reconciled' = reconciled \cup {m}
        /\ \A k \in Slot \ {m} : summary'[k] = summary[k]
        /\ summary'[m].excused = Cardinality(excusals)
        /\ summary'[m].warningsIssued \in
             {0, Cardinality(Excusable(m) \ excusals)}
    BY <1>1 DEF Reconcile, TypeOK
  <2>3. Cardinality(Excusable(m) \ excusals)
          = Cardinality(Excusable(m)) - Cardinality(excusals)
    <3>1. excusals \subseteq Excusable(m)
      BY <1>1 DEF Reconcile, MayReconcile
    <3>2. IsFiniteSet(Excusable(m)) /\ IsFiniteSet(excusals)
      BY <3>1, CandidatesAreExcusable, FS_Subset
    <3>3. Excusable(m) \cap excusals = excusals
      BY <3>1
    <3> QED
      BY <3>2, <3>3, FS_Difference
  <2> QED
    BY <2>1, <2>2, <2>3 DEF WarningsIssuedMatch, TypeOK
<1>2. ASSUME NEW m \in Slot, NEW s \in Student, ChangeAttendance(m, s)
      PROVE  WarningsIssuedMatch'
  <2>1. /\ reconciled' = reconciled /\ summary' = summary /\ m \notin reconciled
        /\ snapshot' = snapshot
        /\ \A k \in Slot \ {m} : present'[k] = present[k]
    BY <1>2 DEF ChangeAttendance, TypeOK, Table
  <2>2. \A k \in reconciled : Excusable(k)' = Excusable(k)
    BY <2>1 DEF Excusable, Declared, TypeOK
  <2> QED
    BY <2>1, <2>2 DEF WarningsIssuedMatch
<1>3. ASSUME NEW m \in Slot, NEW s \in Student,
             NEW attended \in {"SAME", "YES", "NO"}, NEW hasExcuse \in BOOLEAN,
             CorrectOutcome(m, s, attended, hasExcuse)
      PROVE  WarningsIssuedMatch'
  <2>1. \A k \in Slot : /\ summary'[k].excused = summary[k].excused
                         /\ summary'[k].warningsIssued = summary[k].warningsIssued
    BY <1>3 DEF CorrectOutcome, TypeOK, Summary
  <2>2. reconciled' = reconciled /\ UNCHANGED <<snapshot, present>>
    BY <1>3 DEF CorrectOutcome
  <2>3. \A k \in Slot : Excusable(k)' = Excusable(k)
    BY <2>2 DEF Excusable, Declared
  <2> QED
    BY <2>1, <2>2, <2>3 DEF WarningsIssuedMatch, TypeOK
<1>4. ASSUME UNCHANGED <<reconciled, summary, snapshot, present>>
      PROVE  WarningsIssuedMatch'
  BY <1>4 DEF WarningsIssuedMatch, Excusable, Declared
<1> QED
  BY <1>1, <1>2, <1>3, <1>4
     DEF Next, SlotStep, CaseStep, BeginTransaction, Rollback, SubmitAppeal,
         ResolveAppeal, SwitchWarnings, Tick, vars

\* What the page about appeals offers is what the API accepts.
LEMMA AppealPagesAgree ==
  ASSUME TypeOK
  PROVE  AppealsFit
<1> SUFFICES ASSUME NEW m \in Slot, NEW s \in Student
             PROVE  /\ CanAppeal(m, s) => MayAppeal(m, s)
                    /\ MayAppeal(m, s) => CanAppeal(m, s) \/ AtDeadline(m, s)
                    /\ ResolveButtons(m, s) <=> Resolvable(appeal[m][s])
  BY DEF AppealsFit
<1>1. now \in Nat /\ warning[m][s].issuedAt \in Nat
  BY DEF TypeOK, Table, Warning, NoWarning
<1> QED
  BY <1>1, ConstantAssumption
     DEF CanAppeal, MayAppeal, AtDeadline, ResolveButtons, Resolvable

\* A correction the page saves changes the outcome, or is an idle excuse.
LEMMA CorrectionPagesAgree ==
  ASSUME TypeOK, OutcomesClassified
  PROVE  CorrectionsFit
<1> SUFFICES ASSUME NEW m \in Slot, NEW s \in Student,
                    NEW attended \in {"SAME", "YES", "NO"}, NEW excuse \in BOOLEAN,
                    SaveButton(m, s, attended, excuse),
                    ~IdleExcuse(m, s, attended)
             PROVE  MayCorrect(m, s, attended, excuse)
  BY DEF CorrectionsFit
<1> DEFINE old == outcome[m][s]
<1>1. /\ m \in reconciled /\ old # NoOutcome
      /\ attended # "SAME" \/ excuse
      /\ attended # IF old.attended THEN "YES" ELSE "NO"
      /\ excuse => old.intent = "YES"
  BY DEF SaveButton
<1>2. old \in Outcome
  BY <1>1 DEF TypeOK, Table
<1>3. old.attended \in BOOLEAN
  BY <1>2 DEF Outcome
<1>4. CASE attended # "SAME"
  BY <1>1, <1>3, <1>4 DEF MayCorrect, NewAttended
<1>5. CASE attended = "SAME"
  <2>1. excuse /\ old.intent = "YES"
    BY <1>1, <1>5
  <2>2. PICK e \in BOOLEAN : old.class = Classify(old.intent, old.attended, e)
    BY <1>1 DEF OutcomesClassified
  <2>3. old.class = NoShow /\ ~old.attended
    BY <1>3, <1>5, <2>1, <2>2 DEF Classify, IdleExcuse
  <2>4. NewClass(old, attended, excuse) = "EXCUSED"
    BY <1>5, <2>1, <2>3 DEF NewClass, NewAttended, Classify
  <2> QED
    BY <1>1, <2>3, <2>4 DEF MayCorrect, NoShow
<1> QED
  BY <1>4, <1>5

\* The pages offer what the API accepts, and list the students whom a
\* reconciliation excuses or warns.
THEOREM CasePagesCorrect == Spec => []CasePagesFit
<1>1. Init => OutcomesClassified /\ WarningsIssuedMatch
  BY DEF Init, OutcomesClassified, WarningsIssuedMatch
<1>2. AccountabilityInv /\ OutcomesClassified /\ WarningsIssuedMatch /\ [Next]_vars
        => OutcomesClassified' /\ WarningsIssuedMatch'
  BY ClassifiedStep, WarningsIssuedStep DEF AccountabilityInv
<1>3. AccountabilityInv /\ OutcomesClassified /\ WarningsIssuedMatch
        => CasePagesFit
  <2> SUFFICES ASSUME TypeOK, OutcomesClassified, WarningsIssuedMatch
               PROVE  CasePagesFit
    BY DEF AccountabilityInv
  <2>1. CandidatesFit
    BY CandidatesAreExcusable DEF CandidatesFit, MayReconcile, WarningsIssuedMatch
  <2> QED
    BY <2>1, AppealPagesAgree, CorrectionPagesAgree DEF CasePagesFit
<1> QED
  BY <1>1, <1>2, <1>3, AccountabilityInvariant, PTL DEF Spec
=============================================================================

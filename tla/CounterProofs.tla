--------------------------- MODULE CounterProofs ---------------------------
(***************************************************************************)
(* Proofs about Counter and CounterPage, for any number of students and of *)
(* counters, every walk-in policy and every bound.                         *)
(***************************************************************************)
EXTENDS CounterPage, SharedLemmas, FiniteSetTheorems, TLAPS

\* A verification that is not idle carries the record it will insert.
LEMMA OpenWhenActive ==
  ASSUME request \in [Request -> IdleRequest \cup OpenRequest],
         NEW r \in Request, ~Idle(r)
  PROVE  request[r] \in OpenRequest /\ request[r].record \in Record
BY DEF Idle, IdleRequest, OpenRequest

\* The steps that only move the slot, which no verification holds.
SlotStep == StartService \/ CloseService \/ CancelSlot

\* The steps on the slot row change the status only, when nothing is verified.
LEMMA SlotStepFacts ==
  ASSUME TypeOK, SlotStep
  PROVE  /\ SlotRowFree
         /\ status # "RECONCILED" /\ status' # "RECONCILED"
         /\ status' \in {"IN_SERVICE", "SERVICE_CLOSED", "CANCELLED"}
         /\ UNCHANGED <<snapshot, eligible, records, outcomes, request>>
<1>1. status \in Status
  BY DEF TypeOK, Status
<1> QED
  BY <1>1, TransitionFacts
     DEF TypeOK, SlotStep, StartService, CloseService, CancelSlot

-----------------------------------------------------------------------------
(* Type correctness. *)

\* Every step keeps the types.
LEMMA TypeStep == TypeOK /\ [Next]_vars => TypeOK'
<1> SUFFICES ASSUME TypeOK, [Next]_vars PROVE TypeOK'
  OBVIOUS
<1> USE DEF TypeOK
<1>1. ASSUME SlotStep PROVE TypeOK'
  BY <1>1, SlotStepFacts
<1>2. ASSUME NEW r \in Request, NEW s \in Student,
             NEW hasReason \in BOOLEAN, NEW hasLateReason \in BOOLEAN,
             BeginVerify(r, s, hasReason, hasLateReason)
      PROVE  TypeOK'
  <2>1. Declared(s) \in CutoffIntent /\ InSnapshot(s) \in BOOLEAN
    BY DEF Declared, InSnapshot, CutoffIntent
  <2>2. WalkInBasis(Declared(s), hasReason) \subseteq WalkIn
    BY <2>1, PolicyAssumption DEF WalkInBasis, WalkIn, CutoffIntent
  <2>3. PICK basis \in WalkInBasis(Declared(s), hasReason) :
          request' = [request EXCEPT ![r] =
            [stage |-> "checked",
             record |-> [student |-> s, intent |-> Declared(s),
                         inSnapshot |-> InSnapshot(s), walkIn |-> basis,
                         late |-> status = "SERVICE_CLOSED",
                         voided |-> FALSE]]]
    BY <1>2 DEF BeginVerify
  <2>4. [student |-> s, intent |-> Declared(s), inSnapshot |-> InSnapshot(s),
         walkIn |-> basis, late |-> status = "SERVICE_CLOSED",
         voided |-> FALSE] \in Record
    BY <2>1, <2>2 DEF Record
  <2> QED
    BY <1>2, <2>3, <2>4 DEF BeginVerify, MayVerify, OpenRequest
<1>3. ASSUME NEW r \in Request, InsertRecord(r)
      PROVE  TypeOK'
  <2>1. request[r].record \in Record
    BY <1>3, OpenWhenActive DEF InsertRecord, Idle
  <2> QED
    BY <1>3, <2>1 DEF InsertRecord, IdleRequest
<1>4. ASSUME NEW r \in Request, AbortVerify(r)
      PROVE  TypeOK'
  BY <1>4 DEF AbortVerify, IdleRequest
<1>5. ASSUME NEW k \in 1..Len(records), VoidAttendance(k)
      PROVE  TypeOK'
  <2>1. records[k] \in Record
    OBVIOUS
  <2>2. [records[k] EXCEPT !.voided = TRUE] \in Record
    BY <2>1 DEF Record
  <2> QED
    BY <1>5, <2>2 DEF VoidAttendance
<1>6. ASSUME Reconcile PROVE TypeOK'
  <2>1. \A s \in Student : ComputedOutcome(s) \in Outcome
    BY DEF ComputedOutcome, Outcome, NoOutcome, Declared, InSnapshot,
           CutoffIntent
  <2> QED
    BY <1>6, <2>1 DEF Reconcile
<1>7. ASSUME NEW s \in Student, ChangeEligibility(s)
      PROVE  TypeOK'
  BY <1>7 DEF ChangeEligibility
<1>8. CASE UNCHANGED vars
  BY <1>8 DEF vars
<1> QED
  BY <1>1, <1>2, <1>3, <1>4, <1>5, <1>6, <1>7, <1>8 DEF Next, VerifyStep, SlotStep

\* Every table and every verification keeps its type.
THEOREM TypeCorrect == Spec => []TypeOK
<1>1. Init => TypeOK
  BY DEF Init, TypeOK, IdleRequest, NoOutcome, Outcome, CutoffIntent, Record
<1> QED
  BY <1>1, TypeStep, PTL DEF Spec

-----------------------------------------------------------------------------
(* One valid record, and outcomes that match. *)

\* Every step keeps the invariant.
LEMMA CounterInvStep == CounterInv /\ TypeOK' /\ [Next]_vars => CounterInv'
<1> SUFFICES ASSUME CounterInv, TypeOK', [Next]_vars
             PROVE  AdmittedOnce' /\ VerificationHoldsSlot'
                      /\ OutcomesMatchCounter'
  BY DEF CounterInv
<1> USE DEF CounterInv
<1>1. ASSUME SlotStep PROVE CounterInv'
  BY <1>1, SlotStepFacts
     DEF SlotRowFree, Idle, AdmittedOnce, VerificationHoldsSlot,
         OutcomesMatchCounter
<1>2. ASSUME NEW r \in Request, NEW s \in Student,
             NEW hasReason \in BOOLEAN, NEW hasLateReason \in BOOLEAN,
             BeginVerify(r, s, hasReason, hasLateReason)
      PROVE  CounterInv'
  <2>1. PICK basis \in WalkInBasis(Declared(s), hasReason) :
          request' = [request EXCEPT ![r] =
            [stage |-> "checked",
             record |-> [student |-> s, intent |-> Declared(s),
                         inSnapshot |-> InSnapshot(s), walkIn |-> basis,
                         late |-> status = "SERVICE_CLOSED",
                         voided |-> FALSE]]]
    BY <1>2 DEF BeginVerify
  <2>2. /\ request'[r].record.late <=> status = "SERVICE_CLOSED"
        /\ \A q \in Request \ {r} : request'[q] = request[q]
        /\ status' = status /\ status \in {"IN_SERVICE", "SERVICE_CLOSED"}
    BY <1>2, <2>1 DEF BeginVerify, MayVerify, TypeOK
  <2>3. \A q \in Request : ~Idle(q)' =>
          status' = IF request'[q].record.late THEN "SERVICE_CLOSED"
                                               ELSE "IN_SERVICE"
    BY <2>2 DEF VerificationHoldsSlot, Idle
  <2>4. VerificationHoldsSlot'
    BY <2>3 DEF VerificationHoldsSlot, Idle
  <2> QED
    BY <1>2, <2>4 DEF BeginVerify, AdmittedOnce, OutcomesMatchCounter,
         InSnapshot, Declared, ValidRecords
<1>3. ASSUME NEW r \in Request, InsertRecord(r)
      PROVE  CounterInv'
  <2>1. ~Idle(r) /\ request[r].record \in Record
    BY <1>3, OpenWhenActive DEF InsertRecord, Idle, TypeOK
  <2>2. status \in {"IN_SERVICE", "SERVICE_CLOSED"} /\ status' = status
    BY <1>3, <2>1 DEF InsertRecord, VerificationHoldsSlot
  <2>3. /\ Len(records') = Len(records) + 1
        /\ records'[Len(records) + 1] = request[r].record
        /\ \A k \in 1..Len(records) : records'[k] = records[k]
    BY <1>3, <2>1 DEF InsertRecord, TypeOK
  <2>4. AdmittedOnce'
    BY <1>3, <2>3 DEF InsertRecord, AdmittedOnce, NotYetAdmitted,
         ValidRecords, TypeOK
  <2>5. VerificationHoldsSlot'
    BY <1>3 DEF InsertRecord, VerificationHoldsSlot, Idle, TypeOK
  <2> QED
    BY <2>2, <2>4, <2>5 DEF OutcomesMatchCounter
<1>4. ASSUME NEW r \in Request, AbortVerify(r)
      PROVE  CounterInv'
  <2>1. VerificationHoldsSlot'
    BY <1>4 DEF AbortVerify, VerificationHoldsSlot, Idle, TypeOK
  <2> QED
    BY <1>4, <2>1 DEF AbortVerify, AdmittedOnce, OutcomesMatchCounter,
         InSnapshot, Declared, ValidRecords
<1>5. ASSUME NEW k \in 1..Len(records), VoidAttendance(k)
      PROVE  CounterInv'
  <2>1. /\ Len(records') = Len(records)
        /\ \A j \in 1..Len(records) :
             /\ records'[j].student = records[j].student
             /\ records[j].voided => records'[j].voided
    BY <1>5 DEF VoidAttendance, MayVoid, TypeOK, Record
  <2>2. AdmittedOnce'
    BY <2>1 DEF AdmittedOnce
  <2> QED
    BY <1>5, <2>2 DEF VoidAttendance, MayVoid, VerificationHoldsSlot, Idle,
         OutcomesMatchCounter
<1>6. ASSUME Reconcile PROVE CounterInv'
  <2>1. OutcomesMatchCounter'
    BY <1>6 DEF Reconcile, OutcomesMatchCounter, ComputedOutcome, NoOutcome,
         InSnapshot, Declared, ValidRecords, TypeOK
  <2> QED
    BY <1>6, <2>1 DEF Reconcile, AdmittedOnce, VerificationHoldsSlot,
         SlotRowFree, Idle
<1>7. CASE UNCHANGED <<status, snapshot, records, outcomes, request>>
  BY <1>7 DEF AdmittedOnce, VerificationHoldsSlot, Idle,
       OutcomesMatchCounter, InSnapshot, Declared, ValidRecords
<1> QED
  BY <1>1, <1>2, <1>3, <1>4, <1>5, <1>6, <1>7 DEF Next, ChangeEligibility, vars, VerifyStep, SlotStep

\* The inductive invariant of the counter.
THEOREM CounterInvariant == Spec => []CounterInv
<1>1. Init => CounterInv
  <2>1. ASSUME Init PROVE TypeOK
    BY <2>1 DEF Init, TypeOK, IdleRequest, NoOutcome, Outcome, CutoffIntent,
         Record
  <2> QED
    BY <2>1 DEF Init, CounterInv, AdmittedOnce, VerificationHoldsSlot, Idle,
         OutcomesMatchCounter
<1>2. CounterInv /\ [Next]_vars => CounterInv'
  BY TypeStep, CounterInvStep DEF CounterInv
<1> QED
  BY <1>1, <1>2, PTL DEF Spec

\* No student has two valid records, whatever counters run together.
THEOREM AdmissionUnique == Spec => []AdmittedOnce
<1>1. CounterInv => AdmittedOnce
  BY DEF CounterInv
<1> QED
  BY <1>1, CounterInvariant, PTL

\* The reconciled outcomes are those of the counter, for good.
THEOREM OutcomesCorrect == Spec => []OutcomesMatchCounter
<1>1. CounterInv => OutcomesMatchCounter
  BY DEF CounterInv
<1> QED
  BY <1>1, CounterInvariant, PTL

\* Entries after the close carry the mark, all the others do not.
THEOREM LateEntriesCorrect == Spec => LateEntriesAreMarked
<1> DEFINE P == Len(records') > Len(records) =>
             status = IF records'[Len(records')].late THEN "SERVICE_CLOSED"
                                                      ELSE "IN_SERVICE"
<1>1. CounterInv /\ [Next]_vars => [P]_vars
  <2> SUFFICES ASSUME CounterInv, [Next]_vars, Len(records') > Len(records)
               PROVE  P
    OBVIOUS
  <2> USE DEF CounterInv, TypeOK
  <2>1. ASSUME NEW r \in Request, InsertRecord(r) PROVE P
    <3>1. ~Idle(r)
      BY <2>1 DEF InsertRecord, Idle
    <3>2. records'[Len(records')] = request[r].record
      BY <2>1 DEF InsertRecord
    <3> QED
      BY <3>1, <3>2 DEF VerificationHoldsSlot
  <2>2. ASSUME NEW k \in 1..Len(records), VoidAttendance(k) PROVE FALSE
    BY <2>2 DEF VoidAttendance
  <2>3. ASSUME UNCHANGED records PROVE FALSE
    BY <2>3
  <2> QED
    BY <2>1, <2>2, <2>3
       DEF Next, VerifyStep, StartService, CloseService, CancelSlot,
           BeginVerify, AbortVerify, ChangeEligibility, Reconcile, vars
<1> QED
  BY <1>1, CounterInvariant, PTL DEF Spec, LateEntriesAreMarked

-----------------------------------------------------------------------------
(* The counter's page. *)

\* A record says of its student what the snapshot says, and whoever declared
\* YES, and nobody else, is no walk-in.
Genuine(rec) ==
  /\ rec.intent = Declared(rec.student)
  /\ rec.walkIn = "NOT_WALK_IN" <=> rec.intent = "YES"

\* So do all records, and those in the making.
RecordsGenuine ==
  /\ \A k \in 1..Len(records) : Genuine(records[k])
  /\ \A r \in Request : ~Idle(r) => Genuine(request[r].record)

\* The basis of an admission tells a YES voter from a walk-in.
LEMMA BasisTells ==
  ASSUME NEW i \in CutoffIntent, NEW hasReason \in BOOLEAN
  PROVE  /\ \A basis \in WalkInBasis(i, hasReason) :
              basis = "NOT_WALK_IN" <=> i = "YES"
         /\ WalkInBasis(i, TRUE) # {}
BY PolicyAssumption DEF WalkInBasis, CutoffIntent

\* Every step keeps the records genuine.
LEMMA GenuineStep ==
  TypeOK /\ RecordsGenuine /\ [Next]_vars => RecordsGenuine'
<1> SUFFICES ASSUME TypeOK, RecordsGenuine, [Next]_vars PROVE RecordsGenuine'
  OBVIOUS
<1>s. UNCHANGED snapshot
  BY DEF Next, VerifyStep, StartService, CloseService, CancelSlot, BeginVerify,
         InsertRecord, AbortVerify, VoidAttendance, ChangeEligibility, Reconcile,
         vars
<1>g. \A rec : Genuine(rec)' <=> Genuine(rec)
  BY <1>s DEF Genuine, Declared, InSnapshot
<1>1. ASSUME NEW r \in Request, NEW s \in Student,
             NEW hasReason \in BOOLEAN, NEW hasLateReason \in BOOLEAN,
             BeginVerify(r, s, hasReason, hasLateReason)
      PROVE  RecordsGenuine'
  <2>1. PICK basis \in WalkInBasis(Declared(s), hasReason) :
          request' = [request EXCEPT ![r] =
            [stage |-> "checked",
             record |-> [student |-> s, intent |-> Declared(s),
                         inSnapshot |-> InSnapshot(s), walkIn |-> basis,
                         late |-> status = "SERVICE_CLOSED",
                         voided |-> FALSE]]]
    BY <1>1 DEF BeginVerify
  <2>2. Declared(s) \in CutoffIntent
    BY DEF TypeOK, Declared, InSnapshot, CutoffIntent
  <2>3. Genuine(request'[r].record)
    BY <2>1, <2>2, BasisTells DEF Genuine, TypeOK
  <2>4. \A q \in Request \ {r} : request'[q] = request[q]
    BY <2>1 DEF TypeOK
  <2> QED
    BY <1>1, <1>g, <2>3, <2>4 DEF BeginVerify, RecordsGenuine, Idle
<1>2. ASSUME NEW r \in Request, InsertRecord(r) PROVE RecordsGenuine'
  <2>1. ~Idle(r)
    BY <1>2 DEF InsertRecord, Idle
  <2>2. /\ Len(records') = Len(records) + 1
        /\ records'[Len(records) + 1] = request[r].record
        /\ \A k \in 1..Len(records) : records'[k] = records[k]
    BY <1>2, <2>1, OpenWhenActive DEF InsertRecord, TypeOK
  <2>3. \A k \in 1..Len(records') : Genuine(records'[k])
    BY <2>1, <2>2 DEF RecordsGenuine, TypeOK
  <2>4. \A q \in Request : ~Idle(q)' => ~Idle(q) /\ request'[q] = request[q]
    BY <1>2 DEF InsertRecord, Idle, TypeOK
  <2> QED
    BY <1>g, <2>3, <2>4 DEF RecordsGenuine
<1>3. ASSUME NEW r \in Request, AbortVerify(r) PROVE RecordsGenuine'
  <2>1. \A q \in Request : ~Idle(q)' => ~Idle(q) /\ request'[q] = request[q]
    BY <1>3 DEF AbortVerify, Idle, TypeOK
  <2> QED
    BY <1>3, <1>g, <2>1 DEF AbortVerify, RecordsGenuine
<1>4. ASSUME NEW k \in 1..Len(records), VoidAttendance(k)
      PROVE  RecordsGenuine'
  <2>1. /\ Len(records') = Len(records)
        /\ \A j \in 1..Len(records) :
             /\ records'[j].student = records[j].student
             /\ records'[j].intent = records[j].intent
             /\ records'[j].walkIn = records[j].walkIn
    BY <1>4 DEF VoidAttendance, TypeOK, Record
  <2>2. \A j \in 1..Len(records) : Genuine(records'[j])
    BY <2>1 DEF RecordsGenuine, Genuine
  <2> QED
    BY <1>4, <1>g, <2>1, <2>2 DEF VoidAttendance, RecordsGenuine, Idle
<1>5. ASSUME UNCHANGED <<records, request>> PROVE RecordsGenuine'
  BY <1>5, <1>g DEF RecordsGenuine, Idle
<1> QED
  BY <1>1, <1>2, <1>3, <1>4, <1>5
     DEF Next, VerifyStep, StartService, CloseService, CancelSlot,
         ChangeEligibility, Reconcile, vars

\* The students with a valid record are as many as those records, among the
\* records of any set that agrees with a set of students.
LEMMA OneRecordEach ==
  ASSUME TypeOK, AdmittedOnce, NEW K \in SUBSET Valid
  PROVE  /\ IsFiniteSet(K)
         /\ Cardinality({records[k].student : k \in K}) = Cardinality(K)
<1> DEFINE T == {records[k].student : k \in K}
           f == [k \in K |-> records[k].student]
<1>1. IsFiniteSet(K)
  <2>1. Len(records) \in Nat
    BY DEF TypeOK
  <2>2. IsFiniteSet(1..Len(records))
    BY <2>1, FS_Interval
  <2> QED
    BY <2>2, FS_Subset DEF Valid
<1>2. f \in Bijection(K, T)
  <2>1. f \in Injection(K, T)
    BY DEF Injection, IsInjective, AdmittedOnce, Valid
  <2>2. f \in Surjection(K, T)
    BY DEF Surjection
  <2> QED
    BY <2>1, <2>2 DEF Bijection
<1>3. ExistsBijection(K, T)
  BY <1>2 DEF ExistsBijection
<1> QED
  BY <1>1, <1>3, FS_Bijection

\* The numbers add up.
LEMMA CountsAgree ==
  ASSUME CounterInv, RecordsGenuine
  PROVE  CountsFit
<1> USE DEF CounterInv
<1> DEFINE Yes == {k \in Valid : records[k].intent = "YES"}
           Walk == {k \in Valid : records[k].walkIn # "NOT_WALK_IN"}
<1>1. Verified = YesVoters + WalkIns
  <2>1. Yes \cup Walk = Valid /\ Yes \cap Walk = {}
    BY DEF Valid, RecordsGenuine, Genuine
  <2>2. IsFiniteSet(Yes) /\ IsFiniteSet(Walk)
    BY OneRecordEach
  <2>3. Cardinality(Yes) \in Nat /\ Cardinality(Walk) \in Nat
    BY <2>2, FS_CardinalityType
  <2>4. Cardinality(Yes \cap Walk) = 0
    BY <2>1, FS_EmptySet
  <2>5. Cardinality(Valid) = Cardinality(Yes) + Cardinality(Walk) - 0
    BY <2>1, <2>2, <2>4, FS_Union
  <2> QED
    BY <2>3, <2>5 DEF Verified, YesVoters, WalkIns
<1>2. ASSUME status = "RECONCILED"
      PROVE  \A s \in Student :
               /\ outcomes[s].attended <=>
                    \E k \in Valid : records[k].student = s
               /\ outcomes[s].attended => outcomes[s].intent = Declared(s)
  <2> TAKE s \in Student
  <2>1. ValidRecords(s) # {} <=> \E k \in Valid : records[k].student = s
    BY DEF ValidRecords, Valid
  <2>2. /\ outcomes[s].attended <=> ValidRecords(s) # {}
        /\ outcomes[s].recorded <=> (InSnapshot(s) \/ ValidRecords(s) # {})
        /\ outcomes[s].recorded => outcomes[s].intent = Declared(s)
    BY <1>2 DEF OutcomesMatchCounter
  <2> QED
    BY <2>1, <2>2
<1>3. \A k \in Valid : records[k].student \in Student
  <2>1. \A k \in 1..Len(records) : records[k] \in Record
    BY DEF TypeOK
  <2> QED
    BY <2>1 DEF Valid, Record
<1>4. ASSUME status = "RECONCILED"
      PROVE  Verified = Cardinality({s \in Student : outcomes[s].attended})
  <2>1. {records[k].student : k \in Valid}
          = {s \in Student : outcomes[s].attended}
    BY <1>2, <1>3, <1>4
  <2> QED
    BY <2>1, OneRecordEach DEF Verified
<1>5. ASSUME status = "RECONCILED"
      PROVE  YesVoters = Cardinality({s \in Student :
               outcomes[s].attended /\ outcomes[s].intent = "YES"})
  <2>1. \A k \in Valid : records[k].intent = Declared(records[k].student)
    BY DEF RecordsGenuine, Genuine, Valid
  <2>2. {records[k].student : k \in Yes}
          = {s \in Student : outcomes[s].attended /\ outcomes[s].intent = "YES"}
    BY <1>2, <1>3, <1>5, <2>1
  <2> QED
    BY <2>2, OneRecordEach DEF YesVoters
<1> QED
  BY <1>1, <1>4, <1>5 DEF CountsFit

\* The page offers what the API accepts, of the records it has room for, and
\* shows the numbers of the reconciliation: CounterInv supplies that nobody is counted twice and that
\* the outcomes are those of the records, and RecordsGenuine that a YES voter
\* is never a walk-in.
THEOREM CounterPageCorrect == Spec => []CounterPageFits
<1>1. Init => RecordsGenuine
  BY DEF Init, RecordsGenuine, Idle
<1>2. CounterInv /\ RecordsGenuine /\ [Next]_vars => RecordsGenuine'
  BY GenuineStep DEF CounterInv
<1>3. CounterInv /\ RecordsGenuine => CounterPageFits
  <2> SUFFICES ASSUME CounterInv, RecordsGenuine PROVE CounterPageFits
    OBVIOUS
  <2>1. EntryFits
    <3>1. \A s \in Student : Declared(s) \in CutoffIntent
      BY DEF CounterInv, TypeOK, Declared, InSnapshot, CutoffIntent
    <3> QED
      BY <3>1, BasisTells DEF EntryFits, MayVerify, VerifyButton, Candidates
  <2>2. UndoFits
    <3> SUFFICES ASSUME NEW k \in 1..Len(records)
                 PROVE  /\ UndoButton(k) => MayVoid(k)
                        /\ MayVoid(k) => UndoButton(k) \/ NewerThan(k) >= ListLimit
                                                       \/ NewerThan(k) >= Shown
      BY DEF UndoFits
    <3>1. NewerThan(k) \in Int
      BY DEF NewerThan, CounterInv, TypeOK
    <3>2. Rendered(k) \/ NewerThan(k) >= ListLimit \/ NewerThan(k) >= Shown
      BY <3>1, ListAssumption DEF Rendered
    <3> QED
      BY <3>2 DEF UndoButton, MayVoid
  <2> QED
    BY <2>1, <2>2, CountsAgree DEF CounterPageFits
<1> QED
  BY <1>1, <1>2, <1>3, CounterInvariant, PTL DEF Spec

=============================================================================

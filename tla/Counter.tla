------------------------------ MODULE Counter ------------------------------
(***************************************************************************)
(* The counter of one meal slot: concurrent verifications of students,     *)
(* voided records, the end of service and the reconciliation that turns    *)
(* the records into outcomes (attendance.service.js,                       *)
(* reconciliation.service.js).                                             *)
(*                                                                         *)
(* A verification holds the slot row FOR SHARE from its first statement to *)
(* its commit; several may run together.  It is modelled in two steps, what*)
(* it reads and checks, and its insert, with anything the locks admit in   *)
(* between.  voidAttendance reads the status after it has the slot row FOR *)
(* SHARE, and is one action; start, close and reconcile hold the slot row  *)
(* FOR UPDATE throughout, and each is one action, enabled when no          *)
(* verification holds the row.  What a correction, a warning and an appeal *)
(* do afterwards is in Accountability.                                     *)
(***************************************************************************)
EXTENDS Naturals, Sequences, Lifecycle

CONSTANTS
  Student,      \* the students who may come to the counter
  Request,      \* the verifications the API serves at the same time
  WalkInPolicy, \* settings.walkIn: what a student who did not vote YES needs
  MaxRecords    \* bound on the attendance records of the slot

CutoffIntent == {"YES", "NO", "UNVOTED"}

ASSUME PolicyAssumption ==
  WalkInPolicy \in [{"NO", "UNVOTED"} -> {"ALLOW", "REQUIRE_AUTHORIZATION"}]

ASSUME BoundAssumption == MaxRecords \in Nat

VARIABLES
  status,    \* meal_slots.status
  snapshot,  \* the row of vote_snapshots of each student
  eligible,  \* the students isEligible accepts for the meal at this moment
  records,   \* the rows of attendance_events, in the order of verified_at
  outcomes,  \* the row of attendance_outcomes of each student
  request    \* the transaction of each verification

vars == <<status, snapshot, eligible, records, outcomes, request>>

WalkIn == {"NOT_WALK_IN", "POLICY_PERMITTED", "AUTHORIZED_EXCEPTION"}
Record ==
  [student : Student, intent : CutoffIntent, inSnapshot : BOOLEAN,
   walkIn : WalkIn, late : BOOLEAN, voided : BOOLEAN]

NoOutcome == [intent |-> "UNVOTED", attended |-> FALSE, recorded |-> FALSE]
Outcome == [intent : CutoffIntent, attended : BOOLEAN, recorded : BOOLEAN]

IdleRequest == {[stage |-> "idle"]}
OpenRequest == [stage : {"checked"}, record : Record]

Idle(r) == request[r].stage = "idle"

\* A defect to be caught: the slot row is read without a lock.
SlotRowFreeUnlocked == TRUE

\* What SELECT ... FOR UPDATE OF ms waits for.
SlotRowFree == \A r \in Request : Idle(r)

ValidRecords(s) ==
  {k \in 1..Len(records) : records[k].student = s /\ ~records[k].voided}

\* A defect to be caught: the insert relies on the check made before it.
NotYetAdmittedUnchecked(s) == TRUE

\* ON CONFLICT on the unique index of valid records.
NotYetAdmitted(s) == ValidRecords(s) = {}

\* A student outside the snapshot joined after the cutoff.
InSnapshot(s) == snapshot[s] # "ABSENT"
Declared(s) == IF InSnapshot(s) THEN snapshot[s] ELSE "UNVOTED"

\* On what basis a student is admitted who declared intent i.
WalkInBasis(i, hasReason) ==
  IF i = "YES" THEN {"NOT_WALK_IN"}
  ELSE IF WalkInPolicy[i] = "ALLOW" THEN {"POLICY_PERMITTED"}
  ELSE IF hasReason THEN {"AUTHORIZED_EXCEPTION"}
  ELSE {}

Init ==
  /\ status = "APPROVED"
  /\ snapshot \in [Student -> CutoffIntent \cup {"ABSENT"}]
  /\ eligible \in SUBSET Student
  /\ records = <<>>
  /\ outcomes = [s \in Student |-> NoOutcome]
  /\ request = [r \in Request |-> [stage |-> "idle"]]

-----------------------------------------------------------------------------
StartService ==
  /\ SlotRowFree
  /\ CanTransition(status, "IN_SERVICE")
  /\ status' = "IN_SERVICE"
  /\ UNCHANGED <<snapshot, eligible, records, outcomes, request>>

CloseService ==
  /\ SlotRowFree
  /\ CanTransition(status, "SERVICE_CLOSED")
  /\ status' = "SERVICE_CLOSED"
  /\ UNCHANGED <<snapshot, eligible, records, outcomes, request>>

CancelSlot ==
  /\ SlotRowFree
  /\ CanTransition(status, "CANCELLED")
  /\ status' = "CANCELLED"
  /\ UNCHANGED <<snapshot, eligible, records, outcomes, request>>

\* A student moves to or from the mess, or the account is suspended or taken
\* back: no such change touches the slot row.
ChangeEligibility(s) ==
  /\ eligible' = IF s \in eligible THEN eligible \ {s} ELSE eligible \cup {s}
  /\ UNCHANGED <<status, snapshot, records, outcomes, request>>

\* The checks of verify.  After the close it is a late entry, which needs a
\* reason; a student outside the snapshot must be eligible now.
MayVerify(s, hasReason, hasLateReason) ==
  /\ status \in {"IN_SERVICE", "SERVICE_CLOSED"}
  /\ status = "SERVICE_CLOSED" => hasLateReason
  /\ InSnapshot(s) \/ s \in eligible
  /\ ValidRecords(s) = {}
  /\ WalkInBasis(Declared(s), hasReason) # {}

\* verify up to its insert.
BeginVerify(r, s, hasReason, hasLateReason) ==
  /\ Idle(r)
  /\ MayVerify(s, hasReason, hasLateReason)
  /\ \E basis \in WalkInBasis(Declared(s), hasReason) :
       request' = [request EXCEPT ![r] =
         [stage |-> "checked",
          record |-> [student |-> s, intent |-> Declared(s),
                      inSnapshot |-> InSnapshot(s), walkIn |-> basis,
                      late |-> status = "SERVICE_CLOSED", voided |-> FALSE]]]
  /\ UNCHANGED <<status, snapshot, eligible, records, outcomes>>

\* INSERT ... ON CONFLICT DO NOTHING, and the commit.
InsertRecord(r) ==
  /\ request[r].stage = "checked"
  /\ NotYetAdmitted(request[r].record.student)
  /\ Len(records) < MaxRecords
  /\ records' = Append(records, request[r].record)
  /\ request' = [request EXCEPT ![r] = [stage |-> "idle"]]
  /\ UNCHANGED <<status, snapshot, eligible, outcomes>>

\* The insert met a valid record of the student (409 ALREADY_VERIFIED), or the
\* transaction failed otherwise.
AbortVerify(r) ==
  /\ ~Idle(r)
  /\ request' = [request EXCEPT ![r] = [stage |-> "idle"]]
  /\ UNCHANGED <<status, snapshot, eligible, records, outcomes>>

\* Voiding a voided record changes nothing and is no step.
MayVoid(k) ==
  /\ status \in {"IN_SERVICE", "SERVICE_CLOSED"}
  /\ ~records[k].voided

VoidAttendance(k) ==
  /\ MayVoid(k)
  /\ records' = [records EXCEPT ![k].voided = TRUE]
  /\ UNCHANGED <<status, snapshot, eligible, outcomes, request>>

\* computeRows: the snapshot, and anyone verified who was not in it, whose
\* record says UNVOTED.
ComputedOutcome(s) ==
  LET attended == ValidRecords(s) # {}
  IN  IF InSnapshot(s) \/ attended
      THEN [intent |-> Declared(s), attended |-> attended, recorded |-> TRUE]
      ELSE NoOutcome

Reconcile ==
  /\ SlotRowFree
  /\ CanTransition(status, "RECONCILED")
  /\ outcomes' = [s \in Student |-> ComputedOutcome(s)]
  /\ status' = "RECONCILED"
  /\ UNCHANGED <<snapshot, eligible, records, request>>

VerifyStep(r) ==
  \/ \E s \in Student, hasReason, hasLateReason \in BOOLEAN :
       BeginVerify(r, s, hasReason, hasLateReason)
  \/ InsertRecord(r)
  \/ AbortVerify(r)

Next ==
  \/ StartService
  \/ CloseService
  \/ CancelSlot
  \/ \E r \in Request : VerifyStep(r)
  \/ \E k \in 1..Len(records) : VoidAttendance(k)
  \/ \E s \in Student : ChangeEligibility(s)
  \/ Reconcile

Spec == Init /\ [][Next]_vars

-----------------------------------------------------------------------------
(* Properties. *)

TypeOK ==
  /\ status \in {"APPROVED", "IN_SERVICE", "SERVICE_CLOSED", "RECONCILED",
                 "CANCELLED"}
  /\ snapshot \in [Student -> CutoffIntent \cup {"ABSENT"}]
  /\ eligible \in SUBSET Student
  /\ records \in Seq(Record)
  /\ outcomes \in [Student -> Outcome]
  /\ request \in [Request -> IdleRequest \cup OpenRequest]

\* A student is admitted once: whatever counters verify the student together,
\* and however often a record is voided and entered again, there is at most one
\* valid record ("a second successful verification is rejected").
AdmittedOnce ==
  \A j, k \in 1..Len(records) :
    /\ records[j].student = records[k].student
    /\ ~records[j].voided /\ ~records[k].voided
    => j = k

\* Reconciliation has the last word: the outcomes say of everyone in the
\* snapshot, and of everyone else with a valid record, what the snapshot and
\* the valid records say, then and ever after; no verification that was under
\* way and no late void slips past them.
OutcomesMatchCounter ==
  status = "RECONCILED" =>
    \A s \in Student :
      /\ outcomes[s].recorded <=> (InSnapshot(s) \/ ValidRecords(s) # {})
      /\ outcomes[s].attended <=> ValidRecords(s) # {}
      /\ outcomes[s].recorded => outcomes[s].intent = Declared(s)

\* A record in the making still finds the service as its request saw it: open,
\* or closed if it is a late entry.
VerificationHoldsSlot ==
  \A r \in Request :
    ~Idle(r) => status = IF request[r].record.late THEN "SERVICE_CLOSED"
                                                   ELSE "IN_SERVICE"

\* Entries made after the close are known as late: no step adds a record
\* without the mark, or with it, at the wrong side of the close.
LateEntriesAreMarked ==
  [][Len(records') > Len(records) =>
       status = IF records'[Len(records')].late THEN "SERVICE_CLOSED"
                                                ELSE "IN_SERVICE"]_vars

CounterInv ==
  /\ TypeOK
  /\ AdmittedOnce
  /\ VerificationHoldsSlot
  /\ OutcomesMatchCounter
=============================================================================

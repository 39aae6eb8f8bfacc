---------------------------- MODULE CounterPage ----------------------------
(***************************************************************************)
(* What the counter's page offers whoever serves the meal (Counter.tsx),   *)
(* and the numbers it shows, computed from the same rows as the API's      *)
(* checks, by rules of their own.                                          *)
(***************************************************************************)
EXTENDS Counter, FiniteSets

CONSTANTS
  ListLimit,  \* the records listAttendance returns at most
  Shown       \* those of them the page renders

ASSUME ListAssumption == ListLimit \in Nat \ {0} /\ Shown \in Nat \ {0}

\* The meals among which the page lets one choose.  A meal named in the address
\* is shown in any status, as one that has been reconciled meanwhile.
Candidates == {"APPROVED", "IN_SERVICE", "SERVICE_CLOSED"}

\* The form, and the reason it demands after the close.
VerifyButton(lateReasonTyped) ==
  /\ status # "APPROVED"
  /\ status = "SERVICE_CLOSED" => lateReasonTyped

\* The list has the newest record first; voided ones take up their room.
NewerThan(k) == Len(records) - k
Rendered(k) == NewerThan(k) < ListLimit /\ NewerThan(k) < Shown

\* A defect to be caught: a verification can be undone whenever it is listed.
UndoAnyTime(k) == Rendered(k) /\ ~records[k].voided

UndoButton(k) ==
  /\ Rendered(k)
  /\ ~records[k].voided
  /\ status \in {"IN_SERVICE", "SERVICE_CLOSED"}

\* counterCounts.
Valid == {k \in 1..Len(records) : ~records[k].voided}
Verified == Cardinality(Valid)
YesVoters == Cardinality({k \in Valid : records[k].intent = "YES"})
WalkIns == Cardinality({k \in Valid : records[k].walkIn # "NOT_WALK_IN"})

\* Whom the API would admit, the page lets one enter; and an entry is refused
\* only of a student who has been served, or who neither was in the snapshot nor
\* is eligible now, or of a meal that is no candidate any more, once the reason
\* that the refusal asks for is given.
EntryFits ==
  \A s \in Student, late \in BOOLEAN :
    /\ \A reason \in BOOLEAN : MayVerify(s, reason, late) => VerifyButton(late)
    /\ VerifyButton(late) => \/ MayVerify(s, TRUE, late)
                             \/ ValidRecords(s) # {}
                             \/ ~InSnapshot(s) /\ s \notin eligible
                             \/ status \notin Candidates

\* Undo is offered only while it is possible; it is possible and not offered of
\* no other records than those that newer ones, voided or not, have pushed off
\* the page.
UndoFits ==
  \A k \in 1..Len(records) :
    /\ UndoButton(k) => MayVoid(k)
    /\ MayVoid(k) => UndoButton(k) \/ NewerThan(k) >= ListLimit
                                   \/ NewerThan(k) >= Shown

\* Those served are the YES voters and the walk-ins, and the reconciliation of
\* the meal counts the same students as the counter did.
CountsFit ==
  /\ Verified = YesVoters + WalkIns
  /\ status = "RECONCILED" =>
       /\ Verified = Cardinality({s \in Student : outcomes[s].attended})
       /\ YesVoters = Cardinality({s \in Student : /\ outcomes[s].attended
                                                   /\ outcomes[s].intent = "YES"})

\* The page and the API agree on whom to admit and on what to undo among the
\* newest records, and the numbers on the page, which count the older ones too,
\* add up to those of the reconciliation.
CounterPageFits ==
  /\ EntryFits
  /\ UndoFits
  /\ CountsFit
=============================================================================

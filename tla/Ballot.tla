------------------------------- MODULE Ballot -------------------------------
(***************************************************************************)
(* Voting on one meal slot: concurrent vote requests, the supervisor's     *)
(* schedule edits, and the cutoff that freezes every eligible student's    *)
(* intention (votes.service.js, meals.service.js, forecasting.service.js). *)
(*                                                                         *)
(* The transactions run at READ COMMITTED.  A vote request holds the slot  *)
(* row FOR SHARE from its first statement to its commit, and is modelled   *)
(* statement by statement.  The other transactions hold the slot row FOR   *)
(* UPDATE throughout, so that no vote request and no other of them is      *)
(* between its first statement and its commit at the same time: each is    *)
(* one action, enabled when no vote request holds the row.                 *)
(*                                                                         *)
(* A request that is refused rolls back without an effect and is no step.  *)
(***************************************************************************)
EXTENDS Naturals, Sequences, Lifecycle

CONSTANTS
  Student,    \* the student accounts of the institution
  Request,    \* the vote requests the API serves at the same time
  Window,     \* the voting windows a supervisor can schedule
  MaxTime,    \* bound on the server clock
  MaxEvents   \* bound on the recorded votes of one student

Intent == {"YES", "NO"}
CutoffIntent == Intent \cup {"UNVOTED"}

\* A voting window opens before it closes (a CHECK of meal_slots).
ASSUME WindowAssumption ==
  Window \subseteq {w \in [opens : Nat, closes : Nat] : w.opens < w.closes}

ASSUME BoundAssumption == MaxTime \in Nat /\ MaxEvents \in Nat

VARIABLES
  now,        \* the server clock
  status,     \* meal_slots.status
  window,     \* meal_slots.voting_opens_at and voting_closes_at
  eligible,   \* the students who hold the mess membership and a live account
  votes,      \* the row of votes of each student
  events,     \* the rows of vote_events of each student, in id order
  snapshot,   \* the row of vote_snapshots of each student
  aggregate,  \* the row of cutoff_aggregates
  request     \* the transaction of each vote request

vars == <<now, status, window, eligible, votes, events, snapshot, aggregate,
          request>>

\* No row: "absence of a row means UNVOTED".
NoRow == [intent |-> "UNVOTED", updatedAt |-> 0, changes |-> 0]
NoAggregate == [locked |-> FALSE, at |-> 0]

Vote == [intent : CutoffIntent, updatedAt : Nat, changes : Nat]
Event == [intent : Intent, previous : CutoffIntent, at : Nat]

\* A request is idle, or has passed the checks of castVote and holds the
\* slot row ("checked"), or has also read the student's row of votes ("read").
IdleRequest == {[stage |-> "idle"]}
OpenRequest ==
  [stage : {"checked", "read"}, student : Student, intent : Intent,
   at : Nat, existing : CutoffIntent]

Idle(r) == request[r].stage = "idle"

\* A defect to be caught: the slot is read without FOR UPDATE.
SlotRowFreeUnlocked == TRUE

\* What SELECT ... FOR UPDATE OF ms waits for.
SlotRowFree == \A r \in Request : Idle(r)

\* SELECT ... FOR UPDATE on votes locks a row only if there is one.
HoldsVoteRow(r, s) ==
  /\ request[r].stage = "read"
  /\ request[r].student = s
  /\ request[r].existing # "UNVOTED"

VoteRowFree(r, s) == \A q \in Request \ {r} : ~HoldsVoteRow(q, s)

\* A defect to be caught: the status alone decides, as if the scheduler ran
\* exactly at the cutoff.
VotingStateByStatus ==
  IF status = "CANCELLED" THEN "CANCELLED"
  ELSE IF status # "OPEN" THEN "CLOSED"
  ELSE "OPEN"

\* votingState: what the student may do, from the status and the clock.
VotingState ==
  IF status = "CANCELLED" THEN "CANCELLED"
  ELSE IF status # "OPEN" THEN "CLOSED"
  ELSE IF now < window.opens THEN "NOT_YET_OPEN"
  ELSE IF now >= window.closes THEN "CLOSED"
  ELSE "OPEN"

Init ==
  /\ now = 0
  /\ status = "DRAFT"
  /\ window \in Window
  /\ eligible \in SUBSET Student
  /\ votes = [s \in Student |-> NoRow]
  /\ events = [s \in Student |-> <<>>]
  /\ snapshot = [s \in Student |-> "ABSENT"]
  /\ aggregate = NoAggregate
  /\ request = [r \in Request |-> [stage |-> "idle"]]

-----------------------------------------------------------------------------
(* castVote, statement by statement. *)

\* The slot row is share-locked, then eligibility and the clock are read.
BeginVote(r, s, i) ==
  /\ Idle(r)
  /\ status # "DRAFT"
  /\ s \in eligible
  /\ VotingState = "OPEN"
  /\ request' = [request EXCEPT ![r] =
       [stage |-> "checked", student |-> s, intent |-> i, at |-> now,
        existing |-> "UNVOTED"]]
  /\ UNCHANGED <<now, status, window, eligible, votes, events, snapshot,
                 aggregate>>

\* SELECT intent FROM votes ... FOR UPDATE.
ReadExisting(r) ==
  /\ request[r].stage = "checked"
  /\ VoteRowFree(r, request[r].student)
  /\ request' = [request EXCEPT ![r].stage = "read",
                   ![r].existing = votes[request[r].student].intent]
  /\ UNCHANGED <<now, status, window, eligible, votes, events, snapshot,
                 aggregate>>

\* The student repeats the intention on record: nothing is written.
RepeatVote(r) ==
  /\ request[r].stage = "read"
  /\ request[r].existing = request[r].intent
  /\ request' = [request EXCEPT ![r] = [stage |-> "idle"]]
  /\ UNCHANGED <<now, status, window, eligible, votes, events, snapshot,
                 aggregate>>

\* A defect to be caught: the counter is computed from the value read earlier
\* instead of from the row the upsert meets.
UpsertFromStaleRead(row, q) ==
  [intent    |-> q.intent,
   updatedAt |-> q.at,
   changes   |-> IF q.existing = "UNVOTED" THEN 0 ELSE row.changes + 1]

\* INSERT ... ON CONFLICT DO UPDATE: the row after an upsert by request q.
Upsert(row, q) ==
  [intent    |-> q.intent,
   updatedAt |-> q.at,
   changes   |-> IF row.intent = "UNVOTED" THEN 0 ELSE row.changes + 1]

\* The upsert waits for the row lock of another request, takes what is then
\* committed, and the event is recorded with the intention read earlier.
WriteVote(r) ==
  LET q == request[r]
      s == request[r].student
  IN  /\ q.stage = "read"
      /\ q.existing # q.intent
      /\ VoteRowFree(r, s)
      /\ Len(events[s]) < MaxEvents
      /\ votes' = [votes EXCEPT ![s] = Upsert(votes[s], q)]
      /\ events' = [events EXCEPT ![s] =
           Append(@, [intent |-> q.intent, previous |-> q.existing,
                      at |-> q.at])]
      /\ request' = [request EXCEPT ![r] = [stage |-> "idle"]]
      /\ UNCHANGED <<now, status, window, eligible, snapshot, aggregate>>

\* An error, a lost connection or a crash of the process rolls back.
AbortVote(r) ==
  /\ ~Idle(r)
  /\ request' = [request EXCEPT ![r] = [stage |-> "idle"]]
  /\ UNCHANGED <<now, status, window, eligible, votes, events, snapshot,
                 aggregate>>

-----------------------------------------------------------------------------
(* The transactions that hold the slot row FOR UPDATE. *)

\* The menu publishSlot asks for is in MealLifecycle.
PublishSlot ==
  /\ SlotRowFree
  /\ CanTransition(status, "OPEN")
  /\ window.closes > now
  /\ status' = "OPEN"
  /\ UNCHANGED <<now, window, eligible, votes, events, snapshot, aggregate,
                 request>>

\* What updateSlot demands of the new times of a published slot.
EditAllowed(w) ==
  /\ w.closes > now
  /\ ~(w.opens > now /\ window.opens <= now)

UpdateSlot(w) ==
  /\ SlotRowFree
  /\ status \in {"DRAFT", "OPEN"}
  /\ status = "OPEN" => EditAllowed(w)
  /\ window' = w
  /\ UNCHANGED <<now, status, eligible, votes, events, snapshot, aggregate,
                 request>>

CancelSlot ==
  /\ SlotRowFree
  /\ CanTransition(status, "CANCELLED")
  /\ status' = "CANCELLED"
  /\ UNCHANGED <<now, window, eligible, votes, events, snapshot, aggregate,
                 request>>

\* The intention the snapshot keeps of a student.
CutoffIntentOf(s) == IF s \in eligible THEN votes[s].intent ELSE "ABSENT"

LockSlot ==
  /\ SlotRowFree
  /\ ~aggregate.locked
  /\ CanTransition(status, "LOCKED")
  /\ now >= window.closes
  /\ snapshot' = [s \in Student |-> CutoffIntentOf(s)]
  /\ aggregate' = [locked |-> TRUE, at |-> now]
  /\ status' = "LOCKED"
  /\ UNCHANGED <<now, window, eligible, votes, events, request>>

-----------------------------------------------------------------------------
(* The environment. *)

\* An administrator moves a student between messes or suspends the account;
\* neither takes a lock on the slot.
ChangeEligibility(s) ==
  /\ eligible' = IF s \in eligible THEN eligible \ {s} ELSE eligible \cup {s}
  /\ UNCHANGED <<now, status, window, votes, events, snapshot, aggregate,
                 request>>

Tick ==
  /\ now < MaxTime
  /\ now' = now + 1
  /\ UNCHANGED <<status, window, eligible, votes, events, snapshot, aggregate,
                 request>>

VoteStep(r) ==
  \/ \E s \in Student, i \in Intent : BeginVote(r, s, i)
  \/ ReadExisting(r)
  \/ RepeatVote(r)
  \/ WriteVote(r)
  \/ AbortVote(r)

Next ==
  \/ \E r \in Request : VoteStep(r)
  \/ PublishSlot
  \/ \E w \in Window : UpdateSlot(w)
  \/ CancelSlot
  \/ LockSlot
  \/ \E s \in Student : ChangeEligibility(s)
  \/ Tick

Spec == Init /\ [][Next]_vars

-----------------------------------------------------------------------------
(* Properties. *)

TypeOK ==
  /\ now \in Nat
  /\ status \in Status
  /\ window \in Window
  /\ eligible \subseteq Student
  /\ votes \in [Student -> Vote]
  /\ events \in [Student -> Seq(Event)]
  /\ snapshot \in [Student -> CutoffIntent \cup {"ABSENT"}]
  /\ aggregate \in [locked : BOOLEAN, at : Nat]
  /\ request \in [Request -> IdleRequest \cup OpenRequest]

\* A vote request that has passed its checks finds the slot published until
\* it ends, and its clock reading stays before the cutoff then in force,
\* however the supervisor edits, cancels or locks the slot meanwhile: the
\* share lock of castVote keeps all of them waiting.
InFlightVotesAreTimely ==
  \A r \in Request :
    ~Idle(r) => /\ status = "OPEN"
                /\ request[r].at <= now
                /\ request[r].at < window.closes

\* The snapshot never contradicts the ballot: what it says of a student is what
\* the student's row of votes says, at the cutoff and ever after ("cutoff
\* processing waits for in-flight votes and then snapshots them",
\* votes.service.js).  Of a student who is not eligible at the cutoff it says
\* nothing, even if the student voted while eligible.
SnapshotIsFinalBallot ==
  aggregate.locked =>
    \A s \in Student : snapshot[s] \in {"ABSENT", votes[s].intent}

\* Every recorded vote was cast before the cutoff that is in force now, also
\* after the cutoff moved earlier, and before the slot was locked.
VotesInsideWindow ==
  \A s \in Student : \A k \in 1..Len(events[s]) :
    /\ events[s][k].at < window.closes
    /\ aggregate.locked => events[s][k].at < aggregate.at

\* The slot cannot be locked and still accept votes.
LockedIsClosed == aggregate.locked => status \notin {"DRAFT", "OPEN"}

\* No vote is recorded ahead of the clock, and none before publication.
EventsArePast ==
  \A s \in Student :
    /\ status = "DRAFT" => events[s] = <<>>
    /\ \A k \in 1..Len(events[s]) : events[s][k].at <= now

\* The inductive invariant behind SnapshotIsFinalBallot, VotesInsideWindow and
\* InFlightVotesAreTimely.
BallotInv ==
  /\ TypeOK
  /\ InFlightVotesAreTimely
  /\ LockedIsClosed
  /\ EventsArePast
  /\ VotesInsideWindow
  /\ SnapshotIsFinalBallot

\* The current vote agrees with its history: the event recorded last (by id)
\* has the current intention, and there is one event per change and one for
\* the first vote, whatever requests of one student race.
HistoryMatchesVotes ==
  \A s \in Student :
    LET n == Len(events[s])
    IN  IF n = 0 THEN votes[s] = NoRow
        ELSE /\ events[s][n].intent = votes[s].intent
             /\ votes[s].changes = n - 1

\* "Repeating the same intention is a no-op (safe to retry)": no student has
\* two successive events with one intention.  The code does not guarantee it:
\* two first votes that run together each find no row to lock.
RepeatedVoteIsNoOp ==
  \A s \in Student : \A k \in 1..(Len(events[s]) - 1) :
    events[s][k].intent # events[s][k + 1].intent

\* The evidence shown for an appeal lists the events by recorded_at; its last
\* entry is the current vote.  The code does not guarantee it: a request that
\* read the clock earlier may write later.
EvidenceEndsWithVote ==
  \A s \in Student :
    Len(events[s]) > 0 =>
      \E k \in 1..Len(events[s]) :
        /\ events[s][k].intent = votes[s].intent
        /\ \A j \in 1..Len(events[s]) : events[s][j].at <= events[s][k].at

\* What the slot is for a voter.
Phase ==
  CASE status = "DRAFT"     -> "draft"
    [] status = "OPEN"      -> "open"
    [] status = "CANCELLED" -> "void"
    [] OTHER                -> "sealed"

\* Votes and cutoff implement the sealed ballot: with all their transactions,
\* locks and clock readings, intentions change one at a time, only while the
\* slot is published, and the snapshot is taken at one instant and for good.
Sealed ==
  INSTANCE SealedBallot WITH
    phase <- Phase,
    ballot <- [s \in Student |-> votes[s].intent],
    result <- snapshot

ImplementsSealedBallot == Sealed!Spec
=============================================================================

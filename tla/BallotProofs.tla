---------------------------- MODULE BallotProofs ----------------------------
(***************************************************************************)
(* Proofs about Ballot, for every set of students and of requests, every   *)
(* set of windows and every bound.                                         *)
(***************************************************************************)
EXTENDS Ballot, SharedLemmas, TLAPS

USE DEF Intent, CutoffIntent

-----------------------------------------------------------------------------
(* The types the steps below rely on. *)

\* A request that is not idle has a student, an intention and a clock reading.
LEMMA OpenWhenActive ==
  ASSUME request \in [Request -> IdleRequest \cup OpenRequest],
         NEW r \in Request, ~Idle(r)
  PROVE  request[r] \in OpenRequest
BY DEF Idle, IdleRequest

\* Every recorded vote is an event, with a clock reading.
LEMMA EventType ==
  ASSUME events \in [Student -> Seq(Event)],
         NEW s \in Student, NEW k \in 1..Len(events[s])
  PROVE  events[s][k] \in Event /\ events[s][k].at \in Nat
<1>1. events[s] \in Seq(Event)
  OBVIOUS
<1>2. events[s][k] \in Event
  BY <1>1
<1> QED
  BY <1>2 DEF Event

-----------------------------------------------------------------------------
(* Type correctness. *)

\* The state of every table and of every transaction keeps its type.
THEOREM TypeCorrect == Spec => []TypeOK
<1>1. Init => TypeOK
  BY WindowAssumption DEF Init, TypeOK, Status, NoRow, Vote, NoAggregate,
       IdleRequest, Event
<1>2. TypeOK /\ [Next]_vars => TypeOK'
  <2> SUFFICES ASSUME TypeOK, [Next]_vars PROVE TypeOK'
    OBVIOUS
  <2> USE DEF TypeOK
  <2>1. ASSUME NEW r \in Request, NEW s \in Student, NEW i \in Intent,
               BeginVote(r, s, i)
        PROVE  TypeOK'
    BY <2>1 DEF BeginVote, OpenRequest
  <2>2. ASSUME NEW r \in Request, ReadExisting(r)
        PROVE  TypeOK'
    <3>1. request[r] \in OpenRequest
      BY <2>2, OpenWhenActive DEF ReadExisting, Idle
    <3>2. votes[request[r].student].intent \in CutoffIntent
      BY <3>1 DEF OpenRequest, Vote
    <3>3. [request[r] EXCEPT !.stage = "read",
                !.existing = votes[request[r].student].intent] \in OpenRequest
      BY <3>1, <3>2 DEF OpenRequest
    <3>4. request' = [request EXCEPT ![r] =
             [@ EXCEPT !.stage = "read",
                       !.existing = votes[request[r].student].intent]]
      BY <2>2 DEF ReadExisting
    <3> QED
      BY <2>2, <3>3, <3>4 DEF ReadExisting
  <2>3. ASSUME NEW r \in Request, RepeatVote(r)
        PROVE  TypeOK'
    BY <2>3 DEF RepeatVote, IdleRequest
  <2>4. ASSUME NEW r \in Request, WriteVote(r)
        PROVE  TypeOK'
    BY <2>4 DEF WriteVote, IdleRequest, OpenRequest, Upsert, Vote, Event
  <2>5. ASSUME NEW r \in Request, AbortVote(r)
        PROVE  TypeOK'
    BY <2>5 DEF AbortVote, IdleRequest
  <2>6. ASSUME PublishSlot PROVE TypeOK'
    BY <2>6 DEF PublishSlot, Status
  <2>7. ASSUME NEW w \in Window, UpdateSlot(w) PROVE TypeOK'
    BY <2>7 DEF UpdateSlot
  <2>8. ASSUME CancelSlot PROVE TypeOK'
    BY <2>8 DEF CancelSlot, Status
  <2>9. ASSUME LockSlot PROVE TypeOK'
    BY <2>9 DEF LockSlot, CutoffIntentOf, Status, Vote
  <2>10. ASSUME NEW s \in Student, ChangeEligibility(s) PROVE TypeOK'
    BY <2>10 DEF ChangeEligibility
  <2>11. ASSUME Tick PROVE TypeOK'
    BY <2>11 DEF Tick
  <2>12. CASE UNCHANGED vars
    BY <2>12 DEF vars
  <2> QED
    BY <2>1, <2>2, <2>3, <2>4, <2>5, <2>6, <2>7, <2>8, <2>9, <2>10, <2>11,
       <2>12 DEF Next, VoteStep
<1> QED
  BY <1>1, <1>2, PTL DEF Spec

-----------------------------------------------------------------------------
(* The cutoff and the window. *)

\* The inductive step.  Steps that leave the votes, the slot and the snapshot
\* alone only have to keep InFlightVotesAreTimely.
LEMMA BallotInvStep == BallotInv /\ TypeOK' /\ [Next]_vars => BallotInv'
<1> SUFFICES ASSUME BallotInv, TypeOK', [Next]_vars
             PROVE  /\ InFlightVotesAreTimely'
                    /\ LockedIsClosed'
                    /\ EventsArePast'
                    /\ VotesInsideWindow'
                    /\ SnapshotIsFinalBallot'
  BY DEF BallotInv
<1> USE DEF BallotInv, TypeOK
<1>1. ASSUME NEW r \in Request, NEW s \in Student, NEW i \in Intent,
             BeginVote(r, s, i)
      PROVE  BallotInv'
  <2>1. status = "OPEN" /\ now < window.closes
    BY <1>1, WindowAssumption DEF BeginVote, VotingState
  <2>2. InFlightVotesAreTimely'
    BY <1>1, <2>1 DEF BeginVote, InFlightVotesAreTimely, Idle
  <2> QED
    BY <1>1, <2>2 DEF BeginVote, LockedIsClosed, EventsArePast,
         VotesInsideWindow, SnapshotIsFinalBallot
<1>2. ASSUME NEW r \in Request, ReadExisting(r)
      PROVE  BallotInv'
  <2>1. \A q \in Request : /\ Idle(q)' = Idle(q)
                           /\ request'[q].at = request[q].at
    BY <1>2 DEF ReadExisting, Idle
  <2>2. InFlightVotesAreTimely'
    BY <1>2, <2>1 DEF ReadExisting, InFlightVotesAreTimely
  <2> QED
    BY <1>2, <2>2 DEF ReadExisting, LockedIsClosed, EventsArePast,
         VotesInsideWindow, SnapshotIsFinalBallot
<1>3. ASSUME NEW r \in Request, RepeatVote(r) \/ AbortVote(r)
      PROVE  BallotInv'
  <2>1. /\ request' = [request EXCEPT ![r] = [stage |-> "idle"]]
        /\ UNCHANGED <<now, status, window>>
    BY <1>3 DEF RepeatVote, AbortVote
  <2>2. \A q \in Request : ~Idle(q)' => ~Idle(q) /\ request'[q] = request[q]
    BY <2>1 DEF Idle
  <2>3. InFlightVotesAreTimely'
    BY <2>1, <2>2 DEF InFlightVotesAreTimely
  <2> QED
    BY <1>3, <2>3 DEF RepeatVote, AbortVote, LockedIsClosed, EventsArePast,
         VotesInsideWindow, SnapshotIsFinalBallot
<1>4. ASSUME NEW r \in Request, WriteVote(r)
      PROVE  BallotInv'
  <2> DEFINE q == request[r]
             s == request[r].student
             e == [intent |-> q.intent, previous |-> q.existing, at |-> q.at]
  <2>1. ~Idle(r) /\ q \in OpenRequest
    BY <1>4, OpenWhenActive DEF WriteVote, Idle
  <2>2. status = "OPEN" /\ q.at <= now /\ q.at < window.closes
    BY <2>1 DEF InFlightVotesAreTimely
  <2>3. ~aggregate.locked /\ ~aggregate'.locked
    BY <1>4, <2>2 DEF LockedIsClosed, WriteVote
  <2>4. InFlightVotesAreTimely'
    BY <1>4 DEF WriteVote, InFlightVotesAreTimely, Idle
  <2>5. /\ events[s] \in Seq(Event)
        /\ e \in Event
        /\ events' = [events EXCEPT ![s] = Append(@, e)]
    BY <1>4, <2>1 DEF WriteVote, OpenRequest, Event
  <2>6. ASSUME NEW t \in Student, NEW k \in 1..Len(events'[t])
        PROVE  events'[t][k].at <= now /\ events'[t][k].at < window.closes
    <3>1. CASE t = s /\ k = Len(events[s]) + 1
      BY <2>2, <2>5, <3>1
    <3>2. CASE ~(t = s /\ k = Len(events[s]) + 1)
      <4>1. k \in 1..Len(events[t]) /\ events'[t][k] = events[t][k]
        BY <2>5, <3>2
      <4> QED
        BY <4>1 DEF EventsArePast, VotesInsideWindow
    <3> QED
      BY <3>1, <3>2
  <2>7. EventsArePast' /\ VotesInsideWindow'
    BY <1>4, <2>2, <2>3, <2>6 DEF WriteVote, EventsArePast, VotesInsideWindow
  <2> QED
    BY <1>4, <2>3, <2>4, <2>7 DEF WriteVote, LockedIsClosed,
         SnapshotIsFinalBallot
<1>5. ASSUME PublishSlot
      PROVE  BallotInv'
  <2>1. status = "DRAFT" /\ status' = "OPEN"
    BY <1>5, TransitionFacts DEF PublishSlot
  <2>2. InFlightVotesAreTimely'
    BY <1>5 DEF PublishSlot, SlotRowFree, InFlightVotesAreTimely, Idle
  <2> QED
    BY <1>5, <2>1, <2>2 DEF PublishSlot, LockedIsClosed, EventsArePast,
         VotesInsideWindow, SnapshotIsFinalBallot
<1>6. ASSUME NEW w \in Window, UpdateSlot(w)
      PROVE  BallotInv'
  <2>1. InFlightVotesAreTimely'
    BY <1>6 DEF UpdateSlot, SlotRowFree, InFlightVotesAreTimely, Idle
  <2>2. ~aggregate.locked /\ ~aggregate'.locked
    BY <1>6 DEF UpdateSlot, LockedIsClosed
  <2>3. ASSUME NEW s \in Student, NEW k \in 1..Len(events[s])
        PROVE  events[s][k].at < w.closes
    <3>1. status = "OPEN" /\ w.closes > now
      BY <1>6, <2>3 DEF UpdateSlot, EditAllowed, EventsArePast
    <3>2. events[s][k].at \in Nat /\ events[s][k].at <= now
      BY <2>3, EventType DEF EventsArePast
    <3>3. w.closes \in Nat
      BY WindowAssumption
    <3> QED
      BY <3>1, <3>2, <3>3
  <2> QED
    BY <1>6, <2>1, <2>2, <2>3 DEF UpdateSlot, LockedIsClosed, EventsArePast,
         VotesInsideWindow, SnapshotIsFinalBallot
<1>7. ASSUME CancelSlot
      PROVE  BallotInv'
  <2>1. InFlightVotesAreTimely'
    BY <1>7 DEF CancelSlot, SlotRowFree, InFlightVotesAreTimely, Idle
  <2> QED
    BY <1>7, <2>1 DEF CancelSlot, LockedIsClosed, EventsArePast,
         VotesInsideWindow, SnapshotIsFinalBallot
<1>8. ASSUME LockSlot
      PROVE  BallotInv'
  <2>1. InFlightVotesAreTimely'
    BY <1>8 DEF LockSlot, SlotRowFree, InFlightVotesAreTimely, Idle
  <2>2. SnapshotIsFinalBallot'
    BY <1>8 DEF LockSlot, CutoffIntentOf, SnapshotIsFinalBallot
  <2>3. VotesInsideWindow'
    <3>1. ASSUME NEW s \in Student, NEW k \in 1..Len(events[s])
          PROVE  events[s][k].at < window.closes /\ events[s][k].at < now
      <4>1. events[s][k].at \in Nat /\ window.closes \in Nat
        BY WindowAssumption, EventType
      <4> QED
        BY <1>8, <4>1 DEF LockSlot, VotesInsideWindow
    <3> QED
      BY <1>8, <3>1 DEF LockSlot, VotesInsideWindow
  <2> QED
    BY <1>8, <2>1, <2>2, <2>3 DEF LockSlot, LockedIsClosed, EventsArePast
<1>9. ASSUME NEW s \in Student, ChangeEligibility(s)
      PROVE  BallotInv'
  BY <1>9 DEF ChangeEligibility, InFlightVotesAreTimely, Idle, LockedIsClosed,
       EventsArePast, VotesInsideWindow, SnapshotIsFinalBallot
<1>10. ASSUME Tick
       PROVE  BallotInv'
  <2>1. InFlightVotesAreTimely'
    <3> SUFFICES ASSUME NEW r \in Request, ~Idle(r)
                 PROVE  request[r].at <= now'
      BY <1>10 DEF Tick, InFlightVotesAreTimely, Idle
    <3> QED
      BY <1>10, OpenWhenActive DEF Tick, InFlightVotesAreTimely, OpenRequest
  <2>2. EventsArePast'
    <3>1. ASSUME NEW s \in Student, NEW k \in 1..Len(events[s])
          PROVE  events[s][k].at <= now'
      BY <1>10, EventType DEF Tick, EventsArePast
    <3> QED
      BY <1>10, <3>1 DEF Tick, EventsArePast
  <2> QED
    BY <1>10, <2>1, <2>2 DEF Tick, LockedIsClosed, VotesInsideWindow,
         SnapshotIsFinalBallot
<1>11. CASE UNCHANGED vars
  BY <1>11 DEF vars, InFlightVotesAreTimely, Idle, LockedIsClosed,
       EventsArePast, VotesInsideWindow, SnapshotIsFinalBallot
<1> QED
  BY <1>1, <1>2, <1>3, <1>4, <1>5, <1>6, <1>7, <1>8, <1>9, <1>10, <1>11
     DEF Next, VoteStep

\* The inductive invariant holds in every reachable state.
THEOREM BallotInvariant == Spec => []BallotInv
<1>1. Init => BallotInv
  <2> SUFFICES ASSUME Init PROVE BallotInv
    OBVIOUS
  <2>1. TypeOK
    BY WindowAssumption DEF Init, TypeOK, Status, NoRow, Vote, NoAggregate,
         IdleRequest, Event
  <2> QED
    BY <2>1 DEF Init, BallotInv, InFlightVotesAreTimely, Idle, LockedIsClosed,
         EventsArePast, VotesInsideWindow, SnapshotIsFinalBallot, NoAggregate
<1> QED
  BY <1>1, BallotInvStep, TypeCorrect, PTL DEF Spec

\* The snapshot is every eligible student's final vote, at the cutoff and
\* ever after.
THEOREM SnapshotCorrect == Spec => []SnapshotIsFinalBallot
BY BallotInvariant, PTL DEF BallotInv

\* No vote is recorded at or after the cutoff in force.
THEOREM VotesTimely == Spec => []VotesInsideWindow
BY BallotInvariant, PTL DEF BallotInv

-----------------------------------------------------------------------------
(* The history of a vote. *)

\* The last recorded event is the current vote, and there is one event per
\* change, whatever requests of one student run together.
THEOREM HistoryCorrect == Spec => []HistoryMatchesVotes
<1>1. Init => HistoryMatchesVotes
  BY DEF Init, HistoryMatchesVotes
<1>2. TypeOK /\ HistoryMatchesVotes /\ [Next]_vars => HistoryMatchesVotes'
  <2> SUFFICES ASSUME TypeOK, HistoryMatchesVotes, [Next]_vars
               PROVE  HistoryMatchesVotes'
    OBVIOUS
  <2>1. ASSUME NEW r \in Request, WriteVote(r)
        PROVE  HistoryMatchesVotes'
    <3> DEFINE q == request[r]
               s == request[r].student
               e == [intent |-> q.intent, previous |-> q.existing, at |-> q.at]
               n == Len(events[s])
    <3>1. q \in OpenRequest
      BY <2>1, OpenWhenActive DEF TypeOK, WriteVote, Idle
    <3>2. /\ events' = [events EXCEPT ![s] = Append(@, e)]
          /\ votes' = [votes EXCEPT ![s] = Upsert(votes[s], q)]
      BY <2>1 DEF WriteVote
    <3>3. /\ s \in Student
          /\ events[s] \in Seq(Event)
          /\ e \in Event
          /\ votes[s] \in Vote
      BY <3>1 DEF TypeOK, OpenRequest, Event
    <3>4. /\ Len(events'[s]) = n + 1
          /\ events'[s][n + 1] = e
          /\ votes'[s] = Upsert(votes[s], q)
      BY <3>2, <3>3 DEF TypeOK
    <3>5. votes'[s].intent = q.intent
      BY <3>4 DEF Upsert
    <3>6. votes'[s].changes = n
      <4>1. CASE n = 0
        <5>1. votes[s] = NoRow
          BY <3>3, <4>1 DEF HistoryMatchesVotes
        <5> QED
          BY <3>4, <4>1, <5>1 DEF Upsert, NoRow
      <4>2. CASE n # 0
        <5>1. n \in Nat /\ n \in 1..Len(events[s])
          BY <3>3, <4>2
        <5>2. events[s][n] \in Event
          BY <3>3, <5>1, EventType DEF TypeOK
        <5>3. votes[s].intent # "UNVOTED" /\ votes[s].changes = n - 1
          BY <3>3, <4>2, <5>2 DEF HistoryMatchesVotes, Event
        <5> QED
          BY <3>4, <5>1, <5>3 DEF Upsert
      <4> QED
        BY <4>1, <4>2
    <3>7. ASSUME NEW t \in Student, t # s
          PROVE  events'[t] = events[t] /\ votes'[t] = votes[t]
      BY <3>2, <3>7 DEF TypeOK
    <3>8. /\ Len(events'[s]) # 0
          /\ events'[s][Len(events'[s])].intent = votes'[s].intent
          /\ votes'[s].changes = Len(events'[s]) - 1
      BY <3>3, <3>4, <3>5, <3>6
    <3> QED
      BY <3>7, <3>8 DEF HistoryMatchesVotes
  <2>2. CASE UNCHANGED <<votes, events>>
    BY <2>2 DEF HistoryMatchesVotes
  <2>3. (\E r \in Request : WriteVote(r)) \/ UNCHANGED <<votes, events>>
    BY DEF Next, VoteStep, BeginVote, ReadExisting, RepeatVote, AbortVote,
         PublishSlot, UpdateSlot, CancelSlot, LockSlot, ChangeEligibility,
         Tick, vars
  <2> QED
    BY <2>1, <2>2, <2>3
<1> QED
  BY <1>1, <1>2, TypeCorrect, PTL DEF Spec

-----------------------------------------------------------------------------
(* The transactions implement the sealed ballot. *)

\* Every step of the transactions is a step of SealedBallot or changes nothing
\* a voter could tell.
LEMMA BallotStepSimulation ==
  ASSUME BallotInv, BallotInv', [Next]_vars
  PROVE  [Sealed!Next]_(Sealed!vars)
<1> USE DEF BallotInv, TypeOK
<1>1. ASSUME NEW r \in Request, WriteVote(r)
      PROVE  Sealed!Next
  <2> DEFINE q == request[r]
             s == request[r].student
  <2>1. ~Idle(r) /\ q \in OpenRequest
    BY <1>1, OpenWhenActive DEF WriteVote, Idle
  <2>2. s \in Student /\ q.intent \in Intent
    BY <2>1 DEF OpenRequest
  <2>3. Phase = "open" /\ Phase' = Phase
    BY <1>1, <2>1 DEF InFlightVotesAreTimely, Phase, WriteVote
  <2>4. votes' = [votes EXCEPT ![s] = Upsert(votes[s], q)]
    BY <1>1 DEF WriteVote
  <2>5. [t \in Student |-> votes'[t].intent]
          = [[t \in Student |-> votes[t].intent] EXCEPT ![s] = q.intent]
    BY <2>2, <2>4 DEF Upsert
  <2>6. Sealed!Cast(s, q.intent)
    BY <1>1, <2>3, <2>5 DEF Sealed!Cast, WriteVote
  <2> QED
    BY <2>2, <2>6 DEF Sealed!Next, Sealed!Cast
<1>2. ASSUME PublishSlot
      PROVE  Sealed!Next
  <2>1. status = "DRAFT" /\ status' = "OPEN"
    BY <1>2, TransitionFacts DEF PublishSlot
  <2> QED
    BY <1>2, <2>1 DEF PublishSlot, Phase, Sealed!Open, Sealed!Next
<1>3. ASSUME CancelSlot
      PROVE  Sealed!Next
  BY <1>3 DEF CancelSlot, Phase, Sealed!Void, Sealed!Next
<1>4. ASSUME LockSlot
      PROVE  Sealed!Next
  <2>1. status = "OPEN" /\ status' = "LOCKED"
    BY <1>4, TransitionFacts DEF LockSlot
  <2>2. Phase = "open" /\ Phase' = "sealed"
    BY <2>1 DEF Phase
  <2>3. snapshot' = [s \in Student |->
           IF s \in eligible THEN [t \in Student |-> votes[t].intent][s]
           ELSE "ABSENT"]
    BY <1>4 DEF LockSlot, CutoffIntentOf
  <2>4. Sealed!Seal(eligible)
    BY <1>4, <2>2, <2>3 DEF LockSlot, Sealed!Seal
  <2> QED
    BY <2>4 DEF Sealed!Next
<1>5. ASSUME NEW w \in Window, UpdateSlot(w)
      PROVE  UNCHANGED Sealed!vars
  BY <1>5 DEF UpdateSlot, Phase, Sealed!vars
<1>6. ASSUME NEW r \in Request,
             \/ \E s \in Student, i \in Intent : BeginVote(r, s, i)
             \/ ReadExisting(r)
             \/ RepeatVote(r)
             \/ AbortVote(r)
      PROVE  UNCHANGED Sealed!vars
  BY <1>6 DEF BeginVote, ReadExisting, RepeatVote, AbortVote, Phase, Sealed!vars
<1>7. ASSUME (\E s \in Student : ChangeEligibility(s)) \/ Tick \/ UNCHANGED vars
      PROVE  UNCHANGED Sealed!vars
  BY <1>7 DEF ChangeEligibility, Tick, vars, Phase, Sealed!vars
<1> QED
  BY <1>1, <1>2, <1>3, <1>4, <1>5, <1>6, <1>7 DEF Next, VoteStep

\* Votes and cutoff implement the sealed ballot.
THEOREM RefinesSealedBallot == Spec => ImplementsSealedBallot
<1>1. Init => Sealed!Init
  BY DEF Init, Sealed!Init, Phase, NoRow
<1>2. BallotInv /\ BallotInv' /\ [Next]_vars => [Sealed!Next]_(Sealed!vars)
  BY BallotStepSimulation
<1> QED
  BY <1>1, <1>2, BallotInvariant, PTL
     DEF Spec, Sealed!Spec, ImplementsSealedBallot
=============================================================================

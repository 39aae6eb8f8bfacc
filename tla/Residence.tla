----------------------------- MODULE Residence -----------------------------
(***************************************************************************)
(* The mess a student belongs to, by the day: memberships are created with *)
(* the account and changed by administrators, for a day to come or a day   *)
(* gone by (accounts.service.js); eligibility reads the membership that    *)
(* covers the day of a meal (eligibility.js), and the student's page lists *)
(* the meals of the mess of the membership that is open (session.js,       *)
(* votes.service.js).  One student; changeMembership locks the account.    *)
(***************************************************************************)
EXTENDS Naturals, FiniteSets

CONSTANTS
  Mess,      \* the messes of the institution
  LastDay,   \* bound on the calendar
  DaysAhead  \* how many days the student's page looks ahead

ASSUME ResidenceAssumption == LastDay \in Nat /\ DaysAhead \in Nat

VARIABLES
  today,       \* the date in the institution's time zone
  memberships  \* the rows of mess_memberships; to is a set of at most one day

residenceVars == <<today, memberships>>

Day == 0..LastDay
Membership == [mess : Mess, from : Day, to : SUBSET Day]

Open == {m \in memberships : m.to = {}}

\* insertStudent: the first membership begins today or on a day of choice.
ResidenceInit ==
  /\ today \in Day
  /\ \E mess \in Mess, from \in Day :
       memberships = {[mess |-> mess, from |-> from, to |-> {}]}

\* A defect to be caught: the current membership ends on the day the new one
\* begins, not the day before.
ClosedSameDay(current, from) == [current EXCEPT !.to = {from}]

ClosedBefore(current, from) == [current EXCEPT !.to = {from - 1}]

\* The new membership must start after the current one began.
ChangeMembership(mess, from) ==
  /\ \A current \in Open : current.from < from
  /\ memberships' =
       (memberships \ Open)
       \cup {ClosedBefore(current, from) : current \in Open}
       \cup {[mess |-> mess, from |-> from, to |-> {}]}
  /\ UNCHANGED today

DayPasses ==
  /\ today < LastDay
  /\ today' = today + 1
  /\ UNCHANGED memberships

ResidenceNext ==
  \/ \E mess \in Mess, from \in Day : ChangeMembership(mess, from)
  \/ DayPasses

ResidenceSpec == ResidenceInit /\ [][ResidenceNext]_residenceVars

-----------------------------------------------------------------------------

\* eligibleStudentsCte, for a student whose account is active.
Covers(m, day) == m.from <= day /\ \A last \in m.to : day <= last
EligibleAt(mess, day) == \E m \in memberships : m.mess = mess /\ Covers(m, day)

\* loadIdentity takes the mess of the open membership, myMeals its meals.
ListedAt(mess, day) ==
  /\ \E m \in Open : m.mess = mess
  /\ day + 1 >= today /\ day <= today + DaysAhead

\* A student eats in one mess a day, in order and without a gap from the first
\* day on, whatever moves are entered, ahead or in arrears; and the page lists
\* the meals he may vote for.  The exception is a move on record: until its
\* first day, the open membership is not the one he is eligible by.
MealsListedAreOnes ==
  /\ \A m, n \in memberships : m # n => \A day \in Day : ~(Covers(m, day) /\ Covers(n, day))
  /\ \A m \in memberships, day \in Day :
       m.from <= day => \E n \in memberships : Covers(n, day)
  /\ \A mess \in Mess, day \in today..LastDay :
       day <= today + DaysAhead =>
         \/ EligibleAt(mess, day) <=> ListedAt(mess, day)
         \/ \E m \in Open : day < m.from
=============================================================================

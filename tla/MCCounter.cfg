SPECIFICATION Spec

CONSTANTS
  Student = {s1, s2}
  Request = {r1, r2}
  WalkInPolicy <- MCWalkInPolicy
  MaxRecords = 4
  ListLimit = 3
  Shown = 2

\* A reconciled or cancelled slot has no more to do at the counter.
CHECK_DEADLOCK FALSE

SYMMETRY MCSymmetry

INVARIANTS
  AdmittedOnce
  OutcomesMatchCounter
  CounterPageFits

PROPERTY LateEntriesAreMarked

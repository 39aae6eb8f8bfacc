SPECIFICATION Spec

CONSTANTS
  Student = {s1, s2}
  Request = {r1, r2}
  Window <- MCWindow
  MaxTime = 2
  MaxEvents = 2

SYMMETRY MCSymmetry

INVARIANTS
  VotesInsideWindow
  HistoryMatchesVotes

PROPERTY ImplementsSealedBallot

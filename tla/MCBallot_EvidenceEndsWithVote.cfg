SPECIFICATION Spec

CONSTANTS
  Student = {s1}
  Request = {r1, r2}
  Window <- MCWindow
  MaxTime = 2
  MaxEvents = 2

INVARIANT EvidenceEndsWithVote

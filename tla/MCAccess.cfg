SPECIFICATION Spec

CONSTANTS
  User = {u1, u2}
  Founder = {u1}
  Role <- MCRole
  Request = {r1, r2}
  Session = {x1, x2}
  Code = {c1, c2}
  Password = {1, 2}
  Forgetful = {u2}
  MaxFailedLogins = 1

CONSTRAINT MCBound

SYMMETRY MCSymmetry

INVARIANTS
  SessionsEndWithCredentials
  AccountPageFits

PROPERTIES
  CodesAreSpentOnce
  AdminLostOnlyToFormerAdmin

SPECIFICATION PlatformSpec

CONSTANTS
  Tab = {t1, t2}
  Account = {a1, a2}
  MaxSession = 2
  Instance = {i1, i2}
  Handler = {h1, h2}
  PoolMax = 2
  MaxOutages = 2
  Clerk = {c1, c2}
  Quantity = {10, 30}
  MaxStock = 60
  Meal = {m1, m2}
  Servings = {0, 3}
  Uptake <- MCUptake
  PerServing = {100, 200}
  Yield = {7000, 10000}
  PackPrecision = 100
  Rules <- MCRules
  Mess = {ms1, ms2}
  LastDay = 5
  DaysAhead = 2
  Administrator = {ad1, ad2}
  Setting = {walkIn, warnings}
  Value = {0, 1, 2}
  Valid = {1, 2}
  Default <- MCDefault
  Zone = {z1, z2}
  MaxEdits = 2
  Deployment = {d1, d2}
  Release <- MCRelease
  Past = {1, 2, 4, 5}
  Special = {2}
  Turnout <- MCTurnout
  Counts <- MCCounts
  Tonight = 6
  Beliefs <- MCBeliefs
  MessId = {w1, w2}
  MaxChanges = 2

SYMMETRY MCSymmetry

INVARIANTS
  ActsAsShown
  OneTickAtATime
  NegativeStockIsFlagged
  OutlookSuffices
  MealsListedAreOnes
  DeploymentsDoNotRace
  ForecastIsSound
  WorkspaceFits

PROPERTIES
  ExitsCutNothing
  PoliciesChangeOnPurpose

\* A process that is asked to stop stops; the calendar and the stock are bound.
CHECK_DEADLOCK FALSE

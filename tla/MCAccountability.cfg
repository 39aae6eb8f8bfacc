SPECIFICATION Spec

CONSTANTS
  EarlierSlot = m1
  Slot = {m1, m2}
  Student = {s1}
  ServiceDate <- MCServiceDate
  WindowDays = 2
  AppealWindow = 1
  MaxTime = 1
  MaxCorrections = 2

INVARIANTS
  LiveWarningIsNoShow
  AppealMatchesWarning
  SummaryMatchesOutcomes
  TierIsEarned
  CasePagesFit

PROPERTIES
  WarningEndsWithCause
  DecisionIsFinal

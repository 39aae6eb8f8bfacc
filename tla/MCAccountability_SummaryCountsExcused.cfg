SPECIFICATION Spec

CONSTANTS
  EarlierSlot = m1
  Slot = {m1}
  Student = {s1, s2}
  ServiceDate <- MCServiceDate
  WindowDays = 2
  AppealWindow = 0
  MaxTime = 1
  MaxCorrections = 1

INVARIANT SummaryCountsExcused

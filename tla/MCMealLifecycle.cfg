SPECIFICATION FairSpec

CONSTANTS
  Operator = {o1, o2}
  Schedule <- MCSchedule
  Servings <- MCServings
  EligibleCount <- MCEligibleCount
  EarlyStart = 1
  AlertLead = 1
  MaxTime = 4
  MaxForecasts = 1
  MaxCrashes = 1

INVARIANTS
  RecordsMatchStatus
  PlanAnswersLatestForecast
  OnceAndInTime
  MealPageFits

PROPERTIES
  CountedIsFinal
  CutoffIsProcessed
  ApprovedIsServed

SPECIFICATION FairSpec

CONSTANTS
  Operator = {o1}
  Schedule <- MCSchedule
  Servings = {40}
  EligibleCount = {60}
  EarlyStart = 1
  AlertLead = 1
  MaxTime = 4
  MaxForecasts = 1
  MaxCrashes = 1

PROPERTY LockedGetsForecast

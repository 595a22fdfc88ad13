SPECIFICATION Spec
CONSTANTS
  LastDay = 730
  DayOfMonth <- OfMonth
  DayOfYear <- OfYear
  FirstDays = {58}
  TicksPerDay = 1
  Horizon = 2
  MaxPower = 1
  MaxGap = 1
  MetaInterval = 1
  Offered <- FormChoices
  FormSettings <- Daily
  MaxEvents = 2
INVARIANTS
  TypeOK
  NotCountedTwice
  PeriodOwn
  LossBounded
  ChangesSaved
  KeyIsLatestBoundary
PROPERTIES
  NotOverbilled

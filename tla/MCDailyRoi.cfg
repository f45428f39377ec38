SPECIFICATION LiveSpec
CONSTANTS
  i1 = i1
  i2 = i2
  Investments = {i1, i2}
  LastDay = 4
  Trading = {1, 3, 4}
  MaxDays = 2
  Runs = {r1, r2}
  Scenes <- MCScenes
INVARIANTS PaidOncePerDay NothingIsOwed
PROPERTY EveryDayIsPaid
CHECK_DEADLOCK FALSE

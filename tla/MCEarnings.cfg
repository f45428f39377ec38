CONSTANTS
  p1 = p1
  p2 = p2
  p3 = p3
  Investments = {1, 2, 3}
  Cap <- ThreeCaps
  Payouts = {p1, p2, p3}
  Intended <- LargeAmounts
  Bought = {1, 2}
  None = None
  Levels = 2
  Evaluations = {e1, e2}
  Runs = {w1, w2}
  Scenes <- MCScenes
SPECIFICATION MCSpec
INVARIANTS CapHolds CappedIffFull PaidIsConsumed RewardIsPaidAsStamped CurrentIsHighest
PROPERTIES  EveryInstalmentIsPaid
CHECK_DEADLOCK FALSE

CONSTANTS
  r1 = r1
  r2 = r2
  Payouts = {1, 2}
  Runs = {r1, r2}
  Scenes <- MCScenes
SPECIFICATION FairSpec
INVARIANTS NeverResent StatusMatchesChain
PROPERTY EveryPayoutEnds
CHECK_DEADLOCK FALSE

CONSTANTS
  r1 = r1
  r2 = r2
  Payouts = {1}
  Runs = {r1, r2}
  Scenes <- RevertingScenes
SPECIFICATION Spec
INVARIANT NeverResent
CHECK_DEADLOCK FALSE

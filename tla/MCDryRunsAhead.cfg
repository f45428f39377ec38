CONSTANTS
  r1 = r1
  Runs = {r1}
  Real = Real
  Trading = {1, 2, 3, 4}
  Month = 2
  Scenes <- MCScenes
SPECIFICATION Spec
INVARIANT NightPaysEverybody
CHECK_DEADLOCK FALSE

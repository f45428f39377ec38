CONSTANTS
  r1 = r1
  r2 = r2
  Admins = {a1, a2}
  Nobody = Nobody
  Calls = {c1, c2}
  Requests = {q1, q2}
  Scenes <- MCScenes
  Members = {m1, m2}
  Clerks = {c1, c2}
  Claims = {k1, k2}
  Terms <- MCTerms
  MaxTickets = 2
  Stream <- MCStream
  DrawScenes <- MCDrawScenes
  Runs = {r1, r2}
  Real = Real
  Trading = {1, 2, 3, 4}
  Month = 2
  RunScenes <- MCRunScenes
SPECIFICATION MCSpec
INVARIANTS MoneyMatchesDecision MovedByAnother PrizePaidOnce   
CHECK_DEADLOCK FALSE

CONSTANTS
  m1 = m1
  w1 = w1
  w2 = w2
  None = None
  Members = {m1}
  Ids = {w1, w2}
  Owner <- MCOwner
  Amount <- MCAmount
  Openings = {4, 5}
  KycLimit = 4
  Approvals = {a1, a2}
  Handlers = {h1}
  Tracks = {k1, k2}
  Deployments <- MCDeployments
  DepositIds = {d1, d2}
  Providers = {k1, k2}
  InvoiceIds = {i1}
  Confirmations = {a1, a2}
SPECIFICATION MCSpec
INVARIANTS MoneyMatchesStatus OneHandover  NothingIsForgotten
PROPERTIES ImplementsPromise
SYMMETRY MCSymmetry
CHECK_DEADLOCK FALSE

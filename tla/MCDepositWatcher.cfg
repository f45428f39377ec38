SPECIFICATION LiveSpec
CONSTANTS
  t1 = t1
  t2 = t2
  Txs = {t1, t2}
  Logs <- MixedLogs
  Creditable <- MixedCreditable
  Scanners = {s1, s2}
  Confirmations = 1
  ScanBatch = 2
  Scenes <- MCScenes
  None = None
INVARIANTS CreditedOnceDeep NothingSkipped
PROPERTY DeepIsCredited
CHECK_DEADLOCK FALSE

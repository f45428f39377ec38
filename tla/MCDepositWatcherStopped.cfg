SPECIFICATION Spec
CONSTANTS
  t1 = t1
  t2 = t2
  Txs = {t1}
  Logs <- OneLog
  Creditable <- OneLog
  Scanners = {s1}
  Confirmations = 1
  ScanBatch = 2
  Scenes <- StoppedScenes
  None = None
INVARIANT PassedIsCredited
CHECK_DEADLOCK FALSE

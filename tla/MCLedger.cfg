CONSTANTS
  main = main
  fund = fund
  NoTx = NoTx
  Txs = {t1, t2, t3}
  Wallets <- MCWallets
  Opening <- MCOpening
  Operations <- MCOperations
  References <- MCReferences
SPECIFICATION FairSpec
INVARIANTS RunningBalance PostedOnce
PROPERTIES ImplementsPromise EveryTransactionEnds
CHECK_DEADLOCK FALSE

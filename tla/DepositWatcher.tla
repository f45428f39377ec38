--------------------------- MODULE DepositWatcher ---------------------------
(***************************************************************************)
(* The deposit watcher: scanForDeposits and recordTransfer in              *)
(* core/chain/watcher.ts, and createConfirmed in deposit.service.ts.       *)
(*                                                                         *)
(* A scan runs every 30 seconds, and from the operator's console, whether  *)
(* or not the last one has finished, so two may overlap; any of them may   *)
(* stop between two writes.  The chain below grows, and the blocks not yet *)
(* deep enough may be replaced.                                            *)
(***************************************************************************)
EXTENDS Integers, FiniteSets

CONSTANTS
  Txs,             \* transactions
  Logs,            \* their Transfer logs to watched addresses: [tx |-> , index |-> ]
  Creditable,      \* those from outside and not below the minimum
  Scanners,        \* the scans that may run at a time
  Confirmations, ScanBatch,
  Scenes,          \* [logs : the logs the transactions have,
                   \*  first : the cursor earlier scans left, or None on the first run,
                   \*  failing : the places in a scan where it may throw or its process die,
                   \*  inserts : whether an insert may fail for another reason than its key,
                   \*  reports : whether members report their transfers themselves,
                   \*  height : bound on the chain]
  None

Places == {"cursor", "logs", "record", "find", "create", "confirm", "mark"}

ASSUME WatcherAssumption ==
  /\ Creditable \subseteq Logs
  /\ \A l \in Logs : l.tx \in Txs /\ l.index \in Nat
  /\ Confirmations \in Nat /\ ScanBatch \in Nat \ {0}
  /\ None \notin Logs \union Nat
  /\ Scenes \subseteq [logs : SUBSET Logs, first : Nat \union {None}, failing : SUBSET Places,
                       inserts : BOOLEAN, reports : BOOLEAN, height : Nat]
  /\ \A s \in Scenes : s.first = None \/ s.first + Confirmations \in 1..s.height

VARIABLES
  scene,    \* the one of Scenes that is played
  head,     \* the height of the chain
  block,    \* [Txs -> the block a transaction is in, 0 while in none]
  cursor,   \* ChainCursor.lastBlock, or None
  origin,   \* the first block the scans that wrote the cursor have read (history)
  row,      \* [Logs -> the OnChainTransfer row]
  deposit,  \* [Txs -> the Deposit row that holds the hash]
  credits,  \* [Txs -> Nat], credits posted for that deposit
  scan      \* [Scanners -> where each scan is]

chain == <<head, block>>
vars == <<scene, chain, cursor, origin, row, deposit, credits, scan>>

NoDeposit == [status |-> "none", by |-> "nobody"]
IdleScan == [pc |-> "idle", safe |-> 0, from |-> 0, to |-> 0, todo |-> {}, log |-> None]

Init ==
  /\ scene \in Scenes
  /\ head = IF scene.first = None THEN 0 ELSE scene.first + Confirmations
  /\ block = [tx \in Txs |-> 0]
  /\ cursor = scene.first
  /\ origin = IF scene.first = None THEN None ELSE scene.first + 1
  /\ row = [l \in Logs |-> "none"]
  /\ deposit = [tx \in Txs |-> NoDeposit]
  /\ credits = [tx \in Txs |-> 0]
  /\ scan = [s \in Scanners |-> IdleScan]

-----------------------------------------------------------------------------
(* The chain, the member and the operator *)

\* A block is mined, with some of the waiting transactions in it.
Mine ==
  /\ head < scene.height
  /\ head' = head + 1
  /\ \E included \in SUBSET {tx \in Txs : block[tx] = 0} :
       block' = [tx \in Txs |-> IF tx \in included THEN head + 1 ELSE block[tx]]
  /\ UNCHANGED <<scene, cursor, origin, row, deposit, credits, scan>>

\* A reorganisation of blocks that are not CHAIN_CONFIRMATIONS deep moves a
\* transaction among them, or out of the chain.
Reorg(tx) ==
  /\ block[tx] > head - Confirmations /\ block[tx] # 0
  /\ \E b \in {0} \union {n \in 1..head : n > head - Confirmations} : block' = [block EXCEPT ![tx] = b]
  /\ UNCHANGED <<scene, head, cursor, origin, row, deposit, credits, scan>>

\* create(): a member reports a transfer under its hash.
Report(tx) ==
  /\ scene.reports /\ deposit[tx] = NoDeposit
  /\ deposit' = [deposit EXCEPT ![tx] = [status |-> "PENDING", by |-> "member"]]
  /\ UNCHANGED <<scene, chain, cursor, origin, row, credits, scan>>

\* An operator decides a deposit that is pending.
OperatorConfirms(tx) ==
  /\ deposit[tx].status = "PENDING"
  /\ deposit' = [deposit EXCEPT ![tx].status = "PROCESSED"]
  /\ credits' = [credits EXCEPT ![tx] = @ + 1]
  /\ UNCHANGED <<scene, chain, cursor, origin, row, scan>>

OperatorRejects(tx) ==
  /\ deposit[tx].status = "PENDING"
  /\ deposit' = [deposit EXCEPT ![tx].status = "REJECTED"]
  /\ UNCHANGED <<scene, chain, cursor, origin, row, credits, scan>>

-----------------------------------------------------------------------------
(* scanForDeposits *)

At(s, pc) == scan[s].pc = pc
Goto(s, pc) == scan' = [scan EXCEPT ![s].pc = pc]
Stop(s) == scan' = [scan EXCEPT ![s] = IdleScan]

\* Wrong variant: the scan reads up to the head of the chain.
ReadHeadUnconfirmed(s) ==
  /\ At(s, "idle") /\ head > 0
  /\ scan' = [scan EXCEPT ![s].pc = "cursor", ![s].safe = head]
  /\ UNCHANGED <<scene, chain, cursor, origin, row, deposit, credits>>

\* The scan reads only what is already deep enough.
ReadHead(s) ==
  /\ At(s, "idle") /\ head - Confirmations > 0
  /\ scan' = [scan EXCEPT ![s].pc = "cursor", ![s].safe = head - Confirmations]
  /\ UNCHANGED <<scene, chain, cursor, origin, row, deposit, credits>>

\* Wrong variant: every scan starts at the safe head, as the first one does.
ReadCursorAtHead(s) ==
  /\ At(s, "cursor")
  /\ scan' = [scan EXCEPT ![s].pc = "logs", ![s].from = scan[s].safe, ![s].to = scan[s].safe]
  /\ UNCHANGED <<scene, chain, cursor, origin, row, deposit, credits>>

\* The batch: from the block after the cursor, ScanBatch blocks at most.
ReadCursor(s) ==
  LET safe == scan[s].safe
      from == IF cursor = None THEN safe ELSE cursor + 1
      last == from + ScanBatch - 1
      to   == IF last < safe THEN last ELSE safe
  IN /\ At(s, "cursor")
     /\ IF from > safe THEN Stop(s)
        ELSE scan' = [scan EXCEPT ![s].pc = "logs", ![s].from = from, ![s].to = to]
     /\ UNCHANGED <<scene, chain, cursor, origin, row, deposit, credits>>

\* getLogs over the batch.
ReadLogs(s) ==
  /\ At(s, "logs")
  /\ scan' = [scan EXCEPT ![s].pc = "record",
                ![s].todo = {l \in scene.logs : block[l.tx] \in scan[s].from..scan[s].to}]
  /\ UNCHANGED <<scene, chain, cursor, origin, row, deposit, credits>>

Before(k, l) == \/ block[k.tx] < block[l.tx]
                \/ (k.tx = l.tx /\ k.index < l.index)

\* The logs a scan may turn to: by block, and in a transaction by index.
NextLogs(s) == {l \in scan[s].todo : ~\E k \in scan[s].todo : Before(k, l)}

Drop(s, l) == scan' = [scan EXCEPT ![s].pc = "record", ![s].todo = @ \ {l}, ![s].log = None]

\* The row that makes a transfer ours, or refuses it as recorded already, or
\* files it as one not to credit.
Record(s) ==
  /\ At(s, "record")
  /\ \E l \in NextLogs(s) :
       \/ row[l] # "none" /\ Drop(s, l) /\ UNCHANGED row
       \/ /\ row[l] = "none" /\ l \notin Creditable
          /\ row' = [row EXCEPT ![l] = "IGNORED"]
          /\ Drop(s, l)
       \/ /\ row[l] = "none" /\ l \in Creditable
          /\ row' = [row EXCEPT ![l] = "SEEN"]
          /\ scan' = [scan EXCEPT ![s].pc = "find", ![s].log = l]
  /\ UNCHANGED <<scene, chain, cursor, origin, deposit, credits>>

\* Both inserts catch every error as "already recorded".
RecordFails(s) ==
  /\ At(s, "record") /\ scene.inserts
  /\ \E l \in NextLogs(s) : Drop(s, l)
  /\ UNCHANGED <<scene, chain, cursor, origin, row, deposit, credits>>

Hash(s) == scan[s].log.tx

\* createConfirmed: a deposit that holds the hash is returned as it is.
FindDeposit(s) ==
  /\ At(s, "find")
  /\ Goto(s, IF deposit[Hash(s)] = NoDeposit THEN "create" ELSE "mark")
  /\ UNCHANGED <<scene, chain, cursor, origin, row, deposit, credits>>

\* Wrong variant: the hash is not unique among deposits.
CreateDepositAgain(s) ==
  /\ At(s, "create")
  /\ deposit' = [deposit EXCEPT ![Hash(s)] = [status |-> "PENDING", by |-> "watcher"]]
  /\ Goto(s, "confirm")
  /\ UNCHANGED <<scene, chain, cursor, origin, row, credits>>

\* The unique hash refuses a second deposit, and the scan throws.
CreateDeposit(s) ==
  /\ At(s, "create")
  /\ \/ /\ deposit[Hash(s)] = NoDeposit
        /\ deposit' = [deposit EXCEPT ![Hash(s)] = [status |-> "PENDING", by |-> "watcher"]]
        /\ Goto(s, "confirm")
     \/ deposit[Hash(s)] # NoDeposit /\ Stop(s) /\ UNCHANGED deposit
  /\ UNCHANGED <<scene, chain, cursor, origin, row, credits>>

\* confirm(), whose own races are the subject of Deposits.
ConfirmDeposit(s) ==
  /\ At(s, "confirm")
  /\ \/ /\ deposit[Hash(s)].status = "PENDING"
        /\ deposit' = [deposit EXCEPT ![Hash(s)].status = "PROCESSED"]
        /\ credits' = [credits EXCEPT ![Hash(s)] = @ + 1]
        /\ Goto(s, "mark")
     \/ deposit[Hash(s)].status = "PROCESSED" /\ Goto(s, "mark") /\ UNCHANGED <<deposit, credits>>
     \/ deposit[Hash(s)].status = "REJECTED" /\ Stop(s) /\ UNCHANGED <<deposit, credits>>
  /\ UNCHANGED <<scene, chain, cursor, origin, row>>

\* The row is CREDITED with whatever deposit createConfirmed returned.
MarkCredited(s) ==
  /\ At(s, "mark")
  /\ row' = [row EXCEPT ![scan[s].log] = "CREDITED"]
  /\ Drop(s, scan[s].log)
  /\ UNCHANGED <<scene, chain, cursor, origin, deposit, credits>>

\* Wrong variant: the cursor jumps to the safe head, not to the batch's end.
AdvanceToHead(s) ==
  /\ At(s, "record") /\ scan[s].todo = {}
  /\ cursor' = scan[s].safe
  /\ origin' = IF cursor = None THEN scan[s].from ELSE origin
  /\ Stop(s)
  /\ UNCHANGED <<scene, chain, row, deposit, credits>>

\* The whole batch is done: the cursor moves to its end.
Advance(s) ==
  /\ At(s, "record") /\ scan[s].todo = {}
  /\ cursor' = scan[s].to
  /\ origin' = IF cursor = None THEN scan[s].from ELSE origin
  /\ Stop(s)
  /\ UNCHANGED <<scene, chain, row, deposit, credits>>

\* The scan throws or its process dies; the next one starts afresh.
ScanStops(s) ==
  /\ scan[s].pc \in scene.failing
  /\ Stop(s)
  /\ UNCHANGED <<scene, chain, cursor, origin, row, deposit, credits>>

-----------------------------------------------------------------------------

Next ==
  \/ Mine
  \/ \E tx \in Txs : Reorg(tx) \/ Report(tx) \/ OperatorConfirms(tx) \/ OperatorRejects(tx)
  \/ \E s \in Scanners :
       \/ ReadHead(s) \/ ReadCursor(s) \/ ReadLogs(s) \/ Record(s) \/ RecordFails(s)
       \/ FindDeposit(s) \/ CreateDeposit(s) \/ ConfirmDeposit(s) \/ MarkCredited(s)
       \/ Advance(s) \/ ScanStops(s)

Spec == Init /\ [][Next]_vars

\* The scheduler starts a scan every 30 seconds, a running one goes on, and a
\* provider that is asked again and again answers in the end.
LiveSpec ==
  /\ Spec
  /\ \A s \in Scanners :
       /\ WF_vars(ReadHead(s)) /\ SF_vars(ReadCursor(s)) /\ SF_vars(ReadLogs(s))
       /\ WF_vars(Record(s)) /\ WF_vars(FindDeposit(s)) /\ WF_vars(CreateDeposit(s))
       /\ WF_vars(ConfirmDeposit(s)) /\ WF_vars(MarkCredited(s)) /\ WF_vars(Advance(s))

-----------------------------------------------------------------------------
(* Properties *)

Deep(tx) == block[tx] # 0 /\ block[tx] <= head - Confirmations
Passed(tx) == cursor # None /\ block[tx] \in origin..cursor
AtWork(l) == \E s \in Scanners : scan[s].log = l

\* However scans overlap, whatever they see twice, a transaction is credited
\* once at most: watcher.ts "Double crediting".  And a credit the watcher brought
\* about answers a transfer to a member that no reorganisation can take back.
CreditedOnceDeep ==
  \A tx \in Txs :
    /\ credits[tx] <= 1
    /\ deposit[tx].by = "watcher" =>
         Deep(tx) /\ \E l \in Creditable : l.tx = tx /\ row[l] \in {"SEEN", "CREDITED"}

\* Once a first scan has written the cursor, and as long as an insert fails
\* over its key only, the cursor never stands past a transfer that was not
\* recorded, although scans stop half way, overlap, and move it back.
NothingSkipped ==
  scene.first # None /\ ~scene.inserts =>
    \A l \in scene.logs : Passed(l.tx) => row[l] # "none"

\* A transfer the cursor has passed, and no scan is working on, is credited:
\* a scan that stops half way is repeated, it does not skip.
PassedIsCredited ==
  \A l \in Creditable \intersect scene.logs : Passed(l.tx) /\ ~AtWork(l) =>
    \/ row[l] = "CREDITED"
    \/ deposit[l.tx].status = "REJECTED"

\* Nothing fails but the provider's answers.
ProviderOnly ==
  scene.first # None /\ ~scene.inserts /\ ~scene.reports /\ scene.failing = {"cursor", "logs"}

OnlyOne(l) == {k \in Creditable \intersect scene.logs : k.tx = l.tx} = {l}

\* Then a transfer that is deep, ahead of the cursor and the only one of its
\* transaction to credit is credited in the end, unless an operator rejects its
\* deposit.
DeepIsCredited ==
  \A l \in Creditable :
    (ProviderOnly /\ OnlyOne(l) /\ cursor # None /\ Deep(l.tx) /\ block[l.tx] > cursor)
      ~> \/ row[l] = "CREDITED" /\ credits[l.tx] = 1
         \/ deposit[l.tx].status = "REJECTED"
=============================================================================

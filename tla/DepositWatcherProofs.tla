------------------------ MODULE DepositWatcherProofs ------------------------
(***************************************************************************)
(* What holds of the deposit watcher for any transactions, logs, scanners, *)
(* depth and batch.  A transaction is credited once because its credit and *)
(* its status change together, and for a transfer that stays because only  *)
(* blocks no reorganisation reaches are read.  Nothing is skipped because  *)
(* the cursor only ever moves to the end of a batch that a scan has worked *)
(* through, and every batch begins where the recorded blocks end.          *)
(***************************************************************************)
EXTENDS DepositWatcher, TLAPS

ScanRecord ==
  [pc : Places \union {"idle"}, safe : Nat, from : Nat, to : Nat, todo : SUBSET Logs,
   log : Logs \union {None}]

TypeOK ==
  /\ scene \in Scenes
  /\ head \in Nat /\ block \in [Txs -> Nat]
  /\ cursor \in Nat \union {None} /\ origin \in Nat \union {None}
  /\ row \in [Logs -> {"none", "IGNORED", "SEEN", "CREDITED"}]
  /\ deposit \in [Txs -> [status : {"none", "PENDING", "PROCESSED", "REJECTED"},
                          by : {"nobody", "member", "watcher"}]]
  /\ credits \in [Txs -> Nat]
  /\ scan \in [Scanners -> ScanRecord]

\* A scan reads blocks that are deep enough, and only those.
Safe(r) ==
  /\ r.pc # "idle" => 1 <= r.safe /\ r.safe <= head - Confirmations
  /\ r.pc \notin {"idle", "cursor"} => 1 <= r.from /\ r.from <= r.to /\ r.to <= r.safe
  /\ \A l \in r.todo : Deep(l.tx)

\* l is claimed by a scan that works, or has worked, on it.
Ours(l) == l \in Creditable /\ row[l] \in {"SEEN", "CREDITED"}

WorksOnOurs(r) ==
  r.pc \in {"find", "create", "confirm", "mark"} => r.log \in r.todo /\ Ours(r.log)

ScansAreSafe == \A s \in Scanners : Safe(scan[s]) /\ WorksOnOurs(scan[s])

\* A credit and the status it comes with.
CreditsFollowDeposits ==
  \A tx \in Txs : credits[tx] = IF deposit[tx].status = "PROCESSED" THEN 1 ELSE 0

WatcherDepositsAreDeep ==
  \A tx \in Txs : deposit[tx].by = "watcher" => Deep(tx) /\ \E l \in Logs : l.tx = tx /\ Ours(l)

\* Every log of those blocks has a row.
Recorded(first, last) ==
  \A l \in scene.logs : block[l.tx] \in first..last => row[l] # "none"

\* What the cursor has passed is recorded, and deep.
CursorIsCovered ==
  /\ origin = scene.first + 1
  /\ cursor \in Nat /\ scene.first <= cursor /\ cursor <= head - Confirmations
  /\ Recorded(origin, cursor)

\* A batch begins where the recorded blocks end, and what the scan has not yet
\* to do is recorded.
Covered(r) ==
  /\ r.pc \notin {"idle", "cursor"} => origin <= r.from /\ Recorded(origin, r.from - 1)
  /\ r.pc \notin {"idle", "cursor", "logs"} =>
       \A l \in scene.logs \ r.todo : block[l.tx] \in r.from..r.to => row[l] # "none"

BatchesAreCovered == \A s \in Scanners : Covered(scan[s])

Steady == scene.first # None /\ ~scene.inserts

IInv ==
  /\ TypeOK /\ ScansAreSafe /\ CreditsFollowDeposits /\ WatcherDepositsAreDeep
  /\ Steady => CursorIsCovered /\ BatchesAreCovered

USE DEF Deep

-----------------------------------------------------------------------------
\* What the assumption says of the scene that is played.
LEMMA SceneType ==
  ASSUME TypeOK
  PROVE  /\ scene.logs \subseteq Logs /\ scene.first \in Nat \union {None}
         /\ \A l \in Logs : l.tx \in Txs /\ l # None
         /\ Creditable \subseteq Logs
         /\ None \notin Nat
         /\ Confirmations \in Nat /\ ScanBatch \in Nat \ {0}
BY WatcherAssumption DEF TypeOK

\* Nothing has been read, reported or credited.
LEMMA InitInvariant == Init => IInv
<1> SUFFICES ASSUME Init PROVE IInv
  OBVIOUS
<1>1. scene \in Scenes /\ scene.first \in Nat \union {None}
  BY WatcherAssumption DEF Init
<1>2. scene.first # None => scene.first \in Nat /\ scene.first + 1 \in Nat /\ scene.first + Confirmations \in Nat
  BY <1>1, WatcherAssumption
<1>3. TypeOK
  <2>1. head \in Nat /\ cursor \in Nat \union {None} /\ origin \in Nat \union {None}
    BY <1>1, <1>2 DEF Init
  <2>2. scan \in [Scanners -> ScanRecord]
    BY DEF Init, IdleScan, ScanRecord
  <2> QED
    BY <1>1, <2>1, <2>2 DEF Init, TypeOK, NoDeposit
<1>4. ScansAreSafe
  BY DEF Init, IdleScan, ScansAreSafe, Safe, WorksOnOurs
<1>5. CreditsFollowDeposits /\ WatcherDepositsAreDeep
  BY DEF Init, NoDeposit, CreditsFollowDeposits, WatcherDepositsAreDeep
<1>6. ASSUME Steady PROVE CursorIsCovered /\ BatchesAreCovered
  <2>1. cursor = scene.first /\ origin = scene.first + 1 /\ head = scene.first + Confirmations
    BY <1>6 DEF Init, Steady
  <2>2. cursor \in Nat /\ Confirmations \in Nat
    BY <1>2, <1>6, <2>1, WatcherAssumption DEF Steady
  <2>3. \A n : n \notin origin..cursor
    BY <2>1, <2>2
  <2>4. CursorIsCovered
    BY <2>1, <2>2, <2>3 DEF CursorIsCovered, Recorded
  <2>5. BatchesAreCovered
    BY DEF Init, IdleScan, BatchesAreCovered, Covered
  <2> QED
    BY <2>4, <2>5
<1> QED
  BY <1>3, <1>4, <1>5, <1>6 DEF IInv

-----------------------------------------------------------------------------
\* No block that is deep changes: what is mined stands above them, and what is
\* replaced does.
LEMMA DeepStays ==
  ASSUME TypeOK, Mine \/ \E tx \in Txs : Reorg(tx)
  PROVE  /\ head' \in Nat /\ head' >= head /\ block' \in [Txs -> Nat]
         /\ \A tx \in Txs : Deep(tx) => block'[tx] = block[tx] /\ Deep(tx)'
         /\ \A tx \in Txs : Deep(tx)' /\ block'[tx] <= head - Confirmations => block'[tx] = block[tx]
<1> USE SceneType DEF TypeOK
<1>1. CASE Mine
  <2>1. head' = head + 1
    BY <1>1 DEF Mine
  <2>2. PICK included \in SUBSET {tx \in Txs : block[tx] = 0} :
          block' = [tx \in Txs |-> IF tx \in included THEN head + 1 ELSE block[tx]]
    BY <1>1 DEF Mine
  <2> QED
    BY <2>1, <2>2
<1>2. ASSUME NEW tx \in Txs, Reorg(tx)
      PROVE  /\ head' = head /\ block' \in [Txs -> Nat]
             /\ ~Deep(tx) /\ \A t \in Txs \ {tx} : block'[t] = block[t]
             /\ block'[tx] = 0 \/ block'[tx] > head - Confirmations
  <2>1. PICK b \in {0} \union {n \in 1..head : n > head - Confirmations} : block' = [block EXCEPT ![tx] = b]
    BY <1>2 DEF Reorg
  <2>2. b \in Nat
    OBVIOUS
  <2> QED
    BY <1>2, <2>1, <2>2 DEF Reorg
<1>3. CASE \E tx \in Txs : Reorg(tx)
  <2>1. PICK tx \in Txs : Reorg(tx)
    BY <1>3
  <2> QED
    BY <1>2, <2>1
<1> QED
  BY <1>1, <1>3

LEMMA ChainInvariant ==
  ASSUME IInv, Mine \/ \E tx \in Txs : Reorg(tx)
  PROVE  IInv'
<1> USE SceneType, DeepStays DEF IInv
<1>1. UNCHANGED <<scene, cursor, origin, row, deposit, credits, scan>>
  BY DEF Mine, Reorg
<1>2. TypeOK'
  BY <1>1 DEF TypeOK
<1>3. ScansAreSafe'
  <2>1. \A s \in Scanners : scan[s].safe \in Nat /\ scan[s].todo \subseteq Logs
    BY DEF TypeOK, ScanRecord
  <2>2. head \in Nat
    BY DEF TypeOK
  <2> QED
    BY <1>1, <2>1, <2>2 DEF ScansAreSafe, Safe, WorksOnOurs, Ours
<1>4. CreditsFollowDeposits' /\ WatcherDepositsAreDeep'
  BY <1>1 DEF Ours, CreditsFollowDeposits, WatcherDepositsAreDeep
<1>5. ASSUME Steady PROVE CursorIsCovered' /\ BatchesAreCovered'
  <2>1. CursorIsCovered /\ BatchesAreCovered /\ origin \in Nat /\ origin >= 1 /\ head \in Nat
    BY <1>5 DEF Steady, CursorIsCovered, TypeOK
  <2>2. ASSUME NEW l \in scene.logs, NEW a \in Nat, NEW b \in Int, 1 <= a, b <= head - Confirmations,
               block'[l.tx] \in a..b
        PROVE  block[l.tx] \in a..b
    <3>1. l.tx \in Txs /\ block'[l.tx] \in Nat
      OBVIOUS
    <3> QED
      BY <2>1, <2>2, <3>1
  <2>3. \A s \in Scanners : scan[s].safe \in Nat /\ scan[s].from \in Nat /\ scan[s].to \in Nat
    BY DEF TypeOK, ScanRecord
  <2>4. CursorIsCovered'
    BY <1>1, <2>1, <2>2 DEF CursorIsCovered, Recorded
  <2>5. ASSUME NEW s \in Scanners, scan[s].pc \notin {"idle", "cursor"}
        PROVE  /\ origin <= scan[s].from /\ Recorded(origin, scan[s].from - 1)'
               /\ scan[s].pc # "logs" => \A l \in scene.logs \ scan[s].todo :
                    block'[l.tx] \in scan[s].from..scan[s].to => row[l] # "none"
    <3>1. /\ 1 <= scan[s].from /\ scan[s].from - 1 <= head - Confirmations
          /\ scan[s].to <= head - Confirmations /\ scan[s].from - 1 \in Int
      BY <2>1, <2>3, <2>5 DEF ScansAreSafe, Safe
    <3>2. origin <= scan[s].from /\ Recorded(origin, scan[s].from - 1)
      BY <2>1, <2>5 DEF BatchesAreCovered, Covered
    <3>3. Recorded(origin, scan[s].from - 1)'
      BY <1>1, <2>1, <2>2, <3>1, <3>2 DEF Recorded
    <3>4. ASSUME scan[s].pc # "logs", NEW l \in scene.logs \ scan[s].todo,
                 block'[l.tx] \in scan[s].from..scan[s].to
          PROVE  row[l] # "none"
      <4>1. block[l.tx] \in scan[s].from..scan[s].to
        BY <2>2, <2>3, <3>1, <3>4
      <4> QED
        BY <2>1, <2>5, <3>4, <4>1 DEF BatchesAreCovered, Covered
    <3> QED
      BY <3>2, <3>3, <3>4
  <2>6. BatchesAreCovered'
    BY <1>1, <2>5 DEF BatchesAreCovered, Covered
  <2> QED
    BY <2>4, <2>6
<1>6. Steady' <=> Steady
  BY <1>1 DEF Steady
<1> QED
  BY <1>2, <1>3, <1>4, <1>5, <1>6

\* Members and operators touch deposits only.
LEMMA PeopleInvariant ==
  ASSUME IInv, NEW tx \in Txs, Report(tx) \/ OperatorConfirms(tx) \/ OperatorRejects(tx)
  PROVE  IInv'
<1> USE DEF IInv
<1>1. UNCHANGED <<scene, chain, cursor, origin, row, scan>>
  BY DEF Report, OperatorConfirms, OperatorRejects
<1>2. /\ deposit' \in [Txs -> [status : {"none", "PENDING", "PROCESSED", "REJECTED"},
                               by : {"nobody", "member", "watcher"}]]
      /\ credits' \in [Txs -> Nat]
      /\ \A t \in Txs : deposit'[t].by = "watcher" => deposit[t].by = "watcher"
      /\ CreditsFollowDeposits'
  <2> USE DEF TypeOK, CreditsFollowDeposits
  <2>1. CASE Report(tx)
    BY <2>1 DEF Report, NoDeposit
  <2>2. CASE OperatorConfirms(tx)
    BY <2>2 DEF OperatorConfirms
  <2>3. CASE OperatorRejects(tx)
    BY <2>3 DEF OperatorRejects
  <2> QED
    BY <2>1, <2>2, <2>3
<1>3. TypeOK'
  BY <1>1, <1>2 DEF TypeOK, chain
<1>4. ScansAreSafe' /\ WatcherDepositsAreDeep'
  BY <1>1, <1>2 DEF ScansAreSafe, Safe, WorksOnOurs, Ours, WatcherDepositsAreDeep, chain
<1>5. (Steady => CursorIsCovered /\ BatchesAreCovered)'
  BY <1>1 DEF Steady, CursorIsCovered, BatchesAreCovered, Covered, Recorded, chain
<1> QED
  BY <1>2, <1>3, <1>4, <1>5

-----------------------------------------------------------------------------
\* What a step of one scan has to show: its own record is in order, the rows it
\* leaves are those it found or more, and it makes deposits for its own log only.
LEMMA OneScan ==
  ASSUME IInv, NEW s \in Scanners,
         UNCHANGED <<scene, chain>>,
         \A u \in Scanners \ {s} : scan'[u] = scan[u],
         TypeOK', CreditsFollowDeposits',
         \A l \in Logs : (row[l] # "none" => row'[l] # "none") /\ (Ours(l) => Ours(l)'),
         \A tx \in Txs : deposit'[tx].by = "watcher" =>
           \/ deposit[tx].by = "watcher"
           \/ WorksOnOurs(scan[s]) /\ scan[s].pc = "create" /\ tx = scan[s].log.tx,
         (Safe(scan[s]) /\ WorksOnOurs(scan[s]))',
         Steady => origin' = origin /\ CursorIsCovered' /\ Covered(scan[s])'
  PROVE  IInv'
<1> USE SceneType DEF IInv
<1>1. \A tx \in Txs : Deep(tx)' <=> Deep(tx)
  BY DEF chain
<1>2. head' = head /\ block' = block
  BY DEF chain
<1>3. ScansAreSafe'
  <2>1. ASSUME NEW u \in Scanners \ {s}
        PROVE  Safe(scan[u])' /\ WorksOnOurs(scan[u])'
    <3>1. Safe(scan[u]) /\ WorksOnOurs(scan[u]) /\ scan'[u] = scan[u]
      BY DEF ScansAreSafe
    <3> QED
      BY <1>2, <3>1 DEF Safe, WorksOnOurs, Ours
  <2> QED
    BY <2>1 DEF ScansAreSafe
<1>4. WatcherDepositsAreDeep'
  <2>1. ASSUME NEW tx \in Txs, deposit'[tx].by = "watcher"
        PROVE  Deep(tx) /\ \E l \in Logs : l.tx = tx /\ Ours(l)
    <3>1. CASE deposit[tx].by = "watcher"
      BY <3>1 DEF WatcherDepositsAreDeep
    <3>2. CASE WorksOnOurs(scan[s]) /\ scan[s].pc = "create" /\ tx = scan[s].log.tx
      BY <3>2 DEF ScansAreSafe, Safe, WorksOnOurs, Ours
    <3> QED
      BY <2>1, <3>1, <3>2
  <2> QED
    BY <1>1, <2>1 DEF WatcherDepositsAreDeep
<1>5. ASSUME Steady PROVE CursorIsCovered' /\ BatchesAreCovered'
  <2>1. ASSUME NEW a, NEW b, Recorded(a, b) PROVE Recorded(a, b)'
    BY <1>2, <2>1 DEF Recorded
  <2>2. ASSUME NEW u \in Scanners \ {s} PROVE Covered(scan[u])'
    <3>1. Covered(scan[u]) /\ scan'[u] = scan[u] /\ origin' = origin
      BY <1>5 DEF BatchesAreCovered
    <3>2. scan[u].pc \notin {"idle", "cursor"} => Recorded(origin, scan[u].from - 1)'
      BY <2>1, <3>1 DEF Covered
    <3> QED
      BY <1>2, <3>1, <3>2 DEF Covered
  <2> QED
    BY <1>5, <2>2 DEF BatchesAreCovered
<1>6. Steady' <=> Steady
  BY DEF Steady
<1> QED
  BY <1>3, <1>4, <1>5, <1>6

\* A scan that moves on without writing anything.
LEMMA MovingScan ==
  ASSUME IInv, NEW s \in Scanners, NEW r \in ScanRecord,
         UNCHANGED <<scene, chain, cursor, origin, row, deposit, credits>>,
         scan' = [scan EXCEPT ![s] = r],
         Safe(r), WorksOnOurs(r), Steady => Covered(r)
  PROVE  IInv'
<1> USE DEF IInv
<1>1. TypeOK'
  BY DEF TypeOK, chain
<1>2. scan'[s] = r /\ \A u \in Scanners \ {s} : scan'[u] = scan[u]
  BY DEF TypeOK
<1>3. CreditsFollowDeposits' /\ \A l : Ours(l)' <=> Ours(l)
  BY DEF CreditsFollowDeposits, Ours
<1>4. (Safe(scan[s]) /\ WorksOnOurs(scan[s]))'
  BY <1>2 DEF Safe, WorksOnOurs, Ours, chain
<1>5. Steady => CursorIsCovered' /\ Covered(scan[s])'
  BY <1>2 DEF Covered, CursorIsCovered, Recorded, chain
<1> QED
  BY <1>1, <1>2, <1>3, <1>4, <1>5, OneScan

\* A scan that gives up has nothing to show.
LEMMA StopInvariant ==
  ASSUME IInv, NEW s \in Scanners, Stop(s),
         UNCHANGED <<scene, chain, cursor, origin, row, deposit, credits>>
  PROVE  IInv'
<1>1. IdleScan \in ScanRecord /\ Safe(IdleScan) /\ WorksOnOurs(IdleScan) /\ Covered(IdleScan)
  BY DEF IdleScan, ScanRecord, Safe, WorksOnOurs, Covered
<1> QED
  BY <1>1, MovingScan DEF Stop

\* A batch of deep blocks that begins after the cursor.
LEMMA ReadInvariant ==
  ASSUME IInv, NEW s \in Scanners, ReadHead(s) \/ ReadCursor(s) \/ ReadLogs(s)
  PROVE  IInv'
<1> USE SceneType DEF IInv
<1>1. scan[s] \in ScanRecord /\ head \in Nat /\ Safe(scan[s]) /\ WorksOnOurs(scan[s])
      /\ (Steady => CursorIsCovered /\ Covered(scan[s]))
  BY DEF TypeOK, ScansAreSafe, BatchesAreCovered
<1>2. UNCHANGED <<scene, chain, cursor, origin, row, deposit, credits>>
  BY DEF ReadHead, ReadCursor, ReadLogs
<1>3. CASE ReadHead(s)
  <2> DEFINE r == [scan[s] EXCEPT !.pc = "cursor", !.safe = head - Confirmations]
  <2>1. scan' = [scan EXCEPT ![s] = r] /\ scan[s].pc = "idle" /\ head - Confirmations > 0
    BY <1>3 DEF ReadHead, At
  <2>2. head - Confirmations \in Nat /\ 1 <= head - Confirmations
    BY <1>1, <2>1
  <2>3. r \in ScanRecord
    BY <1>1, <2>2 DEF ScanRecord, Places
  <2>4. Safe(r) /\ WorksOnOurs(r) /\ Covered(r)
    BY <1>1, <2>2 DEF Safe, WorksOnOurs, Covered, ScanRecord
  <2> HIDE DEF r
  <2> QED
    BY <1>2, <2>1, <2>3, <2>4, MovingScan
<1>4. CASE ReadCursor(s)
  <2> DEFINE safe == scan[s].safe
             from == IF cursor = None THEN safe ELSE cursor + 1
             last == from + ScanBatch - 1
             to   == IF last < safe THEN last ELSE safe
             r    == [scan[s] EXCEPT !.pc = "logs", !.from = from, !.to = to]
  <2>1. CASE from > safe
    BY <1>2, <1>4, <2>1, StopInvariant DEF ReadCursor
  <2>2. CASE ~(from > safe)
    <3>1. scan' = [scan EXCEPT ![s] = r] /\ scan[s].pc = "cursor"
      BY <1>4, <2>2 DEF ReadCursor, At
    <3>2. safe \in Nat /\ (cursor = None \/ cursor \in Nat)
      BY <1>1 DEF TypeOK, ScanRecord
    <3>3. from \in Nat /\ from <= safe /\ last \in Nat /\ from <= last
      BY <2>2, <3>2
    <3>4. to \in Nat /\ from <= to /\ to <= safe
      BY <3>2, <3>3
    <3>5. r \in ScanRecord
      BY <1>1, <3>3, <3>4 DEF ScanRecord, Places
    <3>6. 1 <= from
      BY <1>1, <3>1, <3>2 DEF Safe
    <3>7. Safe(r) /\ WorksOnOurs(r)
      BY <1>1, <3>1, <3>2, <3>4, <3>6 DEF Safe, WorksOnOurs, ScanRecord
    <3>8. ASSUME Steady PROVE Covered(r)
      <4>1. from = cursor + 1 /\ cursor \in Nat /\ origin \in Nat /\ origin <= from /\ Recorded(origin, from - 1)
        BY <1>1, <3>8 DEF Steady, CursorIsCovered, TypeOK
      <4> QED
        BY <1>1, <4>1 DEF Covered, ScanRecord
    <3> HIDE DEF r
    <3> QED
      BY <1>2, <3>1, <3>5, <3>7, <3>8, MovingScan
  <2> QED
    BY <2>1, <2>2
<1>5. CASE ReadLogs(s)
  <2> DEFINE todo == {l \in scene.logs : block[l.tx] \in scan[s].from..scan[s].to}
             r == [scan[s] EXCEPT !.pc = "record", !.todo = todo]
  <2>1. scan' = [scan EXCEPT ![s] = r] /\ scan[s].pc = "logs"
    BY <1>5 DEF ReadLogs, At
  <2>2. r \in ScanRecord
    BY <1>1 DEF ScanRecord, Places
  <2>3. /\ scan[s].from \in Nat /\ scan[s].to \in Nat /\ 1 <= scan[s].from /\ scan[s].safe \in Nat
        /\ scan[s].from <= scan[s].to /\ scan[s].to <= scan[s].safe /\ scan[s].safe <= head - Confirmations
    BY <1>1, <2>1 DEF Safe, ScanRecord
  <2>4. \A l \in todo : Deep(l.tx)
    <3>1. \A l \in todo : block[l.tx] \in Nat
      BY DEF TypeOK
    <3> QED
      BY <1>1, <2>3, <3>1
  <2>5. Safe(r) /\ WorksOnOurs(r)
    BY <1>1, <2>1, <2>3, <2>4 DEF Safe, WorksOnOurs, ScanRecord
  <2>6. ASSUME Steady PROVE Covered(r)
    BY <1>1, <2>1, <2>6 DEF Covered, ScanRecord
  <2> HIDE DEF r
  <2> QED
    BY <1>2, <2>1, <2>2, <2>5, <2>6, MovingScan
<1> QED
  BY <1>3, <1>4, <1>5

\* What comes next is one of those the scan has still to do.
LEMMA DropInvariant ==
  ASSUME IInv, NEW s \in Scanners, NEW l \in scan[s].todo, At(s, "record") \/ At(s, "mark"), Drop(s, l),
         UNCHANGED <<scene, chain, cursor, origin, deposit, credits>>,
         row' \in [Logs -> {"none", "IGNORED", "SEEN", "CREDITED"}],
         \A k \in Logs : (row[k] # "none" => row'[k] # "none") /\ (Ours(k) => Ours(k)'),
         Steady => row'[l] # "none"
  PROVE  IInv'
<1> USE SceneType DEF IInv
<1> DEFINE r == [scan[s] EXCEPT !.pc = "record", !.todo = @ \ {l}, !.log = None]
<1>1. scan[s] \in ScanRecord /\ Safe(scan[s]) /\ scan[s].pc \in {"record", "mark"}
  BY DEF TypeOK, ScansAreSafe, At
<1>2. r \in ScanRecord /\ r.pc = "record" /\ r.todo = scan[s].todo \ {l}
      /\ r.safe = scan[s].safe /\ r.from = scan[s].from /\ r.to = scan[s].to
  BY <1>1 DEF ScanRecord, Places
<1>3. scan' = [scan EXCEPT ![s] = r]
  BY DEF Drop
<1>4. Safe(r)
  BY <1>1, <1>2 DEF Safe
<1> HIDE DEF r
<1>5. scan'[s] = r /\ \A u \in Scanners \ {s} : scan'[u] = scan[u]
  BY <1>3 DEF TypeOK
<1>6. TypeOK'
  BY <1>2, <1>3 DEF TypeOK, chain
<1>7. CreditsFollowDeposits'
  BY DEF CreditsFollowDeposits
<1>8. (Safe(scan[s]) /\ WorksOnOurs(scan[s]))'
  BY <1>2, <1>4, <1>5 DEF Safe, WorksOnOurs, chain
<1>9. ASSUME Steady PROVE CursorIsCovered' /\ Covered(scan[s])'
  <2>1. CursorIsCovered /\ Covered(scan[s])
    BY <1>9 DEF BatchesAreCovered
  <2>2. \A a, b : Recorded(a, b) => Recorded(a, b)'
    BY DEF Recorded, chain
  <2>3. CursorIsCovered'
    BY <2>1, <2>2 DEF CursorIsCovered, chain
  <2>4. Covered(scan[s])'
    BY <1>1, <1>2, <1>5, <1>9, <2>1, <2>2 DEF Covered, chain
  <2> QED
    BY <2>3, <2>4
<1> QED
  BY <1>5, <1>6, <1>7, <1>8, <1>9, OneScan

\* A log without a row gets one, unless an insert fails.
LEMMA RecordInvariant ==
  ASSUME IInv, NEW s \in Scanners, Record(s) \/ RecordFails(s)
  PROVE  IInv'
<1> USE SceneType DEF IInv
<1>1. PICK l \in NextLogs(s) :
        \/ row[l] # "none" /\ Drop(s, l) /\ UNCHANGED row
        \/ /\ row[l] = "none" /\ l \notin Creditable
           /\ row' = [row EXCEPT ![l] = "IGNORED"]
           /\ Drop(s, l)
        \/ /\ row[l] = "none" /\ l \in Creditable
           /\ row' = [row EXCEPT ![l] = "SEEN"]
           /\ scan' = [scan EXCEPT ![s].pc = "find", ![s].log = l]
        \/ scene.inserts /\ Drop(s, l) /\ UNCHANGED row
  BY DEF Record, RecordFails
<1>2. At(s, "record") /\ UNCHANGED <<scene, chain, cursor, origin, deposit, credits>>
  BY DEF Record, RecordFails
<1>3. scan[s] \in ScanRecord /\ l \in scan[s].todo /\ l \in Logs
  BY DEF NextLogs, TypeOK, ScanRecord
<1>4. CASE Drop(s, l)
  <2>1. /\ row' \in [Logs -> {"none", "IGNORED", "SEEN", "CREDITED"}]
        /\ \A k \in Logs : (row[k] # "none" => row'[k] # "none") /\ (Ours(k) => Ours(k)')
        /\ Steady => row'[l] # "none"
    BY <1>1, <1>3 DEF TypeOK, Ours, Steady
  <2> QED
    BY <1>2, <1>3, <1>4, <2>1, DropInvariant
<1>5. CASE /\ row[l] = "none" /\ l \in Creditable /\ row' = [row EXCEPT ![l] = "SEEN"]
           /\ scan' = [scan EXCEPT ![s].pc = "find", ![s].log = l]
  <2> DEFINE r == [scan[s] EXCEPT !.pc = "find", !.log = l]
  <2>1. scan' = [scan EXCEPT ![s] = r]
    BY <1>5
  <2>2. /\ r \in ScanRecord /\ r.pc = "find" /\ r.todo = scan[s].todo /\ r.log = l
        /\ r.safe = scan[s].safe /\ r.from = scan[s].from /\ r.to = scan[s].to
    BY <1>3 DEF ScanRecord, Places
  <2> HIDE DEF r
  <2>3. /\ row' \in [Logs -> {"none", "IGNORED", "SEEN", "CREDITED"}]
        /\ \A k \in Logs : (row[k] # "none" => row'[k] # "none") /\ (Ours(k) => Ours(k)')
        /\ Ours(l)'
    BY <1>3, <1>5 DEF TypeOK, Ours
  <2>4. scan'[s] = r /\ \A u \in Scanners \ {s} : scan'[u] = scan[u]
    BY <2>1 DEF TypeOK
  <2>5. TypeOK'
    BY <1>2, <2>1, <2>2, <2>3 DEF TypeOK, chain
  <2>6. CreditsFollowDeposits'
    BY <1>2 DEF CreditsFollowDeposits
  <2>7. (Safe(scan[s]) /\ WorksOnOurs(scan[s]))'
    <3>1. Safe(scan[s]) /\ scan[s].pc = "record"
      BY <1>2 DEF ScansAreSafe, At
    <3>2. Safe(scan[s])'
      BY <1>2, <2>2, <2>4, <3>1 DEF Safe, chain
    <3>3. WorksOnOurs(scan[s])'
      BY <1>3, <2>2, <2>3, <2>4 DEF WorksOnOurs
    <3> QED
      BY <3>2, <3>3
  <2>8. ASSUME Steady PROVE CursorIsCovered' /\ Covered(scan[s])'
    <3>1. CursorIsCovered /\ Covered(scan[s]) /\ scan[s].pc = "record"
      BY <1>2, <2>8 DEF BatchesAreCovered, At
    <3>2. \A a, b : Recorded(a, b) => Recorded(a, b)'
      BY <1>2, <2>3 DEF Recorded, chain
    <3>3. CursorIsCovered'
      BY <1>2, <3>1, <3>2 DEF CursorIsCovered, chain
    <3>4. Covered(scan[s])'
      BY <1>2, <2>2, <2>3, <2>4, <3>1, <3>2 DEF Covered, chain
    <3> QED
      BY <3>3, <3>4
  <2> QED
    BY <1>2, <2>3, <2>4, <2>5, <2>6, <2>7, <2>8, OneScan
<1> QED
  BY <1>1, <1>4, <1>5

\* A scan makes a deposit for its own log, and a deposit is credited as its
\* status changes.
LEMMA CreditInvariant ==
  ASSUME IInv, NEW s \in Scanners, FindDeposit(s) \/ CreateDeposit(s) \/ ConfirmDeposit(s)
  PROVE  IInv'
<1> USE SceneType DEF IInv
<1>1. UNCHANGED <<scene, chain, cursor, origin, row>>
  BY DEF FindDeposit, CreateDeposit, ConfirmDeposit
<1>2. scan[s] \in ScanRecord /\ Safe(scan[s]) /\ WorksOnOurs(scan[s])
      /\ scan[s].pc \in {"find", "create", "confirm"} /\ Hash(s) \in Txs
  <2>1. scan[s].pc \in {"find", "create", "confirm"} /\ WorksOnOurs(scan[s])
    BY DEF ScansAreSafe, FindDeposit, CreateDeposit, ConfirmDeposit, At
  <2>2. scan[s].log \in Creditable
    BY <2>1 DEF WorksOnOurs, Ours
  <2> QED
    BY <2>1, <2>2 DEF TypeOK, ScansAreSafe, Hash
<1>3. ASSUME Stop(s), UNCHANGED <<deposit, credits>> PROVE IInv'
  BY <1>1, <1>3, StopInvariant
<1>4. ASSUME NEW pc \in {"create", "confirm", "mark"}, Goto(s, pc),
             deposit' \in [Txs -> [status : {"none", "PENDING", "PROCESSED", "REJECTED"},
                                   by : {"nobody", "member", "watcher"}]],
             credits' \in [Txs -> Nat], CreditsFollowDeposits',
             \A tx \in Txs : deposit'[tx].by = "watcher" =>
               deposit[tx].by = "watcher" \/ (scan[s].pc = "create" /\ tx = Hash(s))
      PROVE  IInv'
  <2> DEFINE r == [scan[s] EXCEPT !.pc = pc]
  <2>1. scan' = [scan EXCEPT ![s] = r]
    BY <1>4 DEF Goto
  <2>2. /\ r \in ScanRecord /\ r.pc = pc /\ r.todo = scan[s].todo /\ r.log = scan[s].log
        /\ r.safe = scan[s].safe /\ r.from = scan[s].from /\ r.to = scan[s].to
    BY <1>2 DEF ScanRecord, Places
  <2> HIDE DEF r
  <2>3. scan'[s] = r /\ \A u \in Scanners \ {s} : scan'[u] = scan[u]
    BY <2>1 DEF TypeOK
  <2>4. TypeOK'
    BY <1>1, <1>4, <2>1, <2>2 DEF TypeOK, chain
  <2>5. \A l : Ours(l)' <=> Ours(l)
    BY <1>1 DEF Ours
  <2>6. (Safe(scan[s]) /\ WorksOnOurs(scan[s]))'
    BY <1>1, <1>2, <1>4, <2>2, <2>3, <2>5 DEF Safe, WorksOnOurs, chain
  <2>7. ASSUME Steady PROVE CursorIsCovered' /\ Covered(scan[s])'
    <3>1. CursorIsCovered /\ Covered(scan[s])
      BY <2>7 DEF BatchesAreCovered
    <3>2. \A a, b : Recorded(a, b) => Recorded(a, b)'
      BY <1>1 DEF Recorded, chain
    <3> QED
      BY <1>1, <1>2, <1>4, <2>2, <2>3, <3>1, <3>2 DEF CursorIsCovered, Covered, chain
  <2> QED
    BY <1>1, <1>2, <1>4, <2>3, <2>4, <2>5, <2>6, <2>7, OneScan DEF Hash
<1>5. CASE FindDeposit(s)
  <2>1. Goto(s, "create") \/ Goto(s, "mark")
    BY <1>5 DEF FindDeposit
  <2> QED
    BY <1>4, <1>5, <2>1 DEF FindDeposit, TypeOK, CreditsFollowDeposits
<1>6. CASE CreateDeposit(s)
  <2>1. CASE deposit[Hash(s)] = NoDeposit /\ Goto(s, "confirm")
             /\ deposit' = [deposit EXCEPT ![Hash(s)] = [status |-> "PENDING", by |-> "watcher"]]
    <3>1. UNCHANGED credits /\ scan[s].pc = "create"
      BY <1>6 DEF CreateDeposit, At
    <3> QED
      BY <1>2, <1>4, <2>1, <3>1 DEF TypeOK, CreditsFollowDeposits, NoDeposit
  <2> QED
    BY <1>3, <1>6, <2>1 DEF CreateDeposit
<1>7. CASE ConfirmDeposit(s)
  <2>1. CASE /\ deposit[Hash(s)].status = "PENDING" /\ Goto(s, "mark")
             /\ deposit' = [deposit EXCEPT ![Hash(s)].status = "PROCESSED"]
             /\ credits' = [credits EXCEPT ![Hash(s)] = @ + 1]
    BY <1>2, <1>4, <2>1 DEF TypeOK, CreditsFollowDeposits
  <2>2. CASE Goto(s, "mark") /\ UNCHANGED <<deposit, credits>>
    BY <1>4, <2>2 DEF TypeOK, CreditsFollowDeposits
  <2> QED
    BY <1>3, <1>7, <2>1, <2>2 DEF ConfirmDeposit
<1> QED
  BY <1>5, <1>6, <1>7

\* The row of a log that was worked on to the end.
LEMMA MarkInvariant ==
  ASSUME IInv, NEW s \in Scanners, MarkCredited(s)
  PROVE  IInv'
<1> USE SceneType DEF IInv
<1>1. scan[s].pc = "mark" /\ WorksOnOurs(scan[s]) /\ scan[s] \in ScanRecord
  BY DEF MarkCredited, At, ScansAreSafe, TypeOK
<1>2. scan[s].log \in Logs /\ scan[s].log \in scan[s].todo /\ scan[s].log \in Creditable
  BY <1>1 DEF WorksOnOurs, Ours
<1>3. /\ row' \in [Logs -> {"none", "IGNORED", "SEEN", "CREDITED"}]
      /\ \A k \in Logs : (row[k] # "none" => row'[k] # "none") /\ (Ours(k) => Ours(k)')
      /\ row'[scan[s].log] # "none"
  BY <1>2 DEF MarkCredited, TypeOK, Ours
<1> QED
  BY <1>2, <1>3, DropInvariant DEF MarkCredited

\* The cursor moves to the end of a batch that is recorded.
LEMMA AdvanceInvariant ==
  ASSUME IInv, NEW s \in Scanners, Advance(s)
  PROVE  IInv'
<1> USE SceneType DEF IInv
<1>1. scan[s] \in ScanRecord /\ Safe(scan[s]) /\ scan[s].pc = "record" /\ scan[s].todo = {}
  BY DEF TypeOK, ScansAreSafe, Advance, At
<1>2. /\ UNCHANGED <<scene, chain, row, deposit, credits>> /\ cursor' = scan[s].to
      /\ origin' = IF cursor = None THEN scan[s].from ELSE origin
      /\ scan' = [scan EXCEPT ![s] = IdleScan]
  BY DEF Advance, Stop
<1>3. scan[s].from \in Nat /\ scan[s].to \in Nat /\ scan[s].safe \in Nat /\ head \in Nat
  BY <1>1 DEF ScanRecord, TypeOK
<1>4. IdleScan \in ScanRecord
  BY DEF IdleScan, ScanRecord
<1>5. TypeOK'
  BY <1>2, <1>3, <1>4 DEF TypeOK, chain
<1>6. scan'[s] = IdleScan /\ \A u \in Scanners \ {s} : scan'[u] = scan[u]
  BY <1>2 DEF TypeOK
<1>7. (Safe(scan[s]) /\ WorksOnOurs(scan[s]) /\ Covered(scan[s]))'
  BY <1>6 DEF Safe, WorksOnOurs, Covered, IdleScan
<1>8. ASSUME Steady PROVE origin' = origin /\ CursorIsCovered'
  <2>1. CursorIsCovered /\ Covered(scan[s])
    BY <1>8 DEF BatchesAreCovered
  <2>2. origin' = origin /\ scene.first \in Nat /\ origin \in Nat
    BY <1>2, <1>8, <2>1 DEF CursorIsCovered, Steady
  <2>3. scene.first <= scan[s].to /\ scan[s].to <= head - Confirmations
    BY <1>1, <1>3, <2>1, <2>2 DEF Covered, CursorIsCovered, Safe
  <2>4. ASSUME NEW l \in scene.logs, block[l.tx] \in origin..scan[s].to
        PROVE  row[l] # "none"
    <3>1. block[l.tx] \in origin..(scan[s].from - 1) \/ block[l.tx] \in scan[s].from..scan[s].to
      BY <1>3, <2>2, <2>4
    <3> QED
      BY <1>1, <2>1, <3>1 DEF Covered, Recorded
  <2> QED
    BY <1>2, <1>3, <2>1, <2>2, <2>3, <2>4 DEF CursorIsCovered, Recorded, chain
<1>9. CreditsFollowDeposits' /\ \A l : Ours(l)' <=> Ours(l)
  BY <1>2 DEF CreditsFollowDeposits, Ours
<1> QED
  BY <1>2, <1>5, <1>6, <1>7, <1>8, <1>9, OneScan

-----------------------------------------------------------------------------
LEMMA StepInvariant == IInv /\ [Next]_vars => IInv'
<1> SUFFICES ASSUME IInv, [Next]_vars PROVE IInv'
  OBVIOUS
<1>1. CASE UNCHANGED vars
  BY <1>1 DEF vars, chain, IInv, TypeOK, ScansAreSafe, Safe, WorksOnOurs, Ours, CreditsFollowDeposits,
              WatcherDepositsAreDeep, Steady, CursorIsCovered, BatchesAreCovered, Covered, Recorded
<1>2. ASSUME NEW s \in Scanners, ScanStops(s) PROVE IInv'
  BY <1>2, StopInvariant DEF ScanStops
<1> QED
  BY <1>1, <1>2, ChainInvariant, PeopleInvariant, ReadInvariant, RecordInvariant, CreditInvariant,
     MarkInvariant, AdvanceInvariant DEF Next

LEMMA InvariantHolds == Spec => []IInv
BY InitInvariant, StepInvariant, PTL DEF Spec

\* However many scans overlap, stop and repeat one another, a transaction is
\* credited once, and what the watcher credits no reorganisation takes back.
THEOREM CreditTheorem == Spec => []CreditedOnceDeep
<1>1. IInv => CreditedOnceDeep
  <2> SUFFICES ASSUME IInv, NEW tx \in Txs
               PROVE  /\ credits[tx] <= 1
                      /\ deposit[tx].by = "watcher" =>
                           Deep(tx) /\ \E l \in Creditable : l.tx = tx /\ row[l] \in {"SEEN", "CREDITED"}
    BY DEF CreditedOnceDeep
  <2>1. credits[tx] \in {0, 1}
    BY DEF IInv, CreditsFollowDeposits
  <2> QED
    BY <2>1 DEF IInv, WatcherDepositsAreDeep, Ours
<1> QED
  BY <1>1, InvariantHolds, PTL

\* The cursor never stands past a transfer that has no row.
THEOREM CursorTheorem == Spec => []NothingSkipped
<1>1. IInv => NothingSkipped
  BY DEF IInv, Steady, CursorIsCovered, Recorded, NothingSkipped, Passed
<1> QED
  BY <1>1, InvariantHolds, PTL
=============================================================================

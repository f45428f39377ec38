---------------------------- MODULE LedgerProofs ----------------------------
(***************************************************************************)
(* What holds of the ledger for any wallets, transactions and operations:  *)
(* no overdraft, one posting per reference, and passbooks whose entries    *)
(* continue one another up to the current balance.                         *)
(***************************************************************************)
EXTENDS Ledger, WellFoundedInduction, TLAPS

\* A wallet nobody has locked has no draft.
DraftsAreLocked ==
  \A w \in Wallets : lock[w] = NoTx => /\ draftBalance[w] = balance[w]
                                       /\ draftJournal[w] = journal[w]

\* A row lock is held by a transaction that is still open.
HoldersAreOpen == \A w \in Wallets : lock[w] # NoTx => tx[lock[w]].phase \in Open

\* Neither the committed balance nor the lock holder's own is negative.
NothingOverdrawn == \A w \in Wallets : balance[w] >= 0 /\ draftBalance[w] >= 0

\* A draft passbook extends the committed one.
Extends(long, short) ==
  Len(short) <= Len(long) /\ \A i \in DOMAIN short : long[i] = short[i]

DraftsExtend == \A w \in Wallets : Extends(draftJournal[w], journal[w])

\* References are unique among the committed and the uncommitted entries.
DraftReferencesUnique ==
  \A v, w \in Wallets : \A i \in DOMAIN draftJournal[v], j \in DOMAIN draftJournal[w] :
    draftJournal[v][i].reference = draftJournal[w][j].reference => v = w /\ i = j

\* entries continue one another from opening.
Continues(entries, opening) ==
  \A i \in DOMAIN entries :
    entries[i].balanceAfter =
      After(entries[i], IF i = 1 THEN opening ELSE entries[i - 1].balanceAfter)

\* The balance the newest of entries recorded.
NewestBalance(entries, opening) ==
  IF entries = <<>> THEN opening ELSE entries[Len(entries)].balanceAfter

\* t has updated w and not yet inserted the entry.
MidPosting(t, w) == tx[t].phase = "write" /\ CurrentLeg(t).wallet = w

DraftsContinue ==
  \A w \in Wallets :
    /\ Continues(draftJournal[w], Opening[w])
    /\ \A t \in Txs : MidPosting(t, w) =>
         draftBalance[w] = After(CurrentLeg(t), NewestBalance(draftJournal[w], Opening[w]))
    /\ (\A t \in Txs : ~MidPosting(t, w)) =>
         draftBalance[w] = NewestBalance(draftJournal[w], Opening[w])

\* A transaction between its UPDATE and its INSERT holds the row it updated.
WritersHoldTheirRow ==
  \A t \in Txs : tx[t].phase = "write" => lock[CurrentLeg(t).wallet] = t

IInv ==
  /\ TypeOK
  /\ DraftsAreLocked
  /\ HoldersAreOpen
  /\ WritersHoldTheirRow
  /\ NothingOverdrawn
  /\ DraftsExtend
  /\ DraftReferencesUnique
  /\ RunningBalance
  /\ DraftsContinue

-----------------------------------------------------------------------------
\* The leg a transaction is working on is one of its operation's legs.
LEMMA CurrentLegType ==
  ASSUME TypeOK, NEW t \in Txs, tx[t].phase \in {"move", "write"}
  PROVE  CurrentLeg(t) \in Leg
<1>1. tx[t].op \in Operations \union {<<>>} /\ tx[t].at \in DOMAIN tx[t].op
  BY DEF TypeOK, TxState
<1>2. tx[t].op \in Seq(Leg)
  BY <1>1, OperationsAssumption
<1> QED
  BY <1>1, <1>2 DEF CurrentLeg

\* The initial state satisfies the invariant: empty passbooks, no locks.
LEMMA InitInvariant == Init => IInv
<1> SUFFICES ASSUME Init PROVE IInv
  OBVIOUS
<1> USE DEF Init
<1>1. TypeOK
  BY WalletsAssumption DEF TypeOK, TxState, Open
<1>2. DraftsAreLocked /\ HoldersAreOpen /\ WritersHoldTheirRow
  BY DEF DraftsAreLocked, HoldersAreOpen, WritersHoldTheirRow
<1>3. NothingOverdrawn
  BY WalletsAssumption DEF NothingOverdrawn
<1>4. DraftsExtend /\ DraftReferencesUnique
  BY DEF DraftsExtend, Extends, DraftReferencesUnique
<1>5. RunningBalance
  BY DEF RunningBalance
<1>6. DraftsContinue
  BY DEF DraftsContinue, Continues, NewestBalance, MidPosting
<1> QED
  BY <1>1, <1>2, <1>3, <1>4, <1>5, <1>6 DEF IInv

\* Opening a transaction touches no wallet.
LEMMA BeginInvariant ==
  ASSUME IInv, NEW t \in Txs, Begin(t)
  PROVE  IInv'
<1> USE DEF IInv
<1>1. PICK op \in Operations :
        tx' = [tx EXCEPT ![t] = [phase |-> "move", op |-> op, at |-> 1]]
  BY DEF Begin
<1>2. UNCHANGED <<balance, journal, lock, draftBalance, draftJournal>>
  BY DEF Begin
<1>3. TypeOK'
  <2>1. op \in Seq(Leg) /\ op # <<>>
    BY OperationsAssumption
  <2>2. 1 \in DOMAIN op
    BY <2>1
  <2> QED
    BY <1>1, <1>2, <2>2 DEF TypeOK, TxState, Open
<1>4. \A w \in Wallets : lock[w] # t
  BY NoTxAssumption DEF Begin, HoldersAreOpen, Open
<1>5. \A u \in Txs : u # t => tx'[u] = tx[u] /\ (CurrentLeg(u))' = CurrentLeg(u)
  BY <1>1 DEF TypeOK, CurrentLeg
<1>6. tx'[t].phase = "move"
  BY <1>1 DEF TypeOK
<1>7. DraftsAreLocked' /\ NothingOverdrawn' /\ DraftsExtend' /\ DraftReferencesUnique' /\ RunningBalance'
  BY <1>2 DEF DraftsAreLocked, NothingOverdrawn, DraftsExtend, DraftReferencesUnique, RunningBalance
<1>8. HoldersAreOpen' /\ WritersHoldTheirRow'
  BY <1>2, <1>4, <1>5, <1>6 DEF HoldersAreOpen, WritersHoldTheirRow, TypeOK, Open
<1>9. DraftsContinue'
  <2>1. \A u \in Txs, w \in Wallets : MidPosting(u, w) => u # t
    BY DEF MidPosting, Begin
  <2>2. \A u \in Txs, w \in Wallets : MidPosting(u, w)' = MidPosting(u, w)
    BY <1>5, <1>6, <2>1 DEF MidPosting
  <2> QED
    BY <1>2, <1>5, <2>1, <2>2 DEF DraftsContinue
<1> QED
  BY <1>3, <1>7, <1>8, <1>9 DEF IInv

\* The guarded UPDATE keeps the drafts covered and leaves the passbooks alone.
LEMMA MoveBalanceInvariant ==
  ASSUME IInv, NEW t \in Txs, MoveBalance(t)
  PROVE  IInv'
<1> USE DEF IInv
<1> DEFINE leg == CurrentLeg(t)
           w == leg.wallet
<1>1. leg \in Leg /\ w \in Wallets /\ leg.amount \in Int
  BY CurrentLegType DEF MoveBalance, Leg
<1>2. /\ tx[t].phase = "move"
      /\ leg.amount > 0
      /\ Covered(leg, draftBalance[w])
      /\ lock' = [lock EXCEPT ![w] = t]
      /\ draftBalance' = [draftBalance EXCEPT ![w] = After(leg, @)]
      /\ tx' = [tx EXCEPT ![t].phase = "write"]
      /\ UNCHANGED <<balance, journal, draftJournal>>
  BY DEF MoveBalance
<1>3. lock[w] \in {NoTx, t}
  <2> SUFFICES ASSUME lock[w] # NoTx, lock[w] # t PROVE FALSE
    OBVIOUS
  <2>1. lock[w] \in Txs
    BY <1>1 DEF TypeOK
  <2>2. WaitsFor(t, lock[w])
    BY <1>2, <2>1 DEF WaitsFor
  <2> QED
    BY <2>1, <2>2 DEF MoveBalance, Waiting
<1>4. After(leg, draftBalance[w]) \in Int /\ After(leg, draftBalance[w]) >= 0
  <2>1. draftBalance[w] \in Int /\ draftBalance[w] >= 0
    BY <1>1 DEF TypeOK, NothingOverdrawn
  <2> QED
    BY <1>1, <1>2, <2>1 DEF After, Covered, Leg
<1>5. /\ tx'[t].phase = "write"
      /\ (CurrentLeg(t))' = leg
      /\ \A u \in Txs : u # t => tx'[u] = tx[u] /\ (CurrentLeg(u))' = CurrentLeg(u)
  BY <1>2 DEF TypeOK, TxState, CurrentLeg
<1>6. \A v \in Wallets : v # w => lock'[v] = lock[v] /\ draftBalance'[v] = draftBalance[v]
  BY <1>2 DEF TypeOK
<1>7. lock'[w] = t /\ draftBalance'[w] = After(leg, draftBalance[w])
  BY <1>1, <1>2 DEF TypeOK
<1>8. TypeOK'
  <2>1. lock' \in [Wallets -> Txs \union {NoTx}] /\ draftBalance' \in [Wallets -> Int]
    BY <1>2, <1>4 DEF TypeOK
  <2>2. tx' \in [Txs -> TxState]
    BY <1>2 DEF TypeOK, TxState, Open
  <2>3. \A u \in Txs : tx'[u].phase \in {"move", "write"} => tx'[u].at \in DOMAIN tx'[u].op
    BY <1>2 DEF TypeOK, TxState
  <2> QED
    BY <1>2, <2>1, <2>2, <2>3 DEF TypeOK
<1>9. DraftsAreLocked'
  BY <1>2, <1>6, <1>7, NoTxAssumption DEF DraftsAreLocked
<1>10. HoldersAreOpen'
  <2> SUFFICES ASSUME NEW v \in Wallets, lock'[v] # NoTx PROVE tx'[lock'[v]].phase \in Open
    BY DEF HoldersAreOpen
  <2>1. CASE lock'[v] = t
    BY <1>5, <2>1 DEF Open
  <2>2. CASE lock'[v] # t
    BY <1>5, <1>6, <1>7, <2>2, ZenonT(30) DEF HoldersAreOpen, TypeOK
  <2> QED
    BY <2>1, <2>2
<1>11. WritersHoldTheirRow'
  <2> SUFFICES ASSUME NEW u \in Txs, tx'[u].phase = "write" PROVE lock'[(CurrentLeg(u))'.wallet] = u
    BY DEF WritersHoldTheirRow
  <2>1. CASE u = t
    BY <1>5, <1>7, <2>1
  <2>2. CASE u # t
    <3>1. tx[u].phase = "write" /\ lock[CurrentLeg(u).wallet] = u /\ CurrentLeg(u).wallet \in Wallets
      BY <1>5, <2>2, CurrentLegType DEF WritersHoldTheirRow, Leg
    <3>2. CurrentLeg(u).wallet # w
      BY <1>3, <2>2, <3>1, NoTxAssumption
    <3> QED
      BY <1>5, <1>6, <2>2, <3>1, <3>2
  <2> QED
    BY <2>1, <2>2
<1>12. NothingOverdrawn'
  BY <1>2, <1>4, <1>6, <1>7 DEF NothingOverdrawn
<1>13. DraftsExtend' /\ DraftReferencesUnique' /\ RunningBalance'
  BY <1>2 DEF DraftsExtend, DraftReferencesUnique, RunningBalance
<1>14. DraftsContinue'
  <2>1. \A u \in Txs, v \in Wallets : u # t => MidPosting(u, v)' = MidPosting(u, v)
    BY <1>5 DEF MidPosting
  <2>2. \A v \in Wallets : MidPosting(t, v)' <=> v = w
    BY <1>5 DEF MidPosting
  <2>3. \A u \in Txs : ~MidPosting(u, w)
    BY <1>1, <1>2, <1>3, NoTxAssumption DEF MidPosting, WritersHoldTheirRow
  <2>4. draftBalance[w] = NewestBalance(draftJournal[w], Opening[w])
    BY <1>1, <2>3 DEF DraftsContinue
  <2> SUFFICES ASSUME NEW v \in Wallets
               PROVE  /\ Continues(draftJournal[v], Opening[v])
                      /\ \A u \in Txs : MidPosting(u, v)' =>
                           draftBalance'[v] = After((CurrentLeg(u))', NewestBalance(draftJournal[v], Opening[v]))
                      /\ (\A u \in Txs : ~MidPosting(u, v)') =>
                           draftBalance'[v] = NewestBalance(draftJournal[v], Opening[v])
    BY <1>2 DEF DraftsContinue
  <2>5. Continues(draftJournal[v], Opening[v])
    BY DEF DraftsContinue
  <2>6. CASE v = w
    BY <1>5, <1>7, <2>1, <2>2, <2>3, <2>4, <2>5, <2>6
  <2>7. CASE v # w
    BY <1>5, <1>6, <2>1, <2>2, <2>5, <2>7 DEF DraftsContinue, MidPosting
  <2> QED
    BY <2>6, <2>7
<1> QED
  BY <1>8, <1>9, <1>10, <1>11, <1>12, <1>13, <1>14 DEF IInv

\* Appending an entry that carries on from the newest one keeps a passbook
\* continuous.
LEMMA AppendContinues ==
  ASSUME NEW entries \in Seq(Entry), NEW opening, NEW entry \in Entry,
         Continues(entries, opening),
         entry.balanceAfter = After(entry, NewestBalance(entries, opening))
  PROVE  /\ Continues(Append(entries, entry), opening)
         /\ NewestBalance(Append(entries, entry), opening) = entry.balanceAfter
<1> DEFINE longer == Append(entries, entry)
<1>1. /\ longer \in Seq(Entry)
      /\ Len(longer) = Len(entries) + 1
      /\ longer[Len(longer)] = entry
      /\ \A i \in DOMAIN entries : longer[i] = entries[i]
  OBVIOUS
<1>2. ASSUME NEW i \in DOMAIN longer
      PROVE  longer[i].balanceAfter =
               After(longer[i], IF i = 1 THEN opening ELSE longer[i - 1].balanceAfter)
  <2>1. CASE i \in DOMAIN entries
    <3>1. longer[i] = entries[i] /\ (i # 1 => longer[i - 1] = entries[i - 1])
      BY <1>1, <2>1
    <3> QED
      BY <2>1, <3>1 DEF Continues
  <2>2. CASE i = Len(longer)
    <3>1. entries # <<>> => i # 1 /\ longer[i - 1] = entries[Len(entries)]
      BY <1>1, <2>2
    <3>2. entries = <<>> => i = 1
      BY <1>1, <2>2
    <3> QED
      BY <1>1, <2>2, <3>1, <3>2 DEF NewestBalance
  <2> QED
    BY <1>1, <2>1, <2>2
<1>3. longer # <<>>
  BY <1>1
<1> QED
  BY <1>1, <1>2, <1>3 DEF Continues, NewestBalance

\* The INSERT adds one fresh reference and closes the posting it belongs to.
LEMMA WriteEntryInvariant ==
  ASSUME IInv, NEW t \in Txs, WriteEntry(t)
  PROVE  IInv'
<1> USE DEF IInv
<1> DEFINE leg == CurrentLeg(t)
           w == leg.wallet
           entry == [reference |-> leg.reference, direction |-> leg.direction,
                     amount |-> leg.amount, balanceAfter |-> draftBalance[w]]
<1>1. leg \in Leg /\ w \in Wallets
  BY CurrentLegType DEF WriteEntry, Leg
<1>2. /\ tx[t].phase = "write"
      /\ ~Waiting(t)
      /\ ~Posted(leg.reference)
      /\ ~Inserting(t, leg.reference)
      /\ draftJournal' = [draftJournal EXCEPT ![w] = Append(@, entry)]
      /\ tx' = [tx EXCEPT ![t].phase = IF tx[t].at = Len(tx[t].op) THEN "done" ELSE "move",
                          ![t].at = @ + 1]
      /\ UNCHANGED <<balance, journal, lock, draftBalance>>
  BY DEF WriteEntry
<1>3. lock[w] = t
  BY <1>2 DEF WritersHoldTheirRow
<1>4. entry \in Entry
  BY <1>1 DEF TypeOK, Leg, Entry
<1>5. /\ draftJournal'[w] = Append(draftJournal[w], entry)
      /\ \A v \in Wallets : v # w => draftJournal'[v] = draftJournal[v]
      /\ \A v \in Wallets : draftJournal[v] \in Seq(Entry)
  BY <1>1, <1>2 DEF TypeOK
<1>6. /\ tx'[t].phase \in {"done", "move"}
      /\ \A u \in Txs : u # t => tx'[u] = tx[u] /\ (CurrentLeg(u))' = CurrentLeg(u)
  BY <1>2 DEF TypeOK, TxState, CurrentLeg
<1>7. TypeOK'
  <2>1. draftJournal' \in [Wallets -> Seq(Entry)]
    BY <1>2, <1>4, <1>5 DEF TypeOK
  <2>2. tx[t].op \in Seq(Leg) /\ tx[t].at \in 1..Len(tx[t].op)
    <3>1. tx[t].op \in Operations \union {<<>>} /\ tx[t].at \in DOMAIN tx[t].op
      BY <1>2 DEF TypeOK, TxState
    <3>2. tx[t].op \in Seq(Leg)
      BY <3>1, OperationsAssumption
    <3> QED
      BY <3>1, <3>2
  <2>3. tx' \in [Txs -> TxState]
    <3>1. tx[t] \in TxState /\ tx[t].at + 1 \in Nat
      BY <2>2 DEF TypeOK
    <3>2. /\ tx'[t] = [phase |-> tx'[t].phase, op |-> tx[t].op, at |-> tx[t].at + 1]
          /\ DOMAIN tx' = Txs /\ tx' = [u \in Txs |-> tx'[u]]
      BY <1>2, <3>1 DEF TypeOK, TxState
    <3>3. tx'[t] \in TxState
      BY <1>6, <3>1, <3>2 DEF TxState, Open
    <3> QED
      BY <1>6, <3>2, <3>3 DEF TypeOK
  <2>4. tx'[t].phase = "move" => tx'[t].at \in DOMAIN tx'[t].op
    <3>1. /\ tx'[t].at = tx[t].at + 1 /\ tx'[t].op = tx[t].op
          /\ tx'[t].phase = "move" => tx[t].at # Len(tx[t].op)
      BY <1>2 DEF TypeOK, TxState
    <3> QED
      BY <2>2, <3>1
  <2>5. \A u \in Txs : tx'[u].phase \in {"move", "write"} => tx'[u].at \in DOMAIN tx'[u].op
    BY <1>6, <2>4 DEF TypeOK
  <2> QED
    BY <1>2, <2>1, <2>3, <2>5 DEF TypeOK
<1>8. DraftsAreLocked'
  BY <1>2, <1>3, <1>5, NoTxAssumption DEF DraftsAreLocked
<1>9. HoldersAreOpen' /\ WritersHoldTheirRow'
  BY <1>2, <1>6 DEF HoldersAreOpen, WritersHoldTheirRow, Open, TypeOK
<1>10. NothingOverdrawn' /\ RunningBalance'
  BY <1>2 DEF NothingOverdrawn, RunningBalance
<1>11. DraftsExtend'
  <2>1. Extends(Append(draftJournal[w], entry), journal[w])
    BY <1>1, <1>5 DEF DraftsExtend, Extends, TypeOK
  <2> QED
    BY <1>2, <1>5, <2>1 DEF DraftsExtend
<1>12. \A v \in Wallets : \A i \in 1..Len(draftJournal[v]) :
         draftJournal[v][i].reference # leg.reference
  <2> SUFFICES ASSUME NEW v \in Wallets, leg.reference \in RefsIn(draftJournal[v])
               PROVE  FALSE
    BY <1>5 DEF RefsIn
  <2>1. leg.reference \notin RefsIn(journal[v])
    BY <1>2 DEF Posted
  <2>2. lock[v] # NoTx
    BY <2>1 DEF DraftsAreLocked
  <2>3. lock[v] \in Txs /\ Inserting(lock[v], leg.reference)
    BY <2>1, <2>2 DEF Inserting, TypeOK
  <2>4. WaitsFor(t, lock[v])
    BY <1>2, <2>3 DEF WaitsFor
  <2> QED
    BY <1>2, <2>3, <2>4 DEF Waiting
<1>13. DraftReferencesUnique'
  <2> SUFFICES ASSUME NEW u \in Wallets, NEW v \in Wallets, NEW i, NEW j,
                      i \in DOMAIN draftJournal'[u], j \in DOMAIN draftJournal'[v],
                      draftJournal'[u][i].reference = draftJournal'[v][j].reference
               PROVE  u = v /\ i = j
    BY DEF DraftReferencesUnique
  <2> DEFINE new(x, k) == x = w /\ k = Len(draftJournal[w]) + 1
  <2>1. ASSUME NEW x \in Wallets, NEW k, k \in DOMAIN draftJournal'[x]
        PROVE  \/ new(x, k) /\ draftJournal'[x][k].reference = leg.reference
               \/ k \in 1..Len(draftJournal[x]) /\ draftJournal'[x][k] = draftJournal[x][k]
    <3>1. CASE x = w
      BY <1>5, <2>1, <3>1
    <3>2. CASE x # w
      BY <1>5, <2>1, <3>2
    <3> QED
      BY <3>1, <3>2
  <2>2. /\ \/ new(u, i) /\ draftJournal'[u][i].reference = leg.reference
           \/ i \in 1..Len(draftJournal[u]) /\ draftJournal'[u][i] = draftJournal[u][i]
        /\ \/ new(v, j) /\ draftJournal'[v][j].reference = leg.reference
           \/ j \in 1..Len(draftJournal[v]) /\ draftJournal'[v][j] = draftJournal[v][j]
    BY <2>1
  <2>3. DOMAIN draftJournal[u] = 1..Len(draftJournal[u]) /\ DOMAIN draftJournal[v] = 1..Len(draftJournal[v])
    BY <1>5
  <2> QED
    BY <1>12, <2>2, <2>3 DEF DraftReferencesUnique
<1>14. DraftsContinue'
  <2>1. \A u \in Txs, v \in Wallets : u # t => MidPosting(u, v)' = MidPosting(u, v)
    BY <1>6 DEF MidPosting
  <2>2. \A v \in Wallets : ~MidPosting(t, v)'
    BY <1>6 DEF MidPosting
  <2>3. \A u \in Txs : u # t => ~MidPosting(u, w)
    BY <1>3 DEF MidPosting, WritersHoldTheirRow
  <2>4. draftBalance[w] = After(leg, NewestBalance(draftJournal[w], Opening[w]))
    BY <1>1, <1>2 DEF DraftsContinue, MidPosting
  <2>5. /\ Continues(draftJournal'[w], Opening[w])
        /\ NewestBalance(draftJournal'[w], Opening[w]) = draftBalance[w]
    <3>1. Continues(draftJournal[w], Opening[w])
      BY <1>1 DEF DraftsContinue
    <3>2. entry.balanceAfter = After(entry, NewestBalance(draftJournal[w], Opening[w]))
      BY <1>1, <2>4 DEF After, Leg
    <3> HIDE DEF entry
    <3>3. /\ Continues(Append(draftJournal[w], entry), Opening[w])
          /\ NewestBalance(Append(draftJournal[w], entry), Opening[w]) = entry.balanceAfter
      BY <1>1, <1>4, <1>5, <3>1, <3>2, AppendContinues
    <3> QED
      BY <1>5, <3>3 DEF entry
  <2> SUFFICES ASSUME NEW v \in Wallets
               PROVE  /\ Continues(draftJournal'[v], Opening[v])
                      /\ \A u \in Txs : MidPosting(u, v)' =>
                           draftBalance[v] = After((CurrentLeg(u))', NewestBalance(draftJournal'[v], Opening[v]))
                      /\ (\A u \in Txs : ~MidPosting(u, v)') =>
                           draftBalance[v] = NewestBalance(draftJournal'[v], Opening[v])
    BY <1>2, ZenonT(40) DEF DraftsContinue, Continues, NewestBalance
  <2>6. CASE v = w
    BY <2>1, <2>2, <2>3, <2>5, <2>6
  <2>7. CASE v # w
    <3>1. ~MidPosting(t, v)
      BY <2>7 DEF MidPosting
    <3> QED
      BY <1>5, <1>6, <2>1, <2>2, <2>7, <3>1 DEF DraftsContinue
  <2> QED
    BY <2>6, <2>7
<1> QED
  BY <1>7, <1>8, <1>9, <1>10, <1>11, <1>13, <1>14 DEF IInv

\* COMMIT publishes the drafts of the rows the transaction holds.
LEMMA CommitInvariant ==
  ASSUME IInv, NEW t \in Txs, Commit(t)
  PROVE  IInv'
<1> USE DEF IInv
<1>1. /\ tx[t].phase = "done"
      /\ balance' = [w \in Wallets |-> IF lock[w] = t THEN draftBalance[w] ELSE balance[w]]
      /\ journal' = [w \in Wallets |-> IF lock[w] = t THEN draftJournal[w] ELSE journal[w]]
      /\ lock' = [w \in Wallets |-> IF lock[w] = t THEN NoTx ELSE lock[w]]
      /\ tx' = [tx EXCEPT ![t].phase = "committed"]
      /\ UNCHANGED <<draftBalance, draftJournal>>
  BY DEF Commit
<1>2. /\ tx'[t].phase = "committed"
      /\ \A u \in Txs : u # t => tx'[u] = tx[u] /\ (CurrentLeg(u))' = CurrentLeg(u)
  BY <1>1 DEF TypeOK, TxState, CurrentLeg
<1>3. TypeOK'
  <2>1. tx' \in [Txs -> TxState]
    BY <1>1 DEF TypeOK, TxState, Open
  <2>2. \A u \in Txs : tx'[u].phase \in {"move", "write"} => tx'[u].at \in DOMAIN tx'[u].op
    BY <1>2 DEF TypeOK
  <2> QED
    BY <1>1, <2>1, <2>2 DEF TypeOK
<1>4. DraftsAreLocked'
  BY <1>1 DEF DraftsAreLocked
<1>5. HoldersAreOpen'
  BY <1>1, <1>2 DEF HoldersAreOpen, TypeOK
<1>6. WritersHoldTheirRow'
  <2> SUFFICES ASSUME NEW u \in Txs, tx'[u].phase = "write" PROVE lock'[(CurrentLeg(u))'.wallet] = u
    BY DEF WritersHoldTheirRow
  <2>1. u # t /\ tx[u].phase = "write" /\ (CurrentLeg(u))' = CurrentLeg(u)
    BY <1>2
  <2>2. CurrentLeg(u).wallet \in Wallets /\ lock[CurrentLeg(u).wallet] = u
    BY <2>1, CurrentLegType DEF WritersHoldTheirRow, Leg
  <2> QED
    BY <1>1, <2>1, <2>2
<1>7. NothingOverdrawn'
  BY <1>1 DEF NothingOverdrawn
<1>8. DraftsExtend'
  BY <1>1 DEF DraftsExtend, Extends, TypeOK
<1>9. DraftReferencesUnique'
  BY <1>1 DEF DraftReferencesUnique
<1>10. \A u \in Txs, w \in Wallets : MidPosting(u, w)' = MidPosting(u, w)
  BY <1>1, <1>2 DEF MidPosting
<1>11. \A w \in Wallets : lock[w] = t => \A u \in Txs : ~MidPosting(u, w)
  BY <1>1 DEF MidPosting, WritersHoldTheirRow
<1>12. RunningBalance'
  <2> SUFFICES ASSUME NEW w \in Wallets
               PROVE  /\ Continues(journal'[w], Opening[w])
                      /\ balance'[w] = NewestBalance(journal'[w], Opening[w])
    BY DEF RunningBalance, Continues, NewestBalance
  <2>1. CASE lock[w] = t
    BY <1>1, <1>11, <2>1 DEF DraftsContinue
  <2>2. CASE lock[w] # t
    BY <1>1, <2>2 DEF RunningBalance, Continues, NewestBalance
  <2> QED
    BY <2>1, <2>2
<1>13. DraftsContinue'
  <2>1. \A u \in Txs, w \in Wallets : MidPosting(u, w) => u # t
    BY <1>1 DEF MidPosting
  <2> QED
    BY <1>1, <1>2, <1>10, <2>1 DEF DraftsContinue
<1> QED
  BY <1>3, <1>4, <1>5, <1>6, <1>7, <1>8, <1>9, <1>12, <1>13 DEF IInv

\* Every failure discards the drafts and releases the rows.
LEMMA RollBackInvariant ==
  ASSUME IInv, NEW t \in Txs, RollBack(t)
  PROVE  IInv'
<1> USE DEF IInv
<1>1. /\ lock' = [w \in Wallets |-> IF lock[w] = t THEN NoTx ELSE lock[w]]
      /\ draftBalance' = [w \in Wallets |-> IF lock[w] = t THEN balance[w] ELSE draftBalance[w]]
      /\ draftJournal' = [w \in Wallets |-> IF lock[w] = t THEN journal[w] ELSE draftJournal[w]]
      /\ tx' = [tx EXCEPT ![t].phase = "rolledback"]
      /\ UNCHANGED <<balance, journal>>
  BY DEF RollBack
<1>2. /\ tx'[t].phase = "rolledback"
      /\ \A u \in Txs : u # t => tx'[u] = tx[u] /\ (CurrentLeg(u))' = CurrentLeg(u)
  BY <1>1 DEF TypeOK, TxState, CurrentLeg
<1>3. TypeOK'
  <2>1. tx' \in [Txs -> TxState]
    BY <1>1 DEF TypeOK, TxState, Open
  <2>2. \A u \in Txs : tx'[u].phase \in {"move", "write"} => tx'[u].at \in DOMAIN tx'[u].op
    BY <1>2 DEF TypeOK
  <2> QED
    BY <1>1, <2>1, <2>2 DEF TypeOK
<1>4. DraftsAreLocked'
  BY <1>1 DEF DraftsAreLocked
<1>5. HoldersAreOpen'
  BY <1>1, <1>2 DEF HoldersAreOpen, TypeOK
<1>6. WritersHoldTheirRow'
  <2> SUFFICES ASSUME NEW u \in Txs, tx'[u].phase = "write" PROVE lock'[(CurrentLeg(u))'.wallet] = u
    BY DEF WritersHoldTheirRow
  <2>1. u # t /\ tx[u].phase = "write" /\ (CurrentLeg(u))' = CurrentLeg(u)
    BY <1>2
  <2>2. CurrentLeg(u).wallet \in Wallets /\ lock[CurrentLeg(u).wallet] = u
    BY <2>1, CurrentLegType DEF WritersHoldTheirRow, Leg
  <2> QED
    BY <1>1, <2>1, <2>2
<1>7. NothingOverdrawn' /\ RunningBalance'
  BY <1>1 DEF NothingOverdrawn, RunningBalance
<1>8. DraftsExtend'
  BY <1>1 DEF DraftsExtend, Extends, TypeOK
<1>9. DraftReferencesUnique'
  <2> DEFINE kept(w) == draftJournal'[w]
  <2>1. \A w \in Wallets : \A i \in DOMAIN draftJournal'[w] :
          i \in DOMAIN draftJournal[w] /\ draftJournal'[w][i] = draftJournal[w][i]
    BY <1>1 DEF DraftsExtend, Extends, TypeOK
  <2> QED
    BY <2>1 DEF DraftReferencesUnique
<1>10. DraftsContinue'
  <2> SUFFICES ASSUME NEW w \in Wallets
               PROVE  /\ Continues(draftJournal'[w], Opening[w])
                      /\ \A u \in Txs : MidPosting(u, w)' =>
                           draftBalance'[w] = After((CurrentLeg(u))', NewestBalance(draftJournal'[w], Opening[w]))
                      /\ (\A u \in Txs : ~MidPosting(u, w)') =>
                           draftBalance'[w] = NewestBalance(draftJournal'[w], Opening[w])
    BY DEF DraftsContinue, Continues, NewestBalance
  <2>1. \A u \in Txs : u # t => MidPosting(u, w)' = MidPosting(u, w)
    BY <1>2 DEF MidPosting
  <2>2. ~MidPosting(t, w)'
    BY <1>2 DEF MidPosting
  <2>3. CASE lock[w] = t
    <3>1. \A u \in Txs : ~MidPosting(u, w)'
      BY <2>1, <2>2, <2>3 DEF MidPosting, WritersHoldTheirRow
    <3>2. draftBalance'[w] = balance[w] /\ draftJournal'[w] = journal[w]
      BY <1>1, <2>3
    <3> QED
      BY <3>1, <3>2, SMTT(20) DEF RunningBalance, Continues, NewestBalance
  <2>4. CASE lock[w] # t
    <3>1. ~MidPosting(t, w)
      BY <2>4 DEF MidPosting, WritersHoldTheirRow
    <3>2. draftBalance'[w] = draftBalance[w] /\ draftJournal'[w] = draftJournal[w]
      BY <1>1, <2>4
    <3> QED
      BY <1>2, <2>1, <2>2, <3>1, <3>2 DEF DraftsContinue
  <2> QED
    BY <2>3, <2>4
<1> QED
  BY <1>3, <1>4, <1>5, <1>6, <1>7, <1>8, <1>9, <1>10 DEF IInv

-----------------------------------------------------------------------------
\* Every statement of every transaction keeps the inductive invariant.
LEMMA NextInvariant == IInv /\ [Next]_vars => IInv'
<1> SUFFICES ASSUME IInv, [Next]_vars PROVE IInv'
  OBVIOUS
<1>1. ASSUME NEW t \in Txs, Begin(t) PROVE IInv'
  BY <1>1, BeginInvariant
<1>2. ASSUME NEW t \in Txs, Statement(t) PROVE IInv'
  <2>1. CASE MoveBalance(t)
    BY <2>1, MoveBalanceInvariant
  <2>2. CASE WriteEntry(t)
    BY <2>2, WriteEntryInvariant
  <2>3. CASE Commit(t)
    BY <2>3, CommitInvariant
  <2>4. CASE RefuseMove(t) \/ RefuseDuplicate(t) \/ BreakDeadlock(t)
    BY <2>4, RollBackInvariant DEF RefuseMove, RefuseDuplicate, BreakDeadlock
  <2> QED
    BY <1>2, <2>1, <2>2, <2>3, <2>4 DEF Statement
<1>3. ASSUME NEW t \in Txs, Fail(t) PROVE IInv'
  BY <1>3, RollBackInvariant DEF Fail
<1>4. CASE UNCHANGED vars
  <2> USE <1>4 DEF vars, IInv
  <2>1. TypeOK' /\ DraftsAreLocked' /\ HoldersAreOpen' /\ NothingOverdrawn'
    BY DEF TypeOK, DraftsAreLocked, HoldersAreOpen, NothingOverdrawn
  <2>2. DraftsExtend' /\ DraftReferencesUnique' /\ RunningBalance'
    BY DEF DraftsExtend, DraftReferencesUnique, RunningBalance
  <2>3. WritersHoldTheirRow' /\ DraftsContinue'
    BY DEF WritersHoldTheirRow, DraftsContinue, MidPosting, CurrentLeg
  <2> QED
    BY <2>1, <2>2, <2>3
<1> QED
  BY <1>1, <1>2, <1>3, <1>4 DEF Next

\* The inductive invariant holds in every reachable state of the ledger.
THEOREM Invariant == Spec => []IInv
BY InitInvariant, NextInvariant, PTL DEF Spec

\* postEntry and the transactions around it keep every row well formed.
THEOREM TypeCorrect == Spec => []TypeOK
<1>1. IInv => TypeOK
  BY DEF IInv
<1> QED
  BY Invariant, <1>1, PTL

\* However debits race, no wallet is ever overdrawn (rule 1 of the ledger).
THEOREM NeverOverdrawn == Spec => []NoOverdraw
<1>1. IInv => NoOverdraw
  BY DEF IInv, NothingOverdrawn, NoOverdraw
<1> QED
  BY Invariant, <1>1, PTL

\* However often an operation is retried, its references are posted once
\* (rule 2 of the ledger).
THEOREM ReferencesPostedOnce == Spec => []PostedOnce
<1>1. IInv => PostedOnce
  BY DEF IInv, TypeOK, DraftsExtend, Extends, DraftReferencesUnique, PostedOnce
<1> QED
  BY Invariant, <1>1, PTL

\* Every passbook continues entry by entry up to the wallet's balance, which is
\* what the trial balance adds up.
THEOREM PassbooksContinue == Spec => []RunningBalance
<1>1. IInv => RunningBalance
  BY DEF IInv
<1> QED
  BY Invariant, <1>1, PTL

-----------------------------------------------------------------------------
(***************************************************************************)
(* Ledger implements LedgerPromise, for any wallets, transactions and      *)
(* operations.  A commit is the promised operation because an open         *)
(* transaction can be replayed over the balances as they are now: the rows *)
(* its legs have touched are locked, so whatever others commit meanwhile   *)
(* changes only rows that its legs leave alone.                            *)
(***************************************************************************)

\* The legs of t that have moved a balance, and those that have their entry.
Moved(t) == IF tx[t].phase = "write" THEN tx[t].at ELSE tx[t].at - 1
Inserted(t) == tx[t].at - 1

\* The balances as t sees them: its own drafts, and what is committed.
View(t) == [w \in Wallets |-> IF lock[w] = t THEN draftBalance[w] ELSE balance[w]]

\* f[i] is every wallet once the first i legs of op are posted from f[0] on.
Replays(f, op, n) ==
  /\ f \in [0..n -> [Wallets -> Int]]
  /\ \A i \in 1..n :
       /\ f[i] = [f[i - 1] EXCEPT ![op[i].wallet] = After(op[i], f[i - 1][op[i].wallet])]
       /\ op[i].amount > 0 /\ f[i][op[i].wallet] >= 0

OperationIsKnown(t) ==
  /\ tx[t].op \in Operations /\ tx[t].at \in 1..(Len(tx[t].op) + 1)
  /\ tx[t].phase = "done" => tx[t].at = Len(tx[t].op) + 1
  /\ tx[t].phase \in {"move", "write"} => tx[t].at \in 1..Len(tx[t].op)

LegsAreLocked(t) == \A i \in 1..Moved(t) : lock[tx[t].op[i].wallet] = t

BalancesReplay(t) ==
  \E f : Replays(f, tx[t].op, Moved(t)) /\ f[0] = balance /\ f[Moved(t)] = View(t)

\* What t has inserted is in its drafts, and nothing else is; it was not there.
EntriesReplay(t) ==
  /\ \A i, j \in 1..Inserted(t) : tx[t].op[i].reference = tx[t].op[j].reference => i = j
  /\ \A i \in 1..Inserted(t) : ~Posted(tx[t].op[i].reference)
  /\ \A w \in Wallets : lock[w] = t =>
       \A ref : ref \in RefsIn(draftJournal[w]) <=>
                  \/ ref \in RefsIn(journal[w])
                  \/ \E i \in 1..Inserted(t) : tx[t].op[i].wallet = w /\ tx[t].op[i].reference = ref

Replayable(t) ==
  OperationIsKnown(t) /\ LegsAreLocked(t) /\ BalancesReplay(t) /\ EntriesReplay(t)

OpenIsReplayable == \A t \in Txs : tx[t].phase \in Open => Replayable(t)

-----------------------------------------------------------------------------
\* The legs of an operation are legs, and t is somewhere among them.
LEMMA OperationType ==
  ASSUME TypeOK, NEW t \in Txs, tx[t].phase \in Open, OperationIsKnown(t)
  PROVE  /\ tx[t].op \in Seq(Leg) /\ Len(tx[t].op) \in Nat
         /\ \A i \in 1..Len(tx[t].op) : tx[t].op[i] \in Leg /\ tx[t].op[i].wallet \in Wallets
         /\ Moved(t) \in Nat /\ Inserted(t) \in Nat
         /\ Inserted(t) <= Moved(t) /\ Moved(t) <= Len(tx[t].op)
<1>1. tx[t].op \in Seq(Leg)
  BY OperationsAssumption DEF OperationIsKnown
<1>2. Len(tx[t].op) \in Nat /\ \A i \in 1..Len(tx[t].op) : tx[t].op[i] \in Leg
  BY <1>1
<1>3. \A i \in 1..Len(tx[t].op) : tx[t].op[i].wallet \in Wallets
  BY <1>2 DEF Leg
<1>4. /\ Moved(t) \in Nat /\ Inserted(t) \in Nat
      /\ Inserted(t) <= Moved(t) /\ Moved(t) <= Len(tx[t].op)
  <2>1. CASE tx[t].phase = "write"
    BY <1>2, <2>1 DEF OperationIsKnown, Moved, Inserted
  <2>2. CASE tx[t].phase # "write"
    BY <1>2, <2>2 DEF OperationIsKnown, Moved, Inserted
  <2> QED
    BY <2>1, <2>2
<1> QED
  BY <1>1, <1>2, <1>3, <1>4

\* A step of another transaction that commits nothing leaves t its rows.
LEMMA OthersKeep ==
  ASSUME TypeOK, NEW t \in Txs, tx[t].phase \in Open, Replayable(t),
         tx'[t] = tx[t], UNCHANGED <<balance, journal>>,
         \A w \in Wallets : /\ lock'[w] = t <=> lock[w] = t
                            /\ lock[w] = t => /\ draftBalance'[w] = draftBalance[w]
                                              /\ draftJournal'[w] = draftJournal[w]
  PROVE  Replayable(t)'
<1> USE DEF Replayable
<1>1. OperationIsKnown(t)'
  BY DEF OperationIsKnown
<1>2. Moved(t)' = Moved(t) /\ Inserted(t)' = Inserted(t) /\ tx'[t].op = tx[t].op
  BY DEF Moved, Inserted
<1>3. LegsAreLocked(t)'
  BY <1>2, OperationType DEF LegsAreLocked
<1>4. View(t)' = View(t)
  BY DEF View
<1>5. BalancesReplay(t)'
  BY <1>2, <1>4 DEF BalancesReplay
<1>6. EntriesReplay(t)'
  <2>1. \A ref : Posted(ref)' <=> Posted(ref)
    BY DEF Posted
  <2>2. \A w \in Wallets : lock'[w] = t =>
          /\ lock[w] = t
          /\ RefsIn(draftJournal'[w]) = RefsIn(draftJournal[w])
          /\ RefsIn(journal'[w]) = RefsIn(journal[w])
    OBVIOUS
  <2> QED
    BY <1>2, <2>1, <2>2 DEF EntriesReplay
<1> QED
  BY <1>1, <1>3, <1>5, <1>6

\* An operation that has posted nothing is replayed in no steps.
LEMMA BeginReplays ==
  ASSUME IInv, OpenIsReplayable, NEW t \in Txs, Begin(t)
  PROVE  OpenIsReplayable'
<1> USE DEF IInv
<1>1. PICK op \in Operations : tx' = [tx EXCEPT ![t] = [phase |-> "move", op |-> op, at |-> 1]]
  BY DEF Begin
<1>2. /\ UNCHANGED <<balance, journal, lock, draftBalance, draftJournal>>
      /\ tx'[t] = [phase |-> "move", op |-> op, at |-> 1]
      /\ \A u \in Txs \ {t} : tx'[u] = tx[u]
  BY <1>1 DEF Begin, TypeOK
<1>3. \A u \in Txs \ {t} : tx'[u].phase \in Open => Replayable(u)'
  BY <1>2, OthersKeep DEF OpenIsReplayable
<1>4. op \in Seq(Leg) /\ op # <<>>
  BY OperationsAssumption
<1>5. OperationIsKnown(t)'
  BY <1>2, <1>4 DEF OperationIsKnown
<1>6. Moved(t)' = 0 /\ Inserted(t)' = 0
  BY <1>2 DEF Moved, Inserted
<1>7. \A w \in Wallets : lock[w] # t
  BY NoTxAssumption DEF Begin, HoldersAreOpen, Open
<1>8. LegsAreLocked(t)' /\ EntriesReplay(t)'
  BY <1>2, <1>6, <1>7 DEF LegsAreLocked, EntriesReplay
<1>9. BalancesReplay(t)'
  <2> DEFINE f == [i \in 0..0 |-> balance]
  <2>1. f \in [0..0 -> [Wallets -> Int]] /\ f[0] = balance
    BY DEF TypeOK
  <2>2. View(t)' = balance
    BY <1>2, <1>7 DEF View, TypeOK
  <2>3. Replays(f, tx'[t].op, 0)
    BY <2>1 DEF Replays
  <2> HIDE DEF f
  <2> QED
    BY <1>2, <1>6, <2>1, <2>2, <2>3 DEF BalancesReplay
<1> QED
  BY <1>3, <1>5, <1>8, <1>9 DEF OpenIsReplayable, Replayable

\* One leg more is replayed as it was run.
LEMMA OneLegMore ==
  ASSUME NEW f, NEW op, NEW n \in Nat, Replays(f, op, n), NEW leg \in Leg, leg = op[n + 1],
         leg.amount > 0, NEW after \in [Wallets -> Int],
         after = [f[n] EXCEPT ![leg.wallet] = After(leg, f[n][leg.wallet])],
         after[leg.wallet] >= 0
  PROVE  \E g : Replays(g, op, n + 1) /\ g[0] = f[0] /\ g[n + 1] = after
<1> DEFINE g == [i \in 0..(n + 1) |-> IF i = n + 1 THEN after ELSE f[i]]
<1>1. f \in [0..n -> [Wallets -> Int]]
  BY DEF Replays
<1>2. g \in [0..(n + 1) -> [Wallets -> Int]]
  BY <1>1
<1>3. g[0] = f[0] /\ g[n + 1] = after /\ \A i \in 0..n : g[i] = f[i]
  OBVIOUS
<1> HIDE DEF g
<1>4. ASSUME NEW i \in 1..(n + 1)
      PROVE  /\ g[i] = [g[i - 1] EXCEPT ![op[i].wallet] = After(op[i], g[i - 1][op[i].wallet])]
             /\ op[i].amount > 0 /\ g[i][op[i].wallet] >= 0
  <2>1. CASE i = n + 1
    <3>1. g[i - 1] = f[n] /\ g[i] = after /\ op[i] = leg
      BY <1>3, <2>1
    <3> QED
      BY <3>1
  <2>2. CASE i # n + 1
    <3>1. i \in 1..n /\ i - 1 \in 0..n
      BY <2>2
    <3>2. g[i - 1] = f[i - 1] /\ g[i] = f[i]
      BY <1>3, <3>1
    <3> QED
      BY <3>1, <3>2 DEF Replays
  <2> QED
    BY <2>1, <2>2
<1>5. Replays(g, op, n + 1)
  BY <1>2, <1>4 DEF Replays
<1> QED
  BY <1>3, <1>5

\* The UPDATE replays one leg more.
LEMMA MoveBalanceReplays ==
  ASSUME IInv, OpenIsReplayable, NEW t \in Txs, MoveBalance(t)
  PROVE  OpenIsReplayable'
<1> DEFINE leg == CurrentLeg(t)
           w == leg.wallet
<1>1. /\ tx[t].phase = "move" /\ leg.amount > 0 /\ Covered(leg, draftBalance[w])
      /\ lock' = [lock EXCEPT ![w] = t]
      /\ draftBalance' = [draftBalance EXCEPT ![w] = After(leg, @)]
      /\ tx' = [tx EXCEPT ![t].phase = "write"]
      /\ UNCHANGED <<balance, journal, draftJournal>>
  BY DEF MoveBalance
<1>2. leg \in Leg /\ w \in Wallets
  BY <1>1, CurrentLegType DEF IInv, Leg
<1>3. lock[w] \in {NoTx, t}
  <2> SUFFICES ASSUME lock[w] # NoTx, lock[w] # t PROVE FALSE
    OBVIOUS
  <2>1. lock[w] \in Txs
    BY <1>2 DEF IInv, TypeOK
  <2>2. WaitsFor(t, lock[w])
    BY <1>1, <2>1 DEF WaitsFor
  <2> QED
    BY <2>1, <2>2 DEF MoveBalance, Waiting
<1>4. /\ tx'[t].phase = "write" /\ tx'[t].op = tx[t].op /\ tx'[t].at = tx[t].at
      /\ \A u \in Txs \ {t} : tx'[u] = tx[u]
      /\ lock'[w] = t /\ draftBalance'[w] = After(leg, draftBalance[w])
      /\ \A v \in Wallets \ {w} : lock'[v] = lock[v] /\ draftBalance'[v] = draftBalance[v]
  BY <1>1, <1>2 DEF IInv, TypeOK, TxState
<1>5. ASSUME NEW u \in Txs \ {t}, tx'[u].phase \in Open PROVE Replayable(u)'
  <2>1. tx'[u] = tx[u] /\ Replayable(u)
    BY <1>4, <1>5 DEF OpenIsReplayable
  <2>2. \A v \in Wallets : /\ lock'[v] = u <=> lock[v] = u
                           /\ lock[v] = u => /\ draftBalance'[v] = draftBalance[v]
                                             /\ draftJournal'[v] = draftJournal[v]
    BY <1>1, <1>3, <1>4, NoTxAssumption
  <2> QED
    BY <1>1, <1>5, <2>1, <2>2, OthersKeep DEF IInv
<1>6. Replayable(t) /\ tx[t].phase \in Open
  BY <1>1 DEF OpenIsReplayable, Open
<1>7. OperationIsKnown(t)'
  BY <1>1, <1>4, <1>6 DEF Replayable, OperationIsKnown
<1> DEFINE n == tx[t].at - 1
<1>8. /\ n \in Nat /\ n + 1 = tx[t].at /\ Moved(t) = n /\ Moved(t)' = n + 1
      /\ Inserted(t) = n /\ Inserted(t)' = n
  BY <1>1, <1>4, <1>6 DEF Replayable, OperationIsKnown, Moved, Inserted
<1>9. leg = tx[t].op[n + 1]
  BY <1>8 DEF CurrentLeg
<1> HIDE DEF n, leg, w
<1>10. LegsAreLocked(t)'
  <2>1. \A i \in 1..n : lock[tx[t].op[i].wallet] = t /\ tx[t].op[i].wallet \in Wallets
    BY <1>6, <1>8, OperationType DEF Replayable, LegsAreLocked, IInv
  <2> SUFFICES ASSUME NEW i \in 1..(n + 1) PROVE lock'[tx[t].op[i].wallet] = t
    BY <1>4, <1>8 DEF LegsAreLocked
  <2>2. CASE i = n + 1
    BY <1>4, <1>9, <2>2 DEF w
  <2>3. CASE i # n + 1
    BY <1>4, <1>8, <2>1, <2>3
  <2> QED
    BY <2>2, <2>3
<1>11. View(t)[w] = draftBalance[w] /\ draftBalance[w] \in Int /\ draftBalance[w] >= 0
  BY <1>2, <1>3 DEF IInv, TypeOK, DraftsAreLocked, NothingOverdrawn, View
<1>12. View(t)' = [View(t) EXCEPT ![w] = After(leg, View(t)[w])]
  <2> DEFINE seen == [View(t) EXCEPT ![w] = After(leg, View(t)[w])]
  <2>1. /\ View(t)' = [v \in Wallets |-> View(t)'[v]]
        /\ seen = [v \in Wallets |-> seen[v]]
    BY DEF View
  <2>2. \A v \in Wallets \ {w} : View(t)'[v] = seen[v]
    BY <1>1, <1>4 DEF View
  <2>3. View(t)'[w] = After(leg, draftBalance[w]) /\ seen[w] = After(leg, draftBalance[w])
    BY <1>2, <1>4, <1>11 DEF View
  <2> HIDE DEF seen
  <2>4. \A v \in Wallets : View(t)'[v] = seen[v]
    BY <2>2, <2>3
  <2>5. View(t)' = seen
    BY <2>1, <2>4
  <2> QED
    BY <2>5 DEF seen
<1>13. View(t)' \in [Wallets -> Int] /\ View(t)'[w] >= 0
  <2>1. After(leg, draftBalance[w]) \in Int /\ After(leg, draftBalance[w]) >= 0
    BY <1>1, <1>2, <1>11 DEF After, Covered, Leg
  <2>2. View(t) \in [Wallets -> Int]
    BY DEF View, IInv, TypeOK
  <2> QED
    BY <1>2, <1>11, <1>12, <2>1, <2>2
<1>14. BalancesReplay(t)'
  <2>1. PICK f : Replays(f, tx[t].op, n) /\ f[0] = balance /\ f[n] = View(t)
    BY <1>6, <1>8 DEF Replayable, BalancesReplay
  <2> DEFINE after == View(t)'
             op == tx[t].op
  <2>2. /\ after \in [Wallets -> Int] /\ after[leg.wallet] >= 0 /\ leg.amount > 0
        /\ after = [f[n] EXCEPT ![leg.wallet] = After(leg, f[n][leg.wallet])]
        /\ leg \in Leg /\ leg = op[n + 1] /\ Replays(f, op, n) /\ n \in Nat
    BY <1>1, <1>2, <1>8, <1>9, <1>12, <1>13, <2>1 DEF w
  <2> HIDE DEF after, op
  <2>3. \E g : Replays(g, op, n + 1) /\ g[0] = f[0] /\ g[n + 1] = after
    BY <2>2, OneLegMore
  <2> QED
    BY <1>1, <1>4, <1>8, <2>1, <2>3 DEF BalancesReplay, after, op
<1>15. EntriesReplay(t)'
  <2>1. \A ref : Posted(ref)' <=> Posted(ref)
    BY <1>1 DEF Posted
  <2>2. /\ \A i, j \in 1..n : tx[t].op[i].reference = tx[t].op[j].reference => i = j
        /\ \A i \in 1..n : ~Posted(tx[t].op[i].reference)
    BY <1>6, <1>8 DEF Replayable, EntriesReplay
  <2>3. ASSUME NEW v \in Wallets, lock'[v] = t, NEW ref
        PROVE  ref \in RefsIn(draftJournal[v]) <=>
                 \/ ref \in RefsIn(journal[v])
                 \/ \E i \in 1..n : tx[t].op[i].wallet = v /\ tx[t].op[i].reference = ref
    <3>1. CASE lock[v] = t
      BY <1>6, <1>8, <3>1 DEF Replayable, EntriesReplay
    <3>2. CASE lock[v] # t
      <4>1. lock[v] = NoTx
        BY <1>3, <1>4, <2>3, <3>2
      <4>2. draftJournal[v] = journal[v]
        BY <4>1 DEF IInv, DraftsAreLocked
      <4>3. \A i \in 1..n : tx[t].op[i].wallet # v
        BY <1>6, <1>8, <3>2 DEF Replayable, LegsAreLocked
      <4> QED
        BY <4>2, <4>3
    <3> QED
      BY <3>1, <3>2
  <2>4. /\ tx'[t].op = tx[t].op /\ Inserted(t)' = n
        /\ journal' = journal /\ draftJournal' = draftJournal
    BY <1>1, <1>4, <1>8
  <2> QED
    BY <2>1, <2>2, <2>3, <2>4 DEF EntriesReplay
<1> QED
  BY <1>5, <1>7, <1>10, <1>14, <1>15 DEF OpenIsReplayable, Replayable

\* A new entry adds its reference to the passbook, and no other.
LEMMA AppendedReference ==
  ASSUME NEW entries \in Seq(Entry), NEW entry \in Entry, NEW ref
  PROVE  ref \in RefsIn(Append(entries, entry)) <=>
           ref \in RefsIn(entries) \/ ref = entry.reference
<1> DEFINE longer == Append(entries, entry)
<1>1. /\ DOMAIN entries = 1..Len(entries) /\ DOMAIN longer = 1..(Len(entries) + 1)
      /\ Len(entries) \in Nat /\ longer[Len(entries) + 1] = entry
      /\ \A i \in 1..Len(entries) : longer[i] = entries[i]
  OBVIOUS
<1> HIDE DEF longer
<1>2. ref \in RefsIn(longer) <=> \E i \in 1..(Len(entries) + 1) : longer[i].reference = ref
  BY <1>1 DEF RefsIn
<1>3. ref \in RefsIn(entries) <=> \E i \in 1..Len(entries) : entries[i].reference = ref
  BY <1>1 DEF RefsIn
<1>4. ASSUME ref \in RefsIn(longer) PROVE ref \in RefsIn(entries) \/ ref = entry.reference
  <2>1. PICK i \in 1..(Len(entries) + 1) : longer[i].reference = ref
    BY <1>2, <1>4
  <2>2. CASE i = Len(entries) + 1
    BY <1>1, <2>1, <2>2
  <2>3. CASE i # Len(entries) + 1
    BY <1>1, <1>3, <2>1, <2>3
  <2> QED
    BY <2>2, <2>3
<1>5. ASSUME ref \in RefsIn(entries) \/ ref = entry.reference PROVE ref \in RefsIn(longer)
  BY <1>1, <1>2, <1>3, <1>5
<1> QED
  BY <1>4, <1>5 DEF longer

\* The INSERT gives the leg that has moved its entry, which nobody posted before.
LEMMA WriteEntryReplays ==
  ASSUME IInv, OpenIsReplayable, NEW t \in Txs, WriteEntry(t)
  PROVE  OpenIsReplayable'
<1> DEFINE leg == CurrentLeg(t)
           w == leg.wallet
           entry == [reference |-> leg.reference, direction |-> leg.direction,
                     amount |-> leg.amount, balanceAfter |-> draftBalance[w]]
           n == tx[t].at
           op == tx[t].op
<1>1. /\ tx[t].phase = "write" /\ ~Posted(leg.reference) /\ ~Inserting(t, leg.reference)
      /\ draftJournal' = [draftJournal EXCEPT ![w] = Append(@, entry)]
      /\ tx' = [tx EXCEPT ![t].phase = IF tx[t].at = Len(tx[t].op) THEN "done" ELSE "move",
                          ![t].at = @ + 1]
      /\ UNCHANGED <<balance, journal, lock, draftBalance>>
  BY DEF WriteEntry
<1>2. leg \in Leg /\ w \in Wallets /\ lock[w] = t
  BY <1>1, CurrentLegType DEF IInv, Leg, WritersHoldTheirRow
<1>3. entry \in Entry /\ entry.reference = leg.reference /\ draftJournal[w] \in Seq(Entry)
  BY <1>2 DEF IInv, TypeOK, Leg, Entry
<1>4. /\ tx'[t].phase = (IF n = Len(op) THEN "done" ELSE "move")
      /\ tx'[t].op = op /\ tx'[t].at = n + 1
      /\ \A u \in Txs \ {t} : tx'[u] = tx[u]
      /\ draftJournal'[w] = Append(draftJournal[w], entry)
      /\ \A v \in Wallets \ {w} : draftJournal'[v] = draftJournal[v]
  BY <1>1, <1>2 DEF IInv, TypeOK, TxState
<1>5. ASSUME NEW u \in Txs \ {t}, tx'[u].phase \in Open PROVE Replayable(u)'
  <2>1. tx'[u] = tx[u] /\ Replayable(u) /\ tx[u].phase \in Open
    BY <1>4, <1>5 DEF OpenIsReplayable
  <2>2. \A v \in Wallets : /\ lock'[v] = u <=> lock[v] = u
                           /\ lock[v] = u => /\ draftBalance'[v] = draftBalance[v]
                                             /\ draftJournal'[v] = draftJournal[v]
    BY <1>1, <1>2, <1>4
  <2> QED
    BY <1>1, <2>1, <2>2, OthersKeep DEF IInv
<1>6. Replayable(t) /\ tx[t].phase \in Open
  BY <1>1 DEF OpenIsReplayable, Open
<1>7. /\ Len(op) \in Nat /\ n \in 1..Len(op)
      /\ \A i \in 1..Len(op) : op[i].wallet \in Wallets
  BY <1>1, <1>6, OperationType DEF IInv, Replayable, OperationIsKnown
<1>8. OperationIsKnown(t)'
  BY <1>4, <1>6, <1>7 DEF Replayable, OperationIsKnown
<1>9. /\ Moved(t) = n /\ Moved(t)' = n /\ Inserted(t) = n - 1 /\ Inserted(t)' = n
  BY <1>1, <1>4, <1>7 DEF Moved, Inserted
<1>10. leg = op[n]
  BY DEF CurrentLeg
<1> HIDE DEF leg, w, entry, n, op
<1>11. \A i \in 1..n : lock[op[i].wallet] = t
  BY <1>6, <1>9 DEF Replayable, LegsAreLocked, op
<1>12. LegsAreLocked(t)'
  BY <1>1, <1>4, <1>9, <1>11 DEF LegsAreLocked
<1>13. BalancesReplay(t)'
  <2>1. PICK f : Replays(f, op, n) /\ f[0] = balance /\ f[n] = View(t)
    BY <1>6, <1>9 DEF Replayable, BalancesReplay, op
  <2>2. View(t)' = View(t)
    BY <1>1 DEF View
  <2> QED
    BY <1>1, <1>4, <1>9, <2>1, <2>2 DEF BalancesReplay
<1>14. EntriesReplay(t)'
  <2>1. \A ref : Posted(ref)' <=> Posted(ref)
    BY <1>1 DEF Posted
  <2>2. /\ \A i, j \in 1..(n - 1) : op[i].reference = op[j].reference => i = j
        /\ \A i \in 1..(n - 1) : ~Posted(op[i].reference)
        /\ \A v \in Wallets : lock[v] = t =>
             \A ref : ref \in RefsIn(draftJournal[v]) <=>
                        \/ ref \in RefsIn(journal[v])
                        \/ \E i \in 1..(n - 1) : op[i].wallet = v /\ op[i].reference = ref
    BY <1>6, <1>9 DEF Replayable, EntriesReplay, op
  <2>3. ASSUME NEW i \in 1..(n - 1) PROVE op[i].reference # leg.reference
    <3>1. op[i].wallet \in Wallets /\ lock[op[i].wallet] = t
      BY <1>7, <1>11
    <3>2. op[i].reference \in RefsIn(draftJournal[op[i].wallet])
      BY <2>2, <3>1
    <3>3. op[i].reference \notin RefsIn(journal[op[i].wallet])
      BY <2>2, <3>1 DEF Posted
    <3> QED
      BY <1>1, <3>1, <3>2, <3>3 DEF Inserting
  <2>4. /\ \A i, j \in 1..n : op[i].reference = op[j].reference => i = j
        /\ \A i \in 1..n : ~Posted(op[i].reference)
    <3>1. n \in Nat /\ \A i \in 1..n : i = n \/ i \in 1..(n - 1)
      BY <1>7
    <3>2. \A i \in 1..n : ~Posted(op[i].reference)
      BY <1>1, <1>10, <2>2, <3>1
    <3>3. ASSUME NEW i \in 1..n, NEW j \in 1..n, op[i].reference = op[j].reference PROVE i = j
      BY <1>10, <2>2, <2>3, <3>1, <3>3
    <3> QED
      BY <3>2, <3>3
  <2>5. ASSUME NEW v \in Wallets, lock[v] = t, NEW ref
        PROVE  ref \in RefsIn(draftJournal'[v]) <=>
                 \/ ref \in RefsIn(journal[v])
                 \/ \E i \in 1..n : op[i].wallet = v /\ op[i].reference = ref
    <3>1. ref \in RefsIn(draftJournal[v]) <=>
            \/ ref \in RefsIn(journal[v])
            \/ \E i \in 1..(n - 1) : op[i].wallet = v /\ op[i].reference = ref
      BY <2>2, <2>5
    <3>2. n \in Nat \ {0} /\ 1..n = (1..(n - 1)) \union {n}
      BY <1>7
    <3>3. ref \in RefsIn(draftJournal'[v]) <=>
            \/ ref \in RefsIn(draftJournal[v])
            \/ w = v /\ leg.reference = ref
      <4>1. CASE v = w
        <5>1. ref \in RefsIn(Append(draftJournal[w], entry)) <=>
                ref \in RefsIn(draftJournal[w]) \/ ref = entry.reference
          BY <1>3, AppendedReference
        <5>2. ref \in RefsIn(draftJournal'[w]) <=>
                ref \in RefsIn(draftJournal[w]) \/ ref = leg.reference
          BY <1>3, <1>4, <5>1
        <5> QED
          BY <4>1, <5>2
      <4>2. CASE v # w
        BY <1>4, <4>2
      <4> QED
        BY <4>1, <4>2
    <3> QED
      BY <1>10, <3>1, <3>2, <3>3 DEF w
  <2>6. tx'[t].op = op /\ Inserted(t)' = n /\ lock' = lock /\ journal' = journal
    BY <1>1, <1>4, <1>9
  <2> QED
    BY <2>1, <2>4, <2>5, <2>6 DEF EntriesReplay
<1> QED
  BY <1>5, <1>8, <1>12, <1>13, <1>14 DEF OpenIsReplayable, Replayable

\* A transaction that fails takes nothing with it that others rely on.
LEMMA RollBackReplays ==
  ASSUME IInv, OpenIsReplayable, NEW t \in Txs, RollBack(t)
  PROVE  OpenIsReplayable'
<1>1. /\ tx' = [tx EXCEPT ![t].phase = "rolledback"] /\ UNCHANGED <<balance, journal>>
      /\ lock' = [w \in Wallets |-> IF lock[w] = t THEN NoTx ELSE lock[w]]
      /\ draftBalance' = [w \in Wallets |-> IF lock[w] = t THEN balance[w] ELSE draftBalance[w]]
      /\ draftJournal' = [w \in Wallets |-> IF lock[w] = t THEN journal[w] ELSE draftJournal[w]]
  BY DEF RollBack
<1>2. tx'[t].phase \notin Open /\ \A u \in Txs \ {t} : tx'[u] = tx[u]
  BY <1>1 DEF IInv, TypeOK, TxState, Open
<1> SUFFICES ASSUME NEW u \in Txs \ {t}, tx'[u].phase \in Open PROVE Replayable(u)'
  BY <1>2 DEF OpenIsReplayable
<1>3. tx'[u] = tx[u] /\ Replayable(u) /\ tx[u].phase \in Open
  BY <1>2 DEF OpenIsReplayable
<1>4. \A v \in Wallets : /\ lock'[v] = u <=> lock[v] = u
                         /\ lock[v] = u => /\ draftBalance'[v] = draftBalance[v]
                                           /\ draftJournal'[v] = draftJournal[v]
  BY <1>1, NoTxAssumption
<1> QED
  BY <1>1, <1>3, <1>4, OthersKeep DEF IInv

\* What a commit publishes are rows that no other open transaction has touched,
\* so the others are replayed over the new balances as over the old ones.
LEMMA CommitReplays ==
  ASSUME IInv, OpenIsReplayable, NEW t \in Txs, Commit(t)
  PROVE  OpenIsReplayable'
<1>1. /\ tx' = [tx EXCEPT ![t].phase = "committed"]
      /\ balance' = [w \in Wallets |-> IF lock[w] = t THEN draftBalance[w] ELSE balance[w]]
      /\ journal' = [w \in Wallets |-> IF lock[w] = t THEN draftJournal[w] ELSE journal[w]]
      /\ lock' = [w \in Wallets |-> IF lock[w] = t THEN NoTx ELSE lock[w]]
      /\ UNCHANGED <<draftBalance, draftJournal>>
  BY DEF Commit
<1>2. tx'[t].phase \notin Open /\ \A u \in Txs \ {t} : tx'[u] = tx[u]
  BY <1>1 DEF IInv, TypeOK, TxState, Open
<1> SUFFICES ASSUME NEW u \in Txs \ {t}, tx'[u].phase \in Open PROVE Replayable(u)'
  BY <1>2 DEF OpenIsReplayable
<1> DEFINE op == tx[u].op
           m == Moved(u)
<1>3. tx'[u] = tx[u] /\ tx'[u].op = op /\ Replayable(u) /\ tx[u].phase \in Open
  BY <1>2 DEF OpenIsReplayable
<1>4. /\ m \in Nat /\ Inserted(u) \in Nat /\ Inserted(u) <= m /\ m <= Len(op) /\ Len(op) \in Nat
      /\ \A i \in 1..Len(op) : op[i].wallet \in Wallets
  BY <1>3, OperationType DEF IInv, Replayable
<1>5. Moved(u)' = m /\ Inserted(u)' = Inserted(u)
  BY <1>3 DEF Moved, Inserted
<1>6. OperationIsKnown(u)'
  BY <1>3 DEF Replayable, OperationIsKnown
<1>7. \A v \in Wallets : /\ lock'[v] = u <=> lock[v] = u
                         /\ lock[v] = u => balance'[v] = balance[v] /\ journal'[v] = journal[v]
  BY <1>1, NoTxAssumption
<1> HIDE DEF op, m
<1>8. \A i \in 1..m : op[i].wallet \in Wallets /\ lock[op[i].wallet] = u
  BY <1>3, <1>4 DEF Replayable, LegsAreLocked, op, m
<1>9. LegsAreLocked(u)'
  BY <1>3, <1>5, <1>7, <1>8 DEF LegsAreLocked
<1>10. BalancesReplay(u)'
  <2>1. PICK f : Replays(f, op, m) /\ f[0] = balance /\ f[m] = View(u)
    BY <1>3 DEF Replayable, BalancesReplay, op, m
  <2>2. f \in [0..m -> [Wallets -> Int]]
    BY <2>1 DEF Replays
  <2>3. balance' \in [Wallets -> Int]
    BY <1>1 DEF IInv, TypeOK
  <2> DEFINE g == [i \in 0..m |-> [v \in Wallets |-> IF lock[v] = u THEN f[i][v] ELSE balance'[v]]]
  <2>4. g \in [0..m -> [Wallets -> Int]]
    BY <2>2, <2>3
  <2>5. \A i \in 0..m, v \in Wallets : g[i][v] = IF lock[v] = u THEN f[i][v] ELSE balance'[v]
    OBVIOUS
  <2> HIDE DEF g
  <2>6. ASSUME NEW i \in 1..m
        PROVE  /\ g[i] = [g[i - 1] EXCEPT ![op[i].wallet] = After(op[i], g[i - 1][op[i].wallet])]
               /\ op[i].amount > 0 /\ g[i][op[i].wallet] >= 0
    <3> DEFINE w == op[i].wallet
               next == [g[i - 1] EXCEPT ![w] = After(op[i], g[i - 1][w])]
    <3>1. w \in Wallets /\ lock[w] = u /\ i \in 0..m /\ i - 1 \in 0..m
      BY <1>4, <1>8
    <3>2. /\ f[i] = [f[i - 1] EXCEPT ![w] = After(op[i], f[i - 1][w])]
          /\ op[i].amount > 0 /\ f[i][w] >= 0
      BY <2>1 DEF Replays
    <3>3. f[i - 1] \in [Wallets -> Int] /\ g[i - 1] \in [Wallets -> Int] /\ g[i] \in [Wallets -> Int]
      BY <2>2, <2>4, <3>1
    <3>4. g[i][w] = f[i][w] /\ g[i - 1][w] = f[i - 1][w]
      BY <2>5, <3>1
    <3>5. f[i][w] = After(op[i], f[i - 1][w])
      BY <3>1, <3>2, <3>3
    <3>6. \A v \in Wallets \ {w} : g[i][v] = g[i - 1][v]
      BY <2>5, <3>1, <3>2, <3>3
    <3>7. g[i] = next
      <4>1. next[w] = After(op[i], g[i - 1][w]) /\ \A v \in Wallets \ {w} : next[v] = g[i - 1][v]
        BY <3>1, <3>3
      <4>2. next = [v \in Wallets |-> next[v]] /\ g[i] = [v \in Wallets |-> g[i][v]]
        BY <3>3
      <4> HIDE DEF next, w
      <4>3. \A v \in Wallets : g[i][v] = next[v]
        BY <3>4, <3>5, <3>6, <4>1
      <4> QED
        BY <4>2, <4>3
    <3> QED
      BY <3>2, <3>4, <3>7
  <2>7. Replays(g, op, m)
    BY <2>4, <2>6 DEF Replays
  <2>8. g[0] = balance'
    <3>1. 0 \in 0..m /\ g[0] \in [Wallets -> Int]
      BY <1>4, <2>4
    <3>2. \A v \in Wallets : g[0][v] = balance'[v]
      BY <1>7, <2>1, <2>5, <3>1
    <3> QED
      BY <2>3, <3>1, <3>2
  <2>9. g[m] = View(u)'
    <3>1. m \in 0..m /\ g[m] \in [Wallets -> Int]
      BY <1>4, <2>4
    <3>2. \A v \in Wallets : g[m][v] = View(u)'[v]
      BY <1>1, <1>7, <2>1, <2>5, <3>1 DEF View
    <3>3. View(u)' = [v \in Wallets |-> View(u)'[v]]
      BY DEF View
    <3> QED
      BY <3>1, <3>2, <3>3
  <2> QED
    BY <1>3, <1>5, <2>7, <2>8, <2>9 DEF BalancesReplay
<1>11. EntriesReplay(u)'
  <2> DEFINE k == Inserted(u)
  <2>1. /\ \A i, j \in 1..k : op[i].reference = op[j].reference => i = j
        /\ \A i \in 1..k : ~Posted(op[i].reference)
        /\ \A v \in Wallets : lock[v] = u =>
             \A ref : ref \in RefsIn(draftJournal[v]) <=>
                        \/ ref \in RefsIn(journal[v])
                        \/ \E i \in 1..k : op[i].wallet = v /\ op[i].reference = ref
    BY <1>3 DEF Replayable, EntriesReplay, op
  <2>2. ASSUME NEW i \in 1..k, NEW v \in Wallets, op[i].reference \in RefsIn(journal'[v])
        PROVE  FALSE
    <3> DEFINE home == op[i].wallet
    <3>1. home \in Wallets /\ lock[home] = u
      BY <1>4, <1>8
    <3>2. op[i].reference \in RefsIn(draftJournal[home])
      BY <2>1, <3>1
    <3>3. lock[v] = t /\ op[i].reference \in RefsIn(draftJournal[v])
      <4>1. op[i].reference \notin RefsIn(journal[v])
        BY <2>1 DEF Posted
      <4> QED
        BY <1>1, <2>2, <4>1
    <3>4. v = home
      BY <3>1, <3>2, <3>3 DEF IInv, DraftReferencesUnique, RefsIn
    <3> QED
      BY <3>1, <3>3, <3>4
  <2>3. \A i \in 1..k : ~(\E v \in Wallets : op[i].reference \in RefsIn(journal'[v]))
    BY <2>2
  <2>4. \A v \in Wallets : lock'[v] = u =>
          \A ref : ref \in RefsIn(draftJournal'[v]) <=>
                     \/ ref \in RefsIn(journal'[v])
                     \/ \E i \in 1..k : op[i].wallet = v /\ op[i].reference = ref
    BY <1>1, <1>7, <2>1
  <2> HIDE DEF k
  <2>5. tx'[u].op = op /\ Inserted(u)' = k
    BY <1>3, <1>5 DEF k
  <2> QED
    BY <2>1, <2>3, <2>4, <2>5 DEF EntriesReplay, Posted
<1> QED
  BY <1>6, <1>9, <1>10, <1>11 DEF Replayable

\* Whatever step is taken, every open transaction can be replayed after it.
LEMMA ReplayInvariant == IInv /\ OpenIsReplayable /\ [Next]_vars => OpenIsReplayable'
<1> SUFFICES ASSUME IInv, OpenIsReplayable, [Next]_vars PROVE OpenIsReplayable'
  OBVIOUS
<1>1. ASSUME NEW t \in Txs, Begin(t) PROVE OpenIsReplayable'
  BY <1>1, BeginReplays
<1>2. ASSUME NEW t \in Txs, Statement(t) PROVE OpenIsReplayable'
  <2>1. CASE MoveBalance(t)
    BY <2>1, MoveBalanceReplays
  <2>2. CASE WriteEntry(t)
    BY <2>2, WriteEntryReplays
  <2>3. CASE Commit(t)
    BY <2>3, CommitReplays
  <2>4. CASE RefuseMove(t) \/ RefuseDuplicate(t) \/ BreakDeadlock(t)
    BY <2>4, RollBackReplays DEF RefuseMove, RefuseDuplicate, BreakDeadlock
  <2> QED
    BY <1>2, <2>1, <2>2, <2>3, <2>4 DEF Statement
<1>3. ASSUME NEW t \in Txs, Fail(t) PROVE OpenIsReplayable'
  BY <1>3, RollBackReplays DEF Fail
<1>4. CASE UNCHANGED vars
  <2> SUFFICES ASSUME NEW u \in Txs, tx'[u].phase \in Open PROVE Replayable(u)'
    BY DEF OpenIsReplayable
  <2>1. tx'[u] = tx[u] /\ tx[u].phase \in Open /\ Replayable(u)
    BY <1>4 DEF vars, OpenIsReplayable
  <2> QED
    BY <1>4, <2>1, OthersKeep DEF vars, IInv
<1> QED
  BY <1>1, <1>2, <1>3, <1>4 DEF Next

-----------------------------------------------------------------------------
\* A non-empty set of naturals has a smallest member.
LEMMA SmallestOf ==
  ASSUME NEW S, S \subseteq Nat, S # {}
  PROVE  \E x \in S : \A y \in S : ~(y < x)
<1>1. PICK x \in S : \A y \in S : <<y, x>> \notin OpToRel(<, Nat)
  BY NatLessThanWellFounded, WFMin
<1>2. \A y \in S : ~(y < x)
  BY <1>1 DEF OpToRel
<1> QED
  BY <1>2

\* Two replays from the same balances agree: the first difference would be one
\* leg after an agreement.
LEMMA ReplayIsBalances ==
  ASSUME balance \in [Wallets -> Int], NEW op, NEW f, Len(op) \in Nat,
         Replays(f, op, Len(op)), f[0] = balance
  PROVE  Promise!Balances(op) = f
<1> DEFINE n == Len(op)
           after(g) == [i \in 0..n |->
             IF i = 0 THEN balance
             ELSE [g[i - 1] EXCEPT ![op[i].wallet] = After(op[i], g[i - 1][op[i].wallet])]]
<1>1. f \in [0..n -> [Wallets -> Int]]
  BY DEF Replays
<1>2. after(f) = f
  <2>1. ASSUME NEW i \in 0..n PROVE after(f)[i] = f[i]
    <3>1. CASE i = 0
      BY <3>1
    <3>2. CASE i # 0
      <4>1. i \in 1..n
        BY <3>2
      <4> QED
        BY <3>2, <4>1 DEF Replays
    <3> QED
      BY <3>1, <3>2
  <2>2. after(f) = [i \in 0..n |-> after(f)[i]] /\ f = [i \in 0..n |-> f[i]]
    BY <1>1
  <2> HIDE DEF after
  <2> QED
    BY <2>1, <2>2
<1>3. ASSUME NEW g, g = after(g) PROVE g = f
  <2>1. g = [i \in 0..n |-> g[i]] /\ f = [i \in 0..n |-> f[i]]
    BY <1>1, <1>3
  <2> DEFINE Bad == {i \in 0..n : g[i] # f[i]}
  <2> SUFFICES ASSUME Bad # {} PROVE FALSE
    BY <2>1
  <2>2. PICK i \in Bad : \A j \in Bad : ~(j < i)
    <3>1. Bad \subseteq Nat
      OBVIOUS
    <3> HIDE DEF Bad
    <3> QED
      BY <3>1, SmallestOf
  <2>3. i \in 0..n /\ g[i] # f[i]
    BY <2>2
  <2>4. g[0] = balance
    BY <1>3
  <2>5. i \in 1..n /\ i - 1 \in 0..n
    BY <2>3, <2>4
  <2>6. g[i - 1] = f[i - 1]
    BY <2>2, <2>3, <2>5
  <2>7. g[i] = after(g)[i] /\ f[i] = after(f)[i]
    BY <1>2, <1>3
  <2>8. after(g)[i] = after(f)[i]
    BY <2>5, <2>6
  <2> QED
    BY <2>3, <2>7, <2>8
<1>4. Promise!Balances(op) = CHOOSE g : g = after(g)
  BY DEF Promise!Balances, Promise!After, After
<1> HIDE DEF after
<1> QED
  BY <1>2, <1>3, <1>4

\* A commit is the promised operation, whole.
LEMMA CommitPosts ==
  ASSUME IInv, OpenIsReplayable, NEW t \in Txs, Commit(t)
  PROVE  Promise!Next
<1> DEFINE op == tx[t].op
           n == Len(op)
           posted == UNION {RefsIn(journal[w]) : w \in Wallets}
<1>1. /\ tx[t].phase = "done"
      /\ balance' = [w \in Wallets |-> IF lock[w] = t THEN draftBalance[w] ELSE balance[w]]
      /\ journal' = [w \in Wallets |-> IF lock[w] = t THEN draftJournal[w] ELSE journal[w]]
  BY DEF Commit
<1>2. Replayable(t) /\ tx[t].phase \in Open
  BY <1>1 DEF OpenIsReplayable, Open
<1>3. /\ op \in Operations /\ op \in Seq(Leg) /\ n \in Nat
      /\ \A i \in 1..n : op[i].wallet \in Wallets
      /\ Moved(t) = n /\ Inserted(t) = n
  BY <1>1, <1>2, OperationType DEF IInv, Replayable, OperationIsKnown, Moved, Inserted
<1>4. DOMAIN op = 1..n
  BY <1>3
<1> HIDE DEF op, n
<1>5. \A i \in 1..n : lock[op[i].wallet] = t
  BY <1>2, <1>3 DEF Replayable, LegsAreLocked, op
<1>6. PICK f : Replays(f, op, n) /\ f[0] = balance /\ f[n] = View(t)
  BY <1>2, <1>3 DEF Replayable, BalancesReplay, op
<1>7. Promise!Balances(op) = f
  BY <1>3, <1>6, ReplayIsBalances DEF IInv, TypeOK, n
<1>8. /\ \A i, j \in 1..n : op[i].reference = op[j].reference => i = j
      /\ \A i \in 1..n : ~Posted(op[i].reference)
      /\ \A w \in Wallets : lock[w] = t =>
           \A ref : ref \in RefsIn(draftJournal[w]) <=>
                      \/ ref \in RefsIn(journal[w])
                      \/ \E i \in 1..n : op[i].wallet = w /\ op[i].reference = ref
  BY <1>2, <1>3 DEF Replayable, EntriesReplay, op
<1>9. Promise!ReferencesOf(op) \intersect posted = {}
  BY <1>4, <1>8 DEF Promise!ReferencesOf, Posted
<1>10. balance' = Promise!Balances(op)[n]
  BY <1>1, <1>6, <1>7 DEF View
<1>11. posted' = posted \union Promise!ReferencesOf(op)
  <2>1. ASSUME NEW ref PROVE ref \in posted' <=> ref \in posted \/ ref \in Promise!ReferencesOf(op)
    <3>1. ref \in Promise!ReferencesOf(op) <=> \E i \in 1..n : op[i].reference = ref
      BY <1>4 DEF Promise!ReferencesOf
    <3>2. ref \in posted' <=> \E w \in Wallets : ref \in RefsIn(journal'[w])
      OBVIOUS
    <3>3. \A w \in Wallets :
            ref \in RefsIn(journal'[w]) <=>
              \/ ref \in RefsIn(journal[w])
              \/ lock[w] = t /\ \E i \in 1..n : op[i].wallet = w /\ op[i].reference = ref
      BY <1>1, <1>8
    <3>4. ref \in posted <=> \E w \in Wallets : ref \in RefsIn(journal[w])
      OBVIOUS
    <3> HIDE DEF posted
    <3> QED
      BY <1>3, <1>5, <3>1, <3>2, <3>3, <3>4
  <2> QED
    BY <2>1
<1>12. \A i \in DOMAIN op : op[i].amount > 0 /\ Promise!Balances(op)[i][op[i].wallet] >= 0
  BY <1>4, <1>6, <1>7 DEF Replays
<1>13. Promise!Post(op)
  BY <1>4, <1>8, <1>9, <1>10, <1>11, <1>12 DEF Promise!Post, n
<1> QED
  BY <1>3, <1>13 DEF Promise!Next

\* Every step of a transaction is the promised operation or is not seen at all.
LEMMA StepIsPromised ==
  ASSUME IInv, OpenIsReplayable, [Next]_vars
  PROVE  [Promise!Next]_(Promise!vars)
<1>1. ASSUME UNCHANGED <<balance, journal>> PROVE UNCHANGED Promise!vars
  BY <1>1 DEF Promise!vars
<1>2. ASSUME NEW t \in Txs, Begin(t) PROVE UNCHANGED Promise!vars
  BY <1>1, <1>2 DEF Begin
<1>3. ASSUME NEW t \in Txs, MoveBalance(t) \/ WriteEntry(t) PROVE UNCHANGED Promise!vars
  BY <1>1, <1>3 DEF MoveBalance, WriteEntry
<1>4. ASSUME NEW t \in Txs, RefuseMove(t) \/ RefuseDuplicate(t) \/ BreakDeadlock(t) \/ Fail(t)
      PROVE  UNCHANGED Promise!vars
  BY <1>1, <1>4 DEF RefuseMove, RefuseDuplicate, BreakDeadlock, Fail, RollBack
<1>5. ASSUME NEW t \in Txs, Commit(t) PROVE Promise!Next
  BY <1>5, CommitPosts
<1>6. CASE UNCHANGED vars
  BY <1>1, <1>6 DEF vars
<1> QED
  BY <1>2, <1>3, <1>4, <1>5, <1>6 DEF Next, Statement

\* Callers of core/ledger.ts see whole operations only: a transaction is posted
\* at its COMMIT as if it had run alone, or it is not seen at all.
THEOREM PromiseTheorem == Spec => ImplementsPromise
<1>1. Init => OpenIsReplayable
  BY DEF Init, OpenIsReplayable, Open
<1>2. Init => Promise!Init
  BY DEF Init, Promise!Init, RefsIn
<1>3. Spec => []OpenIsReplayable
  BY <1>1, ReplayInvariant, Invariant, PTL DEF Spec
<1>4. IInv /\ OpenIsReplayable /\ [Next]_vars => [Promise!Next]_(Promise!vars)
  BY StepIsPromised
<1>5. Spec => Promise!Spec
  BY <1>2, <1>3, <1>4, Invariant, PTL DEF Spec, Promise!Spec
<1> QED
  BY <1>5 DEF ImplementsPromise

=============================================================================

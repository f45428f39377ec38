------------------------------- MODULE Ledger -------------------------------
(***************************************************************************)
(* core/ledger.ts as the database runs it.  postEntry is two statements,   *)
(* a guarded UPDATE of the wallet row and an INSERT of the ledger entry,   *)
(* and the transactions that call it interleave between any two            *)
(* statements (READ COMMITTED).  An UPDATE takes the wallet's row lock     *)
(* until the transaction ends and re-reads the row it waited for; an       *)
(* INSERT waits for an uncommitted entry with its reference and fails on   *)
(* a committed one.                                                        *)
(*                                                                         *)
(* A transaction's own writes are the drafts of the wallets it has locked; *)
(* COMMIT publishes them, any failure discards them.                       *)
(***************************************************************************)
EXTENDS Integers, Sequences, FiniteSets

CONSTANTS Wallets,     \* wallet_accounts rows: one per member and wallet type
          Txs,         \* database transactions; each runs at most once
          Operations,  \* what a transaction may post: sequences of legs
          References,  \* ledger_entries.reference
          Opening,     \* the balance of each wallet when the model starts
          NoTx         \* the holder of an unlocked row

Leg == [wallet : Wallets, direction : {"DEBIT", "CREDIT"},
        amount : Int, reference : References]

ASSUME WalletsAssumption == Opening \in [Wallets -> Nat]
ASSUME OperationsAssumption == Operations \subseteq Seq(Leg) \ {<<>>}
ASSUME NoTxAssumption == NoTx \notin Txs

VARIABLES
  balance,       \* [Wallets -> Int], committed wallet_accounts.balance
  journal,       \* [Wallets -> Seq(Entry)], committed ledger_entries
  lock,          \* [Wallets -> Txs or NoTx], the row lock of each wallet
  draftBalance,  \* balance as the lock holder has written it
  draftJournal,  \* journal as the lock holder has written it
  tx             \* [Txs -> TxState], where each transaction is

vars == <<balance, journal, lock, draftBalance, draftJournal, tx>>

\* transferBetweenWallets: two legs of one transaction.
TransferBetweenWallets(from, to, amount, out, into) ==
  << [wallet |-> from, direction |-> "DEBIT", amount |-> amount, reference |-> out],
     [wallet |-> to, direction |-> "CREDIT", amount |-> amount, reference |-> into] >>

Entry == [reference : References, direction : {"DEBIT", "CREDIT"},
          amount : Int, balanceAfter : Int]

Open == {"move", "write", "done"}
TxState == [phase : Open \union {"idle", "committed", "rolledback"},
            op : Operations \union {<<>>}, at : Nat]

TypeOK ==
  /\ balance \in [Wallets -> Int]
  /\ journal \in [Wallets -> Seq(Entry)]
  /\ lock \in [Wallets -> Txs \union {NoTx}]
  /\ draftBalance \in [Wallets -> Int]
  /\ draftJournal \in [Wallets -> Seq(Entry)]
  /\ tx \in [Txs -> TxState]
  /\ \A t \in Txs : tx[t].phase \in {"move", "write"} => tx[t].at \in DOMAIN tx[t].op

-----------------------------------------------------------------------------
CurrentLeg(t) == tx[t].op[tx[t].at]

\* UPDATE ... SET balance = balance +/- amount
After(leg, b) ==
  IF leg.direction = "CREDIT" THEN b + leg.amount ELSE b - leg.amount

\* Wrong variant: the UPDATE without its guard.
CoveredUnguarded(leg, b) == TRUE

\* ... AND balance - locked >= amount.  No code path writes `locked`: it is 0.
Covered(leg, b) == leg.direction = "DEBIT" => b >= leg.amount

RefsIn(entries) == {entries[i].reference : i \in DOMAIN entries}

\* Wrong variant: no unique index on reference.
PostedUnindexed(ref) == FALSE

Posted(ref) == \E w \in Wallets : ref \in RefsIn(journal[w])

\* Transaction u has inserted ref and has not ended.
Inserting(u, ref) ==
  \E w \in Wallets : /\ lock[w] = u
                     /\ ref \in RefsIn(draftJournal[w])
                     /\ ref \notin RefsIn(journal[w])

\* The statement t is about to run must wait for u to end.
WaitsFor(t, u) ==
  /\ u \in Txs \ {t}
  /\ \/ tx[t].phase = "move" /\ CurrentLeg(t).amount > 0 /\ lock[CurrentLeg(t).wallet] = u
     \/ tx[t].phase = "write" /\ Inserting(u, CurrentLeg(t).reference)

Waiting(t) == \E u \in Txs : WaitsFor(t, u)

\* t is on a cycle of the waits-for graph, which has one edge per waiter.
Deadlocked(t) ==
  \E cycle \in SUBSET Txs :
    /\ t \in cycle
    /\ \A u \in cycle : /\ \E v \in cycle : WaitsFor(u, v)
                        /\ \E v \in cycle : WaitsFor(v, u)

-----------------------------------------------------------------------------
Init ==
  /\ balance = Opening
  /\ journal = [w \in Wallets |-> <<>>]
  /\ lock = [w \in Wallets |-> NoTx]
  /\ draftBalance = balance
  /\ draftJournal = journal
  /\ tx = [t \in Txs |-> [phase |-> "idle", op |-> <<>>, at |-> 1]]

\* A handler or a job opens a transaction.  Nothing stops another from having
\* posted the same operation before, or from posting it at the same time.
Begin(t) ==
  /\ tx[t].phase = "idle"
  /\ \E op \in Operations : tx' = [tx EXCEPT ![t] = [phase |-> "move", op |-> op, at |-> 1]]
  /\ UNCHANGED <<balance, journal, lock, draftBalance, draftJournal>>

\* postEntry's UPDATE: lock the row, then move the balance if the guard holds.
MoveBalance(t) ==
  /\ tx[t].phase = "move"
  /\ ~Waiting(t)
  /\ LET leg == CurrentLeg(t)
         w == leg.wallet
     IN /\ leg.amount > 0
        /\ Covered(leg, draftBalance[w])
        /\ lock' = [lock EXCEPT ![w] = t]
        /\ draftBalance' = [draftBalance EXCEPT ![w] = After(leg, @)]
  /\ tx' = [tx EXCEPT ![t].phase = "write"]
  /\ UNCHANGED <<balance, journal, draftJournal>>

\* Wrong variant: each leg is posted through the global client, so it commits
\* on its own.
WriteEntryAutoCommit(t) ==
  /\ tx[t].phase = "write"
  /\ ~Waiting(t)
  /\ LET leg == CurrentLeg(t)
         w == leg.wallet
     IN /\ ~Posted(leg.reference)
        /\ draftJournal' = [draftJournal EXCEPT ![w] =
             Append(@, [reference |-> leg.reference, direction |-> leg.direction,
                        amount |-> leg.amount, balanceAfter |-> draftBalance[w]])]
        /\ lock' = [lock EXCEPT ![w] = NoTx]
  /\ balance' = draftBalance
  /\ journal' = draftJournal'
  /\ tx' = [tx EXCEPT ![t].phase = IF tx[t].at = Len(tx[t].op) THEN "done" ELSE "move",
                      ![t].at = @ + 1]
  /\ UNCHANGED draftBalance

\* Wrong variant: balanceAfter computed from the committed balance the
\* transaction could have read before the UPDATE waited for the row.
WriteEntryStale(t) ==
  /\ tx[t].phase = "write"
  /\ ~Waiting(t)
  /\ LET leg == CurrentLeg(t)
         w == leg.wallet
     IN /\ ~Posted(leg.reference) /\ ~Inserting(t, leg.reference)
        /\ \E read \in {Opening[w], balance[w]} :
             draftJournal' = [draftJournal EXCEPT ![w] =
               Append(@, [reference |-> leg.reference, direction |-> leg.direction,
                          amount |-> leg.amount, balanceAfter |-> After(leg, read)])]
  /\ tx' = [tx EXCEPT ![t].phase = IF tx[t].at = Len(tx[t].op) THEN "done" ELSE "move",
                      ![t].at = @ + 1]
  /\ UNCHANGED <<balance, journal, lock, draftBalance>>

\* postEntry's INSERT, recording the balance the UPDATE returned.
WriteEntry(t) ==
  /\ tx[t].phase = "write"
  /\ ~Waiting(t)
  /\ LET leg == CurrentLeg(t)
         w == leg.wallet
     IN /\ ~Posted(leg.reference) /\ ~Inserting(t, leg.reference)
        /\ draftJournal' = [draftJournal EXCEPT ![w] =
             Append(@, [reference |-> leg.reference, direction |-> leg.direction,
                        amount |-> leg.amount, balanceAfter |-> draftBalance[w]])]
  /\ tx' = [tx EXCEPT ![t].phase = IF tx[t].at = Len(tx[t].op) THEN "done" ELSE "move",
                      ![t].at = @ + 1]
  /\ UNCHANGED <<balance, journal, lock, draftBalance>>

Commit(t) ==
  /\ tx[t].phase = "done"
  /\ balance' = [w \in Wallets |-> IF lock[w] = t THEN draftBalance[w] ELSE balance[w]]
  /\ journal' = [w \in Wallets |-> IF lock[w] = t THEN draftJournal[w] ELSE journal[w]]
  /\ lock' = [w \in Wallets |-> IF lock[w] = t THEN NoTx ELSE lock[w]]
  /\ tx' = [tx EXCEPT ![t].phase = "committed"]
  /\ UNCHANGED <<draftBalance, draftJournal>>

RollBack(t) ==
  /\ lock' = [w \in Wallets |-> IF lock[w] = t THEN NoTx ELSE lock[w]]
  /\ draftBalance' = [w \in Wallets |-> IF lock[w] = t THEN balance[w] ELSE draftBalance[w]]
  /\ draftJournal' = [w \in Wallets |-> IF lock[w] = t THEN journal[w] ELSE draftJournal[w]]
  /\ tx' = [tx EXCEPT ![t].phase = "rolledback"]
  /\ UNCHANGED <<balance, journal>>

\* conflict() on a non-positive amount; insufficientFunds() on zero rows.
RefuseMove(t) ==
  /\ tx[t].phase = "move"
  /\ ~Waiting(t)
  /\ LET leg == CurrentLeg(t)
     IN leg.amount <= 0 \/ ~Covered(leg, draftBalance[leg.wallet])
  /\ RollBack(t)

\* Wrong variant: the duplicate's error is swallowed and the INSERT retried.
RefuseDuplicateNever(t) == FALSE

\* The unique index on reference turns a repeated posting into an error.
RefuseDuplicate(t) ==
  /\ tx[t].phase = "write"
  /\ ~Waiting(t)
  /\ Posted(CurrentLeg(t).reference) \/ Inserting(t, CurrentLeg(t).reference)
  /\ RollBack(t)

\* The database aborts a transaction on a cycle of waits (two transfers of one
\* member in opposite directions lock the two wallets in opposite orders).
BreakDeadlock(t) == Deadlocked(t) /\ RollBack(t)

\* The process dies, the connection drops or the interactive timeout expires.
Fail(t) == tx[t].phase \in Open /\ RollBack(t)

Statement(t) ==
  \/ MoveBalance(t) \/ WriteEntry(t) \/ Commit(t)
  \/ RefuseMove(t) \/ RefuseDuplicate(t) \/ BreakDeadlock(t)

Next == \E t \in Txs : Begin(t) \/ Statement(t) \/ Fail(t)

Spec == Init /\ [][Next]_vars

\* The database runs the statements it is given; nothing obliges it to fail.
FairSpec == Spec /\ \A t \in Txs : WF_vars(Statement(t))

-----------------------------------------------------------------------------
(* Properties *)

\* Every entry continues the one before it in its passbook, and the newest one
\* recorded the current balance, whatever aborts or dies between two statements:
\* no moment exists at which jobs/trial-balance.job.ts would report a wallet.
\* A balanceAfter taken from any read but the UPDATE's own would break it.
RunningBalance ==
  \A w \in Wallets :
    /\ \A i \in DOMAIN journal[w] :
         journal[w][i].balanceAfter =
           After(journal[w][i], IF i = 1 THEN Opening[w] ELSE journal[w][i - 1].balanceAfter)
    /\ balance[w] = IF journal[w] = <<>> THEN Opening[w]
                    ELSE journal[w][Len(journal[w])].balanceAfter

\* Racing debits cannot take a wallet below zero: the guard is evaluated on the
\* row the transaction has locked, not on a balance read earlier.
NoOverdraw == \A w \in Wallets : balance[w] >= 0

\* A retried or concurrent job that repeats an operation never posts it twice:
\* no reference appears on two entries.
PostedOnce ==
  \A v, w \in Wallets : \A i \in DOMAIN journal[v], j \in DOMAIN journal[w] :
    journal[v][i].reference = journal[w][j].reference => v = w /\ i = j

\* A transfer's debit without its credit, an entry without its balance move, a
\* replayed operation: none is a step of the promise callers rely on.
Promise == INSTANCE LedgerPromise
             WITH posted <- UNION {RefsIn(journal[w]) : w \in Wallets}
ImplementsPromise == Promise!Spec

\* Opposite transfers deadlock on the row locks; every transaction still ends.
EveryTransactionEnds ==
  \A t \in Txs : tx[t].phase \in Open ~> tx[t].phase \in {"committed", "rolledback"}
=============================================================================

---------------------------- MODULE LedgerPromise ----------------------------
(***************************************************************************)
(* What core/ledger.ts promises its callers: an operation (one database    *)
(* transaction that posts one or more entries) happens entirely or not at  *)
(* all, never leaves a wallet overdrawn on the way, and never happens      *)
(* twice, because each of its entries carries a reference posted once.     *)
(***************************************************************************)
EXTENDS Integers, Sequences

CONSTANTS Wallets, Operations, Opening

VARIABLES balance, posted

vars == <<balance, posted>>

\* The balance an entry produces from the balance it finds.
After(leg, b) ==
  IF leg.direction = "CREDIT" THEN b + leg.amount ELSE b - leg.amount

\* Balances[i] is every wallet once the first i entries of op are posted.
Balances(op) ==
  LET step[i \in 0..Len(op)] ==
        IF i = 0 THEN balance
        ELSE [step[i - 1] EXCEPT ![op[i].wallet] = After(op[i], @)]
  IN step

ReferencesOf(op) == {op[i].reference : i \in DOMAIN op}

Init == balance = Opening /\ posted = {}

Post(op) ==
  /\ ReferencesOf(op) \intersect posted = {}
  /\ \A i, j \in DOMAIN op : op[i].reference = op[j].reference => i = j
  /\ \A i \in DOMAIN op : /\ op[i].amount > 0
                          /\ Balances(op)[i][op[i].wallet] >= 0
  /\ balance' = Balances(op)[Len(op)]
  /\ posted' = posted \union ReferencesOf(op)

Next == \E op \in Operations : Post(op)

Spec == Init /\ [][Next]_vars
=============================================================================

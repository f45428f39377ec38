------------------------------ MODULE Capping ------------------------------
(***************************************************************************)
(* The earnings ceiling: consumeAllowance in core/capping.ts, and the      *)
(* payouts that pass through it (daily ROI, commissions, reward claims).   *)
(* A payout is one database transaction at READ COMMITTED: it reads the    *)
(* member's investments once, and then updates them oldest first, each     *)
(* under a guard the database evaluates on the row's last committed value, *)
(* once no other transaction holds the row.                                *)
(*                                                                         *)
(* The investments and payouts are one member's: nothing here relates the  *)
(* ceilings of two.  The order of the rows of several is in PayoutLocks.   *)
(***************************************************************************)
EXTENDS Integers, FiniteSetsExt, Functions

CONSTANTS
  Investments,   \* numbered in the order of startedAt
  Cap,           \* [Investments -> capLimit]
  Payouts,
  Intended,      \* [Payouts -> the amount before the ceiling]
  Bought,        \* the investments held at the start; the others may be bought
  None

ASSUME CappingAssumption ==
  /\ Investments \subseteq Nat /\ Bought \subseteq Investments
  /\ Cap \in [Investments -> Nat \ {0}]
  /\ Intended \in [Payouts -> Nat \ {0}]
  /\ None \notin Payouts

VARIABLES
  status,   \* [Investments -> {"none", "ACTIVE", "CAPPED"}]
  earned,   \* [Investments -> totalEarned], as committed
  holder,   \* [Investments -> the payout that holds the row, or None]
  payout,   \* [Payouts -> where each payout is, and what it took so far]
  paid      \* [Payouts -> the amount credited to the wallet], as committed

vars == <<status, earned, holder, payout, paid>>

Nothing == [i \in Investments |-> 0]
Idle == [pc |-> "idle", todo |-> {}, seen |-> Nothing, took |-> Nothing, left |-> 0]

TypeOK ==
  /\ status \in [Investments -> {"none", "ACTIVE", "CAPPED"}]
  /\ earned \in [Investments -> Nat]
  /\ holder \in [Investments -> Payouts \union {None}]
  /\ payout \in [Payouts -> [pc : {"idle", "consume", "done"}, todo : SUBSET Investments,
                   seen : [Investments -> Nat], took : [Investments -> Nat], left : Nat]]
  /\ paid \in [Payouts -> Nat]

Init ==
  /\ status = [i \in Investments |-> IF i \in Bought THEN "ACTIVE" ELSE "none"]
  /\ earned = Nothing
  /\ holder = [i \in Investments |-> None]
  /\ payout = [p \in Payouts |-> Idle]
  /\ paid = [p \in Payouts |-> 0]

-----------------------------------------------------------------------------

\* purchase(): a fresh package raises the ceiling.
Purchase(i) ==
  /\ status[i] = "none" /\ \A j \in Investments : j < i => status[j] # "none"
  /\ status' = [status EXCEPT ![i] = "ACTIVE"]
  /\ UNCHANGED <<earned, holder, payout, paid>>

\* The list of ACTIVE investments with headroom, in one read.
ReadInvestments(p) ==
  LET active == {i \in Investments : status[i] = "ACTIVE" /\ earned[i] < Cap[i]}
  IN /\ payout[p].pc = "idle"
     /\ payout' = [payout EXCEPT ![p] =
          [pc |-> "consume", todo |-> active, took |-> Nothing, left |-> Intended[p],
           seen |-> [i \in Investments |-> IF i \in active THEN Cap[i] - earned[i] ELSE 0]]]
     /\ UNCHANGED <<status, earned, holder, paid>>

\* Wrong variant: the list comes back in no particular order.
TurnAnyOrder(p, i) == i \in payout[p].todo

\* orderBy startedAt: the oldest of the list is next.
Turn(p, i) == i \in payout[p].todo /\ \A j \in payout[p].todo : i <= j

Take(p, i) == IF payout[p].left < payout[p].seen[i] THEN payout[p].left ELSE payout[p].seen[i]

\* Wrong variant: the update is not guarded.
ConsumeUnguarded(p) ==
  /\ payout[p].pc = "consume" /\ payout[p].left > 0
  /\ \E i \in Investments :
       /\ Turn(p, i) /\ holder[i] = None
       /\ holder' = [holder EXCEPT ![i] = p]
       /\ payout' = [payout EXCEPT ![p].todo = @ \ {i}, ![p].left = @ - Take(p, i),
                                   ![p].took[i] = Take(p, i)]
  /\ UNCHANGED <<status, earned, paid>>

\* One guarded update, once no other transaction holds the row.  Where the
\* headroom that was read has gone it changes nothing, and the loop goes on.
Consume(p) ==
  /\ payout[p].pc = "consume" /\ payout[p].left > 0
  /\ \E i \in Investments :
       /\ Turn(p, i) /\ holder[i] = None
       /\ \/ /\ earned[i] + Take(p, i) <= Cap[i]
             /\ holder' = [holder EXCEPT ![i] = p]
             /\ payout' = [payout EXCEPT ![p].todo = @ \ {i}, ![p].left = @ - Take(p, i),
                                         ![p].took[i] = Take(p, i)]
          \/ /\ earned[i] + Take(p, i) > Cap[i]
             /\ payout' = [payout EXCEPT ![p].todo = @ \ {i}]
             /\ UNCHANGED holder
  /\ UNCHANGED <<status, earned, paid>>

Release(p) == [i \in Investments |-> IF holder[i] = p THEN None ELSE holder[i]]
EarnedWith(p) == [i \in Investments |-> earned[i] + payout[p].took[i]]
\* What the updates granted: `left` has gone down by each of them.
Consumed(p) == Intended[p] - payout[p].left
Finished(p) == payout[p].pc = "consume" /\ (payout[p].left = 0 \/ payout[p].todo = {})

\* Wrong variant: the wallet is credited with the amount intended.
CommitIntended(p) ==
  /\ Finished(p)
  /\ earned' = EarnedWith(p)
  /\ status' = [i \in Investments |->
                  IF holder[i] = p /\ EarnedWith(p)[i] >= Cap[i] THEN "CAPPED" ELSE status[i]]
  /\ paid' = [paid EXCEPT ![p] = Intended[p]]
  /\ holder' = Release(p)
  /\ payout' = [payout EXCEPT ![p] = [Idle EXCEPT !.pc = "done"]]

\* Wrong variant: an investment is marked when its headroom is below the next
\* payout, not when it is gone.
CommitMarksEarly(p) ==
  /\ Finished(p)
  /\ earned' = EarnedWith(p)
  /\ status' = [i \in Investments |->
                  IF holder[i] = p /\ EarnedWith(p)[i] + Intended[p] > Cap[i] THEN "CAPPED" ELSE status[i]]
  /\ paid' = [paid EXCEPT ![p] = Consumed(p)]
  /\ holder' = Release(p)
  /\ payout' = [payout EXCEPT ![p] = [Idle EXCEPT !.pc = "done"]]

\* What the updates granted is credited, and a row at its ceiling is marked,
\* in the same transaction.
Commit(p) ==
  /\ Finished(p)
  /\ earned' = EarnedWith(p)
  /\ status' = [i \in Investments |->
                  IF holder[i] = p /\ EarnedWith(p)[i] >= Cap[i] THEN "CAPPED" ELSE status[i]]
  /\ paid' = [paid EXCEPT ![p] = Consumed(p)]
  /\ holder' = Release(p)
  /\ payout' = [payout EXCEPT ![p] = [Idle EXCEPT !.pc = "done"]]

\* The transaction rolls back; the payout may be tried again.
Abort(p) ==
  /\ payout[p].pc = "consume"
  /\ holder' = Release(p)
  /\ payout' = [payout EXCEPT ![p] = Idle]
  /\ UNCHANGED <<status, earned, paid>>

-----------------------------------------------------------------------------

Step(p) == ReadInvestments(p) \/ Consume(p) \/ Commit(p)

Next ==
  \/ \E i \in Investments : Purchase(i)
  \/ \E p \in Payouts : Step(p) \/ Abort(p)

Spec == Init /\ [][Next]_vars

\* A payout that started runs on, the database grants a row that is free, and
\* transactions are not rolled back for ever.
LiveSpec ==
  /\ Spec
  /\ \A p \in Payouts : WF_vars(Step(p))
  /\ <>[][\A p \in Payouts : ~Abort(p)]_vars

-----------------------------------------------------------------------------
(* Properties *)

\* No interleaving of payouts takes an investment past its ceiling, not even
\* inside a transaction that has yet to commit.
CapHolds ==
  \A i \in Investments :
    earned[i] + (IF holder[i] = None THEN 0 ELSE payout[holder[i]].took[i]) <= Cap[i]

\* An investment is CAPPED exactly when its ceiling is used up: earlier and the
\* member loses income, later and every payout keeps reading a spent row.
CappedIffFull ==
  \A i \in Investments : status[i] = "CAPPED" <=> earned[i] = Cap[i]

\* What the wallet was credited is what the ceilings were charged.
PaidIsConsumed == FoldFunction(+, 0, paid) = FoldFunction(+, 0, earned)

\* Payouts that want the same rows do not wait for each other for ever.
EveryPayoutEnds == <>(\A p \in Payouts : payout[p].pc = "done")
=============================================================================

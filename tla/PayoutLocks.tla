---------------------------- MODULE PayoutLocks ----------------------------
(***************************************************************************)
(* The rows a purchase and a daily accrual lock, in the order they lock    *)
(* them.  Both are single transactions that pay everybody above a member,  *)
(* and a row once updated stays locked until the transaction ends:         *)
(* purchase in investment.service.ts, runDailyRoi in daily-roi.job.ts,     *)
(* payOne and the bonuses of commission.service.ts, propagateInvestment in *)
(* team.service.ts and addVolume in core/binary.ts.                        *)
(*                                                                         *)
(* Amounts are left out, and everybody above a member qualifies: whoever   *)
(* does not is not paid, and fewer rows wait for fewer.                    *)
(***************************************************************************)
EXTENDS Integers, Sequences, SequencesExt

CONSTANTS
  Members,        \* numbered in the order of their ids
  Sponsor,        \* [Members -> the sponsor, 0 for none]
  Placement,      \* [Members -> the parent in the binary tree, 0 for none]
  Structures,     \* the values planStructure may have
  DirectLevels,   \* DIRECT_MAX_LEVEL
  Buyers,         \* members with a purchase under way
  Earners,        \* members whose accrual is under way
  Runs            \* the runs of the job that overlap

VARIABLES
  structure,   \* planStructure, the plan in force
  todo,        \* [Transactions -> the rows still to lock, in order]
  held         \* [Transactions -> the rows it holds]; none once it has ended

vars == <<structure, todo, held>>

Transactions == [kind : {"purchase"}, of : Buyers, run : {0}]
                  \union [kind : {"accrual"}, of : Earners, run : Runs]
Row(table, m) == <<table, m>>

-----------------------------------------------------------------------------
(* The order of the rows *)

\* getUpline: the nearest sponsor first.
Upline[m \in Members] ==
  IF Sponsor[m] = 0 THEN <<>> ELSE <<Sponsor[m]>> \o Upline[Sponsor[m]]

\* placementUpline: the nearest parent first.
PlacementUpline[m \in Members] ==
  IF Placement[m] = 0 THEN <<>> ELSE <<Placement[m]>> \o PlacementUpline[Placement[m]]

\* payOne: the investments (in Capping), the wallet, the user's total.
PayOne(m) == <<Row("investments", m), Row("wallet", m), Row("users", m)>>
PayAll(ms) == FlattenSeq([i \in DOMAIN ms |-> PayOne(ms[i])])

\* Wrong variant: the rows in whatever order the plan of one UPDATE yields.
TeamRowsUnordered(m) ==
  LET above == SetToSortSeq(ToSet(Upline[m]), LAMBDA a, b : IF m % 2 = 0 THEN a < b ELSE b < a)
  IN [i \in DOMAIN above |-> Row("team_volumes", above[i])]

\* propagateInvestment: the rows of all sponsors above, by id.
ById(ids) ==
  CHOOSE s \in [1..Cardinality(ids) -> ids] : \A i, j \in DOMAIN s : i < j => s[i] < s[j]
TeamRows(m) ==
  LET above == ById(ToSet(Upline[m]))
  IN [i \in DOMAIN above |-> Row("team_volumes", above[i])]

PayDirectBonus(m) ==
  LET up == Upline[m]
  IN PayAll(SubSeq(up, 1, IF Len(up) < DirectLevels THEN Len(up) ELSE DirectLevels))

\* addVolume pushes the volume up, and then each parent is matched and paid.
PayBinaryBonus(m, plan) ==
  LET up == PlacementUpline[m]
  IN IF plan # "BINARY" THEN <<>>
     ELSE [i \in DOMAIN up |-> Row("binary_legs", up[i])] \o PayAll(up)

PayGenerationBonus(m, plan) == IF plan = "BINARY" THEN <<>> ELSE PayAll(Upline[m])

PurchaseRows(m, plan) ==
  <<Row("fund", m), Row("users", m)>>
    \o TeamRows(m) \o PayDirectBonus(m) \o PayBinaryBonus(m, plan)

\* Wrong variant: the bonus is paid before the accrual itself.
AccrualRowsUplineFirst(m, plan) == PayGenerationBonus(m, plan) \o PayOne(m)

AccrualRows(m, plan) == PayOne(m) \o PayGenerationBonus(m, plan)

RowsOf(t) ==
  IF t.kind = "purchase" THEN PurchaseRows(t.of, structure) ELSE AccrualRows(t.of, structure)

-----------------------------------------------------------------------------

Init ==
  /\ structure \in Structures
  /\ todo = [t \in Transactions |-> RowsOf(t)]
  /\ held = [t \in Transactions |-> {}]

WaitsFor(t, u) == t # u /\ todo[t] # <<>> /\ Head(todo[t]) \in held[u]

\* The next statement updates its row, once nobody else holds it.
Lock(t) ==
  /\ todo[t] # <<>> /\ \A u \in Transactions : ~WaitsFor(t, u)
  /\ held' = [held EXCEPT ![t] = @ \union {Head(todo[t])}]
  /\ todo' = [todo EXCEPT ![t] = Tail(@)]
  /\ UNCHANGED structure

Commit(t) ==
  /\ todo[t] = <<>> /\ held[t] # {}
  /\ held' = [held EXCEPT ![t] = {}]
  /\ UNCHANGED <<structure, todo>>

\* The transaction fails and its rows are free; it may be tried again.
Rollback(t) ==
  /\ held[t] # {}
  /\ held' = [held EXCEPT ![t] = {}]
  /\ todo' = [todo EXCEPT ![t] = RowsOf(t)]
  /\ UNCHANGED structure

Next == \E t \in Transactions : Lock(t) \/ Commit(t) \/ Rollback(t)

Spec == Init /\ [][Next]_vars

-----------------------------------------------------------------------------

\* No transactions wait for each other in a circle; the database would break
\* it by failing one of them.
NoCircularWait ==
  LET waits == {w \in Transactions \X Transactions : WaitsFor(w[1], w[2])}
  IN ~\E S \in (SUBSET {w[1] : w \in waits}) \ {{}} :
       \A t \in S : \E u \in S : <<t, u>> \in waits
=============================================================================

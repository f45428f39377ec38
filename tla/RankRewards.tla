---------------------------- MODULE RankRewards ----------------------------
(***************************************************************************)
(* The rank ladder of one member and the reward of each rank: evaluate in  *)
(* rank.service.ts, scheduleReward and runRewardVesting in                 *)
(* reward-vesting.service.ts.  Evaluations run after every purchase and    *)
(* from a job, statement by statement, with no transaction around them;    *)
(* vesting runs pay one instalment per transaction, and may overlap.       *)
(*                                                                         *)
(* The requirements rise with the level, so that a member's business       *)
(* meets those of the ranks up to some level (the volumes behind it are in *)
(* Network).  Months are numbered; instalments fall due on their first.    *)
(***************************************************************************)
EXTENDS Integers, FiniteSetsExt, SequencesExt, Functions

CONSTANTS
  Levels,         \* the ladder is 1..Levels
  Evaluations,    \* the evaluations that may be under way at a time
  Runs,           \* the vesting runs that may be under way at a time
  Scenes          \* [reward : what each rank pays, in the last decimal place,
                  \*  months : the values rewardVestingMonths may take,
                  \*  dies : whether an evaluation may stop in the middle,
                  \*  apart : whether one evaluation ends before the next begins,
                  \*  fails : whether the payment of an instalment may fail,
                  \*  horizon : bound on the months]

Ranks == 1..Levels

VARIABLES
  scene,      \* the one of Scenes that is played
  month,
  setting,    \* rewardVestingMonths, an operator's
  active,     \* whether the member is ACTIVE
  reach,      \* the highest level whose requirements are met
  rank,       \* [Ranks -> the achievement and its instalments]
  current,    \* currentRankId, 0 for none
  evaluation, \* [Evaluations -> where each is]
  run         \* [Runs -> where each is]

vars == <<scene, month, setting, active, reach, rank, current, evaluation, run>>
world == <<scene, month, setting, active, reach>>

NotAchieved == [achieved |-> FALSE, stamped |-> FALSE, at |-> 0, outright |-> "no", plan |-> <<>>]
NoEvaluation == [pc |-> "idle", todo |-> {}, months |-> 0]
NoRun == [pc |-> "idle", todo |-> {}, at |-> <<0, 0>>, last |-> FALSE]

Init ==
  /\ scene \in Scenes
  /\ month = 0 /\ setting \in scene.months /\ active = TRUE
  /\ reach = 0
  /\ rank = [r \in Ranks |-> NotAchieved]
  /\ current = 0
  /\ evaluation = [e \in Evaluations |-> NoEvaluation]
  /\ run = [w \in Runs |-> NoRun]

-----------------------------------------------------------------------------
(* What happens meanwhile *)

rest == <<rank, current, evaluation, run>>

NextMonth ==
  /\ month < scene.horizon /\ month' = month + 1
  /\ UNCHANGED <<scene, setting, active, reach, rest>>

BusinessGrows ==
  /\ reach < Levels /\ reach' = reach + 1
  /\ UNCHANGED <<scene, month, setting, active, rest>>

Suspend == active /\ active' = FALSE /\ UNCHANGED <<scene, month, setting, reach, rest>>
Reinstate == ~active /\ active' = TRUE /\ UNCHANGED <<scene, month, setting, reach, rest>>

Reconfigure ==
  /\ setting' \in scene.months \ {setting}
  /\ UNCHANGED <<scene, month, active, reach, rest>>

-----------------------------------------------------------------------------
(* Evaluation *)

In(e, pc) == evaluation[e].pc = pc
Move(e, pc) == evaluation' = [evaluation EXCEPT ![e].pc = pc]

\* Everything is read at the start; what has been achieved is skipped.
Evaluate(e) ==
  /\ In(e, "idle") /\ active
  /\ scene.apart => \A f \in Evaluations : In(f, "idle")
  /\ LET new == {r \in 1..reach : ~rank[r].achieved}
     IN /\ new # {}
        /\ evaluation' = [evaluation EXCEPT ![e] = [pc |-> "next", todo |-> new, months |-> setting]]
  /\ UNCHANGED <<world, rank, current, run>>

\* Wrong variant: the highest rank first.
NewestTopDown(e) == Max(evaluation[e].todo)

\* The ladder is climbed level by level.
Newest(e) == Min(evaluation[e].todo)

\* The achievement, stamped as paid at once when nothing will be scheduled.
\* One that exists by now refuses it, and the error ends the evaluation.
Achieve(e) ==
  LET r == Newest(e)
      atOnce == scene.reward[r] > 0 /\ evaluation[e].months = 0
  IN /\ In(e, "next")
     /\ \/ /\ rank[r].achieved
           /\ evaluation' = [evaluation EXCEPT ![e] = NoEvaluation]
           /\ UNCHANGED rank
        \/ /\ ~rank[r].achieved
           /\ rank' = [rank EXCEPT ![r].achieved = TRUE, ![r].stamped = atOnce, ![r].at = month]
           /\ Move(e, IF scene.reward[r] = 0 THEN "title" ELSE IF atOnce THEN "credit" ELSE "schedule")
     /\ UNCHANGED <<world, current, run>>

\* Wrong variant: every part is rounded down and the remainder is lost.
SplitRoundedDown(total, n) == [i \in 1..n |-> total \div n]

\* splitEvenly: rounded down, the last part carries the remainder.
SplitEvenly(total, n) ==
  LET each == total \div n
  IN [i \in 1..n |-> IF i < n THEN each ELSE total - (n - 1) * each]

Schedule(e) ==
  LET r == Newest(e)
      n == evaluation[e].months
      parts == SplitEvenly(scene.reward[r], n)
  IN /\ In(e, "schedule")
     /\ rank' = [rank EXCEPT ![r].plan =
                   [i \in 1..n |-> [amount |-> parts[i], due |-> rank[r].at + i, paid |-> 0]]]
     /\ Move(e, "title")
     /\ UNCHANGED <<world, current, run>>

\* postEntry, here in no transaction: the wallet, and then the entry.
Credit(e) ==
  /\ \/ In(e, "credit") /\ rank' = [rank EXCEPT ![Newest(e)].outright = "wallet"] /\ Move(e, "entry")
     \/ In(e, "entry") /\ rank' = [rank EXCEPT ![Newest(e)].outright = "entered"] /\ Move(e, "title")
  /\ UNCHANGED <<world, current, run>>

\* currentRankId, and on to the next rank.
Title(e) ==
  LET left == evaluation[e].todo \ {Newest(e)}
  IN /\ In(e, "title")
     /\ current' = Newest(e)
     /\ evaluation' = [evaluation EXCEPT ![e] =
                         IF left = {} THEN NoEvaluation ELSE [@ EXCEPT !.pc = "next", !.todo = left]]
     /\ UNCHANGED <<world, rank, run>>

EvaluationDies(e) ==
  /\ scene.dies /\ ~In(e, "idle")
  /\ evaluation' = [evaluation EXCEPT ![e] = NoEvaluation]
  /\ UNCHANGED <<world, rank, current, run>>

-----------------------------------------------------------------------------
(* Vesting *)

Instalments == UNION {{<<r, k>> : k \in DOMAIN rank[r].plan} : r \in Ranks}
Row(i) == rank[i[1]].plan[i[2]]
Due == {i \in Instalments : Row(i).paid = 0 /\ Row(i).due <= month}
Earliest(S) == {i \in S : \A j \in S : Row(i).due <= Row(j).due}

Is(w, pc) == run[w].pc = pc
\* On to the next instalment, or the end of the run.
Leave(w, i) ==
  LET left == run[w].todo \ {i}
  IN run' = [run EXCEPT ![w] = IF left = {} THEN NoRun ELSE [NoRun EXCEPT !.pc = "next", !.todo = left]]

\* Wrong variant: what fell due this month, and nothing older.
StartRunThisMonth(w) ==
  LET new == {i \in Due : Row(i).due = month}
  IN /\ Is(w, "idle") /\ active /\ new # {}
     /\ run' = [run EXCEPT ![w].pc = "next", ![w].todo = new]
     /\ UNCHANGED <<world, rank, current, evaluation>>

\* Everything that has come due and is not paid; a member who is not ACTIVE
\* now is passed over.
StartRun(w) ==
  /\ Is(w, "idle") /\ active /\ Due # {}
  /\ run' = [run EXCEPT ![w].pc = "next", ![w].todo = Due]
  /\ UNCHANGED <<world, rank, current, evaluation>>

\* Wrong variant: the claim does not ask whether the instalment is paid.
ClaimUnguarded(w) ==
  \E i \in Earliest(run[w].todo) :
    /\ Is(w, "next")
    /\ \A v \in Runs \ {w} : run[v].pc \in {"claimed", "posted"} => run[v].at # i
    /\ run' = [run EXCEPT ![w].pc = "claimed", ![w].at = i]
    /\ UNCHANGED <<world, rank, current, evaluation>>

\* The guarded update; it waits for another transaction that holds the row.
Claim(w) ==
  \E i \in Earliest(run[w].todo) :
    /\ Is(w, "next")
    /\ \A v \in Runs \ {w} : run[v].pc \in {"claimed", "posted"} => run[v].at # i
    /\ IF Row(i).paid > 0 THEN Leave(w, i)
       ELSE run' = [run EXCEPT ![w].pc = "claimed", ![w].at = i]
    /\ UNCHANGED <<world, rank, current, evaluation>>

\* What is still due of the rank when this instalment is not counted.
Others(i) == {j \in Instalments : j[1] = i[1] /\ j # i /\ Row(j).paid = 0}

\* Wrong variant: what is still due is counted before the wallet is credited.
PostAfterCount(w) ==
  /\ Is(w, "claimed")
  /\ run' = [run EXCEPT ![w].pc = "posted", ![w].last = Others(run[w].at) = {}]
  /\ UNCHANGED <<world, rank, current, evaluation>>

\* The credit holds the member's wallet until the commit, so that whoever
\* counts then sees what every earlier transaction paid.
Post(w) ==
  /\ Is(w, "claimed") /\ \A v \in Runs : ~Is(v, "posted")
  /\ run' = [run EXCEPT ![w].pc = "posted", ![w].last = Others(run[w].at) = {}]
  /\ UNCHANGED <<world, rank, current, evaluation>>

\* The commit; the last instalment stamps the achievement.
Pay(w) ==
  LET i == run[w].at
  IN /\ Is(w, "posted")
     /\ rank' = [rank EXCEPT ![i[1]].plan[i[2]].paid = @ + 1, ![i[1]].stamped = @ \/ run[w].last]
     /\ Leave(w, i)
     /\ UNCHANGED <<world, current, evaluation>>

\* The transaction fails; the instalment stays due, and the run goes on.
PaymentFails(w) ==
  /\ scene.fails /\ run[w].pc \in {"claimed", "posted"}
  /\ Leave(w, run[w].at)
  /\ UNCHANGED <<world, rank, current, evaluation>>

RunDies(w) ==
  /\ scene.fails /\ ~Is(w, "idle")
  /\ run' = [run EXCEPT ![w] = NoRun]
  /\ UNCHANGED <<world, rank, current, evaluation>>

-----------------------------------------------------------------------------

\* The steps of a run that the scheduler keeps repeating.
RunStep(w) == StartRun(w) \/ Claim(w) \/ Post(w) \/ Pay(w)

Next ==
  \/ NextMonth \/ BusinessGrows \/ Suspend \/ Reinstate \/ Reconfigure
  \/ \E e \in Evaluations :
       Evaluate(e) \/ Achieve(e) \/ Schedule(e) \/ Credit(e) \/ Title(e) \/ EvaluationDies(e)
  \/ \E w \in Runs :
       RunStep(w) \/ PaymentFails(w) \/ RunDies(w)

Spec == Init /\ [][Next]_vars

\* The job is scheduled every month and retried; it does not fail for ever, and
\* in the end a member who was suspended is reinstated for good.
LiveSpec ==
  /\ Spec
  /\ \A w \in Runs : WF_vars(RunStep(w))
  /\ WF_vars(Reinstate)
  /\ <>[][~Suspend /\ \A w \in Runs : ~PaymentFails(w) /\ ~RunDies(w)]_vars

-----------------------------------------------------------------------------
(* Properties *)

Paid(r) ==
  (IF rank[r].outright = "no" THEN 0 ELSE scene.reward[r])
    + FoldFunction(LAMBDA i, sum : sum + i.amount * i.paid, 0, rank[r].plan)

\* "The instalments sum to exactly the reward", whatever the months; a reward
\* is paid at once or in instalments and never both, and no more than once,
\* although the setting changes, evaluations meet and runs overlap or die.
RewardIsExact ==
  \A r \in Ranks :
    /\ rank[r].plan # <<>> =>
         /\ rank[r].outright = "no"
         /\ FoldFunction(LAMBDA i, sum : sum + i.amount, 0, rank[r].plan) = scene.reward[r]
    /\ Paid(r) <= scene.reward[r]

Working(r) == \E e \in Evaluations : ~In(e, "idle") /\ r = Newest(e)

\* rewardPaidAt "means the same thing however the reward was paid": of two runs
\* that pay the last two instalments at once, one stamps the achievement, and
\* none does so before.  And a rank whose evaluation was not cut short has its
\* reward credited or scheduled.
StampedIffPaid ==
  \A r \in Ranks : rank[r].achieved =>
    /\ rank[r].plan # <<>> =>
         (rank[r].stamped <=> \A k \in DOMAIN rank[r].plan : rank[r].plan[k].paid > 0)
    /\ rank[r].plan = <<>> /\ scene.reward[r] > 0 /\ ~Working(r) /\ ~scene.dies =>
         rank[r].stamped /\ rank[r].outright = "entered"

\* While evaluations do not overlap or die, a member bears the highest rank
\* that was achieved.
CurrentIsHighest ==
  scene.apart /\ ~scene.dies /\ (\A e \in Evaluations : In(e, "idle")) =>
    current = Max({r \in Ranks : rank[r].achieved} \union {0})

\* "A month the job did not run is not a month the member loses": whatever has
\* fallen due is paid in the end.
EveryInstalmentIsPaid ==
  \A i \in Ranks \X (1..Max(UNION {s.months : s \in Scenes})) :
    (i \in Due) ~> (i \in Instalments /\ Row(i).paid > 0)
=============================================================================

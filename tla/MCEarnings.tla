----------------------------- MODULE MCEarnings -----------------------------
(* What a member earns, side by side: three payouts whose amounts spread over  *)
(* up to three investments and together exceed the ceilings; or the rewards of *)
(* a ladder of two ranks, in instalments that do not divide evenly, under      *)
(* evaluations that meet or stop in the middle while the setting changes.      *)
(* They share no state, so a behaviour plays one and leaves the other be.      *)
EXTENDS Capping, TLC

CONSTANTS p1, p2, p3, Levels, Evaluations, Runs, Scenes

VARIABLES
  part,      \* which of the two is played
  scene, month, setting, active, reach, rank, current, evaluation, run

R == INSTANCE RankRewards

\* A member's investments and payouts are finitely many, and a reward is an
\* amount of money; the setting is a number of months.
ASSUME EarningsAssumption ==
  /\ IsFiniteSet(Investments) /\ IsFiniteSet(Payouts)
  /\ Levels \in Nat
  /\ \A s \in Scenes : s.reward \in [1..Levels -> Nat] /\ s.months \subseteq Nat

rewards == <<scene, month, setting, active, reach, rank, current, evaluation, run>>

Vested == [reward |-> <<5, 3>>, months |-> {2}, dies |-> FALSE, apart |-> TRUE,
           fails |-> TRUE, horizon |-> 2]
Meeting == [reward |-> <<5, 3>>, months |-> {0, 1}, dies |-> FALSE, apart |-> FALSE,
            fails |-> FALSE, horizon |-> 0]
CutShort == [reward |-> <<5, 0>>, months |-> {0, 2}, dies |-> TRUE, apart |-> FALSE,
             fails |-> FALSE, horizon |-> 1]
MCScenes == {Vested, Meeting, CutShort}

MCInit ==
  /\ part \in {"payouts", "rewards"}
  /\ Init /\ R!Init
  /\ part = "payouts" => scene = Meeting /\ setting = 0

MCNext ==
  \/ part = "payouts" /\ Next /\ UNCHANGED <<part, rewards>>
  \/ part = "rewards" /\ R!Next /\ UNCHANGED <<part, vars>>

\* LiveSpec of either, while it is played.
MCFairness ==
  /\ \A p \in Payouts : WF_vars(part = "payouts" /\ Step(p))
  /\ <>[][\A p \in Payouts : ~Abort(p)]_vars
  /\ \A w \in Runs : WF_rewards(part = "rewards" /\ R!RunStep(w))
  /\ WF_rewards(part = "rewards" /\ R!Reinstate)
  /\ <>[][~R!Suspend /\ \A w \in Runs : ~R!PaymentFails(w) /\ ~R!RunDies(w)]_rewards

MCSpec == MCInit /\ [][MCNext]_<<part, vars, rewards>> /\ MCFairness

ThreeCaps == (1 :> 3) @@ (2 :> 2) @@ (3 :> 3)
LargeAmounts == (p1 :> 4) @@ (p2 :> 4) @@ (p3 :> 6)

\* Payouts that want the same rows do not wait for each other for ever.
PayoutsEnd == part = "payouts" => EveryPayoutEnds

\* The instalments of a reward sum to it, it is paid once, and of the runs that
\* pay the last instalments at once one stamps the achievement.
RewardIsPaidAsStamped == R!RewardIsExact /\ R!StampedIffPaid

\* A member bears the highest rank that was achieved.
CurrentIsHighest == R!CurrentIsHighest

\* Whatever has fallen due is paid in the end.
EveryInstalmentIsPaid == R!EveryInstalmentIsPaid
=============================================================================

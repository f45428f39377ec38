------------------------------ MODULE DailyRoi ------------------------------
(***************************************************************************)
(* The daily trade bonus: runDailyRoi and catchUpDailyRoi in               *)
(* jobs/daily-roi.job.ts.  The scheduler starts the job once a day and     *)
(* retries it when it fails, with up to five jobs at a time in a worker,   *)
(* so runs may overlap; a worker may be down for days, or die in a run.    *)
(*                                                                         *)
(* Days are numbered.  How much an accrual pays is left to Capping: here   *)
(* an investment may reach its ceiling at any accrual.                     *)
(***************************************************************************)
EXTENDS Integers, FiniteSetsExt

CONSTANTS
  Investments,
  LastDay,        \* bound: the last day of the model
  Trading,        \* the trading days
  MaxDays,        \* the catch-up window
  Runs,           \* the runs that may be under way at a time
  Scenes          \* [established : the investments that have accrued before day 1,
                  \*  mayCap : those that may reach their ceiling,
                  \*  failing : where a run may die, "between" two days or "within" one,
                  \*  horizon : bound on the days]

ASSUME RoiAssumption ==
  /\ LastDay \in Nat /\ Trading \subseteq 1..LastDay /\ MaxDays \in Nat \ {0}
  /\ Scenes \subseteq [established : SUBSET Investments, mayCap : SUBSET Investments,
                       failing : SUBSET {"between", "within"}, horizon : 1..LastDay]

VARIABLES
  scene,      \* the one of Scenes that is played
  today,
  started,    \* [Investments -> the day it was bought, or Never]
  status,     \* [Investments -> {"ACTIVE", "CAPPED"}]
  last,       \* [Investments -> lastAccrualDate, or Never]
  accruals,   \* [Investments \X Days -> how often the day was paid]
  reported,   \* days reported to an operator as beyond the window
  run         \* [Runs -> where each run is]

vars == <<scene, today, started, status, last, accruals, reported, run>>

Never == -1
Days == 0..LastDay
Idle == [pc |-> "idle", pending |-> {}, day |-> 0, todo |-> {}, existingOnly |-> FALSE]

TypeOK ==
  /\ scene \in Scenes
  /\ today \in Days
  /\ started \in [Investments -> Days \union {Never}]
  /\ status \in [Investments -> {"ACTIVE", "CAPPED"}]
  /\ last \in [Investments -> Days \union {Never}]
  /\ accruals \in [Investments \X Days -> Nat]
  /\ reported \subseteq Trading
  /\ run \in [Runs -> [pc : {"idle", "between", "within"}, pending : SUBSET Trading, day : Days,
                       todo : SUBSET Investments, existingOnly : BOOLEAN]]

Init ==
  /\ scene \in Scenes
  /\ today = 0
  /\ started = [i \in Investments |-> IF i \in scene.established THEN 0 ELSE Never]
  /\ last = [i \in Investments |-> IF i \in scene.established THEN 0 ELSE Never]
  /\ status = [i \in Investments |-> "ACTIVE"]
  /\ accruals = [a \in Investments \X Days |-> 0]
  /\ reported = {}
  /\ run = [r \in Runs |-> Idle]

Active == {i \in Investments : started[i] # Never /\ status[i] = "ACTIVE"}

-----------------------------------------------------------------------------

NextDay ==
  /\ today < scene.horizon
  /\ today' = today + 1
  /\ UNCHANGED <<scene, started, status, last, accruals, reported, run>>

Purchase(i) ==
  /\ started[i] = Never /\ today > 0
  /\ started' = [started EXCEPT ![i] = today]
  /\ UNCHANGED <<scene, today, status, last, accruals, reported, run>>

\* The latest lastAccrualDate of an active investment.
HighWater == Max({last[i] : i \in Active} \union {Never})

\* Wrong variant: the job accrues today and nothing else.
StartRunToday(r) ==
  /\ run[r].pc = "idle"
  /\ run' = [run EXCEPT ![r] = [Idle EXCEPT !.pc = "between", !.existingOnly = TRUE,
                                            !.pending = {today} \intersect Trading]]
  /\ UNCHANGED <<scene, today, started, status, last, accruals, reported>>

\* Wrong variant: the days beyond the window are dropped and not reported.
StartRunSilently(r) ==
  LET days  == {d \in Trading : d > HighWater /\ d <= today}
      paid  == {d \in days : Cardinality({e \in days : e > d}) < MaxDays}
  IN /\ run[r].pc = "idle" /\ HighWater # Never
     /\ run' = [run EXCEPT ![r] = [Idle EXCEPT !.pc = "between", !.pending = paid, !.existingOnly = TRUE]]
     /\ UNCHANGED <<scene, today, started, status, last, accruals, reported>>

\* catchUpDailyRoi: the trading days after the last one that anybody was paid
\* for.  With no such day there is nothing to catch up: today alone is run.
StartRun(r) ==
  LET days  == {d \in Trading : d > HighWater /\ d <= today}
      paid  == {d \in days : Cardinality({e \in days : e > d}) < MaxDays}
      fresh == HighWater = Never
  IN /\ run[r].pc = "idle"
     /\ run' = [run EXCEPT ![r] =
          [pc |-> "between", pending |-> IF fresh THEN {today} \intersect Trading ELSE paid,
           day |-> 0, todo |-> {}, existingOnly |-> ~fresh]]
     /\ reported' = IF fresh THEN reported ELSE reported \union (days \ paid)
     /\ UNCHANGED <<scene, today, started, status, last, accruals>>

\* Wrong variant: a day that was missed is replayed for every investment.
StartDayForAll(r) ==
  /\ run[r].pc = "between" /\ run[r].pending # {}
  /\ LET day == Min(run[r].pending)
     IN run' = [run EXCEPT ![r].pc = "within", ![r].day = day, ![r].pending = @ \ {day},
                           ![r].todo = Active]
  /\ UNCHANGED <<scene, today, started, status, last, accruals, reported>>

\* runDailyRoi, oldest day first: the investments that are active now.
StartDay(r) ==
  /\ run[r].pc = "between" /\ run[r].pending # {}
  /\ LET day == Min(run[r].pending)
     IN run' = [run EXCEPT ![r].pc = "within", ![r].day = day, ![r].pending = @ \ {day},
                  ![r].todo = {i \in Active : run[r].existingOnly => started[i] < day}]
  /\ UNCHANGED <<scene, today, started, status, last, accruals, reported>>

Done(r, i) == run' = [run EXCEPT ![r].todo = @ \ {i}]

\* Wrong variant: nothing asks whether the day was accrued already.
AccrueUnchecked(r, i) ==
  /\ run[r].pc = "within" /\ i \in run[r].todo
  /\ accruals' = [accruals EXCEPT ![<<i, run[r].day>>] = @ + 1]
  /\ last' = [last EXCEPT ![i] = run[r].day]
  /\ status' \in {status, [status EXCEPT ![i] = IF i \in scene.mayCap THEN "CAPPED" ELSE @]}
  /\ Done(r, i)
  /\ UNCHANGED <<scene, today, started, reported>>

\* One transaction per investment; a second one for a day finds the first, or
\* is refused by the unique (investmentId, accrualDate).
Accrue(r, i) ==
  LET day == run[r].day
  IN /\ run[r].pc = "within" /\ i \in run[r].todo
     /\ \/ accruals[<<i, day>>] > 0 /\ UNCHANGED <<status, last, accruals>>
        \/ /\ accruals[<<i, day>>] = 0
           /\ accruals' = [accruals EXCEPT ![<<i, day>>] = 1]
           /\ last' = [last EXCEPT ![i] = day]
           /\ status' \in {status, [status EXCEPT ![i] = IF i \in scene.mayCap THEN "CAPPED" ELSE @]}
     /\ Done(r, i)
     /\ UNCHANGED <<scene, today, started, reported>>

\* The transaction fails; the error is logged and the loop goes on.
AccrueFails(r, i) ==
  /\ run[r].pc = "within" /\ i \in run[r].todo /\ "within" \in scene.failing
  /\ Done(r, i)
  /\ UNCHANGED <<scene, today, started, status, last, accruals, reported>>

EndDay(r) ==
  /\ run[r].pc = "within" /\ run[r].todo = {}
  /\ run' = [run EXCEPT ![r].pc = "between"]
  /\ UNCHANGED <<scene, today, started, status, last, accruals, reported>>

EndRun(r) ==
  /\ run[r].pc = "between" /\ run[r].pending = {}
  /\ run' = [run EXCEPT ![r] = Idle]
  /\ UNCHANGED <<scene, today, started, status, last, accruals, reported>>

\* With no day pending it would only end.
RunDies(r) ==
  /\ run[r].pc \in scene.failing /\ (run[r].pc = "between" => run[r].pending # {})
  /\ run' = [run EXCEPT ![r] = Idle]
  /\ UNCHANGED <<scene, today, started, status, last, accruals, reported>>

-----------------------------------------------------------------------------

Next ==
  \/ NextDay
  \/ \E i \in Investments : Purchase(i)
  \/ \E r \in Runs :
       \/ StartRun(r) \/ StartDay(r) \/ EndDay(r) \/ EndRun(r) \/ RunDies(r)
       \/ \E i \in Investments : Accrue(r, i) \/ AccrueFails(r, i)

Spec == Init /\ [][Next]_vars

\* The job is started every day, a run that does not die goes on, and the
\* worker does not die for ever.
LiveSpec ==
  /\ Spec
  /\ \A r \in Runs :
       /\ WF_vars(StartRun(r)) /\ WF_vars(StartDay(r)) /\ WF_vars(EndDay(r)) /\ WF_vars(EndRun(r))
       /\ \A i \in Investments : WF_vars(Accrue(r, i))
  /\ <>[][\A r \in Runs : ~RunDies(r)]_vars

-----------------------------------------------------------------------------
(* Properties *)

\* Somebody who has accrued before stays active, so there is always a last day
\* that ran; and runs that die do so between two days.
Established == scene.established \ scene.mayCap # {}
Regular == Established /\ "within" \notin scene.failing

\* An investment is paid for a day once, whatever overlaps and is repeated; and
\* catching up never pays it for a day before it was bought, nor for that day.
PaidOncePerDay ==
  \A i \in Investments, d \in Days :
    /\ accruals[<<i, d>>] <= 1
    /\ Established /\ accruals[<<i, d>>] > 0 => started[i] # Never /\ started[i] < d

\* "The maximum across them is the most recent completed run": when no run is
\* under way, an active investment is owed no day up to the latest one anybody
\* was paid for, unless an operator was told.
MaximumIsComplete ==
  (\A r \in Runs : run[r].pc = "idle") =>
    \A i \in Active, d \in Trading :
      started[i] < d /\ d <= HighWater => accruals[<<i, d>>] > 0 \/ d \in reported

\* While runs die between days only, that holds however they overlap.
NothingIsOwed == Regular => MaximumIsComplete

\* A trading day is paid in the end to everybody who held an investment, or
\* reported, although the worker is down for days.
EveryDayIsPaid ==
  \A i \in Investments, d \in Trading :
    (Regular /\ started[i] # Never /\ started[i] < d /\ today >= d)
      ~> (accruals[<<i, d>>] > 0 \/ d \in reported \/ status[i] = "CAPPED")
=============================================================================

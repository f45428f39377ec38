--------------------------- MODULE DailyRoiProofs ---------------------------
(***************************************************************************)
(* What the daily bonus promises, for any investments, calendar, window,   *)
(* runs and scene.  The unique key allows one accrual of a day; and a      *)
(* replay never reaches back before a purchase because, while somebody who *)
(* has accrued stays active, there always is a last day that ran, so every *)
(* run catches up on it and takes only investments older than its day.     *)
(*                                                                         *)
(* That nobody is owed a day behind the latest one paid rests on the order *)
(* of the days: every run takes the oldest it has left, so a day is behind *)
(* a run only when the run has paid or reported it (SettledBehindRuns),    *)
(* and a day is below the mark only when some run has passed it            *)
(* (SettledBelowMark).                                                     *)
(***************************************************************************)
EXTENDS DailyRoi, WellFoundedInduction, TLAPS

\* Those who have accrued and cannot reach their ceiling are there to say how
\* far the job has come.
EstablishedStays ==
  \A i \in scene.established \ scene.mayCap :
    started[i] # Never /\ status[i] = "ACTIVE" /\ last[i] # Never

RunsCatchUp == Established => \A r \in Runs : run[r].pc # "idle" => run[r].existingOnly

TodoIsOlder ==
  Established => \A r \in Runs : run[r].pc = "within" =>
    \A i \in run[r].todo : started[i] # Never /\ started[i] < run[r].day

IInv == TypeOK /\ EstablishedStays /\ RunsCatchUp /\ TodoIsOlder /\ PaidOncePerDay

\* What TypeOK says of one run.
RunRecord == [pc : {"idle", "between", "within"}, pending : SUBSET Trading, day : Days,
              todo : SUBSET Investments, existingOnly : BOOLEAN]

-----------------------------------------------------------------------------
(* The days *)

\* Any naturals have a least one.
LEMMA NaturalMinimum ==
  ASSUME NEW S, S \subseteq Nat, S # {}
  PROVE  \E x \in S : \A y \in S : x =< y
<1>1. IsWellFoundedOn(OpToRel(<, Nat), Nat)
  BY NatLessThanWellFounded
<1>2. PICK x \in S : \A y \in S : <<y, x>> \notin OpToRel(<, Nat)
  BY <1>1, WFMin
<1>3. \A y \in S : ~(y < x)
  BY <1>2 DEF OpToRel
<1> QED
  BY <1>3

\* And trading days: the oldest of those pending.
LEMMA MinOfDays ==
  ASSUME NEW S, S \subseteq Trading, S # {}
  PROVE  Min(S) \in S /\ Min(S) \in Days /\ \A y \in S : Min(S) <= y
<1>1. S \subseteq Nat /\ S \subseteq Days
  BY RoiAssumption DEF Days
<1>2. \E x \in S : \A y \in S : x =< y
  BY <1>1, NaturalMinimum
<1> QED
  BY <1>1, <1>2 DEF Min

\* A set of days, and perhaps Never, has a maximum.
LEMMA MaxOfDays ==
  ASSUME NEW S, S \subseteq Days \union {Never}, S # {}
  PROVE  Max(S) \in S /\ \A y \in S : Max(S) >= y
<1> DEFINE left == {LastDay - x : x \in S}
<1>1. LastDay \in Nat /\ S \subseteq Int /\ \A x \in S : LastDay - x \in Nat
  BY RoiAssumption DEF Days, Never
<1>2. left \subseteq Nat /\ left # {}
  BY <1>1
<1>3. PICK m \in left : \A y \in left : m =< y
  BY <1>2, NaturalMinimum
<1>4. PICK x \in S : m = LastDay - x
  BY <1>3
<1>5. \A y \in S : LastDay - x =< LastDay - y
  BY <1>3, <1>4
<1>6. \A y \in S : x >= y
  BY <1>1, <1>5
<1> QED
  BY <1>6 DEF Max

\* While somebody established stays active, a last day is known.
LEMMA HighWaterIsKnown ==
  ASSUME TypeOK, EstablishedStays, Established
  PROVE  HighWater # Never
<1> DEFINE S == {last[i] : i \in Active} \union {Never}
<1>1. S \subseteq Days \union {Never}
  BY DEF TypeOK, Active
<1>2. PICK i \in scene.established \ scene.mayCap : TRUE
  BY DEF Established
<1>3. scene.established \subseteq Investments
  BY RoiAssumption DEF TypeOK
<1>4. last[i] \in S /\ last[i] \in Days
  BY <1>2, <1>3 DEF EstablishedStays, Active, TypeOK
<1>5. Max(S) >= last[i]
  BY <1>1, <1>4, MaxOfDays
<1>6. Max(S) # Never
  BY <1>4, <1>5 DEF Days, Never
<1> HIDE DEF S
<1> QED
  BY <1>6 DEF HighWater, S

-----------------------------------------------------------------------------
(* The invariant *)

\* The invariant holds before the first day.
LEMMA InitInvariant == Init => IInv
<1> SUFFICES ASSUME Init PROVE IInv
  OBVIOUS
<1> USE DEF Init
<1>1. scene.established \subseteq Investments /\ 0 \in Days
  BY RoiAssumption DEF Days
<1>2. TypeOK
  BY <1>1 DEF TypeOK, Idle
<1>3. EstablishedStays
  BY <1>1 DEF EstablishedStays, Never
<1>4. RunsCatchUp /\ TodoIsOlder
  BY DEF RunsCatchUp, TodoIsOlder, Idle
<1>5. PaidOncePerDay
  BY DEF PaidOncePerDay
<1> QED
  BY <1>2, <1>3, <1>4, <1>5 DEF IInv

\* The calendar ends with the scene.
LEMMA NextDayInvariant == IInv /\ NextDay => IInv'
<1> SUFFICES ASSUME IInv, NextDay PROVE IInv'
  OBVIOUS
<1>1. today' \in Days
  BY RoiAssumption DEF NextDay, IInv, TypeOK, Days
<1>2. UNCHANGED <<scene, started, status, last, accruals, reported, run>>
  BY DEF NextDay
<1> QED
  BY <1>1, <1>2 DEF IInv, TypeOK, EstablishedStays, RunsCatchUp, TodoIsOlder, PaidOncePerDay, Established

\* A purchase is of an investment that no run and no accrual knows.
LEMMA PurchaseInvariant ==
  ASSUME IInv, NEW i \in Investments, Purchase(i)
  PROVE  IInv'
<1> USE DEF IInv
<1>1. /\ started[i] = Never /\ started' = [started EXCEPT ![i] = today] /\ today \in Days
      /\ UNCHANGED <<scene, today, status, last, accruals, reported, run>>
  BY DEF Purchase, TypeOK
<1>2. \A j \in Investments : started[j] # Never => started'[j] = started[j]
  BY <1>1 DEF TypeOK
<1>3. TypeOK'
  BY <1>1 DEF TypeOK
<1>4. Established' <=> Established
  BY <1>1 DEF Established
<1>5. scene.established \subseteq Investments
  BY RoiAssumption DEF TypeOK
<1>6. EstablishedStays'
  BY <1>1, <1>2, <1>5 DEF EstablishedStays
<1>7. RunsCatchUp'
  BY <1>1, <1>4 DEF RunsCatchUp
<1>8. TodoIsOlder'
  <2>1. \A r \in Runs : run[r].todo \subseteq Investments
    BY DEF TypeOK
  <2> QED
    BY <1>1, <1>2, <1>4, <2>1 DEF TodoIsOlder
<1>9. PaidOncePerDay'
  BY <1>1, <1>2, <1>4 DEF PaidOncePerDay
<1> QED
  BY <1>3, <1>6, <1>7, <1>8, <1>9

\* Of a step that moves one run and pays nothing, what there is to show.
LEMMA RunMoves ==
  ASSUME IInv, NEW r \in Runs, NEW new \in RunRecord,
         run' = [run EXCEPT ![r] = new], reported' \subseteq Trading,
         UNCHANGED <<scene, today, started, status, last, accruals>>,
         Established /\ new.pc # "idle" => new.existingOnly,
         Established /\ new.pc = "within" =>
           \A i \in new.todo : started[i] # Never /\ started[i] < new.day
  PROVE  IInv'
<1> USE DEF IInv
<1>1. run'[r] = new /\ \A s \in Runs \ {r} : run'[s] = run[s]
  BY DEF TypeOK
<1>2. Established' <=> Established
  BY DEF Established
<1>3. TypeOK'
  <2>1. run' \in [Runs -> RunRecord]
    BY DEF TypeOK, RunRecord
  <2> QED
    BY <2>1 DEF TypeOK, RunRecord
<1>4. EstablishedStays' /\ PaidOncePerDay'
  BY <1>2 DEF EstablishedStays, PaidOncePerDay
<1>5. RunsCatchUp'
  BY <1>1, <1>2 DEF RunsCatchUp
<1>6. TodoIsOlder'
  BY <1>1, <1>2 DEF TodoIsOlder
<1> QED
  BY <1>3, <1>4, <1>5, <1>6

\* While somebody established is active, the run that starts catches up.
LEMMA StartRunInvariant ==
  ASSUME IInv, NEW r \in Runs, StartRun(r)
  PROVE  IInv'
<1> DEFINE days  == {d \in Trading : d > HighWater /\ d <= today}
           paid  == {d \in days : Cardinality({e \in days : e > d}) < MaxDays}
           fresh == HighWater = Never
           due   == IF fresh THEN {today} \intersect Trading ELSE paid
           new   == [pc |-> "between", pending |-> due, day |-> 0, todo |-> {}, existingOnly |-> ~fresh]
<1>1. due \subseteq Trading
  OBVIOUS
<1>2. new \in RunRecord /\ new.pc = "between"
  <2>1. 0 \in Days
    BY RoiAssumption DEF Days
  <2> HIDE DEF due, fresh
  <2>2. (~fresh) \in BOOLEAN
    OBVIOUS
  <2> QED
    BY <1>1, <2>1, <2>2 DEF RunRecord
<1>3. run' = [run EXCEPT ![r] = new]
  BY DEF StartRun
<1>4. reported' \subseteq Trading /\ UNCHANGED <<scene, today, started, status, last, accruals>>
  BY DEF StartRun, IInv, TypeOK
<1>5. Established => new.existingOnly
  BY HighWaterIsKnown DEF IInv
<1> HIDE DEF new
<1> QED
  BY <1>2, <1>3, <1>4, <1>5, RunMoves

\* A day that is caught up on is for the investments older than it.
LEMMA StartDayInvariant ==
  ASSUME IInv, NEW r \in Runs, StartDay(r)
  PROVE  IInv'
<1> DEFINE day == Min(run[r].pending)
           todo == {i \in Active : run[r].existingOnly => started[i] < day}
           new == [run[r] EXCEPT !.pc = "within", !.day = day, !.pending = @ \ {day}, !.todo = todo]
<1>1. run[r] \in RunRecord
  BY DEF IInv, TypeOK, RunRecord
<1>2. run[r].pending \subseteq Trading /\ run[r].pending # {} /\ run[r].pc = "between"
  BY <1>1 DEF StartDay, RunRecord
<1>3. day \in Days
  BY <1>2, MinOfDays
<1>4. todo \subseteq Investments /\ \A i \in todo : started[i] # Never
  BY DEF Active
<1>5. Established => \A i \in todo : started[i] < day
  BY <1>2 DEF IInv, RunsCatchUp
<1>6. run' = [run EXCEPT ![r] = new]
  BY <1>1 DEF StartDay, RunRecord, IInv, TypeOK
<1> HIDE DEF day, todo
<1>7. /\ new \in RunRecord /\ new.pc = "within" /\ new.todo = todo /\ new.day = day
      /\ new.existingOnly = run[r].existingOnly
  BY <1>1, <1>2, <1>3, <1>4 DEF RunRecord
<1>8. Established => new.existingOnly
  BY <1>2, <1>7 DEF IInv, RunsCatchUp
<1>9. reported' \subseteq Trading /\ UNCHANGED <<scene, today, started, status, last, accruals>>
  BY DEF StartDay, IInv, TypeOK
<1> HIDE DEF new
<1> QED
  BY <1>4, <1>5, <1>6, <1>7, <1>8, <1>9, RunMoves

\* A run goes on without paying, ends or dies.
LEMMA RunEndsInvariant ==
  ASSUME IInv, NEW r \in Runs,
         EndDay(r) \/ EndRun(r) \/ RunDies(r) \/ \E i \in Investments : AccrueFails(r, i)
  PROVE  IInv'
<1>1. run[r] \in RunRecord
  BY DEF IInv, TypeOK, RunRecord
<1>2. reported' \subseteq Trading /\ UNCHANGED <<scene, today, started, status, last, accruals>>
  BY DEF EndDay, EndRun, RunDies, AccrueFails, IInv, TypeOK
<1>3. CASE EndDay(r)
  <2> DEFINE new == [run[r] EXCEPT !.pc = "between"]
  <2>1. run' = [run EXCEPT ![r] = new] /\ run[r].pc = "within"
    BY <1>1, <1>3 DEF EndDay, IInv, TypeOK
  <2>2. new \in RunRecord /\ new.pc = "between" /\ new.existingOnly = run[r].existingOnly
    BY <1>1 DEF RunRecord
  <2>3. Established => new.existingOnly
    BY <2>1, <2>2 DEF IInv, RunsCatchUp
  <2> HIDE DEF new
  <2> QED
    BY <1>2, <2>1, <2>2, <2>3, RunMoves
<1>4. CASE EndRun(r) \/ RunDies(r)
  <2>1. run' = [run EXCEPT ![r] = Idle]
    BY <1>4 DEF EndRun, RunDies
  <2>2. Idle \in RunRecord /\ Idle.pc = "idle"
    BY RoiAssumption DEF Idle, RunRecord, Days
  <2> QED
    BY <1>2, <2>1, <2>2, RunMoves
<1>5. CASE \E i \in Investments : AccrueFails(r, i)
  <2> PICK i \in Investments : AccrueFails(r, i)
    BY <1>5
  <2> DEFINE new == [run[r] EXCEPT !.todo = @ \ {i}]
  <2>1. run' = [run EXCEPT ![r] = new] /\ run[r].pc = "within"
    BY <1>1 DEF AccrueFails, Done, IInv, TypeOK
  <2>2. /\ new \in RunRecord /\ new.pc = "within" /\ new.existingOnly = run[r].existingOnly
        /\ new.todo \subseteq run[r].todo /\ new.day = run[r].day
    BY <1>1, <2>1 DEF RunRecord
  <2>3. Established => new.existingOnly /\ \A j \in new.todo : started[j] # Never /\ started[j] < new.day
    BY <2>1, <2>2 DEF IInv, RunsCatchUp, TodoIsOlder
  <2> HIDE DEF new
  <2> QED
    BY <1>2, <2>1, <2>2, <2>3, RunMoves
<1> QED
  BY <1>3, <1>4, <1>5

\* An accrual finds the one of its day, or is the first.
LEMMA AccrueInvariant ==
  ASSUME IInv, NEW r \in Runs, NEW i \in Investments, Accrue(r, i)
  PROVE  IInv'
<1> USE DEF IInv
<1> DEFINE day == run[r].day
<1>1. /\ run[r].pc = "within" /\ i \in run[r].todo /\ day \in Days
      /\ UNCHANGED <<scene, today, started, reported>>
      /\ run' = [run EXCEPT ![r].todo = @ \ {i}]
  BY DEF Accrue, Done, TypeOK
<1>2. \/ UNCHANGED <<status, last, accruals>>
      \/ /\ accruals' = [accruals EXCEPT ![<<i, day>>] = 1]
         /\ last' = [last EXCEPT ![i] = day]
         /\ status' \in {status, [status EXCEPT ![i] = IF i \in scene.mayCap THEN "CAPPED" ELSE @]}
  BY DEF Accrue
<1>3. Established' <=> Established
  BY <1>1 DEF Established
<1>4. Established => started[i] # Never /\ started[i] < day
  BY <1>1 DEF TodoIsOlder
<1> HIDE DEF day
<1>5. TypeOK'
  <2>1. run' \in [Runs -> RunRecord]
    <3>1. run \in [Runs -> RunRecord] /\ run[r] \in RunRecord
      BY DEF TypeOK, RunRecord
    <3>2. [run[r] EXCEPT !.todo = @ \ {i}] \in RunRecord
      BY <3>1 DEF RunRecord
    <3> QED
      BY <1>1, <3>1, <3>2
  <2>2. accruals' \in [Investments \X Days -> Nat]
    <3>1. accruals \in [Investments \X Days -> Nat]
      BY DEF TypeOK
    <3>2. accruals' = accruals \/ accruals' = [accruals EXCEPT ![<<i, day>>] = 1]
      BY <1>2
    <3> HIDE DEF IInv
    <3> QED
      BY <3>1, <3>2
  <2>3. last' \in [Investments -> Days \union {Never}]
    <3>1. last \in [Investments -> Days \union {Never}]
      BY DEF TypeOK
    <3>2. last' = last \/ last' = [last EXCEPT ![i] = day]
      BY <1>2
    <3> HIDE DEF IInv
    <3> QED
      BY <1>1, <3>1, <3>2
  <2>4. status' \in [Investments -> {"ACTIVE", "CAPPED"}]
    BY <1>2 DEF TypeOK
  <2> QED
    BY <1>1, <2>1, <2>2, <2>3, <2>4 DEF TypeOK, RunRecord
<1>6. EstablishedStays'
  <2>1. scene.established \subseteq Investments
    BY RoiAssumption DEF TypeOK
  <2>2. day # Never
    BY <1>1 DEF Days, Never
  <2>3. \A j \in Investments : last[j] # Never => last'[j] # Never
    BY <1>1, <1>2, <2>2 DEF TypeOK
  <2>4. \A j \in Investments \ scene.mayCap : status'[j] = status[j]
    BY <1>2 DEF TypeOK
  <2> QED
    BY <1>1, <2>1, <2>3, <2>4 DEF EstablishedStays
<1>7. /\ \A s \in Runs : run'[s].pc = run[s].pc /\ run'[s].existingOnly = run[s].existingOnly
      /\ \A s \in Runs : run'[s].todo \subseteq run[s].todo /\ run'[s].day = run[s].day
  BY <1>1 DEF TypeOK
<1>8. RunsCatchUp'
  BY <1>3, <1>7 DEF RunsCatchUp
<1>9. TodoIsOlder'
  BY <1>1, <1>3, <1>7 DEF TodoIsOlder
<1>10. PaidOncePerDay'
  <2> SUFFICES ASSUME NEW j \in Investments, NEW d \in Days
               PROVE  /\ accruals'[<<j, d>>] <= 1
                      /\ Established /\ accruals'[<<j, d>>] > 0 => started[j] # Never /\ started[j] < d
    BY <1>1, <1>3 DEF PaidOncePerDay
  <2>1. CASE accruals'[<<j, d>>] = accruals[<<j, d>>]
    BY <2>1 DEF PaidOncePerDay
  <2>2. CASE j = i /\ d = day /\ accruals'[<<j, d>>] = 1
    BY <1>4, <2>2
  <2>3. accruals'[<<j, d>>] = accruals[<<j, d>>] \/ (j = i /\ d = day /\ accruals'[<<j, d>>] = 1)
    BY <1>1, <1>2 DEF TypeOK
  <2> QED
    BY <2>1, <2>2, <2>3
<1> QED
  BY <1>5, <1>6, <1>8, <1>9, <1>10

\* Every step keeps the invariant.
LEMMA StepInvariant == IInv /\ [Next]_vars => IInv'
<1> SUFFICES ASSUME IInv, [Next]_vars PROVE IInv'
  OBVIOUS
<1>1. CASE UNCHANGED vars
  BY <1>1 DEF vars, IInv, TypeOK, EstablishedStays, RunsCatchUp, TodoIsOlder, PaidOncePerDay, Established
<1>2. CASE NextDay
  BY <1>2, NextDayInvariant
<1>3. ASSUME NEW i \in Investments, Purchase(i) PROVE IInv'
  BY <1>3, PurchaseInvariant
<1>4. ASSUME NEW r \in Runs, StartRun(r) \/ StartDay(r) PROVE IInv'
  BY <1>4, StartRunInvariant, StartDayInvariant
<1>5. ASSUME NEW r \in Runs, EndDay(r) \/ EndRun(r) \/ RunDies(r) \/ \E i \in Investments : AccrueFails(r, i)
      PROVE  IInv'
  BY <1>5, RunEndsInvariant
<1>6. ASSUME NEW r \in Runs, NEW i \in Investments, Accrue(r, i) PROVE IInv'
  BY <1>6, AccrueInvariant
<1> QED
  BY <1>1, <1>2, <1>3, <1>4, <1>5, <1>6 DEF Next

\* For any investments, calendar, overlapping runs and deaths in them: a day is
\* paid once, and while an established investment is active never for a day up
\* to the purchase (daily-roi.job.ts).
THEOREM OnceTheorem == Spec => []PaidOncePerDay
<1>1. IInv => PaidOncePerDay
  BY DEF IInv
<1> QED
  BY <1>1, InitInvariant, StepInvariant, PTL DEF Spec

-----------------------------------------------------------------------------
(* What is owed *)

\* A day is settled for an investment that was paid for it, or will be by the
\* run that is at it; or an operator was told.
Settled(i, d) ==
  \/ accruals[<<i, d>>] > 0 \/ d \in reported
  \/ \E r \in Runs : run[r].pc = "within" /\ run[r].day = d /\ i \in run[r].todo

\* Days that a run has come past, or has reached.
Behind(row, d) ==
  \/ row.pc = "within" /\ d <= row.day
  \/ row.pc # "idle" /\ \E p \in row.pending : d < p

\* Nothing is ahead of the calendar.
NothingAhead ==
  /\ \A i \in Investments : last[i] <= today /\ (started[i] = Never => last[i] = Never)
  /\ \A r \in Runs : run[r].day <= today /\ \A p \in run[r].pending : p <= today

\* Nobody is on a list who has not bought.
ListedHaveBought ==
  \A r \in Runs : run[r].pc = "within" => \A i \in run[r].todo : started[i] # Never

\* Days are replayed oldest first.
OldestFirst == \A r \in Runs : run[r].pc = "within" => \A p \in run[r].pending : run[r].day < p

\* What lies before a day that was paid to anybody is settled,
SettledBelowMark ==
  \A i, j \in Active, d \in Trading : started[i] < d /\ d <= last[j] => Settled(i, d)

\* and so is what a run has behind it.
SettledBehindRuns ==
  \A r \in Runs, i \in Active, d \in Trading :
    started[i] < d /\ Behind(run[r], d) /\ d \notin run[r].pending => Settled(i, d)

NothingDue ==
  /\ NothingAhead /\ ListedHaveBought /\ OldestFirst
  /\ Regular => SettledBelowMark /\ SettledBehindRuns

\* What the types say of the days.
LEMMA DayFacts ==
  ASSUME TypeOK
  PROVE  /\ today \in Nat /\ Trading \subseteq Nat \ {0} /\ Trading \subseteq Days
         /\ \A i \in Investments : last[i] \in Int /\ started[i] \in Int
         /\ \A i \in Investments, d \in Trading : accruals[<<i, d>>] \in Nat
         /\ \A r \in Runs : run[r] \in RunRecord /\ run[r].day \in Nat /\ run[r].pending \subseteq Trading
<1>1. Days \subseteq Nat /\ Trading \subseteq Nat \ {0} /\ Trading \subseteq Days /\ Never \in Int
  BY RoiAssumption DEF Days, Never
<1>2. \A i \in Investments : last[i] \in Int /\ started[i] \in Int
  <2> SUFFICES ASSUME NEW i \in Investments PROVE last[i] \in Int /\ started[i] \in Int
    OBVIOUS
  <2>1. last[i] \in Days \union {Never} /\ started[i] \in Days \union {Never}
    BY DEF TypeOK
  <2>2. Days \union {Never} \subseteq Int
    BY <1>1
  <2> QED
    BY <2>1, <2>2
<1>3. \A i \in Investments, d \in Trading : accruals[<<i, d>>] \in Nat
  BY <1>1 DEF TypeOK
<1>4. \A r \in Runs : run[r] \in RunRecord
  BY DEF TypeOK, RunRecord
<1>5. \A r \in Runs : run[r].day \in Nat /\ run[r].pending \subseteq Trading
  BY <1>1, <1>4 DEF RunRecord
<1> QED
  BY <1>1, <1>2, <1>3, <1>4, <1>5 DEF TypeOK

\* No day is before the last one that an active investment was paid for.
LEMMA HighWaterFacts ==
  ASSUME TypeOK
  PROVE  /\ HighWater \in Int
         /\ \A i \in Active : last[i] <= HighWater
         /\ HighWater = Never \/ \E i \in Active : last[i] = HighWater
<1> DEFINE S == {last[i] : i \in Active} \union {Never}
<1>1. S \subseteq Days \union {Never} /\ S # {}
  BY DEF TypeOK, Active
<1>2. Max(S) \in S /\ \A y \in S : Max(S) >= y
  BY <1>1, MaxOfDays
<1>3. S \subseteq Int
  BY <1>1, RoiAssumption DEF Days, Never
<1>4. HighWater = Max(S)
  BY DEF HighWater
<1> QED
  BY <1>2, <1>3, <1>4

\* Before the first day nothing is due.
LEMMA InitDue == Init => NothingDue
<1> SUFFICES ASSUME Init PROVE NothingDue
  OBVIOUS
<1>1. /\ \A i \in Investments : last[i] \in {0, Never} /\ (started[i] = Never => last[i] = Never)
      /\ \A r \in Runs : run[r] = Idle
      /\ today = 0
  BY DEF Init, Never
<1>2. NothingAhead /\ ListedHaveBought /\ OldestFirst
  BY <1>1 DEF NothingAhead, ListedHaveBought, OldestFirst, Idle, Never
<1>3. \A d \in Trading : d > 0
  BY RoiAssumption
<1>4. SettledBelowMark
  <2>1. \A j \in Active, d \in Trading : ~(d <= last[j])
    BY <1>1, RoiAssumption DEF Active, Never
  <2> QED
    BY <2>1 DEF SettledBelowMark
<1>5. SettledBehindRuns
  BY <1>1 DEF SettledBehindRuns, Behind, Idle
<1> QED
  BY <1>2, <1>4, <1>5 DEF NothingDue

\* A day goes by.
LEMMA NextDayDue ==
  ASSUME IInv, NothingDue, NextDay
  PROVE  NothingDue'
<1>1. UNCHANGED <<scene, started, status, last, accruals, reported, run>> /\ today' = today + 1
  BY DEF NextDay
<1>2. NothingAhead'
  <2>1. \A r \in Runs : \A p \in run[r].pending : p \in Nat
    BY DayFacts DEF IInv
  <2> QED
    BY <1>1, <2>1, DayFacts DEF IInv, NothingDue, NothingAhead
<1>3. OldestFirst' /\ ListedHaveBought'
  BY <1>1 DEF NothingDue, OldestFirst, ListedHaveBought
<1>4. /\ Regular' <=> Regular
      /\ SettledBelowMark' <=> SettledBelowMark
      /\ SettledBehindRuns' <=> SettledBehindRuns
  BY <1>1 DEF Regular, Established, SettledBelowMark, SettledBehindRuns, Active, Settled
<1> QED
  BY <1>2, <1>3, <1>4 DEF NothingDue

\* An investment bought today is owed no day that has come.
LEMMA PurchaseDue ==
  ASSUME IInv, NothingDue, NEW i \in Investments, Purchase(i)
  PROVE  NothingDue'
<1>1. /\ started[i] = Never /\ started' = [started EXCEPT ![i] = today]
      /\ UNCHANGED <<scene, today, status, last, accruals, reported, run>>
  BY DEF Purchase
<1>2. /\ started'[i] = today /\ \A j \in Investments \ {i} : started'[j] = started[j]
      /\ today \in Nat /\ today # Never
  BY <1>1, DayFacts DEF IInv, TypeOK, Never
<1>3. NothingAhead' /\ ListedHaveBought' /\ OldestFirst'
  <2>1. \A r \in Runs : run[r].todo \subseteq Investments
    BY DEF IInv, TypeOK
  <2> QED
    BY <1>1, <1>2, <2>1 DEF NothingDue, NothingAhead, ListedHaveBought, OldestFirst
<1>4. /\ Regular' <=> Regular
      /\ \A j, d : Settled(j, d)' <=> Settled(j, d)
  BY <1>1 DEF Regular, Established, Settled
<1>5. \A j \in Active' : j = i \/ (j \in Active /\ started'[j] = started[j])
  BY <1>1, <1>2 DEF Active
<1>6. last[i] = Never /\ \A j \in Investments : last[j] <= today /\ last[j] \in Int
  BY <1>1, DayFacts DEF NothingDue, NothingAhead, IInv
<1>7. Regular => SettledBelowMark'
  <2> SUFFICES ASSUME Regular, NEW j \in Active', NEW k \in Active', NEW d \in Trading,
                      started'[j] < d, d <= last[k]
               PROVE  Settled(j, d)
    BY <1>1, <1>4 DEF SettledBelowMark
  <2>1. d \in Nat /\ k \in Investments /\ d <= today
    <3>1. d \in Nat /\ k \in Investments
      BY DayFacts DEF IInv, Active
    <3> QED
      BY <1>2, <1>6, <3>1
  <2>2. j # i /\ k # i
    BY <1>2, <1>6, <2>1 DEF Never
  <2> QED
    BY <1>5, <2>2 DEF NothingDue, SettledBelowMark
<1>8. Regular => SettledBehindRuns'
  <2> SUFFICES ASSUME Regular, NEW r \in Runs, NEW j \in Active', NEW d \in Trading,
                      started'[j] < d, Behind(run[r], d), d \notin run[r].pending
               PROVE  Settled(j, d)
    BY <1>1, <1>4 DEF SettledBehindRuns, Behind
  <2>1. d \in Nat /\ d <= today
    <3>1. /\ d \in Nat /\ run[r].day \in Nat /\ run[r].day <= today
          /\ \A p \in run[r].pending : p \in Nat /\ p <= today
      BY DayFacts DEF IInv, NothingDue, NothingAhead
    <3> QED
      BY <1>2, <3>1 DEF Behind
  <2>2. j # i
    BY <1>2, <2>1
  <2> QED
    BY <1>5, <2>2 DEF NothingDue, SettledBehindRuns
<1> QED
  BY <1>3, <1>4, <1>7, <1>8 DEF NothingDue

\* Of a step that moves one run and pays nothing, what there is to show.
LEMMA RunMovesDue ==
  ASSUME IInv, NothingDue, NEW r \in Runs, NEW new \in RunRecord,
         run' = [run EXCEPT ![r] = new], reported \subseteq reported',
         UNCHANGED <<scene, today, started, status, last, accruals>>,
         new.day <= today, \A p \in new.pending : p <= today,
         new.pc = "within" => \A p \in new.pending : new.day < p,
         new.pc = "within" => \A i \in new.todo : started[i] # Never,
         Regular /\ run[r].pc = "within" =>
           \/ run[r].todo = {}
           \/ new.pc = "within" /\ new.day = run[r].day /\ new.todo = run[r].todo,
         Regular => \A i \in Active, d \in Trading :
           started[i] < d /\ Behind(new, d) /\ d \notin new.pending => Settled(i, d) \/ Settled(i, d)'
  PROVE  NothingDue'
<1>1. run'[r] = new /\ \A s \in Runs \ {r} : run'[s] = run[s]
  BY DEF IInv, TypeOK
<1>2. NothingAhead' /\ ListedHaveBought' /\ OldestFirst'
  BY <1>1 DEF NothingDue, NothingAhead, ListedHaveBought, OldestFirst
<1>3. (Regular' <=> Regular) /\ Active' = Active
  BY DEF Regular, Established, Active
<1>4. Regular => \A i, d : Settled(i, d) => Settled(i, d)'
  BY <1>1 DEF Settled
<1>5. Regular => SettledBelowMark'
  BY <1>3, <1>4 DEF NothingDue, SettledBelowMark
<1>6. Regular => SettledBehindRuns'
  <2> SUFFICES ASSUME Regular, NEW s \in Runs, NEW i \in Active, NEW d \in Trading,
                      started[i] < d, Behind(run'[s], d), d \notin run'[s].pending
               PROVE  Settled(i, d)'
    BY <1>3 DEF SettledBehindRuns, Behind
  <2>1. CASE s = r
    BY <1>1, <1>4, <2>1
  <2>2. CASE s # r
    BY <1>1, <1>4, <2>2 DEF NothingDue, SettledBehindRuns
  <2> QED
    BY <2>1, <2>2
<1> QED
  BY <1>2, <1>3, <1>5, <1>6 DEF NothingDue

\* Days before those a run begins with were paid, or are reported as it begins.
LEMMA StartRunDue ==
  ASSUME IInv, NothingDue, NEW r \in Runs, StartRun(r)
  PROVE  NothingDue'
<1> DEFINE days  == {d \in Trading : d > HighWater /\ d <= today}
           paid  == {d \in days : Cardinality({e \in days : e > d}) < MaxDays}
           fresh == HighWater = Never
           due   == IF fresh THEN {today} \intersect Trading ELSE paid
           new   == [pc |-> "between", pending |-> due, day |-> 0, todo |-> {}, existingOnly |-> ~fresh]
<1>1. paid \subseteq days /\ due \subseteq Trading /\ \A p \in due : p <= today
  BY DayFacts DEF IInv
<1>2. Regular => ~fresh
  BY HighWaterIsKnown DEF IInv, Regular
<1>3. run[r].pc = "idle" /\ run' = [run EXCEPT ![r] = new]
  BY DEF StartRun
<1>4. UNCHANGED <<scene, today, started, status, last, accruals>>
  BY DEF StartRun
<1>5. reported' = IF fresh THEN reported ELSE reported \union (days \ paid)
  BY DEF StartRun
<1> HIDE DEF paid, fresh
<1>6. new \in RunRecord
  <2>1. 0 \in Days
    BY RoiAssumption DEF Days
  <2> HIDE DEF due
  <2>2. (~fresh) \in BOOLEAN
    OBVIOUS
  <2> QED
    BY <1>1, <2>1, <2>2 DEF RunRecord
<1>7. Regular => due = paid
  BY <1>2
<1> HIDE DEF due
<1>8. /\ new.pc = "between" /\ new.pending = due /\ new.day = 0
      /\ new.day <= today
  BY DayFacts DEF IInv
<1> HIDE DEF new
<1>9. ASSUME Regular, NEW i \in Active, NEW d \in Trading, started[i] < d, Behind(new, d), d \notin new.pending
      PROVE  Settled(i, d) \/ Settled(i, d)'
  <2>1. PICK p \in due : d < p
    BY <1>8, <1>9 DEF Behind
  <2>2. d \in Nat /\ p \in Nat /\ p <= today /\ today \in Nat
    BY <1>1, <2>1, DayFacts DEF IInv
  <2>3. d <= today
    BY <2>1, <2>2
  <2>4. CASE d > HighWater
    <3>1. d \in days
      BY <2>3, <2>4
    <3>2. d \notin paid
      BY <1>7, <1>8, <1>9
    <3>3. d \in reported'
      BY <1>2, <1>5, <1>9, <3>1, <3>2
    <3> QED
      BY <3>3 DEF Settled
  <2>5. CASE ~(d > HighWater)
    <3>1. HighWater \in Int /\ d <= HighWater
      BY <2>2, <2>5, HighWaterFacts DEF IInv
    <3>2. PICK j \in Active : last[j] = HighWater
      BY <1>2, <1>9, HighWaterFacts DEF IInv, fresh
    <3> QED
      BY <1>9, <3>1, <3>2 DEF NothingDue, SettledBelowMark
  <2> QED
    BY <2>4, <2>5
<1>10. reported \subseteq reported'
  BY <1>5
<1> QED
  BY <1>1, <1>3, <1>4, <1>6, <1>8, <1>9, <1>10, RunMovesDue

\* A run that begins a day has all who were there before it on its list.
LEMMA StartDayDue ==
  ASSUME IInv, NothingDue, NEW r \in Runs, StartDay(r)
  PROVE  NothingDue'
<1> DEFINE day == Min(run[r].pending)
           todo == {i \in Active : run[r].existingOnly => started[i] < day}
           new == [run[r] EXCEPT !.pc = "within", !.day = day, !.pending = @ \ {day}, !.todo = todo]
<1>1. run[r] \in RunRecord /\ run[r].pending \subseteq Trading
  BY DayFacts DEF IInv
<1>2. run[r].pending # {} /\ run[r].pc = "between"
  BY DEF StartDay
<1>3. day \in run[r].pending /\ day \in Days /\ \A y \in run[r].pending : day <= y
  BY <1>1, <1>2, MinOfDays
<1>4. run' = [run EXCEPT ![r] = new]
  BY <1>1 DEF StartDay, RunRecord, IInv, TypeOK
<1>5. /\ todo \subseteq Investments /\ \A i \in todo : started[i] # Never
      /\ \A i \in Active : started[i] < day => i \in todo
  BY DEF Active
<1> HIDE DEF day, todo
<1>6. /\ new \in RunRecord /\ new.pc = "within" /\ new.todo = todo /\ new.day = day
      /\ new.pending = run[r].pending \ {day}
  BY <1>1, <1>3, <1>5 DEF RunRecord
<1>7. UNCHANGED <<scene, today, started, status, last, accruals, reported>>
  BY DEF StartDay
<1> HIDE DEF new
<1>8. /\ day \in Nat /\ day <= today
      /\ \A p \in new.pending : p \in Nat /\ p <= today /\ day < p
  BY <1>1, <1>3, <1>6, DayFacts DEF IInv, NothingDue, NothingAhead
<1>9. ASSUME Regular, NEW i \in Active, NEW d \in Trading, started[i] < d, Behind(new, d), d \notin new.pending
      PROVE  Settled(i, d) \/ Settled(i, d)'
  <2>1. CASE d = day
    <3>1. run'[r] = new
      BY <1>4, <1>6 DEF IInv, TypeOK
    <3>2. i \in new.todo /\ new.day = d
      BY <1>5, <1>6, <1>9, <2>1
    <3> QED
      BY <1>6, <3>1, <3>2 DEF Settled
  <2>2. CASE d # day
    <3>1. d \notin run[r].pending
      BY <1>6, <1>9, <2>2
    <3>2. \E p \in run[r].pending : d < p
      <4>1. CASE d <= day
        <5>1. d \in Nat
          BY DayFacts DEF IInv
        <5> QED
          BY <1>3, <1>8, <2>2, <4>1, <5>1
      <4>2. CASE \E p \in new.pending : d < p
        BY <1>6, <4>2
      <4> QED
        BY <1>6, <1>9, <4>1, <4>2 DEF Behind
    <3>3. Behind(run[r], d)
      BY <1>2, <3>2 DEF Behind
    <3> QED
      BY <1>9, <3>1, <3>3 DEF NothingDue, SettledBehindRuns
  <2> QED
    BY <2>1, <2>2
<1> QED
  BY <1>2, <1>4, <1>5, <1>6, <1>7, <1>8, <1>9, RunMovesDue

\* A run leaves a day when everybody on its list was seen to, and ends or dies
\* between two days; an accrual that fails leaves the scene irregular.
LEMMA RunEndsDue ==
  ASSUME IInv, NothingDue, NEW r \in Runs,
         EndDay(r) \/ EndRun(r) \/ RunDies(r) \/ \E i \in Investments : AccrueFails(r, i)
  PROVE  NothingDue'
<1>1. /\ run[r] \in RunRecord /\ run[r].day <= today /\ \A p \in run[r].pending : p <= today
      /\ run[r].pc = "within" => \A p \in run[r].pending : run[r].day < p
      /\ run[r].pc = "within" => \A i \in run[r].todo : started[i] # Never
  BY DayFacts DEF IInv, NothingDue, NothingAhead, ListedHaveBought, OldestFirst
<1>2. UNCHANGED <<scene, today, started, status, last, accruals, reported>>
  BY DEF EndDay, EndRun, RunDies, AccrueFails
<1>3. CASE EndDay(r)
  <2> DEFINE new == [run[r] EXCEPT !.pc = "between"]
  <2>1. run' = [run EXCEPT ![r] = new] /\ run[r].pc = "within" /\ run[r].todo = {}
    BY <1>1, <1>3 DEF EndDay, IInv, TypeOK
  <2>2. new \in RunRecord /\ new.pc = "between" /\ new.pending = run[r].pending /\ new.day = run[r].day
    BY <1>1 DEF RunRecord
  <2> HIDE DEF new
  <2>3. ASSUME Regular, NEW i \in Active, NEW d \in Trading, started[i] < d, Behind(new, d), d \notin new.pending
        PROVE  Settled(i, d)
    <3>1. Behind(run[r], d)
      BY <2>1, <2>2, <2>3 DEF Behind
    <3> QED
      BY <2>2, <2>3, <3>1 DEF NothingDue, SettledBehindRuns
  <2> QED
    BY <1>1, <1>2, <2>1, <2>2, <2>3, RunMovesDue
<1>4. CASE EndRun(r) \/ RunDies(r)
  <2>1. run' = [run EXCEPT ![r] = Idle]
    BY <1>4 DEF EndRun, RunDies
  <2>2. Idle \in RunRecord /\ Idle.pc = "idle" /\ Idle.pending = {} /\ Idle.day = 0
    BY RoiAssumption DEF Idle, RunRecord, Days
  <2>3. Regular => run[r].pc # "within"
    BY <1>4 DEF EndRun, RunDies, Regular
  <2>4. \A d : ~Behind(Idle, d)
    BY <2>2 DEF Behind
  <2>5. Idle.day <= today
    BY <2>2, DayFacts DEF IInv
  <2> HIDE DEF Idle
  <2> QED
    BY <1>2, <2>1, <2>2, <2>3, <2>4, <2>5, RunMovesDue
<1>5. CASE \E i \in Investments : AccrueFails(r, i)
  <2> PICK i \in Investments : AccrueFails(r, i)
    BY <1>5
  <2> DEFINE new == [run[r] EXCEPT !.todo = @ \ {i}]
  <2>1. run' = [run EXCEPT ![r] = new]
    BY <1>1 DEF AccrueFails, Done, IInv, TypeOK
  <2>2. /\ new \in RunRecord /\ new.pc = run[r].pc /\ new.pending = run[r].pending
        /\ new.day = run[r].day /\ new.todo \subseteq run[r].todo
    BY <1>1 DEF RunRecord
  <2>3. ~Regular
    BY DEF AccrueFails, Regular
  <2> HIDE DEF new
  <2> QED
    BY <1>1, <1>2, <2>1, <2>2, <2>3, RunMovesDue
<1> QED
  BY <1>3, <1>4, <1>5

\* What is paid of a day is settled, and so is what lies before that day.
LEMMA AccrueDue ==
  ASSUME IInv, NothingDue, NEW r \in Runs, NEW i \in Investments, Accrue(r, i)
  PROVE  NothingDue'
<1> DEFINE day == run[r].day
<1>1. /\ run[r].pc = "within" /\ i \in run[r].todo
      /\ UNCHANGED <<scene, today, started, reported>>
      /\ run' = [run EXCEPT ![r].todo = @ \ {i}]
  BY DEF Accrue, Done
<1>2. \/ accruals[<<i, day>>] > 0 /\ UNCHANGED <<status, last, accruals>>
      \/ /\ accruals' = [accruals EXCEPT ![<<i, day>>] = 1]
         /\ last' = [last EXCEPT ![i] = day]
         /\ status' \in {status, [status EXCEPT ![i] = IF i \in scene.mayCap THEN "CAPPED" ELSE @]}
  BY DEF Accrue
<1>3. /\ day \in Nat /\ day \in Days /\ day <= today
      /\ \A s \in Runs : /\ run'[s].pc = run[s].pc /\ run'[s].day = run[s].day
                         /\ run'[s].pending = run[s].pending
                         /\ \A j : j \in run'[s].todo <=> j \in run[s].todo /\ ~(s = r /\ j = i)
  <2>1. run \in [Runs -> RunRecord] /\ run[r] \in RunRecord
    BY DEF IInv, TypeOK, RunRecord
  <2>2. day \in Nat /\ day \in Days /\ day <= today
    BY <2>1, DayFacts DEF IInv, RunRecord, NothingDue, NothingAhead
  <2> DEFINE new == [run[r] EXCEPT !.todo = @ \ {i}]
  <2>3. run' = [run EXCEPT ![r] = new]
    BY <1>1, <2>1
  <2>4. /\ new.pc = run[r].pc /\ new.day = run[r].day /\ new.pending = run[r].pending
        /\ new.todo = run[r].todo \ {i}
    BY <2>1 DEF RunRecord
  <2> HIDE DEF new
  <2> QED
    BY <2>1, <2>2, <2>3, <2>4
<1> HIDE DEF day
<1>4. /\ \A j \in Investments : last'[j] = last[j] \/ (j = i /\ last'[j] = day)
      /\ \A j \in Investments, d \in Days : accruals'[<<j, d>>] = accruals[<<j, d>>] \/ accruals'[<<j, d>>] = 1
      /\ accruals'[<<i, day>>] > 0
      /\ \A j \in Investments : status'[j] = status[j] \/ status'[j] = "CAPPED"
  <2>1. CASE UNCHANGED <<status, last, accruals>> /\ accruals[<<i, day>>] > 0
    BY <2>1
  <2>2. CASE /\ accruals' = [accruals EXCEPT ![<<i, day>>] = 1]
             /\ last' = [last EXCEPT ![i] = day]
             /\ status' \in {status, [status EXCEPT ![i] = IF i \in scene.mayCap THEN "CAPPED" ELSE @]}
    <3>1. \A j \in Investments : last'[j] = last[j] \/ (j = i /\ last'[j] = day)
      BY <2>2 DEF IInv, TypeOK
    <3>2. \A j \in Investments, d \in Days : accruals'[<<j, d>>] = accruals[<<j, d>>] \/ accruals'[<<j, d>>] = 1
      BY <2>2 DEF IInv, TypeOK
    <3>3. accruals'[<<i, day>>] = 1
      BY <1>3, <2>2 DEF IInv, TypeOK
    <3>4. \A j \in Investments : status'[j] = status[j] \/ status'[j] = "CAPPED"
      BY <2>2 DEF IInv, TypeOK
    <3> QED
      BY <3>1, <3>2, <3>3, <3>4
  <2> QED
    BY <1>2, <2>1, <2>2
<1>5. (Regular' <=> Regular) /\ Active' \subseteq Active
  BY <1>1, <1>4 DEF Regular, Established, Active
<1>6. ASSUME NEW j \in Active, NEW d \in Trading, Settled(j, d) PROVE Settled(j, d)'
  <2>0. j \in Investments /\ d \in Days
    BY DayFacts DEF IInv, Active
  <2>1. CASE accruals[<<j, d>>] > 0
    BY <1>4, <2>0, <2>1 DEF Settled
  <2>2. CASE d \in reported
    BY <1>1, <2>2 DEF Settled
  <2>3. CASE \E s \in Runs : run[s].pc = "within" /\ run[s].day = d /\ j \in run[s].todo
    <3>1. PICK s \in Runs : run[s].pc = "within" /\ run[s].day = d /\ j \in run[s].todo
      BY <2>3
    <3>2. CASE s = r /\ j = i
      BY <1>4, <3>1, <3>2 DEF Settled, day
    <3>3. CASE ~(s = r /\ j = i)
      <4>1. run'[s].pc = "within" /\ run'[s].day = d /\ j \in run'[s].todo
        BY <1>3, <3>1, <3>3
      <4> QED
        BY <4>1 DEF Settled
    <3> QED
      BY <3>2, <3>3
  <2> QED
    BY <1>6, <2>1, <2>2, <2>3 DEF Settled
<1>7. started[i] # Never
  BY <1>1 DEF NothingDue, ListedHaveBought
<1>8. NothingAhead'
  BY <1>1, <1>3, <1>4, <1>7 DEF NothingDue, NothingAhead
<1>9. OldestFirst' /\ ListedHaveBought'
  BY <1>1, <1>3 DEF NothingDue, OldestFirst, ListedHaveBought
<1>10. Regular => SettledBelowMark'
  <2> SUFFICES ASSUME Regular, NEW j \in Active', NEW k \in Active', NEW d \in Trading,
                      started[j] < d, d <= last'[k]
               PROVE  Settled(j, d)'
    BY <1>1 DEF SettledBelowMark
  <2>1. j \in Active /\ k \in Active /\ k \in Investments
    BY <1>5 DEF Active
  <2>2. CASE last'[k] = last[k]
    BY <1>6, <2>1, <2>2 DEF NothingDue, SettledBelowMark
  <2>3. CASE last'[k] = day
    <3>1. d \in Nat /\ d \notin run[r].pending
      <4>1. \A p \in run[r].pending : day < p /\ p \in Nat
        BY <1>1, DayFacts DEF NothingDue, OldestFirst, day, IInv
      <4>2. d \in Nat
        BY DayFacts DEF IInv
      <4> QED
        BY <1>3, <2>3, <4>1, <4>2
    <3>2. Behind(run[r], d)
      BY <1>1, <2>3 DEF Behind, day
    <3> QED
      BY <1>6, <2>1, <3>1, <3>2 DEF NothingDue, SettledBehindRuns
  <2> QED
    BY <1>4, <2>1, <2>2, <2>3
<1>11. Regular => SettledBehindRuns'
  <2> SUFFICES ASSUME Regular, NEW s \in Runs, NEW j \in Active', NEW d \in Trading,
                      started[j] < d, Behind(run'[s], d), d \notin run'[s].pending
               PROVE  Settled(j, d)'
    BY <1>1 DEF SettledBehindRuns, Behind
  <2>1. Behind(run[s], d) /\ d \notin run[s].pending
    BY <1>3 DEF Behind
  <2> QED
    BY <1>5, <1>6, <2>1 DEF NothingDue, SettledBehindRuns
<1> QED
  BY <1>5, <1>8, <1>9, <1>10, <1>11 DEF NothingDue

\* No step leaves a day due behind it.
LEMMA StepDue == IInv /\ NothingDue /\ [Next]_vars => NothingDue'
<1> SUFFICES ASSUME IInv, NothingDue, [Next]_vars PROVE NothingDue'
  OBVIOUS
<1>1. CASE UNCHANGED vars
  BY <1>1
     DEF vars, NothingDue, NothingAhead, ListedHaveBought, OldestFirst, Regular, Established,
         SettledBelowMark, SettledBehindRuns, Active, Settled, Behind
<1>2. CASE NextDay
  BY <1>2, NextDayDue
<1>3. ASSUME NEW i \in Investments, Purchase(i) PROVE NothingDue'
  BY <1>3, PurchaseDue
<1>4. ASSUME NEW r \in Runs, StartRun(r) \/ StartDay(r) PROVE NothingDue'
  BY <1>4, StartRunDue, StartDayDue
<1>5. ASSUME NEW r \in Runs, EndDay(r) \/ EndRun(r) \/ RunDies(r) \/ \E i \in Investments : AccrueFails(r, i)
      PROVE  NothingDue'
  BY <1>5, RunEndsDue
<1>6. ASSUME NEW r \in Runs, NEW i \in Investments, Accrue(r, i) PROVE NothingDue'
  BY <1>6, AccrueDue
<1> QED
  BY <1>1, <1>2, <1>3, <1>4, <1>5, <1>6 DEF Next

\* "The maximum across them is the most recent completed run" (daily-roi.job.ts):
\* however many runs overlap, and although they die between two days, nobody
\* active is owed a day up to the latest that anybody was paid for, unless it
\* was reported.
THEOREM OwedTheorem == Spec => []NothingIsOwed
<1>1. IInv /\ NothingDue => NothingIsOwed
  <2> SUFFICES ASSUME IInv, NothingDue, Regular, \A r \in Runs : run[r].pc = "idle",
                      NEW i \in Active, NEW d \in Trading, started[i] < d, d <= HighWater
               PROVE  accruals[<<i, d>>] > 0 \/ d \in reported
    BY DEF NothingIsOwed, MaximumIsComplete
  <2>1. d \in Nat /\ HighWater \in Int
    BY DayFacts, HighWaterFacts DEF IInv
  <2>2. HighWater # Never
    BY <2>1 DEF Never
  <2>3. PICK j \in Active : last[j] = HighWater
    BY <2>2, HighWaterFacts DEF IInv
  <2>4. Settled(i, d)
    BY <2>3 DEF NothingDue, SettledBelowMark
  <2> QED
    BY <2>4 DEF Settled
<1> QED
  BY <1>1, InitInvariant, StepInvariant, InitDue, StepDue, PTL DEF Spec
=============================================================================

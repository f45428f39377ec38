------------------------------- MODULE DryRuns -------------------------------
(***************************************************************************)
(* Dry runs of the compensation plan (simulation.service.ts), beside the   *)
(* nightly accrual and the earnings digest.  A run creates members of its  *)
(* own in the live database and drives the real engine with them through   *)
(* modelled days: they join, buy, accrue, buy again and withdraw.  It then *)
(* reports what it cost, and can be erased.                                *)
(*                                                                         *)
(* A package costs a unit and a daily return is a unit; the ceiling is in  *)
(* Capping, the details of an accrual in DailyRoi.  execute runs detached  *)
(* in the API's process, and nothing resumes it.                           *)
(***************************************************************************)
EXTENDS Integers, Sequences, FiniteSetsExt, Functions

CONSTANTS
  Runs,
  Real,       \* what stands for the run of a member who is real
  Trading,    \* the days that are trading days
  Month,      \* the days of a month
  Scenes      \* [runs : the runs there may be,
              \*  last : bound on the calendar,
              \*  from : the modelled first days,
              \*  members, months, deposits : bounds on a run,
              \*  nights : whether the nightly accrual runs,
              \*  digests : whether the earnings digest does,
              \*  dies : whether the process may stop]

VARIABLES
  scene,      \* the one of Scenes that is played
  today,      \* the calendar
  run,        \* [Runs -> the row: status, the months reported, the summary]
  exec,       \* [Runs -> where execute is]
  member,     \* [those in the database -> their package and their money]
  accrued,    \* accruals: <<member, day>>
  notices,    \* notifications: whom each is to, which no foreign key says, and whether
              \* it was made after those of its run had been removed
  night,      \* the nightly accrual, or the digest
  ran,        \* the last day the nightly accrual ended on
  erasing     \* the erasure under way

vars == <<scene, today, run, exec, member, accrued, notices, night, ran, erasing>>

Nothing == [capital |-> 0, paid |-> 0, withdrawn |-> 0]
NoRun == [status |-> "none", monthly |-> <<>>, summary |-> Nothing]
NoExec == [pc |-> "idle", day |-> 0, before |-> Nothing, withdrawn |-> 0]
NoNight == [pc |-> "idle", days |-> {}, day |-> 0, existing |-> FALSE, left |-> {}]
NoErasing == [pc |-> "idle", of |-> Real, ids |-> {}]
Member(r, n) == [run |-> r, n |-> n]
\* started: the day its package was bought, 0 for none; last: lastAccrualDate.
Holding(day, deposits) == [started |-> day, last |-> 0, deposits |-> deposits, withdrawn |-> 0, spent |-> 0]

\* A real member, who holds a package and was paid for the first day.
Init ==
  /\ scene \in Scenes
  /\ today = 1 /\ ran = 1
  /\ run = [r \in Runs |-> NoRun]
  /\ exec = [r \in Runs |-> NoExec]
  /\ member = [o \in {Member(Real, 1)} |-> [Holding(1, 1) EXCEPT !.last = 1]]
  /\ accrued = {<<Member(Real, 1), 1>>}
  /\ notices = {} /\ night = NoNight /\ erasing = NoErasing

Tomorrow ==
  /\ today < scene.last /\ today' = today + 1
  /\ UNCHANGED <<scene, run, exec, member, accrued, notices, night, ran, erasing>>

-----------------------------------------------------------------------------
(* What a run reads *)

Of(r) == {o \in DOMAIN member : o.run = r}
Holders == {o \in DOMAIN member : member[o].started # 0}
Paid(o) == Quantify(accrued, LAMBDA a : a[1] = o)
Balance(o) == Paid(o) - member[o].spent

\* snapshot, and the withdrawals that summarise adds up.
Snapshot(r) ==
  [capital |-> SumFunction([o \in Of(r) |-> member[o].deposits]),
   paid |-> SumFunction([o \in Of(r) |-> Paid(o)]),
   withdrawn |-> SumFunction([o \in Of(r) |-> member[o].withdrawn])]

-----------------------------------------------------------------------------
(* execute *)

In(r, pc) == exec[r].pc = pc
Goto(r, pc) == exec' = [exec EXCEPT ![r].pc = pc]

Start(r) ==
  /\ r \in scene.runs /\ run[r] = NoRun
  /\ run' = [run EXCEPT ![r].status = "RUNNING"]
  /\ \E first \in scene.from : exec' = [exec EXCEPT ![r] = [NoExec EXCEPT !.pc = "start", !.day = first]]
  /\ UNCHANGED <<scene, today, member, accrued, notices, night, ran, erasing>>

\* The baseline is read before anybody joins.
Baseline(r) ==
  /\ In(r, "start")
  /\ exec' = [exec EXCEPT ![r].pc = "found", ![r].before = Snapshot(r)]
  /\ UNCHANGED <<scene, today, run, member, accrued, notices, night, ran, erasing>>

\* createMember, fund and purchase; a purchase that fails is passed over.
Join(r) ==
  /\ exec[r].pc \in {"found", "join"} /\ Cardinality(Of(r)) < scene.members
  /\ LET new == Member(r, Cardinality(Of(r)) + 1)
     IN \E day \in {0, today} :
          member' = [o \in DOMAIN member \union {new} |-> IF o = new THEN Holding(day, 1) ELSE member[o]]
  /\ UNCHANGED <<scene, today, run, exec, accrued, notices, night, ran, erasing>>

\* Wrong variant: the baseline is read when the founding members have bought.
FoundedBaseline(r) ==
  /\ In(r, "found")
  /\ exec' = [exec EXCEPT ![r].pc = "join", ![r].before = Snapshot(r)]
  /\ UNCHANGED <<scene, today, run, member, accrued, notices, night, ran, erasing>>

Founded(r) ==
  /\ In(r, "found") /\ Goto(r, "join")
  /\ UNCHANGED <<scene, today, run, member, accrued, notices, night, ran, erasing>>

Accrue(owners, day) ==
  /\ accrued' = accrued \union {<<o, day>> : o \in owners}
  /\ member' = [o \in DOMAIN member |-> IF o \in owners THEN [member[o] EXCEPT !.last = day] ELSE member[o]]

\* Wrong variant: every package there is.
OwedToAll(r, day) == {o \in Holders : <<o, day>> \notin accrued}

\* runDailyRoi in the context of a run: the packages of its own members.
Owed(r, day) == {o \in Holders : o.run = r /\ <<o, day>> \notin accrued}

\* An accrual that fails is passed over.
AccrueDay(r) ==
  /\ In(r, "join")
  /\ IF exec[r].day \in Trading
     THEN \E owners \in SUBSET Owed(r, exec[r].day) : Accrue(owners, exec[r].day)
     ELSE UNCHANGED <<accrued, member>>
  /\ Goto(r, "act")
  /\ UNCHANGED <<scene, today, run, notices, night, ran, erasing>>

BuyAgain(r, o) ==
  /\ In(r, "act") /\ member[o].deposits < scene.deposits
  /\ member' = [member EXCEPT ![o].deposits = @ + 1]
  /\ UNCHANGED <<scene, today, run, exec, accrued, notices, night, ran, erasing>>

\* Paid out of earnings, which is no money from outside.
Compound(r, o) ==
  /\ In(r, "act") /\ Balance(o) > 0
  /\ member' = [member EXCEPT ![o].spent = @ + 1]
  /\ UNCHANGED <<scene, today, run, exec, accrued, notices, night, ran, erasing>>

Withdraw(r, o) ==
  /\ In(r, "act") /\ Balance(o) > 0
  /\ member' = [member EXCEPT ![o].spent = @ + 1, ![o].withdrawn = @ + 1]
  /\ exec' = [exec EXCEPT ![r].withdrawn = @ + 1]
  /\ UNCHANGED <<scene, today, run, accrued, notices, night, ran, erasing>>

EndDay(r) ==
  /\ In(r, "act")
  /\ exec' = IF exec[r].day % Month = 0 THEN [exec EXCEPT ![r].pc = "month"]
             ELSE [exec EXCEPT ![r].pc = "join", ![r].day = @ + 1]
  /\ UNCHANGED <<scene, today, run, member, accrued, notices, night, ran, erasing>>

\* diff: what this month added to the snapshot of the last one.
EndMonth(r) ==
  LET after == Snapshot(r)
      before == exec[r].before
      month == [capital |-> after.capital - before.capital, paid |-> after.paid - before.paid,
                withdrawn |-> exec[r].withdrawn]
      done == Len(run[r].monthly) + 1 = scene.months
  IN /\ In(r, "month")
     /\ run' = [run EXCEPT ![r].monthly = Append(@, month)]
     /\ exec' = [exec EXCEPT ![r] = [pc |-> IF done THEN "total" ELSE "join", day |-> @.day + 1,
                                     before |-> after, withdrawn |-> 0]]
     /\ UNCHANGED <<scene, today, member, accrued, notices, night, ran, erasing>>

Complete(r) ==
  /\ In(r, "total")
  /\ run' = [run EXCEPT ![r].status = "COMPLETE", ![r].summary = Snapshot(r)]
  /\ exec' = [exec EXCEPT ![r] = NoExec]
  /\ UNCHANGED <<scene, today, member, accrued, notices, night, ran, erasing>>

\* A statement throws.
Fail(r) ==
  /\ ~In(r, "idle")
  /\ run' = [run EXCEPT ![r].status = "FAILED"]
  /\ exec' = [exec EXCEPT ![r] = NoExec]
  /\ UNCHANGED <<scene, today, member, accrued, notices, night, ran, erasing>>

\* The process stops, and nobody tells the row.
Die ==
  /\ scene.dies /\ \E r \in Runs : ~In(r, "idle")
  /\ exec' = [r \in Runs |-> NoExec] /\ erasing' = NoErasing
  /\ UNCHANGED <<scene, today, run, member, accrued, notices, night, ran>>

-----------------------------------------------------------------------------
(* The nightly jobs *)

\* catchUpDailyRoi: from the last day any active package was paid for.
StartNight ==
  LET last == Max({member[o].last : o \in Holders} \union {0})
      days == {d \in (last + 1)..today : d \in Trading}
  IN /\ scene.nights /\ night.pc = "idle"
     /\ night' = IF days = {} THEN NoNight
                 ELSE [NoNight EXCEPT !.pc = "day", !.days = days, !.existing = TRUE]
     /\ ran' = IF days = {} THEN today ELSE ran
     /\ UNCHANGED <<scene, today, run, exec, member, accrued, notices, erasing>>

\* runDailyRoi lists the packages that were there before the day.
NightDay ==
  LET day == Min(night.days)
  IN /\ night.pc = "day"
     /\ night' = [night EXCEPT !.pc = "pay", !.day = day, !.days = @ \ {day},
                               !.left = {o \in Holders : member[o].started < day}]
     /\ UNCHANGED <<scene, today, run, exec, member, accrued, notices, ran, erasing>>

PayAtNight(o) ==
  /\ night.pc = "pay" /\ o \in night.left
  /\ IF o \in DOMAIN member /\ <<o, night.day>> \notin accrued
     THEN Accrue({o}, night.day) ELSE UNCHANGED <<accrued, member>>
  /\ night' = [night EXCEPT !.left = @ \ {o}]
  /\ UNCHANGED <<scene, today, run, exec, notices, ran, erasing>>

EndNightDay ==
  /\ night.pc = "pay" /\ night.left = {}
  /\ night' = IF night.days = {} THEN NoNight ELSE [night EXCEPT !.pc = "day"]
  /\ ran' = IF night.days = {} THEN night.day ELSE ran
  /\ UNCHANGED <<scene, today, run, exec, member, accrued, notices, erasing>>

\* sendEarningsDigest: whoever accrued today, and then each of them.
StartDigest ==
  LET earners == {o \in DOMAIN member : <<o, today>> \in accrued}
  IN /\ scene.digests /\ night.pc = "idle" /\ earners # {}
     /\ night' = [NoNight EXCEPT !.pc = "tell", !.left = earners]
     /\ UNCHANGED <<scene, today, run, exec, member, accrued, notices, ran, erasing>>

Unlinked(o) ==
  o \notin DOMAIN member \/ (erasing.of = o.run /\ erasing.pc \in {"delete", "mark"})

Tell(o) ==
  /\ night.pc = "tell" /\ o \in night.left
  /\ notices' = notices \union {[to |-> o, late |-> Unlinked(o)]}
  /\ night' = IF night.left = {o} THEN NoNight ELSE [night EXCEPT !.left = @ \ {o}]
  /\ UNCHANGED <<scene, today, run, exec, member, accrued, ran, erasing>>

-----------------------------------------------------------------------------
(* erase *)

\* Wrong variant: a run that is still going may be erased.
StartEraseAnyTime(r) ==
  /\ erasing.pc = "idle" /\ run[r] # NoRun
  /\ erasing' = [pc |-> "unlink", of |-> r, ids |-> Of(r)]
  /\ UNCHANGED <<scene, today, run, exec, member, accrued, notices, night, ran>>

\* A run that is not going, and the ids of its members.
StartErase(r) ==
  /\ erasing.pc = "idle" /\ run[r].status \notin {"none", "RUNNING"}
  /\ erasing' = [pc |-> "unlink", of |-> r, ids |-> Of(r)]
  /\ UNCHANGED <<scene, today, run, exec, member, accrued, notices, night, ran>>

\* Wrong variant: only what cascades is removed.
UnlinkNothing ==
  /\ erasing.pc = "unlink" /\ erasing' = [erasing EXCEPT !.pc = "delete"]
  /\ UNCHANGED <<scene, today, run, exec, member, accrued, notices, night, ran>>

\* "No foreign key ties these to a user, so they will not cascade."
Unlink ==
  /\ erasing.pc = "unlink" /\ erasing' = [erasing EXCEPT !.pc = "delete"]
  /\ notices' = {x \in notices : x.to \notin erasing.ids}
  /\ UNCHANGED <<scene, today, run, exec, member, accrued, night, ran>>

\* The members go, and everything that cascades from them.
Delete ==
  /\ erasing.pc = "delete" /\ erasing' = [erasing EXCEPT !.pc = "mark"]
  /\ member' = Restrict(member, DOMAIN member \ Of(erasing.of))
  /\ accrued' = {a \in accrued : a[1].run # erasing.of}
  /\ UNCHANGED <<scene, today, run, exec, notices, night, ran>>

\* The members that are left are counted, and any refuses the mark.
Mark ==
  /\ erasing.pc = "mark" /\ erasing' = NoErasing
  /\ run' = IF Of(erasing.of) = {} THEN [run EXCEPT ![erasing.of].status = "ERASED"] ELSE run
  /\ UNCHANGED <<scene, today, exec, member, accrued, notices, night, ran>>

Next ==
  \/ Tomorrow
  \/ \E r \in Runs :
       \/ Start(r) \/ Baseline(r) \/ Join(r) \/ Founded(r) \/ AccrueDay(r)
       \/ \E o \in Of(r) : BuyAgain(r, o) \/ Compound(r, o) \/ Withdraw(r, o)
       \/ EndDay(r) \/ EndMonth(r) \/ Complete(r) \/ Fail(r) \/ StartErase(r)
  \/ Die
  \/ StartNight \/ NightDay \/ EndNightDay \/ StartDigest
  \/ \E o \in night.left : PayAtNight(o) \/ Tell(o)
  \/ Unlink \/ Delete \/ Mark

Spec == Init /\ [][Next]_vars

-----------------------------------------------------------------------------
(* Properties *)

\* "A simulation only ever pays its own members": whatever days are modelled,
\* no real member is credited for one that has not happened, and no member of
\* another run for one that it has not reached.
PaysItsOwn ==
  \A a \in accrued : LET r == a[1].run IN
    \/ a[2] <= today
    \/ r # Real /\ (exec[r].pc = "idle" \/ a[2] <= exec[r].day)

\* The months of a run that is complete add up to its summary: nothing was
\* counted in no month, or in two, though the members also earn from the
\* nightly accrual, whose returns alone may fall after the last month.
MonthsAddUp ==
  \A r \in Runs : run[r].status = "COMPLETE" =>
    LET Total(field) == SumFunction([i \in DOMAIN run[r].monthly |-> run[r].monthly[i][field]])
        summary == run[r].summary
    IN /\ Total("capital") = summary.capital /\ Total("withdrawn") = summary.withdrawn
       /\ IF scene.nights THEN Total("paid") <= summary.paid ELSE Total("paid") = summary.paid

\* "Erasure is exact": nothing of a run that is marked erased is left, nor
\* comes back, although a digest goes on telling its members what they earned,
\* except what it told them after their notifications had been removed; and
\* nothing of anybody else is gone, nor of a run that has not been erased.
ErasureIsExact ==
  /\ \A r \in Runs : run[r].status = "ERASED" =>
       /\ Of(r) = {} /\ \A a \in accrued : a[1].run # r
       /\ \A x \in notices : x.to.run = r => x.late
  /\ Member(Real, 1) \in DOMAIN member
  /\ \A r \in Runs : run[r].status = "COMPLETE" /\ erasing.of # r /\ ~scene.dies =>
       Snapshot(r).capital = run[r].summary.capital

\* "Accrue every trading day that was missed": once the nightly accrual has
\* ended on a day, every real package that is older was paid for it.
NightPaysEverybody ==
  \A o \in Holders, d \in Trading :
    o.run = Real /\ member[o].started < d /\ d <= ran => <<o, d>> \in accrued
=============================================================================

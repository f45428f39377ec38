------------------------------ MODULE MCOffice ------------------------------
(* What operators do in the back office, side by side: balance adjustments of  *)
(* two operators who raise, approve and reject at once; or a draw that is      *)
(* edited, opened, closed, run and claimed; or dry runs beside the nightly     *)
(* accrual and the digest.  They share no state, so a behaviour plays one of   *)
(* them and leaves the others be.                                              *)
EXTENDS Adjustments, Sequences, TLC

CONSTANTS Members, Claims, Clerks, Terms, MaxTickets, Stream, DrawScenes,
          r1, r2, Runs, Real, Trading, Month, RunScenes

\* A prize is worth a number of tickets to earn, and hashes are numbers.
ASSUME DrawsAssumption ==
  /\ Terms \subseteq [prizes : Nat, threshold : Nat \ {0}]
  /\ MaxTickets \in Nat
  /\ Stream \in Seq(Seq(Nat))
  /\ DrawScenes \subseteq [together : BOOLEAN, settled : BOOLEAN, quiet : BOOLEAN, edits : Nat, units : Nat]

\* A run's name is not what stands for the real members, and days are numbers.
ASSUME RunsAssumption ==
  /\ Real \notin Runs /\ Trading \subseteq Nat
  /\ RunScenes \subseteq
       [runs : SUBSET Runs, last : Nat, from : SUBSET Nat, members : Nat, months : Nat, deposits : Nat,
        nights : BOOLEAN, digests : BOOLEAN, dies : BOOLEAN]

VARIABLES
  part,      \* which of the three is played
  drawScene, draw, tickets, prize, opened, invested, purchase, clerk, tap,
  runScene, today, run, exec, member, accrued, notices, night, ran, erasing

D == INSTANCE Draws WITH
  Calls <- Clerks, Taps <- Claims, Scenes <- DrawScenes, scene <- drawScene, call <- clerk
X == INSTANCE DryRuns WITH Scenes <- RunScenes, scene <- runScene

draws == <<drawScene, draw, tickets, prize, opened, invested, purchase, clerk, tap>>
dryRuns == <<runScene, today, run, exec, member, accrued, notices, night, ran, erasing>>

\* A transaction that fails and a commit whose answer is lost; or a process that stops.
MCScenes == {[fails |-> 1, loses |-> 1, dies |-> FALSE], [fails |-> 0, loses |-> 1, dies |-> TRUE]}

MCTerms == {[prizes |-> 2, threshold |-> 1], [prizes |-> 1, threshold |-> 2]}
MCStream == <<<<1, 0, 1, 0>>, <<2, 1, 0, 0>>>>
Played(together, settled, quiet, edits, units) ==
  [together |-> together, settled |-> settled, quiet |-> quiet, edits |-> edits, units |-> units]
InTurn == Played(FALSE, TRUE, TRUE, 1, 4)
\* Members buy while the draw is being opened.
Busy == Played(FALSE, TRUE, FALSE, 0, 3)
AtOnce == Played(TRUE, FALSE, FALSE, 2, 2)
MCDrawScenes == {InTurn, Busy, AtOnce}

OneRun == [runs |-> {r1}, last |-> 1, from |-> {1}, members |-> 1, months |-> 1, deposits |-> 1,
           nights |-> FALSE, digests |-> FALSE, dies |-> FALSE]
MCRunScenes ==
  {[OneRun EXCEPT !.members = 2, !.deposits = 2], [OneRun EXCEPT !.members = 2, !.months = 2],
   [OneRun EXCEPT !.runs = {r1, r2}, !.from = {1, 3}],
   [OneRun EXCEPT !.months = 2, !.last = 3, !.nights = TRUE],
   [OneRun EXCEPT !.digests = TRUE, !.dies = TRUE]}

\* The state of what is not played.
Blank == "blank"
NoDraws ==
  /\ drawScene = Blank /\ draw = Blank /\ tickets = Blank /\ prize = Blank /\ opened = Blank
  /\ invested = Blank /\ purchase = Blank /\ clerk = Blank /\ tap = Blank
NoDryRuns ==
  /\ runScene = Blank /\ today = Blank /\ run = Blank /\ exec = Blank /\ member = Blank
  /\ accrued = Blank /\ notices = Blank /\ night = Blank /\ ran = Blank /\ erasing = Blank

MCInit ==
  /\ Init
  /\ \/ part = "adjustments" /\ NoDraws /\ NoDryRuns
     \/ /\ scene.dies
        /\ \/ part = "draws" /\ D!Init /\ NoDryRuns
           \/ part = "dry runs" /\ X!Init /\ NoDraws

MCNext ==
  \/ part = "adjustments" /\ Next /\ UNCHANGED <<part, draws, dryRuns>>
  \/ part = "draws" /\ D!Next /\ UNCHANGED <<part, vars, dryRuns>>
  \/ part = "dry runs" /\ X!Next /\ UNCHANGED <<part, vars, draws>>

MCSpec == MCInit /\ [][MCNext]_<<part, vars, draws, dryRuns>>

\* "Two taps" do not pay a prize twice, and it goes to whose ticket won it.
PrizePaidOnce == part = "draws" => D!PrizePaidOnce

\* Tickets are earned, and the winners can be recomputed from what was announced
\* when they were issued.
DrawIsFair == part = "draws" => D!TicketsAreEarned /\ D!ResultIsVerifiable

\* A dry run pays nobody but its members, and leaves nothing once it is erased.
RunStaysApart == part = "dry runs" => X!PaysItsOwn /\ X!ErasureIsExact

\* The months of a run that is complete add up to its summary.
MonthsAddUp == part = "dry runs" => X!MonthsAddUp
=============================================================================

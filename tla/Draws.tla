------------------------------- MODULE Draws -------------------------------
(***************************************************************************)
(* One prize draw of lottery.service.ts: tickets earned by investing, an   *)
(* operator's calls (edit, open, close, run) and the winners' claims.      *)
(* Every call reads the draw first and writes later; only the claim of a   *)
(* prize is guarded.  A purchase issues tickets inside its transaction,    *)
(* which the member's wallet serialises; opening a draw issues them to     *)
(* everybody in no transaction, ticket by ticket.                          *)
(*                                                                         *)
(* A draw's terms are its prizes and what earns a ticket.  An investment   *)
(* is a unit; a seed is the number of the opening that drew it.            *)
(***************************************************************************)
EXTENDS Integers, FiniteSetsExt, SequencesExt, Functions

CONSTANTS
  Members,
  Calls,      \* the operators' requests that may be under way at a time
  Taps,       \* the claims that may be under way at a time
  Terms,      \* [prizes : how many, threshold : units that earn a ticket]
  MaxTickets, \* maxTicketsPerMember
  Stream,     \* [seeds -> [1.. -> Nat]], what the hash of a seed and a counter yields
  Scenes      \* [together : whether operators' calls may overlap,
              \*  settled : whether a draw is run once it is closed and the
              \*            purchases under way have ended,
              \*  quiet : whether nobody buys while a draw is being opened,
              \*  edits : how many times the terms may be edited,
              \*  units : how many units may be bought]

VARIABLES
  scene,      \* the one of Scenes that is played
  draw,       \* its status, seed (0 for none), terms, and how often it was edited,
              \* which tells the rows of its prizes from deleted ones
  tickets,    \* in the order of issuedAt, each with the commitment it was issued under
  prize,      \* [positions -> winning ticket (0 for none), claimed, who was paid, how often]
  opened,     \* how many times it was opened
  invested,   \* [Members -> totalInvested]
  purchase,   \* [Members -> the one under way]
  call,       \* [Calls -> where each is]
  tap         \* [Taps -> where each is]

vars == <<scene, draw, tickets, prize, opened, invested, purchase, call, tap>>

NewPrizes(t) == [p \in 1..t.prizes |-> [winner |-> 0, claimed |-> FALSE, to |-> <<>>]]
NoPurchase == [pc |-> "idle", tickets |-> 0]
NoCall == [pc |-> "idle", drawn |-> 0, list |-> <<>>, todo |-> {}, short |-> 0]
NoTap == [pc |-> "idle", prize |-> 0, edits |-> 0, by |-> 0]

Init ==
  /\ scene \in Scenes
  /\ \E t \in Terms :
       /\ draw = [status |-> "DRAFT", seed |-> 0, terms |-> t, edits |-> 0]
       /\ prize = NewPrizes(t)
  /\ tickets = <<>> /\ opened = 0
  /\ invested = [m \in Members |-> 0]
  /\ purchase = [m \in Members |-> NoPurchase]
  /\ call = [c \in Calls |-> NoCall]
  /\ tap = [k \in Taps |-> NoTap]

-----------------------------------------------------------------------------
(* Tickets *)

Held(m) == Cardinality({i \in DOMAIN tickets : tickets[i].of = m})

\* Wrong variant: what this much would earn, whatever is held already.
ShortfallAfresh(m, units) ==
  IF draw.status = "OPEN" THEN Min({units \div draw.terms.threshold, MaxTickets}) ELSE 0

\* issueTickets: what is earned and not yet held, of a draw that is open.
Shortfall(m, units) ==
  LET earned == Min({units \div draw.terms.threshold, MaxTickets})
  IN IF draw.status = "OPEN" THEN Max({earned - Held(m), 0}) ELSE 0

Issue(m, n) == tickets \o [i \in 1..n |-> [of |-> m, under |-> [seed |-> draw.seed, terms |-> draw.terms]]]

Buying == \E m \in Members : purchase[m].pc # "idle"
Opening == \E c \in Calls : call[c].pc \in {"open", "backfill", "issue"}

\* The purchase holds the member's wallet, and has counted the tickets.
Purchase(m) ==
  /\ purchase[m].pc = "idle"
  /\ MapThenSumSet(LAMBDA n : invested[n], Members) + Quantify(Members, LAMBDA n : purchase[n].pc # "idle")
       < scene.units
  /\ scene.quiet => ~Opening
  /\ purchase' = [purchase EXCEPT ![m] = [pc |-> "buying", tickets |-> Shortfall(m, invested[m] + 1)]]
  /\ UNCHANGED <<scene, draw, tickets, prize, opened, invested, call, tap>>

PurchaseCommits(m) ==
  /\ purchase[m].pc = "buying"
  /\ invested' = [invested EXCEPT ![m] = @ + 1]
  /\ tickets' = Issue(m, purchase[m].tickets)
  /\ purchase' = [purchase EXCEPT ![m] = NoPurchase]
  /\ UNCHANGED <<scene, draw, prize, opened, call, tap>>

\* A number that is taken aborts the transaction, although issueTickets catches it.
PurchaseFails(m) ==
  /\ purchase[m].pc = "buying" /\ purchase[m].tickets > 0
  /\ purchase' = [purchase EXCEPT ![m] = NoPurchase]
  /\ UNCHANGED <<scene, draw, tickets, prize, opened, invested, call, tap>>

-----------------------------------------------------------------------------
(* Operators' calls *)

In(c, pc) == call[c].pc = pc
Move(c, pc) == call' = [call EXCEPT ![c].pc = pc]
Return(c) == call' = [call EXCEPT ![c] = NoCall]
MayStart(c) == In(c, "idle") /\ (scene.together \/ \A d \in Calls : In(d, "idle"))

StartEdit(c) ==
  /\ MayStart(c) /\ draw.edits < scene.edits /\ draw.status = "DRAFT" /\ Move(c, "edit")
  /\ UNCHANGED <<scene, draw, tickets, prize, opened, invested, purchase, tap>>

\* upsertDraw: the prizes are deleted and created anew.
Edit(c) ==
  /\ In(c, "edit") /\ Return(c)
  /\ \E t \in Terms : draw' = [draw EXCEPT !.terms = t, !.edits = @ + 1] /\ prize' = NewPrizes(t)
  /\ UNCHANGED <<scene, tickets, opened, invested, purchase, tap>>

\* Wrong variant: a draw that is open may be opened again.
StartOpenAgain(c) ==
  /\ MayStart(c) /\ opened < Len(Stream) /\ draw.status \in {"DRAFT", "OPEN"}
  /\ scene.quiet => ~Buying
  /\ Move(c, "open")
  /\ UNCHANGED <<scene, draw, tickets, prize, opened, invested, purchase, tap>>

StartOpen(c) ==
  /\ MayStart(c) /\ opened < Len(Stream) /\ draw.status = "DRAFT"
  /\ scene.quiet => ~Buying
  /\ Move(c, "open")
  /\ UNCHANGED <<scene, draw, tickets, prize, opened, invested, purchase, tap>>

\* The seed is drawn and committed to, and the members are listed who have
\* invested.
Open(c) ==
  LET all == {m \in Members : invested[m] > 0}
  IN /\ In(c, "open")
     /\ opened' = opened + 1
     /\ draw' = [draw EXCEPT !.status = "OPEN", !.seed = opened + 1]
     /\ call' = [call EXCEPT ![c] = IF all = {} THEN NoCall ELSE [NoCall EXCEPT !.pc = "backfill", !.todo = all]]
     /\ UNCHANGED <<scene, tickets, prize, invested, purchase, tap>>

NextMember(c, m) ==
  LET left == call[c].todo \ {m}
  IN IF left = {} THEN NoCall ELSE [NoCall EXCEPT !.pc = "backfill", !.todo = left]

\* issueTickets for one of them: how many are missing,
Backfill(c) ==
  /\ In(c, "backfill")
  /\ \E m \in call[c].todo :
       LET n == Shortfall(m, invested[m])
       IN call' = [call EXCEPT ![c] = IF n = 0 THEN NextMember(c, m)
                                      ELSE [NoCall EXCEPT !.pc = "issue", !.todo = call[c].todo,
                                                          !.short = n, !.list = <<m>>]]
  /\ UNCHANGED <<scene, draw, tickets, prize, opened, invested, purchase, tap>>

\* and then one by one.  A number that is taken is passed over.
IssueOne(c) ==
  LET m == call[c].list[1]
  IN /\ In(c, "issue")
     /\ tickets' \in {Issue(m, 1), tickets}
     /\ call' = [call EXCEPT ![c] = IF call[c].short = 1 THEN NextMember(c, m) ELSE [call[c] EXCEPT !.short = @ - 1]]
     /\ UNCHANGED <<scene, draw, prize, opened, invested, purchase, tap>>

StartClose(c) ==
  /\ MayStart(c) /\ draw.status = "OPEN" /\ Move(c, "close")
  /\ UNCHANGED <<scene, draw, tickets, prize, opened, invested, purchase, tap>>

Close(c) ==
  /\ In(c, "close") /\ Return(c)
  /\ draw' = [draw EXCEPT !.status = "CLOSED"]
  /\ UNCHANGED <<scene, tickets, prize, opened, invested, purchase, tap>>

\* runDraw reads the draw, its prizes and its tickets.
StartRun(c) ==
  /\ MayStart(c) /\ draw.status \in {"OPEN", "CLOSED"} /\ tickets # <<>>
  /\ scene.settled => draw.status = "CLOSED" /\ ~Buying
  /\ call' = [call EXCEPT ![c] = [NoCall EXCEPT !.pc = "run", !.drawn = draw, !.list = tickets]]
  /\ UNCHANGED <<scene, draw, tickets, prize, opened, invested, purchase, tap>>

\* The k-th number that the hash of a seed yields.  A stream of the model ends:
\* what would come after counts as 0.
Number(seed, k) == IF seed \in DOMAIN Stream /\ k \in DOMAIN Stream[seed] THEN Stream[seed][k] ELSE 0

Exchange(order, i, j) == [order EXCEPT ![i] = order[j], ![j] = order[i]]

\* shuffle: Fisher-Yates from the end, each exchange by the next of the stream.
Shuffle(n, seed) ==
  LET order[i \in 1..n] ==
        IF i = n THEN [k \in 1..n |-> k]
        ELSE Exchange(order[i + 1], i + 1, (Number(seed, n - i) % (i + 1)) + 1)
  IN IF n = 0 THEN <<>> ELSE order[1]

\* Wrong variant: the winners come from a seed drawn when the draw is run.
WinnersOfTheDay(d, list) ==
  LET order == Shuffle(Len(list), (d.seed % Len(Stream)) + 1)
  IN [p \in 1..Min({d.terms.prizes, Len(list)}) |-> order[p]]

\* The prizes in order of position, as far as the tickets go.
Winners(d, list) ==
  LET order == Shuffle(Len(list), d.seed)
  IN [p \in 1..Min({d.terms.prizes, Len(list)}) |-> order[p]]

\* One transaction.  A prize that was deleted meanwhile, or a ticket that holds
\* another prize, refuses the whole of it.
Run(c) ==
  LET won == Winners(call[c].drawn, call[c].list)
      Refused == \/ call[c].drawn.edits # draw.edits
                 \/ \E p \in DOMAIN won, q \in DOMAIN prize : q > p /\ prize[q].winner = won[p]
  IN /\ In(c, "run") /\ Return(c)
     /\ IF Refused THEN UNCHANGED <<prize, draw>>
        ELSE /\ prize' = [p \in DOMAIN prize |-> IF p \in DOMAIN won THEN [prize[p] EXCEPT !.winner = won[p]]
                                                ELSE prize[p]]
             /\ draw' = [draw EXCEPT !.status = "DRAWN"]
     /\ UNCHANGED <<scene, tickets, opened, invested, purchase, tap>>

-----------------------------------------------------------------------------
(* Claims *)

\* claimPrize reads the prize: the member's, of a draw that is drawn.
StartClaim(k, p) ==
  /\ tap[k].pc = "idle" /\ draw.status = "DRAWN" /\ prize[p].winner # 0 /\ ~prize[p].claimed
  /\ tap' = [tap EXCEPT ![k] = [pc |-> "claim", prize |-> p, edits |-> draw.edits,
                               by |-> tickets[prize[p].winner].of]]
  /\ UNCHANGED <<scene, draw, tickets, prize, opened, invested, purchase, call>>

\* Wrong variant: the update does not ask whether the prize was claimed.
ClaimUnguarded(k) ==
  LET p == tap[k].prize
  IN /\ tap[k].pc = "claim"
     /\ prize' = IF tap[k].edits # draw.edits THEN prize
                 ELSE [prize EXCEPT ![p].claimed = TRUE, ![p].to = Append(@, tap[k].by)]
     /\ tap' = [tap EXCEPT ![k] = NoTap]
     /\ UNCHANGED <<scene, draw, tickets, opened, invested, purchase, call>>

\* The guarded update, and the entry, in one transaction.
Claim(k) ==
  LET p == tap[k].prize
  IN /\ tap[k].pc = "claim"
     /\ prize' = IF tap[k].edits # draw.edits \/ prize[p].claimed THEN prize
                 ELSE [prize EXCEPT ![p].claimed = TRUE, ![p].to = Append(@, tap[k].by)]
     /\ tap' = [tap EXCEPT ![k] = NoTap]
     /\ UNCHANGED <<scene, draw, tickets, opened, invested, purchase, call>>

Next ==
  \/ \E m \in Members : Purchase(m) \/ PurchaseCommits(m) \/ PurchaseFails(m)
  \/ \E c \in Calls :
       \/ StartEdit(c) \/ Edit(c) \/ StartOpen(c) \/ Open(c) \/ Backfill(c) \/ IssueOne(c)
       \/ StartClose(c) \/ Close(c) \/ StartRun(c) \/ Run(c)
  \/ \E k \in Taps : (\E p \in DOMAIN prize : StartClaim(k, p)) \/ Claim(k)

Spec == Init /\ [][Next]_vars

-----------------------------------------------------------------------------
(* Properties *)

\* "Two taps" do not pay a prize twice, in whatever order openings, runs and
\* claims overlap; and while operators take turns each prize goes to the member
\* whose ticket won it, and no ticket wins two.
PrizePaidOnce ==
  \A p \in DOMAIN prize :
    /\ Len(prize[p].to) <= 1 /\ (prize[p].claimed <=> prize[p].to # <<>>)
    /\ ~scene.together /\ prize[p].claimed => prize[p].to = <<tickets[prize[p].winner].of>>
    /\ \A q \in DOMAIN prize \ {p} : prize[p].winner = prize[q].winner => prize[p].winner = 0

\* "The count is derived from their volume": nobody holds more tickets than
\* were earned, or than the cap that keeps one investor from owning the draw,
\* provided that nobody buys while the draw is being opened.
TicketsAreEarned ==
  scene.quiet /\ ~scene.together =>
    \A m \in Members : Held(m) <= Min({invested[m] \div draw.terms.threshold, MaxTickets})

\* "The result is verifiable": when operators take turns and a closed draw is
\* run once the purchases under way have ended, anyone who knows the tickets
\* and the seed can recompute the winners, and that seed, like the prizes, was
\* the one every ticket was issued under.
ResultIsVerifiable ==
  ~scene.together =>
    /\ \A i \in DOMAIN tickets : tickets[i].under = [seed |-> draw.seed, terms |-> draw.terms]
    /\ draw.status = "DRAWN" /\ scene.settled =>
         LET order == Shuffle(Len(tickets), draw.seed)
         IN \A p \in DOMAIN prize : prize[p].winner = IF p \in DOMAIN order THEN order[p] ELSE 0
=============================================================================

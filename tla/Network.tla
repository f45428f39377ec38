------------------------------ MODULE Network ------------------------------
(***************************************************************************)
(* The two trees members stand in and the volumes kept along them:         *)
(* findPlacement, place, addVolume and matchLegs of core/binary.ts with    *)
(* the purchase that calls them, and propagateInvestment and recalculate   *)
(* of team.service.ts.  The sponsor tree says who introduced whom and      *)
(* carries team business; the placement tree is binary and carries the     *)
(* volume of the two legs that binary bonuses are paid on.                 *)
(*                                                                         *)
(* A purchase is one transaction: what it writes is its own until it       *)
(* commits, and a row it has written waits for nobody else.  Searching a   *)
(* slot and recomputing a member's totals read in several statements.      *)
(***************************************************************************)
EXTENDS Integers, FiniteSetsExt, Functions, SequencesExt

CONSTANTS
  Members,
  None,
  Scenes          \* [sponsor : who introduced whom, None at the top,
                  \*  seats : the placements there are, a function on those who have joined,
                  \*  price : what each member's package costs,
                  \*  funds : bound on what each member invests,
                  \*  viewed : the members whose totals are recomputed,
                  \*  apart : whether one registration ends before the next begins]

VARIABLES
  scene,      \* the one of Scenes that is played
  seat,       \* [the members who have joined -> placementParentId, legPosition, placementPath]
  search,     \* [those registering -> the level that is searched, and the slot found]
  invested,   \* [Members -> totalInvested]
  purchase,   \* [Members -> where the member's purchase is, and the rows it has written]
  legs,       \* [Members -> the binary_legs row]
  volumes,    \* [Members -> the team_volumes row]
  recount,    \* [those being recomputed -> what has been read]
  stale       \* members whose row a purchase overtook while it was recomputed

vars == <<scene, seat, search, invested, purchase, legs, volumes, recount, stale>>
tree == <<seat, search>>
binary == <<purchase, legs>>
team == <<volumes, recount, stale>>

Legs == {"left", "right"}
Unplaced == [parent |-> None, leg |-> None, path |-> <<>>]
NoLegs == [volume |-> [l \in Legs |-> 0], total |-> [l \in Legs |-> 0], matched |-> 0]
NoVolumes == [total |-> 0, power |-> 0, others |-> 0, direct |-> 0]
NoPurchase == [pc |-> "none", todo |-> <<>>, mine |-> <<>>]

Joined == DOMAIN seat
SponsorsOf[m \in Members] ==
  LET s == scene.sponsor[m] IN IF s = None THEN {} ELSE {s} \union SponsorsOf[s]
Under(m) == {d \in Joined : scene.sponsor[d] = m}
Downline(m) == {d \in Joined : m \in SponsorsOf[d]}
Invested(S) == SumFunctionOnSet(invested, S)
\* f with y at x, where it may have had nothing.
Put(f, x, y) == [z \in DOMAIN f \union {x} |-> IF z = x THEN y ELSE f[z]]

Init ==
  /\ scene \in Scenes
  /\ seat = scene.seats
  /\ search = <<>> /\ recount = <<>>
  /\ invested = [m \in Members |-> 0]
  /\ purchase = [m \in Members |-> NoPurchase]
  /\ legs = [m \in Members |-> NoLegs]
  /\ volumes = [m \in Members |-> NoVolumes]
  /\ stale = {}

-----------------------------------------------------------------------------
(* Registration *)

Register(m) ==
  /\ m \notin Joined \union DOMAIN search /\ scene.sponsor[m] \in Joined
  /\ scene.apart => search = <<>>
  /\ search' = Put(search, m, [level |-> {scene.sponsor[m]}, slot |-> Unplaced])
  /\ UNCHANGED <<scene, seat, invested, binary, team>>

Children(S) == {c \in Joined : seat[c].parent \in S}

\* Wrong variant: a member with one child is offered again from the left.
FreeByCount(n) == IF Cardinality(Children({n})) < 2 THEN Legs ELSE {}

Free(n) == Legs \ {seat[c].leg : c \in Children({n})}

\* The first free slot of a level.  Members in a left leg come before those in
\* a right one, and otherwise in whatever order the rows are read.
FirstFree(level) ==
  LET open  == {n \in level : Free(n) # {}}
      first == {n \in open : seat[n].leg = "left"}
  IN {[parent |-> n, leg |-> IF "left" \in Free(n) THEN "left" ELSE "right",
       path |-> Append(seat[n].path, n)] : n \in IF first # {} THEN first ELSE open}

\* One level: a free slot, or the level below.  Nothing holds the slot.
FindPlacement(m) ==
  /\ m \in DOMAIN search /\ search[m].slot = Unplaced
  /\ LET free == FirstFree(search[m].level)
     IN \/ \E slot \in free : search' = [search EXCEPT ![m].slot = slot]
        \/ /\ free = {}
           /\ search' = [search EXCEPT ![m].level = Children(@)]
  /\ UNCHANGED <<scene, seat, invested, binary, team>>

\* place, and the commit of the registration.
Place(m) ==
  /\ m \in DOMAIN search /\ search[m].slot # Unplaced
  /\ seat' = Put(seat, m, search[m].slot)
  /\ search' = Restrict(search, DOMAIN search \ {m})
  /\ UNCHANGED <<scene, invested, binary, team>>

-----------------------------------------------------------------------------
(* Purchases *)

Upward(b) == Reverse(seat[b].path)
Goto(b, pc, todo, mine) == purchase' = [purchase EXCEPT ![b] = [pc |-> pc, todo |-> todo, mine |-> mine]]
At(b, pc) == purchase[b].pc = pc /\ purchase[b].todo # <<>>

Begin(b) ==
  /\ b \in Joined /\ purchase[b] = NoPurchase
  /\ invested[b] + scene.price[b] <= scene.funds[b]
  /\ Goto(b, "adding", Upward(b), <<>>)
  /\ UNCHANGED <<scene, tree, invested, legs, team>>

\* A row as the purchase of b sees it: as it wrote it, or as it was committed.
Seen(b, a) == IF a \in DOMAIN purchase[b].mine THEN purchase[b].mine[a] ELSE legs[a]
Locked(b, a) == \E c \in Members \ {b} : a \in DOMAIN purchase[c].mine

\* The leg of the nearest ancestor left to do that the buyer is in: that of
\* the child the path goes through.
LegTowards(b) == LET n == Len(purchase[b].todo) IN seat[Append(seat[b].path, b)[n + 1]].leg

Added(row, leg, amount) ==
  [row EXCEPT !.volume[leg] = @ + amount, !.total[leg] = @ + amount]

\* Wrong variant: the row is read and written back, not incremented, and
\* another purchase that holds it is not waited for.
AddVolumeReadFirst(b) ==
  LET a == Head(purchase[b].todo)
  IN /\ At(b, "adding")
     /\ Goto(b, "adding", Tail(purchase[b].todo),
             Put(purchase[b].mine, a, Added(Seen(b, a), LegTowards(b), scene.price[b])))
     /\ UNCHANGED <<scene, tree, invested, legs, team>>

AddVolume(b) ==
  LET a == Head(purchase[b].todo)
  IN /\ At(b, "adding") /\ ~Locked(b, a)
     /\ Goto(b, "adding", Tail(purchase[b].todo),
             Put(purchase[b].mine, a, Added(Seen(b, a), LegTowards(b), scene.price[b])))
     /\ UNCHANGED <<scene, tree, invested, legs, team>>

\* payBinaryBonus goes up a second time, when all volume has been added.
StartMatching(b) ==
  /\ purchase[b].pc = "adding" /\ purchase[b].todo = <<>>
  /\ Goto(b, "matching", Upward(b), purchase[b].mine)
  /\ UNCHANGED <<scene, tree, invested, legs, team>>

\* matchLegs: what pairs off is paid on, and the rest carried over.
MatchLegs(b) ==
  LET a == Head(purchase[b].todo)
      row == Seen(b, a)
      pair == Min({row.volume[l] : l \in Legs})
      left == [row EXCEPT !.volume = [l \in Legs |-> @[l] - pair], !.matched = @ + pair]
  IN /\ At(b, "matching")
     /\ Goto(b, "matching", Tail(purchase[b].todo),
             IF pair = 0 THEN purchase[b].mine ELSE Put(purchase[b].mine, a, left))
     /\ UNCHANGED <<scene, tree, invested, legs, team>>

\* The rows are everybody's, with the business of all sponsors above: the
\* increments of propagateInvestment cannot be told from ones made here.
Commit(b) ==
  LET up == SponsorsOf[b]
      amount == scene.price[b]
  IN /\ purchase[b].pc = "matching" /\ purchase[b].todo = <<>>
     /\ invested' = [invested EXCEPT ![b] = @ + amount]
     /\ legs' = [a \in Members |-> Seen(b, a)]
     /\ volumes' = [m \in Members |->
          [volumes[m] EXCEPT !.total = IF m \in up THEN @ + amount ELSE @,
                             !.direct = IF m = scene.sponsor[b] THEN @ + amount ELSE @]]
     /\ recount' = [m \in DOMAIN recount |-> [recount[m] EXCEPT !.overtaken = @ \/ m \in up]]
     /\ purchase' = [purchase EXCEPT ![b] = NoPurchase]
     /\ UNCHANGED <<scene, tree, stale>>

Fail(b) ==
  /\ purchase[b].mine # <<>>
  /\ purchase' = [purchase EXCEPT ![b] = NoPurchase]
  /\ UNCHANGED <<scene, tree, invested, legs, team>>

-----------------------------------------------------------------------------
(* Recomputing a member's totals *)

\* Wrong variant: what the directs invested themselves is left out.
StartRecountDownlines(m) ==
  /\ m \in scene.viewed \intersect Joined /\ m \notin DOMAIN recount
  /\ recount' = Put(recount, m,
       [todo |-> Under(m), leg |-> [d \in Under(m) |-> 0], direct |-> None, overtaken |-> FALSE])
  /\ UNCHANGED <<scene, tree, invested, binary, volumes, stale>>

\* legVolumes: the directs, with what each invested,
StartRecount(m) ==
  /\ m \in scene.viewed \intersect Joined /\ m \notin DOMAIN recount
  /\ recount' = Put(recount, m,
       [todo |-> Under(m), leg |-> [d \in Under(m) |-> invested[d]],
        direct |-> None, overtaken |-> FALSE])
  /\ UNCHANGED <<scene, tree, invested, binary, volumes, stale>>

\* and then, one direct after the other, all below.
SumLeg(m, d) ==
  /\ m \in DOMAIN recount /\ d \in recount[m].todo
  /\ recount' = [recount EXCEPT ![m].todo = @ \ {d}, ![m].leg[d] = @ + Invested(Downline(d))]
  /\ UNCHANGED <<scene, tree, invested, binary, volumes, stale>>

SumDirects(m) ==
  /\ m \in DOMAIN recount /\ recount[m].todo = {} /\ recount[m].direct = None
  /\ recount' = [recount EXCEPT ![m].direct = Invested(Under(m))]
  /\ UNCHANGED <<scene, tree, invested, binary, volumes, stale>>

Saved(m, row) ==
  /\ m \in DOMAIN recount /\ recount[m].direct # None
  /\ volumes' = [volumes EXCEPT ![m] = row]
  /\ stale' = IF recount[m].overtaken THEN stale \union {m} ELSE stale \ {m}
  /\ recount' = Restrict(recount, DOMAIN recount \ {m})
  /\ UNCHANGED <<scene, tree, invested, binary>>

Total(m) == SumFunction(recount[m].leg)
Power(m) == Max(Range(recount[m].leg) \union {0})

\* Wrong variant: the row's running total, less the strongest leg.
SaveRunning(m) ==
  Saved(m, [total |-> Total(m), power |-> Power(m), others |-> volumes[m].total - Power(m),
            direct |-> recount[m].direct])

Save(m) ==
  Saved(m, [total |-> Total(m), power |-> Power(m), others |-> Total(m) - Power(m),
            direct |-> recount[m].direct])

-----------------------------------------------------------------------------

Next ==
  \E m \in Members :
    \/ Register(m) \/ FindPlacement(m) \/ Place(m)
    \/ Begin(m) \/ AddVolume(m) \/ StartMatching(m) \/ MatchLegs(m) \/ Commit(m) \/ Fail(m)
    \/ StartRecount(m) \/ SumDirects(m) \/ Save(m)
    \/ \E d \in Members : SumLeg(m, d)

Spec == Init /\ [][Next]_vars

-----------------------------------------------------------------------------
(* Properties *)

\* While registrations follow one another, no two members stand in one leg of
\* a third, although a slot is looked for and taken in steps of their own.
OneChildPerLeg ==
  scene.apart => \A c, d \in Joined :
    c # d /\ seat[c].parent # None => <<seat[c].parent, seat[c].leg>> # <<seat[d].parent, seat[d].leg>>

\* The members below a in one of its legs.
InLeg(a, l) ==
  {m \in Joined : \E c \in Joined : /\ seat[c].parent = a /\ seat[c].leg = l
                                    /\ m = c \/ c \in ToSet(seat[m].path)}

\* However purchases below a member interleave, and although each leg is
\* read and then overwritten when it is matched: whatever was invested in a
\* leg is in its total, has been matched once or is carried over, and nothing that
\* pairs off is left.
EveryVolumeIsCounted ==
  \A a \in Members, l \in Legs :
    /\ legs[a].total[l] = Invested(InLeg(a, l))
    /\ legs[a].volume[l] = legs[a].total[l] - legs[a].matched
    /\ \E k \in Legs : legs[a].volume[k] = 0

\* The increments of purchases and the sums of recalculate come to the same
\* totals, unless a purchase overtook the recalculation.
TotalsAgree ==
  \A m \in Joined \ stale :
    volumes[m].total = Invested(Downline(m)) /\ volumes[m].direct = Invested(Under(m))

\* The volumes that ranks are granted on are read one leg after the other and
\* may be old, but never more than the member has.
BusinessIsReal ==
  \A m \in Joined :
    LET real  == [d \in Under(m) |-> Invested(Downline(d) \union {d})]
        power == Max(Range(real) \union {0})
    IN /\ volumes[m].total <= SumFunction(real) /\ volumes[m].direct <= Invested(Under(m))
       /\ volumes[m].power <= power /\ volumes[m].others <= SumFunction(real) - power
=============================================================================

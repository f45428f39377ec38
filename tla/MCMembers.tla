------------------------------ MODULE MCMembers ------------------------------
(* What members do at once, side by side.                                      *)
(*   keys:     three attempts under one idempotency key, one of them with      *)
(*             another body, and one more request under a key of its own.      *)
(*   sessions: a phone, and a laptop with two tabs.                            *)
(*   codes:    one-time codes asked for and guessed at once.                   *)
(*   network:  a root whose members register one after the other, or at once,  *)
(*             and buy as they come; or an established tree, in which 4 was    *)
(*             sponsored by the root and placed below 2, under purchases and   *)
(*             recalculations.                                                 *)
(*   locks:    purchases and accruals that lock the rows of an upline, in a    *)
(*             tree in which one of those sponsored by 2 stands under another  *)
(*             of them.                                                        *)
(* They share no state, so a behaviour plays one of them and leaves the others *)
(* be.                                                                         *)
EXTENDS Idempotency, Sequences, TLC

CONSTANTS k1, k2, r1, r2, r3, r4, t1, t2, t3, phone, laptop,
          SessionScenes, Tabs, DeviceOf, Askers, Guessers, MaxAttempts, MaxPerWindow,
          Members, TreeScenes, LockMembers, Sponsor, Placement, Structures, DirectLevels,
          Buyers, Earners, Runs

\* A member has finitely many tabs and guesses finitely often at once, and a
\* code may be guessed at.
ASSUME MembersAssumption ==
  /\ IsFiniteSet(Tabs) /\ IsFiniteSet(Guessers) /\ MaxAttempts \in Nat \ {0}

\* A placementPath names those above, from the root down, each of them in a leg
\* of the one before.
IsLine(seats, c) ==
  LET line == Append(seats[c].path, c)
  IN /\ seats[c].path \in Seq(DOMAIN seats)
     /\ \A i \in 1..Len(line) :
          /\ Len(seats[line[i]].path) = i - 1
          /\ seats[line[i]].parent = IF i = 1 THEN None ELSE line[i - 1]
          /\ i > 1 => seats[line[i]].leg \in {"left", "right"}

\* In the placements there are, no two members stand in one leg of a third.
\* Who is sponsored was sponsored by somebody who was there before.
ASSUME TreesAssumption ==
  /\ None \notin Members /\ IsFiniteSet(Members)
  /\ \A s \in TreeScenes :
       /\ DOMAIN s.seats \subseteq Members /\ s.price \in [Members -> Nat]
       /\ s.sponsor \in [Members -> Members \union {None}]
       /\ \A Q \in SUBSET Members : Q # {} => \E m \in Q : s.sponsor[m] \notin Q
       /\ \A c \in DOMAIN s.seats : IsLine(s.seats, c) /\ s.sponsor[c] \in DOMAIN s.seats \union {None}
       /\ \A c, d \in DOMAIN s.seats :
            c # d /\ s.seats[c].parent # None =>
              <<s.seats[c].parent, s.seats[c].leg>> # <<s.seats[d].parent, s.seats[d].leg>>

VARIABLES
  part,      \* which of them is played
  sessionScene, row, store, tab, sweep, expired, over, missed, signedIn, unlucky,
  overlap, challenge, cooling, asker, guesser, compared, accepted,
  tree, seat, search, invested, purchase, legs, volumes, recount, stale,
  structure, todo, held

S == INSTANCE Sessions WITH Scenes <- SessionScenes, scene <- sessionScene
O == INSTANCE OneTimeCodes
N == INSTANCE Network WITH Scenes <- TreeScenes, scene <- tree
P == INSTANCE PayoutLocks WITH Members <- LockMembers

\* Nobody is above themselves.
Rooted(above) ==
  /\ above \in [LockMembers -> LockMembers \union {0}]
  /\ \A Q \in SUBSET LockMembers : Q # {} => \E m \in Q : above[m] \notin Q

\* findPlacement starts at the sponsor: who was placed stands below theirs.
ASSUME LocksAssumption ==
  /\ LockMembers \subseteq Nat \ {0} /\ IsFiniteSet(LockMembers)
  /\ Buyers \union Earners \subseteq LockMembers /\ DirectLevels \in Nat
  /\ Rooted(Sponsor) /\ Rooted(Placement)
  /\ \A m \in LockMembers : Placement[m] # 0 =>
       LET up == P!PlacementUpline[m]
       IN Sponsor[m] # 0 /\ \E i \in DOMAIN up : up[i] = Sponsor[m]

sessions == <<sessionScene, row, store, tab, sweep, expired, over, missed, signedIn, unlucky>>
codes == <<overlap, challenge, cooling, asker, guesser, compared, accepted>>
network == <<tree, seat, search, invested, purchase, legs, volumes, recount, stale>>
locks == <<structure, todo, held>>

Committing == [handlers |-> FALSE, inserts |-> FALSE]
Failing == [handlers |-> TRUE, inserts |-> TRUE]
MCScenes == {Committing, Failing}

Played(created, loses, ends, expires, leaves) ==
  [sessions |-> created, loses |-> loses, ends |-> ends, expires |-> expires, leaves |-> leaves]
Lossy == Played(5, {laptop}, FALSE, FALSE, FALSE)
Ended == Played(4, {}, TRUE, FALSE, FALSE)
Leaving == Played(4, {}, FALSE, TRUE, TRUE)
MCSessionScenes == {Lossy, Ended, Leaving}

\* The root and 2 have joined; 3 and 4 come through the root, 5 through 2.
Introduced == [m \in 1..5 |-> CASE m = 1 -> None [] m = 5 -> 2 [] OTHER -> 1]
Root == 1 :> [parent |-> None, leg |-> None, path |-> <<>>]
Pair == Root @@ (2 :> [parent |-> 1, leg |-> "left", path |-> <<1>>])
Settled == Pair @@ (3 :> [parent |-> 1, leg |-> "right", path |-> <<1>>])
                @@ (4 :> [parent |-> 2, leg |-> "left", path |-> <<1, 2>>])
                @@ (5 :> [parent |-> 2, leg |-> "right", path |-> <<1, 2>>])
Funds(few) == [m \in 1..5 |-> IF m \in DOMAIN few THEN few[m] ELSE 0]

InTurn == [sponsor |-> Introduced, seats |-> Root, price |-> [m \in 1..5 |-> 1],
           funds |-> Funds(3 :> 1), viewed |-> {}, apart |-> TRUE]
AtOnce == [sponsor |-> Introduced, seats |-> Pair, price |-> [m \in 1..5 |-> 1],
           funds |-> Funds((3 :> 1) @@ (4 :> 1)), viewed |-> {}, apart |-> FALSE]
Trading == [sponsor |-> Introduced, seats |-> Settled, price |-> <<1, 1, 3, 2, 1>>,
            funds |-> Funds((3 :> 3) @@ (4 :> 4) @@ (5 :> 1)), viewed |-> {1}, apart |-> TRUE]
MCTreeScenes == {InTurn, AtOnce, Trading}

\* The state of what is not played.
Blank == "blank"
NoSessions ==
  /\ sessionScene = Blank /\ row = Blank /\ store = Blank /\ tab = Blank /\ sweep = Blank
  /\ expired = Blank /\ over = Blank /\ missed = Blank /\ signedIn = Blank
  /\ unlucky = Blank
NoCodes ==
  /\ overlap = Blank /\ challenge = Blank /\ cooling = Blank /\ asker = Blank
  /\ guesser = Blank /\ compared = Blank /\ accepted = Blank
NoNetwork ==
  /\ tree = Blank /\ seat = Blank /\ search = Blank /\ invested = Blank /\ purchase = Blank
  /\ legs = Blank /\ volumes = Blank /\ recount = Blank /\ stale = Blank
NoLocks ==
  /\ structure = Blank /\ todo = Blank /\ held = Blank

MCInit ==
  /\ Init
  /\ \/ part = "keys" /\ NoSessions /\ NoCodes /\ NoNetwork /\ NoLocks
     \/ /\ scene = Committing
        /\ \/ part = "sessions" /\ S!Init /\ NoCodes /\ NoNetwork /\ NoLocks
           \/ part = "codes" /\ O!Init /\ NoSessions /\ NoNetwork /\ NoLocks
           \/ part = "network" /\ N!Init /\ NoSessions /\ NoCodes /\ NoLocks
           \/ part = "locks" /\ P!Init /\ NoSessions /\ NoCodes /\ NoNetwork

MCNext ==
  \/ part = "keys" /\ Next /\ UNCHANGED <<part, sessions, codes, network, locks>>
  \/ part = "sessions" /\ S!Next /\ UNCHANGED <<part, vars, codes, network, locks>>
  \/ part = "codes" /\ O!Next /\ UNCHANGED <<part, vars, sessions, network, locks>>
  \/ part = "network" /\ N!Next /\ UNCHANGED <<part, vars, sessions, codes, locks>>
  \/ part = "locks" /\ P!Next /\ UNCHANGED <<part, vars, sessions, codes, network>>

MCSpec == MCInit /\ [][MCNext]_<<part, vars, sessions, codes, network, locks>>

MixedKeys == (r1 :> k1) @@ (r2 :> k1) @@ (r3 :> k1) @@ (r4 :> k2)
MixedIntents == (r1 :> "invest") @@ (r2 :> "invest") @@ (r3 :> "withdraw") @@ (r4 :> "invest")
MCDevice == (t1 :> phone) @@ (t2 :> laptop) @@ (t3 :> laptop)

\* The tabs of the laptop are alike.
MCSymmetry == Permutations({t2, t3})

\* 3 is the root and sponsored 2 and 6; 2 sponsored 1, 4 and 5.
TreeSponsor == (1 :> 2) @@ (2 :> 3) @@ (3 :> 0) @@ (4 :> 2) @@ (5 :> 2) @@ (6 :> 3)
\* Both legs of 2 were taken when 4 came.
TreePlacement == (1 :> 2) @@ (2 :> 3) @@ (3 :> 0) @@ (4 :> 1) @@ (5 :> 2) @@ (6 :> 3)

\* Refreshes race, repeat and get lost: a family has one live session, and none
\* once it was ended from elsewhere.
OneSessionUntilEnded == part = "sessions" => S!OneLivePerFamily /\ S!EndedStaysEnded

\* A device with one tab and a working network stays signed in until it is ended.
SignedInUntilEnded == part = "sessions" => S!SignedInUntilEnded

\* One live code, accepted once, after few wrong ones.
OneCodeFewGuesses == part = "codes" => O!OneCodeFewGuesses

\* No two members stand in one leg of a third.
OneChildPerLeg == part = "network" => N!OneChildPerLeg

\* Whatever was invested in a leg was matched once, or is carried over.
EveryVolumeIsCounted == part = "network" => N!EveryVolumeIsCounted

\* What ranks are granted on is what was invested, or less while it is old.
VolumesAreReal == part = "network" => N!TotalsAgree /\ N!BusinessIsReal

\* Purchases and accruals never wait for each other in a circle.
NoCircularWait == part = "locks" => P!NoCircularWait
=============================================================================

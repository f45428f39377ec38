------------------------- MODULE ChainPayoutsProofs -------------------------
(***************************************************************************)
(* What the chain worker promises, for any payouts, in two circumstances.  *)
(* Where no transaction reverts, however many runs overlap, die or time    *)
(* out; and where transactions revert and one run follows the other to its *)
(* end.  In both the network may drop transactions, and no answer of the   *)
(* node is lost.                                                           *)
(*                                                                         *)
(* The claim makes a payout the business of one run, and nothing that      *)
(* still stands was sent for a payout a run may claim.  Where nothing      *)
(* reverts, a payout with a hash never becomes claimable again.  Where     *)
(* something does, it does by the receipt of its last transaction.         *)
(***************************************************************************)
EXTENDS ChainPayouts, FiniteSetTheorems, WellFoundedInduction, TLAPS

Reverting == "revert" \in scene.faults
Undisturbed ==
  /\ "lost" \notin scene.faults
  /\ Reverting => "crash" \notin scene.faults /\ \A r, s \in scene.runs : r = s

Sends(r) == run[r].pc \in {"sending", "sent", "waiting", "failing"}
PaysFor(hash, p) == hash \in DOMAIN sent /\ sent[hash].for = p
Mined(hash, p) == PaysFor(hash, p) /\ sent[hash].state = "mined"
Stands(hash, p) == PaysFor(hash, p) /\ sent[hash].state # "reverted"

\* Nothing was sent for p, or all of it reverted.
Unpaid(p) == \A hash \in DOMAIN sent : ~Stands(hash, p)

RevertsAreFaults == \A hash \in DOMAIN sent : sent[hash].state = "reverted" => Reverting

OneTransaction == \A p \in Payouts : \A hash, other \in DOMAIN sent : Stands(hash, p) /\ Stands(other, p) => hash = other

\* A payout that is not on its way has no transaction and no run at work on it.
ClaimableIsUnpaid ==
  \A p \in Payouts : status[p] \notin {"BROADCAST", "CONFIRMED"} =>
    Unpaid(p) /\ \A r \in Runs : Sends(r) => run[r].payout # p

OneSender == \A r, s \in Runs : Sends(r) /\ Sends(s) /\ run[r].payout = run[s].payout => r = s

\* What a run at work on a payout may rely on.
Knows(r) ==
  LET p == run[r].payout
  IN /\ Sends(r) => p \in Payouts
     /\ run[r].pc = "sending" => Unpaid(p)
     /\ run[r].pc \in {"sent", "waiting"} =>
          PaysFor(run[r].hash, p) /\ \A hash \in DOMAIN sent : Stands(hash, p) => hash = run[r].hash
     /\ run[r].pc = "waiting" => txHash[p] # 0
     /\ run[r].pc = "failing" => txHash[p] # 0 \/ Unpaid(p)
SenderKnows == \A r \in Runs : Knows(r)

\* A hash, wherever it is kept, is that of its payout's transaction.
HashesAgree ==
  /\ \A p \in Payouts : txHash[p] # 0 => PaysFor(txHash[p], p)
  /\ \A p \in Payouts : status[p] = "CONFIRMED" => txHash[p] # 0 /\ Mined(txHash[p], p)
  /\ \A p \in Payouts : shown[p] # 0 => Mined(shown[p], p)
  /\ \A r \in Runs : \A seen \in run[r].inFlight : PaysFor(seen[2], seen[1])
  /\ \A r \in Runs : run[r].pc \in {"reconcile", "loop"} /\ run[r].payout # 0 =>
       Mined(run[r].hash, run[r].payout)

\* Runs that are not of the scene do nothing.
OthersAreIdle == \A r \in Runs \ scene.runs : run[r] = IdleRun

\* Where transactions revert, what the run saw in flight is still so, ...
SeenIsCurrent ==
  Reverting => \A r \in Runs : \A seen \in run[r].inFlight :
    run[r].pc = "reconcile" /\ status[seen[1]] = "BROADCAST" /\ txHash[seen[1]] = seen[2]

\* ... and the hash of a payout is that of its last transaction, once stored.
HashIsLast ==
  Reverting => \A p \in Payouts : \A hash \in DOMAIN sent :
    Stands(hash, p) => hash = txHash[p] \/ \E r \in Runs : run[r].pc = "sent" /\ run[r].payout = p

IInv ==
  /\ TypeOK /\ Undisturbed /\ RevertsAreFaults /\ OneTransaction /\ ClaimableIsUnpaid
  /\ OneSender /\ SenderKnows /\ HashesAgree /\ OthersAreIdle /\ SeenIsCurrent /\ HashIsLast

Transactions == [for : Payouts, state : {"pending", "mined", "reverted", "dropped"}]

-----------------------------------------------------------------------------
\* There is an oldest among payouts.
LEMMA MinOfPayouts ==
  ASSUME NEW S, S \subseteq Payouts, S # {}
  PROVE  Min(S) \in S
<1>1. S \subseteq Nat
  BY PayoutsAssumption
<1>2. IsWellFoundedOn(OpToRel(<, Nat), Nat)
  BY NatLessThanWellFounded
<1>3. PICK x \in S : \A y \in S : <<y, x>> \notin OpToRel(<, Nat)
  BY <1>1, <1>2, WFMin
<1>4. \A y \in S : ~(y < x)
  BY <1>1, <1>3 DEF OpToRel
<1>5. \A y \in S : x =< y
  BY <1>1, <1>4
<1> QED
  BY <1>5 DEF Min

\* What sending one more transaction changes.
LEMMA Appended ==
  ASSUME NEW s \in Seq(Transactions), NEW t
  PROVE  /\ DOMAIN s = 1..Len(s) /\ Len(s) \in Nat
         /\ Len(Append(s, t)) = Len(s) + 1
         /\ DOMAIN Append(s, t) = DOMAIN s \union {Len(s) + 1}
         /\ \A hash \in DOMAIN s : Append(s, t)[hash] = s[hash]
         /\ Append(s, t)[Len(s) + 1] = t
  OBVIOUS

\* What a step that sends nothing leaves as it is.
LEMMA ChainKept ==
  ASSUME IInv, UNCHANGED <<scene, sent>>
  PROVE  /\ Undisturbed' /\ RevertsAreFaults' /\ OneTransaction' /\ (Reverting' <=> Reverting)
         /\ \A hash, p : /\ PaysFor(hash, p)' <=> PaysFor(hash, p)
                         /\ Mined(hash, p)' <=> Mined(hash, p)
                         /\ Stands(hash, p)' <=> Stands(hash, p)
         /\ \A p : Unpaid(p)' <=> Unpaid(p)
<1>1. /\ Undisturbed' /\ RevertsAreFaults' /\ (Reverting' <=> Reverting)
      /\ \A hash, p : /\ PaysFor(hash, p)' <=> PaysFor(hash, p)
                      /\ Mined(hash, p)' <=> Mined(hash, p)
                      /\ Stands(hash, p)' <=> Stands(hash, p)
      /\ \A p : Unpaid(p)' <=> Unpaid(p)
  BY DEF IInv, Undisturbed, RevertsAreFaults, Reverting, PaysFor, Mined, Stands, Unpaid
<1>2. OneTransaction'
  BY <1>1 DEF IInv, OneTransaction
<1> QED
  BY <1>1, <1>2

\* What a run knows of its payout, as long as others leave its hash in place.
LEMMA StillKnows ==
  ASSUME IInv, UNCHANGED <<scene, sent>>, NEW q \in Runs, run'[q] = run[q],
         \A p \in Payouts : txHash[p] # 0 => txHash'[p] # 0
  PROVE  Knows(q)'
<1>1. Knows(q) /\ (run[q].pc = "waiting" => run[q].payout \in Payouts)
              /\ (run[q].pc = "failing" => run[q].payout \in Payouts)
  BY DEF IInv, SenderKnows, Knows, Sends
<1> QED
  BY <1>1, ChainKept DEF Knows, Sends

\* Where transactions revert, there is one run.
LEMMA Alone ==
  ASSUME IInv, Reverting, NEW r \in Runs, r \in scene.runs
  PROVE  \A q \in Runs : q # r => run[q].pc = "idle" /\ ~Sends(q) /\ run[q].inFlight = {}
<1>1. \A q \in Runs : q # r => q \notin scene.runs
  BY DEF IInv, Undisturbed
<1> QED
  BY <1>1 DEF IInv, OthersAreIdle, IdleRun, Sends

\* When it has read the queue, it has nothing left of what it saw in flight.
LEMMA NothingSeen ==
  ASSUME IInv, Reverting, NEW r \in Runs, r \in scene.runs, run[r].pc # "reconcile"
  PROVE  \A q \in Runs : run[q].inFlight = {}
BY Alone DEF IInv, SeenIsCurrent

\* The invariant, step by step.
LEMMA InitInvariant == Init /\ Undisturbed => IInv
<1> SUFFICES ASSUME Init, Undisturbed PROVE IInv
  OBVIOUS
<1> USE DEF Init
<1>1. TypeOK
  BY DEF TypeOK, Statuses, RunState, IdleRun
<1>2. RevertsAreFaults /\ OneTransaction /\ HashIsLast /\ SeenIsCurrent
  BY DEF RevertsAreFaults, OneTransaction, HashIsLast, SeenIsCurrent, IdleRun
<1>3. ClaimableIsUnpaid /\ OneSender /\ OthersAreIdle
  BY DEF ClaimableIsUnpaid, OneSender, OthersAreIdle, Unpaid, Sends, IdleRun
<1>4. SenderKnows /\ HashesAgree
  BY DEF SenderKnows, Knows, HashesAgree, Sends, IdleRun
<1> QED
  BY <1>1, <1>2, <1>3, <1>4 DEF IInv

\* A row that is new has no transaction.
LEMMA EnqueueInvariant ==
  ASSUME IInv, NEW p \in Payouts, Enqueue(p)
  PROVE  IInv'
<1>1. /\ status[p] = "none" /\ status' = [status EXCEPT ![p] = "QUEUED"]
      /\ UNCHANGED <<scene, txHash, attempts, shown, sent, run>>
  BY DEF Enqueue
<1>2. TypeOK'
  BY <1>1 DEF IInv, TypeOK, Statuses
<1>3. \A q \in Payouts : status'[q] = status[q] \/ (q = p /\ status'[q] = "QUEUED")
  BY <1>1 DEF IInv, TypeOK
<1>4. SenderKnows' /\ OneSender' /\ OthersAreIdle'
  BY <1>1, StillKnows DEF IInv, SenderKnows, OneSender, OthersAreIdle, Sends
<1>5. ClaimableIsUnpaid'
  BY <1>1, <1>3, ChainKept DEF IInv, ClaimableIsUnpaid, Sends
<1>6. HashesAgree'
  BY <1>1, <1>3, ChainKept DEF IInv, HashesAgree
<1>7. SeenIsCurrent'
  <2>1. \A q \in Payouts : status[q] = "BROADCAST" => status'[q] = "BROADCAST"
    BY <1>1, <1>3
  <2>2. \A r \in Runs : \A seen \in run[r].inFlight : seen[1] \in Payouts
    BY DEF IInv, TypeOK, RunState
  <2> QED
    BY <1>1, <2>1, <2>2, ChainKept DEF IInv, SeenIsCurrent
<1>8. HashIsLast'
  BY <1>1, ChainKept DEF IInv, HashIsLast
<1> QED
  BY <1>1, <1>2, <1>4, <1>5, <1>6, <1>7, <1>8, ChainKept DEF IInv

\* Of a step that moves one run and writes nothing, what there is to show.
LEMMA RunMoves ==
  ASSUME IInv, NEW r \in Runs, r \in scene.runs,
         NEW new \in RunState, run' = [run EXCEPT ![r] = new],
         UNCHANGED <<scene, status, txHash, attempts, shown, sent>>,
         new.hash \in 0..Len(sent),
         new.pc \in {"idle", "reconcile", "loop", "failing"},
         new.pc = "failing" =>
           /\ Sends(r) /\ new.payout = run[r].payout
           /\ txHash[new.payout] # 0 \/ Unpaid(new.payout),
         \A seen \in new.inFlight : PaysFor(seen[2], seen[1]),
         new.pc \in {"reconcile", "loop"} /\ new.payout # 0 => Mined(new.hash, new.payout),
         Reverting => run[r].pc # "sent",
         Reverting => \A seen \in new.inFlight :
           new.pc = "reconcile" /\ status[seen[1]] = "BROADCAST" /\ txHash[seen[1]] = seen[2]
  PROVE  IInv'
<1>1. run'[r] = new /\ \A q \in Runs : q # r => run'[q] = run[q]
  BY DEF IInv, TypeOK
<1>2. TypeOK'
  <2>1. run' \in [Runs -> RunState]
    BY DEF IInv, TypeOK
  <2>2. \A q \in Runs : run'[q].hash \in 0..Len(sent')
    BY <1>1 DEF IInv, TypeOK
  <2> QED
    BY <2>1, <2>2 DEF IInv, TypeOK
<1>3. \A q \in Runs : Sends(q)' => Sends(q) /\ run'[q].payout = run[q].payout
  BY <1>1 DEF Sends
<1>4. ClaimableIsUnpaid' /\ OneSender'
  BY <1>3, ChainKept DEF IInv, ClaimableIsUnpaid, OneSender
<1>5. SenderKnows'
  <2> SUFFICES ASSUME NEW q \in Runs PROVE Knows(q)'
    BY DEF SenderKnows
  <2>1. CASE q = r
    <3>1. Sends(r)' => run'[r].pc = "failing" /\ run'[r].payout \in Payouts
      BY <1>1, <1>3 DEF IInv, SenderKnows, Knows, Sends
    <3> QED
      BY <1>1, <2>1, <3>1, ChainKept DEF Knows
  <2>2. CASE q # r
    BY <1>1, <2>2, StillKnows
  <2> QED
    BY <2>1, <2>2
<1>6. HashesAgree'
  <2>1. \A q \in Runs : \A seen \in run'[q].inFlight : PaysFor(seen[2], seen[1])
    BY <1>1 DEF IInv, HashesAgree
  <2>2. \A q \in Runs : run'[q].pc \in {"reconcile", "loop"} /\ run'[q].payout # 0 =>
          Mined(run'[q].hash, run'[q].payout)
    BY <1>1 DEF IInv, HashesAgree
  <2> QED
    BY <2>1, <2>2, ChainKept DEF IInv, HashesAgree
<1>7. OthersAreIdle'
  BY <1>1 DEF IInv, OthersAreIdle
<1>8. SeenIsCurrent' /\ HashIsLast'
  <2>1. Reverting => \A q \in Runs : run[q].pc = "sent" => run'[q] = run[q]
    BY <1>1
  <2>2. HashIsLast'
    BY <2>1, ChainKept DEF IInv, HashIsLast
  <2>3. SeenIsCurrent'
    BY <1>1, ChainKept DEF IInv, SeenIsCurrent
  <2> QED
    BY <2>2, <2>3
<1> QED
  BY <1>2, <1>4, <1>5, <1>6, <1>7, <1>8, ChainKept DEF IInv

\* What a run keeps.
LEMMA RunIsTyped ==
  ASSUME IInv, NEW r \in Runs
  PROVE  run[r] \in RunState /\ run[r].hash \in 0..Len(sent)
BY DEF IInv, TypeOK

\* What a run reads as in flight it reads with its hash; and a run that reads
\* the queue, skips a payout, ends or dies has nothing on its hands.
LEMMA ReadsInvariant ==
  ASSUME IInv, NEW r \in Runs, r \in scene.runs,
         StartRun(r) \/ ReadQueue(r) \/ EndRun(r) \/ Crash(r)
  PROVE  IInv'
<1>1. run[r] \in RunState /\ run[r].hash \in 0..Len(sent) /\ 0 \in 0..Len(sent)
  BY RunIsTyped DEF IInv, TypeOK
<1>2. CASE StartRun(r)
  <2> DEFINE seen == {<<p, txHash[p]>> : p \in {q \in Payouts : status[q] = "BROADCAST" /\ txHash[q] # 0}}
             new == [IdleRun EXCEPT !.pc = "reconcile", !.inFlight = seen]
  <2>1. run' = [run EXCEPT ![r] = new]
    BY <1>2 DEF StartRun
  <2>2. seen \subseteq Payouts \X Nat
    BY DEF IInv, TypeOK
  <2> HIDE DEF seen
  <2>3. /\ new \in RunState /\ new.pc = "reconcile" /\ new.inFlight = seen /\ new.payout = 0
        /\ new.hash = 0
    BY <2>2 DEF RunState, IdleRun
  <2> USE DEF seen
  <2>4. \A e \in seen : PaysFor(e[2], e[1]) /\ status[e[1]] = "BROADCAST" /\ txHash[e[1]] = e[2]
    BY DEF IInv, HashesAgree
  <2>5. UNCHANGED <<scene, status, txHash, attempts, shown, sent>> /\ run[r].pc # "sent"
    BY <1>2 DEF StartRun, rows
  <2> HIDE DEF new, seen
  <2> QED
    BY <1>1, <2>1, <2>3, <2>4, <2>5, RunMoves
<1>3. CASE ReadQueue(r)
  <2> DEFINE due == {p \in Payouts : status[p] \in Retryable /\ attempts[p] < Attempts}
             new == [run[r] EXCEPT !.pc = "loop", !.queue = due]
  <2>1. run' = [run EXCEPT ![r] = new] /\ run[r].payout = 0 /\ run[r].inFlight = {}
    BY <1>3 DEF ReadQueue, IInv, TypeOK
  <2>2. /\ new \in RunState /\ new.pc = "loop" /\ new.hash = run[r].hash
        /\ new.payout = 0 /\ new.inFlight = {}
    BY <1>1, <2>1 DEF RunState
  <2>3. UNCHANGED <<scene, status, txHash, attempts, shown, sent>> /\ run[r].pc # "sent"
    BY <1>3 DEF ReadQueue, rows
  <2> HIDE DEF new
  <2> QED
    BY <1>1, <2>1, <2>2, <2>3, RunMoves
<1>4. CASE EndRun(r) \/ Crash(r)
  <2>1. run' = [run EXCEPT ![r] = IdleRun] /\ UNCHANGED <<scene, status, txHash, attempts, shown, sent>>
    BY <1>4 DEF EndRun, Crash, rows
  <2>3. Reverting => run[r].pc # "sent"
    BY <1>4 DEF EndRun, Crash, IInv, Undisturbed
  <2>2. /\ IdleRun \in RunState /\ IdleRun.pc = "idle" /\ IdleRun.hash = 0 /\ IdleRun.inFlight = {}
    BY DEF IdleRun, RunState
  <2> QED
    BY <1>1, <2>1, <2>2, <2>3, RunMoves
<1> QED
  BY <1>2, <1>3, <1>4

\* A run that found the transaction of a payout mined confirms it, while it
\* reconciles or waits; the hash it writes is the one there is.
LEMMA ConfirmInvariant ==
  ASSUME IInv, NEW r \in Runs, r \in scene.runs, run[r].pc \in {"reconcile", "waiting"},
         NEW p \in Payouts, NEW hash \in 1..Len(sent), Confirm(p, hash),
         Mined(hash, p), UNCHANGED <<shown, sent>>, NEW new \in RunState,
         run' = [run EXCEPT ![r] = new], new.pc \in {"reconcile", "loop"},
         new.payout = p, new.hash = hash, new.inFlight \subseteq run[r].inFlight,
         Reverting => \A seen \in new.inFlight : new.pc = "reconcile" /\ seen[1] # p
  PROVE  IInv'
<1>0. status' = [status EXCEPT ![p] = "CONFIRMED"] /\ txHash' = [txHash EXCEPT ![p] = hash]
      /\ UNCHANGED <<scene, attempts, shown, sent>>
  BY DEF Confirm
<1>1. /\ run'[r] = new /\ \A q \in Runs : q # r => run'[q] = run[q]
      /\ status'[p] = "CONFIRMED" /\ \A q \in Payouts : q # p => status'[q] = status[q]
      /\ txHash'[p] = hash /\ \A q \in Payouts : q # p => txHash'[q] = txHash[q]
  BY <1>0 DEF IInv, TypeOK
<1>2. TypeOK'
  <2>1. run' \in [Runs -> RunState]
    BY DEF IInv, TypeOK
  <2>2. \A q \in Runs : run'[q].hash \in 0..Len(sent')
    BY <1>0, <1>1 DEF IInv, TypeOK
  <2>3. status' \in [Payouts -> Statuses] /\ txHash' \in [Payouts -> 0..Len(sent')]
    BY <1>0 DEF IInv, TypeOK, Statuses
  <2> QED
    BY <1>0, <2>1, <2>2, <2>3 DEF IInv, TypeOK
<1>3. \A q \in Runs : Sends(q)' => q # r /\ Sends(q)
  BY <1>1 DEF Sends
<1>4. ClaimableIsUnpaid' /\ OneSender'
  BY <1>0, <1>1, <1>3, ChainKept DEF IInv, ClaimableIsUnpaid, OneSender
<1>5. SenderKnows'
  <2> SUFFICES ASSUME NEW q \in Runs PROVE Knows(q)'
    BY DEF SenderKnows
  <2>1. CASE q = r
    BY <1>1, <1>3, <2>1 DEF Knows, Sends
  <2>2. CASE q # r
    BY <1>0, <1>1, <2>2, StillKnows
  <2> QED
    BY <2>1, <2>2
<1>6. HashesAgree'
  <2>1. \A q \in Runs : \A seen \in run'[q].inFlight : PaysFor(seen[2], seen[1])
    BY <1>1 DEF IInv, HashesAgree
  <2>2. \A q \in Runs : run'[q].pc \in {"reconcile", "loop"} /\ run'[q].payout # 0 =>
          Mined(run'[q].hash, run'[q].payout)
    BY <1>1 DEF IInv, HashesAgree
  <2>3. \A q \in Payouts : /\ txHash'[q] # 0 => PaysFor(txHash'[q], q)
                           /\ status'[q] = "CONFIRMED" => txHash'[q] # 0 /\ Mined(txHash'[q], q)
                           /\ shown'[q] # 0 => Mined(shown'[q], q)
    BY <1>0, <1>1 DEF IInv, HashesAgree, Mined
  <2> QED
    BY <1>0, <2>1, <2>2, <2>3, ChainKept DEF HashesAgree
<1>7. OthersAreIdle'
  BY <1>0, <1>1 DEF IInv, OthersAreIdle
<1>8. SeenIsCurrent'
  <2>1. SUFFICES ASSUME Reverting, NEW q \in Runs, NEW seen \in run'[q].inFlight
                 PROVE  /\ run'[q].pc = "reconcile" /\ status'[seen[1]] = "BROADCAST"
                        /\ txHash'[seen[1]] = seen[2]
    BY <1>0, ChainKept DEF SeenIsCurrent
  <2>2. q = r /\ seen \in run[r].inFlight /\ new.pc = "reconcile" /\ seen[1] # p
    BY <1>1, <2>1, Alone
  <2>3. seen[1] \in Payouts
    BY <2>2 DEF IInv, TypeOK, RunState
  <2> QED
    BY <1>1, <2>1, <2>2, <2>3 DEF IInv, SeenIsCurrent
<1>9. HashIsLast'
  <2>1. \A other \in DOMAIN sent : Stands(other, p) => other = hash
    BY DEF IInv, OneTransaction, Mined, Stands, PaysFor
  <2>2. \A q \in Runs : run[q].pc = "sent" => run'[q] = run[q]
    BY <1>1
  <2>3. Reverting => \A k \in Payouts : \A other \in DOMAIN sent :
          Stands(other, k) => other = txHash'[k] \/ \E q \in Runs : run'[q].pc = "sent" /\ run'[q].payout = k
    BY <1>1, <2>1, <2>2 DEF IInv, HashIsLast
  <2> QED
    BY <1>0, <2>3, ChainKept DEF HashIsLast
<1> QED
  BY <1>0, <1>2, <1>4, <1>5, <1>6, <1>7, <1>8, <1>9, ChainKept DEF IInv

\* A run that gives up a payout, of which nothing stands, makes it claimable.
LEMMA ReleaseInvariant ==
  ASSUME IInv, NEW r \in Runs, r \in scene.runs,
         NEW p \in Payouts, NEW outcome \in {"REVERTED", "FAILED"},
         status' = [status EXCEPT ![p] = outcome], UNCHANGED <<scene, txHash, attempts, shown, sent>>,
         Unpaid(p), \A q \in Runs : q # r /\ Sends(q) => run[q].payout # p,
         NEW new \in RunState, run' = [run EXCEPT ![r] = new], new.hash \in 0..Len(sent),
         new.pc \in {"reconcile", "loop"}, new.payout = 0, new.inFlight \subseteq run[r].inFlight,
         Reverting => run[r].pc # "sent",
         Reverting => \A seen \in new.inFlight : new.pc = "reconcile" /\ seen[1] # p
  PROVE  IInv'
<1>1. /\ run'[r] = new /\ \A q \in Runs : q # r => run'[q] = run[q]
      /\ status'[p] = outcome /\ \A q \in Payouts : q # p => status'[q] = status[q]
  BY DEF IInv, TypeOK
<1>2. TypeOK'
  <2>1. run' \in [Runs -> RunState]
    BY DEF IInv, TypeOK
  <2>2. \A q \in Runs : run'[q].hash \in 0..Len(sent')
    BY <1>1 DEF IInv, TypeOK
  <2>3. status' \in [Payouts -> Statuses]
    BY DEF IInv, TypeOK, Statuses
  <2> QED
    BY <2>1, <2>2, <2>3 DEF IInv, TypeOK
<1>3. \A q \in Runs : Sends(q)' => q # r /\ Sends(q) /\ run'[q].payout = run[q].payout
  BY <1>1 DEF Sends
<1>4. ClaimableIsUnpaid' /\ OneSender'
  <2>1. OneSender'
    BY <1>3 DEF IInv, OneSender
  <2>2. ClaimableIsUnpaid'
    BY <1>1, <1>3, ChainKept DEF IInv, ClaimableIsUnpaid
  <2> QED
    BY <2>1, <2>2
<1>5. SenderKnows'
  <2> SUFFICES ASSUME NEW q \in Runs PROVE Knows(q)'
    BY DEF SenderKnows
  <2>1. CASE q = r
    BY <1>1, <1>3, <2>1 DEF Knows, Sends
  <2>2. CASE q # r
    BY <1>1, <2>2, StillKnows
  <2> QED
    BY <2>1, <2>2
<1>6. HashesAgree'
  <2>1. \A q \in Runs : \A seen \in run'[q].inFlight : PaysFor(seen[2], seen[1])
    BY <1>1 DEF IInv, HashesAgree
  <2>2. \A q \in Runs : run'[q].pc \in {"reconcile", "loop"} /\ run'[q].payout # 0 =>
          Mined(run'[q].hash, run'[q].payout)
    BY <1>1 DEF IInv, HashesAgree
  <2>3. \A q \in Payouts : status'[q] = "CONFIRMED" => status[q] = "CONFIRMED"
    BY <1>1
  <2> QED
    BY <2>1, <2>2, <2>3, ChainKept DEF IInv, HashesAgree
<1>7. OthersAreIdle'
  BY <1>1 DEF IInv, OthersAreIdle
<1>8. SeenIsCurrent'
  <2>1. SUFFICES ASSUME Reverting, NEW q \in Runs, NEW seen \in run'[q].inFlight
                 PROVE  /\ run'[q].pc = "reconcile" /\ status'[seen[1]] = "BROADCAST"
                        /\ txHash[seen[1]] = seen[2]
    BY ChainKept DEF SeenIsCurrent
  <2>2. q = r /\ seen \in run[r].inFlight /\ new.pc = "reconcile" /\ seen[1] # p
    BY <1>1, <2>1, Alone
  <2>3. seen[1] \in Payouts
    BY <2>2 DEF IInv, TypeOK, RunState
  <2> QED
    BY <1>1, <2>1, <2>2, <2>3 DEF IInv, SeenIsCurrent
<1>9. HashIsLast'
  <2>1. Reverting => \A q \in Runs : run[q].pc = "sent" => run'[q] = run[q]
    BY <1>1
  <2> QED
    BY <2>1, ChainKept DEF IInv, HashIsLast
<1> QED
  BY <1>2, <1>4, <1>5, <1>6, <1>7, <1>8, <1>9, ChainKept DEF IInv

\* Reconciliation acts on a receipt.  Where it may be one of a revert, the
\* transaction is the last of its payout, and no run is at work on it.
LEMMA ReconcileInvariant ==
  ASSUME IInv, NEW r \in Runs, r \in scene.runs, Reconcile(r)
  PROVE  IInv'
<1>1. run[r] \in RunState /\ run[r].hash \in 0..Len(sent)
  BY RunIsTyped
<1>2. run[r].pc = "reconcile" /\ run[r].payout = 0 /\ UNCHANGED <<scene, shown, sent>>
  BY DEF Reconcile
<1>3. PICK seen \in run[r].inFlight :
        LET rest == [run[r] EXCEPT !.inFlight = @ \ {seen}]
        IN \/ /\ sent[seen[2]].state = "mined" /\ Confirm(seen[1], seen[2])
              /\ run' = [run EXCEPT ![r] = [rest EXCEPT !.payout = seen[1], !.hash = seen[2]]]
           \/ /\ sent[seen[2]].state = "reverted"
              /\ status' = [status EXCEPT ![seen[1]] = "REVERTED"]
              /\ run' = [run EXCEPT ![r] = rest] /\ UNCHANGED <<txHash, attempts>>
           \/ run' = [run EXCEPT ![r] = rest] /\ UNCHANGED <<status, txHash, attempts>>
  BY DEF Reconcile
<1>4. PaysFor(seen[2], seen[1]) /\ seen[1] \in Payouts /\ seen \in Payouts \X Nat
  BY <1>1 DEF IInv, HashesAgree, RunState
<1>5. seen[2] \in 1..Len(sent) /\ seen[2] \in Nat
  <2>1. seen[2] \in DOMAIN sent
    BY <1>4 DEF PaysFor
  <2>2. sent \in Seq(Transactions)
    BY DEF IInv, TypeOK, Transactions
  <2> QED
    BY <2>1, <2>2
<1> DEFINE rest == [run[r] EXCEPT !.inFlight = @ \ {seen}]
           new == [rest EXCEPT !.payout = seen[1], !.hash = seen[2]]
<1>6. /\ rest \in RunState /\ rest.pc = "reconcile" /\ rest.payout = 0 /\ rest.hash = run[r].hash
      /\ rest.inFlight = run[r].inFlight \ {seen}
  BY <1>1, <1>2 DEF RunState
<1>7. /\ new \in RunState /\ new.pc = "reconcile" /\ new.payout = seen[1] /\ new.hash = seen[2]
      /\ new.inFlight = run[r].inFlight \ {seen}
  BY <1>4, <1>5, <1>6 DEF RunState
<1> HIDE DEF new, rest
<1>8. ASSUME Reverting, NEW other \in run[r].inFlight, other[1] = seen[1] PROVE other = seen
  <2>1. other \in Payouts \X Nat
    BY <1>1 DEF RunState
  <2>2. other[2] = seen[2]
    BY <1>8 DEF IInv, SeenIsCurrent
  <2> QED
    BY <1>4, <1>8, <2>1, <2>2
<1>9. CASE sent[seen[2]].state = "mined" /\ Confirm(seen[1], seen[2]) /\ run' = [run EXCEPT ![r] = new]
  <2>1. Mined(seen[2], seen[1])
    BY <1>4, <1>9 DEF Mined
  <2> QED
    BY <1>2, <1>4, <1>5, <1>7, <1>8, <1>9, <2>1, ConfirmInvariant
<1>10. CASE /\ sent[seen[2]].state = "reverted"
            /\ status' = [status EXCEPT ![seen[1]] = "REVERTED"]
            /\ run' = [run EXCEPT ![r] = rest] /\ UNCHANGED <<txHash, attempts>>
  <2>1. Reverting
    BY <1>4, <1>10 DEF IInv, RevertsAreFaults, PaysFor
  <2>2. \A q \in Runs : ~Sends(q)
    BY <1>2, <2>1, Alone DEF Sends
  <2>3. Unpaid(seen[1])
    <3>1. \A hash \in DOMAIN sent : Stands(hash, seen[1]) => hash = seen[2]
      BY <1>4, <2>1, <2>2 DEF IInv, HashIsLast, SeenIsCurrent, Sends
    <3>2. ~Stands(seen[2], seen[1])
      BY <1>10 DEF Stands
    <3> QED
      BY <3>1, <3>2 DEF Unpaid
  <2> QED
    BY <1>1, <1>2, <1>4, <1>6, <1>8, <1>10, <2>2, <2>3, ReleaseInvariant
<1>11. CASE run' = [run EXCEPT ![r] = rest] /\ UNCHANGED <<status, txHash, attempts>>
  <2>1. \A e \in rest.inFlight : PaysFor(e[2], e[1])
    BY <1>6 DEF IInv, HashesAgree
  <2>2. Reverting => \A e \in rest.inFlight : status[e[1]] = "BROADCAST" /\ txHash[e[1]] = e[2]
    BY <1>6 DEF IInv, SeenIsCurrent
  <2> QED
    BY <1>1, <1>2, <1>6, <1>11, <2>1, <2>2, RunMoves
<1> QED
  BY <1>3, <1>9, <1>10, <1>11 DEF new, rest

\* The member is shown the hash of a transaction that was mined.
LEMMA ShowHashInvariant ==
  ASSUME IInv, NEW r \in Runs, r \in scene.runs, ShowHash(r)
  PROVE  IInv'
<1> DEFINE p == run[r].payout
           new == [run[r] EXCEPT !.payout = 0, !.hash = 0]
<1>1. run[r] \in RunState /\ run[r].hash \in 0..Len(sent)
  BY RunIsTyped
<1>2. /\ run[r].pc \in {"reconcile", "loop"} /\ p \in Payouts /\ Mined(run[r].hash, p)
      /\ shown' = [shown EXCEPT ![p] = run[r].hash] /\ run' = [run EXCEPT ![r] = new]
      /\ UNCHANGED <<scene, status, txHash, attempts, sent>>
  BY <1>1 DEF ShowHash, IInv, HashesAgree, RunState, TypeOK
<1>3. /\ new \in RunState /\ new.pc = run[r].pc /\ new.payout = 0 /\ new.hash = 0
      /\ new.inFlight = run[r].inFlight
  BY <1>1 DEF RunState
<1> HIDE DEF p, new
<1>4. run'[r] = new /\ \A q \in Runs : q # r => run'[q] = run[q]
  BY <1>2 DEF IInv, TypeOK
<1>5. TypeOK'
  <2>1. run' \in [Runs -> RunState] /\ \A q \in Runs : run'[q].hash \in 0..Len(sent')
    BY <1>2, <1>3, <1>4 DEF IInv, TypeOK
  <2>2. shown' \in [Payouts -> 0..Len(sent')]
    BY <1>1, <1>2 DEF IInv, TypeOK
  <2> QED
    BY <1>2, <2>1, <2>2 DEF IInv, TypeOK
<1>6. \A q \in Runs : Sends(q)' => q # r /\ Sends(q)
  BY <1>2, <1>3, <1>4 DEF Sends
<1>7. ClaimableIsUnpaid' /\ OneSender'
  BY <1>2, <1>4, <1>6, ChainKept DEF IInv, ClaimableIsUnpaid, OneSender
<1>8. SenderKnows'
  <2> SUFFICES ASSUME NEW q \in Runs PROVE Knows(q)'
    BY DEF SenderKnows
  <2>1. CASE q = r
    BY <1>2, <1>3, <1>4, <2>1 DEF Knows, Sends
  <2>2. CASE q # r
    BY <1>2, <1>4, <2>2, StillKnows
  <2> QED
    BY <2>1, <2>2
<1>9. HashesAgree'
  <2>1. \A q \in Payouts : shown'[q] # 0 => Mined(shown'[q], q)
    BY <1>2 DEF IInv, HashesAgree, TypeOK
  <2>2. \A q \in Runs : /\ run'[q].inFlight = run[q].inFlight /\ run'[q].pc = run[q].pc
                        /\ run'[q].payout # 0 => run'[q] = run[q]
    BY <1>3, <1>4
  <2> QED
    BY <1>2, <2>1, <2>2, ChainKept DEF IInv, HashesAgree
<1>10. OthersAreIdle' /\ SeenIsCurrent'
  BY <1>2, <1>3, <1>4, ChainKept DEF IInv, OthersAreIdle, SeenIsCurrent
<1>11. HashIsLast'
  <2>1. \A q \in Runs : run[q].pc = "sent" => run'[q] = run[q]
    BY <1>2, <1>4
  <2> QED
    BY <1>2, <2>1, ChainKept DEF IInv, HashIsLast
<1> QED
  BY <1>2, <1>5, <1>7, <1>8, <1>9, <1>10, <1>11, ChainKept DEF IInv

\* The claim finds nothing that stands and nobody at work, or leaves the payout alone.
LEMMA ClaimInvariant ==
  ASSUME IInv, NEW r \in Runs, r \in scene.runs, Claim(r)
  PROVE  IInv'
<1> DEFINE p == Min(run[r].queue)
<1>1. run[r] \in RunState /\ run[r].hash \in 0..Len(sent)
  BY RunIsTyped
<1>2. run[r].pc = "loop" /\ run[r].payout = 0 /\ UNCHANGED <<scene, txHash, shown, sent>>
  BY DEF Claim
<1>3. p \in Payouts
  <2>1. run[r].queue \subseteq Payouts /\ run[r].queue # {}
    BY <1>1 DEF Claim, RunState
  <2> QED
    BY <2>1, MinOfPayouts
<1>4. CASE status[p] \in Retryable
  <2> DEFINE new == [run[r] EXCEPT !.pc = "sending", !.queue = @ \ {p}, !.payout = p]
  <2>1. /\ status' = [status EXCEPT ![p] = "BROADCAST"] /\ attempts' = [attempts EXCEPT ![p] = @ + 1]
        /\ run' = [run EXCEPT ![r] = new]
    BY <1>4 DEF Claim, IInv, TypeOK
  <2> HIDE DEF p
  <2>2. /\ new \in RunState /\ new.pc = "sending" /\ new.payout = p /\ new.hash = run[r].hash
        /\ new.inFlight = run[r].inFlight
    BY <1>1, <1>3 DEF RunState
  <2> HIDE DEF new
  <2>3. Unpaid(p) /\ \A q \in Runs : Sends(q) => run[q].payout # p
    BY <1>3, <1>4 DEF IInv, ClaimableIsUnpaid, Retryable
  <2>4. /\ run'[r] = new /\ \A q \in Runs : q # r => run'[q] = run[q]
        /\ status'[p] = "BROADCAST" /\ \A q \in Payouts : q # p => status'[q] = status[q]
    BY <1>3, <2>1 DEF IInv, TypeOK
  <2>5. TypeOK'
    <3>1. run' \in [Runs -> RunState] /\ \A q \in Runs : run'[q].hash \in 0..Len(sent')
      BY <1>1, <1>2, <2>1, <2>2, <2>4 DEF IInv, TypeOK
    <3>2. status' \in [Payouts -> Statuses] /\ attempts' \in [Payouts -> Nat]
      BY <1>3, <2>1 DEF IInv, TypeOK, Statuses
    <3> QED
      BY <1>2, <3>1, <3>2 DEF IInv, TypeOK
  <2>6. \A q \in Runs : Sends(q)' => q = r \/ Sends(q)
    BY <2>4 DEF Sends
  <2>7. ClaimableIsUnpaid'
    BY <1>2, <2>2, <2>4, <2>6, ChainKept DEF IInv, ClaimableIsUnpaid
  <2>8. OneSender'
    BY <2>2, <2>3, <2>4, <2>6 DEF IInv, OneSender
  <2>9. SenderKnows'
    <3> SUFFICES ASSUME NEW q \in Runs PROVE Knows(q)'
      BY DEF SenderKnows
    <3>1. CASE q = r
      BY <1>2, <1>3, <2>2, <2>3, <2>4, <3>1, ChainKept DEF Knows
    <3>2. CASE q # r
      BY <1>2, <2>4, <3>2, StillKnows
    <3> QED
      BY <3>1, <3>2
  <2>10. HashesAgree'
    <3>1. \A q \in Runs : /\ run'[q].inFlight = run[q].inFlight
                          /\ run'[q].pc \in {"reconcile", "loop"} => run'[q] = run[q]
      BY <2>2, <2>4
    <3>2. \A q \in Payouts : status'[q] = "CONFIRMED" => status[q] = "CONFIRMED"
      BY <2>4
    <3> QED
      BY <1>2, <3>1, <3>2, ChainKept DEF IInv, HashesAgree
  <2>11. OthersAreIdle'
    BY <1>2, <2>4 DEF IInv, OthersAreIdle
  <2>12. SeenIsCurrent'
    <3>1. Reverting => \A q \in Runs : run'[q].inFlight = {}
      BY <1>2, <2>2, <2>4, NothingSeen
    <3> QED
      BY <1>2, <3>1, ChainKept DEF SeenIsCurrent
  <2>13. HashIsLast'
    <3>1. \A q \in Runs : run[q].pc = "sent" => run'[q] = run[q]
      BY <1>2, <2>4
    <3> QED
      BY <1>2, <3>1, ChainKept DEF IInv, HashIsLast
  <2> QED
    BY <1>2, <2>5, <2>7, <2>8, <2>9, <2>10, <2>11, <2>12, <2>13, ChainKept DEF IInv
<1>5. CASE status[p] \notin Retryable
  <2> DEFINE new == [run[r] EXCEPT !.queue = @ \ {p}]
  <2>1. run' = [run EXCEPT ![r] = new] /\ UNCHANGED <<scene, status, txHash, attempts, shown, sent>>
    BY <1>2, <1>5 DEF Claim, IInv, TypeOK
  <2> HIDE DEF p
  <2>2. /\ new \in RunState /\ new.pc = "loop" /\ new.payout = 0 /\ new.hash = run[r].hash
        /\ new.inFlight = run[r].inFlight
    BY <1>1, <1>2 DEF RunState
  <2>3. \A e \in new.inFlight : PaysFor(e[2], e[1])
    BY <2>2 DEF IInv, HashesAgree
  <2>4. Reverting => new.inFlight = {}
    BY <1>2, <2>2, NothingSeen
  <2> HIDE DEF new
  <2> QED
    BY <1>1, <1>2, <2>1, <2>2, <2>3, <2>4, RunMoves
<1> QED
  BY <1>4, <1>5

\* A transfer the node takes is the only one of its payout that stands, or it is
\* refused; no answer is lost.
LEMMA TransferInvariant ==
  ASSUME IInv, NEW r \in Runs, r \in scene.runs, Transfer(r)
  PROVE  IInv'
<1> DEFINE p == run[r].payout
           t == [for |-> p, state |-> "pending"]
<1>1. run[r] \in RunState /\ run[r].hash \in 0..Len(sent)
  BY RunIsTyped
<1>2. /\ run[r].pc = "sending" /\ p \in Payouts /\ Unpaid(p) /\ Sends(r)
      /\ UNCHANGED <<scene, status, txHash, attempts, shown>>
  BY DEF Transfer, IInv, SenderKnows, Knows, Sends, rows
<1>3. CASE UNCHANGED sent /\ run' = [run EXCEPT ![r].pc = "failing"]
  <2> DEFINE new == [run[r] EXCEPT !.pc = "failing"]
  <2>1. run' = [run EXCEPT ![r] = new]
    BY <1>3 DEF IInv, TypeOK
  <2>2. /\ new \in RunState /\ new.pc = "failing" /\ new.payout = p /\ new.hash = run[r].hash
        /\ new.inFlight = run[r].inFlight
    BY <1>1 DEF RunState
  <2>3. \A e \in new.inFlight : PaysFor(e[2], e[1])
    BY <2>2 DEF IInv, HashesAgree
  <2>4. Reverting => new.inFlight = {}
    BY <1>2, <2>2, NothingSeen
  <2> HIDE DEF new
  <2> QED
    BY <1>1, <1>2, <1>3, <2>1, <2>2, <2>3, <2>4, RunMoves
<1>4. CASE sent' = Append(sent, t) /\ run' = [run EXCEPT ![r].pc = "sent", ![r].hash = Len(sent')]
  <2> DEFINE new == [run[r] EXCEPT !.pc = "sent", !.hash = Len(sent')]
  <2>1. run' = [run EXCEPT ![r] = new]
    BY <1>4 DEF IInv, TypeOK
  <2>2. sent \in Seq(Transactions) /\ t \in Transactions
    BY <1>2 DEF IInv, TypeOK, Transactions
  <2> HIDE DEF p, t
  <2>3. /\ DOMAIN sent = 1..Len(sent) /\ Len(sent) \in Nat /\ Len(sent') = Len(sent) + 1
        /\ DOMAIN sent' = DOMAIN sent \union {Len(sent')}
        /\ \A hash \in DOMAIN sent : sent'[hash] = sent[hash] /\ hash # Len(sent')
        /\ sent'[Len(sent')] = t /\ sent' \in Seq(Transactions)
    BY <1>4, <2>2, Appended
  <2>4. t.for = p /\ t.state = "pending"
    BY DEF t
  <2>5. /\ new \in RunState /\ new.pc = "sent" /\ new.payout = p /\ new.hash = Len(sent')
        /\ new.inFlight = run[r].inFlight
    <3>1. ASSUME NEW hash \in Nat
          PROVE  LET moved == [run[r] EXCEPT !.pc = "sent", !.hash = hash]
                 IN /\ moved \in RunState /\ moved.pc = "sent" /\ moved.payout = p
                    /\ moved.hash = hash /\ moved.inFlight = run[r].inFlight
      BY <1>1 DEF RunState, p
    <3>2. Len(sent') \in Nat
      BY <2>3
    <3> QED
      BY <3>1, <3>2
  <2> HIDE DEF new
  <2>6. run'[r] = new /\ \A q \in Runs : q # r => run'[q] = run[q]
    BY <2>1 DEF IInv, TypeOK
  <2>7. TypeOK'
    <3>1. run' \in [Runs -> RunState] /\ \A q \in Runs : run'[q].hash \in 0..Len(sent')
      BY <2>1, <2>3, <2>5, <2>6 DEF IInv, TypeOK
    <3>2. txHash' \in [Payouts -> 0..Len(sent')] /\ shown' \in [Payouts -> 0..Len(sent')]
      BY <1>2, <2>3 DEF IInv, TypeOK
    <3> QED
      BY <1>2, <2>3, <3>1, <3>2 DEF IInv, TypeOK, Transactions
  <2>8. PICK n \in Nat, k \in Payouts : n = Len(sent') /\ k = p
    BY <1>2, <2>3
  <2>9. /\ \A hash, q : PaysFor(hash, q) => PaysFor(hash, q)'
        /\ \A hash, q : Mined(hash, q) => Mined(hash, q)'
        /\ \A hash, q : Stands(hash, q)' <=> Stands(hash, q) \/ (hash = n /\ q = k)
        /\ \A q : q # k /\ Unpaid(q) => Unpaid(q)'
        /\ \A hash : Stands(hash, k)' => hash = n
        /\ PaysFor(n, k)' /\ (Reverting' <=> Reverting)
    <3>1. /\ \A hash, q : PaysFor(hash, q)' <=> PaysFor(hash, q) \/ (hash = n /\ q = k)
          /\ \A hash, q : Stands(hash, q)' <=> Stands(hash, q) \/ (hash = n /\ q = k)
      BY <2>3, <2>4, <2>8 DEF PaysFor, Stands
    <3>2. \A hash, q : Mined(hash, q) => Mined(hash, q)'
      BY <2>3, <2>4 DEF PaysFor, Mined
    <3>3. \A hash, q : Stands(hash, q) => hash \in DOMAIN sent
      BY DEF Stands, PaysFor
    <3>4. \A q : q # k /\ Unpaid(q) => Unpaid(q)'
      BY <3>1, <3>3 DEF Unpaid
    <3>5. \A hash : Stands(hash, k)' => hash = n
      BY <1>2, <2>8, <3>1, <3>3 DEF Unpaid
    <3> QED
      BY <1>2, <3>1, <3>2, <3>4, <3>5 DEF Reverting
  <2>10. Undisturbed' /\ RevertsAreFaults'
    BY <1>2, <2>3, <2>4, <2>9 DEF IInv, Undisturbed, RevertsAreFaults, Reverting
  <2>11. OneTransaction'
    <3>1. \A hash : ~Stands(hash, k)
      BY <1>2, <2>8 DEF Unpaid, Stands, PaysFor
    <3> QED
      BY <2>9, <3>1 DEF IInv, OneTransaction, Stands, PaysFor
  <2>12. \A q \in Runs : (Sends(q)' <=> Sends(q)) /\ run'[q].payout = run[q].payout
    BY <1>2, <2>5, <2>6 DEF Sends, p
  <2>13. ClaimableIsUnpaid'
    BY <1>2, <2>8, <2>9, <2>12 DEF IInv, ClaimableIsUnpaid, p
  <2>14. OneSender'
    BY <2>12 DEF IInv, OneSender
  <2>15. SenderKnows'
    <3> SUFFICES ASSUME NEW q \in Runs PROVE Knows(q)'
      BY DEF SenderKnows
    <3>1. CASE q = r
      <4>1. run'[q].pc = "sent" /\ run'[q].payout = k /\ run'[q].hash = n
        BY <2>5, <2>6, <2>8, <3>1
      <4> QED
        BY <2>9, <4>1 DEF Knows
    <3>2. CASE q # r
      <4>1. run'[q] = run[q] /\ (Sends(q) => run[q].payout # p)
        BY <1>2, <2>6, <3>2 DEF IInv, OneSender, p
      <4>2. Knows(q)
        BY DEF IInv, SenderKnows
      <4>3. CASE Sends(q)
        <5>1. PICK j : j = run[q].payout
          OBVIOUS
        <5>2. j # k /\ j \in Payouts /\ run'[q].payout = j
          BY <2>8, <4>1, <4>2, <4>3, <5>1 DEF Knows
        <5>3. \A hash : (Stands(hash, j)' <=> Stands(hash, j)) /\ (PaysFor(hash, j) => PaysFor(hash, j)')
          BY <2>9, <5>2
        <5>4. (Unpaid(j) => Unpaid(j)') /\ \A hash : Stands(hash, j) => hash \in DOMAIN sent
          BY <2>9, <5>2 DEF Stands, PaysFor
        <5> QED
          BY <1>2, <4>1, <4>2, <5>1, <5>2, <5>3, <5>4 DEF Knows, Sends
      <4>4. CASE ~Sends(q)
        BY <4>1, <4>4 DEF Knows, Sends
      <4> QED
        BY <4>3, <4>4
    <3> QED
      BY <3>1, <3>2
  <2>16. HashesAgree'
    <3>1. \A q \in Payouts : txHash'[q] # 0 => PaysFor(txHash[q], q)'
      BY <1>2, <2>9 DEF IInv, HashesAgree
    <3>2. \A q \in Payouts : status'[q] = "CONFIRMED" => txHash'[q] # 0 /\ Mined(txHash[q], q)'
      BY <1>2, <2>9 DEF IInv, HashesAgree
    <3>3. \A q \in Payouts : shown'[q] # 0 => Mined(shown[q], q)'
      BY <1>2, <2>9 DEF IInv, HashesAgree
    <3>4. \A q \in Runs : \A seen \in run'[q].inFlight : PaysFor(seen[2], seen[1])'
      BY <2>5, <2>6, <2>9 DEF IInv, HashesAgree
    <3>5. \A q \in Runs : run'[q].pc \in {"reconcile", "loop"} /\ run'[q].payout # 0 =>
            Mined(run[q].hash, run[q].payout)'
      BY <2>5, <2>6, <2>9 DEF IInv, HashesAgree
    <3> QED
      BY <3>1, <3>2, <3>3, <3>4, <3>5 DEF HashesAgree
  <2>17. OthersAreIdle'
    BY <1>2, <2>6 DEF IInv, OthersAreIdle
  <2>18. SeenIsCurrent'
    <3>1. Reverting => \A q \in Runs : run'[q].inFlight = {}
      BY <1>2, <2>5, <2>6, NothingSeen
    <3> QED
      BY <2>9, <3>1 DEF SeenIsCurrent
  <2>19. HashIsLast'
    <3>1. \A q \in Runs : run[q].pc = "sent" => run'[q] = run[q]
      BY <1>2, <2>6
    <3>2. run'[r].pc = "sent" /\ run'[r].payout = p
      BY <2>5, <2>6
    <3>3. ASSUME Reverting, NEW q \in Payouts, NEW hash, Stands(hash, q)'
          PROVE  hash = txHash[q] \/ \E s \in Runs : run'[s].pc = "sent" /\ run'[s].payout = q
      <4>1. CASE Stands(hash, q)
        BY <3>1, <3>3, <4>1 DEF IInv, HashIsLast, Stands, PaysFor
      <4>2. CASE q = k
        BY <2>8, <3>2, <4>2
      <4> QED
        BY <2>9, <3>3, <4>1, <4>2
    <3> QED
      BY <1>2, <2>9, <3>3 DEF HashIsLast
  <2> QED
    BY <2>7, <2>10, <2>11, <2>13, <2>14, <2>15, <2>16, <2>17, <2>18, <2>19 DEF IInv
<1>5. "lost" \notin scene.faults
  BY DEF IInv, Undisturbed
<1> QED
  BY <1>3, <1>4, <1>5 DEF Transfer, Transaction

\* The hash that is stored is that of the one transaction that may stand.
LEMMA RecordHashInvariant ==
  ASSUME IInv, NEW r \in Runs, r \in scene.runs, RecordHash(r)
  PROVE  IInv'
<1> DEFINE p == run[r].payout
           hash == run[r].hash
           new == [run[r] EXCEPT !.pc = "waiting"]
<1>1. run[r] \in RunState /\ hash \in 0..Len(sent)
  BY RunIsTyped
<1>2. /\ run[r].pc = "sent" /\ p \in Payouts /\ PaysFor(hash, p) /\ hash # 0
      /\ \A other \in DOMAIN sent : Stands(other, p) => other = hash
      /\ txHash' = [txHash EXCEPT ![p] = hash] /\ run' = [run EXCEPT ![r] = new]
      /\ UNCHANGED <<scene, status, attempts, shown, sent>>
  <2>1. /\ run[r].pc = "sent"
        /\ txHash' = [txHash EXCEPT ![p] = hash]
        /\ UNCHANGED <<scene, status, attempts, shown, sent>>
    BY DEF RecordHash
  <2>2. run' = [run EXCEPT ![r] = new]
    BY DEF RecordHash, IInv, TypeOK
  <2>3. /\ p \in Payouts /\ PaysFor(hash, p)
        /\ \A other \in DOMAIN sent : Stands(other, p) => other = hash
    BY <2>1 DEF IInv, SenderKnows, Knows, Sends
  <2>4. hash # 0
    BY <2>3 DEF IInv, TypeOK, PaysFor
  <2> QED
    BY <2>1, <2>2, <2>3, <2>4
<1>3. /\ new \in RunState /\ new.pc = "waiting" /\ new.payout = p /\ new.hash = hash
      /\ new.inFlight = run[r].inFlight
  BY <1>1 DEF RunState
<1> HIDE DEF p, hash, new
<1>4. PICK k \in Payouts, n \in 0..Len(sent) : k = p /\ n = hash
  BY <1>1, <1>2
<1>5. /\ run'[r] = new /\ \A q \in Runs : q # r => run'[q] = run[q]
      /\ txHash'[k] = n /\ \A q \in Payouts : q # k => txHash'[q] = txHash[q]
      /\ run[r].payout = k
  BY <1>2, <1>4 DEF IInv, TypeOK, p
<1>6. TypeOK'
  <2>1. run' \in [Runs -> RunState] /\ \A q \in Runs : run'[q].hash \in 0..Len(sent')
    BY <1>1, <1>2, <1>3, <1>5 DEF IInv, TypeOK
  <2>2. txHash' \in [Payouts -> 0..Len(sent')]
    BY <1>1, <1>2 DEF IInv, TypeOK
  <2> QED
    BY <1>2, <2>1, <2>2 DEF IInv, TypeOK
<1>7. \A q \in Runs : (Sends(q)' <=> Sends(q)) /\ run'[q].payout = run[q].payout
  BY <1>2, <1>3, <1>5 DEF Sends, p
<1>8. ClaimableIsUnpaid' /\ OneSender'
  BY <1>2, <1>7, ChainKept DEF IInv, ClaimableIsUnpaid, OneSender
<1>9. SenderKnows'
  <2> SUFFICES ASSUME NEW q \in Runs PROVE Knows(q)'
    BY DEF SenderKnows
  <2>1. CASE q = r
    <3>1. run'[q].pc = "waiting" /\ run'[q].payout = k /\ run'[q].hash = n
      BY <1>3, <1>4, <1>5, <2>1
    <3>2. PaysFor(n, k) /\ \A other \in DOMAIN sent : Stands(other, k) => other = n
      BY <1>2, <1>4
    <3> QED
      BY <1>2, <1>4, <1>5, <3>1, <3>2, ChainKept DEF Knows
  <2>2. CASE q # r
    <3>1. \A j \in Payouts : txHash[j] # 0 => txHash'[j] # 0
      BY <1>2, <1>4, <1>5
    <3> QED
      BY <1>2, <1>5, <2>2, <3>1, StillKnows
  <2> QED
    BY <2>1, <2>2
<1>10. HashesAgree'
  <2>1. status[k] = "CONFIRMED" => n = txHash[k]
    BY <1>2, <1>4 DEF IInv, HashesAgree, PaysFor, Mined, Stands
  <2>2. \A q \in Payouts : txHash'[q] # 0 => PaysFor(txHash'[q], q)
    BY <1>2, <1>4, <1>5 DEF IInv, HashesAgree
  <2>3. \A q \in Payouts : status[q] = "CONFIRMED" => txHash'[q] # 0 /\ Mined(txHash'[q], q)
    BY <1>2, <1>5, <2>1 DEF IInv, HashesAgree
  <2>4. \A q \in Runs : /\ run'[q].inFlight = run[q].inFlight
                        /\ run'[q].pc \in {"reconcile", "loop"} => run'[q] = run[q]
    BY <1>3, <1>5
  <2> QED
    BY <1>2, <2>2, <2>3, <2>4, ChainKept DEF IInv, HashesAgree
<1>11. OthersAreIdle'
  BY <1>2, <1>5 DEF IInv, OthersAreIdle
<1>12. SeenIsCurrent'
  <2>1. Reverting => \A q \in Runs : run'[q].inFlight = {}
    BY <1>2, <1>3, <1>5, NothingSeen
  <2> QED
    BY <1>2, <2>1, ChainKept DEF SeenIsCurrent
<1>13. HashIsLast'
  <2>1. SUFFICES ASSUME Reverting, NEW q \in Payouts, NEW other \in DOMAIN sent, Stands(other, q)
                 PROVE  other = txHash'[q] \/ \E s \in Runs : run'[s].pc = "sent" /\ run'[s].payout = q
    BY <1>2, ChainKept DEF HashIsLast
  <2>2. CASE q = k
    BY <1>2, <1>4, <1>5, <2>1, <2>2
  <2>3. CASE q # k
    <3>1. \A s \in Runs : run[s].pc = "sent" /\ run[s].payout = q => run'[s] = run[s]
      BY <1>5, <2>3
    <3> QED
      BY <1>5, <2>1, <2>3, <3>1 DEF IInv, HashIsLast
  <2> QED
    BY <2>2, <2>3
<1> QED
  BY <1>2, <1>6, <1>8, <1>9, <1>10, <1>11, <1>12, <1>13, ChainKept DEF IInv

\* A run confirms what it waited for or takes note that it reverted, gives the
\* payout up to reconciliation, or treats a throw as a failure with the hash stored.
LEMMA WaitInvariant ==
  ASSUME IInv, NEW r \in Runs, r \in scene.runs, Wait(r)
  PROVE  IInv'
<1> DEFINE p == run[r].payout
           hash == run[r].hash
<1>1. run[r] \in RunState /\ hash \in 0..Len(sent)
  BY RunIsTyped
<1>2. /\ run[r].pc = "waiting" /\ p \in Payouts /\ PaysFor(hash, p) /\ txHash[p] # 0 /\ Sends(r)
      /\ \A other \in DOMAIN sent : Stands(other, p) => other = hash
      /\ UNCHANGED <<scene, shown, sent>>
  BY DEF Wait, IInv, SenderKnows, Knows, Sends
<1>3. hash \in 1..Len(sent)
  BY <1>2 DEF IInv, TypeOK, PaysFor
<1>4. /\ \A e \in run[r].inFlight : PaysFor(e[2], e[1])
      /\ Reverting => run[r].inFlight = {}
  BY <1>2, NothingSeen DEF IInv, HashesAgree
<1>5. CASE sent[hash].state = "mined" /\ Confirm(p, hash) /\ run' = [run EXCEPT ![r].pc = "loop"]
  <2> DEFINE new == [run[r] EXCEPT !.pc = "loop"]
  <2>1. run' = [run EXCEPT ![r] = new] /\ Mined(hash, p)
    BY <1>2, <1>5 DEF IInv, TypeOK, Mined
  <2>2. /\ new \in RunState /\ new.pc = "loop" /\ new.payout = p /\ new.hash = hash
        /\ new.inFlight = run[r].inFlight
    BY <1>1 DEF RunState
  <2> HIDE DEF new, p, hash
  <2> QED
    BY <1>2, <1>3, <1>4, <1>5, <2>1, <2>2, ConfirmInvariant
<1> DEFINE next == [run[r] EXCEPT !.pc = "loop", !.payout = 0, !.hash = 0]
<1>6. /\ next \in RunState /\ next.pc = "loop" /\ next.payout = 0 /\ next.hash = 0
      /\ next.inFlight = run[r].inFlight /\ 0 \in 0..Len(sent)
  <2>1. next \in RunState
    BY <1>1 DEF RunState
  <2>2. 0 \in 0..Len(sent)
    BY <1>1
  <2> QED
    BY <1>1, <2>1, <2>2 DEF RunState
<1>7. NextPayout(r) => run' = [run EXCEPT ![r] = next]
  BY DEF NextPayout, IInv, TypeOK
<1> HIDE DEF next
<1>8. CASE /\ sent[hash].state = "reverted" /\ status' = [status EXCEPT ![p] = "REVERTED"]
           /\ NextPayout(r) /\ UNCHANGED <<txHash, attempts>>
  <2>1. Unpaid(p)
    BY <1>2, <1>8 DEF Unpaid, Stands
  <2>2. \A q \in Runs : q # r /\ Sends(q) => run[q].payout # p
    BY <1>2 DEF IInv, OneSender
  <2> HIDE DEF p, hash
  <2> QED
    BY <1>2, <1>4, <1>6, <1>7, <1>8, <2>1, <2>2, ReleaseInvariant
<1>9. CASE NextPayout(r) /\ UNCHANGED <<status, txHash, attempts>>
  <2> HIDE DEF p, hash
  <2> QED
    BY <1>2, <1>4, <1>6, <1>7, <1>9, RunMoves
<1>10. CASE run' = [run EXCEPT ![r].pc = "failing"] /\ UNCHANGED <<status, txHash, attempts>>
  <2> DEFINE new == [run[r] EXCEPT !.pc = "failing"]
  <2>1. run' = [run EXCEPT ![r] = new]
    BY <1>10 DEF IInv, TypeOK
  <2>2. /\ new \in RunState /\ new.pc = "failing" /\ new.payout = p /\ new.hash = hash
        /\ new.inFlight = run[r].inFlight
    BY <1>1 DEF RunState
  <2>3. /\ new.payout = run[r].payout /\ txHash[new.payout] # 0 /\ new.hash \in 0..Len(sent)
    BY <1>1, <1>2, <2>2
  <2>4. UNCHANGED <<scene, status, txHash, attempts, shown, sent>>
    BY <1>2, <1>10
  <2> HIDE DEF new, p, hash
  <2> QED
    BY <1>2, <1>4, <2>1, <2>2, <2>3, <2>4, RunMoves
<1> QED
  BY <1>5, <1>8, <1>9, <1>10 DEF Wait

\* A failure without a hash is one of a payout that was not sent.
LEMMA HandleFailureInvariant ==
  ASSUME IInv, NEW r \in Runs, r \in scene.runs, HandleFailure(r)
  PROVE  IInv'
<1> DEFINE p == run[r].payout
           new == [run[r] EXCEPT !.pc = "loop", !.payout = 0, !.hash = 0]
<1>1. run[r] \in RunState /\ run[r].hash \in 0..Len(sent)
  BY RunIsTyped
<1>2. /\ run[r].pc = "failing" /\ Sends(r) /\ p \in Payouts /\ (txHash[p] # 0 \/ Unpaid(p))
      /\ run' = [run EXCEPT ![r] = new]
      /\ UNCHANGED <<scene, txHash, attempts, shown, sent>>
  BY DEF HandleFailure, NextPayout, IInv, TypeOK, SenderKnows, Knows, Sends
<1>3. /\ new \in RunState /\ new.pc = "loop" /\ new.payout = 0 /\ new.hash = 0
      /\ new.inFlight = run[r].inFlight /\ 0 \in 0..Len(sent)
  <2>1. new \in RunState
    BY <1>1 DEF RunState
  <2>2. 0 \in 0..Len(sent)
    BY <1>1
  <2> QED
    BY <1>1, <2>1, <2>2 DEF RunState
<1>4. /\ \A e \in run[r].inFlight : PaysFor(e[2], e[1])
      /\ Reverting => run[r].inFlight = {}
  BY <1>2, NothingSeen DEF IInv, HashesAgree
<1> HIDE DEF new
<1>5. CASE txHash[p] # 0
  <2>1. status' = status
    BY <1>5 DEF HandleFailure, IInv, TypeOK
  <2> HIDE DEF p
  <2> QED
    BY <1>2, <1>3, <1>4, <2>1, RunMoves
<1>6. CASE txHash[p] = 0
  <2>1. status' = [status EXCEPT ![p] = "FAILED"] /\ Unpaid(p)
    BY <1>2, <1>6 DEF HandleFailure
  <2>2. \A q \in Runs : q # r /\ Sends(q) => run[q].payout # p
    BY <1>2 DEF IInv, OneSender
  <2> HIDE DEF p
  <2> QED
    BY <1>2, <1>3, <1>4, <2>1, <2>2, ReleaseInvariant
<1> QED
  BY <1>5, <1>6

\* The network decides a transaction that was pending; a revert is one of the
\* scene's faults, and what stands is no more than before.
LEMMA DecideInvariant ==
  ASSUME IInv, NEW hash \in DOMAIN sent, Decide(hash)
  PROVE  IInv'
<1>1. sent[hash].state = "pending" /\ UNCHANGED <<scene, status, txHash, attempts, shown, run>>
  BY DEF Decide, rows
<1>2. PICK outcome \in {"mined", "dropped", "reverted"} :
        sent' = [sent EXCEPT ![hash].state = outcome] /\ (outcome = "reverted" => Reverting)
  BY DEF Decide, Settlements, Reverting
<1>3. sent \in Seq(Transactions)
  BY DEF IInv, TypeOK, Transactions
<1>4. /\ sent' \in Seq(Transactions) /\ Len(sent') = Len(sent) /\ DOMAIN sent' = DOMAIN sent
      /\ sent'[hash].for = sent[hash].for /\ sent'[hash].state = outcome
      /\ \A k \in DOMAIN sent \ {hash} : sent'[k] = sent[k]
  <2>1. sent \in [1..Len(sent) -> Transactions] /\ Len(sent) \in Nat /\ DOMAIN sent = 1..Len(sent)
    BY <1>3
  <2>2. [sent[hash] EXCEPT !.state = outcome] \in Transactions
    BY <2>1 DEF Transactions
  <2>3. sent' \in [1..Len(sent) -> Transactions]
    BY <1>2, <2>1, <2>2
  <2>4. sent' \in Seq(Transactions) /\ Len(sent') = Len(sent)
    BY <2>1, <2>3
  <2> QED
    BY <1>2, <2>1, <2>2, <2>3, <2>4 DEF Transactions
<1>5. TypeOK'
  BY <1>1, <1>4 DEF IInv, TypeOK, Transactions
<1>6. Undisturbed' /\ RevertsAreFaults' /\ (Reverting' <=> Reverting)
  BY <1>1, <1>2, <1>4 DEF IInv, Undisturbed, RevertsAreFaults, Reverting
<1>7. /\ \A k, q : PaysFor(k, q) <=> PaysFor(k, q)'
      /\ \A k, q : Mined(k, q) => Mined(k, q)'
      /\ \A k, q : Stands(k, q)' => Stands(k, q)
      /\ \A q : Unpaid(q) => Unpaid(q)'
  <2>1. \A k, q : PaysFor(k, q) <=> PaysFor(k, q)'
    BY <1>4 DEF PaysFor
  <2>2. /\ \A k, q : Mined(k, q) => Mined(k, q)'
        /\ \A k, q : Stands(k, q)' => Stands(k, q)
    BY <1>1, <1>4, <2>1 DEF PaysFor, Mined, Stands
  <2> QED
    BY <1>4, <2>1, <2>2 DEF Unpaid
<1>8. OneTransaction' /\ ClaimableIsUnpaid' /\ OneSender' /\ OthersAreIdle'
  <2>1. OneTransaction'
    BY <1>4, <1>7 DEF IInv, OneTransaction
  <2> QED
    BY <1>1, <1>7, <2>1 DEF IInv, ClaimableIsUnpaid, OneSender, OthersAreIdle, Sends
<1>9. SenderKnows'
  <2> SUFFICES ASSUME NEW q \in Runs PROVE Knows(q)'
    BY DEF SenderKnows
  <2>1. Knows(q)
    BY DEF IInv, SenderKnows
  <2>2. PICK p : p = run[q].payout /\ p = run'[q].payout
    BY <1>1
  <2> QED
    BY <1>1, <1>4, <1>7, <2>1, <2>2 DEF Knows, Sends
<1>10. HashesAgree'
  BY <1>1, <1>7 DEF IInv, HashesAgree
<1>11. SeenIsCurrent' /\ HashIsLast'
  BY <1>1, <1>4, <1>6, <1>7 DEF IInv, SeenIsCurrent, HashIsLast
<1> QED
  BY <1>5, <1>6, <1>8, <1>9, <1>10, <1>11 DEF IInv

\* Every step, and none.
LEMMA StepInvariant == IInv /\ [Next]_vars => IInv'
<1> SUFFICES ASSUME IInv, [Next]_vars PROVE IInv'
  OBVIOUS
<1>1. CASE UNCHANGED vars
  <2>1. UNCHANGED <<scene, status, txHash, attempts, shown, sent, run>>
    BY <1>1 DEF vars
  <2>2. SenderKnows' /\ TypeOK' /\ OthersAreIdle'
    BY <2>1, StillKnows DEF IInv, TypeOK, SenderKnows, OthersAreIdle
  <2>3. ClaimableIsUnpaid' /\ OneSender' /\ HashesAgree'
    BY <2>1, ChainKept DEF IInv, ClaimableIsUnpaid, OneSender, HashesAgree, Sends
  <2>4. SeenIsCurrent' /\ HashIsLast'
    BY <2>1, ChainKept DEF IInv, SeenIsCurrent, HashIsLast
  <2> QED
    BY <2>1, <2>2, <2>3, <2>4, ChainKept DEF IInv
<1>2. ASSUME NEW p \in Payouts, Enqueue(p) PROVE IInv'
  BY <1>2, EnqueueInvariant
<1>3. scene.runs \subseteq Runs
  BY ScenesAssumption DEF IInv, TypeOK
<1>4. ASSUME NEW r \in Runs, r \in scene.runs, Step(r) \/ Crash(r) PROVE IInv'
  BY <1>4, ReadsInvariant, ReconcileInvariant, ShowHashInvariant, ClaimInvariant, TransferInvariant,
     RecordHashInvariant, WaitInvariant, HandleFailureInvariant DEF Step
<1>5. ASSUME NEW hash \in DOMAIN sent, Decide(hash) PROVE IInv'
  BY <1>5, DecideInvariant
<1> QED
  BY <1>1, <1>2, <1>3, <1>4, <1>5 DEF Next

\* The invariant holds throughout.
LEMMA InvariantHolds == Spec /\ Undisturbed => []IInv
<1> QED
  BY InitInvariant, StepInvariant, PTL DEF Spec

-----------------------------------------------------------------------------
\* For any payouts, over a network that may drop transactions and a node whose
\* answers arrive: no payout is ever sent again while a transaction of it stands,
\* neither where nothing reverts, by any number of runs that overlap, die and time
\* out, nor where transactions revert and runs follow one another to their end
\* (core/chain/payouts.ts).
THEOREM NeverResentTheorem == Spec /\ Undisturbed => []NeverResent
<1>1. IInv => NeverResent
  <2> SUFFICES ASSUME IInv, NEW p \in Payouts PROVE Cardinality(Live(p)) <= 1
    BY DEF NeverResent
  <2>1. \A hash, other \in Live(p) : hash = other
    BY DEF IInv, OneTransaction, Live, Stands, PaysFor
  <2>2. CASE Live(p) = {}
    <3>1. Cardinality({}) = 0
      BY FS_EmptySet
    <3> QED
      BY <2>2, <3>1
  <2>3. CASE Live(p) # {}
    <3>1. PICK hash : hash \in Live(p)
      BY <2>3
    <3>2. Live(p) = {hash}
      BY <2>1, <3>1
    <3>3. Cardinality({hash}) = 1
      BY FS_Singleton
    <3> QED
      BY <3>2, <3>3
  <2> QED
    BY <2>2, <2>3
<1> QED
  BY <1>1, InvariantHolds, PTL

\* Under the same conditions: nothing that was sent for what the queue may pick up
\* stands, and\* what is confirmed or shown to the member was mined and paid that payout.
THEOREM StatusTheorem == Spec /\ Undisturbed => []StatusMatchesChain
<1>1. IInv => StatusMatchesChain
  <2> SUFFICES ASSUME IInv, NEW p \in Payouts
               PROVE  /\ status[p] \in Retryable => Live(p) = {}
                      /\ status[p] = "CONFIRMED" =>
                           txHash[p] # 0 /\ sent[txHash[p]] = [for |-> p, state |-> "mined"]
                      /\ shown[p] # 0 => sent[shown[p]] = [for |-> p, state |-> "mined"]
    BY DEF StatusMatchesChain
  <2>1. \A hash : Mined(hash, p) => sent[hash] = [for |-> p, state |-> "mined"]
    <3>1. \A hash \in DOMAIN sent : sent[hash] \in Transactions
      <4>1. sent \in Seq(Transactions)
        BY DEF IInv, TypeOK, Transactions
      <4> QED
        BY <4>1
    <3> QED
      BY <3>1 DEF Mined, PaysFor, Transactions
  <2>2. status[p] \in Retryable => Live(p) = {}
    BY DEF IInv, ClaimableIsUnpaid, Retryable, Live, Unpaid, Stands, PaysFor
  <2> QED
    BY <2>1, <2>2 DEF IInv, HashesAgree
<1> QED
  BY <1>1, InvariantHolds, PTL
=============================================================================

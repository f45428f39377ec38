---------------------------- MODULE ChainPayouts ----------------------------
(***************************************************************************)
(* core/chain/payouts.ts: the worker that pays approved withdrawals on     *)
(* chain.  The job fires every minute and a run may take longer, so runs   *)
(* of processQueue overlap; every await between two database statements,   *)
(* or between a statement and a call to the node, is a step boundary, and  *)
(* the worker process may die at any of them.                              *)
(*                                                                         *)
(* What may go wrong outside the code is part of a scene, chosen once:     *)
(*   "crash"   the worker process dies in the middle of a run              *)
(*   "revert"  a transaction is mined with status 0                        *)
(*   "drop"    a transaction leaves the mempool and is never mined         *)
(*   "lost"    the node takes a transaction and its answer is lost         *)
(***************************************************************************)
EXTENDS Integers, Sequences, FiniteSets, FiniteSetsExt

CONSTANTS
  Payouts,      \* chain_payouts rows, numbered in order of createdAt
  Runs,         \* runs of processQueue that may be under way at a time
  Scenes        \* [runs : those that do run, faults : what may go wrong,
                \*  sends : bound on the transactions the hot wallet sends]

ASSUME PayoutsAssumption == Payouts \subseteq Nat \ {0} /\ IsFiniteSet(Payouts)
ASSUME ScenesAssumption ==
  Scenes \subseteq
    [runs : SUBSET Runs, faults : SUBSET {"crash", "revert", "drop", "lost"}, sends : Nat]

VARIABLES
  scene,      \* the one of Scenes that is played
  status,     \* [Payouts -> Statuses], "none" before the row exists
  txHash,     \* [Payouts -> Nat], the recorded transaction, 0 for null
  attempts,   \* [Payouts -> Nat]
  shown,      \* [Payouts -> Nat], withdrawals.txHash, what the member sees
  sent,       \* the hot wallet's transactions; a hash is an index
  run         \* [Runs -> RunState]

vars == <<scene, status, txHash, attempts, shown, sent, run>>
rows == <<status, txHash, attempts, shown>>

Statuses == {"none", "QUEUED", "BROADCAST", "CONFIRMED", "REVERTED", "FAILED"}
Retryable == {"QUEUED", "REVERTED", "FAILED"}
Attempts == 3

\* Where a run is; the payouts it read as in flight, each with the hash it had;
\* the payouts it read as queued; the one in hand and its transaction.
RunState == [pc : {"idle", "reconcile", "loop", "sending", "sent", "waiting", "failing"},
             inFlight : SUBSET (Payouts \X Nat), queue : SUBSET Payouts,
             payout : Payouts \union {0}, hash : Nat]

TypeOK ==
  /\ scene \in Scenes
  /\ status \in [Payouts -> Statuses]
  /\ txHash \in [Payouts -> 0..Len(sent)]
  /\ attempts \in [Payouts -> Nat]
  /\ shown \in [Payouts -> 0..Len(sent)]
  /\ sent \in Seq([for : Payouts, state : {"pending", "mined", "reverted", "dropped"}])
  /\ run \in [Runs -> RunState]
  /\ \A r \in Runs : run[r].hash \in 0..Len(sent)

IdleRun == [pc |-> "idle", inFlight |-> {}, queue |-> {}, payout |-> 0, hash |-> 0]

Init ==
  /\ scene \in Scenes
  /\ status = [p \in Payouts |-> "none"]
  /\ txHash = [p \in Payouts |-> 0]
  /\ attempts = [p \in Payouts |-> 0]
  /\ shown = [p \in Payouts |-> 0]
  /\ sent = <<>>
  /\ run = [r \in Runs |-> IdleRun]

-----------------------------------------------------------------------------
\* enqueue(): withdrawalId is unique, so there is one row however often an
\* approval gets here.
Enqueue(p) ==
  /\ status[p] = "none"
  /\ status' = [status EXCEPT ![p] = "QUEUED"]
  /\ UNCHANGED <<scene, txHash, attempts, shown, sent, run>>

\* processQueue() starts with reconcileBroadcast()'s read.
StartRun(r) ==
  /\ run[r].pc = "idle"
  /\ run' = [run EXCEPT ![r] = [IdleRun EXCEPT
       !.pc = "reconcile",
       !.inFlight = {<<p, txHash[p]>> : p \in {q \in Payouts : status[q] = "BROADCAST" /\ txHash[q] # 0}}]]
  /\ UNCHANGED <<scene, rows, sent>>

\* settle(), first update.
Confirm(p, hash) ==
  /\ status' = [status EXCEPT ![p] = "CONFIRMED"]
  /\ txHash' = [txHash EXCEPT ![p] = hash]
  /\ UNCHANGED <<scene, attempts>>

\* One payout of the reconciliation: ask for the receipt of the hash read
\* earlier, and write the row by its id alone.  A receipt never changes, so the
\* gap between the answer and the write is part of the gap since the hash was read.
Reconcile(r) ==
  /\ run[r].pc = "reconcile" /\ run[r].payout = 0
  /\ \E seen \in run[r].inFlight :
       LET p == seen[1]
           receipt == sent[seen[2]].state
           rest == [run[r] EXCEPT !.inFlight = @ \ {seen}]
       IN \/ /\ receipt = "mined"
             /\ Confirm(p, seen[2])
             /\ run' = [run EXCEPT ![r] = [rest EXCEPT !.payout = p, !.hash = seen[2]]]
          \/ /\ receipt = "reverted"
             /\ status' = [status EXCEPT ![p] = "REVERTED"]
             /\ run' = [run EXCEPT ![r] = rest]
             /\ UNCHANGED <<txHash, attempts>>
          \/ /\ receipt \in {"pending", "dropped"}
             /\ run' = [run EXCEPT ![r] = rest]
             /\ UNCHANGED <<status, txHash, attempts>>
  /\ UNCHANGED <<scene, shown, sent>>

\* settle(), second update; then the run goes on where it was.
ShowHash(r) ==
  /\ run[r].pc \in {"reconcile", "loop"} /\ run[r].payout # 0
  /\ shown' = [shown EXCEPT ![run[r].payout] = run[r].hash]
  /\ run' = [run EXCEPT ![r].payout = 0, ![r].hash = 0]
  /\ UNCHANGED <<scene, status, txHash, attempts, sent>>

\* processQueue()'s read of what to send; ten at most, more than the model has.
ReadQueue(r) ==
  /\ run[r].pc = "reconcile" /\ run[r].payout = 0 /\ run[r].inFlight = {}
  /\ run' = [run EXCEPT ![r].pc = "loop",
       ![r].queue = {p \in Payouts : status[p] \in Retryable /\ attempts[p] < Attempts}]
  /\ UNCHANGED <<scene, rows, sent>>

\* Wrong variant: the row is taken whatever its status.
ClaimUnguarded(r) ==
  /\ run[r].pc = "loop" /\ run[r].payout = 0 /\ run[r].queue # {}
  /\ LET p == Min(run[r].queue)
     IN /\ status' = [status EXCEPT ![p] = "BROADCAST"]
        /\ attempts' = [attempts EXCEPT ![p] = @ + 1]
        /\ run' = [run EXCEPT ![r].pc = "sending", ![r].queue = @ \ {p}, ![r].payout = p]
  /\ UNCHANGED <<scene, txHash, shown, sent>>

\* broadcast(): claim the oldest payout of the list, unless another run moved
\* it out of a retryable state.  The hash of an earlier attempt stays.
Claim(r) ==
  /\ run[r].pc = "loop" /\ run[r].payout = 0 /\ run[r].queue # {}
  /\ LET p == Min(run[r].queue)
     IN IF status[p] \in Retryable
        THEN /\ status' = [status EXCEPT ![p] = "BROADCAST"]
             /\ attempts' = [attempts EXCEPT ![p] = @ + 1]
             /\ run' = [run EXCEPT ![r].pc = "sending", ![r].queue = @ \ {p}, ![r].payout = p]
        ELSE /\ run' = [run EXCEPT ![r].queue = @ \ {p}]
             /\ UNCHANGED <<status, attempts>>
  /\ UNCHANGED <<scene, txHash, shown, sent>>

Transaction(p) == Append(sent, [for |-> p, state |-> "pending"])

\* token.transfer(): the node takes the transaction and answers with its hash,
\* refuses it, or takes it and is not heard.
Transfer(r) ==
  /\ run[r].pc = "sending"
  /\ \/ /\ Len(sent) < scene.sends
        /\ sent' = Transaction(run[r].payout)
        /\ run' = [run EXCEPT ![r].pc = "sent", ![r].hash = Len(sent')]
     \/ /\ run' = [run EXCEPT ![r].pc = "failing"]
        /\ UNCHANGED sent
     \/ /\ "lost" \in scene.faults /\ Len(sent) < scene.sends
        /\ sent' = Transaction(run[r].payout)
        /\ run' = [run EXCEPT ![r].pc = "failing"]
  /\ UNCHANGED <<scene, rows>>

RecordHash(r) ==
  /\ run[r].pc = "sent"
  /\ txHash' = [txHash EXCEPT ![run[r].payout] = run[r].hash]
  /\ run' = [run EXCEPT ![r].pc = "waiting"]
  /\ UNCHANGED <<scene, status, attempts, shown, sent>>

NextPayout(r) == run' = [run EXCEPT ![r].pc = "loop", ![r].payout = 0, ![r].hash = 0]

\* Wrong variant: having a hash counts as being paid.
WaitOptimistic(r) ==
  /\ run[r].pc = "waiting"
  /\ Confirm(run[r].payout, run[r].hash)
  /\ run' = [run EXCEPT ![r].pc = "loop"]
  /\ UNCHANGED <<scene, shown, sent>>

\* tx.wait(): mined; mined and reverted; no receipt, and the row is left for
\* reconciliation; or it throws, which it may do over a revert too.
Wait(r) ==
  /\ run[r].pc = "waiting"
  /\ LET p == run[r].payout
     IN \/ /\ sent[run[r].hash].state = "mined"
           /\ Confirm(p, run[r].hash)
           /\ run' = [run EXCEPT ![r].pc = "loop"]
        \/ /\ sent[run[r].hash].state = "reverted"
           /\ status' = [status EXCEPT ![p] = "REVERTED"]
           /\ NextPayout(r)
           /\ UNCHANGED <<txHash, attempts>>
        \/ /\ NextPayout(r)
           /\ UNCHANGED <<status, txHash, attempts>>
        \/ /\ run' = [run EXCEPT ![r].pc = "failing"]
           /\ UNCHANGED <<status, txHash, attempts>>
  /\ UNCHANGED <<scene, shown, sent>>

\* Wrong variant: every throw is a failure.
HandleFailureAlways(r) ==
  /\ run[r].pc = "failing"
  /\ status' = [status EXCEPT ![run[r].payout] = "FAILED"]
  /\ NextPayout(r)
  /\ UNCHANGED <<scene, txHash, attempts, shown, sent>>

\* Wrong variant: a refused transfer leaves the claim in place.
HandleFailureKept(r) ==
  /\ run[r].pc = "failing"
  /\ NextPayout(r)
  /\ UNCHANGED <<scene, rows, sent>>

\* handleBroadcastFailure(): with a hash on the row, leave it alone.
HandleFailure(r) ==
  /\ run[r].pc = "failing"
  /\ status' = [status EXCEPT ![run[r].payout] =
       IF txHash[run[r].payout] # 0 THEN @ ELSE "FAILED"]
  /\ NextPayout(r)
  /\ UNCHANGED <<scene, txHash, attempts, shown, sent>>

EndRun(r) ==
  /\ run[r].pc = "loop" /\ run[r].payout = 0 /\ run[r].queue = {}
  /\ run' = [run EXCEPT ![r] = IdleRun]
  /\ UNCHANGED <<scene, rows, sent>>

Crash(r) ==
  /\ "crash" \in scene.faults /\ run[r].pc # "idle"
  /\ run' = [run EXCEPT ![r] = IdleRun]
  /\ UNCHANGED <<scene, rows, sent>>

\* The network decides a transaction.
Settlements ==
  {"mined"} \union (IF "revert" \in scene.faults THEN {"reverted"} ELSE {})
            \union (IF "drop" \in scene.faults THEN {"dropped"} ELSE {})

Decide(hash) ==
  /\ sent[hash].state = "pending"
  /\ \E outcome \in Settlements : sent' = [sent EXCEPT ![hash].state = outcome]
  /\ UNCHANGED <<scene, rows, run>>

-----------------------------------------------------------------------------
Step(r) ==
  \/ StartRun(r) \/ Reconcile(r) \/ ShowHash(r) \/ ReadQueue(r) \/ Claim(r)
  \/ Transfer(r) \/ RecordHash(r) \/ Wait(r) \/ HandleFailure(r) \/ EndRun(r)

Next ==
  \/ \E p \in Payouts : Enqueue(p)
  \/ \E r \in scene.runs : Step(r) \/ Crash(r)
  \/ \E hash \in DOMAIN sent : Decide(hash)

Spec == Init /\ [][Next]_vars

MaxSends == Max({s.sends : s \in Scenes})

\* The scheduler starts a run every minute and runs go on; the network decides
\* every transaction in the end.
FairSpec ==
  /\ Spec
  /\ \A r \in Runs : WF_vars(r \in scene.runs /\ Step(r))
  /\ \A hash \in 1..MaxSends : WF_vars(hash \in DOMAIN sent /\ Decide(hash))

-----------------------------------------------------------------------------
(* Properties *)

\* The transactions that have paid p or still may.
Live(p) == {hash \in DOMAIN sent : sent[hash].for = p /\ sent[hash].state \in {"pending", "mined"}}

\* "A row in BROADCAST is NEVER re-sent": no member is paid twice, nor in
\* danger of it, whatever runs overlap, die or time out.
NeverResent == \A p \in Payouts : Cardinality(Live(p)) <= 1

\* "Only a payout that provably did not happen is ever retried": nothing the
\* queue may pick up has a transaction that paid or may still pay.  And a
\* confirmed payout, like the transaction the member is shown, is one that was
\* mined and paid that very payout.
StatusMatchesChain ==
  \A p \in Payouts :
    /\ status[p] \in Retryable => Live(p) = {}
    /\ status[p] = "CONFIRMED" =>
         txHash[p] # 0 /\ sent[txHash[p]] = [for |-> p, state |-> "mined"]
    /\ shown[p] # 0 => sent[shown[p]] = [for |-> p, state |-> "mined"]

\* With a worker that stays up and a node that answers and drops nothing, every
\* approved payout is confirmed or ends where the watch job reports it.
EveryPayoutEnds ==
  \A p \in Payouts :
    status[p] = "QUEUED" /\ scene.faults = {"revert"} ~>
      status[p] = "CONFIRMED" \/ (status[p] \in {"FAILED", "REVERTED"} /\ attempts[p] >= Attempts)
=============================================================================

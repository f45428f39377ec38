----------------------------- MODULE Withdrawals -----------------------------
(***************************************************************************)
(* The life of a withdrawal: withdrawal.service.ts (request, approve,      *)
(* reject, markPayoutFailed), the operator's approval in                   *)
(* admin/finance.service.ts with its choice of payout rail, and the        *)
(* gateway's callbacks in core/gateway/gateway.service.ts.                 *)
(*                                                                         *)
(* A database transaction whose first statement is a guarded UPDATE is one *)
(* step here (Ledger.tla shows why that is sound for the postings).  What  *)
(* a handler awaits between two transactions, or between a read and a      *)
(* transaction, is a step of its own, and the process may die there.       *)
(***************************************************************************)
EXTENDS Integers, FiniteSets, FiniteSetsExt

CONSTANTS
  Members, Ids,       \* members and withdrawal rows
  Owner, Amount,      \* [Ids -> Members], [Ids -> Nat]
  Openings,           \* what a MAIN wallet may hold at the start
  KycLimit,           \* cfg.kycRequiredAbove
  Approvals,          \* approval requests operators may have in flight
  Handlers,           \* callback requests the API serves at a time
  Tracks,             \* payout ids the gateway may issue
  Deployments,        \* [chain : BOOLEAN, gateway : BOOLEAN, named : rail or "none"]
  None

ASSUME AmountsAssumption ==
  /\ Owner \in [Ids -> Members]
  /\ Amount \in [Ids -> Nat \ {0}]
  /\ Openings \subseteq Nat
  /\ KycLimit \in Nat
ASSUME DeploymentsAssumption ==
  Deployments \subseteq
    [chain : BOOLEAN, gateway : BOOLEAN, named : {"chain", "gateway", "manual", "none"}]
ASSUME NoneAssumption == None \notin Ids /\ None \notin Tracks

VARIABLES
  opening,        \* [Members -> Nat], what each MAIN wallet held at the start
  balance,        \* [Members -> Int], MAIN wallets
  posted,         \* ledger references posted: <<id, kind>>
  status,         \* withdrawals.status, "none" before the row exists
  checked,        \* ids whose request passed its checks and has not committed
  answered,       \* ids whose request was answered
  verified,       \* members with an approved KYC submission
  deployment,     \* what the environment configures
  gatewayOn,      \* the console's switch for OxaPay payouts
  approval,       \* [Approvals -> where each approval request is]
  track,          \* withdrawals.gatewayTrackId
  gatewayStatus,  \* withdrawals.gatewayStatus
  queued,         \* ids with a chain_payouts row
  byHand,         \* ids the console listed for manual payment
  settled,        \* ids the chain or the operator has paid
  payout,         \* [Tracks -> the gateway's own record]
  outbox,         \* callbacks the gateway has not had acknowledged
  handler         \* [Handlers -> where each callback request is]

money == <<balance, posted, status>>
console == <<opening, verified, deployment, gatewayOn>>
rails == <<queued, byHand, settled>>
external == <<payout, outbox>>
vars == <<money, checked, answered, console, approval, track, gatewayStatus,
          rails, external, handler>>

Statuses == {"none", "PENDING", "PROCESSED", "REJECTED", "FAILED"}
PayoutStates == {"unused", "processing", "confirmed", "canceled"}
Callback == [track : Tracks, status : PayoutStates \ {"unused"}]

TypeOK ==
  /\ opening \in [Members -> Openings]
  /\ balance \in [Members -> Int]
  /\ posted \subseteq Ids \X {"WDR", "REFUND", "GWFAIL"}
  /\ status \in [Ids -> Statuses]
  /\ checked \subseteq Ids /\ answered \subseteq Ids
  /\ verified \subseteq Members
  /\ deployment \in Deployments /\ gatewayOn \in BOOLEAN
  /\ approval \in [Approvals ->
       [pc : {"idle", "resolved", "claimed", "calling"},
        id : Ids \union {None}, rail : {"chain", "gateway", "manual"},
        track : Tracks \union {None}]]
  /\ track \in [Ids -> Tracks \union {None}]
  /\ gatewayStatus \in [Ids -> PayoutStates]
  /\ queued \subseteq Ids /\ byHand \subseteq Ids /\ settled \subseteq Ids
  /\ payout \in [Tracks -> [for : Ids \union {None}, state : PayoutStates]]
  /\ outbox \subseteq Callback
  /\ handler \in [Handlers ->
       [pc : {"idle", "matched"}, call : Callback \union {None}, id : Ids \union {None}]]

-----------------------------------------------------------------------------
NoApproval == [pc |-> "idle", id |-> None, rail |-> "manual", track |-> None]

Init ==
  /\ opening \in [Members -> Openings] /\ balance = opening
  /\ posted = {}
  /\ status = [id \in Ids |-> "none"]
  /\ checked = {} /\ answered = {}
  /\ verified = {}
  /\ deployment \in Deployments /\ gatewayOn = TRUE
  /\ approval = [a \in Approvals |-> NoApproval]
  /\ track = [id \in Ids |-> None]
  /\ gatewayStatus = [id \in Ids |-> "unused"]
  /\ queued = {} /\ byHand = {} /\ settled = {}
  /\ payout = [t \in Tracks |-> [for |-> None, state |-> "unused"]]
  /\ outbox = {}
  /\ handler = [h \in Handlers |-> [pc |-> "idle", call |-> None, id |-> None]]

-----------------------------------------------------------------------------
(* Requests *)

\* What assertVerified adds up: the member's withdrawals not refunded, all of
\* them inside its thirty-day window.
Outstanding(m) ==
  MapThenSumSet(LAMBDA id : Amount[id],
                {id \in Ids : Owner[id] = m /\ status[id] \in {"PENDING", "PROCESSED"}})

AssertVerified(id) ==
  \/ Owner[id] \in verified
  \/ Outstanding(Owner[id]) + Amount[id] <= KycLimit

\* request(), up to its transaction: the checks read committed rows.
CheckRequest(id) ==
  /\ status[id] = "none" /\ id \notin checked \union answered
  /\ IF AssertVerified(id)
     THEN checked' = checked \union {id} /\ UNCHANGED answered
     ELSE answered' = answered \union {id} /\ UNCHANGED checked
  /\ UNCHANGED <<money, console, approval, track, gatewayStatus, rails, external, handler>>

\* request()'s transaction: the guarded debit and the PENDING row, or neither.
CommitRequest(id) ==
  /\ id \in checked
  /\ checked' = checked \ {id} /\ answered' = answered \union {id}
  /\ IF balance[Owner[id]] >= Amount[id]
     THEN /\ balance' = [balance EXCEPT ![Owner[id]] = @ - Amount[id]]
          /\ posted' = posted \union {<<id, "WDR">>}
          /\ status' = [status EXCEPT ![id] = "PENDING"]
     ELSE UNCHANGED money
  /\ UNCHANGED <<console, approval, track, gatewayStatus, rails, external, handler>>

\* An operator approves the member's documents.
VerifyMember(m) ==
  /\ m \notin verified
  /\ verified' = verified \union {m}
  /\ UNCHANGED <<money, checked, answered, opening, deployment, gatewayOn, approval, track,
                 gatewayStatus, rails, external, handler>>

\* Return a withdrawal's full amount under a ledger reference of its own.
Refund(id, kind) ==
  /\ <<id, kind>> \notin posted
  /\ posted' = posted \union {<<id, kind>>}
  /\ balance' = [balance EXCEPT ![Owner[id]] = @ + Amount[id]]

\* Wrong variant: approved requests can be rejected too.
RejectApproved(id) ==
  /\ status[id] \in {"PENDING", "PROCESSED"}
  /\ status' = [status EXCEPT ![id] = "REJECTED"]
  /\ Refund(id, "REFUND")
  /\ UNCHANGED <<checked, answered, console, approval, track, gatewayStatus, rails,
                 external, handler>>

\* Wrong variant: the fee (here, one unit) is kept.
RejectNet(id) ==
  /\ status[id] = "PENDING"
  /\ status' = [status EXCEPT ![id] = "REJECTED"]
  /\ posted' = posted \union {<<id, "REFUND">>}
  /\ balance' = [balance EXCEPT ![Owner[id]] = @ + Amount[id] - 1]
  /\ UNCHANGED <<checked, answered, console, approval, track, gatewayStatus, rails,
                 external, handler>>

\* reject(): the transition out of PENDING is the lock, the refund rides with it.
Reject(id) ==
  /\ status[id] = "PENDING"
  /\ status' = [status EXCEPT ![id] = "REJECTED"]
  /\ Refund(id, "REFUND")
  /\ UNCHANGED <<checked, answered, console, approval, track, gatewayStatus, rails,
                 external, handler>>

-----------------------------------------------------------------------------
(* Approval *)

\* payoutRail(): the rails able to send, and the one that will.
Usable(d, on) ==
  {r \in {"chain", "gateway"} : IF r = "chain" THEN d.chain ELSE d.gateway /\ on}

PayoutRail(d, on) ==
  CASE d.named # "none" /\ d.named \in Usable(d, on) -> d.named
    [] d.named = "none" /\ Cardinality(Usable(d, on)) = 2 -> "ambiguous"
    [] d.named = "none" /\ Cardinality(Usable(d, on)) = 1 -> CHOOSE r \in Usable(d, on) : TRUE
    [] OTHER -> "manual"

\* The operator turns OxaPay payouts on or off in the console.
FlipSwitch ==
  /\ gatewayOn' = ~gatewayOn
  /\ UNCHANGED <<money, checked, answered, opening, verified, deployment, approval, track,
                 gatewayStatus, rails, external, handler>>

\* approveWithdrawal(), up to its first write: an operator approves a row, which
\* another may have decided since the page was loaded; an ambiguous
\* configuration throws before anything is written.
Resolve(a) ==
  /\ approval[a].pc = "idle"
  /\ \E id \in Ids :
       /\ status[id] # "none"
       /\ PayoutRail(deployment, gatewayOn) # "ambiguous"
       /\ approval' = [approval EXCEPT ![a] =
            [pc |-> "resolved", id |-> id, rail |-> PayoutRail(deployment, gatewayOn), track |-> None]]
  /\ UNCHANGED <<money, checked, answered, console, track, gatewayStatus, rails, external, handler>>

Finish(a) == approval' = [approval EXCEPT ![a] = NoApproval]

\* Wrong variant: the status read when the queue was opened is trusted.
ClaimUnguarded(a) ==
  /\ approval[a].pc = "resolved"
  /\ status' = [status EXCEPT ![approval[a].id] = "PROCESSED"]
  /\ approval' = [approval EXCEPT ![a].pc = "claimed"]
  /\ UNCHANGED <<balance, posted, checked, answered, console, track, gatewayStatus, rails,
                 external, handler>>

\* approve(): updateMany PENDING -> PROCESSED; a count of zero throws.
Claim(a) ==
  /\ approval[a].pc = "resolved"
  /\ IF status[approval[a].id] = "PENDING"
     THEN /\ status' = [status EXCEPT ![approval[a].id] = "PROCESSED"]
          /\ approval' = [approval EXCEPT ![a].pc = "claimed"]
     ELSE Finish(a) /\ UNCHANGED status
  /\ UNCHANGED <<balance, posted, checked, answered, console, track, gatewayStatus, rails,
                 external, handler>>

\* enqueue(): one chain_payouts row per withdrawal, whoever calls it.
Enqueue(a) ==
  /\ approval[a].pc = "claimed" /\ approval[a].rail = "chain"
  /\ queued' = queued \union {approval[a].id}
  /\ Finish(a)
  /\ UNCHANGED <<money, checked, answered, console, track, gatewayStatus, byHand, settled,
                 external, handler>>

\* No rail sends: the withdrawal is listed for payment by hand.
LeaveToOperator(a) ==
  /\ approval[a].pc = "claimed" /\ approval[a].rail = "manual"
  /\ byHand' = byHand \union {approval[a].id}
  /\ Finish(a)
  /\ UNCHANGED <<money, checked, answered, console, track, gatewayStatus, queued, settled,
                 external, handler>>

\* sendPayout(): the switch is read again; a payout already handed over is not
\* handed over twice; otherwise the gateway takes the request under a new track
\* id and its answer is on the way.
CallGateway(a) ==
  /\ approval[a].pc = "claimed" /\ approval[a].rail = "gateway"
  /\ IF deployment.gateway /\ gatewayOn /\ track[approval[a].id] = None
     THEN \E t \in Tracks :
            /\ payout[t].state = "unused"
            /\ payout' = [payout EXCEPT ![t] = [for |-> approval[a].id, state |-> "processing"]]
            /\ approval' = [approval EXCEPT ![a].pc = "calling", ![a].track = t]
     ELSE Finish(a) /\ UNCHANGED payout
  /\ UNCHANGED <<money, checked, answered, console, track, gatewayStatus, rails, outbox, handler>>

\* sendPayout()'s last statement: the answer arrived and is stored.
StoreTrack(a) ==
  /\ approval[a].pc = "calling"
  /\ track' = [track EXCEPT ![approval[a].id] = approval[a].track]
  /\ gatewayStatus' = [gatewayStatus EXCEPT ![approval[a].id] = "processing"]
  /\ Finish(a)
  /\ UNCHANGED <<money, checked, answered, console, rails, external, handler>>

\* The API process dies, or the gateway's answer is lost and the catch in
\* approveWithdrawal logs it: either way the approval goes no further.
ApprovalStops(a) ==
  /\ approval[a].pc \in {"resolved", "claimed", "calling"}
  /\ Finish(a)
  /\ UNCHANGED <<money, checked, answered, console, track, gatewayStatus, rails, external, handler>>

-----------------------------------------------------------------------------
(* The outside: the chain worker (ChainPayouts.tla), the operator's own     *)
(* wallet, the gateway.                                                     *)

PayOnChain(id) ==
  /\ id \in queued \ settled
  /\ settled' = settled \union {id}
  /\ UNCHANGED <<money, checked, answered, console, approval, track, gatewayStatus, queued,
                 byHand, external, handler>>

PayByHand(id) ==
  /\ id \in byHand \ settled
  /\ settled' = settled \union {id}
  /\ UNCHANGED <<money, checked, answered, console, approval, track, gatewayStatus, queued,
                 byHand, external, handler>>

\* The gateway reports progress, or ends the payout one way or the other, and
\* sends a callback for it.
GatewayReports(t) ==
  /\ payout[t].state = "processing"
  /\ \E s \in {"processing", "confirmed", "canceled"} :
       /\ payout' = [payout EXCEPT ![t].state = s]
       /\ outbox' = outbox \union {[track |-> t, status |-> s]}
  /\ UNCHANGED <<money, checked, answered, console, approval, track, gatewayStatus, rails, handler>>

\* handleCallback() for a track no withdrawal holds: logged, answered 200, so
\* the gateway has no reason to send it again.
CallbackUnknown(c) ==
  /\ c \in outbox
  /\ \A id \in Ids : track[id] # c.track
  /\ outbox' = outbox \ {c}
  /\ UNCHANGED <<money, checked, answered, console, approval, track, gatewayStatus, rails,
                 payout, handler>>

\* Wrong variant: acknowledged before it is applied.
CallbackMatchedEarly(h, c) ==
  /\ c \in outbox
  /\ handler[h].pc = "idle"
  /\ \E id \in Ids :
       /\ track[id] = c.track
       /\ gatewayStatus' = [gatewayStatus EXCEPT ![id] = c.status]
       /\ handler' = [handler EXCEPT ![h] = [pc |-> "matched", call |-> c, id |-> id]]
  /\ outbox' = outbox \ {c}
  /\ UNCHANGED <<money, checked, answered, console, approval, track, rails, payout>>

\* applyPayout(), first half: match the row and store what the gateway said.
CallbackMatched(h, c) ==
  /\ c \in outbox
  /\ handler[h].pc = "idle"
  /\ \E id \in Ids :
       /\ track[id] = c.track
       /\ gatewayStatus' = [gatewayStatus EXCEPT ![id] = c.status]
       /\ handler' = [handler EXCEPT ![h] = [pc |-> "matched", call |-> c, id |-> id]]
  /\ UNCHANGED <<money, checked, answered, console, approval, track, rails, external>>

\* Wrong variant: only the status is written, nothing is refunded.
MarkPayoutFailedUnrefunded(id) ==
  /\ status' = [status EXCEPT ![id] = IF @ = "PROCESSED" THEN "FAILED" ELSE @]
  /\ UNCHANGED <<balance, posted>>

\* markPayoutFailed(): PROCESSED -> FAILED is the lock, the refund rides with it.
MarkPayoutFailed(id) ==
  IF status[id] = "PROCESSED"
  THEN /\ status' = [status EXCEPT ![id] = "FAILED"]
       /\ Refund(id, "GWFAIL")
  ELSE UNCHANGED money

\* applyPayout(), second half, and the answer, which the gateway may not get.
FinishCallback(h) ==
  /\ handler[h].pc = "matched"
  /\ IF handler[h].call.status = "canceled"
     THEN MarkPayoutFailed(handler[h].id)
     ELSE UNCHANGED money
  /\ outbox' \in {outbox, outbox \ {handler[h].call}}
  /\ handler' = [handler EXCEPT ![h] = [pc |-> "idle", call |-> None, id |-> None]]
  /\ UNCHANGED <<checked, answered, console, approval, track, gatewayStatus, rails, payout>>

\* The API process dies between the two halves; the callback stays unanswered.
HandlerDies(h) ==
  /\ handler[h].pc = "matched"
  /\ handler' = [handler EXCEPT ![h] = [pc |-> "idle", call |-> None, id |-> None]]
  /\ UNCHANGED <<money, checked, answered, console, approval, track, gatewayStatus, rails, external>>

-----------------------------------------------------------------------------
Next ==
  \/ \E id \in Ids : CheckRequest(id) \/ CommitRequest(id) \/ Reject(id)
                     \/ PayOnChain(id) \/ PayByHand(id)
  \/ \E m \in Members : VerifyMember(m)
  \/ FlipSwitch
  \/ \E a \in Approvals : \/ Resolve(a) \/ Claim(a) \/ Enqueue(a) \/ LeaveToOperator(a)
                          \/ CallGateway(a) \/ StoreTrack(a) \/ ApprovalStops(a)
  \/ \E t \in Tracks : GatewayReports(t)
  \/ \E c \in outbox : CallbackUnknown(c) \/ \E h \in Handlers : CallbackMatched(h, c)
  \/ \E h \in Handlers : FinishCallback(h) \/ HandlerDies(h)

Spec == Init /\ [][Next]_vars

-----------------------------------------------------------------------------
(* Properties *)

\* The ledger tells the same story as the status: one debit once accepted, one
\* refund, of the right kind, once rejected or failed, and nothing else.
MoneyMatchesStatus ==
  \A id \in Ids :
    {kind \in {"WDR", "REFUND", "GWFAIL"} : <<id, kind>> \in posted} =
      CASE status[id] = "none" -> {}
        [] status[id] \in {"PENDING", "PROCESSED"} -> {"WDR"}
        [] status[id] = "REJECTED" -> {"WDR", "REFUND"}
        [] status[id] = "FAILED" -> {"WDR", "GWFAIL"}

\* A member's wallet is short by exactly what the member has out.
Conservation ==
  \A m \in Members : balance[m] >= 0 /\ balance[m] + Outstanding(m) = opening[m]

\* However many operators approve at once and whatever is reconfigured in
\* between, a withdrawal is handed to one rail, once (core/payout-rail.ts).
OneHandover ==
  \A id \in Ids :
    /\ \A t, u \in Tracks : payout[t].for = id /\ payout[u].for = id => t = u
    /\ \A t \in Tracks : payout[t].for = id => id \notin queued \union byHand
    /\ id \notin queued \intersect byHand

Paid(id) == id \in settled \/ \E t \in Tracks : payout[t].for = id /\ payout[t].state = "confirmed"

\* Held, then sent or returned, never both.
Outcome(id) ==
  CASE status[id] = "none" -> "none"
    [] status[id] \in {"PENDING", "PROCESSED"} -> IF Paid(id) THEN "sent" ELSE "held"
    [] status[id] \in {"REJECTED", "FAILED"} -> IF Paid(id) THEN "both" ELSE "returned"

Promise == INSTANCE WithdrawalPromise WITH outcome <- [id \in Ids |-> Outcome(id)]
ImplementsPromise == Promise!Spec

\* A refusal the platform has stored and not yet refunded has not been
\* acknowledged: whatever dies in between, the gateway will repeat it.
RefusalIsNotForgotten ==
  \A id \in Ids :
    gatewayStatus[id] = "canceled" /\ status[id] = "PROCESSED" =>
      [track |-> track[id], status |-> "canceled"] \in outbox
=============================================================================

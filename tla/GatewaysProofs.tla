--------------------------- MODULE GatewaysProofs ---------------------------
(***************************************************************************)
(* What Withdrawals and Deposits promise, for any members, amounts, rails, *)
(* operators, providers and callbacks.                                     *)
(*                                                                         *)
(* Withdrawals: money follows the status because the guarded update and    *)
(* the posting are one transaction; a withdrawal is handed over once       *)
(* because the claim is exclusive and is the only way to a rail; and it is *)
(* never both sent and returned because a refund after approval needs a    *)
(* payout of this very withdrawal that the gateway has ended.              *)
(*                                                                         *)
(* Deposits: a row is credited for the invoice it was raised with, because *)
(* an invoice can be paid only once its id is stored with the row; and no  *)
(* callback that was paid is answered while its row is pending.            *)
(***************************************************************************)
EXTENDS MCGateways, FiniteSetTheorems, WellFoundedInduction, TLAPS

-----------------------------------------------------------------------------
(* Withdrawals *)

\* MoneyMatchesStatus, one kind of entry after the other.
EntriesFollowStatus ==
  \A id \in Ids :
    /\ <<id, "WDR">> \in posted <=> status[id] # "none"
    /\ <<id, "REFUND">> \in posted <=> status[id] = "REJECTED"
    /\ <<id, "GWFAIL">> \in posted <=> status[id] = "FAILED"

\* What TypeOK says of one approval.
ApprovalRecord ==
  [pc : {"idle", "resolved", "claimed", "calling"}, id : Ids \union {None},
   rail : {"chain", "gateway", "manual"}, track : Tracks \union {None}]

CheckedIsNew == \A id \in checked : status[id] = "none"

\* Requests that are under way are about a withdrawal.
RowsAreKnown ==
  /\ \A a \in Approvals : approval[a].pc # "idle" => approval[a].id \in Ids
  /\ \A a \in Approvals : approval[a].pc = "calling" => approval[a].track \in Tracks
  /\ \A h \in Handlers : handler[h].pc = "matched" => handler[h].id \in Ids /\ handler[h].call \in Callback

Holds(a) == approval[a].pc \in {"claimed", "calling"}
HandedOver(id) == id \in queued \union byHand \/ \E t \in Tracks : payout[t].for = id
Decided(id) == status[id] \in {"PROCESSED", "FAILED"}

\* One approval at most has a withdrawal to hand over, and it still has to.
ClaimIsExclusive ==
  /\ \A a \in Approvals : Holds(a) => Decided(approval[a].id)
  /\ \A a, b \in Approvals : Holds(a) /\ Holds(b) /\ approval[a].id = approval[b].id => a = b
  /\ \A a \in Approvals : approval[a].pc = "claimed" => ~HandedOver(approval[a].id)
  /\ \A id \in Ids : HandedOver(id) => Decided(id)

\* A track id belongs to one withdrawal, and what is said of it is so.
TracksAgree ==
  /\ \A t \in Tracks : payout[t].state = "unused" => payout[t].for = None
  /\ \A a \in Approvals : approval[a].pc = "calling" => payout[approval[a].track].for = approval[a].id
  /\ \A id \in Ids : track[id] # None => payout[track[id]].for = id
  /\ \A c \in outbox : c.status = "canceled" => payout[c.track].state = "canceled"
  /\ \A h \in Handlers : handler[h].pc = "matched" =>
       /\ payout[handler[h].call.track].for = handler[h].id
       /\ handler[h].call.status = "canceled" => payout[handler[h].call.track].state = "canceled"

SettledWasHandedOver == settled \subseteq queued \union byHand

FailedWasCanceled ==
  \A id \in Ids : status[id] = "FAILED" =>
    \E t \in Tracks : payout[t].for = id /\ payout[t].state = "canceled"

IInv ==
  /\ TypeOK /\ EntriesFollowStatus /\ CheckedIsNew /\ RowsAreKnown /\ ClaimIsExclusive
  /\ OneHandover /\ TracksAgree /\ SettledWasHandedOver /\ FailedWasCanceled

USE DEF Holds, HandedOver, Decided

-----------------------------------------------------------------------------
\* Nothing has been asked for, approved or sent.
LEMMA InitInvariant == Init => IInv
<1> SUFFICES ASSUME Init PROVE IInv
  OBVIOUS
<1>0. balance \in [Members -> Int]
  <2>1. Openings \subseteq Int
    BY AmountsAssumption
  <2>2. opening \in [Members -> Openings] /\ balance = opening
    BY DEF Init
  <2> QED
    BY <2>1, <2>2
<1> USE NoneAssumption DEF Init, NoApproval
<1>1. TypeOK
  <2>2. approval \in [Approvals -> ApprovalRecord]
    BY DEF ApprovalRecord
  <2>3. payout \in [Tracks -> [for : Ids \union {None}, state : PayoutStates]]
    BY DEF PayoutStates
  <2>4. status \in [Ids -> Statuses] /\ gatewayStatus \in [Ids -> PayoutStates]
    BY DEF Statuses, PayoutStates
  <2> QED
    BY <1>0, <2>2, <2>3, <2>4 DEF TypeOK, ApprovalRecord
<1>2. EntriesFollowStatus /\ CheckedIsNew /\ RowsAreKnown
  BY DEF EntriesFollowStatus, CheckedIsNew, RowsAreKnown
<1>3. ClaimIsExclusive /\ OneHandover /\ TracksAgree
  BY DEF ClaimIsExclusive, OneHandover, TracksAgree
<1>4. SettledWasHandedOver /\ FailedWasCanceled
  BY DEF SettledWasHandedOver, FailedWasCanceled
<1> QED
  BY <1>1, <1>2, <1>3, <1>4 DEF IInv

\* What is decided before the transaction of a request touches no money.
LEMMA ChecksInvariant ==
  ASSUME IInv,
         \/ \E id \in Ids : CheckRequest(id)
         \/ \E m \in Members : VerifyMember(m)
         \/ FlipSwitch
  PROVE  IInv'
<1> USE DEF IInv, CheckRequest, VerifyMember, FlipSwitch
<1>1. UNCHANGED <<money, approval, track, gatewayStatus, rails, external, handler, opening, deployment>>
  BY DEF console
<1> USE DEF money, rails, external
<1>2. TypeOK'
  <2>1. CASE \E id \in Ids : CheckRequest(id)
    BY <2>1 DEF TypeOK, console
  <2>2. CASE \E m \in Members : VerifyMember(m)
    BY <2>2 DEF TypeOK
  <2>3. CASE FlipSwitch
    BY <2>3 DEF TypeOK
  <2> QED
    BY <2>1, <2>2, <2>3
<1>3. CheckedIsNew'
  BY <1>1 DEF TypeOK, CheckedIsNew
<1>4. EntriesFollowStatus' /\ RowsAreKnown' /\ ClaimIsExclusive' /\ OneHandover' /\ TracksAgree'
      /\ SettledWasHandedOver' /\ FailedWasCanceled'
  BY <1>1 DEF EntriesFollowStatus, RowsAreKnown, ClaimIsExclusive, OneHandover, TracksAgree,
              SettledWasHandedOver, FailedWasCanceled
<1> QED
  BY <1>2, <1>3, <1>4

\* The row and its debit appear together, before anybody can decide on it.
LEMMA CommitRequestInvariant ==
  ASSUME IInv, NEW id \in Ids, CommitRequest(id)
  PROVE  IInv'
<1> USE AmountsAssumption DEF IInv, CommitRequest, money, rails, external
<1>1. UNCHANGED <<opening, verified, deployment, gatewayOn, approval, track, gatewayStatus, queued,
                  byHand, settled, payout, outbox, handler>>
  BY DEF console
<1>2. /\ \/ UNCHANGED <<posted, status>>
         \/ posted' = posted \union {<<id, "WDR">>} /\ status' = [status EXCEPT ![id] = "PENDING"]
      /\ status[id] = "none" /\ checked' = checked \ {id} /\ answered' = answered \union {id}
      /\ balance' \in [Members -> Int]
  BY DEF TypeOK, CheckedIsNew
<1>3. TypeOK'
  BY SMTT(30), <1>1, <1>2 DEF TypeOK, Statuses
<1>4. EntriesFollowStatus' /\ CheckedIsNew'
  BY <1>2 DEF TypeOK, EntriesFollowStatus, CheckedIsNew
<1>5. \A i \in Ids : Decided(i)' <=> Decided(i)
  BY <1>2 DEF TypeOK
<1>6. RowsAreKnown' /\ ClaimIsExclusive'
  BY <1>1, <1>5 DEF RowsAreKnown, ClaimIsExclusive
<1>7. OneHandover' /\ TracksAgree' /\ SettledWasHandedOver'
  BY <1>1 DEF OneHandover, TracksAgree, SettledWasHandedOver
<1>8. FailedWasCanceled'
  BY <1>1, <1>2 DEF TypeOK, FailedWasCanceled
<1> QED
  BY <1>3, <1>4, <1>6, <1>7, <1>8

\* A PENDING row has no approval at work on it and is on no rail.
LEMMA RejectInvariant ==
  ASSUME IInv, NEW id \in Ids, Reject(id)
  PROVE  IInv'
<1> USE AmountsAssumption DEF IInv, Reject, Refund, money, rails, external
<1>1. UNCHANGED <<checked, answered, opening, verified, deployment, gatewayOn, approval, track,
                  gatewayStatus, queued, byHand, settled, payout, outbox, handler>>
  BY DEF console
<1>2. /\ posted' = posted \union {<<id, "REFUND">>} /\ status' = [status EXCEPT ![id] = "REJECTED"]
      /\ status[id] = "PENDING" /\ balance' \in [Members -> Int]
  <2>1. Owner[id] \in Members /\ Amount[id] \in Int
    OBVIOUS
  <2> QED
    BY <2>1 DEF TypeOK
<1>3. TypeOK'
  BY <1>1, <1>2 DEF TypeOK, Statuses
<1>4. EntriesFollowStatus' /\ CheckedIsNew'
  BY <1>1, <1>2 DEF TypeOK, EntriesFollowStatus, CheckedIsNew
<1>5. \A i \in Ids : Decided(i)' <=> Decided(i)
  BY <1>2 DEF TypeOK
<1>6. RowsAreKnown' /\ ClaimIsExclusive'
  BY <1>1, <1>5 DEF RowsAreKnown, ClaimIsExclusive
<1>7. OneHandover' /\ TracksAgree' /\ SettledWasHandedOver'
  BY <1>1 DEF OneHandover, TracksAgree, SettledWasHandedOver
<1>8. FailedWasCanceled'
  BY <1>1, <1>2 DEF TypeOK, FailedWasCanceled
<1> QED
  BY <1>3, <1>4, <1>6, <1>7, <1>8

\* Of the configurations, only an ambiguous one names no rail.
LEMMA RailIsNamed ==
  ASSUME TypeOK, PayoutRail(deployment, gatewayOn) # "ambiguous"
  PROVE  PayoutRail(deployment, gatewayOn) \in {"chain", "gateway", "manual"}
<1> DEFINE U == Usable(deployment, gatewayOn)
<1>1. U \subseteq {"chain", "gateway"}
  BY DEF Usable
<1>2. Cardinality(U) = 1 => U # {}
  BY FS_EmptySet
<1>3. (CHOOSE r \in U : TRUE) \in U \/ Cardinality(U) # 1
  BY <1>2
<1> HIDE DEF U
<1> QED
  BY <1>1, <1>3 DEF PayoutRail, U

\* An approval that is read, or that ends without a hand-over, has no claim to lose.
LEMMA ApprovalInvariant ==
  ASSUME IInv, NEW a \in Approvals, Resolve(a) \/ ApprovalStops(a)
  PROVE  IInv'
<1> USE NoneAssumption DEF IInv, NoApproval, money, rails, external
<1>1. UNCHANGED <<balance, posted, status, checked, answered, console, track, gatewayStatus, queued,
                  byHand, settled, payout, outbox, handler>>
  BY DEF Resolve, ApprovalStops
<1>2. PICK new \in ApprovalRecord :
        /\ approval' = [approval EXCEPT ![a] = new]
        /\ new.pc \in {"idle", "resolved"} /\ (new.pc = "resolved" => new.id \in Ids)
  <2>1. CASE Resolve(a)
    <3> DEFINE rail == PayoutRail(deployment, gatewayOn)
               new(id) == [pc |-> "resolved", id |-> id, rail |-> rail, track |-> None]
    <3>1. PICK id \in Ids : rail # "ambiguous" /\ approval' = [approval EXCEPT ![a] = new(id)]
      BY <2>1 DEF Resolve
    <3>2. rail \in {"chain", "gateway", "manual"}
      BY <3>1, RailIsNamed
    <3> HIDE DEF rail
    <3>3. new(id) \in ApprovalRecord /\ new(id).pc = "resolved" /\ new(id).id = id
      BY <3>2 DEF ApprovalRecord
    <3> QED
      BY <3>1, <3>3
  <2>2. CASE ApprovalStops(a)
    <3>1. approval' = [approval EXCEPT ![a] = NoApproval]
      BY <2>2 DEF ApprovalStops, Finish
    <3>2. NoApproval \in ApprovalRecord
      BY DEF ApprovalRecord
    <3> QED
      BY <3>1, <3>2
  <2> QED
    BY <2>1, <2>2
<1>3. approval'[a] = new /\ \A b \in Approvals \ {a} : approval'[b] = approval[b]
  BY <1>2 DEF TypeOK
<1>4. TypeOK'
  <2>1. approval' \in [Approvals -> ApprovalRecord]
    BY <1>2 DEF TypeOK, ApprovalRecord
  <2> QED
    BY <1>1, <2>1 DEF TypeOK, ApprovalRecord, console
<1>5. RowsAreKnown' /\ ClaimIsExclusive'
  BY <1>1, <1>2, <1>3 DEF RowsAreKnown, ClaimIsExclusive
<1>6. TracksAgree'
  BY <1>1, <1>2, <1>3 DEF TracksAgree
<1>7. EntriesFollowStatus' /\ CheckedIsNew' /\ OneHandover' /\ SettledWasHandedOver' /\ FailedWasCanceled'
  BY <1>1 DEF EntriesFollowStatus, CheckedIsNew, OneHandover, SettledWasHandedOver, FailedWasCanceled
<1> QED
  BY <1>4, <1>5, <1>6, <1>7

\* The guard makes the claim exclusive: a PENDING row is on no rail, and nobody
\* has it to hand over.
LEMMA ClaimInvariant ==
  ASSUME IInv, NEW a \in Approvals, Claim(a)
  PROVE  IInv'
<1> USE NoneAssumption DEF IInv, money, rails, external
<1> DEFINE id == approval[a].id
<1>1. /\ UNCHANGED <<balance, posted, checked, answered, console, track, gatewayStatus, queued,
                     byHand, settled, payout, outbox, handler>>
      /\ approval[a].pc = "resolved" /\ id \in Ids
  BY DEF Claim, RowsAreKnown
<1>2. CASE status[id] = "PENDING"
  <2>1. /\ status' = [status EXCEPT ![id] = "PROCESSED"]
        /\ approval' = [approval EXCEPT ![a].pc = "claimed"]
    BY <1>2 DEF Claim
  <2>2. /\ approval'[a] = [approval[a] EXCEPT !.pc = "claimed"]
        /\ \A b \in Approvals \ {a} : approval'[b] = approval[b]
        /\ status'[id] = "PROCESSED" /\ \A i \in Ids \ {id} : status'[i] = status[i]
    BY <1>1, <2>1 DEF TypeOK
  <2>3. TypeOK'
    <3>0. approval \in [Approvals -> ApprovalRecord] /\ approval[a] \in ApprovalRecord
      BY DEF TypeOK, ApprovalRecord
    <3>1. approval' \in [Approvals -> ApprovalRecord]
      <4>1. [approval[a] EXCEPT !.pc = "claimed"] \in ApprovalRecord
        BY <3>0 DEF ApprovalRecord
      <4> HIDE DEF IInv
      <4> QED
        BY <2>1, <3>0, <4>1
    <3>2. status' \in [Ids -> Statuses]
      BY <2>1 DEF TypeOK, Statuses
    <3> QED
      BY <1>1, <3>1, <3>2 DEF TypeOK, ApprovalRecord, console
  <2>4. EntriesFollowStatus' /\ CheckedIsNew' /\ FailedWasCanceled'
    <3>1. EntriesFollowStatus'
      BY <1>1, <1>2, <2>2 DEF EntriesFollowStatus
    <3>2. CheckedIsNew'
      BY <1>1, <1>2, <2>2 DEF TypeOK, CheckedIsNew
    <3>3. FailedWasCanceled'
      BY <1>1, <2>2 DEF FailedWasCanceled
    <3> QED
      BY <3>1, <3>2, <3>3
  <2>5. RowsAreKnown' /\ TracksAgree'
    BY SMTT(30), <1>1, <2>2 DEF TypeOK, RowsAreKnown, TracksAgree
  <2>6. ClaimIsExclusive'
    <3>1. ~Decided(id) /\ ~HandedOver(id)
      BY <1>1, <1>2 DEF ClaimIsExclusive
    <3>2. \A b \in Approvals : Holds(b)' <=> Holds(b) \/ b = a
      BY <2>2 DEF TypeOK
    <3>3. \A b \in Approvals : approval'[b].id = approval[b].id
      BY <2>2 DEF TypeOK
    <3>4. \A b \in Approvals : Holds(b) => approval[b].id \in Ids \ {id}
      BY <3>1 DEF RowsAreKnown, ClaimIsExclusive
    <3>5. \A i \in Ids : HandedOver(i)' <=> HandedOver(i)
      BY <1>1
    <3>6. /\ \A b \in Approvals : Holds(b)' => Decided(approval[b].id)'
          /\ \A b, c \in Approvals : Holds(b)' /\ Holds(c)' /\ approval[b].id = approval[c].id => b = c
      <4>1. ASSUME NEW b \in Approvals, Holds(b)' PROVE status'[approval[b].id] \in {"PROCESSED", "FAILED"}
        <5>1. CASE b = a
          BY <2>2, <5>1
        <5>2. CASE b # a
          BY <2>2, <3>2, <3>4, <4>1, <5>2 DEF ClaimIsExclusive
        <5> QED
          BY <5>1, <5>2
      <4>2. ASSUME NEW b \in Approvals, NEW c \in Approvals, Holds(b)', Holds(c)',
                   approval[b].id = approval[c].id
            PROVE  b = c
        <5>1. (Holds(b) \/ b = a) /\ (Holds(c) \/ c = a)
          BY <3>2, <4>2
        <5>2. (Holds(b) => approval[b].id # id) /\ (Holds(c) => approval[c].id # id)
          BY <3>4
        <5>3. CASE Holds(b) /\ Holds(c)
          BY <4>2, <5>3 DEF ClaimIsExclusive
        <5> HIDE DEF Holds
        <5> QED
          BY <4>2, <5>1, <5>2, <5>3
      <4> QED
        BY <3>3, <4>1, <4>2
    <3>7. \A b \in Approvals : approval'[b].pc = "claimed" => ~HandedOver(approval[b].id)
      BY <2>2, <3>1 DEF ClaimIsExclusive
    <3>8. \A i \in Ids : HandedOver(i) => Decided(i)'
      BY <2>2, <3>1 DEF ClaimIsExclusive
    <3> QED
      BY <1>1, <3>3, <3>6, <3>7, <3>8 DEF ClaimIsExclusive
  <2>7. OneHandover' /\ SettledWasHandedOver'
    BY <1>1 DEF OneHandover, SettledWasHandedOver
  <2> QED
    BY <2>3, <2>4, <2>5, <2>6, <2>7
<1>3. CASE status[id] # "PENDING"
  <2>1. /\ UNCHANGED status
        /\ approval' = [approval EXCEPT ![a] = NoApproval]
    BY <1>3 DEF Claim, Finish
  <2>2. approval'[a] = NoApproval /\ \A b \in Approvals \ {a} : approval'[b] = approval[b]
    BY <2>1 DEF TypeOK
  <2>3. TypeOK'
    BY <1>1, <2>1 DEF TypeOK, NoApproval, console
  <2>4. EntriesFollowStatus' /\ CheckedIsNew' /\ FailedWasCanceled'
    BY <1>1, <2>1 DEF EntriesFollowStatus, CheckedIsNew, FailedWasCanceled
  <2>5. RowsAreKnown' /\ TracksAgree' /\ ClaimIsExclusive'
    BY <1>1, <2>1, <2>2 DEF NoApproval, RowsAreKnown, TracksAgree, ClaimIsExclusive
  <2>6. OneHandover' /\ SettledWasHandedOver'
    BY <1>1 DEF OneHandover, SettledWasHandedOver
  <2> QED
    BY <2>3, <2>4, <2>5, <2>6
<1> QED
  BY <1>2, <1>3

\* A claimed withdrawal goes to the queue of the hot wallet or to the operator,
\* and the approval is over.
LEMMA QueueInvariant ==
  ASSUME IInv, NEW a \in Approvals, Enqueue(a) \/ LeaveToOperator(a)
  PROVE  IInv'
<1> USE NoneAssumption DEF IInv, money, rails, external
<1> DEFINE id == approval[a].id
<1>1. /\ UNCHANGED <<balance, posted, status, checked, answered, console, track, gatewayStatus,
                     settled, payout, outbox, handler>>
      /\ approval[a].pc = "claimed" /\ id \in Ids
      /\ approval' = [approval EXCEPT ![a] = NoApproval]
      /\ \/ queued' = queued \union {id} /\ byHand' = byHand
         \/ queued' = queued /\ byHand' = byHand \union {id}
  BY DEF Enqueue, LeaveToOperator, Finish, RowsAreKnown
<1>2. approval'[a] = NoApproval /\ \A b \in Approvals \ {a} : approval'[b] = approval[b]
  BY <1>1 DEF TypeOK
<1>3. ~HandedOver(id) /\ Decided(id)
  BY <1>1 DEF ClaimIsExclusive
<1>4. TypeOK'
  BY <1>1 DEF TypeOK, NoApproval, console
<1>5. EntriesFollowStatus' /\ CheckedIsNew' /\ FailedWasCanceled'
  BY <1>1 DEF EntriesFollowStatus, CheckedIsNew, FailedWasCanceled
<1>6. RowsAreKnown' /\ TracksAgree'
  BY <1>1, <1>2 DEF NoApproval, RowsAreKnown, TracksAgree
<1>7. \A i \in Ids : HandedOver(i)' <=> HandedOver(i) \/ i = id
  BY <1>1
<1>8. ClaimIsExclusive'
  BY <1>1, <1>2, <1>3, <1>7 DEF NoApproval, ClaimIsExclusive
<1>9. OneHandover' /\ SettledWasHandedOver'
  BY <1>1, <1>3 DEF OneHandover, SettledWasHandedOver
<1> QED
  BY <1>4, <1>5, <1>6, <1>8, <1>9

\* The gateway takes a payout under a track id that stood for nothing.
LEMMA CallGatewayInvariant ==
  ASSUME IInv, NEW a \in Approvals, CallGateway(a)
  PROVE  IInv'
<1> USE NoneAssumption DEF IInv, money, rails, external
<1> DEFINE id == approval[a].id
<1>1. /\ UNCHANGED <<balance, posted, status, checked, answered, console, track, gatewayStatus,
                     queued, byHand, settled, outbox, handler>>
      /\ approval[a].pc = "claimed" /\ id \in Ids
  BY DEF CallGateway, RowsAreKnown
<1>2. ~HandedOver(id) /\ Decided(id)
  BY <1>1 DEF ClaimIsExclusive
<1>3. EntriesFollowStatus' /\ CheckedIsNew' /\ SettledWasHandedOver'
  BY <1>1 DEF EntriesFollowStatus, CheckedIsNew, SettledWasHandedOver
<1>4. CASE UNCHANGED payout /\ approval' = [approval EXCEPT ![a] = NoApproval]
  <2>1. approval'[a] = NoApproval /\ \A b \in Approvals \ {a} : approval'[b] = approval[b]
    BY <1>4 DEF TypeOK
  <2>2. TypeOK'
    BY <1>1, <1>4 DEF TypeOK, NoApproval, console
  <2>3. RowsAreKnown' /\ TracksAgree' /\ ClaimIsExclusive'
    BY <1>1, <1>4, <2>1 DEF NoApproval, RowsAreKnown, TracksAgree, ClaimIsExclusive
  <2>4. OneHandover' /\ FailedWasCanceled'
    BY <1>1, <1>4 DEF OneHandover, FailedWasCanceled
  <2> QED
    BY <1>3, <2>2, <2>3, <2>4
<1>5. ASSUME NEW t \in Tracks, payout[t].state = "unused",
             payout' = [payout EXCEPT ![t] = [for |-> id, state |-> "processing"]],
             approval' = [approval EXCEPT ![a].pc = "calling", ![a].track = t]
      PROVE  IInv'
  <2>1. /\ approval'[a] = [approval[a] EXCEPT !.pc = "calling", !.track = t]
        /\ \A b \in Approvals \ {a} : approval'[b] = approval[b]
        /\ payout'[t] = [for |-> id, state |-> "processing"]
        /\ \A u \in Tracks \ {t} : payout'[u] = payout[u]
        /\ payout[t].for = None
    BY <1>5 DEF TypeOK, TracksAgree
  <2>2. TypeOK'
    <3>0. approval \in [Approvals -> ApprovalRecord] /\ approval[a] \in ApprovalRecord
      BY DEF TypeOK, ApprovalRecord
    <3>1. approval' \in [Approvals -> ApprovalRecord]
      <4>1. [approval[a] EXCEPT !.pc = "calling", !.track = t] \in ApprovalRecord
        BY <3>0 DEF ApprovalRecord
      <4> QED
        BY <1>5, <3>0, <4>1
    <3>2. payout' \in [Tracks -> [for : Ids \union {None}, state : PayoutStates]]
      BY <1>1, <1>5 DEF TypeOK, PayoutStates
    <3> QED
      BY <1>1, <3>1, <3>2 DEF TypeOK, ApprovalRecord, console
  <2>3. RowsAreKnown'
    BY <1>1, <1>5, <2>1 DEF TypeOK, RowsAreKnown
  <2>4. \A i \in Ids : HandedOver(i)' <=> HandedOver(i) \/ i = id
    BY <1>1, <2>1
  <2>5. ClaimIsExclusive'
    <3>0. approval'[a].pc = "calling" /\ approval'[a].id = id
      BY <2>1 DEF TypeOK
    <3>1. \A b \in Approvals : (Holds(b)' <=> Holds(b)) /\ approval'[b].id = approval[b].id
      BY <1>1, <2>1, <3>0
    <3>s. status' = status
      BY <1>1
    <3>2. /\ \A b \in Approvals : Holds(b) => status'[approval[b].id] \in {"PROCESSED", "FAILED"}
          /\ \A b, c \in Approvals : Holds(b) /\ Holds(c) /\ approval[b].id = approval[c].id => b = c
      BY <3>s DEF ClaimIsExclusive
    <3>3. \A b \in Approvals : approval'[b].pc = "claimed" =>
            b # a /\ approval[b].id \in Ids \ {id} /\ ~HandedOver(approval[b].id)
      <4> SUFFICES ASSUME NEW b \in Approvals, approval'[b].pc = "claimed"
                   PROVE  b # a /\ approval[b].id \in Ids \ {id} /\ ~HandedOver(approval[b].id)
        OBVIOUS
      <4>1. b # a /\ approval[b].pc = "claimed"
        BY <2>1, <3>0
      <4>2. approval[b].id \in Ids /\ approval[b].id # id
        BY <1>1, <4>1 DEF RowsAreKnown, ClaimIsExclusive
      <4>3. ~HandedOver(approval[b].id)
        BY <4>1 DEF ClaimIsExclusive
      <4> QED
        BY <4>1, <4>2, <4>3
    <3>4. \A b \in Approvals : approval'[b].pc = "claimed" => ~HandedOver(approval[b].id)'
      <4> SUFFICES ASSUME NEW b \in Approvals, approval'[b].pc = "claimed"
                   PROVE  ~HandedOver(approval[b].id)'
        OBVIOUS
      <4>1. approval'[b].id = approval[b].id /\ approval[b].id \in Ids \ {id} /\ ~HandedOver(approval[b].id)
        BY <3>1, <3>3
      <4> HIDE DEF HandedOver
      <4> QED
        BY <2>4, <4>1
    <3>5. \A i \in Ids : HandedOver(i)' => Decided(i)'
      BY <3>s, <1>2, <2>4 DEF ClaimIsExclusive
    <3> QED
      BY <3>1, <3>2, <3>4, <3>5 DEF ClaimIsExclusive
  <2>6. OneHandover' /\ FailedWasCanceled'
    BY <1>1, <1>2, <1>5, <2>1 DEF OneHandover, FailedWasCanceled
  <2>7. TracksAgree'
    <3>1. \A u \in Tracks : payout[u].for \in Ids => payout'[u] = payout[u]
      BY <2>1
    <3>2. /\ \A u \in Tracks : payout'[u].state = "unused" => payout'[u].for = None
          /\ \A b \in Approvals : approval'[b].pc = "calling" =>
               payout'[approval'[b].track].for = approval'[b].id
      <4>1. \A u \in Tracks : payout'[u].state = "unused" => payout'[u].for = None
        BY <2>1 DEF TracksAgree
      <4>2. ASSUME NEW b \in Approvals, approval'[b].pc = "calling"
            PROVE  payout'[approval'[b].track].for = approval'[b].id
        <5>1. CASE b = a
          <6>1. approval'[a].track = t /\ approval'[a].id = id
            BY <2>1 DEF TypeOK
          <6>2. payout'[t].for = id
            BY <2>1
          <6> HIDE DEF id, IInv
          <6> QED
            BY <5>1, <6>1, <6>2
        <5>2. CASE b # a
          BY <2>1, <3>1, <4>2, <5>2 DEF TracksAgree, RowsAreKnown
        <5> QED
          BY <5>1, <5>2
      <4> QED
        BY <4>1, <4>2
    <3>3. \A i \in Ids : track[i] # None => payout'[track[i]].for = i
      BY <3>1 DEF TypeOK, TracksAgree
    <3>4. \A c \in outbox : c.status = "canceled" => payout'[c.track].state = "canceled"
      BY <1>5, <2>1 DEF TypeOK, TracksAgree, Callback
    <3>5. \A h \in Handlers : handler[h].pc = "matched" =>
            /\ payout'[handler[h].call.track].for = handler[h].id
            /\ handler[h].call.status = "canceled" => payout'[handler[h].call.track].state = "canceled"
      BY <3>1 DEF TracksAgree, RowsAreKnown, Callback
    <3> QED
      BY <1>1, <3>2, <3>3, <3>4, <3>5 DEF TracksAgree
  <2> QED
    BY <1>3, <2>2, <2>3, <2>5, <2>6, <2>7
<1> QED
  BY <1>4, <1>5 DEF CallGateway, Finish

\* The track id that is stored is the one the payout was taken under.
LEMMA StoreTrackInvariant ==
  ASSUME IInv, NEW a \in Approvals, StoreTrack(a)
  PROVE  IInv'
<1> USE NoneAssumption DEF IInv, StoreTrack, Finish, money, rails, external
<1> DEFINE id == approval[a].id
<1>1. /\ UNCHANGED <<balance, posted, status, checked, answered, console, queued, byHand, settled,
                     payout, outbox, handler>>
      /\ approval[a].pc = "calling" /\ id \in Ids /\ approval[a].track \in Tracks
      /\ payout[approval[a].track].for = id
  BY DEF RowsAreKnown, TracksAgree
<1>2. /\ approval'[a] = NoApproval /\ \A b \in Approvals \ {a} : approval'[b] = approval[b]
      /\ track'[id] = approval[a].track /\ \A i \in Ids \ {id} : track'[i] = track[i]
  BY <1>1 DEF TypeOK
<1>3. TypeOK'
  BY <1>1 DEF TypeOK, NoApproval, PayoutStates, console
<1>4. EntriesFollowStatus' /\ CheckedIsNew' /\ FailedWasCanceled' /\ OneHandover' /\ SettledWasHandedOver'
  BY <1>1 DEF EntriesFollowStatus, CheckedIsNew, FailedWasCanceled, OneHandover, SettledWasHandedOver
<1>5. RowsAreKnown' /\ ClaimIsExclusive'
  BY <1>1, <1>2 DEF NoApproval, RowsAreKnown, ClaimIsExclusive
<1>6. TracksAgree'
  BY <1>1, <1>2 DEF NoApproval, TracksAgree
<1> QED
  BY <1>3, <1>4, <1>5, <1>6

\* The hot wallet or the operator pays what is on its list.
LEMMA PayInvariant ==
  ASSUME IInv, NEW id \in Ids, PayOnChain(id) \/ PayByHand(id)
  PROVE  IInv'
<1> USE DEF IInv, PayOnChain, PayByHand, money, rails, external
<1>1. /\ UNCHANGED <<balance, posted, status, checked, answered, console, approval, track,
                     gatewayStatus, queued, byHand, payout, outbox, handler>>
      /\ settled' = settled \union {id} /\ id \in queued \union byHand
  OBVIOUS
<1>2. TypeOK' /\ SettledWasHandedOver'
  BY <1>1 DEF TypeOK, SettledWasHandedOver, console
<1>3. EntriesFollowStatus' /\ CheckedIsNew' /\ FailedWasCanceled'
  BY <1>1 DEF EntriesFollowStatus, CheckedIsNew, FailedWasCanceled
<1>4. RowsAreKnown' /\ ClaimIsExclusive' /\ TracksAgree' /\ OneHandover'
  BY <1>1 DEF RowsAreKnown, ClaimIsExclusive, TracksAgree, OneHandover
<1> QED
  BY <1>2, <1>3, <1>4

\* What the gateway says of a payout it has begun; an end is final.
LEMMA GatewayInvariant ==
  ASSUME IInv, NEW t \in Tracks, GatewayReports(t)
  PROVE  IInv'
<1> USE DEF IInv, money, rails
<1>1. PICK s \in {"processing", "confirmed", "canceled"} :
        /\ payout' = [payout EXCEPT ![t].state = s]
        /\ outbox' = outbox \union {[track |-> t, status |-> s]}
  BY DEF GatewayReports
<1>2. /\ UNCHANGED <<balance, posted, status, checked, answered, console, approval, track,
                     gatewayStatus, queued, byHand, settled, handler>>
      /\ payout[t].state = "processing"
  BY DEF GatewayReports
<1>3. /\ payout'[t] = [payout[t] EXCEPT !.state = s]
      /\ \A u \in Tracks \ {t} : payout'[u] = payout[u]
      /\ \A u \in Tracks : payout'[u].for = payout[u].for
      /\ \A u \in Tracks : payout[u].state = "canceled" => payout'[u].state = "canceled"
      /\ \A u \in Tracks : payout'[u].state = "unused" => payout[u].state = "unused"
  BY <1>1, <1>2 DEF TypeOK
<1>4. TypeOK'
  BY <1>1, <1>2 DEF TypeOK, PayoutStates, Callback, console
<1>5. EntriesFollowStatus' /\ CheckedIsNew' /\ SettledWasHandedOver' /\ RowsAreKnown'
  BY <1>2 DEF EntriesFollowStatus, CheckedIsNew, SettledWasHandedOver, RowsAreKnown
<1>6. ClaimIsExclusive' /\ OneHandover' /\ FailedWasCanceled'
  BY <1>2, <1>3 DEF ClaimIsExclusive, OneHandover, FailedWasCanceled
<1>7. TracksAgree'
  <2>1. \A c \in outbox' : c.status = "canceled" => payout'[c.track].state = "canceled"
    BY <1>1, <1>3 DEF TypeOK, TracksAgree, Callback
  <2>2. \A h \in Handlers : handler[h].pc = "matched" => handler[h].call.track \in Tracks
    BY DEF RowsAreKnown, Callback
  <2>3. /\ \A b \in Approvals : approval[b].pc = "calling" => approval[b].track \in Tracks
        /\ \A i \in Ids : track[i] # None => track[i] \in Tracks
    BY DEF TypeOK, RowsAreKnown
  <2> QED
    BY <1>2, <1>3, <2>1, <2>2, <2>3 DEF TracksAgree
<1> QED
  BY <1>4, <1>5, <1>6, <1>7

\* A callback that is matched is about the withdrawal its payout was for.
LEMMA MatchInvariant ==
  ASSUME IInv,
         \/ \E c \in outbox : CallbackUnknown(c)
         \/ \E c \in outbox, h \in Handlers : CallbackMatched(h, c)
         \/ \E h \in Handlers : HandlerDies(h)
  PROVE  IInv'
<1> USE NoneAssumption DEF IInv, money, rails, external
<1>1. UNCHANGED <<balance, posted, status, checked, answered, console, approval, track, queued,
                  byHand, settled, payout>> /\ outbox' \subseteq outbox
  BY DEF CallbackUnknown, CallbackMatched, HandlerDies
<1>2. EntriesFollowStatus' /\ CheckedIsNew' /\ FailedWasCanceled' /\ OneHandover'
      /\ SettledWasHandedOver' /\ ClaimIsExclusive'
  BY <1>1 DEF EntriesFollowStatus, CheckedIsNew, FailedWasCanceled, OneHandover,
              SettledWasHandedOver, ClaimIsExclusive
<1>3. CASE UNCHANGED <<gatewayStatus, handler>>
  <2>1. TypeOK'
    BY <1>1, <1>3 DEF TypeOK, console
  <2>2. RowsAreKnown' /\ TracksAgree'
    BY <1>1, <1>3 DEF RowsAreKnown, TracksAgree
  <2> QED
    BY <1>2, <2>1, <2>2
<1>4. ASSUME NEW h \in Handlers, NEW c \in outbox, NEW id \in Ids, track[id] = c.track,
             gatewayStatus' = [gatewayStatus EXCEPT ![id] = c.status],
             handler' = [handler EXCEPT ![h] = [pc |-> "matched", call |-> c, id |-> id]]
      PROVE  IInv'
  <2>1. /\ handler'[h] = [pc |-> "matched", call |-> c, id |-> id]
        /\ \A g \in Handlers \ {h} : handler'[g] = handler[g]
        /\ c \in Callback /\ payout[c.track].for = id
    BY <1>4 DEF TypeOK, TracksAgree, Callback
  <2>2. TypeOK'
    BY <1>1, <1>4, <2>1 DEF TypeOK, PayoutStates, Callback, console
  <2>3. RowsAreKnown'
    BY <1>1, <2>1 DEF RowsAreKnown
  <2>4. TracksAgree'
    BY <1>1, <2>1 DEF TracksAgree
  <2> QED
    BY <1>2, <2>2, <2>3, <2>4
<1>5. ASSUME NEW h \in Handlers, UNCHANGED gatewayStatus,
             handler' = [handler EXCEPT ![h] = [pc |-> "idle", call |-> None, id |-> None]]
      PROVE  IInv'
  <2>1. /\ handler'[h] = [pc |-> "idle", call |-> None, id |-> None]
        /\ \A g \in Handlers \ {h} : handler'[g] = handler[g]
    BY <1>5 DEF TypeOK
  <2>2. TypeOK'
    BY <1>1, <1>5 DEF TypeOK, console
  <2>3. RowsAreKnown' /\ TracksAgree'
    BY <1>1, <2>1 DEF RowsAreKnown, TracksAgree
  <2> QED
    BY <1>2, <2>2, <2>3
<1> QED
  BY <1>3, <1>4, <1>5 DEF CallbackUnknown, CallbackMatched, HandlerDies

\* A refund after approval: the payout of this withdrawal has been cancelled.
LEMMA FinishCallbackInvariant ==
  ASSUME IInv, NEW h \in Handlers, FinishCallback(h)
  PROVE  IInv'
<1> USE AmountsAssumption, NoneAssumption DEF IInv, rails, external
<1> DEFINE id == handler[h].id
           t == handler[h].call.track
<1>1. /\ UNCHANGED <<checked, answered, console, approval, track, gatewayStatus, queued, byHand,
                     settled, payout>>
      /\ id \in Ids /\ t \in Tracks /\ payout[t].for = id
      /\ handler' = [handler EXCEPT ![h] = [pc |-> "idle", call |-> None, id |-> None]]
      /\ outbox' \subseteq outbox
  BY DEF FinishCallback, RowsAreKnown, TracksAgree, Callback
<1>2. \/ UNCHANGED money
      \/ /\ status[id] = "PROCESSED" /\ status' = [status EXCEPT ![id] = "FAILED"]
         /\ posted' = posted \union {<<id, "GWFAIL">>} /\ payout[t].state = "canceled"
         /\ balance' = [balance EXCEPT ![Owner[id]] = @ + Amount[id]]
  BY DEF FinishCallback, MarkPayoutFailed, Refund, TracksAgree
<1> USE DEF money
<1>3. /\ handler'[h] = [pc |-> "idle", call |-> None, id |-> None]
      /\ \A g \in Handlers \ {h} : handler'[g] = handler[g]
      /\ \A i \in Ids : Decided(i)' <=> Decided(i)
      /\ \A i \in Ids : status'[i] # status[i] => i = id /\ payout[t].state = "canceled"
  BY <1>1, <1>2 DEF TypeOK
<1>4. TypeOK'
  <2>1. status' \in [Ids -> Statuses] /\ posted' \subseteq Ids \X {"WDR", "REFUND", "GWFAIL"}
        /\ balance' \in [Members -> Int]
    <3>1. Owner[id] \in Members /\ Amount[id] \in Int
      BY <1>1
    <3>2. balance' \in [Members -> Int]
      <4>1. balance \in [Members -> Int]
        BY DEF TypeOK
      <4> HIDE DEF IInv, id, t
      <4> QED
        BY <1>2, <3>1, <4>1
    <3>3. status' \in [Ids -> Statuses] /\ posted' \subseteq Ids \X {"WDR", "REFUND", "GWFAIL"}
      <4>1. status \in [Ids -> Statuses] /\ posted \subseteq Ids \X {"WDR", "REFUND", "GWFAIL"} /\ id \in Ids
        BY <1>1 DEF TypeOK
      <4> HIDE DEF IInv, id, t
      <4> QED
        BY <1>2, <4>1 DEF Statuses
    <3> QED
      BY <3>2, <3>3
  <2> QED
    BY <1>1, <2>1 DEF TypeOK, console
<1>5. EntriesFollowStatus' /\ CheckedIsNew'
  BY <1>1, <1>2 DEF TypeOK, EntriesFollowStatus, CheckedIsNew
<1>6. RowsAreKnown' /\ TracksAgree'
  <2>1. RowsAreKnown'
    BY <1>1, <1>3 DEF RowsAreKnown
  <2>2. TracksAgree'
    BY <1>1, <1>3 DEF TracksAgree
  <2> QED
    BY <2>1, <2>2
<1>7. ClaimIsExclusive' /\ OneHandover' /\ SettledWasHandedOver'
  <2>1. ClaimIsExclusive'
    BY <1>1, <1>3 DEF RowsAreKnown, ClaimIsExclusive
  <2>2. OneHandover'
    BY <1>1 DEF OneHandover
  <2>3. SettledWasHandedOver'
    BY <1>1 DEF SettledWasHandedOver
  <2> QED
    BY <2>1, <2>2, <2>3
<1>8. FailedWasCanceled'
  BY <1>1, <1>3 DEF FailedWasCanceled
<1> QED
  BY <1>4, <1>5, <1>6, <1>7, <1>8

\* Every step of the Withdrawals keeps the invariant: one case per operation.
LEMMA StepInvariant == IInv /\ [Next]_vars => IInv'
<1> SUFFICES ASSUME IInv, [Next]_vars PROVE IInv'
  OBVIOUS
<1>1. CASE UNCHANGED vars
  BY <1>1 DEF vars, money, console, rails, external, IInv, TypeOK, EntriesFollowStatus, CheckedIsNew,
              RowsAreKnown, ClaimIsExclusive, OneHandover, TracksAgree, SettledWasHandedOver,
              FailedWasCanceled
<1>2. CASE Next
  <2>1. ASSUME NEW id \in Ids, CheckRequest(id) \/ CommitRequest(id) \/ Reject(id)
                               \/ PayOnChain(id) \/ PayByHand(id)
        PROVE  IInv'
    BY <2>1, ChecksInvariant, CommitRequestInvariant, RejectInvariant, PayInvariant
  <2>2. ASSUME NEW a \in Approvals, \/ Resolve(a) \/ Claim(a) \/ Enqueue(a) \/ LeaveToOperator(a)
                                    \/ CallGateway(a) \/ StoreTrack(a) \/ ApprovalStops(a)
        PROVE  IInv'
    BY <2>2, ApprovalInvariant, ClaimInvariant, QueueInvariant, CallGatewayInvariant,
       StoreTrackInvariant
  <2>3. ASSUME NEW t \in Tracks, GatewayReports(t) PROVE IInv'
    BY <2>3, GatewayInvariant
  <2>4. CASE (\E m \in Members : VerifyMember(m)) \/ FlipSwitch
    BY <2>4, ChecksInvariant
  <2>5. CASE \/ \E c \in outbox : CallbackUnknown(c) \/ \E h \in Handlers : CallbackMatched(h, c)
             \/ \E h \in Handlers : HandlerDies(h)
    BY <2>5, MatchInvariant
  <2>6. ASSUME NEW h \in Handlers, FinishCallback(h) PROVE IInv'
    BY <2>6, FinishCallbackInvariant
  <2> QED
    BY <1>2, <2>1, <2>2, <2>3, <2>4, <2>5, <2>6 DEF Next
<1> QED
  BY <1>1, <1>2

\* The strengthened invariant holds throughout.
LEMMA InvariantHolds == Spec => []IInv
<1> QED
  BY InitInvariant, StepInvariant, PTL DEF Spec

-----------------------------------------------------------------------------
\* Every variable keeps its type.
THEOREM TypeCorrect == Spec => []TypeOK
<1>1. IInv => TypeOK
  BY DEF IInv
<1> QED
  BY <1>1, InvariantHolds, PTL

\* For any operators, callbacks and deaths between two steps: the ledger tells
\* the same story as the status of every withdrawal (withdrawal.service.ts).
THEOREM MoneyTheorem == Spec => []MoneyMatchesStatus
<1>1. IInv => MoneyMatchesStatus
  BY DEF IInv, TypeOK, Statuses, EntriesFollowStatus, MoneyMatchesStatus
<1> QED
  BY <1>1, InvariantHolds, PTL

\* For any approvals at once, any rails and any reconfiguration in between: a
\* withdrawal is handed to one rail, once (core/payout-rail.ts).
THEOREM HandoverTheorem == Spec => []OneHandover
<1>1. IInv => OneHandover
  BY DEF IInv
<1> QED
  BY <1>1, InvariantHolds, PTL

-----------------------------------------------------------------------------
(* WithdrawalPromise *)

outcome == [id \in Ids |-> Outcome(id)]

\* A withdrawal the gateway has refused to pay is paid in no other way.
LEMMA CanceledIsUnpaid ==
  ASSUME IInv, NEW id \in Ids, NEW t \in Tracks, payout[t].for = id, payout[t].state = "canceled"
  PROVE  ~Paid(id)
<1>1. id \notin settled
  BY DEF IInv, OneHandover, SettledWasHandedOver
<1>2. \A u \in Tracks : payout[u].for = id => payout[u].state = "canceled"
  BY DEF IInv, OneHandover
<1> QED
  BY <1>1, <1>2 DEF Paid

\* What is on a rail that has not refused it is approved.
LEMMA InHandIsProcessed ==
  ASSUME IInv, NEW id \in Ids, HandedOver(id),
         \A t \in Tracks : payout[t].for = id => payout[t].state # "canceled"
  PROVE  status[id] = "PROCESSED"
<1>1. Decided(id)
  BY DEF IInv, ClaimIsExclusive
<1>2. status[id] # "FAILED"
  BY DEF IInv, FailedWasCanceled
<1> QED
  BY <1>1, <1>2

\* What has been paid is approved, and was not returned.
LEMMA PaidIsProcessed ==
  ASSUME IInv, NEW id \in Ids, Paid(id)
  PROVE  status[id] = "PROCESSED"
<1>1. HandedOver(id)
  BY DEF Paid, IInv, SettledWasHandedOver
<1>2. \A t \in Tracks : payout[t].for = id => payout[t].state # "canceled"
  BY CanceledIsUnpaid
<1> QED
  BY <1>1, <1>2, InHandIsProcessed

\* The outcome of one withdrawal changes.
LEMMA OneOutcome ==
  ASSUME NEW id \in Ids, NEW x, Outcome(id)' = x,
         \A i \in Ids \ {id} : Outcome(i)' = Outcome(i)
  PROVE  outcome' = [outcome EXCEPT ![id] = x]
BY DEF outcome

\* A step that keeps every wallet, and every status and payment, keeps the promise.
LEMMA StutterStep ==
  ASSUME UNCHANGED <<balance, status>>, \A id \in Ids : Paid(id)' <=> Paid(id)
  PROVE  UNCHANGED <<balance, outcome>>
<1>1. \A id \in Ids : Outcome(id)' = Outcome(id)
  BY DEF Outcome
<1> QED
  BY <1>1 DEF outcome

\* An accepted request is held.
LEMMA CommitRequestHolds ==
  ASSUME IInv, NEW id \in Ids, CommitRequest(id)
  PROVE  Promise!Hold(id) \/ UNCHANGED <<balance, outcome>>
<1>1. \A i \in Ids : Paid(i)' <=> Paid(i)
  BY DEF CommitRequest, Paid, rails, external
<1>2. CASE UNCHANGED money
  BY <1>1, <1>2, StutterStep DEF money
<1>3. CASE /\ balance[Owner[id]] >= Amount[id]
           /\ balance' = [balance EXCEPT ![Owner[id]] = @ - Amount[id]]
           /\ status' = [status EXCEPT ![id] = "PENDING"]
  <2>1. status[id] = "none"
    BY DEF IInv, CheckedIsNew, CommitRequest
  <2>2. status'[id] = "PENDING" /\ \A i \in Ids \ {id} : status'[i] = status[i]
    BY <1>3 DEF IInv, TypeOK
  <2>3. Outcome(id) = "none" /\ Outcome(id)' = "held"
    BY <1>1, <2>1, <2>2, PaidIsProcessed DEF Outcome
  <2>4. \A i \in Ids \ {id} : Outcome(i)' = Outcome(i)
    BY <1>1, <2>2 DEF Outcome
  <2>5. outcome' = [outcome EXCEPT ![id] = "held"] /\ outcome[id] = "none"
    BY <2>3, <2>4, OneOutcome DEF outcome
  <2> QED
    BY <1>3, <2>5 DEF Promise!Hold, outcome
<1> QED
  BY <1>2, <1>3 DEF CommitRequest, money

\* A step that refunds a withdrawal returns what was held.
LEMMA RefundReturns ==
  ASSUME IInv, NEW id \in Ids,
         status[id] \in {"PENDING", "PROCESSED"}, ~Paid(id),
         status'[id] \in {"REJECTED", "FAILED"},
         \A i \in Ids \ {id} : status'[i] = status[i],
         \A i \in Ids : Paid(i)' <=> Paid(i),
         balance' = [balance EXCEPT ![Owner[id]] = @ + Amount[id]]
  PROVE  Promise!Return(id)
<1>1. Outcome(id) = "held" /\ Outcome(id)' = "returned"
  BY DEF Outcome
<1>2. \A i \in Ids \ {id} : Outcome(i)' = Outcome(i)
  BY DEF Outcome
<1>3. outcome' = [outcome EXCEPT ![id] = "returned"] /\ outcome[id] = "held"
  BY <1>1, <1>2, OneOutcome DEF outcome
<1> QED
  BY <1>3 DEF Promise!Return, outcome

\* A rejection gives back what was held: the promise's return.
LEMMA RejectReturns ==
  ASSUME IInv, NEW id \in Ids, Reject(id)
  PROVE  Promise!Return(id)
<1>1. /\ status'[id] = "REJECTED" /\ \A i \in Ids \ {id} : status'[i] = status[i]
      /\ status[id] = "PENDING" /\ balance' = [balance EXCEPT ![Owner[id]] = @ + Amount[id]]
  BY DEF IInv, TypeOK, Reject, Refund
<1>2. ~Paid(id)
  BY <1>1, PaidIsProcessed
<1>3. \A i \in Ids : Paid(i)' <=> Paid(i)
  BY DEF Reject, Paid, rails, external
<1> QED
  BY <1>1, <1>2, <1>3, RefundReturns

\* A callback that refuses a payout gives back what was held.
LEMMA FinishCallbackReturns ==
  ASSUME IInv, NEW h \in Handlers, FinishCallback(h)
  PROVE  (\E id \in Ids : Promise!Return(id)) \/ UNCHANGED <<balance, outcome>>
<1> DEFINE id == handler[h].id
<1>1. \A i \in Ids : Paid(i)' <=> Paid(i)
  BY DEF FinishCallback, Paid, rails
<1>2. id \in Ids
  BY DEF IInv, RowsAreKnown, FinishCallback
<1>3. CASE UNCHANGED money
  BY <1>1, <1>3, StutterStep DEF money
<1>4. CASE /\ status[id] = "PROCESSED" /\ status' = [status EXCEPT ![id] = "FAILED"]
           /\ balance' = [balance EXCEPT ![Owner[id]] = @ + Amount[id]]
  <2>1. status'[id] = "FAILED" /\ \A i \in Ids \ {id} : status'[i] = status[i]
    BY <1>2, <1>4 DEF IInv, TypeOK
  <2>2. ~Paid(id)
    <3>1. handler[h].pc = "matched" /\ handler[h].call.status = "canceled"
      BY <1>2, <1>4, <2>1 DEF FinishCallback, money
    <3>2. handler[h].call.track \in Tracks
      BY <3>1 DEF IInv, RowsAreKnown, Callback
    <3> QED
      BY <1>2, <3>1, <3>2, CanceledIsUnpaid DEF IInv, TracksAgree
  <2> QED
    BY <1>1, <1>2, <1>4, <2>1, <2>2, RefundReturns
<1> QED
  BY <1>3, <1>4 DEF FinishCallback, MarkPayoutFailed, Refund

\* A step that pays one withdrawal sends what was held, or pays nothing new.
LEMMA PaymentSends ==
  ASSUME NEW id \in Ids, status[id] = "PROCESSED", Paid(id)', UNCHANGED <<balance, status>>,
         \A i \in Ids \ {id} : Paid(i)' <=> Paid(i)
  PROVE  Promise!Send(id) \/ UNCHANGED <<balance, outcome>>
<1>1. CASE Paid(id)
  BY <1>1, StutterStep
<1>2. CASE ~Paid(id)
  <2>1. Outcome(id) = "held" /\ Outcome(id)' = "sent"
    BY <1>2 DEF Outcome
  <2>2. \A i \in Ids \ {id} : Outcome(i)' = Outcome(i)
    BY DEF Outcome
  <2>3. outcome' = [outcome EXCEPT ![id] = "sent"] /\ outcome[id] = "held"
    BY <2>1, <2>2, OneOutcome DEF outcome
  <2> QED
    BY <2>3 DEF Promise!Send, outcome
<1> QED
  BY <1>1, <1>2

\* An operator's payment by hand is the promise's sending.
LEMMA PaySends ==
  ASSUME IInv, NEW id \in Ids, PayOnChain(id) \/ PayByHand(id)
  PROVE  Promise!Send(id) \/ UNCHANGED <<balance, outcome>>
<1>1. UNCHANGED <<balance, status, payout>> /\ settled' = settled \union {id}
  BY DEF PayOnChain, PayByHand, money, external
<1>2. id \in queued \union byHand
  BY DEF PayOnChain, PayByHand
<1>3. status[id] = "PROCESSED"
  BY <1>2, InHandIsProcessed DEF IInv, OneHandover
<1> QED
  BY <1>1, <1>3, PaymentSends DEF Paid

\* The gateway's own payment is the promise's sending.
LEMMA GatewaySends ==
  ASSUME IInv, NEW t \in Tracks, GatewayReports(t)
  PROVE  (\E id \in Ids : Promise!Send(id)) \/ UNCHANGED <<balance, outcome>>
<1> DEFINE id == payout[t].for
<1>1. /\ UNCHANGED <<balance, status, settled>> /\ payout[t].state = "processing"
      /\ payout'[t].for = id /\ \A u \in Tracks \ {t} : payout'[u] = payout[u]
  BY DEF IInv, TypeOK, GatewayReports, money, rails
<1>2. \A i \in Ids \ {id} : Paid(i)' <=> Paid(i)
  BY <1>1 DEF Paid
<1>3. Paid(id) => Paid(id)'
  BY <1>1 DEF Paid
<1>4. CASE id \in Ids /\ Paid(id)'
  <2>1. \A u \in Tracks : payout[u].for = id => payout[u].state # "canceled"
    BY <1>1, <1>4 DEF IInv, OneHandover
  <2>2. status[id] = "PROCESSED"
    BY <1>4, <2>1, InHandIsProcessed
  <2> QED
    BY <1>1, <1>2, <1>4, <2>2, PaymentSends
<1>5. CASE ~(id \in Ids /\ Paid(id)')
  BY <1>1, <1>2, <1>3, <1>5, StutterStep
<1> QED
  BY <1>4, <1>5

\* A claimed withdrawal is held as it was, and no payment begun is one made.
LEMMA ApprovalStutters ==
  ASSUME IInv, NEW a \in Approvals, Claim(a) \/ CallGateway(a)
  PROVE  UNCHANGED <<balance, outcome>>
<1>1. CASE Claim(a)
  <2> DEFINE id == approval[a].id
  <2>1. id \in Ids /\ UNCHANGED <<balance, settled, payout>>
    BY <1>1 DEF IInv, RowsAreKnown, Claim, rails, external
  <2>2. \A i \in Ids : Paid(i)' <=> Paid(i)
    BY <2>1 DEF Paid
  <2>3. CASE UNCHANGED status
    BY <2>1, <2>2, <2>3, StutterStep
  <2>4. CASE status[id] = "PENDING" /\ status' = [status EXCEPT ![id] = "PROCESSED"]
    <3>1. ~Paid(id)
      BY <2>1, <2>4, PaidIsProcessed
    <3>2. status'[id] = "PROCESSED" /\ \A i \in Ids \ {id} : status'[i] = status[i]
      BY <2>1, <2>4 DEF IInv, TypeOK
    <3>3. \A i \in Ids : Outcome(i)' = Outcome(i)
      BY <2>2, <2>4, <3>1, <3>2 DEF Outcome
    <3> QED
      BY <2>1, <3>3 DEF outcome
  <2> QED
    BY <1>1, <2>3, <2>4 DEF Claim
<1>2. CASE CallGateway(a)
  <2>1. /\ UNCHANGED <<balance, status, settled>>
        /\ \A u \in Tracks : payout'[u] = payout[u]
             \/ (payout[u].state # "confirmed" /\ payout'[u].state # "confirmed")
    BY <1>2 DEF IInv, TypeOK, CallGateway, money, rails
  <2>2. \A i \in Ids : Paid(i)' <=> Paid(i)
    BY <2>1 DEF Paid
  <2> QED
    BY <2>1, <2>2, StutterStep
<1> QED
  BY <1>1, <1>2

\* Whatever else happens neither moves money nor pays.
LEMMA OtherStutters ==
  ASSUME UNCHANGED <<balance, status, settled, payout>>
  PROVE  UNCHANGED <<balance, outcome>>
BY StutterStep DEF Paid

\* Every step keeps the promise: it holds, sends or returns one withdrawal, or
\* nothing the promise speaks of.
LEMMA StepSimulation == IInv /\ [Next]_vars => [Promise!Next]_<<balance, outcome>>
<1> SUFFICES ASSUME IInv, [Next]_vars
             PROVE  Promise!Next \/ UNCHANGED <<balance, outcome>>
  OBVIOUS
<1>1. CASE UNCHANGED vars
  BY <1>1, OtherStutters DEF vars, money, rails, external
<1>2. ASSUME NEW id \in Ids, CheckRequest(id)
      PROVE  UNCHANGED <<balance, outcome>>
  BY <1>2, OtherStutters DEF CheckRequest, money, rails, external
<1>3. ASSUME NEW id \in Ids, CommitRequest(id) \/ Reject(id) \/ PayOnChain(id) \/ PayByHand(id)
      PROVE  Promise!Next \/ UNCHANGED <<balance, outcome>>
  BY <1>3, CommitRequestHolds, RejectReturns, PaySends DEF Promise!Next
<1>4. CASE (\E m \in Members : VerifyMember(m)) \/ FlipSwitch
  BY <1>4, OtherStutters DEF VerifyMember, FlipSwitch, money, rails, external
<1>5. ASSUME NEW a \in Approvals,
             Resolve(a) \/ Enqueue(a) \/ LeaveToOperator(a) \/ StoreTrack(a) \/ ApprovalStops(a)
      PROVE  UNCHANGED <<balance, outcome>>
  BY <1>5, OtherStutters DEF Resolve, Enqueue, LeaveToOperator, StoreTrack, ApprovalStops, money,
                             rails, external
<1>6. ASSUME NEW a \in Approvals, Claim(a) \/ CallGateway(a)
      PROVE  UNCHANGED <<balance, outcome>>
  BY <1>6, ApprovalStutters
<1>7. ASSUME NEW t \in Tracks, GatewayReports(t)
      PROVE  Promise!Next \/ UNCHANGED <<balance, outcome>>
  BY <1>7, GatewaySends DEF Promise!Next
<1>8. CASE \/ \E c \in outbox : CallbackUnknown(c) \/ \E h \in Handlers : CallbackMatched(h, c)
           \/ \E h \in Handlers : HandlerDies(h)
  BY <1>8, OtherStutters DEF CallbackUnknown, CallbackMatched, HandlerDies, money, rails, external
<1>9. ASSUME NEW h \in Handlers, FinishCallback(h)
      PROVE  Promise!Next \/ UNCHANGED <<balance, outcome>>
  BY <1>9, FinishCallbackReturns DEF Promise!Next
<1> QED
  BY <1>1, <1>2, <1>3, <1>4, <1>5, <1>6, <1>7, <1>8, <1>9 DEF Next

\* Withdrawals implements WithdrawalPromise: whatever operators, callbacks and
\* rails do at once, what was held is sent once or returned once, never both.
THEOREM PromiseTheorem == Spec => ImplementsPromise
<1>1. Init => Promise!Init
  <2> SUFFICES ASSUME Init PROVE Promise!Init
    OBVIOUS
  <2>1. \A id \in Ids : Outcome(id) = "none"
    BY DEF Init, Outcome
  <2> QED
    BY <2>1 DEF Init, Promise!Init
<1>2. [Promise!Next]_<<balance, outcome>> => [Promise!Next]_(Promise!vars)
  BY DEF Promise!vars, outcome
<1>3. IInv /\ [Next]_vars => [Promise!Next]_(Promise!vars)
  BY <1>2, StepSimulation
<1> QED
  BY <1>1, <1>3, InvariantHolds, PTL DEF Spec, ImplementsPromise, Promise!Spec

-----------------------------------------------------------------------------
(* Sums *)

Pick(s) == CHOOSE x \in s : TRUE

\* g[s] is the sum of f over s, for every part s of S.
Sums(f, S, g) ==
  g = [s \in SUBSET S |-> IF s = {} THEN 0 ELSE f[Pick(s)] + g[s \ {Pick(s)}]]

SumOver(f, S) == (CHOOSE g : Sums(f, S, g))[S]

\* Among some parts of a finite set, one has no other of them as a part.
LEMMA SmallestPart ==
  ASSUME NEW S, IsFiniteSet(S), NEW Bad \in SUBSET SUBSET S, Bad # {}
  PROVE  \E T \in Bad : \A U \in Bad : U \subseteq T => U = T
<1>1. \A T \in Bad : IsFiniteSet(T) /\ T \in FiniteSubsetsOf(S)
  BY FS_Subset DEF FiniteSubsetsOf
<1>2. PICK T \in Bad : \A U \in Bad : <<U, T>> \notin StrictSubsetOrdering(S)
  BY <1>1, FS_StrictSubsetOrderingWellFounded, WFMin
<1>3. \A U \in Bad : U \subseteq T => U = T
  BY <1>1, <1>2 DEF StrictSubsetOrdering, FiniteSubsetsOf
<1> QED
  BY <1>3

\* The element a sum adds first belongs to the set it sums over.
LEMMA PickType ==
  ASSUME NEW s, s # {}
  PROVE  Pick(s) \in s
BY DEF Pick

\* Sums of the same values agree.
LEMMA SumsAgree ==
  ASSUME NEW S, IsFiniteSet(S), NEW A, NEW B, S \subseteq A, S \subseteq B,
         NEW f, NEW e, \A x \in S : f[x] = e[x],
         NEW g, NEW h, Sums(f, A, g), Sums(e, B, h)
  PROVE  g[S] = h[S]
<1> DEFINE Bad == {s \in SUBSET S : g[s] # h[s]}
<1>1. SUFFICES ASSUME Bad # {} PROVE FALSE
  OBVIOUS
<1>2. Bad \in SUBSET SUBSET S
  OBVIOUS
<1> HIDE DEF Bad
<1>3. PICK s \in Bad : \A u \in Bad : u \subseteq s => u = s
  BY <1>1, <1>2, SmallestPart
<1>4. s \subseteq S /\ g[s] # h[s]
  BY DEF Bad
<1>5. /\ g[s] = IF s = {} THEN 0 ELSE f[Pick(s)] + g[s \ {Pick(s)}]
      /\ h[s] = IF s = {} THEN 0 ELSE e[Pick(s)] + h[s \ {Pick(s)}]
  BY <1>4 DEF Sums
<1>6. s # {}
  BY <1>4, <1>5
<1>7. Pick(s) \in s
  BY <1>6, PickType
<1>8. f[Pick(s)] = e[Pick(s)]
  BY <1>4, <1>7
<1>9. s \ {Pick(s)} \notin Bad
  BY <1>3, <1>7
<1>10. g[s \ {Pick(s)}] = h[s \ {Pick(s)}]
  BY <1>4, <1>9 DEF Bad
<1> QED
  BY <1>4, <1>5, <1>8, <1>10

\* Every finite set has its sums.
LEMMA SumsExist ==
  ASSUME NEW S, IsFiniteSet(S), NEW f
  PROVE  \E g : Sums(f, S, g)
<1> DEFINE Bad == {s \in SUBSET S : ~\E g : Sums(f, s, g)}
<1>1. SUFFICES ASSUME Bad # {} PROVE FALSE
  OBVIOUS
<1>2. Bad \in SUBSET SUBSET S
  OBVIOUS
<1>0. \A s \in SUBSET S : s \in Bad <=> ~\E g : Sums(f, s, g)
  OBVIOUS
<1> HIDE DEF Bad
<1>3. PICK T \in Bad : \A u \in Bad : u \subseteq T => u = T
  BY <1>1, <1>2, SmallestPart
<1> DEFINE W(s) == CHOOSE g : Sums(f, s, g)
           h == [u \in SUBSET T |-> IF u = {} THEN 0 ELSE f[Pick(u)] + W(u \ {Pick(u)})[u \ {Pick(u)}]]
<1>4. T \subseteq S /\ IsFiniteSet(T)
  BY <1>2, FS_Subset
<1>5. ASSUME NEW u \in SUBSET T, u # T PROVE Sums(f, u, W(u))
  BY <1>0, <1>3, <1>4, <1>5
<1> HIDE DEF W
<1>6. ASSUME NEW v \in SUBSET T, v # T PROVE h[v] = W(v)[v]
  <2>1. Sums(f, v, W(v))
    BY <1>5, <1>6
  <2>2. W(v)[v] = IF v = {} THEN 0 ELSE f[Pick(v)] + W(v)[v \ {Pick(v)}]
    BY <2>1 DEF Sums
  <2>3. CASE v = {}
    BY <2>2, <2>3
  <2>4. CASE v # {}
    <3> DEFINE w == v \ {Pick(v)}
    <3>1. w \subseteq v /\ w \subseteq w /\ w \in SUBSET T /\ w # T
      BY <1>6, <2>4, PickType
    <3>2. Sums(f, w, W(w)) /\ IsFiniteSet(w)
      BY <1>4, <1>5, <3>1, FS_Subset
    <3>3. W(v)[w] = W(w)[w]
      <4> HIDE DEF w
      <4>1. \A x \in w : f[x] = f[x]
        OBVIOUS
      <4> QED
        BY <2>1, <3>1, <3>2, <4>1, SumsAgree
    <3> QED
      BY <2>2, <2>4, <3>3
  <2> QED
    BY <2>3, <2>4
<1>7. \A u \in SUBSET T : u # {} => u \ {Pick(u)} \in SUBSET T /\ u \ {Pick(u)} # T
  BY PickType
<1>8. h = [u \in SUBSET T |-> IF u = {} THEN 0 ELSE f[Pick(u)] + h[u \ {Pick(u)}]]
  <2>1. \A u \in SUBSET T : u # {} => h[u \ {Pick(u)}] = W(u \ {Pick(u)})[u \ {Pick(u)}]
    BY <1>6, <1>7
  <2> QED
    BY <2>1
<1>9. Sums(f, T, h)
  BY <1>8 DEF Sums
<1> QED
  BY <1>0, <1>3, <1>4, <1>9

\* The sum of nothing, and of one more.
LEMMA SumStep ==
  ASSUME NEW S, IsFiniteSet(S), NEW f
  PROVE  /\ S = {} => SumOver(f, S) = 0
         /\ S # {} => SumOver(f, S) = f[Pick(S)] + SumOver(f, S \ {Pick(S)})
<1> DEFINE G(s) == CHOOSE g : Sums(f, s, g)
<1>1. \A s \in SUBSET S : IsFiniteSet(s) /\ Sums(f, s, G(s))
  BY SumsExist, FS_Subset
<1>2. \A s \in SUBSET S : SumOver(f, s) = G(s)[s]
  BY DEF SumOver
<1> HIDE DEF G
<1>3. G(S)[S] = IF S = {} THEN 0 ELSE f[Pick(S)] + G(S)[S \ {Pick(S)}]
  BY <1>1 DEF Sums
<1>4. ASSUME NEW T, T \subseteq S PROVE G(S)[T] = G(T)[T]
  <2>1. IsFiniteSet(T) /\ Sums(f, T, G(T)) /\ Sums(f, S, G(S))
    BY <1>1, <1>4
  <2>2. \A x \in T : f[x] = f[x]
    OBVIOUS
  <2> QED
    BY <1>4, <2>1, <2>2, SumsAgree
<1> QED
  BY <1>2, <1>3, <1>4

\* Two functions that agree on a set have the same sum over it.
LEMMA SumSame ==
  ASSUME NEW S, IsFiniteSet(S), NEW f, NEW e, \A x \in S : f[x] = e[x]
  PROVE  SumOver(f, S) = SumOver(e, S)
<1> DEFINE g == CHOOSE i : Sums(f, S, i)
           h == CHOOSE i : Sums(e, S, i)
<1>1. Sums(f, S, g) /\ Sums(e, S, h)
  BY SumsExist
<1>2. SumOver(f, S) = g[S] /\ SumOver(e, S) = h[S]
  BY DEF SumOver
<1> HIDE DEF g, h
<1>3. g[S] = h[S]
  BY <1>1, SumsAgree
<1> QED
  BY <1>2, <1>3

\* A sum of integers over a finite set is an integer.
LEMMA SumType ==
  ASSUME NEW S, IsFiniteSet(S), NEW f, \A x \in S : f[x] \in Int
  PROVE  SumOver(f, S) \in Int
<1> DEFINE Bad == {s \in SUBSET S : SumOver(f, s) \notin Int}
<1>1. SUFFICES ASSUME Bad # {} PROVE FALSE
  OBVIOUS
<1>2. Bad \in SUBSET SUBSET S
  OBVIOUS
<1>0. \A s \in SUBSET S : s \in Bad <=> SumOver(f, s) \notin Int
  OBVIOUS
<1> HIDE DEF Bad
<1>3. PICK s \in Bad : \A u \in Bad : u \subseteq s => u = s
  BY <1>1, <1>2, SmallestPart
<1>4. s \subseteq S /\ IsFiniteSet(s) /\ SumOver(f, s) \notin Int
  BY <1>0, <1>2, FS_Subset
<1>5. s # {}
  <2>1. CASE s = {}
    <3>1. SumOver(f, s) = 0
      BY <1>4, <2>1, SumStep
    <3> QED
      BY <1>4, <3>1
  <2> QED
    BY <2>1
<1>6. Pick(s) \in s /\ f[Pick(s)] \in Int
  BY <1>4, <1>5, PickType
<1>7. SumOver(f, s \ {Pick(s)}) \in Int
  BY <1>0, <1>3, <1>4, <1>6
<1>8. SumOver(f, s) = f[Pick(s)] + SumOver(f, s \ {Pick(s)})
  BY <1>4, <1>5, SumStep
<1> QED
  BY <1>4, <1>6, <1>7, <1>8

\* Any element may be added last.
LEMMA SumAdds ==
  ASSUME NEW S, IsFiniteSet(S), NEW f, \A x \in S : f[x] \in Int, NEW x \in S
  PROVE  SumOver(f, S) = f[x] + SumOver(f, S \ {x})
<1> DEFINE Bad == {s \in SUBSET S : \E y \in s : SumOver(f, s) # f[y] + SumOver(f, s \ {y})}
<1>1. SUFFICES ASSUME Bad # {} PROVE FALSE
  OBVIOUS
<1>2. Bad \in SUBSET SUBSET S
  OBVIOUS
<1>0. \A s \in SUBSET S : s \in Bad <=> \E y \in s : SumOver(f, s) # f[y] + SumOver(f, s \ {y})
  OBVIOUS
<1> HIDE DEF Bad
<1>3. PICK s \in Bad : \A u \in Bad : u \subseteq s => u = s
  BY <1>1, <1>2, SmallestPart
<1>4. s \subseteq S /\ IsFiniteSet(s)
  BY <1>2, FS_Subset
<1>5. PICK y \in s : SumOver(f, s) # f[y] + SumOver(f, s \ {y})
  BY <1>0, <1>4
<1> DEFINE p == Pick(s)
<1>6. p \in s /\ SumOver(f, s) = f[p] + SumOver(f, s \ {p})
  BY <1>4, SumStep, PickType
<1> HIDE DEF p
<1>7. p # y
  BY <1>5, <1>6
<1>8. SumOver(f, s \ {p}) = f[y] + SumOver(f, (s \ {p}) \ {y})
  BY <1>0, <1>3, <1>4, <1>6, <1>7
<1>9. SumOver(f, s \ {y}) = f[p] + SumOver(f, (s \ {y}) \ {p})
  BY <1>0, <1>3, <1>4, <1>6, <1>7
<1>10. (s \ {p}) \ {y} = (s \ {y}) \ {p}
  OBVIOUS
<1>11. SumOver(f, (s \ {y}) \ {p}) \in Int /\ f[p] \in Int /\ f[y] \in Int
  <2>1. IsFiniteSet((s \ {y}) \ {p}) /\ \A z \in (s \ {y}) \ {p} : f[z] \in Int
    BY <1>4, FS_Subset
  <2> QED
    BY <1>4, <1>6, <2>1, SumType
<1>12. \A a, b, c \in Int : a + (b + c) = b + (a + c)
  OBVIOUS
<1>13. SumOver(f, s) = f[p] + (f[y] + SumOver(f, (s \ {y}) \ {p}))
  BY <1>6, <1>8, <1>10
<1>14. f[y] + SumOver(f, s \ {y}) = f[y] + (f[p] + SumOver(f, (s \ {y}) \ {p}))
  BY <1>9
<1> QED
  BY <1>5, <1>11, <1>12, <1>13, <1>14

-----------------------------------------------------------------------------
(* What a member has out *)

\* The withdrawals of m that are not refunded, and their sum.
Out(m) == {id \in Ids : Owner[id] = m /\ status[id] \in {"PENDING", "PROCESSED"}}

\* What the run calls outstanding is the sum over the member's held withdrawals.
LEMMA OutstandingIsSum ==
  ASSUME NEW m
  PROVE  Outstanding(m) = SumOver(Amount, Out(m))
BY DEF Outstanding, Out, SumOver, Sums, Pick, MapThenSumSet, MapThenFoldSet

OutAddsUp(m) ==
  /\ IsFiniteSet(Out(m))
  /\ balance[m] >= 0 /\ balance[m] + SumOver(Amount, Out(m)) = opening[m]

MoneyIInv == IInv /\ \A m \in Members : OutAddsUp(m)

\* A step that holds, or returns, one withdrawal moves its amount.
LEMMA OutMoves ==
  ASSUME MoneyIInv, NEW id \in Ids, UNCHANGED opening,
         \A other \in Ids \ {id} : status'[other] = status[other],
         \/ /\ id \notin Out(Owner[id]) /\ status'[id] = "PENDING"
            /\ balance[Owner[id]] >= Amount[id]
            /\ balance' = [balance EXCEPT ![Owner[id]] = @ - Amount[id]]
         \/ /\ id \in Out(Owner[id]) /\ status'[id] \in {"REJECTED", "FAILED"}
            /\ balance' = [balance EXCEPT ![Owner[id]] = @ + Amount[id]]
  PROVE  \A m \in Members : OutAddsUp(m)'
<1> USE AmountsAssumption
<1> DEFINE o == Owner[id]
<1>1. o \in Members /\ Amount[id] \in Nat /\ \A i \in Ids : Amount[i] \in Int
  OBVIOUS
<1>2. balance \in [Members -> Int]
  BY DEF MoneyIInv, IInv, TypeOK
<1>3. ASSUME NEW m \in Members \ {o} PROVE OutAddsUp(m)'
  <2>1. Out(m)' = Out(m) /\ balance'[m] = balance[m]
    BY <1>2 DEF Out
  <2> QED
    BY <2>1 DEF MoneyIInv, OutAddsUp
<1>4. IsFiniteSet(Out(o)) /\ balance[o] >= 0 /\ balance[o] + SumOver(Amount, Out(o)) = opening[o]
  BY <1>1 DEF MoneyIInv, OutAddsUp
<1>5. SumOver(Amount, Out(o)) \in Int
  BY <1>1, <1>4, SumType DEF Out
<1>6. CASE /\ id \notin Out(o) /\ status'[id] = "PENDING" /\ balance[o] >= Amount[id]
           /\ balance' = [balance EXCEPT ![o] = @ - Amount[id]]
  <2>1. Out(o)' = Out(o) \union {id}
    BY <1>6 DEF Out
  <2>2. IsFiniteSet(Out(o) \union {id})
    BY <1>4, FS_AddElement
  <2>3. (Out(o) \union {id}) \ {id} = Out(o)
    BY <1>6
  <2>4. SumOver(Amount, Out(o) \union {id}) = Amount[id] + SumOver(Amount, (Out(o) \union {id}) \ {id})
    BY <1>1, <2>2, SumAdds DEF Out
  <2>5. balance'[o] = balance[o] - Amount[id]
    BY <1>1, <1>2, <1>6
  <2>6. SumOver(Amount, Out(o) \union {id}) = Amount[id] + SumOver(Amount, Out(o))
    BY <2>3, <2>4
  <2>7. balance[o] \in Int /\ Amount[id] \in Int /\ balance[o] >= Amount[id]
    BY <1>1, <1>2, <1>6
  <2> HIDE DEF o
  <2>8. balance'[o] >= 0
    BY <2>5, <2>7
  <2>9. balance'[o] + SumOver(Amount, Out(o) \union {id}) = opening[o]
    BY <1>4, <1>5, <2>5, <2>6, <2>7
  <2>10. OutAddsUp(o)'
    BY <2>1, <2>2, <2>8, <2>9 DEF OutAddsUp, o
  <2> QED
    BY <1>3, <2>10
<1>7. CASE /\ id \in Out(o) /\ status'[id] \in {"REJECTED", "FAILED"}
           /\ balance' = [balance EXCEPT ![o] = @ + Amount[id]]
  <2>1. Out(o)' = Out(o) \ {id}
    BY <1>7 DEF Out
  <2>2. IsFiniteSet(Out(o) \ {id})
    BY <1>4, FS_RemoveElement
  <2>3. SumOver(Amount, Out(o)) = Amount[id] + SumOver(Amount, Out(o) \ {id})
    BY <1>1, <1>4, <1>7, SumAdds DEF Out
  <2>4. SumOver(Amount, Out(o) \ {id}) \in Int
    BY <1>1, <2>2, SumType DEF Out
  <2>5. balance'[o] = balance[o] + Amount[id]
    BY <1>1, <1>2, <1>7
  <2> HIDE DEF o
  <2>6. balance'[o] >= 0 /\ balance'[o] + SumOver(Amount, Out(o) \ {id}) = opening[o]
    BY <1>1, <1>2, <1>4, <1>5, <1>7, <2>3, <2>4, <2>5
  <2>7. OutAddsUp(o)'
    BY <2>1, <2>2, <2>6 DEF OutAddsUp, o
  <2> QED
    BY <1>3, <2>7
<1> QED
  BY <1>6, <1>7

\* Nothing else moves money or returns what is held.
LEMMA OutStays ==
  ASSUME MoneyIInv, UNCHANGED <<opening, balance>>,
         \A id \in Ids : status'[id] \in {"PENDING", "PROCESSED"} <=> status[id] \in {"PENDING", "PROCESSED"}
  PROVE  \A m \in Members : OutAddsUp(m)'
<1>1. \A m \in Members : Out(m)' = Out(m)
  BY DEF Out
<1> QED
  BY <1>1 DEF MoneyIInv, OutAddsUp

\* No step creates or loses money: a member's wallet and what is out move
\* together.
LEMMA MoneyStep == MoneyIInv /\ [Next]_vars => MoneyIInv'
<1> SUFFICES ASSUME MoneyIInv, [Next]_vars PROVE \A m \in Members : OutAddsUp(m)'
  BY StepInvariant DEF MoneyIInv
<1>0. status \in [Ids -> Statuses] /\ IInv
  BY DEF MoneyIInv, IInv, TypeOK
<1>1. ASSUME UNCHANGED <<opening, balance, status>> PROVE \A m \in Members : OutAddsUp(m)'
  BY <1>1, OutStays
<1>2. CASE UNCHANGED vars
  BY <1>1, <1>2 DEF vars, money, console
<1>3. ASSUME NEW id \in Ids, CommitRequest(id) PROVE \A m \in Members : OutAddsUp(m)'
  <2>1. CASE UNCHANGED money
    BY <1>1, <1>3, <2>1 DEF CommitRequest, money, console
  <2>2. CASE /\ balance[Owner[id]] >= Amount[id]
             /\ balance' = [balance EXCEPT ![Owner[id]] = @ - Amount[id]]
             /\ status' = [status EXCEPT ![id] = "PENDING"]
    <3>1. status[id] = "none" /\ UNCHANGED opening
      BY <1>0, <1>3 DEF IInv, CheckedIsNew, CommitRequest, console
    <3>2. id \notin Out(Owner[id])
      BY <3>1 DEF Out
    <3>3. status'[id] = "PENDING" /\ \A other \in Ids \ {id} : status'[other] = status[other]
      BY <1>0, <2>2
    <3> QED
      BY <2>2, <3>1, <3>2, <3>3, OutMoves
  <2> QED
    BY <1>3, <2>1, <2>2 DEF CommitRequest
<1>4. ASSUME NEW id \in Ids, UNCHANGED opening,
             \/ status[id] = "PENDING" /\ status' = [status EXCEPT ![id] = "REJECTED"]
             \/ status[id] = "PROCESSED" /\ status' = [status EXCEPT ![id] = "FAILED"],
             balance' = [balance EXCEPT ![Owner[id]] = @ + Amount[id]]
      PROVE  \A m \in Members : OutAddsUp(m)'
  <2>1. id \in Out(Owner[id])
    BY <1>4 DEF Out
  <2>2. status'[id] \in {"REJECTED", "FAILED"} /\ \A other \in Ids \ {id} : status'[other] = status[other]
    BY <1>0, <1>4
  <2> QED
    BY <1>4, <2>1, <2>2, OutMoves
<1>5. ASSUME NEW id \in Ids, Reject(id) PROVE \A m \in Members : OutAddsUp(m)'
  BY <1>4, <1>5 DEF Reject, Refund, console
<1>6. ASSUME NEW h \in Handlers, FinishCallback(h) PROVE \A m \in Members : OutAddsUp(m)'
  <2>1. handler[h].id \in Ids
    BY <1>0, <1>6 DEF IInv, RowsAreKnown, FinishCallback
  <2> QED
    BY <1>1, <1>4, <1>6, <2>1 DEF FinishCallback, MarkPayoutFailed, Refund, money, console
<1>7. ASSUME NEW a \in Approvals, Claim(a) PROVE \A m \in Members : OutAddsUp(m)'
  <2>1. UNCHANGED <<opening, balance>>
    BY <1>7 DEF Claim, console
  <2>2. \A id \in Ids : status'[id] \in {"PENDING", "PROCESSED"} <=> status[id] \in {"PENDING", "PROCESSED"}
    BY <1>0, <1>7 DEF Claim
  <2> QED
    BY <2>1, <2>2, OutStays
<1>8. CASE \/ \E id \in Ids : CheckRequest(id) \/ PayOnChain(id) \/ PayByHand(id)
           \/ (\E m \in Members : VerifyMember(m)) \/ FlipSwitch
  BY <1>1, <1>8 DEF CheckRequest, PayOnChain, PayByHand, VerifyMember, FlipSwitch, money, console
<1>9. CASE \E a \in Approvals : Resolve(a) \/ Enqueue(a) \/ LeaveToOperator(a) \/ CallGateway(a)
                                \/ StoreTrack(a) \/ ApprovalStops(a)
  BY <1>1, <1>9 DEF Resolve, Enqueue, LeaveToOperator, CallGateway, StoreTrack, ApprovalStops, money, console
<1>10. CASE \/ \E t \in Tracks : GatewayReports(t)
            \/ \E c \in outbox : CallbackUnknown(c) \/ \E h \in Handlers : CallbackMatched(h, c)
            \/ \E h \in Handlers : HandlerDies(h)
  BY <1>1, <1>10 DEF GatewayReports, CallbackUnknown, CallbackMatched, HandlerDies, money, console
<1> QED
  BY <1>2, <1>3, <1>5, <1>6, <1>7, <1>8, <1>9, <1>10 DEF Next

\* Before anything is requested a member holds the opening balance.
LEMMA MoneyInit == Init => MoneyIInv
<1> SUFFICES ASSUME Init PROVE \A m \in Members : OutAddsUp(m)
  BY InitInvariant DEF MoneyIInv
<1>1. \A m \in Members : Out(m) = {} /\ opening[m] \in Nat /\ balance[m] = opening[m]
  BY AmountsAssumption DEF Init, Out
<1>2. IsFiniteSet({}) /\ SumOver(Amount, {}) = 0
  BY FS_EmptySet, SumStep
<1> QED
  BY <1>1, <1>2 DEF OutAddsUp

\* No member's wallet is overdrawn, and it is short by what the member has out.
LEMMA WithdrawalsConserve == Spec => []Conservation
<1>1. MoneyIInv => Conservation
  BY OutstandingIsSum DEF MoneyIInv, OutAddsUp, Conservation
<1> QED
  BY <1>1, MoneyInit, MoneyStep, PTL DEF Spec

-----------------------------------------------------------------------------
(* Refusals *)

\* A refusal is stored with a payout that was sent.
RefusedWasSent == \A id \in Ids : gatewayStatus[id] = "canceled" => track[id] \in Tracks

RefusalIInv == IInv /\ RefusedWasSent /\ RefusalIsNotForgotten

\* A refusal that is stored and not refunded has its callback unanswered, after
\* every step.
LEMMA RefusalStep == RefusalIInv /\ [Next]_vars => RefusalIInv'
<1> SUFFICES ASSUME RefusalIInv, [Next]_vars PROVE RefusedWasSent' /\ RefusalIsNotForgotten'
  BY StepInvariant DEF RefusalIInv
<1> USE NoneAssumption DEF RefusalIInv
<1>0. /\ status \in [Ids -> Statuses] /\ gatewayStatus \in [Ids -> PayoutStates]
      /\ track \in [Ids -> Tracks \union {None}] /\ outbox \subseteq Callback
  BY DEF IInv, TypeOK
\* The stored answers stay, what is stored as refused was decided, and the call is there.
<1>1. ASSUME UNCHANGED <<track, gatewayStatus>>,
             \A id \in Ids : status'[id] = "PROCESSED" => status[id] \in {"PENDING", "PROCESSED"},
             \A id \in Ids : status'[id] = "PROCESSED" /\ [track |-> track[id], status |-> "canceled"] \in outbox
               => [track |-> track[id], status |-> "canceled"] \in outbox'
      PROVE  RefusedWasSent' /\ RefusalIsNotForgotten'
  <2>1. \A id \in Ids : gatewayStatus[id] = "canceled" => status[id] # "PENDING"
    <3> SUFFICES ASSUME NEW id \in Ids, gatewayStatus[id] = "canceled" PROVE status[id] # "PENDING"
      OBVIOUS
    <3>1. track[id] \in Tracks /\ payout[track[id]].for = id
      BY DEF IInv, RefusedWasSent, TracksAgree
    <3> QED
      BY <3>1 DEF IInv, ClaimIsExclusive
  <2> QED
    BY <1>1, <2>1 DEF RefusedWasSent, RefusalIsNotForgotten
<1>2. CASE UNCHANGED vars
  BY <1>1, <1>2 DEF vars, money, external
<1>3. ASSUME UNCHANGED <<status, track, gatewayStatus, outbox>> PROVE RefusedWasSent' /\ RefusalIsNotForgotten'
  BY <1>1, <1>3
<1>4. ASSUME NEW id \in Ids, CommitRequest(id) \/ Reject(id) PROVE RefusedWasSent' /\ RefusalIsNotForgotten'
  <2>1. UNCHANGED <<track, gatewayStatus, outbox>>
    BY <1>4 DEF CommitRequest, Reject, external
  <2>2. \A other \in Ids : status'[other] = "PROCESSED" => status[other] = "PROCESSED"
    BY <1>0, <1>4 DEF CommitRequest, Reject, money
  <2> QED
    BY <1>1, <2>1, <2>2
<1>5. ASSUME NEW a \in Approvals, Claim(a) PROVE RefusedWasSent' /\ RefusalIsNotForgotten'
  <2>1. UNCHANGED <<track, gatewayStatus, outbox>>
    BY <1>5 DEF Claim, external
  <2>2. \A other \in Ids : status'[other] = "PROCESSED" => status[other] \in {"PENDING", "PROCESSED"}
    BY <1>0, <1>5 DEF Claim
  <2> QED
    BY <1>1, <2>1, <2>2
<1>6. ASSUME NEW a \in Approvals, StoreTrack(a) PROVE RefusedWasSent' /\ RefusalIsNotForgotten'
  <2>1. UNCHANGED <<status, outbox>>
    BY <1>6 DEF StoreTrack, money, external
  <2>2. \A id \in Ids : gatewayStatus'[id] = "canceled" => /\ gatewayStatus[id] = "canceled"
                                                           /\ track'[id] = track[id]
    BY <1>0, <1>6 DEF StoreTrack
  <2> QED
    BY <2>1, <2>2 DEF RefusedWasSent, RefusalIsNotForgotten
<1>7. ASSUME NEW t \in Tracks, GatewayReports(t) PROVE RefusedWasSent' /\ RefusalIsNotForgotten'
  BY <1>1, <1>7 DEF GatewayReports, money
<1>8. ASSUME NEW c \in outbox, CallbackUnknown(c) PROVE RefusedWasSent' /\ RefusalIsNotForgotten'
  <2>1. UNCHANGED <<status, track, gatewayStatus>> /\ outbox' = outbox \ {c} /\ \A id \in Ids : track[id] # c.track
    BY <1>8 DEF CallbackUnknown, money
  <2>2. \A id \in Ids : [track |-> track[id], status |-> "canceled"] # c
    BY <2>1
  <2> QED
    BY <1>1, <2>1, <2>2
<1>9. ASSUME NEW c \in outbox, NEW h \in Handlers, CallbackMatched(h, c)
      PROVE  RefusedWasSent' /\ RefusalIsNotForgotten'
  <2>1. UNCHANGED <<status, track, outbox>>
    BY <1>9 DEF CallbackMatched, money, external
  <2>2. PICK id \in Ids : track[id] = c.track /\ gatewayStatus' = [gatewayStatus EXCEPT ![id] = c.status]
    BY <1>9 DEF CallbackMatched
  <2>3. c \in Callback
    BY <1>0
  <2>4. c.track \in Tracks /\ c = [track |-> c.track, status |-> c.status]
    BY <2>3 DEF Callback
  <2>5. \A other \in Ids : gatewayStatus'[other] = IF other = id THEN c.status ELSE gatewayStatus[other]
    BY <1>0, <2>2
  <2> QED
    BY <2>1, <2>2, <2>4, <2>5 DEF RefusedWasSent, RefusalIsNotForgotten
<1>10. ASSUME NEW h \in Handlers, FinishCallback(h) PROVE RefusedWasSent' /\ RefusalIsNotForgotten'
  <2> DEFINE c == handler[h].call
             id == handler[h].id
  <2>1. id \in Ids /\ c \in Callback /\ payout[c.track].for = id
    BY <1>10 DEF IInv, RowsAreKnown, TracksAgree, FinishCallback
  <2>2. UNCHANGED <<track, gatewayStatus>> /\ outbox' \in {outbox, outbox \ {c}}
    BY <1>10 DEF FinishCallback
  <2>3. /\ \A other \in Ids : status'[other] = "PROCESSED" => status[other] = "PROCESSED"
        /\ c.status = "canceled" => status'[id] # "PROCESSED"
    BY <1>0, <1>10, <2>1 DEF FinishCallback, MarkPayoutFailed, money
  <2> HIDE DEF c, id
  <2>4. \A other \in Ids : [track |-> track[other], status |-> "canceled"] = c => other = id
    <3> SUFFICES ASSUME NEW other \in Ids, [track |-> track[other], status |-> "canceled"] = c PROVE other = id
      OBVIOUS
    <3>1. track[other] = c.track /\ c.track \in Tracks
      BY <2>1 DEF Callback
    <3> QED
      BY <2>1, <3>1 DEF IInv, TracksAgree
  <2>5. \A other \in Ids : [track |-> track[other], status |-> "canceled"] = c => c.status = "canceled"
    OBVIOUS
  <2> QED
    BY <1>1, <2>2, <2>3, <2>4, <2>5
<1>11. CASE \/ \E id \in Ids : CheckRequest(id) \/ PayOnChain(id) \/ PayByHand(id)
            \/ (\E m \in Members : VerifyMember(m)) \/ FlipSwitch \/ \E h \in Handlers : HandlerDies(h)
  BY <1>3, <1>11 DEF CheckRequest, PayOnChain, PayByHand, VerifyMember, FlipSwitch, HandlerDies, money, external
<1>12. CASE \E a \in Approvals : Resolve(a) \/ Enqueue(a) \/ LeaveToOperator(a) \/ CallGateway(a) \/ ApprovalStops(a)
  BY <1>3, <1>12 DEF Resolve, Enqueue, LeaveToOperator, CallGateway, ApprovalStops, money, external
<1> QED
  BY <1>2, <1>4, <1>5, <1>6, <1>7, <1>8, <1>9, <1>10, <1>11, <1>12 DEF Next

\* Refusals the gateway has reported and the platform not refunded are reported
\* again.
LEMMA RefusalsAreKept == Spec => []RefusalIsNotForgotten
<1>1. Init => RefusalIInv
  BY InitInvariant DEF RefusalIInv, Init, RefusedWasSent, RefusalIsNotForgotten
<1>2. RefusalIInv => RefusalIsNotForgotten
  BY DEF RefusalIInv
<1> QED
  BY <1>1, <1>2, RefusalStep, PTL DEF Spec

-----------------------------------------------------------------------------
(* Deposits *)

Invoices == Providers \X InvoiceIds
Calls == [invoice : Invoices, status : {"underpaid", "paid", "dead"}]
Confirmation == [pc : {"idle", "read", "credit"}, id : DepositIds \union {None}, call : Calls \union {None}]

DepositTypes ==
  /\ deposit \in [DepositIds -> {"none", "PENDING", "PROCESSED", "REJECTED", "deleted"}]
  /\ credits \in [DepositIds -> {0, 1}]
  /\ raising \in [DepositIds -> {"no", "asking", "storing"}]
  /\ invoiceOf \in [DepositIds -> Invoices \union {None}]
  /\ invoice \in [Invoices -> [for : DepositIds \union {None},
                               state : {"none", "open", "underpaid", "dead", "paid"}]]
  /\ calls \subseteq Calls /\ vouched \subseteq DepositIds
  /\ confirmation \in [Confirmations -> Confirmation]

\* A deposit has been asked an invoice for.
Invoiced(id) == \E i \in Invoices : invoice[i].for = id

\* An invoice is one deposit's, and it is paid only under the id it was raised with.
InvoicesAgree ==
  /\ \A i \in Invoices : invoice[i].state = "none" <=> invoice[i].for = None
  /\ \A i, j \in Invoices : invoice[i].for = invoice[j].for /\ invoice[i].for # None => i = j
  /\ \A id \in DepositIds : invoiceOf[id] # None => invoice[invoiceOf[id]].for = id
  /\ \A i \in Invoices : invoice[i].state = "paid" => invoiceOf[invoice[i].for] = i

\* startDeposit works on a row that has no invoice yet.
RaisingIsNew ==
  \A id \in DepositIds :
    /\ deposit[id] = "none" => raising[id] = "no" /\ ~Invoiced(id)
    /\ raising[id] = "asking" => ~Invoiced(id)
    /\ raising[id] = "storing" => Invoiced(id) /\ invoiceOf[id] = None

PaidCalls == \A c \in calls : c.status = "paid" => invoice[c.invoice].state = "paid"

\* A confirmation has an operator's word, or the paid invoice of its deposit.
Warranted(r) ==
  r.pc # "idle" =>
    /\ r.id \in DepositIds /\ (r.call = None => r.id \in vouched)
    /\ r.call # None => /\ r.call.status = "paid" /\ invoiceOf[r.id] = r.call.invoice
                        /\ invoice[r.call.invoice].state = "paid"

ConfirmationsAreWarranted == \A h \in Confirmations : Warranted(confirmation[h])

DepositsIInv ==
  /\ DepositTypes /\ InvoicesAgree /\ RaisingIsNew /\ PaidCalls /\ ConfirmationsAreWarranted
  /\ D!ProcessedIffCredited /\ D!CreditedWasPaid /\ D!PaidIsOutstanding

-----------------------------------------------------------------------------
\* With no deposit raised the invariant of the deposits holds.
LEMMA DepositsInit == D!Init => DepositsIInv
<1> SUFFICES ASSUME D!Init PROVE DepositsIInv
  OBVIOUS
<1> USE DepositsAssumption DEF D!Init, D!IdleHandler, D!Invoices, Invoices
<1>1. DepositTypes
  BY DEF DepositTypes, Confirmation
<1>2. InvoicesAgree /\ RaisingIsNew /\ PaidCalls /\ ConfirmationsAreWarranted
  BY DEF InvoicesAgree, RaisingIsNew, Invoiced, PaidCalls, ConfirmationsAreWarranted, Warranted
<1>3. D!ProcessedIffCredited /\ D!CreditedWasPaid /\ D!PaidIsOutstanding
  BY DEF D!ProcessedIffCredited, D!CreditedWasPaid, D!PaidIsOutstanding
<1> QED
  BY <1>1, <1>2, <1>3 DEF DepositsIInv

\* Rows are reported, rejected and given up; that concerns no invoice and no credit.
LEMMA RowsInvariant ==
  ASSUME DepositsIInv, NEW id \in DepositIds,
         D!Report(id) \/ D!StartDeposit(id) \/ D!Reject(id) \/ D!AbandonDeposit(id) \/ D!StartDies(id)
  PROVE  DepositsIInv'
<1> USE DepositsAssumption DEF DepositsIInv, D!Invoices, D!gateway, Invoices
<1>1. /\ UNCHANGED <<credits, invoiceOf, invoice, calls, vouched, confirmation>>
      /\ \A other \in DepositIds \ {id} : deposit'[other] = deposit[other] /\ raising'[other] = raising[other]
      /\ deposit' \in [DepositIds -> {"none", "PENDING", "PROCESSED", "REJECTED", "deleted"}]
      /\ raising' \in [DepositIds -> {"no", "asking", "storing"}]
  BY DEF DepositTypes, D!Report, D!StartDeposit, D!Reject, D!AbandonDeposit, D!StartDies
<1>2. /\ deposit'[id] \in {"PENDING", "REJECTED", "deleted"} \/ (deposit'[id] = deposit[id] /\ deposit[id] # "none")
      /\ deposit'[id] = "PENDING" => deposit[id] \in {"none", "PENDING"}
      /\ deposit'[id] = "REJECTED" => deposit[id] \in {"PENDING", "REJECTED"}
      /\ raising'[id] \in {raising[id], "no"} \/ (raising'[id] = "asking" /\ deposit[id] = "none")
  BY DEF DepositTypes, RaisingIsNew, D!Report, D!StartDeposit, D!Reject, D!AbandonDeposit, D!StartDies
<1>3. DepositTypes'
  BY <1>1 DEF DepositTypes
<1>4. InvoicesAgree' /\ PaidCalls' /\ ConfirmationsAreWarranted'
  BY <1>1 DEF InvoicesAgree, PaidCalls, ConfirmationsAreWarranted, Warranted
<1>5. RaisingIsNew'
  BY <1>1, <1>2 DEF RaisingIsNew, Invoiced
<1>6. D!ProcessedIffCredited'
  BY <1>1, <1>2 DEF DepositTypes, D!ProcessedIffCredited
<1>7. D!CreditedWasPaid'
  BY <1>1 DEF D!CreditedWasPaid
<1>8. D!PaidIsOutstanding'
  <2>1. \A i \in Invoices : invoiceOf[id] = i => deposit[id] # "none"
    BY DEF RaisingIsNew, InvoicesAgree, Invoiced
  <2> QED
    BY <1>1, <1>2, <2>1 DEF D!PaidIsOutstanding
<1> QED
  BY <1>3, <1>4, <1>5, <1>6, <1>7, <1>8

\* An invoice is new when it is raised.
LEMMA RaiseInvariant ==
  ASSUME DepositsIInv, NEW id \in DepositIds, D!RaiseInvoice(id)
  PROVE  DepositsIInv'
<1> USE DepositsAssumption DEF DepositsIInv, D!Invoices, Invoices
<1>1. PICK i \in Invoices :
        /\ invoice[i].state = "none"
        /\ invoice' = [invoice EXCEPT ![i] = [for |-> id, state |-> "open"]]
        /\ raising' = [raising EXCEPT ![id] = "storing"]
  BY DEF D!RaiseInvoice
<1>2. raising[id] = "asking" /\ UNCHANGED <<deposit, credits, invoiceOf, calls, vouched, confirmation>>
  BY DEF D!RaiseInvoice
<1>3. invoice'[i] = [for |-> id, state |-> "open"] /\ \A j \in Invoices \ {i} : invoice'[j] = invoice[j]
  BY <1>1 DEF DepositTypes
<1>4. raising'[id] = "storing" /\ \A other \in DepositIds \ {id} : raising'[other] = raising[other]
  BY <1>1 DEF DepositTypes
<1>5. ~Invoiced(id) /\ invoiceOf[id] = None /\ deposit[id] # "none" /\ invoice[i].for = None
  BY <1>1, <1>2 DEF RaisingIsNew, InvoicesAgree, Invoiced, DepositTypes
<1>6. DepositTypes'
  BY <1>1, <1>2 DEF DepositTypes
<1>7. InvoicesAgree'
  <2> USE DEF InvoicesAgree
  <2>1. \A j \in Invoices : invoice'[j].state = "none" <=> invoice'[j].for = None
    BY <1>3
  <2>2. ASSUME NEW j \in Invoices, NEW k \in Invoices,
               invoice'[j].for = invoice'[k].for, invoice'[j].for # None
        PROVE  j = k
    BY <1>3, <1>5, <2>2 DEF Invoiced
  <2>3. ASSUME NEW other \in DepositIds, invoiceOf[other] # None
        PROVE  invoice'[invoiceOf[other]].for = other
    <3>1. invoiceOf[other] \in Invoices /\ invoice[invoiceOf[other]].for = other
      BY <2>3 DEF DepositTypes
    <3> QED
      BY <1>3, <1>5, <3>1
  <2>4. \A j \in Invoices : invoice'[j].state = "paid" => invoiceOf[invoice'[j].for] = j
    BY <1>3
  <2> QED
    BY <1>2, <2>1, <2>2, <2>3, <2>4
<1>8. RaisingIsNew'
  <2>1. \A other \in DepositIds \ {id} : Invoiced(other)' <=> Invoiced(other)
    BY <1>3, <1>5 DEF Invoiced
  <2>2. Invoiced(id)'
    BY <1>3 DEF Invoiced
  <2> QED
    BY <1>2, <1>4, <1>5, <2>1, <2>2 DEF RaisingIsNew
<1>9. PaidCalls' /\ ConfirmationsAreWarranted'
  <2>1. \A j \in Invoices : invoice[j].state = "paid" => invoice'[j].state = "paid"
    BY <1>1, <1>3
  <2>2. \A c \in Calls : c.invoice \in Invoices
    BY DEF Calls
  <2> QED
    BY <1>2, <2>1, <2>2 DEF PaidCalls, ConfirmationsAreWarranted, Warranted, DepositTypes, Confirmation
<1>10. D!ProcessedIffCredited' /\ D!CreditedWasPaid' /\ D!PaidIsOutstanding'
  BY <1>1, <1>2, <1>3 DEF D!ProcessedIffCredited, D!CreditedWasPaid, D!PaidIsOutstanding
<1> QED
  BY <1>6, <1>7, <1>8, <1>9, <1>10

\* It is stored with the deposit it was raised for, before it can be paid.
LEMMA StoreInvariant ==
  ASSUME DepositsIInv, NEW id \in DepositIds, D!StoreInvoice(id)
  PROVE  DepositsIInv'
<1> USE DepositsAssumption DEF DepositsIInv, D!Invoices, D!gateway, Invoices
<1> DEFINE i == D!Raised(id)
<1>1. /\ raising[id] = "storing" /\ invoiceOf' = [invoiceOf EXCEPT ![id] = i]
      /\ raising' = [raising EXCEPT ![id] = "no"]
      /\ UNCHANGED <<deposit, credits, invoice, calls, vouched, confirmation>>
  BY DEF D!StoreInvoice
<1>2. i \in Invoices /\ invoice[i].for = id
  BY <1>1 DEF D!Raised, RaisingIsNew, Invoiced
<1> HIDE DEF i
<1>3. invoiceOf[id] = None
  BY <1>1 DEF RaisingIsNew
<1>4. invoice[i].state # "paid"
  BY <1>2, <1>3 DEF InvoicesAgree
<1>5. invoiceOf'[id] = i /\ \A other \in DepositIds \ {id} : invoiceOf'[other] = invoiceOf[other]
  BY <1>1 DEF DepositTypes
<1>6. DepositTypes'
  BY <1>1, <1>2 DEF DepositTypes
<1>7. InvoicesAgree'
  BY <1>1, <1>2, <1>4, <1>5 DEF InvoicesAgree, DepositTypes
<1>8. RaisingIsNew'
  BY <1>1, <1>5 DEF RaisingIsNew, Invoiced, DepositTypes
<1>9. PaidCalls' /\ ConfirmationsAreWarranted'
  <2>1. \A h \in Confirmations : Warranted(confirmation[h])'
    <3> TAKE h \in Confirmations
    <3>1. confirmation[h] \in Confirmation /\ Warranted(confirmation[h])
      BY DEF DepositTypes, ConfirmationsAreWarranted
    <3>2. \A c \in Calls : c.invoice # None
      BY DEF Calls
    <3>3. ASSUME confirmation[h].pc # "idle", confirmation[h].call # None
          PROVE  invoiceOf'[confirmation[h].id] = confirmation[h].call.invoice
      <4>1. confirmation[h].call.invoice # None /\ confirmation[h].id \in DepositIds
        BY <3>1, <3>2, <3>3 DEF Warranted, Confirmation
      <4>2. confirmation[h].id # id
        BY <1>3, <3>1, <3>3, <4>1 DEF Warranted
      <4> QED
        BY <1>5, <3>1, <3>3, <4>1, <4>2 DEF Warranted
    <3> QED
      BY <1>1, <3>1, <3>3 DEF Warranted
  <2> QED
    BY <1>1, <2>1 DEF PaidCalls, ConfirmationsAreWarranted
<1>10. D!ProcessedIffCredited'
  BY <1>1 DEF D!ProcessedIffCredited
<1>11. D!CreditedWasPaid'
  <2> SUFFICES ASSUME NEW other \in DepositIds, credits[other] > 0, other \notin vouched
               PROVE  \E j \in Invoices : /\ invoiceOf'[other] = j
                                         /\ invoice[j] = [for |-> other, state |-> "paid"]
    BY <1>1 DEF D!CreditedWasPaid
  <2>1. PICK j \in Invoices : invoiceOf[other] = j /\ invoice[j] = [for |-> other, state |-> "paid"]
    BY DEF D!CreditedWasPaid
  <2>2. other # id
    BY <1>3, <2>1
  <2> QED
    BY <1>5, <2>1, <2>2
<1>12. D!PaidIsOutstanding'
  BY <1>1, <1>4, <1>5 DEF D!PaidIsOutstanding
<1> QED
  BY <1>6, <1>7, <1>8, <1>9, <1>10, <1>11, <1>12

\* The gateway says what its record says.
LEMMA ReportsInvariant ==
  ASSUME DepositsIInv, NEW i \in D!Invoices, D!GatewayReports(i)
  PROVE  DepositsIInv'
<1> USE DepositsAssumption DEF DepositsIInv, D!Invoices, D!rows, Invoices
<1>1. PICK s \in {"underpaid", "paid", "dead"} \ {invoice[i].state} :
        /\ s = "dead" \/ invoiceOf[invoice[i].for] = i
        /\ invoice' = [invoice EXCEPT ![i].state = s]
        /\ calls' = calls \union {[invoice |-> i, status |-> s]}
  BY DEF D!GatewayReports
<1>2. /\ UNCHANGED <<deposit, credits, raising, invoiceOf, vouched, confirmation>>
      /\ invoice[i].state \in {"open", "underpaid", "dead"}
  BY DEF D!GatewayReports
<1>3. invoice'[i] = [for |-> invoice[i].for, state |-> s] /\ \A j \in Invoices \ {i} : invoice'[j] = invoice[j]
  BY <1>1 DEF DepositTypes
<1>4. DepositTypes'
  BY <1>1, <1>2 DEF DepositTypes, Calls
<1>5. \A j \in Invoices : invoice'[j].for = invoice[j].for /\ (invoice[j].state = "paid" => invoice'[j].state = "paid")
  BY <1>2, <1>3
<1>6. InvoicesAgree'
  BY <1>1, <1>2, <1>3 DEF InvoicesAgree, DepositTypes
<1>7. RaisingIsNew'
  BY <1>2, <1>5 DEF RaisingIsNew, Invoiced
<1>8. PaidCalls' /\ ConfirmationsAreWarranted'
  <2>1. \A c \in Calls : c.invoice \in Invoices
    BY DEF Calls
  <2>2. calls \subseteq Calls /\ \A h \in Confirmations : confirmation[h] \in Confirmation
    BY DEF DepositTypes
  <2>3. PaidCalls'
    BY <1>1, <1>3, <1>5, <2>1, <2>2 DEF PaidCalls
  <2>4. ConfirmationsAreWarranted'
    BY <1>2, <1>5, <2>1, <2>2 DEF ConfirmationsAreWarranted, Warranted, Confirmation
  <2> QED
    BY <2>3, <2>4
<1>9. D!ProcessedIffCredited'
  BY <1>2 DEF D!ProcessedIffCredited
<1>10. D!CreditedWasPaid'
  <2>1. ASSUME NEW j \in Invoices, NEW id \in DepositIds, invoice[j] = [for |-> id, state |-> "paid"]
        PROVE  invoice'[j] = [for |-> id, state |-> "paid"]
    <3>1. j # i
      BY <1>2, <2>1
    <3> QED
      BY <1>3, <2>1, <3>1
  <2> SUFFICES ASSUME NEW id \in DepositIds, credits[id] > 0, id \notin vouched
               PROVE  \E j \in Invoices : invoiceOf[id] = j /\ invoice'[j] = [for |-> id, state |-> "paid"]
    BY <1>2 DEF D!CreditedWasPaid
  <2>2. PICK j \in Invoices : invoiceOf[id] = j /\ invoice[j] = [for |-> id, state |-> "paid"]
    BY DEF D!CreditedWasPaid
  <2> QED
    BY <2>1, <2>2
<1>11. D!PaidIsOutstanding'
  BY <1>1, <1>2, <1>3 DEF D!PaidIsOutstanding
<1> QED
  BY <1>4, <1>6, <1>7, <1>8, <1>9, <1>10, <1>11

\* What a confirmation is given to act on: an operator's word, or a paid call.
LEMMA BeginInvariant ==
  ASSUME DepositsIInv, NEW h \in Confirmations, NEW r \in Confirmation,
         confirmation' = [confirmation EXCEPT ![h] = r], Warranted(r)',
         UNCHANGED <<deposit, credits, raising, invoiceOf, invoice, calls>>,
         vouched \subseteq vouched' /\ vouched' \subseteq DepositIds
  PROVE  DepositsIInv'
<1> USE DEF DepositsIInv
<1>1. DepositTypes'
  BY DEF DepositTypes
<1>2. InvoicesAgree' /\ RaisingIsNew' /\ PaidCalls'
  BY DEF InvoicesAgree, RaisingIsNew, Invoiced, PaidCalls
<1>3. ConfirmationsAreWarranted'
  BY DEF ConfirmationsAreWarranted, Warranted, DepositTypes
<1>4. D!ProcessedIffCredited' /\ D!CreditedWasPaid' /\ D!PaidIsOutstanding'
  BY DEF D!ProcessedIffCredited, D!CreditedWasPaid, D!PaidIsOutstanding, D!Invoices
<1> QED
  BY <1>1, <1>2, <1>3, <1>4

\* An operator's confirmation, which reads the row before it credits it.
LEMMA ConfirmInvariant ==
  ASSUME DepositsIInv, NEW h \in Confirmations, NEW id \in DepositIds, D!OperatorConfirms(h, id)
  PROVE  DepositsIInv'
<1> DEFINE r == [pc |-> "read", id |-> id, call |-> None]
<1>1. r \in Confirmation
  BY DEF Confirmation
<1>2. /\ confirmation' = [confirmation EXCEPT ![h] = r] /\ vouched' = vouched \union {id}
      /\ UNCHANGED <<deposit, credits, raising, invoiceOf, invoice, calls>>
  BY DEF D!OperatorConfirms, D!rows, D!gateway
<1>3. Warranted(r)'
  BY <1>2 DEF Warranted
<1>4. vouched \subseteq vouched' /\ vouched' \subseteq DepositIds
  BY <1>2 DEF DepositsIInv, DepositTypes
<1> QED
  BY <1>1, <1>2, <1>3, <1>4, BeginInvariant

\* A call is answered for good when no pending deposit is owed its payment.
LEMMA AcknowledgeInvariant ==
  ASSUME DepositsIInv, NEW c \in calls, D!Acknowledge(c),
         UNCHANGED <<deposit, credits, raising, invoiceOf, invoice, vouched, confirmation>>,
         c.status = "paid" => \A id \in DepositIds : invoiceOf[id] = c.invoice => deposit[id] # "PENDING"
  PROVE  DepositsIInv'
<1> USE DEF DepositsIInv
<1>1. calls' \subseteq calls /\ calls \subseteq calls' \union {c}
  BY DEF D!Acknowledge
<1>2. DepositTypes'
  BY <1>1 DEF DepositTypes
<1>3. InvoicesAgree' /\ RaisingIsNew' /\ PaidCalls' /\ ConfirmationsAreWarranted'
  BY <1>1 DEF InvoicesAgree, RaisingIsNew, Invoiced, PaidCalls, ConfirmationsAreWarranted, Warranted
<1>4. D!ProcessedIffCredited' /\ D!CreditedWasPaid'
  BY DEF D!ProcessedIffCredited, D!CreditedWasPaid
<1>5. D!PaidIsOutstanding'
  BY <1>1 DEF D!PaidIsOutstanding
<1> QED
  BY <1>2, <1>3, <1>4, <1>5

\* A payment callback, which reads the row before it credits it.
LEMMA CallbackInvariant ==
  ASSUME DepositsIInv, NEW c \in calls, D!CallbackUnknown(c) \/ \E h \in Confirmations : D!CallbackMatched(h, c)
  PROVE  DepositsIInv'
<1> USE DepositsAssumption DEF DepositsIInv
<1>1. c \in Calls /\ c.invoice \in Invoices /\ c # None /\ c.invoice # None
  BY DEF DepositTypes, Calls, Invoices
<1>2. CASE D!CallbackUnknown(c)
  <2>1. \A id \in DepositIds : invoiceOf[id] = c.invoice => deposit[id] = "deleted"
    BY <1>2 DEF D!CallbackUnknown
  <2> QED
    BY <1>2, <2>1, AcknowledgeInvariant DEF D!CallbackUnknown, D!rows
<1>3. ASSUME NEW h \in Confirmations, D!CallbackMatched(h, c) PROVE DepositsIInv'
  <2>1. PICK id \in DepositIds :
          /\ invoiceOf[id] = c.invoice
          /\ IF c.status = "paid" /\ deposit[id] # "PROCESSED"
             THEN /\ confirmation' = [confirmation EXCEPT ![h] = [pc |-> "read", id |-> id, call |-> c]]
                  /\ UNCHANGED calls
             ELSE D!Acknowledge(c) /\ UNCHANGED confirmation
    BY <1>3 DEF D!CallbackMatched, D!Matches
  <2>2. UNCHANGED <<deposit, credits, raising, invoiceOf, invoice, vouched>>
    BY <1>3 DEF D!CallbackMatched
  <2>3. \A other \in DepositIds : invoiceOf[other] = c.invoice => other = id
    BY <1>1, <2>1 DEF InvoicesAgree
  <2>4. CASE c.status = "paid" /\ deposit[id] # "PROCESSED"
    <3> DEFINE r == [pc |-> "read", id |-> id, call |-> c]
    <3>1. r \in Confirmation
      BY <1>1 DEF Confirmation
    <3>2. Warranted(r)'
      BY <1>1, <2>1, <2>2, <2>4 DEF Warranted, PaidCalls
    <3> HIDE DEF r
    <3>3. confirmation' = [confirmation EXCEPT ![h] = r]
      BY <2>1, <2>4 DEF r
    <3> QED
      BY <2>1, <2>2, <2>4, <3>1, <3>2, <3>3, BeginInvariant DEF DepositTypes
  <2>5. CASE ~(c.status = "paid" /\ deposit[id] # "PROCESSED")
    BY <2>1, <2>2, <2>3, <2>5, AcknowledgeInvariant
  <2> QED
    BY <2>4, <2>5
<1> QED
  BY <1>2, <1>3

\* A confirmation that is over has acknowledged nothing but a deposit that is
\* processed.
LEMMA OverInvariant ==
  ASSUME DepositsIInv, NEW h \in Confirmations, D!Throw(h) \/ D!Answer(h),
         confirmation[h].pc # "idle", D!Throw(h) \/ deposit[confirmation[h].id] = "PROCESSED",
         UNCHANGED <<deposit, credits, raising, invoiceOf, invoice, vouched>>
  PROVE  DepositsIInv'
<1> USE DepositsAssumption DEF DepositsIInv
<1>1. confirmation' = [confirmation EXCEPT ![h] = D!IdleHandler]
  BY DEF D!Throw, D!Answer
<1>2. D!IdleHandler \in Confirmation /\ Warranted(D!IdleHandler)'
  BY DEF D!IdleHandler, Confirmation, Warranted
<1>3. CASE UNCHANGED calls
  BY <1>1, <1>2, <1>3, BeginInvariant DEF DepositTypes
<1>4. CASE ~(UNCHANGED calls)
  <2> DEFINE c == confirmation[h].call
             id == confirmation[h].id
  <2>1. deposit[id] = "PROCESSED" /\ c # None /\ calls' = calls \ {c}
    BY <1>4 DEF D!Throw, D!Answer, D!Acknowledge
  <2>2. confirmation[h] \in Confirmation /\ Warranted(confirmation[h])
    BY DEF DepositTypes, ConfirmationsAreWarranted
  <2>3. c \in Calls /\ c.status = "paid" /\ c.invoice \in Invoices /\ id \in DepositIds /\ invoiceOf[id] = c.invoice
    BY <2>1, <2>2 DEF Warranted, Confirmation, Calls
  <2> HIDE DEF c, id
  <2>4. \A other \in DepositIds : invoiceOf[other] = c.invoice => other = id
    BY <2>3 DEF InvoicesAgree, Invoices
  <2>5. DepositTypes'
    BY <1>1, <1>2, <2>1 DEF DepositTypes
  <2>6. InvoicesAgree' /\ RaisingIsNew' /\ PaidCalls'
    BY <2>1 DEF InvoicesAgree, RaisingIsNew, Invoiced, PaidCalls
  <2>7. ConfirmationsAreWarranted'
    BY <1>1, <1>2 DEF ConfirmationsAreWarranted, Warranted, DepositTypes
  <2>8. D!ProcessedIffCredited' /\ D!CreditedWasPaid'
    BY DEF D!ProcessedIffCredited, D!CreditedWasPaid
  <2>9. D!PaidIsOutstanding'
    BY <2>1, <2>3, <2>4 DEF D!PaidIsOutstanding
  <2> QED
    BY <2>5, <2>6, <2>7, <2>8, <2>9
<1> QED
  BY <1>3, <1>4

\* A row is processed as its credit is posted, and only a warranted confirmation
\* posts it.
LEMMA CreditInvariant ==
  ASSUME DepositsIInv, NEW h \in Confirmations, D!ReadDeposit(h) \/ D!Credit(h) \/ D!HandlerDies(h)
  PROVE  DepositsIInv'
<1> USE DepositsAssumption DEF DepositsIInv
<1>1. confirmation[h] \in Confirmation /\ Warranted(confirmation[h]) /\ confirmation[h].pc # "idle"
  BY DEF DepositTypes, ConfirmationsAreWarranted, D!ReadDeposit, D!Credit, D!HandlerDies
<1>2. UNCHANGED <<raising, invoiceOf, invoice, vouched>>
  BY DEF D!ReadDeposit, D!Credit, D!HandlerDies, D!rows
<1> DEFINE id == confirmation[h].id
<1>3. id \in DepositIds
  BY <1>1 DEF Warranted
<1>4. CASE D!ReadDeposit(h) \/ D!HandlerDies(h)
  <2>1. UNCHANGED <<deposit, credits>>
    BY <1>4 DEF D!ReadDeposit, D!HandlerDies, D!rows
  <2>2. CASE D!Throw(h) \/ (D!Answer(h) /\ deposit[id] = "PROCESSED")
    BY <1>1, <1>2, <2>1, <2>2, OverInvariant
  <2>3. CASE confirmation' = [confirmation EXCEPT ![h].pc = "credit"] /\ UNCHANGED calls
    <3>1. PICK r \in Confirmation :
            r = [confirmation[h] EXCEPT !.pc = "credit"]
      BY <1>1 DEF Confirmation
    <3>2. /\ confirmation' = [confirmation EXCEPT ![h] = r]
          /\ r.pc = "credit" /\ r.id = confirmation[h].id /\ r.call = confirmation[h].call
      BY <1>1, <2>3, <3>1 DEF Confirmation
    <3>3. Warranted(r)'
      BY <1>1, <1>2, <3>2 DEF Warranted
    <3> QED
      BY <1>2, <2>1, <2>3, <3>1, <3>2, <3>3, BeginInvariant DEF DepositTypes
  <2> QED
    BY <1>4, <2>2, <2>3 DEF D!ReadDeposit, D!HandlerDies
<1>5. CASE D!Credit(h)
  <2>1. CASE D!Throw(h) /\ UNCHANGED <<credits, deposit>>
    BY <1>1, <1>2, <2>1, OverInvariant
  <2>2. CASE /\ credits[id] = 0 /\ credits' = [credits EXCEPT ![id] = 1]
             /\ deposit' = [deposit EXCEPT ![id] = "PROCESSED"]
             /\ D!Answer(h)
    <3> DEFINE c == confirmation[h].call
    <3>1. /\ credits'[id] = 1 /\ deposit'[id] = "PROCESSED"
          /\ \A other \in DepositIds \ {id} : credits'[other] = credits[other] /\ deposit'[other] = deposit[other]
      BY <1>3, <2>2 DEF DepositTypes
    <3>2. confirmation' = [confirmation EXCEPT ![h] = D!IdleHandler]
          /\ D!IdleHandler \in Confirmation /\ Warranted(D!IdleHandler)'
      BY <2>2 DEF D!Answer, D!IdleHandler, Confirmation, Warranted
    <3>3. UNCHANGED calls \/ (c # None /\ calls' \in {calls, calls \ {c}})
      BY <2>2 DEF D!Answer, D!Acknowledge
    <3>4. c # None => /\ c \in Calls /\ c.status = "paid" /\ c.invoice \in Invoices
                      /\ invoiceOf[id] = c.invoice /\ invoice[c.invoice].state = "paid"
      BY <1>1 DEF Warranted, Confirmation, Calls
    <3>5. c = None => id \in vouched
      BY <1>1 DEF Warranted
    <3> HIDE DEF c, id
    <3>6. DepositTypes'
      BY <1>2, <1>3, <2>2, <3>2, <3>3 DEF DepositTypes
    <3>7. InvoicesAgree' /\ PaidCalls'
      BY <1>2, <3>3 DEF InvoicesAgree, PaidCalls
    <3>8. RaisingIsNew'
      BY <1>2, <3>1 DEF RaisingIsNew, Invoiced
    <3>9. ConfirmationsAreWarranted'
      BY <1>2, <3>2 DEF ConfirmationsAreWarranted, Warranted, DepositTypes
    <3>10. D!ProcessedIffCredited'
      BY <3>1 DEF D!ProcessedIffCredited
    <3>11. D!CreditedWasPaid'
      <4>1. c # None => \E i \in Invoices : invoiceOf[id] = i /\ invoice[i] = [for |-> id, state |-> "paid"]
        <5> SUFFICES ASSUME c # None PROVE invoice[c.invoice] = [for |-> id, state |-> "paid"]
          BY <3>4
        <5>1. invoice[c.invoice].for = id /\ invoice[c.invoice].state = "paid"
          BY <1>3, <3>4 DEF InvoicesAgree, Invoices
        <5> QED
          BY <3>4, <5>1 DEF DepositTypes
      <4> QED
        BY <1>2, <3>1, <3>5, <4>1 DEF D!CreditedWasPaid, D!Invoices, Invoices
    <3>12. D!PaidIsOutstanding'
      <4>1. \A other \in DepositIds : c # None /\ invoiceOf[other] = c.invoice => other = id
        BY <1>3, <3>4 DEF InvoicesAgree, Invoices
      <4> QED
        BY <1>2, <3>1, <3>3, <3>4, <4>1 DEF D!PaidIsOutstanding
    <3> QED
      BY <3>6, <3>7, <3>8, <3>9, <3>10, <3>11, <3>12
  <2> QED
    BY <1>5, <2>1, <2>2 DEF D!Credit
<1> QED
  BY <1>4, <1>5

\* Every step of the deposits keeps their invariant: one case per operation.
LEMMA DepositsStep == DepositsIInv /\ D!Next => DepositsIInv'
<1> SUFFICES ASSUME DepositsIInv, D!Next PROVE DepositsIInv'
  OBVIOUS
<1> QED
  BY RowsInvariant, RaiseInvariant, StoreInvariant, ReportsInvariant, ConfirmInvariant, CallbackInvariant,
     CreditInvariant DEF D!Next

-----------------------------------------------------------------------------
\* Of the two ways money passes the gateways a behaviour plays one.
MCIInv == part = "deposits" => DepositsIInv

\* While the run plays deposits their invariant holds throughout.
LEMMA DepositsInvariant == MCSpec => []MCIInv
<1>1. MCInit => MCIInv
  BY DepositsInit DEF MCInit, MCIInv
<1>2. MCIInv /\ [MCNext]_<<part, vars, deposits>> => MCIInv'
  <2> SUFFICES ASSUME MCIInv, [MCNext]_<<part, vars, deposits>>, part' = "deposits"
               PROVE  DepositsIInv'
    BY DEF MCIInv
  <2>1. CASE part = "deposits" /\ D!Next
    BY <2>1, DepositsStep DEF MCIInv
  <2>2. CASE UNCHANGED <<part, vars, deposits>>
    BY <2>2 DEF MCIInv, deposits, DepositsIInv, DepositTypes, InvoicesAgree, RaisingIsNew, Invoiced, PaidCalls,
                ConfirmationsAreWarranted, Warranted, D!ProcessedIffCredited, D!CreditedWasPaid,
                D!PaidIsOutstanding
  <2> QED
    BY <2>1, <2>2 DEF MCNext
<1> QED
  BY <1>1, <1>2, PTL DEF MCSpec

\* Whichever is played, Withdrawals is.
LEMMA WithdrawalsArePlayed == MCSpec => Spec
<1>1. MCInit => Init
  BY DEF MCInit
<1>2. [MCNext]_<<part, vars, deposits>> => [Next]_vars
  BY DEF MCNext
<1> QED
  BY <1>1, <1>2, PTL DEF MCSpec, Spec

Played == part \in {"withdrawals", "deposits"}

\* A behaviour plays one of the two.
LEMMA OneIsPlayed == MCSpec => []Played
<1>1. MCInit => Played
  BY DEF MCInit, Played
<1>2. Played /\ [MCNext]_<<part, vars, deposits>> => Played'
  BY DEF MCNext, Played
<1> QED
  BY <1>1, <1>2, PTL DEF MCSpec

\* No wallet is overdrawn or short of more than its member has out, and a
\* deposit is credited once, for an invoice that was paid or on an operator's
\* word, whatever operators, callbacks and deaths come in between.
THEOREM MoneyAddsUpTheorem == MCSpec => []MoneyAddsUp
<1>1. Conservation /\ MCIInv /\ Played => MoneyAddsUp
  BY DEF MCIInv, DepositsIInv, MoneyAddsUp, Played
<1> QED
  BY <1>1, OneIsPlayed, WithdrawalsArePlayed, WithdrawalsConserve, DepositsInvariant, PTL

\* What a gateway has reported and the platform has not acted on, it repeats.
THEOREM NothingForgottenTheorem == MCSpec => []NothingIsForgotten
<1>1. RefusalIsNotForgotten /\ MCIInv /\ Played => NothingIsForgotten
  BY DEF MCIInv, DepositsIInv, NothingIsForgotten, Played
<1> QED
  BY <1>1, OneIsPlayed, WithdrawalsArePlayed, RefusalsAreKept, DepositsInvariant, PTL
=============================================================================

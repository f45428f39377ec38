----------------------------- MODULE MCGateways -----------------------------
(* The two ways money passes the gateways, side by side: withdrawals of one    *)
(* member that together pass the threshold, from a wallet that covers both or  *)
(* only one; or deposits over two gateways whose invoice ids may clash.  They  *)
(* share no state, so a behaviour plays one of them and leaves the other be.   *)
EXTENDS Withdrawals, TLC

CONSTANTS m1, w1, w2, DepositIds, Providers, InvoiceIds, Confirmations

\* None stands for no deposit, no invoice and no callback.
ASSUME DepositsAssumption ==
  /\ None \notin DepositIds /\ None \notin Providers \X InvoiceIds
  /\ None \notin [invoice : Providers \X InvoiceIds, status : {"underpaid", "paid", "dead"}]

VARIABLES
  part,      \* which of the two is played
  deposit, credits, raising, invoiceOf, invoiceStatus, invoice, calls, vouched, confirmation

D == INSTANCE Deposits WITH
  Ids <- DepositIds, Tracks <- InvoiceIds, Handlers <- Confirmations,
  status <- deposit, opening <- raising, track <- invoiceOf, gatewayStatus <- invoiceStatus,
  outbox <- calls, handler <- confirmation

deposits == <<deposit, credits, raising, invoiceOf, invoiceStatus, invoice, calls, vouched, confirmation>>

\* The state of what is not played.
Blank == "blank"
NoDeposits ==
  /\ deposit = Blank /\ credits = Blank /\ raising = Blank /\ invoiceOf = Blank
  /\ invoiceStatus = Blank /\ invoice = Blank /\ calls = Blank /\ vouched = Blank
  /\ confirmation = Blank

MCInit ==
  /\ Init
  /\ \/ part = "withdrawals" /\ NoDeposits
     \/ /\ part = "deposits" /\ D!Init
        /\ deployment = CHOOSE d \in Deployments : TRUE
        /\ opening = [m \in Members |-> CHOOSE o \in Openings : TRUE]

MCNext ==
  \/ part = "withdrawals" /\ Next /\ UNCHANGED <<part, deposits>>
  \/ part = "deposits" /\ D!Next /\ UNCHANGED <<part, vars>>

MCSpec == MCInit /\ [][MCNext]_<<part, vars, deposits>>

MCOwner == [id \in Ids |-> m1]
MCAmount == [id \in Ids |-> IF id = w1 THEN 2 ELSE 3]

Deployed(chain, gateway, named) == [chain |-> chain, gateway |-> gateway, named |-> named]

\* Both rails, with and without a named one.  The gateway alone differs in
\* nothing from both with the gateway named: off, it leaves the row to the operator.
MCDeployments == {Deployed(TRUE, TRUE, "none"), Deployed(TRUE, TRUE, "gateway")}

\* Operators' requests are alike, and what they confirm deposits with; and so
\* are the ids the gateway may issue, and the providers, which share their names.
MCSymmetry == Permutations(Approvals) \union Permutations(Tracks)

\* A member's wallet is short by exactly what the member has out; and a deposit
\* is credited exactly once, for an invoice that was paid or on an operator's
\* word, whoever rejects or confirms it meanwhile.
MoneyAddsUp ==
  IF part = "withdrawals" THEN Conservation ELSE D!ProcessedIffCredited /\ D!CreditedWasPaid

\* What a gateway has reported and the platform has not yet acted on, a refused
\* payout to refund or a paid invoice to credit, it will report again, whatever
\* died in between.
NothingIsForgotten ==
  IF part = "withdrawals" THEN RefusalIsNotForgotten ELSE D!PaidIsOutstanding
=============================================================================

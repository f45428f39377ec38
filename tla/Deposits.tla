------------------------------ MODULE Deposits ------------------------------
(***************************************************************************)
(* Deposits a member reports or pays through a gateway's invoice:          *)
(* deposit.service.ts (create, confirm), rejectDeposit in                  *)
(* admin/finance.service.ts, and the deposit half of                       *)
(* core/gateway/gateway.service.ts (startDeposit, applyPayment).           *)
(*                                                                         *)
(* confirm() reads the row and then credits it, in one transaction that    *)
(* runs at READ COMMITTED: what it read may be gone when it writes.  Each  *)
(* call to a gateway, each callback and each confirmation is a process     *)
(* that may die between two steps.                                         *)
(***************************************************************************)
EXTENDS Naturals

CONSTANTS
  Ids,          \* deposit rows
  Providers,    \* the gateways that can charge
  Tracks,       \* invoice ids; each gateway numbers its own, so they may clash
  Handlers,     \* confirmations and callbacks the API serves at a time
  None

VARIABLES
  status,         \* [Ids -> Statuses]
  credits,        \* [Ids -> Nat], entries posted under the deposit's reference
  opening,        \* [Ids -> where startDeposit is for the row]
  track,          \* [Ids -> <<gatewayProvider, gatewayTrackId>> or None]
  gatewayStatus,  \* [Ids -> what the gateway last said of the invoice]
  invoice,        \* [Providers \X Tracks -> the gateway's own record]
  outbox,         \* callbacks the gateway has not had acknowledged
  vouched,        \* deposits an operator has confirmed by hand
  handler         \* [Handlers -> where each confirmation is]

rows == <<status, credits, opening, track, gatewayStatus>>
gateway == <<invoice, outbox>>
vars == <<rows, gateway, vouched, handler>>

Statuses == {"none", "PENDING", "PROCESSED", "REJECTED", "deleted"}
Invoices == Providers \X Tracks
IdleHandler == [pc |-> "idle", id |-> None, call |-> None]

Init ==
  /\ status = [id \in Ids |-> "none"]
  /\ credits = [id \in Ids |-> 0]
  /\ opening = [id \in Ids |-> "no"]
  /\ track = [id \in Ids |-> None]
  /\ gatewayStatus = [id \in Ids |-> "none"]
  /\ invoice = [i \in Invoices |-> [for |-> None, state |-> "none"]]
  /\ outbox = {} /\ vouched = {}
  /\ handler = [h \in Handlers |-> IdleHandler]

-----------------------------------------------------------------------------
(* Raising a deposit *)

\* create(): a member reports a transfer.
Report(id) ==
  /\ status[id] = "none"
  /\ status' = [status EXCEPT ![id] = "PENDING"]
  /\ UNCHANGED <<credits, opening, track, gatewayStatus, gateway, vouched, handler>>

\* startDeposit(): the row first, then the invoice.
StartDeposit(id) ==
  /\ status[id] = "none"
  /\ status' = [status EXCEPT ![id] = "PENDING"]
  /\ opening' = [opening EXCEPT ![id] = "asking"]
  /\ UNCHANGED <<credits, track, gatewayStatus, gateway, vouched, handler>>

\* createInvoice(): the gateway raises one under an id of its own.
RaiseInvoice(id) ==
  /\ opening[id] = "asking"
  /\ \E i \in Invoices :
       /\ invoice[i].state = "none"
       /\ invoice' = [invoice EXCEPT ![i] = [for |-> id, state |-> "open"]]
       /\ opening' = [opening EXCEPT ![id] = "storing"]
  /\ UNCHANGED <<status, credits, track, gatewayStatus, outbox, vouched, handler>>

Raised(id) == CHOOSE i \in Invoices : invoice[i].for = id

\* gatewayTrackId is unique by itself, although invoice ids are not.
TrackTaken(i) == \E other \in Ids : track[other] # None /\ track[other][2] = i[2]

\* The invoice is stored with the provider that raised it.
StoreInvoice(id) ==
  /\ opening[id] = "storing" /\ ~TrackTaken(Raised(id))
  /\ track' = [track EXCEPT ![id] = Raised(id)]
  /\ gatewayStatus' = [gatewayStatus EXCEPT ![id] = "open"]
  /\ opening' = [opening EXCEPT ![id] = "no"]
  /\ UNCHANGED <<status, credits, gateway, vouched, handler>>

\* The catch of startDeposit: no invoice, or an id another row already holds.
\* The row is deleted by its id, whatever has become of it.
AbandonDeposit(id) ==
  /\ opening[id] = "asking" \/ (opening[id] = "storing" /\ TrackTaken(Raised(id)))
  /\ status' = [status EXCEPT ![id] = "deleted"]
  /\ opening' = [opening EXCEPT ![id] = "no"]
  /\ UNCHANGED <<credits, track, gatewayStatus, gateway, vouched, handler>>

\* The API process dies in the middle of startDeposit.
StartDies(id) ==
  /\ opening[id] # "no"
  /\ opening' = [opening EXCEPT ![id] = "no"]
  /\ UNCHANGED <<status, credits, track, gatewayStatus, gateway, vouched, handler>>

-----------------------------------------------------------------------------
(* Operators *)

\* rejectDeposit(): the transition out of PENDING is the lock.
Reject(id) ==
  /\ status[id] = "PENDING"
  /\ status' = [status EXCEPT ![id] = "REJECTED"]
  /\ UNCHANGED <<credits, opening, track, gatewayStatus, gateway, vouched, handler>>

\* confirmDeposit(): an operator confirms a row, perhaps one already decided.
OperatorConfirms(h, id) ==
  /\ handler[h].pc = "idle" /\ status[id] # "none"
  /\ handler' = [handler EXCEPT ![h] = [pc |-> "read", id |-> id, call |-> None]]
  /\ vouched' = vouched \union {id}
  /\ UNCHANGED <<rows, gateway>>

-----------------------------------------------------------------------------
(* Callbacks *)

\* The answer 200, which the gateway may not get.  The gatewayCallback row
\* written before it is a log: nothing reads it to decide.
Acknowledge(c) == outbox' \in {outbox, outbox \ {c}}

\* applyPayment() without a row of that track and provider.
CallbackUnknown(c) ==
  /\ c \in outbox
  /\ \A id \in Ids : track[id] # c.invoice \/ status[id] = "deleted"
  /\ Acknowledge(c)
  /\ UNCHANGED <<rows, invoice, vouched, handler>>

Matches(id, c) == track[id] = c.invoice /\ status[id] # "deleted"

\* Wrong variant: a short payment is credited like a full one.
CallbackMatchedShort(h, c) ==
  /\ c \in outbox /\ handler[h].pc = "idle"
  /\ \E id \in Ids :
       /\ Matches(id, c)
       /\ gatewayStatus' = [gatewayStatus EXCEPT ![id] = c.status]
       /\ IF c.status \in {"paid", "underpaid"} /\ status[id] # "PROCESSED"
          THEN /\ handler' = [handler EXCEPT ![h] = [pc |-> "read", id |-> id, call |-> c]]
               /\ UNCHANGED outbox
          ELSE Acknowledge(c) /\ UNCHANGED handler
  /\ UNCHANGED <<status, credits, opening, track, invoice, vouched>>

\* Wrong variant: acknowledged before it is applied.
CallbackMatchedEarly(h, c) ==
  /\ c \in outbox /\ handler[h].pc = "idle"
  /\ \E id \in Ids :
       /\ Matches(id, c)
       /\ gatewayStatus' = [gatewayStatus EXCEPT ![id] = c.status]
       /\ IF c.status = "paid" /\ status[id] # "PROCESSED"
          THEN handler' = [handler EXCEPT ![h] = [pc |-> "read", id |-> id, call |-> None]]
          ELSE UNCHANGED handler
       /\ Acknowledge(c)
  /\ UNCHANGED <<status, credits, opening, track, invoice, vouched>>

\* applyPayment(): store what the gateway said; a paid invoice of a row not yet
\* processed goes on to confirm(), any other is answered.
CallbackMatched(h, c) ==
  /\ c \in outbox /\ handler[h].pc = "idle"
  /\ \E id \in Ids :
       /\ Matches(id, c)
       /\ gatewayStatus' = [gatewayStatus EXCEPT ![id] = c.status]
       /\ IF c.status = "paid" /\ status[id] # "PROCESSED"
          THEN /\ handler' = [handler EXCEPT ![h] = [pc |-> "read", id |-> id, call |-> c]]
               /\ UNCHANGED outbox
          ELSE Acknowledge(c) /\ UNCHANGED handler
  /\ UNCHANGED <<status, credits, opening, track, invoice, vouched>>

\* handleCallback() after confirm() returns; an operator's request has no call.
Answer(h) ==
  /\ handler' = [handler EXCEPT ![h] = IdleHandler]
  /\ IF handler[h].call = None THEN UNCHANGED outbox ELSE Acknowledge(handler[h].call)

\* confirm() throws: nothing is recorded and the answer is an error.
Throw(h) ==
  /\ handler' = [handler EXCEPT ![h] = IdleHandler]
  /\ UNCHANGED outbox

-----------------------------------------------------------------------------
(* confirm() *)

\* The transaction's read: processed is a repeat, pending goes on, anything
\* else throws.
ReadDeposit(h) ==
  /\ handler[h].pc = "read"
  /\ \/ status[handler[h].id] = "PROCESSED" /\ Answer(h)
     \/ /\ status[handler[h].id] = "PENDING"
        /\ handler' = [handler EXCEPT ![h].pc = "credit"]
        /\ UNCHANGED outbox
     \/ status[handler[h].id] \in {"REJECTED", "deleted"} /\ Throw(h)
  /\ UNCHANGED <<rows, invoice, vouched>>

\* Wrong variant: a fresh reference for every posting.
CreditFreshReference(h) ==
  /\ handler[h].pc = "credit"
  /\ credits' = [credits EXCEPT ![handler[h].id] = @ + 1]
  /\ status' = [status EXCEPT ![handler[h].id] = "PROCESSED"]
  /\ Answer(h)
  /\ UNCHANGED <<opening, track, gatewayStatus, invoice, vouched>>

\* The transaction's writes: post under the deposit's own reference and mark
\* the row by its id; a reference already posted, or a row that is gone, rolls
\* both back.
Credit(h) ==
  /\ handler[h].pc = "credit"
  /\ IF credits[handler[h].id] = 0 /\ status[handler[h].id] # "deleted"
     THEN /\ credits' = [credits EXCEPT ![handler[h].id] = 1]
          /\ status' = [status EXCEPT ![handler[h].id] = "PROCESSED"]
          /\ Answer(h)
     ELSE Throw(h) /\ UNCHANGED <<credits, status>>
  /\ UNCHANGED <<opening, track, gatewayStatus, invoice, vouched>>

HandlerDies(h) ==
  /\ handler[h].pc # "idle"
  /\ Throw(h)
  /\ UNCHANGED <<rows, invoice, vouched>>

\* The gateway decides an invoice, late payments included, and tells us.  A
\* member can pay once startDeposit has answered with the payment link.
GatewayReports(i) ==
  /\ invoice[i].state \in {"open", "underpaid", "dead"}
  /\ \E s \in {"underpaid", "paid", "dead"} \ {invoice[i].state} :
       /\ s = "dead" \/ track[invoice[i].for] = i
       /\ s = "underpaid" => invoice[i].state = "open"
       /\ invoice' = [invoice EXCEPT ![i].state = s]
       /\ outbox' = outbox \union {[invoice |-> i, status |-> s]}
  /\ UNCHANGED <<rows, vouched, handler>>

-----------------------------------------------------------------------------
Next ==
  \/ \E id \in Ids : \/ Report(id) \/ Reject(id) \/ StartDeposit(id) \/ RaiseInvoice(id)
                     \/ StoreInvoice(id) \/ AbandonDeposit(id) \/ StartDies(id)
                     \/ \E h \in Handlers : OperatorConfirms(h, id)
  \/ \E c \in outbox : CallbackUnknown(c) \/ \E h \in Handlers : CallbackMatched(h, c)
  \/ \E h \in Handlers : ReadDeposit(h) \/ Credit(h) \/ HandlerDies(h)
  \/ \E i \in Invoices : GatewayReports(i)

Spec == Init /\ [][Next]_vars

-----------------------------------------------------------------------------
(* Properties *)

\* "Credits the FUND wallet exactly once": the row is processed exactly when
\* its one entry is posted, whoever else rejected it or confirmed it meanwhile.
ProcessedIffCredited ==
  \A id \in Ids : status[id] # "deleted" => (status[id] = "PROCESSED" <=> credits[id] = 1)

\* A member is credited for the very invoice the gateway reported paid, or
\* because an operator vouched for the deposit; two gateways numbering their
\* invoices alike cannot credit one member for another's payment.
CreditedWasPaid ==
  \A id \in Ids :
    credits[id] > 0 =>
      \/ id \in vouched
      \/ \E i \in Invoices : track[id] = i /\ invoice[i] = [for |-> id, state |-> "paid"]

\* A payment is never lost: while a paid invoice's deposit is still pending, the
\* gateway has not been told that its callback was dealt with, so it will send
\* it again, whoever died in between and whatever answers went astray.
PaidIsOutstanding ==
  \A id \in Ids : \A i \in Invoices :
    track[id] = i /\ invoice[i].state = "paid" /\ status[id] = "PENDING"
      => [invoice |-> i, status |-> "paid"] \in outbox
=============================================================================

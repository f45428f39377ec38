---------------------------- MODULE Adjustments ----------------------------
(***************************************************************************)
(* Manual balance adjustments that need a second operator: the gate of     *)
(* adjustBalance in users.service.ts, and adjustment-approval.service.ts.  *)
(* One operator's adjustment is parked as a row; another's approval claims *)
(* the row, then moves the money in a transaction of its own, and gives    *)
(* the row back if that throws.  (An adjustment under the threshold is one *)
(* entry of the ledger and leaves no row.)                                 *)
(*                                                                         *)
(* A call is one HTTP request, in the steps between which others run.  A   *)
(* transaction whose answer is lost has committed and throws all the same; *)
(* `unheard' counts those.  The money is posted under a reference that is  *)
(* drawn anew, so that nothing below refuses a second entry.               *)
(***************************************************************************)
EXTENDS Integers

CONSTANTS
  Admins,     \* operators
  Nobody,
  Calls,      \* the HTTP requests that may be under way at a time
  Requests,   \* the rows of balanceAdjustmentRequest there may come to be
  Scenes      \* [fails : how many transactions may fail,
              \*  loses : how many commits may lose their answer,
              \*  dies : whether the process may stop between two steps]

ASSUME AdjustmentAssumption ==
  /\ Nobody \notin Admins \union Requests
  /\ Scenes \subseteq [fails : Nat, loses : Nat, dies : BOOLEAN]

VARIABLES
  scene,     \* the one of Scenes that is played
  request,   \* [Requests -> the row]
  call,      \* [Calls -> where each is, whose it is, and what row it is about]
  applied,   \* [Requests -> ledger entries posted for it]
  poster,    \* [Requests -> the operator the last of them names]
  unheard,   \* [Requests -> commits whose answer was lost]
  failures   \* transactions that failed

vars == <<scene, request, call, applied, poster, unheard, failures>>
money == <<applied, poster, unheard>>

NoRow == [status |-> "none", by |-> Nobody, decidedBy |-> Nobody]
NoCall == [pc |-> "idle", admin |-> Nobody, about |-> Nobody]

Init ==
  /\ scene \in Scenes
  /\ request = [q \in Requests |-> NoRow]
  /\ call = [c \in Calls |-> NoCall]
  /\ applied = [q \in Requests |-> 0]
  /\ poster = [q \in Requests |-> Nobody]
  /\ unheard = [q \in Requests |-> 0]
  /\ failures = 0

-----------------------------------------------------------------------------

At(c, pc) == call[c].pc = pc
Is(q, status) == request[q].status = status
Move(c, pc) == call' = [call EXCEPT ![c].pc = pc]
Return(c) == call' = [call EXCEPT ![c] = NoCall]

\* adjustBalance above the threshold, by one operator: no money moves.
Park(q, a) ==
  /\ Is(q, "none")
  /\ request' = [request EXCEPT ![q] = [status |-> "PENDING", by |-> a, decidedBy |-> Nobody]]
  /\ UNCHANGED <<scene, call, money, failures>>

\* Wrong variant: whoever raised a request may approve it.
StartApprovalByAnyone(c, a, q) ==
  /\ At(c, "idle") /\ Is(q, "PENDING")
  /\ call' = [call EXCEPT ![c] = [pc |-> "approve", admin |-> a, about |-> q]]
  /\ UNCHANGED <<scene, request, money, failures>>

\* approveAdjustment reads the row: pending, and raised by someone else.
StartApproval(c, a, q) ==
  /\ At(c, "idle") /\ Is(q, "PENDING") /\ request[q].by # a
  /\ call' = [call EXCEPT ![c] = [pc |-> "approve", admin |-> a, about |-> q]]
  /\ UNCHANGED <<scene, request, money, failures>>

\* rejectAdjustment reads the row: pending.
StartRejection(c, a, q) ==
  /\ At(c, "idle") /\ Is(q, "PENDING")
  /\ call' = [call EXCEPT ![c] = [pc |-> "reject", admin |-> a, about |-> q]]
  /\ UNCHANGED <<scene, request, money, failures>>

\* Wrong variant: the update of the row asks for nothing.
DecideUnguarded(c, status) ==
  /\ request' = [request EXCEPT ![call[c].about].status = status,
                                ![call[c].about].decidedBy = call[c].admin]
  /\ IF status = "APPROVED" THEN Move(c, "apply") ELSE Return(c)

\* The guarded update of either; a row decided meanwhile ends the call.
Decide(c, status) ==
  IF Is(call[c].about, "PENDING")
  THEN /\ request' = [request EXCEPT ![call[c].about].status = status,
                                     ![call[c].about].decidedBy = call[c].admin]
       /\ IF status = "APPROVED" THEN Move(c, "apply") ELSE Return(c)
  ELSE Return(c) /\ UNCHANGED request

Claim(c) == At(c, "approve") /\ Decide(c, "APPROVED") /\ UNCHANGED <<scene, money, failures>>
Reject(c) == At(c, "reject") /\ Decide(c, "REJECTED") /\ UNCHANGED <<scene, money, failures>>

\* The entry, in the name of whoever approves.
PostFor(c) ==
  LET q == call[c].about
  IN applied' = [applied EXCEPT ![q] = @ + 1] /\ poster' = [poster EXCEPT ![q] = call[c].admin]

Apply(c) ==
  /\ At(c, "apply") /\ PostFor(c) /\ Return(c)
  /\ UNCHANGED <<scene, request, unheard, failures>>

\* A wallet that is too low for a debit, or a database that fails.
ApplyFails(c) ==
  /\ At(c, "apply") /\ failures < scene.fails /\ failures' = failures + 1
  /\ Move(c, "revert")
  /\ UNCHANGED <<scene, request, money>>

\* The transaction commits and its answer is lost: to the caller, a failure.
ApplyUnheard(c) ==
  LET q == call[c].about
  IN /\ At(c, "apply") /\ unheard[q] < scene.loses
     /\ PostFor(c) /\ unheard' = [unheard EXCEPT ![q] = @ + 1]
     /\ Move(c, "revert")
     /\ UNCHANGED <<scene, request, failures>>

\* Wrong variant: a request whose money did not move stays decided.
RevertNothing(c) ==
  /\ At(c, "revert") /\ Return(c)
  /\ UNCHANGED <<scene, request, money, failures>>

\* "The money did not move, so the request must not stay APPROVED".
Revert(c) ==
  LET q == call[c].about
  IN /\ At(c, "revert") /\ Return(c)
     /\ request' = IF Is(q, "APPROVED")
                   THEN [request EXCEPT ![q].status = "PENDING", ![q].decidedBy = Nobody]
                   ELSE request
     /\ UNCHANGED <<scene, money, failures>>

CallDies(c) ==
  /\ scene.dies /\ ~At(c, "idle") /\ Return(c)
  /\ UNCHANGED <<scene, request, money, failures>>

Next ==
  \/ \E q \in Requests, a \in Admins : Park(q, a)
  \/ \E c \in Calls :
       \/ \E a \in Admins, q \in Requests : StartApproval(c, a, q) \/ StartRejection(c, a, q)
       \/ Claim(c) \/ Reject(c) \/ Apply(c) \/ ApplyFails(c) \/ ApplyUnheard(c) \/ Revert(c)
       \/ CallDies(c)

Spec == Init /\ [][Next]_vars

-----------------------------------------------------------------------------
(* Properties *)

TypeOK ==
  /\ scene \in Scenes
  /\ request \in [Requests -> [status : {"none", "PENDING", "APPROVED", "REJECTED"},
                               by : Admins \union {Nobody}, decidedBy : Admins \union {Nobody}]]
  /\ call \in [Calls -> [pc : {"idle", "approve", "reject", "apply", "revert"},
                         admin : Admins \union {Nobody}, about : Requests \union {Nobody}]]
  /\ \A c \in Calls : ~At(c, "idle") => call[c].about \in Requests /\ call[c].admin \in Admins
  /\ applied \in [Requests -> Nat] /\ unheard \in [Requests -> Nat]
  /\ poster \in [Requests -> Admins \union {Nobody}]
  /\ failures \in Nat

AtWork(q) == \E c \in Calls : call[c].about = q /\ call[c].pc \in {"apply", "revert"}

\* "The ledger and this table" agree: however approvals, rejections, failures
\* and repeated attempts meet, a request moved the money once if it stays
\* APPROVED and not at all if it is PENDING or REJECTED.  What the code cannot
\* tell is counted: a commit whose answer was lost moved it once more, and a
\* process that died may have left it APPROVED and unpaid.
MoneyMatchesDecision ==
  \A q \in Requests :
    /\ request[q].status \in {"none", "PENDING", "REJECTED"} => applied[q] = unheard[q]
    /\ Is(q, "APPROVED") =>
         /\ applied[q] \in {unheard[q], unheard[q] + 1}
         /\ ~AtWork(q) /\ ~scene.dies => applied[q] = unheard[q] + 1

\* Dual control: whatever was approved, reverted and approved again in between,
\* money moved for a request in the name of the operator the row says decided
\* it, and of nobody who raised it.
MovedByAnother ==
  \A q \in Requests :
    /\ poster[q] # Nobody => poster[q] # request[q].by
    /\ applied[q] > unheard[q] => poster[q] = request[q].decidedBy
=============================================================================

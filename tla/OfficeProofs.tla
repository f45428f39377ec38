---------------------------- MODULE OfficeProofs ----------------------------
(***************************************************************************)
(* What the back office promises, for any operators, calls and requests,   *)
(* any members, terms and hashes, any runs and calendars.                  *)
(*                                                                         *)
(* Adjustments: the inductive invariant adds to the two properties what    *)
(* the guarded update gives to the call that made it: while the call moves *)
(* the money or gives the row back, the row stays APPROVED in its          *)
(* operator's name, no other call is at work on it, and its money is where *)
(* it was.                                                                 *)
(*                                                                         *)
(* The draw: the shuffle is a permutation of the tickets, so no ticket     *)
(* wins twice; and while operators take turns, what a call has read of the *)
(* draw stays as it was until it writes, and tickets that are being issued *)
(* count as held.                                                          *)
(*                                                                         *)
(* Dry runs: who is in the database is of a run that was started and not   *)
(* erased, accruals and unlinked notifications are those of members who    *)
(* are there, and an erasure goes on only for a run that does not.  The    *)
(* months telescope: they come to the last snapshot, and the withdrawals   *)
(* since then to the rest.                                                 *)
(***************************************************************************)
EXTENDS MCOffice, FiniteSetTheorems, WellFoundedInduction, TLAPS

Rows == [status : {"none", "PENDING", "APPROVED", "REJECTED"},
         by : Admins \union {Nobody}, decidedBy : Admins \union {Nobody}]

Working(c) == call[c].pc \in {"apply", "revert"}

\* A call that approves is not its requester's, the row it read exists, and
\* there was no money before there was a row.
NotOnesOwn ==
  /\ \A c \in Calls :
       /\ ~At(c, "idle") => ~Is(call[c].about, "none")
       /\ call[c].pc \in {"approve", "apply", "revert"} => call[c].admin # request[call[c].about].by
  /\ \A q \in Requests : Is(q, "none") => poster[q] = Nobody

\* The call that claimed a row has it to itself.
ClaimIsExclusive ==
  /\ \A c \in Calls : Working(c) =>
       /\ Is(call[c].about, "APPROVED") /\ request[call[c].about].decidedBy = call[c].admin
       /\ applied[call[c].about] = unheard[call[c].about]
  /\ \A c, d \in Calls : Working(c) /\ Working(d) /\ call[c].about = call[d].about => c = d

\* Together with what is promised they are inductive.
IInv == TypeOK /\ NotOnesOwn /\ ClaimIsExclusive /\ MoneyMatchesDecision /\ MovedByAnother

USE DEF At, Is, AtWork, Working

-----------------------------------------------------------------------------
\* There is no request and no call.
LEMMA InitInvariant == Init => IInv
<1> SUFFICES ASSUME Init PROVE IInv
  OBVIOUS
<1> USE AdjustmentAssumption DEF Init, NoRow, NoCall
<1>1. TypeOK
  BY DEF TypeOK
<1>2. NotOnesOwn /\ ClaimIsExclusive
  BY DEF NotOnesOwn, ClaimIsExclusive
<1>3. MoneyMatchesDecision /\ MovedByAnother
  BY DEF MoneyMatchesDecision, MovedByAnother
<1> QED
  BY <1>1, <1>2, <1>3 DEF IInv

\* A call that was not at work on a row ends, and nothing else changes.
LEMMA ReturnInvariant ==
  ASSUME IInv, NEW c \in Calls, ~Working(c) \/ scene.dies, Return(c),
         UNCHANGED <<scene, request, money, failures>>
  PROVE  IInv'
<1> USE AdjustmentAssumption DEF IInv, Return, NoCall, money
<1>1. TypeOK'
  BY DEF TypeOK
<1>2. call'[c].pc = "idle" /\ \A d \in Calls \ {c} : call'[d] = call[d]
  BY DEF TypeOK
<1>3. NotOnesOwn' /\ ClaimIsExclusive'
  BY <1>2 DEF NotOnesOwn, ClaimIsExclusive
<1>4. MoneyMatchesDecision'
  <2>1. ~scene.dies => \A q \in Requests : AtWork(q) => AtWork(q)'
    BY <1>2
  <2> QED
    BY <2>1 DEF MoneyMatchesDecision
<1>5. MovedByAnother'
  BY DEF MovedByAnother
<1> QED
  BY <1>1, <1>3, <1>4, <1>5

\* A row nobody has read gets its requester.
LEMMA ParkInvariant ==
  ASSUME IInv, NEW q \in Requests, NEW a \in Admins, Park(q, a)
  PROVE  IInv'
<1> USE AdjustmentAssumption DEF IInv, Park, money
<1>1. TypeOK'
  BY DEF TypeOK
<1>2. \A c \in Calls : ~At(c, "idle") => call[c].about # q
  BY DEF NotOnesOwn
<1>3. \A r \in Requests \ {q} : request'[r] = request[r]
  BY DEF TypeOK
<1>4. request'[q].status = "PENDING" /\ applied[q] = unheard[q]
  BY DEF TypeOK, MoneyMatchesDecision
<1>5. NotOnesOwn'
  BY <1>2, <1>3 DEF TypeOK, NotOnesOwn
<1>6. ClaimIsExclusive'
  BY <1>2, <1>3 DEF TypeOK, ClaimIsExclusive
<1>7. MoneyMatchesDecision'
  BY <1>3, <1>4 DEF TypeOK, MoneyMatchesDecision
<1>8. MovedByAnother'
  <2>1. poster[q] = Nobody
    BY DEF NotOnesOwn, MoneyMatchesDecision
  <2> QED
    BY <1>3, <1>4, <2>1 DEF TypeOK, MovedByAnother
<1> QED
  BY <1>1, <1>5, <1>6, <1>7, <1>8

\* Reading a row changes nothing but the call; an approval is another's.
LEMMA StartInvariant ==
  ASSUME IInv, NEW c \in Calls, NEW a \in Admins, NEW q \in Requests,
         StartApproval(c, a, q) \/ StartRejection(c, a, q)
  PROVE  IInv'
<1> USE AdjustmentAssumption DEF IInv, StartApproval, StartRejection, money
<1>1. PICK pc \in {"approve", "reject"} :
        /\ call' = [call EXCEPT ![c] = [pc |-> pc, admin |-> a, about |-> q]]
        /\ pc = "approve" => request[q].by # a
  OBVIOUS
<1>2. UNCHANGED <<scene, request, applied, poster, unheard, failures>> /\ Is(q, "PENDING")
  OBVIOUS
<1>3. TypeOK'
  BY <1>1, <1>2 DEF TypeOK
<1>4. /\ call'[c] = [pc |-> pc, admin |-> a, about |-> q]
      /\ \A d \in Calls \ {c} : call'[d] = call[d]
  BY <1>1 DEF TypeOK
<1>5. NotOnesOwn'
  BY <1>1, <1>2, <1>4 DEF NotOnesOwn
<1>6. ClaimIsExclusive'
  BY <1>2, <1>4 DEF ClaimIsExclusive
<1>7. MoneyMatchesDecision'
  <2>1. \A r \in Requests : AtWork(r)' <=> AtWork(r)
    BY <1>1, <1>4
  <2> QED
    BY <1>2, <2>1 DEF MoneyMatchesDecision
<1>8. MovedByAnother'
  BY <1>2 DEF MovedByAnother
<1> QED
  BY <1>3, <1>5, <1>6, <1>7, <1>8

\* The guard makes the claim exclusive: a PENDING row has no call at work on it.
LEMMA ClaimInvariant ==
  ASSUME IInv, NEW c \in Calls, Claim(c)
  PROVE  IInv'
<1> USE DEF IInv
<1>1. PICK q \in Requests : q = call[c].about
  BY DEF TypeOK, Claim
<1>2. /\ call[c].pc = "approve" /\ call[c].admin \in Admins
      /\ UNCHANGED <<scene, applied, poster, unheard, failures>>
  BY DEF TypeOK, Claim, money
<1>3. CASE Is(q, "PENDING")
  <2>1. /\ request' = [request EXCEPT ![q].status = "APPROVED", ![q].decidedBy = call[c].admin]
        /\ call' = [call EXCEPT ![c].pc = "apply"]
    BY <1>1, <1>3 DEF Claim, Decide, Move
  <2>2. TypeOK'
    <3>1. request[q] \in Rows
      BY <1>1 DEF TypeOK, Rows
    <3>2. [request[q] EXCEPT !.status = "APPROVED", !.decidedBy = call[c].admin] \in Rows
      BY <1>2, <3>1 DEF Rows
    <3>3. request' \in [Requests -> Rows]
      BY <1>1, <2>1, <3>2 DEF TypeOK, Rows
    <3> QED
      BY <1>2, <2>1, <3>3 DEF TypeOK, Rows
  <2>3. /\ call'[c].about = q /\ call'[c].pc = "apply" /\ call'[c].admin = call[c].admin
        /\ \A d \in Calls \ {c} : call'[d] = call[d]
    BY <1>1, <2>1 DEF TypeOK
  <2>4. /\ request'[q].status = "APPROVED" /\ request'[q].decidedBy = call[c].admin
        /\ request'[q].by = request[q].by
        /\ \A r \in Requests \ {q} : request'[r] = request[r]
    BY <1>1, <2>1 DEF TypeOK
  <2>5. applied[q] = unheard[q] /\ \A d \in Calls : Working(d) => call[d].about # q
    BY <1>1, <1>3 DEF MoneyMatchesDecision, ClaimIsExclusive
  <2>6. NotOnesOwn'
    <3>1. \A r \in Requests : request'[r].by = request[r].by /\ (Is(r, "none")' => Is(r, "none"))
      BY <2>4
    <3> QED
      BY <1>1, <1>2, <2>3, <3>1 DEF TypeOK, NotOnesOwn
  <2>7. ClaimIsExclusive'
    <3>1. \A d \in Calls \ {c} : Working(d)' => Working(d) /\ call[d].about \in Requests \ {q}
      BY <2>3, <2>5 DEF TypeOK
    <3> QED
      BY <1>2, <2>3, <2>4, <2>5, <3>1 DEF ClaimIsExclusive
  <2>8. MoneyMatchesDecision'
    <3>1. \A r \in Requests \ {q} : AtWork(r) => AtWork(r)'
      BY <1>1, <1>2, <2>3
    <3>2. AtWork(q)'
      BY <2>3
    <3> QED
      BY <1>2, <2>4, <2>5, <3>1, <3>2 DEF MoneyMatchesDecision
  <2>9. MovedByAnother'
    BY <1>2, <2>4, <2>5 DEF TypeOK, MovedByAnother
  <2> QED
    BY <2>2, <2>6, <2>7, <2>8, <2>9
<1>4. CASE ~Is(q, "PENDING")
  <2>1. Return(c) /\ UNCHANGED request
    BY <1>1, <1>4 DEF Claim, Decide
  <2> QED
    BY <1>2, <2>1, ReturnInvariant DEF money
<1> QED
  BY <1>3, <1>4

\* A rejection decides a PENDING row, which moved no money and nobody works on.
LEMMA RejectInvariant ==
  ASSUME IInv, NEW c \in Calls, Reject(c)
  PROVE  IInv'
<1> USE DEF IInv
<1>1. PICK q \in Requests : q = call[c].about
  BY DEF TypeOK, Reject
<1>2. /\ call[c].pc = "reject" /\ call[c].admin \in Admins
      /\ UNCHANGED <<scene, applied, poster, unheard, failures>>
  BY DEF TypeOK, Reject, money
<1>3. CASE Is(q, "PENDING")
  <2>1. /\ request' = [request EXCEPT ![q].status = "REJECTED", ![q].decidedBy = call[c].admin]
        /\ call' = [call EXCEPT ![c] = NoCall]
    BY <1>1, <1>3 DEF Reject, Decide, Return
  <2>2. TypeOK'
    <3>1. request[q] \in Rows
      BY <1>1 DEF TypeOK, Rows
    <3>2. [request[q] EXCEPT !.status = "REJECTED", !.decidedBy = call[c].admin] \in Rows
      BY <1>2, <3>1 DEF Rows
    <3>3. request' \in [Requests -> Rows]
      BY <1>1, <2>1, <3>2 DEF TypeOK, Rows
    <3> QED
      BY <1>2, <2>1, <3>3 DEF TypeOK, Rows, NoCall
  <2>3. call'[c].pc = "idle" /\ \A d \in Calls \ {c} : call'[d] = call[d]
    BY <2>1 DEF TypeOK, NoCall
  <2>4. /\ request'[q].status = "REJECTED" /\ request'[q].by = request[q].by
        /\ \A r \in Requests \ {q} : request'[r] = request[r]
    BY <1>1, <2>1 DEF TypeOK
  <2>5. applied[q] = unheard[q] /\ \A d \in Calls : Working(d) => call[d].about # q
    BY <1>1, <1>3 DEF MoneyMatchesDecision, ClaimIsExclusive
  <2>6. NotOnesOwn'
    <3>1. \A r \in Requests : request'[r].by = request[r].by /\ (Is(r, "none")' => Is(r, "none"))
      BY <2>4
    <3> QED
      BY <1>1, <1>2, <2>3, <3>1 DEF TypeOK, NotOnesOwn
  <2>7. ClaimIsExclusive'
    <3>1. \A d \in Calls : Working(d)' => Working(d) /\ d # c /\ call[d].about \in Requests \ {q}
      BY <2>3, <2>5 DEF TypeOK
    <3> QED
      BY <1>2, <2>3, <2>4, <3>1 DEF ClaimIsExclusive
  <2>8. MoneyMatchesDecision'
    <3>1. \A r \in Requests : AtWork(r) => AtWork(r)'
      BY <1>2, <2>3
    <3> QED
      BY <1>2, <2>4, <2>5, <3>1 DEF MoneyMatchesDecision
  <2>9. MovedByAnother'
    BY <1>2, <2>4, <2>5 DEF TypeOK, MovedByAnother
  <2> QED
    BY <2>2, <2>6, <2>7, <2>8, <2>9
<1>4. CASE ~Is(q, "PENDING")
  <2>1. Return(c) /\ UNCHANGED request
    BY <1>1, <1>4 DEF Reject, Decide
  <2> QED
    BY <1>2, <2>1, ReturnInvariant DEF money
<1> QED
  BY <1>3, <1>4

\* The entry: one more than what nobody heard of, and the call is over.
LEMMA ApplyInvariant ==
  ASSUME IInv, NEW c \in Calls, Apply(c)
  PROVE  IInv'
<1> USE DEF IInv
<1>1. PICK q \in Requests : q = call[c].about
  BY DEF TypeOK, Apply
<1>2. /\ call[c].pc = "apply" /\ call[c].admin \in Admins
      /\ call' = [call EXCEPT ![c] = NoCall]
      /\ applied' = [applied EXCEPT ![q] = @ + 1]
      /\ poster' = [poster EXCEPT ![q] = call[c].admin]
      /\ UNCHANGED <<scene, request, unheard, failures>>
  BY <1>1 DEF TypeOK, Apply, PostFor, Return
<1>3. TypeOK'
  BY <1>1, <1>2 DEF TypeOK, NoCall
<1>4. call'[c].pc = "idle" /\ \A d \in Calls \ {c} : call'[d] = call[d]
  BY <1>2 DEF TypeOK, NoCall
<1>5. /\ applied'[q] = unheard[q] + 1 /\ poster'[q] = call[c].admin
      /\ \A r \in Requests \ {q} : applied'[r] = applied[r] /\ poster'[r] = poster[r]
  BY <1>1, <1>2 DEF TypeOK, ClaimIsExclusive
<1>6. /\ request[q].status = "APPROVED" /\ request[q].decidedBy = call[c].admin
      /\ request[q].by # call[c].admin
  BY <1>1, <1>2 DEF ClaimIsExclusive, NotOnesOwn
<1>7. NotOnesOwn'
  BY <1>2, <1>4, <1>5, <1>6 DEF NotOnesOwn
<1>8. ClaimIsExclusive'
  <2>1. \A d \in Calls : Working(d)' => Working(d) /\ d # c /\ call[d].about \in Requests \ {q}
    BY <1>1, <1>2, <1>4 DEF TypeOK, ClaimIsExclusive
  <2> QED
    BY <1>2, <1>4, <1>5, <2>1 DEF ClaimIsExclusive
<1>9. MoneyMatchesDecision'
  <2>1. \A r \in Requests \ {q} : AtWork(r) => AtWork(r)'
    BY <1>1, <1>4
  <2> QED
    BY <1>2, <1>5, <1>6, <2>1 DEF TypeOK, MoneyMatchesDecision
<1>10. MovedByAnother'
  BY <1>2, <1>5, <1>6 DEF MovedByAnother
<1> QED
  BY <1>3, <1>7, <1>8, <1>9, <1>10

\* A transaction that failed moved nothing.
LEMMA ApplyFailsInvariant ==
  ASSUME IInv, NEW c \in Calls, ApplyFails(c)
  PROVE  IInv'
<1> USE DEF IInv
<1>1. /\ call[c].pc = "apply" /\ call' = [call EXCEPT ![c].pc = "revert"]
      /\ failures' = failures + 1
      /\ UNCHANGED <<scene, request, applied, poster, unheard>>
  BY DEF ApplyFails, Move, money
<1>2. TypeOK'
  BY <1>1 DEF TypeOK
<1>3. /\ call'[c].about = call[c].about /\ call'[c].admin = call[c].admin /\ call'[c].pc = "revert"
      /\ \A d \in Calls \ {c} : call'[d] = call[d]
  BY <1>1 DEF TypeOK
<1>4. NotOnesOwn'
  BY <1>1, <1>3 DEF NotOnesOwn
<1>5. ClaimIsExclusive'
  <2>1. \A d \in Calls : (Working(d)' <=> Working(d)) /\ call'[d].about = call[d].about
                         /\ call'[d].admin = call[d].admin
    BY <1>1, <1>3
  <2> QED
    BY <1>1, <2>1 DEF ClaimIsExclusive
<1>6. MoneyMatchesDecision'
  <2>1. \A r \in Requests : AtWork(r) => AtWork(r)'
    BY <1>1, <1>3
  <2> QED
    BY <1>1, <2>1 DEF MoneyMatchesDecision
<1>7. MovedByAnother'
  BY <1>1 DEF MovedByAnother
<1> QED
  BY <1>2, <1>4, <1>5, <1>6, <1>7

\* One whose answer was lost moved the money, and counts.
LEMMA ApplyUnheardInvariant ==
  ASSUME IInv, NEW c \in Calls, ApplyUnheard(c)
  PROVE  IInv'
<1> USE DEF IInv
<1>1. PICK q \in Requests : q = call[c].about
  BY DEF TypeOK, ApplyUnheard
<1>2. /\ call[c].pc = "apply" /\ call[c].admin \in Admins
      /\ call' = [call EXCEPT ![c].pc = "revert"]
      /\ applied' = [applied EXCEPT ![q] = @ + 1] /\ unheard' = [unheard EXCEPT ![q] = @ + 1]
      /\ poster' = [poster EXCEPT ![q] = call[c].admin]
      /\ UNCHANGED <<scene, request, failures>>
  BY <1>1 DEF TypeOK, ApplyUnheard, PostFor, Move
<1>3. TypeOK'
  BY <1>1, <1>2 DEF TypeOK
<1>4. /\ call'[c].about = q /\ call'[c].admin = call[c].admin /\ call'[c].pc = "revert"
      /\ \A d \in Calls \ {c} : call'[d] = call[d]
  BY <1>1, <1>2 DEF TypeOK
<1>5. /\ applied'[q] = unheard'[q] /\ poster'[q] = call[c].admin
      /\ \A r \in Requests \ {q} : applied'[r] = applied[r] /\ unheard'[r] = unheard[r]
                                   /\ poster'[r] = poster[r]
  BY <1>1, <1>2 DEF TypeOK, ClaimIsExclusive
<1>6. /\ request[q].status = "APPROVED" /\ request[q].decidedBy = call[c].admin
      /\ request[q].by # call[c].admin
  BY <1>1, <1>2 DEF ClaimIsExclusive, NotOnesOwn
<1>7. NotOnesOwn'
  BY <1>1, <1>2, <1>4, <1>5, <1>6 DEF NotOnesOwn
<1>8. ClaimIsExclusive'
  <2>1. \A d \in Calls \ {c} : Working(d)' => Working(d) /\ call[d].about \in Requests \ {q}
    BY <1>1, <1>2, <1>4 DEF TypeOK, ClaimIsExclusive
  <2> QED
    BY <1>2, <1>4, <1>5, <1>6, <2>1 DEF ClaimIsExclusive
<1>9. MoneyMatchesDecision'
  <2>1. \A r \in Requests \ {q} : AtWork(r) => AtWork(r)'
    BY <1>1, <1>4
  <2>2. AtWork(q)'
    BY <1>4
  <2>3. unheard'[q] \in Nat
    BY <1>3 DEF TypeOK
  <2> QED
    BY <1>2, <1>5, <1>6, <2>1, <2>2, <2>3 DEF MoneyMatchesDecision
<1>10. MovedByAnother'
  <2>1. unheard'[q] \in Nat
    BY <1>3 DEF TypeOK
  <2> QED
    BY <1>2, <1>5, <1>6, <2>1 DEF MovedByAnother
<1> QED
  BY <1>3, <1>7, <1>8, <1>9, <1>10

\* The row goes back as it was: PENDING, with no money of its own.
LEMMA RevertInvariant ==
  ASSUME IInv, NEW c \in Calls, Revert(c)
  PROVE  IInv'
<1> USE DEF IInv
<1>1. PICK q \in Requests : q = call[c].about
  BY DEF TypeOK, Revert
<1>2. /\ call[c].pc = "revert" /\ call' = [call EXCEPT ![c] = NoCall]
      /\ Is(q, "APPROVED") /\ applied[q] = unheard[q]
      /\ UNCHANGED <<scene, applied, poster, unheard, failures>>
  BY <1>1 DEF Revert, Return, ClaimIsExclusive, money
<1>3. request' = [request EXCEPT ![q].status = "PENDING", ![q].decidedBy = Nobody]
  BY <1>1, <1>2 DEF Revert
<1>4. TypeOK'
  <2>1. request[q] \in Rows
    BY <1>1 DEF TypeOK, Rows
  <2>2. [request[q] EXCEPT !.status = "PENDING", !.decidedBy = Nobody] \in Rows
    BY <1>2, <2>1 DEF Rows
  <2>3. request' \in [Requests -> Rows]
    BY <1>1, <1>3, <2>2 DEF TypeOK, Rows
  <2> QED
    BY <1>2, <2>3 DEF TypeOK, Rows, NoCall
<1>5. call'[c].pc = "idle" /\ \A d \in Calls \ {c} : call'[d] = call[d]
  BY <1>2 DEF TypeOK, NoCall
<1>6. /\ request'[q].status = "PENDING" /\ request'[q].by = request[q].by
      /\ \A r \in Requests \ {q} : request'[r] = request[r]
  BY <1>1, <1>3 DEF TypeOK
<1>7. NotOnesOwn'
  <2>1. \A r \in Requests : request'[r].by = request[r].by /\ (Is(r, "none")' => Is(r, "none"))
    BY <1>6
  <2> QED
    BY <1>2, <1>5, <2>1 DEF TypeOK, NotOnesOwn
<1>8. ClaimIsExclusive'
  <2>1. \A d \in Calls : Working(d)' => Working(d) /\ d # c /\ call[d].about \in Requests \ {q}
    BY <1>1, <1>2, <1>5 DEF TypeOK, ClaimIsExclusive
  <2> QED
    BY <1>2, <1>5, <1>6, <2>1 DEF ClaimIsExclusive
<1>9. MoneyMatchesDecision'
  <2>1. \A r \in Requests \ {q} : AtWork(r) => AtWork(r)'
    BY <1>1, <1>5
  <2> QED
    BY <1>2, <1>6, <2>1 DEF MoneyMatchesDecision
<1>10. MovedByAnother'
  BY <1>2, <1>6 DEF TypeOK, MovedByAnother
<1> QED
  BY <1>4, <1>7, <1>8, <1>9, <1>10

\* A process that stops leaves the rows as they are.
LEMMA DiesInvariant ==
  ASSUME IInv, NEW c \in Calls, CallDies(c)
  PROVE  IInv'
BY ReturnInvariant DEF CallDies

\* Every step of the operators keeps it.
THEOREM Invariance == Spec => []IInv
<1>1. IInv /\ [Next]_vars => IInv'
  <2> SUFFICES ASSUME IInv, [Next]_vars
               PROVE  IInv'
    OBVIOUS
  <2>1. CASE \E q \in Requests, a \in Admins : Park(q, a)
    BY <2>1, ParkInvariant
  <2>2. CASE \E c \in Calls, a \in Admins, q \in Requests :
               StartApproval(c, a, q) \/ StartRejection(c, a, q)
    BY <2>2, StartInvariant
  <2>3. CASE \E c \in Calls : Claim(c) \/ Reject(c)
    BY <2>3, ClaimInvariant, RejectInvariant
  <2>4. CASE \E c \in Calls : Apply(c) \/ ApplyFails(c) \/ ApplyUnheard(c)
    BY <2>4, ApplyInvariant, ApplyFailsInvariant, ApplyUnheardInvariant
  <2>5. CASE \E c \in Calls : Revert(c) \/ CallDies(c)
    BY <2>5, RevertInvariant, DiesInvariant
  <2>6. CASE UNCHANGED vars
    BY <2>6 DEF vars, IInv, TypeOK, NotOnesOwn, ClaimIsExclusive, MoneyMatchesDecision, MovedByAnother
  <2> QED
    BY <2>1, <2>2, <2>3, <2>4, <2>5, <2>6 DEF Next
<1> QED
  BY InitInvariant, <1>1, PTL DEF Spec

\* approveAdjustment and rejectAdjustment keep the requests and the ledger in
\* agreement, for any number of operators, requests, failures and lost answers.
THEOREM AgreementTheorem == Spec => []MoneyMatchesDecision
BY Invariance, PTL DEF IInv

\* Dual control: no money moves for a request in the name of who raised it.
THEOREM DualControlTheorem == Spec => []MovedByAnother
BY Invariance, PTL DEF IInv

\* An operator's work on adjustments is that of Adjustments, whatever is played.
LEMMA OfficeAdjusts == MCSpec => Spec
<1>1. MCInit => Init
  BY DEF MCInit
<1>2. [MCNext]_<<part, vars, draws, dryRuns>> => [Next]_vars
  BY DEF MCNext
<1> QED
  BY <1>1, <1>2, PTL DEF MCSpec, Spec

HIDE DEF At, Is, AtWork, Working

-----------------------------------------------------------------------------
(* The draw: what it rests on *)

TermsOf == [prizes : Nat, threshold : Nat \ {0}]
DrawRows == [status : {"DRAFT", "OPEN", "CLOSED", "DRAWN"}, seed : Nat, terms : TermsOf, edits : Nat]
Tickets == [of : Members, under : [seed : Nat, terms : TermsOf]]
Prizes == [winner : Nat, claimed : BOOLEAN, to : Seq(Members)]
Purchases == [pc : {"idle", "buying"}, tickets : Nat]
ClerkCalls ==
  [pc : {"idle", "edit", "open", "backfill", "issue", "close", "run"},
   drawn : DrawRows \union {0}, list : Seq(Members) \union Seq(Tickets), todo : SUBSET Members, short : Nat]
Taps == [pc : {"idle", "claim"}, prize : Nat, edits : Nat, by : Members \union {0}]

\* The types, and that the prizes are won by tickets there are.
DrawTypes ==
  /\ drawScene \in DrawScenes
  /\ draw \in DrawRows /\ tickets \in Seq(Tickets) /\ opened \in Nat
  /\ prize \in [1..draw.terms.prizes -> Prizes]
  /\ invested \in [Members -> Nat]
  /\ purchase \in [Members -> Purchases]
  /\ clerk \in [Clerks -> ClerkCalls]
  /\ tap \in [Claims -> Taps]
  /\ \A m \in Members : purchase[m].pc = "idle" => purchase[m].tickets = 0
  /\ \A c \in Clerks :
       /\ clerk[c].pc = "issue" =>
            clerk[c].list \in Seq(Members) /\ Len(clerk[c].list) = 1 /\ clerk[c].short > 0
       /\ clerk[c].pc = "run" =>
            /\ clerk[c].drawn \in DrawRows /\ clerk[c].list \in Seq(Tickets)
            /\ Len(clerk[c].list) <= Len(tickets)
  /\ \A p \in DOMAIN prize : prize[p].winner \in 0..Len(tickets)
  /\ \A k \in Claims : tap[k].pc = "claim" => tap[k].by \in Members

\* A claim that was paid is marked, and marked ones are paid no more; no ticket
\* holds two prizes.
PrizesApart ==
  \A p \in DOMAIN prize :
    /\ Len(prize[p].to) <= 1 /\ (prize[p].claimed <=> prize[p].to # <<>>)
    /\ \A q \in DOMAIN prize \ {p} : prize[p].winner = prize[q].winner => prize[p].winner = 0

\* A draw that was never opened has no ticket, and none that comes.
DraftIsEmpty ==
  draw.status = "DRAFT" =>
    /\ tickets = <<>> /\ \A m \in Members : purchase[m].tickets = 0
    /\ \A c \in Clerks : clerk[c].pc \notin {"backfill", "issue"}

\* While operators take turns, what a call read of the draw stays as it was.
OneCall == \A c, d \in Clerks : clerk[c].pc # "idle" /\ clerk[d].pc # "idle" => c = d

\* What each call read of the status still holds, and a run has the tickets.
CallsAreCurrent ==
  \A c \in Clerks :
    /\ clerk[c].pc \in {"edit", "open"} => draw.status = "DRAFT"
    /\ clerk[c].pc \in {"backfill", "issue", "close"} => draw.status = "OPEN"
    /\ clerk[c].pc = "run" =>
         /\ draw.status \in {"OPEN", "CLOSED"} /\ clerk[c].drawn = draw
         /\ drawScene.settled => draw.status = "CLOSED" /\ Len(clerk[c].list) = Len(tickets)

\* A ticket is issued under the seed and the terms of the draw.
TicketsAreAnnounced ==
  \A i \in DOMAIN tickets : tickets[i].under = [seed |-> draw.seed, terms |-> draw.terms]

\* A prize has a winner once the draw is drawn, and is claimed after that.
PrizesAreDrawn ==
  /\ draw.status # "DRAWN" => \A p \in DOMAIN prize : prize[p].winner = 0
  /\ \A p \in DOMAIN prize : prize[p].winner = 0 => ~prize[p].claimed
  /\ \A k \in Claims : tap[k].pc = "claim" =>
       /\ draw.status = "DRAWN" /\ tap[k].edits = draw.edits /\ tap[k].prize \in DOMAIN prize
       /\ prize[tap[k].prize].winner # 0 /\ tap[k].by = tickets[prize[tap[k].prize].winner].of
  /\ \A p \in DOMAIN prize : prize[p].claimed => prize[p].to = <<tickets[prize[p].winner].of>>

\* Where closed draws are run, no ticket comes once a run has begun.
Sealed == draw.status = "DRAWN" \/ \E c \in Clerks : clerk[c].pc = "run"

\* The winners are the first of the shuffle.
WinnersAreThose ==
  drawScene.settled =>
    /\ Sealed => \A m \in Members : purchase[m].tickets = 0
    /\ draw.status = "DRAWN" =>
         \A p \in DOMAIN prize :
           prize[p].winner = IF p \in 1..Len(tickets) THEN D!Shuffle(Len(tickets), draw.seed)[p] ELSE 0

\* What holds where operators take turns.
InTurnIInv ==
  ~drawScene.together =>
    OneCall /\ CallsAreCurrent /\ TicketsAreAnnounced /\ PrizesAreDrawn /\ WinnersAreThose

\* What a member may hold.
Earned(units) == D!Min({units \div draw.terms.threshold, MaxTickets})

\* Tickets that are being issued count as held.
NoneTooMany ==
  ~drawScene.together /\ drawScene.quiet =>
    \A m \in Members :
      /\ D!Held(m) <= Earned(invested[m])
      /\ purchase[m].pc = "buying" =>
           /\ D!Held(m) + purchase[m].tickets <= Earned(invested[m] + 1)
           /\ \A c \in Clerks : clerk[c].pc \notin {"open", "backfill", "issue"}
      /\ \A c \in Clerks : clerk[c].pc = "issue" /\ clerk[c].list[1] = m =>
           D!Held(m) + clerk[c].short <= Earned(invested[m])

\* Together they are inductive.
DrawIInv == DrawTypes /\ PrizesApart /\ DraftIsEmpty /\ InTurnIInv /\ NoneTooMany

-----------------------------------------------------------------------------
(* The shuffle is a permutation *)

\* Any naturals have a least one.
LEMMA NaturalMinimum ==
  ASSUME NEW S, S \subseteq Nat, S # {}
  PROVE  \E x \in S : \A y \in S : x =< y
<1>1. IsWellFoundedOn(OpToRel(<, Nat), Nat)
  BY NatLessThanWellFounded
<1>2. PICK x \in S : \A y \in S : <<y, x>> \notin OpToRel(<, Nat)
  BY <1>1, WFMin
<1>3. \A y \in S : ~(y < x)
  BY <1>2 DEF OpToRel
<1> QED
  BY <1>3

\* f is an order of n things.
Permutes(f, n) ==
  f \in [1..n -> 1..n] /\ \A k, l \in 1..n : f[k] = f[l] => k = l

\* Hashes are numbers, and what comes after them is 0.
LEMMA NumberIsNatural ==
  ASSUME NEW seed, NEW k PROVE D!Number(seed, k) \in Nat
BY DrawsAssumption DEF D!Number

\* Two places change, and no two things share one.
LEMMA ExchangePermutes ==
  ASSUME NEW n \in Nat, NEW f, Permutes(f, n), NEW i \in 1..n, NEW j \in 1..n
  PROVE  Permutes(D!Exchange(f, i, j), n)
BY DEF Permutes, D!Exchange

\* The exchanges from the last place down to the i-th, of an order of n.
Exchanged(order, n, seed, i) ==
  IF i = n THEN [k \in 1..n |-> k]
  ELSE D!Exchange(order[i + 1], i + 1, (D!Number(seed, n - i) % (i + 1)) + 1)

\* One more exchange gives an order if the exchanges before did.
LEMMA ExchangedPermutes ==
  ASSUME NEW n \in Nat \ {0}, NEW seed, NEW order, NEW i \in 1..n,
         i # n => Permutes(order[i + 1], n)
  PROVE  Permutes(Exchanged(order, n, seed, i), n)
<1>1. CASE i = n
  BY <1>1 DEF Exchanged, Permutes
<1>2. CASE i # n
  <2>1. i + 1 \in 1..n
    BY <1>2
  <2>2. PICK x \in Nat : x = D!Number(seed, n - i)
    BY NumberIsNatural
  <2>3. (x % (i + 1)) + 1 \in 1..n
    BY <2>1
  <2> QED
    BY <1>2, <2>1, <2>2, <2>3, ExchangePermutes DEF Exchanged
<1> QED
  BY <1>1, <1>2

\* There is an order that is exchanged in every place down to the a-th.
LEMMA OrdersExist ==
  ASSUME NEW n \in Nat \ {0}, NEW seed
  PROVE  \E g : g = [i \in 1..n |-> Exchanged(g, n, seed, i)]
<1> DEFINE Down(g, a) == g = [i \in a..n |-> Exchanged(g, n, seed, i)]
           B == {m \in 0..(n - 1) : ~\E g : Down(g, n - m)}
<1>1. 0 \notin B
  <2>1. Down([i \in n..n |-> [k \in 1..n |-> k]], n)
    BY DEF Exchanged
  <2>2. \E g : Down(g, n - 0)
    <3> HIDE DEF Down
    <3> QED
      BY <2>1
  <2> QED
    BY <2>2
<1>2. ASSUME NEW m \in 1..(n - 1), m - 1 \notin B
      PROVE  m \notin B
  <2>1. PICK a \in 1..(n - 1) : a = n - m
    OBVIOUS
  <2>2. PICK g : Down(g, a + 1)
    BY <1>2, <2>1
  <2> DEFINE h == [i \in a..n |-> IF i = a THEN Exchanged(g, n, seed, a) ELSE g[i]]
  <2>3. \A i \in (a + 1)..n : h[i] = g[i]
    BY <2>1
  <2>4. \A i \in a..n : h[i] = Exchanged(h, n, seed, i)
    <3> SUFFICES ASSUME NEW i \in a..n PROVE h[i] = Exchanged(h, n, seed, i)
      OBVIOUS
    <3>1. i # n => i + 1 \in (a + 1)..n
      BY <2>1
    <3>2. Exchanged(h, n, seed, i) = Exchanged(g, n, seed, i)
      BY <2>3, <3>1 DEF Exchanged
    <3>3. CASE i = a
      BY <3>2, <3>3
    <3>4. CASE i # a
      <4>1. i \in (a + 1)..n
        BY <2>1, <3>4
      <4>2. g[i] = Exchanged(g, n, seed, i)
        BY <2>2, <4>1
      <4> QED
        BY <2>3, <3>2, <4>1, <4>2
    <3> QED
      BY <3>3, <3>4
  <2>5. h = [i \in a..n |-> h[i]]
    OBVIOUS
  <2>6. Down(h, a)
    <3> HIDE DEF h
    <3> QED
      BY <2>4, <2>5
  <2> QED
    BY <2>1, <2>6
<1>3. B = {}
  <2> SUFFICES ASSUME B # {} PROVE FALSE
    OBVIOUS
  <2>1. B \subseteq Nat
    OBVIOUS
  <2>2. PICK m \in B : \A l \in B : m <= l
    BY <2>1, NaturalMinimum
  <2>3. m # 0 /\ m \in 0..(n - 1)
    BY <1>1
  <2>4. m \in 1..(n - 1) /\ ~(m <= m - 1)
    BY <2>3
  <2>5. m - 1 \notin B
    <3> HIDE DEF B
    <3> QED
      BY <2>2, <2>4
  <2> QED
    BY <1>2, <2>4, <2>5
<1>4. n - 1 \in 0..(n - 1) /\ n - (n - 1) = 1
  OBVIOUS
<1>5. \E g : Down(g, 1)
  <2>1. \A m \in 0..(n - 1) : \E g : Down(g, n - m)
    BY <1>3
  <2> HIDE DEF Down
  <2> QED
    BY <1>4, <2>1
<1> QED
  BY <1>5

\* However the hashes fall, the shuffle puts each of n in one place (shuffle).
LEMMA ShufflePermutes ==
  ASSUME NEW n \in Nat \ {0}, NEW seed
  PROVE  Permutes(D!Shuffle(n, seed), n)
<1> DEFINE order == CHOOSE g : g = [i \in 1..n |-> Exchanged(g, n, seed, i)]
<1>1. D!Shuffle(n, seed) = order[1]
  BY DEF D!Shuffle, Exchanged
<1>2. order = [i \in 1..n |-> Exchanged(order, n, seed, i)]
  BY OrdersExist
<1> HIDE DEF order
<1> DEFINE B == {m \in 0..(n - 1) : ~Permutes(order[n - m], n)}
<1>3. B = {}
  <2> SUFFICES ASSUME B # {} PROVE FALSE
    OBVIOUS
  <2>1. B \subseteq Nat
    OBVIOUS
  <2>2. PICK m \in B : \A l \in B : m <= l
    BY <2>1, NaturalMinimum
  <2>3. PICK i \in 1..n : i = n - m
    OBVIOUS
  <2>4. i # n => Permutes(order[i + 1], n)
    <3> SUFFICES ASSUME i # n PROVE Permutes(order[i + 1], n)
      OBVIOUS
    <3>1. m - 1 \in 0..(n - 1) /\ m - 1 \notin B /\ i + 1 = n - (m - 1)
      BY <2>2, <2>3
    <3> QED
      BY <3>1
  <2>5. Permutes(order[i], n)
    BY <1>2, <2>4, ExchangedPermutes
  <2> QED
    BY <2>3, <2>5
<1>4. n - 1 \in 0..(n - 1) /\ n - (n - 1) = 1
  OBVIOUS
<1> QED
  BY <1>1, <1>3, <1>4

-----------------------------------------------------------------------------
(* What is earned, held and issued *)

\* The smaller of two numbers.
LEMMA MinOfTwo ==
  ASSUME NEW a \in Int, NEW b \in Int
  PROVE  D!Min({a, b}) = IF a <= b THEN a ELSE b
<1>1. \A x \in {a, b} : (\A y \in {a, b} : x <= y) <=> x = IF a <= b THEN a ELSE b
  OBVIOUS
<1>2. \E x \in {a, b} : \A y \in {a, b} : x <= y
  OBVIOUS
<1> QED
  BY <1>1, <1>2 DEF D!Min

\* The larger one.
LEMMA MaxOfTwo ==
  ASSUME NEW a \in Int, NEW b \in Int
  PROVE  D!Max({a, b}) = IF a >= b THEN a ELSE b
<1>1. \A x \in {a, b} : (\A y \in {a, b} : x >= y) <=> x = IF a >= b THEN a ELSE b
  OBVIOUS
<1>2. \E x \in {a, b} : \A y \in {a, b} : x >= y
  OBVIOUS
<1> QED
  BY <1>1, <1>2 DEF D!Max

\* Another unit earns no fewer tickets.
LEMMA EarnedGrows ==
  ASSUME NEW t \in Nat \ {0}, NEW u \in Nat
  PROVE  /\ D!Min({u \div t, MaxTickets}) \in Nat
         /\ D!Min({u \div t, MaxTickets}) <= D!Min({(u + 1) \div t, MaxTickets})
<1>1. u \div t \in Nat /\ (u + 1) \div t \in Nat
  BY Z3
<1>2. u \div t <= (u + 1) \div t
  BY Z3
<1>3. MaxTickets \in Nat
  BY DrawsAssumption
<1> QED
  BY <1>1, <1>2, <1>3, MinOfTwo

\* Another unit invested earns no fewer tickets of the draw.
LEMMA EarnedIsNatural ==
  ASSUME DrawTypes, NEW u \in Nat
  PROVE  Earned(u) \in Nat /\ Earned(u) <= Earned(u + 1)
<1>1. draw.terms.threshold \in Nat \ {0}
  BY DEF DrawTypes, DrawRows, TermsOf
<1> QED
  BY <1>1, EarnedGrows DEF Earned

\* D!Cardinality is the library's.
LEMMA TicketsCount == \A ss : D!Cardinality(ss) = Cardinality(ss)
BY DEF D!Cardinality, Cardinality

\* Counting the tickets of a member.
LEMMA HeldIsCounted ==
  ASSUME DrawTypes, NEW m
  PROVE  /\ IsFiniteSet({i \in DOMAIN tickets : tickets[i].of = m}) /\ D!Held(m) \in Nat
         /\ tickets = <<>> => D!Held(m) = 0
<1>1. Len(tickets) \in Nat /\ DOMAIN tickets = 1..Len(tickets)
  BY DEF DrawTypes
<1>2. IsFiniteSet(DOMAIN tickets)
  BY <1>1, FS_Interval
<1>3. IsFiniteSet({i \in DOMAIN tickets : tickets[i].of = m})
  BY <1>2, FS_Subset
<1>4. D!Held(m) \in Nat
  BY <1>3, FS_CardinalityType, TicketsCount DEF D!Held
<1>5. ASSUME tickets = <<>> PROVE D!Held(m) = 0
  <2>1. {i \in DOMAIN tickets : tickets[i].of = m} = {}
    BY <1>1, <1>5
  <2> QED
    BY <2>1, FS_EmptySet, TicketsCount DEF D!Held
<1> QED
  BY <1>3, <1>4, <1>5

\* Issuing adds tickets of one member to the end, and to what that member holds.
LEMMA IssuedTickets ==
  ASSUME DrawTypes, NEW m \in Members, NEW n \in Nat, tickets' = D!Issue(m, n)
  PROVE  /\ tickets' \in Seq(Tickets) /\ Len(tickets') = Len(tickets) + n
         /\ \A i \in 1..Len(tickets) : tickets'[i] = tickets[i]
         /\ \A i \in (Len(tickets) + 1)..(Len(tickets) + n) :
              tickets'[i] = [of |-> m, under |-> [seed |-> draw.seed, terms |-> draw.terms]]
         /\ n = 0 => tickets' = tickets
<1> DEFINE t == [of |-> m, under |-> [seed |-> draw.seed, terms |-> draw.terms]]
           new == [i \in 1..n |-> t]
<1>1. t \in Tickets
  BY DEF DrawTypes, DrawRows, Tickets
<1>2. tickets \in Seq(Tickets) /\ tickets' = tickets \o new
  BY DEF DrawTypes, D!Issue
<1> HIDE DEF t
<1>3. new \in Seq(Tickets) /\ Len(new) = n /\ \A i \in 1..n : new[i] = t
  BY <1>1
<1> HIDE DEF new
<1>4. /\ tickets' \in Seq(Tickets) /\ Len(tickets') = Len(tickets) + n
      /\ \A i \in 1..Len(tickets) : tickets'[i] = tickets[i]
      /\ \A i \in (Len(tickets) + 1)..(Len(tickets) + n) : tickets'[i] = t
  <2>1. PICK l \in Nat : l = Len(tickets)
    BY <1>2
  <2>2. tickets' \in Seq(Tickets) /\ Len(tickets') = l + n
    <3>1. tickets \o new \in Seq(Tickets) /\ Len(tickets \o new) = Len(tickets) + Len(new)
      BY <1>2, <1>3
    <3> QED
      BY <1>2, <1>3, <2>1, <3>1
  <2>3. \A i \in 1..l : tickets'[i] = tickets[i]
    BY <1>2, <1>3, <2>1
  <2>4. \A i \in (l + 1)..(l + n) : tickets'[i] = t
    <3> SUFFICES ASSUME NEW i \in (l + 1)..(l + n) PROVE tickets'[i] = t
      OBVIOUS
    <3>1. i - l \in 1..n
      BY <2>1
    <3>2. tickets'[i] = new[i - l]
      BY <1>2, <1>3, <2>1
    <3> QED
      BY <1>3, <3>1, <3>2
  <2> QED
    BY <2>1, <2>2, <2>3, <2>4
<1>5. n = 0 => tickets' = tickets
  BY <1>2, <1>4
<1> QED
  BY <1>4, <1>5 DEF t

\* Who is issued tickets holds that many more, and nobody else does.
LEMMA IssuedIsHeld ==
  ASSUME DrawTypes, NEW m \in Members, NEW n \in Nat, tickets' = D!Issue(m, n)
  PROVE  D!Held(m)' = D!Held(m) + n /\ \A o \in Members \ {m} : D!Held(o)' = D!Held(o)
<1> DEFINE At0(o) == {i \in DOMAIN tickets : tickets[i].of = o}
           At1(o) == {i \in DOMAIN tickets' : tickets'[i].of = o}
           New == (Len(tickets) + 1)..(Len(tickets) + n)
<1>1. PICK l \in Nat : l = Len(tickets)
  BY DEF DrawTypes
<1>2. DOMAIN tickets = 1..l /\ DOMAIN tickets' = 1..(l + n)
  <2>1. tickets \in Seq(Tickets)
    BY DEF DrawTypes
  <2>2. tickets' \in Seq(Tickets) /\ Len(tickets') = l + n
    BY <1>1, IssuedTickets
  <2> QED
    BY <1>1, <2>1, <2>2
<1>3. /\ \A i \in 1..l : tickets'[i] = tickets[i]
      /\ \A i \in (l + 1)..(l + n) : tickets'[i].of = m
  <2>1. \A i \in (l + 1)..(l + n) :
          tickets'[i] = [of |-> m, under |-> [seed |-> draw.seed, terms |-> draw.terms]]
    BY <1>1, IssuedTickets
  <2> QED
    BY <1>1, <2>1, IssuedTickets
<1>4. At1(m) = At0(m) \union New /\ At0(m) \intersect New = {}
  BY <1>1, <1>2, <1>3
<1>5. \A o \in Members \ {m} : At1(o) = At0(o)
  BY <1>1, <1>2, <1>3
<1>6. IsFiniteSet(At0(m)) /\ Cardinality(At0(m)) \in Nat
  BY HeldIsCounted, FS_CardinalityType
<1>7. IsFiniteSet(New) /\ Cardinality(New) = n
  <2>1. New = (l + 1)..(l + n) /\ l + 1 \in Int /\ l + n \in Int
    BY <1>1
  <2>2. IsFiniteSet(New) /\ Cardinality(New) = IF l + 1 > l + n THEN 0 ELSE (l + n) - (l + 1) + 1
    BY <2>1, FS_Interval
  <2> QED
    BY <2>2
<1>8. Cardinality(At1(m)) = Cardinality(At0(m)) + n
  <2>1. Cardinality(At0(m) \intersect New) = 0
    BY <1>4, FS_EmptySet
  <2> HIDE DEF At0, At1, New
  <2> QED
    BY <1>4, <1>6, <1>7, <2>1, FS_Union
<1>9. \A o : D!Held(o) = Cardinality(At0(o))
  BY TicketsCount DEF D!Held
<1>10. \A o : D!Held(o)' = Cardinality(At1(o))
  BY TicketsCount DEF D!Held
<1> HIDE DEF At0, At1
<1> QED
  BY <1>5, <1>8, <1>9, <1>10

\* What is missing of what is earned: nothing unless the draw is open.
LEMMA ShortfallIsMissing ==
  ASSUME DrawTypes, NEW m \in Members, NEW u \in Nat
  PROVE  /\ D!Shortfall(m, u) \in Nat
         /\ draw.status # "OPEN" => D!Shortfall(m, u) = 0
         /\ D!Held(m) <= Earned(u) => D!Held(m) + D!Shortfall(m, u) <= Earned(u)
<1>1. D!Held(m) \in Nat /\ Earned(u) \in Nat
  BY HeldIsCounted, EarnedIsNatural
<1>2. D!Shortfall(m, u) = IF draw.status = "OPEN" THEN D!Max({Earned(u) - D!Held(m), 0}) ELSE 0
  BY DEF D!Shortfall, Earned
<1>3. D!Max({Earned(u) - D!Held(m), 0}) = IF Earned(u) - D!Held(m) >= 0 THEN Earned(u) - D!Held(m) ELSE 0
  BY <1>1, MaxOfTwo
<1> QED
  BY <1>1, <1>2, <1>3

-----------------------------------------------------------------------------
(* The draw: purchases *)

USE DEF D!In, D!Move, D!Return, D!NoCall, D!NoPurchase, D!NoTap

\* A purchase counts what is missing: nothing, once a draw is closed.
LEMMA PurchaseOfDraw ==
  ASSUME DrawIInv, NEW m \in Members, D!Purchase(m)
  PROVE  DrawIInv'
<1> USE DEF DrawIInv
<1>1. PICK n : n = D!Shortfall(m, invested[m] + 1)
  OBVIOUS
<1>2. /\ purchase[m].pc = "idle"
      /\ drawScene.quiet => \A c \in Clerks : clerk[c].pc \notin {"open", "backfill", "issue"}
      /\ purchase' = [purchase EXCEPT ![m] = [pc |-> "buying", tickets |-> n]]
      /\ UNCHANGED <<drawScene, draw, tickets, prize, opened, invested, clerk, tap>>
  BY <1>1 DEF D!Purchase, D!Opening
<1>3. invested[m] \in Nat /\ invested[m] + 1 \in Nat
  BY DEF DrawTypes
<1>4. /\ n \in Nat /\ (draw.status # "OPEN" => n = 0)
      /\ D!Held(m) <= Earned(invested[m] + 1) => D!Held(m) + n <= Earned(invested[m] + 1)
  BY <1>1, <1>3, ShortfallIsMissing
<1>5. /\ purchase'[m] = [pc |-> "buying", tickets |-> n]
      /\ \A o \in Members \ {m} : purchase'[o] = purchase[o]
  BY <1>2 DEF DrawTypes
<1>6. DrawTypes'
  BY <1>2, <1>4, <1>5 DEF DrawTypes, Purchases
<1>7. PrizesApart' /\ DraftIsEmpty'
  BY <1>2, <1>4, <1>5 DEF PrizesApart, DraftIsEmpty
<1>8. InTurnIInv'
  <2> SUFFICES ASSUME ~drawScene.together
               PROVE  OneCall' /\ CallsAreCurrent' /\ TicketsAreAnnounced' /\ PrizesAreDrawn' /\ WinnersAreThose'
    BY <1>2 DEF InTurnIInv
  <2>1. OneCall' /\ CallsAreCurrent' /\ TicketsAreAnnounced' /\ PrizesAreDrawn'
    BY <1>2 DEF InTurnIInv, OneCall, CallsAreCurrent, TicketsAreAnnounced, PrizesAreDrawn
  <2>2. drawScene.settled /\ Sealed => draw.status # "OPEN"
    BY DEF InTurnIInv, CallsAreCurrent, Sealed
  <2>3. WinnersAreThose'
    BY <1>2, <1>4, <1>5, <2>2 DEF InTurnIInv, WinnersAreThose, Sealed
  <2> QED
    BY <2>1, <2>3
<1>9. NoneTooMany'
  <2> SUFFICES ASSUME ~drawScene.together, drawScene.quiet, NEW o \in Members
               PROVE  /\ D!Held(o) <= Earned(invested[o])
                      /\ purchase'[o].pc = "buying" =>
                           /\ D!Held(o) + purchase'[o].tickets <= Earned(invested[o] + 1)
                           /\ \A c \in Clerks : clerk[c].pc \notin {"open", "backfill", "issue"}
                      /\ \A c \in Clerks : clerk[c].pc = "issue" /\ clerk[c].list[1] = o =>
                           D!Held(o) + clerk[c].short <= Earned(invested[o])
    BY <1>2 DEF NoneTooMany, D!Held, Earned
  <2>1. D!Held(m) \in Nat /\ Earned(invested[m]) \in Nat /\ Earned(invested[m]) <= Earned(invested[m] + 1)
    BY <1>3, EarnedIsNatural, HeldIsCounted
  <2>2. D!Held(m) <= Earned(invested[m])
    BY DEF NoneTooMany
  <2>3. Earned(invested[m] + 1) \in Nat
    BY <1>3, EarnedIsNatural
  <2>4. D!Held(m) + n <= Earned(invested[m] + 1)
    BY <1>4, <2>1, <2>2, <2>3
  <2> QED
    BY <1>2, <1>5, <2>4 DEF NoneTooMany
<1> QED
  BY <1>6, <1>7, <1>8, <1>9

\* Its tickets are what it counted, under the announcement of the day.
LEMMA PurchaseCommitsOfDraw ==
  ASSUME DrawIInv, NEW m \in Members, D!PurchaseCommits(m)
  PROVE  DrawIInv'
<1> USE DEF DrawIInv
<1>1. PICK n \in Nat : n = purchase[m].tickets
  BY DEF DrawTypes, Purchases
<1>2. /\ purchase[m].pc = "buying" /\ tickets' = D!Issue(m, n)
      /\ invested' = [invested EXCEPT ![m] = @ + 1]
      /\ purchase' = [purchase EXCEPT ![m] = [pc |-> "idle", tickets |-> 0]]
      /\ UNCHANGED <<drawScene, draw, prize, opened, clerk, tap>>
  BY <1>1 DEF D!PurchaseCommits
<1>3. PICK l \in Nat : l = Len(tickets)
  BY DEF DrawTypes
<1>4. /\ tickets' \in Seq(Tickets) /\ Len(tickets') = l + n
      /\ \A i \in 1..l : tickets'[i] = tickets[i]
      /\ \A i \in (l + 1)..(l + n) :
           tickets'[i] = [of |-> m, under |-> [seed |-> draw.seed, terms |-> draw.terms]]
      /\ n = 0 => tickets' = tickets
  BY <1>2, <1>3, IssuedTickets
<1>5. DOMAIN tickets = 1..l /\ DOMAIN tickets' = 1..(l + n)
  BY <1>3, <1>4 DEF DrawTypes
<1>6. /\ purchase'[m] = [pc |-> "idle", tickets |-> 0] /\ invested'[m] = invested[m] + 1
      /\ \A o \in Members \ {m} : purchase'[o] = purchase[o] /\ invested'[o] = invested[o]
  BY <1>2 DEF DrawTypes
<1>7. DrawTypes'
  <2>1. purchase' \in [Members -> Purchases] /\ invested' \in [Members -> Nat]
    BY <1>2 DEF DrawTypes, Purchases
  <2>2. \A p \in DOMAIN prize : prize[p].winner \in 0..(l + n)
    BY <1>3 DEF DrawTypes
  <2>3. \A c \in Clerks : clerk[c].pc = "run" => Len(clerk[c].list) <= l + n
    BY <1>3 DEF DrawTypes
  <2> QED
    BY <1>2, <1>4, <1>6, <2>1, <2>2, <2>3 DEF DrawTypes
<1>8. PrizesApart' /\ DraftIsEmpty'
  BY <1>1, <1>2, <1>4, <1>6 DEF PrizesApart, DraftIsEmpty
<1>9. InTurnIInv'
  <2> SUFFICES ASSUME ~drawScene.together
               PROVE  OneCall' /\ CallsAreCurrent' /\ TicketsAreAnnounced' /\ PrizesAreDrawn' /\ WinnersAreThose'
    BY <1>2 DEF InTurnIInv
  <2>1. drawScene.settled /\ Sealed => n = 0
    BY <1>1 DEF InTurnIInv, WinnersAreThose
  <2>2. OneCall'
    BY <1>2 DEF InTurnIInv, OneCall
  <2>3. CallsAreCurrent'
    BY <1>2, <1>4, <2>1 DEF InTurnIInv, CallsAreCurrent, Sealed
  <2>4. TicketsAreAnnounced'
    BY <1>2, <1>4, <1>5 DEF InTurnIInv, TicketsAreAnnounced
  <2>5. PrizesAreDrawn'
    <3>1. \A p \in DOMAIN prize : prize[p].winner # 0 => tickets'[prize[p].winner] = tickets[prize[p].winner]
      BY <1>3, <1>4 DEF DrawTypes
    <3> QED
      BY <1>2, <3>1 DEF InTurnIInv, PrizesAreDrawn
  <2>6. WinnersAreThose'
    <3>1. drawScene.settled /\ draw.status = "DRAWN" => tickets' = tickets
      BY <1>4, <2>1 DEF Sealed
    <3> QED
      BY <1>2, <1>6, <3>1 DEF InTurnIInv, WinnersAreThose, Sealed
  <2> QED
    BY <2>2, <2>3, <2>4, <2>5, <2>6
<1>10. NoneTooMany'
  <2> SUFFICES ASSUME ~drawScene.together, drawScene.quiet, NEW o \in Members
               PROVE  /\ D!Held(o)' <= Earned(invested'[o])
                      /\ purchase'[o].pc = "buying" =>
                           /\ D!Held(o)' + purchase'[o].tickets <= Earned(invested'[o] + 1)
                           /\ \A c \in Clerks : clerk[c].pc \notin {"open", "backfill", "issue"}
                      /\ \A c \in Clerks : clerk[c].pc = "issue" /\ clerk[c].list[1] = o =>
                           D!Held(o)' + clerk[c].short <= Earned(invested'[o])
    BY <1>2 DEF NoneTooMany, Earned
  <2>1. D!Held(m)' = D!Held(m) + n /\ (o # m => D!Held(o)' = D!Held(o))
    BY <1>2, IssuedIsHeld
  <2>2. /\ D!Held(m) + n <= Earned(invested[m] + 1)
        /\ \A c \in Clerks : clerk[c].pc \notin {"open", "backfill", "issue"}
    BY <1>1, <1>2 DEF NoneTooMany
  <2> QED
    BY <1>6, <2>1, <2>2 DEF NoneTooMany
<1> QED
  BY <1>7, <1>8, <1>9, <1>10

\* A purchase that fails leaves no ticket.
LEMMA PurchaseFailsOfDraw ==
  ASSUME DrawIInv, NEW m \in Members, D!PurchaseFails(m)
  PROVE  DrawIInv'
<1> USE DEF DrawIInv
<1>1. /\ purchase' = [purchase EXCEPT ![m] = [pc |-> "idle", tickets |-> 0]]
      /\ UNCHANGED <<drawScene, draw, tickets, prize, opened, invested, clerk, tap>>
  BY DEF D!PurchaseFails
<1>2. /\ purchase'[m] = [pc |-> "idle", tickets |-> 0]
      /\ \A o \in Members \ {m} : purchase'[o] = purchase[o]
  BY <1>1 DEF DrawTypes
<1>3. DrawTypes'
  BY <1>1, <1>2 DEF DrawTypes, Purchases
<1>4. PrizesApart' /\ DraftIsEmpty'
  BY <1>1, <1>2 DEF PrizesApart, DraftIsEmpty
<1>5. InTurnIInv'
  BY <1>1, <1>2 DEF InTurnIInv, OneCall, CallsAreCurrent, TicketsAreAnnounced, PrizesAreDrawn, WinnersAreThose, Sealed
<1>6. NoneTooMany'
  <2>1. \A o : D!Held(o)' = D!Held(o)
    BY <1>1 DEF D!Held
  <2>2. \A u : Earned(u)' = Earned(u)
    BY <1>1 DEF Earned
  <2> QED
    BY <1>1, <1>2, <2>1, <2>2 DEF NoneTooMany
<1> QED
  BY <1>3, <1>4, <1>5, <1>6

-----------------------------------------------------------------------------
(* The draw: operators *)

\* A call goes on and nothing else changes: what it says then must be so.
LEMMA ClerkMoves ==
  ASSUME DrawIInv, NEW c \in Clerks, NEW v \in ClerkCalls, clerk' = [clerk EXCEPT ![c] = v],
         UNCHANGED <<drawScene, draw, tickets, prize, opened, invested, purchase, tap>>,
         v.pc \in {"backfill", "issue"} => draw.status # "DRAFT",
         v.pc = "issue" => v.list \in Seq(Members) /\ Len(v.list) = 1 /\ v.short > 0,
         v.pc = "run" => v.drawn \in DrawRows /\ v.list \in Seq(Tickets) /\ Len(v.list) <= Len(tickets),
         ~drawScene.together =>
           /\ v.pc # "idle" => \A d \in Clerks \ {c} : clerk[d].pc = "idle"
           /\ v.pc \in {"edit", "open"} => draw.status = "DRAFT"
           /\ v.pc \in {"backfill", "issue", "close"} => draw.status = "OPEN"
           /\ v.pc = "run" =>
                /\ draw.status \in {"OPEN", "CLOSED"} /\ v.drawn = draw
                /\ drawScene.settled => /\ draw.status = "CLOSED" /\ Len(v.list) = Len(tickets)
                                        /\ \A m \in Members : purchase[m].tickets = 0,
         ~drawScene.together /\ drawScene.quiet =>
           \A m \in Members :
             /\ purchase[m].pc = "buying" => v.pc \notin {"open", "backfill", "issue"}
             /\ v.pc = "issue" /\ v.list[1] = m => D!Held(m) + v.short <= Earned(invested[m])
  PROVE  DrawIInv'
<1> USE DEF DrawIInv
<1>1. clerk'[c] = v /\ \A d \in Clerks \ {c} : clerk'[d] = clerk[d]
  BY DEF DrawTypes
<1>2. DrawTypes'
  BY <1>1 DEF DrawTypes
<1>3. PrizesApart' /\ DraftIsEmpty'
  BY <1>1 DEF PrizesApart, DraftIsEmpty
<1>4. InTurnIInv'
  <2> SUFFICES ASSUME ~drawScene.together
               PROVE  OneCall' /\ CallsAreCurrent' /\ TicketsAreAnnounced' /\ PrizesAreDrawn' /\ WinnersAreThose'
    BY DEF InTurnIInv
  <2>1. OneCall'
    BY <1>1 DEF InTurnIInv, OneCall
  <2>2. CallsAreCurrent'
    BY <1>1 DEF InTurnIInv, CallsAreCurrent
  <2>3. TicketsAreAnnounced' /\ PrizesAreDrawn'
    BY DEF InTurnIInv, TicketsAreAnnounced, PrizesAreDrawn
  <2>4. WinnersAreThose'
    BY <1>1 DEF InTurnIInv, WinnersAreThose, Sealed
  <2> QED
    BY <2>1, <2>2, <2>3, <2>4
<1>5. NoneTooMany'
  <2>1. \A o : D!Held(o)' = D!Held(o)
    BY DEF D!Held
  <2>2. \A u : Earned(u)' = Earned(u)
    BY DEF Earned
  <2> QED
    BY <1>1, <2>1, <2>2 DEF NoneTooMany
<1> QED
  BY <1>2, <1>3, <1>4, <1>5

\* What a call may be while it is under way.
LEMMA ClerkTypes ==
  ASSUME DrawTypes, NEW c \in Clerks
  PROVE  /\ clerk[c] \in ClerkCalls
         /\ [pc |-> "idle", drawn |-> 0, list |-> <<>>, todo |-> {}, short |-> 0] \in ClerkCalls
         /\ \A pc \in {"edit", "open", "close"} : [clerk[c] EXCEPT !.pc = pc] \in ClerkCalls
         /\ \A m : D!NextMember(c, m) \in ClerkCalls /\ D!NextMember(c, m).pc \in {"idle", "backfill"}
<1>1. clerk[c] \in ClerkCalls
  BY DEF DrawTypes
<1>2. [pc |-> "idle", drawn |-> 0, list |-> <<>>, todo |-> {}, short |-> 0] \in ClerkCalls
  BY DEF ClerkCalls
<1>3. \A pc \in {"edit", "open", "close"} : [clerk[c] EXCEPT !.pc = pc] \in ClerkCalls
  BY <1>1 DEF ClerkCalls
<1>4. \A m : D!NextMember(c, m) \in ClerkCalls /\ D!NextMember(c, m).pc \in {"idle", "backfill"}
  <2> SUFFICES ASSUME NEW m PROVE D!NextMember(c, m) \in ClerkCalls /\ D!NextMember(c, m).pc \in {"idle", "backfill"}
    OBVIOUS
  <2>1. PICK left : left = clerk[c].todo \ {m}
    OBVIOUS
  <2>2. left \subseteq Members
    BY <1>1, <2>1 DEF ClerkCalls
  <2>3. PICK none : none = [pc |-> "idle", drawn |-> 0, list |-> <<>>, todo |-> {}, short |-> 0]
    OBVIOUS
  <2>4. none \in ClerkCalls /\ none.pc = "idle"
    BY <1>2, <2>3
  <2>5. D!NextMember(c, m) = IF left = {} THEN none ELSE [none EXCEPT !.pc = "backfill", !.todo = left]
    BY <2>1, <2>3 DEF D!NextMember
  <2>6. /\ [none EXCEPT !.pc = "backfill", !.todo = left] \in ClerkCalls
        /\ [none EXCEPT !.pc = "backfill", !.todo = left].pc = "backfill"
    BY <2>2, <2>4 DEF ClerkCalls
  <2> QED
    BY <2>4, <2>5, <2>6
<1> QED
  BY <1>1, <1>2, <1>3, <1>4

\* A call that starts has read the status; and nobody else is at work, where
\* operators take turns.
LEMMA StartsOfDraw ==
  ASSUME DrawIInv, NEW c \in Clerks, D!StartEdit(c) \/ D!StartOpen(c) \/ D!StartClose(c)
  PROVE  DrawIInv'
<1> USE DEF DrawIInv
<1>1. PICK pc \in {"edit", "open", "close"} :
        /\ clerk' = [clerk EXCEPT ![c].pc = pc]
        /\ pc = "close" => draw.status = "OPEN"
        /\ pc # "close" => draw.status = "DRAFT"
        /\ pc = "open" /\ drawScene.quiet => \A m \in Members : purchase[m].pc = "idle"
  BY DEF D!StartEdit, D!StartOpen, D!StartClose, D!Buying
<1>2. /\ UNCHANGED <<drawScene, draw, tickets, prize, opened, invested, purchase, tap>>
      /\ drawScene.together \/ \A d \in Clerks : clerk[d].pc = "idle"
  BY DEF D!StartEdit, D!StartOpen, D!StartClose, D!MayStart
<1>3. PICK v \in ClerkCalls : v = [clerk[c] EXCEPT !.pc = pc] /\ v.pc = pc
  <2>1. [clerk[c] EXCEPT !.pc = pc] \in ClerkCalls
    BY ClerkTypes
  <2>2. [clerk[c] EXCEPT !.pc = pc].pc = pc
    BY DEF DrawTypes, ClerkCalls
  <2> QED
    BY <2>1, <2>2
<1>4. clerk' = [clerk EXCEPT ![c] = v]
  BY <1>1, <1>3
<1>5. v.pc \notin {"idle", "backfill", "issue", "run"}
  BY <1>1, <1>3
<1>6. ~drawScene.together =>
        /\ \A d \in Clerks \ {c} : clerk[d].pc = "idle"
        /\ v.pc \in {"edit", "open"} => draw.status = "DRAFT"
        /\ v.pc = "close" => draw.status = "OPEN"
  BY <1>1, <1>2, <1>3
<1>7. ~drawScene.together /\ drawScene.quiet =>
        \A m \in Members : purchase[m].pc = "buying" => v.pc \notin {"open", "backfill", "issue"}
  BY <1>1, <1>3, <1>5
<1> HIDE DEF DrawIInv
<1> QED
  BY <1>2, <1>4, <1>5, <1>6, <1>7, ClerkMoves

\* The terms are edited before there are tickets.
LEMMA EditOfDraw ==
  ASSUME DrawIInv, NEW c \in Clerks, D!Edit(c)
  PROVE  DrawIInv'
<1> USE DEF DrawIInv
<1>1. PICK t \in Terms : /\ draw' = [draw EXCEPT !.terms = t, !.edits = @ + 1]
                         /\ prize' = D!NewPrizes(t)
  BY DEF D!Edit
<1>2. /\ clerk[c].pc = "edit"
      /\ clerk' = [clerk EXCEPT ![c] = [pc |-> "idle", drawn |-> 0, list |-> <<>>, todo |-> {}, short |-> 0]]
      /\ UNCHANGED <<drawScene, tickets, opened, invested, purchase, tap>>
  BY DEF D!Edit
<1>3. t \in TermsOf
  BY DrawsAssumption DEF TermsOf
<1>4. clerk'[c].pc = "idle" /\ \A d \in Clerks \ {c} : clerk'[d] = clerk[d]
  BY <1>2 DEF DrawTypes
<1>5. /\ draw' \in DrawRows /\ draw'.status = draw.status /\ draw'.terms = t
  <2>1. /\ draw.status \in {"DRAFT", "OPEN", "CLOSED", "DRAWN"} /\ draw.seed \in Nat /\ draw.edits \in Nat
        /\ draw' = [status |-> draw.status, seed |-> draw.seed, terms |-> t, edits |-> draw.edits + 1]
    BY <1>1 DEF DrawTypes, DrawRows
  <2> QED
    BY <1>3, <2>1 DEF DrawRows
<1>6. /\ prize' \in [1..t.prizes -> Prizes]
      /\ \A p \in DOMAIN prize' : prize'[p] = [winner |-> 0, claimed |-> FALSE, to |-> <<>>]
  BY <1>1 DEF D!NewPrizes, Prizes
<1>7. DrawTypes'
  <2>1. clerk' \in [Clerks -> ClerkCalls]
    BY <1>2, ClerkTypes DEF DrawTypes
  <2>2. Len(tickets) \in Nat
    BY DEF DrawTypes
  <2> QED
    BY <1>2, <1>4, <1>5, <1>6, <2>1, <2>2 DEF DrawTypes
<1>8. PrizesApart' /\ DraftIsEmpty'
  BY <1>2, <1>4, <1>5, <1>6 DEF PrizesApart, DraftIsEmpty
<1>9. ~drawScene.together =>
        /\ draw.status = "DRAFT" /\ tickets = <<>> /\ \A m \in Members : purchase[m].tickets = 0
        /\ \A d \in Clerks : clerk'[d].pc = "idle"
  BY <1>2, <1>4 DEF InTurnIInv, CallsAreCurrent, OneCall, DraftIsEmpty
<1>10. InTurnIInv'
  BY <1>2, <1>5, <1>6, <1>9 DEF InTurnIInv, OneCall, CallsAreCurrent, TicketsAreAnnounced, PrizesAreDrawn,
                                WinnersAreThose, Sealed
<1>11. NoneTooMany'
  <2> SUFFICES ASSUME ~drawScene.together, NEW m \in Members
               PROVE  D!Held(m)' = 0 /\ Earned(invested[m])' \in Nat /\ Earned(invested[m] + 1)' \in Nat
    BY <1>2, <1>9 DEF NoneTooMany
  <2>1. D!Held(m)' = 0
    <3>1. D!Held(m)' = D!Held(m)
      BY <1>2 DEF D!Held
    <3> QED
      BY <1>9, <3>1, HeldIsCounted
  <2>2. \A u : Earned(u)' = D!Min({u \div t.threshold, MaxTickets})
    BY <1>5 DEF Earned
  <2>3. t.threshold \in Nat \ {0} /\ invested[m] \in Nat /\ invested[m] + 1 \in Nat
    BY <1>3 DEF TermsOf, DrawTypes
  <2>4. \A u \in Nat : D!Min({u \div t.threshold, MaxTickets}) \in Nat
    BY <2>3, EarnedGrows
  <2>5. invested' = invested
    BY <1>2
  <2> QED
    BY <2>1, <2>2, <2>3, <2>4, <2>5
<1> QED
  BY <1>7, <1>8, <1>10, <1>11

\* The seed is fixed while there is no ticket.
LEMMA OpenOfDraw ==
  ASSUME DrawIInv, NEW c \in Clerks, D!Open(c)
  PROVE  DrawIInv'
<1> USE DEF DrawIInv
<1>1. PICK v \in ClerkCalls : clerk' = [clerk EXCEPT ![c] = v] /\ v.pc \in {"idle", "backfill"}
  <2>1. PICK none, all : /\ all = {m \in Members : invested[m] > 0}
                         /\ none = [pc |-> "idle", drawn |-> 0, list |-> <<>>, todo |-> {}, short |-> 0]
    OBVIOUS
  <2>2. clerk' = [clerk EXCEPT ![c] = IF all = {} THEN none ELSE [none EXCEPT !.pc = "backfill", !.todo = all]]
    BY <2>1 DEF D!Open
  <2>3. all \subseteq Members
    BY <2>1
  <2>4. none \in ClerkCalls /\ none.pc = "idle"
    BY <2>1, ClerkTypes
  <2>5. /\ [none EXCEPT !.pc = "backfill", !.todo = all] \in ClerkCalls
        /\ [none EXCEPT !.pc = "backfill", !.todo = all].pc = "backfill"
    BY <2>3, <2>4 DEF ClerkCalls
  <2> QED
    BY <2>2, <2>4, <2>5
<1>2. /\ clerk[c].pc = "open" /\ opened' = opened + 1
      /\ draw' = [draw EXCEPT !.status = "OPEN", !.seed = opened + 1]
      /\ UNCHANGED <<drawScene, tickets, prize, invested, purchase, tap>>
  BY DEF D!Open
<1>3. v \in ClerkCalls /\ v.pc \in {"idle", "backfill"}
  BY <1>1
<1>4. clerk'[c] = v /\ \A d \in Clerks \ {c} : clerk'[d] = clerk[d]
  BY <1>1 DEF DrawTypes
<1>5. draw' \in DrawRows /\ draw'.status = "OPEN" /\ draw'.terms = draw.terms /\ opened' \in Nat
  <2>1. /\ draw.terms \in TermsOf /\ draw.edits \in Nat /\ opened \in Nat
        /\ draw' = [status |-> "OPEN", seed |-> opened + 1, terms |-> draw.terms, edits |-> draw.edits]
    BY <1>2 DEF DrawTypes, DrawRows
  <2> QED
    BY <1>2, <2>1 DEF DrawRows
<1>6. DrawTypes'
  <2>1. clerk' \in [Clerks -> ClerkCalls]
    BY <1>1, <1>3 DEF DrawTypes
  <2> QED
    BY <1>2, <1>3, <1>4, <1>5, <2>1 DEF DrawTypes
<1>7. PrizesApart' /\ DraftIsEmpty'
  BY <1>2, <1>5 DEF PrizesApart, DraftIsEmpty
<1>8. ~drawScene.together =>
        draw.status = "DRAFT" /\ tickets = <<>> /\ \A d \in Clerks \ {c} : clerk'[d].pc = "idle"
  BY <1>2, <1>4 DEF InTurnIInv, CallsAreCurrent, OneCall, DraftIsEmpty
<1>9. InTurnIInv'
  BY <1>2, <1>3, <1>4, <1>5, <1>8 DEF InTurnIInv, OneCall, CallsAreCurrent, TicketsAreAnnounced, PrizesAreDrawn,
                                      WinnersAreThose, Sealed
<1>10. NoneTooMany'
  <2>1. \A o : D!Held(o)' = D!Held(o)
    BY <1>2 DEF D!Held
  <2>2. \A u : Earned(u)' = Earned(u)
    BY <1>5 DEF Earned
  <2> QED
    BY <1>2, <1>3, <1>4, <2>1, <2>2 DEF NoneTooMany
<1> QED
  BY <1>6, <1>7, <1>9, <1>10

\* What is missing is counted: while the draw is opened, nobody buys.
LEMMA BackfillOfDraw ==
  ASSUME DrawIInv, NEW c \in Clerks, D!Backfill(c)
  PROVE  DrawIInv'
<1> USE DEF DrawIInv
<1> DEFINE none == [pc |-> "idle", drawn |-> 0, list |-> <<>>, todo |-> {}, short |-> 0]
           Missing(m, n) == [none EXCEPT !.pc = "issue", !.todo = clerk[c].todo, !.short = n, !.list = <<m>>]
<1>1. PICK m \in clerk[c].todo :
        clerk' = [clerk EXCEPT ![c] = IF D!Shortfall(m, invested[m]) = 0 THEN D!NextMember(c, m)
                                      ELSE Missing(m, D!Shortfall(m, invested[m]))]
  BY DEF D!Backfill
<1> HIDE DEF Missing
<1>2. /\ clerk[c].pc = "backfill"
      /\ UNCHANGED <<drawScene, draw, tickets, prize, opened, invested, purchase, tap>>
  BY DEF D!Backfill
<1>3. clerk[c].todo \subseteq Members /\ m \in Members /\ invested[m] \in Nat
  BY <1>1 DEF DrawTypes, ClerkCalls
<1>4. PICK n \in Nat : n = D!Shortfall(m, invested[m])
  BY <1>3, ShortfallIsMissing
<1>5. ~drawScene.together => draw.status = "OPEN" /\ \A d \in Clerks \ {c} : clerk[d].pc = "idle"
  BY <1>2 DEF InTurnIInv, CallsAreCurrent, OneCall
<1>6. /\ draw.status # "DRAFT"
      /\ ~drawScene.together /\ drawScene.quiet => \A o \in Members : purchase[o].pc # "buying"
  BY <1>2 DEF NoneTooMany, DraftIsEmpty
<1>7. CASE n = 0
  <2>1. PICK v \in ClerkCalls : v = D!NextMember(c, m) /\ v.pc \in {"idle", "backfill"}
    BY ClerkTypes
  <2>2. clerk' = [clerk EXCEPT ![c] = v]
    BY <1>1, <1>4, <1>7, <2>1
  <2> QED
    BY <1>2, <1>5, <1>6, <2>1, <2>2, ClerkMoves
<1>8. CASE n # 0
  <2>1. PICK v : v = Missing(m, n)
    OBVIOUS
  <2>2. clerk' = [clerk EXCEPT ![c] = v]
    BY <1>1, <1>4, <1>8, <2>1
  <2>3. none \in ClerkCalls
    BY ClerkTypes
  <2>4. <<m>> \in Seq(Members) /\ Len(<<m>>) = 1 /\ <<m>>[1] = m
    BY <1>3
  <2>5. v \in ClerkCalls /\ v.pc = "issue" /\ v.list = <<m>> /\ v.short = n
    <3> HIDE DEF none
    <3> QED
      BY <1>3, <2>1, <2>3, <2>4 DEF ClerkCalls, Missing
  <2>6. ~drawScene.together /\ drawScene.quiet => D!Held(m) + n <= Earned(invested[m])
    BY <1>3, <1>4, ShortfallIsMissing DEF NoneTooMany
  <2>7. n > 0
    BY <1>8
  <2> QED
    BY <1>2, <1>5, <1>6, <2>2, <2>4, <2>5, <2>6, <2>7, ClerkMoves
<1> QED
  BY <1>7, <1>8

\* One ticket is issued, or its number is taken and it is passed over.
LEMMA IssueOneOfDraw ==
  ASSUME DrawIInv, NEW c \in Clerks, D!IssueOne(c)
  PROVE  DrawIInv'
<1> USE DEF DrawIInv
<1>1. PICK m : m = clerk[c].list[1]
  OBVIOUS
<1>2. PICK v : v = IF clerk[c].short = 1 THEN D!NextMember(c, m) ELSE [clerk[c] EXCEPT !.short = @ - 1]
  OBVIOUS
<1>3. /\ clerk[c].pc = "issue" /\ clerk' = [clerk EXCEPT ![c] = v]
      /\ tickets' \in {D!Issue(m, 1), tickets} /\ draw.status # "DRAFT"
      /\ UNCHANGED <<drawScene, draw, prize, opened, invested, purchase, tap>>
  <2>1. clerk' = [clerk EXCEPT ![c] = v]
    BY <1>1, <1>2 DEF D!IssueOne
  <2> QED
    BY <1>1, <2>1 DEF D!IssueOne, DraftIsEmpty
<1>4. clerk[c].list \in Seq(Members) /\ Len(clerk[c].list) = 1 /\ m \in Members
  BY <1>1, <1>3 DEF DrawTypes
<1>5. PICK s \in Nat : s = clerk[c].short /\ s > 0
  BY <1>3 DEF DrawTypes, ClerkCalls
<1>6. /\ v \in ClerkCalls
      /\ \/ v.pc \in {"idle", "backfill"}
         \/ v.pc = "issue" /\ v.list = clerk[c].list /\ v.short = s - 1 /\ s - 1 > 0
  <2>1. CASE s = 1
    BY <1>2, <1>5, <2>1, ClerkTypes
  <2>2. CASE s # 1
    <3>1. v = [clerk[c] EXCEPT !.short = s - 1] /\ clerk[c] \in ClerkCalls
      BY <1>2, <1>5, <2>2, ClerkTypes
    <3>2. s - 1 \in Nat /\ s - 1 > 0
      BY <1>5, <2>2
    <3> QED
      BY <1>3, <3>1, <3>2 DEF ClerkCalls
  <2> QED
    BY <2>1, <2>2
<1>7. ~drawScene.together => draw.status = "OPEN" /\ \A d \in Clerks \ {c} : clerk[d].pc = "idle"
  BY <1>3 DEF InTurnIInv, CallsAreCurrent, OneCall
<1>8. ~drawScene.together /\ drawScene.quiet => \A o \in Members : purchase[o].pc # "buying"
  BY <1>3 DEF NoneTooMany
<1>9. ~drawScene.together /\ drawScene.quiet => D!Held(m) + s <= Earned(invested[m])
  BY <1>1, <1>3, <1>4, <1>5 DEF NoneTooMany
<1>10. D!Held(m) \in Nat /\ Earned(invested[m]) \in Nat
  BY <1>4, HeldIsCounted, EarnedIsNatural DEF DrawTypes
<1>11. CASE tickets' = tickets
  <2>1. ~drawScene.together /\ drawScene.quiet /\ v.pc = "issue" =>
          v.list[1] = m /\ D!Held(m) + v.short <= Earned(invested[m])
    BY <1>1, <1>5, <1>6, <1>9, <1>10
  <2> QED
    BY <1>3, <1>4, <1>6, <1>7, <1>8, <1>11, <2>1, ClerkMoves
<1>12. CASE tickets' = D!Issue(m, 1)
  <2>1. PICK l \in Nat : l = Len(tickets)
    BY DEF DrawTypes
  <2>2. /\ tickets' \in Seq(Tickets) /\ Len(tickets') = l + 1
        /\ \A i \in 1..l : tickets'[i] = tickets[i]
        /\ tickets'[l + 1] = [of |-> m, under |-> [seed |-> draw.seed, terms |-> draw.terms]]
    BY <1>4, <1>12, <2>1, IssuedTickets
  <2>3. DOMAIN tickets = 1..l /\ DOMAIN tickets' = 1..(l + 1)
    BY <2>1, <2>2 DEF DrawTypes
  <2>4. clerk'[c] = v /\ \A d \in Clerks \ {c} : clerk'[d] = clerk[d]
    BY <1>3 DEF DrawTypes
  <2>5. DrawTypes'
    <3>1. clerk' \in [Clerks -> ClerkCalls]
      BY <1>3, <1>6 DEF DrawTypes
    <3>2. \A p \in DOMAIN prize : prize[p].winner \in 0..(l + 1)
      BY <2>1 DEF DrawTypes
    <3>3. \A d \in Clerks : clerk'[d].pc = "run" =>
            clerk'[d].drawn \in DrawRows /\ clerk'[d].list \in Seq(Tickets) /\ Len(clerk'[d].list) <= l + 1
      BY <1>6, <2>1, <2>4 DEF DrawTypes
    <3>4. \A d \in Clerks : clerk'[d].pc = "issue" =>
            clerk'[d].list \in Seq(Members) /\ Len(clerk'[d].list) = 1 /\ clerk'[d].short > 0
      BY <1>4, <1>6, <2>4 DEF DrawTypes
    <3> QED
      BY <1>3, <2>2, <3>1, <3>2, <3>3, <3>4 DEF DrawTypes
  <2>7. PrizesApart'
    BY <1>3 DEF PrizesApart
  <2>8. DraftIsEmpty'
    BY <1>3 DEF DraftIsEmpty
  <2>9. InTurnIInv'
    <3> SUFFICES ASSUME ~drawScene.together
                 PROVE  OneCall' /\ CallsAreCurrent' /\ TicketsAreAnnounced' /\ PrizesAreDrawn' /\ WinnersAreThose'
      BY <1>3 DEF InTurnIInv
    <3>1. OneCall' /\ CallsAreCurrent'
      BY <1>3, <1>6, <1>7, <2>4 DEF OneCall, CallsAreCurrent
    <3>2. TicketsAreAnnounced'
      BY <1>3, <2>2, <2>3 DEF InTurnIInv, TicketsAreAnnounced
    <3>3. PrizesAreDrawn'
      BY <1>3, <1>7 DEF InTurnIInv, PrizesAreDrawn
    <3>4. WinnersAreThose'
      BY <1>3, <1>6, <1>7, <2>4 DEF WinnersAreThose, Sealed
    <3> QED
      BY <3>1, <3>2, <3>3, <3>4
  <2>10. NoneTooMany'
    <3> SUFFICES ASSUME ~drawScene.together, drawScene.quiet, NEW o \in Members
                 PROVE  /\ D!Held(o)' <= Earned(invested[o])
                        /\ \A d \in Clerks : clerk'[d].pc = "issue" /\ clerk'[d].list[1] = o =>
                             D!Held(o)' + clerk'[d].short <= Earned(invested[o])
      BY <1>3, <1>8 DEF NoneTooMany, Earned
    <3>1. D!Held(m)' = D!Held(m) + 1 /\ (o # m => D!Held(o)' = D!Held(o))
      BY <1>4, <1>12, IssuedIsHeld
    <3>2. D!Held(o)' <= Earned(invested[o])
      BY <1>5, <1>9, <1>10, <3>1 DEF NoneTooMany
    <3>3. ASSUME NEW d \in Clerks, clerk'[d].pc = "issue", clerk'[d].list[1] = o
          PROVE  D!Held(o)' + clerk'[d].short <= Earned(invested[o])
      <4>1. d = c
        BY <1>7, <2>4, <3>3
      <4>2. o = m /\ clerk'[d].short = s - 1
        BY <1>1, <1>6, <2>4, <3>3, <4>1
      <4> QED
        BY <1>5, <1>9, <1>10, <3>1, <4>2
    <3> QED
      BY <3>2, <3>3
  <2> QED
    BY <2>5, <2>7, <2>8, <2>9, <2>10
<1> QED
  BY <1>3, <1>11, <1>12

\* A closed draw sells no ticket.
LEMMA CloseOfDraw ==
  ASSUME DrawIInv, NEW c \in Clerks, D!Close(c)
  PROVE  DrawIInv'
<1> USE DEF DrawIInv
<1>1. /\ clerk[c].pc = "close"
      /\ clerk' = [clerk EXCEPT ![c] = [pc |-> "idle", drawn |-> 0, list |-> <<>>, todo |-> {}, short |-> 0]]
      /\ draw' = [draw EXCEPT !.status = "CLOSED"]
      /\ UNCHANGED <<drawScene, tickets, prize, opened, invested, purchase, tap>>
  BY DEF D!Close
<1>2. clerk'[c].pc = "idle" /\ \A d \in Clerks \ {c} : clerk'[d] = clerk[d]
  BY <1>1 DEF DrawTypes
<1>3. /\ draw' \in DrawRows /\ draw'.status = "CLOSED" /\ draw'.terms = draw.terms
      /\ draw'.seed = draw.seed /\ draw'.edits = draw.edits
  BY <1>1 DEF DrawTypes, DrawRows
<1>4. DrawTypes'
  <2>1. clerk' \in [Clerks -> ClerkCalls]
    BY <1>1, ClerkTypes DEF DrawTypes
  <2> QED
    BY <1>1, <1>2, <1>3, <2>1 DEF DrawTypes
<1>5. PrizesApart' /\ DraftIsEmpty'
  BY <1>1, <1>3 DEF PrizesApart, DraftIsEmpty
<1>6. ~drawScene.together => draw.status = "OPEN" /\ \A d \in Clerks : clerk'[d].pc = "idle"
  BY <1>1, <1>2 DEF InTurnIInv, CallsAreCurrent, OneCall
<1>7. InTurnIInv'
  BY <1>1, <1>3, <1>6 DEF InTurnIInv, OneCall, CallsAreCurrent, TicketsAreAnnounced, PrizesAreDrawn,
                          WinnersAreThose, Sealed
<1>8. NoneTooMany'
  <2>1. \A o : D!Held(o)' = D!Held(o)
    BY <1>1 DEF D!Held
  <2>2. \A u : Earned(u)' = Earned(u)
    BY <1>3 DEF Earned
  <2> QED
    BY <1>1, <1>2, <2>1, <2>2 DEF NoneTooMany
<1> QED
  BY <1>4, <1>5, <1>7, <1>8

\* A run begins with what there is.
LEMMA StartRunOfDraw ==
  ASSUME DrawIInv, NEW c \in Clerks, D!StartRun(c)
  PROVE  DrawIInv'
<1> USE DEF DrawIInv
<1>1. /\ draw.status \in {"OPEN", "CLOSED"}
      /\ drawScene.together \/ \A d \in Clerks : clerk[d].pc = "idle"
      /\ drawScene.settled => draw.status = "CLOSED" /\ \A m \in Members : purchase[m].pc = "idle"
      /\ UNCHANGED <<drawScene, draw, tickets, prize, opened, invested, purchase, tap>>
  BY DEF D!StartRun, D!MayStart, D!Buying
<1>2. PICK none : none = [pc |-> "idle", drawn |-> 0, list |-> <<>>, todo |-> {}, short |-> 0]
  OBVIOUS
<1>3. PICK v : v = [none EXCEPT !.pc = "run", !.drawn = draw, !.list = tickets]
  OBVIOUS
<1>4. clerk' = [clerk EXCEPT ![c] = v]
  BY <1>2, <1>3 DEF D!StartRun
<1>5. none \in ClerkCalls
  BY <1>2, ClerkTypes
<1>6. draw \in DrawRows /\ tickets \in Seq(Tickets) /\ Len(tickets) \in Nat
  BY DEF DrawTypes
<1>7. v \in ClerkCalls /\ v.pc = "run" /\ v.drawn = draw /\ v.list = tickets
  BY <1>3, <1>5, <1>6 DEF ClerkCalls
<1>8. drawScene.settled => \A m \in Members : purchase[m].tickets = 0
  BY <1>1 DEF DrawTypes
<1>9. /\ v.pc \notin {"backfill", "issue", "edit", "open", "close", "idle"}
      /\ v.drawn \in DrawRows /\ v.list \in Seq(Tickets)
      /\ Len(v.list) <= Len(tickets) /\ Len(v.list) = Len(tickets)
  BY <1>6, <1>7
<1>10. ~drawScene.together => \A d \in Clerks \ {c} : clerk[d].pc = "idle"
  BY <1>1
<1> HIDE DEF DrawIInv
<1> QED
  BY <1>1, <1>4, <1>7, <1>8, <1>9, <1>10, ClerkMoves

\* Tickets of a list of n, each once, as far as there are prizes.
AreWinners(won, d, n) ==
  /\ DOMAIN won = {p \in 1..d.terms.prizes : p <= n}
  /\ \A p \in DOMAIN won : won[p] \in 1..n /\ won[p] = D!Shuffle(n, d.seed)[p]
  /\ \A p, q \in DOMAIN won : won[p] = won[q] => p = q

\* The winners of a run are such, whatever the hash.
LEMMA WinnersAreTickets ==
  ASSUME NEW d \in DrawRows, NEW list, Len(list) \in Nat
  PROVE  AreWinners(D!Winners(d, list), d, Len(list))
<1>1. PICK won, n : won = D!Winners(d, list) /\ n = Len(list) /\ n \in Nat
  OBVIOUS
<1>2. PICK k \in Nat : k = d.terms.prizes
  BY DEF DrawRows, TermsOf
<1>3. PICK order : order = D!Shuffle(n, d.seed)
  OBVIOUS
<1>4. n # 0 => Permutes(order, n)
  BY <1>1, <1>3, ShufflePermutes
<1>5. D!Min({k, n}) = IF k <= n THEN k ELSE n
  BY <1>1, MinOfTwo
<1>6. won = [p \in 1..(IF k <= n THEN k ELSE n) |-> order[p]]
  BY <1>1, <1>2, <1>3, <1>5 DEF D!Winners
<1>7. /\ DOMAIN won = {p \in 1..k : p <= n}
      /\ \A p \in DOMAIN won : p \in 1..n /\ n # 0 /\ won[p] = order[p]
  BY <1>1, <1>6
<1>8. AreWinners(won, d, n)
  BY <1>1, <1>2, <1>3, <1>4, <1>7 DEF Permutes, AreWinners
<1> QED
  BY <1>1, <1>8

\* The winners are written for a draw that was not edited since, or not at all.
LEMMA RunOfDraw ==
  ASSUME DrawIInv, NEW c \in Clerks, D!Run(c)
  PROVE  DrawIInv'
<1> USE DEF DrawIInv
<1>1. PICK won, n, d, list : /\ d = clerk[c].drawn /\ list = clerk[c].list
                             /\ won = D!Winners(d, list) /\ n = Len(list)
  OBVIOUS
<1>2. /\ clerk[c].pc = "run"
      /\ clerk' = [clerk EXCEPT ![c] = [pc |-> "idle", drawn |-> 0, list |-> <<>>, todo |-> {}, short |-> 0]]
      /\ UNCHANGED <<drawScene, tickets, opened, invested, purchase, tap>>
  BY DEF D!Run
<1>3. /\ \/ UNCHANGED <<prize, draw>>
         \/ /\ \A p \in DOMAIN won, q \in DOMAIN prize : q > p => prize[q].winner # won[p]
            /\ prize' = [p \in DOMAIN prize |-> IF p \in DOMAIN won THEN [prize[p] EXCEPT !.winner = won[p]]
                                                ELSE prize[p]]
            /\ draw' = [draw EXCEPT !.status = "DRAWN"]
  BY <1>1 DEF D!Run
<1>4. CASE UNCHANGED <<prize, draw>>
  <2>1. PICK v \in ClerkCalls : v = [pc |-> "idle", drawn |-> 0, list |-> <<>>, todo |-> {}, short |-> 0]
    BY ClerkTypes
  <2>2. v.pc = "idle"
    BY <2>1
  <2> QED
    BY <1>2, <1>4, <2>1, <2>2, ClerkMoves
<1>5. CASE /\ \A p \in DOMAIN won, q \in DOMAIN prize : q > p => prize[q].winner # won[p]
           /\ prize' = [p \in DOMAIN prize |-> IF p \in DOMAIN won THEN [prize[p] EXCEPT !.winner = won[p]]
                                               ELSE prize[p]]
           /\ draw' = [draw EXCEPT !.status = "DRAWN"]
  <2>1. PICK l, k \in Nat : l = Len(tickets) /\ k = draw.terms.prizes
    BY DEF DrawTypes, DrawRows, TermsOf
  <2>2. d \in DrawRows /\ list \in Seq(Tickets) /\ n \in Nat /\ n <= l
    BY <1>1, <1>2, <2>1 DEF DrawTypes
  <2>3. /\ DOMAIN won = {p \in 1..d.terms.prizes : p <= n}
        /\ \A p \in DOMAIN won : won[p] \in 1..n /\ won[p] = D!Shuffle(n, d.seed)[p]
        /\ \A p, q \in DOMAIN won : won[p] = won[q] => p = q
    <3>1. AreWinners(won, d, n)
      BY <1>1, <2>2, WinnersAreTickets
    <3> QED
      BY <3>1 DEF AreWinners
  <2>4. d.terms.prizes \in Nat
    BY <2>2 DEF DrawRows, TermsOf
  <2>5. prize \in [1..k -> Prizes] /\ DOMAIN prize = 1..k
    BY <2>1 DEF DrawTypes
  <2>6. /\ DOMAIN prize' = 1..k
        /\ \A p \in 1..k : /\ prize'[p] \in Prizes
                           /\ prize'[p].winner = IF p \in DOMAIN won THEN won[p] ELSE prize[p].winner
                           /\ prize'[p].claimed = prize[p].claimed /\ prize'[p].to = prize[p].to
    <3> SUFFICES ASSUME NEW p \in 1..k
                 PROVE  /\ prize'[p] \in Prizes
                        /\ prize'[p].winner = IF p \in DOMAIN won THEN won[p] ELSE prize[p].winner
                        /\ prize'[p].claimed = prize[p].claimed /\ prize'[p].to = prize[p].to
      BY <1>5, <2>5
    <3>1. prize[p] \in Prizes
      BY <2>5
    <3>2. CASE p \in DOMAIN won
      <4>1. won[p] \in Nat /\ prize'[p] = [prize[p] EXCEPT !.winner = won[p]]
        BY <1>5, <2>2, <2>3, <2>5, <3>2
      <4> QED
        BY <3>1, <3>2, <4>1 DEF Prizes
    <3>3. CASE p \notin DOMAIN won
      BY <1>5, <2>5, <3>1, <3>3
    <3> QED
      BY <3>2, <3>3
  <2>7. /\ draw' \in DrawRows /\ draw'.status = "DRAWN" /\ draw'.terms = draw.terms
        /\ draw'.seed = draw.seed /\ draw'.edits = draw.edits
    BY <1>5 DEF DrawTypes, DrawRows
  <2>8. clerk'[c].pc = "idle" /\ \A e \in Clerks \ {c} : clerk'[e] = clerk[e]
    BY <1>2 DEF DrawTypes
  <2>9. DrawTypes'
    <3>1. clerk' \in [Clerks -> ClerkCalls]
      BY <1>2, ClerkTypes DEF DrawTypes
    <3>2. prize' \in [1..k -> Prizes]
      BY <1>5, <2>5, <2>6
    <3>3. \A p \in 1..k : prize'[p].winner \in 0..l
      <4>1. \A p \in 1..k : prize[p].winner \in 0..l
        BY <2>1, <2>5 DEF DrawTypes
      <4>2. \A p \in DOMAIN won : won[p] \in 0..l
        BY <2>1, <2>2, <2>3
      <4> QED
        BY <2>6, <4>1, <4>2
    <3> QED
      BY <1>2, <2>1, <2>6, <2>7, <2>8, <3>1, <3>2, <3>3 DEF DrawTypes
  <2>10. PrizesApart'
    <3>1. ASSUME NEW p \in 1..k, NEW q \in 1..k, p < q, prize'[p].winner = prize'[q].winner
          PROVE  prize'[p].winner = 0
      <4>1. CASE p \in DOMAIN won /\ q \in DOMAIN won
        BY <2>3, <2>6, <3>1, <4>1
      <4>2. CASE p \in DOMAIN won /\ q \notin DOMAIN won
        <5>1. prize[q].winner # won[p]
          BY <1>5, <2>5, <3>1, <4>2
        <5>2. prize'[p].winner = won[p] /\ prize'[q].winner = prize[q].winner
          BY <2>6, <4>2
        <5> QED
          BY <3>1, <5>1, <5>2
      <4>3. CASE p \notin DOMAIN won
        <5>1. q \notin DOMAIN won
          <6>1. q \in 1..d.terms.prizes /\ q <= n => p \in 1..d.terms.prizes /\ p <= n
            BY <2>2, <2>4, <3>1
          <6> QED
            BY <2>3, <4>3, <6>1
        <5> QED
          BY <2>5, <2>6, <3>1, <4>3, <5>1 DEF PrizesApart
      <4> QED
        BY <4>1, <4>2, <4>3
    <3> QED
      BY <2>5, <2>6, <3>1 DEF PrizesApart
  <2>11. DraftIsEmpty'
    BY <2>7 DEF DraftIsEmpty
  <2>12. InTurnIInv'
    <3> SUFFICES ASSUME ~drawScene.together
                 PROVE  OneCall' /\ CallsAreCurrent' /\ TicketsAreAnnounced' /\ PrizesAreDrawn' /\ WinnersAreThose'
      BY <1>2 DEF InTurnIInv
    <3>1. /\ draw.status \in {"OPEN", "CLOSED"} /\ d = draw
          /\ drawScene.settled => n = l /\ \A m \in Members : purchase[m].tickets = 0
      BY <1>1, <1>2, <2>1 DEF InTurnIInv, CallsAreCurrent, WinnersAreThose, Sealed
    <3>2. \A e \in Clerks : clerk'[e].pc = "idle"
      BY <1>2, <2>8 DEF InTurnIInv, OneCall
    <3>3. OneCall' /\ CallsAreCurrent'
      BY <3>2 DEF OneCall, CallsAreCurrent
    <3>4. TicketsAreAnnounced'
      BY <1>2, <2>7 DEF InTurnIInv, TicketsAreAnnounced
    <3>5. /\ \A p \in 1..k : prize[p].winner = 0 /\ ~prize[p].claimed
          /\ \A t \in Claims : tap[t].pc # "claim"
      BY <2>5, <3>1 DEF InTurnIInv, PrizesAreDrawn
    <3>6. PrizesAreDrawn'
      BY <1>2, <2>6, <2>7, <3>5 DEF PrizesAreDrawn
    <3>7. WinnersAreThose'
      <4> SUFFICES ASSUME drawScene.settled, NEW p \in 1..k
                   PROVE  prize'[p].winner = IF p \in 1..l THEN D!Shuffle(l, draw.seed)[p] ELSE 0
        BY <1>2, <2>1, <2>6, <2>7, <3>1 DEF WinnersAreThose
      <4>1. p \in DOMAIN won <=> p \in 1..l
        BY <2>1, <2>3, <3>1
      <4> QED
        BY <2>3, <2>6, <3>1, <3>5, <4>1
    <3> QED
      BY <3>3, <3>4, <3>6, <3>7
  <2>13. NoneTooMany'
    <3>1. \A o : D!Held(o)' = D!Held(o)
      BY <1>2 DEF D!Held
    <3>2. \A u : Earned(u)' = Earned(u)
      BY <2>7 DEF Earned
    <3> QED
      BY <1>2, <2>8, <3>1, <3>2 DEF NoneTooMany
  <2> QED
    BY <2>9, <2>10, <2>11, <2>12, <2>13
<1> QED
  BY <1>3, <1>4, <1>5

-----------------------------------------------------------------------------
(* The draw: winners *)

\* A claim reads the prize of a draw that is drawn.
LEMMA StartClaimOfDraw ==
  ASSUME DrawIInv, NEW t \in Claims, NEW p \in DOMAIN prize, D!StartClaim(t, p)
  PROVE  DrawIInv'
<1> USE DEF DrawIInv
<1>1. /\ draw.status = "DRAWN" /\ prize[p].winner # 0
      /\ tap' = [tap EXCEPT ![t] = [pc |-> "claim", prize |-> p, edits |-> draw.edits,
                                   by |-> tickets[prize[p].winner].of]]
      /\ UNCHANGED <<drawScene, draw, tickets, prize, opened, invested, purchase, clerk>>
  BY DEF D!StartClaim
<1>2. p \in Nat /\ draw.edits \in Nat /\ tickets[prize[p].winner].of \in Members
  <2>1. p \in Nat /\ draw.edits \in Nat
    BY DEF DrawTypes, DrawRows
  <2>2. tickets \in Seq(Tickets) /\ prize[p].winner \in 1..Len(tickets)
    BY <1>1 DEF DrawTypes
  <2>3. tickets[prize[p].winner] \in Tickets
    BY <2>2
  <2> QED
    BY <2>1, <2>3 DEF Tickets
<1>3. /\ tap'[t] = [pc |-> "claim", prize |-> p, edits |-> draw.edits, by |-> tickets[prize[p].winner].of]
      /\ \A s \in Claims \ {t} : tap'[s] = tap[s]
  BY <1>1 DEF DrawTypes
<1>4. DrawTypes'
  <2>1. tap' \in [Claims -> Taps]
    BY <1>1, <1>2 DEF DrawTypes, Taps
  <2> QED
    BY <1>1, <1>2, <1>3, <2>1 DEF DrawTypes
<1>5. PrizesApart' /\ DraftIsEmpty'
  BY <1>1 DEF PrizesApart, DraftIsEmpty
<1>6. InTurnIInv'
  <2>1. ~drawScene.together => PrizesAreDrawn'
    BY <1>1, <1>3 DEF InTurnIInv, PrizesAreDrawn
  <2> QED
    BY <1>1, <2>1 DEF InTurnIInv, OneCall, CallsAreCurrent, TicketsAreAnnounced, WinnersAreThose, Sealed
<1>7. NoneTooMany'
  BY <1>1 DEF NoneTooMany, D!Held, Earned
<1> QED
  BY <1>4, <1>5, <1>6, <1>7

\* A prize is paid if it was not claimed since, to who read it.
LEMMA ClaimOfDraw ==
  ASSUME DrawIInv, NEW t \in Claims, D!Claim(t)
  PROVE  DrawIInv'
<1> USE DEF DrawIInv
<1>1. PICK p, by : p = tap[t].prize /\ by = tap[t].by
  OBVIOUS
<1>2. /\ tap[t].pc = "claim" /\ tap' = [tap EXCEPT ![t] = [pc |-> "idle", prize |-> 0, edits |-> 0, by |-> 0]]
      /\ \/ prize' = prize
         \/ /\ ~prize[p].claimed
            /\ prize' = [prize EXCEPT ![p].claimed = TRUE, ![p].to = Append(@, by)]
      /\ UNCHANGED <<drawScene, draw, tickets, opened, invested, purchase, clerk>>
  BY <1>1 DEF D!Claim
<1>3. by \in Members
  BY <1>1, <1>2 DEF DrawTypes
<1>4. tap'[t].pc = "idle" /\ \A s \in Claims \ {t} : tap'[s] = tap[s]
  BY <1>2 DEF DrawTypes
<1>5. PICK k \in Nat : k = draw.terms.prizes
  BY DEF DrawTypes, DrawRows, TermsOf
<1>6. prize \in [1..k -> Prizes] /\ DOMAIN prize = 1..k
  BY <1>5 DEF DrawTypes
<1>7. /\ prize' \in [1..k -> Prizes]
      /\ \A q \in 1..k :
           /\ prize'[q].winner = prize[q].winner
           /\ \/ prize'[q] = prize[q]
              \/ /\ q = p /\ prize'[q].claimed
                 /\ ~prize[q].claimed /\ prize'[q].to = Append(prize[q].to, by)
  <2>1. CASE prize' = prize
    BY <1>6, <2>1
  <2>2. CASE ~prize[p].claimed /\ prize' = [prize EXCEPT ![p].claimed = TRUE, ![p].to = Append(@, by)]
    <3>1. CASE p \notin 1..k
      BY <1>6, <2>2, <3>1
    <3>2. CASE p \in 1..k
      <4>1. prize[p] \in Prizes
        BY <1>6, <3>2
      <4>2. PICK paid : paid = [prize[p] EXCEPT !.claimed = TRUE, !.to = Append(prize[p].to, by)]
        OBVIOUS
      <4>3. /\ paid \in Prizes /\ paid.winner = prize[p].winner /\ paid.claimed
            /\ paid.to = Append(prize[p].to, by)
        <5>1. prize[p].to \in Seq(Members)
          BY <4>1 DEF Prizes
        <5>2. Append(prize[p].to, by) \in Seq(Members)
          BY <1>3, <5>1
        <5> QED
          BY <4>1, <4>2, <5>2 DEF Prizes
      <4>4. prize' = [prize EXCEPT ![p] = paid]
        BY <1>6, <2>2, <3>2, <4>2
      <4> QED
        BY <1>6, <2>2, <4>3, <4>4
    <3> QED
      BY <3>1, <3>2
  <2> QED
    BY <1>2, <2>1, <2>2
<1>8. DrawTypes'
  <2>1. tap' \in [Claims -> Taps]
    BY <1>2 DEF DrawTypes, Taps
  <2> QED
    BY <1>2, <1>4, <1>5, <1>6, <1>7, <2>1 DEF DrawTypes
<1>9. \A q \in 1..k : ~prize[q].claimed => prize[q].to = <<>>
  BY <1>6 DEF PrizesApart
<1>10. \A q \in 1..k : prize'[q] = prize[q] \/ (prize'[q].claimed /\ q = p /\ prize'[q].to = <<by>>)
  <2>1. Append(<<>>, by) = <<by>>
    OBVIOUS
  <2> QED
    BY <1>7, <1>9, <2>1
<1>11. DOMAIN prize' = 1..k
  BY <1>7
<1>12. PrizesApart'
  <2>1. Len(<<by>>) <= 1 /\ <<by>> # <<>>
    OBVIOUS
  <2>2. ASSUME NEW q \in 1..k
        PROVE  Len(prize'[q].to) <= 1 /\ (prize'[q].claimed <=> prize'[q].to # <<>>)
    <3>1. Len(prize[q].to) <= 1 /\ (prize[q].claimed <=> prize[q].to # <<>>)
      BY <1>6 DEF PrizesApart
    <3>2. CASE prize'[q] = prize[q]
      BY <3>1, <3>2
    <3>3. CASE prize'[q].claimed /\ q = p /\ prize'[q].to = <<by>>
      BY <2>1, <3>3
    <3> QED
      BY <1>10, <3>2, <3>3
  <2>3. \A q, r \in 1..k : q # r /\ prize'[q].winner = prize'[r].winner => prize'[q].winner = 0
    BY <1>6, <1>7 DEF PrizesApart
  <2> QED
    BY <1>11, <2>2, <2>3 DEF PrizesApart
<1>13. DraftIsEmpty'
  BY <1>2 DEF DraftIsEmpty
<1>14. InTurnIInv'
  <2> SUFFICES ASSUME ~drawScene.together
               PROVE  OneCall' /\ CallsAreCurrent' /\ TicketsAreAnnounced' /\ PrizesAreDrawn' /\ WinnersAreThose'
    BY <1>2 DEF InTurnIInv
  <2>1. OneCall' /\ CallsAreCurrent' /\ TicketsAreAnnounced'
    BY <1>2 DEF InTurnIInv, OneCall, CallsAreCurrent, TicketsAreAnnounced
  <2>2. draw.status = "DRAWN" /\ prize[p].winner # 0 /\ by = tickets[prize[p].winner].of
    BY <1>1, <1>2 DEF InTurnIInv, PrizesAreDrawn
  <2>3. PrizesAreDrawn'
    <3>1. \A q \in 1..k : prize[q].winner = 0 => ~prize[q].claimed
      BY <1>6 DEF InTurnIInv, PrizesAreDrawn
    <3>2. \A q \in 1..k : prize'[q].winner = 0 => ~prize'[q].claimed
      BY <1>7, <1>10, <2>2, <3>1
    <3>3. \A s \in Claims : tap'[s].pc = "claim" =>
            /\ draw.status = "DRAWN" /\ tap'[s].edits = draw.edits /\ tap'[s].prize \in 1..k
            /\ prize'[tap'[s].prize].winner # 0
            /\ tap'[s].by = tickets[prize'[tap'[s].prize].winner].of
      <4> SUFFICES ASSUME NEW s \in Claims, tap'[s].pc = "claim"
                   PROVE  /\ draw.status = "DRAWN" /\ tap'[s].edits = draw.edits /\ tap'[s].prize \in 1..k
                          /\ prize'[tap'[s].prize].winner # 0
                          /\ tap'[s].by = tickets[prize'[tap'[s].prize].winner].of
        OBVIOUS
      <4>1. tap'[s] = tap[s]
        BY <1>4
      <4>2. /\ draw.status = "DRAWN" /\ tap[s].edits = draw.edits /\ tap[s].prize \in 1..k
            /\ prize[tap[s].prize].winner # 0 /\ tap[s].by = tickets[prize[tap[s].prize].winner].of
        BY <1>6, <4>1 DEF InTurnIInv, PrizesAreDrawn
      <4> QED
        BY <1>7, <4>1, <4>2
    <3>4. \A q \in 1..k : prize'[q].claimed => prize'[q].to = <<tickets[prize'[q].winner].of>>
      <4>1. \A q \in 1..k : prize[q].claimed => prize[q].to = <<tickets[prize[q].winner].of>>
        BY <1>6 DEF InTurnIInv, PrizesAreDrawn
      <4> QED
        BY <1>7, <1>10, <2>2, <4>1
    <3> QED
      BY <1>2, <1>11, <2>2, <3>2, <3>3, <3>4 DEF PrizesAreDrawn
  <2>4. WinnersAreThose'
    BY <1>2, <1>6, <1>7, <1>11 DEF InTurnIInv, WinnersAreThose, Sealed
  <2> QED
    BY <2>1, <2>3, <2>4
<1>15. NoneTooMany'
  BY <1>2 DEF NoneTooMany, D!Held, Earned
<1> QED
  BY <1>8, <1>12, <1>13, <1>14, <1>15

-----------------------------------------------------------------------------
(* What a draw promises *)

\* A draft without tickets, that nobody has invested for.
LEMMA DrawInit == D!Init => DrawIInv
<1> SUFFICES ASSUME D!Init PROVE DrawIInv
  OBVIOUS
<1>1. PICK t \in Terms : /\ draw = [status |-> "DRAFT", seed |-> 0, terms |-> t, edits |-> 0]
                         /\ prize = D!NewPrizes(t)
  BY DEF D!Init
<1>2. t \in TermsOf
  BY DrawsAssumption DEF TermsOf
<1>3. /\ drawScene \in DrawScenes /\ tickets = <<>> /\ opened = 0
      /\ invested = [m \in Members |-> 0]
      /\ purchase = [m \in Members |-> [pc |-> "idle", tickets |-> 0]]
      /\ clerk = [c \in Clerks |-> [pc |-> "idle", drawn |-> 0, list |-> <<>>, todo |-> {}, short |-> 0]]
      /\ tap = [k \in Claims |-> [pc |-> "idle", prize |-> 0, edits |-> 0, by |-> 0]]
  BY DEF D!Init
<1>4. draw \in DrawRows /\ draw.status = "DRAFT" /\ draw.terms = t
  BY <1>1, <1>2 DEF DrawRows
<1>5. /\ prize \in [1..t.prizes -> Prizes]
      /\ \A p \in DOMAIN prize : prize[p] = [winner |-> 0, claimed |-> FALSE, to |-> <<>>]
  BY <1>1 DEF D!NewPrizes, Prizes
<1>6. /\ \A m \in Members : purchase[m] = [pc |-> "idle", tickets |-> 0] /\ invested[m] = 0
      /\ \A c \in Clerks : clerk[c].pc = "idle"
      /\ \A k \in Claims : tap[k].pc = "idle"
  BY <1>3
<1>7. DrawTypes
  <2>1. tickets \in Seq(Tickets) /\ Len(tickets) = 0
    BY <1>3
  <2>2. [pc |-> "idle", drawn |-> 0, list |-> <<>>, todo |-> {}, short |-> 0] \in ClerkCalls
    BY DEF ClerkCalls
  <2>3. clerk \in [Clerks -> ClerkCalls]
    BY <1>3, <2>2
  <2>4. tap \in [Claims -> Taps] /\ purchase \in [Members -> Purchases]
    BY <1>3 DEF Taps, Purchases
  <2> QED
    BY <1>3, <1>4, <1>5, <1>6, <2>1, <2>3, <2>4 DEF DrawTypes
<1>8. PrizesApart /\ DraftIsEmpty
  BY <1>3, <1>5, <1>6 DEF PrizesApart, DraftIsEmpty
<1>9. InTurnIInv
  BY <1>3, <1>4, <1>5, <1>6 DEF InTurnIInv, OneCall, CallsAreCurrent, TicketsAreAnnounced, PrizesAreDrawn,
                                WinnersAreThose, Sealed
<1>10. NoneTooMany
  <2>1. \A m \in Members : D!Held(m) = 0 /\ Earned(invested[m]) \in Nat
    BY <1>3, <1>6, <1>7, HeldIsCounted, EarnedIsNatural
  <2> QED
    BY <1>6, <2>1 DEF NoneTooMany
<1> QED
  BY <1>7, <1>8, <1>9, <1>10 DEF DrawIInv

\* Every step of the draw keeps it, and so does a step of something else.
LEMMA DrawStep == DrawIInv /\ [D!Next]_draws => DrawIInv'
<1> SUFFICES ASSUME DrawIInv, [D!Next]_draws PROVE DrawIInv'
  OBVIOUS
<1>1. ASSUME NEW m \in Members, D!Purchase(m) \/ D!PurchaseCommits(m) \/ D!PurchaseFails(m)
      PROVE  DrawIInv'
  BY <1>1, PurchaseOfDraw, PurchaseCommitsOfDraw, PurchaseFailsOfDraw
<1>2. ASSUME NEW c \in Clerks,
             \/ D!StartEdit(c) \/ D!Edit(c) \/ D!StartOpen(c) \/ D!Open(c) \/ D!Backfill(c) \/ D!IssueOne(c)
             \/ D!StartClose(c) \/ D!Close(c) \/ D!StartRun(c) \/ D!Run(c)
      PROVE  DrawIInv'
  BY <1>2, StartsOfDraw, EditOfDraw, OpenOfDraw, BackfillOfDraw, IssueOneOfDraw, CloseOfDraw, StartRunOfDraw,
     RunOfDraw
<1>3. ASSUME NEW t \in Claims, (\E p \in DOMAIN prize : D!StartClaim(t, p)) \/ D!Claim(t)
      PROVE  DrawIInv'
  BY <1>3, StartClaimOfDraw, ClaimOfDraw
<1>4. CASE UNCHANGED draws
  BY <1>4 DEF draws, DrawIInv, DrawTypes, PrizesApart, DraftIsEmpty, InTurnIInv, OneCall, CallsAreCurrent,
              TicketsAreAnnounced, PrizesAreDrawn, WinnersAreThose, Sealed, NoneTooMany, D!Held, Earned
<1> QED
  BY <1>1, <1>2, <1>3, <1>4 DEF D!Next

\* While a draw is played, whatever else there is, what it rests on is there.
LEMMA DrawInvariant == MCSpec => [](part = "draws" => DrawIInv)
<1>1. MCInit => (part = "draws" => DrawIInv)
  BY DrawInit DEF MCInit
<1>2. (part = "draws" => DrawIInv) /\ [MCNext]_<<part, vars, draws, dryRuns>> => (part = "draws" => DrawIInv)'
  <2> SUFFICES ASSUME part = "draws" => DrawIInv, [MCNext]_<<part, vars, draws, dryRuns>>, part' = "draws"
               PROVE  DrawIInv'
    OBVIOUS
  <2>1. part = "draws" /\ [D!Next]_draws
    BY DEF MCNext
  <2> QED
    BY <2>1, DrawStep
<1> QED
  BY <1>1, <1>2, PTL DEF MCSpec

\* "Two taps" do not pay a prize twice, and while operators take turns each goes
\* to the member whose ticket won it, and no ticket wins two (claimPrize, runDraw).
THEOREM PrizeTheorem == MCSpec => []PrizePaidOnce
<1>1. (part = "draws" => DrawIInv) => PrizePaidOnce
  BY DEF PrizePaidOnce, D!PrizePaidOnce, DrawIInv, PrizesApart, InTurnIInv, PrizesAreDrawn
<1> QED
  BY <1>1, DrawInvariant, PTL

\* "The count is derived from their volume" and "the result is verifiable": nobody
\* holds more tickets than were earned, and the winners are those of the seed that
\* every ticket was issued under (issueTickets, openDraw, runDraw).
THEOREM FairTheorem == MCSpec => []DrawIsFair
<1>1. (part = "draws" => DrawIInv) => DrawIsFair
  <2> SUFFICES ASSUME DrawIInv PROVE D!TicketsAreEarned /\ D!ResultIsVerifiable
    BY DEF DrawIsFair
  <2>1. D!TicketsAreEarned
    BY DEF D!TicketsAreEarned, DrawIInv, NoneTooMany, Earned
  <2>2. D!ResultIsVerifiable
    <3>1. PICK n \in Nat : n = Len(tickets)
      BY DEF DrawIInv, DrawTypes
    <3>2. n # 0 => DOMAIN D!Shuffle(n, draw.seed) = 1..n
      BY ShufflePermutes DEF Permutes
    <3>3. n = 0 => DOMAIN D!Shuffle(n, draw.seed) = {}
      BY DEF D!Shuffle
    <3>4. DOMAIN D!Shuffle(n, draw.seed) = 1..n
      BY <3>2, <3>3
    <3> QED
      BY <3>1, <3>4 DEF D!ResultIsVerifiable, DrawIInv, InTurnIInv, TicketsAreAnnounced, WinnersAreThose, Sealed
  <2> QED
    BY <2>1, <2>2
<1> QED
  BY <1>1, DrawInvariant, PTL

HIDE DEF D!In, D!Move, D!Return, D!NoCall, D!NoPurchase, D!NoTap

-----------------------------------------------------------------------------
(* Sums *)

\* An element of a set, the one that sums over it take first.
Pick(s) == CHOOSE x \in s : TRUE

\* g[s] is the sum of f over s, for every part s of S.
Sums(f, S, g) ==
  g = [s \in SUBSET S |-> IF s = {} THEN 0 ELSE f[Pick(s)] + g[s \ {Pick(s)}]]

SumOver(f, S) == (CHOOSE g : Sums(f, S, g))[S]

\* Among some parts of a finite set, one has no other of them as a part.
LEMMA SmallestPart ==
  ASSUME NEW S, IsFiniteSet(S), NEW Bad \in SUBSET SUBSET S, Bad # {}
  PROVE  \E T \in Bad : \A U \in Bad : U \subseteq T => U = T
<1>1. \A T \in Bad : IsFiniteSet(T) /\ T \in FiniteSubsetsOf(S)
  BY FS_Subset DEF FiniteSubsetsOf
<1>2. PICK T \in Bad : \A U \in Bad : <<U, T>> \notin StrictSubsetOrdering(S)
  BY <1>1, FS_StrictSubsetOrderingWellFounded, WFMin
<1>3. \A U \in Bad : U \subseteq T => U = T
  BY <1>1, <1>2 DEF StrictSubsetOrdering, FiniteSubsetsOf
<1> QED
  BY <1>3

\* The element a sum adds first belongs to the set it sums over.
LEMMA PickType ==
  ASSUME NEW s, s # {}
  PROVE  Pick(s) \in s
BY DEF Pick

\* Sums of the same values agree.
LEMMA SumsAgree ==
  ASSUME NEW S, IsFiniteSet(S), NEW A, NEW B, S \subseteq A, S \subseteq B,
         NEW f, NEW e, \A x \in S : f[x] = e[x],
         NEW g, NEW h, Sums(f, A, g), Sums(e, B, h)
  PROVE  g[S] = h[S]
<1> DEFINE Bad == {s \in SUBSET S : g[s] # h[s]}
<1>1. SUFFICES ASSUME Bad # {} PROVE FALSE
  OBVIOUS
<1>2. Bad \in SUBSET SUBSET S
  OBVIOUS
<1> HIDE DEF Bad
<1>3. PICK s \in Bad : \A u \in Bad : u \subseteq s => u = s
  BY <1>1, <1>2, SmallestPart
<1>4. s \subseteq S /\ g[s] # h[s]
  BY DEF Bad
<1>5. /\ g[s] = IF s = {} THEN 0 ELSE f[Pick(s)] + g[s \ {Pick(s)}]
      /\ h[s] = IF s = {} THEN 0 ELSE e[Pick(s)] + h[s \ {Pick(s)}]
  BY <1>4 DEF Sums
<1>6. s # {}
  BY <1>4, <1>5
<1>7. Pick(s) \in s
  BY <1>6, PickType
<1>8. f[Pick(s)] = e[Pick(s)]
  BY <1>4, <1>7
<1>9. s \ {Pick(s)} \notin Bad
  BY <1>3, <1>7
<1>10. g[s \ {Pick(s)}] = h[s \ {Pick(s)}]
  BY <1>4, <1>9 DEF Bad
<1> QED
  BY <1>4, <1>5, <1>8, <1>10

\* Every finite set has its sums.
LEMMA SumsExist ==
  ASSUME NEW S, IsFiniteSet(S), NEW f
  PROVE  \E g : Sums(f, S, g)
<1> DEFINE Bad == {s \in SUBSET S : ~\E g : Sums(f, s, g)}
<1>1. SUFFICES ASSUME Bad # {} PROVE FALSE
  OBVIOUS
<1>2. Bad \in SUBSET SUBSET S
  OBVIOUS
<1>0. \A s \in SUBSET S : s \in Bad <=> ~\E g : Sums(f, s, g)
  OBVIOUS
<1> HIDE DEF Bad
<1>3. PICK T \in Bad : \A u \in Bad : u \subseteq T => u = T
  BY <1>1, <1>2, SmallestPart
<1> DEFINE W(s) == CHOOSE g : Sums(f, s, g)
           h == [u \in SUBSET T |-> IF u = {} THEN 0 ELSE f[Pick(u)] + W(u \ {Pick(u)})[u \ {Pick(u)}]]
<1>4. T \subseteq S /\ IsFiniteSet(T)
  BY <1>2, FS_Subset
<1>5. ASSUME NEW u \in SUBSET T, u # T PROVE Sums(f, u, W(u))
  BY <1>0, <1>3, <1>4, <1>5
<1> HIDE DEF W
<1>6. ASSUME NEW v \in SUBSET T, v # T PROVE h[v] = W(v)[v]
  <2>1. Sums(f, v, W(v))
    BY <1>5, <1>6
  <2>2. W(v)[v] = IF v = {} THEN 0 ELSE f[Pick(v)] + W(v)[v \ {Pick(v)}]
    BY <2>1 DEF Sums
  <2>3. CASE v = {}
    BY <2>2, <2>3
  <2>4. CASE v # {}
    <3> DEFINE w == v \ {Pick(v)}
    <3>1. w \subseteq v /\ w \subseteq w /\ w \in SUBSET T /\ w # T
      BY <1>6, <2>4, PickType
    <3>2. Sums(f, w, W(w)) /\ IsFiniteSet(w)
      BY <1>4, <1>5, <3>1, FS_Subset
    <3>3. W(v)[w] = W(w)[w]
      <4> HIDE DEF w
      <4>1. \A x \in w : f[x] = f[x]
        OBVIOUS
      <4> QED
        BY <2>1, <3>1, <3>2, <4>1, SumsAgree
    <3> QED
      BY <2>2, <2>4, <3>3
  <2> QED
    BY <2>3, <2>4
<1>7. \A u \in SUBSET T : u # {} => u \ {Pick(u)} \in SUBSET T /\ u \ {Pick(u)} # T
  BY PickType
<1>8. h = [u \in SUBSET T |-> IF u = {} THEN 0 ELSE f[Pick(u)] + h[u \ {Pick(u)}]]
  <2>1. \A u \in SUBSET T : u # {} => h[u \ {Pick(u)}] = W(u \ {Pick(u)})[u \ {Pick(u)}]
    BY <1>6, <1>7
  <2> QED
    BY <2>1
<1>9. Sums(f, T, h)
  BY <1>8 DEF Sums
<1> QED
  BY <1>0, <1>3, <1>4, <1>9

\* The sum of nothing, and of one more.
LEMMA SumStep ==
  ASSUME NEW S, IsFiniteSet(S), NEW f
  PROVE  /\ S = {} => SumOver(f, S) = 0
         /\ S # {} => SumOver(f, S) = f[Pick(S)] + SumOver(f, S \ {Pick(S)})
<1> DEFINE G(s) == CHOOSE g : Sums(f, s, g)
<1>1. \A s \in SUBSET S : IsFiniteSet(s) /\ Sums(f, s, G(s))
  BY SumsExist, FS_Subset
<1>2. \A s \in SUBSET S : SumOver(f, s) = G(s)[s]
  BY DEF SumOver
<1> HIDE DEF G
<1>3. G(S)[S] = IF S = {} THEN 0 ELSE f[Pick(S)] + G(S)[S \ {Pick(S)}]
  BY <1>1 DEF Sums
<1>4. ASSUME NEW T, T \subseteq S PROVE G(S)[T] = G(T)[T]
  <2>1. IsFiniteSet(T) /\ Sums(f, T, G(T)) /\ Sums(f, S, G(S))
    BY <1>1, <1>4
  <2>2. \A x \in T : f[x] = f[x]
    OBVIOUS
  <2> QED
    BY <1>4, <2>1, <2>2, SumsAgree
<1> QED
  BY <1>2, <1>3, <1>4

\* Two functions that agree on a set have the same sum over it.
LEMMA SumSame ==
  ASSUME NEW S, IsFiniteSet(S), NEW f, NEW e, \A x \in S : f[x] = e[x]
  PROVE  SumOver(f, S) = SumOver(e, S)
<1> DEFINE g == CHOOSE i : Sums(f, S, i)
           h == CHOOSE i : Sums(e, S, i)
<1>1. Sums(f, S, g) /\ Sums(e, S, h)
  BY SumsExist
<1>2. SumOver(f, S) = g[S] /\ SumOver(e, S) = h[S]
  BY DEF SumOver
<1> HIDE DEF g, h
<1>3. g[S] = h[S]
  BY <1>1, SumsAgree
<1> QED
  BY <1>2, <1>3

\* A sum of integers over a finite set is an integer.
LEMMA SumType ==
  ASSUME NEW S, IsFiniteSet(S), NEW f, \A x \in S : f[x] \in Int
  PROVE  SumOver(f, S) \in Int
<1> DEFINE Bad == {s \in SUBSET S : SumOver(f, s) \notin Int}
<1>1. SUFFICES ASSUME Bad # {} PROVE FALSE
  OBVIOUS
<1>2. Bad \in SUBSET SUBSET S
  OBVIOUS
<1>0. \A s \in SUBSET S : s \in Bad <=> SumOver(f, s) \notin Int
  OBVIOUS
<1> HIDE DEF Bad
<1>3. PICK s \in Bad : \A u \in Bad : u \subseteq s => u = s
  BY <1>1, <1>2, SmallestPart
<1>4. s \subseteq S /\ IsFiniteSet(s) /\ SumOver(f, s) \notin Int
  BY <1>0, <1>2, FS_Subset
<1>5. s # {}
  <2>1. CASE s = {}
    <3>1. SumOver(f, s) = 0
      BY <1>4, <2>1, SumStep
    <3> QED
      BY <1>4, <3>1
  <2> QED
    BY <2>1
<1>6. Pick(s) \in s /\ f[Pick(s)] \in Int
  BY <1>4, <1>5, PickType
<1>7. SumOver(f, s \ {Pick(s)}) \in Int
  BY <1>0, <1>3, <1>4, <1>6
<1>8. SumOver(f, s) = f[Pick(s)] + SumOver(f, s \ {Pick(s)})
  BY <1>4, <1>5, SumStep
<1> QED
  BY <1>4, <1>6, <1>7, <1>8

\* Any element may be added last.
LEMMA SumAdds ==
  ASSUME NEW S, IsFiniteSet(S), NEW f, \A x \in S : f[x] \in Int, NEW x \in S
  PROVE  SumOver(f, S) = f[x] + SumOver(f, S \ {x})
<1> DEFINE Bad == {s \in SUBSET S : \E y \in s : SumOver(f, s) # f[y] + SumOver(f, s \ {y})}
<1>1. SUFFICES ASSUME Bad # {} PROVE FALSE
  OBVIOUS
<1>2. Bad \in SUBSET SUBSET S
  OBVIOUS
<1>0. \A s \in SUBSET S : s \in Bad <=> \E y \in s : SumOver(f, s) # f[y] + SumOver(f, s \ {y})
  OBVIOUS
<1> HIDE DEF Bad
<1>3. PICK s \in Bad : \A u \in Bad : u \subseteq s => u = s
  BY <1>1, <1>2, SmallestPart
<1>4. s \subseteq S /\ IsFiniteSet(s)
  BY <1>2, FS_Subset
<1>5. PICK y \in s : SumOver(f, s) # f[y] + SumOver(f, s \ {y})
  BY <1>0, <1>4
<1> DEFINE p == Pick(s)
<1>6. p \in s /\ SumOver(f, s) = f[p] + SumOver(f, s \ {p})
  BY <1>4, SumStep, PickType
<1> HIDE DEF p
<1>7. p # y
  BY <1>5, <1>6
<1>8. SumOver(f, s \ {p}) = f[y] + SumOver(f, (s \ {p}) \ {y})
  BY <1>0, <1>3, <1>4, <1>6, <1>7
<1>9. SumOver(f, s \ {y}) = f[p] + SumOver(f, (s \ {y}) \ {p})
  BY <1>0, <1>3, <1>4, <1>6, <1>7
<1>10. (s \ {p}) \ {y} = (s \ {y}) \ {p}
  OBVIOUS
<1>11. SumOver(f, (s \ {y}) \ {p}) \in Int /\ f[p] \in Int /\ f[y] \in Int
  <2>1. IsFiniteSet((s \ {y}) \ {p}) /\ \A z \in (s \ {y}) \ {p} : f[z] \in Int
    BY <1>4, FS_Subset
  <2> QED
    BY <1>4, <1>6, <2>1, SumType
<1>12. \A a, b, c \in Int : a + (b + c) = b + (a + c)
  OBVIOUS
<1>13. SumOver(f, s) = f[p] + (f[y] + SumOver(f, (s \ {y}) \ {p}))
  BY <1>6, <1>8, <1>10
<1>14. f[y] + SumOver(f, s \ {y}) = f[y] + (f[p] + SumOver(f, (s \ {y}) \ {p}))
  BY <1>9
<1> QED
  BY <1>5, <1>11, <1>12, <1>13, <1>14

\* A sum of natural numbers over a finite set is a natural number.
LEMMA SumNatural ==
  ASSUME NEW S, IsFiniteSet(S), NEW f, \A x \in S : f[x] \in Nat
  PROVE  SumOver(f, S) \in Nat
<1> DEFINE Bad == {s \in SUBSET S : SumOver(f, s) \notin Nat}
<1>1. SUFFICES ASSUME Bad # {} PROVE FALSE
  OBVIOUS
<1>2. Bad \in SUBSET SUBSET S
  OBVIOUS
<1>0. \A s \in SUBSET S : s \in Bad <=> SumOver(f, s) \notin Nat
  OBVIOUS
<1> HIDE DEF Bad
<1>3. PICK s \in Bad : \A u \in Bad : u \subseteq s => u = s
  BY <1>1, <1>2, SmallestPart
<1>4. s \subseteq S /\ IsFiniteSet(s) /\ SumOver(f, s) \notin Nat
  BY <1>0, <1>2, FS_Subset
<1>5. s # {}
  <2>1. CASE s = {}
    <3>1. SumOver(f, s) = 0
      BY <1>4, <2>1, SumStep
    <3> QED
      BY <1>4, <3>1
  <2> QED
    BY <2>1
<1>6. Pick(s) \in s /\ f[Pick(s)] \in Nat
  BY <1>4, <1>5, PickType
<1>7. SumOver(f, s \ {Pick(s)}) \in Nat
  BY <1>0, <1>3, <1>4, <1>6
<1>8. SumOver(f, s) = f[Pick(s)] + SumOver(f, s \ {Pick(s)})
  BY <1>4, <1>5, SumStep
<1> QED
  BY <1>4, <1>6, <1>7, <1>8

\* Sums are added term by term.
LEMMA SumPlus ==
  ASSUME NEW S, IsFiniteSet(S), NEW f, NEW e, NEW d,
         \A x \in S : f[x] \in Int /\ e[x] \in Int /\ d[x] = f[x] + e[x]
  PROVE  SumOver(d, S) = SumOver(f, S) + SumOver(e, S)
<1> DEFINE Bad == {s \in SUBSET S : SumOver(d, s) # SumOver(f, s) + SumOver(e, s)}
<1>1. SUFFICES ASSUME Bad # {} PROVE FALSE
  OBVIOUS
<1>2. Bad \in SUBSET SUBSET S
  OBVIOUS
<1>0. \A s \in SUBSET S : s \in Bad <=> SumOver(d, s) # SumOver(f, s) + SumOver(e, s)
  OBVIOUS
<1> HIDE DEF Bad
<1>3. PICK s \in Bad : \A u \in Bad : u \subseteq s => u = s
  BY <1>1, <1>2, SmallestPart
<1>4. s \subseteq S /\ IsFiniteSet(s) /\ SumOver(d, s) # SumOver(f, s) + SumOver(e, s)
  BY <1>0, <1>2, FS_Subset
<1>5. s # {}
  <2>1. CASE s = {}
    <3>1. SumOver(d, s) = 0 /\ SumOver(f, s) = 0 /\ SumOver(e, s) = 0
      BY <1>4, <2>1, SumStep
    <3> QED
      BY <1>4, <3>1
  <2> QED
    BY <2>1
<1> DEFINE x == Pick(s)
           u == s \ {x}
<1>6. x \in s
  BY <1>5, PickType
<1>7. /\ SumOver(d, s) = d[x] + SumOver(d, u)
      /\ SumOver(f, s) = f[x] + SumOver(f, u)
      /\ SumOver(e, s) = e[x] + SumOver(e, u)
  BY <1>4, <1>5, SumStep
<1> HIDE DEF x
<1>8. SumOver(d, u) = SumOver(f, u) + SumOver(e, u)
  BY <1>0, <1>3, <1>4, <1>6
<1>9. SumOver(f, u) \in Int /\ SumOver(e, u) \in Int
  <2>1. IsFiniteSet(u) /\ \A y \in u : f[y] \in Int /\ e[y] \in Int
    BY <1>4, FS_Subset
  <2> HIDE DEF u
  <2> QED
    BY <2>1, SumType
<1>10. f[x] \in Int /\ e[x] \in Int /\ d[x] = f[x] + e[x]
  BY <1>4, <1>6
<1> HIDE DEF u
<1> QED
  BY <1>4, <1>7, <1>8, <1>9, <1>10

\* A sum of zeros.
LEMMA SumZero ==
  ASSUME NEW S, IsFiniteSet(S), NEW f, \A x \in S : f[x] = 0
  PROVE  SumOver(f, S) = 0
<1>0. \A x \in S : f[x] \in Int /\ f[x] = f[x] + f[x]
  OBVIOUS
<1>1. SumOver(f, S) = SumOver(f, S) + SumOver(f, S)
  BY <1>0, SumPlus
<1>2. SumOver(f, S) \in Int
  BY <1>0, SumType
<1>3. \A n \in Int : n = n + n => n = 0
  OBVIOUS
<1> QED
  BY <1>1, <1>2, <1>3

\* Terms that are no greater add up to no more.
LEMMA SumMonotone ==
  ASSUME NEW S, IsFiniteSet(S), NEW f, NEW e,
         \A x \in S : f[x] \in Int /\ e[x] \in Int /\ f[x] <= e[x]
  PROVE  SumOver(f, S) <= SumOver(e, S)
<1> DEFINE d == [x \in S |-> e[x] - f[x]]
<1>1. \A x \in S : d[x] \in Nat /\ d[x] \in Int /\ e[x] = f[x] + d[x]
  OBVIOUS
<1> HIDE DEF d
<1>2. SumOver(e, S) = SumOver(f, S) + SumOver(d, S)
  BY <1>1, SumPlus
<1>3. SumOver(d, S) \in Nat /\ SumOver(f, S) \in Int
  BY <1>1, SumNatural, SumType
<1> QED
  BY <1>2, <1>3

\* One term that changes changes the sum by as much.
LEMMA SumChange ==
  ASSUME NEW S, IsFiniteSet(S), NEW f, NEW e, NEW x \in S, NEW d \in Int, e[x] = f[x] + d,
         \A y \in S : f[y] \in Int /\ e[y] \in Int /\ (y # x => e[y] = f[y])
  PROVE  SumOver(e, S) = SumOver(f, S) + d
<1>1. SumOver(f, S) = f[x] + SumOver(f, S \ {x}) /\ SumOver(e, S) = e[x] + SumOver(e, S \ {x})
  BY SumAdds
<1>2. IsFiniteSet(S \ {x})
  BY FS_Subset
<1>3. SumOver(f, S \ {x}) = SumOver(e, S \ {x}) /\ SumOver(f, S \ {x}) \in Int
  BY <1>2, SumSame, SumType
<1>4. f[x] \in Int
  OBVIOUS
<1> QED
  BY <1>1, <1>3, <1>4

-----------------------------------------------------------------------------
(* Dry runs: what they rest on *)

Owners == [run : Runs \union {Real}, n : Nat]
Holdings == [started : Nat, last : Nat, deposits : Nat, withdrawn : Nat, spent : Nat]
Money == [capital : Int, paid : Int, withdrawn : Int]
RunRows == [status : {"none", "RUNNING", "COMPLETE", "FAILED", "ERASED"}, monthly : Seq(Money), summary : Money]
Executions ==
  [pc : {"idle", "start", "found", "join", "act", "month", "total"}, day : Nat, before : Money, withdrawn : Int]
Nights ==
  [pc : {"idle", "day", "pay", "tell"}, days : SUBSET Nat, day : Nat, existing : BOOLEAN, left : SUBSET Owners]
Erasures == [pc : {"idle", "unlink", "delete", "mark"}, of : Runs \union {Real}, ids : SUBSET Owners]

\* The types; members and accruals are finitely many.
RunTypes ==
  /\ runScene \in RunScenes
  /\ today \in Nat
  /\ run \in [Runs -> RunRows]
  /\ exec \in [Runs -> Executions]
  /\ DOMAIN member \subseteq Owners /\ IsFiniteSet(DOMAIN member)
  /\ member \in [DOMAIN member -> Holdings]
  /\ accrued \subseteq Owners \X Nat /\ IsFiniteSet(accrued)
  /\ notices \subseteq [to : Owners, late : BOOLEAN]
  /\ night \in Nights
  /\ erasing \in Erasures

\* Who is in the database is of a run that was started, or real; the members of a
\* run are numbered; and accruals are those of members.
MembersAreKnown ==
  /\ X!Member(Real, 1) \in DOMAIN member
  /\ \A o \in DOMAIN member :
       /\ o.run # Real => run[o.run].status \notin {"none", "ERASED"}
       /\ o.n <= Cardinality(X!Of(o.run))
  /\ \A a \in accrued : a[1] \in DOMAIN member

\* A run that executes is RUNNING, and has nobody yet when it begins.
RunsAreMarked ==
  \A r \in Runs :
    /\ exec[r].pc # "idle" => run[r].status = "RUNNING"
    /\ exec[r].pc = "start" => X!Of(r) = {}

\* The nightly accrual pays no day to come.
NightsArePast ==
  /\ night.pc \in {"day", "pay"} => runScene.nights /\ \A d \in night.days : d <= today
  /\ night.pc = "day" => night.days # {}
  /\ night.pc = "pay" => night.day <= today

\* What is erased does not go on, and is gone in this order.
ErasuresInOrder ==
  /\ erasing.pc = "idle" => erasing.of = Real
  /\ erasing.pc # "idle" => erasing.of \in Runs /\ run[erasing.of].status \notin {"none", "RUNNING"}
  /\ erasing.pc = "unlink" => X!Of(erasing.of) \subseteq erasing.ids
  /\ erasing.pc = "mark" => X!Of(erasing.of) = {}

\* A notification was made late, or its member is there and has not been unlinked.
NoticesAreLinked ==
  \A x \in notices :
    ~x.late =>
      x.to \in DOMAIN member /\ ~(erasing.pc \in {"delete", "mark"} /\ erasing.of = x.to.run)

\* What the months of a run come to.
Months(r, field) == X!SumFunction([i \in DOMAIN run[r].monthly |-> run[r].monthly[i][field]])

\* The months come to the last snapshot, and the withdrawals since make up the rest;
\* only the nightly accrual pays between the last month and the total.
RunTelescopes(r) ==
  /\ run[r].status = "none" \/ exec[r].pc = "start" => run[r].monthly = <<>> /\ exec[r].withdrawn = 0
  /\ exec[r].pc \notin {"idle", "start"} =>
       /\ Months(r, "capital") = exec[r].before.capital
       /\ Months(r, "paid") = exec[r].before.paid
       /\ Months(r, "withdrawn") + exec[r].withdrawn = X!Snapshot(r).withdrawn
       /\ exec[r].before.paid <= X!Snapshot(r).paid
  /\ exec[r].pc = "total" =>
       /\ exec[r].withdrawn = 0 /\ exec[r].before.capital = X!Snapshot(r).capital
       /\ ~runScene.nights => exec[r].before.paid = X!Snapshot(r).paid

\* A run that is complete adds up.
RunAddsUp(r) ==
  run[r].status = "COMPLETE" =>
    /\ Months(r, "capital") = run[r].summary.capital /\ Months(r, "withdrawn") = run[r].summary.withdrawn
    /\ IF runScene.nights THEN Months(r, "paid") <= run[r].summary.paid
       ELSE Months(r, "paid") = run[r].summary.paid

\* A run that is complete and not being erased has kept its members' packages.
RunIsKept(r) ==
  run[r].status = "COMPLETE" /\ erasing.of # r /\ ~runScene.dies =>
    X!Snapshot(r).capital = run[r].summary.capital

\* Together with what is promised they are inductive.
RunIInv ==
  /\ RunTypes /\ MembersAreKnown /\ RunsAreMarked /\ NightsArePast /\ ErasuresInOrder
  /\ NoticesAreLinked /\ X!PaysItsOwn
  /\ \A r \in Runs : RunTelescopes(r) /\ RunAddsUp(r) /\ RunIsKept(r)

\* X!Cardinality and the folds are the library's.
LEMMA RunsCount ==
  /\ \A ss : X!Cardinality(ss) = Cardinality(ss)
  /\ \A f : X!SumFunction(f) = SumOver(f, DOMAIN f)
<1>1. \A ss : X!Cardinality(ss) = Cardinality(ss)
  BY DEF X!Cardinality, Cardinality
<1>2. ASSUME NEW f PROVE X!SumFunction(f) = SumOver(f, DOMAIN f)
  BY DEF X!SumFunction, X!SumFunctionOnSet, X!FoldFunctionOnSet, X!MapThenFoldSet, SumOver, Sums, Pick
<1> QED
  BY <1>1, <1>2

\* What each member of a run deposited, was paid and withdrew.
Deposited(r) == [o \in X!Of(r) |-> member[o].deposits]
PaidOut(r) == [o \in X!Of(r) |-> X!Paid(o)]
Withdrawn(r) == [o \in X!Of(r) |-> member[o].withdrawn]

\* A snapshot is of numbers, and made of sums.
SnapshotIsSums(r) ==
  /\ IsFiniteSet(X!Of(r)) /\ X!Of(r) \subseteq DOMAIN member
  /\ Deposited(r) \in [X!Of(r) -> Nat] /\ PaidOut(r) \in [X!Of(r) -> Nat]
  /\ Withdrawn(r) \in [X!Of(r) -> Nat]
  /\ X!Snapshot(r).capital = SumOver(Deposited(r), X!Of(r))
  /\ X!Snapshot(r).paid = SumOver(PaidOut(r), X!Of(r))
  /\ X!Snapshot(r).withdrawn = SumOver(Withdrawn(r), X!Of(r))
  /\ X!Snapshot(r) \in Money

\* It is, in every state.
LEMMA SnapshotSums == RunTypes => \A r : SnapshotIsSums(r)
<1> SUFFICES ASSUME RunTypes, NEW r PROVE SnapshotIsSums(r)
  OBVIOUS
<1>1. IsFiniteSet(X!Of(r)) /\ X!Of(r) \subseteq DOMAIN member
  <2>1. X!Of(r) \subseteq DOMAIN member /\ IsFiniteSet(DOMAIN member)
    BY DEF X!Of, RunTypes
  <2> QED
    BY <2>1, FS_Subset
<1>2. Deposited(r) \in [X!Of(r) -> Nat] /\ Withdrawn(r) \in [X!Of(r) -> Nat]
  BY <1>1 DEF Deposited, Withdrawn, RunTypes, Holdings
<1>3. PaidOut(r) \in [X!Of(r) -> Nat]
  <2>1. ASSUME NEW o \in X!Of(r) PROVE X!Paid(o) \in Nat
    <3>1. IsFiniteSet({a \in accrued : a[1] = o})
      BY FS_Subset DEF RunTypes
    <3> QED
      BY <3>1, FS_CardinalityType, RunsCount DEF X!Paid, X!Quantify
  <2> QED
    BY <2>1 DEF PaidOut
<1>4. /\ X!SumFunction(Deposited(r)) = SumOver(Deposited(r), X!Of(r))
      /\ X!SumFunction(PaidOut(r)) = SumOver(PaidOut(r), X!Of(r))
      /\ X!SumFunction(Withdrawn(r)) = SumOver(Withdrawn(r), X!Of(r))
  BY <1>2, <1>3, RunsCount
<1>5. X!Snapshot(r) = [capital |-> X!SumFunction(Deposited(r)), paid |-> X!SumFunction(PaidOut(r)),
                       withdrawn |-> X!SumFunction(Withdrawn(r))]
  BY DEF X!Snapshot, Deposited, PaidOut, Withdrawn
<1>6. /\ SumOver(Deposited(r), X!Of(r)) \in Nat /\ SumOver(PaidOut(r), X!Of(r)) \in Nat
      /\ SumOver(Withdrawn(r), X!Of(r)) \in Nat
  BY <1>1, <1>2, <1>3, SumNatural
<1> QED
  BY <1>1, <1>2, <1>3, <1>4, <1>5, <1>6 DEF Money, SnapshotIsSums

\* Also in the state a step leads to.
LEMMA NextSnapshotSums == RunTypes' => (\A r : SnapshotIsSums(r))'
BY SnapshotSums, PTL

\* Where its members hold what they held, a run's snapshot is what it was.
LEMMA SnapshotStays ==
  ASSUME RunTypes, NEW r, X!Of(r)' = X!Of(r),
         \A o \in X!Of(r) :
           member'[o].deposits = member[o].deposits /\ member'[o].withdrawn = member[o].withdrawn,
         {a \in accrued' : a[1] \in X!Of(r)} = {a \in accrued : a[1] \in X!Of(r)}
  PROVE  X!Snapshot(r)' = X!Snapshot(r)
<1>1. Deposited(r)' = Deposited(r) /\ Withdrawn(r)' = Withdrawn(r)
  BY DEF Deposited, Withdrawn
<1>2. \A o \in X!Of(r) : X!Paid(o)' = X!Paid(o)
  <2> SUFFICES ASSUME NEW o \in X!Of(r) PROVE X!Paid(o)' = X!Paid(o)
    OBVIOUS
  <2>1. {a \in accrued' : a[1] = o} = {a \in accrued : a[1] = o}
    OBVIOUS
  <2> QED
    BY <2>1 DEF X!Paid, X!Quantify
<1>3. PaidOut(r)' = PaidOut(r)
  BY <1>2 DEF PaidOut
<1>4. X!Snapshot(r) = [capital |-> X!SumFunction(Deposited(r)), paid |-> X!SumFunction(PaidOut(r)),
                       withdrawn |-> X!SumFunction(Withdrawn(r))]
  BY DEF X!Snapshot, Deposited, PaidOut, Withdrawn
<1>5. X!Snapshot(r)' = [capital |-> X!SumFunction(Deposited(r)'), paid |-> X!SumFunction(PaidOut(r)'),
                        withdrawn |-> X!SumFunction(Withdrawn(r)')]
  BY DEF X!Snapshot, Deposited, PaidOut, Withdrawn
<1> QED
  BY <1>1, <1>3, <1>4, <1>5

\* More accruals pay no less.
LEMMA PaidGrows ==
  ASSUME RunTypes, RunTypes', NEW r, X!Of(r)' = X!Of(r), accrued \subseteq accrued'
  PROVE  X!Snapshot(r).paid <= X!Snapshot(r)'.paid
<1>1. ASSUME NEW o \in X!Of(r) PROVE PaidOut(r)[o] <= PaidOut(r)'[o]
  <2>1. IsFiniteSet({a \in accrued' : a[1] = o})
    BY FS_Subset DEF RunTypes
  <2>2. {a \in accrued : a[1] = o} \subseteq {a \in accrued' : a[1] = o}
    OBVIOUS
  <2>3. Cardinality({a \in accrued : a[1] = o}) <= Cardinality({a \in accrued' : a[1] = o})
    BY <2>1, <2>2, FS_Subset
  <2>4. X!Paid(o) = Cardinality({a \in accrued : a[1] = o}) /\ X!Paid(o)' = Cardinality({a \in accrued' : a[1] = o})
    BY RunsCount DEF X!Paid, X!Quantify
  <2> QED
    BY <2>3, <2>4 DEF PaidOut
<1>2. PaidOut(r) \in [X!Of(r) -> Nat] /\ IsFiniteSet(X!Of(r)) /\ X!Snapshot(r).paid = SumOver(PaidOut(r), X!Of(r))
  BY SnapshotSums DEF SnapshotIsSums
<1>3. PaidOut(r)' \in [X!Of(r) -> Nat] /\ X!Snapshot(r)'.paid = SumOver(PaidOut(r)', X!Of(r))
  <2>1. PaidOut(r)' \in [X!Of(r)' -> Nat] /\ X!Snapshot(r)'.paid = SumOver(PaidOut(r)', X!Of(r)')
    BY NextSnapshotSums DEF SnapshotIsSums
  <2> QED
    BY <2>1
<1>4. \A o \in X!Of(r) : PaidOut(r)[o] \in Int /\ PaidOut(r)'[o] \in Int /\ PaidOut(r)[o] <= PaidOut(r)'[o]
  BY <1>1, <1>2, <1>3
<1>5. SumOver(PaidOut(r), X!Of(r)) <= SumOver(PaidOut(r)', X!Of(r))
  BY <1>2, <1>4, SumMonotone
<1> QED
  BY <1>2, <1>3, <1>5

-----------------------------------------------------------------------------
(* Dry runs: steps that leave the members alone *)

USE DEF X!In, X!Goto, X!NoRun, X!NoExec, X!NoNight, X!NoErasing, X!Nothing

\* What is said of a run depends on its row, on its execution and on its members.
LEMMA RunStays ==
  ASSUME RunIInv, NEW r \in Runs, runScene' = runScene, run'[r] = run[r], exec'[r] = exec[r],
         X!Snapshot(r)' = X!Snapshot(r), erasing.of = r => erasing'.of = r \/ run[r].status # "COMPLETE"
  PROVE  RunTelescopes(r)' /\ RunAddsUp(r)' /\ RunIsKept(r)'
<1>1. RunTelescopes(r) /\ RunAddsUp(r) /\ RunIsKept(r)
  BY DEF RunIInv
<1>2. \A field : Months(r, field)' = Months(r, field)
  BY DEF Months
<1> QED
  BY <1>1, <1>2 DEF RunTelescopes, RunAddsUp, RunIsKept

\* The calendar and the nightly jobs move, and nothing else.
LEMMA NightMoves ==
  ASSUME RunIInv, UNCHANGED <<runScene, run, exec, member, accrued, notices, erasing>>,
         today' \in Nat, today' >= today, night' \in Nights, NightsArePast'
  PROVE  RunIInv'
<1> USE DEF RunIInv
<1>1. RunTypes'
  BY DEF RunTypes
<1>2. \A r : X!Of(r)' = X!Of(r) /\ X!Snapshot(r)' = X!Snapshot(r)
  BY SnapshotStays DEF X!Of
<1>3. MembersAreKnown' /\ RunsAreMarked'
  BY <1>2 DEF MembersAreKnown, RunsAreMarked, X!Member
<1>4. ErasuresInOrder' /\ NoticesAreLinked'
  BY <1>2 DEF ErasuresInOrder, NoticesAreLinked
<1>5. X!PaysItsOwn'
  <2>1. \A a \in accrued : a[2] \in Nat /\ today \in Nat
    BY DEF RunTypes
  <2> QED
    BY <2>1 DEF X!PaysItsOwn
<1>6. ASSUME NEW r \in Runs PROVE RunTelescopes(r)' /\ RunAddsUp(r)' /\ RunIsKept(r)'
  BY <1>2, RunStays
<1> QED
  BY <1>1, <1>3, <1>4, <1>5, <1>6

\* A run goes on, and nothing else changes: its days are not set back, and what it
\* writes when it is complete is so.
LEMMA RunMoves ==
  ASSUME RunIInv, NEW r \in Runs, NEW row \in RunRows, NEW x \in Executions,
         run' = [run EXCEPT ![r] = row], exec' = [exec EXCEPT ![r] = x],
         UNCHANGED <<runScene, today, member, accrued, notices, night, erasing>>,
         run[r].status \in {"none", "RUNNING"}, row.status \in {"RUNNING", "COMPLETE", "FAILED"},
         x.pc # "idle" => row.status = "RUNNING",
         x.pc = "start" => X!Of(r) = {},
         X!Of(r) # {} /\ x.pc # "idle" => exec[r].pc # "idle" /\ exec[r].day <= x.day,
         RunTelescopes(r)', RunAddsUp(r)',
         row.status = "COMPLETE" => X!Snapshot(r).capital = row.summary.capital
  PROVE  RunIInv'
<1> USE DEF RunIInv
<1>1. RunTypes'
  BY DEF RunTypes
<1>2. \A s : X!Of(s)' = X!Of(s) /\ X!Snapshot(s)' = X!Snapshot(s)
  BY SnapshotStays DEF X!Of
<1>3. run'[r] = row /\ exec'[r] = x /\ \A s \in Runs \ {r} : run'[s] = run[s] /\ exec'[s] = exec[s]
  BY DEF RunTypes
<1>4. MembersAreKnown'
  <2>1. \A o \in DOMAIN member : o.run # Real => o.run \in Runs
    BY DEF RunTypes, Owners
  <2> QED
    BY <1>2, <1>3, <2>1 DEF MembersAreKnown, X!Member
<1>5. RunsAreMarked'
  BY <1>2, <1>3 DEF RunsAreMarked
<1>6. ErasuresInOrder' /\ NoticesAreLinked' /\ NightsArePast'
  BY <1>2, <1>3 DEF ErasuresInOrder, NoticesAreLinked, NightsArePast
<1>7. X!PaysItsOwn'
  <2> SUFFICES ASSUME NEW a \in accrued,
                      ~(a[2] <= today)
               PROVE  a[1].run # Real /\ (exec'[a[1].run].pc = "idle" \/ a[2] <= exec'[a[1].run].day)
    BY DEF X!PaysItsOwn
  <2>1. a[1].run # Real /\ (exec[a[1].run].pc = "idle" \/ a[2] <= exec[a[1].run].day)
    BY DEF X!PaysItsOwn
  <2>2. a[1] \in DOMAIN member /\ a[1].run \in Runs /\ a[2] \in Nat
    BY <2>1 DEF MembersAreKnown, RunTypes, Owners
  <2>3. CASE a[1].run # r
    BY <1>3, <2>1, <2>2, <2>3
  <2>4. CASE a[1].run = r
    <3>1. X!Of(r) # {}
      BY <2>2, <2>4 DEF X!Of
    <3>2. exec[r].day \in Nat /\ x.day \in Nat
      BY DEF RunTypes, Executions
    <3> QED
      BY <1>3, <2>1, <2>2, <2>4, <3>1, <3>2
  <2> QED
    BY <2>3, <2>4
<1>8. RunIsKept(r)'
  BY <1>2, <1>3 DEF RunIsKept
<1>9. ASSUME NEW s \in Runs \ {r} PROVE RunTelescopes(s)' /\ RunAddsUp(s)' /\ RunIsKept(s)'
  BY <1>2, <1>3, RunStays
<1>10. \A s \in Runs : RunTelescopes(s)' /\ RunAddsUp(s)' /\ RunIsKept(s)'
  BY <1>8, <1>9
<1> HIDE DEF RunIInv
<1> QED
  BY <1>1, <1>4, <1>5, <1>6, <1>7, <1>10 DEF RunIInv

\* A run that has no month yet comes to nothing.
LEMMA NoMonths ==
  ASSUME NEW r, NEW field, run[r].monthly = <<>>
  PROVE  Months(r, field) = 0
<1> DEFINE f == [i \in DOMAIN run[r].monthly |-> run[r].monthly[i][field]]
<1>1. DOMAIN f = {} /\ Months(r, field) = SumOver(f, DOMAIN f)
  BY RunsCount DEF Months
<1> HIDE DEF f
<1> QED
  BY <1>1, SumStep, FS_EmptySet

\* The withdrawals of the months are a number.
LEMMA MonthsType ==
  ASSUME NEW r, run[r] \in RunRows
  PROVE  Months(r, "withdrawn") \in Int
<1> DEFINE f == [i \in DOMAIN run[r].monthly |-> run[r].monthly[i]["withdrawn"]]
<1>1. Months(r, "withdrawn") = SumOver(f, DOMAIN f)
  BY RunsCount DEF Months
<1>2. run[r].monthly \in Seq(Money)
  BY DEF RunRows
<1>3. PICK n \in Nat : n = Len(run[r].monthly)
  BY <1>2
<1>4. DOMAIN f = 1..n /\ IsFiniteSet(1..n)
  <2>1. IsFiniteSet(1..n)
    BY FS_Interval
  <2>2. DOMAIN f = 1..n
    BY <1>2, <1>3
  <2> QED
    BY <2>1, <2>2
<1>5. \A m \in Money : m["withdrawn"] \in Int
  BY DEF Money
<1>6. \A i \in 1..n : f[i] \in Int
  BY <1>2, <1>3, <1>5
<1> HIDE DEF f
<1> QED
  BY <1>1, <1>4, <1>6, SumType

\* A month more adds what it comes to.
LEMMA AnotherMonth ==
  ASSUME NEW r, run[r].monthly \in Seq(Money), NEW m \in Money, run'[r].monthly = Append(run[r].monthly, m),
         NEW field \in {"capital", "paid", "withdrawn"}
  PROVE  Months(r, field)' = Months(r, field) + m[field] /\ Months(r, field) \in Int
<1> DEFINE f == [i \in DOMAIN run[r].monthly |-> run[r].monthly[i][field]]
           e == [i \in DOMAIN run'[r].monthly |-> run'[r].monthly[i][field]]
<1>1. Months(r, field) = SumOver(f, DOMAIN f) /\ Months(r, field)' = SumOver(e, DOMAIN e)
  BY RunsCount DEF Months
<1>2. PICK n \in Nat : n = Len(run[r].monthly)
  OBVIOUS
<1>3. \A x \in Money : x[field] \in Int
  BY DEF Money
<1>4. DOMAIN f = 1..n /\ \A i \in 1..n : f[i] \in Int
  BY <1>2, <1>3
<1>5. /\ DOMAIN e = 1..(n + 1) /\ e[n + 1] = m[field] /\ \A i \in 1..n : e[i] = f[i]
  BY <1>2
<1> HIDE DEF e, f
<1>6. \A i \in 1..(n + 1) : e[i] \in Int
  BY <1>3, <1>4, <1>5
<1>7. IsFiniteSet(1..(n + 1)) /\ IsFiniteSet(1..n) /\ (1..(n + 1)) \ {n + 1} = 1..n /\ n + 1 \in 1..(n + 1)
  <2>1. IsFiniteSet(1..(n + 1)) /\ IsFiniteSet(1..n)
    <3>1. 1 \in Int /\ n \in Int /\ n + 1 \in Int
      OBVIOUS
    <3> QED
      BY <3>1, FS_Interval
  <2>2. (1..(n + 1)) \ {n + 1} = 1..n /\ n + 1 \in 1..(n + 1)
    OBVIOUS
  <2> QED
    BY <2>1, <2>2
<1>8. SumOver(e, 1..(n + 1)) = e[n + 1] + SumOver(e, (1..(n + 1)) \ {n + 1})
  BY <1>6, <1>7, SumAdds
<1>9. SumOver(e, 1..n) = SumOver(f, 1..n) /\ SumOver(f, 1..n) \in Int
  BY <1>4, <1>5, <1>7, SumSame, SumType
<1>10. m[field] \in Int
  BY <1>3
<1>11. Months(r, field)' = m[field] + SumOver(f, 1..n) /\ Months(r, field) = SumOver(f, 1..n)
  BY <1>1, <1>4, <1>5, <1>7, <1>8, <1>9
<1> QED
  BY <1>9, <1>10, <1>11

-----------------------------------------------------------------------------
(* Dry runs: execute *)

\* A run begins with nobody.
LEMMA StartOfRun ==
  ASSUME RunIInv, NEW r \in Runs, X!Start(r)
  PROVE  RunIInv'
<1>1. PICK first \in runScene.from :
        exec' = [exec EXCEPT ![r] = [X!NoExec EXCEPT !.pc = "start", !.day = first]]
  BY DEF X!Start
<1>2. first \in Nat
  <2>1. runScene \in RunScenes
    BY DEF RunIInv, RunTypes
  <2> QED
    BY <2>1, RunsAssumption
<1> DEFINE row == [run[r] EXCEPT !.status = "RUNNING"]
           x == [X!NoExec EXCEPT !.pc = "start", !.day = first]
<1>3. row \in RunRows /\ row.status = "RUNNING" /\ row.monthly = <<>>
  <2>1. run[r] = X!NoRun /\ run[r] \in RunRows
    BY DEF X!Start, RunIInv, RunTypes
  <2>2. row \in RunRows
    BY <2>1 DEF RunRows
  <2>3. row.status = "RUNNING" /\ row.monthly = run[r].monthly
    BY <2>1 DEF RunRows
  <2>4. run[r].monthly = <<>>
    BY <2>1
  <2> QED
    BY <2>2, <2>3, <2>4
<1>4. x \in Executions /\ x.pc = "start" /\ x.withdrawn = 0
  <2>1. X!NoExec \in Executions
    BY DEF Executions, Money
  <2> QED
    BY <1>2, <2>1 DEF Executions
<1>5. run' = [run EXCEPT ![r] = row] /\ run[r].status = "none"
  BY DEF X!Start
<1>6. exec' = [exec EXCEPT ![r] = x] /\ UNCHANGED <<runScene, today, member, accrued, notices, night, erasing>>
  BY <1>1 DEF X!Start
<1>7. X!Of(r) = {}
  <2>1. \A o \in DOMAIN member : o.run # r
    BY <1>5, RunsAssumption DEF RunIInv, MembersAreKnown
  <2> QED
    BY <2>1 DEF X!Of
<1> HIDE DEF row, x
<1>8. run'[r] = row /\ exec'[r] = x
  BY <1>5, <1>6 DEF RunIInv, RunTypes
<1>9. RunTelescopes(r)' /\ RunAddsUp(r)'
  BY <1>3, <1>4, <1>8 DEF RunTelescopes, RunAddsUp
<1> QED
  BY <1>3, <1>4, <1>5, <1>6, <1>7, <1>9, RunMoves

\* The execution goes on and the row stays; what it says of the months must be so.
LEMMA ExecutionMoves ==
  ASSUME RunIInv, NEW r \in Runs, exec[r].pc # "idle", NEW x \in Executions, x.pc \notin {"idle", "start"},
         exec' = [exec EXCEPT ![r] = x], exec[r].day <= x.day,
         UNCHANGED <<runScene, run, today, member, accrued, notices, night, erasing>>,
         RunTelescopes(r)'
  PROVE  RunIInv'
<1>1. run[r] \in RunRows /\ run' = [run EXCEPT ![r] = run[r]] /\ run[r].status = "RUNNING"
  BY DEF RunIInv, RunTypes, RunsAreMarked
<1>2. RunAddsUp(r)'
  BY <1>1 DEF RunAddsUp
<1> QED
  BY <1>1, <1>2, RunMoves

\* The baseline is that of a run without members and without months.
LEMMA BaselineOfRun ==
  ASSUME RunIInv, NEW r \in Runs, X!Baseline(r)
  PROVE  RunIInv'
<1> DEFINE before == X!Snapshot(r)
           x == [exec[r] EXCEPT !.pc = "found", !.before = before]
<1>1. before \in Money /\ SnapshotIsSums(r)
  BY SnapshotSums DEF RunIInv, SnapshotIsSums
<1>2. before.capital = 0 /\ before.paid = 0 /\ before.withdrawn = 0
  <2>1. X!Of(r) = {}
    BY DEF X!Baseline, RunIInv, RunsAreMarked
  <2> QED
    BY <1>1, <2>1, SumStep, FS_EmptySet DEF SnapshotIsSums
<1>3. \A s : X!Snapshot(s)' = X!Snapshot(s)
  BY SnapshotStays DEF X!Baseline, X!Of, RunIInv
<1> HIDE DEF before
<1>4. exec[r] \in Executions /\ exec[r].pc = "start"
  BY DEF X!Baseline, RunIInv, RunTypes
<1>5. /\ x \in Executions /\ x.pc = "found" /\ x.before = before /\ x.day = exec[r].day
      /\ x.withdrawn = exec[r].withdrawn
  BY <1>1, <1>4 DEF Executions
<1>6. exec' = [exec EXCEPT ![r] = x] /\ exec'[r] = x
  BY DEF X!Baseline, before, RunIInv, RunTypes
<1> HIDE DEF x
<1>7. run[r].monthly = <<>> /\ exec[r].withdrawn = 0 /\ run[r].status = "RUNNING"
  BY <1>4 DEF RunIInv, RunTelescopes, RunsAreMarked
<1>8. run' = run /\ \A field : Months(r, field)' = 0
  <2>1. run' = run /\ \A field : Months(r, field)' = Months(r, field)
    BY DEF X!Baseline, Months
  <2>2. \A field : Months(r, field) = 0
    BY <1>7, NoMonths
  <2> QED
    BY <2>1, <2>2
<1>9. RunTelescopes(r)'
  <2>1. X!Snapshot(r)'.withdrawn = 0 /\ X!Snapshot(r)'.paid = 0
    BY <1>2, <1>3 DEF before
  <2> QED
    BY <1>2, <1>5, <1>6, <1>7, <1>8, <2>1 DEF RunTelescopes
<1>10. exec[r].day <= x.day
  BY <1>4, <1>5 DEF Executions
<1> QED
  BY <1>4, <1>5, <1>6, <1>9, <1>10, ExecutionMoves DEF X!Baseline

\* Between the days only the program counter moves.
LEMMA FoundedOfRun ==
  ASSUME RunIInv, NEW r \in Runs, X!Founded(r) \/ X!EndDay(r)
  PROVE  RunIInv'
<1> USE DEF X!Founded, X!EndDay
<1>1. exec[r] \in Executions /\ exec[r].pc \in {"found", "act"}
  BY DEF RunIInv, RunTypes
<1>2. PICK pc \in {"join", "month"}, day \in {exec[r].day, exec[r].day + 1} :
        exec' = [exec EXCEPT ![r] = [exec[r] EXCEPT !.pc = pc, !.day = day]]
  <2>1. CASE X!Founded(r)
    <3>1. exec' = [exec EXCEPT ![r] = [exec[r] EXCEPT !.pc = "join", !.day = exec[r].day]]
      BY <1>1, <2>1 DEF Executions
    <3> QED
      BY <3>1
  <2>2. CASE X!EndDay(r)
    <3>1. CASE exec[r].day % Month = 0
      <4>1. exec' = [exec EXCEPT ![r] = [exec[r] EXCEPT !.pc = "month", !.day = exec[r].day]]
        BY <1>1, <2>2, <3>1 DEF Executions
      <4> QED
        BY <4>1
    <3>2. CASE exec[r].day % Month # 0
      <4>1. exec' = [exec EXCEPT ![r] = [exec[r] EXCEPT !.pc = "join", !.day = exec[r].day + 1]]
        BY <1>1, <2>2, <3>2 DEF Executions
      <4> QED
        BY <4>1
    <3> QED
      BY <3>1, <3>2
  <2> QED
    BY <2>1, <2>2
<1> DEFINE x == [exec[r] EXCEPT !.pc = pc, !.day = day]
<1>3. /\ x \in Executions /\ x.pc = pc /\ x.before = exec[r].before /\ x.withdrawn = exec[r].withdrawn
      /\ x.day = day /\ exec[r].day <= day
  <2>1. exec[r].day \in Nat /\ day \in Nat /\ exec[r].day <= day
    BY <1>1 DEF Executions
  <2>2. x \in Executions
    BY <1>1, <2>1 DEF Executions
  <2> QED
    BY <1>1, <2>1 DEF Executions
<1>4. UNCHANGED <<runScene, run, today, member, accrued, notices, night, erasing>>
  OBVIOUS
<1>5. exec' = [exec EXCEPT ![r] = x] /\ exec'[r] = x
  BY <1>2 DEF RunIInv, RunTypes
<1> HIDE DEF x
<1>6. X!Snapshot(r)' = X!Snapshot(r) /\ \A field : Months(r, field)' = Months(r, field)
  BY <1>4, SnapshotStays DEF X!Of, Months, RunIInv
<1>7. RunTelescopes(r)'
  <2>1. RunTelescopes(r) /\ run[r].status = "RUNNING"
    BY <1>1 DEF RunIInv, RunsAreMarked
  <2> QED
    BY <1>1, <1>3, <1>4, <1>5, <1>6, <2>1 DEF RunTelescopes
<1> QED
  BY <1>1, <1>3, <1>4, <1>5, <1>7, ExecutionMoves

\* The month is what has come since the last snapshot.
LEMMA EndMonthOfRun ==
  ASSUME RunIInv, NEW r \in Runs, X!EndMonth(r)
  PROVE  RunIInv'
<1> DEFINE after == X!Snapshot(r)
           before == exec[r].before
           month == [capital |-> after.capital - before.capital, paid |-> after.paid - before.paid,
                     withdrawn |-> exec[r].withdrawn]
           pc == IF Len(run[r].monthly) + 1 = runScene.months THEN "total" ELSE "join"
           row == [run[r] EXCEPT !.monthly = Append(run[r].monthly, month)]
           x == [pc |-> pc, day |-> exec[r].day + 1, before |-> after, withdrawn |-> 0]
<1>1. exec[r] \in Executions /\ exec[r].pc = "month" /\ run[r] \in RunRows /\ run[r].status = "RUNNING"
  BY DEF X!EndMonth, RunIInv, RunTypes, RunsAreMarked
<1>2. exec[r].day \in Nat /\ before \in Money /\ exec[r].withdrawn \in Int /\ run[r].monthly \in Seq(Money)
  BY <1>1 DEF Executions, RunRows
<1>3. after \in Money
  BY SnapshotSums DEF RunIInv, SnapshotIsSums
<1>4. run' = [run EXCEPT ![r] = row] /\ exec' = [exec EXCEPT ![r] = x]
      /\ UNCHANGED <<runScene, today, member, accrued, notices, night, erasing>>
  BY DEF X!EndMonth
<1>5. X!Snapshot(r)' = after
  BY <1>4, SnapshotStays DEF X!Of, RunIInv
<1> HIDE DEF after, before
<1>6. month \in Money /\ month["capital"] = after.capital - before.capital
      /\ month["paid"] = after.paid - before.paid /\ month["withdrawn"] = exec[r].withdrawn
  BY <1>2, <1>3 DEF Money
<1> HIDE DEF month
<1>7. x \in Executions /\ x.pc \in {"total", "join"} /\ x.before = after /\ x.withdrawn = 0
      /\ x.day = exec[r].day + 1
  BY <1>2, <1>3 DEF Executions
<1>8. row \in RunRows /\ row.status = "RUNNING" /\ row.monthly = Append(run[r].monthly, month)
  <2>1. Append(run[r].monthly, month) \in Seq(Money)
    BY <1>2, <1>6
  <2> QED
    BY <1>1, <2>1 DEF RunRows
<1> HIDE DEF row, x
<1>9. run'[r] = row /\ exec'[r] = x
  BY <1>4 DEF RunIInv, RunTypes
<1>10. ASSUME NEW field \in {"capital", "paid", "withdrawn"}
       PROVE  Months(r, field)' = Months(r, field) + month[field] /\ Months(r, field) \in Int
  BY <1>2, <1>6, <1>8, <1>9, AnotherMonth
<1>11. /\ Months(r, "capital") = before.capital /\ Months(r, "paid") = before.paid
       /\ Months(r, "withdrawn") + exec[r].withdrawn = after.withdrawn
  BY <1>1 DEF RunIInv, RunTelescopes, after, before
<1>12. /\ Months(r, "capital")' = after.capital /\ Months(r, "paid")' = after.paid
       /\ Months(r, "withdrawn")' = after.withdrawn
  <2>1. before.capital \in Int /\ after.capital \in Int /\ before.paid \in Int /\ after.paid \in Int
    BY <1>2, <1>3 DEF Money
  <2> QED
    BY <1>6, <1>10, <1>11, <2>1
<1>13. after.withdrawn \in Int /\ after.paid \in Int
  BY <1>3 DEF Money
<1>14. RunTelescopes(r)'
  BY <1>5, <1>7, <1>8, <1>9, <1>12, <1>13 DEF RunTelescopes
<1>15. RunAddsUp(r)'
  BY <1>8, <1>9 DEF RunAddsUp
<1>16. exec[r].day <= x.day
  BY <1>2, <1>7
<1> QED
  BY <1>1, <1>4, <1>7, <1>8, <1>14, <1>15, <1>16, RunMoves

\* The summary is what the months come to.
LEMMA CompleteOfRun ==
  ASSUME RunIInv, NEW r \in Runs, X!Complete(r)
  PROVE  RunIInv'
<1> DEFINE total == X!Snapshot(r)
           row == [run[r] EXCEPT !.status = "COMPLETE", !.summary = total]
<1>1. exec[r].pc = "total" /\ run[r] \in RunRows /\ run[r].status = "RUNNING"
  BY DEF X!Complete, RunIInv, RunTypes, RunsAreMarked
<1>2. total \in Money
  BY SnapshotSums DEF RunIInv, SnapshotIsSums
<1>3. run' = [run EXCEPT ![r] = row] /\ exec' = [exec EXCEPT ![r] = X!NoExec]
      /\ UNCHANGED <<runScene, today, member, accrued, notices, night, erasing>>
  BY DEF X!Complete
<1> HIDE DEF total
<1>4. row \in RunRows /\ row.status = "COMPLETE" /\ row.summary = total /\ row.monthly = run[r].monthly
  BY <1>1, <1>2 DEF RunRows
<1>5. X!NoExec \in Executions /\ X!NoExec.pc = "idle"
  BY DEF Executions, Money
<1> HIDE DEF row
<1>6. run'[r] = row /\ exec'[r] = X!NoExec
  BY <1>3 DEF RunIInv, RunTypes
<1>7. \A field : Months(r, field)' = Months(r, field)
  BY <1>4, <1>6 DEF Months
<1>8. RunTelescopes(r)'
  BY <1>4, <1>5, <1>6 DEF RunTelescopes
<1>9. /\ Months(r, "capital") = exec[r].before.capital /\ exec[r].before.capital = total.capital
      /\ Months(r, "withdrawn") + exec[r].withdrawn = total.withdrawn /\ exec[r].withdrawn = 0
      /\ Months(r, "paid") = exec[r].before.paid /\ exec[r].before.paid <= total.paid
      /\ ~runScene.nights => exec[r].before.paid = total.paid
  BY <1>1 DEF RunIInv, RunTelescopes, total
<1>10. Months(r, "withdrawn") \in Int
  BY <1>1, MonthsType
<1>11. RunAddsUp(r)'
  BY <1>3, <1>4, <1>6, <1>7, <1>9, <1>10 DEF RunAddsUp
<1>12. X!Snapshot(r).capital = row.summary.capital
  BY <1>4 DEF total
<1> QED
  BY <1>1, <1>3, <1>4, <1>5, <1>8, <1>11, <1>12, RunMoves

\* A run that fails has no summary.
LEMMA FailOfRun ==
  ASSUME RunIInv, NEW r \in Runs, X!Fail(r)
  PROVE  RunIInv'
<1> DEFINE row == [run[r] EXCEPT !.status = "FAILED"]
<1>1. run[r] \in RunRows /\ run[r].status = "RUNNING"
  BY DEF X!Fail, RunIInv, RunTypes, RunsAreMarked
<1>2. run' = [run EXCEPT ![r] = row] /\ exec' = [exec EXCEPT ![r] = X!NoExec]
      /\ UNCHANGED <<runScene, today, member, accrued, notices, night, erasing>>
  BY DEF X!Fail
<1>3. row \in RunRows /\ row.status = "FAILED"
  BY <1>1 DEF RunRows
<1>4. X!NoExec \in Executions /\ X!NoExec.pc = "idle"
  BY DEF Executions, Money
<1> HIDE DEF row
<1>5. run'[r] = row /\ exec'[r] = X!NoExec
  BY <1>2 DEF RunIInv, RunTypes
<1>6. RunTelescopes(r)' /\ RunAddsUp(r)'
  BY <1>3, <1>4, <1>5 DEF RunTelescopes, RunAddsUp
<1> QED
  BY <1>1, <1>2, <1>3, <1>4, <1>6, RunMoves

\* A process that stops leaves the rows and the members.
LEMMA DieOfRun ==
  ASSUME RunIInv, X!Die
  PROVE  RunIInv'
<1> USE DEF RunIInv, X!Die
<1>1. exec' = [r \in Runs |-> X!NoExec] /\ X!NoExec \in Executions /\ X!NoExec.pc = "idle"
      /\ X!NoErasing \in Erasures
  BY DEF Executions, Money, Erasures
<1>2. RunTypes'
  BY <1>1 DEF RunTypes
<1>3. \A r : X!Of(r)' = X!Of(r)
  BY DEF X!Of
<1>4. MembersAreKnown' /\ RunsAreMarked'
  BY <1>1, <1>3 DEF MembersAreKnown, RunsAreMarked, X!Member
<1>5. ErasuresInOrder' /\ NoticesAreLinked' /\ NightsArePast'
  BY DEF ErasuresInOrder, NoticesAreLinked, NightsArePast
<1>6. X!PaysItsOwn'
  <2>1. \A a \in accrued : a[1].run \in Runs \union {Real}
    BY DEF RunTypes, Owners
  <2> QED
    BY <1>1, <2>1 DEF X!PaysItsOwn
<1>7. ASSUME NEW r \in Runs PROVE RunTelescopes(r)' /\ RunAddsUp(r)' /\ RunIsKept(r)'
  <2>1. RunTelescopes(r) /\ RunAddsUp(r) /\ exec'[r] = X!NoExec /\ run' = run /\ runScene' = runScene
    BY <1>1
  <2>2. \A field : Months(r, field)' = Months(r, field)
    BY DEF Months
  <2>3. RunTelescopes(r)'
    BY <1>1, <2>1 DEF RunTelescopes
  <2> QED
    BY <2>1, <2>2, <2>3 DEF RunAddsUp, RunIsKept
<1> QED
  BY <1>2, <1>4, <1>5, <1>6, <1>7

-----------------------------------------------------------------------------
(* Dry runs: the clock and the nightly jobs *)

\* The first of some days.
LEMMA FirstDay ==
  ASSUME NEW S, S \subseteq Nat, S # {}
  PROVE  X!Min(S) \in S
<1>1. \E x \in S : \A y \in S : x <= y
  BY NaturalMinimum
<1> QED
  BY <1>1 DEF X!Min

\* The last of finitely many.
LEMMA LastDay ==
  ASSUME NEW S, S \subseteq Nat, S # {}, IsFiniteSet(S)
  PROVE  X!Max(S) \in S
<1> DEFINE Bad == {s \in SUBSET S : s # {} /\ ~\E x \in s : \A y \in s : x >= y}
<1>1. \A s \in SUBSET S : s \in Bad <=> s # {} /\ ~\E x \in s : \A y \in s : x >= y
  OBVIOUS
<1>2. Bad \in SUBSET SUBSET S
  OBVIOUS
<1> HIDE DEF Bad
<1>3. Bad = {}
  <2> SUFFICES ASSUME Bad # {} PROVE FALSE
    OBVIOUS
  <2>0. \E T \in Bad : \A U \in Bad : U \subseteq T => U = T
    BY ONLY <1>2, Bad # {}, IsFiniteSet(S), SmallestPart
  <2>1. PICK T \in Bad : \A U \in Bad : U \subseteq T => U = T
    BY <2>0
  <2>2. T \subseteq S
    BY <1>2
  <2>3. T # {} /\ T \subseteq S /\ ~\E x \in T : \A y \in T : x >= y
    BY <1>1, <2>2
  <2>4. PICK t \in T : TRUE
    BY <2>3
  <2>5. T \ {t} \notin Bad /\ T \ {t} \in SUBSET S
    BY <2>1, <2>3, <2>4
  <2>6. CASE T \ {t} = {}
    <3>1. \A y \in T : t >= y
      BY <2>3, <2>6
    <3> QED
      BY <2>3, <2>4, <3>1
  <2>7. CASE T \ {t} # {}
    <3>1. PICK x \in T \ {t} : \A y \in T \ {t} : x >= y
      BY <1>1, <2>5, <2>7
    <3>2. x \in Nat /\ t \in Nat /\ T \subseteq Nat
      BY <2>3, <3>1
    <3>3. CASE x >= t
      <4>1. \A y \in T : x >= y
        BY <3>1, <3>3
      <4> QED
        BY <2>3, <4>1
    <3>4. CASE t >= x
      <4>1. \A y \in T : t >= y
        BY <3>1, <3>2, <3>4
      <4> QED
        BY <2>3, <4>1
    <3> QED
      BY <3>2, <3>3, <3>4
  <2> QED
    BY <2>6, <2>7
<1>4. \E x \in S : \A y \in S : x >= y
  BY <1>1, <1>3
<1> QED
  BY <1>4 DEF X!Max

\* The day is over.
LEMMA TomorrowOfRuns ==
  ASSUME RunIInv, X!Tomorrow
  PROVE  RunIInv'
<1>1. today \in Nat /\ today' = today + 1 /\ UNCHANGED <<runScene, run, exec, member, accrued, notices, night, erasing>>
  BY DEF X!Tomorrow, RunIInv, RunTypes
<1>2. NightsArePast'
  <2>1. night \in Nights
    BY DEF RunIInv, RunTypes
  <2>2. night.day \in Nat /\ night.days \subseteq Nat
    BY <2>1 DEF Nights
  <2> QED
    BY <1>1, <2>2 DEF RunIInv, NightsArePast
<1>3. night' \in Nights
  BY <1>1 DEF RunIInv, RunTypes
<1> QED
  BY <1>1, <1>2, <1>3, NightMoves

\* The days that are made up are past.
LEMMA StartNightOfRuns ==
  ASSUME RunIInv, X!StartNight
  PROVE  RunIInv'
<1> DEFINE stamps == {member[o].last : o \in X!Holders} \union {0}
           days == {d \in (X!Max(stamps) + 1)..today : d \in Trading}
<1>1. X!Max(stamps) \in Nat
  <2>1. X!Holders \subseteq DOMAIN member /\ IsFiniteSet(DOMAIN member) /\ member \in [DOMAIN member -> Holdings]
    BY DEF X!Holders, RunIInv, RunTypes
  <2>2. {member[o].last : o \in X!Holders} \subseteq Nat
    BY <2>1 DEF Holdings
  <2>3. IsFiniteSet({member[o].last : o \in X!Holders})
    <3>1. IsFiniteSet(X!Holders)
      BY <2>1, FS_Subset
    <3> DEFINE f == [o \in X!Holders |-> member[o].last]
               T == {member[o].last : o \in X!Holders}
    <3>2. f \in Surjection(X!Holders, T)
      BY DEF Surjection
    <3> HIDE DEF f
    <3>3. IsFiniteSet(T)
      BY <3>1, <3>2, FS_Surjection
    <3> QED
      BY <3>3
  <2>4. IsFiniteSet(stamps)
    BY <2>3, FS_AddElement
  <2>5. stamps \subseteq Nat /\ stamps # {}
    BY <2>2
  <2> HIDE DEF stamps
  <2> QED
    BY <2>4, <2>5, LastDay
<1> HIDE DEF stamps
<1>2. today \in Nat /\ Trading \subseteq Nat
  BY RunsAssumption DEF RunIInv, RunTypes
<1>3. days \subseteq Nat /\ \A d \in days : d <= today
  BY <1>1, <1>2
<1>4. /\ runScene.nights /\ UNCHANGED <<runScene, today, run, exec, member, accrued, notices, erasing>>
      /\ night' = IF days = {} THEN X!NoNight
                  ELSE [X!NoNight EXCEPT !.pc = "day", !.days = days, !.existing = TRUE]
  BY DEF X!StartNight, stamps
<1> HIDE DEF days
<1>5. night' \in Nights /\ NightsArePast'
  <2>1. CASE days = {}
    BY <1>4, <2>1 DEF Nights, NightsArePast
  <2>2. CASE days # {}
    <3>1. night' = [X!NoNight EXCEPT !.pc = "day", !.days = days, !.existing = TRUE]
      BY <1>4, <2>2
    <3>2. X!NoNight \in Nights
      BY DEF Nights
    <3>3. night' \in Nights
      BY <1>3, <3>1, <3>2 DEF Nights
    <3>4. night'.pc = "day" /\ night'.days = days
      BY <3>1
    <3> QED
      BY <1>3, <1>4, <2>2, <3>3, <3>4 DEF NightsArePast
  <2> QED
    BY <2>1, <2>2
<1> QED
  BY <1>2, <1>4, <1>5, NightMoves

\* The first of them is taken.
LEMMA NightDayOfRuns ==
  ASSUME RunIInv, X!NightDay
  PROVE  RunIInv'
<1> DEFINE day == X!Min(night.days)
           left == {o \in X!Holders : member[o].started < day}
<1>1. night \in Nights /\ night.pc = "day"
  BY DEF X!NightDay, RunIInv, RunTypes
<1>2. day \in Nat /\ day \in night.days
  <2>1. night.days \subseteq Nat /\ night.days # {}
    BY <1>1 DEF Nights, RunIInv, NightsArePast
  <2> QED
    BY <2>1, FirstDay
<1>3. left \subseteq Owners
  BY DEF X!Holders, RunIInv, RunTypes
<1>4. night' = [night EXCEPT !.pc = "pay", !.day = day, !.days = night.days \ {day}, !.left = left]
      /\ UNCHANGED <<runScene, today, run, exec, member, accrued, notices, erasing>>
  BY DEF X!NightDay
<1> HIDE DEF day, left
<1>5. /\ night' \in Nights /\ night'.pc = "pay" /\ night'.day = day /\ night'.days = night.days \ {day}
  <2>1. night.days \ {day} \subseteq Nat
    BY <1>1 DEF Nights
  <2> QED
    BY <1>1, <1>2, <1>3, <1>4, <2>1 DEF Nights
<1>6. NightsArePast'
  BY <1>1, <1>2, <1>4, <1>5 DEF NightsArePast, RunIInv
<1>7. today \in Nat
  BY DEF RunIInv, RunTypes
<1> QED
  BY <1>4, <1>5, <1>6, <1>7, NightMoves

\* A day has been paid, or somebody is to be told: neither pays.
LEMMA EndNightDayOfRuns ==
  ASSUME RunIInv, X!EndNightDay \/ X!StartDigest
  PROVE  RunIInv'
<1>1. night \in Nights /\ today \in Nat
  BY DEF RunIInv, RunTypes
<1>2. UNCHANGED <<runScene, today, run, exec, member, accrued, notices, erasing>>
  BY DEF X!EndNightDay, X!StartDigest
<1>3. X!NoNight \in Nights /\ X!NoNight.pc = "idle"
  BY DEF Nights
<1>4. night' \in Nights /\ NightsArePast'
  <2>1. CASE X!EndNightDay
    <3>1. CASE night.days = {}
      BY <1>3, <2>1, <3>1 DEF X!EndNightDay, NightsArePast
    <3>2. CASE night.days # {}
      <4>1. night.pc = "pay" /\ night' = [night EXCEPT !.pc = "day"]
        BY <2>1, <3>2 DEF X!EndNightDay
      <4>2. night' \in Nights /\ night'.pc = "day" /\ night'.days = night.days
        BY <1>1, <4>1 DEF Nights
      <4> QED
        BY <1>2, <3>2, <4>1, <4>2 DEF NightsArePast, RunIInv
    <3> QED
      BY <3>1, <3>2
  <2>2. CASE X!StartDigest
    <3> DEFINE earners == {o \in DOMAIN member : <<o, today>> \in accrued}
    <3>1. night' = [X!NoNight EXCEPT !.pc = "tell", !.left = earners] /\ earners \subseteq Owners
      BY <2>2 DEF X!StartDigest, RunIInv, RunTypes
    <3> HIDE DEF earners
    <3>2. night' \in Nights
      BY <1>3, <3>1 DEF Nights
    <3>3. night'.pc = "tell"
      BY <3>1
    <3> QED
      BY <3>2, <3>3 DEF NightsArePast
  <2> QED
    BY <2>1, <2>2
<1> QED
  BY <1>1, <1>2, <1>4, NightMoves

-----------------------------------------------------------------------------
(* Dry runs: members *)

\* What of a snapshot stays when some of its members' numbers do.
LEMMA SnapshotParts ==
  ASSUME NEW r, X!Of(r)' = X!Of(r)
  PROVE  /\ (\A o \in X!Of(r) : member'[o].deposits = member[o].deposits) =>
              X!Snapshot(r)'.capital = X!Snapshot(r).capital
         /\ (\A o \in X!Of(r) : member'[o].withdrawn = member[o].withdrawn) =>
              X!Snapshot(r)'.withdrawn = X!Snapshot(r).withdrawn
<1>1. X!Snapshot(r) = [capital |-> X!SumFunction(Deposited(r)), paid |-> X!SumFunction(PaidOut(r)),
                       withdrawn |-> X!SumFunction(Withdrawn(r))]
  BY DEF X!Snapshot, Deposited, PaidOut, Withdrawn
<1>2. X!Snapshot(r)' = [capital |-> X!SumFunction(Deposited(r)'), paid |-> X!SumFunction(PaidOut(r)'),
                        withdrawn |-> X!SumFunction(Withdrawn(r)')]
  BY DEF X!Snapshot, Deposited, PaidOut, Withdrawn
<1>3. (\A o \in X!Of(r) : member'[o].deposits = member[o].deposits) => Deposited(r)' = Deposited(r)
  BY DEF Deposited
<1>4. (\A o \in X!Of(r) : member'[o].withdrawn = member[o].withdrawn) => Withdrawn(r)' = Withdrawn(r)
  BY DEF Withdrawn
<1> QED
  BY <1>1, <1>2, <1>3, <1>4

\* Members stay who they are: what they hold changes as their run says.
LEMMA HoldingsMove ==
  ASSUME RunIInv, RunTypes', DOMAIN member' = DOMAIN member,
         UNCHANGED <<runScene, today, run, notices, erasing>>,
         \A a \in accrued' : a[1] \in DOMAIN member,
         RunsAreMarked', NightsArePast', X!PaysItsOwn', \A r \in Runs : RunTelescopes(r)',
         \A r \in Runs : run[r].status = "COMPLETE" => X!Snapshot(r)'.capital = X!Snapshot(r).capital
  PROVE  RunIInv'
<1>1. \A r : X!Of(r)' = X!Of(r)
  BY DEF X!Of
<1>2. MembersAreKnown'
  BY <1>1 DEF RunIInv, MembersAreKnown, X!Member
<1>3. ErasuresInOrder' /\ NoticesAreLinked'
  BY <1>1 DEF RunIInv, ErasuresInOrder, NoticesAreLinked
<1>4. ASSUME NEW r \in Runs PROVE RunAddsUp(r)' /\ RunIsKept(r)'
  <2>1. \A field : Months(r, field)' = Months(r, field)
    BY DEF Months
  <2>2. RunAddsUp(r) /\ RunIsKept(r)
    BY DEF RunIInv
  <2> QED
    BY <2>1, <2>2 DEF RunAddsUp, RunIsKept
<1> QED
  BY <1>2, <1>3, <1>4 DEF RunIInv

\* What is accrued that was not is some members', for a day.
AccruedFor(owners, day) ==
  accrued \subseteq accrued' /\ \A a \in accrued' : a \notin accrued => a[1] \in owners /\ a[2] = day

\* An accrual stamps and pays some members for a day, and nobody else.
LEMMA AccrueKeeps ==
  ASSUME RunTypes, NEW owners, owners \subseteq DOMAIN member, NEW day \in Nat, X!Accrue(owners, day),
         UNCHANGED <<runScene, today, run, notices, erasing>>, exec' \in [Runs -> Executions], night' \in Nights
  PROVE  /\ RunTypes' /\ DOMAIN member' = DOMAIN member /\ AccruedFor(owners, day)
         /\ \A r : /\ X!Of(r)' = X!Of(r)
                   /\ X!Snapshot(r)'.capital = X!Snapshot(r).capital
                   /\ X!Snapshot(r)'.withdrawn = X!Snapshot(r).withdrawn
                   /\ X!Snapshot(r).paid <= X!Snapshot(r)'.paid
                   /\ (\A o \in owners : o.run # r) => X!Snapshot(r)' = X!Snapshot(r)
<1>1. /\ accrued' = accrued \union {<<o, day>> : o \in owners}
      /\ member' = [o \in DOMAIN member |->
                      IF o \in owners THEN [member[o] EXCEPT !.last = day] ELSE member[o]]
  BY DEF X!Accrue
<1>2. DOMAIN member' = DOMAIN member
  BY <1>1
<1>3. \A o \in DOMAIN member : /\ member'[o] \in Holdings /\ member'[o].deposits = member[o].deposits
                              /\ member'[o].withdrawn = member[o].withdrawn
  BY <1>1 DEF RunTypes, Holdings
<1>4. accrued' \subseteq Owners \X Nat
  BY <1>1 DEF RunTypes
<1>5. IsFiniteSet(accrued')
  <2> DEFINE f == [o \in owners |-> <<o, day>>]
             T == {<<o, day>> : o \in owners}
  <2>1. f \in Surjection(owners, T)
    BY DEF Surjection
  <2>2. IsFiniteSet(owners)
    BY FS_Subset DEF RunTypes
  <2> HIDE DEF f
  <2>3. IsFiniteSet(T)
    BY <2>1, <2>2, FS_Surjection
  <2>4. IsFiniteSet(accrued)
    BY DEF RunTypes
  <2> HIDE DEF T
  <2>5. IsFiniteSet(accrued \union T)
    BY <2>3, <2>4, FS_Union
  <2> QED
    BY <1>1, <2>5 DEF T
<1>6. member' = [o \in DOMAIN member |-> member'[o]]
  BY <1>1
<1>7. RunTypes'
  BY <1>2, <1>3, <1>4, <1>5, <1>6 DEF RunTypes
<1>8. accrued \subseteq accrued' /\ \A a \in accrued' : a \notin accrued => a[1] \in owners /\ a[2] = day
  BY <1>1
<1>9. \A r : X!Of(r)' = X!Of(r)
  BY <1>2 DEF X!Of
<1>10. ASSUME NEW r
       PROVE  /\ X!Snapshot(r)'.capital = X!Snapshot(r).capital
              /\ X!Snapshot(r)'.withdrawn = X!Snapshot(r).withdrawn
              /\ X!Snapshot(r).paid <= X!Snapshot(r)'.paid
              /\ (\A o \in owners : o.run # r) => X!Snapshot(r)' = X!Snapshot(r)
  <2>1. X!Of(r)' = X!Of(r) /\ X!Of(r) \subseteq DOMAIN member /\ \A o \in X!Of(r) : o.run = r
    BY <1>9 DEF X!Of
  <2>2. /\ \A o \in X!Of(r) : member'[o].deposits = member[o].deposits
        /\ \A o \in X!Of(r) : member'[o].withdrawn = member[o].withdrawn
    BY <1>3, <2>1
  <2>3. /\ X!Snapshot(r)'.capital = X!Snapshot(r).capital /\ X!Snapshot(r)'.withdrawn = X!Snapshot(r).withdrawn
    BY <2>1, <2>2, SnapshotParts
  <2>4. X!Snapshot(r).paid <= X!Snapshot(r)'.paid
    BY <1>7, <1>8, <2>1, PaidGrows
  <2>5. ASSUME \A o \in owners : o.run # r PROVE X!Snapshot(r)' = X!Snapshot(r)
    <3>1. {a \in accrued' : a[1] \in X!Of(r)} = {a \in accrued : a[1] \in X!Of(r)}
      BY <1>8, <2>1, <2>5
    <3> QED
      BY <2>1, <2>2, <3>1, SnapshotStays
  <2> QED
    BY <2>3, <2>4, <2>5
<1> QED
  BY <1>2, <1>7, <1>8, <1>9, <1>10 DEF AccruedFor

\* A run pays its own members for the day it has reached.
LEMMA AccrueDayOfRun ==
  ASSUME RunIInv, NEW r \in Runs, X!AccrueDay(r)
  PROVE  RunIInv'
<1> DEFINE day == exec[r].day
           x == [exec[r] EXCEPT !.pc = "act"]
<1>1. exec[r] \in Executions /\ exec[r].pc = "join" /\ run[r].status = "RUNNING"
  BY DEF X!AccrueDay, RunIInv, RunTypes, RunsAreMarked
<1>2. day \in Nat /\ x \in Executions /\ x.pc = "act" /\ x.day = day /\ x.before = exec[r].before
      /\ x.withdrawn = exec[r].withdrawn
  BY <1>1 DEF Executions
<1>3. PICK owners : owners \subseteq DOMAIN member /\ (\A o \in owners : o.run = r) /\ X!Accrue(owners, day)
  <2>1. CASE day \in Trading
    BY <2>1 DEF X!AccrueDay, X!Owed, X!Holders
  <2>2. CASE day \notin Trading
    <3>1. accrued' = accrued /\ member' = member
      BY <2>2 DEF X!AccrueDay
    <3>2. member \in [DOMAIN member -> Holdings]
      BY DEF RunIInv, RunTypes
    <3>3. X!Accrue({}, day)
      BY <3>1, <3>2 DEF X!Accrue
    <3> QED
      BY <3>3
  <2> QED
    BY <2>1, <2>2
<1>4. exec' = [exec EXCEPT ![r] = x] /\ UNCHANGED <<runScene, today, run, notices, night, erasing>>
  BY DEF X!AccrueDay
<1> HIDE DEF x, day
<1>5. exec' \in [Runs -> Executions] /\ exec'[r] = x /\ \A s \in Runs \ {r} : exec'[s] = exec[s]
  BY <1>2, <1>4 DEF RunIInv, RunTypes
<1>6. night' \in Nights
  BY <1>4 DEF RunIInv, RunTypes
<1>7. RunTypes' /\ DOMAIN member' = DOMAIN member /\ AccruedFor(owners, day)
  BY <1>2, <1>3, <1>4, <1>5, <1>6, AccrueKeeps DEF RunIInv
<1>8. \A s : /\ X!Of(s)' = X!Of(s)
             /\ X!Snapshot(s)'.capital = X!Snapshot(s).capital
             /\ X!Snapshot(s)'.withdrawn = X!Snapshot(s).withdrawn
             /\ X!Snapshot(s).paid <= X!Snapshot(s)'.paid
             /\ s # r => X!Snapshot(s)' = X!Snapshot(s)
  BY <1>2, <1>3, <1>4, <1>5, <1>6, AccrueKeeps DEF RunIInv
<1>9. \A a \in accrued' : a[1] \in DOMAIN member
  BY <1>3, <1>7 DEF RunIInv, MembersAreKnown, AccruedFor
<1>10. RunsAreMarked'
  BY <1>1, <1>2, <1>4, <1>5, <1>8 DEF RunIInv, RunsAreMarked
<1>11. NightsArePast'
  BY <1>4 DEF RunIInv, NightsArePast
<1>12. X!PaysItsOwn'
  <2> SUFFICES ASSUME NEW a \in accrued', ~(a[2] <= today)
               PROVE  a[1].run # Real /\ (exec'[a[1].run].pc = "idle" \/ a[2] <= exec'[a[1].run].day)
    BY <1>4 DEF X!PaysItsOwn
  <2>1. CASE a \in accrued
    <3>1. a[1].run # Real /\ (exec[a[1].run].pc = "idle" \/ a[2] <= exec[a[1].run].day)
      BY <2>1 DEF RunIInv, X!PaysItsOwn
    <3>2. a[1].run \in Runs
      BY <2>1, <3>1 DEF RunIInv, RunTypes, Owners
    <3> QED
      BY <1>1, <1>2, <1>5, <3>1, <3>2 DEF day
  <2>2. CASE a \notin accrued
    <3>1. a[1].run = r /\ a[2] = day /\ r # Real
      BY <1>3, <1>7, <2>2, RunsAssumption DEF AccruedFor
    <3> QED
      BY <1>2, <1>5, <3>1
  <2> QED
    BY <2>1, <2>2
<1>13. ASSUME NEW s \in Runs PROVE RunTelescopes(s)'
  <2>1. CASE s = r
    <3>1. RunTelescopes(r) /\ \A field : Months(r, field)' = Months(r, field)
      BY <1>4 DEF RunIInv, Months
    <3>2. exec[r].before.paid \in Int /\ X!Snapshot(r).paid \in Int /\ X!Snapshot(r)'.paid \in Int
      <4>1. X!Snapshot(r) \in Money /\ exec[r].before \in Money
        BY <1>1, SnapshotSums DEF RunIInv, SnapshotIsSums, Executions
      <4>2. X!Snapshot(r)' \in Money
        BY <1>7, NextSnapshotSums DEF SnapshotIsSums
      <4> QED
        BY <4>1, <4>2 DEF Money
    <3>3. exec[r].before.paid <= X!Snapshot(r)'.paid
      BY <1>1, <1>8, <3>1, <3>2 DEF RunTelescopes
    <3>4. X!Snapshot(r)'.withdrawn = X!Snapshot(r).withdrawn
      BY <1>8
    <3> QED
      BY <1>1, <1>2, <1>4, <1>5, <2>1, <3>1, <3>3, <3>4 DEF RunTelescopes
  <2>2. CASE s # r
    <3>1. X!Snapshot(s)' = X!Snapshot(s)
      BY <1>8, <2>2
    <3> QED
      BY <1>4, <1>5, <2>2, <3>1, RunStays
  <2> QED
    BY <2>1, <2>2
<1>14. \A s \in Runs : X!Snapshot(s)'.capital = X!Snapshot(s).capital
  BY <1>8
<1> QED
  BY <1>4, <1>7, <1>9, <1>10, <1>11, <1>12, <1>13, <1>14, HoldingsMove

\* The nightly accrual pays whoever is there for a day that is past.
LEMMA PayAtNightOfRuns ==
  ASSUME RunIInv, NEW o, X!PayAtNight(o)
  PROVE  RunIInv'
<1> DEFINE day == night.day
<1>1. night \in Nights /\ night.pc = "pay" /\ o \in night.left
  BY DEF X!PayAtNight, RunIInv, RunTypes
<1>2. day \in Nat /\ day <= today /\ runScene.nights
  BY <1>1 DEF Nights, RunIInv, NightsArePast
<1>3. PICK owners : owners \subseteq DOMAIN member /\ X!Accrue(owners, day)
  <2>1. CASE o \in DOMAIN member /\ <<o, night.day>> \notin accrued
    <3>1. X!Accrue({o}, day)
      BY <2>1 DEF X!PayAtNight
    <3> QED
      BY <2>1, <3>1
  <2>2. CASE ~(o \in DOMAIN member /\ <<o, night.day>> \notin accrued)
    <3>1. accrued' = accrued /\ member' = member
      BY <2>2 DEF X!PayAtNight
    <3>2. member \in [DOMAIN member -> Holdings]
      BY DEF RunIInv, RunTypes
    <3>3. X!Accrue({}, day)
      BY <3>1, <3>2 DEF X!Accrue
    <3> QED
      BY <3>3
  <2> QED
    BY <2>1, <2>2
<1>4. night' = [night EXCEPT !.left = night.left \ {o}]
      /\ UNCHANGED <<runScene, today, run, exec, notices, erasing>>
  BY DEF X!PayAtNight
<1>5. exec' \in [Runs -> Executions]
  BY <1>4 DEF RunIInv, RunTypes
<1>6. night' \in Nights /\ night'.pc = "pay" /\ night'.days = night.days /\ night'.day = night.day
  <2>1. night.left \ {o} \subseteq Owners
    BY <1>1 DEF Nights
  <2> QED
    BY <1>1, <1>4, <2>1 DEF Nights
<1> HIDE DEF day
<1>7. RunTypes' /\ DOMAIN member' = DOMAIN member /\ AccruedFor(owners, day)
  BY <1>2, <1>3, <1>4, <1>5, <1>6, AccrueKeeps DEF RunIInv
<1>8. \A s : /\ X!Of(s)' = X!Of(s)
             /\ X!Snapshot(s)'.capital = X!Snapshot(s).capital
             /\ X!Snapshot(s)'.withdrawn = X!Snapshot(s).withdrawn
             /\ X!Snapshot(s).paid <= X!Snapshot(s)'.paid
  BY <1>2, <1>3, <1>4, <1>5, <1>6, AccrueKeeps DEF RunIInv
<1>9. \A a \in accrued' : a[1] \in DOMAIN member
  BY <1>3, <1>7 DEF RunIInv, MembersAreKnown, AccruedFor
<1>10. RunsAreMarked'
  BY <1>4, <1>8 DEF RunIInv, RunsAreMarked
<1>11. NightsArePast'
  BY <1>1, <1>4, <1>6 DEF RunIInv, NightsArePast
<1>12. X!PaysItsOwn'
  <2>1. \A a \in accrued' : a \notin accrued => a[2] <= today
    BY <1>2, <1>7 DEF AccruedFor
  <2> QED
    BY <1>4, <2>1 DEF RunIInv, X!PaysItsOwn
<1>13. ASSUME NEW s \in Runs PROVE RunTelescopes(s)'
  <2>1. RunTelescopes(s) /\ exec[s] \in Executions /\ \A field : Months(s, field)' = Months(s, field)
    BY <1>4 DEF RunIInv, RunTypes, Months
  <2>2. exec[s].before.paid \in Int /\ X!Snapshot(s).paid \in Int /\ X!Snapshot(s)'.paid \in Int
    <3>1. X!Snapshot(s) \in Money /\ exec[s].before \in Money
      BY <2>1, SnapshotSums DEF RunIInv, SnapshotIsSums, Executions
    <3>2. X!Snapshot(s)' \in Money
      BY <1>7, NextSnapshotSums DEF SnapshotIsSums
    <3> QED
      BY <3>1, <3>2 DEF Money
  <2> QED
    BY <1>2, <1>4, <1>8, <2>1, <2>2 DEF RunTelescopes
<1>14. \A s \in Runs : X!Snapshot(s)'.capital = X!Snapshot(s).capital
  BY <1>8
<1> QED
  BY <1>4, <1>7, <1>9, <1>10, <1>11, <1>12, <1>13, <1>14, HoldingsMove

\* One member of a run that acts buys, or spends what it earned.
LEMMA BuyAgainOfRun ==
  ASSUME RunIInv, NEW r \in Runs, NEW o \in X!Of(r), X!BuyAgain(r, o) \/ X!Compound(r, o) \/ X!Withdraw(r, o)
  PROVE  RunIInv'
<1> USE DEF X!BuyAgain, X!Compound, X!Withdraw
<1>1. /\ exec[r] \in Executions /\ exec[r].pc = "act" /\ run[r].status = "RUNNING"
      /\ o \in DOMAIN member /\ member[o] \in Holdings /\ o.run = r
      /\ exec[r].withdrawn \in Int
  BY DEF RunIInv, RunTypes, RunsAreMarked, X!Of, Executions
<1>2. PICK h \in Holdings, n \in {0, 1} :
        /\ member' = [member EXCEPT ![o] = h] /\ h.withdrawn = member[o].withdrawn + n
        /\ exec' = [exec EXCEPT ![r] = [exec[r] EXCEPT !.withdrawn = exec[r].withdrawn + n]]
  <2>1. CASE X!BuyAgain(r, o)
    <3> DEFINE h == [member[o] EXCEPT !.deposits = member[o].deposits + 1]
    <3>1. member' = [member EXCEPT ![o] = h] /\ h \in Holdings /\ h.withdrawn = member[o].withdrawn + 0
      BY <1>1, <2>1 DEF Holdings
    <3>2. exec' = [exec EXCEPT ![r] = [exec[r] EXCEPT !.withdrawn = exec[r].withdrawn + 0]]
      BY <1>1, <2>1 DEF RunIInv, RunTypes, Executions
    <3> HIDE DEF h
    <3> QED
      BY <3>1, <3>2
  <2>2. CASE X!Compound(r, o)
    <3> DEFINE h == [member[o] EXCEPT !.spent = member[o].spent + 1]
    <3>1. member' = [member EXCEPT ![o] = h] /\ h \in Holdings /\ h.withdrawn = member[o].withdrawn + 0
      BY <1>1, <2>2 DEF Holdings
    <3>2. exec' = [exec EXCEPT ![r] = [exec[r] EXCEPT !.withdrawn = exec[r].withdrawn + 0]]
      BY <1>1, <2>2 DEF RunIInv, RunTypes, Executions
    <3> HIDE DEF h
    <3> QED
      BY <3>1, <3>2
  <2>3. CASE X!Withdraw(r, o)
    <3> DEFINE h == [member[o] EXCEPT !.spent = member[o].spent + 1, !.withdrawn = member[o].withdrawn + 1]
    <3>1. member' = [member EXCEPT ![o] = h] /\ h \in Holdings /\ h.withdrawn = member[o].withdrawn + 1
      <4> DEFINE one == [member EXCEPT ![o] = [member[o] EXCEPT !.spent = member[o].spent + 1]]
      <4>1. member' = [one EXCEPT ![o] = [one[o] EXCEPT !.withdrawn = one[o].withdrawn + 1]]
        BY <2>3
      <4>2. one[o] = [member[o] EXCEPT !.spent = member[o].spent + 1] /\ one[o].withdrawn = member[o].withdrawn
        BY <1>1 DEF Holdings
      <4>3. [one[o] EXCEPT !.withdrawn = one[o].withdrawn + 1] = h
        BY <4>2
      <4>4. member' = [member EXCEPT ![o] = h]
        BY <4>1, <4>3
      <4>5. member[o].spent + 1 \in Nat /\ member[o].withdrawn + 1 \in Nat
        BY <1>1 DEF Holdings
      <4>6. h \in Holdings
        BY <1>1, <4>5 DEF Holdings
      <4>7. h.withdrawn = member[o].withdrawn + 1
        BY <1>1 DEF Holdings
      <4> QED
        BY <4>4, <4>6, <4>7
    <3>2. exec' = [exec EXCEPT ![r] = [exec[r] EXCEPT !.withdrawn = exec[r].withdrawn + 1]]
      BY <1>1, <2>3 DEF RunIInv, RunTypes, Executions
    <3> HIDE DEF h
    <3> QED
      BY <3>1, <3>2
  <2> QED
    BY <2>1, <2>2, <2>3
<1> DEFINE x == [exec[r] EXCEPT !.withdrawn = exec[r].withdrawn + n]
<1>3. /\ x \in Executions /\ x.pc = "act" /\ x.day = exec[r].day /\ x.before = exec[r].before
      /\ x.withdrawn = exec[r].withdrawn + n
  BY <1>1 DEF Executions
<1>4. UNCHANGED <<runScene, today, run, accrued, notices, night, erasing>>
  OBVIOUS
<1> HIDE DEF X!BuyAgain, X!Compound, X!Withdraw
<1>5. exec' = [exec EXCEPT ![r] = x]
  BY <1>2
<1> HIDE DEF x
<1>6. exec' \in [Runs -> Executions] /\ exec'[r] = x /\ \A s \in Runs \ {r} : exec'[s] = exec[s]
  BY <1>3, <1>5 DEF RunIInv, RunTypes
<1>7. /\ DOMAIN member' = DOMAIN member /\ member' \in [DOMAIN member -> Holdings] /\ member'[o] = h
      /\ \A p \in DOMAIN member : p # o => member'[p] = member[p]
  BY <1>1, <1>2 DEF RunIInv, RunTypes
<1>8. RunTypes'
  BY <1>4, <1>6, <1>7 DEF RunIInv, RunTypes
<1>9. \A s : X!Of(s)' = X!Of(s) /\ X!Of(s) \subseteq DOMAIN member /\ \A p \in X!Of(s) : p.run = s
  BY <1>7 DEF X!Of
<1>10. ASSUME NEW s \in Runs, s # r PROVE X!Snapshot(s)' = X!Snapshot(s)
  <2>1. \A p \in X!Of(s) : member'[p] = member[p]
    BY <1>1, <1>7, <1>9, <1>10
  <2> QED
    BY <1>4, <1>9, <2>1, SnapshotStays DEF RunIInv
<1>11. X!Snapshot(r)'.withdrawn = X!Snapshot(r).withdrawn + n
  <2> DEFINE f == Withdrawn(r)
             e == Withdrawn(r)'
             S == X!Of(r)
  <2>1. IsFiniteSet(S) /\ S \subseteq DOMAIN member /\ f \in [S -> Nat] /\ X!Snapshot(r).withdrawn = SumOver(f, S)
    BY SnapshotSums DEF RunIInv, SnapshotIsSums
  <2>2. e \in [S -> Nat] /\ X!Snapshot(r)'.withdrawn = SumOver(e, S)
    BY <1>8, <1>9, NextSnapshotSums DEF SnapshotIsSums
  <2>3. \A p \in S : f[p] = member[p].withdrawn /\ e[p] = member'[p].withdrawn
    BY <1>9 DEF Withdrawn
  <2> HIDE DEF f, e, S
  <2>4. o \in S /\ e[o] = f[o] + n
    BY <1>2, <1>7, <2>3 DEF S
  <2>5. \A p \in S : f[p] \in Int /\ e[p] \in Int /\ (p # o => e[p] = f[p])
    BY <1>7, <2>1, <2>2, <2>3
  <2>6. n \in Int
    OBVIOUS
  <2>7. SumOver(e, S) = SumOver(f, S) + n
    BY <2>1, <2>4, <2>5, <2>6, SumChange
  <2> QED
    BY <2>1, <2>2, <2>7
<1>12. X!Snapshot(r).paid <= X!Snapshot(r)'.paid /\ X!Snapshot(r).paid \in Int /\ X!Snapshot(r)'.paid \in Int
       /\ X!Snapshot(r).withdrawn \in Int
  <2>1. X!Snapshot(r).paid <= X!Snapshot(r)'.paid
    BY <1>4, <1>8, <1>9, PaidGrows DEF RunIInv
  <2>2. X!Snapshot(r) \in Money
    BY SnapshotSums DEF RunIInv, SnapshotIsSums
  <2>3. X!Snapshot(r)' \in Money
    BY <1>8, NextSnapshotSums DEF SnapshotIsSums
  <2> QED
    BY <2>1, <2>2, <2>3 DEF Money
<1>13. ASSUME NEW s \in Runs PROVE RunTelescopes(s)'
  <2>1. CASE s = r
    <3>1. RunTelescopes(r) /\ exec[r].before \in Money /\ \A field : Months(r, field)' = Months(r, field)
      BY <1>1, <1>4 DEF RunIInv, Executions, Months
    <3>2. exec[r].before.paid \in Int
      BY <3>1 DEF Money
    <3>3. /\ Months(r, "capital") = exec[r].before.capital /\ Months(r, "paid") = exec[r].before.paid
          /\ Months(r, "withdrawn") + exec[r].withdrawn = X!Snapshot(r).withdrawn
          /\ exec[r].before.paid <= X!Snapshot(r).paid
      BY <1>1, <3>1 DEF RunTelescopes
    <3>4. exec[r].before.paid <= X!Snapshot(r)'.paid
      BY <1>12, <3>2, <3>3
    <3>5. Months(r, "withdrawn") \in Int
      BY <1>1, MonthsType DEF RunIInv, RunTypes
    <3>6. Months(r, "withdrawn") + (exec[r].withdrawn + n) = X!Snapshot(r)'.withdrawn
      BY <1>1, <1>11, <3>3, <3>5
    <3>7. run'[r].status = "RUNNING"
      BY <1>1, <1>4
    <3> QED
      BY <1>3, <1>6, <2>1, <3>1, <3>3, <3>4, <3>6, <3>7 DEF RunTelescopes
  <2>2. CASE s # r
    BY <1>4, <1>6, <1>10, <2>2, RunStays
  <2> QED
    BY <2>1, <2>2
<1>14. \A s \in Runs : run[s].status = "COMPLETE" => X!Snapshot(s)'.capital = X!Snapshot(s).capital
  BY <1>1, <1>10
<1>15. \A a \in accrued' : a[1] \in DOMAIN member
  BY <1>4 DEF RunIInv, MembersAreKnown
<1>16. RunsAreMarked' /\ NightsArePast'
  BY <1>1, <1>3, <1>4, <1>6, <1>9 DEF RunIInv, RunsAreMarked, NightsArePast
<1>17. X!PaysItsOwn'
  <2>1. \A a \in accrued : a[1].run # Real => a[1].run \in Runs
    BY DEF RunIInv, RunTypes, Owners
  <2> QED
    BY <1>1, <1>3, <1>4, <1>6, <2>1 DEF RunIInv, X!PaysItsOwn
<1> QED
  BY <1>4, <1>7, <1>8, <1>13, <1>14, <1>15, <1>16, <1>17, HoldingsMove

\* Who joins is the next of the run: it has earned and withdrawn nothing yet.
LEMMA JoinOfRun ==
  ASSUME RunIInv, NEW r \in Runs, X!Join(r)
  PROVE  RunIInv'
<1> DEFINE new == X!Member(r, Cardinality(X!Of(r)) + 1)
<1>1. PICK day \in {0, today} :
        member' = [o \in DOMAIN member \union {new} |-> IF o = new THEN X!Holding(day, 1) ELSE member[o]]
  BY RunsCount DEF X!Join
<1>2. /\ exec[r].pc \in {"found", "join"} /\ run[r].status = "RUNNING" /\ r # Real
      /\ UNCHANGED <<runScene, today, run, exec, accrued, notices, night, erasing>>
  BY RunsAssumption DEF X!Join, RunIInv, RunsAreMarked
<1>3. SnapshotIsSums(r) /\ IsFiniteSet(X!Of(r)) /\ Cardinality(X!Of(r)) \in Nat
  <2>1. SnapshotIsSums(r)
    BY SnapshotSums DEF RunIInv
  <2> QED
    BY <2>1, FS_CardinalityType DEF SnapshotIsSums
<1>4. new \in Owners /\ new.run = r /\ new.n = Cardinality(X!Of(r)) + 1
  BY <1>3 DEF Owners, X!Member
<1>5. new \notin DOMAIN member
  <2> SUFFICES ASSUME new \in DOMAIN member PROVE FALSE
    OBVIOUS
  <2>1. new.n <= Cardinality(X!Of(r))
    BY <1>4 DEF RunIInv, MembersAreKnown
  <2> QED
    BY <1>3, <1>4, <2>1
<1>6. X!Holding(day, 1) \in Holdings /\ X!Holding(day, 1).withdrawn = 0
  BY DEF X!Holding, Holdings, RunIInv, RunTypes
<1> HIDE DEF new
<1>7. /\ DOMAIN member' = DOMAIN member \union {new} /\ member'[new] = X!Holding(day, 1)
      /\ \A o \in DOMAIN member : member'[o] = member[o]
  BY <1>1, <1>5
<1>8. RunTypes'
  <2>1. DOMAIN member' \subseteq Owners
    BY <1>4, <1>7 DEF RunIInv, RunTypes
  <2>2. IsFiniteSet(DOMAIN member')
    <3>1. IsFiniteSet(DOMAIN member)
      BY DEF RunIInv, RunTypes
    <3> QED
      BY <1>7, <3>1, FS_AddElement
  <2>3. member' \in [DOMAIN member' -> Holdings]
    BY <1>1, <1>6, <1>7 DEF RunIInv, RunTypes
  <2> QED
    BY <1>2, <2>1, <2>2, <2>3 DEF RunIInv, RunTypes
<1>9. /\ X!Of(r)' = X!Of(r) \union {new} /\ new \notin X!Of(r) /\ X!Of(r) \subseteq DOMAIN member
      /\ \A s : s # r => X!Of(s)' = X!Of(s)
      /\ \A s : X!Of(s) \subseteq DOMAIN member
  BY <1>4, <1>5, <1>7 DEF X!Of
<1>10. MembersAreKnown'
  <2>1. Cardinality(X!Of(r)') = Cardinality(X!Of(r)) + 1
    BY <1>3, <1>9, FS_AddElement
  <2>2. X!Member(Real, 1)' = X!Member(Real, 1)
    BY DEF X!Member
  <2>3. ASSUME NEW o \in DOMAIN member'
        PROVE  /\ o.run # Real => run'[o.run].status \notin {"none", "ERASED"}
               /\ o.n <= Cardinality(X!Of(o.run)')
    <3>1. CASE o = new
      BY <1>2, <1>3, <1>4, <2>1, <3>1
    <3>2. CASE o # new
      <4>1. o \in DOMAIN member /\ o.n \in Nat
        BY <1>7, <3>2 DEF RunIInv, RunTypes, Owners
      <4>2. o.n <= Cardinality(X!Of(o.run)) /\ (o.run # Real => run[o.run].status \notin {"none", "ERASED"})
        BY <4>1 DEF RunIInv, MembersAreKnown
      <4>3. CASE o.run = r
        BY <1>2, <1>3, <2>1, <4>1, <4>2, <4>3
      <4>4. CASE o.run # r
        BY <1>2, <1>9, <4>2, <4>4
      <4> QED
        BY <4>3, <4>4
    <3> QED
      BY <3>1, <3>2
  <2>4. \A a \in accrued' : a[1] \in DOMAIN member'
    BY <1>2, <1>7 DEF RunIInv, MembersAreKnown
  <2>5. X!Member(Real, 1) \in DOMAIN member'
    BY <1>7 DEF RunIInv, MembersAreKnown
  <2> QED
    BY <2>2, <2>3, <2>4, <2>5 DEF MembersAreKnown
<1>11. RunsAreMarked' /\ NightsArePast'
  BY <1>2, <1>9 DEF RunIInv, RunsAreMarked, NightsArePast
<1>12. ErasuresInOrder'
  BY <1>2, <1>9 DEF RunIInv, ErasuresInOrder
<1>13. NoticesAreLinked' /\ X!PaysItsOwn'
  BY <1>2, <1>7 DEF RunIInv, NoticesAreLinked, X!PaysItsOwn
<1>14. ASSUME NEW s \in Runs, s # r PROVE X!Snapshot(s)' = X!Snapshot(s)
  BY <1>2, <1>7, <1>9, <1>14, SnapshotStays DEF RunIInv
<1>15. X!Snapshot(r)'.withdrawn = X!Snapshot(r).withdrawn /\ X!Snapshot(r).paid <= X!Snapshot(r)'.paid
  <2> DEFINE S == X!Of(r)
             T == X!Of(r)'
             f == Withdrawn(r)
             e == Withdrawn(r)'
             g == PaidOut(r)
             h == PaidOut(r)'
  <2>1. /\ IsFiniteSet(S) /\ f \in [S -> Nat] /\ g \in [S -> Nat]
        /\ X!Snapshot(r).withdrawn = SumOver(f, S) /\ X!Snapshot(r).paid = SumOver(g, S)
    BY <1>3 DEF SnapshotIsSums
  <2>2. /\ IsFiniteSet(T) /\ e \in [T -> Nat] /\ h \in [T -> Nat]
        /\ X!Snapshot(r)'.withdrawn = SumOver(e, T) /\ X!Snapshot(r)'.paid = SumOver(h, T)
    BY <1>8, NextSnapshotSums DEF SnapshotIsSums
  <2>3. \A o \in S : e[o] = f[o] /\ h[o] = g[o]
    <3>1. \A o : X!Paid(o)' = X!Paid(o)
      BY <1>2 DEF X!Paid, X!Quantify
    <3> QED
      BY <1>7, <1>9, <3>1 DEF Withdrawn, PaidOut
  <2>4. T = S \union {new} /\ new \notin S
    BY <1>9
  <2>5. e[new] = 0
    BY <1>6, <1>7, <1>9 DEF Withdrawn
  <2> HIDE DEF S, T, f, e, g, h
  <2>6. /\ SumOver(e, T) = e[new] + SumOver(e, T \ {new})
        /\ SumOver(h, T) = h[new] + SumOver(h, T \ {new})
    <3>1. \A o \in T : e[o] \in Int /\ h[o] \in Int
      BY <2>2
    <3> QED
      BY <2>2, <2>4, <3>1, SumAdds
  <2>7. T \ {new} = S
    BY <2>4
  <2>8. SumOver(e, S) = SumOver(f, S) /\ SumOver(h, S) = SumOver(g, S)
    BY <2>1, <2>3, SumSame
  <2>9. SumOver(f, S) \in Nat /\ SumOver(g, S) \in Nat
    BY <2>1, SumNatural
  <2>10. h[new] \in Nat
    BY <2>2, <2>4
  <2> QED
    BY <2>1, <2>2, <2>5, <2>6, <2>7, <2>8, <2>9, <2>10
<1>16. ASSUME NEW s \in Runs PROVE RunTelescopes(s)' /\ RunAddsUp(s)' /\ RunIsKept(s)'
  <2>1. CASE s = r
    <3>1. RunTelescopes(r) /\ exec[r] \in Executions /\ \A field : Months(r, field)' = Months(r, field)
      BY <1>2 DEF RunIInv, RunTypes, Months
    <3>2. exec[r].before.paid \in Int /\ X!Snapshot(r).paid \in Int /\ X!Snapshot(r)'.paid \in Int
      <4>1. X!Snapshot(r) \in Money /\ exec[r].before \in Money
        BY <1>3, <3>1 DEF SnapshotIsSums, Executions
      <4>2. X!Snapshot(r)' \in Money
        BY <1>8, NextSnapshotSums DEF SnapshotIsSums
      <4> QED
        BY <4>1, <4>2 DEF Money
    <3>3. RunTelescopes(r)'
      BY <1>2, <1>15, <3>1, <3>2 DEF RunTelescopes
    <3> QED
      BY <1>2, <2>1, <3>3 DEF RunAddsUp, RunIsKept
  <2>2. CASE s # r
    BY <1>2, <1>14, <2>2, RunStays
  <2> QED
    BY <2>1, <2>2
<1> QED
  BY <1>8, <1>10, <1>11, <1>12, <1>13, <1>16 DEF RunIInv

-----------------------------------------------------------------------------
(* Dry runs: the digest and the erasure *)

\* Whoever is told after it was unlinked is told late.
LEMMA TellOfRuns ==
  ASSUME RunIInv, NEW o, X!Tell(o)
  PROVE  RunIInv'
<1> DEFINE late == X!Unlinked(o)
<1>1. night \in Nights /\ night.pc = "tell" /\ o \in night.left /\ o \in Owners
  BY DEF X!Tell, RunIInv, RunTypes, Nights
<1>2. /\ notices' = notices \union {[to |-> o, late |-> late]} /\ late \in BOOLEAN
      /\ UNCHANGED <<runScene, today, run, exec, member, accrued, erasing>>
      /\ night' = IF night.left = {o} THEN X!NoNight ELSE [night EXCEPT !.left = night.left \ {o}]
  BY DEF X!Tell, X!Unlinked
<1>3. night' \in Nights /\ night'.pc \in {"idle", "tell"}
  <2>1. CASE night.left = {o}
    BY <1>2, <2>1 DEF Nights
  <2>2. CASE night.left # {o}
    <3>1. night.left \ {o} \subseteq Owners
      BY <1>1 DEF Nights
    <3> QED
      BY <1>1, <1>2, <2>2, <3>1 DEF Nights
  <2> QED
    BY <2>1, <2>2
<1>4. ~late => o \in DOMAIN member /\ ~(erasing.pc \in {"delete", "mark"} /\ erasing.of = o.run)
  BY DEF X!Unlinked
<1> HIDE DEF late
<1>5. NoticesAreLinked'
  <2> SUFFICES ASSUME NEW x \in notices', ~x.late
               PROVE  x.to \in DOMAIN member /\ ~(erasing.pc \in {"delete", "mark"} /\ erasing.of = x.to.run)
    BY <1>2 DEF NoticesAreLinked
  <2>1. CASE x \in notices
    BY <2>1 DEF RunIInv, NoticesAreLinked
  <2>2. CASE x = [to |-> o, late |-> late]
    BY <1>4, <2>2
  <2> QED
    BY <1>2, <2>1, <2>2
<1>6. RunTypes'
  <2>1. notices' \subseteq [to : Owners, late : BOOLEAN]
    BY <1>1, <1>2 DEF RunIInv, RunTypes
  <2> QED
    BY <1>2, <1>3, <2>1 DEF RunIInv, RunTypes
<1>7. \A r : X!Of(r)' = X!Of(r) /\ X!Snapshot(r)' = X!Snapshot(r)
  BY <1>2, SnapshotStays DEF X!Of, RunIInv
<1>8. MembersAreKnown' /\ RunsAreMarked' /\ NightsArePast' /\ ErasuresInOrder'
  BY <1>2, <1>3, <1>7 DEF RunIInv, MembersAreKnown, RunsAreMarked, NightsArePast, ErasuresInOrder, X!Member
<1>9. X!PaysItsOwn'
  BY <1>2 DEF RunIInv, X!PaysItsOwn
<1>10. \A r \in Runs : RunTelescopes(r)' /\ RunAddsUp(r)' /\ RunIsKept(r)'
  BY <1>2, <1>7, RunStays
<1> QED
  BY <1>5, <1>6, <1>8, <1>9, <1>10 DEF RunIInv

\* Erasing moves on without touching a member: what it says of itself must be so.
LEMMA ErasureMoves ==
  ASSUME RunIInv, UNCHANGED <<runScene, today, run, exec, member, accrued, night>>,
         erasing' \in Erasures, ErasuresInOrder', notices' \subseteq notices, NoticesAreLinked',
         erasing.pc # "idle" => erasing'.of = erasing.of
  PROVE  RunIInv'
<1>1. RunTypes'
  BY DEF RunIInv, RunTypes
<1>2. \A r : X!Of(r)' = X!Of(r) /\ X!Snapshot(r)' = X!Snapshot(r)
  BY SnapshotStays DEF X!Of, RunIInv
<1>3. MembersAreKnown' /\ RunsAreMarked' /\ NightsArePast'
  BY <1>2 DEF RunIInv, MembersAreKnown, RunsAreMarked, NightsArePast, X!Member
<1>4. X!PaysItsOwn'
  BY DEF RunIInv, X!PaysItsOwn
<1>5. \A r \in Runs : erasing.of = r => erasing.pc # "idle"
  BY RunsAssumption DEF RunIInv, ErasuresInOrder
<1>6. \A r \in Runs : RunTelescopes(r)' /\ RunAddsUp(r)' /\ RunIsKept(r)'
  BY <1>2, <1>5, RunStays
<1> QED
  BY <1>1, <1>3, <1>4, <1>6 DEF RunIInv

\* The members of a run that is not going are listed.
LEMMA StartEraseOfRun ==
  ASSUME RunIInv, NEW r \in Runs, X!StartErase(r)
  PROVE  RunIInv'
<1>1. /\ erasing.pc = "idle" /\ run[r].status \notin {"none", "RUNNING"}
      /\ erasing' = [pc |-> "unlink", of |-> r, ids |-> X!Of(r)]
      /\ UNCHANGED <<runScene, today, run, exec, member, accrued, notices, night>>
  BY DEF X!StartErase
<1>2. X!Of(r) \subseteq Owners /\ X!Of(r)' = X!Of(r)
  BY <1>1 DEF X!Of, RunIInv, RunTypes
<1>3. erasing' \in Erasures
  BY <1>1, <1>2 DEF Erasures
<1>4. ErasuresInOrder' /\ NoticesAreLinked'
  BY <1>1, <1>2 DEF RunIInv, ErasuresInOrder, NoticesAreLinked
<1> QED
  BY <1>1, <1>3, <1>4, ErasureMoves

\* Their notifications go.
LEMMA UnlinkOfRun ==
  ASSUME RunIInv, X!Unlink
  PROVE  RunIInv'
<1>1. /\ erasing.pc = "unlink" /\ erasing' = [erasing EXCEPT !.pc = "delete"]
      /\ notices' = {x \in notices : x.to \notin erasing.ids}
      /\ UNCHANGED <<runScene, today, run, exec, member, accrued, night>>
  BY DEF X!Unlink
<1>2. erasing \in Erasures
  BY DEF RunIInv, RunTypes
<1>3. erasing' \in Erasures /\ erasing'.pc = "delete" /\ erasing'.of = erasing.of
  BY <1>1, <1>2 DEF Erasures
<1>4. ErasuresInOrder'
  BY <1>1, <1>3 DEF RunIInv, ErasuresInOrder
<1>5. NoticesAreLinked'
  <2> SUFFICES ASSUME NEW x \in notices, x.to \notin erasing.ids, ~x.late
               PROVE  x.to \in DOMAIN member /\ ~(erasing.of = x.to.run)
    BY <1>1, <1>3 DEF NoticesAreLinked
  <2>1. x.to \in DOMAIN member /\ X!Of(erasing.of) \subseteq erasing.ids
    BY <1>1 DEF RunIInv, NoticesAreLinked, ErasuresInOrder
  <2> QED
    BY <2>1 DEF X!Of
<1> QED
  BY <1>1, <1>3, <1>4, <1>5, ErasureMoves

\* The members go, and only they.
LEMMA DeleteOfRun ==
  ASSUME RunIInv, X!Delete
  PROVE  RunIInv'
<1>0. PICK q : q = erasing.of
  OBVIOUS
<1> DEFINE kept == DOMAIN member \ X!Of(q)
<1>1. /\ erasing.pc = "delete" /\ erasing' = [erasing EXCEPT !.pc = "mark"]
      /\ member' = [o \in kept |-> member[o]] /\ accrued' = {a \in accrued : a[1].run # q}
      /\ UNCHANGED <<runScene, today, run, exec, notices, night>>
  BY <1>0 DEF X!Delete, X!Restrict
<1>2. q \in Runs /\ q # Real /\ run[q].status \notin {"none", "RUNNING"} /\ exec[q].pc = "idle"
  BY <1>0, <1>1, RunsAssumption DEF RunIInv, ErasuresInOrder, RunsAreMarked
<1>3. erasing' \in Erasures /\ erasing'.pc = "mark" /\ erasing'.of = q
  <2>1. erasing \in Erasures
    BY DEF RunIInv, RunTypes
  <2> QED
    BY <1>0, <1>1, <2>1 DEF Erasures
<1>4. /\ DOMAIN member' = kept /\ kept \subseteq DOMAIN member /\ \A o \in kept : member'[o] = member[o]
      /\ \A o \in DOMAIN member : o \in kept <=> o.run # q
  BY <1>1 DEF X!Of
<1> HIDE DEF kept
<1>5. RunTypes'
  <2>1. IsFiniteSet(DOMAIN member') /\ IsFiniteSet(accrued')
    BY <1>1, <1>4, FS_Subset DEF RunIInv, RunTypes
  <2>2. DOMAIN member' \subseteq Owners /\ accrued' \subseteq Owners \X Nat
    BY <1>1, <1>4 DEF RunIInv, RunTypes
  <2>3. member' \in [DOMAIN member' -> Holdings]
    BY <1>1, <1>4 DEF RunIInv, RunTypes
  <2> QED
    BY <1>1, <1>3, <2>1, <2>2, <2>3 DEF RunIInv, RunTypes
<1>6. X!Of(q)' = {} /\ \A s : s # q => X!Of(s)' = X!Of(s)
  BY <1>4 DEF X!Of
<1>7. MembersAreKnown'
  <2>1. X!Member(Real, 1) \in DOMAIN member' /\ X!Member(Real, 1)' = X!Member(Real, 1)
    BY <1>2, <1>4 DEF RunIInv, MembersAreKnown, X!Member
  <2>2. \A o \in DOMAIN member' : o \in DOMAIN member /\ X!Of(o.run)' = X!Of(o.run)
    BY <1>4, <1>6
  <2>3. \A a \in accrued' : a[1] \in DOMAIN member'
    BY <1>1, <1>4 DEF RunIInv, MembersAreKnown
  <2> QED
    BY <1>1, <2>1, <2>2, <2>3 DEF RunIInv, MembersAreKnown
<1>8. RunsAreMarked' /\ NightsArePast'
  BY <1>1, <1>2, <1>6 DEF RunIInv, RunsAreMarked, NightsArePast
<1>9. ErasuresInOrder'
  BY <1>1, <1>2, <1>3, <1>6 DEF ErasuresInOrder
<1>10. NoticesAreLinked'
  BY <1>0, <1>1, <1>3, <1>4 DEF RunIInv, NoticesAreLinked
<1>11. X!PaysItsOwn'
  BY <1>1 DEF RunIInv, X!PaysItsOwn
<1>12. ASSUME NEW s \in Runs PROVE RunTelescopes(s)' /\ RunAddsUp(s)' /\ RunIsKept(s)'
  <2>1. CASE s = q
    <3>1. RunTelescopes(q) /\ RunAddsUp(q) /\ \A field : Months(q, field)' = Months(q, field)
      BY <1>1, <1>2 DEF RunIInv, Months
    <3> QED
      BY <1>1, <1>2, <1>3, <2>1, <3>1 DEF RunTelescopes, RunAddsUp, RunIsKept
  <2>2. CASE s # q
    <3>1. \A o \in X!Of(s) : o \in kept /\ o.run = s
      BY <1>4, <2>2 DEF X!Of
    <3>2. {a \in accrued' : a[1] \in X!Of(s)} = {a \in accrued : a[1] \in X!Of(s)}
      BY <1>1, <2>2, <3>1
    <3>3. X!Snapshot(s)' = X!Snapshot(s)
      BY <1>4, <1>6, <2>2, <3>1, <3>2, SnapshotStays DEF RunIInv
    <3> QED
      BY <1>0, <1>1, <1>3, <2>2, <3>3, RunStays
  <2> QED
    BY <2>1, <2>2
<1> QED
  BY <1>5, <1>7, <1>8, <1>9, <1>10, <1>11, <1>12 DEF RunIInv

\* Nobody is left when the row is marked.
LEMMA MarkOfRun ==
  ASSUME RunIInv, X!Mark
  PROVE  RunIInv'
<1> DEFINE q == erasing.of
<1>1. /\ q \in Runs /\ q # Real /\ run[q].status \notin {"none", "RUNNING"} /\ exec[q].pc = "idle"
      /\ X!Of(q) = {}
  BY RunsAssumption DEF X!Mark, RunIInv, ErasuresInOrder, RunsAreMarked
<1>2. /\ erasing' = X!NoErasing /\ run' = [run EXCEPT ![q] = [run[q] EXCEPT !.status = "ERASED"]]
      /\ UNCHANGED <<runScene, today, exec, member, accrued, notices, night>>
  BY <1>1 DEF X!Mark
<1>3. /\ run' \in [Runs -> RunRows] /\ run'[q].status = "ERASED"
      /\ \A s \in Runs : s # q => run'[s] = run[s]
  BY <1>1, <1>2 DEF RunIInv, RunTypes, RunRows
<1>4. erasing' \in Erasures /\ erasing'.pc = "idle" /\ erasing'.of = Real
  BY <1>2 DEF Erasures
<1> HIDE DEF q
<1>5. RunTypes'
  BY <1>2, <1>3, <1>4 DEF RunIInv, RunTypes
<1>6. \A s : X!Of(s)' = X!Of(s) /\ X!Snapshot(s)' = X!Snapshot(s)
  BY <1>2, SnapshotStays DEF X!Of, RunIInv
<1>7. MembersAreKnown'
  <2>1. \A o \in DOMAIN member : o.run # q /\ (o.run # Real => o.run \in Runs)
    BY <1>1 DEF X!Of, RunIInv, RunTypes, Owners
  <2> QED
    BY <1>2, <1>3, <1>6, <2>1 DEF RunIInv, MembersAreKnown, X!Member
<1>8. RunsAreMarked' /\ NightsArePast'
  BY <1>1, <1>2, <1>3, <1>6 DEF RunIInv, RunsAreMarked, NightsArePast
<1>9. ErasuresInOrder' /\ NoticesAreLinked'
  BY <1>2, <1>4 DEF RunIInv, ErasuresInOrder, NoticesAreLinked
<1>10. X!PaysItsOwn'
  BY <1>2 DEF RunIInv, X!PaysItsOwn
<1>11. ASSUME NEW s \in Runs PROVE RunTelescopes(s)' /\ RunAddsUp(s)' /\ RunIsKept(s)'
  <2>1. CASE s = q
    BY <1>1, <1>2, <1>3, <2>1 DEF RunTelescopes, RunAddsUp, RunIsKept
  <2>2. CASE s # q
    BY <1>2, <1>3, <1>6, <2>2, RunStays DEF q
  <2> QED
    BY <2>1, <2>2
<1> QED
  BY <1>5, <1>7, <1>8, <1>9, <1>10, <1>11 DEF RunIInv

-----------------------------------------------------------------------------
(* Dry runs: the theorems *)

\* One real member, who was paid for the first day, and no run.
LEMMA RunInit == X!Init => RunIInv
<1> SUFFICES ASSUME X!Init PROVE RunIInv
  OBVIOUS
<1> DEFINE first == X!Member(Real, 1)
           holding == [X!Holding(1, 1) EXCEPT !.last = 1]
<1>1. /\ runScene \in RunScenes /\ today = 1 /\ run = [r \in Runs |-> X!NoRun] /\ exec = [r \in Runs |-> X!NoExec]
      /\ member = [o \in {first} |-> holding] /\ accrued = {<<first, 1>>} /\ notices = {}
      /\ night = X!NoNight /\ erasing = X!NoErasing
  BY DEF X!Init
<1>2. first \in Owners /\ first.run = Real /\ first.n = 1 /\ holding \in Holdings
  BY DEF X!Member, Owners, X!Holding, Holdings
<1> HIDE DEF first, holding
<1>3. IsFiniteSet({first}) /\ Cardinality({first}) = 1 /\ IsFiniteSet({<<first, 1>>})
  BY FS_Singleton
<1>4. RunTypes
  <2>1. X!NoRun \in RunRows
    BY DEF RunRows, Money
  <2>2. X!NoExec \in Executions
    BY DEF Executions, Money
  <2>3. X!NoNight \in Nights /\ X!NoErasing \in Erasures
    BY DEF Nights, Erasures
  <2> QED
    BY <1>1, <1>2, <1>3, <2>1, <2>2, <2>3 DEF RunTypes
<1>5. X!Of(Real) = {first} /\ \A r \in Runs : X!Of(r) = {}
  BY <1>1, <1>2, RunsAssumption DEF X!Of
<1>6. MembersAreKnown
  <2>1. first.n <= Cardinality(X!Of(first.run))
    BY <1>2, <1>3, <1>5
  <2>2. DOMAIN member = {first} /\ \A a \in accrued : a[1] = first
    BY <1>1
  <2>3. first = X!Member(Real, 1)
    BY DEF first
  <2> QED
    BY <1>2, <2>1, <2>2, <2>3 DEF MembersAreKnown
<1>7. RunsAreMarked /\ NightsArePast /\ ErasuresInOrder /\ NoticesAreLinked
  BY <1>1 DEF RunsAreMarked, NightsArePast, ErasuresInOrder, NoticesAreLinked
<1>8. X!PaysItsOwn
  BY <1>1 DEF X!PaysItsOwn
<1>9. \A r \in Runs : RunTelescopes(r) /\ RunAddsUp(r) /\ RunIsKept(r)
  BY <1>1 DEF RunTelescopes, RunAddsUp, RunIsKept
<1> QED
  BY <1>4, <1>6, <1>7, <1>8, <1>9 DEF RunIInv

\* Every step of the dry runs keeps it, and so does a step of something else.
LEMMA RunStep == RunIInv /\ [X!Next]_dryRuns => RunIInv'
<1> SUFFICES ASSUME RunIInv, [X!Next]_dryRuns PROVE RunIInv'
  OBVIOUS
<1>1. CASE X!Tomorrow
  BY <1>1, TomorrowOfRuns
<1>2. ASSUME NEW r \in Runs,
             \/ X!Start(r) \/ X!Baseline(r) \/ X!Join(r) \/ X!Founded(r) \/ X!AccrueDay(r)
             \/ X!EndDay(r) \/ X!EndMonth(r) \/ X!Complete(r) \/ X!Fail(r) \/ X!StartErase(r)
      PROVE  RunIInv'
  BY <1>2, StartOfRun, BaselineOfRun, JoinOfRun, FoundedOfRun, AccrueDayOfRun, EndMonthOfRun,
     CompleteOfRun, FailOfRun, StartEraseOfRun
<1>3. ASSUME NEW r \in Runs, NEW o \in X!Of(r), X!BuyAgain(r, o) \/ X!Compound(r, o) \/ X!Withdraw(r, o)
      PROVE  RunIInv'
  BY <1>3, BuyAgainOfRun
<1>4. CASE X!Die
  BY <1>4, DieOfRun
<1>5. CASE X!StartNight \/ X!NightDay \/ X!EndNightDay \/ X!StartDigest
  BY <1>5, StartNightOfRuns, NightDayOfRuns, EndNightDayOfRuns
<1>6. ASSUME NEW o, X!PayAtNight(o) \/ X!Tell(o) PROVE RunIInv'
  BY <1>6, PayAtNightOfRuns, TellOfRuns
<1>7. CASE X!Unlink \/ X!Delete \/ X!Mark
  BY <1>7, UnlinkOfRun, DeleteOfRun, MarkOfRun
<1>8. CASE UNCHANGED dryRuns
  <2>1. UNCHANGED <<runScene, today, run, exec, member, accrued, notices, erasing, night>>
    BY <1>8 DEF dryRuns
  <2>2. today \in Nat /\ night \in Nights /\ NightsArePast'
    BY <2>1 DEF RunIInv, RunTypes, NightsArePast
  <2> QED
    BY <2>1, <2>2, NightMoves
<1>9. CASE X!Next
  BY <1>1, <1>2, <1>3, <1>4, <1>5, <1>6, <1>7, <1>9 DEF X!Next
<1> QED
  BY <1>8, <1>9

\* While dry runs are played, whatever else there is, what they rest on is there.
LEMMA RunInvariant == MCSpec => [](part = "dry runs" => RunIInv)
<1>1. MCInit => (part = "dry runs" => RunIInv)
  BY RunInit DEF MCInit
<1>2. (part = "dry runs" => RunIInv) /\ [MCNext]_<<part, vars, draws, dryRuns>> => (part = "dry runs" => RunIInv)'
  <2> SUFFICES ASSUME part = "dry runs" => RunIInv, [MCNext]_<<part, vars, draws, dryRuns>>, part' = "dry runs"
               PROVE  RunIInv'
    OBVIOUS
  <2>1. part = "dry runs" /\ [X!Next]_dryRuns
    BY DEF MCNext
  <2> QED
    BY <2>1, RunStep
<1> QED
  BY <1>1, <1>2, PTL DEF MCSpec

\* A dry run pays its own members, for days it has reached or that are past; and a
\* run that is marked erased has left nothing and taken nothing (execute, erase).
THEOREM ApartTheorem == MCSpec => []RunStaysApart
<1>1. (part = "dry runs" => RunIInv) => RunStaysApart
  <2> SUFFICES ASSUME RunIInv PROVE X!PaysItsOwn /\ X!ErasureIsExact
    BY DEF RunStaysApart
  <2>1. ASSUME NEW r \in Runs, run[r].status = "ERASED"
        PROVE  /\ X!Of(r) = {} /\ \A a \in accrued : a[1].run # r
               /\ \A x \in notices : x.to.run = r => x.late
    <3>1. X!Of(r) = {} /\ \A o \in DOMAIN member : o.run # r
      BY <2>1, RunsAssumption DEF RunIInv, MembersAreKnown, X!Of
    <3>2. \A a \in accrued : a[1].run # r
      BY <3>1 DEF RunIInv, MembersAreKnown
    <3>3. \A x \in notices : x.to.run = r => x.late
      BY <3>1 DEF RunIInv, NoticesAreLinked
    <3> QED
      BY <3>1, <3>2, <3>3
  <2>2. X!Member(Real, 1) \in DOMAIN member
    BY DEF RunIInv, MembersAreKnown
  <2>3. \A r \in Runs : run[r].status = "COMPLETE" /\ erasing.of # r /\ ~runScene.dies =>
          X!Snapshot(r).capital = run[r].summary.capital
    BY DEF RunIInv, RunIsKept
  <2>4. X!ErasureIsExact
    BY <2>1, <2>2, <2>3 DEF X!ErasureIsExact
  <2> QED
    BY <2>4 DEF RunIInv
<1> QED
  BY <1>1, RunInvariant, PTL

\* Whatever days, members and nightly accruals there are, the months of a run that
\* is complete come to its summary (execute: diff, summarise).
THEOREM MonthsTheorem == MCSpec => []MonthsAddUp
<1>1. (part = "dry runs" => RunIInv) => MonthsAddUp
  BY DEF MonthsAddUp, X!MonthsAddUp, RunIInv, RunAddsUp, Months
<1> QED
  BY <1>1, RunInvariant, PTL
=============================================================================

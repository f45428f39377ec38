-------------------------- MODULE WithdrawalPromise --------------------------
(***************************************************************************)
(* What a member is promised about a withdrawal: its amount is held when   *)
(* it is accepted, and afterwards the money is either sent, once, or       *)
(* returned, once, and never both.                                         *)
(***************************************************************************)
EXTENDS Integers

CONSTANTS Members, Ids, Owner, Amount, Openings

VARIABLES balance, outcome

vars == <<balance, outcome>>

Init ==
  /\ balance \in [Members -> Openings]
  /\ outcome = [id \in Ids |-> "none"]

Hold(id) ==
  /\ outcome[id] = "none"
  /\ balance[Owner[id]] >= Amount[id]
  /\ outcome' = [outcome EXCEPT ![id] = "held"]
  /\ balance' = [balance EXCEPT ![Owner[id]] = @ - Amount[id]]

Send(id) ==
  /\ outcome[id] = "held"
  /\ outcome' = [outcome EXCEPT ![id] = "sent"]
  /\ UNCHANGED balance

Return(id) ==
  /\ outcome[id] = "held"
  /\ outcome' = [outcome EXCEPT ![id] = "returned"]
  /\ balance' = [balance EXCEPT ![Owner[id]] = @ + Amount[id]]

Next == \E id \in Ids : Hold(id) \/ Send(id) \/ Return(id)

Spec == Init /\ [][Next]_vars
=============================================================================

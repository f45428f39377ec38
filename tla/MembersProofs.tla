---------------------------- MODULE MembersProofs ----------------------------
(***************************************************************************)
(* What members may rely on, for any number of them and of what they do at *)
(* once.                                                                   *)
(*                                                                         *)
(* Idempotency keys.  Answers are genuine because a claim is exclusive:    *)
(* while a request that claimed its key is under way, the row is there, in *)
(* flight and of its intent, and no other request claimed it.  A handler   *)
(* runs once because, where nothing releases a key, a request past its     *)
(* lookup has a row to stand on, and all who execute under one row are the *)
(* same request.                                                           *)
(*                                                                         *)
(* Sessions.  A family has one live session because a row that is being    *)
(* rotated is live and locked.  What was ended stays ended because the     *)
(* statement that ends sessions has seen all that is live of their         *)
(* families, unless a rotation was under way; a device stays signed in     *)
(* because no other holds its family.                                      *)
(*                                                                         *)
(* One-time codes.  Wrong guesses that are not counted yet are added to    *)
(* those that are; a code is accepted by the update that spends it.        *)
(*                                                                         *)
(* Placements.  While one member registers at a time, the slot that was    *)
(* found is free until it is taken.                                        *)
(*                                                                         *)
(* Volumes.  The rows that are committed count what is invested below;     *)
(* those a purchase has written count its price too, up the part of its    *)
(* buyer's line it has climbed, and nobody else has written them.          *)
(*                                                                         *)
(* Team volumes.  Downlines only grow, so a recalculation has read no more *)
(* than there is, and no less unless a purchase overtook it; the downline  *)
(* of a member splits into those of the members it introduced.             *)
(*                                                                         *)
(* Lock order.  A transaction holds the rows before the one it waits at.   *)
(* Team rows are taken by id, and who has those of everybody above is      *)
(* alone in its tree, for all have the eldest in common; what it pays then *)
(* is held by accruals, which only wait further up.                        *)
(***************************************************************************)
EXTENDS MCMembers, SequenceTheorems, FiniteSetTheorems, WellFoundedInduction, TLAPS

-----------------------------------------------------------------------------
(* Idempotency keys *)


\* A stored row exists, and a stored answer is that of a request of its intent.
RowsAreGenuine ==
  \A k \in Keys :
    /\ record[k].status = "none" => record[k] = NoRecord
    /\ record[k].status = "COMPLETED" =>
         /\ record[k].response \in effects
         /\ KeyOf[record[k].response] = k
         /\ IntentOf[record[k].response] = record[k].intent

\* The request that claimed a key has its row to itself, as it made it.
ClaimIsExclusive ==
  /\ \A r \in claimed :
       /\ request[r] \in {"handler", "committed", "failing"}
       /\ Stored(r).status = "IN_FLIGHT" /\ Stored(r).intent = IntentOf[r]
  /\ \A r, s \in claimed : KeyOf[r] = KeyOf[s] => r = s

\* What is answered or stored as done was done.
CommittedIsDone == \A r \in Requests : At(r, "committed") => r \in effects

Executes(r) == r \in effects \/ request[r] \in {"handler", "committed"}

\* Where handlers and inserts do not fail, only one request gets through on a row.
OneExecutes ==
  ~scene.handlers /\ ~scene.inserts =>
    /\ \A r \in Requests : ~At(r, "failing")
    /\ \A r \in Requests : Executes(r) \/ At(r, "read") => Stored(r).status # "none"
    /\ \A r, s \in Requests : Executes(r) /\ Executes(s) /\ KeyOf[r] = KeyOf[s] => r = s

IInv ==
  TypeOK /\ RowsAreGenuine /\ ClaimIsExclusive /\ CommittedIsDone /\ AnswersAreGenuine /\ OneExecutes

USE DEF At, Goto, End, Stored, Store, Answered, NoRecord

-----------------------------------------------------------------------------
\* Of the assumption, what a step needs to know.
LEMMA NamesApart ==
  ASSUME NEW r \in Requests
  PROVE  /\ KeyOf[r] \in Keys /\ IntentOf[r] \in Intents /\ r # None
         /\ r \notin {"reused", "in flight", "failed"}
BY IdempotencyAssumption, Zenon DEF Intents

\* No key is claimed and no request sent.
LEMMA InitInvariant == Init => IInv
<1> USE IdempotencyAssumption DEF Init, Executes
<1> SUFFICES ASSUME Init PROVE IInv
  BY Zenon
<1>1. TypeOK
  BY Zenon DEF TypeOK, Steps
<1>2. RowsAreGenuine /\ ClaimIsExclusive /\ CommittedIsDone
  BY Zenon DEF RowsAreGenuine, ClaimIsExclusive, CommittedIsDone
<1>3. AnswersAreGenuine /\ OneExecutes
  BY Zenon DEF AnswersAreGenuine, OneExecutes
<1> QED
  BY <1>1, <1>2, <1>3, Zenon DEF IInv

\* An insert takes a key that nobody has, or fails and makes nothing.
LEMMA ClaimInvariant ==
  ASSUME IInv, NEW r \in Requests, Claim(r)
  PROVE  IInv'
<1> USE DEF IInv, Executes
<1> IntentOf[r] \in Intents /\ r # None /\ \A s \in Requests : KeyOf[s] \in Keys
  BY NamesApart, Zenon
<1>1. TypeOK'
  <2>1. record' \in [Keys -> [status : {"none", "IN_FLIGHT", "COMPLETED"},
                              intent : Intents \union {None}, response : Requests \union {None}]]
    BY DEF TypeOK, Claim
  <2>2. request' \in [Requests -> Steps] /\ claimed' \subseteq Requests
    BY DEF TypeOK, Claim, Steps
  <2> QED
    BY <2>1, <2>2 DEF TypeOK, Claim
<1>2. CASE Stored(r).status = "none" /\ record' # record
  <2>1. /\ record'[KeyOf[r]] = [status |-> "IN_FLIGHT", intent |-> IntentOf[r], response |-> None]
        /\ \A k \in Keys \ {KeyOf[r]} : record'[k] = record[k]
        /\ request[r] = "new" /\ request'[r] = "handler" /\ claimed' = claimed \union {r}
        /\ \A s \in Requests \ {r} : request'[s] = request[s]
        /\ UNCHANGED <<scene, effects, answer>>
    BY <1>2 DEF TypeOK, Claim
  <2>2. RowsAreGenuine' /\ CommittedIsDone' /\ AnswersAreGenuine'
    BY <2>1 DEF TypeOK, RowsAreGenuine, CommittedIsDone, AnswersAreGenuine
  <2>3. ClaimIsExclusive'
    BY <1>2, <2>1 DEF TypeOK, ClaimIsExclusive
  <2>4. OneExecutes'
    BY <1>2, <2>1 DEF TypeOK, OneExecutes
  <2> QED
    BY <1>1, <2>2, <2>3, <2>4
<1>3. CASE ~(Stored(r).status = "none" /\ record' # record)
  <2>1. /\ UNCHANGED <<scene, record, claimed, effects, answer>>
        /\ request[r] = "new" /\ request'[r] = "read"
        /\ \A s \in Requests \ {r} : request'[s] = request[s]
        /\ ~scene.inserts => Stored(r) # NoRecord
    BY <1>3 DEF TypeOK, Claim
  <2>2. RowsAreGenuine' /\ CommittedIsDone' /\ AnswersAreGenuine'
    BY <2>1 DEF TypeOK, RowsAreGenuine, CommittedIsDone, AnswersAreGenuine
  <2>3. ClaimIsExclusive'
    BY <2>1 DEF TypeOK, ClaimIsExclusive
  <2>4. OneExecutes'
    BY <2>1 DEF TypeOK, OneExecutes, RowsAreGenuine
  <2> QED
    BY <1>1, <2>2, <2>3, <2>4
<1> QED
  BY <1>2, <1>3

\* A request that goes on without answering, done or not.
LEMMA AdvanceInvariant ==
  ASSUME IInv, NEW r \in Requests, Unclaimed(r) \/ HandlerCommits(r) \/ HandlerFails(r) \/ Dies(r)
  PROVE  IInv'
<1> USE DEF IInv, Executes
<1> IntentOf[r] \in Intents /\ r # None /\ \A s \in Requests : KeyOf[s] \in Keys
  BY NamesApart, Zenon
<1>1. UNCHANGED <<scene, record, answer>> /\ effects' \in {effects, effects \union {r}}
  BY DEF Unclaimed, HandlerCommits, HandlerFails, Dies
<1>2. TypeOK'
  BY DEF TypeOK, Unclaimed, HandlerCommits, HandlerFails, Dies, Steps
<1>3. /\ \A s \in Requests \ {r} : request'[s] = request[s]
      /\ claimed' \in {claimed, claimed \ {r}} /\ (At(r, "over")' => r \notin claimed')
      /\ ~At(r, "new") /\ (request'[r] \in {"handler", "committed", "failing", "over"})
      /\ At(r, "handler") \/ effects' = effects
      /\ At(r, "read") => At(r, "over")' \/ (At(r, "handler")' /\ Stored(r) = NoRecord)
      /\ At(r, "committed")' => At(r, "handler") /\ r \in effects'
      /\ At(r, "failing")' => scene.handlers /\ At(r, "handler")
      /\ At(r, "handler")' => At(r, "read")
  BY DEF TypeOK, Unclaimed, HandlerCommits, HandlerFails, Dies
<1>4. RowsAreGenuine' /\ AnswersAreGenuine' /\ CommittedIsDone'
  BY <1>1, <1>3 DEF RowsAreGenuine, AnswersAreGenuine, CommittedIsDone
<1>5. ClaimIsExclusive'
  BY <1>1, <1>3 DEF TypeOK, ClaimIsExclusive
<1>6. OneExecutes'
  BY <1>1, <1>3 DEF TypeOK, OneExecutes
<1> QED
  BY <1>2, <1>4, <1>5, <1>6

\* A lookup answers with what a request of the same intent stored.
LEMMA ReplayInvariant ==
  ASSUME IInv, NEW r \in Requests, Replay(r)
  PROVE  IInv'
<1> USE DEF IInv, Executes
<1> IntentOf[r] \in Intents /\ r # None /\ \A s \in Requests : KeyOf[s] \in Keys
  BY NamesApart, Zenon
<1>1. UNCHANGED <<scene, record, effects>> /\ claimed' = claimed \ {r}
  BY Zenon DEF Replay
<1>2. TypeOK'
  BY Zenon DEF TypeOK, Replay, Steps, Refusals
<1>3. /\ request'[r] = "over" /\ \A s \in Requests \ {r} : request'[s] = request[s]
      /\ \A s \in Requests \ {r} : answer'[s] = answer[s]
      /\ answer'[r] \in Requests =>
           Stored(r).status = "COMPLETED" /\ answer'[r] = Stored(r).response /\ Stored(r).intent = IntentOf[r]
  <2>1. answer'[r] \in Requests => answer'[r] \notin {"reused", "in flight"}
    BY NamesApart, Zenon
  <2>2. Stored(r).status \in {"IN_FLIGHT", "COMPLETED"}
    <3>1. Stored(r).status \in {"none", "IN_FLIGHT", "COMPLETED"}
      BY DEF TypeOK
    <3>2. record[KeyOf[r]] # NoRecord
      BY Zenon DEF Replay
    <3> QED
      BY <3>1, <3>2 DEF RowsAreGenuine
  <2> QED
    BY <2>1, <2>2, Zenon DEF TypeOK, Replay
<1>4. AnswersAreGenuine'
  BY <1>1, <1>3 DEF AnswersAreGenuine, RowsAreGenuine
<1>5. RowsAreGenuine' /\ CommittedIsDone' /\ ClaimIsExclusive'
  BY <1>1, <1>3 DEF TypeOK, RowsAreGenuine, CommittedIsDone, ClaimIsExclusive
<1>6. OneExecutes'
  BY <1>1, <1>3 DEF OneExecutes
<1> QED
  BY <1>2, <1>4, <1>5, <1>6

\* The end of a request that executed, or failed to: it answers with its own
\* result, and of the stored rows it may touch the one it claimed.
LEMMA AnswerInvariant ==
  ASSUME IInv, NEW r \in Requests, Finish(r) \/ Release(r) \/ FinishUnrecorded(r)
  PROVE  IInv'
<1> USE DEF IInv, Executes
<1> IntentOf[r] \in Intents /\ r # None /\ \A s \in Requests : KeyOf[s] \in Keys
  BY NamesApart, Zenon
<1>1. UNCHANGED <<scene, effects>> /\ claimed' = claimed \ {r}
  BY DEF Finish, Release, FinishUnrecorded
<1>2. TypeOK'
  <2>1. record' \in [Keys -> [status : {"none", "IN_FLIGHT", "COMPLETED"},
                          intent : Intents \union {None}, response : Requests \union {None}]]
    <3>1. Stored(r) \in [status : {"none", "IN_FLIGHT", "COMPLETED"},
                         intent : Intents \union {None}, response : Requests \union {None}]
      BY DEF TypeOK
    <3>2. [Stored(r) EXCEPT !.status = "COMPLETED", !.response = r]
            \in [status : {"none", "IN_FLIGHT", "COMPLETED"},
                intent : Intents \union {None}, response : Requests \union {None}]
      BY <3>1
    <3>3. CASE Finish(r)
      BY <3>2, <3>3 DEF TypeOK, Finish
    <3>4. CASE Release(r)
      BY <3>4 DEF TypeOK, Release
    <3>5. CASE FinishUnrecorded(r)
      BY <3>5 DEF TypeOK, FinishUnrecorded
    <3> QED
      BY <3>3, <3>4, <3>5
  <2>2. request' \in [Requests -> Steps]
    BY DEF TypeOK, Finish, Release, FinishUnrecorded, Steps
  <2>3. answer' \in [Requests -> Requests \union Refusals \union {None}]
    <3>1. answer' = [answer EXCEPT ![r] = r] \/ answer' = [answer EXCEPT ![r] = "failed"]
      BY DEF Finish, Release, FinishUnrecorded
    <3> QED
      BY <3>1, Zenon DEF TypeOK, Refusals
  <2> QED
    BY <1>1, <2>1, <2>2, <2>3 DEF TypeOK
<1>3. /\ request'[r] = "over" /\ \A s \in Requests \ {r} : request'[s] = request[s]
      /\ \A s \in Requests \ {r} : answer'[s] = answer[s]
      /\ answer'[r] \in Requests => answer'[r] = r /\ r \in effects
      /\ At(r, "committed") \/ At(r, "failing")
  <2>1. /\ request' = [request EXCEPT ![r] = "over"] /\ (At(r, "committed") \/ At(r, "failing"))
        /\ \/ answer' = [answer EXCEPT ![r] = r] /\ At(r, "committed")
           \/ answer' = [answer EXCEPT ![r] = "failed"]
    BY DEF Finish, Release, FinishUnrecorded
  <2>2. "failed" \notin Requests
    BY NamesApart, Zenon
  <2> QED
    BY <2>1, <2>2 DEF TypeOK, CommittedIsDone
<1>4. \/ UNCHANGED record
      \/ /\ r \in claimed /\ \A k \in Keys \ {KeyOf[r]} : record'[k] = record[k]
         /\ \/ Stored(r)' = NoRecord /\ At(r, "failing")
            \/ /\ Stored(r)'.status = "COMPLETED" /\ Stored(r)'.response = r
               /\ Stored(r)'.intent = IntentOf[r] /\ r \in effects
  <2>1. CASE Finish(r) /\ record' # record
    <3>1. /\ record' = [record EXCEPT ![KeyOf[r]] =
                          [Stored(r) EXCEPT !.status = "COMPLETED", !.response = r]]
          /\ r \in claimed /\ At(r, "committed")
      BY <2>1 DEF Finish
    <3>2. Stored(r).intent = IntentOf[r] /\ r \in effects
      BY <3>1 DEF ClaimIsExclusive, CommittedIsDone
    <3>3. Stored(r) \in [status : {"none", "IN_FLIGHT", "COMPLETED"},
                         intent : Intents \union {None}, response : Requests \union {None}]
      BY DEF TypeOK
    <3> QED
      BY <3>1, <3>2, <3>3 DEF TypeOK
  <2>2. CASE Release(r)
    BY <2>2 DEF TypeOK, Release
  <2>3. CASE FinishUnrecorded(r)
    BY <2>3 DEF FinishUnrecorded
  <2> QED
    BY <2>1, <2>2, <2>3
<1>5. AnswersAreGenuine' /\ CommittedIsDone'
  BY <1>1, <1>3 DEF AnswersAreGenuine, CommittedIsDone
<1>6. RowsAreGenuine'
  BY <1>1, <1>4 DEF TypeOK, RowsAreGenuine, ClaimIsExclusive
<1>7. ClaimIsExclusive'
  BY <1>1, <1>3, <1>4 DEF TypeOK, ClaimIsExclusive
<1>8. OneExecutes'
  BY <1>1, <1>3, <1>4 DEF TypeOK, OneExecutes
<1> QED
  BY <1>2, <1>5, <1>6, <1>7, <1>8

\* A purge forgets a key together with all its requests.
LEMMA PurgeInvariant ==
  ASSUME IInv, NEW k \in Keys, Purge(k)
  PROVE  IInv'
<1> USE DEF IInv, Executes
<1> \A s \in Requests : KeyOf[s] \in Keys
  BY NamesApart, Zenon
<1>1. TypeOK'
  BY DEF TypeOK, Purge, Steps
<1>2. /\ record'[k] = NoRecord /\ \A j \in Keys \ {k} : record'[j] = record[j]
      /\ \A r \in Requests : KeyOf[r] = k =>
           request'[r] = "new" /\ answer'[r] = None /\ r \notin effects' /\ r \notin claimed
      /\ \A r \in Requests : KeyOf[r] # k => UNCHANGED <<request[r], answer[r]>> /\ (r \in effects' <=> r \in effects)
      /\ UNCHANGED <<scene, claimed>> /\ effects \subseteq Requests
  BY DEF TypeOK, Purge, ClaimIsExclusive
<1>3. RowsAreGenuine' /\ CommittedIsDone'
  BY <1>2 DEF TypeOK, RowsAreGenuine, CommittedIsDone
<1>4. ClaimIsExclusive'
  BY <1>2 DEF TypeOK, ClaimIsExclusive
<1>5. AnswersAreGenuine'
  <2> SUFFICES ASSUME NEW r \in Requests, answer'[r] \in Requests
               PROVE  /\ answer'[r] \in effects' /\ KeyOf[answer'[r]] = KeyOf[r]
                      /\ IntentOf[answer'[r]] = IntentOf[r]
    BY DEF AnswersAreGenuine
  <2>1. KeyOf[r] # k
    BY <1>2, NamesApart, Zenon
  <2>2. answer'[r] = answer[r]
    BY <1>2, <2>1
  <2>3. answer[r] \in effects /\ KeyOf[answer[r]] = KeyOf[r] /\ IntentOf[answer[r]] = IntentOf[r]
    BY <2>2 DEF AnswersAreGenuine
  <2>4. answer[r] \in effects'
    BY <1>2, <2>1, <2>2, <2>3
  <2> QED
    BY <2>2, <2>3, <2>4
<1>6. OneExecutes'
  BY <1>2 DEF TypeOK, OneExecutes
<1> QED
  BY <1>1, <1>3, <1>4, <1>5, <1>6

\* Every step of a request under its key keeps the invariant: one case per operation.
LEMMA StepInvariant == IInv /\ [Next]_vars => IInv'
<1> SUFFICES ASSUME IInv, [Next]_vars PROVE IInv'
  OBVIOUS
<1>1. CASE UNCHANGED vars
  BY <1>1 DEF vars, IInv, TypeOK, RowsAreGenuine, ClaimIsExclusive, CommittedIsDone,
              AnswersAreGenuine, OneExecutes, Executes
<1>2. ASSUME NEW r \in Requests, Claim(r) PROVE IInv'
  BY <1>2, ClaimInvariant
<1>3. ASSUME NEW r \in Requests, Unclaimed(r) \/ HandlerCommits(r) \/ HandlerFails(r) \/ Dies(r)
      PROVE  IInv'
  BY <1>3, AdvanceInvariant
<1>4. ASSUME NEW r \in Requests, Replay(r) PROVE IInv'
  BY <1>4, ReplayInvariant
<1>5. ASSUME NEW r \in Requests, Finish(r) \/ Release(r) \/ FinishUnrecorded(r) PROVE IInv'
  BY <1>5, AnswerInvariant
<1>6. ASSUME NEW k \in Keys, Purge(k) PROVE IInv'
  BY <1>6, PurgeInvariant
<1> QED
  BY <1>1, <1>2, <1>3, <1>4, <1>5, <1>6 DEF Next

\* The strengthened invariant holds throughout.
LEMMA InvariantHolds == Spec => []IInv
<1> QED
  BY InitInvariant, StepInvariant, PTL DEF Spec

-----------------------------------------------------------------------------
\* For any number of requests under any keys: whoever is told a result asked
\* for exactly that, and it was done (middleware/idempotency.ts).
THEOREM GenuineTheorem == Spec => []AnswersAreGenuine
<1>1. IInv => AnswersAreGenuine
  BY DEF IInv
<1> QED
  BY <1>1, InvariantHolds, PTL

\* For any number of requests, retries and deaths between two steps: under one
\* key at most one handler commits, while handlers commit or die and an insert
\* fails over its key only.
THEOREM OnceTheorem == Spec => []ExecutedOnce
<1>1. IInv => ExecutedOnce
  <2> SUFFICES ASSUME IInv, ~scene.handlers, ~scene.inserts, NEW k \in Keys
               PROVE  Cardinality({r \in effects : KeyOf[r] = k}) <= 1
    BY DEF ExecutedOnce
  <2> DEFINE mine == {r \in effects : KeyOf[r] = k}
  <2>1. \A r, s \in mine : r = s
    BY DEF IInv, OneExecutes, Executes, TypeOK
  <2>2. CASE mine = {}
    BY <2>2, FS_EmptySet
  <2>3. ASSUME NEW r \in mine PROVE Cardinality(mine) = 1
    <3>1. mine = {r}
      BY <2>1
    <3> QED
      BY <3>1, FS_Singleton
  <2> QED
    BY <2>2, <2>3
<1> QED
  BY <1>1, InvariantHolds, PTL

-----------------------------------------------------------------------------
(* Sessions *)

TabSteps == {"idle", "sent", "read", "reuse", "refused", "rotating", "rotated"}

SessionRow == [family : Nat, live : BOOLEAN]

TabRow == [pc : TabSteps, token : DOMAIN row \union {0}, seen : SUBSET DOMAIN row]

SessionTypes ==
  /\ row \in Seq(SessionRow)
  /\ \A s \in DOMAIN row : row[s].family \in DOMAIN row
  /\ store \in [S!Devices -> DOMAIN row \union {0}]
  /\ tab \in [Tabs -> TabRow]
  /\ \A t \in Tabs : tab[t].pc # "idle" => tab[t].token # 0
  /\ sweep \in [on : BOOLEAN, seen : SUBSET DOMAIN row]
  /\ over \subseteq DOMAIN row
  /\ signedIn \in [S!Devices -> DOMAIN row \union {0}]

\* A row that is being rotated is locked: it is live, and one tab rotates it.
RotatedOnce ==
  \A t \in Tabs : tab[t].pc = "rotating" =>
    /\ row[tab[t].token].live
    /\ \A u \in Tabs : tab[u].pc = "rotating" /\ tab[u].token = tab[t].token => u = t

OneLive ==
  \A r, s \in DOMAIN row : row[r].live /\ row[s].live /\ row[r].family = row[s].family => r = s

\* The family of the token that a device stores, was signed in with, or sent.
Holds(d, f) ==
  \/ store[d] # 0 /\ row[store[d]].family = f
  \/ signedIn[d] = f
  \/ \E t \in Tabs : DeviceOf[t] = d /\ tab[t].pc # "idle" /\ row[tab[t].token].family = f

\* No two devices hold one family, and a family is revoked by its own device.
DevicesApart ==
  /\ \A d, e \in S!Devices : \A f \in DOMAIN row : Holds(d, f) /\ Holds(e, f) => d = e
  /\ \A t \in Tabs : tab[t].pc = "reuse" =>
       \A s \in tab[t].seen : row[s].family = row[tab[t].token].family

\* What a statement that ends sessions saw is all there is of their families,
\* unless a rotation was under way.
SweepSeesAll ==
  sweep.on => \A s \in sweep.seen : row[s].family \notin missed =>
    /\ \A r \in DOMAIN row : row[r].live /\ row[r].family = row[s].family => r \in sweep.seen
    /\ \A t \in Tabs : tab[t].pc = "rotating" => row[tab[t].token].family # row[s].family

EndedHasNoLive ==
  \A f \in over \ missed : \A s \in DOMAIN row : row[s].live => row[s].family # f

\* Where t is the only tab of a device that no answer was lost to, and the
\* family was neither ended nor did it expire, its refresh is on the live session.
Undisturbed(t) ==
  /\ \A u \in Tabs : DeviceOf[u] = DeviceOf[t] => u = t
  /\ DeviceOf[t] \notin unlucky
  /\ signedIn[DeviceOf[t]] \notin {0} \union expired \union over

Current(t) == IF tab[t].pc = "rotated" THEN tab[t].token ELSE store[DeviceOf[t]]

OnLive(t) ==
  /\ tab[t].pc \notin {"reuse", "refused"}
  /\ tab[t].pc \in {"sent", "read", "rotating"} => tab[t].token = store[DeviceOf[t]]
  /\ Current(t) # 0 /\ row[Current(t)].live
  /\ row[Current(t)].family = signedIn[DeviceOf[t]]

TokenIsLive == \A t \in Tabs : Undisturbed(t) => OnLive(t)

SessionsIInv ==
  /\ SessionTypes /\ RotatedOnce /\ OneLive /\ DevicesApart /\ SweepSeesAll /\ EndedHasNoLive
  /\ TokenIsLive

-----------------------------------------------------------------------------
\* What the types say of a token, a family and a device.
LEMMA TokensAreRows ==
  ASSUME SessionTypes
  PROVE  /\ 0 \notin DOMAIN row
         /\ \A s \in DOMAIN row : row[s].live \in BOOLEAN /\ row[s].family \in DOMAIN row
         /\ \A t \in Tabs :
              /\ DeviceOf[t] \in S!Devices /\ tab[t].pc \in TabSteps /\ tab[t].seen \subseteq DOMAIN row
              /\ tab[t].pc # "idle" => tab[t].token \in DOMAIN row
         /\ \A d \in S!Devices : /\ store[d] # 0 => store[d] \in DOMAIN row
                                 /\ signedIn[d] # 0 => signedIn[d] \in DOMAIN row
         /\ sweep.seen \subseteq DOMAIN row /\ over \subseteq DOMAIN row
<1>1. DOMAIN row = 1..Len(row) /\ \A s \in DOMAIN row : row[s] \in SessionRow
  BY LenProperties DEF SessionTypes
<1>2. 0 \notin DOMAIN row /\ \A s \in DOMAIN row : row[s].live \in BOOLEAN /\ row[s].family \in DOMAIN row
  BY <1>1 DEF SessionTypes, SessionRow
<1>3. ASSUME NEW t \in Tabs
      PROVE  /\ DeviceOf[t] \in S!Devices /\ tab[t].pc \in TabSteps /\ tab[t].seen \subseteq DOMAIN row
             /\ tab[t].pc # "idle" => tab[t].token \in DOMAIN row
  BY DEF SessionTypes, TabRow, S!Devices
<1>4. ASSUME NEW d \in S!Devices
      PROVE  (store[d] # 0 => store[d] \in DOMAIN row) /\ (signedIn[d] # 0 => signedIn[d] \in DOMAIN row)
  BY DEF SessionTypes
<1> QED
  BY <1>2, <1>3, <1>4 DEF SessionTypes

\* Ending rows leaves them their family.
LEMMA EndedRows ==
  ASSUME SessionTypes, NEW ss, S!End(ss)
  PROVE  /\ row' \in Seq(SessionRow) /\ DOMAIN row' = DOMAIN row
         /\ \A s \in DOMAIN row : /\ row'[s].family = row[s].family
                                  /\ row'[s].live <=> row[s].live /\ s \notin ss
<1>1. Len(row) \in Nat /\ DOMAIN row = 1..Len(row) /\ \A s \in DOMAIN row : row[s] \in SessionRow
  BY LenProperties DEF SessionTypes
<1>2. row' = [s \in DOMAIN row |-> IF s \in ss THEN [row[s] EXCEPT !.live = FALSE] ELSE row[s]]
  BY DEF S!End, S!Sessions
<1>3. ASSUME NEW s \in DOMAIN row
      PROVE  /\ row'[s] \in SessionRow /\ row'[s].family = row[s].family
             /\ row'[s].live <=> row[s].live /\ s \notin ss
  BY <1>1, <1>2, <1>3 DEF SessionRow
<1>4. row' \in [1..Len(row) -> SessionRow]
  BY <1>1, <1>2, <1>3
<1> QED
  BY <1>1, <1>2, <1>3, <1>4, SeqDef

\* A row that is created is the last.
LEMMA CreatedRows ==
  ASSUME NEW rows \in Seq(SessionRow), NEW f \in Nat
  PROVE  /\ S!Create(rows, f) \in Seq(SessionRow)
         /\ DOMAIN S!Create(rows, f) = DOMAIN rows \union {Len(rows) + 1}
         /\ Len(rows) + 1 \notin DOMAIN rows /\ Len(rows) + 1 # 0 /\ Len(rows) + 1 \in Nat
         /\ S!Create(rows, f)[Len(rows) + 1] = [family |-> f, live |-> TRUE]
         /\ \A s \in DOMAIN rows : S!Create(rows, f)[s] = rows[s]
<1> DEFINE new == [family |-> f, live |-> TRUE]
<1>1. new \in SessionRow
  BY DEF SessionRow
<1>2. Len(rows) \in Nat /\ DOMAIN rows = 1..Len(rows)
  BY LenProperties
<1>3. /\ Append(rows, new) \in Seq(SessionRow) /\ Len(Append(rows, new)) = Len(rows) + 1
      /\ Append(rows, new)[Len(rows) + 1] = new
      /\ \A s \in 1..Len(rows) : Append(rows, new)[s] = rows[s]
  BY <1>1, AppendProperties
<1>4. DOMAIN Append(rows, new) = 1..(Len(rows) + 1)
  BY <1>3, LenProperties
<1> QED
  BY <1>2, <1>3, <1>4 DEF S!Create

\* A step that neither begins nor ends the statement, and makes no live row of
\* a family it saw but what a rotation makes, leaves nothing it did not see.
LEMMA SweepKept ==
  ASSUME SessionsIInv, UNCHANGED sweep, missed \subseteq missed',
         DOMAIN row \subseteq DOMAIN row',
         \A s \in DOMAIN row : row'[s].family = row[s].family,
         \A r \in DOMAIN row' : sweep.on /\ row'[r].live /\ row'[r].family \notin missed' =>
           (r \in DOMAIN row /\ row[r].live) \/ row'[r].family \notin DOMAIN row,
         \A t \in Tabs : sweep.on /\ tab'[t].pc = "rotating" =>
           \/ tab[t].pc = "rotating" /\ tab'[t].token = tab[t].token
           \/ row'[tab'[t].token].family \in missed'
  PROVE  SweepSeesAll'
<1> SUFFICES ASSUME sweep.on, NEW s \in sweep.seen, row'[s].family \notin missed'
             PROVE  /\ \A r \in DOMAIN row' : row'[r].live /\ row'[r].family = row'[s].family => r \in sweep.seen
                    /\ \A t \in Tabs : tab'[t].pc = "rotating" =>
                         row'[tab'[t].token].family # row'[s].family
  BY DEF SweepSeesAll
<1>1. SessionTypes
  BY DEF SessionsIInv
<1>2. /\ s \in DOMAIN row /\ row'[s].family = row[s].family /\ row[s].family \in DOMAIN row
      /\ row[s].family \notin missed
  BY <1>1, TokensAreRows
<1>3. /\ \A r \in DOMAIN row : row[r].live /\ row[r].family = row[s].family => r \in sweep.seen
      /\ \A t \in Tabs : tab[t].pc = "rotating" => row[tab[t].token].family # row[s].family
  BY <1>2 DEF SessionsIInv, SweepSeesAll
<1>4. ASSUME NEW r \in DOMAIN row', row'[r].live, row'[r].family = row'[s].family
      PROVE  r \in sweep.seen
  <2>1. r \in DOMAIN row /\ row[r].live
    BY <1>2, <1>4
  <2> QED
    BY <1>2, <1>3, <1>4, <2>1
<1>5. ASSUME NEW t \in Tabs, tab'[t].pc = "rotating"
      PROVE  row'[tab'[t].token].family # row'[s].family
  <2>1. tab[t].pc = "rotating" => tab[t].token \in DOMAIN row
    BY <1>1, TokensAreRows
  <2> QED
    BY <1>2, <1>3, <1>5, <2>1
<1> QED
  BY <1>4, <1>5

\* What was ended has no live row, unless a row of its family comes to life.
LEMMA EndedKept ==
  ASSUME SessionsIInv, over' = over, missed \subseteq missed',
         \A r \in DOMAIN row' : row'[r].live =>
           \/ \E s \in DOMAIN row : row[s].live /\ row'[r].family = row[s].family
           \/ row'[r].family \notin DOMAIN row
  PROVE  EndedHasNoLive'
BY TokensAreRows DEF SessionsIInv, EndedHasNoLive

\* The device of an undisturbed tab holds the family of its live session.
LEMMA DeviceHolds ==
  ASSUME SessionsIInv, NEW t \in Tabs, Undisturbed(t)
  PROVE  /\ Current(t) \in DOMAIN row /\ row[Current(t)].live
         /\ row[Current(t)].family = signedIn[DeviceOf[t]]
         /\ Holds(DeviceOf[t], row[Current(t)].family)
<1>1. OnLive(t) /\ SessionTypes
  BY DEF SessionsIInv, TokenIsLive
<1> QED
  BY <1>1, TokensAreRows DEF OnLive, Current, Holds

\* A tab that a step passes by stays on the live session, if that stays live.
LEMMA TokenKept ==
  ASSUME SessionsIInv, NEW t \in Tabs, Undisturbed(t)',
         UNCHANGED <<tab[t], store[DeviceOf[t]], signedIn[DeviceOf[t]]>>,
         expired \subseteq expired', over \subseteq over', unlucky \subseteq unlucky',
         Undisturbed(t) /\ Current(t) \in DOMAIN row /\ row[Current(t)].live =>
           row'[Current(t)].live /\ row'[Current(t)].family = row[Current(t)].family
  PROVE  OnLive(t)'
<1>1. Undisturbed(t) /\ Current(t)' = Current(t)
  BY DEF Undisturbed, Current
<1>2. OnLive(t)
  BY <1>1 DEF SessionsIInv, TokenIsLive
<1> QED
  BY <1>1, <1>2, DeviceHolds DEF OnLive

\* No session there is.
LEMMA SessionsInit == S!Init => SessionsIInv
<1> SUFFICES ASSUME S!Init PROVE SessionsIInv
  OBVIOUS
<1> USE DEF S!Init, S!Idle
<1>1. row \in Seq(SessionRow) /\ DOMAIN row = {}
  BY EmptySeq, LenProperties
<1>2. SessionTypes
  BY <1>1 DEF SessionTypes, TabRow, TabSteps
<1>3. RotatedOnce /\ OneLive /\ SweepSeesAll /\ EndedHasNoLive /\ TokenIsLive
  BY <1>1, <1>2 DEF RotatedOnce, OneLive, SweepSeesAll, EndedHasNoLive, TokenIsLive, Undisturbed,
     SessionTypes, S!Devices
<1>4. DevicesApart
  BY <1>1, <1>2 DEF DevicesApart
<1> QED
  BY <1>2, <1>3, <1>4 DEF SessionsIInv

-----------------------------------------------------------------------------
\* Signing in begins a family of its own.
LEMMA SignInInvariant ==
  ASSUME SessionsIInv, NEW d \in S!Devices, S!SignIn(d)
  PROVE  SessionsIInv'
<1> DEFINE s == Len(row) + 1
<1> USE DEF SessionsIInv
<1>1. /\ store[d] = 0 /\ \A t \in Tabs : DeviceOf[t] = d => tab[t].pc = "idle"
      /\ row' = S!Create(row, s)
      /\ store' = [store EXCEPT ![d] = s] /\ signedIn' = [signedIn EXCEPT ![d] = s]
      /\ UNCHANGED <<tab, sweep, expired, over, missed, unlucky>>
  BY DEF S!SignIn, S!At
<1>2. /\ row \in Seq(SessionRow) /\ s \in Nat
  BY LenProperties DEF SessionTypes
<1>3. /\ row' \in Seq(SessionRow) /\ DOMAIN row' = DOMAIN row \union {s}
      /\ s \notin DOMAIN row /\ s # 0 /\ row'[s] = [family |-> s, live |-> TRUE]
      /\ \A r \in DOMAIN row : row'[r] = row[r]
  <2>1. /\ S!Create(row, s) \in Seq(SessionRow) /\ DOMAIN S!Create(row, s) = DOMAIN row \union {s}
        /\ s \notin DOMAIN row /\ s # 0 /\ S!Create(row, s)[s] = [family |-> s, live |-> TRUE]
        /\ \A r \in DOMAIN row : S!Create(row, s)[r] = row[r]
    BY <1>2, CreatedRows
  <2> QED
    BY <1>1, <2>1
<1> HIDE DEF s
<1>4. /\ store'[d] = s /\ signedIn'[d] = s
      /\ \A e \in S!Devices \ {d} : store'[e] = store[e] /\ signedIn'[e] = signedIn[e]
  BY <1>1 DEF SessionTypes
<1>5. \A r \in DOMAIN row : row[r].family \in DOMAIN row /\ row'[r].family # s
  BY <1>3 DEF SessionTypes
<1>6. SessionTypes'
  BY <1>1, <1>3 DEF SessionTypes, TabRow
<1>7. RotatedOnce'
  BY <1>1, <1>3, TokensAreRows DEF RotatedOnce
<1>8. OneLive'
  BY <1>3, <1>5 DEF OneLive
<1>9. DevicesApart'
  <2>1. ASSUME NEW e \in S!Devices, NEW f \in DOMAIN row', Holds(e, f)'
        PROVE  (e = d /\ f = s) \/ (f # s /\ f \in DOMAIN row /\ Holds(e, f))
    <3>1. CASE e = d
      BY <1>1, <1>3, <1>4, <1>5, <2>1, <3>1, TokensAreRows DEF Holds
    <3>2. CASE e # d
      BY <1>1, <1>3, <1>4, <1>5, <2>1, <3>2, TokensAreRows DEF Holds
    <3> QED
      BY <3>1, <3>2
  <2>2. \A t \in Tabs : tab[t].pc = "reuse" => \A r \in tab[t].seen : row'[r].family = row'[tab[t].token].family
    BY <1>3, TokensAreRows DEF DevicesApart
  <2> QED
    BY <1>1, <2>1, <2>2 DEF DevicesApart
<1>10. SweepSeesAll'
  BY <1>1, <1>3, <1>5, SweepKept
<1>11. EndedHasNoLive'
  BY <1>1, <1>3, <1>5, EndedKept
<1>12. TokenIsLive'
  <2> SUFFICES ASSUME NEW t \in Tabs, Undisturbed(t)' PROVE OnLive(t)'
    BY DEF TokenIsLive
  <2>1. CASE DeviceOf[t] = d
    BY <1>1, <1>3, <1>4, <2>1 DEF OnLive, Current
  <2>2. CASE DeviceOf[t] # d
    BY <1>1, <1>3, <1>4, <2>2, TokenKept, TokensAreRows
  <2> QED
    BY <2>1, <2>2
<1> QED
  BY <1>6, <1>7, <1>8, <1>9, <1>10, <1>11, <1>12

\* Signing out ends what the device stores.
LEMMA SignOutInvariant ==
  ASSUME SessionsIInv, NEW d \in S!Devices, S!SignOut(d)
  PROVE  SessionsIInv'
<1> USE DEF SessionsIInv
<1>1. /\ store[d] # 0 /\ \A t \in Tabs : tab[t].pc = "rotating" => tab[t].token # store[d]
      /\ S!End({store[d]})
      /\ store' = [store EXCEPT ![d] = 0] /\ signedIn' = [signedIn EXCEPT ![d] = 0]
      /\ UNCHANGED <<tab, sweep, expired, over, missed, unlucky>>
  BY DEF S!SignOut, S!Locked, S!At
<1>2. /\ row' \in Seq(SessionRow) /\ DOMAIN row' = DOMAIN row
      /\ \A s \in DOMAIN row : row'[s].family = row[s].family /\ (row'[s].live <=> row[s].live /\ s # store[d])
  BY <1>1, EndedRows
<1>3. /\ store'[d] = 0 /\ signedIn'[d] = 0
      /\ \A e \in S!Devices \ {d} : store'[e] = store[e] /\ signedIn'[e] = signedIn[e]
  BY <1>1 DEF SessionTypes
<1>4. SessionTypes'
  BY <1>1, <1>2 DEF SessionTypes, TabRow
<1>5. RotatedOnce'
  BY <1>1, <1>2, TokensAreRows DEF RotatedOnce
<1>6. OneLive'
  BY <1>2 DEF OneLive
<1>7. DevicesApart'
  <2>1. ASSUME NEW e \in S!Devices, NEW f \in DOMAIN row, Holds(e, f)' PROVE Holds(e, f)
    <3>1. (store'[e] # 0 => store'[e] = store[e]) /\ (signedIn'[e] = f => signedIn[e] = f)
      BY <1>3, TokensAreRows
    <3> QED
      BY <1>1, <1>2, <2>1, <3>1, TokensAreRows DEF Holds
  <2>2. ASSUME NEW t \in Tabs, tab[t].pc = "reuse", NEW r \in tab[t].seen
        PROVE  row'[r].family = row'[tab[t].token].family
    <3>1. r \in DOMAIN row /\ tab[t].token \in DOMAIN row
      BY <2>2, TokensAreRows
    <3>2. row[r].family = row[tab[t].token].family
      BY <2>2 DEF DevicesApart
    <3> QED
      BY <1>2, <3>1, <3>2
  <2> QED
    BY <1>1, <1>2, <2>1, <2>2 DEF DevicesApart
<1>8. SweepSeesAll'
  BY <1>1, <1>2, SweepKept
<1>9. EndedHasNoLive'
  BY <1>1, <1>2, EndedKept
<1>10. TokenIsLive'
  <2> SUFFICES ASSUME NEW t \in Tabs, Undisturbed(t)' PROVE OnLive(t)'
    BY DEF TokenIsLive
  <2>1. DeviceOf[t] \in S!Devices /\ DeviceOf[t] # d
    BY <1>3, TokensAreRows DEF Undisturbed
  <2>2. ASSUME Undisturbed(t), Current(t) \in DOMAIN row, row[Current(t)].live
        PROVE  row'[Current(t)].live /\ row'[Current(t)].family = row[Current(t)].family
    <3>1. Current(t) # store[d]
      BY <1>1, <2>1, <2>2, DeviceHolds, TokensAreRows DEF Holds, DevicesApart
    <3> QED
      BY <1>2, <2>2, <3>1
  <2> QED
    BY <1>1, <1>3, <2>1, <2>2, TokenKept
<1> QED
  BY <1>4, <1>5, <1>6, <1>7, <1>8, <1>9, <1>10

\* A session expires.
LEMMA ExpireInvariant ==
  ASSUME SessionsIInv, NEW f \in S!Sessions, S!Expire(f)
  PROVE  SessionsIInv'
<1> USE DEF SessionsIInv
<1>1. /\ expired' = expired \union {f}
      /\ UNCHANGED <<row, store, tab, sweep, over, missed, signedIn, unlucky>>
  BY DEF S!Expire
<1>2. SessionTypes' /\ RotatedOnce' /\ OneLive' /\ SweepSeesAll' /\ EndedHasNoLive'
  BY <1>1 DEF SessionTypes, TabRow, RotatedOnce, OneLive, SweepSeesAll, EndedHasNoLive
<1>3. DevicesApart'
  BY <1>1 DEF DevicesApart, Holds
<1>4. TokenIsLive'
  BY <1>1, TokenKept DEF TokenIsLive
<1> QED
  BY <1>2, <1>3, <1>4

-----------------------------------------------------------------------------
\* A step of one tab, which sends or keeps a token of its device.
LEMMA MoveInvariant ==
  ASSUME SessionsIInv, NEW t \in Tabs, tab' \in [Tabs -> TabRow],
         \A u \in Tabs \ {t} : tab'[u] = tab[u],
         UNCHANGED <<row, store, sweep, expired, over, signedIn, unlucky>>, missed \subseteq missed',
         tab'[t].pc # "idle", tab'[t].token \in DOMAIN row,
         Holds(DeviceOf[t], row[tab'[t].token].family),
         tab'[t].pc = "rotating" =>
           /\ row[tab'[t].token].live
           /\ \A u \in Tabs : tab[u].pc = "rotating" => tab[u].token # tab'[t].token
           /\ sweep.on => row[tab'[t].token].family \in missed',
         tab'[t].pc = "reuse" => \A s \in tab'[t].seen : row[s].family = row[tab'[t].token].family,
         Undisturbed(t) => /\ tab[t].pc # "rotated" /\ tab'[t].pc \in {"sent", "read", "rotating"}
                           /\ tab'[t].token = store[DeviceOf[t]]
  PROVE  SessionsIInv'
<1> USE DEF SessionsIInv
<1>1. SessionTypes'
  <2>1. tab'[t].token # 0
    BY TokensAreRows
  <2> QED
    BY <2>1 DEF SessionTypes, TabRow
<1>2. RotatedOnce'
  BY DEF RotatedOnce
<1>3. OneLive' /\ EndedHasNoLive'
  BY DEF OneLive, EndedHasNoLive
<1>4. DevicesApart'
  <2>1. ASSUME NEW d \in S!Devices, NEW f \in DOMAIN row, Holds(d, f)' PROVE Holds(d, f)
    BY <2>1 DEF Holds
  <2> QED
    BY <2>1 DEF DevicesApart
<1>5. SweepSeesAll'
  BY SweepKept
<1>6. TokenIsLive'
  <2> SUFFICES ASSUME NEW u \in Tabs, Undisturbed(u)' PROVE OnLive(u)'
    BY DEF TokenIsLive
  <2>1. Undisturbed(u)
    BY DEF Undisturbed
  <2>2. CASE u = t
    <3>1. OnLive(t)
      BY <2>1, <2>2 DEF TokenIsLive
    <3> QED
      BY <2>1, <2>2, <3>1 DEF OnLive, Current
  <2>3. CASE u # t
    BY <2>3, TokenKept
  <2> QED
    BY <2>2, <2>3
<1> QED
  BY <1>1, <1>2, <1>3, <1>4, <1>5, <1>6

\* A tab sends what its device stores.
LEMMA RefreshInvariant ==
  ASSUME SessionsIInv, NEW t \in Tabs, S!Refresh(t)
  PROVE  SessionsIInv'
<1> USE DEF SessionsIInv
<1>1. /\ tab[t].pc = "idle" /\ store[DeviceOf[t]] # 0
      /\ tab' = [tab EXCEPT ![t] = [[pc |-> "idle", token |-> 0, seen |-> {}] EXCEPT
                                      !.pc = "sent", !.token = store[DeviceOf[t]]]]
      /\ UNCHANGED <<row, store, sweep, expired, over, signedIn, unlucky, missed>>
  BY DEF S!Refresh, S!At, S!Idle, S!history
<1>2. /\ tab'[t].pc = "sent" /\ tab'[t].token = store[DeviceOf[t]]
      /\ \A u \in Tabs \ {t} : tab'[u] = tab[u]
  BY <1>1 DEF SessionTypes
<1>3. store[DeviceOf[t]] \in DOMAIN row
  BY <1>1, TokensAreRows
<1>4. tab' \in [Tabs -> TabRow]
  BY <1>1, <1>3 DEF SessionTypes, TabRow, TabSteps
<1>5. Holds(DeviceOf[t], row[tab'[t].token].family)
  BY <1>1, <1>2 DEF Holds
<1> QED
  BY <1>1, <1>2, <1>3, <1>4, <1>5, MoveInvariant

\* Its session is looked up, and found retired, expired or live.
LEMMA ReadInvariant ==
  ASSUME SessionsIInv, NEW t \in Tabs, S!Read(t)
  PROVE  SessionsIInv'
<1> DEFINE s == tab[t].token
           pc == IF ~row[s].live THEN "reuse" ELSE IF row[s].family \in expired THEN "refused" ELSE "read"
           seen == IF row[s].live THEN {} ELSE S!LiveOf(row[s].family)
<1> USE DEF SessionsIInv
<1>1. /\ tab[t].pc = "sent" /\ UNCHANGED <<row, store, sweep, expired, over, signedIn, unlucky, missed>>
      /\ tab' = [tab EXCEPT ![t].pc = pc, ![t].seen = seen]
  BY DEF S!Read, S!At, S!history, S!Family
<1>2. s \in DOMAIN row /\ seen \subseteq DOMAIN row /\ \A x \in seen : row[x].family = row[s].family
  BY <1>1, TokensAreRows DEF S!LiveOf, S!Sessions, S!Family
<1> HIDE DEF seen
<1>3. /\ tab'[t].pc = pc /\ tab'[t].token = s /\ tab'[t].seen = seen
      /\ \A u \in Tabs \ {t} : tab'[u] = tab[u]
  BY <1>1 DEF SessionTypes, TabRow
<1>4. tab' \in [Tabs -> TabRow]
  <2>1. tab[t] \in TabRow /\ pc \in TabSteps /\ seen \in SUBSET DOMAIN row
    BY <1>2 DEF SessionTypes, TabSteps
  <2>2. [[tab[t] EXCEPT !.pc = pc] EXCEPT !.seen = seen] \in TabRow
    BY <2>1 DEF TabRow
  <2>3. tab' = [tab EXCEPT ![t] = [[tab[t] EXCEPT !.pc = pc] EXCEPT !.seen = seen]]
    BY <1>1 DEF SessionTypes
  <2> QED
    BY <2>2, <2>3 DEF SessionTypes
<1>5. Holds(DeviceOf[t], row[s].family)
  BY <1>1 DEF Holds
<1>6. Undisturbed(t) => pc = "read" /\ s = store[DeviceOf[t]]
  BY <1>1, TokensAreRows DEF TokenIsLive, OnLive, Current, Undisturbed
<1> QED
  <2>1. pc \in {"reuse", "refused", "read"}
    OBVIOUS
  <2> HIDE DEF pc
  <2> QED
    BY <1>1, <1>2, <1>3, <1>4, <1>5, <1>6, <2>1, MoveInvariant

\* The guarded update locks a session that is live, and nobody else rotates.
LEMMA RetireInvariant ==
  ASSUME SessionsIInv, NEW t \in Tabs, S!Retire(t)
  PROVE  SessionsIInv'
<1> DEFINE s == tab[t].token
           pc == IF row[s].live THEN "rotating" ELSE "refused"
<1> USE DEF SessionsIInv
<1>1. /\ tab[t].pc = "read" /\ \A u \in Tabs : tab[u].pc = "rotating" => tab[u].token # s
      /\ missed' = IF row[s].live /\ sweep.on THEN missed \union {row[s].family} ELSE missed
      /\ tab' = [tab EXCEPT ![t].pc = pc]
      /\ UNCHANGED <<row, store, sweep, expired, over, signedIn, unlucky>>
  BY DEF S!Retire, S!At, S!Locked, S!Family, S!Move
<1>2. s \in DOMAIN row
  BY <1>1, TokensAreRows
<1>3. tab'[t].pc = pc /\ tab'[t].token = s /\ \A u \in Tabs \ {t} : tab'[u] = tab[u]
  BY <1>1 DEF SessionTypes, TabRow
<1>4. tab' \in [Tabs -> TabRow]
  <2>1. tab[t] \in TabRow /\ pc \in TabSteps
    BY DEF SessionTypes, TabSteps
  <2>2. [tab[t] EXCEPT !.pc = pc] \in TabRow
    BY <2>1 DEF TabRow
  <2> QED
    BY <1>1, <2>2 DEF SessionTypes
<1>5. Holds(DeviceOf[t], row[s].family)
  BY <1>1 DEF Holds
<1>6. Undisturbed(t) => row[s].live /\ s = store[DeviceOf[t]]
  BY <1>1 DEF TokenIsLive, OnLive, Current
<1> QED
  BY <1>1, <1>2, <1>3, <1>4, <1>5, <1>6, MoveInvariant

-----------------------------------------------------------------------------
\* An answer, or none, closes a refresh: what is stored is its token, or nothing.
LEMMA CloseInvariant ==
  ASSUME SessionsIInv, NEW t \in Tabs, NEW token, S!Close(t, token),
         UNCHANGED <<row, sweep, expired, over, missed, signedIn>>, unlucky \subseteq unlucky',
         \/ tab[t].pc = "rotated" /\ token = tab[t].token
         \/ token = 0 /\ (tab[t].pc = "refused" \/ DeviceOf[t] \in unlucky')
  PROVE  SessionsIInv'
<1> USE DEF SessionsIInv
<1>1. /\ store' = [store EXCEPT ![DeviceOf[t]] = token]
      /\ tab' = [tab EXCEPT ![t] = [pc |-> "idle", token |-> 0, seen |-> {}]]
  BY DEF S!Close, S!Idle
<1>2. /\ tab'[t] = [pc |-> "idle", token |-> 0, seen |-> {}] /\ \A u \in Tabs \ {t} : tab'[u] = tab[u]
      /\ store'[DeviceOf[t]] = token /\ \A d \in S!Devices \ {DeviceOf[t]} : store'[d] = store[d]
  BY <1>1, TokensAreRows DEF SessionTypes
<1>3. token = 0 \/ token \in DOMAIN row
  BY TokensAreRows
<1>4. SessionTypes'
  <2>1. tab' \in [Tabs -> TabRow] /\ store' \in [S!Devices -> DOMAIN row \union {0}]
    BY <1>1, <1>3 DEF SessionTypes, TabRow, TabSteps
  <2>2. \A u \in Tabs : tab'[u].pc # "idle" => tab'[u].token # 0
    BY <1>2 DEF SessionTypes
  <2>3. TabRow' = TabRow
    BY DEF TabRow
  <2> QED
    BY <2>1, <2>2, <2>3 DEF SessionTypes
<1>5. RotatedOnce' /\ OneLive' /\ EndedHasNoLive'
  BY <1>2 DEF RotatedOnce, OneLive, EndedHasNoLive
<1>6. DevicesApart'
  <2>1. ASSUME NEW d \in S!Devices, NEW f \in DOMAIN row, Holds(d, f)' PROVE Holds(d, f)
    BY <1>2, <2>1 DEF Holds
  <2> QED
    BY <1>2, <2>1 DEF DevicesApart
<1>7. SweepSeesAll'
  BY <1>2, SweepKept
<1>8. TokenIsLive'
  <2> SUFFICES ASSUME NEW u \in Tabs, Undisturbed(u)' PROVE OnLive(u)'
    BY DEF TokenIsLive
  <2>1. Undisturbed(u)
    BY DEF Undisturbed
  <2>2. CASE u = t
    <3>1. OnLive(t)
      BY <2>1, <2>2 DEF TokenIsLive
    <3>2. tab[t].pc = "rotated" /\ token = tab[t].token
      BY <2>2, <3>1 DEF OnLive, Undisturbed
    <3> QED
      BY <1>2, <2>2, <3>1, <3>2 DEF OnLive, Current
  <2>3. CASE u # t
    <3>1. DeviceOf[u] # DeviceOf[t] /\ DeviceOf[u] \in S!Devices
      BY <2>1, <2>3, TokensAreRows DEF Undisturbed
    <3> QED
      BY <1>2, <2>3, <3>1, TokenKept
  <2> QED
    BY <2>2, <2>3
<1> QED
  BY <1>4, <1>5, <1>6, <1>7, <1>8

\* A refresh is answered, refused or left without an answer.
LEMMA RefreshEnds ==
  ASSUME SessionsIInv, NEW t \in Tabs, S!Answer(t) \/ S!Refused(t) \/ S!AnswerLost(t)
  PROVE  SessionsIInv'
<1>1. CASE S!Answer(t)
  BY <1>1, CloseInvariant DEF S!Answer, S!At, S!history
<1>2. CASE S!Refused(t)
  BY <1>2, CloseInvariant DEF S!Refused, S!At, S!history
<1>3. CASE S!AnswerLost(t)
  BY <1>3, CloseInvariant DEF S!AnswerLost
<1> QED
  BY <1>1, <1>2, <1>3

\* A token that comes back ends what is left of its family, none of which is
\* being rotated.
LEMMA RevokeInvariant ==
  ASSUME SessionsIInv, NEW t \in Tabs, S!RevokeFamily(t)
  PROVE  SessionsIInv'
<1> DEFINE ss == tab[t].seen
<1> USE DEF SessionsIInv
<1>1. /\ tab[t].pc = "reuse" /\ \A u \in Tabs : tab[u].pc = "rotating" => tab[u].token \notin ss
      /\ S!End(ss) /\ tab' = [tab EXCEPT ![t].pc = "refused"]
      /\ UNCHANGED <<store, sweep, expired, over, missed, signedIn, unlucky>>
  BY DEF S!RevokeFamily, S!At, S!Locked, S!Move, S!history
<1>2. /\ row' \in Seq(SessionRow) /\ DOMAIN row' = DOMAIN row
      /\ \A s \in DOMAIN row : row'[s].family = row[s].family /\ (row'[s].live <=> row[s].live /\ s \notin ss)
  BY <1>1, EndedRows
<1>3. /\ tab'[t].pc = "refused" /\ tab'[t].token = tab[t].token /\ tab'[t].seen = ss
      /\ \A u \in Tabs \ {t} : tab'[u] = tab[u]
  BY <1>1 DEF SessionTypes, TabRow
<1> HIDE DEF ss
<1>4. SessionTypes'
  <2> tab[t] \in TabRow
    BY DEF SessionTypes
  <2>1. [tab[t] EXCEPT !.pc = "refused"] \in TabRow
    BY DEF TabRow, TabSteps
  <2>2. tab' \in [Tabs -> TabRow] /\ TabRow' = TabRow
    BY <1>1, <1>2, <2>1 DEF SessionTypes, TabRow
  <2>3. \A u \in Tabs : tab'[u].pc # "idle" => tab'[u].token # 0
    BY <1>1, <1>3 DEF SessionTypes
  <2> QED
    BY <1>1, <1>2, <2>2, <2>3 DEF SessionTypes
<1>5. RotatedOnce'
  BY <1>1, <1>2, <1>3, TokensAreRows, SMTT(20) DEF RotatedOnce
<1>6. OneLive'
  BY <1>2 DEF OneLive
<1>7. DevicesApart'
  <2>1. ASSUME NEW d \in S!Devices, NEW f \in DOMAIN row, Holds(d, f)' PROVE Holds(d, f)
    <3>1. \A u \in Tabs : tab'[u].token = tab[u].token /\ (tab'[u].pc # "idle" => tab[u].pc # "idle")
      BY <1>1, <1>3
    <3> QED
      <4>1. \A u \in Tabs : tab'[u].pc # "idle" => row'[tab'[u].token].family = row[tab[u].token].family
        BY <1>2, <3>1, TokensAreRows
      <4>2. store[d] # 0 => row'[store[d]].family = row[store[d]].family
        BY <1>2, TokensAreRows
      <4> QED
        BY <1>1, <2>1, <3>1, <4>1, <4>2 DEF Holds
  <2>2. ASSUME NEW u \in Tabs, tab'[u].pc = "reuse", NEW r \in tab'[u].seen
        PROVE  row'[r].family = row'[tab'[u].token].family
    <3>1. u # t /\ tab'[u] = tab[u]
      BY <1>3, <2>2
    <3>2. r \in DOMAIN row /\ tab[u].token \in DOMAIN row
      BY <2>2, <3>1, TokensAreRows
    <3> QED
      BY <1>2, <2>2, <3>1, <3>2 DEF DevicesApart
  <2> QED
    BY <1>2, <2>1, <2>2 DEF DevicesApart
<1>8. SweepSeesAll' /\ EndedHasNoLive'
  BY <1>1, <1>2, <1>3, SweepKept, EndedKept
<1>9. TokenIsLive'
  <2> SUFFICES ASSUME NEW u \in Tabs, Undisturbed(u)' PROVE OnLive(u)'
    BY DEF TokenIsLive
  <2>1. Undisturbed(u)
    BY <1>1 DEF Undisturbed
  <2>2. u # t
    BY <1>1, <2>1 DEF TokenIsLive, OnLive
  <2>3. DeviceOf[u] # DeviceOf[t]
    BY <2>1, <2>2 DEF Undisturbed
  <2>4. Current(u) \notin ss
    <3> SUFFICES ASSUME Current(u) \in ss PROVE FALSE
      OBVIOUS
    <3>1. row[Current(u)].family = row[tab[t].token].family
      BY <1>1 DEF DevicesApart, ss
    <3>2. Holds(DeviceOf[t], row[tab[t].token].family)
      BY <1>1 DEF Holds
    <3> QED
      BY <2>1, <2>3, <3>1, <3>2, DeviceHolds, TokensAreRows DEF DevicesApart
  <2> QED
    BY <1>1, <1>2, <1>3, <2>2, <2>4, TokenKept
<1> QED
  BY <1>4, <1>5, <1>6, <1>7, <1>8, <1>9

\* A rotation puts a successor in the place of the live session of its family.
LEMMA RotateInvariant ==
  ASSUME SessionsIInv, NEW t \in Tabs, S!Rotate(t)
  PROVE  SessionsIInv'
<1> DEFINE old == tab[t].token
           new == Len(row) + 1
           rows == [row EXCEPT ![old].live = FALSE]
           f == row[old].family
<1> USE DEF SessionsIInv
<1>1. /\ tab[t].pc = "rotating" /\ row' = S!Create(rows, f)
      /\ tab' = [tab EXCEPT ![t].pc = "rotated", ![t].token = new]
      /\ UNCHANGED <<store, sweep, expired, over, missed, signedIn, unlucky>>
  BY DEF S!Rotate, S!At, S!Family, S!history
<1>2. old \in DOMAIN row /\ row[old].live /\ f \in DOMAIN row
  BY <1>1, TokensAreRows DEF RotatedOnce
<1>3. /\ rows \in Seq(SessionRow) /\ Len(rows) = Len(row) /\ DOMAIN rows = DOMAIN row /\ f \in Nat
      /\ rows[old].family = f /\ ~rows[old].live
      /\ \A s \in DOMAIN row \ {old} : rows[s] = row[s]
  <2>1. row \in Seq(SessionRow) /\ DOMAIN row = 1..Len(row) /\ Len(row) \in Nat /\ row[old] \in SessionRow
    BY <1>2, LenProperties, ElementOfSeq, SMTT(20) DEF SessionTypes
  <2>2. [row[old] EXCEPT !.live = FALSE] \in SessionRow
    BY <2>1 DEF SessionRow
  <2>3. rows = [row EXCEPT ![old] = [row[old] EXCEPT !.live = FALSE]]
    OBVIOUS
  <2>4. rows \in Seq(SessionRow) /\ Len(rows) = Len(row)
    BY <1>2, <2>1, <2>2, <2>3, ExceptSeq
  <2>5. DOMAIN rows = DOMAIN row
    OBVIOUS
  <2>6. rows[old] = [row[old] EXCEPT !.live = FALSE] /\ \A s \in DOMAIN row \ {old} : rows[s] = row[s]
    BY <1>2, <2>3
  <2>7. rows[old].family = f /\ rows[old].live = FALSE
    BY <2>1, <2>6 DEF SessionRow
  <2> QED
    BY <1>2, <2>1, <2>4, <2>5, <2>6, <2>7
<1>4. /\ row' \in Seq(SessionRow) /\ DOMAIN row' = DOMAIN row \union {new}
      /\ new \notin DOMAIN row /\ new # 0 /\ row'[new] = [family |-> f, live |-> TRUE]
      /\ \A s \in DOMAIN row : row'[s] = rows[s]
  <2>1. Len(rows) + 1 = new
    BY <1>3
  <2> HIDE DEF rows, f, new
  <2>2. /\ S!Create(rows, f) \in Seq(SessionRow)
        /\ DOMAIN S!Create(rows, f) = DOMAIN rows \union {new}
        /\ new \notin DOMAIN rows /\ new # 0
        /\ S!Create(rows, f)[new] = [family |-> f, live |-> TRUE]
        /\ \A s \in DOMAIN rows : S!Create(rows, f)[s] = rows[s]
    BY <1>3, <2>1, CreatedRows
  <2> QED
    BY <1>1, <1>3, <2>2
<1>5. /\ \A s \in DOMAIN row : row'[s].family = row[s].family
      /\ \A s \in DOMAIN row : row'[s].live <=> row[s].live /\ s # old
      /\ row'[new].family = f /\ row'[new].live
  <2> HIDE DEF rows, new
  <2>1. row'[old].family = row[old].family /\ row'[old].live = FALSE
    BY <1>2, <1>3, <1>4
  <2>2. \A s \in DOMAIN row \ {old} : row'[s] = row[s]
    BY <1>3, <1>4
  <2> QED
    BY <1>2, <1>4, <2>1, <2>2, TokensAreRows
<1> HIDE DEF rows, new
<1>6. /\ tab'[t].pc = "rotated" /\ tab'[t].token = new /\ tab'[t].seen = tab[t].seen
      /\ \A u \in Tabs \ {t} : tab'[u] = tab[u]
  BY <1>1 DEF SessionTypes, TabRow
<1>7. SessionTypes'
  <2> tab[t] \in TabRow
    BY DEF SessionTypes
  <2>1. [[tab[t] EXCEPT !.pc = "rotated"] EXCEPT !.token = new] \in TabRow'
    BY <1>4 DEF TabRow, TabSteps
  <2>2. tab' = [tab EXCEPT ![t] = [[tab[t] EXCEPT !.pc = "rotated"] EXCEPT !.token = new]]
    BY <1>1 DEF SessionTypes
  <2>3. \A u \in Tabs : tab[u] \in TabRow'
    BY <1>4 DEF SessionTypes, TabRow
  <2>4. tab' \in [Tabs -> TabRow']
    BY <2>1, <2>2, <2>3 DEF SessionTypes
  <2>5. \A u \in Tabs : tab'[u].pc # "idle" => tab'[u].token # 0
    BY <1>4, <1>6 DEF SessionTypes
  <2>6. \A s \in DOMAIN row' : row'[s].family \in DOMAIN row'
    BY <1>2, <1>4, <1>5, TokensAreRows
  <2> QED
    BY <1>1, <1>4, <2>4, <2>5, <2>6 DEF SessionTypes
<1>8. RotatedOnce'
  <2>1. \A u \in Tabs : tab'[u].pc = "rotating" => u # t /\ tab'[u] = tab[u] /\ tab[u].pc = "rotating"
    BY <1>6
  <2>2. \A u \in Tabs \ {t} : tab[u].pc = "rotating" => tab[u].token # old /\ tab[u].token \in DOMAIN row
    BY <1>1, TokensAreRows DEF RotatedOnce
  <2> QED
    BY <1>5, <2>1, <2>2 DEF RotatedOnce
<1>9. OneLive'
  BY <1>2, <1>4, <1>5 DEF OneLive
<1>10. DevicesApart'
  <2>1. Holds(DeviceOf[t], f)
    BY <1>1 DEF Holds
  <2>2. ASSUME NEW d \in S!Devices, NEW g \in DOMAIN row', Holds(d, g)' PROVE Holds(d, g) /\ g \in DOMAIN row
    <3>1. CASE store[d] # 0 /\ row'[store[d]].family = g
      BY <1>5, <3>1, TokensAreRows DEF Holds
    <3>2. CASE signedIn[d] = g
      BY <1>4, <2>2, <3>2, TokensAreRows DEF Holds
    <3>3. ASSUME NEW u \in Tabs, DeviceOf[u] = d, tab'[u].pc # "idle", row'[tab'[u].token].family = g
          PROVE  Holds(d, g) /\ g \in DOMAIN row
      <4>1. CASE u = t
        BY <1>2, <1>5, <1>6, <2>1, <3>3, <4>1
      <4>2. CASE u # t
        BY <1>5, <1>6, <3>3, <4>2, TokensAreRows, SMTT(20) DEF Holds
      <4> QED
        BY <4>1, <4>2
    <3> QED
      BY <1>1, <2>2, <3>1, <3>2, <3>3, Zenon DEF Holds
  <2>3. \A u \in Tabs : tab'[u].pc = "reuse" => \A r \in tab'[u].seen : row'[r].family = row'[tab'[u].token].family
    BY <1>5, <1>6, TokensAreRows DEF DevicesApart
  <2> QED
    BY <2>2, <2>3 DEF DevicesApart
<1>11. SweepSeesAll'
  <2>1. sweep.on => f \in missed \/ \A s \in sweep.seen : row[s].family # f
    BY <1>1 DEF SweepSeesAll
  <2> QED
    <3> SUFFICES ASSUME sweep.on, NEW s \in sweep.seen, row'[s].family \notin missed
                 PROVE  /\ \A r \in DOMAIN row' : row'[r].live /\ row'[r].family = row'[s].family => r \in sweep.seen
                        /\ \A u \in Tabs : tab'[u].pc = "rotating" =>
                             row'[tab'[u].token].family # row'[s].family
      BY <1>1, Zenon DEF SweepSeesAll
    <3>1. s \in DOMAIN row /\ row'[s].family = row[s].family
      BY <1>5, TokensAreRows
    <3>2. row[s].family # f
      BY <2>1, <3>1
    <3>3. /\ \A r \in DOMAIN row : row[r].live /\ row[r].family = row[s].family => r \in sweep.seen
          /\ \A u \in Tabs : tab[u].pc = "rotating" => row[tab[u].token].family # row[s].family
      BY <3>1 DEF SweepSeesAll
    <3>4. \A r \in DOMAIN row' : row'[r].live /\ row'[r].family = row'[s].family => r \in sweep.seen
      BY <1>4, <1>5, <3>1, <3>2, <3>3
    <3>5. ASSUME NEW u \in Tabs, tab'[u].pc = "rotating" PROVE row'[tab'[u].token].family # row'[s].family
      <4>1. tab'[u] = tab[u] /\ tab[u].token \in DOMAIN row
        BY <1>6, <3>5, TokensAreRows
      <4> QED
        BY <1>5, <3>1, <3>3, <3>5, <4>1
    <3> QED
      BY <3>4, <3>5
<1>12. EndedHasNoLive'
  BY <1>1, <1>2, <1>4, <1>5, EndedKept
<1>13. TokenIsLive'
  <2> SUFFICES ASSUME NEW u \in Tabs, Undisturbed(u)' PROVE OnLive(u)'
    BY DEF TokenIsLive
  <2>1. Undisturbed(u)
    BY <1>1 DEF Undisturbed
  <2>2. CASE u = t
    <3>1. OnLive(t)
      BY <2>1, <2>2 DEF TokenIsLive
    <3>2. f = signedIn[DeviceOf[t]]
      BY <1>1, <3>1 DEF OnLive, Current
    <3> QED
      BY <1>1, <1>4, <1>5, <1>6, <2>2, <3>2 DEF OnLive, Current
  <2>3. CASE u # t
    <3>1. DeviceOf[u] # DeviceOf[t]
      BY <2>1, <2>3 DEF Undisturbed
    <3>2. Holds(DeviceOf[t], f)
      BY <1>1 DEF Holds
    <3>3. Current(u) # old
      BY <2>1, <3>1, <3>2, DeviceHolds, TokensAreRows DEF DevicesApart
    <3> QED
      BY <1>1, <1>5, <1>6, <2>3, <3>3, TokenKept, Zenon
  <2> QED
    BY <2>2, <2>3
<1> QED
  BY <1>7, <1>8, <1>9, <1>10, <1>11, <1>12, <1>13

-----------------------------------------------------------------------------
\* A statement that ends sessions sees all that are live, or one, which has its
\* family to itself; what is being rotated it will miss.
LEMMA StartSweepInvariant ==
  ASSUME SessionsIInv, S!StartSweep
  PROVE  SessionsIInv'
<1> USE DEF SessionsIInv
<1>1. PICK ss \in {S!Live} \union {{s} : s \in S!Live} :
        /\ sweep' = [on |-> TRUE, seen |-> ss]
        /\ missed' = missed \union {row[s].family : s \in ss \intersect S!Locked}
  BY DEF S!StartSweep, S!Family
<1>2. UNCHANGED <<row, store, tab, expired, over, signedIn, unlucky>>
  BY DEF S!StartSweep
<1>3. ss \subseteq DOMAIN row /\ \A s \in ss : row[s].live
  BY DEF S!Live, S!Sessions
<1>4. \A s \in ss : \A r \in DOMAIN row : row[r].live /\ row[r].family = row[s].family => r \in ss
  <2>1. CASE ss = S!Live
    BY <2>1 DEF S!Live, S!Sessions
  <2>2. CASE \E s \in S!Live : ss = {s}
    BY <1>3, <2>2 DEF OneLive
  <2> QED
    BY <2>1, <2>2
<1>5. SessionTypes'
  BY <1>1, <1>2, <1>3 DEF SessionTypes, TabRow
<1>6. RotatedOnce' /\ OneLive'
  BY <1>2 DEF RotatedOnce, OneLive
<1>7. EndedHasNoLive'
  BY <1>1, <1>2 DEF EndedHasNoLive
<1>8. DevicesApart'
  BY <1>2 DEF DevicesApart, Holds
<1>9. SweepSeesAll'
  <2> SUFFICES ASSUME NEW s \in ss, row[s].family \notin missed', NEW t \in Tabs, tab[t].pc = "rotating"
               PROVE  row[tab[t].token].family # row[s].family
    BY <1>1, <1>2, <1>4 DEF SweepSeesAll
  <2>1. tab[t].token \in DOMAIN row /\ row[tab[t].token].live /\ tab[t].token \in S!Locked
    BY TokensAreRows DEF RotatedOnce, S!Locked, S!At
  <2>2. tab[t].token # s
    BY <1>1, <2>1
  <2> QED
    BY <1>3, <2>1, <2>2 DEF OneLive
<1>10. TokenIsLive'
  BY <1>2, TokenKept DEF TokenIsLive
<1> QED
  BY <1>5, <1>6, <1>7, <1>8, <1>9, <1>10

\* It ends what it saw, which is all there is of those families but what it missed.
LEMMA FinishSweepInvariant ==
  ASSUME SessionsIInv, S!FinishSweep
  PROVE  SessionsIInv'
<1> DEFINE ss == sweep.seen
<1> USE DEF SessionsIInv
<1>1. /\ sweep.on /\ \A t \in Tabs : tab[t].pc = "rotating" => tab[t].token \notin ss
      /\ S!End(ss) /\ over' = over \union {row[s].family : s \in ss}
      /\ sweep' = [on |-> FALSE, seen |-> {}]
      /\ UNCHANGED <<store, tab, expired, missed, signedIn, unlucky>>
  BY DEF S!FinishSweep, S!At, S!Locked, S!Family
<1>2. /\ row' \in Seq(SessionRow) /\ DOMAIN row' = DOMAIN row
      /\ \A s \in DOMAIN row : row'[s].family = row[s].family /\ (row'[s].live <=> row[s].live /\ s \notin ss)
  BY <1>1, EndedRows
<1>3. ss \subseteq DOMAIN row /\ \A s \in ss : row[s].family \in DOMAIN row
  BY TokensAreRows
<1>4. SessionTypes'
  BY <1>1, <1>2, <1>3 DEF SessionTypes, TabRow
<1>5. RotatedOnce'
  BY <1>1, <1>2, TokensAreRows DEF RotatedOnce
<1>6. OneLive'
  BY <1>2 DEF OneLive
<1>7. DevicesApart'
  <2>1. ASSUME NEW d \in S!Devices, NEW f \in DOMAIN row, Holds(d, f)' PROVE Holds(d, f)
    BY <1>1, <1>2, <2>1, TokensAreRows DEF Holds
  <2>2. \A t \in Tabs : tab[t].pc = "reuse" => \A r \in tab[t].seen : row'[r].family = row'[tab[t].token].family
    BY <1>2, TokensAreRows, SMTT(20) DEF DevicesApart
  <2>3. DOMAIN row' = DOMAIN row /\ tab' = tab /\ S!Devices' = S!Devices
    BY <1>1, <1>2 DEF S!Devices
  <2>4. \A d, e \in S!Devices : \A f \in DOMAIN row : Holds(d, f)' /\ Holds(e, f)' => d = e
    BY <2>1 DEF DevicesApart
  <2> QED
    BY <2>2, <2>3, <2>4 DEF DevicesApart
<1>8. SweepSeesAll'
  BY <1>1 DEF SweepSeesAll
<1>9. EndedHasNoLive'
  BY <1>1, <1>2 DEF EndedHasNoLive, SweepSeesAll
<1>10. TokenIsLive'
  <2> SUFFICES ASSUME NEW t \in Tabs, Undisturbed(t)' PROVE OnLive(t)'
    BY DEF TokenIsLive
  <2>1. Undisturbed(t)
    BY <1>1 DEF Undisturbed
  <2>2. Current(t) \notin ss
    BY <1>1, <2>1, DeviceHolds DEF Undisturbed
  <2> QED
    BY <1>1, <1>2, <2>2, TokenKept
<1> QED
  BY <1>4, <1>5, <1>6, <1>7, <1>8, <1>9, <1>10

\* Every step of a session keeps the invariant of the sessions: one case per operation.
LEMMA SessionsStep == SessionsIInv /\ S!Next => SessionsIInv'
<1> SUFFICES ASSUME SessionsIInv, S!Next PROVE SessionsIInv'
  OBVIOUS
<1> QED
  BY SignInInvariant, SignOutInvariant, ExpireInvariant, RefreshInvariant, ReadInvariant,
     RevokeInvariant, RetireInvariant, RotateInvariant, RefreshEnds, StartSweepInvariant,
     FinishSweepInvariant DEF S!Next

\* The instance counts as this module does.
LEMMA SessionsCount == \A ss : S!Cardinality(ss) = Cardinality(ss)
BY DEF S!Cardinality, Cardinality

\* What the invariant says of families, of what was ended, and of devices.
LEMMA SessionsSafe ==
  ASSUME SessionsIInv, IsFiniteSet(Tabs)
  PROVE  S!OneLivePerFamily /\ S!EndedStaysEnded /\ S!SignedInUntilEnded
<1> USE DEF SessionsIInv
<1>1. ASSUME NEW f PROVE Cardinality(S!LiveOf(f)) <= 1
  <2>1. \A r, s \in S!LiveOf(f) : r = s
    BY DEF S!LiveOf, S!Sessions, S!Family, OneLive
  <2>2. CASE S!LiveOf(f) = {}
    BY <2>2, FS_EmptySet
  <2>3. ASSUME NEW r \in S!LiveOf(f) PROVE Cardinality(S!LiveOf(f)) = 1
    <3>1. S!LiveOf(f) = {r}
      BY <2>1
    <3> QED
      BY <3>1, FS_Singleton
  <2> QED
    BY <2>2, <2>3
<1>2. S!OneLivePerFamily
  BY <1>1, SessionsCount DEF S!OneLivePerFamily
<1>3. S!EndedStaysEnded
  BY DEF S!EndedStaysEnded, EndedHasNoLive, S!LiveOf, S!Sessions, S!Family
<1>4. ASSUME NEW t \in Tabs, S!Steady(DeviceOf[t]), signedIn[DeviceOf[t]] # 0,
             signedIn[DeviceOf[t]] \notin expired \union over
      PROVE  S!LiveOf(signedIn[DeviceOf[t]]) = {Current(t)}
  <2> DEFINE own == {u \in Tabs : DeviceOf[u] = DeviceOf[t]}
  <2>1. IsFiniteSet(own)
    BY FS_Subset
  <2>2. Cardinality(own) = 1 /\ DeviceOf[t] \notin unlucky
    BY <1>4, SessionsCount DEF S!Steady
  <2>3. \E u : own = {u}
    BY <2>1, <2>2, FS_Singleton
  <2>4. Undisturbed(t)
    BY <1>4, <2>2, <2>3 DEF Undisturbed
  <2> QED
    BY <2>4, DeviceHolds DEF OneLive, S!LiveOf, S!Sessions, S!Family
<1>5. S!SignedInUntilEnded
  BY <1>4 DEF S!SignedInUntilEnded, Current, S!At
<1> QED
  BY <1>2, <1>3, <1>5

-----------------------------------------------------------------------------
(* One-time codes *)

CodeRow == [consumed : BOOLEAN, expired : BOOLEAN, attempts : Nat]
GuesserRow == [pc : {"idle", "wrong", "right", "burn"}, of : Nat]

CodeTypes ==
  /\ overlap \in BOOLEAN
  /\ challenge \in Seq(CodeRow)
  /\ accepted \in Seq(Nat) /\ Len(accepted) = Len(challenge)
  /\ compared \in Seq(Nat) /\ Len(compared) = Len(challenge)
  /\ asker \in [Askers -> [pc : {"idle", "spend", "create"}]]
  /\ guesser \in [Guessers -> GuesserRow]
  /\ \A g \in Guessers : guesser[g].pc # "idle" => guesser[g].of \in DOMAIN challenge

\* Those who were told that c is not the code, and have not counted it yet.
Wrong(c) == {g \in Guessers : guesser[g].pc = "wrong" /\ guesser[g].of = c}

GuessesAreCounted ==
  \A c \in DOMAIN challenge :
    /\ compared[c] = challenge[c].attempts
    /\ challenge[c].attempts + Cardinality(Wrong(c)) < MaxAttempts + Cardinality(Guessers)

AcceptedIsSpent ==
  \A c \in DOMAIN challenge : accepted[c] <= 1 /\ (accepted[c] = 1 => challenge[c].consumed)

IsLive(c) == ~challenge[c].consumed /\ ~challenge[c].expired

\* While requests take turns, a code is created where none is live.
TurnsAreTaken ==
  ~overlap =>
    /\ \A a, b \in Askers : asker[a].pc # "idle" /\ asker[b].pc # "idle" => a = b
    /\ \A a \in Askers : asker[a].pc = "create" => \A c \in DOMAIN challenge : ~IsLive(c)
    /\ \A c \in DOMAIN challenge : IsLive(c) => c = Len(challenge)

CodesIInv == CodeTypes /\ GuessesAreCounted /\ AcceptedIsSpent /\ TurnsAreTaken

-----------------------------------------------------------------------------
\* What the types say of a challenge and of a guess.
LEMMA CodeFacts ==
  ASSUME CodeTypes
  PROVE  /\ Len(challenge) \in Nat /\ DOMAIN challenge = 1..Len(challenge)
         /\ DOMAIN accepted = DOMAIN challenge /\ DOMAIN compared = DOMAIN challenge
         /\ \A c \in DOMAIN challenge :
              /\ challenge[c] \in CodeRow /\ challenge[c].attempts \in Nat
              /\ challenge[c].consumed \in BOOLEAN /\ challenge[c].expired \in BOOLEAN
              /\ accepted[c] \in Nat /\ compared[c] \in Nat
         /\ \A g \in Guessers : /\ guesser[g] \in GuesserRow
                                /\ guesser[g].pc # "idle" => guesser[g].of \in DOMAIN challenge
<1>1. Len(challenge) \in Nat /\ DOMAIN challenge = 1..Len(challenge) /\ challenge \in [1..Len(challenge) -> CodeRow]
  BY LenProperties DEF CodeTypes
<1>2. /\ DOMAIN accepted = 1..Len(challenge) /\ accepted \in [1..Len(accepted) -> Nat]
      /\ DOMAIN compared = 1..Len(challenge) /\ compared \in [1..Len(compared) -> Nat]
  BY LenProperties DEF CodeTypes
<1> QED
  BY <1>1, <1>2 DEF CodeTypes, CodeRow

\* Those who guess are finitely many, those who guessed wrong no more.
LEMMA WrongIsFew ==
  ASSUME NEW W \in SUBSET Guessers
  PROVE  /\ IsFiniteSet(W) /\ Cardinality(W) \in Nat /\ Cardinality(Guessers) \in Nat
         /\ Cardinality(W) <= Cardinality(Guessers)
BY MembersAssumption, FS_Subset, FS_CardinalityType

\* A challenge that is changed leaves the others as they were.
LEMMA ChangedRow ==
  ASSUME CodeTypes, NEW c \in DOMAIN challenge, NEW r \in CodeRow, challenge' = [challenge EXCEPT ![c] = r]
  PROVE  /\ challenge' \in Seq(CodeRow) /\ Len(challenge') = Len(challenge)
         /\ DOMAIN challenge' = DOMAIN challenge
         /\ challenge'[c] = r /\ \A other \in DOMAIN challenge \ {c} : challenge'[other] = challenge[other]
BY CodeFacts, ExceptSeq DEF CodeTypes

\* A guesser who ends is wrong about nothing.
LEMMA EndedGuess ==
  ASSUME CodeTypes, NEW g \in Guessers, guesser' = [guesser EXCEPT ![g] = [pc |-> "idle", of |-> 0]],
         DOMAIN challenge' = DOMAIN challenge
  PROVE  /\ guesser' \in [Guessers -> GuesserRow]
         /\ \A h \in Guessers : guesser'[h].pc # "idle" => guesser'[h].of \in DOMAIN challenge'
         /\ \A c : Wrong(c)' = Wrong(c) \ {g}
<1>1. guesser'[g] = [pc |-> "idle", of |-> 0] /\ \A h \in Guessers \ {g} : guesser'[h] = guesser[h]
  BY DEF CodeTypes
<1>2. guesser' \in [Guessers -> GuesserRow]
  BY DEF CodeTypes, GuesserRow
<1> QED
  BY <1>1, <1>2, CodeFacts DEF Wrong

\* Fewer wrong guesses under way are as few as may be.
LEMMA CountKept ==
  ASSUME CodesIInv, NEW c \in DOMAIN challenge, Wrong(c)' \subseteq Wrong(c),
         UNCHANGED <<compared[c], challenge[c].attempts>>
  PROVE  /\ compared'[c] = challenge'[c].attempts
         /\ challenge'[c].attempts + Cardinality(Wrong(c)') < MaxAttempts + Cardinality(Guessers)
<1>1. /\ compared[c] = challenge[c].attempts /\ challenge[c].attempts \in Nat
      /\ challenge[c].attempts + Cardinality(Wrong(c)) < MaxAttempts + Cardinality(Guessers)
  BY CodeFacts DEF CodesIInv, GuessesAreCounted
<1>2. Wrong(c) \in SUBSET Guessers /\ Wrong(c)' \in SUBSET Guessers
  BY DEF Wrong
<1>3. Cardinality(Wrong(c)') <= Cardinality(Wrong(c)) /\ Cardinality(Wrong(c)) \in Nat /\ Cardinality(Wrong(c)') \in Nat
  BY <1>2, WrongIsFew, FS_Subset
<1>4. MaxAttempts \in Nat /\ Cardinality(Guessers) \in Nat
  BY <1>2, WrongIsFew, MembersAssumption
<1> QED
  BY <1>1, <1>3, <1>4

\* No code was asked for.
LEMMA CodesInit == O!Init => CodesIInv
<1> SUFFICES ASSUME O!Init PROVE CodesIInv
  OBVIOUS
<1> USE DEF O!Init, O!NoAsker, O!NoGuesser
<1>1. challenge \in Seq(CodeRow) /\ accepted \in Seq(Nat) /\ compared \in Seq(Nat) /\ DOMAIN challenge = {}
  BY EmptySeq
<1>2. CodeTypes
  BY <1>1 DEF CodeTypes, GuesserRow
<1> QED
  BY <1>1, <1>2 DEF CodesIInv, GuessesAreCounted, AcceptedIsSpent, TurnsAreTaken

-----------------------------------------------------------------------------
\* A request begins, or dies, or the next need not wait.
LEMMA AskInvariant ==
  ASSUME CodesIInv, O!CoolDown \/ \E a \in Askers : O!Ask(a) \/ O!AskerDies(a)
  PROVE  CodesIInv'
<1> USE DEF CodesIInv
<1>1. UNCHANGED <<overlap, challenge, guesser, compared, accepted>>
  BY DEF O!CoolDown, O!Ask, O!AskerDies
<1>2. CodeTypes /\ TurnsAreTaken
  OBVIOUS
<1>3. asker' \in [Askers -> [pc : {"idle", "spend", "create"}]] /\ TurnsAreTaken'
  <2>1. CASE O!CoolDown
    BY <1>1, <1>2, <2>1 DEF O!CoolDown, CodeTypes, TurnsAreTaken, IsLive
  <2>2. ASSUME NEW a \in Askers, O!Ask(a)
        PROVE  asker' \in [Askers -> [pc : {"idle", "spend", "create"}]] /\ TurnsAreTaken'
    <3>1. asker' = [asker EXCEPT ![a].pc = "spend"] /\ (overlap \/ \A b \in Askers : asker[b].pc = "idle")
      BY <2>2 DEF O!Ask, O!Is
    <3>2. asker'[a].pc = "spend" /\ \A b \in Askers \ {a} : asker'[b] = asker[b]
      BY <1>2, <3>1 DEF CodeTypes
    <3>3. asker' \in [Askers -> [pc : {"idle", "spend", "create"}]]
      BY <1>2, <3>1 DEF CodeTypes
    <3> QED
      BY <1>1, <1>2, <3>1, <3>2, <3>3 DEF TurnsAreTaken, IsLive
  <2>3. ASSUME NEW a \in Askers, O!AskerDies(a)
        PROVE  asker' \in [Askers -> [pc : {"idle", "spend", "create"}]] /\ TurnsAreTaken'
    <3>1. asker' = [asker EXCEPT ![a] = [pc |-> "idle"]]
      BY <2>3 DEF O!AskerDies, O!NoAsker
    <3>2. asker'[a].pc = "idle" /\ \A b \in Askers \ {a} : asker'[b] = asker[b]
      BY <1>2, <3>1 DEF CodeTypes
    <3>3. asker' \in [Askers -> [pc : {"idle", "spend", "create"}]]
      BY <1>2, <3>1 DEF CodeTypes
    <3> QED
      BY <1>1, <1>2, <3>2, <3>3 DEF TurnsAreTaken, IsLive
  <2> QED
    BY <2>1, <2>2, <2>3
<1> QED
  BY <1>1, <1>3 DEF CodeTypes, GuessesAreCounted, Wrong, AcceptedIsSpent

\* The codes that are live are spent.
LEMMA SpendOthersInvariant ==
  ASSUME CodesIInv, NEW a \in Askers, O!SpendOthers(a)
  PROVE  CodesIInv'
<1> USE DEF CodesIInv
<1>1. /\ asker[a].pc = "spend" /\ asker' = [asker EXCEPT ![a].pc = "create"]
      /\ challenge' = [c \in DOMAIN challenge |-> [challenge[c] EXCEPT !.consumed = @ \/ IsLive(c)]]
      /\ UNCHANGED <<overlap, guesser, compared, accepted>>
  BY DEF O!SpendOthers, O!Is, O!Live, IsLive
<1>2. ASSUME NEW c \in DOMAIN challenge
      PROVE  /\ challenge'[c] \in CodeRow /\ challenge'[c].attempts = challenge[c].attempts
             /\ challenge'[c].consumed <=> challenge[c].consumed \/ IsLive(c)
             /\ challenge'[c].expired <=> challenge[c].expired
  <2>1. challenge[c] \in CodeRow /\ (challenge[c].consumed \/ IsLive(c)) \in BOOLEAN
    BY CodeFacts
  <2>2. challenge'[c] = [challenge[c] EXCEPT !.consumed = challenge[c].consumed \/ IsLive(c)]
    BY <1>1
  <2> HIDE DEF IsLive
  <2> QED
    BY <2>1, <2>2 DEF CodeRow
<1>3. challenge' \in Seq(CodeRow) /\ DOMAIN challenge' = DOMAIN challenge /\ Len(challenge') = Len(challenge)
  <2>1. challenge' \in [1..Len(challenge) -> CodeRow]
    BY <1>1, <1>2, CodeFacts
  <2>2. challenge' \in Seq(CodeRow)
    BY <2>1, CodeFacts, SeqDef
  <2> QED
    BY <2>1, <2>2, CodeFacts, LenProperties
<1>4. asker'[a].pc = "create" /\ \A b \in Askers \ {a} : asker'[b] = asker[b]
  BY <1>1 DEF CodeTypes
<1>5. CodeTypes'
  BY <1>1, <1>3 DEF CodeTypes
<1>6. GuessesAreCounted'
  BY <1>1, <1>2, <1>3 DEF GuessesAreCounted, Wrong
<1>7. AcceptedIsSpent'
  BY <1>1, <1>2, <1>3 DEF AcceptedIsSpent
<1>8. TurnsAreTaken'
  <2>1. \A c \in DOMAIN challenge : ~IsLive(c)'
    BY <1>2 DEF IsLive
  <2>2. \A b \in Askers : asker'[b].pc # "idle" => asker[b].pc # "idle"
    BY <1>1, <1>4
  <2> QED
    BY <1>1, <1>3, <2>1, <2>2 DEF TurnsAreTaken
<1> QED
  BY <1>5, <1>6, <1>7, <1>8

\* A code is created; while requests take turns it is the only one that is live.
LEMMA CreateInvariant ==
  ASSUME CodesIInv, NEW a \in Askers, O!Create(a)
  PROVE  CodesIInv'
<1> DEFINE fresh == [consumed |-> FALSE, expired |-> FALSE, attempts |-> 0]
<1> USE DEF CodesIInv
<1>0. PICK new \in Nat : new = Len(challenge) + 1
  BY CodeFacts
<1>1. /\ asker[a].pc = "create" /\ asker' = [asker EXCEPT ![a] = [pc |-> "idle"]]
      /\ challenge' = Append(challenge, fresh)
      /\ compared' = Append(compared, 0) /\ accepted' = Append(accepted, 0)
      /\ UNCHANGED <<overlap, guesser>>
  BY DEF O!Create, O!Is, O!NoAsker
<1>2. fresh \in CodeRow
  BY DEF CodeRow
<1>3. /\ challenge' \in Seq(CodeRow) /\ Len(challenge') = new /\ challenge'[new] = fresh
      /\ \A c \in 1..Len(challenge) : challenge'[c] = challenge[c]
      /\ compared' \in Seq(Nat) /\ Len(compared') = new /\ compared'[new] = 0
      /\ \A c \in 1..Len(challenge) : compared'[c] = compared[c]
      /\ accepted' \in Seq(Nat) /\ Len(accepted') = new /\ accepted'[new] = 0
      /\ \A c \in 1..Len(challenge) : accepted'[c] = accepted[c]
  BY <1>0, <1>1, <1>2, AppendProperties DEF CodeTypes
<1>4. DOMAIN challenge' = DOMAIN challenge \union {new} /\ new \notin DOMAIN challenge /\ new \in Nat
  BY <1>0, <1>3, CodeFacts, LenProperties
<1>5. asker'[a].pc = "idle" /\ \A b \in Askers \ {a} : asker'[b] = asker[b]
  BY <1>1 DEF CodeTypes
<1>6. CodeTypes'
  <2>1. asker' \in [Askers -> [pc : {"idle", "spend", "create"}]]
    BY <1>1 DEF CodeTypes
  <2> QED
    BY <1>1, <1>3, <1>4, <2>1 DEF CodeTypes
<1>7. GuessesAreCounted'
  <2>1. ASSUME NEW c \in DOMAIN challenge
        PROVE  /\ compared'[c] = challenge'[c].attempts
               /\ challenge'[c].attempts + Cardinality(Wrong(c)') < MaxAttempts + Cardinality(Guessers)
    BY <1>1, <1>3, CountKept, CodeFacts DEF Wrong
  <2>2. Wrong(new)' = {}
    BY <1>1, <1>4, CodeFacts DEF Wrong
  <2>3. Cardinality(Wrong(new)') = 0 /\ Cardinality(Guessers) \in Nat
    BY <2>2, FS_EmptySet, WrongIsFew
  <2> QED
    <3>1. /\ compared'[new] = challenge'[new].attempts
          /\ challenge'[new].attempts + Cardinality(Wrong(new)') < MaxAttempts + Cardinality(Guessers)
      BY <1>3, <2>3, MembersAssumption
    <3>2. ASSUME NEW c \in DOMAIN challenge'
          PROVE  /\ compared'[c] = challenge'[c].attempts
                 /\ challenge'[c].attempts + Cardinality(Wrong(c)') < MaxAttempts + Cardinality(Guessers)
      BY <1>4, <2>1, <3>1, <3>2
    <3> QED
      BY <3>2 DEF GuessesAreCounted
<1>8. AcceptedIsSpent'
  BY <1>3, <1>4, CodeFacts DEF AcceptedIsSpent
<1>9. TurnsAreTaken'
  BY <1>1, <1>3, <1>4, <1>5, CodeFacts DEF TurnsAreTaken, IsLive
<1> QED
  BY <1>6, <1>7, <1>8, <1>9

-----------------------------------------------------------------------------
\* A code expires.
LEMMA CodeExpires ==
  ASSUME CodesIInv, NEW c \in DOMAIN challenge, O!Expire(c)
  PROVE  CodesIInv'
<1> DEFINE r == [challenge[c] EXCEPT !.expired = TRUE]
<1> USE DEF CodesIInv
<1>1. /\ challenge' = [challenge EXCEPT ![c] = r]
      /\ UNCHANGED <<overlap, asker, guesser, compared, accepted>>
  BY DEF O!Expire
<1>2. /\ r \in CodeRow /\ r.attempts = challenge[c].attempts /\ r.consumed = challenge[c].consumed
      /\ r.expired = TRUE
  BY CodeFacts DEF CodeRow
<1> HIDE DEF r
<1>3. /\ challenge' \in Seq(CodeRow) /\ Len(challenge') = Len(challenge)
      /\ DOMAIN challenge' = DOMAIN challenge
      /\ challenge'[c] = r /\ \A other \in DOMAIN challenge \ {c} : challenge'[other] = challenge[other]
  BY <1>1, <1>2, ChangedRow
<1>4. CodeTypes'
  BY <1>1, <1>3 DEF CodeTypes
<1>5. GuessesAreCounted' /\ AcceptedIsSpent'
  <2>1. Wrong(c)' = Wrong(c) /\ \A other \in DOMAIN challenge : Wrong(other)' = Wrong(other)
    BY <1>1 DEF Wrong
  <2>2. \A other \in DOMAIN challenge' :
          /\ other \in DOMAIN challenge /\ challenge'[other].attempts = challenge[other].attempts
          /\ challenge'[other].consumed = challenge[other].consumed
    BY <1>2, <1>3
  <2>3. GuessesAreCounted'
    BY <1>1, <2>1, <2>2 DEF GuessesAreCounted
  <2>4. AcceptedIsSpent'
    BY <1>1, <2>2 DEF AcceptedIsSpent
  <2> QED
    BY <2>3, <2>4
<1>6. TurnsAreTaken'
  BY <1>1, <1>2, <1>3 DEF TurnsAreTaken, IsLive
<1> QED
  BY <1>4, <1>5, <1>6

\* A guess is compared with a code that may still be guessed at.
LEMMA GuessInvariant ==
  ASSUME CodesIInv, NEW g \in Guessers, NEW c \in DOMAIN challenge, O!Guess(g, c)
  PROVE  CodesIInv'
<1> USE DEF CodesIInv
<1>1. /\ guesser[g].pc = "idle" /\ challenge[c].attempts < MaxAttempts
      /\ UNCHANGED <<overlap, challenge, asker, compared, accepted>>
  BY DEF O!Guess, O!Does
<1>2. PICK next \in {"wrong", "right"} : guesser' = [guesser EXCEPT ![g] = [pc |-> next, of |-> c]]
  BY DEF O!Guess
<1>3. guesser'[g] = [pc |-> next, of |-> c] /\ \A h \in Guessers \ {g} : guesser'[h] = guesser[h]
  BY <1>2 DEF CodeTypes
<1>4. CodeTypes'
  <2>1. guesser' \in [Guessers -> GuesserRow]
    BY <1>2, CodeFacts DEF CodeTypes, GuesserRow
  <2>2. \A h \in Guessers : guesser'[h].pc # "idle" => guesser'[h].of \in DOMAIN challenge
    BY <1>3, CodeFacts
  <2> QED
    BY <1>1, <2>1, <2>2 DEF CodeTypes
<1>5. GuessesAreCounted'
  <2> SUFFICES ASSUME NEW d \in DOMAIN challenge
               PROVE  /\ compared[d] = challenge[d].attempts
                      /\ challenge[d].attempts + Cardinality(Wrong(d)') < MaxAttempts + Cardinality(Guessers)
    BY <1>1 DEF GuessesAreCounted
  <2>1. CASE d = c
    <3>1. Cardinality(Wrong(c)') \in Nat /\ Cardinality(Wrong(c)') <= Cardinality(Guessers) /\ Cardinality(Guessers) \in Nat
      BY WrongIsFew DEF Wrong
    <3>2. challenge[c].attempts \in Nat /\ MaxAttempts \in Nat
      BY CodeFacts, MembersAssumption
    <3> QED
      BY <1>1, <2>1, <3>1, <3>2 DEF GuessesAreCounted
  <2>2. CASE d # c
    <3>1. Wrong(d)' = Wrong(d)
      BY <1>1, <1>3, <2>2 DEF Wrong
    <3> QED
      BY <3>1 DEF GuessesAreCounted
  <2> QED
    BY <2>1, <2>2
<1> QED
  BY <1>1, <1>4, <1>5 DEF AcceptedIsSpent, TurnsAreTaken, IsLive

\* A wrong guess is counted, by whoever was told.
LEMMA CountInvariant ==
  ASSUME CodesIInv, NEW g \in Guessers, O!CountWrong(g)
  PROVE  CodesIInv'
<1> DEFINE c == guesser[g].of
           r == [challenge[c] EXCEPT !.attempts = challenge[c].attempts + 1]
           burns == challenge[c].attempts + 1 >= MaxAttempts
<1> USE DEF CodesIInv
<1>1. /\ guesser[g].pc = "wrong" /\ compared' = [compared EXCEPT ![c] = compared[c] + 1]
      /\ challenge' = [challenge EXCEPT ![c] = r]
      /\ guesser' = [guesser EXCEPT ![g] = IF burns THEN [guesser[g] EXCEPT !.pc = "burn"]
                                           ELSE [pc |-> "idle", of |-> 0]]
      /\ UNCHANGED <<overlap, asker, accepted>>
  BY DEF O!CountWrong, O!Does, O!NoGuesser
<1>2. c \in DOMAIN challenge
  BY <1>1, CodeFacts
<1>3. /\ r \in CodeRow /\ r.attempts = challenge[c].attempts + 1 /\ r.consumed = challenge[c].consumed
      /\ r.expired = challenge[c].expired
  BY <1>2, CodeFacts DEF CodeRow
<1> HIDE DEF r
<1>4. /\ challenge' \in Seq(CodeRow) /\ Len(challenge') = Len(challenge)
      /\ DOMAIN challenge' = DOMAIN challenge
      /\ challenge'[c] = r /\ \A other \in DOMAIN challenge \ {c} : challenge'[other] = challenge[other]
  BY <1>1, <1>2, <1>3, ChangedRow
<1>5. /\ compared' \in Seq(Nat) /\ Len(compared') = Len(compared) /\ compared'[c] = compared[c] + 1
      /\ \A other \in DOMAIN challenge \ {c} : compared'[other] = compared[other]
  BY <1>1, <1>2, CodeFacts, ExceptSeq, SMTT(20) DEF CodeTypes
<1>6. /\ guesser' \in [Guessers -> GuesserRow]
      /\ guesser'[g].pc \in {"burn", "idle"} /\ (guesser'[g].pc # "idle" => guesser'[g].of = c)
      /\ \A h \in Guessers \ {g} : guesser'[h] = guesser[h]
  <2>1. [guesser[g] EXCEPT !.pc = "burn"] \in GuesserRow /\ [pc |-> "idle", of |-> 0] \in GuesserRow
    BY CodeFacts DEF GuesserRow
  <2> HIDE DEF burns
  <2> QED
    BY <1>1, <2>1 DEF CodeTypes, GuesserRow
<1> HIDE DEF c
<1>7. CodeTypes'
  BY <1>1, <1>2, <1>4, <1>5, <1>6 DEF CodeTypes
<1>8. GuessesAreCounted'
  <2> SUFFICES ASSUME NEW d \in DOMAIN challenge
               PROVE  /\ compared'[d] = challenge'[d].attempts
                      /\ challenge'[d].attempts + Cardinality(Wrong(d)') < MaxAttempts + Cardinality(Guessers)
    BY <1>4 DEF GuessesAreCounted
  <2>1. CASE d = c
    <3>1. Wrong(d)' = Wrong(d) \ {g} /\ g \in Wrong(d)
      BY <1>1, <1>6, <2>1 DEF Wrong, c
    <3>2. IsFiniteSet(Wrong(d)) /\ Cardinality(Wrong(d)) \in Nat /\ Cardinality(Guessers) \in Nat
      BY WrongIsFew DEF Wrong
    <3>3. Cardinality(Wrong(d)') = Cardinality(Wrong(d)) - 1
      BY <3>1, <3>2, FS_RemoveElement
    <3>4. /\ compared[d] = challenge[d].attempts /\ challenge[d].attempts \in Nat /\ MaxAttempts \in Nat
          /\ challenge[d].attempts + Cardinality(Wrong(d)) < MaxAttempts + Cardinality(Guessers)
      BY CodeFacts, MembersAssumption DEF GuessesAreCounted
    <3>5. compared'[d] = compared[d] + 1 /\ challenge'[d].attempts = challenge[d].attempts + 1
      BY <1>3, <1>4, <1>5, <2>1
    <3> QED
      BY <3>2, <3>3, <3>4, <3>5
  <2>2. CASE d # c
    <3>1. Wrong(d)' = Wrong(d)
      BY <1>1, <1>6, <2>2 DEF Wrong, c
    <3> QED
      BY <1>4, <1>5, <2>2, <3>1 DEF GuessesAreCounted
  <2> QED
    BY <2>1, <2>2
<1>9. AcceptedIsSpent' /\ TurnsAreTaken'
  BY <1>1, <1>3, <1>4 DEF AcceptedIsSpent, TurnsAreTaken, IsLive
<1> QED
  BY <1>7, <1>8, <1>9

\* A code that is burned, or spent by who knew it, was accepted once at most.
LEMMA SpendInvariant ==
  ASSUME CodesIInv, NEW g \in Guessers, O!Burn(g) \/ O!Spend(g)
  PROVE  CodesIInv'
<1> DEFINE c == guesser[g].of
           r == [challenge[c] EXCEPT !.consumed = TRUE]
<1> USE DEF CodesIInv
<1>1. /\ guesser[g].pc \in {"burn", "right"} /\ challenge' = [challenge EXCEPT ![c] = r]
      /\ guesser' = [guesser EXCEPT ![g] = [pc |-> "idle", of |-> 0]]
      /\ \/ accepted' = accepted
         \/ ~challenge[c].consumed /\ accepted' = [accepted EXCEPT ![c] = accepted[c] + 1]
      /\ UNCHANGED <<overlap, asker, compared>>
  BY DEF O!Burn, O!Spend, O!Does, O!NoGuesser
<1>2. c \in DOMAIN challenge
  BY <1>1, CodeFacts
<1>3. /\ r \in CodeRow /\ r.attempts = challenge[c].attempts /\ r.consumed = TRUE
      /\ r.expired = challenge[c].expired
  BY <1>2, CodeFacts DEF CodeRow
<1> HIDE DEF r
<1>4. /\ challenge' \in Seq(CodeRow) /\ Len(challenge') = Len(challenge)
      /\ DOMAIN challenge' = DOMAIN challenge
      /\ challenge'[c] = r /\ \A other \in DOMAIN challenge \ {c} : challenge'[other] = challenge[other]
  BY <1>1, <1>2, <1>3, ChangedRow
<1>5. /\ guesser' \in [Guessers -> GuesserRow]
      /\ \A h \in Guessers : guesser'[h].pc # "idle" => guesser'[h].of \in DOMAIN challenge'
      /\ \A d : Wrong(d)' = Wrong(d) \ {g}
  BY <1>1, <1>4, EndedGuess
<1> HIDE DEF c
<1>6. /\ accepted' \in Seq(Nat) /\ Len(accepted') = Len(accepted)
      /\ \A other \in DOMAIN challenge \ {c} : accepted'[other] = accepted[other]
      /\ \/ accepted'[c] = accepted[c]
         \/ ~challenge[c].consumed /\ accepted'[c] = accepted[c] + 1
  <2>1. CASE accepted' = accepted
    BY <2>1 DEF CodeTypes
  <2>2. CASE ~challenge[c].consumed /\ accepted' = [accepted EXCEPT ![c] = accepted[c] + 1]
    BY <1>2, <2>2, CodeFacts, ExceptSeq DEF CodeTypes
  <2> QED
    BY <1>1, <2>1, <2>2
<1>7. CodeTypes'
  BY <1>1, <1>4, <1>5, <1>6 DEF CodeTypes
<1>8. GuessesAreCounted'
  <2>1. \A d \in DOMAIN challenge : compared'[d] = compared[d] /\ challenge'[d].attempts = challenge[d].attempts
    BY <1>1, <1>3, <1>4
  <2> QED
    BY <1>4, <1>5, <2>1, CountKept DEF GuessesAreCounted
<1>9. AcceptedIsSpent'
  <2>1. accepted'[c] <= 1
    BY <1>2, <1>6, CodeFacts DEF AcceptedIsSpent
  <2> QED
    BY <1>3, <1>4, <1>6, <2>1 DEF AcceptedIsSpent
<1>10. TurnsAreTaken'
  BY <1>1, <1>3, <1>4 DEF TurnsAreTaken, IsLive
<1> QED
  BY <1>7, <1>8, <1>9, <1>10

\* A verification dies, and what it knew is not counted.
LEMMA GuesserDiesInvariant ==
  ASSUME CodesIInv, NEW g \in Guessers, O!GuesserDies(g)
  PROVE  CodesIInv'
<1> USE DEF CodesIInv
<1>1. /\ guesser' = [guesser EXCEPT ![g] = [pc |-> "idle", of |-> 0]]
      /\ UNCHANGED <<overlap, challenge, asker, compared, accepted>>
  BY DEF O!GuesserDies, O!NoGuesser
<1>2. /\ guesser' \in [Guessers -> GuesserRow]
      /\ \A h \in Guessers : guesser'[h].pc # "idle" => guesser'[h].of \in DOMAIN challenge'
      /\ \A d : Wrong(d)' = Wrong(d) \ {g}
  BY <1>1, EndedGuess
<1>3. CodeTypes' /\ AcceptedIsSpent' /\ TurnsAreTaken'
  BY <1>1, <1>2 DEF CodeTypes, AcceptedIsSpent, TurnsAreTaken, IsLive
<1>4. GuessesAreCounted'
  BY <1>1, <1>2, CountKept DEF GuessesAreCounted
<1> QED
  BY <1>3, <1>4

\* Every step of a code keeps the invariant of the codes: one case per operation.
LEMMA CodesStep == CodesIInv /\ O!Next => CodesIInv'
<1> SUFFICES ASSUME CodesIInv, O!Next PROVE CodesIInv'
  OBVIOUS
<1> QED
  BY AskInvariant, SpendOthersInvariant, CreateInvariant, CodeExpires, GuessInvariant, CountInvariant,
     SpendInvariant, GuesserDiesInvariant DEF O!Next

\* The instance counts as this module does.
LEMMA CodesCount == \A ss : O!Cardinality(ss) = Cardinality(ss)
BY DEF O!Cardinality, Cardinality

\* What the invariant says of a code.
LEMMA CodesSafe == CodesIInv => O!OneCodeFewGuesses
<1> SUFFICES ASSUME CodesIInv, NEW c \in DOMAIN challenge
             PROVE  /\ accepted[c] <= 1 /\ (accepted[c] = 1 => challenge[c].consumed)
                    /\ compared[c] < MaxAttempts + Cardinality(Guessers)
                    /\ ~overlap /\ IsLive(c) => c = Len(challenge)
  BY CodesCount DEF O!OneCodeFewGuesses, O!Live, IsLive
<1>1. Cardinality(Wrong(c)) \in Nat /\ Cardinality(Guessers) \in Nat /\ challenge[c].attempts \in Nat
  BY WrongIsFew, CodeFacts DEF Wrong, CodesIInv
<1>2. compared[c] < MaxAttempts + Cardinality(Guessers)
  BY <1>1, MembersAssumption DEF CodesIInv, GuessesAreCounted
<1> QED
  BY <1>2 DEF CodesIInv, AcceptedIsSpent, TurnsAreTaken

-----------------------------------------------------------------------------
(* Placements *)

PlacementTypes ==
  /\ tree \in TreeScenes
  /\ DOMAIN seat \subseteq Members
  /\ \A m \in DOMAIN search :
       /\ m \notin DOMAIN seat /\ search[m].level \subseteq DOMAIN seat
       /\ search[m] = [level |-> search[m].level, slot |-> search[m].slot]

\* Who registers by itself has a slot that nobody stands in.
SlotIsFree ==
  tree.apart =>
    /\ \A m, n \in DOMAIN search : m = n
    /\ \A m \in DOMAIN search : search[m].slot # N!Unplaced =>
         \A c \in DOMAIN seat : seat[c].parent = search[m].slot.parent =>
           seat[c].leg # search[m].slot.leg

PlacementIInv == PlacementTypes /\ SlotIsFree /\ N!OneChildPerLeg

-----------------------------------------------------------------------------
\* The placements there are put one member in a leg.
LEMMA PlacementInit == N!Init => PlacementIInv
<1> SUFFICES ASSUME N!Init PROVE PlacementIInv
  OBVIOUS
<1>1. tree \in TreeScenes /\ seat = tree.seats /\ DOMAIN search = {}
  BY DEF N!Init
<1>2. /\ DOMAIN seat \subseteq Members
      /\ \A c, d \in DOMAIN seat :
           c # d /\ seat[c].parent # None => <<seat[c].parent, seat[c].leg>> # <<seat[d].parent, seat[d].leg>>
  BY <1>1, TreesAssumption
<1> QED
  BY <1>1, <1>2 DEF PlacementIInv, PlacementTypes, SlotIsFree, N!OneChildPerLeg, N!Joined

\* A slot is sought from the sponsor down.
LEMMA RegisterInvariant ==
  ASSUME PlacementIInv, NEW m \in Members, N!Register(m)
  PROVE  PlacementIInv'
<1> DEFINE r == [level |-> {tree.sponsor[m]}, slot |-> N!Unplaced]
<1> USE DEF PlacementIInv
<1>1. /\ m \notin DOMAIN seat /\ tree.sponsor[m] \in DOMAIN seat
      /\ tree.apart => DOMAIN search = {}
      /\ DOMAIN search' = DOMAIN search \union {m} /\ search'[m] = r
      /\ \A n \in DOMAIN search \ {m} : search'[n] = search[n]
      /\ UNCHANGED <<tree, seat>>
  BY DEF N!Register, N!Joined, N!Put
<1>2. /\ r.level = {tree.sponsor[m]} /\ r.slot = N!Unplaced
      /\ r = [level |-> r.level, slot |-> r.slot]
  OBVIOUS
<1> HIDE DEF r
<1>3. PlacementTypes'
  BY <1>1, <1>2 DEF PlacementTypes
<1>4. SlotIsFree'
  <2>1. tree.apart => DOMAIN search' = {m}
    BY <1>1
  <2> QED
    BY <1>1, <1>2, <2>1 DEF SlotIsFree
<1>5. N!OneChildPerLeg'
  BY <1>1 DEF N!OneChildPerLeg, N!Joined
<1> QED
  BY <1>3, <1>4, <1>5

\* A slot that is found free is one nobody stands in.
LEMMA FreeSlot ==
  ASSUME PlacementTypes, NEW level \in SUBSET DOMAIN seat, NEW slot \in N!FirstFree(level)
  PROVE  /\ slot.parent \in DOMAIN seat
         /\ \A c \in DOMAIN seat : seat[c].parent = slot.parent => seat[c].leg # slot.leg
<1>1. PICK n \in level :
        /\ N!Free(n) # {}
        /\ slot = [parent |-> n, leg |-> IF "left" \in N!Free(n) THEN "left" ELSE "right",
                   path |-> Append(seat[n].path, n)]
  BY DEF N!FirstFree
<1>2. slot.parent = n /\ slot.leg \in N!Free(n)
  BY <1>1 DEF N!Free, N!Legs
<1> QED
  BY <1>2 DEF N!Free, N!Children, N!Joined

\* While one registers by itself, nobody takes what it has found.
LEMMA FindInvariant ==
  ASSUME PlacementIInv, NEW m \in Members, N!FindPlacement(m)
  PROVE  PlacementIInv'
<1> USE DEF PlacementIInv
<1>1. m \in DOMAIN search /\ UNCHANGED <<tree, seat>>
  BY DEF N!FindPlacement
<1>2. /\ DOMAIN search' = DOMAIN search /\ \A n \in DOMAIN search \ {m} : search'[n] = search[n]
      /\ \/ \E slot \in N!FirstFree(search[m].level) :
              search'[m] = [level |-> search[m].level, slot |-> slot]
         \/ search'[m] = [level |-> N!Children(search[m].level), slot |-> search[m].slot]
  <2> DEFINE level == search[m].level
             slot == search[m].slot
  <2>1. search[m] = [level |-> level, slot |-> slot]
    BY <1>1 DEF PlacementTypes
  <2> HIDE DEF level, slot
  <2>2. \/ \E other \in N!FirstFree(level) : search' = [search EXCEPT ![m].slot = other]
        \/ search' = [search EXCEPT ![m].level = N!Children(level)]
    BY DEF N!FindPlacement, level
  <2>3. CASE \E other \in N!FirstFree(level) : search' = [search EXCEPT ![m].slot = other]
    BY <1>1, <2>1, <2>3 DEF level
  <2>4. CASE search' = [search EXCEPT ![m].level = N!Children(level)]
    BY <1>1, <2>1, <2>4 DEF level, slot
  <2> QED
    BY <2>2, <2>3, <2>4
<1>3. N!OneChildPerLeg'
  BY <1>1 DEF N!OneChildPerLeg, N!Joined
<1>4. ASSUME NEW slot \in N!FirstFree(search[m].level),
             search'[m] = [level |-> search[m].level, slot |-> slot]
      PROVE  PlacementIInv'
  <2>1. search'[m].slot = slot /\ search'[m].level = search[m].level
    BY <1>4
  <2>2. \A c \in DOMAIN seat : seat[c].parent = slot.parent => seat[c].leg # slot.leg
    BY <1>1, FreeSlot DEF PlacementTypes
  <2>3. PlacementTypes'
    BY <1>1, <1>2, <1>4, <2>1 DEF PlacementTypes
  <2>4. SlotIsFree'
    BY <1>1, <1>2, <2>1, <2>2 DEF SlotIsFree
  <2> QED
    BY <1>3, <2>3, <2>4
<1>5. ASSUME search'[m] = [level |-> N!Children(search[m].level), slot |-> search[m].slot]
      PROVE  PlacementIInv'
  <2>1. search'[m].slot = search[m].slot /\ search'[m].level \subseteq DOMAIN seat
    BY <1>5 DEF N!Children, N!Joined
  <2>2. PlacementTypes'
    BY <1>1, <1>2, <1>5, <2>1 DEF PlacementTypes
  <2>3. SlotIsFree'
    BY <1>1, <1>2, <2>1 DEF SlotIsFree
  <2> QED
    BY <1>3, <2>2, <2>3
<1> QED
  BY <1>2, <1>4, <1>5

\* A member is placed in the slot that was found.
LEMMA PlaceInvariant ==
  ASSUME PlacementIInv, NEW m \in Members, N!Place(m)
  PROVE  PlacementIInv'
<1> USE DEF PlacementIInv
<1>1. /\ m \in DOMAIN search /\ search[m].slot # N!Unplaced /\ tree' = tree
      /\ DOMAIN seat' = DOMAIN seat \union {m} /\ seat'[m] = search[m].slot
      /\ \A c \in DOMAIN seat \ {m} : seat'[c] = seat[c]
      /\ DOMAIN search' = DOMAIN search \ {m} /\ \A n \in DOMAIN search' : search'[n] = search[n]
  BY DEF N!Place, N!Put, N!Restrict
<1>2. m \notin DOMAIN seat
  BY <1>1 DEF PlacementTypes
<1>3. PlacementTypes'
  BY <1>1 DEF PlacementTypes
<1>4. SlotIsFree'
  BY <1>1 DEF SlotIsFree
<1>5. N!OneChildPerLeg'
  <2> SUFFICES ASSUME tree.apart, NEW c \in DOMAIN seat', NEW d \in DOMAIN seat', c # d,
                      seat'[c].parent # None, seat'[c].parent = seat'[d].parent,
                      seat'[c].leg = seat'[d].leg
               PROVE  FALSE
    BY <1>1 DEF N!OneChildPerLeg, N!Joined
  <2>1. CASE c # m /\ d # m
    BY <1>1, <2>1 DEF N!OneChildPerLeg, N!Joined
  <2>2. CASE c = m \/ d = m
    BY <1>1, <1>2, <2>2 DEF SlotIsFree
  <2> QED
    BY <2>1, <2>2
<1> QED
  BY <1>3, <1>4, <1>5

\* Every step of the tree keeps the seats apart: only a placement moves them.
LEMMA PlacementStep == PlacementIInv /\ N!Next => PlacementIInv'
<1> SUFFICES ASSUME PlacementIInv, NEW m \in Members,
                    \/ N!Register(m) \/ N!FindPlacement(m) \/ N!Place(m)
                    \/ N!Begin(m) \/ N!AddVolume(m) \/ N!StartMatching(m) \/ N!MatchLegs(m)
                    \/ N!Commit(m) \/ N!Fail(m) \/ N!StartRecount(m) \/ N!SumDirects(m) \/ N!Save(m)
                    \/ \E d \in Members : N!SumLeg(m, d)
             PROVE  PlacementIInv'
  BY DEF N!Next
<1>1. CASE UNCHANGED <<tree, seat, search>>
  BY <1>1 DEF PlacementIInv, PlacementTypes, SlotIsFree, N!OneChildPerLeg, N!Joined
<1>2. \/ N!Register(m) \/ N!FindPlacement(m) \/ N!Place(m)
      \/ UNCHANGED <<tree, seat, search>>
  BY Zenon DEF N!Begin, N!AddVolume, N!StartMatching, N!MatchLegs, N!Commit, N!Fail, N!StartRecount,
         N!SumDirects, N!Save, N!Saved, N!SumLeg, N!tree
<1> QED
  BY <1>1, <1>2, RegisterInvariant, FindInvariant, PlaceInvariant

-----------------------------------------------------------------------------
(* Sums *)

\* An element of a set, the one that sums over it take first.
Pick(s) == CHOOSE x \in s : TRUE

\* g[s] is the sum of f over s, for every part s of Q.
Sums(f, Q, g) ==
  g = [s \in SUBSET Q |-> IF s = {} THEN 0 ELSE f[Pick(s)] + g[s \ {Pick(s)}]]

SumOver(f, Q) == (CHOOSE g : Sums(f, Q, g))[Q]

\* Among some parts of a finite set, one has no other of them as a part.
LEMMA SmallestPart ==
  ASSUME NEW Q, IsFiniteSet(Q), NEW Bad \in SUBSET SUBSET Q, Bad # {}
  PROVE  \E T \in Bad : \A U \in Bad : U \subseteq T => U = T
<1>1. \A T \in Bad : IsFiniteSet(T) /\ T \in FiniteSubsetsOf(Q)
  BY FS_Subset DEF FiniteSubsetsOf
<1>2. PICK T \in Bad : \A U \in Bad : <<U, T>> \notin StrictSubsetOrdering(Q)
  BY <1>1, FS_StrictSubsetOrderingWellFounded, WFMin
<1>3. \A U \in Bad : U \subseteq T => U = T
  BY <1>1, <1>2 DEF StrictSubsetOrdering, FiniteSubsetsOf
<1> QED
  BY <1>3

\* The element a sum adds first belongs to the set it sums over.
LEMMA PickType ==
  ASSUME NEW s, s # {}
  PROVE  Pick(s) \in s
BY DEF Pick

\* Sums of the same values agree.
LEMMA SumsAgree ==
  ASSUME NEW Q, IsFiniteSet(Q), NEW A, NEW B, Q \subseteq A, Q \subseteq B,
         NEW f, NEW e, \A x \in Q : f[x] = e[x],
         NEW g, NEW h, Sums(f, A, g), Sums(e, B, h)
  PROVE  g[Q] = h[Q]
<1> DEFINE Bad == {s \in SUBSET Q : g[s] # h[s]}
<1>1. SUFFICES ASSUME Bad # {} PROVE FALSE
  OBVIOUS
<1>2. Bad \in SUBSET SUBSET Q
  OBVIOUS
<1> HIDE DEF Bad
<1>3. PICK s \in Bad : \A u \in Bad : u \subseteq s => u = s
  BY <1>1, <1>2, SmallestPart
<1>4. s \subseteq Q /\ g[s] # h[s]
  BY DEF Bad
<1>5. /\ g[s] = IF s = {} THEN 0 ELSE f[Pick(s)] + g[s \ {Pick(s)}]
      /\ h[s] = IF s = {} THEN 0 ELSE e[Pick(s)] + h[s \ {Pick(s)}]
  BY <1>4 DEF Sums
<1>6. s # {}
  BY <1>4, <1>5
<1>7. Pick(s) \in s
  BY <1>6, PickType
<1>8. f[Pick(s)] = e[Pick(s)]
  BY <1>4, <1>7
<1>9. s \ {Pick(s)} \notin Bad
  BY <1>3, <1>7
<1>10. g[s \ {Pick(s)}] = h[s \ {Pick(s)}]
  BY <1>4, <1>9 DEF Bad
<1> QED
  BY <1>4, <1>5, <1>8, <1>10

\* Every finite set has its sums.
LEMMA SumsExist ==
  ASSUME NEW Q, IsFiniteSet(Q), NEW f
  PROVE  \E g : Sums(f, Q, g)
<1> DEFINE Bad == {s \in SUBSET Q : ~\E g : Sums(f, s, g)}
<1>1. SUFFICES ASSUME Bad # {} PROVE FALSE
  OBVIOUS
<1>2. Bad \in SUBSET SUBSET Q
  OBVIOUS
<1>0. \A s \in SUBSET Q : s \in Bad <=> ~\E g : Sums(f, s, g)
  OBVIOUS
<1> HIDE DEF Bad
<1>3. PICK T \in Bad : \A u \in Bad : u \subseteq T => u = T
  BY <1>1, <1>2, SmallestPart
<1> DEFINE W(s) == CHOOSE g : Sums(f, s, g)
           h == [u \in SUBSET T |-> IF u = {} THEN 0 ELSE f[Pick(u)] + W(u \ {Pick(u)})[u \ {Pick(u)}]]
<1>4. T \subseteq Q /\ IsFiniteSet(T)
  BY <1>2, FS_Subset
<1>5. ASSUME NEW u \in SUBSET T, u # T PROVE Sums(f, u, W(u))
  BY <1>0, <1>3, <1>4, <1>5
<1> HIDE DEF W
<1>6. ASSUME NEW v \in SUBSET T, v # T PROVE h[v] = W(v)[v]
  <2>1. Sums(f, v, W(v))
    BY <1>5, <1>6
  <2>2. W(v)[v] = IF v = {} THEN 0 ELSE f[Pick(v)] + W(v)[v \ {Pick(v)}]
    BY <2>1 DEF Sums
  <2>3. CASE v = {}
    BY <2>2, <2>3
  <2>4. CASE v # {}
    <3> DEFINE w == v \ {Pick(v)}
    <3>1. w \subseteq v /\ w \subseteq w /\ w \in SUBSET T /\ w # T
      BY <1>6, <2>4, PickType
    <3>2. Sums(f, w, W(w)) /\ IsFiniteSet(w)
      BY <1>4, <1>5, <3>1, FS_Subset
    <3>3. W(v)[w] = W(w)[w]
      <4> HIDE DEF w
      <4>1. \A x \in w : f[x] = f[x]
        OBVIOUS
      <4> QED
        BY <2>1, <3>1, <3>2, <4>1, SumsAgree
    <3> QED
      BY <2>2, <2>4, <3>3
  <2> QED
    BY <2>3, <2>4
<1>7. \A u \in SUBSET T : u # {} => u \ {Pick(u)} \in SUBSET T /\ u \ {Pick(u)} # T
  BY PickType
<1>8. h = [u \in SUBSET T |-> IF u = {} THEN 0 ELSE f[Pick(u)] + h[u \ {Pick(u)}]]
  <2>1. \A u \in SUBSET T : u # {} => h[u \ {Pick(u)}] = W(u \ {Pick(u)})[u \ {Pick(u)}]
    BY <1>6, <1>7
  <2> QED
    BY <2>1
<1>9. Sums(f, T, h)
  BY <1>8 DEF Sums
<1> QED
  BY <1>0, <1>3, <1>4, <1>9

\* The sum of nothing, and of one more.
LEMMA SumStep ==
  ASSUME NEW Q, IsFiniteSet(Q), NEW f
  PROVE  /\ Q = {} => SumOver(f, Q) = 0
         /\ Q # {} => SumOver(f, Q) = f[Pick(Q)] + SumOver(f, Q \ {Pick(Q)})
<1> DEFINE G(s) == CHOOSE g : Sums(f, s, g)
<1>1. \A s \in SUBSET Q : IsFiniteSet(s) /\ Sums(f, s, G(s))
  BY SumsExist, FS_Subset
<1>2. \A s \in SUBSET Q : SumOver(f, s) = G(s)[s]
  BY DEF SumOver
<1> HIDE DEF G
<1>3. G(Q)[Q] = IF Q = {} THEN 0 ELSE f[Pick(Q)] + G(Q)[Q \ {Pick(Q)}]
  BY <1>1 DEF Sums
<1>4. ASSUME NEW T, T \subseteq Q PROVE G(Q)[T] = G(T)[T]
  <2>1. IsFiniteSet(T) /\ Sums(f, T, G(T)) /\ Sums(f, Q, G(Q))
    BY <1>1, <1>4
  <2>2. \A x \in T : f[x] = f[x]
    OBVIOUS
  <2> QED
    BY <1>4, <2>1, <2>2, SumsAgree
<1> QED
  BY <1>2, <1>3, <1>4

\* Two functions that agree on a set have the same sum over it.
LEMMA SumSame ==
  ASSUME NEW Q, IsFiniteSet(Q), NEW f, NEW e, \A x \in Q : f[x] = e[x]
  PROVE  SumOver(f, Q) = SumOver(e, Q)
<1> DEFINE g == CHOOSE i : Sums(f, Q, i)
           h == CHOOSE i : Sums(e, Q, i)
<1>1. Sums(f, Q, g) /\ Sums(e, Q, h)
  BY SumsExist
<1>2. SumOver(f, Q) = g[Q] /\ SumOver(e, Q) = h[Q]
  BY DEF SumOver
<1> HIDE DEF g, h
<1>3. g[Q] = h[Q]
  BY <1>1, SumsAgree
<1> QED
  BY <1>2, <1>3

\* A sum of integers over a finite set is an integer.
LEMMA SumType ==
  ASSUME NEW Q, IsFiniteSet(Q), NEW f, \A x \in Q : f[x] \in Int
  PROVE  SumOver(f, Q) \in Int
<1> DEFINE Bad == {s \in SUBSET Q : SumOver(f, s) \notin Int}
<1>1. SUFFICES ASSUME Bad # {} PROVE FALSE
  OBVIOUS
<1>2. Bad \in SUBSET SUBSET Q
  OBVIOUS
<1>0. \A s \in SUBSET Q : s \in Bad <=> SumOver(f, s) \notin Int
  OBVIOUS
<1> HIDE DEF Bad
<1>3. PICK s \in Bad : \A u \in Bad : u \subseteq s => u = s
  BY <1>1, <1>2, SmallestPart
<1>4. s \subseteq Q /\ IsFiniteSet(s) /\ SumOver(f, s) \notin Int
  BY <1>0, <1>2, FS_Subset
<1>5. s # {}
  <2>1. CASE s = {}
    <3>1. SumOver(f, s) = 0
      BY <1>4, <2>1, SumStep
    <3> QED
      BY <1>4, <3>1
  <2> QED
    BY <2>1
<1>6. Pick(s) \in s /\ f[Pick(s)] \in Int
  BY <1>4, <1>5, PickType
<1>7. SumOver(f, s \ {Pick(s)}) \in Int
  BY <1>0, <1>3, <1>4, <1>6
<1>8. SumOver(f, s) = f[Pick(s)] + SumOver(f, s \ {Pick(s)})
  BY <1>4, <1>5, SumStep
<1> QED
  BY <1>4, <1>6, <1>7, <1>8

\* Any element may be added last.
LEMMA SumAdds ==
  ASSUME NEW Q, IsFiniteSet(Q), NEW f, \A x \in Q : f[x] \in Int, NEW x \in Q
  PROVE  SumOver(f, Q) = f[x] + SumOver(f, Q \ {x})
<1> DEFINE Bad == {s \in SUBSET Q : \E y \in s : SumOver(f, s) # f[y] + SumOver(f, s \ {y})}
<1>1. SUFFICES ASSUME Bad # {} PROVE FALSE
  OBVIOUS
<1>2. Bad \in SUBSET SUBSET Q
  OBVIOUS
<1>0. \A s \in SUBSET Q : s \in Bad <=> \E y \in s : SumOver(f, s) # f[y] + SumOver(f, s \ {y})
  OBVIOUS
<1> HIDE DEF Bad
<1>3. PICK s \in Bad : \A u \in Bad : u \subseteq s => u = s
  BY <1>1, <1>2, SmallestPart
<1>4. s \subseteq Q /\ IsFiniteSet(s)
  BY <1>2, FS_Subset
<1>5. PICK y \in s : SumOver(f, s) # f[y] + SumOver(f, s \ {y})
  BY <1>0, <1>4
<1> DEFINE p == Pick(s)
<1>6. p \in s /\ SumOver(f, s) = f[p] + SumOver(f, s \ {p})
  BY <1>4, SumStep, PickType
<1> HIDE DEF p
<1>7. p # y
  BY <1>5, <1>6
<1>8. SumOver(f, s \ {p}) = f[y] + SumOver(f, (s \ {p}) \ {y})
  BY <1>0, <1>3, <1>4, <1>6, <1>7
<1>9. SumOver(f, s \ {y}) = f[p] + SumOver(f, (s \ {y}) \ {p})
  BY <1>0, <1>3, <1>4, <1>6, <1>7
<1>10. (s \ {p}) \ {y} = (s \ {y}) \ {p}
  OBVIOUS
<1>11. SumOver(f, (s \ {y}) \ {p}) \in Int /\ f[p] \in Int /\ f[y] \in Int
  <2>1. IsFiniteSet((s \ {y}) \ {p}) /\ \A z \in (s \ {y}) \ {p} : f[z] \in Int
    BY <1>4, FS_Subset
  <2> QED
    BY <1>4, <1>6, <2>1, SumType
<1>12. \A a, b, c \in Int : a + (b + c) = b + (a + c)
  OBVIOUS
<1>13. SumOver(f, s) = f[p] + (f[y] + SumOver(f, (s \ {y}) \ {p}))
  BY <1>6, <1>8, <1>10
<1>14. f[y] + SumOver(f, s \ {y}) = f[y] + (f[p] + SumOver(f, (s \ {y}) \ {p}))
  BY <1>9
<1> QED
  BY <1>5, <1>11, <1>12, <1>13, <1>14

\* A sum of natural numbers over a finite set is a natural number.
LEMMA SumNatural ==
  ASSUME NEW Q, IsFiniteSet(Q), NEW f, \A x \in Q : f[x] \in Nat
  PROVE  SumOver(f, Q) \in Nat
<1> DEFINE Bad == {s \in SUBSET Q : SumOver(f, s) \notin Nat}
<1>1. SUFFICES ASSUME Bad # {} PROVE FALSE
  OBVIOUS
<1>2. Bad \in SUBSET SUBSET Q
  OBVIOUS
<1>0. \A s \in SUBSET Q : s \in Bad <=> SumOver(f, s) \notin Nat
  OBVIOUS
<1> HIDE DEF Bad
<1>3. PICK s \in Bad : \A u \in Bad : u \subseteq s => u = s
  BY <1>1, <1>2, SmallestPart
<1>4. s \subseteq Q /\ IsFiniteSet(s) /\ SumOver(f, s) \notin Nat
  BY <1>0, <1>2, FS_Subset
<1>5. s # {}
  <2>1. CASE s = {}
    <3>1. SumOver(f, s) = 0
      BY <1>4, <2>1, SumStep
    <3> QED
      BY <1>4, <3>1
  <2> QED
    BY <2>1
<1>6. Pick(s) \in s /\ f[Pick(s)] \in Nat
  BY <1>4, <1>5, PickType
<1>7. SumOver(f, s \ {Pick(s)}) \in Nat
  BY <1>0, <1>3, <1>4, <1>6
<1>8. SumOver(f, s) = f[Pick(s)] + SumOver(f, s \ {Pick(s)})
  BY <1>4, <1>5, SumStep
<1> QED
  BY <1>4, <1>6, <1>7, <1>8

\* Sums are added term by term.
LEMMA SumPlus ==
  ASSUME NEW Q, IsFiniteSet(Q), NEW f, NEW e, NEW d,
         \A x \in Q : f[x] \in Int /\ e[x] \in Int /\ d[x] = f[x] + e[x]
  PROVE  SumOver(d, Q) = SumOver(f, Q) + SumOver(e, Q)
<1> DEFINE Bad == {s \in SUBSET Q : SumOver(d, s) # SumOver(f, s) + SumOver(e, s)}
<1>1. SUFFICES ASSUME Bad # {} PROVE FALSE
  OBVIOUS
<1>2. Bad \in SUBSET SUBSET Q
  OBVIOUS
<1>0. \A s \in SUBSET Q : s \in Bad <=> SumOver(d, s) # SumOver(f, s) + SumOver(e, s)
  OBVIOUS
<1> HIDE DEF Bad
<1>3. PICK s \in Bad : \A u \in Bad : u \subseteq s => u = s
  BY <1>1, <1>2, SmallestPart
<1>4. s \subseteq Q /\ IsFiniteSet(s) /\ SumOver(d, s) # SumOver(f, s) + SumOver(e, s)
  BY <1>0, <1>2, FS_Subset
<1>5. s # {}
  <2>1. CASE s = {}
    <3>1. SumOver(d, s) = 0 /\ SumOver(f, s) = 0 /\ SumOver(e, s) = 0
      BY <1>4, <2>1, SumStep
    <3> QED
      BY <1>4, <3>1
  <2> QED
    BY <2>1
<1> DEFINE x == Pick(s)
           u == s \ {x}
<1>6. x \in s
  BY <1>5, PickType
<1>7. /\ SumOver(d, s) = d[x] + SumOver(d, u)
      /\ SumOver(f, s) = f[x] + SumOver(f, u)
      /\ SumOver(e, s) = e[x] + SumOver(e, u)
  BY <1>4, <1>5, SumStep
<1> HIDE DEF x
<1>8. SumOver(d, u) = SumOver(f, u) + SumOver(e, u)
  BY <1>0, <1>3, <1>4, <1>6
<1>9. SumOver(f, u) \in Int /\ SumOver(e, u) \in Int
  <2>1. IsFiniteSet(u) /\ \A y \in u : f[y] \in Int /\ e[y] \in Int
    BY <1>4, FS_Subset
  <2> HIDE DEF u
  <2> QED
    BY <2>1, SumType
<1>10. f[x] \in Int /\ e[x] \in Int /\ d[x] = f[x] + e[x]
  BY <1>4, <1>6
<1> HIDE DEF u
<1> QED
  BY <1>4, <1>7, <1>8, <1>9, <1>10

\* A sum of zeros.
LEMMA SumZero ==
  ASSUME NEW Q, IsFiniteSet(Q), NEW f, \A x \in Q : f[x] = 0
  PROVE  SumOver(f, Q) = 0
<1>0. \A x \in Q : f[x] \in Int /\ f[x] = f[x] + f[x]
  OBVIOUS
<1>1. SumOver(f, Q) = SumOver(f, Q) + SumOver(f, Q)
  BY <1>0, SumPlus
<1>2. SumOver(f, Q) \in Int
  BY <1>0, SumType
<1>3. \A n \in Int : n = n + n => n = 0
  OBVIOUS
<1> QED
  BY <1>1, <1>2, <1>3

\* Terms that are no greater add up to no more.
LEMMA SumMonotone ==
  ASSUME NEW Q, IsFiniteSet(Q), NEW f, NEW e,
         \A x \in Q : f[x] \in Int /\ e[x] \in Int /\ f[x] <= e[x]
  PROVE  SumOver(f, Q) <= SumOver(e, Q)
<1> DEFINE d == [x \in Q |-> e[x] - f[x]]
<1>1. \A x \in Q : d[x] \in Nat /\ d[x] \in Int /\ e[x] = f[x] + d[x]
  OBVIOUS
<1> HIDE DEF d
<1>2. SumOver(e, Q) = SumOver(f, Q) + SumOver(d, Q)
  BY <1>1, SumPlus
<1>3. SumOver(d, Q) \in Nat /\ SumOver(f, Q) \in Int
  BY <1>1, SumNatural, SumType
<1> QED
  BY <1>2, <1>3

\* One term that changes changes the sum by as much.
LEMMA SumChange ==
  ASSUME NEW Q, IsFiniteSet(Q), NEW f, NEW e, NEW x \in Q, NEW d \in Int, e[x] = f[x] + d,
         \A y \in Q : f[y] \in Int /\ e[y] \in Int /\ (y # x => e[y] = f[y])
  PROVE  SumOver(e, Q) = SumOver(f, Q) + d
<1>1. SumOver(f, Q) = f[x] + SumOver(f, Q \ {x}) /\ SumOver(e, Q) = e[x] + SumOver(e, Q \ {x})
  BY SumAdds
<1>2. IsFiniteSet(Q \ {x})
  BY FS_Subset
<1>3. SumOver(f, Q \ {x}) = SumOver(e, Q \ {x}) /\ SumOver(f, Q \ {x}) \in Int
  BY <1>2, SumSame, SumType
<1>4. f[x] \in Int
  OBVIOUS
<1> QED
  BY <1>1, <1>3, <1>4
\* What adds nothing may be left out of a sum.
LEMMA SumPart ==
  ASSUME NEW R, IsFiniteSet(R), NEW Q \in SUBSET R, NEW f, \A x \in R : f[x] \in Int, \A x \in R \ Q : f[x] = 0
  PROVE  SumOver(f, R) = SumOver(f, Q)
<1> DEFINE Bad == {T \in SUBSET R : Q \subseteq T /\ SumOver(f, T) # SumOver(f, Q)}
<1>1. SUFFICES ASSUME Bad # {} PROVE FALSE
  OBVIOUS
<1>2. Bad \in SUBSET SUBSET R
  OBVIOUS
<1>3. \A T \in SUBSET R : T \in Bad <=> Q \subseteq T /\ SumOver(f, T) # SumOver(f, Q)
  OBVIOUS
<1> HIDE DEF Bad
<1>4. PICK T \in Bad : \A u \in Bad : u \subseteq T => u = T
  BY <1>1, <1>2, SmallestPart
<1>5. T \in SUBSET R /\ Q \subseteq T /\ SumOver(f, T) # SumOver(f, Q)
  BY <1>2, <1>3
<1>6. PICK x : x \in T \ Q
  BY <1>5
<1>7. T \ {x} \in SUBSET R /\ Q \subseteq T \ {x} /\ T \ {x} \notin Bad
  BY <1>4, <1>5, <1>6
<1>8. SumOver(f, T \ {x}) = SumOver(f, Q)
  BY <1>3, <1>7
<1>9. SumOver(f, T) = f[x] + SumOver(f, T \ {x})
  <2>1. IsFiniteSet(T) /\ x \in T /\ \A y \in T : f[y] \in Int
    BY <1>5, <1>6, FS_Subset
  <2> QED
    BY <2>1, SumAdds
<1>10. f[x] = 0 /\ SumOver(f, Q) \in Int
  <2>1. IsFiniteSet(Q) /\ \A y \in Q : f[y] \in Int
    BY FS_Subset
  <2> QED
    BY <1>5, <1>6, <2>1, SumType
<1> QED
  BY <1>5, <1>8, <1>9, <1>10

\* The sum over two sets that are apart.
LEMMA SumUnion ==
  ASSUME NEW A, NEW B, IsFiniteSet(A), IsFiniteSet(B), A \intersect B = {}, NEW f, \A x \in A \union B : f[x] \in Int
  PROVE  SumOver(f, A \union B) = SumOver(f, A) + SumOver(f, B)
<1>1. PICK T : T = A \union B
  OBVIOUS
<1> DEFINE fa == [x \in T |-> IF x \in A THEN f[x] ELSE 0]
           fb == [x \in T |-> IF x \in B THEN f[x] ELSE 0]
<1>2. IsFiniteSet(T) /\ A \in SUBSET T /\ B \in SUBSET T
  BY <1>1, FS_Union
<1>3. /\ \A x \in T : fa[x] \in Int /\ fb[x] \in Int /\ f[x] = fa[x] + fb[x]
      /\ \A x \in A : fa[x] = f[x]
      /\ \A x \in B : fb[x] = f[x]
      /\ \A x \in T \ A : fa[x] = 0
      /\ \A x \in T \ B : fb[x] = 0
  BY <1>1
<1> HIDE DEF fa, fb
<1>4. SumOver(f, T) = SumOver(fa, T) + SumOver(fb, T)
  BY <1>2, <1>3, SumPlus
<1>5. SumOver(fa, T) = SumOver(fa, A) /\ SumOver(fb, T) = SumOver(fb, B)
  BY <1>2, <1>3, SumPart
<1>6. SumOver(fa, A) = SumOver(f, A)
  BY <1>3, SumSame
<1>7. SumOver(fb, B) = SumOver(f, B)
  BY <1>3, SumSame
<1> QED
  BY <1>1, <1>4, <1>5, <1>6, <1>7

\* The sum over parts that are apart: the part of d is L[d], and its sum h[d].
LEMMA SumOfParts ==
  ASSUME NEW V, IsFiniteSet(V), NEW Q, IsFiniteSet(Q), NEW f, \A x \in V : f[x] \in Int,
         NEW L, \A d \in Q : L[d] \subseteq V, \A d, e \in Q : d # e => L[d] \intersect L[e] = {},
         NEW h, \A d \in Q : h[d] = SumOver(f, L[d])
  PROVE  SumOver(h, Q) = SumOver(f, UNION {L[d] : d \in Q})
<1> DEFINE All(T) == UNION {L[d] : d \in T}
           Bad == {T \in SUBSET Q : SumOver(h, T) # SumOver(f, All(T))}
<1>1. SUFFICES ASSUME Bad # {} PROVE FALSE
  OBVIOUS
<1>2. Bad \in SUBSET SUBSET Q
  OBVIOUS
<1>3. \A T \in SUBSET Q : T \in Bad <=> SumOver(h, T) # SumOver(f, All(T))
  OBVIOUS
<1>4. /\ All({}) = {}
      /\ \A T \in SUBSET Q : All(T) \subseteq V
      /\ \A T \in SUBSET Q : \A d \in T : /\ All(T) = L[d] \union All(T \ {d})
                                          /\ L[d] \intersect All(T \ {d}) = {}
  OBVIOUS
<1> HIDE DEF Bad, All
<1>5. PICK T \in Bad : \A u \in Bad : u \subseteq T => u = T
  BY <1>1, <1>2, SmallestPart
<1>6. T \in SUBSET Q /\ SumOver(h, T) # SumOver(f, All(T)) /\ IsFiniteSet(T)
  BY <1>2, <1>3, FS_Subset
<1>7. T # {}
  <2>1. SumOver(h, {}) = 0 /\ SumOver(f, {}) = 0
    BY SumStep, FS_EmptySet
  <2> QED
    BY <1>4, <1>6, <2>1
<1>8. PICK d : d \in T
  BY <1>7
<1>9. T \ {d} \in SUBSET Q /\ T \ {d} \notin Bad
  BY <1>5, <1>6, <1>8
<1>10. SumOver(h, T \ {d}) = SumOver(f, All(T \ {d}))
  BY <1>3, <1>9
<1>11. SumOver(h, T) = h[d] + SumOver(h, T \ {d})
  <2>1. \A c \in T : h[c] \in Int
    <3>1. \A c \in T : IsFiniteSet(L[c]) /\ \A x \in L[c] : f[x] \in Int
      BY <1>6, FS_Subset
    <3>2. \A c \in T : SumOver(f, L[c]) \in Int
      BY <3>1, SumType
    <3> QED
      BY <1>6, <3>2
  <2> QED
    BY <1>6, <1>8, <2>1, SumAdds
<1>12. SumOver(f, All(T)) = SumOver(f, L[d]) + SumOver(f, All(T \ {d}))
  <2>1. PICK A, B : A = L[d] /\ B = All(T \ {d})
    OBVIOUS
  <2>2. A \subseteq V /\ B \subseteq V /\ A \intersect B = {} /\ All(T) = A \union B
    BY <1>4, <1>6, <1>8, <1>9, <2>1
  <2>3. IsFiniteSet(A) /\ IsFiniteSet(B)
    BY <2>2, FS_Subset
  <2>4. SumOver(f, A \union B) = SumOver(f, A) + SumOver(f, B)
    BY <2>2, <2>3, SumUnion
  <2> QED
    BY <2>1, <2>2, <2>4
<1> QED
  BY <1>6, <1>8, <1>10, <1>11, <1>12

\* The greatest of what the elements of Q have, or 0.
Greatest(f, Q) == N!Max({f[x] : x \in Q} \union {0})

\* There is a greatest.
LEMMA GreatestOf ==
  ASSUME NEW Q, IsFiniteSet(Q), NEW f, \A x \in Q : f[x] \in Nat
  PROVE  /\ Greatest(f, Q) \in Nat /\ \A x \in Q : f[x] <= Greatest(f, Q)
         /\ Greatest(f, Q) = 0 \/ \E x \in Q : f[x] = Greatest(f, Q)
<1> DEFINE Has(T) == \E m \in {f[x] : x \in T} \union {0} : \A y \in {f[x] : x \in T} \union {0} : m >= y
           Bad == {T \in SUBSET Q : ~Has(T)}
<1>1. Has(Q)
  <2>1. SUFFICES ASSUME Bad # {} PROVE FALSE
    OBVIOUS
  <2>2. Bad \in SUBSET SUBSET Q
    OBVIOUS
  <2>3. \A T \in SUBSET Q : T \in Bad <=> ~Has(T)
    OBVIOUS
  <2> HIDE DEF Bad
  <2>4. PICK T \in Bad : \A u \in Bad : u \subseteq T => u = T
    BY <2>1, <2>2, SmallestPart
  <2>5. T \in SUBSET Q /\ ~Has(T)
    BY <2>2, <2>3
  <2>6. T # {}
    <3>1. Has({})
      OBVIOUS
    <3> QED
      BY <2>5, <3>1
  <2>7. PICK d : d \in T
    BY <2>6
  <2>8. Has(T \ {d})
    <3>1. T \ {d} \in SUBSET Q /\ T \ {d} \notin Bad
      BY <2>4, <2>5, <2>7
    <3> QED
      BY <2>3, <3>1
  <2>9. PICK m \in {f[x] : x \in T \ {d}} \union {0} : \A y \in {f[x] : x \in T \ {d}} \union {0} : m >= y
    BY <2>8
  <2>10. f[d] \in Nat /\ m \in Nat /\ (\A x \in T \ {d} : m >= f[x] /\ f[x] \in Nat) /\ m >= 0
    BY <2>5, <2>7, <2>9
  <2>11. PICK k : k = IF m >= f[d] THEN m ELSE f[d]
    OBVIOUS
  <2>12. k \in {f[x] : x \in T} \union {0}
    BY <2>7, <2>9, <2>11
  <2>13. \A x \in T : k >= f[x]
    BY <2>10, <2>11
  <2>14. k >= 0
    BY <2>10, <2>11
  <2> QED
    BY <2>5, <2>12, <2>13, <2>14
<1>2. PICK all : all = {f[x] : x \in Q} \union {0}
  OBVIOUS
<1>3. Greatest(f, Q) = CHOOSE m \in all : \A y \in all : m >= y
  BY <1>2 DEF Greatest, N!Max
<1>4. Greatest(f, Q) \in all /\ \A y \in all : Greatest(f, Q) >= y
  BY <1>1, <1>2, <1>3
<1> QED
  BY <1>2, <1>4

\* More elements that have more: their sum is no less, nor is the greatest, nor
\* the sum of all but the greatest.
LEMMA MoreIsMore ==
  ASSUME NEW R, IsFiniteSet(R), NEW Q \in SUBSET R, NEW f, NEW e, \A x \in Q : f[x] \in Nat /\ f[x] <= e[x],
         \A x \in R : e[x] \in Nat
  PROVE  /\ SumOver(f, Q) <= SumOver(e, R) /\ Greatest(f, Q) <= Greatest(e, R)
         /\ SumOver(f, Q) - Greatest(f, Q) <= SumOver(e, R) - Greatest(e, R)
         /\ SumOver(f, Q) \in Nat /\ SumOver(e, R) \in Nat /\ Greatest(f, Q) \in Nat /\ Greatest(e, R) \in Nat
<1> DEFINE k == [x \in R |-> IF x \in Q THEN f[x] ELSE 0]
<1>1. /\ \A x \in R : k[x] \in Int /\ e[x] \in Int /\ k[x] <= e[x]
      /\ \A x \in Q : k[x] = f[x]
      /\ \A x \in R \ Q : k[x] = 0
  OBVIOUS
<1> HIDE DEF k
<1>2. IsFiniteSet(Q)
  BY FS_Subset
<1>3. SumOver(k, R) = SumOver(f, Q)
  <2>1. SumOver(k, R) = SumOver(k, Q)
    BY <1>1, SumPart
  <2>2. SumOver(k, Q) = SumOver(f, Q)
    BY <1>1, <1>2, SumSame
  <2> QED
    BY <2>1, <2>2
<1>4. SumOver(k, R) <= SumOver(e, R) /\ SumOver(f, Q) \in Nat /\ SumOver(e, R) \in Nat
  BY <1>1, <1>2, SumMonotone, SumNatural
<1>5. PICK g, G : g = Greatest(f, Q) /\ G = Greatest(e, R)
  OBVIOUS
<1>6. /\ g \in Nat /\ (\A x \in Q : f[x] <= g) /\ (g = 0 \/ \E x \in Q : f[x] = g)
      /\ G \in Nat /\ (\A x \in R : e[x] <= G) /\ (G = 0 \/ \E x \in R : e[x] = G)
  BY <1>2, <1>5, GreatestOf
<1>7. g <= G
  BY <1>6
<1>8. SumOver(f, Q) - g <= SumOver(e, R) - G
  <2>1. CASE G = 0
    BY <1>3, <1>4, <1>6, <2>1
  <2>2. ASSUME NEW y \in R, e[y] = G
        PROVE  SumOver(f, Q) - g <= SumOver(e, R) - G
    <3>1. SumOver(e, R) = e[y] + SumOver(e, R \ {y}) /\ SumOver(k, R) = k[y] + SumOver(k, R \ {y})
      BY <1>1, SumAdds
    <3>2. IsFiniteSet(R \ {y})
      BY FS_Subset
    <3>3. SumOver(k, R \ {y}) <= SumOver(e, R \ {y}) /\ SumOver(k, R \ {y}) \in Int /\ SumOver(e, R \ {y}) \in Int
      BY <1>1, <3>2, SumMonotone, SumType
    <3>4. k[y] <= g /\ k[y] \in Int
      BY <1>1, <1>6
    <3> QED
      BY <1>3, <1>4, <1>6, <2>2, <3>1, <3>3, <3>4
  <2> QED
    BY <1>6, <2>1, <2>2
<1> QED
  BY <1>3, <1>4, <1>5, <1>6, <1>7, <1>8

-----------------------------------------------------------------------------
(* Volumes *)

\* Who is placed stands in a line from the root; a slot that was found continues one.
LinesAreKept ==
  /\ \A c \in DOMAIN seat : IsLine(seat, c)
  /\ \A m \in DOMAIN search : LET slot == search[m].slot IN
       slot # N!Unplaced =>
         /\ slot.parent \in DOMAIN seat /\ slot.leg \in N!Legs
         /\ slot.path = Append(seat[slot.parent].path, slot.parent)

\* The leg of a that b is in, if a is above b.
LegOf(b, a) == seat[Append(seat[b].path, b)[Len(seat[a].path) + 2]].leg

LegRow == [volume : [N!Legs -> Int], total : [N!Legs -> Int], matched : Int]

VolumeTypes ==
  /\ invested \in [Members -> Nat]
  /\ \A m \in Members \ DOMAIN seat : invested[m] = 0
  /\ legs \in [Members -> LegRow]
  /\ DOMAIN purchase = Members

\* What has not been matched is carried over.
Carried(r) == \A l \in N!Legs : r.volume[l] = r.total[l] - r.matched
PairedOff(r) == \E l \in N!Legs : r.volume[l] = 0

\* A row as the purchase of b has written it: the committed one, with b's volume.
Counts(b, a, r) ==
  /\ r \in LegRow /\ Carried(r)
  /\ \A l \in N!Legs : r.total[l] = legs[a].total[l] + IF l = LegOf(b, a) THEN tree.price[b] ELSE 0

\* What a purchase has to do is the part of its buyer's line it has not climbed;
\* the rest it has written, and, the second time, paired off.
Climbs(b, p) ==
  LET path == seat[b].path
      n == Len(p.todo)
  IN /\ p.pc \in {"adding", "matching"} /\ b \in DOMAIN seat
     /\ p.todo \in Seq(Members) /\ n <= Len(path) /\ \A i \in 1..n : p.todo[i] = path[n + 1 - i]
     /\ p.pc = "adding" => DOMAIN p.mine = {path[i] : i \in (n + 1)..Len(path)}
     /\ p.pc = "matching" => /\ DOMAIN p.mine = {path[i] : i \in 1..Len(path)}
                             /\ \A i \in (n + 1)..Len(path) : PairedOff(p.mine[path[i]])
     /\ \A a \in DOMAIN p.mine : Counts(b, a, p.mine[a])

PurchasesClimb == \A b \in Members : purchase[b] # N!NoPurchase => Climbs(b, purchase[b])

\* A row that is written waits for nobody else.
RowsAreLocked ==
  \A b, c \in Members : b # c => DOMAIN purchase[b].mine \intersect DOMAIN purchase[c].mine = {}

\* The rows that are committed count what is invested below, in each leg.
LegsAreCounted ==
  \A a \in Members :
    /\ Carried(legs[a]) /\ PairedOff(legs[a])
    /\ \A l \in N!Legs : legs[a].total[l] = SumOver(invested, N!InLeg(a, l))

VolumesIInv == LinesAreKept /\ VolumeTypes /\ PurchasesClimb /\ RowsAreLocked /\ LegsAreCounted

-----------------------------------------------------------------------------
\* What is invested by some members is the sum of what each of them has.
LEMMA InvestedIsSum ==
  ASSUME NEW T
  PROVE  N!Invested(T) = SumOver(invested, T)
BY DEF N!Invested, N!SumFunctionOnSet, N!FoldFunctionOnSet, N!MapThenFoldSet, SumOver, Sums, Pick

\* n members are above c, from the root down, each of them in a leg of the one before.
Above(seats, c, path, n) ==
  /\ n \in Nat /\ path \in Seq(DOMAIN seats) /\ Len(path) = n
  /\ \A i \in 1..n : /\ path[i] \in DOMAIN seats /\ Len(seats[path[i]].path) = i - 1
                     /\ Append(path, c)[i] = path[i]
                     /\ seats[path[i]].parent = IF i = 1 THEN None ELSE path[i - 1]
                     /\ i > 1 => seats[path[i]].leg \in {"left", "right"}
  /\ Append(path, c)[n + 1] = c
  /\ seats[c].parent = IF n = 0 THEN None ELSE path[n]
  /\ n > 0 => seats[c].leg \in {"left", "right"}

\* The members of a line, from the root down.
LEMMA LineOf ==
  ASSUME NEW seats, NEW c \in DOMAIN seats, IsLine(seats, c), NEW path, path = seats[c].path, NEW n, n = Len(path)
  PROVE  Above(seats, c, path, n)
<1>1. path \in Seq(DOMAIN seats) /\ n \in Nat
  BY DEF IsLine
<1>2. /\ Len(Append(path, c)) = n + 1 /\ Append(path, c)[n + 1] = c
      /\ \A i \in 1..n : Append(path, c)[i] = path[i] /\ path[i] \in DOMAIN seats
  BY <1>1
<1>3. \A i \in 1..(n + 1) :
        /\ Len(seats[Append(path, c)[i]].path) = i - 1
        /\ seats[Append(path, c)[i]].parent = IF i = 1 THEN None ELSE Append(path, c)[i - 1]
        /\ i > 1 => seats[Append(path, c)[i]].leg \in {"left", "right"}
  BY <1>2 DEF IsLine
<1>4. ASSUME NEW i \in 1..n
      PROVE  /\ Len(seats[path[i]].path) = i - 1
             /\ seats[path[i]].parent = IF i = 1 THEN None ELSE path[i - 1]
             /\ i > 1 => seats[path[i]].leg \in {"left", "right"}
  <2>1. i \in 1..(n + 1) /\ (i # 1 => i - 1 \in 1..n)
    BY <1>1
  <2>2. Append(path, c)[i] = path[i] /\ (i # 1 => Append(path, c)[i - 1] = path[i - 1])
    BY <1>2, <2>1
  <2>3. /\ Len(seats[Append(path, c)[i]].path) = i - 1
        /\ seats[Append(path, c)[i]].parent = IF i = 1 THEN None ELSE Append(path, c)[i - 1]
        /\ i > 1 => seats[Append(path, c)[i]].leg \in {"left", "right"}
    BY <1>3, <2>1
  <2> QED
    BY <2>2, <2>3
<1>5. n + 1 \in 1..(n + 1) /\ (n # 0 => n \in 1..n /\ n + 1 # 1 /\ n + 1 - 1 = n)
  BY <1>1
<1>6. /\ seats[c].parent = IF n = 0 THEN None ELSE path[n]
      /\ n > 0 => seats[c].leg \in {"left", "right"}
  <2>1. n # 0 => Append(path, c)[(n + 1) - 1] = path[n]
    BY <1>2, <1>5
  <2>2. /\ seats[Append(path, c)[n + 1]].parent = IF n + 1 = 1 THEN None ELSE Append(path, c)[(n + 1) - 1]
        /\ n + 1 > 1 => seats[Append(path, c)[n + 1]].leg \in {"left", "right"}
    BY <1>3, <1>5
  <2>3. (n + 1 = 1 <=> n = 0) /\ (n + 1 > 1 <=> n > 0)
    BY <1>1
  <2> QED
    BY <1>2, <2>1, <2>2, <2>3
<1> QED
  BY <1>1, <1>2, <1>4, <1>6 DEF Above

\* A line that is one longer.
LEMMA LineGrows ==
  ASSUME NEW seats, NEW other, NEW c, NEW m, m \notin DOMAIN seats, c \in DOMAIN seats, IsLine(seats, c),
         DOMAIN other = DOMAIN seats \union {m}, \A d \in DOMAIN seats : other[d] = seats[d],
         other[m].parent = c, other[m].leg \in {"left", "right"}, other[m].path = Append(seats[c].path, c)
  PROVE  IsLine(other, c) /\ IsLine(other, m)
<1>1. PICK path : path = seats[c].path
  OBVIOUS
<1>2. PICK n : n = Len(path)
  OBVIOUS
<1>0. Above(seats, c, path, n)
  BY <1>1, <1>2, LineOf
<1>3. /\ n \in Nat /\ path \in Seq(DOMAIN seats) /\ Append(path, c)[n + 1] = c
      /\ \A i \in 1..n : path[i] \in DOMAIN seats /\ Append(path, c)[i] = path[i]
  BY <1>0 DEF Above
<1>4. PICK line : line = Append(path, c)
  OBVIOUS
<1>5. /\ line \in Seq(DOMAIN other) /\ path \in Seq(DOMAIN other) /\ Len(line) = n + 1
      /\ other[c].path = path /\ other[m].path = line
  <2>1. path \in Seq(DOMAIN other)
    <3>1. \A i \in 1..Len(path) : path[i] \in DOMAIN other
      BY <1>2, <1>3
    <3>2. path = [i \in 1..Len(path) |-> path[i]] /\ Len(path) \in Nat
      BY <1>2, <1>3
    <3> QED
      BY <3>1, <3>2
  <2> QED
    BY <1>1, <1>2, <1>4, <2>1
<1>6. \A i \in 1..(n + 1) :
        /\ line[i] \in DOMAIN seats /\ Len(other[line[i]].path) = i - 1
        /\ other[line[i]].parent = IF i = 1 THEN None ELSE line[i - 1]
        /\ i > 1 => other[line[i]].leg \in {"left", "right"}
  <2> SUFFICES ASSUME NEW i \in 1..(n + 1)
               PROVE  /\ line[i] \in DOMAIN seats /\ Len(seats[line[i]].path) = i - 1
                      /\ seats[line[i]].parent = IF i = 1 THEN None ELSE line[i - 1]
                      /\ i > 1 => seats[line[i]].leg \in {"left", "right"}
    OBVIOUS
  <2>1. CASE i = n + 1
    <3>1. line[i] = c /\ i - 1 = n /\ (i = 1 <=> n = 0) /\ (i > 1 <=> n > 0)
      <4>1. line[n + 1] = c /\ n \in Nat
        BY <1>3, <1>4
      <4> QED
        BY <2>1, <4>1
    <3>2. n # 0 => line[n] = path[n]
      <4>1. n # 0 => n \in 1..n
        BY <1>3
      <4> QED
        BY <1>3, <1>4, <4>1
    <3>3. /\ seats[c].parent = IF n = 0 THEN None ELSE path[n]
          /\ n > 0 => seats[c].leg \in {"left", "right"}
      BY <1>0 DEF Above
    <3> QED
      BY <1>1, <1>2, <3>1, <3>2, <3>3
  <2>2. CASE i \in 1..n
    <3>1. line[i] = path[i]
      BY <1>3, <1>4, <2>2
    <3>2. i # 1 => line[i - 1] = path[i - 1]
      <4>1. i # 1 => i - 1 \in 1..n
        BY <1>3, <2>2
      <4> QED
        BY <1>3, <1>4, <4>1
    <3>3. /\ path[i] \in DOMAIN seats /\ Len(seats[path[i]].path) = i - 1
          /\ seats[path[i]].parent = IF i = 1 THEN None ELSE path[i - 1]
          /\ i > 1 => seats[path[i]].leg \in {"left", "right"}
      BY <1>0, <2>2 DEF Above
    <3> QED
      BY <3>1, <3>2, <3>3
  <2> QED
    BY <1>3, <2>1, <2>2
<1>7. IsLine(other, c)
  BY <1>4, <1>5, <1>6 DEF IsLine
<1>8. IsLine(other, m)
  <2>1. /\ Len(Append(line, m)) = n + 2 /\ Append(line, m)[n + 2] = m
        /\ \A i \in 1..(n + 1) : Append(line, m)[i] = line[i]
    BY <1>3, <1>5
  <2>2. line[n + 1] = c
    BY <1>3, <1>4
  <2> SUFFICES ASSUME NEW i \in 1..(n + 2)
               PROVE  /\ Len(other[Append(line, m)[i]].path) = i - 1
                      /\ other[Append(line, m)[i]].parent = IF i = 1 THEN None ELSE Append(line, m)[i - 1]
                      /\ i > 1 => other[Append(line, m)[i]].leg \in {"left", "right"}
    BY <1>5, <2>1 DEF IsLine
  <2>3. CASE i = n + 2
    <3>1. i - 1 = n + 1 /\ n + 1 \in 1..(n + 1) /\ i # 1
      BY <1>3, <2>3
    <3>2. Append(line, m)[i] = m /\ Append(line, m)[i - 1] = c
      BY <2>1, <2>2, <2>3, <3>1
    <3> QED
      BY <1>5, <2>3, <3>1, <3>2
  <2>4. CASE i \in 1..(n + 1)
    <3>1. i # 1 => i - 1 \in 1..(n + 1)
      BY <1>3, <2>4
    <3>2. Append(line, m)[i] = line[i] /\ (i # 1 => Append(line, m)[i - 1] = line[i - 1])
      BY <2>1, <2>4, <3>1
    <3> QED
      BY <1>6, <2>4, <3>2
  <2>5. i = n + 2 \/ i \in 1..(n + 1)
    BY <1>3
  <2> QED
    BY <2>3, <2>4, <2>5
<1> QED
  BY <1>7, <1>8

\* A line stays as it is when somebody is placed elsewhere.
LEMMA LineStays ==
  ASSUME NEW seats, NEW other, NEW c \in DOMAIN seats, IsLine(seats, c),
         DOMAIN seats \subseteq DOMAIN other, \A d \in DOMAIN seats : other[d] = seats[d]
  PROVE  IsLine(other, c)
<1>1. PICK path : path = seats[c].path
  OBVIOUS
<1>2. path \in Seq(DOMAIN seats) /\ other[c].path = path /\ path \in Seq(DOMAIN other)
  <2>1. path \in Seq(DOMAIN seats)
    BY <1>1 DEF IsLine
  <2>2. Len(path) \in Nat /\ path = [i \in 1..Len(path) |-> path[i]] /\ \A i \in 1..Len(path) : path[i] \in DOMAIN other
    BY <2>1
  <2> QED
    BY <1>1, <2>1, <2>2
<1>3. PICK line : line = Append(path, c)
  OBVIOUS
<1>4. \A i \in 1..Len(line) : line[i] \in DOMAIN seats
  BY <1>2, <1>3
<1>5. \A i \in 1..Len(line) :
        /\ Len(seats[line[i]].path) = i - 1
        /\ seats[line[i]].parent = IF i = 1 THEN None ELSE line[i - 1]
        /\ i > 1 => seats[line[i]].leg \in {"left", "right"}
  BY <1>1, <1>3 DEF IsLine
<1>6. \A i \in 1..Len(line) :
        /\ Len(other[line[i]].path) = i - 1
        /\ other[line[i]].parent = IF i = 1 THEN None ELSE line[i - 1]
        /\ i > 1 => other[line[i]].leg \in {"left", "right"}
  BY <1>4, <1>5
<1> QED
  BY <1>2, <1>3, <1>6 DEF IsLine

\* Who is in a leg of a has a in the line above, and stands in the leg that the
\* line goes through.
LEMMA LegMembers ==
  ASSUME PlacementTypes, LinesAreKept, NEW b \in DOMAIN seat, NEW a \in Members, NEW l
  PROVE  b \in N!InLeg(a, l) <=> (\E i \in 1..Len(seat[b].path) : seat[b].path[i] = a) /\ LegOf(b, a) = l
<1>1. PICK path : path = seat[b].path
  OBVIOUS
<1>2. PICK n : n = Len(path)
  OBVIOUS
<1>0. Above(seat, b, path, n)
  BY <1>1, <1>2, LineOf DEF LinesAreKept
<1>3. /\ n \in Nat /\ path \in Seq(DOMAIN seat)
      /\ \A i \in 1..n : /\ path[i] \in DOMAIN seat /\ Append(path, b)[i] = path[i]
                         /\ seat[path[i]].parent = IF i = 1 THEN None ELSE path[i - 1]
      /\ Append(path, b)[n + 1] = b
      /\ seat[b].parent = IF n = 0 THEN None ELSE path[n]
  BY <1>0 DEF Above
<1>4. \A i \in 1..n : path[i] = a =>
        LegOf(b, a) = seat[IF i = n THEN b ELSE path[i + 1]].leg /\ (i = n \/ i + 1 \in 1..n)
  <2> SUFFICES ASSUME NEW i \in 1..n, path[i] = a
               PROVE  LegOf(b, a) = seat[IF i = n THEN b ELSE path[i + 1]].leg /\ (i = n \/ i + 1 \in 1..n)
    OBVIOUS
  <2>1. Len(seat[a].path) = i - 1
    BY <1>0 DEF Above
  <2>2. (i - 1) + 2 = i + 1 /\ (i = n \/ i + 1 \in 1..n)
    BY <1>3
  <2>3. Append(path, b)[i + 1] = IF i = n THEN b ELSE path[i + 1]
    BY <1>3, <2>2
  <2> QED
    BY <1>1, <2>1, <2>2, <2>3 DEF LegOf
<1>5. ASSUME b \in N!InLeg(a, l)
      PROVE  (\E i \in 1..n : path[i] = a) /\ LegOf(b, a) = l
  <2>1. PICK c \in DOMAIN seat : seat[c].parent = a /\ seat[c].leg = l /\ (b = c \/ \E j \in 1..n : c = path[j])
    BY <1>1, <1>2, <1>3, <1>5 DEF N!InLeg, N!Joined, N!ToSet
  <2>2. a # None
    BY TreesAssumption
  <2>3. CASE b = c
    <3>1. n # 0 /\ path[n] = a /\ n \in 1..n
      BY <1>3, <2>1, <2>2, <2>3
    <3> QED
      BY <1>4, <2>1, <2>3, <3>1
  <2>4. ASSUME NEW j \in 1..n, c = path[j]
        PROVE  (\E i \in 1..n : path[i] = a) /\ LegOf(b, a) = l
    <3>1. j # 1 /\ path[j - 1] = a /\ j - 1 \in 1..n /\ j - 1 # n /\ (j - 1) + 1 = j
      BY <1>3, <2>1, <2>2, <2>4
    <3>2. LegOf(b, a) = seat[path[j]].leg
      BY <1>4, <3>1
    <3> QED
      BY <2>1, <2>4, <3>1, <3>2
  <2> QED
    BY <2>1, <2>3, <2>4
<1>6. ASSUME NEW i \in 1..n, path[i] = a, LegOf(b, a) = l
      PROVE  b \in N!InLeg(a, l)
  <2>1. CASE i = n
    BY <1>3, <1>4, <1>6, <2>1 DEF N!InLeg, N!Joined
  <2>2. CASE i # n
    <3>1. i + 1 \in 1..n /\ seat[path[i + 1]].leg = l
      BY <1>4, <1>6, <2>2
    <3>2. seat[path[i + 1]].parent = a /\ path[i + 1] \in DOMAIN seat
      BY <1>3, <1>6, <3>1
    <3>3. path[i + 1] \in N!ToSet(seat[b].path)
      BY <1>1, <1>2, <1>3, <3>1 DEF N!ToSet
    <3> QED
      BY <3>1, <3>2, <3>3 DEF N!InLeg, N!Joined
  <2> QED
    BY <2>1, <2>2
<1> QED
  BY <1>1, <1>2, <1>5, <1>6

\* What a purchase has climbed depends on its buyer's line and on the committed rows.
LEMMA ClimbStays ==
  ASSUME NEW b, NEW p, Climbs(b, p), UNCHANGED tree, b \in DOMAIN seat', seat'[b] = seat[b],
         \A a \in DOMAIN p.mine : LegOf(b, a)' = LegOf(b, a) /\ legs'[a] = legs[a]
  PROVE  Climbs(b, p)'
<1>1. \A a \in DOMAIN p.mine : Counts(b, a, p.mine[a])'
  BY DEF Climbs, Counts
<1>2. PICK path : path = seat[b].path
  OBVIOUS
<1>3. /\ p.pc \in {"adding", "matching"}
      /\ p.todo \in Seq(Members) /\ Len(p.todo) <= Len(path)
      /\ \A i \in 1..Len(p.todo) : p.todo[i] = path[Len(p.todo) + 1 - i]
  BY <1>2 DEF Climbs
<1>4. p.pc = "adding" => DOMAIN p.mine = {path[i] : i \in (Len(p.todo) + 1)..Len(path)}
  BY <1>2 DEF Climbs
<1>5. p.pc = "matching" => /\ DOMAIN p.mine = {path[i] : i \in 1..Len(path)}
                          /\ \A i \in (Len(p.todo) + 1)..Len(path) : PairedOff(p.mine[path[i]])
  BY <1>2 DEF Climbs
<1>6. path = seat'[b].path
  BY <1>2
<1> QED
  BY <1>1, <1>3, <1>4, <1>5, <1>6 DEF Climbs

-----------------------------------------------------------------------------
(* Volumes: registrations *)

\* Nothing is invested and nobody buys before there are members.
LEMMA VolumesInit == N!Init => VolumesIInv
<1> SUFFICES ASSUME N!Init PROVE VolumesIInv
  OBVIOUS
<1>1. /\ tree \in TreeScenes /\ seat = tree.seats /\ DOMAIN search = {}
      /\ invested = [m \in Members |-> 0]
      /\ purchase = [m \in Members |-> N!NoPurchase]
      /\ legs = [m \in Members |-> N!NoLegs]
  BY DEF N!Init
<1>2. LinesAreKept
  BY <1>1, TreesAssumption DEF LinesAreKept
<1>3. N!NoLegs \in LegRow /\ Carried(N!NoLegs) /\ PairedOff(N!NoLegs) /\ \A l \in N!Legs : N!NoLegs.total[l] = 0
  BY DEF N!NoLegs, N!Legs, LegRow, Carried, PairedOff
<1>4. VolumeTypes
  BY <1>1, <1>3 DEF VolumeTypes
<1>5. PurchasesClimb /\ RowsAreLocked
  <2>1. DOMAIN N!NoPurchase.mine = {}
    BY DEF N!NoPurchase
  <2> QED
    BY <1>1, <2>1 DEF PurchasesClimb, RowsAreLocked
<1>6. LegsAreCounted
  <2> SUFFICES ASSUME NEW a \in Members, NEW l \in N!Legs
               PROVE  SumOver(invested, N!InLeg(a, l)) = 0
    BY <1>1, <1>3 DEF LegsAreCounted
  <2>1. IsFiniteSet(N!InLeg(a, l)) /\ N!InLeg(a, l) \subseteq Members
    BY <1>1, TreesAssumption, FS_Subset DEF N!InLeg, N!Joined
  <2>2. \A x \in N!InLeg(a, l) : invested[x] = 0
    BY <1>1, <2>1
  <2> QED
    BY <2>1, <2>2, SumZero
<1> QED
  BY <1>2, <1>4, <1>5, <1>6 DEF VolumesIInv

\* Where only a search changes, slots that are found must continue a line.
LEMMA SearchKeeps ==
  ASSUME VolumesIInv, UNCHANGED <<tree, seat, invested, purchase, legs>>,
         \A m \in DOMAIN search' : search'[m].slot # N!Unplaced =>
           /\ search'[m].slot.parent \in DOMAIN seat /\ search'[m].slot.leg \in N!Legs
           /\ search'[m].slot.path = Append(seat[search'[m].slot.parent].path, search'[m].slot.parent)
  PROVE  VolumesIInv'
<1> USE DEF VolumesIInv
<1>1. LinesAreKept'
  BY DEF LinesAreKept
<1>2. VolumeTypes' /\ RowsAreLocked'
  BY DEF VolumeTypes, RowsAreLocked
<1>3. PurchasesClimb'
  <2> SUFFICES ASSUME NEW b \in Members, purchase[b] # N!NoPurchase
               PROVE  Climbs(b, purchase[b])'
    BY DEF PurchasesClimb
  <2>1. PICK p : p = purchase[b]
    OBVIOUS
  <2>2. Climbs(b, p) /\ b \in DOMAIN seat
    BY <2>1 DEF PurchasesClimb, Climbs
  <2>3. \A a : LegOf(b, a)' = LegOf(b, a) /\ legs'[a] = legs[a]
    BY DEF LegOf
  <2>4. Climbs(b, p)'
    BY <2>2, <2>3, ClimbStays
  <2> QED
    BY <2>1, <2>4
<1>4. LegsAreCounted'
  BY DEF LegsAreCounted, N!InLeg, N!Joined
<1> QED
  BY <1>1, <1>2, <1>3, <1>4

\* What is written of a purchase does not depend on what is searched or summed.
LEMMA VolumesStay ==
  ASSUME VolumesIInv, UNCHANGED <<tree, seat, search, invested, purchase, legs>>
  PROVE  VolumesIInv'
BY SearchKeeps DEF VolumesIInv, LinesAreKept

\* A search begins.
LEMMA RegisterVolumes ==
  ASSUME PlacementIInv, VolumesIInv, NEW m \in Members, N!Register(m)
  PROVE  VolumesIInv'
<1>1. /\ search' = N!Put(search, m, [level |-> {tree.sponsor[m]}, slot |-> N!Unplaced])
      /\ UNCHANGED <<tree, seat, invested, purchase, legs>>
  BY DEF N!Register, N!binary
<1>2. DOMAIN search' = DOMAIN search \union {m} /\ search'[m].slot = N!Unplaced
      /\ \A n \in DOMAIN search \ {m} : search'[n] = search[n]
  BY <1>1 DEF N!Put
<1> QED
  BY <1>1, <1>2, SearchKeeps, Zenon DEF VolumesIInv, LinesAreKept

\* A slot that is found continues the line of who stands above it.
LEMMA FindVolumes ==
  ASSUME PlacementIInv, VolumesIInv, NEW m \in Members, N!FindPlacement(m)
  PROVE  VolumesIInv'
<1>1. m \in DOMAIN search /\ search[m].slot = N!Unplaced /\ UNCHANGED <<tree, seat, invested, purchase, legs>>
  BY DEF N!FindPlacement, N!binary
<1>2. PICK level, slot : level = search[m].level /\ slot = search[m].slot
  OBVIOUS
<1>3. search[m] = [level |-> level, slot |-> slot] /\ level \subseteq DOMAIN seat
  BY <1>1, <1>2 DEF PlacementIInv, PlacementTypes
<1>4. \/ \E other \in N!FirstFree(level) : search' = [search EXCEPT ![m].slot = other]
      \/ search' = [search EXCEPT ![m].level = N!Children(level)]
  BY <1>2 DEF N!FindPlacement
<1>5. /\ DOMAIN search' = DOMAIN search /\ \A n \in DOMAIN search \ {m} : search'[n] = search[n]
      /\ search'[m].slot = slot \/ search'[m].slot \in N!FirstFree(level)
  BY <1>1, <1>3, <1>4
<1>6. ASSUME NEW other \in N!FirstFree(level)
      PROVE  /\ other.parent \in DOMAIN seat /\ other.leg \in N!Legs
             /\ other.path = Append(seat[other.parent].path, other.parent)
  <2>1. PICK n \in level :
          other = [parent |-> n, leg |-> IF "left" \in N!Free(n) THEN "left" ELSE "right",
                   path |-> Append(seat[n].path, n)]
    BY DEF N!FirstFree
  <2> QED
    BY <1>3, <2>1 DEF N!Legs
<1>7. slot = N!Unplaced
  BY <1>1, <1>2
<1> QED
  BY <1>1, <1>5, <1>6, <1>7, SearchKeeps DEF VolumesIInv, LinesAreKept

\* Whoever is placed has invested nothing yet, and is the last of a line.
LEMMA PlaceVolumes ==
  ASSUME PlacementIInv, VolumesIInv, NEW m \in Members, N!Place(m)
  PROVE  VolumesIInv'
<1> USE DEF VolumesIInv
<1>1. /\ m \in DOMAIN search /\ search[m].slot # N!Unplaced
      /\ UNCHANGED <<tree, invested, purchase, legs>>
      /\ DOMAIN seat' = DOMAIN seat \union {m} /\ seat'[m] = search[m].slot
      /\ \A c \in DOMAIN seat : c # m => seat'[c] = seat[c]
      /\ DOMAIN search' \subseteq DOMAIN search /\ \A n \in DOMAIN search' : search'[n] = search[n]
  BY DEF N!Place, N!Put, N!Restrict, N!binary
<1>2. m \notin DOMAIN seat /\ DOMAIN seat \subseteq Members
  BY <1>1 DEF PlacementIInv, PlacementTypes
<1>3. \A c \in DOMAIN seat : seat'[c] = seat[c]
  BY <1>1, <1>2
<1>4. PICK p : p = search[m].slot.parent
  OBVIOUS
<1>5. /\ p \in DOMAIN seat /\ seat'[m].parent = p /\ seat'[m].leg \in {"left", "right"}
      /\ seat'[m].path = Append(seat[p].path, p)
  BY <1>1, <1>4 DEF LinesAreKept, N!Legs
<1>6. \A c \in DOMAIN seat : IsLine(seat, c)
  BY DEF LinesAreKept
<1>7. \A c \in DOMAIN seat : IsLine(seat', c)
  \* Of a member who was there nothing changes.
  <2> SUFFICES ASSUME NEW c \in DOMAIN seat PROVE IsLine(seat', c)
    OBVIOUS
  <2> QED
    BY <1>1, <1>2, <1>3, <1>6, LineStays
<1>8. IsLine(seat', m)
  BY <1>1, <1>2, <1>3, <1>5, <1>6, LineGrows
<1>9. LinesAreKept'
  <2>1. \A c \in DOMAIN seat' : IsLine(seat', c)
    BY <1>1, <1>7, <1>8
  <2>2. ASSUME NEW n \in DOMAIN search', search'[n].slot # N!Unplaced
        PROVE  /\ search'[n].slot.parent \in DOMAIN seat' /\ search'[n].slot.leg \in N!Legs
               /\ search'[n].slot.path = Append(seat'[search'[n].slot.parent].path, search'[n].slot.parent)
    <3>1. n \in DOMAIN search /\ search'[n] = search[n]
      BY <1>1
    <3>2. /\ search[n].slot.parent \in DOMAIN seat /\ search[n].slot.leg \in N!Legs
          /\ search[n].slot.path = Append(seat[search[n].slot.parent].path, search[n].slot.parent)
      BY <2>2, <3>1 DEF LinesAreKept
    <3> QED
      BY <1>1, <1>3, <3>1, <3>2
  <2> QED
    BY <2>1, <2>2 DEF LinesAreKept
<1>10. VolumeTypes' /\ RowsAreLocked'
  BY <1>1 DEF VolumeTypes, RowsAreLocked
<1>11. PurchasesClimb'
  <2> SUFFICES ASSUME NEW b \in Members, purchase[b] # N!NoPurchase
               PROVE  Climbs(b, purchase[b])'
    BY <1>1 DEF PurchasesClimb
  <2>1. Climbs(b, purchase[b])
    BY DEF PurchasesClimb
  <2>2. b \in DOMAIN seat /\ seat'[b] = seat[b]
    BY <1>3, <2>1 DEF Climbs
  <2>3. PICK path, n : path = seat[b].path /\ n = Len(path)
    OBVIOUS
  <2>4. Above(seat, b, path, n)
    BY <1>6, <2>2, <2>3, LineOf
  <2>5. \A a \in DOMAIN purchase[b].mine : LegOf(b, a)' = LegOf(b, a)
    <3> SUFFICES ASSUME NEW a \in DOMAIN purchase[b].mine
                 PROVE  LegOf(b, a)' = LegOf(b, a)
      OBVIOUS
    <3>1. PICK i \in 1..n : a = path[i]
      <4>1. Len(purchase[b].todo) \in Nat
        BY <2>1 DEF Climbs
      <4>2. DOMAIN purchase[b].mine \subseteq {path[j] : j \in 1..n}
        BY <2>1, <2>3, <4>1 DEF Climbs
      <4> QED
        BY <4>2
    <3>2. a \in DOMAIN seat /\ seat'[a] = seat[a] /\ Len(seat[a].path) + 2 = i + 1 /\ n \in Nat
      <4>1. a \in DOMAIN seat /\ Len(seat[a].path) = i - 1 /\ n \in Nat
        BY <2>4, <3>1 DEF Above
      <4> QED
        BY <1>3, <4>1
    <3>3. Append(path, b)[i + 1] \in DOMAIN seat
      <4>1. i + 1 = n + 1 \/ i + 1 \in 1..n
        BY <3>2
      <4> QED
        BY <2>2, <2>4, <4>1 DEF Above
    <3> QED
      BY <1>3, <2>2, <2>3, <3>2, <3>3 DEF LegOf
  <2>6. PICK r : r = purchase[b]
    OBVIOUS
  <2>7. Climbs(b, r)'
    <3>1. \A a \in DOMAIN r.mine : LegOf(b, a)' = LegOf(b, a) /\ legs'[a] = legs[a]
      BY <1>1, <2>5, <2>6
    <3> QED
      BY <1>1, <2>1, <2>2, <2>6, <3>1, ClimbStays
  <2> QED
    BY <1>1, <2>6, <2>7
<1>12. LegsAreCounted'
  <2> SUFFICES ASSUME NEW a \in Members, NEW l \in N!Legs
               PROVE  SumOver(invested, N!InLeg(a, l)') = SumOver(invested, N!InLeg(a, l))
    BY <1>1 DEF LegsAreCounted
  <2>1. \A x \in DOMAIN seat : x \in N!InLeg(a, l)' <=> x \in N!InLeg(a, l)
    <3> SUFFICES ASSUME NEW x \in DOMAIN seat
                 PROVE  x \in N!InLeg(a, l)' <=> x \in N!InLeg(a, l)
      OBVIOUS
    <3>1. N!ToSet(seat[x].path) \subseteq DOMAIN seat
      BY <1>6 DEF IsLine, N!ToSet
    <3>2. x # m /\ m \notin N!ToSet(seat[x].path)
      BY <1>2, <3>1
    <3> QED
      BY <1>1, <1>3, <3>2 DEF N!InLeg, N!Joined, N!ToSet
  <2>2. N!InLeg(a, l) \subseteq DOMAIN seat /\ N!InLeg(a, l)' \subseteq DOMAIN seat \union {m}
    BY <1>1 DEF N!InLeg, N!Joined
  <2>3. IsFiniteSet(N!InLeg(a, l)) /\ IsFiniteSet(N!InLeg(a, l)')
    BY <1>2, <2>2, TreesAssumption, FS_Subset
  <2>4. PICK T, U : T = N!InLeg(a, l) /\ U = N!InLeg(a, l)'
    OBVIOUS
  <2>5. CASE m \notin U
    <3>1. T = U
      BY <2>1, <2>2, <2>4, <2>5
    <3> QED
      BY <2>4, <3>1
  <2>6. CASE m \in U
    <3>1. T = U \ {m}
      BY <1>2, <2>1, <2>2, <2>4
    <3>2. \A x \in U : invested[x] \in Int
      BY <1>2, <2>2, <2>4 DEF VolumeTypes
    <3>3. IsFiniteSet(T) /\ IsFiniteSet(U)
      BY <2>3, <2>4
    <3>4. invested[m] = 0
      BY <1>2 DEF VolumeTypes
    <3>5. SumOver(invested, U) = invested[m] + SumOver(invested, U \ {m})
      BY <2>6, <3>2, <3>3, SumAdds
    <3>6. SumOver(invested, T) \in Int
      BY <3>1, <3>2, <3>3, SumType
    <3> QED
      BY <2>4, <3>1, <3>4, <3>5, <3>6
  <2> QED
    BY <2>5, <2>6
<1> QED
  BY <1>9, <1>10, <1>11, <1>12

-----------------------------------------------------------------------------
(* Volumes: purchases *)

\* What one purchase writes for itself, as long as it climbs its buyer's line and
\* waits for the rows of the others.
LEMMA PurchaseMoves ==
  ASSUME VolumesIInv, UNCHANGED <<tree, seat, search, invested, legs>>, NEW b \in Members, NEW v,
         purchase' = [purchase EXCEPT ![b] = v], v # N!NoPurchase => Climbs(b, v),
         \A c \in Members \ {b} : DOMAIN v.mine \intersect DOMAIN purchase[c].mine = {}
  PROVE  VolumesIInv'
<1> USE DEF VolumesIInv
<1>1. LinesAreKept'
  BY DEF LinesAreKept
<1>2. LegsAreCounted'
  BY DEF LegsAreCounted, N!InLeg, N!Joined
<1>3. /\ DOMAIN purchase' = Members /\ purchase'[b] = v
      /\ \A c \in Members \ {b} : purchase'[c] = purchase[c]
  BY DEF VolumeTypes
<1>4. VolumeTypes'
  BY <1>3 DEF VolumeTypes
<1>5. RowsAreLocked'
  <2> SUFFICES ASSUME NEW c \in Members, NEW d \in Members, c # d
               PROVE  DOMAIN purchase'[c].mine \intersect DOMAIN purchase'[d].mine = {}
    BY DEF RowsAreLocked
  <2>1. CASE c = b
    BY <1>3, <2>1
  <2>2. CASE d = b
    BY <1>3, <2>2
  <2>3. CASE c # b /\ d # b
    BY <1>3, <2>3 DEF RowsAreLocked
  <2> QED
    BY <2>1, <2>2, <2>3
<1>6. ASSUME NEW c \in Members, NEW p, Climbs(c, p)
      PROVE  Climbs(c, p)'
  <2>1. \A a : LegOf(c, a)' = LegOf(c, a) /\ legs'[a] = legs[a]
    BY DEF LegOf
  <2>2. c \in DOMAIN seat
    BY <1>6 DEF Climbs
  <2> QED
    BY <1>6, <2>1, <2>2, ClimbStays
<1>7. PurchasesClimb'
  <2> SUFFICES ASSUME NEW c \in Members, purchase'[c] # N!NoPurchase
               PROVE  Climbs(c, purchase[c])'
    BY DEF PurchasesClimb
  <2>1. PICK p : p = purchase'[c]
    OBVIOUS
  <2>2. Climbs(c, p)
    BY <1>3, <2>1 DEF PurchasesClimb
  <2>3. Climbs(c, p)'
    BY <1>6, <2>2
  <2> QED
    BY <2>1, <2>3
<1> QED
  BY <1>1, <1>2, <1>4, <1>5, <1>7

\* A buyer's line: those above it, each in one place, and the leg of each that it is in.
Ancestry(b, path) ==
  /\ path = seat[b].path /\ Len(path) \in Nat /\ path \in Seq(Members)
  /\ \A i \in 1..Len(path) : path[i] \in Members /\ Len(seat[path[i]].path) = i - 1

\* Nobody is above a buyer twice.
LEMMA AncestryOf ==
  ASSUME PlacementTypes, VolumesIInv, NEW b \in DOMAIN seat, NEW path, path = seat[b].path
  PROVE  Ancestry(b, path)
<1>1. Above(seat, b, path, Len(path))
  BY LineOf DEF VolumesIInv, LinesAreKept
<1>2. path \in Seq(DOMAIN seat) /\ DOMAIN seat \subseteq Members
  BY <1>1 DEF Above, PlacementTypes
<1>3. path \in Seq(Members) /\ \A i \in 1..Len(path) : path[i] \in Members
  <2>1. \A i \in 1..Len(path) : path[i] \in Members
    BY <1>2
  <2>2. path = [i \in 1..Len(path) |-> path[i]] /\ Len(path) \in Nat
    BY <1>2
  <2> QED
    BY <2>1, <2>2
<1>4. Len(path) \in Nat /\ \A i \in 1..Len(path) : Len(seat[path[i]].path) = i - 1
  BY <1>1 DEF Above
<1> QED
  BY <1>3, <1>4 DEF Ancestry

\* The next of a purchase: the last of its line that it has left to do.
NextUp(b, ahead, path, n) ==
  /\ n \in 1..Len(path) /\ Head(ahead) = path[n]
  /\ Tail(ahead) \in Seq(Members) /\ Len(Tail(ahead)) = n - 1
  /\ \A i \in 1..(n - 1) : Tail(ahead)[i] = path[n - i]
  /\ N!LegTowards(b) = LegOf(b, path[n])
  /\ \A i \in 1..Len(path) : path[i] = path[n] => i = n

\* What is next is above the buyer, and was not come to before.
LEMMA NextUpOf ==
  ASSUME PlacementTypes, VolumesIInv, NEW b \in Members, purchase[b] # N!NoPurchase,
         NEW ahead, ahead = purchase[b].todo, ahead # <<>>, NEW path, Ancestry(b, path), NEW n, n = Len(ahead)
  PROVE  NextUp(b, ahead, path, n)
<1>1. Climbs(b, purchase[b])
  BY DEF VolumesIInv, PurchasesClimb
<1>2. ahead \in Seq(Members) /\ n <= Len(path) /\ \A i \in 1..n : ahead[i] = path[n + 1 - i]
  BY <1>1 DEF Climbs, Ancestry
<1>3. n \in Nat \ {0} /\ Len(path) \in Nat
  <2>1. n \in Nat /\ n # 0
    BY <1>2
  <2> QED
    BY <2>1 DEF Ancestry
<1>4. n \in 1..Len(path) /\ 1 \in 1..n /\ n + 1 - 1 = n
  BY <1>2, <1>3
<1>5. Head(ahead) = path[n]
  <2>1. Head(ahead) = ahead[1]
    BY <1>2
  <2> QED
    BY <1>2, <1>4, <2>1
<1>6. Tail(ahead) \in Seq(Members) /\ Len(Tail(ahead)) = n - 1
  BY <1>2
<1>7. ASSUME NEW i \in 1..(n - 1) PROVE Tail(ahead)[i] = path[n - i]
  <2>1. Tail(ahead)[i] = ahead[i + 1]
    BY <1>2
  <2>2. i + 1 \in 1..n /\ n + 1 - (i + 1) = n - i
    <3>1. \A k \in Nat : \A j \in 1..(k - 1) : j + 1 \in 1..k /\ k + 1 - (j + 1) = k - j
      OBVIOUS
    <3> QED
      BY <1>3, <3>1
  <2> QED
    BY <1>2, <2>1, <2>2
<1>8. N!LegTowards(b) = LegOf(b, path[n])
  <2>1. Len(seat[path[n]].path) = n - 1 /\ path = seat[b].path
    BY <1>4 DEF Ancestry
  <2>2. (n - 1) + 2 = n + 1
    BY <1>3
  <2> QED
    BY <2>1, <2>2 DEF N!LegTowards, LegOf
<1>9. ASSUME NEW i \in 1..Len(path), path[i] = path[n] PROVE i = n
  <2>1. Len(seat[path[i]].path) = i - 1 /\ Len(seat[path[n]].path) = n - 1
    BY <1>4 DEF Ancestry
  <2>2. i - 1 = n - 1
    BY <1>9, <2>1
  <2> QED
    BY <1>3, <1>4, <2>2
<1> QED
  BY <1>4, <1>5, <1>6, <1>7, <1>8, <1>9 DEF NextUp

\* The whole line, from below.
LEMMA UpwardOf ==
  ASSUME NEW b, NEW path, Ancestry(b, path)
  PROVE  /\ N!Upward(b) \in Seq(Members) /\ Len(N!Upward(b)) = Len(path)
         /\ \A i \in 1..Len(path) : N!Upward(b)[i] = path[Len(path) + 1 - i]
<1>1. N!Upward(b) = [i \in 1..Len(path) |-> path[(Len(path) - i) + 1]]
  BY DEF N!Upward, N!Reverse, Ancestry
<1>2. \A i \in 1..Len(path) : (Len(path) - i) + 1 \in 1..Len(path) /\ (Len(path) - i) + 1 = Len(path) + 1 - i
  BY DEF Ancestry
<1>3. \A i \in 1..Len(path) : path[(Len(path) - i) + 1] \in Members
  BY <1>2 DEF Ancestry
<1>4. Len(path) \in Nat
  BY DEF Ancestry
<1> QED
  BY <1>1, <1>2, <1>3, <1>4

\* A purchase begins below its line.
LEMMA BeginVolumes ==
  ASSUME PlacementIInv, VolumesIInv, NEW b \in Members, N!Begin(b)
  PROVE  VolumesIInv'
<1>1. PICK v : v = [pc |-> "adding", todo |-> N!Upward(b), mine |-> <<>>]
  OBVIOUS
<1>2. /\ b \in DOMAIN seat /\ purchase' = [purchase EXCEPT ![b] = v]
      /\ UNCHANGED <<tree, seat, search, invested, legs>>
  BY <1>1 DEF N!Begin, N!Goto, N!Joined, N!tree
<1>3. DOMAIN v.mine = {} /\ v.pc = "adding" /\ v.todo = N!Upward(b)
  BY <1>1
<1>4. PICK path : path = seat[b].path
  OBVIOUS
<1>5. Ancestry(b, path)
  BY <1>2, <1>4, AncestryOf DEF PlacementIInv
<1>6. Climbs(b, v)
  <2>1. {path[i] : i \in (Len(path) + 1)..Len(path)} = {}
    BY <1>5 DEF Ancestry
  <2>2. v.todo \in Seq(Members) /\ Len(v.todo) = Len(path)
        /\ \A i \in 1..Len(path) : v.todo[i] = path[Len(path) + 1 - i]
    BY <1>3, <1>5, UpwardOf
  <2>3. Len(path) <= Len(path)
    BY <1>5 DEF Ancestry
  <2> QED
    BY <1>2, <1>3, <1>4, <2>1, <2>2, <2>3 DEF Climbs
<1> QED
  BY <1>2, <1>3, <1>6, PurchaseMoves

\* A row is locked, incremented, and not come back to.
LEMMA AddVolumes ==
  ASSUME PlacementIInv, VolumesIInv, NEW b \in Members, N!AddVolume(b)
  PROVE  VolumesIInv'
<1>1. PICK ahead, mine, path, n, a :
        /\ ahead = purchase[b].todo /\ mine = purchase[b].mine /\ path = seat[b].path
        /\ n = Len(ahead) /\ a = Head(ahead)
  OBVIOUS
<1>2. PICK r : r = N!Added(N!Seen(b, a), N!LegTowards(b), tree.price[b])
  OBVIOUS
<1>3. PICK v : v = [pc |-> "adding", todo |-> Tail(ahead), mine |-> N!Put(mine, a, r)]
  OBVIOUS
<1>4. /\ purchase[b].pc = "adding" /\ ahead # <<>> /\ ~N!Locked(b, a)
      /\ purchase' = [purchase EXCEPT ![b] = v]
      /\ UNCHANGED <<tree, seat, search, invested, legs>>
  BY <1>1, <1>2, <1>3 DEF N!AddVolume, N!At, N!Goto, N!tree
<1>5. purchase[b] # N!NoPurchase
  BY <1>4 DEF N!NoPurchase
<1>6. Climbs(b, purchase[b])
  BY <1>5 DEF VolumesIInv, PurchasesClimb
<1>7. b \in DOMAIN seat /\ Ancestry(b, path)
  BY <1>1, <1>6, AncestryOf DEF Climbs, PlacementIInv
<1>8. NextUp(b, ahead, path, n)
  BY <1>1, <1>4, <1>5, <1>7, NextUpOf DEF PlacementIInv
<1>9. a = path[n] /\ a \in Members /\ n \in 1..Len(path) /\ Len(path) \in Nat
  BY <1>1, <1>7, <1>8 DEF NextUp, Ancestry
<1>10. DOMAIN mine = {path[i] : i \in (n + 1)..Len(path)}
  BY <1>1, <1>4, <1>6 DEF Climbs
<1>11. a \notin DOMAIN mine
  <2>1. \A i \in (n + 1)..Len(path) : i \in 1..Len(path) /\ i # n
    BY <1>9
  <2> QED
    BY <1>9, <1>10, <2>1, <1>8 DEF NextUp
<1>12. Counts(b, a, r)
  <2>1. PICK l, price : l = LegOf(b, a) /\ price = tree.price[b]
    OBVIOUS
  <2>2. r = [legs[a] EXCEPT !.volume[l] = @ + price, !.total[l] = @ + price]
    BY <1>1, <1>2, <1>8, <1>9, <1>11, <2>1, Zenon DEF N!Added, N!Seen, NextUp
  <2>3. price \in Nat
    BY <2>1, TreesAssumption DEF PlacementIInv, PlacementTypes
  <2>4. legs[a] \in LegRow /\ Carried(legs[a])
    BY <1>9 DEF VolumesIInv, VolumeTypes, LegsAreCounted
  <2>5. PICK q : q = legs[a]
    OBVIOUS
  <2>6. q = [volume |-> q.volume, total |-> q.total, matched |-> q.matched]
        /\ q.volume \in [N!Legs -> Int] /\ q.total \in [N!Legs -> Int] /\ q.matched \in Int
    BY <2>4, <2>5 DEF LegRow
  <2>7. /\ r = [volume |-> r.volume, total |-> r.total, matched |-> r.matched] /\ r.matched = q.matched
        /\ r.volume = [q.volume EXCEPT ![l] = @ + price] /\ r.total = [q.total EXCEPT ![l] = @ + price]
    BY <2>2, <2>5, <2>6
  <2>8. ASSUME NEW f \in [N!Legs -> Int]
        PROVE  /\ [f EXCEPT ![l] = @ + price] \in [N!Legs -> Int]
               /\ \A k \in N!Legs : [f EXCEPT ![l] = @ + price][k] = f[k] + (IF k = l THEN price ELSE 0)
    <3>1. CASE l \in N!Legs
      BY <2>3, <3>1
    <3>2. CASE l \notin N!Legs
      <4>1. [f EXCEPT ![l] = @ + price] = f
        BY <3>2
      <4>2. \A k \in N!Legs : f[k] = f[k] + (IF k = l THEN price ELSE 0)
        <5>1. \A k \in N!Legs : f[k] \in Int /\ f[k] + 0 = f[k] /\ (IF k = l THEN price ELSE 0) = 0
          BY <3>2
        <5> QED
          BY <5>1
      <4> QED
        BY <4>1, <4>2
    <3> QED
      BY <3>1, <3>2
  <2>9. r \in LegRow
    BY <2>6, <2>7, <2>8 DEF LegRow
  <2>10. \A k \in N!Legs : /\ r.volume[k] = q.volume[k] + (IF k = l THEN price ELSE 0)
                           /\ r.total[k] = q.total[k] + (IF k = l THEN price ELSE 0)
    BY <2>6, <2>7, <2>8
  <2>11. Carried(r)
    <3>1. \A k \in N!Legs : q.volume[k] = q.total[k] - q.matched /\ q.volume[k] \in Int /\ q.total[k] \in Int
      BY <2>4, <2>5, <2>6 DEF Carried
    <3> QED
      BY <2>3, <2>6, <2>7, <2>10, <3>1 DEF Carried
  <2> QED
    BY <2>1, <2>5, <2>9, <2>10, <2>11 DEF Counts
<1>13. DOMAIN v.mine = DOMAIN mine \union {a} /\ v.mine[a] = r /\ \A c \in DOMAIN mine : v.mine[c] = mine[c]
  BY <1>3, <1>11 DEF N!Put
<1>14. Climbs(b, v)
  <2>1. v.pc = "adding" /\ v.todo = Tail(ahead)
    BY <1>3
  <2>2. v.todo \in Seq(Members) /\ Len(v.todo) = n - 1 /\ \A i \in 1..(n - 1) : v.todo[i] = path[n - i]
    BY <1>8, <2>1 DEF NextUp
  <2>3. n - 1 <= Len(path) /\ (n - 1) + 1 = n /\ \A i \in 1..(n - 1) : n - i = (n - 1) + 1 - i
    BY <1>9
  <2>4. DOMAIN v.mine = {path[i] : i \in n..Len(path)}
    <3>1. n..Len(path) = ((n + 1)..Len(path)) \union {n}
      BY <1>9
    <3> QED
      BY <1>9, <1>10, <1>13, <3>1
  <2>5. \A c \in DOMAIN mine : Counts(b, c, mine[c])
    BY <1>1, <1>6 DEF Climbs
  <2>6. \A c \in DOMAIN v.mine : Counts(b, c, v.mine[c])
    BY <1>12, <1>13, <2>5
  <2>7. \A i \in 1..(n - 1) : v.todo[i] = path[(n - 1) + 1 - i]
    BY <2>2, <2>3
  <2>8. v.pc = "adding" => DOMAIN v.mine = {path[i] : i \in ((n - 1) + 1)..Len(path)}
    BY <2>3, <2>4
  <2>9. PICK k : k = Len(v.todo)
    OBVIOUS
  <2>10. /\ k = n - 1 /\ v.todo \in Seq(Members) /\ k <= Len(path)
         /\ \A i \in 1..k : v.todo[i] = path[k + 1 - i]
         /\ v.pc = "adding" => DOMAIN v.mine = {path[i] : i \in (k + 1)..Len(path)}
    BY <2>2, <2>3, <2>7, <2>8, <2>9
  <2> QED
    BY <1>1, <1>7, <2>1, <2>6, <2>9, <2>10 DEF Climbs
<1>15. \A c \in Members \ {b} : DOMAIN v.mine \intersect DOMAIN purchase[c].mine = {}
  BY <1>1, <1>4, <1>13 DEF N!Locked, VolumesIInv, RowsAreLocked
<1> QED
  BY <1>4, <1>14, <1>15, PurchaseMoves

\* All volume has been added before any of it is matched.
LEMMA StartVolumes ==
  ASSUME PlacementIInv, VolumesIInv, NEW b \in Members, N!StartMatching(b)
  PROVE  VolumesIInv'
<1>1. PICK mine, path : mine = purchase[b].mine /\ path = seat[b].path
  OBVIOUS
<1>2. PICK v : v = [pc |-> "matching", todo |-> N!Upward(b), mine |-> mine]
  OBVIOUS
<1>3. /\ purchase[b].pc = "adding" /\ purchase[b].todo = <<>>
      /\ purchase' = [purchase EXCEPT ![b] = v]
      /\ UNCHANGED <<tree, seat, search, invested, legs>>
  BY <1>1, <1>2 DEF N!StartMatching, N!Goto, N!tree
<1>4. Climbs(b, purchase[b])
  BY <1>3 DEF N!NoPurchase, VolumesIInv, PurchasesClimb
<1>5. b \in DOMAIN seat /\ Ancestry(b, path)
  BY <1>1, <1>4, AncestryOf DEF Climbs, PlacementIInv
<1>6. DOMAIN mine = {path[i] : i \in 1..Len(path)} /\ \A a \in DOMAIN mine : Counts(b, a, mine[a])
  <2>1. Len(purchase[b].todo) = 0 /\ 0 + 1 = 1
    BY <1>3
  <2> QED
    BY <1>1, <1>3, <1>4, <2>1 DEF Climbs
<1>7. Climbs(b, v)
  <2>1. v.pc = "matching" /\ v.todo = N!Upward(b) /\ v.mine = mine
    BY <1>2
  <2>2. PICK k : k = Len(v.todo)
    OBVIOUS
  <2>3. /\ k = Len(path) /\ v.todo \in Seq(Members) /\ k <= Len(path)
        /\ \A i \in 1..k : v.todo[i] = path[k + 1 - i]
    <3>1. /\ N!Upward(b) \in Seq(Members) /\ Len(N!Upward(b)) = Len(path)
          /\ \A i \in 1..Len(path) : N!Upward(b)[i] = path[Len(path) + 1 - i]
      BY <1>5, UpwardOf
    <3>2. Len(path) \in Nat /\ k = Len(path)
      BY <1>5, <2>1, <2>2, <3>1 DEF Ancestry
    <3> QED
      BY <2>1, <3>1, <3>2
  <2>4. (k + 1)..Len(path) = {}
    BY <1>5, <2>3 DEF Ancestry
  <2> QED
    BY <1>1, <1>5, <1>6, <2>1, <2>2, <2>3, <2>4 DEF Climbs
<1>8. \A c \in Members \ {b} : DOMAIN v.mine \intersect DOMAIN purchase[c].mine = {}
  BY <1>1, <1>2 DEF VolumesIInv, RowsAreLocked
<1> QED
  BY <1>3, <1>7, <1>8, PurchaseMoves

\* What pairs off: the lesser of the two volumes.
LesserOf(r) == N!Min({r.volume[l] : l \in N!Legs})

\* It is one of them.
LEMMA LesserVolume ==
  ASSUME NEW r \in LegRow, NEW pair, pair = LesserOf(r)
  PROVE  pair \in Int /\ \E l \in N!Legs : pair = r.volume[l]
<1>1. PICK x, y : x = r.volume["left"] /\ y = r.volume["right"]
  OBVIOUS
<1>2. x \in Int /\ y \in Int
  BY <1>1 DEF LegRow, N!Legs
<1>3. {r.volume[l] : l \in N!Legs} = {x, y}
  BY <1>1 DEF N!Legs
<1>4. \E m \in {x, y} : \A z \in {x, y} : m <= z
  BY <1>2
<1>5. pair \in {x, y}
  BY <1>3, <1>4 DEF N!Min, LesserOf
<1> QED
  BY <1>1, <1>2, <1>5 DEF N!Legs

\* What is left of a row when its volumes are paired off still counts the purchase.
LEMMA PairingKeeps ==
  ASSUME NEW b, NEW a, NEW r, Counts(b, a, r), NEW pair \in Int, \E l \in N!Legs : pair = r.volume[l],
         NEW q, q = [r EXCEPT !.volume = [l \in N!Legs |-> @[l] - pair], !.matched = @ + pair]
  PROVE  Counts(b, a, q) /\ PairedOff(q)
<1>1. /\ r = [volume |-> r.volume, total |-> r.total, matched |-> r.matched]
      /\ r.volume \in [N!Legs -> Int] /\ r.total \in [N!Legs -> Int] /\ r.matched \in Int
  BY DEF Counts, LegRow
<1>2. /\ q = [volume |-> q.volume, total |-> q.total, matched |-> q.matched]
      /\ q.volume = [l \in N!Legs |-> r.volume[l] - pair] /\ q.total = r.total
      /\ q.matched = r.matched + pair
  BY <1>1
<1>3. q.volume \in [N!Legs -> Int] /\ q.total \in [N!Legs -> Int] /\ q.matched \in Int
  BY <1>1, <1>2
<1>4. q \in LegRow
  BY <1>2, <1>3, Zenon DEF LegRow
<1>5. Carried(q)
  <2>1. \A l \in N!Legs : r.volume[l] = r.total[l] - r.matched /\ r.volume[l] \in Int /\ r.total[l] \in Int
    BY <1>1 DEF Counts, Carried
  <2>2. \A l \in N!Legs : q.volume[l] = r.volume[l] - pair
    BY <1>2
  <2> QED
    BY <1>1, <1>2, <2>1, <2>2 DEF Carried
<1>6. PairedOff(q)
  <2>1. PICK l \in N!Legs : pair = r.volume[l]
    OBVIOUS
  <2>2. q.volume[l] = r.volume[l] - pair
    BY <1>2
  <2> QED
    BY <2>1, <2>2 DEF PairedOff
<1> QED
  BY <1>2, <1>4, <1>5, <1>6 DEF Counts

\* A row that this purchase has locked is paired off.
LEMMA MatchVolumes ==
  ASSUME PlacementIInv, VolumesIInv, NEW b \in Members, N!MatchLegs(b)
  PROVE  VolumesIInv'
<1>1. PICK ahead, mine, path, n, a :
        /\ ahead = purchase[b].todo /\ mine = purchase[b].mine /\ path = seat[b].path
        /\ n = Len(ahead) /\ a = Head(ahead)
  OBVIOUS
<1>2. PICK r, pair : r = N!Seen(b, a) /\ pair = LesserOf(r)
  OBVIOUS
<1>3. PICK q : q = [r EXCEPT !.volume = [l \in N!Legs |-> @[l] - pair], !.matched = @ + pair]
  BY Zenon
<1>4. PICK rows : rows = IF pair = 0 THEN mine ELSE N!Put(mine, a, q)
  OBVIOUS
<1>5. PICK v : v = [pc |-> "matching", todo |-> Tail(ahead), mine |-> rows]
  BY Zenon
<1>6. /\ purchase[b].pc = "matching" /\ ahead # <<>>
      /\ purchase' = [purchase EXCEPT ![b] = v]
      /\ UNCHANGED <<tree, seat, search, invested, legs>>
  BY <1>1, <1>2, <1>3, <1>4, <1>5, Zenon DEF N!MatchLegs, N!At, N!Goto, N!tree, LesserOf
<1>7. purchase[b] # N!NoPurchase
  BY <1>6 DEF N!NoPurchase
<1>8. Climbs(b, purchase[b])
  BY <1>7 DEF VolumesIInv, PurchasesClimb
<1>9. b \in DOMAIN seat /\ Ancestry(b, path)
  BY <1>1, <1>8, AncestryOf DEF Climbs, PlacementIInv
<1>10. NextUp(b, ahead, path, n)
  BY <1>1, <1>6, <1>7, <1>9, NextUpOf DEF PlacementIInv
<1>11. a = path[n] /\ a \in Members /\ n \in 1..Len(path) /\ Len(path) \in Nat
  BY <1>1, <1>9, <1>10 DEF NextUp, Ancestry
<1>12. /\ DOMAIN mine = {path[i] : i \in 1..Len(path)} /\ \A c \in DOMAIN mine : Counts(b, c, mine[c])
       /\ \A i \in (n + 1)..Len(path) : PairedOff(mine[path[i]])
  BY <1>1, <1>6, <1>8 DEF Climbs
<1>13. a \in DOMAIN mine /\ r = mine[a]
  BY <1>1, <1>2, <1>11, <1>12, Zenon DEF N!Seen
<1>14. Counts(b, a, r) /\ pair \in Int /\ \E l \in N!Legs : pair = r.volume[l]
  <2>1. Counts(b, a, r) /\ r \in LegRow
    BY <1>12, <1>13 DEF Counts
  <2> QED
    BY <1>2, <2>1, LesserVolume
<1>15. Counts(b, a, q) /\ PairedOff(q)
  BY <1>3, <1>14, PairingKeeps, Zenon
<1>16. /\ DOMAIN rows = DOMAIN mine /\ Counts(b, a, rows[a]) /\ PairedOff(rows[a])
       /\ \A c \in DOMAIN mine \ {a} : rows[c] = mine[c]
  <2>1. CASE pair = 0
    BY <1>4, <1>13, <1>14, <2>1 DEF PairedOff
  <2>2. CASE pair # 0
    BY <1>4, <1>13, <1>15, <2>2 DEF N!Put
  <2> QED
    BY <2>1, <2>2
<1>17. v.pc = "matching" /\ v.todo = Tail(ahead) /\ v.mine = rows
  BY <1>5
<1>18. Climbs(b, v)
  <2>1. PICK k : k = Len(v.todo)
    OBVIOUS
  <2>2. /\ k = n - 1 /\ v.todo \in Seq(Members) /\ k <= Len(path)
        /\ \A i \in 1..k : v.todo[i] = path[k + 1 - i]
    <3>1. v.todo \in Seq(Members) /\ Len(v.todo) = n - 1 /\ \A i \in 1..(n - 1) : v.todo[i] = path[n - i]
      BY <1>10, <1>17 DEF NextUp
    <3>2. n - 1 <= Len(path) /\ \A i \in 1..(n - 1) : n - i = (n - 1) + 1 - i
      BY <1>11
    <3>3. \A i \in 1..(n - 1) : v.todo[i] = path[(n - 1) + 1 - i]
      BY <3>1, <3>2
    <3> QED
      BY <2>1, <3>1, <3>2, <3>3
  <2>3. \A c \in DOMAIN rows : Counts(b, c, rows[c])
    BY <1>12, <1>16
  <2>4. ASSUME NEW i \in (k + 1)..Len(path)
        PROVE  PairedOff(rows[path[i]])
    <3>1. i \in 1..Len(path) /\ (i = n \/ i \in (n + 1)..Len(path))
      BY <1>11, <2>2
    <3>2. path[i] \in DOMAIN mine
      BY <1>12, <3>1
    <3>3. CASE path[i] = a
      BY <1>16, <3>3
    <3>4. CASE path[i] # a
      BY <1>11, <1>12, <1>16, <3>1, <3>2, <3>4
    <3> QED
      BY <3>3, <3>4
  <2>5. DOMAIN rows = {path[i] : i \in 1..Len(path)} /\ \A i \in (k + 1)..Len(path) : PairedOff(rows[path[i]])
    BY <1>12, <1>16, <2>4
  <2> QED
    BY <1>1, <1>9, <1>17, <2>1, <2>2, <2>3, <2>5 DEF Climbs
<1>19. \A c \in Members \ {b} : DOMAIN v.mine \intersect DOMAIN purchase[c].mine = {}
  BY <1>1, <1>16, <1>17 DEF VolumesIInv, RowsAreLocked
<1> QED
  BY <1>6, <1>18, <1>19, PurchaseMoves

\* A purchase that fails has written nothing.
LEMMA FailVolumes ==
  ASSUME VolumesIInv, NEW b \in Members, N!Fail(b)
  PROVE  VolumesIInv'
<1>1. /\ purchase' = [purchase EXCEPT ![b] = N!NoPurchase]
      /\ UNCHANGED <<tree, seat, search, invested, legs>>
  BY DEF N!Fail, N!tree
<1>2. DOMAIN N!NoPurchase.mine = {}
  BY DEF N!NoPurchase
<1>3. PICK v : v = N!NoPurchase
  OBVIOUS
<1> QED
  BY <1>1, <1>2, <1>3, PurchaseMoves

\* What a purchase has written becomes everybody's, with what was invested.
LEMMA CommitVolumes ==
  ASSUME PlacementIInv, VolumesIInv, NEW b \in Members, N!Commit(b)
  PROVE  VolumesIInv'
<1>1. PICK mine, path, price : mine = purchase[b].mine /\ path = seat[b].path /\ price = tree.price[b]
  OBVIOUS
<1>2. /\ purchase[b].pc = "matching" /\ purchase[b].todo = <<>>
      /\ purchase' = [purchase EXCEPT ![b] = N!NoPurchase]
      /\ invested' = [invested EXCEPT ![b] = @ + price]
      /\ legs' = [a \in Members |-> N!Seen(b, a)]
      /\ UNCHANGED <<tree, seat, search>>
  BY <1>1, Zenon DEF N!Commit, N!tree
<1>3. Climbs(b, purchase[b])
  BY <1>2 DEF N!NoPurchase, VolumesIInv, PurchasesClimb
<1>4. b \in DOMAIN seat /\ Ancestry(b, path)
  BY <1>1, <1>3, AncestryOf DEF Climbs, PlacementIInv
<1>5. /\ DOMAIN mine = {path[i] : i \in 1..Len(path)}
      /\ \A a \in DOMAIN mine : Counts(b, a, mine[a]) /\ PairedOff(mine[a])
  <2>1. Len(purchase[b].todo) = 0 /\ 0 + 1 = 1
    BY <1>2
  <2> QED
    BY <1>1, <1>2, <1>3, <2>1 DEF Climbs
<1>6. price \in Nat /\ DOMAIN seat \subseteq Members
  BY <1>1, TreesAssumption DEF PlacementIInv, PlacementTypes
<1>7. \A a \in Members : legs'[a] = IF a \in DOMAIN mine THEN mine[a] ELSE legs[a]
  BY <1>1, <1>2 DEF N!Seen
<1>8. \A a \in Members : legs[a] \in LegRow /\ Carried(legs[a]) /\ PairedOff(legs[a])
  BY DEF VolumesIInv, VolumeTypes, LegsAreCounted
<1>9. \A a \in Members : legs'[a] \in LegRow /\ Carried(legs'[a]) /\ PairedOff(legs'[a])
  BY <1>5, <1>7, <1>8 DEF Counts
<1>10. /\ invested \in [Members -> Nat] /\ invested' \in [Members -> Nat] /\ invested'[b] = invested[b] + price
       /\ \A c \in Members \ {b} : invested'[c] = invested[c]
  BY <1>2, <1>6 DEF VolumesIInv, VolumeTypes
<1>11. VolumeTypes'
  <2>1. legs' \in [Members -> LegRow]
    BY <1>2, <1>9
  <2>2. \A m \in Members \ DOMAIN seat : invested'[m] = 0
    BY <1>4, <1>10 DEF VolumesIInv, VolumeTypes
  <2>3. DOMAIN purchase' = Members
    BY <1>2 DEF VolumesIInv, VolumeTypes
  <2> QED
    BY <1>2, <1>10, <2>1, <2>2, <2>3 DEF VolumeTypes
<1>12. LinesAreKept'
  BY <1>2 DEF VolumesIInv, LinesAreKept
<1>13. /\ \A c \in Members \ {b} : purchase'[c] = purchase[c]
       /\ purchase'[b] = N!NoPurchase /\ DOMAIN N!NoPurchase.mine = {}
  BY <1>2 DEF VolumesIInv, VolumeTypes, N!NoPurchase
<1>14. RowsAreLocked'
  <2>1. \A c \in Members : DOMAIN purchase'[c].mine \subseteq DOMAIN purchase[c].mine
    BY <1>13
  <2> QED
    BY <2>1 DEF VolumesIInv, RowsAreLocked
<1>15. PurchasesClimb'
  <2> SUFFICES ASSUME NEW c \in Members, purchase'[c] # N!NoPurchase
               PROVE  Climbs(c, purchase[c])'
    BY DEF PurchasesClimb
  <2>1. PICK p : p = purchase'[c]
    OBVIOUS
  <2>2. c # b /\ p = purchase[c] /\ Climbs(c, p)
    BY <1>13, <2>1 DEF VolumesIInv, PurchasesClimb
  <2>3. c \in DOMAIN seat
    BY <2>2 DEF Climbs
  <2>4. DOMAIN p.mine \subseteq Members
    <3>1. Ancestry(c, seat[c].path)
      BY <2>3, AncestryOf DEF PlacementIInv
    <3>2. Len(p.todo) \in Nat
      BY <2>2 DEF Climbs
    <3>3. DOMAIN p.mine \subseteq {seat[c].path[i] : i \in 1..Len(seat[c].path)}
      BY <2>2, <3>2 DEF Climbs
    <3> QED
      BY <3>1, <3>3 DEF Ancestry
  <2>5. DOMAIN p.mine \intersect DOMAIN mine = {}
    BY <1>1, <2>2 DEF VolumesIInv, RowsAreLocked
  <2>6. \A a \in DOMAIN p.mine : LegOf(c, a)' = LegOf(c, a) /\ legs'[a] = legs[a]
    BY <1>2, <1>7, <2>4, <2>5 DEF LegOf
  <2>7. Climbs(c, p)'
    BY <1>2, <2>2, <2>3, <2>6, ClimbStays
  <2> QED
    BY <2>1, <2>7
<1>16. LegsAreCounted'
  <2>0. \A a \in Members, l \in N!Legs : N!InLeg(a, l)' = N!InLeg(a, l)
    BY <1>2 DEF N!InLeg, N!Joined
  <2> SUFFICES ASSUME NEW a \in Members, NEW l \in N!Legs
               PROVE  legs'[a].total[l] = SumOver(invested', N!InLeg(a, l))
    BY <1>9, <2>0 DEF LegsAreCounted
  <2>1. PICK T : T = N!InLeg(a, l)
    OBVIOUS
  <2>2. T \subseteq Members /\ IsFiniteSet(T)
    BY <1>6, <2>1, TreesAssumption, FS_Subset DEF N!InLeg, N!Joined
  <2>3. legs[a].total[l] = SumOver(invested, T) /\ legs[a].total[l] \in Int
    BY <1>8, <2>1 DEF VolumesIInv, LegsAreCounted, LegRow
  <2>4. b \in T <=> a \in DOMAIN mine /\ LegOf(b, a) = l
    BY <1>1, <1>4, <1>5, <2>1, LegMembers DEF VolumesIInv, PlacementIInv
  <2>5. legs'[a].total[l] = legs[a].total[l] + (IF b \in T THEN price ELSE 0)
    <3>1. CASE a \in DOMAIN mine
      BY <1>1, <1>5, <1>7, <2>4, <3>1 DEF Counts
    <3>2. CASE a \notin DOMAIN mine
      BY <1>7, <2>3, <2>4, <3>2
    <3> QED
      BY <3>1, <3>2
  <2>6. \A x \in T : invested[x] \in Int /\ invested'[x] \in Int
    BY <1>10, <2>2
  <2>7. CASE b \in T
    <3>1. PICK f, e : f = invested /\ e = invested'
      OBVIOUS
    <3>2. e[b] = f[b] + price /\ price \in Int /\ \A x \in T : f[x] \in Int /\ e[x] \in Int /\ (x # b => e[x] = f[x])
      BY <1>6, <1>10, <2>2, <2>6, <3>1
    <3>3. SumOver(e, T) = SumOver(f, T) + price
      BY <2>2, <2>7, <3>2, SumChange
    <3> QED
      BY <2>1, <2>3, <2>5, <2>7, <3>1, <3>3
  <2>8. CASE b \notin T
    <3>1. PICK f, e : f = invested /\ e = invested'
      OBVIOUS
    <3>2. \A x \in T : f[x] = e[x]
      BY <1>10, <2>2, <2>8, <3>1
    <3>3. SumOver(f, T) = SumOver(e, T)
      BY <2>2, <3>2, SumSame
    <3> QED
      BY <2>1, <2>3, <2>5, <2>8, <3>1, <3>3
  <2> QED
    BY <2>7, <2>8
<1> QED
  BY <1>11, <1>12, <1>14, <1>15, <1>16 DEF VolumesIInv

\* Every step of a purchase, a registration or a recalculation keeps the volumes.
LEMMA VolumesStep ==
  ASSUME PlacementIInv, VolumesIInv, N!Next
  PROVE  VolumesIInv'
<1>1. PICK m \in Members :
        \/ N!Register(m) \/ N!FindPlacement(m) \/ N!Place(m)
        \/ N!Begin(m) \/ N!AddVolume(m) \/ N!StartMatching(m) \/ N!MatchLegs(m) \/ N!Commit(m) \/ N!Fail(m)
        \/ N!StartRecount(m) \/ N!SumDirects(m) \/ N!Save(m)
        \/ \E d \in Members : N!SumLeg(m, d)
  BY DEF N!Next
<1>2. CASE N!Register(m) \/ N!FindPlacement(m) \/ N!Place(m)
  BY <1>2, RegisterVolumes, FindVolumes, PlaceVolumes
<1>3. CASE N!Begin(m) \/ N!AddVolume(m) \/ N!StartMatching(m)
  BY <1>3, BeginVolumes, AddVolumes, StartVolumes
<1>4. CASE N!MatchLegs(m) \/ N!Commit(m) \/ N!Fail(m)
  BY <1>4, MatchVolumes, CommitVolumes, FailVolumes
<1>5. CASE N!StartRecount(m) \/ N!SumDirects(m) \/ N!Save(m) \/ \E d \in Members : N!SumLeg(m, d)
  <2>1. UNCHANGED <<tree, seat, search, invested, purchase, legs>>
    BY <1>5 DEF N!StartRecount, N!SumDirects, N!Save, N!Saved, N!SumLeg, N!tree, N!binary
  <2> QED
    BY <2>1, VolumesStay
<1> QED
  BY <1>1, <1>2, <1>3, <1>4, <1>5

\* The rows that are committed are right whenever they are looked at.
LEMMA VolumesCounted ==
  ASSUME PlacementIInv, VolumesIInv
  PROVE  N!EveryVolumeIsCounted
<1> SUFFICES ASSUME NEW a \in Members, NEW l \in N!Legs
             PROVE  /\ legs[a].total[l] = N!Invested(N!InLeg(a, l))
                    /\ legs[a].volume[l] = legs[a].total[l] - legs[a].matched
                    /\ \E k \in N!Legs : legs[a].volume[k] = 0
  BY DEF N!EveryVolumeIsCounted
<1>1. N!Invested(N!InLeg(a, l)) = SumOver(invested, N!InLeg(a, l))
  BY InvestedIsSum
<1> QED
  BY <1>1 DEF VolumesIInv, LegsAreCounted, Carried, PairedOff

-----------------------------------------------------------------------------
(* Sponsors *)

\* Sets of members that have everybody's sponsor with them.
Upwards == {U \in SUBSET Members : \A x \in U : tree.sponsor[x] \in Members => tree.sponsor[x] \in U}

\* Those above, as the least of those sets with one's own sponsor.
Ancestors ==
  [m \in Members |-> IF tree.sponsor[m] = None THEN {}
                     ELSE {a \in Members : \A U \in Upwards : tree.sponsor[m] \in U => a \in U}]

\* What the recursive definition of those above says.
Climbed(f) ==
  f = [m \in Members |-> IF tree.sponsor[m] = None THEN {} ELSE {tree.sponsor[m]} \union f[tree.sponsor[m]]]

\* The least sets satisfy it.
LEMMA AncestorsClimb == tree \in TreeScenes => Climbed(Ancestors)
<1> SUFFICES ASSUME tree \in TreeScenes PROVE Climbed(Ancestors)
  OBVIOUS
<1>1. None \notin Members /\ \A m \in Members : tree.sponsor[m] \in Members \union {None}
  BY TreesAssumption
<1>2. \A m \in Members, a \in Members : tree.sponsor[m] # None =>
        (a \in Ancestors[m] <=> \A U \in Upwards : tree.sponsor[m] \in U => a \in U)
  BY DEF Ancestors
<1>3. \A m \in Members : Ancestors[m] \subseteq Members /\ (tree.sponsor[m] = None => Ancestors[m] = {})
  BY DEF Ancestors
<1>4. ASSUME NEW m \in Members, NEW s \in Members, tree.sponsor[m] = s
      PROVE  Ancestors[m] = {s} \union Ancestors[s]
  <2>1. {s} \union Ancestors[s] \in Upwards
    <3>1. {s} \union Ancestors[s] \subseteq Members
      BY <1>3
    <3>2. tree.sponsor[s] \in Members => tree.sponsor[s] \in Ancestors[s]
      BY <1>1, <1>2
    <3>3. ASSUME NEW x \in Ancestors[s], tree.sponsor[x] \in Members
          PROVE  tree.sponsor[x] \in Ancestors[s]
      <4>1. tree.sponsor[s] # None /\ x \in Members
        BY <1>3
      <4>2. \A U \in Upwards : tree.sponsor[s] \in U => x \in U
        BY <1>2, <4>1
      <4>3. \A U \in Upwards : tree.sponsor[s] \in U => tree.sponsor[x] \in U
        BY <3>3, <4>2 DEF Upwards
      <4> QED
        BY <1>2, <3>3, <4>1, <4>3
    <3> QED
      BY <3>1, <3>2, <3>3 DEF Upwards
  <2>2. Ancestors[m] \subseteq {s} \union Ancestors[s]
    BY <1>1, <1>2, <1>3, <1>4, <2>1
  <2>3. s \in Ancestors[m]
    BY <1>1, <1>2, <1>4
  <2>4. ASSUME NEW a \in Ancestors[s]
        PROVE  a \in Ancestors[m]
    <3>1. tree.sponsor[s] # None /\ tree.sponsor[s] \in Members /\ a \in Members /\ s # None
      BY <1>1, <1>3
    <3>2. \A U \in Upwards : s \in U => tree.sponsor[s] \in U
      BY <3>1 DEF Upwards
    <3>3. \A U \in Upwards : s \in U => a \in U
      BY <1>2, <3>1, <3>2
    <3> QED
      BY <1>2, <1>4, <3>1, <3>3
  <2> QED
    BY <2>2, <2>3, <2>4
<1>5. \A m \in Members : Ancestors[m] = IF tree.sponsor[m] = None THEN {} ELSE {tree.sponsor[m]} \union Ancestors[tree.sponsor[m]]
  BY <1>1, <1>3, <1>4
<1>6. Ancestors = [m \in Members |-> Ancestors[m]]
  BY DEF Ancestors
<1> QED
  BY <1>5, <1>6 DEF Climbed

\* So the recursive definition means what it says.
LEMMA SponsorsClimb == tree \in TreeScenes => Climbed(N!SponsorsOf)
<1> SUFFICES ASSUME tree \in TreeScenes PROVE Climbed(N!SponsorsOf)
  OBVIOUS
<1>1. N!SponsorsOf = CHOOSE f : Climbed(f)
  BY DEF N!SponsorsOf, Climbed
<1> QED
  BY <1>1, AncestorsClimb

\* Who is above whom: one's sponsor and those above; never oneself; whoever is
\* above one who is above; and those below a member are, each of them, one of
\* those the member introduced or below just one of them.
Kin ==
  /\ \A x \in Members :
       /\ N!SponsorsOf[x] \subseteq Members /\ x \notin N!SponsorsOf[x]
       /\ \A a \in Members : a \in N!SponsorsOf[x] <=>
            tree.sponsor[x] # None /\ (a = tree.sponsor[x] \/ a \in N!SponsorsOf[tree.sponsor[x]])
       /\ \A b \in N!SponsorsOf[x] : N!SponsorsOf[b] \subseteq N!SponsorsOf[x]
       /\ \A m \in N!SponsorsOf[x] :
            \E d \in Members : tree.sponsor[d] = m /\ (x = d \/ d \in N!SponsorsOf[x])
       /\ \A d, e \in {x} \union N!SponsorsOf[x] : tree.sponsor[d] = tree.sponsor[e] /\ tree.sponsor[d] # None => d = e
  /\ \A x \in Members : tree.sponsor[x] \in Members \union {None}

\* The recursive definition has a solution, and those below are those one is above.
LEMMA Kinship == tree \in TreeScenes => Kin
<1> SUFFICES ASSUME tree \in TreeScenes PROVE Kin
  OBVIOUS
<1>1. None \notin Members /\ \A m \in Members : tree.sponsor[m] \in Members \union {None}
  BY TreesAssumption
<1>2. \A Q \in SUBSET Members : Q # {} => \E m \in Q : tree.sponsor[m] \notin Q
  BY TreesAssumption
<1>3. PICK up : up = N!SponsorsOf
  OBVIOUS
<1>4. \A m \in Members : up[m] = IF tree.sponsor[m] = None THEN {} ELSE {tree.sponsor[m]} \union up[tree.sponsor[m]]
  BY <1>3, SponsorsClimb DEF Climbed
<1>5. \A x \in Members : up[x] \subseteq Members
  <2> DEFINE Bad == {x \in Members : ~(up[x] \subseteq Members)}
  <2>1. SUFFICES ASSUME Bad # {} PROVE FALSE
    OBVIOUS
  <2>2. PICK x \in Bad : tree.sponsor[x] \notin Bad
    BY <1>2, <2>1
  <2>3. CASE tree.sponsor[x] = None
    BY <1>4, <2>2, <2>3
  <2>4. CASE tree.sponsor[x] \in Members
    BY <1>1, <1>4, <2>2, <2>4
  <2> QED
    BY <1>1, <2>2, <2>3, <2>4
<1>6. \A x \in Members, a \in Members : a \in up[x] <=>
        tree.sponsor[x] # None /\ (a = tree.sponsor[x] \/ a \in up[tree.sponsor[x]])
  BY <1>4
<1>7. \A x \in Members : \A b \in up[x] : up[b] \subseteq up[x]
  <2> DEFINE Bad == {x \in Members : \E b \in up[x] : ~(up[b] \subseteq up[x])}
  <2>1. SUFFICES ASSUME Bad # {} PROVE FALSE
    OBVIOUS
  <2>2. PICK x \in Bad : tree.sponsor[x] \notin Bad
    BY <1>2, <2>1
  <2>0. PICK b \in up[x] : ~(up[b] \subseteq up[x])
    BY <2>2
  <2>3. PICK a \in up[b] : a \notin up[x]
    BY <2>0
  <2>4. PICK s : s = tree.sponsor[x]
    OBVIOUS
  <2>5. x \in Members /\ s \in Members /\ up[x] = {s} \union up[s]
    BY <1>1, <1>4, <2>2, <2>3, <2>4
  <2>6. b # s
    BY <2>3, <2>5
  <2>7. b \in up[s] /\ s \in Bad
    BY <2>3, <2>5, <2>6
  <2> QED
    BY <2>2, <2>4, <2>7
<1>8. \A x \in Members : x \notin up[x]
  <2> DEFINE Bad == {x \in Members : x \in up[x]}
  <2>1. SUFFICES ASSUME Bad # {} PROVE FALSE
    OBVIOUS
  <2>2. PICK x \in Bad : tree.sponsor[x] \notin Bad
    BY <1>2, <2>1
  <2>3. PICK s : s = tree.sponsor[x]
    OBVIOUS
  <2>4. x \in Members /\ s \in Members /\ up[x] = {s} \union up[s] /\ x \in up[x]
    BY <1>1, <1>4, <2>2, <2>3
  <2>5. x # s /\ x \in up[s]
    BY <2>2, <2>3, <2>4
  <2>6. s \in up[s]
    BY <1>7, <2>4, <2>5
  <2> QED
    BY <2>2, <2>3, <2>4, <2>6
<1>9. \A x \in Members : \A m \in up[x] : \E d \in Members : tree.sponsor[d] = m /\ (x = d \/ d \in up[x])
  <2> DEFINE Bad == {x \in Members : \E m \in up[x] : ~\E d \in Members : tree.sponsor[d] = m /\ (x = d \/ d \in up[x])}
  <2>1. SUFFICES ASSUME Bad # {} PROVE FALSE
    OBVIOUS
  <2>2. PICK x \in Bad : tree.sponsor[x] \notin Bad
    BY <1>2, <2>1
  <2>3. PICK m \in up[x] : ~\E d \in Members : tree.sponsor[d] = m /\ (x = d \/ d \in up[x])
    BY <2>2
  <2>4. PICK s : s = tree.sponsor[x]
    OBVIOUS
  <2>5. x \in Members /\ s \in Members /\ up[x] = {s} \union up[s]
    BY <1>1, <1>4, <2>2, <2>3, <2>4
  <2>6. m # s /\ m \in up[s]
    BY <2>3, <2>4, <2>5
  <2>7. PICK d \in Members : tree.sponsor[d] = m /\ (s = d \/ d \in up[s])
    BY <2>2, <2>4, <2>5, <2>6
  <2> QED
    BY <2>3, <2>5, <2>7
<1>10. \A x \in Members : \A d, e \in {x} \union up[x] :
         tree.sponsor[d] = tree.sponsor[e] /\ tree.sponsor[d] # None => d = e
  <2> DEFINE Bad == {x \in Members : \E d, e \in {x} \union up[x] :
                       tree.sponsor[d] = tree.sponsor[e] /\ tree.sponsor[d] # None /\ d # e}
  <2>1. SUFFICES ASSUME Bad # {} PROVE FALSE
    OBVIOUS
  <2>2. PICK x \in Bad : tree.sponsor[x] \notin Bad
    BY <1>2, <2>1
  <2>3. PICK d \in {x} \union up[x], e \in {x} \union up[x] :
          tree.sponsor[d] = tree.sponsor[e] /\ tree.sponsor[d] # None /\ d # e
    BY <2>2
  <2>4. PICK s : s = tree.sponsor[x]
    OBVIOUS
  <2>5. x \in Members /\ s \in Members /\ up[x] = {s} \union up[s]
    BY <1>1, <1>4, <2>2, <2>3, <2>4
  <2>6. ASSUME NEW c \in up[x], tree.sponsor[c] = s
        PROVE  FALSE
    <3>1. c \in Members /\ s \in up[c]
      BY <1>4, <1>5, <2>5, <2>6, <1>1
    <3>2. c \in {s} \union up[s]
      BY <2>5
    <3>3. c # s
      BY <1>8, <3>1
    <3>4. s \in up[s]
      BY <1>7, <2>5, <3>1, <3>2, <3>3
    <3> QED
      BY <1>8, <2>5, <3>4
  <2>7. d \in up[x] /\ e \in up[x]
    BY <2>3, <2>4, <2>6
  <2>8. d \in {s} \union up[s] /\ e \in {s} \union up[s]
    BY <2>5, <2>7
  <2>9. s \in Bad
    BY <2>3, <2>5, <2>8
  <2> QED
    BY <2>2, <2>4, <2>9
<1> QED
  BY <1>1, <1>3, <1>5, <1>6, <1>7, <1>8, <1>9, <1>10 DEF Kin

-----------------------------------------------------------------------------
(* Team volumes *)

Below(d) == N!Downline(d) \union {d}

\* What is invested below each of those m introduced, and by themselves.
Real(m) == [d \in N!Under(m) |-> SumOver(invested, Below(d))]

TeamBase == tree \in TreeScenes /\ DOMAIN seat \subseteq Members /\ invested \in [Members -> Nat]

\* Nobody joins before the one by whom they were introduced.
SponsorsSeated == \A c \in DOMAIN seat \union DOMAIN search : tree.sponsor[c] \in DOMAIN seat \union {None}

VolumesRow == [total : Nat, power : Nat, others : Int, direct : Nat]

TeamTypes ==
  /\ volumes \in [Members -> VolumesRow]
  /\ \A m \in DOMAIN recount : LET c == recount[m] IN
       /\ c = [todo |-> c.todo, leg |-> c.leg, direct |-> c.direct, overtaken |-> c.overtaken]
       /\ c.overtaken \in BOOLEAN
       /\ DOMAIN c.leg \subseteq N!Under(m) /\ c.todo \subseteq DOMAIN c.leg
       /\ \A d \in DOMAIN c.leg : c.leg[d] \in Nat
       /\ c.direct # None => c.todo = {} /\ c.direct \in Nat
  /\ DOMAIN recount \subseteq Members

\* A row that no purchase overtook has what there is,
TotalsKept ==
  \A m \in Members \ stale :
    /\ volumes[m].total = SumOver(invested, N!Downline(m))
    /\ volumes[m].direct = SumOver(invested, N!Under(m))

\* and no row has more.
BusinessKept ==
  \A m \in Members :
    /\ volumes[m].total <= SumOver(invested, N!Downline(m))
    /\ volumes[m].direct <= SumOver(invested, N!Under(m))
    /\ volumes[m].power <= Greatest(Real(m), N!Under(m))
    /\ volumes[m].others <= SumOver(Real(m), N!Under(m)) - Greatest(Real(m), N!Under(m))

\* What a recalculation has read of a direct: what it invested, or, when its
\* downline was summed, that too.
Read(c, d) == IF d \in c.todo THEN invested[d] ELSE SumOver(invested, Below(d))

\* A recalculation has read no more than there is now, and, while no purchase
\* overtakes it, no less.
RecountsRead ==
  \A m \in DOMAIN recount : LET c == recount[m] IN
    /\ \A d \in DOMAIN c.leg : c.leg[d] <= Read(c, d)
    /\ c.direct # None => c.direct <= SumOver(invested, N!Under(m))
    /\ ~c.overtaken =>
         /\ \A d \in DOMAIN c.leg : c.leg[d] = Read(c, d)
         /\ \A d \in N!Under(m) \ DOMAIN c.leg : SumOver(invested, Below(d)) = 0
         /\ c.direct # None => c.direct = SumOver(invested, N!Under(m))

TeamIInv == SponsorsSeated /\ TeamTypes /\ TotalsKept /\ BusinessKept /\ RecountsRead

-----------------------------------------------------------------------------
(* Team volumes: sums over downlines *)

\* What a function adds up to is its sum over its domain.
LEMMA FunctionIsSum ==
  ASSUME NEW f
  PROVE  N!SumFunction(f) = SumOver(f, DOMAIN f)
BY DEF N!SumFunction, N!SumFunctionOnSet, N!FoldFunction, N!FoldFunctionOnSet, N!MapThenFoldSet, SumOver, Sums, Pick

\* Who is below whom has joined.
LEMMA FamilySets ==
  TeamBase => \A m \in Members :
    /\ N!Under(m) \subseteq Members /\ N!Downline(m) \subseteq Members /\ Below(m) \subseteq Members
    /\ IsFiniteSet(N!Under(m)) /\ IsFiniteSet(N!Downline(m)) /\ IsFiniteSet(Below(m))
    /\ m \notin N!Downline(m)
    /\ DOMAIN Real(m) = N!Under(m) /\ \A d \in N!Under(m) : Real(m)[d] = SumOver(invested, Below(d))
<1> SUFFICES ASSUME TeamBase, NEW m \in Members
             PROVE  /\ N!Under(m) \subseteq Members /\ N!Downline(m) \subseteq Members /\ Below(m) \subseteq Members
                    /\ IsFiniteSet(N!Under(m)) /\ IsFiniteSet(N!Downline(m)) /\ IsFiniteSet(Below(m))
                    /\ m \notin N!Downline(m)
                    /\ DOMAIN Real(m) = N!Under(m) /\ \A d \in N!Under(m) : Real(m)[d] = SumOver(invested, Below(d))
  OBVIOUS
<1>1. N!Under(m) \subseteq Members /\ N!Downline(m) \subseteq Members /\ Below(m) \subseteq Members
  BY DEF TeamBase, N!Under, N!Downline, N!Joined, Below
<1>2. IsFiniteSet(N!Under(m)) /\ IsFiniteSet(N!Downline(m)) /\ IsFiniteSet(Below(m))
  BY <1>1, TreesAssumption, FS_Subset
<1>3. m \notin N!Downline(m)
  BY Kinship DEF TeamBase, Kin, N!Downline
<1>4. DOMAIN Real(m) = N!Under(m) /\ \A d \in N!Under(m) : Real(m)[d] = SumOver(invested, Below(d))
  BY DEF Real
<1> QED
  BY <1>1, <1>2, <1>3, <1>4

\* What is invested is never negative.
LEMMA FamilySums ==
  TeamBase => \A m \in Members :
    /\ SumOver(invested, N!Under(m)) \in Nat /\ SumOver(invested, N!Downline(m)) \in Nat
    /\ SumOver(invested, Below(m)) \in Nat /\ invested[m] \in Nat
    /\ SumOver(invested, Below(m)) = invested[m] + SumOver(invested, N!Downline(m))
<1> SUFFICES ASSUME TeamBase, NEW m \in Members
             PROVE  /\ SumOver(invested, N!Under(m)) \in Nat /\ SumOver(invested, N!Downline(m)) \in Nat
                    /\ SumOver(invested, Below(m)) \in Nat /\ invested[m] \in Nat
                    /\ SumOver(invested, Below(m)) = invested[m] + SumOver(invested, N!Downline(m))
  OBVIOUS
<1>1. \A x \in Members : invested[x] \in Nat /\ invested[x] \in Int
  BY DEF TeamBase
<1>2. ASSUME NEW T \in SUBSET Members
      PROVE  SumOver(invested, T) \in Nat
  <2>1. IsFiniteSet(T) /\ \A x \in T : invested[x] \in Nat
    BY <1>1, TreesAssumption, FS_Subset
  <2> QED
    BY <2>1, SumNatural
<1>3. SumOver(invested, Below(m)) = invested[m] + SumOver(invested, N!Downline(m))
  <2>1. PICK T : T = Below(m)
    OBVIOUS
  <2>2. IsFiniteSet(T) /\ m \in T /\ T \subseteq Members /\ T \ {m} = N!Downline(m)
    BY <2>1, FamilySets DEF Below
  <2>3. SumOver(invested, T) = invested[m] + SumOver(invested, T \ {m})
    BY <1>1, <2>2, SumAdds
  <2> QED
    BY <2>1, <2>2, <2>3
<1> QED
  BY <1>1, <1>2, <1>3, FamilySets

\* Those above a member who has joined have joined.
LEMMA SponsorsJoined ==
  TeamBase /\ SponsorsSeated => \A x \in DOMAIN seat : N!SponsorsOf[x] \subseteq DOMAIN seat
<1> SUFFICES ASSUME TeamBase, SponsorsSeated
             PROVE  \A x \in DOMAIN seat : N!SponsorsOf[x] \subseteq DOMAIN seat
  OBVIOUS
<1>0. Kin /\ None \notin Members /\ DOMAIN seat \subseteq Members
  BY Kinship, TreesAssumption DEF TeamBase
<1> DEFINE Bad == {x \in DOMAIN seat : ~(N!SponsorsOf[x] \subseteq DOMAIN seat)}
<1>1. SUFFICES ASSUME Bad # {} PROVE FALSE
  OBVIOUS
<1>2. PICK x \in Bad : tree.sponsor[x] \notin Bad
  BY <1>0, <1>1, TreesAssumption DEF TeamBase
<1>3. PICK a \in N!SponsorsOf[x] : a \notin DOMAIN seat
  BY <1>2
<1>4. PICK s : s = tree.sponsor[x]
  OBVIOUS
<1>5. a \in Members /\ s # None /\ (a = s \/ a \in N!SponsorsOf[s])
  BY <1>0, <1>2, <1>3, <1>4 DEF Kin
<1>6. s \in DOMAIN seat
  BY <1>2, <1>4, <1>5 DEF SponsorsSeated
<1> QED
  BY <1>2, <1>3, <1>4, <1>5, <1>6

\* A downline is made of the directs, each with their own.
LEMMA DownlineSplits ==
  TeamBase /\ SponsorsSeated =>
    \A m \in Members : SumOver(invested, N!Downline(m)) = SumOver(Real(m), N!Under(m))
<1> SUFFICES ASSUME TeamBase, SponsorsSeated, NEW m \in Members
             PROVE  SumOver(invested, N!Downline(m)) = SumOver(Real(m), N!Under(m))
  OBVIOUS
<1>0. Kin /\ None \notin Members /\ DOMAIN seat \subseteq Members
  BY Kinship, TreesAssumption DEF TeamBase
<1>1. PICK Q, L, h : Q = N!Under(m) /\ L = [d \in Q |-> Below(d)] /\ h = Real(m)
  OBVIOUS
<1>2. /\ Q \subseteq DOMAIN seat /\ (\A d \in Q : tree.sponsor[d] = m)
      /\ \A d \in DOMAIN seat : tree.sponsor[d] = m => d \in Q
  BY <1>1 DEF N!Under, N!Joined
<1>3. \A d \in Q : \A x : x \in L[d] <=> x = d \/ (x \in DOMAIN seat /\ d \in N!SponsorsOf[x])
  BY <1>1 DEF Below, N!Downline, N!Joined
<1>4. \A d \in Q : L[d] \subseteq Members
  BY <1>0, <1>2, <1>3
<1>5. ASSUME NEW d \in Q, NEW e \in Q, NEW x, x \in L[d], x \in L[e]
      PROVE  d = e
  <2>1. x \in Members /\ d \in {x} \union N!SponsorsOf[x] /\ e \in {x} \union N!SponsorsOf[x]
    BY <1>3, <1>4, <1>5
  <2>2. tree.sponsor[d] = m /\ tree.sponsor[e] = m /\ m # None
    BY <1>0, <1>2
  <2> QED
    BY <1>0, <2>1, <2>2 DEF Kin
<1>6. UNION {L[d] : d \in Q} = N!Downline(m)
  <2>1. ASSUME NEW d \in Q, NEW x \in L[d]
        PROVE  x \in N!Downline(m)
    <3>1. d \in Members /\ d \in DOMAIN seat /\ m \in N!SponsorsOf[d]
      BY <1>0, <1>2 DEF Kin
    <3>2. CASE x = d
      BY <3>1, <3>2 DEF N!Downline, N!Joined
    <3>3. CASE x \in DOMAIN seat /\ d \in N!SponsorsOf[x]
      <4>1. N!SponsorsOf[d] \subseteq N!SponsorsOf[x]
        BY <1>0, <3>3 DEF Kin
      <4> QED
        BY <3>1, <3>3, <4>1 DEF N!Downline, N!Joined
    <3> QED
      BY <1>3, <2>1, <3>2, <3>3
  <2>2. ASSUME NEW x \in N!Downline(m)
        PROVE  \E d \in Q : x \in L[d]
    <3>1. x \in DOMAIN seat /\ x \in Members /\ m \in N!SponsorsOf[x]
      BY <1>0 DEF N!Downline, N!Joined
    <3>2. PICK d \in Members : tree.sponsor[d] = m /\ (x = d \/ d \in N!SponsorsOf[x])
      BY <1>0, <3>1 DEF Kin
    <3>3. d \in DOMAIN seat
      BY <3>1, <3>2, SponsorsJoined
    <3>4. d \in Q
      BY <1>2, <3>2, <3>3
    <3>5. x \in L[d]
      BY <1>3, <3>1, <3>2, <3>4
    <3> QED
      BY <3>4, <3>5
  <2> QED
    BY <2>1, <2>2
<1>7. IsFiniteSet(Members) /\ IsFiniteSet(Q) /\ \A x \in Members : invested[x] \in Int
  BY <1>1, TreesAssumption, FamilySets DEF TeamBase
<1>8. \A d \in Q : h[d] = SumOver(invested, L[d])
  BY <1>1, FamilySets
<1>9. \A d, e \in Q : d # e => L[d] \intersect L[e] = {}
  BY <1>5
<1>10. PICK f : f = invested
  OBVIOUS
<1>11. SumOver(h, Q) = SumOver(f, UNION {L[d] : d \in Q})
  BY <1>4, <1>7, <1>8, <1>9, <1>10, SumOfParts
<1> QED
  BY <1>1, <1>6, <1>10, <1>11

-----------------------------------------------------------------------------
(* Team volumes: registrations and purchases *)

\* Nobody's sponsors change.
LEMMA SponsorsStay == UNCHANGED tree => N!SponsorsOf' = N!SponsorsOf
BY DEF N!SponsorsOf

\* Of these, in the next state.
LEMMA NextFamilySets ==
  TeamBase' => (\A m \in Members :
    /\ N!Under(m) \subseteq Members /\ N!Downline(m) \subseteq Members /\ Below(m) \subseteq Members
    /\ IsFiniteSet(N!Under(m)) /\ IsFiniteSet(N!Downline(m)) /\ IsFiniteSet(Below(m))
    /\ m \notin N!Downline(m)
    /\ DOMAIN Real(m) = N!Under(m) /\ \A d \in N!Under(m) : Real(m)[d] = SumOver(invested, Below(d)))'
BY FamilySets, PTL

\* The sums over families, in the next state.
LEMMA NextFamilySums ==
  TeamBase' => (\A m \in Members :
    /\ SumOver(invested, N!Under(m)) \in Nat /\ SumOver(invested, N!Downline(m)) \in Nat
    /\ SumOver(invested, Below(m)) \in Nat /\ invested[m] \in Nat
    /\ SumOver(invested, Below(m)) = invested[m] + SumOver(invested, N!Downline(m)))'
BY FamilySums, PTL

\* A step that takes away nothing of what is invested below m.
NoLess(m) ==
  /\ N!Under(m) \subseteq N!Under(m)' /\ N!Downline(m) \subseteq N!Downline(m)' /\ Below(m) \subseteq Below(m)'
  /\ invested[m] <= invested'[m]
  /\ SumOver(invested, N!Under(m)) <= SumOver(invested, N!Under(m))'
  /\ SumOver(invested, Below(m)) <= SumOver(invested, Below(m))'
  /\ Greatest(Real(m), N!Under(m)) <= Greatest(Real(m), N!Under(m))'
  /\ SumOver(Real(m), N!Under(m)) - Greatest(Real(m), N!Under(m))
       <= SumOver(Real(m), N!Under(m))' - Greatest(Real(m), N!Under(m))'
  /\ SumOver(Real(m), N!Under(m)) \in Nat /\ SumOver(Real(m), N!Under(m))' \in Nat
  /\ Greatest(Real(m), N!Under(m)) \in Nat /\ Greatest(Real(m), N!Under(m))' \in Nat

\* Where each member has no less invested, no family has less.
LEMMA NothingIsLess ==
  ASSUME TeamBase, TeamBase', UNCHANGED tree, DOMAIN seat \subseteq DOMAIN seat',
         \A x \in Members : invested[x] <= invested'[x]
  PROVE  \A m \in Members : NoLess(m)
<1>1. N!SponsorsOf' = N!SponsorsOf
  BY SponsorsStay
<1>2. \A m \in Members : /\ N!Under(m) \subseteq N!Under(m)' /\ N!Downline(m) \subseteq N!Downline(m)'
                         /\ Below(m) \subseteq Below(m)'
  BY <1>1 DEF N!Under, N!Downline, N!Joined, Below
<1>3. PICK f, e : f = invested /\ e = invested'
  OBVIOUS
<1>4. \A x \in Members : f[x] \in Nat /\ e[x] \in Nat /\ f[x] <= e[x]
  BY <1>3 DEF TeamBase
<1>5. ASSUME NEW U \in SUBSET Members, NEW T \in SUBSET U
      PROVE  SumOver(f, T) <= SumOver(e, U)
  <2>1. IsFiniteSet(U) /\ (\A x \in T : f[x] \in Nat /\ f[x] <= e[x]) /\ \A x \in U : e[x] \in Nat
    BY <1>4, TreesAssumption, FS_Subset
  <2> QED
    BY <2>1, MoreIsMore
<1>6. ASSUME NEW m \in Members
      PROVE  /\ SumOver(invested, N!Under(m)) <= SumOver(invested, N!Under(m))'
             /\ SumOver(invested, Below(m)) <= SumOver(invested, Below(m))'
  <2>1. N!Under(m)' \subseteq Members /\ Below(m)' \subseteq Members
    BY NextFamilySets
  <2> QED
    BY <1>2, <1>3, <1>5, <2>1
<1>7. ASSUME NEW m \in Members
      PROVE  /\ Greatest(Real(m), N!Under(m)) <= Greatest(Real(m), N!Under(m))'
             /\ SumOver(Real(m), N!Under(m)) - Greatest(Real(m), N!Under(m))
                  <= SumOver(Real(m), N!Under(m))' - Greatest(Real(m), N!Under(m))'
             /\ SumOver(Real(m), N!Under(m)) \in Nat /\ SumOver(Real(m), N!Under(m))' \in Nat
             /\ Greatest(Real(m), N!Under(m)) \in Nat /\ Greatest(Real(m), N!Under(m))' \in Nat
  <2>1. PICK Q, R, h, k : Q = N!Under(m) /\ R = N!Under(m)' /\ h = Real(m) /\ k = Real(m)'
    OBVIOUS
  <2>2. Q \in SUBSET R /\ R \subseteq Members /\ IsFiniteSet(R) /\ Q \subseteq Members
    BY <1>2, <2>1, NextFamilySets
  <2>3. \A d \in Q : h[d] = SumOver(invested, Below(d)) /\ h[d] \in Nat
    BY <2>1, <2>2, FamilySets, FamilySums
  <2>4. \A d \in R : k[d] = SumOver(invested, Below(d))' /\ k[d] \in Nat
    BY <2>1, <2>2, NextFamilySets, NextFamilySums
  <2>5. \A d \in Q : h[d] <= k[d]
    BY <1>6, <2>2, <2>3, <2>4
  <2>6. /\ Greatest(h, Q) <= Greatest(k, R) /\ SumOver(h, Q) - Greatest(h, Q) <= SumOver(k, R) - Greatest(k, R)
        /\ SumOver(h, Q) \in Nat /\ SumOver(k, R) \in Nat /\ Greatest(h, Q) \in Nat /\ Greatest(k, R) \in Nat
    BY <2>2, <2>3, <2>4, <2>5, MoreIsMore
  <2> QED
    BY <2>1, <2>6
<1> QED
  BY <1>2, <1>6, <1>7 DEF NoLess

\* A step that adds nothing below m.
NoMore(m) ==
  /\ \A d \in N!Under(m) : SumOver(invested, Below(d))' = SumOver(invested, Below(d)) /\ invested'[d] = invested[d]
  /\ \A d \in N!Under(m)' \ N!Under(m) : SumOver(invested, Below(d))' = 0
  /\ SumOver(invested, N!Under(m))' = SumOver(invested, N!Under(m))

\* A row that grows by what its member's downline grows.
RowGrows(m) ==
  /\ volumes'[m] \in VolumesRow
  /\ volumes'[m].total = volumes[m].total + (SumOver(invested, N!Downline(m))' - SumOver(invested, N!Downline(m)))
  /\ volumes'[m].direct = volumes[m].direct + (SumOver(invested, N!Under(m))' - SumOver(invested, N!Under(m)))
  /\ volumes'[m].power = volumes[m].power /\ volumes'[m].others = volumes[m].others

\* A recalculation that is told when it is overtaken.
RecountTold(m) ==
  LET c == recount[m]
      e == recount'[m]
  IN /\ e = [todo |-> c.todo, leg |-> c.leg, direct |-> c.direct, overtaken |-> e.overtaken]
     /\ e.overtaken \in BOOLEAN /\ (~e.overtaken => ~c.overtaken /\ NoMore(m))

\* What is read and kept stays right when nothing is taken away, rows grow with
\* their downlines and recalculations are told.
LEMMA TeamMoves ==
  ASSUME TeamBase, TeamBase', TeamIInv, UNCHANGED <<tree, stale>>, DOMAIN seat \subseteq DOMAIN seat',
         \A x \in Members : invested[x] <= invested'[x], SponsorsSeated',
         DOMAIN volumes' = Members, volumes' = [m \in Members |-> volumes'[m]], \A m \in Members : RowGrows(m),
         DOMAIN recount' = DOMAIN recount, \A m \in DOMAIN recount : RecountTold(m)
  PROVE  TeamIInv'
<1> USE DEF TeamIInv
<1>1. \A m \in Members : NoLess(m)
  BY NothingIsLess
<1>2. DOMAIN recount \subseteq Members
  BY DEF TeamTypes
<1>3. TeamTypes'
  <2>1. volumes' \in [Members -> VolumesRow]
    BY DEF RowGrows
  <2>2. ASSUME NEW m \in DOMAIN recount
        PROVE  /\ recount'[m] = [todo |-> recount'[m].todo, leg |-> recount'[m].leg, direct |-> recount'[m].direct,
                                 overtaken |-> recount'[m].overtaken]
               /\ recount'[m].overtaken \in BOOLEAN
               /\ DOMAIN recount'[m].leg \subseteq N!Under(m)' /\ recount'[m].todo \subseteq DOMAIN recount'[m].leg
               /\ \A d \in DOMAIN recount'[m].leg : recount'[m].leg[d] \in Nat
               /\ recount'[m].direct # None => recount'[m].todo = {} /\ recount'[m].direct \in Nat
    <3>1. PICK c, e : c = recount[m] /\ e = recount'[m]
      OBVIOUS
    <3>2. /\ DOMAIN c.leg \subseteq N!Under(m) /\ c.todo \subseteq DOMAIN c.leg
          /\ \A d \in DOMAIN c.leg : c.leg[d] \in Nat
          /\ c.direct # None => c.todo = {} /\ c.direct \in Nat
      BY <3>1 DEF TeamTypes
    <3>3. /\ e = [todo |-> c.todo, leg |-> c.leg, direct |-> c.direct, overtaken |-> e.overtaken]
          /\ e.overtaken \in BOOLEAN
      BY <3>1 DEF RecountTold
    <3>4. N!Under(m) \subseteq N!Under(m)'
      BY <1>1, <1>2 DEF NoLess
    <3>5. e.todo = c.todo /\ e.leg = c.leg /\ e.direct = c.direct
      BY <3>3
    <3> QED
      BY <3>1, <3>2, <3>3, <3>4, <3>5
  <2> QED
    BY <1>2, <2>1, <2>2 DEF TeamTypes
<1>4. \A m \in Members : volumes[m] \in VolumesRow
  BY DEF TeamTypes
<1>5. TotalsKept'
  <2> SUFFICES ASSUME NEW m \in Members \ stale
               PROVE  /\ volumes'[m].total = SumOver(invested, N!Downline(m))'
                      /\ volumes'[m].direct = SumOver(invested, N!Under(m))'
    BY DEF TotalsKept
  <2>1. PICK x, y, u, w : /\ x = SumOver(invested, N!Downline(m)) /\ y = SumOver(invested, N!Downline(m))'
                          /\ u = SumOver(invested, N!Under(m)) /\ w = SumOver(invested, N!Under(m))'
    OBVIOUS
  <2>2. x \in Nat /\ y \in Nat /\ u \in Nat /\ w \in Nat
    BY <2>1, FamilySums, NextFamilySums
  <2>3. volumes[m].total = x /\ volumes[m].direct = u
    BY <2>1 DEF TotalsKept
  <2>4. volumes'[m].total = volumes[m].total + (y - x) /\ volumes'[m].direct = volumes[m].direct + (w - u)
    BY <2>1 DEF RowGrows
  <2> QED
    BY <2>1, <2>2, <2>3, <2>4
<1>6. BusinessKept'
  <2> SUFFICES ASSUME NEW m \in Members
               PROVE  /\ volumes'[m].total <= SumOver(invested, N!Downline(m))'
                      /\ volumes'[m].direct <= SumOver(invested, N!Under(m))'
                      /\ volumes'[m].power <= Greatest(Real(m), N!Under(m))'
                      /\ volumes'[m].others <= SumOver(Real(m), N!Under(m))' - Greatest(Real(m), N!Under(m))'
    BY DEF BusinessKept
  <2>1. PICK x, y, u, w : /\ x = SumOver(invested, N!Downline(m)) /\ y = SumOver(invested, N!Downline(m))'
                          /\ u = SumOver(invested, N!Under(m)) /\ w = SumOver(invested, N!Under(m))'
    OBVIOUS
  <2>2. x \in Nat /\ y \in Nat /\ u \in Nat /\ w \in Nat
    BY <2>1, FamilySums, NextFamilySums
  <2>3. PICK g, k, p, q : /\ g = Greatest(Real(m), N!Under(m)) /\ k = Greatest(Real(m), N!Under(m))'
                          /\ p = SumOver(Real(m), N!Under(m)) /\ q = SumOver(Real(m), N!Under(m))'
    OBVIOUS
  <2>4. g \in Nat /\ k \in Nat /\ p \in Nat /\ q \in Nat /\ g <= k /\ p - g <= q - k
    BY <1>1, <2>3 DEF NoLess
  <2>5. PICK r, s : r = volumes[m] /\ s = volumes'[m]
    OBVIOUS
  <2>6. r.total \in Nat /\ r.power \in Nat /\ r.others \in Int /\ r.direct \in Nat
    BY <1>4, <2>5 DEF VolumesRow
  <2>7. r.total <= x /\ r.direct <= u /\ r.power <= g /\ r.others <= p - g
    BY <2>1, <2>3, <2>5 DEF BusinessKept
  <2>8. s.total = r.total + (y - x) /\ s.direct = r.direct + (w - u) /\ s.power = r.power /\ s.others = r.others
    BY <2>1, <2>5 DEF RowGrows
  <2>9. s.total <= y /\ s.direct <= w /\ s.power <= k /\ s.others <= q - k
    BY <2>2, <2>4, <2>6, <2>7, <2>8
  <2> QED
    BY <2>1, <2>3, <2>5, <2>9
<1>7. RecountsRead'
  <2> SUFFICES ASSUME NEW m \in DOMAIN recount
               PROVE  /\ \A d \in DOMAIN recount'[m].leg : recount'[m].leg[d] <= Read(recount[m], d)'
                      /\ recount'[m].direct # None => recount'[m].direct <= SumOver(invested, N!Under(m))'
                      /\ ~recount'[m].overtaken =>
                           /\ \A d \in DOMAIN recount'[m].leg : recount'[m].leg[d] = Read(recount[m], d)'
                           /\ \A d \in N!Under(m)' \ DOMAIN recount'[m].leg : SumOver(invested, Below(d))' = 0
                           /\ recount'[m].direct # None => recount'[m].direct = SumOver(invested, N!Under(m))'
    BY DEF RecountsRead
  <2>1. PICK c, e : c = recount[m] /\ e = recount'[m]
    OBVIOUS
  <2>2. /\ \A d \in DOMAIN c.leg : c.leg[d] <= Read(c, d)
        /\ c.direct # None => c.direct <= SumOver(invested, N!Under(m))
        /\ ~c.overtaken =>
             /\ \A d \in DOMAIN c.leg : c.leg[d] = Read(c, d)
             /\ \A d \in N!Under(m) \ DOMAIN c.leg : SumOver(invested, Below(d)) = 0
             /\ c.direct # None => c.direct = SumOver(invested, N!Under(m))
    BY <2>1 DEF RecountsRead
  <2>3. /\ e = [todo |-> c.todo, leg |-> c.leg, direct |-> c.direct, overtaken |-> e.overtaken]
        /\ (~e.overtaken => ~c.overtaken /\ NoMore(m))
    BY <2>1 DEF RecountTold
  <2>4. e.todo = c.todo /\ e.leg = c.leg /\ e.direct = c.direct
    BY <2>3
  <2>5. /\ DOMAIN c.leg \subseteq N!Under(m) /\ (\A d \in DOMAIN c.leg : c.leg[d] \in Nat)
        /\ m \in Members /\ N!Under(m) \subseteq Members /\ (c.direct # None => c.direct \in Nat)
    BY <1>2, <2>1, FamilySets DEF TeamTypes
  <2>6. \A d : Read(recount[m], d)' = IF d \in c.todo THEN invested'[d] ELSE SumOver(invested, Below(d))'
    BY <2>1, <2>4 DEF Read
  <2>7. \A d : Read(c, d) = IF d \in c.todo THEN invested[d] ELSE SumOver(invested, Below(d))
    BY DEF Read
  <2>8. \A d \in DOMAIN c.leg :
          /\ d \in Members /\ invested[d] <= invested'[d]
          /\ SumOver(invested, Below(d)) <= SumOver(invested, Below(d))'
          /\ SumOver(invested, Below(d)) \in Nat /\ SumOver(invested, Below(d))' \in Nat
          /\ invested[d] \in Nat /\ invested'[d] \in Nat
    BY <1>1, <2>5, FamilySums, NextFamilySums DEF NoLess
  <2>9. \A d \in DOMAIN c.leg : c.leg[d] <= Read(recount[m], d)'
    BY <2>2, <2>5, <2>6, <2>7, <2>8
  <2>10. c.direct # None => c.direct <= SumOver(invested, N!Under(m))'
    <3>1. SumOver(invested, N!Under(m)) <= SumOver(invested, N!Under(m))'
      BY <1>1, <2>5 DEF NoLess
    <3>2. SumOver(invested, N!Under(m)) \in Nat /\ SumOver(invested, N!Under(m))' \in Nat
      BY <2>5, FamilySums, NextFamilySums
    <3> QED
      BY <2>2, <2>5, <3>1, <3>2
  <2>11. ASSUME ~e.overtaken
         PROVE  /\ \A d \in DOMAIN c.leg : c.leg[d] = Read(recount[m], d)'
                /\ \A d \in N!Under(m)' \ DOMAIN c.leg : SumOver(invested, Below(d))' = 0
                /\ c.direct # None => c.direct = SumOver(invested, N!Under(m))'
    <3>1. ~c.overtaken /\ NoMore(m)
      BY <2>3, <2>11
    <3>2. \A d \in DOMAIN c.leg : c.leg[d] = Read(recount[m], d)'
      BY <2>2, <2>5, <2>6, <2>7, <3>1 DEF NoMore
    <3>3. \A d \in N!Under(m)' \ DOMAIN c.leg : SumOver(invested, Below(d))' = 0
      BY <2>2, <3>1 DEF NoMore
    <3> QED
      BY <2>2, <3>1, <3>2, <3>3 DEF NoMore
  <2> QED
    BY <2>1, <2>4, <2>9, <2>10, <2>11
<1> QED
  BY <1>3, <1>5, <1>6, <1>7

\* Nothing is invested before there are members, and nothing is summed.
LEMMA TeamInit == N!Init /\ TeamBase => TeamIInv
<1> SUFFICES ASSUME N!Init, TeamBase PROVE TeamIInv
  OBVIOUS
<1>1. /\ tree \in TreeScenes /\ seat = tree.seats /\ DOMAIN search = {} /\ DOMAIN recount = {} /\ stale = {}
      /\ invested = [m \in Members |-> 0]
      /\ volumes = [m \in Members |-> N!NoVolumes]
  BY DEF N!Init
<1>2. SponsorsSeated
  BY <1>1, TreesAssumption DEF SponsorsSeated
<1>3. /\ N!NoVolumes \in VolumesRow
      /\ N!NoVolumes.total = 0 /\ N!NoVolumes.power = 0 /\ N!NoVolumes.others = 0 /\ N!NoVolumes.direct = 0
  BY DEF N!NoVolumes, VolumesRow
<1>4. TeamTypes /\ RecountsRead
  BY <1>1, <1>3 DEF TeamTypes, RecountsRead
<1>5. ASSUME NEW T \in SUBSET Members
      PROVE  SumOver(invested, T) = 0
  <2>1. IsFiniteSet(T) /\ \A x \in T : invested[x] = 0
    BY <1>1, TreesAssumption, FS_Subset
  <2> QED
    BY <2>1, SumZero
<1>6. \A m \in Members : SumOver(invested, N!Downline(m)) = 0 /\ SumOver(invested, N!Under(m)) = 0
  BY <1>5, FamilySets
<1>7. TotalsKept
  BY <1>1, <1>3, <1>6 DEF TotalsKept
<1>8. BusinessKept
  <2> SUFFICES ASSUME NEW m \in Members
               PROVE  Greatest(Real(m), N!Under(m)) = 0 /\ SumOver(Real(m), N!Under(m)) = 0
    BY <1>1, <1>3, <1>6 DEF BusinessKept
  <2>1. PICK Q, f : Q = N!Under(m) /\ f = Real(m)
    OBVIOUS
  <2>2. IsFiniteSet(Q) /\ \A d \in Q : f[d] = 0 /\ f[d] \in Nat
    BY <1>5, <2>1, FamilySets
  <2>3. SumOver(f, Q) = 0
    BY <2>2, SumZero
  <2>4. Greatest(f, Q) = 0
    BY <2>2, GreatestOf
  <2> QED
    BY <2>1, <2>3, <2>4
<1> QED
  BY <1>2, <1>4, <1>7, <1>8 DEF TeamIInv

\* Where nobody joins and nothing is invested, all sums stay.
LEMMA SumsStay ==
  ASSUME UNCHANGED <<tree, seat, invested>>
  PROVE  \A m : /\ N!Under(m)' = N!Under(m) /\ N!Downline(m)' = N!Downline(m) /\ Below(m)' = Below(m)
                /\ Real(m)' = Real(m)
<1>1. N!SponsorsOf' = N!SponsorsOf
  BY SponsorsStay
<1>2. \A m : /\ N!Under(m)' = N!Under(m) /\ N!Downline(m)' = N!Downline(m) /\ Below(m)' = Below(m)
  BY <1>1 DEF N!Under, N!Downline, N!Joined, Below
<1> QED
  BY <1>2 DEF Real

\* Steps of searches and of purchases that are not committed.
LEMMA TeamStays ==
  ASSUME TeamBase, TeamIInv, UNCHANGED <<tree, seat, invested, volumes, recount, stale>>, SponsorsSeated'
  PROVE  TeamIInv'
<1>1. \A m : /\ N!Under(m)' = N!Under(m) /\ N!Downline(m)' = N!Downline(m) /\ Below(m)' = Below(m)
             /\ Real(m)' = Real(m)
  BY SumsStay
<1>2. TeamTypes' /\ TotalsKept' /\ BusinessKept'
  BY <1>1 DEF TeamIInv, TeamTypes, TotalsKept, BusinessKept
<1>3. \A c, d : Read(c, d)' = Read(c, d)
  BY <1>1 DEF Read
<1>4. RecountsRead'
  BY <1>1, <1>3 DEF TeamIInv, RecountsRead
<1> QED
  BY <1>2, <1>4 DEF TeamIInv

\* A search begins below a sponsor who is there.
LEMMA SearchTeam ==
  ASSUME PlacementIInv, TeamBase, TeamIInv, NEW m \in Members, N!Register(m) \/ N!FindPlacement(m)
  PROVE  TeamIInv'
<1>1. UNCHANGED <<tree, seat, invested, volumes, recount, stale>>
  BY DEF N!Register, N!FindPlacement, N!binary, N!team
<1>2. SponsorsSeated'
  <2>1. CASE N!Register(m)
    <3>1. tree.sponsor[m] \in DOMAIN seat /\ DOMAIN search' = DOMAIN search \union {m}
      BY <2>1 DEF N!Register, N!Put, N!Joined
    <3> QED
      BY <1>1, <3>1 DEF TeamIInv, SponsorsSeated
  <2>2. CASE N!FindPlacement(m)
    <3>1. DOMAIN search' = DOMAIN search
      BY <2>2 DEF N!FindPlacement
    <3> QED
      BY <1>1, <3>1 DEF TeamIInv, SponsorsSeated
  <2> QED
    BY <2>1, <2>2
<1> QED
  BY <1>1, <1>2, TeamStays

\* A member who joins has invested nothing, and has nobody below.
LEMMA PlaceTeam ==
  ASSUME PlacementIInv, VolumeTypes, TeamBase, TeamIInv, NEW p \in Members, N!Place(p)
  PROVE  TeamIInv'
<1>1. /\ p \in DOMAIN search /\ DOMAIN seat' = DOMAIN seat \union {p} /\ DOMAIN search' = DOMAIN search \ {p}
      /\ UNCHANGED <<tree, invested, volumes, recount, stale>>
  BY DEF N!Place, N!Put, N!Restrict, N!binary, N!team
<1>2. p \notin DOMAIN seat /\ invested[p] = 0
  BY <1>1 DEF PlacementIInv, PlacementTypes, VolumeTypes
<1>3. TeamBase' /\ DOMAIN seat \subseteq DOMAIN seat'
  BY <1>1 DEF TeamBase
<1>4. SponsorsSeated'
  BY <1>1 DEF TeamIInv, SponsorsSeated
<1>5. N!SponsorsOf' = N!SponsorsOf
  BY <1>1, SponsorsStay
<1>6. \A m : /\ N!Under(m)' \subseteq N!Under(m) \union {p} /\ N!Under(m) \subseteq N!Under(m)'
             /\ N!Downline(m)' \subseteq N!Downline(m) \union {p} /\ N!Downline(m) \subseteq N!Downline(m)'
             /\ Below(m)' \subseteq Below(m) \union {p} /\ Below(m) \subseteq Below(m)'
  BY <1>1, <1>5 DEF N!Under, N!Downline, N!Joined, Below
<1>7. PICK f : f = invested
  OBVIOUS
<1>8. ASSUME NEW U \in SUBSET Members, NEW T \in SUBSET U, U \subseteq T \union {p}
      PROVE  SumOver(f, U) = SumOver(f, T)
  <2>1. IsFiniteSet(U) /\ (\A x \in U : f[x] \in Int) /\ \A x \in U \ T : f[x] = 0
    BY <1>2, <1>7, <1>8, TreesAssumption, FS_Subset DEF TeamBase
  <2> QED
    BY <2>1, SumPart
<1>9. ASSUME NEW m \in Members
      PROVE  /\ SumOver(invested, N!Under(m))' = SumOver(invested, N!Under(m))
             /\ SumOver(invested, N!Downline(m))' = SumOver(invested, N!Downline(m))
             /\ SumOver(invested, Below(m))' = SumOver(invested, Below(m))
  <2>1. /\ N!Under(m)' \in SUBSET Members /\ N!Downline(m)' \in SUBSET Members /\ Below(m)' \in SUBSET Members
    BY <1>3, NextFamilySets
  <2>2. /\ SumOver(f, N!Under(m)') = SumOver(f, N!Under(m))
        /\ SumOver(f, N!Downline(m)') = SumOver(f, N!Downline(m))
        /\ SumOver(f, Below(m)') = SumOver(f, Below(m))
    BY <1>6, <1>8, <2>1
  <2> QED
    BY <1>1, <1>7, <2>2
<1>10. SumOver(invested, Below(p))' = 0
  <2>1. N!Downline(p) = {}
    <3>1. \A x \in DOMAIN seat : p \notin N!SponsorsOf[x]
      BY <1>2, SponsorsJoined DEF TeamIInv
    <3> QED
      BY <3>1 DEF N!Downline, N!Joined
  <2>2. SumOver(invested, Below(p)) = invested[p] + SumOver(invested, N!Downline(p))
    BY FamilySums
  <2>3. SumOver(f, {}) = 0
    BY SumStep, FS_EmptySet
  <2> QED
    BY <1>2, <1>7, <1>9, <2>1, <2>2, <2>3
<1>11. ASSUME NEW m \in Members
       PROVE  NoMore(m)
  <2>1. N!Under(m) \subseteq Members
    BY FamilySets
  <2> QED
    BY <1>1, <1>6, <1>9, <1>10, <2>1 DEF NoMore
<1>12. ASSUME NEW m \in Members
       PROVE  RowGrows(m)
  <2>1. volumes[m] \in VolumesRow /\ volumes[m].total \in Nat /\ volumes[m].direct \in Nat
    BY DEF TeamIInv, TeamTypes, VolumesRow
  <2>2. SumOver(invested, N!Downline(m)) \in Nat /\ SumOver(invested, N!Under(m)) \in Nat
    BY FamilySums
  <2>3. \A n, k \in Nat : n = n + (k - k)
    OBVIOUS
  <2> QED
    BY <1>1, <1>9, <2>1, <2>2, <2>3 DEF RowGrows
<1>13. \A m \in DOMAIN recount : RecountTold(m)
  BY <1>1, <1>11 DEF RecountTold, TeamIInv, TeamTypes
<1>14. DOMAIN volumes' = Members /\ volumes' = [m \in Members |-> volumes'[m]]
  BY <1>1 DEF TeamIInv, TeamTypes
<1>15. \A x \in Members : invested[x] <= invested'[x]
  BY <1>1 DEF TeamBase
<1> QED
  BY <1>1, <1>3, <1>4, <1>12, <1>13, <1>14, <1>15, TeamMoves

\* A commit adds the price below everybody above the buyer, to their rows too.
LEMMA CommitTeam ==
  ASSUME PlacementIInv, PurchasesClimb, TeamBase, TeamIInv, NEW b \in Members, N!Commit(b)
  PROVE  TeamIInv'
<1>1. PICK up, price : up = N!SponsorsOf[b] /\ price = tree.price[b]
  OBVIOUS
<1>2. /\ invested' = [invested EXCEPT ![b] = @ + price]
      /\ volumes' = [m \in Members |->
           [volumes[m] EXCEPT !.total = IF m \in up THEN @ + price ELSE @,
                              !.direct = IF m = tree.sponsor[b] THEN @ + price ELSE @]]
      /\ recount' = [m \in DOMAIN recount |-> [recount[m] EXCEPT !.overtaken = @ \/ m \in up]]
      /\ UNCHANGED <<tree, seat, search, stale>>
  BY <1>1, Zenon DEF N!Commit, N!tree
<1>3. b \in DOMAIN seat
  <2>1. purchase[b] # N!NoPurchase
    <3>1. purchase[b].pc = "matching"
      BY Zenon DEF N!Commit
    <3>2. N!NoPurchase.pc # "matching"
      BY DEF N!NoPurchase
    <3> QED
      BY <3>1, <3>2
  <2> QED
    BY <2>1 DEF PurchasesClimb, Climbs
<1>4. price \in Nat
  BY <1>1, TreesAssumption DEF TeamBase
<1>5. /\ invested' \in [Members -> Nat] /\ invested'[b] = invested[b] + price
      /\ \A x \in Members \ {b} : invested'[x] = invested[x]
      /\ \A x \in Members : invested[x] \in Nat
  <2>1. DOMAIN invested = Members /\ \A x \in Members : invested[x] \in Nat
    BY DEF TeamBase
  <2>2. b \in Members => invested[b] + price \in Nat
    BY <1>4, <2>1
  <2>3. invested' = [x \in Members |-> IF x = b THEN invested[b] + price ELSE invested[x]]
    BY <1>2, <2>1, Zenon
  <2> QED
    BY <2>1, <2>2, <2>3
<1>6. TeamBase' /\ \A x \in Members : invested[x] <= invested'[x]
  <2>1. \A x \in Members : invested[x] <= invested'[x]
    <3> SUFFICES ASSUME NEW x \in Members PROVE invested[x] <= invested'[x]
      OBVIOUS
    <3>1. CASE x = b
      BY <1>4, <1>5, <3>1
    <3>2. CASE x # b
      BY <1>5, <3>2
    <3> QED
      BY <3>1, <3>2
  <2> QED
    BY <1>2, <1>5, <2>1, Zenon DEF TeamBase
<1>7. SponsorsSeated'
  BY <1>2, Zenon DEF TeamIInv, SponsorsSeated
<1>8. \A m : N!Under(m)' = N!Under(m) /\ N!Downline(m)' = N!Downline(m) /\ Below(m)' = Below(m)
  <2>1. N!SponsorsOf' = N!SponsorsOf
    BY <1>2, SponsorsStay, Zenon
  <2> QED
    BY <1>2, <2>1, Zenon DEF N!Under, N!Downline, N!Joined, Below
<1>9. PICK f, e : f = invested /\ e = invested'
  OBVIOUS
<1>10. ASSUME NEW T \in SUBSET Members
       PROVE  SumOver(e, T) = SumOver(f, T) + (IF b \in T THEN price ELSE 0)
  <2>1. IsFiniteSet(T)
    BY TreesAssumption, FS_Subset
  <2>2. \A x \in T : f[x] \in Int /\ e[x] \in Int /\ (x # b => e[x] = f[x])
    BY <1>5, <1>9
  <2>3. CASE b \in T
    <3>1. e[b] = f[b] + price /\ price \in Int
      BY <1>4, <1>5, <1>9
    <3>2. SumOver(e, T) = SumOver(f, T) + price
      BY <2>1, <2>2, <2>3, <3>1, SumChange
    <3> QED
      BY <2>3, <3>2
  <2>4. CASE b \notin T
    <3>1. \A x \in T : f[x] = e[x]
      BY <2>2, <2>4
    <3>2. SumOver(f, T) = SumOver(e, T)
      BY <2>1, <3>1, SumSame
    <3>3. SumOver(f, T) \in Int
      BY <2>1, <2>2, SumType
    <3> QED
      BY <2>4, <3>2, <3>3
  <2> QED
    BY <2>3, <2>4
<1>11. ASSUME NEW m \in Members
       PROVE  /\ SumOver(invested, N!Under(m))' = SumOver(invested, N!Under(m)) + (IF m = tree.sponsor[b] THEN price ELSE 0)
              /\ SumOver(invested, N!Downline(m))' = SumOver(invested, N!Downline(m)) + (IF m \in up THEN price ELSE 0)
              /\ SumOver(invested, Below(m))' = SumOver(invested, Below(m)) + (IF b \in Below(m) THEN price ELSE 0)
  <2>1. N!Under(m) \in SUBSET Members /\ N!Downline(m) \in SUBSET Members /\ Below(m) \in SUBSET Members
    BY FamilySets
  <2>2. (b \in N!Under(m) <=> m = tree.sponsor[b]) /\ (b \in N!Downline(m) <=> m \in up)
    BY <1>1, <1>3 DEF N!Under, N!Downline, N!Joined
  <2> QED
    BY <1>8, <1>9, <1>10, <2>1, <2>2
<1>12. ASSUME NEW m \in Members
       PROVE  RowGrows(m)
  <2>1. PICK r, s, x, y, u, w :
          /\ r = volumes[m] /\ s = volumes'[m]
          /\ x = SumOver(invested, N!Downline(m)) /\ y = SumOver(invested, N!Downline(m))'
          /\ u = SumOver(invested, N!Under(m)) /\ w = SumOver(invested, N!Under(m))'
    OBVIOUS
  <2>2. x \in Nat /\ y \in Nat /\ u \in Nat /\ w \in Nat
    BY <1>6, <2>1, FamilySums, NextFamilySums
  <2>3. r \in VolumesRow /\ r = [total |-> r.total, power |-> r.power, others |-> r.others, direct |-> r.direct]
        /\ r.total \in Nat /\ r.power \in Nat /\ r.others \in Int /\ r.direct \in Nat
    BY <2>1 DEF TeamIInv, TeamTypes, VolumesRow
  <2>4. s = [r EXCEPT !.total = IF m \in up THEN @ + price ELSE @, !.direct = IF m = tree.sponsor[b] THEN @ + price ELSE @]
    BY <1>2, <2>1, Zenon
  <2>5. /\ s = [total |-> s.total, power |-> s.power, others |-> s.others, direct |-> s.direct]
        /\ s.total = (IF m \in up THEN r.total + price ELSE r.total)
        /\ s.direct = (IF m = tree.sponsor[b] THEN r.direct + price ELSE r.direct)
        /\ s.power = r.power /\ s.others = r.others
    BY <2>3, <2>4
  <2>6. s \in VolumesRow
    BY <1>4, <2>3, <2>5 DEF VolumesRow
  <2>7. y = x + (IF m \in up THEN price ELSE 0) /\ w = u + (IF m = tree.sponsor[b] THEN price ELSE 0)
    BY <1>11, <2>1
  <2>8. s.total = r.total + (y - x)
    BY <1>4, <2>2, <2>3, <2>5, <2>7
  <2>9. s.direct = r.direct + (w - u)
    BY <1>4, <2>2, <2>3, <2>5, <2>7
  <2> QED
    BY <2>1, <2>5, <2>6, <2>8, <2>9 DEF RowGrows
<1>13. ASSUME NEW m \in Members, m \notin up
       PROVE  NoMore(m)
  <2>0. Kin
    BY Kinship DEF TeamBase
  <2>1. m # tree.sponsor[b]
    BY <1>1, <1>13, <2>0, TreesAssumption DEF Kin
  <2>2. \A d \in N!Under(m) : d \in Members /\ b # d /\ b \notin Below(d)
    <3> SUFFICES ASSUME NEW d \in N!Under(m)
                 PROVE  d \in Members /\ b # d /\ d \notin N!SponsorsOf[b]
      BY DEF Below, N!Downline
    <3>1. d \in Members /\ tree.sponsor[d] = m /\ m # None
      BY TreesAssumption DEF N!Under, N!Joined, TeamBase
    <3>2. d \in N!SponsorsOf[b] => m \in N!SponsorsOf[b]
      <4>1. m \in N!SponsorsOf[d]
        BY <2>0, <3>1 DEF Kin
      <4> QED
        BY <2>0, <4>1 DEF Kin
    <3> QED
      BY <1>1, <1>13, <2>1, <3>1, <3>2
  <2>3. \A d \in N!Under(m) : SumOver(invested, Below(d))' = SumOver(invested, Below(d)) /\ invested'[d] = invested[d]
    <3> SUFFICES ASSUME NEW d \in N!Under(m)
                 PROVE  SumOver(invested, Below(d))' = SumOver(invested, Below(d)) /\ invested'[d] = invested[d]
      OBVIOUS
    <3>1. SumOver(invested, Below(d))' = SumOver(invested, Below(d)) + 0
      BY <1>11, <2>2
    <3>2. SumOver(invested, Below(d)) \in Nat
      BY <2>2, FamilySums
    <3> QED
      BY <1>5, <2>2, <3>1, <3>2
  <2>4. SumOver(invested, N!Under(m))' = SumOver(invested, N!Under(m))
    <3>1. SumOver(invested, N!Under(m))' = SumOver(invested, N!Under(m)) + 0
      BY <1>11, <2>1
    <3>2. SumOver(invested, N!Under(m)) \in Nat
      BY FamilySums
    <3> QED
      BY <3>1, <3>2
  <2> QED
    BY <1>8, <2>3, <2>4 DEF NoMore
<1>14. ASSUME NEW m \in DOMAIN recount
       PROVE  RecountTold(m)
  <2>1. PICK c, k : c = recount[m] /\ k = recount'[m]
    OBVIOUS
  <2>2. /\ c = [todo |-> c.todo, leg |-> c.leg, direct |-> c.direct, overtaken |-> c.overtaken]
        /\ c.overtaken \in BOOLEAN /\ m \in Members
    BY <2>1 DEF TeamIInv, TeamTypes
  <2>3. k = [c EXCEPT !.overtaken = @ \/ m \in up]
    BY <1>2, <2>1, Zenon
  <2>4. /\ k = [todo |-> c.todo, leg |-> c.leg, direct |-> c.direct, overtaken |-> k.overtaken]
        /\ k.overtaken = (c.overtaken \/ m \in up)
    BY <2>2, <2>3
  <2>5. ~k.overtaken => ~c.overtaken /\ NoMore(m)
    BY <1>13, <2>2, <2>4
  <2> QED
    BY <2>1, <2>4, <2>5 DEF RecountTold
<1>15. DOMAIN volumes' = Members /\ volumes' = [m \in Members |-> volumes'[m]] /\ DOMAIN recount' = DOMAIN recount
  BY <1>2, Zenon
<1>16. DOMAIN seat \subseteq DOMAIN seat'
  BY <1>2, Zenon
<1> QED
  BY <1>2, <1>6, <1>7, <1>12, <1>14, <1>15, <1>16, TeamMoves, Zenon

-----------------------------------------------------------------------------
(* Team volumes: recalculations *)

\* What a recalculation changes of its own record keeps the rest.
LEMMA RecountMoves ==
  ASSUME TeamIInv, UNCHANGED <<tree, seat, search, invested, volumes, stale>>, NEW m \in Members, NEW e,
         DOMAIN recount' = DOMAIN recount \union {m}, recount'[m] = e,
         \A k \in DOMAIN recount \ {m} : recount'[k] = recount[k],
         e = [todo |-> e.todo, leg |-> e.leg, direct |-> e.direct, overtaken |-> e.overtaken],
         e.overtaken \in BOOLEAN, DOMAIN e.leg \subseteq N!Under(m), e.todo \subseteq DOMAIN e.leg,
         \A d \in DOMAIN e.leg : e.leg[d] \in Nat /\ e.leg[d] <= Read(e, d),
         e.direct # None => e.todo = {} /\ e.direct \in Nat /\ e.direct <= SumOver(invested, N!Under(m)),
         ~e.overtaken => /\ \A d \in DOMAIN e.leg : e.leg[d] = Read(e, d)
                         /\ \A d \in N!Under(m) \ DOMAIN e.leg : SumOver(invested, Below(d)) = 0
                         /\ e.direct # None => e.direct = SumOver(invested, N!Under(m))
  PROVE  TeamIInv'
<1> USE DEF TeamIInv
<1>1. \A k : /\ N!Under(k)' = N!Under(k) /\ N!Downline(k)' = N!Downline(k) /\ Below(k)' = Below(k)
             /\ Real(k)' = Real(k)
  BY SumsStay
<1>2. SponsorsSeated' /\ TotalsKept' /\ BusinessKept'
  BY <1>1 DEF SponsorsSeated, TotalsKept, BusinessKept
<1>3. TeamTypes'
  <2> SUFFICES ASSUME NEW k \in DOMAIN recount \union {m}
               PROVE  LET c == recount'[k] IN
                        /\ c = [todo |-> c.todo, leg |-> c.leg, direct |-> c.direct, overtaken |-> c.overtaken]
                        /\ c.overtaken \in BOOLEAN
                        /\ DOMAIN c.leg \subseteq N!Under(k) /\ c.todo \subseteq DOMAIN c.leg
                        /\ \A d \in DOMAIN c.leg : c.leg[d] \in Nat
                        /\ c.direct # None => c.todo = {} /\ c.direct \in Nat
    BY <1>1 DEF TeamTypes
  <2>1. CASE k = m
    BY <2>1
  <2>2. CASE k # m
    BY <2>2 DEF TeamTypes
  <2> QED
    BY <2>1, <2>2
<1>4. RecountsRead'
  <2>1. \A c, d : Read(c, d)' = Read(c, d)
    BY <1>1 DEF Read
  <2> SUFFICES ASSUME NEW k \in DOMAIN recount \union {m}, NEW c, c = recount'[k]
               PROVE  /\ \A d \in DOMAIN c.leg : c.leg[d] <= Read(c, d)
                      /\ c.direct # None => c.direct <= SumOver(invested, N!Under(k))
                      /\ ~c.overtaken =>
                           /\ \A d \in DOMAIN c.leg : c.leg[d] = Read(c, d)
                           /\ \A d \in N!Under(k) \ DOMAIN c.leg : SumOver(invested, Below(d)) = 0
                           /\ c.direct # None => c.direct = SumOver(invested, N!Under(k))
    BY <1>1, <2>1 DEF RecountsRead
  <2>2. CASE k = m
    BY <2>2
  <2>3. CASE k # m
    BY <2>3 DEF RecountsRead
  <2> QED
    BY <2>2, <2>3
<1> QED
  BY <1>2, <1>3, <1>4

\* It begins with what the directs themselves invested.
LEMMA StartTeam ==
  ASSUME TeamBase, TeamIInv, NEW m \in Members, N!StartRecount(m)
  PROVE  TeamIInv'
<1>1. PICK e : e = [todo |-> N!Under(m), leg |-> [d \in N!Under(m) |-> invested[d]], direct |-> None, overtaken |-> FALSE]
  OBVIOUS
<1>2. /\ recount' = N!Put(recount, m, e) /\ UNCHANGED <<tree, seat, search, invested, volumes, stale>>
  BY <1>1 DEF N!StartRecount, N!tree, N!binary
<1>3. DOMAIN recount' = DOMAIN recount \union {m} /\ recount'[m] = e /\ \A k \in DOMAIN recount \ {m} : recount'[k] = recount[k]
  BY <1>2 DEF N!Put
<1>4. /\ e = [todo |-> e.todo, leg |-> e.leg, direct |-> e.direct, overtaken |-> e.overtaken]
      /\ e.todo = N!Under(m) /\ DOMAIN e.leg = N!Under(m) /\ e.direct = None /\ e.overtaken = FALSE
      /\ \A d \in N!Under(m) : e.leg[d] = invested[d]
  BY <1>1
<1>5. \A d \in DOMAIN e.leg : e.leg[d] \in Nat /\ e.leg[d] <= Read(e, d) /\ e.leg[d] = Read(e, d)
  <2>1. \A d \in N!Under(m) : invested[d] \in Nat
    BY FamilySets, FamilySums
  <2>2. \A d \in N!Under(m) : Read(e, d) = invested[d]
    BY <1>4 DEF Read
  <2> QED
    BY <1>4, <2>1, <2>2
<1>6. N!Under(m) \ DOMAIN e.leg = {}
  BY <1>4
<1> QED
  BY <1>2, <1>3, <1>4, <1>5, <1>6, RecountMoves

\* One direct's downline is added to what the direct invested.
LEMMA LegTeam ==
  ASSUME TeamBase, TeamIInv, NEW m \in Members, NEW d \in Members, N!SumLeg(m, d)
  PROVE  TeamIInv'
<1> USE DEF TeamIInv
<1>1. PICK c, x : c = recount[m] /\ x = SumOver(invested, N!Downline(d))
  OBVIOUS
<1>2. PICK e : e = [c EXCEPT !.todo = @ \ {d}, !.leg[d] = @ + x]
  OBVIOUS
<1>3. /\ m \in DOMAIN recount /\ d \in c.todo /\ recount' = [recount EXCEPT ![m] = e]
      /\ UNCHANGED <<tree, seat, search, invested, volumes, stale>>
  <2>1. N!Invested(N!Downline(d)) = x
    BY <1>1, InvestedIsSum
  <2> QED
    BY <1>1, <1>2, <2>1 DEF N!SumLeg, N!tree, N!binary
<1>4. /\ c = [todo |-> c.todo, leg |-> c.leg, direct |-> c.direct, overtaken |-> c.overtaken]
      /\ c.overtaken \in BOOLEAN
      /\ DOMAIN c.leg \subseteq N!Under(m) /\ c.todo \subseteq DOMAIN c.leg
      /\ (\A k \in DOMAIN c.leg : c.leg[k] \in Nat)
      /\ (c.direct # None => c.todo = {})
  BY <1>1, <1>3 DEF TeamTypes
<1>5. /\ e = [todo |-> e.todo, leg |-> e.leg, direct |-> e.direct, overtaken |-> e.overtaken]
      /\ e.todo = c.todo \ {d} /\ e.leg = [c.leg EXCEPT ![d] = c.leg[d] + x]
      /\ e.direct = c.direct /\ e.overtaken = c.overtaken
  BY <1>2, <1>4
<1>6. c.direct = None
  BY <1>3, <1>4
<1>7. /\ \A k \in DOMAIN c.leg : c.leg[k] <= Read(c, k)
      /\ ~c.overtaken => /\ \A k \in DOMAIN c.leg : c.leg[k] = Read(c, k)
                         /\ \A k \in N!Under(m) \ DOMAIN c.leg : SumOver(invested, Below(k)) = 0
  BY <1>1, <1>3 DEF RecountsRead
<1>8. DOMAIN e.leg = DOMAIN c.leg /\ e.leg[d] = c.leg[d] + x /\ (\A k \in DOMAIN c.leg \ {d} : e.leg[k] = c.leg[k])
  BY <1>3, <1>4, <1>5
<1>9. x \in Nat /\ invested[d] \in Nat /\ SumOver(invested, Below(d)) = invested[d] + x
  BY <1>1, FamilySums
<1>10. Read(c, d) = invested[d] /\ Read(e, d) = invested[d] + x /\ \A k : k # d => Read(e, k) = Read(c, k)
  BY <1>3, <1>5, <1>9 DEF Read
<1>11. c.leg[d] \in Nat /\ c.leg[d] <= invested[d] /\ (~c.overtaken => c.leg[d] = invested[d])
  BY <1>3, <1>4, <1>7, <1>10
<1>12. e.leg[d] \in Nat /\ e.leg[d] <= Read(e, d) /\ (~c.overtaken => e.leg[d] = Read(e, d))
  BY <1>8, <1>9, <1>10, <1>11
<1>13. \A k \in DOMAIN e.leg : e.leg[k] \in Nat /\ e.leg[k] <= Read(e, k) /\ (~c.overtaken => e.leg[k] = Read(e, k))
  BY <1>4, <1>7, <1>8, <1>10, <1>12
<1>14. DOMAIN recount' = DOMAIN recount \union {m} /\ recount'[m] = e /\ \A k \in DOMAIN recount \ {m} : recount'[k] = recount[k]
  BY <1>3
<1>15. e.direct = None /\ e.overtaken \in BOOLEAN /\ DOMAIN e.leg \subseteq N!Under(m) /\ e.todo \subseteq DOMAIN e.leg
  BY <1>4, <1>5, <1>6, <1>8
<1>16. ~e.overtaken => /\ \A k \in DOMAIN e.leg : e.leg[k] = Read(e, k)
                       /\ \A k \in N!Under(m) \ DOMAIN e.leg : SumOver(invested, Below(k)) = 0
  BY <1>5, <1>7, <1>8, <1>13
<1> QED
  BY <1>3, <1>5, <1>13, <1>14, <1>15, <1>16, RecountMoves

\* The directs are summed when all legs have been.
LEMMA DirectsTeam ==
  ASSUME TeamBase, TeamIInv, NEW m \in Members, N!SumDirects(m)
  PROVE  TeamIInv'
<1> USE DEF TeamIInv
<1>1. PICK c, x : c = recount[m] /\ x = SumOver(invested, N!Under(m))
  OBVIOUS
<1>2. PICK e : e = [c EXCEPT !.direct = x]
  OBVIOUS
<1>3. /\ m \in DOMAIN recount /\ c.todo = {} /\ recount' = [recount EXCEPT ![m] = e]
      /\ UNCHANGED <<tree, seat, search, invested, volumes, stale>>
  <2>1. N!Invested(N!Under(m)) = x
    BY <1>1, InvestedIsSum
  <2> QED
    BY <1>1, <1>2, <2>1 DEF N!SumDirects, N!tree, N!binary
<1>4. /\ c = [todo |-> c.todo, leg |-> c.leg, direct |-> c.direct, overtaken |-> c.overtaken]
      /\ c.overtaken \in BOOLEAN
      /\ DOMAIN c.leg \subseteq N!Under(m) /\ c.todo \subseteq DOMAIN c.leg
      /\ (\A k \in DOMAIN c.leg : c.leg[k] \in Nat)
  BY <1>1, <1>3 DEF TeamTypes
<1>5. /\ e = [todo |-> e.todo, leg |-> e.leg, direct |-> e.direct, overtaken |-> e.overtaken]
      /\ e.todo = c.todo /\ e.leg = c.leg /\ e.direct = x /\ e.overtaken = c.overtaken
  BY <1>2, <1>4
<1>6. /\ \A k \in DOMAIN c.leg : c.leg[k] <= Read(c, k)
      /\ ~c.overtaken => /\ \A k \in DOMAIN c.leg : c.leg[k] = Read(c, k)
                         /\ \A k \in N!Under(m) \ DOMAIN c.leg : SumOver(invested, Below(k)) = 0
  BY <1>1, <1>3 DEF RecountsRead
<1>7. \A k : Read(e, k) = Read(c, k)
  BY <1>5 DEF Read
<1>8. x \in Nat /\ x <= x
  BY <1>1, FamilySums
<1>9. DOMAIN recount' = DOMAIN recount \union {m} /\ recount'[m] = e /\ \A k \in DOMAIN recount \ {m} : recount'[k] = recount[k]
  BY <1>3
<1>10. /\ e.overtaken \in BOOLEAN /\ DOMAIN e.leg \subseteq N!Under(m) /\ e.todo \subseteq DOMAIN e.leg
       /\ \A k \in DOMAIN e.leg : e.leg[k] \in Nat /\ e.leg[k] <= Read(e, k)
  BY <1>4, <1>5, <1>6, <1>7
<1>11. e.todo = {} /\ e.direct \in Nat /\ e.direct <= SumOver(invested, N!Under(m)) /\ e.direct = SumOver(invested, N!Under(m))
  BY <1>1, <1>3, <1>5, <1>8
<1>12. ~e.overtaken => /\ \A k \in DOMAIN e.leg : e.leg[k] = Read(e, k)
                       /\ \A k \in N!Under(m) \ DOMAIN e.leg : SumOver(invested, Below(k)) = 0
  BY <1>5, <1>6, <1>7
<1> QED
  BY <1>3, <1>5, <1>9, <1>10, <1>11, <1>12, RecountMoves

\* What was read is less than there is, or as much, and so is the row that is saved.
LEMMA SaveTeam ==
  ASSUME TeamBase, TeamIInv, NEW m \in Members, N!Save(m)
  PROVE  TeamIInv'
<1> USE DEF TeamIInv
<1>1. PICK c : c = recount[m]
  OBVIOUS
<1>2. PICK Q, R, f, h : Q = DOMAIN c.leg /\ R = N!Under(m) /\ f = c.leg /\ h = Real(m)
  OBVIOUS
<1>3. PICK total, power : total = SumOver(f, Q) /\ power = Greatest(f, Q)
  OBVIOUS
<1>4. PICK r : r = [total |-> total, power |-> power, others |-> total - power, direct |-> c.direct]
  OBVIOUS
<1>5. /\ m \in DOMAIN recount /\ c.direct # None /\ volumes' = [volumes EXCEPT ![m] = r]
      /\ stale' = IF c.overtaken THEN stale \union {m} ELSE stale \ {m}
      /\ DOMAIN recount' = DOMAIN recount \ {m} /\ \A k \in DOMAIN recount \ {m} : recount'[k] = recount[k]
      /\ UNCHANGED <<tree, seat, search, invested>>
  <2>1. N!Total(m) = total
    BY <1>1, <1>2, <1>3, FunctionIsSum DEF N!Total
  <2>2. N!Power(m) = power
    BY <1>1, <1>2, <1>3 DEF N!Power, N!Range, Greatest
  <2> QED
    BY <1>1, <1>4, <2>1, <2>2 DEF N!Save, N!Saved, N!Restrict, N!tree, N!binary
<1>6. /\ c.overtaken \in BOOLEAN /\ Q \subseteq R /\ (\A d \in Q : f[d] \in Nat)
      /\ c.todo = {} /\ c.direct \in Nat
  BY <1>1, <1>2, <1>5 DEF TeamTypes
<1>7. R \subseteq Members /\ IsFiniteSet(R) /\ \A d \in R : h[d] = SumOver(invested, Below(d)) /\ h[d] \in Nat
  BY <1>2, FamilySets, FamilySums
<1>8. \A d : Read(c, d) = SumOver(invested, Below(d))
  BY <1>6 DEF Read
<1>9. /\ \A d \in Q : f[d] <= h[d]
      /\ c.direct <= SumOver(invested, R)
      /\ ~c.overtaken => /\ \A d \in Q : f[d] = h[d]
                         /\ \A d \in R \ Q : h[d] = 0
                         /\ c.direct = SumOver(invested, R)
  BY <1>1, <1>2, <1>5, <1>6, <1>7, <1>8 DEF RecountsRead
<1>10. /\ total <= SumOver(h, R) /\ power <= Greatest(h, R) /\ total - power <= SumOver(h, R) - Greatest(h, R)
       /\ total \in Nat /\ power \in Nat
  BY <1>3, <1>6, <1>7, <1>9, MoreIsMore
<1>11. SumOver(invested, N!Downline(m)) = SumOver(h, R)
  BY <1>2, DownlineSplits
<1>12. ~c.overtaken => total = SumOver(h, R)
  <2> SUFFICES ASSUME ~c.overtaken PROVE total = SumOver(h, R)
    OBVIOUS
  <2>1. (\A d \in Q : f[d] = h[d]) /\ (\A d \in R \ Q : h[d] = 0) /\ \A d \in R : h[d] \in Int
    BY <1>7, <1>9
  <2>2. SumOver(h, R) = SumOver(h, Q)
    BY <1>6, <1>7, <2>1, SumPart
  <2>3. IsFiniteSet(Q)
    BY <1>6, <1>7, FS_Subset
  <2>4. SumOver(f, Q) = SumOver(h, Q)
    BY <2>1, <2>3, SumSame
  <2> QED
    BY <1>3, <2>2, <2>4
<1>13. /\ r \in VolumesRow
       /\ r.total = total /\ r.power = power /\ r.others = total - power /\ r.direct = c.direct
  <2>1. total - power \in Int
    BY <1>10
  <2> QED
    BY <1>4, <1>6, <1>10, <2>1 DEF VolumesRow
<1>14. volumes' \in [Members -> VolumesRow] /\ volumes'[m] = r /\ \A k \in Members \ {m} : volumes'[k] = volumes[k]
  BY <1>5, <1>13 DEF TeamTypes
<1>15. \A k : /\ N!Under(k)' = N!Under(k) /\ N!Downline(k)' = N!Downline(k) /\ Below(k)' = Below(k)
              /\ Real(k)' = Real(k)
  BY <1>5, SumsStay
<1>16. SponsorsSeated'
  BY <1>5 DEF SponsorsSeated
<1>17. TeamTypes'
  BY <1>5, <1>14, <1>15 DEF TeamTypes
<1>18. TotalsKept'
  <2> SUFFICES ASSUME NEW k \in Members \ stale'
               PROVE  /\ volumes'[k].total = SumOver(invested, N!Downline(k))
                      /\ volumes'[k].direct = SumOver(invested, N!Under(k))
    BY <1>5, <1>15 DEF TotalsKept
  <2>1. CASE k = m
    <3>1. ~c.overtaken
      BY <1>5, <2>1
    <3> QED
      BY <1>2, <1>9, <1>11, <1>12, <1>13, <1>14, <2>1, <3>1
  <2>2. CASE k # m
    <3>1. k \notin stale
      BY <1>5, <2>2
    <3> QED
      BY <1>14, <2>2, <3>1 DEF TotalsKept
  <2> QED
    BY <2>1, <2>2
<1>19. BusinessKept'
  <2> SUFFICES ASSUME NEW k \in Members
               PROVE  /\ volumes'[k].total <= SumOver(invested, N!Downline(k))
                      /\ volumes'[k].direct <= SumOver(invested, N!Under(k))
                      /\ volumes'[k].power <= Greatest(Real(k), N!Under(k))
                      /\ volumes'[k].others <= SumOver(Real(k), N!Under(k)) - Greatest(Real(k), N!Under(k))
    BY <1>5, <1>15 DEF BusinessKept
  <2>1. CASE k = m
    BY <1>2, <1>9, <1>10, <1>11, <1>13, <1>14, <2>1
  <2>2. CASE k # m
    BY <1>14, <2>2 DEF BusinessKept
  <2> QED
    BY <2>1, <2>2
<1>20. RecountsRead'
  <2>1. \A e, d : Read(e, d)' = Read(e, d)
    BY <1>5, <1>15 DEF Read
  <2> QED
    BY <1>5, <1>15, <2>1 DEF RecountsRead
<1> QED
  BY <1>16, <1>17, <1>18, <1>19, <1>20

\* Every step keeps what rows have and recalculations read.
LEMMA TeamStep ==
  ASSUME PlacementIInv, VolumesIInv, TeamIInv, N!Next
  PROVE  TeamIInv'
<1>0. TeamBase
  BY DEF TeamBase, PlacementIInv, PlacementTypes, VolumesIInv, VolumeTypes
<1>1. PICK m \in Members :
        \/ N!Register(m) \/ N!FindPlacement(m) \/ N!Place(m)
        \/ N!Begin(m) \/ N!AddVolume(m) \/ N!StartMatching(m) \/ N!MatchLegs(m) \/ N!Commit(m) \/ N!Fail(m)
        \/ N!StartRecount(m) \/ N!SumDirects(m) \/ N!Save(m)
        \/ \E d \in Members : N!SumLeg(m, d)
  BY DEF N!Next
<1>2. CASE N!Register(m) \/ N!FindPlacement(m) \/ N!Place(m)
  BY <1>0, <1>2, SearchTeam, PlaceTeam DEF VolumesIInv
<1>3. CASE N!Begin(m) \/ N!AddVolume(m) \/ N!StartMatching(m) \/ N!MatchLegs(m) \/ N!Fail(m)
  <2>1. UNCHANGED <<tree, seat, search, invested, volumes, recount, stale>>
    BY <1>3 DEF N!Begin, N!AddVolume, N!StartMatching, N!MatchLegs, N!Fail, N!tree, N!team
  <2>2. SponsorsSeated'
    BY <2>1 DEF TeamIInv, SponsorsSeated
  <2> QED
    BY <1>0, <2>1, <2>2, TeamStays
<1>4. CASE N!Commit(m)
  BY <1>0, <1>4, CommitTeam DEF VolumesIInv
<1>5. CASE N!StartRecount(m) \/ N!SumDirects(m) \/ N!Save(m)
  BY <1>0, <1>5, StartTeam, DirectsTeam, SaveTeam
<1>6. ASSUME NEW d \in Members, N!SumLeg(m, d)
      PROVE  TeamIInv'
  BY <1>0, <1>6, LegTeam
<1> QED
  BY <1>1, <1>2, <1>3, <1>4, <1>5, <1>6

\* What rows have is what there is, or less.
LEMMA TeamVolumes ==
  ASSUME TeamBase, TeamIInv
  PROVE  N!TotalsAgree /\ N!BusinessIsReal
<1> USE DEF TeamIInv
<1>0. DOMAIN seat \subseteq Members
  BY DEF TeamBase
<1>1. N!TotalsAgree
  BY <1>0, InvestedIsSum DEF N!TotalsAgree, N!Joined, TotalsKept
<1>2. N!BusinessIsReal
  <2> SUFFICES ASSUME NEW m \in DOMAIN seat, NEW real, NEW power,
                      real = [d \in N!Under(m) |-> N!Invested(N!Downline(d) \union {d})],
                      power = N!Max(N!Range(real) \union {0})
               PROVE  /\ volumes[m].total <= N!SumFunction(real) /\ volumes[m].direct <= N!Invested(N!Under(m))
                      /\ volumes[m].power <= power /\ volumes[m].others <= N!SumFunction(real) - power
    BY DEF N!BusinessIsReal, N!Joined
  <2>1. real = Real(m)
    <3>1. \A d \in N!Under(m) : N!Invested(N!Downline(d) \union {d}) = SumOver(invested, Below(d))
      BY InvestedIsSum DEF Below
    <3> QED
      BY <3>1 DEF Real
  <2>2. DOMAIN real = N!Under(m)
    OBVIOUS
  <2>3. power = Greatest(real, N!Under(m))
    BY <2>2 DEF N!Range, Greatest
  <2>4. N!SumFunction(real) = SumOver(real, N!Under(m))
    BY <2>2, FunctionIsSum
  <2>5. m \in Members /\ N!Invested(N!Under(m)) = SumOver(invested, N!Under(m))
    BY <1>0, InvestedIsSum
  <2>6. SumOver(invested, N!Downline(m)) = SumOver(real, N!Under(m))
    BY <2>1, <2>5, DownlineSplits
  <2> QED
    BY <2>1, <2>3, <2>4, <2>5, <2>6 DEF BusinessKept
<1> QED
  BY <1>1, <1>2

-----------------------------------------------------------------------------
(* Lock order: sequences *)

\* What a sequence with one more at its front is.
LEMMA Cons ==
  ASSUME NEW A, NEW p \in A, NEW s \in Seq(A)
  PROVE  /\ <<p>> \o s \in Seq(A) /\ <<p>> \o s # <<>>
         /\ Len(s) \in Nat /\ Len(<<p>> \o s) = Len(s) + 1 /\ (<<p>> \o s)[1] = p
         /\ \A i \in 1..Len(s) : (<<p>> \o s)[i + 1] = s[i]
<1>1. <<p>> \in Seq(A) /\ Len(<<p>>) = 1 /\ <<p>>[1] = p /\ Len(s) \in Nat
  OBVIOUS
<1>2. /\ <<p>> \o s \in Seq(A)
      /\ Len(<<p>> \o s) = 1 + Len(s)
      /\ \A i \in 1..1 + Len(s) : (<<p>> \o s)[i] = IF i <= 1 THEN <<p>>[i] ELSE s[i - 1]
  <2>1. \A a, b \in Seq(A) :
          /\ a \o b \in Seq(A)
          /\ Len(a \o b) = Len(a) + Len(b)
          /\ \A i \in 1..Len(a) + Len(b) : (a \o b)[i] = IF i <= Len(a) THEN a[i] ELSE b[i - Len(a)]
    BY ConcatProperties
  <2> QED
    BY <1>1, <2>1
<1>3. (<<p>> \o s)[1] = p
  BY <1>1, <1>2
<1>4. \A i \in 1..Len(s) : (<<p>> \o s)[i + 1] = s[i]
  BY <1>1, <1>2
<1>5. <<p>> \o s # <<>>
  <2>1. PICK q \in Seq(A) : q = <<p>> \o s
    BY <1>2
  <2> QED
    BY <1>1, <1>2, <2>1
<1> QED
  BY <1>1, <1>2, <1>3, <1>4, <1>5

\* A sequence that is not empty is its first and its rest.
LEMMA Uncons ==
  ASSUME NEW A, NEW s \in Seq(A), s # <<>>
  PROVE  /\ Len(s) \in Nat \ {0} /\ s[1] \in A /\ Head(s) = s[1]
         /\ Tail(s) \in Seq(A) /\ Len(Tail(s)) = Len(s) - 1
         /\ \A i \in 1..Len(s) - 1 : Tail(s)[i] = s[i + 1]
         /\ s = <<s[1]>> \o Tail(s)
<1>1. Len(s) \in Nat \ {0}
  BY EmptySeq
<1>2. s[1] \in A /\ Head(s) = s[1]
  BY <1>1, ElementOfSeq
<1>3. /\ Tail(s) \in Seq(A) /\ Len(Tail(s)) = Len(s) - 1
      /\ \A i \in 1..Len(s) - 1 : Tail(s)[i] = s[i + 1]
  BY HeadTailProperties
<1>4. PICK p \in A, q \in Seq(A) : p = s[1] /\ q = Tail(s)
  BY <1>2, <1>3
<1>5. <<p>> \o q \in Seq(A) /\ Len(<<p>> \o q) = Len(s)
  BY <1>1, <1>3, <1>4, Cons
<1>6. ASSUME NEW i \in 1..Len(s) PROVE s[i] = (<<p>> \o q)[i]
  <2>1. CASE i = 1
    BY <1>4, <2>1, Cons
  <2>2. CASE i # 1
    <3>1. PICK j \in 1..Len(q) : i = j + 1
      <4>1. i - 1 \in 1..Len(q) /\ i = (i - 1) + 1
        BY <1>1, <1>3, <1>4, <1>6, <2>2
      <4> QED
        BY <4>1
    <3>2. (<<p>> \o q)[j + 1] = q[j]
      BY <3>1, Cons
    <3>3. q[j] = s[j + 1]
      BY <1>3, <1>4, <3>1
    <3> QED
      BY <3>1, <3>2, <3>3
  <2> QED
    BY <2>1, <2>2
<1>7. s = <<p>> \o q
  BY <1>5, <1>6, SeqEqual
<1> QED
  BY <1>1, <1>2, <1>3, <1>4, <1>7

-----------------------------------------------------------------------------
(* Lock order: lines *)

\* What the recursive definitions of those above say.
Lines(above, line) ==
  line = [m \in LockMembers |-> IF above[m] = 0 THEN <<>> ELSE <<above[m]>> \o line[above[m]]]

\* s leads from m to the top.
Leads(above, m, s) ==
  /\ s \in Seq(LockMembers)
  /\ above[m] = IF s = <<>> THEN 0 ELSE s[1]
  /\ \A i \in 1..Len(s) : above[s[i]] = IF i = Len(s) THEN 0 ELSE s[i + 1]

\* One more step leads there from below, and one less from above.
LEMMA LeadsOn ==
  ASSUME 0 \notin LockMembers, NEW above, NEW m \in LockMembers, NEW p \in LockMembers, above[m] = p
  PROVE  /\ \A s : Leads(above, p, s) => Leads(above, m, <<p>> \o s)
         /\ \A s : Leads(above, m, s) => s = <<p>> \o Tail(s) /\ Leads(above, p, Tail(s))
<1>1. ASSUME NEW s, Leads(above, p, s) PROVE Leads(above, m, <<p>> \o s)
  <2>1. s \in Seq(LockMembers) /\ above[p] = IF s = <<>> THEN 0 ELSE s[1]
    BY <1>1 DEF Leads
  <2>2. PICK q \in Seq(LockMembers) : q = <<p>> \o s
    BY <2>1, Cons
  <2>3. Len(s) \in Nat /\ Len(q) = Len(s) + 1 /\ q[1] = p /\ q # <<>> /\ \A i \in 1..Len(s) : q[i + 1] = s[i]
    BY <2>1, <2>2, Cons
  <2>4. s = <<>> <=> Len(s) = 0
    BY <2>1, EmptySeq
  <2>5. ASSUME NEW i \in 1..Len(q) PROVE above[q[i]] = IF i = Len(q) THEN 0 ELSE q[i + 1]
    <3>1. CASE i = 1
      <4>1. CASE s = <<>>
        BY <2>1, <2>3, <2>4, <3>1, <4>1
      <4>2. CASE s # <<>>
        <5>1. 1 \in 1..Len(s) /\ i # Len(q)
          BY <2>3, <2>4, <3>1, <4>2
        <5>2. q[1 + 1] = s[1]
          BY <2>3, <5>1
        <5> QED
          BY <2>1, <2>3, <3>1, <4>2, <5>1, <5>2
      <4> QED
        BY <4>1, <4>2
    <3>2. CASE i # 1
      <4>1. PICK j \in 1..Len(s) : i = j + 1
        <5>1. i - 1 \in 1..Len(s) /\ i = (i - 1) + 1
          BY <2>3, <3>2
        <5> QED
          BY <5>1
      <4>2. q[i] = s[j] /\ above[s[j]] = IF j = Len(s) THEN 0 ELSE s[j + 1]
        BY <1>1, <2>3, <4>1 DEF Leads
      <4>3. (i = Len(q)) <=> (j = Len(s))
        BY <2>3, <4>1
      <4>4. CASE j = Len(s)
        BY <4>2, <4>3, <4>4
      <4>5. CASE j # Len(s)
        <5>1. i \in 1..Len(s)
          BY <2>3, <4>1, <4>5
        <5>2. q[i + 1] = s[j + 1]
          BY <2>3, <4>1, <5>1
        <5> QED
          BY <4>2, <4>3, <4>5, <5>2
      <4> QED
        BY <4>4, <4>5
    <3> QED
      BY <3>1, <3>2
  <2> QED
    BY <2>2, <2>3, <2>5 DEF Leads
<1>2. ASSUME NEW s, Leads(above, m, s) PROVE s = <<p>> \o Tail(s) /\ Leads(above, p, Tail(s))
  <2>1. s \in Seq(LockMembers) /\ s # <<>> /\ s[1] = p
    BY <1>2 DEF Leads
  <2>2. Len(s) \in Nat \ {0} /\ s = <<p>> \o Tail(s)
    BY <2>1, Uncons
  <2>3. PICK q \in Seq(LockMembers) : q = Tail(s)
    BY <2>1, Uncons
  <2>4. Len(q) = Len(s) - 1 /\ \A i \in 1..Len(s) - 1 : q[i] = s[i + 1]
    BY <2>1, <2>3, Uncons
  <2>5. q = <<>> <=> Len(q) = 0
    BY <2>3, EmptySeq
  <2>6. above[p] = IF q = <<>> THEN 0 ELSE q[1]
    <3>1. 1 \in 1..Len(s) /\ above[s[1]] = IF 1 = Len(s) THEN 0 ELSE s[1 + 1]
      <4>1. 1 \in 1..Len(s)
        BY <2>2
      <4> QED
        BY <1>2, <4>1 DEF Leads
    <3>2. CASE q = <<>>
      BY <2>1, <2>2, <2>4, <2>5, <3>1, <3>2
    <3>3. CASE q # <<>>
      <4>1. 1 \in 1..Len(s) - 1
        BY <2>2, <2>4, <2>5, <3>3
      <4> QED
        BY <2>1, <2>4, <3>1, <3>3, <4>1
    <3> QED
      BY <3>2, <3>3
  <2>7. ASSUME NEW i \in 1..Len(q) PROVE above[q[i]] = IF i = Len(q) THEN 0 ELSE q[i + 1]
    <3>1. PICK j \in 1..Len(s) : j = i + 1
      <4>1. i + 1 \in 1..Len(s)
        BY <2>2, <2>4
      <4> QED
        BY <4>1
    <3>2. q[i] = s[j] /\ above[s[j]] = IF j = Len(s) THEN 0 ELSE s[j + 1]
      BY <1>2, <2>4, <3>1 DEF Leads
    <3>3. (i = Len(q)) <=> (j = Len(s))
      BY <2>2, <2>4, <3>1
    <3>4. CASE j = Len(s)
      BY <3>2, <3>3, <3>4
    <3>5. CASE j # Len(s)
      <4>1. j \in 1..Len(s) - 1
        <5>1. Len(s) \in Nat
          BY <2>2
        <5>2. j \in 1..Len(s) /\ j # Len(s)
          BY <3>1, <3>5
        <5> QED
          BY <5>1, <5>2
      <4>2. q[j] = s[j + 1]
        BY <2>4, <4>1
      <4> QED
        BY <3>1, <3>2, <3>3, <3>5, <4>2
    <3> QED
      BY <3>4, <3>5
  <2> QED
    BY <2>2, <2>3, <2>6, <2>7, Zenon DEF Leads
<1> QED
  BY <1>1, <1>2

\* One sequence leads to the top.
LEMMA LeadsOnce ==
  ASSUME 0 \notin LockMembers, NEW above, Rooted(above)
  PROVE  \A m \in LockMembers :
           /\ \E s : Leads(above, m, s)
           /\ \A s, q : Leads(above, m, s) /\ Leads(above, m, q) => s = q
<1>1. above \in [LockMembers -> LockMembers \union {0}]
  BY DEF Rooted
<1>2. ASSUME NEW m \in LockMembers, above[m] = 0
      PROVE  /\ Leads(above, m, <<>>)
             /\ \A s : Leads(above, m, s) => s = <<>>
  <2>1. Leads(above, m, <<>>)
    BY <1>2 DEF Leads
  <2>2. ASSUME NEW s, Leads(above, m, s), s # <<>> PROVE FALSE
    <3>1. s \in Seq(LockMembers) /\ s[1] = 0
      BY <1>2, <2>2 DEF Leads
    <3> QED
      BY <2>2, <3>1
  <2> QED
    BY <2>1, <2>2
<1> DEFINE Good(m) == /\ \E s : Leads(above, m, s)
                      /\ \A s, q : Leads(above, m, s) /\ Leads(above, m, q) => s = q
           Bad == {m \in LockMembers : ~Good(m)}
<1>3. SUFFICES ASSUME Bad # {} PROVE FALSE
  OBVIOUS
<1>4. PICK m \in Bad : above[m] \notin Bad
  BY <1>3 DEF Rooted
<1>5. CASE above[m] = 0
  BY <1>2, <1>4, <1>5
<1>6. CASE above[m] # 0
  <2>1. PICK p \in LockMembers : p = above[m]
    BY <1>1, <1>4, <1>6
  <2>2. Good(p)
    BY <1>4, <2>1
  <2>3. \E s : Leads(above, m, s)
    <3>1. PICK s : Leads(above, p, s)
      BY <2>2
    <3>2. m \in LockMembers
      BY <1>4
    <3>3. Leads(above, m, <<p>> \o s)
      BY <2>1, <3>1, <3>2, LeadsOn
    <3> QED
      BY <3>3
  <2>4. ASSUME NEW s, NEW q, Leads(above, m, s), Leads(above, m, q) PROVE s = q
    <3>0. m \in LockMembers
      BY <1>4
    <3>1. s = <<p>> \o Tail(s) /\ q = <<p>> \o Tail(q) /\ Leads(above, p, Tail(s)) /\ Leads(above, p, Tail(q))
      BY <2>1, <2>4, <3>0, LeadsOn
    <3>2. Tail(s) = Tail(q)
      BY <2>2, <3>1, Zenon
    <3> QED
      BY <3>1, <3>2, Zenon
  <2> QED
    BY <1>4, <2>3, <2>4
<1> QED
  BY <1>5, <1>6

\* The recursion over those above has a solution.
LEMMA LinesExist ==
  ASSUME 0 \notin LockMembers, NEW above, Rooted(above)
  PROVE  \E line : Lines(above, line)
<1>0. PICK line : line = [m \in LockMembers |-> CHOOSE s : Leads(above, m, s)]
  OBVIOUS
<1>1. \A m \in LockMembers : Leads(above, m, line[m])
  BY <1>0, LeadsOnce
<1>2. ASSUME NEW m \in LockMembers
      PROVE  line[m] = IF above[m] = 0 THEN <<>> ELSE <<above[m]>> \o line[above[m]]
  <2>1. CASE above[m] = 0
    <3>1. Leads(above, m, <<>>)
      BY <2>1 DEF Leads
    <3> QED
      BY <1>1, <2>1, <3>1, LeadsOnce
  <2>2. CASE above[m] # 0
    <3>1. above[m] \in LockMembers
      BY <2>2 DEF Rooted
    <3>2. Leads(above, m, <<above[m]>> \o line[above[m]])
      BY <1>1, <3>1, LeadsOn
    <3>3. line[m] = <<above[m]>> \o line[above[m]]
      BY <1>1, <3>2, LeadsOnce
    <3> QED
      BY <2>2, <3>3
  <2> QED
    BY <2>1, <2>2
<1>3. line = [m \in LockMembers |-> IF above[m] = 0 THEN <<>> ELSE <<above[m]>> \o line[above[m]]]
  <2>1. DOMAIN line = LockMembers /\ line = [m \in LockMembers |-> line[m]]
    BY <1>0
  <2> QED
    BY <1>2, <2>1
<1> QED
  BY <1>3 DEF Lines

\* A line leads to the top, and who stands in it has the rest of it above.
LEMMA LineLeads ==
  ASSUME 0 \notin LockMembers, NEW above, Rooted(above), NEW line, Lines(above, line)
  PROVE  \A m \in LockMembers :
           /\ line[m] \in Seq(LockMembers)
           /\ above[m] = 0 <=> line[m] = <<>>
           /\ \A i \in 1..Len(line[m]) :
                /\ Len(line[line[m][i]]) = Len(line[m]) - i
                /\ \A j \in 1..(Len(line[m]) - i) : line[line[m][i]][j] = line[m][i + j]
<1> DEFINE Good(m) ==
             /\ line[m] \in Seq(LockMembers)
             /\ above[m] = 0 <=> line[m] = <<>>
             /\ \A i \in 1..Len(line[m]) :
                  /\ Len(line[line[m][i]]) = Len(line[m]) - i
                  /\ \A j \in 1..(Len(line[m]) - i) : line[line[m][i]][j] = line[m][i + j]
           Bad == {m \in LockMembers : ~Good(m)}
<1>1. SUFFICES ASSUME Bad # {} PROVE FALSE
  OBVIOUS
<1>2. PICK m \in Bad : above[m] \notin Bad
  BY <1>1 DEF Rooted
<1>3. m \in LockMembers /\ ~Good(m)
  BY <1>2, Zenon
<1>4. line[m] = IF above[m] = 0 THEN <<>> ELSE <<above[m]>> \o line[above[m]]
  BY <1>3, Zenon DEF Lines
<1>5. CASE above[m] = 0
  <2>1. line[m] = <<>>
    BY <1>4, <1>5
  <2> QED
    BY <1>3, <1>5, <2>1
<1>6. CASE above[m] # 0
  <2>1. PICK p \in LockMembers : p = above[m]
    BY <1>3, <1>6 DEF Rooted
  <2>2. Good(p)
    BY <1>2, <2>1
  <2>3. PICK s \in Seq(LockMembers) : s = line[p]
    BY <2>2
  <2>4. PICK q \in Seq(LockMembers) : q = line[m] /\ q = <<p>> \o s
    BY <1>4, <1>6, <2>1, <2>3, Cons
  <2>5. Len(s) \in Nat /\ Len(q) = Len(s) + 1 /\ q[1] = p /\ \A i \in 1..Len(s) : q[i + 1] = s[i]
    BY <2>3, <2>4, Cons
  <2>6. ASSUME NEW i \in 1..Len(q)
        PROVE  /\ Len(line[q[i]]) = Len(q) - i
               /\ \A j \in 1..(Len(q) - i) : line[q[i]][j] = q[i + j]
    <3>1. CASE i = 1
      <4>1. line[q[i]] = s
        BY <2>3, <2>5, <3>1
      <4>2. \A j \in 1..Len(q) - 1 : j \in 1..Len(s) /\ q[j + 1] = s[j] /\ 1 + j = j + 1
        BY <2>5
      <4> QED
        BY <2>5, <3>1, <4>1, <4>2
    <3>2. CASE i # 1
      <4>1. i - 1 \in 1..Len(s) /\ q[i] = s[i - 1]
        <5>1. i - 1 \in 1..Len(s) /\ (i - 1) + 1 = i
          BY <2>5, <3>2
        <5> QED
          BY <2>5, <5>1
      <4>2. /\ Len(line[s[i - 1]]) = Len(s) - (i - 1)
            /\ \A j \in 1..(Len(s) - (i - 1)) : line[s[i - 1]][j] = s[(i - 1) + j]
        BY <2>2, <2>3, <4>1
      <4>3. \A j \in 1..(Len(q) - i) : s[(i - 1) + j] = q[i + j] /\ j \in 1..(Len(s) - (i - 1))
        <5>1. ASSUME NEW j \in 1..(Len(q) - i)
              PROVE  j \in 1..(Len(s) - (i - 1)) /\ (i - 1) + j \in 1..Len(s) /\ ((i - 1) + j) + 1 = i + j
          BY <2>5, <3>2
        <5> QED
          BY <2>5, <5>1
      <4>4. Len(s) - (i - 1) = Len(q) - i
        BY <2>5
      <4>5. Len(line[q[i]]) = Len(q) - i
        BY <4>1, <4>2, <4>4
      <4> QED
        BY <4>1, <4>2, <4>3, <4>5
    <3> QED
      BY <3>1, <3>2
  <2>7. q # <<>>
    BY <2>3, <2>4, Cons
  <2> QED
    BY <1>3, <1>6, <2>4, <2>6, <2>7
<1> QED
  BY <1>5, <1>6

\* Those in the line above m, and the last of them, who is above all the others.
Over(line, m) == {line[m][i] : i \in 1..Len(line[m])}
Top(line, m) == IF line[m] = <<>> THEN m ELSE line[m][Len(line[m])]

\* Lines run together: who is above m has a part of the line of m above.
Nested(line, m) ==
  /\ line[m] \in Seq(LockMembers) /\ Over(line, m) \subseteq LockMembers
  /\ \A x \in Over(line, m) :
       /\ Len(line[x]) < Len(line[m])
       /\ Over(line, x) \subseteq Over(line, m) /\ Top(line, x) = Top(line, m)
  /\ \A x, y \in Over(line, m) :
       /\ Len(line[y]) < Len(line[x]) => y \in Over(line, x)
       /\ Len(line[y]) = Len(line[x]) => x = y
  /\ line[m] # <<>> => Top(line, m) \in Over(line, m)

\* Every line runs into that of whoever stands in it.
LEMMA LinesNest ==
  ASSUME 0 \notin LockMembers, NEW above, Rooted(above), NEW line, Lines(above, line)
  PROVE  \A m \in LockMembers :
           /\ Nested(line, m)
           /\ above[m] = 0 <=> line[m] = <<>>
           /\ above[m] # 0 => above[m] \in LockMembers /\ Over(line, m) = {above[m]} \union Over(line, above[m])
<1> SUFFICES ASSUME NEW m \in LockMembers
             PROVE  /\ Nested(line, m)
                    /\ above[m] = 0 <=> line[m] = <<>>
                    /\ above[m] # 0 => above[m] \in LockMembers
                                       /\ Over(line, m) = {above[m]} \union Over(line, above[m])
  OBVIOUS
<1>1. \A x \in LockMembers : line[x] \in Seq(LockMembers) /\ Len(line[x]) \in Nat
  BY LineLeads
<1>2. PICK n \in Nat : n = Len(line[m])
  BY <1>1
<1>3. \A i \in 1..n : line[m][i] \in LockMembers
  <2>1. \A s \in Seq(LockMembers) : \A i \in 1..Len(s) : s[i] \in LockMembers
    BY ElementOfSeq
  <2> QED
    BY <1>1, <1>2, <2>1
<1>4. \A i \in 1..n : /\ Len(line[line[m][i]]) = n - i
                      /\ \A j \in 1..(n - i) : line[line[m][i]][j] = line[m][i + j]
  BY <1>2, LineLeads
<1>5. line[m] = <<>> <=> n = 0
  BY <1>1, <1>2, EmptySeq
<1>6. ASSUME NEW i \in 1..n
      PROVE  Over(line, line[m][i]) = {line[m][k] : k \in (i + 1)..n}
  <2>1. Over(line, line[m][i]) = {line[line[m][i]][j] : j \in 1..(n - i)}
    BY <1>4 DEF Over
  <2>2. ASSUME NEW j \in 1..(n - i) PROVE i + j \in (i + 1)..n /\ line[line[m][i]][j] = line[m][i + j]
    BY <1>4
  <2>3. ASSUME NEW k \in (i + 1)..n PROVE k - i \in 1..(n - i) /\ line[line[m][i]][k - i] = line[m][k]
    <3>1. k - i \in 1..(n - i) /\ i + (k - i) = k
      OBVIOUS
    <3> QED
      BY <2>2, <3>1
  <2> QED
    BY <2>1, <2>2, <2>3
<1>7. ASSUME NEW i \in 1..n PROVE Top(line, line[m][i]) = Top(line, m)
  <2>1. line[line[m][i]] = <<>> <=> n - i = 0
    BY <1>1, <1>3, <1>4, EmptySeq
  <2>2. CASE i = n
    BY <1>2, <1>5, <2>1, <2>2 DEF Top
  <2>3. CASE i # n
    <3>1. n - i \in 1..(n - i) /\ i + (n - i) = n /\ n - i # 0 /\ n # 0
      BY <2>3
    <3>2. line[line[m][i]][n - i] = line[m][n]
      BY <1>4, <3>1
    <3> QED
      BY <1>2, <1>4, <1>5, <2>1, <3>1, <3>2 DEF Top
  <2> QED
    BY <2>2, <2>3
<1>8. Over(line, m) = {line[m][i] : i \in 1..n}
  BY <1>2 DEF Over
<1>9. Nested(line, m)
  <2>1. line[m] \in Seq(LockMembers) /\ Over(line, m) \subseteq LockMembers
    BY <1>1, <1>3, <1>8
  <2>2. ASSUME NEW x \in Over(line, m)
        PROVE  /\ Len(line[x]) < Len(line[m])
               /\ Over(line, x) \subseteq Over(line, m) /\ Top(line, x) = Top(line, m)
    <3>1. PICK i \in 1..n : x = line[m][i]
      BY <1>8
    <3>2. Len(line[x]) = n - i /\ n - i < n
      BY <1>4, <3>1
    <3>3. Over(line, x) \subseteq Over(line, m)
      <4>1. \A k \in (i + 1)..n : k \in 1..n
        BY <3>1
      <4> QED
        BY <1>6, <1>8, <3>1, <4>1
    <3> QED
      BY <1>2, <1>7, <3>1, <3>2, <3>3
  <2>3. ASSUME NEW x \in Over(line, m), NEW y \in Over(line, m)
        PROVE  /\ Len(line[y]) < Len(line[x]) => y \in Over(line, x)
               /\ Len(line[y]) = Len(line[x]) => x = y
    <3>1. PICK i \in 1..n : x = line[m][i]
      BY <1>8
    <3>2. PICK k \in 1..n : y = line[m][k]
      BY <1>8
    <3>3. Len(line[x]) = n - i /\ Len(line[y]) = n - k
      BY <1>4, <3>1, <3>2
    <3>4. ASSUME Len(line[y]) < Len(line[x]) PROVE y \in Over(line, x)
      <4>1. k \in (i + 1)..n
        BY <3>3, <3>4
      <4> QED
        BY <1>6, <3>1, <3>2, <4>1
    <3>5. ASSUME Len(line[y]) = Len(line[x]) PROVE x = y
      <4>1. i = k
        BY <3>3, <3>5
      <4> QED
        BY <3>1, <3>2, <4>1
    <3> QED
      BY <3>4, <3>5
  <2>4. ASSUME line[m] # <<>> PROVE Top(line, m) \in Over(line, m)
    <3>1. n \in 1..n
      BY <1>5, <2>4
    <3> QED
      BY <1>2, <1>8, <2>4, <3>1 DEF Top
  <2> QED
    BY <2>1, <2>2, <2>3, <2>4 DEF Nested
<1>10. above[m] = 0 <=> line[m] = <<>>
  BY LineLeads
<1>11. ASSUME above[m] # 0
       PROVE  above[m] \in LockMembers /\ Over(line, m) = {above[m]} \union Over(line, above[m])
  <2>1. above[m] \in LockMembers
    BY <1>11 DEF Rooted
  <2>2. PICK p \in LockMembers, s \in Seq(LockMembers) : p = above[m] /\ s = line[p]
    BY <1>1, <2>1
  <2>3. line[m] = <<p>> \o s
    BY <1>11, <2>2 DEF Lines
  <2>4. line[m][1] = p
    BY <2>2, <2>3, Cons
  <2>5. n # 0
    BY <1>5, <1>10, <1>11
  <2>6. Over(line, p) = {line[m][k] : k \in 2..n}
    <3>1. 1 \in 1..n /\ 1 + 1 = 2
      BY <2>5
    <3> QED
      BY <1>6, <2>4, <3>1
  <2>7. \A k \in 1..n : k = 1 \/ k \in 2..n
    OBVIOUS
  <2>8. 1 \in 1..n /\ 2..n \subseteq 1..n
    BY <2>5
  <2> QED
    BY <1>8, <2>1, <2>2, <2>4, <2>6, <2>7, <2>8
<1> QED
  BY <1>9, <1>10, <1>11

\* The two lines above a member.
LEMMA UplineLines == Lines(Sponsor, P!Upline) /\ Lines(Placement, P!PlacementUpline)
<1>1. 0 \notin LockMembers /\ Rooted(Sponsor) /\ Rooted(Placement)
  BY LocksAssumption
<1>2. Lines(Sponsor, P!Upline)
  BY <1>1, LinesExist, Zenon DEF Lines, P!Upline
<1>3. Lines(Placement, P!PlacementUpline)
  BY <1>1, LinesExist, Zenon DEF Lines, P!PlacementUpline
<1> QED
  BY <1>2, <1>3

Forebears(m) == Over(P!Upline, m)
Upward(m) == Over(P!PlacementUpline, m)
Depth(m) == Len(P!Upline[m])
Eldest(m) == Top(P!Upline, m)

\* What the lines above m have to do with each other.
Lineage(m) ==
  /\ P!Upline[m] \in Seq(LockMembers) /\ P!PlacementUpline[m] \in Seq(LockMembers)
  /\ Forebears(m) \subseteq LockMembers /\ Upward(m) \subseteq LockMembers /\ Depth(m) \in Nat
  /\ \A x \in Forebears(m) : Depth(x) < Depth(m) /\ Forebears(x) \subseteq Forebears(m)
  /\ \A x, y \in Forebears(m) : (Depth(y) < Depth(x) => y \in Forebears(x)) /\ (Depth(y) = Depth(x) => x = y)
  /\ \A x \in Forebears(m) \union Upward(m) : Eldest(x) = Eldest(m) /\ Eldest(m) \in Forebears(m)

\* Whoever is placed above m is of one sponsor's tree with m.
LEMMA Lineages == \A m \in LockMembers : Lineage(m)
<1>1. 0 \notin LockMembers /\ Rooted(Sponsor) /\ Rooted(Placement)
  BY LocksAssumption
<1>2. \A m \in LockMembers :
        /\ Nested(P!Upline, m)
        /\ Sponsor[m] = 0 <=> P!Upline[m] = <<>>
        /\ Sponsor[m] # 0 => Sponsor[m] \in LockMembers /\ Forebears(m) = {Sponsor[m]} \union Forebears(Sponsor[m])
  BY <1>1, UplineLines, LinesNest DEF Forebears
<1>3. \A m \in LockMembers :
        /\ Nested(P!PlacementUpline, m)
        /\ Placement[m] = 0 <=> P!PlacementUpline[m] = <<>>
        /\ Placement[m] # 0 => /\ Placement[m] \in LockMembers
                               /\ Upward(m) = {Placement[m]} \union Upward(Placement[m])
  BY <1>1, UplineLines, LinesNest DEF Upward
<1>4. \A m \in LockMembers : Placement[m] # 0 => Sponsor[m] # 0 /\ Sponsor[m] \in Upward(m)
  <2>1. ASSUME NEW m \in LockMembers, Placement[m] # 0
        PROVE  Sponsor[m] # 0 /\ Sponsor[m] \in Upward(m)
    <3>1. PICK s \in Seq(LockMembers) : s = P!PlacementUpline[m]
      BY <1>3, <2>1 DEF Nested
    <3>2. Sponsor[m] # 0 /\ \E i \in DOMAIN s : s[i] = Sponsor[m]
      BY <2>1, <3>1, LocksAssumption
    <3>3. DOMAIN s = 1..Len(s)
      BY <3>1, LenProperties
    <3> QED
      BY <3>1, <3>2, <3>3 DEF Upward, Over
  <2> QED
    BY <2>1
<1>5. \A m \in LockMembers : \A x \in Forebears(m) : Eldest(x) = Eldest(m) /\ Eldest(m) \in Forebears(m)
  <2>1. ASSUME NEW m \in LockMembers, NEW x \in Forebears(m)
        PROVE  Eldest(x) = Eldest(m) /\ Eldest(m) \in Forebears(m)
    <3>1. Nested(P!Upline, m) /\ x \in Over(P!Upline, m)
      BY <1>2, <2>1 DEF Forebears
    <3>2. Top(P!Upline, x) = Top(P!Upline, m)
      BY <3>1 DEF Nested
    <3>3. P!Upline[m] # <<>>
      <4>1. CASE P!Upline[m] = <<>>
        <5>1. Over(P!Upline, m) = {}
          BY <4>1, EmptySeq DEF Over
        <5> QED
          BY <3>1, <5>1
      <4> QED
        BY <4>1
    <3>4. Top(P!Upline, m) \in Over(P!Upline, m)
      BY <3>1, <3>3 DEF Nested
    <3> QED
      BY <3>2, <3>4 DEF Forebears, Eldest
  <2> QED
    BY <2>1
<1>6. \A m \in LockMembers : Upward(m) # {} => Placement[m] # 0
  <2>1. ASSUME NEW m \in LockMembers, Placement[m] = 0 PROVE Upward(m) = {}
    <3>1. P!PlacementUpline[m] = <<>>
      BY <1>3, <2>1
    <3> QED
      BY <3>1, EmptySeq DEF Upward, Over
  <2> QED
    BY <2>1
<1>7. \A m \in LockMembers : \A x \in Upward(m) : Eldest(x) = Eldest(m)
  <2> DEFINE Good(m) == \A x \in Upward(m) : Eldest(x) = Eldest(m)
             Bad == {m \in LockMembers : ~Good(m)}
  <2>1. SUFFICES ASSUME Bad # {} PROVE FALSE
    OBVIOUS
  <2>2. PICK m \in Bad : Placement[m] \notin Bad
    BY <1>1, <2>1 DEF Rooted
  <2>3. m \in LockMembers /\ ~Good(m)
    BY <2>2
  <2>4. Placement[m] # 0
    BY <1>6, <2>3
  <2>5. PICK p \in LockMembers : p = Placement[m] /\ Upward(m) = {p} \union Upward(p)
    BY <1>3, <2>3, <2>4
  <2>6. Good(p)
    BY <2>2, <2>5
  <2>7. \A x \in Upward(m) : Eldest(x) = Eldest(p)
    BY <2>5, <2>6
  <2>8. Sponsor[m] \in Upward(m) /\ Sponsor[m] \in Forebears(m)
    BY <1>2, <1>4, <2>3, <2>4
  <2>9. Eldest(Sponsor[m]) = Eldest(p) /\ Eldest(Sponsor[m]) = Eldest(m)
    BY <1>5, <2>3, <2>7, <2>8
  <2> QED
    BY <2>3, <2>7, <2>9
<1>8. \A m \in LockMembers : \A x \in Upward(m) : Eldest(m) \in Forebears(m)
  BY <1>2, <1>4, <1>5, <1>6
<1>9. ASSUME NEW m \in LockMembers PROVE Lineage(m)
  <2>1. /\ P!Upline[m] \in Seq(LockMembers) /\ P!PlacementUpline[m] \in Seq(LockMembers)
        /\ Forebears(m) \subseteq LockMembers /\ Upward(m) \subseteq LockMembers
    BY <1>2, <1>3, <1>9 DEF Nested, Forebears, Upward
  <2>2. Depth(m) \in Nat
    BY <2>1, LenProperties DEF Depth
  <2>3. \A x \in Forebears(m) : Depth(x) < Depth(m) /\ Forebears(x) \subseteq Forebears(m)
    BY <1>2, <1>9 DEF Nested, Forebears, Depth
  <2>4. \A x, y \in Forebears(m) : (Depth(y) < Depth(x) => y \in Forebears(x)) /\ (Depth(y) = Depth(x) => x = y)
    BY <1>2, <1>9 DEF Nested, Forebears, Depth
  <2>5. \A x \in Forebears(m) \union Upward(m) : Eldest(x) = Eldest(m) /\ Eldest(m) \in Forebears(m)
    BY <1>5, <1>7, <1>8, <1>9
  <2> QED
    BY <2>1, <2>2, <2>3, <2>4, <2>5 DEF Lineage
<1> QED
  BY <1>9

-----------------------------------------------------------------------------
(* Lock order: the rows of a transaction *)

\* Among natural numbers one is the least.
LEMMA LeastNat == \A Q \in SUBSET Nat : Q # {} => \E n \in Q : \A k \in Q : n <= k
<1>1. IsWellFoundedOn(OpToRel(<, Nat), Nat)
  BY NatLessThanWellFounded, Zenon
<1>2. ASSUME NEW Q \in SUBSET Nat, Q # {} PROVE \E n \in Q : \A k \in Q : n <= k
  <2>1. PICK n \in Q : \A k \in Q : ~(<<k, n>> \in OpToRel(<, Nat))
    BY <1>1, <1>2, WFMin, Zenon
  <2>2. \A k \in Q : ~(k < n)
    BY <2>1 DEF OpToRel
  <2> QED
    BY <2>2
<1> QED
  BY <1>2

Payments == {"investments", "wallet", "users"}
Tables == Payments \union {"fund", "team_volumes", "binary_legs"}
AllRows == Tables \X LockMembers

\* s is the payments of the first n of ms, three rows each.
PaysFirst(ms, n, s) ==
  /\ s \in Seq(AllRows) /\ Len(s) = 3 * n
  /\ \A a \in 1..n : /\ s[3 * a - 2] = <<"investments", ms[a]>>
                     /\ s[3 * a - 1] = <<"wallet", ms[a]>>
                     /\ s[3 * a] = <<"users", ms[a]>>

\* A row of the payments is one of somebody's three.
LEMMA Thirds ==
  \A n \in Nat : \A j \in 1..3 * n : \E a \in 1..n : j = 3 * a - 2 \/ j = 3 * a - 1 \/ j = 3 * a
<1>1. ASSUME NEW n \in Nat, NEW j \in 1..3 * n
      PROVE  \E a \in 1..n : j = 3 * a - 2 \/ j = 3 * a - 1 \/ j = 3 * a
  <2>1. PICK a \in Int : j = 3 * a - 2 \/ j = 3 * a - 1 \/ j = 3 * a
    <3>1. LET b == (j + 2) \div 3 IN b \in Int /\ (j = 3 * b - 2 \/ j = 3 * b - 1 \/ j = 3 * b)
      OBVIOUS
    <3> QED
      BY <3>1
  <2>2. a \in 1..n
    BY <2>1
  <2> QED
    BY <2>1, <2>2
<1> QED
  BY <1>1

\* There is one such sequence for each n, and one more payment leads to the next.
LEMMA PaysNext ==
  ASSUME NEW ms \in Seq(LockMembers)
  PROVE  /\ \A n \in Nat : \A s, q : PaysFirst(ms, n, s) /\ PaysFirst(ms, n, q) => s = q
         /\ \A n \in Nat : \A s : n + 1 \in 1..Len(ms) /\ PaysFirst(ms, n, s)
                                => PaysFirst(ms, n + 1, s \o P!PayOne(ms[n + 1]))
         /\ PaysFirst(ms, 0, <<>>)
<1>1. ASSUME NEW n \in Nat, NEW s, NEW q, PaysFirst(ms, n, s), PaysFirst(ms, n, q) PROVE s = q
  <2>1. s \in Seq(AllRows) /\ q \in Seq(AllRows) /\ Len(s) = 3 * n /\ Len(q) = 3 * n
    BY <1>1 DEF PaysFirst
  <2>2. ASSUME NEW j \in 1..3 * n PROVE s[j] = q[j]
    <3>1. PICK a \in 1..n : j = 3 * a - 2 \/ j = 3 * a - 1 \/ j = 3 * a
      BY Thirds
    <3> QED
      BY <1>1, <3>1 DEF PaysFirst
  <2> QED
    BY <2>1, <2>2, SeqEqual
<1>2. ASSUME NEW n \in Nat, NEW s, n + 1 \in 1..Len(ms), PaysFirst(ms, n, s)
      PROVE  PaysFirst(ms, n + 1, s \o P!PayOne(ms[n + 1]))
  <2>1. PICK m \in LockMembers : m = ms[n + 1]
    BY <1>2, ElementOfSeq
  <2>2. PICK p \in Seq(AllRows) : p = P!PayOne(m)
    <3>1. <<"investments", m>> \in AllRows /\ <<"wallet", m>> \in AllRows /\ <<"users", m>> \in AllRows
      BY <2>1 DEF AllRows, Tables, Payments
    <3>2. P!PayOne(m) \in Seq(AllRows)
      BY <3>1 DEF P!PayOne, P!Row
    <3> QED
      BY <3>2
  <2>3. Len(p) = 3 /\ p[1] = <<"investments", m>> /\ p[2] = <<"wallet", m>> /\ p[3] = <<"users", m>>
    BY <2>2 DEF P!PayOne, P!Row
  <2>4. s \in Seq(AllRows) /\ Len(s) = 3 * n
    BY <1>2 DEF PaysFirst
  <2>5. PICK q \in Seq(AllRows) : q = s \o p
    BY <2>2, <2>4, ConcatProperties
  <2>6. /\ Len(q) = 3 * n + 3
        /\ \A i \in 1..3 * n + 3 : q[i] = IF i <= 3 * n THEN s[i] ELSE p[i - 3 * n]
    <3>1. \A a, b \in Seq(AllRows) :
            /\ a \o b \in Seq(AllRows)
            /\ Len(a \o b) = Len(a) + Len(b)
            /\ \A i \in 1..Len(a) + Len(b) : (a \o b)[i] = IF i <= Len(a) THEN a[i] ELSE b[i - Len(a)]
      BY ConcatProperties
    <3> QED
      <4>1. Len(s) + Len(p) = 3 * n + 3
        BY <2>3, <2>4
      <4> QED
        BY <2>2, <2>4, <2>5, <3>1, <4>1
  <2>7. ASSUME NEW a \in 1..n + 1
        PROVE  /\ q[3 * a - 2] = <<"investments", ms[a]>>
               /\ q[3 * a - 1] = <<"wallet", ms[a]>>
               /\ q[3 * a] = <<"users", ms[a]>>
    <3>1. CASE a = n + 1
      <4>1. /\ 3 * a - 2 \in 1..3 * n + 3 /\ 3 * a - 1 \in 1..3 * n + 3 /\ 3 * a \in 1..3 * n + 3
            /\ ~(3 * a - 2 <= 3 * n) /\ ~(3 * a - 1 <= 3 * n) /\ ~(3 * a <= 3 * n)
            /\ 3 * a - 2 - 3 * n = 1 /\ 3 * a - 1 - 3 * n = 2 /\ 3 * a - 3 * n = 3
        BY <3>1
      <4> QED
        BY <2>1, <2>3, <2>6, <3>1, <4>1
    <3>2. CASE a # n + 1
      <4>1. /\ 3 * a - 2 \in 1..3 * n + 3 /\ 3 * a - 1 \in 1..3 * n + 3 /\ 3 * a \in 1..3 * n + 3
            /\ 3 * a - 2 <= 3 * n /\ 3 * a - 1 <= 3 * n /\ 3 * a <= 3 * n /\ a \in 1..n
        BY <3>2
      <4>2. /\ q[3 * a - 2] = s[3 * a - 2] /\ q[3 * a - 1] = s[3 * a - 1] /\ q[3 * a] = s[3 * a]
        BY <2>6, <4>1
      <4> QED
        BY <1>2, <4>1, <4>2 DEF PaysFirst
    <3> QED
      BY <3>1, <3>2
  <2>8. 3 * n + 3 = 3 * (n + 1)
    OBVIOUS
  <2> QED
    BY <2>1, <2>2, <2>5, <2>6, <2>7, <2>8 DEF PaysFirst
<1>3. PaysFirst(ms, 0, <<>>)
  BY EmptySeq DEF PaysFirst
<1> QED
  BY <1>1, <1>2, <1>3

\* PayAll pays all of them, one after the other.
LEMMA PaysAll == \A ms \in Seq(LockMembers) : PaysFirst(ms, Len(ms), P!PayAll(ms))
<1>1. SUFFICES ASSUME NEW ms \in Seq(LockMembers) PROVE PaysFirst(ms, Len(ms), P!PayAll(ms))
  OBVIOUS
<1>2. PICK n \in Nat : n = Len(ms) /\ DOMAIN ms = 1..n
  BY LenProperties
<1>3. PICK seqs : seqs = [i \in 1..n |-> P!PayOne(ms[i])]
  OBVIOUS
<1>4. Len(seqs) = n /\ P!PayAll(ms) = P!FlattenSeq(seqs)
  BY <1>2, <1>3 DEF P!PayAll
<1>5. CASE n = 0
  <2>1. seqs = <<>>
    BY <1>3, <1>5
  <2> QED
    BY <1>2, <1>4, <1>5, <2>1, PaysNext DEF P!FlattenSeq
<1>6. CASE n # 0
  <2> DEFINE Eq(f) == f = [i \in 1..n |-> IF i = 1 THEN seqs[i] ELSE f[i - 1] \o seqs[i]]
  <2>1. \A i \in 1..n : \E s : PaysFirst(ms, i, s)
    <3> DEFINE Bad == {i \in 1..n : ~\E s : PaysFirst(ms, i, s)}
    <3>1. SUFFICES ASSUME Bad # {} PROVE FALSE
      OBVIOUS
    <3>2. PICK i \in Bad : \A k \in Bad : i <= k
      <4>1. Bad \in SUBSET Nat
        OBVIOUS
      <4> QED
        BY <3>1, <4>1, LeastNat
    <3>3. PICK h \in Nat : i = h + 1
      <4>1. i - 1 \in Nat /\ i = (i - 1) + 1
        BY <3>2
      <4> QED
        BY <4>1
    <3>4. \E s : PaysFirst(ms, h, s)
      <4>1. CASE h = 0
        BY <4>1, PaysNext
      <4>2. CASE h # 0
        <5>1. h \in 1..n /\ ~(i <= h)
          BY <3>2, <3>3, <4>2
        <5> QED
          BY <3>2, <5>1
      <4> QED
        BY <4>1, <4>2
    <3>5. h + 1 \in 1..Len(ms)
      BY <1>2, <3>2, <3>3
    <3> QED
      BY <3>2, <3>3, <3>4, <3>5, PaysNext
  <2>2. \E f : Eq(f)
    <3>1. PICK g : g = [i \in 1..n |-> CHOOSE s : PaysFirst(ms, i, s)]
      OBVIOUS
    <3>2. \A i \in 1..n : PaysFirst(ms, i, g[i])
      BY <2>1, <3>1
    <3>3. ASSUME NEW i \in 1..n PROVE g[i] = IF i = 1 THEN seqs[i] ELSE g[i - 1] \o seqs[i]
      <4>1. CASE i = 1
        <5>1. PaysFirst(ms, 1, <<>> \o P!PayOne(ms[1]))
          <6>1. 0 + 1 = 1 /\ 1 \in 1..Len(ms) /\ 0 \in Nat
            BY <1>2, <1>6
          <6> QED
            BY <6>1, PaysNext
        <5>2. g[1] = <<>> \o P!PayOne(ms[1])
          BY <3>2, <4>1, <5>1, PaysNext
        <5>3. <<>> \o P!PayOne(ms[1]) = P!PayOne(ms[1])
          <6>1. 1 \in 1..Len(ms)
            BY <1>2, <1>6
          <6>2. ms[1] \in LockMembers
            BY <6>1, ElementOfSeq
          <6>3. P!PayOne(ms[1]) \in Seq(AllRows)
            BY <6>2 DEF P!PayOne, P!Row, AllRows, Tables, Payments
          <6> QED
            BY <6>3, ConcatEmptySeq
        <5> QED
          BY <1>3, <4>1, <5>2, <5>3
      <4>2. CASE i # 1
        <5>1. PICK h \in Nat : i = h + 1 /\ h = i - 1
          <6>1. i - 1 \in Nat /\ i = (i - 1) + 1
            BY <4>2
          <6> QED
            BY <6>1
        <5>2. h \in 1..n /\ h + 1 \in 1..Len(ms)
          BY <1>2, <4>2, <5>1
        <5>3. PaysFirst(ms, i, g[h] \o P!PayOne(ms[i]))
          BY <3>2, <5>1, <5>2, PaysNext
        <5>4. g[i] = g[h] \o P!PayOne(ms[i])
          <6>1. \A s, q : PaysFirst(ms, i, s) /\ PaysFirst(ms, i, q) => s = q
            BY PaysNext
          <6> QED
            BY <3>2, <5>3, <6>1
        <5> QED
          BY <1>3, <4>2, <5>1, <5>4
      <4> QED
        BY <4>1, <4>2
    <3>4. Eq(g)
      <4>1. g = [i \in 1..n |-> g[i]]
        BY <3>1
      <4> QED
        BY <3>3, <4>1
    <3> QED
      BY <3>4
  <2>3. PICK f : f = (CHOOSE e : Eq(e))
    BY Zenon
  <2>4. Eq(f)
    BY <2>2, <2>3, Zenon
  <2>5. P!FlattenSeq(seqs) = f[n]
    BY <1>4, <1>6, <2>3 DEF P!FlattenSeq
  <2>6. \A i \in 1..n : PaysFirst(ms, i, f[i])
    <3> DEFINE Bad == {i \in 1..n : ~PaysFirst(ms, i, f[i])}
    <3>1. SUFFICES ASSUME Bad # {} PROVE FALSE
      OBVIOUS
    <3>2. PICK i \in Bad : \A k \in Bad : i <= k
      <4>1. Bad \in SUBSET Nat
        OBVIOUS
      <4> QED
        BY <3>1, <4>1, LeastNat
    <3> HIDE DEF Eq
    <3>3. f[i] = IF i = 1 THEN seqs[i] ELSE f[i - 1] \o seqs[i]
      BY <2>4, <3>2 DEF Eq
    <3>4. CASE i = 1
      <4>1. PaysFirst(ms, 1, <<>> \o P!PayOne(ms[1])) /\ ms[1] \in LockMembers
        <5>1. 0 + 1 = 1 /\ 1 \in 1..Len(ms) /\ 0 \in Nat
          BY <1>2, <1>6
        <5> QED
          BY <5>1, PaysNext, ElementOfSeq
      <4>2. <<>> \o P!PayOne(ms[1]) = P!PayOne(ms[1])
        <5>1. P!PayOne(ms[1]) \in Seq(AllRows)
          BY <4>1 DEF P!PayOne, P!Row, AllRows, Tables, Payments
        <5> QED
          BY <5>1, ConcatEmptySeq
      <4> QED
        BY <1>3, <3>2, <3>3, <3>4, <4>1, <4>2
    <3>5. CASE i # 1
      <4>1. PICK h \in Nat : i = h + 1 /\ h = i - 1
        <5>1. i - 1 \in Nat /\ i = (i - 1) + 1
          BY <3>2, <3>5
        <5> QED
          BY <5>1
      <4>2. h \in 1..n /\ h + 1 \in 1..Len(ms) /\ ~(i <= h)
        BY <1>2, <3>2, <3>5, <4>1
      <4>3. PaysFirst(ms, h, f[h])
        BY <3>2, <4>2
      <4>4. PaysFirst(ms, i, f[h] \o P!PayOne(ms[i]))
        BY <4>1, <4>2, <4>3, PaysNext
      <4> QED
        BY <1>3, <3>2, <3>3, <3>5, <4>1, <4>4
    <3> QED
      BY <3>4, <3>5
  <2> QED
    BY <1>2, <1>4, <1>6, <2>5, <2>6
<1> QED
  BY <1>5, <1>6

\* The rows of a set of members by id: ById finds an order, and it is of all of them.
LEMMA ByIdAscends ==
  \A ids \in SUBSET LockMembers : \A s : s = P!ById(ids) =>
    /\ s \in Seq(ids) /\ {s[i] : i \in 1..Len(s)} = ids
    /\ \A i, j \in 1..Len(s) : i < j => s[i] < s[j]
<1> DEFINE Ascends(ids, s) == /\ s \in [1..Cardinality(ids) -> ids]
                              /\ \A i, j \in DOMAIN s : i < j => s[i] < s[j]
           Unordered == {n \in Nat : \E ids \in SUBSET LockMembers :
                                       Cardinality(ids) = n /\ ~\E s : Ascends(ids, s)}
<1>1. LockMembers \subseteq Nat /\ IsFiniteSet(LockMembers)
  BY LocksAssumption
<1>2. \A ids \in SUBSET LockMembers : IsFiniteSet(ids) /\ Cardinality(ids) \in Nat /\ ids \in SUBSET Nat
  BY <1>1, FS_Subset, FS_CardinalityType
<1>3. ASSUME Unordered # {} PROVE FALSE
  <2>1. PICK n \in Unordered : \A k \in Unordered : n <= k
    <3>1. Unordered \in SUBSET Nat
      OBVIOUS
    <3> QED
      BY <1>3, <3>1, LeastNat
  <2>2. PICK ids \in SUBSET LockMembers : Cardinality(ids) = n /\ ~\E s : Ascends(ids, s)
    BY <2>1
  <2>3. CASE n = 0
    <3>1. ids = {}
      BY <1>2, <2>2, <2>3, FS_EmptySet
    <3>2. Ascends(ids, [i \in 1..0 |-> i])
      BY <2>2, <2>3
    <3> QED
      BY <2>2, <3>2
  <2>4. CASE n # 0
    <3>1. ids # {}
      BY <1>2, <2>2, <2>4, FS_EmptySet
    <3>2. PICK x \in ids : \A y \in ids : x <= y
      BY <1>2, <3>1, LeastNat
    <3>3. PICK less \in SUBSET LockMembers : less = ids \ {x}
      BY <2>2
    <3>4. n \in Nat \ {0} /\ Cardinality(less) = n - 1
      BY <1>2, <2>1, <2>2, <2>4, <3>2, <3>3, FS_RemoveElement
    <3>5. PICK q : Ascends(less, q)
      <4>1. n - 1 \in Nat /\ ~(n <= n - 1)
        BY <3>4
      <4> QED
        BY <2>1, <3>4, <4>1
    <3>6. q \in [1..(n - 1) -> less] /\ \A i, j \in 1..(n - 1) : i < j => q[i] < q[j]
      BY <3>4, <3>5
    <3>7. PICK s : s = [i \in 1..n |-> IF i = 1 THEN x ELSE q[i - 1]]
      OBVIOUS
    <3>8. \A i \in 1..n : i # 1 => i - 1 \in 1..(n - 1)
      BY <3>4
    <3>9. s \in [1..n -> ids]
      BY <3>3, <3>6, <3>7, <3>8
    <3>10. \A y \in less : x < y
      BY <1>2, <2>2, <3>2, <3>3
    <3>11. ASSUME NEW i \in 1..n, NEW j \in 1..n, i < j PROVE s[i] < s[j]
      <4>1. j # 1 /\ j - 1 \in 1..(n - 1) /\ s[j] = q[j - 1]
        BY <3>7, <3>8, <3>11
      <4>2. CASE i = 1
        BY <3>6, <3>7, <3>10, <4>1, <4>2
      <4>3. CASE i # 1
        <5>1. i - 1 \in 1..(n - 1) /\ i - 1 < j - 1 /\ s[i] = q[i - 1]
          BY <3>7, <3>8, <3>11, <4>3
        <5> QED
          BY <3>6, <4>1, <5>1
      <4> QED
        BY <4>2, <4>3
    <3>12. DOMAIN s = 1..n
      BY <3>7
    <3>13. Ascends(ids, s)
      BY <2>2, <3>9, <3>11, <3>12
    <3> QED
      BY <2>2, <3>13
  <2> QED
    BY <2>3, <2>4
<1>4. ASSUME NEW ids \in SUBSET LockMembers, NEW s, s = P!ById(ids)
      PROVE  /\ s \in Seq(ids) /\ {s[i] : i \in 1..Len(s)} = ids
             /\ \A i, j \in 1..Len(s) : i < j => s[i] < s[j]
  <2>1. \E q : Ascends(ids, q)
    <3>1. Cardinality(ids) \notin Unordered
      BY <1>3
    <3> QED
      BY <1>2, <3>1
  <2>2. Ascends(ids, s)
    <3>1. s = CHOOSE q \in [1..Cardinality(ids) -> ids] : \A i, j \in DOMAIN q : i < j => q[i] < q[j]
      BY <1>4 DEF P!ById, P!Cardinality, Cardinality
    <3> QED
      BY <2>1, <3>1
  <2>3. PICK n \in Nat : n = Cardinality(ids)
    BY <1>2
  <2>4. s \in [1..n -> ids] /\ \A i, j \in 1..n : i < j => s[i] < s[j]
    BY <2>2, <2>3
  <2>5. s \in Seq(ids) /\ Len(s) = n
    BY <2>4
  <2>6. ASSUME NEW y \in ids, \A i \in 1..n : s[i] # y PROVE FALSE
    <3>1. IsFiniteSet(1..n) /\ Cardinality(1..n) = n
      <4>1. 1 \in Int /\ n \in Int /\ (1 <= n => n - 1 + 1 = n) /\ (~(1 <= n) => n = 0)
        OBVIOUS
      <4> QED
        BY <4>1, FS_Interval
    <3>2. PICK less : less = ids \ {y}
      OBVIOUS
    <3>3. IsFiniteSet(less) /\ Cardinality(less) = n - 1 /\ Cardinality(less) < n
      BY <1>2, <2>3, <2>6, <3>2, FS_RemoveElement
    <3>4. s \in [1..n -> less]
      BY <2>4, <2>6, <3>2
    <3>5. PICK i, j \in 1..n : i # j /\ s[i] = s[j]
      <4>1. PICK D : D = 1..n
        OBVIOUS
      <4>2. IsFiniteSet(D) /\ Cardinality(less) < Cardinality(D) /\ s \in [D -> less]
        BY <3>1, <3>3, <3>4, <4>1
      <4>3. \E i, j \in D : i # j /\ s[i] = s[j]
        BY <3>3, <4>2, FS_PigeonHole
      <4> QED
        BY <4>1, <4>3
    <3>6. i < j \/ j < i
      BY <3>5
    <3>7. s[i] \in ids
      BY <2>4
    <3>8. s[i] \in Nat
      BY <1>2, <3>7
    <3> QED
      BY <2>4, <3>5, <3>6, <3>8
  <2>7. {s[i] : i \in 1..n} = ids
    BY <2>4, <2>6
  <2> QED
    BY <2>4, <2>5, <2>7
<1> QED
  BY <1>4

\* How far from the end of the payments a row is: who is deeper is paid first,
\* the investments before the wallet and the wallet before the user's total.
LeftOf(k) == IF k = "investments" THEN 2 ELSE IF k = "wallet" THEN 1 ELSE 0
RowRank(r) == 3 * Depth(r[2]) + LeftOf(r[1])

\* The rows go down, and who is paid is paid all three in turn.
Descends(s) == \A i, j \in 1..Len(s) : i < j => RowRank(s[j]) < RowRank(s[i])
InTurns(s) ==
  \A j \in 1..Len(s), k \in Payments :
    s[j][1] \in Payments /\ LeftOf(s[j][1]) < LeftOf(k) =>
      \E i \in 1..Len(s) : i < j /\ s[i] = <<k, s[j][2]>>

\* Payments are in turn, and go down where those who are paid do.
LEMMA PaymentsInTurn ==
  ASSUME NEW ms \in Seq(LockMembers), NEW s, PaysFirst(ms, Len(ms), s)
  PROVE  /\ s \in Seq(Payments \X {ms[a] : a \in 1..Len(ms)}) /\ InTurns(s)
         /\ (\A a, b \in 1..Len(ms) : a < b => Depth(ms[b]) < Depth(ms[a])) => Descends(s)
<1>1. PICK n \in Nat : n = Len(ms)
  BY LenProperties
<1>2. PICK who : who = {ms[a] : a \in 1..n}
  OBVIOUS
<1>3. s \in Seq(AllRows) /\ Len(s) = 3 * n
  BY <1>1 DEF PaysFirst
<1>4. \A a \in 1..n : /\ s[3 * a - 2] = <<"investments", ms[a]>>
                      /\ s[3 * a - 1] = <<"wallet", ms[a]>>
                      /\ s[3 * a] = <<"users", ms[a]>>
  BY <1>1 DEF PaysFirst
<1>5. \A a \in 1..n : ms[a] \in LockMembers /\ Depth(ms[a]) \in Nat
  <2>1. \A a \in 1..n : ms[a] \in LockMembers
    BY <1>1, ElementOfSeq
  <2> QED
    BY <2>1, Lineages DEF Lineage
<1> DEFINE Pays(j, a) == \/ j = 3 * a - 2 /\ s[j] = <<"investments", ms[a]>>
                         \/ j = 3 * a - 1 /\ s[j] = <<"wallet", ms[a]>>
                         \/ j = 3 * a /\ s[j] = <<"users", ms[a]>>
<1>6. ASSUME NEW j \in 1..Len(s) PROVE \E a \in 1..n : Pays(j, a)
  <2>1. PICK a \in 1..n : j = 3 * a - 2 \/ j = 3 * a - 1 \/ j = 3 * a
    BY <1>3, Thirds
  <2>2. CASE j = 3 * a - 2
    BY <1>4, <2>2
  <2>3. CASE j = 3 * a - 1
    BY <1>4, <2>3
  <2>4. CASE j = 3 * a
    BY <1>4, <2>4
  <2> QED
    BY <2>1, <2>2, <2>3, <2>4
<1> HIDE DEF Pays
<1>7. ASSUME NEW j \in 1..Len(s), NEW a \in 1..n, Pays(j, a)
       PROVE  /\ s[j][2] = ms[a] /\ s[j][1] \in Payments
              /\ \/ j = 3 * a - 2 /\ s[j] = <<"investments", ms[a]>> /\ LeftOf(s[j][1]) = 2
                 \/ j = 3 * a - 1 /\ s[j] = <<"wallet", ms[a]>> /\ LeftOf(s[j][1]) = 1
                 \/ j = 3 * a /\ s[j] = <<"users", ms[a]>> /\ LeftOf(s[j][1]) = 0
  <2>0. LeftOf("investments") = 2 /\ LeftOf("wallet") = 1 /\ LeftOf("users") = 0
    BY DEF LeftOf
  <2>1. CASE j = 3 * a - 2 /\ s[j] = <<"investments", ms[a]>>
    <3>1. s[j][1] = "investments" /\ s[j][2] = ms[a]
      BY <2>1
    <3> QED
      BY <2>0, <2>1, <3>1 DEF Payments
  <2>2. CASE j = 3 * a - 1 /\ s[j] = <<"wallet", ms[a]>>
    <3>1. s[j][1] = "wallet" /\ s[j][2] = ms[a]
      BY <2>2
    <3> QED
      BY <2>0, <2>2, <3>1 DEF Payments
  <2>3. CASE j = 3 * a /\ s[j] = <<"users", ms[a]>>
    <3>1. s[j][1] = "users" /\ s[j][2] = ms[a]
      BY <2>3
    <3> QED
      BY <2>0, <2>3, <3>1 DEF Payments
  <2> QED
    BY <1>7, <2>1, <2>2, <2>3 DEF Pays
<1>8. ASSUME NEW j \in 1..Len(s) PROVE s[j] \in Payments \X who
  <2>1. PICK a \in 1..n : Pays(j, a)
    BY <1>6
  <2>2. ms[a] \in who
    BY <1>2
  <2>3. \A k \in Payments : <<k, ms[a]>> \in Payments \X who
    BY <2>2
  <2> QED
    BY <1>7, <2>1, <2>3 DEF Payments
<1>9. s \in Seq(Payments \X who)
  <2>1. s \in [1..Len(s) -> AllRows] /\ Len(s) \in Nat
    BY <1>3, LenProperties
  <2>2. s \in [1..Len(s) -> Payments \X who]
    BY <1>8, <2>1
  <2> QED
    BY <2>1, <2>2
<1>10. ASSUME NEW j \in 1..Len(s), NEW k \in Payments, LeftOf(s[j][1]) < LeftOf(k)
      PROVE  \E i \in 1..Len(s) : i < j /\ s[i] = <<k, s[j][2]>>
  <2>1. PICK a \in 1..n : Pays(j, a)
    BY <1>6
  <2>2. 3 * a - 2 \in 1..Len(s) /\ 3 * a - 1 \in 1..Len(s) /\ 3 * a \in 1..Len(s)
    BY <1>3
  <2>3. /\ s[3 * a - 2] = <<"investments", s[j][2]>>
        /\ s[3 * a - 1] = <<"wallet", s[j][2]>>
    BY <1>4, <1>7, <2>1
  <2>4. \/ k = "investments" /\ LeftOf(k) = 2
        \/ k = "wallet" /\ LeftOf(k) = 1
        \/ k = "users" /\ LeftOf(k) = 0
    <3>1. LeftOf("investments") = 2 /\ LeftOf("wallet") = 1 /\ LeftOf("users") = 0
      BY DEF LeftOf
    <3> QED
      BY <3>1 DEF Payments
  <2>5. CASE j = 3 * a - 2 /\ LeftOf(s[j][1]) = 2
    BY <1>10, <2>4, <2>5
  <2>6. CASE j = 3 * a - 1 /\ LeftOf(s[j][1]) = 1
    <3>1. k = "investments"
      BY <1>10, <2>4, <2>6
    <3>2. 3 * a - 2 < j
      BY <2>6
    <3> QED
      BY <2>2, <2>3, <3>1, <3>2
  <2>7. CASE j = 3 * a /\ LeftOf(s[j][1]) = 0
    <3>1. k = "investments" \/ k = "wallet"
      BY <1>10, <2>4, <2>7
    <3>2. 3 * a - 2 < j /\ 3 * a - 1 < j
      BY <2>7
    <3> QED
      BY <2>2, <2>3, <3>1, <3>2
  <2> QED
    BY <1>7, <2>1, <2>5, <2>6, <2>7
<1>11. ASSUME \A a, b \in 1..n : a < b => Depth(ms[b]) < Depth(ms[a]) PROVE Descends(s)
  <2>1. ASSUME NEW i \in 1..Len(s), NEW j \in 1..Len(s), i < j
        PROVE  RowRank(s[j]) < RowRank(s[i])
    <3>1. PICK a \in 1..n : Pays(i, a)
      BY <1>6
    <3>2. PICK b \in 1..n : Pays(j, b)
      BY <1>6
    <3>3. PICK d \in Nat, e \in Nat : d = Depth(ms[a]) /\ e = Depth(ms[b])
      BY <1>5
    <3>4. PICK u \in 0..2, v \in 0..2 :
            /\ u = LeftOf(s[i][1]) /\ i = 3 * a - u
            /\ v = LeftOf(s[j][1]) /\ j = 3 * b - v
      BY <1>7, <3>1, <3>2
    <3>5. RowRank(s[i]) = 3 * d + u /\ RowRank(s[j]) = 3 * e + v
      BY <1>7, <3>1, <3>2, <3>3, <3>4 DEF RowRank
    <3>6. a <= b
      BY <2>1, <3>4
    <3>9. CASE a < b
      <4>1. e < d
        BY <1>11, <3>3, <3>9
      <4>2. u \in Int /\ 0 <= u /\ u <= 2 /\ v \in Int /\ 0 <= v /\ v <= 2
        OBVIOUS
      <4>3. 3 * e + v < 3 * d + u
        BY <4>1, <4>2
      <4> QED
        BY <3>5, <4>3
    <3>10. CASE a = b
      <4>1. d = e
        BY <3>3, <3>10
      <4>2. u \in Int /\ v \in Int /\ v < u
        <5>1. 3 * a - u < 3 * b - v
          BY <2>1, <3>4
        <5>2. a \in Int /\ b \in Int /\ a = b
          BY <3>10
        <5> QED
          BY <5>1, <5>2
      <4>3. 3 * e + v < 3 * d + u
        BY <3>3, <4>1, <4>2
      <4> QED
        BY <3>5, <4>3
    <3> QED
      BY <3>6, <3>9, <3>10
  <2> QED
    BY <2>1 DEF Descends
<1> QED
  BY <1>1, <1>2, <1>9, <1>10, <1>11 DEF InTurns

\* Two of them, one after the other.
LEMMA TurnsAfter ==
  ASSUME NEW s \in Seq(AllRows), NEW q \in Seq(AllRows), InTurns(s), InTurns(q)
  PROVE  InTurns(s \o q)
<1>1. PICK r \in Seq(AllRows) : r = s \o q
  BY ConcatProperties
<1>2. PICK n \in Nat, k \in Nat : n = Len(s) /\ k = Len(q)
  BY LenProperties
<1>3. Len(r) = n + k /\ \A i \in 1..n + k : r[i] = IF i <= n THEN s[i] ELSE q[i - n]
  BY <1>1, <1>2, ConcatProperties
<1>4. ASSUME NEW j \in 1..Len(r), NEW t \in Payments, r[j][1] \in Payments, LeftOf(r[j][1]) < LeftOf(t)
      PROVE  \E i \in 1..Len(r) : i < j /\ r[i] = <<t, r[j][2]>>
  <2>1. CASE j <= n
    <3>1. j \in 1..Len(s) /\ r[j] = s[j]
      BY <1>2, <1>3, <2>1
    <3>2. PICK i \in 1..Len(s) : i < j /\ s[i] = <<t, s[j][2]>>
      BY <1>4, <3>1 DEF InTurns
    <3>3. i \in 1..Len(r) /\ r[i] = s[i]
      BY <1>2, <1>3, <3>2
    <3> QED
      BY <3>1, <3>2, <3>3
  <2>2. CASE ~(j <= n)
    <3>1. j - n \in 1..Len(q) /\ r[j] = q[j - n]
      BY <1>2, <1>3, <2>2
    <3>2. PICK h \in 1..Len(q) : h < j - n /\ q[h] = <<t, q[j - n][2]>>
      BY <1>4, <3>1 DEF InTurns
    <3>3. h + n \in 1..Len(r) /\ ~(h + n <= n) /\ (h + n) - n = h /\ h + n < j
      BY <1>2, <1>3, <3>2
    <3>4. r[h + n] = q[h]
      BY <1>3, <3>3
    <3> QED
      BY <3>1, <3>2, <3>3, <3>4
  <2> QED
    BY <2>1, <2>2
<1> QED
  BY <1>1, <1>4 DEF InTurns

\* The rows of an accrual go down, from those of its earner to those of who is above.
AccrualPlan(m, plan, s) ==
  /\ s \in Seq(AllRows) /\ Descends(s)
  /\ \A i \in 1..Len(s) : /\ s[i][1] \in Payments
                          /\ s[i][2] = m \/ (plan # "BINARY" /\ s[i][2] \in Forebears(m))

\* Everybody above is paid in the order of their depths.
LEMMA UplineDescends ==
  \A m \in LockMembers :
    /\ \A a \in 1..Depth(m) : P!Upline[m][a] \in Forebears(m) /\ Depth(P!Upline[m][a]) = Depth(m) - a
    /\ \A a, b \in 1..Depth(m) : a < b => Depth(P!Upline[m][b]) < Depth(P!Upline[m][a])
<1>1. ASSUME NEW m \in LockMembers, NEW a \in 1..Depth(m)
      PROVE  P!Upline[m][a] \in Forebears(m) /\ Depth(P!Upline[m][a]) = Depth(m) - a
  <2>1. 0 \notin LockMembers /\ Rooted(Sponsor) /\ Lines(Sponsor, P!Upline)
    BY LocksAssumption, UplineLines
  <2>2. Len(P!Upline[P!Upline[m][a]]) = Len(P!Upline[m]) - a
    BY <1>1, <2>1, LineLeads DEF Depth
  <2> QED
    BY <2>2 DEF Depth, Forebears, Over
<1>2. ASSUME NEW m \in LockMembers, NEW a \in 1..Depth(m), NEW b \in 1..Depth(m), a < b
      PROVE  Depth(P!Upline[m][b]) < Depth(P!Upline[m][a])
  <2>1. Depth(m) \in Nat
    BY Lineages DEF Lineage
  <2>2. Depth(m) - b < Depth(m) - a
    BY <1>2, <2>1
  <2> QED
    BY <1>1, <2>2
<1> QED
  BY <1>1, <1>2

\* The rows of one member are paid as they come.
LEMMA PaysOne ==
  \A m \in LockMembers : /\ P!PayOne(m) \in Seq(AllRows) /\ Descends(P!PayOne(m)) /\ Len(P!PayOne(m)) = 3
                         /\ \A i \in 1..3 : P!PayOne(m)[i][1] \in Payments /\ P!PayOne(m)[i][2] = m
<1>1. ASSUME NEW m \in LockMembers
      PROVE  /\ P!PayOne(m) \in Seq(AllRows) /\ Descends(P!PayOne(m)) /\ Len(P!PayOne(m)) = 3
             /\ \A i \in 1..3 : P!PayOne(m)[i][1] \in Payments /\ P!PayOne(m)[i][2] = m
  <2>1. PICK ms \in Seq(LockMembers) : ms = <<m>>
    <3>1. <<m>> \in Seq(LockMembers)
      OBVIOUS
    <3> QED
      BY <3>1
  <2>2. Len(ms) = 1 /\ ms[1] = m
    BY <2>1
  <2>3. PaysFirst(ms, Len(ms), <<>> \o P!PayOne(m))
    <3>1. 0 + 1 = 1 /\ 0 \in Nat /\ 1 \in 1..Len(ms)
      BY <2>2
    <3> QED
      BY <2>2, <3>1, PaysNext
  <2>4. P!PayOne(m) \in Seq(AllRows)
    BY DEF P!PayOne, P!Row, AllRows, Tables, Payments
  <2>5. <<>> \o P!PayOne(m) = P!PayOne(m)
    BY <2>4, ConcatEmptySeq
  <2>6. PICK s \in Seq(AllRows) : s = P!PayOne(m)
    BY <2>4
  <2>7. PaysFirst(ms, Len(ms), s)
    BY <2>3, <2>5, <2>6
  <2>8. s \in Seq(Payments \X {ms[a] : a \in 1..Len(ms)}) /\ Descends(s)
    <3>1. \A a, b \in 1..Len(ms) : a < b => Depth(ms[b]) < Depth(ms[a])
      BY <2>2
    <3> QED
      BY <2>7, <3>1, PaymentsInTurn
  <2>9. Len(s) = 3
    BY <2>2, <2>7 DEF PaysFirst
  <2>10. {ms[a] : a \in 1..Len(ms)} = {m}
    BY <2>2
  <2>11. \A i \in 1..3 : s[i] \in Payments \X {m}
    <3>1. s \in Seq(Payments \X {m})
      BY <2>8, <2>10
    <3> QED
      BY <2>9, <3>1, ElementOfSeq
  <2> QED
    BY <2>6, <2>8, <2>9, <2>11
<1> QED
  BY <1>1

\* What an accrual locks.
LEMMA AccrualPlans ==
  \A m \in LockMembers : \A plan, s : s = P!AccrualRows(m, plan) => AccrualPlan(m, plan, s)
<1>1. SUFFICES ASSUME NEW m \in LockMembers, NEW plan, NEW s, s = P!AccrualRows(m, plan)
               PROVE  AccrualPlan(m, plan, s)
  OBVIOUS
<1>2. PICK one \in Seq(AllRows) : one = P!PayOne(m)
  BY PaysOne
<1>3. /\ Descends(one) /\ Len(one) = 3
      /\ \A i \in 1..3 : one[i][1] \in Payments /\ one[i][2] = m
  BY <1>2, PaysOne
<1>4. CASE plan = "BINARY"
  <2>1. s = one \o <<>>
    BY <1>1, <1>2, <1>4 DEF P!AccrualRows, P!PayGenerationBonus
  <2>2. s = one
    BY <2>1, ConcatEmptySeq
  <2> QED
    BY <1>3, <2>2 DEF AccrualPlan
<1>5. CASE plan # "BINARY"
  <2>1. PICK up \in Seq(LockMembers) : up = P!Upline[m]
    BY Lineages DEF Lineage
  <2>2. PICK rest : rest = P!PayAll(up)
    OBVIOUS
  <2>3. s = one \o rest
    BY <1>1, <1>2, <1>5, <2>1, <2>2 DEF P!AccrualRows, P!PayGenerationBonus
  <2>4. Len(up) = Depth(m)
    BY <2>1 DEF Depth
  <2>5. PaysFirst(up, Len(up), rest)
    BY <2>2, PaysAll
  <2>6. \A a, b \in 1..Len(up) : a < b => Depth(up[b]) < Depth(up[a])
    BY <2>1, <2>4, UplineDescends
  <2>7. rest \in Seq(Payments \X {up[a] : a \in 1..Len(up)}) /\ Descends(rest)
    BY <2>5, <2>6, PaymentsInTurn
  <2>8. {up[a] : a \in 1..Len(up)} = Forebears(m)
    BY <2>1 DEF Forebears, Over
  <2>9. rest \in Seq(AllRows)
    BY <2>5 DEF PaysFirst
  <2>10. PICK k \in Nat : k = Len(rest)
    BY <2>9, LenProperties
  <2>11. \A i \in 1..k : rest[i][1] \in Payments /\ rest[i][2] \in Forebears(m)
    <3>1. \A i \in 1..k : rest[i] \in Payments \X Forebears(m)
      BY <2>7, <2>8, <2>10, ElementOfSeq
    <3> QED
      BY <3>1
  <2>12. s \in Seq(AllRows) /\ Len(s) = 3 + k /\ \A i \in 1..3 + k : s[i] = IF i <= 3 THEN one[i] ELSE rest[i - 3]
    <3>1. \A a, b \in Seq(AllRows) :
            /\ a \o b \in Seq(AllRows) /\ Len(a \o b) = Len(a) + Len(b)
            /\ \A i \in 1..Len(a) + Len(b) : (a \o b)[i] = IF i <= Len(a) THEN a[i] ELSE b[i - Len(a)]
      BY ConcatProperties
    <3>2. Len(one) = 3 /\ Len(rest) = k /\ Len(one) + Len(rest) = 3 + k
      BY <1>3, <2>10
    <3>3. /\ one \o rest \in Seq(AllRows) /\ Len(one \o rest) = Len(one) + Len(rest)
          /\ \A i \in 1..Len(one) + Len(rest) :
               (one \o rest)[i] = IF i <= Len(one) THEN one[i] ELSE rest[i - Len(one)]
      BY <2>9, <3>1
    <3> QED
      BY <2>3, <3>2, <3>3
  <2>13. \A i \in 1..Len(s) : s[i][1] \in Payments /\ (s[i][2] = m \/ s[i][2] \in Forebears(m))
    <3>1. ASSUME NEW i \in 1..3 + k PROVE s[i][1] \in Payments /\ (s[i][2] = m \/ s[i][2] \in Forebears(m))
      <4>1. CASE i <= 3
        BY <1>3, <2>12, <4>1
      <4>2. CASE ~(i <= 3)
        <5>1. i - 3 \in 1..k
          BY <4>2
        <5> QED
          BY <2>11, <2>12, <4>2, <5>1
      <4> QED
        BY <4>1, <4>2
    <3> QED
      BY <2>12, <3>1
  <2>14. ASSUME NEW i \in 1..Len(s), NEW j \in 1..Len(s), i < j PROVE RowRank(s[j]) < RowRank(s[i])
    <3>1. i \in 1..3 + k /\ j \in 1..3 + k
      BY <2>12
    <3>2. CASE j <= 3
      <4>1. s[i] = one[i] /\ s[j] = one[j] /\ i \in 1..Len(one) /\ j \in 1..Len(one)
        BY <1>3, <2>12, <2>14, <3>1, <3>2
      <4> QED
        BY <1>3, <2>14, <4>1 DEF Descends
    <3>3. CASE ~(i <= 3)
      <4>1. /\ s[i] = rest[i - 3] /\ s[j] = rest[j - 3] /\ i - 3 \in 1..Len(rest) /\ j - 3 \in 1..Len(rest)
            /\ i - 3 < j - 3
        BY <2>10, <2>12, <2>14, <3>1, <3>3
      <4> QED
        BY <2>7, <4>1 DEF Descends
    <3>4. CASE i <= 3 /\ ~(j <= 3)
      <4>1. j - 3 \in 1..k /\ s[i] = one[i] /\ s[j] = rest[j - 3]
        BY <2>12, <3>1, <3>4
      <4>2. s[i][2] = m /\ s[j][2] \in Forebears(m)
        BY <1>3, <2>11, <3>1, <3>4, <4>1
      <4>3. PICK d \in Nat, e \in Nat : d = Depth(s[i][2]) /\ e = Depth(s[j][2]) /\ e < d
        <5>1. Depth(m) \in Nat /\ Depth(s[j][2]) < Depth(m) /\ s[j][2] \in LockMembers
          BY <4>2, Lineages DEF Lineage
        <5>2. Depth(s[j][2]) \in Nat
          BY <5>1, Lineages DEF Lineage
        <5> QED
          BY <4>2, <5>1, <5>2
      <4>4. LeftOf(s[i][1]) \in 0..2 /\ LeftOf(s[j][1]) \in 0..2
        BY DEF LeftOf
      <4>5. RowRank(s[i]) = 3 * d + LeftOf(s[i][1]) /\ RowRank(s[j]) = 3 * e + LeftOf(s[j][1])
        BY <4>3 DEF RowRank
      <4>6. \A u, v \in 0..2 : 3 * e + v < 3 * d + u
        BY <4>3
      <4> QED
        BY <4>4, <4>5, <4>6
    <3> QED
      BY <2>14, <3>1, <3>2, <3>3, <3>4
  <2> QED
    BY <1>5, <2>12, <2>13, <2>14 DEF AccrualPlan, Descends
<1> QED
  BY <1>4, <1>5

\* The bonuses of a purchase: to whoever is above, in turn; without a binary
\* tree, from the nearest sponsor up.
LatePlan(m, plan, s) ==
  /\ s \in Seq(AllRows) /\ InTurns(s)
  /\ \A i \in 1..Len(s) : /\ s[i][1] \in Payments \union {"binary_legs"}
                          /\ s[i][2] \in Forebears(m) \union Upward(m)
  /\ plan # "BINARY" =>
       Descends(s) /\ \A i \in 1..Len(s) : s[i][1] \in Payments /\ s[i][2] \in Forebears(m)

\* What the direct bonus locks.
LEMMA DirectRows ==
  \A m \in LockMembers : \A s : s = P!PayDirectBonus(m) =>
    /\ s \in Seq(AllRows) /\ InTurns(s) /\ Descends(s)
    /\ \A i \in 1..Len(s) : s[i][1] \in Payments /\ s[i][2] \in Forebears(m)
<1>1. SUFFICES ASSUME NEW m \in LockMembers, NEW s, s = P!PayDirectBonus(m)
               PROVE  /\ s \in Seq(AllRows) /\ InTurns(s) /\ Descends(s)
                      /\ \A i \in 1..Len(s) : s[i][1] \in Payments /\ s[i][2] \in Forebears(m)
  OBVIOUS
<1>2. PICK up \in Seq(LockMembers) : up = P!Upline[m]
  BY Lineages DEF Lineage
<1>3. PICK n \in Nat : n = IF Len(up) < DirectLevels THEN Len(up) ELSE DirectLevels
  BY LocksAssumption, LenProperties
<1>4. n <= Len(up) /\ Len(up) \in Nat /\ Len(up) = Depth(m)
  BY <1>2, <1>3, LocksAssumption, LenProperties DEF Depth
<1>5. \A a \in 1..n : a \in 1..Len(up) /\ up[a] \in LockMembers /\ 1 + a - 1 = a
  <2>1. \A a \in 1..n : a \in 1..Len(up) /\ 1 + a - 1 = a
    BY <1>4
  <2> QED
    BY <2>1, ElementOfSeq
<1>6. PICK ms \in Seq(LockMembers) : ms = SubSeq(up, 1, n)
  <2>1. 1 \in Int /\ n \in Int /\ \A i \in 1..n : up[i] \in LockMembers
    BY <1>5
  <2>2. SubSeq(up, 1, n) \in Seq(LockMembers)
    BY <2>1, SubSeqProperties
  <2> QED
    BY <2>2
<1>7. Len(ms) = n /\ \A a \in 1..n : ms[a] = up[a]
  <2>1. \A i \in 1..n : up[i] \in LockMembers
    BY <1>5
  <2>2. /\ Len(SubSeq(up, 1, n)) = IF 1 <= n THEN n - 1 + 1 ELSE 0
        /\ \A i \in 1..n - 1 + 1 : SubSeq(up, 1, n)[i] = up[1 + i - 1]
    BY <2>1, SubSeqProperties
  <2>3. (IF 1 <= n THEN n - 1 + 1 ELSE 0) = n /\ 1..n - 1 + 1 = 1..n
    OBVIOUS
  <2> QED
    BY <1>5, <1>6, <2>2, <2>3
<1>8. s = P!PayAll(ms)
  BY <1>1, <1>2, <1>3, <1>6 DEF P!PayDirectBonus
<1>9. PaysFirst(ms, Len(ms), s)
  BY <1>8, PaysAll
<1>10. \A a, b \in 1..Len(ms) : a < b => Depth(ms[b]) < Depth(ms[a])
  <2>1. ASSUME NEW a \in 1..n, NEW b \in 1..n, a < b PROVE Depth(ms[b]) < Depth(ms[a])
    <3>1. a \in 1..Depth(m) /\ b \in 1..Depth(m)
      BY <1>4, <1>5
    <3>2. ms[a] = P!Upline[m][a] /\ ms[b] = P!Upline[m][b]
      BY <1>2, <1>7
    <3> QED
      BY <2>1, <3>1, <3>2, UplineDescends
  <2> QED
    BY <1>7, <2>1
<1>11. s \in Seq(Payments \X {ms[a] : a \in 1..Len(ms)}) /\ InTurns(s) /\ Descends(s)
  BY <1>9, <1>10, PaymentsInTurn
<1>12. \A a \in 1..Len(ms) : ms[a] \in Forebears(m)
  BY <1>2, <1>5, <1>7 DEF Forebears, Over
<1>13. s \in Seq(AllRows)
  BY <1>9 DEF PaysFirst
<1>14. ASSUME NEW i \in 1..Len(s) PROVE s[i][1] \in Payments /\ s[i][2] \in Forebears(m)
  <2>1. s[i] \in Payments \X {ms[a] : a \in 1..Len(ms)}
    BY <1>11, ElementOfSeq
  <2> QED
    BY <1>12, <2>1
<1> QED
  BY <1>11, <1>13, <1>14

\* What the binary bonus locks.
LEMMA BinaryRows ==
  \A m \in LockMembers : \A s : s = P!PayBinaryBonus(m, "BINARY") =>
    /\ s \in Seq(AllRows) /\ InTurns(s)
    /\ \A i \in 1..Len(s) : s[i][1] \in Payments \union {"binary_legs"} /\ s[i][2] \in Upward(m)
<1>1. SUFFICES ASSUME NEW m \in LockMembers, NEW s, s = P!PayBinaryBonus(m, "BINARY")
               PROVE  /\ s \in Seq(AllRows) /\ InTurns(s)
                      /\ \A i \in 1..Len(s) : /\ s[i][1] \in Payments \union {"binary_legs"}
                                              /\ s[i][2] \in Upward(m)
  OBVIOUS
<1>2. PICK up \in Seq(LockMembers) : up = P!PlacementUpline[m]
  BY Lineages DEF Lineage
<1>3. PICK n \in Nat : n = Len(up) /\ DOMAIN up = 1..n
  BY LenProperties
<1>4. PICK pushed : pushed = [i \in 1..n |-> P!Row("binary_legs", up[i])]
  OBVIOUS
<1>5. \A i \in 1..n : up[i] \in Upward(m) /\ up[i] \in LockMembers
  <2>1. \A i \in 1..n : up[i] \in LockMembers
    BY <1>3, ElementOfSeq
  <2> QED
    BY <1>2, <1>3, <2>1 DEF Upward, Over
<1>6. pushed \in Seq(AllRows) /\ Len(pushed) = n /\ \A i \in 1..n : pushed[i] = <<"binary_legs", up[i]>>
  <2>1. \A i \in 1..n : <<"binary_legs", up[i]>> \in AllRows
    BY <1>5 DEF AllRows, Tables
  <2>2. pushed \in [1..n -> AllRows]
    BY <1>4, <2>1 DEF P!Row
  <2> QED
    BY <1>4, <2>2 DEF P!Row
<1>7. "binary_legs" \notin Payments
  BY DEF Payments
<1>8. InTurns(pushed)
  BY <1>6, <1>7 DEF InTurns
<1>9. PICK paid : paid = P!PayAll(up)
  OBVIOUS
<1>10. PaysFirst(up, Len(up), paid)
  BY <1>9, PaysAll
<1>11. paid \in Seq(AllRows) /\ InTurns(paid)
  BY <1>10, PaymentsInTurn DEF PaysFirst
<1>12. \A i \in 1..Len(paid) : paid[i][1] \in Payments /\ paid[i][2] \in Upward(m)
  <2>1. paid \in Seq(Payments \X {up[a] : a \in 1..Len(up)})
    BY <1>10, PaymentsInTurn
  <2>2. {up[a] : a \in 1..Len(up)} = Upward(m)
    BY <1>2 DEF Upward, Over
  <2>3. \A i \in 1..Len(paid) : paid[i] \in Payments \X Upward(m)
    BY <2>1, <2>2, ElementOfSeq
  <2> QED
    BY <2>3
<1>13. s = pushed \o paid
  BY <1>1, <1>2, <1>3, <1>4, <1>9 DEF P!PayBinaryBonus
<1>14. InTurns(s)
  BY <1>6, <1>8, <1>11, <1>13, TurnsAfter
<1>15. PICK k \in Nat : k = Len(paid)
  BY <1>11, LenProperties
<1>16. s \in Seq(AllRows) /\ Len(s) = n + k /\ \A i \in 1..n + k : s[i] = IF i <= n THEN pushed[i] ELSE paid[i - n]
  BY <1>6, <1>11, <1>13, <1>15, ConcatProperties
<1>17. ASSUME NEW i \in 1..n + k
       PROVE  s[i][1] \in Payments \union {"binary_legs"} /\ s[i][2] \in Upward(m)
  <2>1. CASE i <= n
    <3>1. i \in 1..n /\ s[i] = <<"binary_legs", up[i]>>
      BY <1>6, <1>16, <2>1
    <3> QED
      BY <1>5, <3>1
  <2>2. CASE ~(i <= n)
    <3>1. i - n \in 1..Len(paid) /\ s[i] = paid[i - n]
      BY <1>15, <1>16, <2>2
    <3> QED
      BY <1>12, <3>1
  <2> QED
    BY <2>1, <2>2
<1> QED
  BY <1>14, <1>16, <1>17

\* What both lock.
LEMMA LateRows ==
  \A m \in LockMembers : \A plan, s :
    s = P!PayDirectBonus(m) \o P!PayBinaryBonus(m, plan) => LatePlan(m, plan, s)
<1>1. SUFFICES ASSUME NEW m \in LockMembers, NEW plan, NEW s,
                      s = P!PayDirectBonus(m) \o P!PayBinaryBonus(m, plan)
               PROVE  LatePlan(m, plan, s)
  OBVIOUS
<1>2. PICK direct : direct = P!PayDirectBonus(m)
  OBVIOUS
<1>3. /\ direct \in Seq(AllRows) /\ InTurns(direct) /\ Descends(direct)
      /\ \A i \in 1..Len(direct) : direct[i][1] \in Payments /\ direct[i][2] \in Forebears(m)
  BY <1>2, DirectRows
<1>4. CASE plan # "BINARY"
  <2>1. s = direct \o <<>>
    BY <1>1, <1>2, <1>4 DEF P!PayBinaryBonus
  <2>2. s = direct
    BY <1>3, <2>1, ConcatEmptySeq
  <2> QED
    BY <1>3, <2>2 DEF LatePlan
<1>5. CASE plan = "BINARY"
  <2>1. PICK binary : binary = P!PayBinaryBonus(m, "BINARY")
    OBVIOUS
  <2>2. /\ binary \in Seq(AllRows) /\ InTurns(binary)
        /\ \A i \in 1..Len(binary) : /\ binary[i][1] \in Payments \union {"binary_legs"}
                                     /\ binary[i][2] \in Upward(m)
    BY <2>1, BinaryRows
  <2>3. s = direct \o binary
    BY <1>1, <1>2, <1>5, <2>1
  <2>4. InTurns(s)
    BY <1>3, <2>2, <2>3, TurnsAfter
  <2>5. PICK n \in Nat, k \in Nat : n = Len(direct) /\ k = Len(binary)
    BY <1>3, <2>2, LenProperties
  <2>6. s \in Seq(AllRows) /\ Len(s) = n + k /\ \A i \in 1..n + k : s[i] = IF i <= n THEN direct[i] ELSE binary[i - n]
    BY <1>3, <2>2, <2>3, <2>5, ConcatProperties
  <2>7. ASSUME NEW i \in 1..n + k
        PROVE  s[i][1] \in Payments \union {"binary_legs"} /\ s[i][2] \in Forebears(m) \union Upward(m)
    <3>1. CASE i <= n
      <4>1. i \in 1..Len(direct) /\ s[i] = direct[i]
        BY <2>5, <2>6, <3>1
      <4> QED
        BY <1>3, <4>1
    <3>2. CASE ~(i <= n)
      <4>1. i - n \in 1..Len(binary) /\ s[i] = binary[i - n]
        BY <2>5, <2>6, <3>2
      <4> QED
        BY <2>2, <4>1
    <3> QED
      BY <3>1, <3>2
  <2> QED
    BY <1>5, <2>4, <2>6, <2>7 DEF LatePlan
<1> QED
  BY <1>4, <1>5

\* The rows of a purchase, the first t of them before the bonuses: the buyer's
\* own, and those of all above in the order of their ids.
PurchasePlan(m, plan, s, t) ==
  /\ s \in Seq(AllRows) /\ t \in 2..Len(s)
  /\ s[1] = <<"fund", m>> /\ s[2] = <<"users", m>>
  /\ \A i \in 3..t : s[i][1] = "team_volumes" /\ s[i][2] \in Forebears(m)
  /\ \A i, j \in 3..t : i < j => s[i][2] < s[j][2]
  /\ \A x \in Forebears(m) : \E i \in 3..t : s[i] = <<"team_volumes", x>>
  /\ \A i \in (t + 1)..Len(s) : /\ s[i][1] \in Payments \union {"binary_legs"}
                                /\ s[i][2] \in Forebears(m) \union Upward(m)
  /\ plan # "BINARY" =>
       /\ \A i \in (t + 1)..Len(s) : s[i][1] \in Payments /\ s[i][2] \in Forebears(m)
       /\ \A i, j \in (t + 1)..Len(s) : i < j => RowRank(s[j]) < RowRank(s[i])
  /\ \A j \in (t + 1)..Len(s), k \in Payments :
       s[j][1] \in Payments /\ LeftOf(s[j][1]) < LeftOf(k) =>
         \E i \in (t + 1)..Len(s) : i < j /\ s[i] = <<k, s[j][2]>>

\* The buyer's own rows, and those of all above in the order of their ids.
EarlyPlan(m, s) ==
  /\ s \in Seq(AllRows) /\ Len(s) >= 2
  /\ s[1] = <<"fund", m>> /\ s[2] = <<"users", m>>
  /\ \A i \in 3..Len(s) : s[i][1] = "team_volumes" /\ s[i][2] \in Forebears(m)
  /\ \A i, j \in 3..Len(s) : i < j => s[i][2] < s[j][2]
  /\ \A x \in Forebears(m) : \E i \in 3..Len(s) : s[i] = <<"team_volumes", x>>

\* What the purchase locks before the bonuses.
LEMMA EarlyRows ==
  \A m \in LockMembers : \A s :
    s = <<P!Row("fund", m), P!Row("users", m)>> \o P!TeamRows(m) => EarlyPlan(m, s)
<1>1. SUFFICES ASSUME NEW m \in LockMembers, NEW s,
                      s = <<P!Row("fund", m), P!Row("users", m)>> \o P!TeamRows(m)
               PROVE  EarlyPlan(m, s)
  OBVIOUS
<1>2. Forebears(m) \in SUBSET LockMembers /\ P!Upline[m] \in Seq(LockMembers)
  BY Lineages DEF Lineage
<1>3. P!ToSet(P!Upline[m]) = Forebears(m)
  <2>1. DOMAIN P!Upline[m] = 1..Len(P!Upline[m])
    BY <1>2, LenProperties
  <2> QED
    BY <2>1 DEF P!ToSet, Forebears, Over
<1>4. PICK ids, up : ids \in SUBSET LockMembers /\ ids = Forebears(m) /\ up = P!ById(ids)
  BY <1>2
<1>5. /\ up \in Seq(Forebears(m)) /\ {up[i] : i \in 1..Len(up)} = Forebears(m)
      /\ \A i, j \in 1..Len(up) : i < j => up[i] < up[j]
  <2>1. /\ up \in Seq(ids) /\ {up[i] : i \in 1..Len(up)} = ids
        /\ \A i, j \in 1..Len(up) : i < j => up[i] < up[j]
    BY <1>4, ByIdAscends
  <2> QED
    BY <1>4, <2>1
<1>6. PICK n \in Nat : n = Len(up) /\ DOMAIN up = 1..n
  BY <1>5, LenProperties
<1>7. PICK team : team = [i \in 1..n |-> P!Row("team_volumes", up[i])]
  OBVIOUS
<1>8. P!TeamRows(m) = team
  BY <1>3, <1>4, <1>6, <1>7 DEF P!TeamRows
<1>9. \A i \in 1..n : up[i] \in Forebears(m)
  BY <1>5, <1>6
<1>10. team \in Seq(AllRows) /\ Len(team) = n /\ \A i \in 1..n : team[i] = <<"team_volumes", up[i]>>
  <2>1. \A i \in 1..n : <<"team_volumes", up[i]>> \in AllRows
    BY <1>2, <1>9 DEF AllRows, Tables
  <2>2. team \in [1..n -> AllRows]
    BY <1>7, <2>1 DEF P!Row
  <2> QED
    BY <1>7, <2>2 DEF P!Row
<1>11. PICK own : own = <<<<"fund", m>>, <<"users", m>>>>
  OBVIOUS
<1>12. own \in Seq(AllRows) /\ Len(own) = 2 /\ own[1] = <<"fund", m>> /\ own[2] = <<"users", m>>
  <2>1. <<"fund", m>> \in AllRows /\ <<"users", m>> \in AllRows
    BY DEF AllRows, Tables, Payments
  <2> QED
    BY <1>11, <2>1
<1>13. s = own \o team
  BY <1>1, <1>8, <1>11 DEF P!Row
<1>14. s \in Seq(AllRows) /\ Len(s) = 2 + n /\ \A i \in 1..2 + n : s[i] = IF i <= 2 THEN own[i] ELSE team[i - 2]
  <2>1. Len(own) = 2 /\ Len(team) = n
    BY <1>10, <1>12
  <2>2. /\ own \o team \in Seq(AllRows) /\ Len(own \o team) = Len(own) + Len(team)
        /\ \A i \in 1..Len(own) + Len(team) :
             (own \o team)[i] = IF i <= Len(own) THEN own[i] ELSE team[i - Len(own)]
    BY <1>10, <1>12, ConcatProperties
  <2> QED
    BY <1>13, <2>1, <2>2
<1>15. ASSUME NEW i \in 3..2 + n PROVE i - 2 \in 1..n /\ s[i] = <<"team_volumes", up[i - 2]>>
  <2>1. i - 2 \in 1..n /\ i \in 1..2 + n /\ ~(i <= 2)
    OBVIOUS
  <2> QED
    BY <1>10, <1>14, <2>1
<1>16. ASSUME NEW i \in 3..2 + n, NEW j \in 3..2 + n, i < j PROVE s[i][2] < s[j][2]
  <2>1. i - 2 < j - 2
    BY <1>16
  <2>2. up[i - 2] < up[j - 2]
    BY <1>5, <1>6, <1>15, <2>1
  <2> QED
    BY <1>15, <2>2
<1>17. ASSUME NEW x \in Forebears(m) PROVE \E i \in 3..2 + n : s[i] = <<"team_volumes", x>>
  <2>1. PICK a \in 1..n : x = up[a]
    BY <1>5, <1>6
  <2>2. a + 2 \in 3..2 + n /\ (a + 2) - 2 = a
    OBVIOUS
  <2>3. s[a + 2] = <<"team_volumes", up[(a + 2) - 2]>>
    BY <1>15, <2>2
  <2> QED
    BY <2>1, <2>2, <2>3
<1>18. s[1] = <<"fund", m>> /\ s[2] = <<"users", m>>
  <2>1. 1 \in 1..2 + n /\ 2 \in 1..2 + n
    OBVIOUS
  <2> QED
    BY <1>12, <1>14, <2>1
<1>19. Len(s) = 2 + n /\ Len(s) >= 2
  BY <1>14
<1>20. \A i \in 3..2 + n : s[i][1] = "team_volumes" /\ s[i][2] \in Forebears(m)
  BY <1>9, <1>15
<1> QED
  BY <1>14, <1>16, <1>17, <1>18, <1>19, <1>20 DEF EarlyPlan

\* What a purchase locks.
LEMMA PurchasePlans ==
  \A m \in LockMembers : \A plan, s : s = P!PurchaseRows(m, plan) => \E t : PurchasePlan(m, plan, s, t)
<1>1. SUFFICES ASSUME NEW m \in LockMembers, NEW plan, NEW s, s = P!PurchaseRows(m, plan)
               PROVE  \E t : PurchasePlan(m, plan, s, t)
  OBVIOUS
<1>2. PICK early : early = <<P!Row("fund", m), P!Row("users", m)>> \o P!TeamRows(m)
  OBVIOUS
<1>3. /\ early \in Seq(AllRows) /\ Len(early) >= 2
      /\ early[1] = <<"fund", m>> /\ early[2] = <<"users", m>>
      /\ \A i \in 3..Len(early) : early[i][1] = "team_volumes" /\ early[i][2] \in Forebears(m)
      /\ \A i, j \in 3..Len(early) : i < j => early[i][2] < early[j][2]
      /\ \A x \in Forebears(m) : \E i \in 3..Len(early) : early[i] = <<"team_volumes", x>>
  <2>1. EarlyPlan(m, early)
    BY <1>2, EarlyRows
  <2> QED
    BY <2>1 DEF EarlyPlan
<1>4. PICK direct, binary : direct = P!PayDirectBonus(m) /\ binary = P!PayBinaryBonus(m, plan)
  OBVIOUS
<1>5. direct \in Seq(AllRows) /\ binary \in Seq(AllRows)
  <2>1. CASE plan = "BINARY"
    BY <1>4, <2>1, DirectRows, BinaryRows
  <2>2. CASE plan # "BINARY"
    <3>1. binary = <<>>
      BY <1>4, <2>2 DEF P!PayBinaryBonus
    <3> QED
      BY <1>4, <3>1, DirectRows, EmptySeq
  <2> QED
    BY <2>1, <2>2
<1>6. PICK late : late = direct \o binary
  OBVIOUS
<1>7. LatePlan(m, plan, late)
  BY <1>4, <1>6, LateRows
<1>8. late \in Seq(AllRows)
  BY <1>7 DEF LatePlan
<1>9. s = early \o late
  <2>1. s = (early \o direct) \o binary
    BY <1>1, <1>2, <1>4 DEF P!PurchaseRows
  <2> QED
    BY <1>3, <1>5, <1>6, <2>1, ConcatAssociative
<1>10. PICK t \in Nat, k \in Nat : t = Len(early) /\ k = Len(late)
  BY <1>3, <1>8, LenProperties
<1>11. s \in Seq(AllRows) /\ Len(s) = t + k /\ \A i \in 1..t + k : s[i] = IF i <= t THEN early[i] ELSE late[i - t]
  BY <1>3, <1>8, <1>9, <1>10, ConcatProperties
<1>12. t >= 2 /\ \A i \in 1..t : s[i] = early[i]
  <2>1. \A i \in 1..t : i \in 1..t + k /\ i <= t
    OBVIOUS
  <2> QED
    BY <1>3, <1>10, <1>11, <2>1
<1>13. \A i \in (t + 1)..(t + k) : i - t \in 1..k /\ s[i] = late[i - t]
  <2>1. \A i \in (t + 1)..(t + k) : i - t \in 1..k /\ i \in 1..t + k /\ ~(i <= t)
    OBVIOUS
  <2> QED
    BY <1>11, <2>1
<1>14. /\ s[1] = <<"fund", m>> /\ s[2] = <<"users", m>>
       /\ \A i \in 3..t : s[i][1] = "team_volumes" /\ s[i][2] \in Forebears(m)
       /\ \A i, j \in 3..t : i < j => s[i][2] < s[j][2]
       /\ \A x \in Forebears(m) : \E i \in 3..t : s[i] = <<"team_volumes", x>>
  <2>1. 1 \in 1..t /\ 2 \in 1..t /\ \A i \in 3..t : i \in 1..t
    BY <1>12
  <2>2. \A i \in 3..t : s[i] = early[i]
    BY <1>12, <2>1
  <2>3. s[1] = early[1] /\ s[2] = early[2]
    BY <1>12, <2>1
  <2> QED
    BY <1>3, <1>10, <2>2, <2>3
<1>15. \A i \in (t + 1)..(t + k) : /\ s[i][1] \in Payments \union {"binary_legs"}
                                   /\ s[i][2] \in Forebears(m) \union Upward(m)
  BY <1>7, <1>10, <1>13 DEF LatePlan
<1>16. ASSUME plan # "BINARY"
       PROVE  /\ \A i \in (t + 1)..(t + k) : s[i][1] \in Payments /\ s[i][2] \in Forebears(m)
              /\ \A i, j \in (t + 1)..(t + k) : i < j => RowRank(s[j]) < RowRank(s[i])
  <2>1. Descends(late) /\ \A i \in 1..k : late[i][1] \in Payments /\ late[i][2] \in Forebears(m)
    BY <1>7, <1>10, <1>16 DEF LatePlan
  <2>2. ASSUME NEW i \in (t + 1)..(t + k), NEW j \in (t + 1)..(t + k), i < j
        PROVE  RowRank(s[j]) < RowRank(s[i])
    <3>1. i - t \in 1..k /\ j - t \in 1..k /\ i - t < j - t /\ s[i] = late[i - t] /\ s[j] = late[j - t]
      <4>1. i - t < j - t
        BY <2>2
      <4> QED
        BY <1>13, <4>1
    <3> QED
      BY <1>10, <2>1, <3>1 DEF Descends
  <2> QED
    BY <1>13, <2>1, <2>2
<1>17. ASSUME NEW j \in (t + 1)..(t + k), NEW p \in Payments, s[j][1] \in Payments,
              LeftOf(s[j][1]) < LeftOf(p)
       PROVE  \E i \in (t + 1)..(t + k) : i < j /\ s[i] = <<p, s[j][2]>>
  <2>1. j - t \in 1..k /\ s[j] = late[j - t]
    BY <1>13
  <2>2. PICK h \in 1..Len(late) : h < j - t /\ late[h] = <<p, late[j - t][2]>>
    BY <1>7, <1>10, <1>17, <2>1 DEF LatePlan, InTurns
  <2>3. h + t \in (t + 1)..(t + k) /\ h + t < j /\ (h + t) - t = h
    BY <1>10, <2>2
  <2> QED
    BY <1>13, <2>1, <2>2, <2>3
<1>18. t \in 2..Len(s)
  BY <1>11, <1>12
<1>19. PurchasePlan(m, plan, s, t)
  BY <1>11, <1>14, <1>15, <1>16, <1>17, <1>18 DEF PurchasePlan
<1> QED
  BY <1>19

-----------------------------------------------------------------------------
(* Lock order: what is held *)

\* A transaction has the first n of its rows and takes the others next; one
\* that has ended holds none.
Progress(t) ==
  LET rows == P!RowsOf(t)
  IN \E n \in 0..Len(rows) :
       /\ Len(todo[t]) = Len(rows) - n
       /\ \A i \in 1..Len(rows) - n : todo[t][i] = rows[n + i]
       /\ held[t] = {rows[i] : i \in 1..n} \/ (n = Len(rows) /\ held[t] = {})

LocksIInv ==
  /\ todo \in [P!Transactions -> Seq(AllRows)] /\ held \in [P!Transactions -> SUBSET AllRows]
  /\ \A t \in P!Transactions : Progress(t)
  /\ \A t, u \in P!Transactions : t # u => held[t] \intersect held[u] = {}

\* What transactions lock are rows.
LEMMA RowsOfTransactions ==
  \A t \in P!Transactions :
    /\ P!RowsOf(t) \in Seq(AllRows) /\ t.of \in LockMembers
    /\ \/ /\ t.kind = "purchase" /\ t.of \in Buyers /\ t.run = 0
          /\ \E n : PurchasePlan(t.of, structure, P!RowsOf(t), n)
       \/ t.kind = "accrual" /\ AccrualPlan(t.of, structure, P!RowsOf(t))
<1>1. ASSUME NEW t \in P!Transactions
      PROVE  /\ P!RowsOf(t) \in Seq(AllRows) /\ t.of \in LockMembers
             /\ \/ /\ t.kind = "purchase" /\ t.of \in Buyers /\ t.run = 0
                   /\ \E n : PurchasePlan(t.of, structure, P!RowsOf(t), n)
                \/ t.kind = "accrual" /\ AccrualPlan(t.of, structure, P!RowsOf(t))
  <2>1. CASE t \in [kind : {"purchase"}, of : Buyers, run : {0}]
    <3>1. t.kind = "purchase" /\ t.of \in Buyers /\ t.run = 0 /\ t.of \in LockMembers
      BY <2>1, LocksAssumption
    <3>2. PICK s : s = P!PurchaseRows(t.of, structure)
      OBVIOUS
    <3>3. P!RowsOf(t) = s
      BY <3>1, <3>2 DEF P!RowsOf
    <3>4. PICK n : PurchasePlan(t.of, structure, s, n)
      BY <3>1, <3>2, PurchasePlans
    <3>5. s \in Seq(AllRows)
      BY <3>4 DEF PurchasePlan
    <3> QED
      BY <3>1, <3>3, <3>4, <3>5
  <2>2. CASE t \in [kind : {"accrual"}, of : Earners, run : Runs]
    <3>1. t.kind = "accrual" /\ t.kind # "purchase" /\ t.of \in LockMembers
      BY <2>2, LocksAssumption
    <3>2. PICK s : s = P!AccrualRows(t.of, structure)
      OBVIOUS
    <3>3. P!RowsOf(t) = s
      BY <3>1, <3>2 DEF P!RowsOf
    <3>4. AccrualPlan(t.of, structure, s)
      BY <3>1, <3>2, AccrualPlans
    <3>5. s \in Seq(AllRows)
      BY <3>4 DEF AccrualPlan
    <3> QED
      BY <3>1, <3>3, <3>4, <3>5
  <2> QED
    BY <1>1, <2>1, <2>2 DEF P!Transactions
<1> QED
  BY <1>1

\* A transaction of one kind for a member, and one purchase of each buyer.
LEMMA OnePurchase ==
  \A t, u \in P!Transactions : t.kind = "purchase" /\ u.kind = "purchase" /\ t.of = u.of => t = u
<1>1. ASSUME NEW t \in P!Transactions, t.kind = "purchase"
      PROVE  t \in [kind : {"purchase"}, of : Buyers, run : {0}]
  <2>1. t \notin [kind : {"accrual"}, of : Earners, run : Runs]
    BY <1>1
  <2> QED
    BY <1>1, <2>1 DEF P!Transactions
<1> QED
  BY <1>1

\* It holds before anything is locked.
LEMMA LocksInit == P!Init => LocksIInv
<1> SUFFICES ASSUME P!Init PROVE LocksIInv
  OBVIOUS
<1>1. todo = [t \in P!Transactions |-> P!RowsOf(t)] /\ held = [t \in P!Transactions |-> {}]
  BY DEF P!Init
<1>2. \A t \in P!Transactions : P!RowsOf(t) \in Seq(AllRows)
  BY RowsOfTransactions
<1>3. todo \in [P!Transactions -> Seq(AllRows)] /\ held \in [P!Transactions -> SUBSET AllRows]
  BY <1>1, <1>2
<1>4. ASSUME NEW t \in P!Transactions PROVE Progress(t)
  <2>1. PICK s \in Seq(AllRows) : s = P!RowsOf(t)
    BY <1>2
  <2>2. todo[t] = s /\ held[t] = {}
    BY <1>1, <2>1
  <2>3. PICK k \in Nat : k = Len(s)
    BY <2>1, LenProperties
  <2>4. 0 \in 0..k /\ k - 0 = k /\ (\A i \in 1..k : 0 + i = i) /\ {s[i] : i \in 1..0} = {}
    BY <2>3
  <2>5. /\ Len(todo[t]) = Len(s) - 0
        /\ \A i \in 1..Len(s) - 0 : todo[t][i] = s[0 + i]
        /\ held[t] = {s[i] : i \in 1..0}
    BY <2>2, <2>3, <2>4
  <2> QED
    BY <2>1, <2>3, <2>4, <2>5 DEF Progress
<1> QED
  BY <1>1, <1>3, <1>4 DEF LocksIInv

\* What a transaction that is not touched has is what it had.
LEMMA ProgressStays ==
  ASSUME NEW t \in P!Transactions, Progress(t), structure' = structure,
         todo'[t] = todo[t], held'[t] = held[t]
  PROVE  Progress(t)'
<1>1. P!RowsOf(t)' = P!RowsOf(t)
  BY DEF P!RowsOf
<1> QED
  BY <1>1 DEF Progress

\* It takes one more row.
LEMMA LockProgress ==
  ASSUME LocksIInv, NEW t \in P!Transactions, P!Lock(t)
  PROVE  LocksIInv'
<1>1. /\ todo[t] # <<>> /\ structure' = structure
      /\ held' = [held EXCEPT ![t] = held[t] \union {Head(todo[t])}]
      /\ todo' = [todo EXCEPT ![t] = Tail(todo[t])]
      /\ \A u \in P!Transactions : ~P!WaitsFor(t, u)
  BY DEF P!Lock
<1>2. /\ todo \in [P!Transactions -> Seq(AllRows)] /\ held \in [P!Transactions -> SUBSET AllRows]
      /\ \A u \in P!Transactions : Progress(u)
      /\ \A u, v \in P!Transactions : v # u => held[v] \intersect held[u] = {}
  BY DEF LocksIInv
<1>3. PICK s \in Seq(AllRows), q \in Seq(AllRows) : s = P!RowsOf(t) /\ q = todo[t]
  BY <1>2, RowsOfTransactions
<1>4. /\ Len(q) \in Nat \ {0} /\ Head(q) = q[1] /\ q[1] \in AllRows
      /\ Tail(q) \in Seq(AllRows) /\ Len(Tail(q)) = Len(q) - 1
      /\ \A i \in 1..Len(q) - 1 : Tail(q)[i] = q[i + 1]
  BY <1>1, <1>3, Uncons
<1>5. PICK k \in Nat : k = Len(s)
  BY <1>3, LenProperties
<1>6. PICK n \in 0..k :
        /\ Len(q) = k - n
        /\ \A i \in 1..k - n : q[i] = s[n + i]
        /\ held[t] = {s[i] : i \in 1..n} \/ (n = k /\ held[t] = {})
  <2>1. PICK n \in 0..Len(s) :
          /\ Len(q) = Len(s) - n
          /\ \A i \in 1..Len(s) - n : q[i] = s[n + i]
          /\ held[t] = {s[i] : i \in 1..n} \/ (n = Len(s) /\ held[t] = {})
    <3>1. Progress(t)
      BY <1>2
    <3>2. \E n \in 0..Len(s) :
            /\ Len(q) = Len(s) - n
            /\ \A i \in 1..Len(s) - n : q[i] = s[n + i]
            /\ held[t] = {s[i] : i \in 1..n} \/ (n = Len(s) /\ held[t] = {})
      BY <1>3, <3>1 DEF Progress
    <3> QED
      BY <3>2
  <2> QED
    BY <1>5, <2>1
<1>7. n < k /\ n \in Nat /\ q[1] = s[n + 1]
  BY <1>4, <1>6
<1>8. todo' \in [P!Transactions -> Seq(AllRows)] /\ held' \in [P!Transactions -> SUBSET AllRows]
  BY <1>1, <1>2, <1>3, <1>4
<1>9. todo'[t] = Tail(q) /\ held'[t] = held[t] \union {s[n + 1]}
  BY <1>1, <1>2, <1>3, <1>4, <1>7
<1>10. P!RowsOf(t)' = s
  BY <1>1, <1>3 DEF P!RowsOf
<1>11. Progress(t)'
  <2>1. n + 1 \in 0..Len(s) /\ Len(todo'[t]) = Len(s) - (n + 1)
    BY <1>4, <1>5, <1>6, <1>7, <1>9
  <2>2. ASSUME NEW i \in 1..Len(s) - (n + 1) PROVE todo'[t][i] = s[(n + 1) + i]
    <3>1. i \in 1..Len(q) - 1 /\ i + 1 \in 1..k - n /\ n + (i + 1) = (n + 1) + i
      BY <1>5, <1>6, <1>7
    <3>2. Tail(q)[i] = q[i + 1] /\ q[i + 1] = s[n + (i + 1)]
      BY <1>4, <1>6, <3>1
    <3> QED
      BY <1>9, <3>1, <3>2
  <2>3. held'[t] = {s[i] : i \in 1..n + 1}
    <3>1. held[t] = {s[i] : i \in 1..n}
      <4>1. n # k
        BY <1>7
      <4> QED
        BY <1>6, <4>1
    <3>2. \A i \in 1..n + 1 : i \in 1..n \/ i = n + 1
      BY <1>7
    <3>3. n + 1 \in 1..n + 1 /\ \A i \in 1..n : i \in 1..n + 1
      BY <1>7
    <3> QED
      BY <1>9, <3>1, <3>2, <3>3
  <2> QED
    BY <1>10, <2>1, <2>2, <2>3 DEF Progress
<1>12. ASSUME NEW u \in P!Transactions, u # t PROVE todo'[u] = todo[u] /\ held'[u] = held[u]
  BY <1>1, <1>2, <1>12
<1>13. ASSUME NEW u \in P!Transactions PROVE Progress(u)'
  <2>1. CASE u = t
    BY <1>11, <2>1
  <2>2. CASE u # t
    BY <1>1, <1>2, <1>12, <2>2, ProgressStays
  <2> QED
    BY <2>1, <2>2
<1>14. ASSUME NEW u \in P!Transactions, u # t PROVE held'[t] \intersect held'[u] = {}
  <2>1. s[n + 1] \notin held[u]
    BY <1>1, <1>3, <1>4, <1>7, <1>14 DEF P!WaitsFor
  <2>2. held[t] \intersect held[u] = {}
    BY <1>2, <1>14
  <2> QED
    BY <1>9, <1>12, <1>14, <2>1, <2>2
<1>15. ASSUME NEW u \in P!Transactions, NEW v \in P!Transactions, u # v
       PROVE  held'[u] \intersect held'[v] = {}
  <2>1. CASE u = t
    BY <1>14, <1>15, <2>1
  <2>2. CASE v = t
    BY <1>14, <1>15, <2>2
  <2>3. CASE u # t /\ v # t
    BY <1>2, <1>12, <1>15, <2>3
  <2> QED
    BY <2>1, <2>2, <2>3
<1>16. P!Transactions' = P!Transactions
  BY DEF P!Transactions
<1> QED
  BY <1>8, <1>13, <1>15, <1>16 DEF LocksIInv

\* It ends, or starts over.
LEMMA EndProgress ==
  ASSUME LocksIInv, NEW t \in P!Transactions, P!Commit(t) \/ P!Rollback(t)
  PROVE  LocksIInv'
<1>1. /\ todo \in [P!Transactions -> Seq(AllRows)] /\ held \in [P!Transactions -> SUBSET AllRows]
      /\ \A u \in P!Transactions : Progress(u)
      /\ \A u, v \in P!Transactions : v # u => held[v] \intersect held[u] = {}
  BY DEF LocksIInv
<1>2. structure' = structure /\ held' = [held EXCEPT ![t] = {}]
  BY DEF P!Commit, P!Rollback
<1>3. (todo' = todo /\ todo[t] = <<>>) \/ todo' = [todo EXCEPT ![t] = P!RowsOf(t)]
  BY DEF P!Commit, P!Rollback
<1>4. PICK s \in Seq(AllRows) : s = P!RowsOf(t)
  BY RowsOfTransactions
<1>5. todo' \in [P!Transactions -> Seq(AllRows)] /\ held' \in [P!Transactions -> SUBSET AllRows]
  BY <1>1, <1>2, <1>3, <1>4
<1>6. P!RowsOf(t)' = s
  BY <1>2, <1>4 DEF P!RowsOf
<1>7. PICK k \in Nat : k = Len(s)
  BY <1>4, LenProperties
<1>8. Progress(t)'
  <2>1. held'[t] = {}
    BY <1>1, <1>2
  <2>2. CASE todo' = todo /\ todo[t] = <<>>
    <3>1. PICK n \in 0..k : Len(todo[t]) = k - n /\ \A i \in 1..k - n : todo[t][i] = s[n + i]
      <4>1. PICK n \in 0..Len(s) : /\ Len(todo[t]) = Len(s) - n
                                   /\ \A i \in 1..Len(s) - n : todo[t][i] = s[n + i]
        <5>1. Progress(t)
          BY <1>1
        <5>2. \E n \in 0..Len(s) : /\ Len(todo[t]) = Len(s) - n
                                   /\ \A i \in 1..Len(s) - n : todo[t][i] = s[n + i]
          BY <1>4, <5>1 DEF Progress
        <5> QED
          BY <5>2
      <4> QED
        BY <1>7, <4>1
    <3>2. Len(todo[t]) = 0
      BY <2>2
    <3>3. n = k
      BY <3>1, <3>2
    <3> QED
      BY <1>6, <1>7, <2>1, <2>2, <3>1, <3>3 DEF Progress
  <2>3. CASE todo' = [todo EXCEPT ![t] = P!RowsOf(t)]
    <3>1. todo'[t] = s
      BY <1>1, <1>4, <2>3
    <3>2. 0 \in 0..k /\ k - 0 = k /\ (\A i \in 1..k : 0 + i = i) /\ {s[i] : i \in 1..0} = {}
      BY <1>7
    <3>3. /\ Len(todo'[t]) = Len(s) - 0
          /\ \A i \in 1..Len(s) - 0 : todo'[t][i] = s[0 + i]
          /\ held'[t] = {s[i] : i \in 1..0}
      BY <1>7, <2>1, <3>1, <3>2
    <3> QED
      BY <1>6, <1>7, <3>2, <3>3 DEF Progress
  <2> QED
    BY <1>3, <2>2, <2>3
<1>9. ASSUME NEW u \in P!Transactions, u # t PROVE todo'[u] = todo[u] /\ held'[u] = held[u]
  BY <1>1, <1>2, <1>3, <1>9
<1>10. ASSUME NEW u \in P!Transactions PROVE Progress(u)'
  <2>1. CASE u = t
    BY <1>8, <2>1
  <2>2. CASE u # t
    BY <1>1, <1>2, <1>9, <2>2, ProgressStays
  <2> QED
    BY <2>1, <2>2
<1>11. ASSUME NEW u \in P!Transactions, NEW v \in P!Transactions, u # v
       PROVE  held'[u] \intersect held'[v] = {}
  <2>1. held'[u] \subseteq held[u] /\ held'[v] \subseteq held[v]
    BY <1>1, <1>2
  <2> QED
    BY <1>1, <1>11, <2>1
<1>12. P!Transactions' = P!Transactions
  BY DEF P!Transactions
<1> QED
  BY <1>5, <1>10, <1>11, <1>12 DEF LocksIInv

\* Every step keeps it.
LEMMA LocksStep == LocksIInv /\ [P!Next]_locks => LocksIInv'
<1> SUFFICES ASSUME LocksIInv, [P!Next]_locks PROVE LocksIInv'
  OBVIOUS
<1>1. CASE P!Next
  <2>1. PICK t \in P!Transactions : P!Lock(t) \/ P!Commit(t) \/ P!Rollback(t)
    BY <1>1 DEF P!Next
  <2> QED
    BY <2>1, LockProgress, EndProgress
<1>2. CASE UNCHANGED locks
  <2>1. structure' = structure /\ todo' = todo /\ held' = held
    BY <1>2 DEF locks
  <2>2. \A t \in P!Transactions : Progress(t)'
    BY <2>1, ProgressStays DEF LocksIInv
  <2>3. P!Transactions' = P!Transactions
    BY DEF P!Transactions
  <2> QED
    BY <2>1, <2>2, <2>3 DEF LocksIInv
<1> QED
  BY <1>1, <1>2

-----------------------------------------------------------------------------
(* Lock order: who waits *)

\* A transaction that is not done waits at its next row and has those before it.
LEMMA StandsAt ==
  ASSUME LocksIInv, NEW t \in P!Transactions, todo[t] # <<>>
  PROVE  \E n \in Nat : /\ n + 1 \in 1..Len(P!RowsOf(t)) /\ Head(todo[t]) = P!RowsOf(t)[n + 1]
                        /\ held[t] = {P!RowsOf(t)[i] : i \in 1..n}
<1>1. PICK s \in Seq(AllRows), q \in Seq(AllRows) : s = P!RowsOf(t) /\ q = todo[t]
  BY RowsOfTransactions DEF LocksIInv
<1>2. Len(q) \in Nat \ {0} /\ Head(q) = q[1]
  BY <1>1, Uncons
<1>3. Progress(t)
  BY DEF LocksIInv
<1>4. \E n \in 0..Len(s) :
        /\ Len(q) = Len(s) - n
        /\ \A i \in 1..Len(s) - n : q[i] = s[n + i]
        /\ held[t] = {s[i] : i \in 1..n} \/ (n = Len(s) /\ held[t] = {})
  BY <1>1, <1>3 DEF Progress
<1>5. PICK k \in Nat : k = Len(s)
  BY <1>1, LenProperties
<1>6. PICK n \in 0..k :
        /\ Len(q) = k - n
        /\ \A i \in 1..k - n : q[i] = s[n + i]
        /\ held[t] = {s[i] : i \in 1..n} \/ (n = k /\ held[t] = {})
  BY <1>4, <1>5
<1>7. n \in Nat /\ n # k /\ n + 1 \in 1..k /\ q[1] = s[n + 1]
  BY <1>2, <1>6
<1> QED
  BY <1>1, <1>2, <1>5, <1>6, <1>7

\* What an accrual pays.
OfAccrual(t, r) == r[1] \in Payments /\ (r[2] = t.of \/ (structure # "BINARY" /\ r[2] \in Forebears(t.of)))
AccrualStands(t) ==
  LET h == Head(todo[t])
  IN /\ h \in AllRows /\ OfAccrual(t, h)
     /\ \A r \in held[t] : OfAccrual(t, r) /\ RowRank(h) < RowRank(r)

\* An accrual waits at a payment after all of those it has made.
LEMMA AccrualAt ==
  ASSUME LocksIInv, NEW t \in P!Transactions, todo[t] # <<>>, t.kind = "accrual"
  PROVE  AccrualStands(t)
<1>1. PICK s \in Seq(AllRows) : s = P!RowsOf(t) /\ AccrualPlan(t.of, structure, s)
  BY RowsOfTransactions
<1>2. PICK n \in Nat : /\ n + 1 \in 1..Len(s) /\ Head(todo[t]) = s[n + 1]
                       /\ held[t] = {s[i] : i \in 1..n}
  BY <1>1, StandsAt
<1>3. PICK k \in Nat : k = Len(s)
  BY <1>1, LenProperties
<1>4. \A i \in 1..k : s[i] \in AllRows /\ OfAccrual(t, s[i])
  BY <1>1, <1>3, ElementOfSeq DEF AccrualPlan, OfAccrual
<1>5. \A i \in 1..n : i \in 1..k /\ i < n + 1
  BY <1>2, <1>3
<1>6. \A i \in 1..n : RowRank(s[n + 1]) < RowRank(s[i])
  BY <1>1, <1>2, <1>3, <1>5 DEF AccrualPlan, Descends
<1> QED
  BY <1>2, <1>3, <1>4, <1>5, <1>6 DEF AccrualStands

\* A purchase waits at its buyer's own rows, ...
Early(c) ==
  /\ Head(todo[c]) \in {<<"fund", c.of>>, <<"users", c.of>>}
  /\ held[c] \subseteq {<<"fund", c.of>>}

\* ... or at a team's row, with those of lesser ids, ...
Mid(c) ==
  LET h == Head(todo[c])
  IN /\ h[1] = "team_volumes" /\ h[2] \in LockMembers
     /\ \A r \in held[c] : \/ r \in {<<"fund", c.of>>, <<"users", c.of>>}
                           \/ r[1] = "team_volumes" /\ r[2] < h[2]

\* ... or at a bonus, with the team rows of all above.
OfBonus(c, r) ==
  /\ r[1] \in Payments \union {"binary_legs"}
  /\ r[2] \in Forebears(c.of) \union Upward(c.of)
  /\ structure # "BINARY" => r[1] \in Payments /\ r[2] \in Forebears(c.of)
Late(c) ==
  LET h == Head(todo[c])
  IN /\ h \in AllRows /\ OfBonus(c, h)
     /\ \A x \in Forebears(c.of) : <<"team_volumes", x>> \in held[c]
     /\ \A r \in held[c] :
          \/ r \in {<<"fund", c.of>>, <<"users", c.of>>} \/ r[1] = "team_volumes"
          \/ /\ OfBonus(c, r) /\ (structure # "BINARY" => RowRank(h) < RowRank(r))
             /\ \A k \in Payments :
                  r[1] \in Payments /\ LeftOf(r[1]) < LeftOf(k) => <<k, r[2]>> \in held[c]

\* These are the places where a purchase waits.
LEMMA PurchaseAt ==
  ASSUME LocksIInv, NEW c \in P!Transactions, todo[c] # <<>>, c.kind = "purchase"
  PROVE  Early(c) \/ Mid(c) \/ Late(c)
<1>1. PICK s \in Seq(AllRows) : s = P!RowsOf(c) /\ \E t : PurchasePlan(c.of, structure, s, t)
  BY RowsOfTransactions
<1>2. PICK n \in Nat : /\ n + 1 \in 1..Len(s) /\ Head(todo[c]) = s[n + 1]
                       /\ held[c] = {s[i] : i \in 1..n}
  BY <1>1, StandsAt
<1>3. PICK k \in Nat : k = Len(s)
  BY <1>1, LenProperties
<1>4. PICK t : PurchasePlan(c.of, structure, s, t)
  BY <1>1
<1>5. /\ t \in 2..k
      /\ s[1] = <<"fund", c.of>> /\ s[2] = <<"users", c.of>>
      /\ \A i \in 3..t : s[i][1] = "team_volumes" /\ s[i][2] \in Forebears(c.of)
      /\ \A i, j \in 3..t : i < j => s[i][2] < s[j][2]
      /\ \A x \in Forebears(c.of) : \E i \in 3..t : s[i] = <<"team_volumes", x>>
  BY <1>3, <1>4 DEF PurchasePlan
<1>6. ASSUME NEW i \in (t + 1)..k PROVE OfBonus(c, s[i])
  <2>1. s[i][1] \in Payments \union {"binary_legs"} /\ s[i][2] \in Forebears(c.of) \union Upward(c.of)
    BY <1>3, <1>4 DEF PurchasePlan
  <2>2. structure # "BINARY" => s[i][1] \in Payments /\ s[i][2] \in Forebears(c.of)
    BY <1>3, <1>4 DEF PurchasePlan
  <2> QED
    BY <2>1, <2>2 DEF OfBonus
<1>7. structure # "BINARY" => \A i, j \in (t + 1)..k : i < j => RowRank(s[j]) < RowRank(s[i])
  BY <1>3, <1>4 DEF PurchasePlan
<1>8. \A j \in (t + 1)..k, p \in Payments :
        s[j][1] \in Payments /\ LeftOf(s[j][1]) < LeftOf(p) =>
          \E i \in (t + 1)..k : i < j /\ s[i] = <<p, s[j][2]>>
  BY <1>3, <1>4 DEF PurchasePlan
<1>9. n + 1 \in 1..k /\ n < k
  BY <1>2, <1>3
<1>10. CASE n + 1 \in 1..2
  <2>1. n = 0 \/ n = 1
    BY <1>10
  <2>2. Head(todo[c]) \in {<<"fund", c.of>>, <<"users", c.of>>}
    <3>1. n + 1 = 1 \/ n + 1 = 2
      BY <2>1
    <3> QED
      BY <1>2, <1>5, <3>1
  <2>3. \A i \in 1..n : i = 1
    BY <2>1
  <2>4. held[c] \subseteq {<<"fund", c.of>>}
    BY <1>2, <1>5, <2>3
  <2> QED
    BY <2>2, <2>4 DEF Early
<1>11. CASE n + 1 \in 3..t
  <2>1. s[n + 1][1] = "team_volumes" /\ s[n + 1][2] \in LockMembers
    <3>1. Forebears(c.of) \subseteq LockMembers
      BY RowsOfTransactions, Lineages DEF Lineage
    <3> QED
      BY <1>5, <1>11, <3>1
  <2>2. ASSUME NEW i \in 1..n
        PROVE  \/ s[i] \in {<<"fund", c.of>>, <<"users", c.of>>}
               \/ s[i][1] = "team_volumes" /\ s[i][2] < s[n + 1][2]
    <3>1. CASE i \in 3..t
      <4>1. i < n + 1
        OBVIOUS
      <4> QED
        BY <1>5, <1>11, <3>1, <4>1
    <3>2. CASE i \notin 3..t
      <4>1. i = 1 \/ i = 2
        BY <1>5, <1>11, <3>2
      <4> QED
        BY <1>5, <4>1
    <3> QED
      BY <3>1, <3>2
  <2> QED
    BY <1>2, <2>1, <2>2 DEF Mid
<1>12. CASE n + 1 \in (t + 1)..k
  <2>1. s[n + 1] \in AllRows /\ OfBonus(c, s[n + 1])
    BY <1>1, <1>3, <1>6, <1>9, <1>12, ElementOfSeq
  <2>2. \A i \in 1..t : i \in 1..n
    BY <1>5, <1>12
  <2>3. ASSUME NEW x \in Forebears(c.of) PROVE <<"team_volumes", x>> \in held[c]
    <3>1. PICK i \in 3..t : s[i] = <<"team_volumes", x>>
      BY <1>5
    <3>2. i \in 1..n
      BY <2>2
    <3> QED
      BY <1>2, <3>1, <3>2
  <2>4. ASSUME NEW i \in 1..n
        PROVE  \/ s[i] \in {<<"fund", c.of>>, <<"users", c.of>>} \/ s[i][1] = "team_volumes"
               \/ /\ OfBonus(c, s[i]) /\ (structure # "BINARY" => RowRank(s[n + 1]) < RowRank(s[i]))
                  /\ \A p \in Payments :
                       s[i][1] \in Payments /\ LeftOf(s[i][1]) < LeftOf(p) => <<p, s[i][2]>> \in held[c]
    <3>1. CASE i \in (t + 1)..k
      <4>1. i < n + 1
        OBVIOUS
      <4>2. structure # "BINARY" => RowRank(s[n + 1]) < RowRank(s[i])
        BY <1>7, <1>12, <3>1, <4>1
      <4>3. ASSUME NEW p \in Payments, s[i][1] \in Payments, LeftOf(s[i][1]) < LeftOf(p)
            PROVE  <<p, s[i][2]>> \in held[c]
        <5>1. PICK h \in (t + 1)..k : h < i /\ s[h] = <<p, s[i][2]>>
          BY <1>8, <3>1, <4>3
        <5>2. h \in 1..n
          BY <1>5, <5>1
        <5> QED
          BY <1>2, <5>1, <5>2
      <4> QED
        BY <1>6, <3>1, <4>2, <4>3
    <3>2. CASE i \in 3..t
      BY <1>5, <3>2
    <3>3. CASE i \in 1..2
      <4>1. i = 1 \/ i = 2
        BY <3>3
      <4> QED
        BY <1>5, <4>1
    <3>4. i \in (t + 1)..k \/ i \in 3..t \/ i \in 1..2
      BY <1>5, <1>9
    <3> QED
      BY <3>1, <3>2, <3>3, <3>4
  <2> QED
    BY <1>2, <2>1, <2>3, <2>4 DEF Late
<1>13. n + 1 \in 1..2 \/ n + 1 \in 3..t \/ n + 1 \in (t + 1)..k
  BY <1>5, <1>9
<1> QED
  BY <1>10, <1>11, <1>12, <1>13

\* Where an accrual waits is of whom it has paid, or above.
LEMMA AccrualClimbs ==
  ASSUME NEW t \in P!Transactions, AccrualStands(t), NEW r \in held[t]
  PROVE  LET h == Head(todo[t])
         IN /\ RowRank(h) < RowRank(r) /\ h[1] \in Payments /\ r[1] \in Payments
            /\ structure = "BINARY" => h[2] = r[2]
            /\ structure # "BINARY" => h[2] = r[2] \/ h[2] \in Forebears(r[2])
<1>1. PICK h : h = Head(todo[t])
  OBVIOUS
<1>2. h \in AllRows /\ OfAccrual(t, h) /\ OfAccrual(t, r) /\ RowRank(h) < RowRank(r)
  BY <1>1 DEF AccrualStands
<1>3. PICK m \in LockMembers : m = t.of
  BY RowsOfTransactions
<1>4. Lineage(m)
  BY Lineages
<1>5. ASSUME structure # "BINARY" PROVE h[2] = r[2] \/ h[2] \in Forebears(r[2])
  <2>1. (h[2] = m \/ h[2] \in Forebears(m)) /\ (r[2] = m \/ r[2] \in Forebears(m))
    BY <1>2, <1>3, <1>5 DEF OfAccrual
  <2>2. CASE r[2] = m
    BY <2>1, <2>2
  <2>3. CASE r[2] \in Forebears(m)
    <3>1. r[2] \in LockMembers /\ h[2] \in LockMembers
      BY <1>3, <1>4, <2>1, <2>3 DEF Lineage
    <3>2. PICK d \in Nat, e \in Nat : d = Depth(h[2]) /\ e = Depth(r[2])
      BY <3>1, Lineages DEF Lineage
    <3>3. LeftOf(h[1]) \in 0..2 /\ LeftOf(r[1]) \in 0..2
      BY DEF LeftOf
    <3>4. RowRank(h) = 3 * d + LeftOf(h[1]) /\ RowRank(r) = 3 * e + LeftOf(r[1])
      BY <3>2 DEF RowRank
    <3>5. 3 * d + LeftOf(h[1]) < 3 * e + LeftOf(r[1])
      BY <1>2, <3>4
    <3>6. d <= e
      <4>1. \A u, v \in 0..2 : 3 * d + u < 3 * e + v => d <= e
        OBVIOUS
      <4> QED
        BY <3>3, <3>5, <4>1
    <3>7. CASE h[2] = m
      <4>1. e < d
        BY <1>4, <2>3, <3>2, <3>7 DEF Lineage
      <4> QED
        BY <3>6, <4>1
    <3>8. CASE h[2] \in Forebears(m)
      <4>1. d = e \/ d < e
        BY <3>6
      <4> QED
        BY <1>4, <2>3, <3>2, <3>8, <4>1 DEF Lineage
    <3> QED
      BY <2>1, <3>7, <3>8
  <2> QED
    BY <2>1, <2>2, <2>3
<1>6. structure = "BINARY" => h[2] = r[2]
  BY <1>2 DEF OfAccrual
<1> QED
  BY <1>1, <1>2, <1>5, <1>6 DEF OfAccrual

\* Buyers none of whom is above another.
BuyersApart == \A b, c \in Buyers : b \notin Forebears(c) \union Upward(c)

\* Two purchases that pay bonuses to people of one tree are one.
LEMMA OneLate ==
  ASSUME LocksIInv, NEW c \in P!Transactions, NEW d \in P!Transactions, Late(c), Late(d),
         Eldest(c.of) = Eldest(d.of)
  PROVE  c = d
<1>1. c.of \in LockMembers /\ d.of \in LockMembers
  BY RowsOfTransactions
<1>2. ASSUME NEW e \in P!Transactions, Late(e) PROVE <<"team_volumes", Eldest(e.of)>> \in held[e]
  <2>1. PICK m, x : m \in LockMembers /\ m = e.of /\ x = Head(todo[e])[2]
    BY RowsOfTransactions
  <2>2. x \in Forebears(m) \union Upward(m) /\ \A y \in Forebears(m) : <<"team_volumes", y>> \in held[e]
    BY <1>2, <2>1 DEF Late, OfBonus
  <2>3. Eldest(m) \in Forebears(m)
    BY <2>1, <2>2, Lineages DEF Lineage
  <2> QED
    BY <2>1, <2>2, <2>3
<1>3. <<"team_volumes", Eldest(c.of)>> \in held[c] \intersect held[d]
  BY <1>2
<1> QED
  BY <1>3 DEF LocksIInv

\* Who holds a payment.
LEMMA PaymentHolder ==
  ASSUME LocksIInv, NEW u \in P!Transactions, todo[u] # <<>>,
         NEW r \in held[u], r[1] \in Payments
  PROVE  \/ AccrualStands(u) /\ u.kind = "accrual"
         \/ u.kind = "purchase" /\ r = <<"users", u.of>> /\ u.of \in Buyers /\ ~Early(u)
         \/ u.kind = "purchase" /\ Late(u) /\ OfBonus(u, r)
              /\ (structure # "BINARY" => RowRank(Head(todo[u])) < RowRank(r))
              /\ (\A k \in Payments : LeftOf(r[1]) < LeftOf(k) => <<k, r[2]>> \in held[u])
<1>1. "fund" \notin Payments /\ "team_volumes" \notin Payments
  BY DEF Payments
<1>2. r # <<"fund", u.of>> /\ r[1] # "team_volumes"
  BY <1>1
<1>3. CASE u.kind = "accrual"
  BY <1>3, AccrualAt
<1>4. CASE u.kind = "purchase"
  <2>1. u.of \in Buyers
    BY <1>4, RowsOfTransactions
  <2>2. CASE Early(u)
    BY <1>2, <2>2 DEF Early
  <2>3. CASE ~Early(u) /\ Mid(u)
    <3>1. r = <<"users", u.of>>
      BY <1>2, <2>3 DEF Mid
    <3> QED
      BY <1>4, <2>1, <2>3, <3>1
  <2>4. CASE ~Early(u) /\ Late(u)
    BY <1>2, <1>4, <2>1, <2>4 DEF Late
  <2> QED
    BY <1>4, <2>2, <2>3, <2>4, PurchaseAt
<1> QED
  BY <1>3, <1>4, RowsOfTransactions

\* Accruals do not wait for each other in a circle: the ranks go down.
LEMMA NoAccrualCircle ==
  ASSUME LocksIInv, NEW V \in SUBSET P!Transactions, V # {},
         \A v \in V : todo[v] # <<>> /\ v.kind = "accrual" /\ \E u \in V : P!WaitsFor(v, u)
  PROVE  FALSE
<1> DEFINE Ranks == {RowRank(Head(todo[v])) : v \in V}
<1>1. \A v \in V : AccrualStands(v)
  BY AccrualAt
<1>2. Ranks \in SUBSET Nat
  <2>1. ASSUME NEW v \in V PROVE RowRank(Head(todo[v])) \in Nat
    <3>1. PICK h : h = Head(todo[v]) /\ h \in AllRows
      BY <1>1 DEF AccrualStands
    <3>2. Depth(h[2]) \in Nat
      BY <3>1, Lineages DEF Lineage, AllRows
    <3>3. LeftOf(h[1]) \in 0..2
      BY DEF LeftOf
    <3> QED
      BY <3>1, <3>2, <3>3 DEF RowRank
  <2> QED
    BY <2>1
<1>3. PICK v \in V : \A u \in V : RowRank(Head(todo[v])) <= RowRank(Head(todo[u]))
  <2>1. Ranks # {}
    OBVIOUS
  <2>2. PICK k \in Ranks : \A j \in Ranks : k <= j
    BY <1>2, <2>1, LeastNat
  <2> QED
    BY <2>2
<1>4. PICK u \in V : P!WaitsFor(v, u)
  BY <1>3
<1>5. Head(todo[v]) \in held[u]
  BY <1>4 DEF P!WaitsFor
<1>6. RowRank(Head(todo[u])) < RowRank(Head(todo[v]))
  BY <1>1, <1>5 DEF AccrualStands
<1>7. RowRank(Head(todo[u])) \in Ranks /\ RowRank(Head(todo[v])) \in Ranks
  OBVIOUS
<1>8. RowRank(Head(todo[u])) \in Nat /\ RowRank(Head(todo[v])) \in Nat
  BY <1>2, <1>7
<1> QED
  BY <1>3, <1>6, <1>8

\* A circle of waiting transactions.
Circle(ts) ==
  /\ ts \in SUBSET P!Transactions /\ ts # {}
  /\ \A t \in ts : todo[t] # <<>> /\ \E u \in ts : P!WaitsFor(t, u)

\* In a circle without bonuses, team rows would be waited for in a circle.
LEMMA NoTeamCircle ==
  ASSUME LocksIInv, NEW ts, Circle(ts), \A c \in ts : c.kind = "purchase" => ~Late(c)
  PROVE  FALSE
<1>1. /\ ts \in SUBSET P!Transactions /\ ts # {}
      /\ \A t \in ts : todo[t] # <<>> /\ \E u \in ts : P!WaitsFor(t, u)
  BY DEF Circle
<1>2. \A t \in ts : \/ t.kind = "accrual" /\ AccrualStands(t)
                    \/ t.kind = "purchase" /\ (Early(t) \/ Mid(t))
  BY <1>1, AccrualAt, PurchaseAt, RowsOfTransactions
<1> DEFINE Mids == {c \in ts : c.kind = "purchase" /\ Mid(c)}
           Teams == {Head(todo[c])[2] : c \in Mids}
<1>3. "team_volumes" \notin Payments /\ "fund" \notin Payments
  BY DEF Payments
<1>4. ASSUME NEW c \in Mids
      PROVE  \E d \in Mids : Head(todo[c])[2] < Head(todo[d])[2]
  <2>1. PICK h : h = Head(todo[c]) /\ h[1] = "team_volumes"
    BY DEF Mid
  <2>2. PICK u \in ts : P!WaitsFor(c, u)
    BY <1>1
  <2>3. h \in held[u]
    BY <2>1, <2>2 DEF P!WaitsFor
  <2>4. ~AccrualStands(u)
    BY <1>3, <2>1, <2>3 DEF AccrualStands, OfAccrual
  <2>5. ~Early(u)
    BY <2>1, <2>3 DEF Early
  <2>6. u \in Mids
    BY <1>2, <2>4, <2>5
  <2>7. h[2] < Head(todo[u])[2]
    BY <2>1, <2>3, <2>6 DEF Mid
  <2> QED
    BY <2>1, <2>6, <2>7
<1>5. Mids = {}
  <2>1. SUFFICES ASSUME Mids # {} PROVE FALSE
    OBVIOUS
  <2>2. PICK ids : ids = Teams
    OBVIOUS
  <2>3. ids \in SUBSET LockMembers /\ ids # {}
    BY <2>1, <2>2 DEF Mid
  <2> HIDE DEF Teams
  <2>4. PICK s : s = P!ById(ids)
    OBVIOUS
  <2>5. /\ s \in Seq(ids) /\ {s[i] : i \in 1..Len(s)} = ids
        /\ \A i, j \in 1..Len(s) : i < j => s[i] < s[j]
    <3>1. ids \in SUBSET LockMembers
      BY <2>3
    <3> QED
      BY <2>4, <3>1, ByIdAscends
  <2>6. PICK n \in Nat : n = Len(s)
    BY <2>5, LenProperties
  <2>7. n \in 1..n /\ \A i \in 1..n : i < n \/ i = n
    <3>1. n # 0
      BY <2>3, <2>5, <2>6
    <3> QED
      BY <3>1
  <2>8. s[n] \in ids
    BY <2>5, <2>6, <2>7
  <2>9. PICK c \in Mids : s[n] = Head(todo[c])[2]
    BY <2>2, <2>8 DEF Teams
  <2>10. PICK d \in Mids : s[n] < Head(todo[d])[2]
    BY <1>4, <2>9
  <2>11. PICK i \in 1..n : s[i] = Head(todo[d])[2]
    <3>1. Head(todo[d])[2] \in ids
      BY <2>2 DEF Teams
    <3> QED
      BY <2>5, <2>6, <3>1
  <2>12. s[n] \in Nat /\ s[i] \in Nat
    BY <2>3, <2>5, <2>6, <2>7, <2>8, LocksAssumption
  <2>13. s[i] <= s[n]
    <3>1. CASE i = n
      BY <2>12, <3>1
    <3>2. CASE i < n
      BY <2>5, <2>6, <2>7, <2>12, <3>2
    <3> QED
      BY <2>7, <3>1, <3>2
  <2> QED
    BY <2>10, <2>11, <2>12, <2>13
<1>6. \A c \in ts : c.kind = "purchase" => Early(c) /\ ~Late(c)
  BY <1>2, <1>5
<1>7. ASSUME NEW t \in ts, NEW u \in ts, P!WaitsFor(t, u) PROVE u.kind = "accrual"
  <2>1. SUFFICES ASSUME u.kind = "purchase" PROVE FALSE
    BY <1>2
  <2>2. Head(todo[t]) = <<"fund", u.of>> /\ t # u
    BY <1>6, <1>7, <2>1 DEF P!WaitsFor, Early
  <2>3. ~AccrualStands(t)
    BY <1>3, <2>2 DEF AccrualStands, OfAccrual
  <2>4. t.kind = "purchase" /\ Early(t)
    BY <1>2, <1>6, <2>3
  <2>5. t.of = u.of
    BY <2>2, <2>4 DEF Early
  <2> QED
    BY <1>1, <2>1, <2>2, <2>4, <2>5, OnePurchase
<1> DEFINE Accruals == {t \in ts : t.kind = "accrual"}
<1>8. \A v \in Accruals : todo[v] # <<>> /\ v.kind = "accrual" /\ \E u \in Accruals : P!WaitsFor(v, u)
  BY <1>1, <1>7
<1>9. Accruals # {}
  <2>1. PICK t \in ts : TRUE
    BY <1>1
  <2>2. PICK u \in ts : P!WaitsFor(t, u)
    BY <1>1
  <2> QED
    BY <1>7, <2>2
<1>10. Accruals \in SUBSET P!Transactions
  BY <1>1
<1> HIDE DEF Accruals
<1> QED
  BY <1>8, <1>9, <1>10, NoAccrualCircle

\* A purchase that waits at a bonus waits for an accrual, that one for another
\* further up, and so on; and who is up there holds no row of theirs.
LEMMA NoBonusCircle ==
  ASSUME LocksIInv, BuyersApart, NEW ts, Circle(ts),
         NEW c \in ts, c.kind = "purchase", Late(c)
  PROVE  FALSE
<1>1. /\ ts \in SUBSET P!Transactions
      /\ \A t \in ts : todo[t] # <<>> /\ \E u \in ts : P!WaitsFor(t, u)
  BY DEF Circle
<1>2. PICK m \in LockMembers : m = c.of /\ m \in Buyers
  BY <1>1, RowsOfTransactions
<1>3. PICK h : h = Head(todo[c]) /\ h \in AllRows /\ OfBonus(c, h)
  BY DEF Late
\* Payments past where c waits, to people above c.
<1> DEFINE Past(r) == /\ r[1] \in Payments /\ r[2] \in Forebears(m) \union Upward(m)
                      /\ structure = "BINARY" =>
                           h[1] \in Payments /\ r[2] = h[2] /\ LeftOf(r[1]) < LeftOf(h[1])
                      /\ structure # "BINARY" => r[2] \in Forebears(m) /\ RowRank(r) < RowRank(h)
           Behind == {v \in ts : v.kind = "accrual" /\ Past(Head(todo[v]))}
<1>4. \A x \in Forebears(m) \union Upward(m) : Eldest(x) = Eldest(m)
  BY Lineages DEF Lineage
<1>5. ASSUME NEW u \in ts, Late(u), NEW r, OfBonus(u, r), r[2] \in Forebears(m) \union Upward(m)
      PROVE  u = c
  <2>1. u \in P!Transactions /\ u.of \in LockMembers
    BY <1>1, RowsOfTransactions
  <2>2. r[2] \in Forebears(u.of) \union Upward(u.of)
    BY <1>5 DEF OfBonus
  <2>3. Eldest(r[2]) = Eldest(u.of)
    BY <2>1, <2>2, Lineages DEF Lineage
  <2> QED
    BY <1>1, <1>2, <1>4, <1>5, <2>1, <2>3, OneLate
<1>6. ASSUME NEW u \in ts, NEW r, r = <<"users", u.of>>, u.of \in Buyers,
             r[2] \in Forebears(m) \union Upward(m)
      PROVE  FALSE
  BY <1>2, <1>6 DEF BuyersApart
<1>7. \A u \in ts : P!WaitsFor(c, u) => u # c /\ h \in held[u]
  BY <1>3 DEF P!WaitsFor
<1>8. h[2] \in Forebears(m) \union Upward(m) /\ (structure # "BINARY" => h[1] \in Payments /\ h[2] \in Forebears(m))
  BY <1>2, <1>3 DEF OfBonus
<1>9. ASSUME NEW u \in ts, P!WaitsFor(c, u) PROVE u \in Behind
  <2>1. u # c /\ h \in held[u] /\ u \in P!Transactions /\ todo[u] # <<>>
    BY <1>1, <1>7, <1>9
  <2>2. CASE h[1] \in Payments
    <3>1. CASE AccrualStands(u) /\ u.kind = "accrual"
      <4>1. PICK k : k = Head(todo[u])
        OBVIOUS
      <4>2. /\ RowRank(k) < RowRank(h) /\ k[1] \in Payments
            /\ structure = "BINARY" => k[2] = h[2]
            /\ structure # "BINARY" => k[2] = h[2] \/ k[2] \in Forebears(h[2])
        BY <2>1, <3>1, <4>1, AccrualClimbs
      <4>3. CASE structure = "BINARY"
        <5>1. k[2] = h[2] /\ RowRank(k) < RowRank(h)
          BY <4>2, <4>3
        <5>2. PICK d \in Nat : d = Depth(h[2])
          BY <1>3, Lineages DEF Lineage, AllRows
        <5>3. 3 * d + LeftOf(k[1]) < 3 * d + LeftOf(h[1])
          BY <5>1, <5>2 DEF RowRank
        <5>4. LeftOf(k[1]) \in 0..2 /\ LeftOf(h[1]) \in 0..2
          BY DEF LeftOf
        <5>5. LeftOf(k[1]) < LeftOf(h[1])
          BY <5>3, <5>4
        <5> QED
          BY <1>8, <2>2, <3>1, <4>1, <4>2, <4>3, <5>1, <5>5
      <4>4. CASE structure # "BINARY"
        <5>1. h[2] \in Forebears(m) /\ Forebears(h[2]) \subseteq Forebears(m)
          BY <1>8, <4>4, Lineages DEF Lineage
        <5> QED
          BY <3>1, <4>1, <4>2, <4>4, <5>1
      <4> QED
        BY <4>3, <4>4
    <3>2. CASE u.kind = "purchase" /\ h = <<"users", u.of>> /\ u.of \in Buyers
      BY <1>6, <1>8, <3>2
    <3>3. CASE Late(u) /\ OfBonus(u, h)
      BY <1>5, <1>8, <2>1, <3>3
    <3> QED
      BY <2>1, <2>2, <3>1, <3>2, <3>3, PaymentHolder
  <2>3. CASE h[1] \notin Payments
    <3>1. h[1] = "binary_legs"
      BY <1>3, <2>3 DEF OfBonus
    <3>2. ~AccrualStands(u)
      BY <2>1, <2>3 DEF AccrualStands, OfAccrual
    <3>3. u.kind = "purchase" /\ (Early(u) \/ Mid(u) \/ Late(u))
      BY <2>1, <3>2, AccrualAt, PurchaseAt, RowsOfTransactions
    <3>4. h \notin {<<"fund", u.of>>, <<"users", u.of>>} /\ h[1] # "team_volumes"
      BY <3>1
    <3>5. Late(u)
      BY <2>1, <3>3, <3>4 DEF Early, Mid
    <3>6. OfBonus(u, h)
      BY <2>1, <3>4, <3>5 DEF Late
    <3> QED
      BY <1>5, <1>8, <2>1, <3>5, <3>6
  <2> QED
    BY <2>2, <2>3
<1>10. ASSUME NEW v \in Behind, NEW u \in ts, P!WaitsFor(v, u) PROVE u \in Behind
  <2>1. PICK k : k = Head(todo[v]) /\ k \in held[u] /\ Past(k)
    BY <1>10 DEF P!WaitsFor
  <2>2. u \in P!Transactions /\ todo[u] # <<>>
    BY <1>1
  <2>3. CASE AccrualStands(u) /\ u.kind = "accrual"
    <3>1. PICK j : j = Head(todo[u])
      OBVIOUS
    <3>2. /\ RowRank(j) < RowRank(k) /\ j[1] \in Payments
          /\ structure = "BINARY" => j[2] = k[2]
          /\ structure # "BINARY" => j[2] = k[2] \/ j[2] \in Forebears(k[2])
      BY <2>1, <2>2, <2>3, <3>1, AccrualClimbs
    <3>3. PICK a \in Nat, b \in Nat : a = Depth(k[2]) /\ b = Depth(h[2])
      <4>1. k[2] \in LockMembers /\ h[2] \in LockMembers
        BY <1>8, <2>1, Lineages DEF Lineage
      <4> QED
        BY <4>1, Lineages DEF Lineage
    <3>4. LeftOf(j[1]) \in 0..2 /\ LeftOf(k[1]) \in 0..2 /\ LeftOf(h[1]) \in 0..2
      BY DEF LeftOf
    <3>5. CASE structure = "BINARY"
      <4>1. j[2] = k[2] /\ k[2] = h[2] /\ LeftOf(k[1]) < LeftOf(h[1])
        BY <2>1, <3>2, <3>5
      <4>2. 3 * a + LeftOf(j[1]) < 3 * a + LeftOf(k[1])
        BY <3>2, <3>3, <4>1 DEF RowRank
      <4>3. LeftOf(j[1]) < LeftOf(h[1])
        BY <3>4, <4>1, <4>2
      <4> QED
        BY <1>8, <2>1, <2>3, <3>1, <3>2, <3>5, <4>1, <4>3
    <3>6. CASE structure # "BINARY"
      <4>1. k[2] \in Forebears(m) /\ Forebears(k[2]) \subseteq Forebears(m) /\ RowRank(k) < RowRank(h)
        BY <2>1, <3>6, Lineages DEF Lineage
      <4>2. j[2] \in Forebears(m)
        BY <3>2, <3>6, <4>1
      <4>3. PICK e \in Nat : e = Depth(j[2])
        BY <4>2, Lineages DEF Lineage
      <4>4. RowRank(j) < RowRank(h)
        <5>1. RowRank(j) \in Nat /\ RowRank(k) \in Nat /\ RowRank(h) \in Nat
          BY <3>3, <3>4, <4>3 DEF RowRank
        <5> QED
          BY <3>2, <4>1, <5>1
      <4> QED
        BY <2>3, <3>1, <3>2, <3>6, <4>2, <4>4
    <3> QED
      BY <3>5, <3>6
  <2>4. CASE u.kind = "purchase" /\ k = <<"users", u.of>> /\ u.of \in Buyers
    BY <1>6, <2>1, <2>4
  <2>5. CASE /\ Late(u) /\ OfBonus(u, k)
             /\ structure # "BINARY" => RowRank(Head(todo[u])) < RowRank(k)
             /\ \A p \in Payments : LeftOf(k[1]) < LeftOf(p) => <<p, k[2]>> \in held[u]
    <3>1. u = c
      BY <1>5, <2>1, <2>5
    <3>2. CASE structure # "BINARY"
      <4>1. RowRank(h) < RowRank(k) /\ RowRank(k) < RowRank(h)
        BY <1>3, <2>1, <2>5, <3>1, <3>2
      <4>2. RowRank(h) \in Nat /\ RowRank(k) \in Nat
        <5>1. k[2] \in LockMembers /\ h[2] \in LockMembers
          BY <1>8, <2>1, Lineages DEF Lineage
        <5>2. Depth(k[2]) \in Nat /\ Depth(h[2]) \in Nat
          BY <5>1, Lineages DEF Lineage
        <5>3. LeftOf(k[1]) \in 0..2 /\ LeftOf(h[1]) \in 0..2
          BY DEF LeftOf
        <5> QED
          BY <5>2, <5>3 DEF RowRank
      <4> QED
        BY <4>1, <4>2
    <3>3. CASE structure = "BINARY"
      <4>1. <<h[1], h[2]>> \in held[c]
        BY <2>1, <2>5, <3>1, <3>3
      <4>2. h \in held[c]
        BY <1>3, <4>1 DEF AllRows
      <4>3. PICK w \in ts : P!WaitsFor(c, w)
        BY <1>1
      <4> QED
        BY <1>1, <1>7, <4>2, <4>3 DEF LocksIInv
    <3> QED
      BY <3>2, <3>3
  <2> QED
    BY <2>1, <2>2, <2>3, <2>4, <2>5, PaymentHolder
<1>11. \A v \in Behind : todo[v] # <<>> /\ v.kind = "accrual" /\ \E u \in Behind : P!WaitsFor(v, u)
  BY <1>1, <1>10
<1>12. Behind # {}
  BY <1>1, <1>9
<1>13. Behind \in SUBSET P!Transactions
  BY <1>1
<1> HIDE DEF Behind
<1> QED
  BY <1>11, <1>12, <1>13, NoAccrualCircle

\* No circle at all.
LEMMA NoLockCircle == LocksIInv /\ BuyersApart => P!NoCircularWait
<1> SUFFICES ASSUME LocksIInv, BuyersApart PROVE P!NoCircularWait
  OBVIOUS
<1>1. ASSUME NEW ts, Circle(ts) PROVE FALSE
  BY <1>1, NoTeamCircle, NoBonusCircle
<1> DEFINE waits == {w \in P!Transactions \X P!Transactions : P!WaitsFor(w[1], w[2])}
           waiting == {w[1] : w \in waits}
<1>2. waiting \subseteq P!Transactions /\ \A t, u : <<t, u>> \in waits => P!WaitsFor(t, u)
  OBVIOUS
<1>3. P!NoCircularWait <=> ~\E ts \in (SUBSET waiting) \ {{}} : \A t \in ts : \E u \in ts : <<t, u>> \in waits
  BY DEF P!NoCircularWait
<1> HIDE DEF waits, waiting
<1>4. ASSUME NEW ts \in (SUBSET waiting) \ {{}}, \A t \in ts : \E u \in ts : <<t, u>> \in waits
      PROVE  FALSE
  <2>1. ts \in SUBSET P!Transactions /\ ts # {}
    BY <1>2, <1>4
  <2>2. \A t \in ts : \E u \in ts : P!WaitsFor(t, u)
    BY <1>2, <1>4
  <2>3. \A t \in ts : todo[t] # <<>>
    BY <2>2 DEF P!WaitsFor
  <2>4. Circle(ts)
    BY <2>1, <2>2, <2>3 DEF Circle
  <2> QED
    BY <1>1, <2>4
<1> QED
  BY <1>3, <1>4

-----------------------------------------------------------------------------
(* What is played *)

MembersIInv ==
  /\ part = "sessions" => SessionsIInv
  /\ part = "codes" => CodesIInv
  /\ part = "network" => PlacementIInv /\ VolumesIInv /\ TeamIInv
  /\ part = "locks" => LocksIInv

MembersPlayed == <<part, vars, sessions, codes, network, locks>>

\* Placements and volumes have the types team volumes rest on.
LEMMA TeamBaseHolds == PlacementIInv /\ VolumesIInv => TeamBase
BY DEF TeamBase, PlacementIInv, PlacementTypes, VolumesIInv, VolumeTypes

\* A behaviour plays one thing and leaves the others be.
LEMMA MembersInvariant == MCSpec => []MembersIInv
<1>1. MCInit => MembersIInv
  BY SessionsInit, CodesInit, PlacementInit, VolumesInit, TeamInit, TeamBaseHolds, LocksInit DEF MCInit, MembersIInv
<1>2. MembersIInv /\ [MCNext]_MembersPlayed => MembersIInv'
  <2> SUFFICES ASSUME MembersIInv, [MCNext]_MembersPlayed PROVE MembersIInv'
    OBVIOUS
  <2>1. \/ part = "sessions" /\ S!Next
        \/ part = "codes" /\ O!Next
        \/ part = "network" /\ N!Next
        \/ part = "locks" /\ P!Next
        \/ part' \notin {"sessions", "codes", "network", "locks"}
        \/ UNCHANGED <<sessions, codes, network, locks>>
    BY DEF MCNext, MembersPlayed
  <2>2. part' = part
    BY DEF MCNext, MembersPlayed
  <2>3. CASE part = "sessions" /\ S!Next
    BY <2>2, <2>3, SessionsStep DEF MembersIInv
  <2>4. CASE part = "codes" /\ O!Next
    BY <2>2, <2>4, CodesStep DEF MembersIInv
  <2>5. CASE part = "network" /\ N!Next
    BY <2>2, <2>5, PlacementStep, VolumesStep, TeamStep DEF MembersIInv
  <2>6. CASE part = "locks" /\ P!Next
    BY <2>2, <2>6, LocksStep DEF MembersIInv
  <2>7. CASE part' \notin {"sessions", "codes", "network", "locks"}
    BY <2>7 DEF MembersIInv
  <2>8. CASE UNCHANGED <<sessions, codes, network, locks>>
    <3>1. SessionsIInv => SessionsIInv'
      BY <2>8 DEF sessions, SessionsIInv, SessionTypes, TabRow, RotatedOnce, OneLive, DevicesApart, Holds,
                  SweepSeesAll, EndedHasNoLive, TokenIsLive, Undisturbed, OnLive, Current
    <3>2. CodesIInv => CodesIInv'
      BY <2>8 DEF codes, CodesIInv, CodeTypes, GuessesAreCounted, Wrong, AcceptedIsSpent, TurnsAreTaken, IsLive
    <3>3. PlacementIInv => PlacementIInv'
      BY <2>8 DEF network, PlacementIInv, PlacementTypes, SlotIsFree, N!OneChildPerLeg, N!Joined
    <3>4. VolumesIInv => VolumesIInv'
      BY <2>8, VolumesStay DEF network
    <3>5. PlacementIInv /\ VolumesIInv /\ TeamIInv => TeamIInv'
      <4>1. TeamIInv => SponsorsSeated'
        BY <2>8 DEF network, TeamIInv, SponsorsSeated
      <4> QED
        BY <2>8, <4>1, TeamBaseHolds, TeamStays DEF network
    <3>6. LocksIInv => LocksIInv'
      BY <2>8, LocksStep
    <3> QED
      BY <2>2, <3>1, <3>2, <3>3, <3>4, <3>5, <3>6 DEF MembersIInv
  <2> QED
    BY <2>1, <2>3, <2>4, <2>5, <2>6, <2>7, <2>8
<1> QED
  BY <1>1, <1>2, PTL DEF MCSpec, MembersPlayed

\* For any number of devices and tabs, however refreshes race, repeat and get
\* lost: a family has one live session, and none once it was ended from
\* elsewhere, unless it was being rotated at the time (core/sessions.ts).
THEOREM OneSessionTheorem == MCSpec => []OneSessionUntilEnded
<1>1. MembersIInv => OneSessionUntilEnded
  BY SessionsSafe, MembersAssumption DEF MembersIInv, OneSessionUntilEnded
<1> QED
  BY <1>1, MembersInvariant, PTL

\* A device with one tab, to which no answer was lost, is signed in until its
\* member signs out or its session expires or is ended (frontend/src/lib/api.ts).
THEOREM SignedInTheorem == MCSpec => []SignedInUntilEnded
<1>1. MembersIInv => SignedInUntilEnded
  BY SessionsSafe, MembersAssumption DEF MembersIInv, SignedInUntilEnded
<1> QED
  BY <1>1, MembersInvariant, PTL

\* For any number of requests and guesses at once: a code is accepted once, is
\* compared with few wrong ones, and while requests take turns only the newest
\* is live (core/otp.ts).
THEOREM OneCodeTheorem == MCSpec => []OneCodeFewGuesses
<1>1. MembersIInv => OneCodeFewGuesses
  BY CodesSafe DEF MembersIInv, OneCodeFewGuesses
<1> QED
  BY <1>1, MembersInvariant, PTL

\* For any members and sponsors: while registrations follow one another, no two
\* members stand in one leg of a third (core/binary.ts).
THEOREM OneChildTheorem == MCSpec => []OneChildPerLeg
<1>1. MembersIInv => OneChildPerLeg
  BY DEF MembersIInv, PlacementIInv, OneChildPerLeg
<1> QED
  BY <1>1, MembersInvariant, PTL

\* For any members, trees and prices, however the purchases below a member
\* interleave: whatever was invested in a leg is in its total, was matched once
\* or is carried over, and nothing that pairs off is left (core/binary.ts,
\* commission.service.ts).
THEOREM VolumeTheorem == MCSpec => []EveryVolumeIsCounted
<1>1. MembersIInv => EveryVolumeIsCounted
  BY VolumesCounted DEF MembersIInv, EveryVolumeIsCounted
<1> QED
  BY <1>1, MembersInvariant, PTL

\* For any members, sponsors and prices, however purchases and recalculations
\* interleave: a total that no purchase overtook is what the downline invested,
\* and what ranks are granted on is never more than that (core/network.ts).
THEOREM TeamVolumesTheorem == MCSpec => []VolumesAreReal
<1>1. MembersIInv => VolumesAreReal
  BY TeamBaseHolds, TeamVolumes DEF MembersIInv, VolumesAreReal
<1> QED
  BY <1>1, MembersInvariant, PTL

\* For any members, sponsors and placements, in either structure, however many
\* runs of the job overlap: as long as no buyer stands above another, purchases
\* and accruals never wait for each other in a circle (investment.service.ts,
\* daily-roi.job.ts, commission.service.ts, team.service.ts).
THEOREM NoCircularWaitTheorem == ASSUME BuyersApart PROVE MCSpec => []NoCircularWait
<1>1. MembersIInv => NoCircularWait
  BY NoLockCircle DEF MembersIInv, NoCircularWait
<1> QED
  BY <1>1, MembersInvariant, PTL
=============================================================================

---------------------------- MODULE Idempotency ----------------------------
(***************************************************************************)
(* The idempotency keys of requests that move money:                       *)
(* middleware/idempotency.ts.  A request is one HTTP attempt; a client     *)
(* that double-clicks or retries sends several under one key.  The unique  *)
(* (actorType, actorId, key) is the only thing they share: each claims the *)
(* key, or reads what another made of it, in steps of its own.             *)
(***************************************************************************)
EXTENDS Naturals, FiniteSets

CONSTANTS
  Keys,
  Requests,
  KeyOf,          \* [Requests -> Keys]
  IntentOf,       \* [Requests -> the endpoint and the hash of the body]
  Scenes,         \* [handlers : whether a handler may refuse, or throw before its commit,
                  \*  inserts : whether the claim may fail for another reason than its key]
  None

ASSUME IdempotencyAssumption ==
  /\ \A r \in Requests : KeyOf[r] \in Keys
  /\ None \notin Requests /\ {"reused", "in flight", "failed"} \intersect Requests = {}
  /\ Scenes \subseteq [handlers : BOOLEAN, inserts : BOOLEAN]

VARIABLES
  scene,     \* the one of Scenes that is played
  record,    \* [Keys -> the stored row, or NoRecord]
  request,   \* [Requests -> where each request is]
  claimed,   \* requests under way that hold their key
  effects,   \* requests whose handler committed
  answer     \* [Requests -> the request whose result it was answered with,
             \*              a refusal, or None]

vars == <<scene, record, request, claimed, effects, answer>>

Refusals == {"reused", "in flight", "failed"}
Intents == {IntentOf[r] : r \in Requests}
NoRecord == [status |-> "none", intent |-> None, response |-> None]
Steps == {"new", "read", "handler", "committed", "failing", "over"}

TypeOK ==
  /\ scene \in Scenes
  /\ record \in [Keys -> [status : {"none", "IN_FLIGHT", "COMPLETED"},
                          intent : Intents \union {None}, response : Requests \union {None}]]
  /\ request \in [Requests -> Steps]
  /\ claimed \subseteq Requests
  /\ effects \subseteq Requests
  /\ answer \in [Requests -> Requests \union Refusals \union {None}]

Init ==
  /\ scene \in Scenes
  /\ record = [k \in Keys |-> NoRecord]
  /\ request = [r \in Requests |-> "new"]
  /\ claimed = {} /\ effects = {}
  /\ answer = [r \in Requests |-> None]

At(r, pc) == request[r] = pc
Goto(r, pc) == request' = [request EXCEPT ![r] = pc]
End(r) == Goto(r, "over") /\ claimed' = claimed \ {r}
Stored(r) == record[KeyOf[r]]
Store(r, row) == record' = [record EXCEPT ![KeyOf[r]] = row]
Answered(r, a) == answer' = [answer EXCEPT ![r] = a]

-----------------------------------------------------------------------------

\* The insert of the key is the lock.
Claim(r) ==
  /\ At(r, "new")
  /\ \/ /\ Stored(r) = NoRecord
        /\ Store(r, [status |-> "IN_FLIGHT", intent |-> IntentOf[r], response |-> None])
        /\ Goto(r, "handler") /\ claimed' = claimed \union {r}
     \/ /\ Stored(r) # NoRecord \/ scene.inserts
        /\ Goto(r, "read") /\ UNCHANGED <<record, claimed>>
  /\ UNCHANGED <<scene, effects, answer>>

\* A lost insert: what the row says, read afterwards.  With no row the request
\* goes through, without a claim.
Unclaimed(r) ==
  /\ At(r, "read") /\ Stored(r) = NoRecord
  /\ Goto(r, "handler")
  /\ UNCHANGED <<scene, record, claimed, effects, answer>>

\* Wrong variant: the body is not compared.
ReplayAnything(r) ==
  /\ At(r, "read") /\ Stored(r) # NoRecord
  /\ Answered(r, IF Stored(r).status = "IN_FLIGHT" THEN "in flight" ELSE Stored(r).response)
  /\ End(r)
  /\ UNCHANGED <<scene, record, effects>>

\* Another request's key, a request under way, or its stored answer.
Replay(r) ==
  /\ At(r, "read") /\ Stored(r) # NoRecord
  /\ Answered(r, IF Stored(r).intent # IntentOf[r] THEN "reused"
                 ELSE IF Stored(r).status = "IN_FLIGHT" THEN "in flight"
                 ELSE Stored(r).response)
  /\ End(r)
  /\ UNCHANGED <<scene, record, effects>>

\* The handler's transaction commits, or it refuses.
HandlerCommits(r) ==
  /\ At(r, "handler")
  /\ effects' = effects \union {r}
  /\ Goto(r, "committed")
  /\ UNCHANGED <<scene, record, claimed, answer>>

HandlerFails(r) ==
  /\ At(r, "handler") /\ scene.handlers
  /\ Goto(r, "failing")
  /\ UNCHANGED <<scene, record, claimed, effects, answer>>

\* Wrong variant: the key is released whatever the outcome.
FinishReleasing(r) ==
  /\ At(r, "committed")
  /\ IF r \in claimed THEN Store(r, NoRecord) ELSE UNCHANGED record
  /\ Answered(r, r) /\ End(r)
  /\ UNCHANGED <<scene, effects>>

\* res.json: the answer is stored before it is sent, if the key is ours.
Finish(r) ==
  /\ At(r, "committed")
  /\ IF r \in claimed /\ Stored(r) # NoRecord
     THEN Store(r, [Stored(r) EXCEPT !.status = "COMPLETED", !.response = r])
     ELSE UNCHANGED record
  /\ Answered(r, r) /\ End(r)
  /\ UNCHANGED <<scene, effects>>

\* A failed attempt releases the key.
Release(r) ==
  /\ At(r, "failing")
  /\ IF r \in claimed THEN Store(r, NoRecord) ELSE UNCHANGED record
  /\ Answered(r, "failed") /\ End(r)
  /\ UNCHANGED <<scene, effects>>

\* Recording the outcome fails; the answer is sent all the same.
FinishUnrecorded(r) ==
  /\ At(r, "committed") \/ At(r, "failing")
  /\ Answered(r, IF At(r, "committed") THEN r ELSE "failed") /\ End(r)
  /\ UNCHANGED <<scene, record, effects>>

\* The process dies: no answer, and the row stays as it is.
Dies(r) ==
  /\ ~At(r, "new") /\ ~At(r, "over")
  /\ End(r)
  /\ UNCHANGED <<scene, record, effects, answer>>

\* purgeExpiredIdempotencyKeys drops a row a day after it was claimed, when no
\* request that saw it is left.  The key is then as good as new; its finished
\* requests are forgotten, so that the model may send them again.
Purge(k) ==
  LET mine == {r \in Requests : KeyOf[r] = k}
  IN /\ record[k] # NoRecord
     /\ \A r \in mine : At(r, "new") \/ At(r, "over")
     /\ record' = [record EXCEPT ![k] = NoRecord]
     /\ request' = [r \in Requests |-> IF r \in mine THEN "new" ELSE request[r]]
     /\ effects' = effects \ mine
     /\ answer' = [r \in Requests |-> IF r \in mine THEN None ELSE answer[r]]
     /\ UNCHANGED <<scene, claimed>>

-----------------------------------------------------------------------------

Next ==
  \/ \E r \in Requests :
       \/ Claim(r) \/ Unclaimed(r) \/ Replay(r) \/ HandlerCommits(r) \/ HandlerFails(r)
       \/ Finish(r) \/ Release(r) \/ FinishUnrecorded(r) \/ Dies(r)
  \/ \E k \in Keys : Purge(k)

Spec == Init /\ [][Next]_vars

-----------------------------------------------------------------------------
(* Properties *)

\* However often an intent is sent under a key, its handler commits once:
\* "anything arriving afterwards with the same key is answered from the
\* stored response instead of executing again".  It is so while a handler that
\* starts commits or dies, and the insert of a key fails over the key only.
ExecutedOnce ==
  ~scene.handlers /\ ~scene.inserts =>
    \A k \in Keys : Cardinality({r \in effects : KeyOf[r] = k}) <= 1

\* Whoever is told the result of a request sent that request, and it was done.
AnswersAreGenuine ==
  \A r \in Requests : answer[r] \in Requests =>
    answer[r] \in effects /\ KeyOf[answer[r]] = KeyOf[r] /\ IntentOf[answer[r]] = IntentOf[r]
=============================================================================

------------------------------ MODULE Sessions ------------------------------
(***************************************************************************)
(* One member's sessions: core/sessions.ts on the server, and the browser  *)
(* of frontend/src/lib/api.ts, whose tabs share a refresh token in         *)
(* localStorage and refresh on a 401, each for itself.  A refresh reads    *)
(* the session, and rotates it in a transaction: it retires the row under  *)
(* a guard, which locks it, and creates a successor in the same family.    *)
(*                                                                         *)
(* Sessions are numbered in the order they are created; a refresh token    *)
(* stands for its session, and a family is named by its first session.  A  *)
(* statement that ends sessions sees the rows that are committed when it   *)
(* begins, waits for those that are locked, and then asks again whether    *)
(* they are still live.                                                    *)
(***************************************************************************)
EXTENDS Integers, Sequences, FiniteSets

CONSTANTS
  Tabs,
  DeviceOf,      \* [Tabs -> the device, whose tabs share a storage]
  Scenes         \* [sessions : bound on the sessions created,
                 \*  loses : the devices to which an answer may be lost,
                 \*  ends : whether sessions are ended from elsewhere,
                 \*  expires : whether they may expire,
                 \*  leaves : whether the member may sign out]

VARIABLES
  scene,     \* the one of Scenes that is played
  row,       \* the sessions, each its family and whether it is live
  store,     \* [devices -> the refresh token in localStorage, 0 for none]
  tab,       \* [Tabs -> where its refresh is]
  sweep,     \* the statement that ends sessions from elsewhere, while it runs
  expired,   \* families whose expiresAt has passed
  over,      \* families that were ended from elsewhere
  missed,    \* those of them that were rotating while they were ended
  signedIn,  \* [devices -> family of the last sign-in, 0 after a sign-out]
  unlucky    \* devices that lost an answer

vars == <<scene, row, store, tab, sweep, expired, over, missed, signedIn, unlucky>>
history == <<expired, over, missed, signedIn, unlucky>>

Devices == {DeviceOf[t] : t \in Tabs}
Idle == [pc |-> "idle", token |-> 0, seen |-> {}]

Init ==
  /\ scene \in Scenes
  /\ row = <<>>
  /\ store = [d \in Devices |-> 0]
  /\ tab = [t \in Tabs |-> Idle]
  /\ sweep = [on |-> FALSE, seen |-> {}]
  /\ expired = {} /\ over = {} /\ missed = {}
  /\ signedIn = [d \in Devices |-> 0]
  /\ unlucky = {}

-----------------------------------------------------------------------------
Sessions == DOMAIN row
Family(s) == row[s].family
LiveOf(f) == {s \in Sessions : row[s].live /\ Family(s) = f}
Live == {s \in Sessions : row[s].live}
At(t, pc) == tab[t].pc = pc
Move(t, pc) == tab' = [tab EXCEPT ![t].pc = pc]
\* The rows that a rotation has retired and not yet committed.
Locked == {tab[t].token : t \in {u \in Tabs : At(u, "rotating")}}
End(ss) == row' = [s \in Sessions |-> IF s \in ss THEN [row[s] EXCEPT !.live = FALSE] ELSE row[s]]

Room == Len(row) < scene.sessions
Create(rows, f) == Append(rows, [family |-> f, live |-> TRUE])

-----------------------------------------------------------------------------
(* Signing in and out *)

\* issue: a family of its own.
SignIn(d) ==
  LET s == Len(row) + 1
  IN /\ store[d] = 0 /\ Room
     /\ \A t \in Tabs : DeviceOf[t] = d => At(t, "idle")
     /\ row' = Create(row, s)
     /\ store' = [store EXCEPT ![d] = s]
     /\ signedIn' = [signedIn EXCEPT ![d] = s]
     /\ UNCHANGED <<scene, tab, sweep, expired, over, missed, unlucky>>

\* logout: the token that is stored is revoked, and forgotten.
SignOut(d) ==
  /\ scene.leaves /\ store[d] # 0 /\ store[d] \notin Locked
  /\ End({store[d]})
  /\ store' = [store EXCEPT ![d] = 0]
  /\ signedIn' = [signedIn EXCEPT ![d] = 0]
  /\ UNCHANGED <<scene, tab, sweep, expired, over, missed, unlucky>>

Expire(f) ==
  /\ scene.expires /\ f \in {Family(s) : s \in Live} \ expired
  /\ expired' = expired \union {f}
  /\ UNCHANGED <<scene, row, store, tab, sweep, over, missed, signedIn, unlucky>>

-----------------------------------------------------------------------------
(* Refreshing *)

\* A request is answered 401, because its access token expired or its session
\* ended, and the tab sends the refresh token that is stored by then.
Refresh(t) ==
  /\ At(t, "idle") /\ store[DeviceOf[t]] # 0
  /\ tab' = [tab EXCEPT ![t] = [Idle EXCEPT !.pc = "sent", !.token = store[DeviceOf[t]]]]
  /\ UNCHANGED <<scene, row, store, sweep, history>>

\* Wrong variant: a token that comes back ends every session of the account.
ReadStrictly(t) ==
  LET s == tab[t].token
  IN /\ At(t, "sent")
     /\ tab' = [tab EXCEPT ![t].pc = IF ~row[s].live THEN "reuse"
                                     ELSE IF Family(s) \in expired THEN "refused" ELSE "read",
                           ![t].seen = IF row[s].live THEN {} ELSE Live]
     /\ UNCHANGED <<scene, row, store, sweep, history>>

\* rotate reads the session.  One that was retired takes its family with it.
Read(t) ==
  LET s == tab[t].token
  IN /\ At(t, "sent")
     /\ tab' = [tab EXCEPT ![t].pc = IF ~row[s].live THEN "reuse"
                                     ELSE IF Family(s) \in expired THEN "refused" ELSE "read",
                           ![t].seen = IF row[s].live THEN {} ELSE LiveOf(Family(s))]
     /\ UNCHANGED <<scene, row, store, sweep, history>>

RevokeFamily(t) ==
  /\ At(t, "reuse") /\ tab[t].seen \intersect Locked = {}
  /\ End(tab[t].seen) /\ Move(t, "refused")
  /\ UNCHANGED <<scene, store, sweep, history>>

\* Wrong variant: the row is retired whatever became of it since.
RetireUnguarded(t) ==
  LET s == tab[t].token
  IN /\ At(t, "read") /\ s \notin Locked
     /\ Move(t, "rotating")
     /\ missed' = IF sweep.on THEN missed \union {Family(s)} ELSE missed
     /\ UNCHANGED <<scene, row, store, sweep, expired, over, signedIn, unlucky>>

\* The guarded update: it waits for the row, and a row retired since refuses.
Retire(t) ==
  LET s == tab[t].token
  IN /\ At(t, "read") /\ s \notin Locked
     /\ Move(t, IF row[s].live THEN "rotating" ELSE "refused")
     /\ missed' = IF row[s].live /\ sweep.on THEN missed \union {Family(s)} ELSE missed
     /\ UNCHANGED <<scene, row, store, sweep, expired, over, signedIn, unlucky>>

\* The successor is created, and both are committed.
Rotate(t) ==
  LET s == tab[t].token
  IN /\ At(t, "rotating") /\ Room
     /\ row' = Create([row EXCEPT ![s].live = FALSE], Family(s))
     /\ tab' = [tab EXCEPT ![t].pc = "rotated", ![t].token = Len(row) + 1]
     /\ UNCHANGED <<scene, store, sweep, history>>

Close(t, token) ==
  /\ store' = [store EXCEPT ![DeviceOf[t]] = token]
  /\ tab' = [tab EXCEPT ![t] = Idle]

Answer(t) ==
  /\ At(t, "rotated") /\ Close(t, tab[t].token)
  /\ UNCHANGED <<scene, row, sweep, history>>

\* A refusal clears the storage, whichever tab filled it since.
Refused(t) ==
  /\ At(t, "refused") /\ Close(t, 0)
  /\ UNCHANGED <<scene, row, sweep, history>>

\* No answer is treated like a refusal.
AnswerLost(t) ==
  /\ DeviceOf[t] \in scene.loses /\ tab[t].pc \in {"sent", "rotated", "refused"} /\ Close(t, 0)
  /\ unlucky' = unlucky \union {DeviceOf[t]}
  /\ UNCHANGED <<scene, row, sweep, expired, over, missed, signedIn>>

-----------------------------------------------------------------------------
(* Ending sessions from elsewhere *)

\* revokeAllFor (a password change, sign-out everywhere, a suspension), or
\* revokeById for one session.
StartSweep ==
  /\ scene.ends /\ ~sweep.on
  /\ \E ss \in {Live} \union {{s} : s \in Live} :
       /\ sweep' = [on |-> TRUE, seen |-> ss]
       /\ missed' = missed \union {Family(s) : s \in ss \intersect Locked}
  /\ UNCHANGED <<scene, row, store, tab, expired, over, signedIn, unlucky>>

FinishSweep ==
  /\ sweep.on /\ sweep.seen \intersect Locked = {}
  /\ End(sweep.seen)
  /\ over' = over \union {Family(s) : s \in sweep.seen}
  /\ sweep' = [on |-> FALSE, seen |-> {}]
  /\ UNCHANGED <<scene, store, tab, expired, missed, signedIn, unlucky>>

Next ==
  \/ \E d \in Devices : SignIn(d) \/ SignOut(d)
  \/ \E f \in Sessions : Expire(f)
  \/ \E t \in Tabs :
       \/ Refresh(t) \/ Read(t) \/ RevokeFamily(t) \/ Retire(t) \/ Rotate(t)
       \/ Answer(t) \/ Refused(t) \/ AnswerLost(t)
  \/ StartSweep \/ FinishSweep

Spec == Init /\ [][Next]_vars

-----------------------------------------------------------------------------
(* Properties *)

\* However refreshes race, repeat or get lost, a family has one live session.
OneLivePerFamily == \A f \in Sessions : Cardinality(LiveOf(f)) <= 1

\* "A block that leaves the member's tokens working is not a block": what was
\* ended stays ended, although a refresh had read it before, unless it was
\* being rotated at the time.
EndedStaysEnded == ~sweep.on => \A f \in over \ missed : LiveOf(f) = {}

Steady(d) == d \notin unlucky /\ Cardinality({t \in Tabs : DeviceOf[t] = d}) = 1

\* A device with one tab and a working network stays signed in until its
\* member signs out or its session expires or is ended: its storage holds the
\* live session of its family, or the answer under way does.  Nothing another
\* device does, repeats or loses changes that.
SignedInUntilEnded ==
  \A t \in Tabs :
    LET d == DeviceOf[t]
        f == signedIn[d]
    IN Steady(d) /\ f # 0 /\ f \notin expired \union over =>
         LiveOf(f) = {IF At(t, "rotated") THEN tab[t].token ELSE store[d]}
=============================================================================

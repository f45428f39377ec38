---------------------------- MODULE OneTimeCodes ----------------------------
(***************************************************************************)
(* The one-time codes of core/otp.ts, for one address and one purpose.     *)
(* Issuing a code reads what was issued lately, spends the codes that are  *)
(* live and creates another, in three statements; verifying one reads the  *)
(* challenge and then counts a wrong guess or spends it.  Neither is a     *)
(* transaction, and requests overlap.                                      *)
(***************************************************************************)
EXTENDS Integers, Sequences, FiniteSets

CONSTANTS
  Askers,        \* the requests for a code that may be under way at a time
  Guessers,      \* the verifications that may be
  MaxAttempts,   \* MAX_ATTEMPTS
  MaxPerWindow   \* MAX_PER_WINDOW; the model is one such window long

VARIABLES
  overlap,     \* whether requests for a code may overlap
  challenge,   \* the rows, in the order they are created
  cooling,     \* whether the last one is younger than RESEND_COOLDOWN_MS
  asker,       \* [Askers -> where each is, and which live codes it found]
  guesser,     \* [Guessers -> where each is, and what it guesses]
  compared,    \* [challenges -> wrong codes it was compared with]
  accepted     \* [challenges -> how often its code was accepted]

vars == <<overlap, challenge, cooling, asker, guesser, compared, accepted>>

NoAsker == [pc |-> "idle"]
NoGuesser == [pc |-> "idle", of |-> 0]

Init ==
  /\ overlap \in BOOLEAN
  /\ challenge = <<>> /\ cooling = FALSE
  /\ asker = [a \in Askers |-> NoAsker]
  /\ guesser = [g \in Guessers |-> NoGuesser]
  /\ compared = <<>> /\ accepted = <<>>

Is(a, pc) == asker[a].pc = pc
Does(g, pc) == guesser[g].pc = pc
Live(c) == ~challenge[c].consumed /\ ~challenge[c].expired

-----------------------------------------------------------------------------
(* issue *)

\* assertNotFlooding: not too soon, and not too often.
Ask(a) ==
  /\ Is(a, "idle") /\ ~cooling /\ Len(challenge) < MaxPerWindow
  /\ overlap \/ \A b \in Askers : Is(b, "idle")
  /\ asker' = [asker EXCEPT ![a].pc = "spend"]
  /\ UNCHANGED <<overlap, challenge, cooling, guesser, compared, accepted>>

\* Wrong variant: the codes issued before stay live.
SpendNone(a) ==
  /\ Is(a, "spend") /\ asker' = [asker EXCEPT ![a].pc = "create"]
  /\ UNCHANGED <<overlap, challenge, cooling, guesser, compared, accepted>>

\* "A member starting a new attempt invalidates the previous one."
SpendOthers(a) ==
  /\ Is(a, "spend") /\ asker' = [asker EXCEPT ![a].pc = "create"]
  /\ challenge' = [c \in DOMAIN challenge |-> [challenge[c] EXCEPT !.consumed = @ \/ Live(c)]]
  /\ UNCHANGED <<overlap, cooling, guesser, compared, accepted>>

Create(a) ==
  /\ Is(a, "create") /\ asker' = [asker EXCEPT ![a] = NoAsker]
  /\ challenge' = Append(challenge, [consumed |-> FALSE, expired |-> FALSE, attempts |-> 0])
  /\ compared' = Append(compared, 0) /\ accepted' = Append(accepted, 0)
  /\ cooling' = TRUE
  /\ UNCHANGED <<overlap, guesser>>

\* The process stops between two of them.
AskerDies(a) ==
  /\ ~Is(a, "idle") /\ asker' = [asker EXCEPT ![a] = NoAsker]
  /\ UNCHANGED <<overlap, challenge, cooling, guesser, compared, accepted>>

CoolDown ==
  /\ cooling /\ cooling' = FALSE
  /\ UNCHANGED <<overlap, challenge, asker, guesser, compared, accepted>>

Expire(c) ==
  /\ ~challenge[c].expired /\ challenge' = [challenge EXCEPT ![c].expired = TRUE]
  /\ UNCHANGED <<overlap, cooling, asker, guesser, compared, accepted>>

-----------------------------------------------------------------------------
(* verify *)

\* The challenge is read: not spent, not expired, not guessed at too often;
\* and the code is the right one or not.
Guess(g, c) ==
  /\ Does(g, "idle") /\ Live(c) /\ challenge[c].attempts < MaxAttempts
  /\ guesser' \in {[guesser EXCEPT ![g] = [pc |-> next, of |-> c]] : next \in {"wrong", "right"}}
  /\ UNCHANGED <<overlap, challenge, cooling, asker, compared, accepted>>

\* Wrong variant: a code that was guessed at too often is not burned, and the
\* count is not kept.
CountNothing(g) ==
  LET c == guesser[g].of
  IN /\ Does(g, "wrong") /\ compared' = [compared EXCEPT ![c] = @ + 1]
     /\ guesser' = [guesser EXCEPT ![g] = NoGuesser]
     /\ UNCHANGED <<overlap, challenge, cooling, asker, accepted>>

\* The count is raised, and what it is now decides whether the code is burned.
CountWrong(g) ==
  LET c == guesser[g].of
  IN /\ Does(g, "wrong") /\ compared' = [compared EXCEPT ![c] = @ + 1]
     /\ challenge' = [challenge EXCEPT ![c].attempts = @ + 1]
     /\ guesser' = [guesser EXCEPT ![g] = IF challenge[c].attempts + 1 >= MaxAttempts
                                          THEN [@ EXCEPT !.pc = "burn"] ELSE NoGuesser]
     /\ UNCHANGED <<overlap, cooling, asker, accepted>>

Burn(g) ==
  /\ Does(g, "burn") /\ challenge' = [challenge EXCEPT ![guesser[g].of].consumed = TRUE]
  /\ guesser' = [guesser EXCEPT ![g] = NoGuesser]
  /\ UNCHANGED <<overlap, cooling, asker, compared, accepted>>

\* Wrong variant: the code is spent whoever spent it since.
SpendUnguarded(g) ==
  LET c == guesser[g].of
  IN /\ Does(g, "right") /\ guesser' = [guesser EXCEPT ![g] = NoGuesser]
     /\ challenge' = [challenge EXCEPT ![c].consumed = TRUE]
     /\ accepted' = [accepted EXCEPT ![c] = @ + 1]
     /\ UNCHANGED <<overlap, cooling, asker, compared>>

\* The guarded update, which accepts the code if nobody spent it since.
Spend(g) ==
  LET c == guesser[g].of
  IN /\ Does(g, "right") /\ guesser' = [guesser EXCEPT ![g] = NoGuesser]
     /\ challenge' = [challenge EXCEPT ![c].consumed = TRUE]
     /\ accepted' = IF challenge[c].consumed THEN accepted ELSE [accepted EXCEPT ![c] = @ + 1]
     /\ UNCHANGED <<overlap, cooling, asker, compared>>

GuesserDies(g) ==
  /\ ~Does(g, "idle") /\ guesser' = [guesser EXCEPT ![g] = NoGuesser]
  /\ UNCHANGED <<overlap, challenge, cooling, asker, compared, accepted>>

Next ==
  \/ \E a \in Askers : Ask(a) \/ SpendOthers(a) \/ Create(a) \/ AskerDies(a)
  \/ CoolDown
  \/ \E c \in DOMAIN challenge : Expire(c) \/ \E g \in Guessers : Guess(g, c)
  \/ \E g \in Guessers : CountWrong(g) \/ Burn(g) \/ Spend(g) \/ GuesserDies(g)

Spec == Init /\ [][Next]_vars

-----------------------------------------------------------------------------
(* Properties *)

\* "Five attempts per challenge", "single use", "never more than one live
\* code": a code is accepted once, however submissions race and die; the wrong
\* ones it is compared with are as many as may be, and one more for each that
\* was read before the last was counted; and while requests for codes take
\* turns at most the newest code is live.
OneCodeFewGuesses ==
  \A c \in DOMAIN challenge :
    /\ accepted[c] <= 1 /\ (accepted[c] = 1 => challenge[c].consumed)
    /\ compared[c] < MaxAttempts + Cardinality(Guessers)
    /\ ~overlap /\ Live(c) => c = Len(challenge)
=============================================================================

--------------------------- MODULE EarningsProofs ---------------------------
(***************************************************************************)
(* What a member may rely on of what it earns, for any investments,        *)
(* ceilings and payouts, and any ladder, rewards, evaluations and vesting  *)
(* runs.                                                                   *)
(*                                                                         *)
(* The ceiling.  The update's guard looks at the committed row; what makes *)
(* it enough is that a row charged and not yet committed is locked by the  *)
(* one payout that charged it.  The wallet is credited what the rows are   *)
(* charged because a payout carries what it has left from row to row.      *)
(*                                                                         *)
(* Rewards.  An achievement is rewarded once because one evaluation makes  *)
(* it and has its reward in hand until that is credited or scheduled.  Its *)
(* instalments add up to the reward by splitEvenly, are paid once because  *)
(* an unpaid one is claimed by one run, and the last one stamps it because *)
(* runs count what is due of a rank one at a time.  Runs that die are not  *)
(* assumed away; the title is about evaluations that do not overlap.       *)
(***************************************************************************)
EXTENDS MCEarnings, FiniteSetTheorems, SequenceTheorems, WellFoundedInduction, TLAPS

-----------------------------------------------------------------------------
(* Sums *)

\* An element of a set, the one that sums over it take first.
Pick(s) == CHOOSE x \in s : TRUE

\* g[s] is the sum of f over s, for every part s of S.
Sums(f, S, g) ==
  g = [s \in SUBSET S |-> IF s = {} THEN 0 ELSE f[Pick(s)] + g[s \ {Pick(s)}]]

SumOver(f, S) == (CHOOSE g : Sums(f, S, g))[S]

\* Among some parts of a finite set, one has no other of them as a part.
LEMMA SmallestPart ==
  ASSUME NEW S, IsFiniteSet(S), NEW Bad \in SUBSET SUBSET S, Bad # {}
  PROVE  \E T \in Bad : \A U \in Bad : U \subseteq T => U = T
<1>1. \A T \in Bad : IsFiniteSet(T) /\ T \in FiniteSubsetsOf(S)
  BY FS_Subset DEF FiniteSubsetsOf
<1>2. PICK T \in Bad : \A U \in Bad : <<U, T>> \notin StrictSubsetOrdering(S)
  BY <1>1, FS_StrictSubsetOrderingWellFounded, WFMin
<1>3. \A U \in Bad : U \subseteq T => U = T
  BY <1>1, <1>2 DEF StrictSubsetOrdering, FiniteSubsetsOf
<1> QED
  BY <1>3

\* The element a sum adds first belongs to the set it sums over.
LEMMA PickType ==
  ASSUME NEW s, s # {}
  PROVE  Pick(s) \in s
BY DEF Pick

\* Sums of the same values agree.
LEMMA SumsAgree ==
  ASSUME NEW S, IsFiniteSet(S), NEW A, NEW B, S \subseteq A, S \subseteq B,
         NEW f, NEW e, \A x \in S : f[x] = e[x],
         NEW g, NEW h, Sums(f, A, g), Sums(e, B, h)
  PROVE  g[S] = h[S]
<1> DEFINE Bad == {s \in SUBSET S : g[s] # h[s]}
<1>1. SUFFICES ASSUME Bad # {} PROVE FALSE
  OBVIOUS
<1>2. Bad \in SUBSET SUBSET S
  OBVIOUS
<1> HIDE DEF Bad
<1>3. PICK s \in Bad : \A u \in Bad : u \subseteq s => u = s
  BY <1>1, <1>2, SmallestPart
<1>4. s \subseteq S /\ g[s] # h[s]
  BY DEF Bad
<1>5. /\ g[s] = IF s = {} THEN 0 ELSE f[Pick(s)] + g[s \ {Pick(s)}]
      /\ h[s] = IF s = {} THEN 0 ELSE e[Pick(s)] + h[s \ {Pick(s)}]
  BY <1>4 DEF Sums
<1>6. s # {}
  BY <1>4, <1>5
<1>7. Pick(s) \in s
  BY <1>6, PickType
<1>8. f[Pick(s)] = e[Pick(s)]
  BY <1>4, <1>7
<1>9. s \ {Pick(s)} \notin Bad
  BY <1>3, <1>7
<1>10. g[s \ {Pick(s)}] = h[s \ {Pick(s)}]
  BY <1>4, <1>9 DEF Bad
<1> QED
  BY <1>4, <1>5, <1>8, <1>10

\* Every finite set has its sums.
LEMMA SumsExist ==
  ASSUME NEW S, IsFiniteSet(S), NEW f
  PROVE  \E g : Sums(f, S, g)
<1> DEFINE Bad == {s \in SUBSET S : ~\E g : Sums(f, s, g)}
<1>1. SUFFICES ASSUME Bad # {} PROVE FALSE
  OBVIOUS
<1>2. Bad \in SUBSET SUBSET S
  OBVIOUS
<1>0. \A s \in SUBSET S : s \in Bad <=> ~\E g : Sums(f, s, g)
  OBVIOUS
<1> HIDE DEF Bad
<1>3. PICK T \in Bad : \A u \in Bad : u \subseteq T => u = T
  BY <1>1, <1>2, SmallestPart
<1> DEFINE W(s) == CHOOSE g : Sums(f, s, g)
           h == [u \in SUBSET T |-> IF u = {} THEN 0 ELSE f[Pick(u)] + W(u \ {Pick(u)})[u \ {Pick(u)}]]
<1>4. T \subseteq S /\ IsFiniteSet(T)
  BY <1>2, FS_Subset
<1>5. ASSUME NEW u \in SUBSET T, u # T PROVE Sums(f, u, W(u))
  BY <1>0, <1>3, <1>4, <1>5
<1> HIDE DEF W
<1>6. ASSUME NEW v \in SUBSET T, v # T PROVE h[v] = W(v)[v]
  <2>1. Sums(f, v, W(v))
    BY <1>5, <1>6
  <2>2. W(v)[v] = IF v = {} THEN 0 ELSE f[Pick(v)] + W(v)[v \ {Pick(v)}]
    BY <2>1 DEF Sums
  <2>3. CASE v = {}
    BY <2>2, <2>3
  <2>4. CASE v # {}
    <3> DEFINE w == v \ {Pick(v)}
    <3>1. w \subseteq v /\ w \subseteq w /\ w \in SUBSET T /\ w # T
      BY <1>6, <2>4, PickType
    <3>2. Sums(f, w, W(w)) /\ IsFiniteSet(w)
      BY <1>4, <1>5, <3>1, FS_Subset
    <3>3. W(v)[w] = W(w)[w]
      <4> HIDE DEF w
      <4>1. \A x \in w : f[x] = f[x]
        OBVIOUS
      <4> QED
        BY <2>1, <3>1, <3>2, <4>1, SumsAgree
    <3> QED
      BY <2>2, <2>4, <3>3
  <2> QED
    BY <2>3, <2>4
<1>7. \A u \in SUBSET T : u # {} => u \ {Pick(u)} \in SUBSET T /\ u \ {Pick(u)} # T
  BY PickType
<1>8. h = [u \in SUBSET T |-> IF u = {} THEN 0 ELSE f[Pick(u)] + h[u \ {Pick(u)}]]
  <2>1. \A u \in SUBSET T : u # {} => h[u \ {Pick(u)}] = W(u \ {Pick(u)})[u \ {Pick(u)}]
    BY <1>6, <1>7
  <2> QED
    BY <2>1
<1>9. Sums(f, T, h)
  BY <1>8 DEF Sums
<1> QED
  BY <1>0, <1>3, <1>4, <1>9

\* The sum of nothing, and of one more.
LEMMA SumStep ==
  ASSUME NEW S, IsFiniteSet(S), NEW f
  PROVE  /\ S = {} => SumOver(f, S) = 0
         /\ S # {} => SumOver(f, S) = f[Pick(S)] + SumOver(f, S \ {Pick(S)})
<1> DEFINE G(s) == CHOOSE g : Sums(f, s, g)
<1>1. \A s \in SUBSET S : IsFiniteSet(s) /\ Sums(f, s, G(s))
  BY SumsExist, FS_Subset
<1>2. \A s \in SUBSET S : SumOver(f, s) = G(s)[s]
  BY DEF SumOver
<1> HIDE DEF G
<1>3. G(S)[S] = IF S = {} THEN 0 ELSE f[Pick(S)] + G(S)[S \ {Pick(S)}]
  BY <1>1 DEF Sums
<1>4. ASSUME NEW T, T \subseteq S PROVE G(S)[T] = G(T)[T]
  <2>1. IsFiniteSet(T) /\ Sums(f, T, G(T)) /\ Sums(f, S, G(S))
    BY <1>1, <1>4
  <2>2. \A x \in T : f[x] = f[x]
    OBVIOUS
  <2> QED
    BY <1>4, <2>1, <2>2, SumsAgree
<1> QED
  BY <1>2, <1>3, <1>4

\* Two functions that agree on a set have the same sum over it.
LEMMA SumSame ==
  ASSUME NEW S, IsFiniteSet(S), NEW f, NEW e, \A x \in S : f[x] = e[x]
  PROVE  SumOver(f, S) = SumOver(e, S)
<1> DEFINE g == CHOOSE i : Sums(f, S, i)
           h == CHOOSE i : Sums(e, S, i)
<1>1. Sums(f, S, g) /\ Sums(e, S, h)
  BY SumsExist
<1>2. SumOver(f, S) = g[S] /\ SumOver(e, S) = h[S]
  BY DEF SumOver
<1> HIDE DEF g, h
<1>3. g[S] = h[S]
  BY <1>1, SumsAgree
<1> QED
  BY <1>2, <1>3

\* A sum of integers over a finite set is an integer.
LEMMA SumType ==
  ASSUME NEW S, IsFiniteSet(S), NEW f, \A x \in S : f[x] \in Int
  PROVE  SumOver(f, S) \in Int
<1> DEFINE Bad == {s \in SUBSET S : SumOver(f, s) \notin Int}
<1>1. SUFFICES ASSUME Bad # {} PROVE FALSE
  OBVIOUS
<1>2. Bad \in SUBSET SUBSET S
  OBVIOUS
<1>0. \A s \in SUBSET S : s \in Bad <=> SumOver(f, s) \notin Int
  OBVIOUS
<1> HIDE DEF Bad
<1>3. PICK s \in Bad : \A u \in Bad : u \subseteq s => u = s
  BY <1>1, <1>2, SmallestPart
<1>4. s \subseteq S /\ IsFiniteSet(s) /\ SumOver(f, s) \notin Int
  BY <1>0, <1>2, FS_Subset
<1>5. s # {}
  <2>1. CASE s = {}
    <3>1. SumOver(f, s) = 0
      BY <1>4, <2>1, SumStep
    <3> QED
      BY <1>4, <3>1
  <2> QED
    BY <2>1
<1>6. Pick(s) \in s /\ f[Pick(s)] \in Int
  BY <1>4, <1>5, PickType
<1>7. SumOver(f, s \ {Pick(s)}) \in Int
  BY <1>0, <1>3, <1>4, <1>6
<1>8. SumOver(f, s) = f[Pick(s)] + SumOver(f, s \ {Pick(s)})
  BY <1>4, <1>5, SumStep
<1> QED
  BY <1>4, <1>6, <1>7, <1>8

\* Any element may be added last.
LEMMA SumAdds ==
  ASSUME NEW S, IsFiniteSet(S), NEW f, \A x \in S : f[x] \in Int, NEW x \in S
  PROVE  SumOver(f, S) = f[x] + SumOver(f, S \ {x})
<1> DEFINE Bad == {s \in SUBSET S : \E y \in s : SumOver(f, s) # f[y] + SumOver(f, s \ {y})}
<1>1. SUFFICES ASSUME Bad # {} PROVE FALSE
  OBVIOUS
<1>2. Bad \in SUBSET SUBSET S
  OBVIOUS
<1>0. \A s \in SUBSET S : s \in Bad <=> \E y \in s : SumOver(f, s) # f[y] + SumOver(f, s \ {y})
  OBVIOUS
<1> HIDE DEF Bad
<1>3. PICK s \in Bad : \A u \in Bad : u \subseteq s => u = s
  BY <1>1, <1>2, SmallestPart
<1>4. s \subseteq S /\ IsFiniteSet(s)
  BY <1>2, FS_Subset
<1>5. PICK y \in s : SumOver(f, s) # f[y] + SumOver(f, s \ {y})
  BY <1>0, <1>4
<1> DEFINE p == Pick(s)
<1>6. p \in s /\ SumOver(f, s) = f[p] + SumOver(f, s \ {p})
  BY <1>4, SumStep, PickType
<1> HIDE DEF p
<1>7. p # y
  BY <1>5, <1>6
<1>8. SumOver(f, s \ {p}) = f[y] + SumOver(f, (s \ {p}) \ {y})
  BY <1>0, <1>3, <1>4, <1>6, <1>7
<1>9. SumOver(f, s \ {y}) = f[p] + SumOver(f, (s \ {y}) \ {p})
  BY <1>0, <1>3, <1>4, <1>6, <1>7
<1>10. (s \ {p}) \ {y} = (s \ {y}) \ {p}
  OBVIOUS
<1>11. SumOver(f, (s \ {y}) \ {p}) \in Int /\ f[p] \in Int /\ f[y] \in Int
  <2>1. IsFiniteSet((s \ {y}) \ {p}) /\ \A z \in (s \ {y}) \ {p} : f[z] \in Int
    BY <1>4, FS_Subset
  <2> QED
    BY <1>4, <1>6, <2>1, SumType
<1>12. \A a, b, c \in Int : a + (b + c) = b + (a + c)
  OBVIOUS
<1>13. SumOver(f, s) = f[p] + (f[y] + SumOver(f, (s \ {y}) \ {p}))
  BY <1>6, <1>8, <1>10
<1>14. f[y] + SumOver(f, s \ {y}) = f[y] + (f[p] + SumOver(f, (s \ {y}) \ {p}))
  BY <1>9
<1> QED
  BY <1>5, <1>11, <1>12, <1>13, <1>14

\* A sum of natural numbers over a finite set is a natural number.
LEMMA SumNatural ==
  ASSUME NEW S, IsFiniteSet(S), NEW f, \A x \in S : f[x] \in Nat
  PROVE  SumOver(f, S) \in Nat
<1> DEFINE Bad == {s \in SUBSET S : SumOver(f, s) \notin Nat}
<1>1. SUFFICES ASSUME Bad # {} PROVE FALSE
  OBVIOUS
<1>2. Bad \in SUBSET SUBSET S
  OBVIOUS
<1>0. \A s \in SUBSET S : s \in Bad <=> SumOver(f, s) \notin Nat
  OBVIOUS
<1> HIDE DEF Bad
<1>3. PICK s \in Bad : \A u \in Bad : u \subseteq s => u = s
  BY <1>1, <1>2, SmallestPart
<1>4. s \subseteq S /\ IsFiniteSet(s) /\ SumOver(f, s) \notin Nat
  BY <1>0, <1>2, FS_Subset
<1>5. s # {}
  <2>1. CASE s = {}
    <3>1. SumOver(f, s) = 0
      BY <1>4, <2>1, SumStep
    <3> QED
      BY <1>4, <3>1
  <2> QED
    BY <2>1
<1>6. Pick(s) \in s /\ f[Pick(s)] \in Nat
  BY <1>4, <1>5, PickType
<1>7. SumOver(f, s \ {Pick(s)}) \in Nat
  BY <1>0, <1>3, <1>4, <1>6
<1>8. SumOver(f, s) = f[Pick(s)] + SumOver(f, s \ {Pick(s)})
  BY <1>4, <1>5, SumStep
<1> QED
  BY <1>4, <1>6, <1>7, <1>8

\* Sums are added term by term.
LEMMA SumPlus ==
  ASSUME NEW S, IsFiniteSet(S), NEW f, NEW e, NEW d,
         \A x \in S : f[x] \in Int /\ e[x] \in Int /\ d[x] = f[x] + e[x]
  PROVE  SumOver(d, S) = SumOver(f, S) + SumOver(e, S)
<1> DEFINE Bad == {s \in SUBSET S : SumOver(d, s) # SumOver(f, s) + SumOver(e, s)}
<1>1. SUFFICES ASSUME Bad # {} PROVE FALSE
  OBVIOUS
<1>2. Bad \in SUBSET SUBSET S
  OBVIOUS
<1>0. \A s \in SUBSET S : s \in Bad <=> SumOver(d, s) # SumOver(f, s) + SumOver(e, s)
  OBVIOUS
<1> HIDE DEF Bad
<1>3. PICK s \in Bad : \A u \in Bad : u \subseteq s => u = s
  BY <1>1, <1>2, SmallestPart
<1>4. s \subseteq S /\ IsFiniteSet(s) /\ SumOver(d, s) # SumOver(f, s) + SumOver(e, s)
  BY <1>0, <1>2, FS_Subset
<1>5. s # {}
  <2>1. CASE s = {}
    <3>1. SumOver(d, s) = 0 /\ SumOver(f, s) = 0 /\ SumOver(e, s) = 0
      BY <1>4, <2>1, SumStep
    <3> QED
      BY <1>4, <3>1
  <2> QED
    BY <2>1
<1> DEFINE x == Pick(s)
           u == s \ {x}
<1>6. x \in s
  BY <1>5, PickType
<1>7. /\ SumOver(d, s) = d[x] + SumOver(d, u)
      /\ SumOver(f, s) = f[x] + SumOver(f, u)
      /\ SumOver(e, s) = e[x] + SumOver(e, u)
  BY <1>4, <1>5, SumStep
<1> HIDE DEF x
<1>8. SumOver(d, u) = SumOver(f, u) + SumOver(e, u)
  BY <1>0, <1>3, <1>4, <1>6
<1>9. SumOver(f, u) \in Int /\ SumOver(e, u) \in Int
  <2>1. IsFiniteSet(u) /\ \A y \in u : f[y] \in Int /\ e[y] \in Int
    BY <1>4, FS_Subset
  <2> HIDE DEF u
  <2> QED
    BY <2>1, SumType
<1>10. f[x] \in Int /\ e[x] \in Int /\ d[x] = f[x] + e[x]
  BY <1>4, <1>6
<1> HIDE DEF u
<1> QED
  BY <1>4, <1>7, <1>8, <1>9, <1>10

\* A sum of zeros.
LEMMA SumZero ==
  ASSUME NEW S, IsFiniteSet(S), NEW f, \A x \in S : f[x] = 0
  PROVE  SumOver(f, S) = 0
<1>0. \A x \in S : f[x] \in Int /\ f[x] = f[x] + f[x]
  OBVIOUS
<1>1. SumOver(f, S) = SumOver(f, S) + SumOver(f, S)
  BY <1>0, SumPlus
<1>2. SumOver(f, S) \in Int
  BY <1>0, SumType
<1>3. \A n \in Int : n = n + n => n = 0
  OBVIOUS
<1> QED
  BY <1>1, <1>2, <1>3

\* Terms that are no greater add up to no more.
LEMMA SumMonotone ==
  ASSUME NEW S, IsFiniteSet(S), NEW f, NEW e,
         \A x \in S : f[x] \in Int /\ e[x] \in Int /\ f[x] <= e[x]
  PROVE  SumOver(f, S) <= SumOver(e, S)
<1> DEFINE d == [x \in S |-> e[x] - f[x]]
<1>1. \A x \in S : d[x] \in Nat /\ d[x] \in Int /\ e[x] = f[x] + d[x]
  OBVIOUS
<1> HIDE DEF d
<1>2. SumOver(e, S) = SumOver(f, S) + SumOver(d, S)
  BY <1>1, SumPlus
<1>3. SumOver(d, S) \in Nat /\ SumOver(f, S) \in Int
  BY <1>1, SumNatural, SumType
<1> QED
  BY <1>2, <1>3

\* One term that changes changes the sum by as much.
LEMMA SumChange ==
  ASSUME NEW S, IsFiniteSet(S), NEW f, NEW e, NEW x \in S, NEW d \in Int, e[x] = f[x] + d,
         \A y \in S : f[y] \in Int /\ e[y] \in Int /\ (y # x => e[y] = f[y])
  PROVE  SumOver(e, S) = SumOver(f, S) + d
<1>1. SumOver(f, S) = f[x] + SumOver(f, S \ {x}) /\ SumOver(e, S) = e[x] + SumOver(e, S \ {x})
  BY SumAdds
<1>2. IsFiniteSet(S \ {x})
  BY FS_Subset
<1>3. SumOver(f, S \ {x}) = SumOver(e, S \ {x}) /\ SumOver(f, S \ {x}) \in Int
  BY <1>2, SumSame, SumType
<1>4. f[x] \in Int
  OBVIOUS
<1> QED
  BY <1>1, <1>3, <1>4

\* A sum of equal terms.
LEMMA SumConstant ==
  ASSUME NEW S, IsFiniteSet(S), NEW f, NEW c \in Int, \A x \in S : f[x] = c
  PROVE  SumOver(f, S) = Cardinality(S) * c
<1> DEFINE Bad == {s \in SUBSET S : SumOver(f, s) # Cardinality(s) * c}
<1>1. SUFFICES ASSUME Bad # {} PROVE FALSE
  OBVIOUS
<1>2. Bad \in SUBSET SUBSET S
  OBVIOUS
<1>0. \A s \in SUBSET S : s \in Bad <=> SumOver(f, s) # Cardinality(s) * c
  OBVIOUS
<1> HIDE DEF Bad
<1>3. PICK s \in Bad : \A u \in Bad : u \subseteq s => u = s
  BY <1>1, <1>2, SmallestPart
<1>4. s \subseteq S /\ IsFiniteSet(s) /\ SumOver(f, s) # Cardinality(s) * c
  BY <1>0, <1>2, FS_Subset
<1>5. s # {}
  <2>1. CASE s = {}
    <3>1. SumOver(f, s) = 0 /\ Cardinality(s) = 0
      BY <1>4, <2>1, SumStep, FS_EmptySet
    <3> QED
      BY <1>4, <3>1
  <2> QED
    BY <2>1
<1> DEFINE x == Pick(s)
           u == s \ {x}
<1>6. x \in s
  BY <1>5, PickType
<1>7. SumOver(f, s) = f[x] + SumOver(f, u)
  BY <1>4, <1>5, SumStep
<1> HIDE DEF x
<1>8. SumOver(f, u) = Cardinality(u) * c /\ f[x] = c
  BY <1>0, <1>3, <1>4, <1>6
<1>9. Cardinality(u) = Cardinality(s) - 1 /\ Cardinality(s) \in Nat
  BY <1>4, <1>6, FS_RemoveElement, FS_CardinalityType
<1> HIDE DEF u
<1>10. \A m \in Int : (m - 1) * c = m * c - c /\ m * c \in Int
  OBVIOUS
<1> QED
  BY <1>4, <1>7, <1>8, <1>9, <1>10

\* What is added from the other side is the same sum.
LEMMA AddedBehind ==
  ASSUME NEW S, IsFiniteSet(S), NEW f, \A x \in S : f[x] \in Int, NEW g,
         \A s \in SUBSET S : g[s] = IF s = {} THEN 0 ELSE g[s \ {Pick(s)}] + f[Pick(s)]
  PROVE  g[S] = SumOver(f, S)
<1> DEFINE Bad == {s \in SUBSET S : g[s] # SumOver(f, s)}
<1>1. SUFFICES ASSUME Bad # {} PROVE FALSE
  OBVIOUS
<1>2. Bad \in SUBSET SUBSET S
  OBVIOUS
<1>0. \A s \in SUBSET S : s \in Bad <=> g[s] # SumOver(f, s)
  OBVIOUS
<1> HIDE DEF Bad
<1>3. PICK s \in Bad : \A u \in Bad : u \subseteq s => u = s
  BY <1>1, <1>2, SmallestPart
<1>4. s \subseteq S /\ IsFiniteSet(s) /\ g[s] # SumOver(f, s)
  BY <1>0, <1>2, FS_Subset
<1>5. s # {}
  <2>1. CASE s = {}
    <3>1. SumOver(f, s) = 0 /\ g[s] = 0
      BY <1>4, <2>1, SumStep
    <3> QED
      BY <1>4, <3>1
  <2> QED
    BY <2>1
<1> DEFINE x == Pick(s)
           u == s \ {x}
<1>6. x \in s
  BY <1>5, PickType
<1>7. SumOver(f, s) = f[x] + SumOver(f, u) /\ g[s] = g[u] + f[x]
  BY <1>4, <1>5, SumStep
<1> HIDE DEF x
<1>8. g[u] = SumOver(f, u)
  BY <1>0, <1>3, <1>4, <1>6
<1>9. SumOver(f, u) \in Int /\ f[x] \in Int
  <2>1. IsFiniteSet(u) /\ (\A y \in u : f[y] \in Int) /\ f[x] \in Int
    BY <1>4, <1>6, FS_Subset
  <2> HIDE DEF u
  <2> QED
    BY <2>1, SumType
<1> HIDE DEF u
<1> QED
  BY <1>4, <1>7, <1>8, <1>9
-----------------------------------------------------------------------------
(* The folds of the specification *)

\* What a fold that adds is.
LEMMA FoldIsSum ==
  ASSUME NEW f
  PROVE  FoldFunction(+, 0, f) = SumOver(f, DOMAIN f)
BY DEF FoldFunction, FoldFunctionOnSet, MapThenFoldSet, SumOver, Sums, Pick

Amounts(plan) == [k \in DOMAIN plan |-> plan[k].amount]
Payments(plan) == [k \in DOMAIN plan |-> plan[k].amount * plan[k].paid]

\* The amounts of a plan add up to the sum of its amounts, and what is paid of
\* them to the sum of the payments.
LEMMA PlanSums ==
  ASSUME NEW plan, IsFiniteSet(DOMAIN plan),
         \A k \in DOMAIN plan : plan[k].amount \in Nat /\ plan[k].paid \in Nat
  PROVE  /\ R!FoldFunction(LAMBDA i, sum : sum + i.amount, 0, plan) = SumOver(Amounts(plan), DOMAIN plan)
         /\ R!FoldFunction(LAMBDA i, sum : sum + i.amount * i.paid, 0, plan)
              = SumOver(Payments(plan), DOMAIN plan)
<1> DEFINE S == DOMAIN plan
           A(g) == g = [s \in SUBSET S |-> IF s = {} THEN 0 ELSE g[s \ {Pick(s)}] + plan[Pick(s)].amount]
           P(g) == g = [s \in SUBSET S |->
                          IF s = {} THEN 0 ELSE g[s \ {Pick(s)}] + plan[Pick(s)].amount * plan[Pick(s)].paid]
<1>1. /\ R!FoldFunction(LAMBDA i, sum : sum + i.amount, 0, plan) = (CHOOSE g : A(g))[S]
      /\ R!FoldFunction(LAMBDA i, sum : sum + i.amount * i.paid, 0, plan) = (CHOOSE g : P(g))[S]
  BY DEF R!FoldFunction, R!FoldFunctionOnSet, R!MapThenFoldSet, Pick
<1>2. \A m, n \in Nat : m * n \in Nat
  OBVIOUS
<1>3. \A k \in S : Amounts(plan)[k] = plan[k].amount /\ plan[k].amount \in Int
  BY DEF Amounts
<1>4. \A k \in S : Payments(plan)[k] = plan[k].amount * plan[k].paid /\ plan[k].amount * plan[k].paid \in Int
  BY <1>2 DEF Payments
<1>5. \A s \in SUBSET S : IsFiniteSet(s) /\ (s # {} => Pick(s) \in s /\ s \ {Pick(s)} \in SUBSET S)
  BY FS_Subset, PickType
<1>6. \E g : A(g)
  <2> DEFINE g == [s \in SUBSET S |-> SumOver(Amounts(plan), s)]
  <2>1. \A s \in SUBSET S : s = {} => SumOver(Amounts(plan), s) = 0
    BY <1>5, SumStep
  <2>2. ASSUME NEW s \in SUBSET S, s # {}
        PROVE  SumOver(Amounts(plan), s) = SumOver(Amounts(plan), s \ {Pick(s)}) + plan[Pick(s)].amount
    <3> DEFINE x == Pick(s)
               u == s \ {x}
    <3>1. x \in s /\ SumOver(Amounts(plan), s) = Amounts(plan)[x] + SumOver(Amounts(plan), u)
      BY <1>5, <2>2, SumStep
    <3>2. SumOver(Amounts(plan), u) \in Int
      <4>1. IsFiniteSet(u) /\ \A y \in u : Amounts(plan)[y] \in Int
        BY <1>3, <1>5, <2>2
      <4> HIDE DEF u
      <4> QED
        BY <4>1, SumType
    <3> HIDE DEF x, u
    <3>3. Amounts(plan)[x] = plan[x].amount /\ plan[x].amount \in Int
      BY <1>3, <3>1
    <3> QED
      BY <3>1, <3>2, <3>3 DEF x, u
  <2>3. A(g)
    BY <1>5, <2>1, <2>2
  <2> QED
    BY <2>3
<1>7. \E g : P(g)
  <2> DEFINE g == [s \in SUBSET S |-> SumOver(Payments(plan), s)]
  <2>1. \A s \in SUBSET S : s = {} => SumOver(Payments(plan), s) = 0
    BY <1>5, SumStep
  <2>2. ASSUME NEW s \in SUBSET S, s # {}
        PROVE  SumOver(Payments(plan), s)
                 = SumOver(Payments(plan), s \ {Pick(s)}) + plan[Pick(s)].amount * plan[Pick(s)].paid
    <3> DEFINE x == Pick(s)
               u == s \ {x}
    <3>1. x \in s /\ SumOver(Payments(plan), s) = Payments(plan)[x] + SumOver(Payments(plan), u)
      BY <1>5, <2>2, SumStep
    <3>2. SumOver(Payments(plan), u) \in Int
      <4>1. IsFiniteSet(u) /\ \A y \in u : Payments(plan)[y] \in Int
        BY <1>4, <1>5, <2>2
      <4> HIDE DEF u
      <4> QED
        BY <4>1, SumType
    <3> HIDE DEF x, u
    <3>3. PICK z \in Int : z = plan[x].amount * plan[x].paid /\ Payments(plan)[x] = z
      BY <1>4, <3>1
    <3>4. SumOver(Payments(plan), s) = SumOver(Payments(plan), u) + z
      BY <3>1, <3>2, <3>3
    <3> QED
      BY <3>3, <3>4 DEF x, u
  <2>3. P(g)
    BY <1>5, <2>1, <2>2
  <2> QED
    BY <2>3
<1> DEFINE a == CHOOSE g : A(g)
           p == CHOOSE g : P(g)
<1>8. A(a) /\ P(p)
  BY <1>6, <1>7
<1> HIDE DEF a, p
<1>9. \A s \in SUBSET S : a[s] = IF s = {} THEN 0 ELSE a[s \ {Pick(s)}] + Amounts(plan)[Pick(s)]
  BY <1>3, <1>5, <1>8
<1>10. \A s \in SUBSET S : p[s] = IF s = {} THEN 0 ELSE p[s \ {Pick(s)}] + Payments(plan)[Pick(s)]
  BY <1>4, <1>5, <1>8
<1>11. a[S] = SumOver(Amounts(plan), S)
  BY <1>3, <1>9, AddedBehind
<1>12. p[S] = SumOver(Payments(plan), S)
  BY <1>4, <1>10, AddedBehind
<1> QED
  BY <1>1, <1>11, <1>12 DEF a, p

-----------------------------------------------------------------------------
(* The ceiling *)

\* A row is held by payouts that are under way only.
HoldersAreAtWork == \A i \in Investments : holder[i] # None => payout[holder[i]].pc = "consume"

\* What a payout has charged and not committed is on rows it holds.
ChargedIsHeld ==
  \A p \in Payouts, i \in Investments : payout[p].took[i] # 0 => holder[i] = p

\* A payout has no more left to charge than it set out to pay.
LeftIsBounded == \A p \in Payouts : payout[p].pc = "consume" => payout[p].left <= Intended[p]

CeilingIInv ==
  /\ TypeOK /\ HoldersAreAtWork /\ ChargedIsHeld /\ LeftIsBounded
  /\ CapHolds /\ CappedIffFull

USE DEF Nothing, Idle

-----------------------------------------------------------------------------
\* What one update takes is a natural number, no more than is left to charge.
LEMMA TakeBounds ==
  ASSUME TypeOK, NEW p \in Payouts, NEW i \in Investments
  PROVE  Take(p, i) \in Nat /\ Take(p, i) <= payout[p].left
BY DEF TypeOK, Take

\* No investment has earned anything, and no ceiling is zero.
LEMMA InitInvariant == Init => CeilingIInv
<1> SUFFICES ASSUME Init PROVE CeilingIInv
  OBVIOUS
<1> USE CappingAssumption DEF Init
<1>1. TypeOK /\ HoldersAreAtWork /\ ChargedIsHeld /\ LeftIsBounded
  BY DEF TypeOK, HoldersAreAtWork, ChargedIsHeld, LeftIsBounded
<1>2. CapHolds /\ CappedIffFull
  BY DEF CapHolds, CappedIffFull
<1> QED
  BY <1>1, <1>2 DEF CeilingIInv

\* A new investment has earned nothing.
LEMMA PurchaseInvariant ==
  ASSUME CeilingIInv, NEW i \in Investments, Purchase(i)
  PROVE  CeilingIInv'
<1> USE CappingAssumption DEF CeilingIInv, Purchase
<1>1. TypeOK' /\ HoldersAreAtWork' /\ ChargedIsHeld' /\ LeftIsBounded'
  BY DEF TypeOK, HoldersAreAtWork, ChargedIsHeld, LeftIsBounded
<1>2. CapHolds' /\ CappedIffFull'
  BY DEF TypeOK, CapHolds, CappedIffFull
<1> QED
  BY <1>1, <1>2

\* Reading the investments charges nothing.
LEMMA ReadInvariant ==
  ASSUME CeilingIInv, NEW p \in Payouts, ReadInvestments(p)
  PROVE  CeilingIInv'
<1> USE CappingAssumption DEF CeilingIInv
<1> DEFINE open == {i \in Investments : status[i] = "ACTIVE" /\ earned[i] < Cap[i]}
           seen == [i \in Investments |-> IF i \in open THEN Cap[i] - earned[i] ELSE 0]
<1>1. /\ payout[p].pc = "idle"
      /\ payout' = [payout EXCEPT ![p] =
           [pc |-> "consume", todo |-> open, took |-> Nothing, left |-> Intended[p], seen |-> seen]]
      /\ UNCHANGED <<status, earned, holder, paid>>
  BY DEF ReadInvestments
<1>2. open \subseteq Investments /\ seen \in [Investments -> Nat]
  BY DEF TypeOK
<1> HIDE DEF open, seen
<1>3. TypeOK'
  BY <1>1, <1>2 DEF TypeOK
<1>4. \A i \in Investments : holder[i] # p
  BY <1>1 DEF TypeOK, HoldersAreAtWork
<1>5. /\ payout'[p].pc = "consume" /\ payout'[p].left = Intended[p]
      /\ \A i \in Investments : payout'[p].took[i] = 0
      /\ \A q \in Payouts \ {p} : payout'[q] = payout[q]
  BY <1>1 DEF TypeOK
<1>6. HoldersAreAtWork'
  BY <1>1, <1>4, <1>5 DEF TypeOK, HoldersAreAtWork
<1>7. LeftIsBounded'
  BY <1>5 DEF LeftIsBounded
<1>8. ChargedIsHeld'
  BY <1>1, <1>5 DEF ChargedIsHeld
<1>9. CapHolds' /\ CappedIffFull'
  BY <1>1, <1>4, <1>5 DEF TypeOK, CapHolds, CappedIffFull
<1> QED
  BY <1>3, <1>6, <1>7, <1>8, <1>9

\* Charging an investment leaves the record of a payout one.
LEMMA Charged ==
  ASSUME NEW r \in [pc : {"idle", "consume", "done"}, todo : SUBSET Investments,
                    seen : [Investments -> Nat], took : [Investments -> Nat], left : Nat],
         NEW i \in Investments, NEW t \in Nat, r.left - t \in Nat
  PROVE  [r EXCEPT !.todo = @ \ {i}, !.left = @ - t, !.took[i] = t] \in
           [pc : {"idle", "consume", "done"}, todo : SUBSET Investments,
            seen : [Investments -> Nat], took : [Investments -> Nat], left : Nat]
<1>1. [r.took EXCEPT ![i] = t] \in [Investments -> Nat]
  OBVIOUS
<1> QED
  BY <1>1

\* The guard keeps the charge below the ceiling, and the lock keeps it alone.
LEMMA ConsumeInvariant ==
  ASSUME CeilingIInv, NEW p \in Payouts, Consume(p)
  PROVE  CeilingIInv'
<1> USE CappingAssumption DEF CeilingIInv
<1>1. PICK i \in Investments :
        /\ holder[i] = None
        /\ \/ /\ earned[i] + Take(p, i) <= Cap[i]
              /\ holder' = [holder EXCEPT ![i] = p]
              /\ payout' = [payout EXCEPT ![p].todo = @ \ {i}, ![p].left = @ - Take(p, i),
                                          ![p].took[i] = Take(p, i)]
           \/ /\ earned[i] + Take(p, i) > Cap[i]
              /\ payout' = [payout EXCEPT ![p].todo = @ \ {i}]
              /\ UNCHANGED holder
  BY DEF Consume
<1>2. payout[p].pc = "consume" /\ UNCHANGED <<status, earned, paid>>
  BY DEF Consume
<1>3. Take(p, i) \in Nat /\ Take(p, i) <= payout[p].left
  BY TakeBounds
<1>4. CappedIffFull'
  BY <1>2 DEF CappedIffFull
<1>5. CASE UNCHANGED holder /\ payout' = [payout EXCEPT ![p].todo = @ \ {i}]
  <2>1. TypeOK'
    <3> DEFINE Payout == [pc : {"idle", "consume", "done"}, todo : SUBSET Investments,
                   seen : [Investments -> Nat], took : [Investments -> Nat], left : Nat]
    <3>1. payout \in [Payouts -> Payout]
      BY DEF TypeOK
    <3>2. [payout[p] EXCEPT !.todo = @ \ {i}] \in Payout
      BY <3>1
    <3>3. payout' = [payout EXCEPT ![p] = [payout[p] EXCEPT !.todo = @ \ {i}]]
      BY <1>5, <3>1
    <3> HIDE DEF Payout
    <3>4. payout' \in [Payouts -> Payout]
      BY <3>1, <3>2, <3>3
    <3> QED
      BY <1>2, <1>5, <3>4 DEF TypeOK, Payout
  <2>2. \A q \in Payouts : /\ payout'[q].pc = payout[q].pc /\ payout'[q].left = payout[q].left
                           /\ payout'[q].took = payout[q].took
    BY <1>5 DEF TypeOK
  <2>3. HoldersAreAtWork' /\ ChargedIsHeld' /\ LeftIsBounded'
    BY <1>5, <2>2 DEF TypeOK, HoldersAreAtWork, ChargedIsHeld, LeftIsBounded
  <2>4. CapHolds'
    BY <1>2, <1>5, <2>2 DEF TypeOK, CapHolds
  <2> QED
    BY <1>4, <2>1, <2>3, <2>4
<1>6. CASE /\ earned[i] + Take(p, i) <= Cap[i]
           /\ holder' = [holder EXCEPT ![i] = p]
           /\ payout' = [payout EXCEPT ![p].todo = @ \ {i}, ![p].left = @ - Take(p, i),
                                       ![p].took[i] = Take(p, i)]
  <2>1. payout[p].left - Take(p, i) \in Nat /\ payout[p].left - Take(p, i) <= payout[p].left
    BY <1>3 DEF TypeOK
  <2>2. TypeOK'
    <3> DEFINE Payout == [pc : {"idle", "consume", "done"}, todo : SUBSET Investments,
                   seen : [Investments -> Nat], took : [Investments -> Nat], left : Nat]
               charged == [payout[p] EXCEPT !.todo = @ \ {i}, !.left = @ - Take(p, i),
                                            !.took[i] = Take(p, i)]
    <3>1. payout \in [Payouts -> Payout]
      BY DEF TypeOK
    <3>2. charged \in Payout
      <4>1. payout[p] \in Payout
        BY <3>1
      <4> QED
        BY ONLY <4>1, i \in Investments, <1>3, <2>1, Charged
    <3>3. payout' = [payout EXCEPT ![p] = charged]
      BY <1>6, <3>1
    <3> HIDE DEF charged
    <3>4. payout' \in [Payouts -> Payout]
      BY <3>1, <3>2, <3>3
    <3> QED
      BY <1>2, <1>6, <3>4 DEF TypeOK
  <2>3. \A q \in Payouts :
          /\ payout'[q].pc = payout[q].pc
          /\ payout'[q].left <= payout[q].left
          /\ \A j \in Investments :
               payout'[q].took[j] = IF q = p /\ j = i THEN Take(p, i) ELSE payout[q].took[j]
    BY <1>6, <2>1 DEF TypeOK
  <2>4. \A j \in Investments : holder'[j] = IF j = i THEN p ELSE holder[j]
    BY <1>6 DEF TypeOK
  <2>5. HoldersAreAtWork'
    BY <1>2, <2>3, <2>4 DEF TypeOK, HoldersAreAtWork
  <2>6. ChargedIsHeld'
    BY <1>1, <2>3, <2>4 DEF ChargedIsHeld
  <2>7. LeftIsBounded'
    BY <2>2, <2>3 DEF TypeOK, LeftIsBounded
  <2>8. CapHolds'
    <3> SUFFICES ASSUME NEW j \in Investments
                 PROVE  earned[j] + (IF holder'[j] = None THEN 0 ELSE payout'[holder'[j]].took[j])
                          <= Cap[j]
      BY <1>2 DEF CapHolds
    <3>1. CASE j = i
      <4>1. holder'[j] = p /\ p # None /\ payout'[p].took[j] = Take(p, i)
        BY <2>3, <2>4, <3>1
      <4> QED
        BY <1>6, <3>1, <4>1
    <3>2. CASE j # i
      BY <2>3, <2>4, <3>2 DEF TypeOK, CapHolds
    <3> QED
      BY <3>1, <3>2
  <2> QED
    BY <1>4, <2>2, <2>5, <2>6, <2>7, <2>8
<1> QED
  BY <1>1, <1>5, <1>6

\* Rows that p holds are free afterwards, the others as they were.
LEMMA ReleaseHolders ==
  ASSUME TypeOK, NEW p \in Payouts, holder' = Release(p)
  PROVE  /\ holder' \in [Investments -> Payouts \union {None}]
         /\ \A i \in Investments : holder'[i] = IF holder[i] = p THEN None ELSE holder[i]
BY DEF TypeOK, Release

\* An ended payout has nothing to do and has charged nothing.
LEMMA Ended ==
  ASSUME NEW pc
  PROVE  [Idle EXCEPT !.pc = pc] =
           [pc |-> pc, todo |-> {}, seen |-> Nothing, took |-> Nothing, left |-> 0]
OBVIOUS

\* Ending p leaves the other payouts and the rows they hold as they were.
LEMMA EndInvariant ==
  ASSUME CeilingIInv, NEW p \in Payouts, NEW pc \in {"idle", "done"},
         holder' = Release(p), payout' = [payout EXCEPT ![p] = [Idle EXCEPT !.pc = pc]]
  PROVE  /\ holder' \in [Investments -> Payouts \union {None}]
         /\ payout' \in [Payouts -> [pc : {"idle", "consume", "done"}, todo : SUBSET Investments,
                   seen : [Investments -> Nat], took : [Investments -> Nat], left : Nat]]
         /\ HoldersAreAtWork' /\ ChargedIsHeld' /\ LeftIsBounded'
<1> USE CappingAssumption DEF CeilingIInv
<1>1. [Idle EXCEPT !.pc = pc] =
        [pc |-> pc, todo |-> {}, seen |-> Nothing, took |-> Nothing, left |-> 0]
  BY Ended
<1>2. payout' \in [Payouts -> [pc : {"idle", "consume", "done"}, todo : SUBSET Investments,
                   seen : [Investments -> Nat], took : [Investments -> Nat], left : Nat]]
  BY <1>1 DEF TypeOK
<1>3. /\ \A q \in Payouts \ {p} : payout'[q] = payout[q]
      /\ payout'[p].pc = pc /\ \A i \in Investments : payout'[p].took[i] = 0
  BY <1>1 DEF TypeOK
<1>4. /\ holder' \in [Investments -> Payouts \union {None}]
      /\ \A i \in Investments : holder'[i] = IF holder[i] = p THEN None ELSE holder[i]
  BY ReleaseHolders
<1>5. HoldersAreAtWork'
  BY <1>3, <1>4 DEF TypeOK, HoldersAreAtWork
<1>6. ChargedIsHeld'
  BY <1>3, <1>4 DEF ChargedIsHeld
<1>7. LeftIsBounded'
  BY <1>3 DEF LeftIsBounded
<1> QED
  BY <1>2, <1>4, <1>5, <1>6, <1>7

\* Publishing a charge marks exactly the rows it fills.
LEMMA CommitInvariant ==
  ASSUME CeilingIInv, NEW p \in Payouts, Commit(p)
  PROVE  CeilingIInv'
<1> USE CappingAssumption DEF CeilingIInv
<1>1. /\ Finished(p)
      /\ earned' = EarnedWith(p)
      /\ status' = [i \in Investments |->
                      IF holder[i] = p /\ EarnedWith(p)[i] >= Cap[i] THEN "CAPPED" ELSE status[i]]
      /\ paid' = [paid EXCEPT ![p] = Consumed(p)]
      /\ holder' = Release(p)
      /\ payout' = [payout EXCEPT ![p] = [Idle EXCEPT !.pc = "done"]]
  BY DEF Commit
<1>2. /\ earned' \in [Investments -> Nat]
      /\ \A i \in Investments : /\ earned'[i] = earned[i] + payout[p].took[i]
                                /\ holder[i] # p => earned'[i] = earned[i]
  BY <1>1 DEF TypeOK, EarnedWith, ChargedIsHeld
<1>3. Consumed(p) \in Nat
  BY <1>1 DEF TypeOK, LeftIsBounded, Consumed, Finished
<1>4. /\ status' \in [Investments -> {"none", "ACTIVE", "CAPPED"}]
      /\ \A i \in Investments :
           status'[i] = IF holder[i] = p /\ earned'[i] >= Cap[i] THEN "CAPPED" ELSE status[i]
  BY <1>1 DEF TypeOK
<1>5. TypeOK' /\ HoldersAreAtWork' /\ ChargedIsHeld' /\ LeftIsBounded'
  BY <1>1, <1>2, <1>3, <1>4, EndInvariant DEF TypeOK
<1>6. \A i \in Investments : holder[i] = p => earned'[i] <= Cap[i]
  BY <1>2 DEF TypeOK, CapHolds
<1>7. CapHolds'
  <2> SUFFICES ASSUME NEW i \in Investments
               PROVE  earned'[i] + (IF holder'[i] = None THEN 0 ELSE payout'[holder'[i]].took[i])
                        <= Cap[i]
    BY DEF CapHolds
  <2>1. CASE holder[i] = p
    BY <1>1, <1>2, <1>6, <2>1, ReleaseHolders DEF TypeOK
  <2>2. CASE holder[i] # p
    <3>1. holder'[i] = holder[i] /\ earned'[i] = earned[i]
      BY <1>1, <1>2, <2>2, ReleaseHolders
    <3>2. holder[i] # None => payout'[holder[i]] = payout[holder[i]]
      BY <1>1, <2>2 DEF TypeOK
    <3> QED
      BY <3>1, <3>2 DEF CapHolds
  <2> QED
    BY <2>1, <2>2
<1>8. CappedIffFull'
  <2> SUFFICES ASSUME NEW i \in Investments
               PROVE  status'[i] = "CAPPED" <=> earned'[i] = Cap[i]
    BY DEF CappedIffFull
  <2>1. CASE holder[i] # p
    BY <1>2, <1>4, <2>1 DEF CappedIffFull
  <2>2. CASE holder[i] = p
    <3>1. earned'[i] \in Nat /\ Cap[i] \in Nat /\ earned[i] <= earned'[i]
      BY <1>2 DEF TypeOK
    <3>2. status'[i] = IF earned'[i] >= Cap[i] THEN "CAPPED" ELSE status[i]
      BY <1>4, <2>2
    <3>3. status[i] = "CAPPED" => earned[i] = Cap[i]
      BY DEF CappedIffFull
    <3> QED
      BY <1>6, <2>2, <3>1, <3>2, <3>3
  <2> QED
    BY <2>1, <2>2
<1> QED
  BY <1>5, <1>7, <1>8

\* A rollback leaves the committed rows alone.
LEMMA AbortInvariant ==
  ASSUME CeilingIInv, NEW p \in Payouts, Abort(p)
  PROVE  CeilingIInv'
<1> USE CappingAssumption DEF CeilingIInv
<1>1. holder' = Release(p) /\ payout' = [payout EXCEPT ![p] = Idle]
      /\ UNCHANGED <<status, earned, paid>>
  BY DEF Abort
<1>2. Idle = [Idle EXCEPT !.pc = "idle"]
  OBVIOUS
<1>3. TypeOK' /\ HoldersAreAtWork' /\ ChargedIsHeld' /\ LeftIsBounded'
  BY <1>1, <1>2, EndInvariant DEF TypeOK
<1>4. CapHolds'
  <2> SUFFICES ASSUME NEW i \in Investments
               PROVE  earned[i] + (IF holder'[i] = None THEN 0 ELSE payout'[holder'[i]].took[i])
                        <= Cap[i]
    BY <1>1 DEF CapHolds
  <2>1. CASE holder[i] \in {p, None}
    <3>1. holder'[i] = None
      BY <1>1, <2>1, ReleaseHolders
    <3>2. earned[i] \in Nat /\ payout[p].took[i] \in Nat /\ Cap[i] \in Nat
      BY DEF TypeOK
    <3>3. earned[i] <= Cap[i]
      <4>1. CASE holder[i] = p
        <5>1. earned[i] + payout[p].took[i] <= Cap[i]
          BY <4>1 DEF CapHolds
        <5> QED
          BY <3>2, <5>1
      <4>2. CASE holder[i] = None
        <5>1. earned[i] + 0 <= Cap[i]
          BY <4>2 DEF CapHolds
        <5> QED
          BY <3>2, <5>1
      <4> QED
        BY <2>1, <4>1, <4>2
    <3> QED
      BY <3>1, <3>2, <3>3
  <2>2. CASE holder[i] \notin {p, None}
    <3>1. holder'[i] = holder[i] /\ payout'[holder[i]] = payout[holder[i]]
      BY <1>1, <2>2, ReleaseHolders DEF TypeOK
    <3> QED
      BY <3>1 DEF CapHolds
  <2> QED
    BY <2>1, <2>2
<1>5. CappedIffFull'
  BY <1>1 DEF CappedIffFull
<1> QED
  BY <1>3, <1>4, <1>5

\* Every step of the specification preserves the invariant.
LEMMA NextInvariant == CeilingIInv /\ [Next]_vars => CeilingIInv'
<1> SUFFICES ASSUME CeilingIInv, [Next]_vars PROVE CeilingIInv'
  OBVIOUS
<1>1. CASE UNCHANGED vars
  BY <1>1 DEF vars, CeilingIInv, TypeOK, HoldersAreAtWork, ChargedIsHeld, LeftIsBounded,
              CapHolds, CappedIffFull
<1>2. CASE Next
  BY <1>2, PurchaseInvariant, ReadInvariant, ConsumeInvariant, CommitInvariant, AbortInvariant
     DEF Next, Step
<1> QED
  BY <1>1, <1>2

\* The inductive invariant holds in every reachable state.
THEOREM CeilingInvariant == Spec => []CeilingIInv
BY InitInvariant, NextInvariant, PTL DEF Spec

\* Rows, locks and payouts stay well formed; no payout credits a negative amount.
THEOREM TypeCorrect == Spec => []TypeOK
<1>1. CeilingIInv => TypeOK
  BY DEF CeilingIInv
<1> QED
  BY CeilingInvariant, <1>1, PTL

\* However many payouts charge a member's investments at once, and whichever
\* roll back, none earns past its ceiling.
THEOREM CeilingHolds == Spec => []CapHolds
<1>1. CeilingIInv => CapHolds
  BY DEF CeilingIInv
<1> QED
  BY CeilingInvariant, <1>1, PTL

\* An investment is marked CAPPED when its ceiling is used up, and only then.
THEOREM CappedExactlyWhenFull == Spec => []CappedIffFull
<1>1. CeilingIInv => CappedIffFull
  BY DEF CeilingIInv
<1> QED
  BY CeilingInvariant, <1>1, PTL

-----------------------------------------------------------------------------
(* What is credited and what is charged *)

\* What a payout has charged so far is what it no longer has left.
LeftIsCharged ==
  \A p \in Payouts : payout[p].pc = "consume" =>
    SumOver(payout[p].took, Investments) = Intended[p] - payout[p].left

\* A payout is credited as it ends.
CreditedAtTheEnd == \A p \in Payouts : payout[p].pc # "done" => paid[p] = 0

SumsMatch == SumOver(paid, Payouts) = SumOver(earned, Investments)

ChargeIInv == CeilingIInv /\ LeftIsCharged /\ CreditedAtTheEnd /\ SumsMatch

\* Before the first payout nothing is charged or credited.
LEMMA InitCharge == Init => ChargeIInv
<1> SUFFICES ASSUME Init PROVE ChargeIInv
  OBVIOUS
<1>1. CeilingIInv
  BY InitInvariant
<1>2. SumOver(paid, Payouts) = 0
  <2>1. \A p \in Payouts : paid[p] = 0
    BY DEF Init
  <2> QED
    BY <2>1, EarningsAssumption, SumZero
<1>3. SumOver(earned, Investments) = 0
  <2>1. \A i \in Investments : earned[i] = 0
    BY DEF Init
  <2> QED
    BY <2>1, EarningsAssumption, SumZero
<1>4. LeftIsCharged /\ CreditedAtTheEnd
  BY DEF Init, LeftIsCharged, CreditedAtTheEnd
<1> QED
  BY <1>1, <1>2, <1>3, <1>4 DEF ChargeIInv, SumsMatch

\* A payout that begins has charged nothing.
LEMMA ReadCharge ==
  ASSUME ChargeIInv, NEW p \in Payouts, ReadInvestments(p)
  PROVE  LeftIsCharged' /\ CreditedAtTheEnd' /\ SumsMatch'
<1>1. /\ payout[p].pc = "idle" /\ UNCHANGED <<earned, paid>>
      /\ payout'[p].left = Intended[p] /\ payout'[p].took = Nothing /\ payout'[p].pc = "consume"
      /\ \A q \in Payouts \ {p} : payout'[q] = payout[q]
  BY DEF ReadInvestments, ChargeIInv, CeilingIInv, TypeOK
<1>2. SumOver(Nothing, Investments) = 0
  <2>1. \A i \in Investments : Nothing[i] = 0
    OBVIOUS
  <2> HIDE DEF Nothing
  <2> QED
    BY <2>1, EarningsAssumption, SumZero
<1> HIDE DEF Nothing
<1>3. Intended[p] \in Nat
  BY CappingAssumption
<1>4. LeftIsCharged'
  BY <1>1, <1>2, <1>3 DEF ChargeIInv, LeftIsCharged
<1>5. CreditedAtTheEnd' /\ SumsMatch'
  BY <1>1 DEF ChargeIInv, CreditedAtTheEnd, SumsMatch
<1> QED
  BY <1>4, <1>5

\* What a payout charges to a row it has no longer left.
LEMMA ConsumeCharge ==
  ASSUME ChargeIInv, NEW p \in Payouts, Consume(p)
  PROVE  LeftIsCharged' /\ CreditedAtTheEnd' /\ SumsMatch'
<1> USE DEF ChargeIInv, CeilingIInv
<1>1. PICK i \in Investments :
        \/ /\ holder[i] = None
           /\ payout' = [payout EXCEPT ![p].todo = @ \ {i}, ![p].left = @ - Take(p, i),
                                       ![p].took[i] = Take(p, i)]
        \/ payout' = [payout EXCEPT ![p].todo = @ \ {i}]
  BY DEF Consume
<1>2. payout[p].pc = "consume" /\ UNCHANGED <<earned, paid>>
  BY DEF Consume
<1>3. /\ \A q \in Payouts : payout'[q].pc = payout[q].pc
      /\ \A q \in Payouts \ {p} : payout'[q] = payout[q]
  <2>1. CASE payout' = [payout EXCEPT ![p].todo = @ \ {i}]
    BY <2>1 DEF TypeOK
  <2>2. CASE payout' = [payout EXCEPT ![p].todo = @ \ {i}, ![p].left = @ - Take(p, i),
                                      ![p].took[i] = Take(p, i)]
    BY <2>2 DEF TypeOK
  <2> QED
    BY <1>1, <2>1, <2>2
<1>4. SumOver(payout'[p].took, Investments) = Intended[p] - payout'[p].left
  <2>1. CASE payout' = [payout EXCEPT ![p].todo = @ \ {i}]
    <3>1. payout'[p].took = payout[p].took /\ payout'[p].left = payout[p].left
      BY <2>1 DEF TypeOK
    <3> QED
      BY <1>2, <3>1 DEF LeftIsCharged
  <2>2. CASE /\ holder[i] = None
             /\ payout' = [payout EXCEPT ![p].todo = @ \ {i}, ![p].left = @ - Take(p, i),
                                         ![p].took[i] = Take(p, i)]
    <3>1. Take(p, i) \in Nat
      BY TakeBounds
    <3>2. payout[p].took \in [Investments -> Nat] /\ payout[p].left \in Nat
      BY DEF TypeOK
    <3>3. payout[p].took[i] = 0
      BY <2>2, CappingAssumption DEF ChargedIsHeld
    <3>4. /\ payout'[p].took = [payout[p].took EXCEPT ![i] = Take(p, i)]
          /\ payout'[p].left = payout[p].left - Take(p, i)
      BY <2>2 DEF TypeOK
    <3> DEFINE before == payout[p].took
               after == payout'[p].took
    <3>5. /\ Take(p, i) \in Int /\ after[i] = before[i] + Take(p, i)
          /\ \A j \in Investments : before[j] \in Int /\ after[j] \in Int /\ (j # i => after[j] = before[j])
      BY <3>1, <3>2, <3>3, <3>4
    <3> HIDE DEF before, after
    <3>6. SumOver(after, Investments) = SumOver(before, Investments) + Take(p, i)
      <4> IsFiniteSet(Investments)
        BY EarningsAssumption
      <4> QED
        BY ONLY i \in Investments, IsFiniteSet(Investments), <3>5, SumChange
    <3>7. SumOver(before, Investments) = Intended[p] - payout[p].left
      BY <1>2 DEF LeftIsCharged, before
    <3>8. Intended[p] \in Nat
      BY CappingAssumption
    <3> QED
      BY <3>1, <3>2, <3>4, <3>5, <3>6, <3>7, <3>8 DEF after
  <2> QED
    BY <1>1, <2>1, <2>2
<1>5. LeftIsCharged'
  BY <1>3, <1>4 DEF LeftIsCharged
<1>6. CreditedAtTheEnd' /\ SumsMatch'
  BY <1>2, <1>3 DEF CreditedAtTheEnd, SumsMatch
<1> QED
  BY <1>5, <1>6

\* A payout is credited what it charged.
LEMMA CommitCharge ==
  ASSUME ChargeIInv, NEW p \in Payouts, Commit(p)
  PROVE  LeftIsCharged' /\ CreditedAtTheEnd' /\ SumsMatch'
<1> USE DEF ChargeIInv, CeilingIInv
<1>1. /\ payout[p].pc = "consume" /\ earned' = EarnedWith(p)
      /\ paid' = [paid EXCEPT ![p] = Consumed(p)]
      /\ payout'[p].pc = "done" /\ \A q \in Payouts \ {p} : payout'[q] = payout[q]
  BY DEF Commit, Finished, TypeOK
<1>2. Consumed(p) \in Int /\ Consumed(p) = SumOver(payout[p].took, Investments)
  <2>1. Intended[p] \in Nat /\ payout[p].left \in Nat
    BY CappingAssumption DEF TypeOK
  <2> QED
    BY <1>1, <2>1 DEF Consumed, LeftIsCharged
<1>3. SumOver(paid', Payouts) = SumOver(paid, Payouts) + Consumed(p)
  <2>1. /\ paid'[p] = paid[p] + Consumed(p)
        /\ \A q \in Payouts : paid[q] \in Int /\ paid'[q] \in Int /\ (q # p => paid'[q] = paid[q])
    BY <1>1, <1>2 DEF TypeOK, CreditedAtTheEnd
  <2> IsFiniteSet(Payouts)
    BY EarningsAssumption
  <2> QED
    BY ONLY p \in Payouts, IsFiniteSet(Payouts), <1>2, <2>1, SumChange
<1>4. SumOver(earned', Investments) = SumOver(earned, Investments) + SumOver(payout[p].took, Investments)
  <2>1. \A i \in Investments : /\ earned[i] \in Int /\ payout[p].took[i] \in Int
                               /\ earned'[i] = earned[i] + payout[p].took[i]
    BY <1>1 DEF EarnedWith, TypeOK
  <2> QED
    BY <2>1, EarningsAssumption, SumPlus
<1>5. SumsMatch'
  BY <1>2, <1>3, <1>4 DEF SumsMatch
<1>6. LeftIsCharged'
  BY <1>1 DEF LeftIsCharged
<1>7. CreditedAtTheEnd'
  BY <1>1 DEF CreditedAtTheEnd, TypeOK
<1> QED
  BY <1>5, <1>6, <1>7

\* Every step keeps what is credited equal to what is charged.
LEMMA StepCharge == ChargeIInv /\ [Next]_vars => ChargeIInv'
<1> SUFFICES ASSUME ChargeIInv, [Next]_vars PROVE LeftIsCharged' /\ CreditedAtTheEnd' /\ SumsMatch'
  BY NextInvariant DEF ChargeIInv
<1>1. CASE UNCHANGED <<payout, paid, earned>>
  BY <1>1 DEF ChargeIInv, LeftIsCharged, CreditedAtTheEnd, SumsMatch
<1>2. ASSUME NEW i \in Investments, Purchase(i) PROVE UNCHANGED <<payout, paid, earned>>
  BY <1>2 DEF Purchase
<1>3. ASSUME NEW p \in Payouts, Abort(p) PROVE LeftIsCharged' /\ CreditedAtTheEnd' /\ SumsMatch'
  <2>1. /\ payout[p].pc = "consume" /\ payout'[p].pc = "idle" /\ UNCHANGED <<paid, earned>>
        /\ \A q \in Payouts \ {p} : payout'[q] = payout[q]
    BY <1>3 DEF Abort, ChargeIInv, CeilingIInv, TypeOK
  <2> QED
    BY <2>1 DEF ChargeIInv, LeftIsCharged, CreditedAtTheEnd, SumsMatch
<1>4. UNCHANGED vars => UNCHANGED <<payout, paid, earned>>
  BY DEF vars
<1> QED
  BY <1>1, <1>2, <1>3, <1>4, ReadCharge, ConsumeCharge, CommitCharge DEF Next, Step

\* What the wallet was credited is what the ceilings were charged, however
\* payouts overlap, split over investments and roll back.
THEOREM PaidTheorem == Spec => []PaidIsConsumed
<1>1. ChargeIInv => PaidIsConsumed
  <2>1. ChargeIInv => DOMAIN paid = Payouts /\ DOMAIN earned = Investments
    BY DEF ChargeIInv, CeilingIInv, TypeOK
  <2> QED
    BY <2>1, FoldIsSum DEF ChargeIInv, SumsMatch, PaidIsConsumed
<1> QED
  BY <1>1, InitCharge, StepCharge, PTL DEF Spec

HIDE DEF Nothing, Idle

-----------------------------------------------------------------------------
(* The rank ladder and its rewards: what holds of them *)

Instalment == [amount : Nat, due : Nat, paid : Nat]
RankRow == [achieved : BOOLEAN, stamped : BOOLEAN, at : Nat, outright : {"no", "wallet", "entered"},
            plan : Seq(Instalment)]
EvaluationRow == [pc : {"idle", "next", "schedule", "credit", "entry", "title"},
                  todo : SUBSET R!Ranks, months : Nat]
RunRow == [pc : {"idle", "next", "claimed", "posted"}, todo : SUBSET (Nat \X Nat),
           at : Nat \X Nat, last : BOOLEAN]

RewardTypes ==
  /\ scene \in Scenes /\ month \in Nat /\ setting \in scene.months
  /\ reach \in 0..Levels /\ current \in 0..Levels
  /\ rank \in [R!Ranks -> RankRow]
  /\ evaluation \in [Evaluations -> EvaluationRow]
  /\ \A e \in Evaluations : evaluation[e].pc # "idle" => evaluation[e].todo # {}
  /\ run \in [Runs -> RunRow]

\* An evaluation that has an achievement to reward.
Rewards(e) == evaluation[e].pc \in {"schedule", "credit", "entry"}

\* The achievement is the evaluation's own, and its reward is at the step the
\* evaluation is at.
RewardInHand(e) ==
  LET r == R!Newest(e)
      pc == evaluation[e].pc
  IN /\ rank[r].achieved /\ rank[r].plan = <<>> /\ scene.reward[r] > 0
     /\ rank[r].outright = IF pc = "entry" THEN "wallet" ELSE "no"
     /\ rank[r].stamped <=> pc # "schedule"
     /\ pc = "schedule" => evaluation[e].months > 0

EvaluationsApart ==
  /\ \A e \in Evaluations : Rewards(e) => RewardInHand(e)
  /\ \A e, f \in Evaluations : Rewards(e) /\ Rewards(f) /\ R!Newest(e) = R!Newest(f) => e = f

\* What is not achieved has no reward, and what is has one, or an evaluation
\* that was not cut short is at it.
RewardedIfAchieved ==
  \A r \in R!Ranks :
    /\ ~rank[r].achieved => rank[r].plan = <<>> /\ rank[r].outright = "no" /\ ~rank[r].stamped
    /\ rank[r].achieved /\ rank[r].plan = <<>> /\ scene.reward[r] > 0 /\ ~scene.dies =>
         \/ rank[r].stamped /\ rank[r].outright = "entered"
         \/ \E e \in Evaluations : Rewards(e) /\ R!Newest(e) = r

\* Instalments sum to the reward, are paid once, and the last one stamps it.
PlansAreExact ==
  \A r \in R!Ranks : rank[r].plan # <<>> =>
    /\ rank[r].outright = "no"
    /\ SumOver(Amounts(rank[r].plan), DOMAIN rank[r].plan) = scene.reward[r]
    /\ \A k \in DOMAIN rank[r].plan : rank[r].plan[k].paid \in {0, 1}
    /\ rank[r].stamped <=> \A k \in DOMAIN rank[r].plan : rank[r].plan[k].paid = 1

\* A run that holds an instalment holds it alone, until it pays it; and of those
\* that have posted there is one, which knows whether its instalment is the last.
Pays(w) == run[w].pc \in {"claimed", "posted"}

RunsApart ==
  /\ \A w \in Runs : run[w].pc # "idle" => run[w].todo \subseteq R!Instalments
  /\ \A w \in Runs : Pays(w) => run[w].at \in R!Instalments
  /\ \A w \in Runs, i \in R!Instalments : Pays(w) /\ run[w].at = i => R!Row(i).paid = 0
  /\ \A w, v \in Runs : Pays(w) /\ Pays(v) /\ run[w].at = run[v].at => w = v
  /\ \A w, v \in Runs : run[w].pc = "posted" /\ run[v].pc = "posted" => w = v
  /\ \A w \in Runs, i \in R!Instalments :
       run[w].pc = "posted" /\ run[w].at = i => (run[w].last <=> R!Others(i) = {})

\* While one evaluation ends before the next begins, the ladder is climbed from
\* below, without a gap, and the title follows.
Highest == (current = 0 \/ rank[current].achieved) /\ \A r \in R!Ranks : rank[r].achieved => r <= current

LadderIsClimbed ==
  scene.apart /\ ~scene.dies =>
    /\ \A e, f \in Evaluations : evaluation[e].pc # "idle" /\ evaluation[f].pc # "idle" => e = f
    /\ \A r, q \in R!Ranks : rank[r].achieved /\ q < r => rank[q].achieved
    /\ (\A e \in Evaluations : evaluation[e].pc \in {"idle", "next"}) => Highest
    /\ \A e \in Evaluations : evaluation[e].pc # "idle" =>
         /\ \A t \in evaluation[e].todo, q \in R!Ranks :
              q < t => q \in evaluation[e].todo \/ rank[q].achieved
         /\ \A t \in evaluation[e].todo :
              rank[t].achieved => evaluation[e].pc # "next" /\ t = R!Newest(e)
         /\ evaluation[e].pc # "next" =>
              rank[R!Newest(e)].achieved /\ \A r \in R!Ranks : rank[r].achieved => r <= R!Newest(e)

RewardsIInv ==
  /\ RewardTypes /\ EvaluationsApart /\ RewardedIfAchieved /\ PlansAreExact /\ RunsApart
  /\ LadderIsClimbed

-----------------------------------------------------------------------------
(* Lemmas about the ladder and the instalments *)

\* The least of some natural numbers.
LEMMA LeastIsMin ==
  ASSUME NEW S \in SUBSET Nat, S # {}
  PROVE  R!Min(S) \in S /\ \A y \in S : R!Min(S) <= y
<1>1. IsWellFoundedOn(OpToRel(<, Nat), Nat)
  BY NatLessThanWellFounded
<1>2. PICK x \in S : \A y \in S : <<y, x>> \notin OpToRel(<, Nat)
  BY <1>1, WFMin
<1>3. \A y \in S : ~(y < x)
  BY <1>2 DEF OpToRel
<1>4. \A y \in S : x <= y
  BY <1>3
<1> QED
  BY <1>4 DEF R!Min

\* The greatest of a set is what is in it and above the rest.
LEMMA GreatestIsMax ==
  ASSUME NEW S \in SUBSET Nat, NEW x \in S, \A y \in S : y <= x
  PROVE  R!Max(S) = x
<1>1. R!Max(S) \in S /\ \A y \in S : R!Max(S) >= y
  BY DEF R!Max
<1>2. R!Max(S) \in Nat /\ x \in Nat /\ R!Max(S) <= x /\ R!Max(S) >= x
  BY <1>1
<1> QED
  BY <1>2

\* splitEvenly: the parts are amounts of money and add up to the total.
LEMMA SplitAddsUp ==
  ASSUME NEW total \in Nat, NEW n \in Nat \ {0}
  PROVE  /\ R!SplitEvenly(total, n) \in [1..n -> Nat]
         /\ SumOver(R!SplitEvenly(total, n), 1..n) = total
<1> DEFINE each == total \div n
           rest == total - n * each
           parts == R!SplitEvenly(total, n)
           same == [i \in 1..n |-> each]
           extra == [i \in 1..n |-> IF i = n THEN rest ELSE 0]
<1>1. each \in Nat /\ n * each \in Nat /\ n * each <= total
  OBVIOUS
<1>2. (n - 1) * each = n * each - each
  BY <1>1
<1>3. parts = [i \in 1..n |-> IF i < n THEN each ELSE total - (n - 1) * each]
  BY DEF R!SplitEvenly
<1> HIDE DEF each, parts
<1>4. rest \in Nat /\ total - (n - 1) * each = each + rest
  BY <1>1, <1>2
<1> HIDE DEF rest
<1>5. \A i \in 1..n : /\ same[i] = each /\ extra[i] \in Nat /\ (i # n => extra[i] = 0) /\ extra[n] = rest
                      /\ parts[i] = same[i] + extra[i]
  BY <1>1, <1>3, <1>4
<1>6. parts \in [1..n -> Nat]
  BY <1>1, <1>3, <1>4
<1>7. IsFiniteSet(1..n) /\ Cardinality(1..n) = n
  BY FS_Interval
<1> HIDE DEF same, extra
<1>8. SumOver(same, 1..n) = n * each
  <2>1. each \in Int /\ \A i \in 1..n : same[i] = each
    BY <1>1, <1>5
  <2>2. SumOver(same, 1..n) = Cardinality(1..n) * each
    BY <1>7, <2>1, SumConstant
  <2> QED
    BY <1>7, <2>2
<1>9. SumOver(extra, 1..n) = rest
  <2> DEFINE zero == [i \in 1..n |-> 0]
  <2>1. \A i \in 1..n : zero[i] = 0
    OBVIOUS
  <2> HIDE DEF zero
  <2>2. SumOver(zero, 1..n) = 0
    BY <1>7, <2>1, SumZero
  <2>3. PICK K, m, a, b, d : K = 1..n /\ m = n /\ a = zero /\ b = extra /\ d = rest
    OBVIOUS
  <2>4. /\ m \in K /\ IsFiniteSet(K) /\ d \in Int /\ b[m] = a[m] + d
        /\ \A i \in K : a[i] \in Int /\ b[i] \in Int /\ (i # m => b[i] = a[i])
    BY <1>4, <1>5, <1>7, <2>1, <2>3
  <2>5. SumOver(b, K) = SumOver(a, K) + d
    BY ONLY <2>4, SumChange
  <2> QED
    BY <1>4, <2>2, <2>3, <2>5
<1>10. SumOver(parts, 1..n) = SumOver(same, 1..n) + SumOver(extra, 1..n)
  <2>1. \A i \in 1..n : same[i] \in Int /\ extra[i] \in Int /\ parts[i] = same[i] + extra[i]
    BY <1>1, <1>5
  <2> QED
    BY <1>7, <2>1, SumPlus
<1>11. n * each + rest = total
  BY <1>1 DEF rest
<1> QED
  BY <1>6, <1>8, <1>9, <1>10, <1>11 DEF parts

-----------------------------------------------------------------------------
(* What the types say of a state *)

\* Ranks are numbered, rows are rows, and an evaluation under way has a newest.
LEMMA LadderFacts ==
  ASSUME RewardTypes
  PROVE  /\ \A r \in R!Ranks : r \in Nat /\ r > 0 /\ r <= Levels /\ scene.reward[r] \in Nat
         /\ scene.months \subseteq Nat
         /\ \A r \in R!Ranks :
              /\ rank[r] \in RankRow /\ rank[r].achieved \in BOOLEAN /\ rank[r].stamped \in BOOLEAN
              /\ rank[r].at \in Nat /\ rank[r].plan \in Seq(Instalment)
         /\ \A e \in Evaluations :
              /\ evaluation[e] \in EvaluationRow
              /\ evaluation[e].todo \subseteq R!Ranks /\ evaluation[e].months \in Nat
              /\ evaluation[e].pc # "idle" =>
                   /\ R!Newest(e) \in evaluation[e].todo /\ R!Newest(e) \in R!Ranks
                   /\ \A t \in evaluation[e].todo : R!Newest(e) <= t
<1>1. \A r \in R!Ranks : r \in Nat /\ r > 0 /\ r <= Levels /\ scene.reward[r] \in Nat
  BY EarningsAssumption DEF RewardTypes, R!Ranks
<1>2. scene.months \subseteq Nat
  BY EarningsAssumption DEF RewardTypes
<1>3. ASSUME NEW r \in R!Ranks
      PROVE  /\ rank[r] \in RankRow /\ rank[r].achieved \in BOOLEAN /\ rank[r].stamped \in BOOLEAN
             /\ rank[r].at \in Nat /\ rank[r].plan \in Seq(Instalment)
  <2>1. rank[r] \in RankRow
    BY DEF RewardTypes
  <2> QED
    BY <2>1 DEF RankRow
<1>4. ASSUME NEW e \in Evaluations
      PROVE  /\ evaluation[e] \in EvaluationRow
             /\ evaluation[e].todo \subseteq R!Ranks /\ evaluation[e].months \in Nat
  <2>1. evaluation[e] \in EvaluationRow
    BY DEF RewardTypes
  <2> QED
    BY <2>1 DEF EvaluationRow
<1>5. ASSUME NEW e \in Evaluations, evaluation[e].pc # "idle"
      PROVE  /\ R!Newest(e) \in evaluation[e].todo /\ R!Newest(e) \in R!Ranks
             /\ \A t \in evaluation[e].todo : R!Newest(e) <= t
  <2>1. evaluation[e].todo # {} /\ evaluation[e].todo \subseteq R!Ranks
    BY <1>4, <1>5 DEF RewardTypes
  <2>2. evaluation[e].todo \in SUBSET Nat
    BY <1>1, <2>1
  <2>3. R!Min(evaluation[e].todo) \in evaluation[e].todo
        /\ \A t \in evaluation[e].todo : R!Min(evaluation[e].todo) <= t
    BY <2>1, <2>2, LeastIsMin
  <2> QED
    BY <2>1, <2>3 DEF R!Newest
<1> QED
  BY <1>1, <1>2, <1>3, <1>4, <1>5

\* A plan's instalments are counted from one, and each is an amount of money.
LEMMA PlanFacts ==
  ASSUME RewardTypes, NEW r \in R!Ranks
  PROVE  /\ DOMAIN rank[r].plan = 1..Len(rank[r].plan) /\ Len(rank[r].plan) \in Nat
         /\ DOMAIN rank[r].plan \subseteq Nat /\ IsFiniteSet(DOMAIN rank[r].plan)
         /\ rank[r].plan # <<>> => DOMAIN rank[r].plan # {}
         /\ rank[r].plan = <<>> => DOMAIN rank[r].plan = {}
         /\ \A k \in DOMAIN rank[r].plan :
              /\ rank[r].plan[k] \in Instalment /\ rank[r].plan[k].amount \in Nat
              /\ rank[r].plan[k].due \in Nat /\ rank[r].plan[k].paid \in Nat
<1>1. rank[r].plan \in Seq(Instalment)
  BY LadderFacts
<1>2. DOMAIN rank[r].plan = 1..Len(rank[r].plan) /\ Len(rank[r].plan) \in Nat
  BY <1>1, LenProperties
<1>3. IsFiniteSet(DOMAIN rank[r].plan)
  BY <1>2, FS_Interval
<1>4. (rank[r].plan # <<>> => DOMAIN rank[r].plan # {}) /\ (rank[r].plan = <<>> => DOMAIN rank[r].plan = {})
  <2>1. rank[r].plan = <<>> <=> Len(rank[r].plan) = 0
    BY <1>1, EmptySeq
  <2>2. \A n \in Nat : 1..n = {} <=> n = 0
    <3>1. \A n \in Nat : n # 0 => 1 \in 1..n
      OBVIOUS
    <3>2. 1..0 = {}
      OBVIOUS
    <3> QED
      BY <3>1, <3>2
  <2> QED
    BY <1>2, <2>1, <2>2
<1>5. ASSUME NEW k \in DOMAIN rank[r].plan PROVE rank[r].plan[k] \in Instalment
  BY <1>1, <1>2, ElementOfSeq
<1>6. ASSUME NEW k \in DOMAIN rank[r].plan
      PROVE  rank[r].plan[k].amount \in Nat /\ rank[r].plan[k].due \in Nat /\ rank[r].plan[k].paid \in Nat
  BY <1>5 DEF Instalment
<1> QED
  BY <1>2, <1>3, <1>4, <1>5, <1>6

\* An instalment is a place in the plan of a rank.
LEMMA InstalmentsAre ==
  /\ \A r, k : <<r, k>> \in R!Instalments <=> r \in R!Ranks /\ k \in DOMAIN rank[r].plan
  /\ \A i \in R!Instalments : i = <<i[1], i[2]>> /\ i[1] \in R!Ranks /\ i[2] \in DOMAIN rank[i[1]].plan
BY DEF R!Instalments

\* The same, in numbers.
LEMMA InstalmentType ==
  ASSUME RewardTypes
  PROVE  R!Instalments \subseteq Nat \X Nat
<1>1. \A r \in R!Ranks : r \in Nat
  BY LadderFacts
<1>2. \A r \in R!Ranks : DOMAIN rank[r].plan \subseteq Nat
  BY PlanFacts
<1> QED
  BY <1>1, <1>2, InstalmentsAre

-----------------------------------------------------------------------------
(* What a step that leaves a part alone keeps of it *)

\* Plans stay exact while they and their stamps stay.
LEMMA PlansKept ==
  ASSUME RewardsIInv, UNCHANGED scene,
         \A r \in R!Ranks :
           /\ rank'[r].plan = rank[r].plan
           /\ rank[r].plan # <<>> =>
                rank'[r].outright = rank[r].outright /\ (rank'[r].stamped <=> rank[r].stamped)
  PROVE  PlansAreExact'
BY DEF RewardsIInv, PlansAreExact

\* What runs hold stays theirs while the plans there are stay.
LEMMA RunsKept ==
  ASSUME RewardsIInv, UNCHANGED run,
         \A r \in R!Ranks : rank[r].plan # <<>> => rank'[r].plan = rank[r].plan
  PROVE  RunsApart'
<1> USE DEF RewardsIInv
<1>1. \A r \in R!Ranks : \A k \in DOMAIN rank[r].plan : rank'[r].plan = rank[r].plan
  <2>1. \A r \in R!Ranks : rank[r].plan = <<>> => DOMAIN rank[r].plan = {}
    BY PlanFacts
  <2> QED
    BY <2>1
<1>2. \A i \in R!Instalments : i \in R!Instalments' /\ R!Row(i)' = R!Row(i)
  BY <1>1 DEF R!Instalments, R!Row
<1>3. ASSUME NEW i \in R!Instalments PROVE R!Others(i)' = R!Others(i)
  <2>1. rank'[i[1]].plan = rank[i[1]].plan
    BY <1>1, InstalmentsAre
  <2>2. \A j : j[1] = i[1] => (j \in R!Instalments' <=> j \in R!Instalments)
    BY <2>1 DEF R!Instalments
  <2>3. R!Others(i)' = {j \in R!Instalments' : j[1] = i[1] /\ j # i /\ R!Row(j)'.paid = 0}
    BY DEF R!Others
  <2> QED
    BY <1>2, <2>2, <2>3 DEF R!Others
<1>4. /\ \A w \in Runs : run'[w].pc # "idle" => run'[w].todo \subseteq R!Instalments'
      /\ \A w \in Runs : Pays(w)' => run'[w].at \in R!Instalments /\ run'[w].at \in R!Instalments'
  BY <1>2 DEF RunsApart, Pays
<1>5. /\ \A w, v \in Runs : Pays(w)' /\ Pays(v)' /\ run'[w].at = run'[v].at => w = v
      /\ \A w, v \in Runs : run'[w].pc = "posted" /\ run'[v].pc = "posted" => w = v
  BY DEF RunsApart, Pays
<1>6. ASSUME NEW w \in Runs, NEW i \in R!Instalments', Pays(w)', run'[w].at = i
      PROVE  /\ R!Row(i)'.paid = 0
             /\ run'[w].pc = "posted" => (run'[w].last <=> R!Others(i)' = {})
  <2>1. i \in R!Instalments /\ Pays(w) /\ run[w].at = i
    BY <1>4, <1>6 DEF Pays
  <2>2. R!Row(i)' = R!Row(i) /\ R!Others(i)' = R!Others(i)
    BY <1>2, <1>3, <2>1
  <2> QED
    BY <2>1, <2>2 DEF RunsApart
<1>7. \A w \in Runs : run'[w].pc = "posted" => Pays(w)'
  BY DEF Pays
<1> QED
  BY <1>4, <1>5, <1>6, <1>7 DEF RunsApart

\* Achievements in hand stay in hand while their evaluations and ranks stay.
LEMMA ApartKept ==
  ASSUME RewardsIInv, UNCHANGED scene,
         \A f \in Evaluations : Rewards(f)' =>
           Rewards(f) /\ evaluation'[f] = evaluation[f] /\ rank'[R!Newest(f)] = rank[R!Newest(f)]
  PROVE  EvaluationsApart'
<1>1. \A f \in Evaluations : Rewards(f)' => R!Newest(f)' = R!Newest(f)
  BY DEF R!Newest
<1>2. \A f \in Evaluations : Rewards(f)' => RewardInHand(f)'
  BY <1>1 DEF RewardsIInv, EvaluationsApart, RewardInHand
<1>3. \A f, g \in Evaluations : Rewards(f)' /\ Rewards(g)' /\ R!Newest(f)' = R!Newest(g)' => f = g
  BY <1>1 DEF RewardsIInv, EvaluationsApart
<1> QED
  BY <1>2, <1>3 DEF EvaluationsApart

\* What is achieved stays rewarded or in hand.
LEMMA RewardedKept ==
  ASSUME RewardsIInv, UNCHANGED scene,
         \A r \in R!Ranks : rank'[r] = rank[r] \/ (rank'[r].achieved /\ rank'[r].plan # <<>>),
         \A f \in Evaluations : Rewards(f) =>
           \/ scene.dies
           \/ Rewards(f)' /\ evaluation'[f].todo = evaluation[f].todo
           \/ rank'[R!Newest(f)].plan # <<>>
  PROVE  RewardedIfAchieved'
<1> SUFFICES ASSUME NEW r \in R!Ranks
             PROVE  /\ ~rank'[r].achieved =>
                         rank'[r].plan = <<>> /\ rank'[r].outright = "no" /\ ~rank'[r].stamped
                    /\ rank'[r].achieved /\ rank'[r].plan = <<>> /\ scene.reward[r] > 0 /\ ~scene.dies =>
                         \/ rank'[r].stamped /\ rank'[r].outright = "entered"
                         \/ \E e \in Evaluations : Rewards(e)' /\ R!Newest(e)' = r
  BY DEF RewardedIfAchieved
<1>1. CASE rank'[r].achieved /\ rank'[r].plan # <<>>
  BY <1>1
<1>2. CASE rank'[r] = rank[r]
  <2>1. ASSUME NEW e \in Evaluations, Rewards(e), R!Newest(e) = r, ~scene.dies, rank[r].plan = <<>>
        PROVE  Rewards(e)' /\ R!Newest(e)' = r
    BY <1>2, <2>1 DEF R!Newest
  <2> QED
    BY <1>2, <2>1 DEF RewardsIInv, RewardedIfAchieved
<1> QED
  BY <1>1, <1>2

\* The ladder stays climbed while no evaluation begins, achieves or moves on.
LEMMA LadderKept ==
  ASSUME RewardsIInv, UNCHANGED <<scene, current>>,
         \A r \in R!Ranks : rank'[r].achieved = rank[r].achieved,
         \A e \in Evaluations :
           /\ evaluation'[e].todo = evaluation[e].todo
           /\ evaluation'[e].pc = "idle" <=> evaluation[e].pc = "idle"
           /\ evaluation'[e].pc = "next" <=> evaluation[e].pc = "next"
  PROVE  LadderIsClimbed'
<1>1. \A e \in Evaluations : R!Newest(e)' = R!Newest(e)
  BY DEF R!Newest
<1>2. current # 0 => current \in R!Ranks
  BY EarningsAssumption DEF RewardsIInv, RewardTypes, R!Ranks
<1>3. Highest' <=> Highest
  BY <1>2 DEF Highest
<1>4. \A e \in Evaluations : /\ evaluation[e].todo \subseteq R!Ranks
                             /\ evaluation[e].pc # "idle" => R!Newest(e) \in R!Ranks
  BY LadderFacts DEF RewardsIInv
<1>5. \A e \in Evaluations : evaluation'[e].pc \in {"idle", "next"} <=> evaluation[e].pc \in {"idle", "next"}
  OBVIOUS
<1> SUFFICES ASSUME scene.apart /\ ~scene.dies
             PROVE  /\ \A e, f \in Evaluations :
                         evaluation'[e].pc # "idle" /\ evaluation'[f].pc # "idle" => e = f
                    /\ \A r, q \in R!Ranks : rank'[r].achieved /\ q < r => rank'[q].achieved
                    /\ (\A e \in Evaluations : evaluation'[e].pc \in {"idle", "next"}) => Highest'
                    /\ \A e \in Evaluations : evaluation'[e].pc # "idle" =>
                         /\ \A t \in evaluation'[e].todo, q \in R!Ranks :
                              q < t => q \in evaluation'[e].todo \/ rank'[q].achieved
                         /\ \A t \in evaluation'[e].todo :
                              rank'[t].achieved => evaluation'[e].pc # "next" /\ t = R!Newest(e)'
                         /\ evaluation'[e].pc # "next" =>
                              /\ rank'[R!Newest(e)'].achieved
                              /\ \A r \in R!Ranks : rank'[r].achieved => r <= R!Newest(e)'
  BY DEF LadderIsClimbed
<1>6. /\ \A e, f \in Evaluations : evaluation[e].pc # "idle" /\ evaluation[f].pc # "idle" => e = f
      /\ \A r, q \in R!Ranks : rank[r].achieved /\ q < r => rank[q].achieved
      /\ (\A e \in Evaluations : evaluation[e].pc \in {"idle", "next"}) => Highest
  BY DEF RewardsIInv, LadderIsClimbed
<1>7. ASSUME NEW e \in Evaluations, evaluation[e].pc # "idle"
      PROVE  /\ \A t \in evaluation[e].todo, q \in R!Ranks :
                  q < t => q \in evaluation[e].todo \/ rank[q].achieved
             /\ \A t \in evaluation[e].todo :
                  rank[t].achieved => evaluation[e].pc # "next" /\ t = R!Newest(e)
             /\ evaluation[e].pc # "next" =>
                  /\ rank[R!Newest(e)].achieved
                  /\ \A r \in R!Ranks : rank[r].achieved => r <= R!Newest(e)
  BY <1>7 DEF RewardsIInv, LadderIsClimbed
<1>8. \A e, f \in Evaluations : evaluation'[e].pc # "idle" /\ evaluation'[f].pc # "idle" => e = f
  BY <1>6
<1>9. \A r, q \in R!Ranks : rank'[r].achieved /\ q < r => rank'[q].achieved
  BY <1>6
<1>10. (\A e \in Evaluations : evaluation'[e].pc \in {"idle", "next"}) => Highest'
  BY <1>3, <1>5, <1>6
<1>11. ASSUME NEW e \in Evaluations, evaluation'[e].pc # "idle"
       PROVE  /\ \A t \in evaluation'[e].todo, q \in R!Ranks :
                   q < t => q \in evaluation'[e].todo \/ rank'[q].achieved
              /\ \A t \in evaluation'[e].todo :
                   rank'[t].achieved => evaluation'[e].pc # "next" /\ t = R!Newest(e)'
              /\ evaluation'[e].pc # "next" =>
                   /\ rank'[R!Newest(e)'].achieved
                   /\ \A r \in R!Ranks : rank'[r].achieved => r <= R!Newest(e)'
  BY <1>1, <1>4, <1>7, <1>11
<1> QED
  BY <1>8, <1>9, <1>10, <1>11

-----------------------------------------------------------------------------
(* Steps of the world and of evaluations *)

\* No rank is achieved, and nobody is at work.
LEMMA RewardsInit == R!Init => RewardsIInv
<1> SUFFICES ASSUME R!Init PROVE RewardsIInv
  OBVIOUS
<1>1. /\ scene \in Scenes /\ month = 0 /\ setting \in scene.months /\ reach = 0 /\ current = 0
      /\ rank = [r \in R!Ranks |-> R!NotAchieved] /\ run = [w \in Runs |-> R!NoRun]
      /\ evaluation = [e \in Evaluations |-> R!NoEvaluation]
  BY DEF R!Init
<1>2. \A r \in R!Ranks : ~rank[r].achieved /\ ~rank[r].stamped /\ rank[r].outright = "no" /\ rank[r].plan = <<>>
  BY <1>1 DEF R!NotAchieved
<1>3. /\ \A e \in Evaluations : evaluation[e].pc = "idle"
      /\ \A w \in Runs : run[w].pc = "idle"
  BY <1>1 DEF R!NoEvaluation, R!NoRun
<1>4. RewardTypes
  <2>1. <<>> \in Seq(Instalment)
    BY EmptySeq
  <2>2. R!NotAchieved \in RankRow
    BY <2>1 DEF R!NotAchieved, RankRow
  <2>3. R!NoEvaluation \in EvaluationRow
    BY DEF R!NoEvaluation, EvaluationRow
  <2>4. R!NoRun \in RunRow
    BY DEF R!NoRun, RunRow
  <2>5. reach \in 0..Levels /\ current \in 0..Levels
    BY <1>1, EarningsAssumption
  <2> QED
    BY <1>1, <1>3, <2>2, <2>3, <2>4, <2>5 DEF RewardTypes
<1>5. EvaluationsApart /\ RewardedIfAchieved /\ PlansAreExact
  BY <1>2, <1>3 DEF EvaluationsApart, RewardedIfAchieved, PlansAreExact, Rewards
<1>6. RunsApart
  BY <1>3 DEF RunsApart, Pays
<1>7. LadderIsClimbed
  BY <1>1, <1>2, <1>3 DEF LadderIsClimbed, Highest
<1> QED
  BY <1>4, <1>5, <1>6, <1>7 DEF RewardsIInv

\* Where ranks, evaluations and runs stay, everything holds on.
LEMMA StandsStill ==
  ASSUME RewardsIInv, UNCHANGED <<scene, rank, current, evaluation, run>>
  PROVE  EvaluationsApart' /\ RewardedIfAchieved' /\ PlansAreExact' /\ RunsApart' /\ LadderIsClimbed'
<1>1. EvaluationsApart'
  BY ApartKept DEF Rewards
<1>2. RewardedIfAchieved'
  BY RewardedKept DEF Rewards
<1>3. PlansAreExact'
  BY PlansKept
<1>4. RunsApart'
  BY RunsKept
<1>5. LadderIsClimbed'
  BY LadderKept
<1> QED
  BY <1>1, <1>2, <1>3, <1>4, <1>5

\* Time, business, operators and settings move no reward.
LEMMA WorldStep ==
  ASSUME RewardsIInv,
         R!NextMonth \/ R!BusinessGrows \/ R!Suspend \/ R!Reinstate \/ R!Reconfigure
  PROVE  RewardsIInv'
<1>1. UNCHANGED <<scene, rank, current, evaluation, run>>
  BY DEF R!NextMonth, R!BusinessGrows, R!Suspend, R!Reinstate, R!Reconfigure, R!rest
<1>2. month' \in Nat /\ setting' \in scene.months /\ reach' \in 0..Levels
  BY EarningsAssumption
     DEF R!NextMonth, R!BusinessGrows, R!Suspend, R!Reinstate, R!Reconfigure, R!rest, RewardsIInv, RewardTypes
<1>3. RewardTypes'
  BY <1>1, <1>2 DEF RewardsIInv, RewardTypes
<1> QED
  BY <1>1, <1>3, StandsStill DEF RewardsIInv

\* An evaluation begins with what is not achieved.
LEMMA EvaluateStep ==
  ASSUME RewardsIInv, NEW e \in Evaluations, R!Evaluate(e)
  PROVE  RewardsIInv'
<1> DEFINE new == {r \in 1..reach : ~rank[r].achieved}
           row == [pc |-> "next", todo |-> new, months |-> setting]
<1> USE DEF RewardsIInv
<1>1. /\ evaluation[e].pc = "idle" /\ new # {}
      /\ scene.apart => \A f \in Evaluations : evaluation[f].pc = "idle"
      /\ evaluation' = [evaluation EXCEPT ![e] = row]
      /\ UNCHANGED <<scene, month, setting, active, reach, rank, current, run>>
  BY DEF R!Evaluate, R!In, R!world
<1>2. new \subseteq R!Ranks /\ (\A t \in new, q \in R!Ranks : q < t => q \in new \/ rank[q].achieved)
      /\ \A t \in new : ~rank[t].achieved
  BY EarningsAssumption DEF RewardTypes, R!Ranks
<1>3. row \in EvaluationRow
  BY <1>2, LadderFacts DEF EvaluationRow, RewardTypes
<1>4. /\ evaluation'[e] = row /\ row.pc = "next" /\ row.todo = new
      /\ \A f \in Evaluations \ {e} : evaluation'[f] = evaluation[f]
      /\ evaluation' \in [Evaluations -> EvaluationRow]
  BY <1>1, <1>3 DEF RewardTypes
<1> HIDE DEF new, row
<1>5. RewardTypes'
  BY <1>1, <1>4 DEF RewardTypes
<1>6. \A f \in Evaluations : Rewards(f)' => Rewards(f) /\ evaluation'[f] = evaluation[f]
  BY <1>4 DEF Rewards
<1>7. EvaluationsApart'
  BY <1>1, <1>6, ApartKept
<1>8. \A f \in Evaluations : Rewards(f) => Rewards(f)' /\ evaluation'[f].todo = evaluation[f].todo
  BY <1>1, <1>4 DEF Rewards
<1>9. RewardedIfAchieved'
  BY <1>1, <1>8, RewardedKept
<1>10. PlansAreExact' /\ RunsApart'
  BY <1>1, PlansKept, RunsKept
<1>11. LadderIsClimbed'
  <2> SUFFICES ASSUME scene.apart, ~scene.dies PROVE LadderIsClimbed'
    BY <1>1 DEF LadderIsClimbed
  <2>1. /\ \A r, q \in R!Ranks : rank[r].achieved /\ q < r => rank[q].achieved
        /\ Highest
    BY <1>1 DEF LadderIsClimbed
  <2>2. Highest'
    BY <1>1, <2>1 DEF Highest
  <2>3. \A f \in Evaluations : evaluation'[f].pc # "idle" => f = e
    BY <1>1, <1>4
  <2> QED
    BY <1>1, <1>2, <1>4, <2>1, <2>2, <2>3 DEF LadderIsClimbed
<1> QED
  BY <1>5, <1>7, <1>9, <1>10, <1>11

\* An evaluation that dies had its scene allow it.
LEMMA DiesStep ==
  ASSUME RewardsIInv, NEW e \in Evaluations, R!EvaluationDies(e)
  PROVE  RewardsIInv'
<1> USE DEF RewardsIInv
<1>1. /\ scene.dies /\ evaluation' = [evaluation EXCEPT ![e] = R!NoEvaluation]
      /\ UNCHANGED <<scene, month, setting, active, reach, rank, current, run>>
  BY DEF R!EvaluationDies, R!In, R!world
<1>2. R!NoEvaluation \in EvaluationRow /\ R!NoEvaluation.pc = "idle"
  BY DEF R!NoEvaluation, EvaluationRow
<1>3. /\ evaluation'[e].pc = "idle"
      /\ \A f \in Evaluations \ {e} : evaluation'[f] = evaluation[f]
      /\ evaluation' \in [Evaluations -> EvaluationRow]
  BY <1>1, <1>2 DEF RewardTypes
<1>4. RewardTypes'
  BY <1>1, <1>3 DEF RewardTypes
<1>5. \A f \in Evaluations : Rewards(f)' => Rewards(f) /\ evaluation'[f] = evaluation[f]
  BY <1>3 DEF Rewards
<1>6. EvaluationsApart'
  BY <1>1, <1>5, ApartKept
<1>7. RewardedIfAchieved'
  BY <1>1, RewardedKept
<1>8. PlansAreExact' /\ RunsApart'
  BY <1>1, PlansKept, RunsKept
<1>9. LadderIsClimbed'
  BY <1>1 DEF LadderIsClimbed
<1> QED
  BY <1>4, <1>6, <1>7, <1>8, <1>9

\* The title follows the achievement.
LEMMA TitleStep ==
  ASSUME RewardsIInv, NEW e \in Evaluations, R!Title(e)
  PROVE  RewardsIInv'
<1> DEFINE r == R!Newest(e)
           left == evaluation[e].todo \ {r}
           row == IF left = {} THEN R!NoEvaluation
                  ELSE [evaluation[e] EXCEPT !.pc = "next", !.todo = left]
<1> USE DEF RewardsIInv
<1>1. /\ evaluation[e].pc = "title" /\ current' = r
      /\ evaluation' = [evaluation EXCEPT ![e] = row]
      /\ UNCHANGED <<scene, month, setting, active, reach, rank, run>>
  BY DEF R!Title, R!In, R!world, RewardTypes
<1>2. r \in R!Ranks /\ r \in evaluation[e].todo /\ r \in Nat /\ r <= Levels /\ r > 0
  BY <1>1, LadderFacts
<1>3. row \in EvaluationRow /\ (row.pc = "idle" <=> left = {}) /\ row.pc \in {"idle", "next"}
      /\ (left # {} => row.todo = left)
  <2>1. evaluation[e] \in EvaluationRow
    BY LadderFacts
  <2> QED
    BY <2>1 DEF EvaluationRow, R!NoEvaluation
<1>4. /\ evaluation'[e] = row
      /\ \A f \in Evaluations \ {e} : evaluation'[f] = evaluation[f]
      /\ evaluation' \in [Evaluations -> EvaluationRow]
  BY <1>1, <1>3 DEF RewardTypes
<1>5. r \in 0..Levels
  BY <1>2, EarningsAssumption
<1>6. left \subseteq evaluation[e].todo /\ r \notin left
      /\ \A q \in evaluation[e].todo : q # r => q \in left
  OBVIOUS
<1> HIDE DEF r, left, row
<1>7. RewardTypes'
  BY <1>1, <1>3, <1>4, <1>5 DEF RewardTypes
<1>8. \A f \in Evaluations : (Rewards(f)' <=> Rewards(f)) /\ (Rewards(f) => evaluation'[f] = evaluation[f])
  BY <1>1, <1>3, <1>4 DEF Rewards
<1>9. EvaluationsApart' /\ RewardedIfAchieved'
  BY <1>1, <1>8, ApartKept, RewardedKept
<1>10. PlansAreExact' /\ RunsApart'
  BY <1>1, PlansKept, RunsKept
<1>11. LadderIsClimbed'
  <2> SUFFICES ASSUME scene.apart, ~scene.dies PROVE LadderIsClimbed'
    BY <1>1 DEF LadderIsClimbed
  <2>1. \A q, s \in R!Ranks : rank[q].achieved /\ s < q => rank[s].achieved
    BY DEF LadderIsClimbed
  <2>2. /\ \A t \in evaluation[e].todo, q \in R!Ranks :
             q < t => q \in evaluation[e].todo \/ rank[q].achieved
        /\ \A t \in evaluation[e].todo : rank[t].achieved => t = r
        /\ rank[r].achieved /\ \A q \in R!Ranks : rank[q].achieved => q <= r
    BY <1>1 DEF LadderIsClimbed, r
  <2>3. Highest'
    BY <1>1, <2>2 DEF Highest
  <2>4. \A f \in Evaluations : evaluation'[f].pc # "idle" => f = e
    BY <1>1, <1>4 DEF LadderIsClimbed
  <2>5. ASSUME evaluation'[e].pc # "idle"
        PROVE  /\ evaluation'[e].pc = "next"
               /\ \A t \in evaluation'[e].todo, q \in R!Ranks :
                    q < t => q \in evaluation'[e].todo \/ rank[q].achieved
               /\ \A t \in evaluation'[e].todo : ~rank[t].achieved
    BY <1>3, <1>4, <1>6, <2>2, <2>5
  <2> QED
    BY <1>1, <2>1, <2>3, <2>4, <2>5 DEF LadderIsClimbed
<1> QED
  BY <1>7, <1>9, <1>10, <1>11

-----------------------------------------------------------------------------
(* Steps of evaluations that move a rank *)

\* A rank is achieved, and whoever achieved it has its reward in hand.
LEMMA AchieveStep ==
  ASSUME RewardsIInv, NEW e \in Evaluations, R!Achieve(e)
  PROVE  RewardsIInv'
<1> DEFINE r == R!Newest(e)
           atOnce == scene.reward[r] > 0 /\ evaluation[e].months = 0
           pc == IF scene.reward[r] = 0 THEN "title" ELSE IF atOnce THEN "credit" ELSE "schedule"
           row == [rank[r] EXCEPT !.achieved = TRUE, !.stamped = atOnce, !.at = month]
           own == [evaluation[e] EXCEPT !.pc = pc]
<1> USE DEF RewardsIInv
<1>1. /\ evaluation[e].pc = "next"
      /\ UNCHANGED <<scene, month, setting, active, reach, current, run>>
      /\ \/ /\ rank[r].achieved /\ rank' = rank
            /\ evaluation' = [evaluation EXCEPT ![e] = R!NoEvaluation]
         \/ /\ ~rank[r].achieved
            /\ rank' = [rank EXCEPT ![r].achieved = TRUE, ![r].stamped = atOnce, ![r].at = month]
            /\ evaluation' = [evaluation EXCEPT ![e].pc = pc]
  BY DEF R!Achieve, R!In, R!Move, R!world
<1>2. /\ r \in R!Ranks /\ r \in evaluation[e].todo /\ r \in Nat /\ scene.reward[r] \in Nat
      /\ \A t \in evaluation[e].todo : r <= t /\ t \in R!Ranks
      /\ evaluation[e].months \in Nat
  BY <1>1, LadderFacts
<1>3. CASE rank[r].achieved /\ rank' = rank /\ evaluation' = [evaluation EXCEPT ![e] = R!NoEvaluation]
  <2>1. R!NoEvaluation \in EvaluationRow /\ R!NoEvaluation.pc = "idle"
    BY DEF R!NoEvaluation, EvaluationRow
  <2>2. /\ evaluation'[e].pc = "idle"
        /\ \A f \in Evaluations \ {e} : evaluation'[f] = evaluation[f]
        /\ evaluation' \in [Evaluations -> EvaluationRow]
    BY <1>3, <2>1 DEF RewardTypes
  <2>3. RewardTypes'
    BY <1>1, <1>3, <2>2 DEF RewardTypes
  <2>4. \A f \in Evaluations : (Rewards(f)' <=> Rewards(f)) /\ (Rewards(f) => evaluation'[f] = evaluation[f])
    BY <1>1, <2>2 DEF Rewards
  <2>5. EvaluationsApart' /\ RewardedIfAchieved'
    BY <1>1, <1>3, <2>4, ApartKept, RewardedKept
  <2>6. PlansAreExact' /\ RunsApart'
    BY <1>1, <1>3, PlansKept, RunsKept
  <2>7. LadderIsClimbed'
    BY <1>1, <1>2, <1>3 DEF LadderIsClimbed
  <2> QED
    BY <2>3, <2>5, <2>6, <2>7
<1>4. CASE /\ ~rank[r].achieved
           /\ rank' = [rank EXCEPT ![r].achieved = TRUE, ![r].stamped = atOnce, ![r].at = month]
           /\ evaluation' = [evaluation EXCEPT ![e].pc = pc]
  <2>1. /\ rank[r] \in RankRow /\ evaluation[e] \in EvaluationRow /\ atOnce \in BOOLEAN /\ month \in Nat
        /\ pc \in {"title", "credit", "schedule"}
    BY <1>2, LadderFacts DEF RewardTypes
  <2>2. /\ row \in RankRow /\ row.achieved = TRUE /\ (row.stamped <=> atOnce)
        /\ row.plan = rank[r].plan /\ row.outright = rank[r].outright
    BY <2>1 DEF RankRow
  <2>3. own \in EvaluationRow /\ own.pc = pc /\ own.todo = evaluation[e].todo /\ own.months = evaluation[e].months
    BY <2>1 DEF EvaluationRow
  <2>4. rank' = [rank EXCEPT ![r] = row] /\ evaluation' = [evaluation EXCEPT ![e] = own]
    BY <1>4 DEF RewardTypes
  <2>5. rank[r].plan = <<>> /\ rank[r].outright = "no"
    BY <1>2, <1>4 DEF RewardedIfAchieved
  <2>6. /\ pc \in {"schedule", "credit"} <=> scene.reward[r] > 0
        /\ pc = "schedule" => evaluation[e].months > 0 /\ ~atOnce
        /\ pc = "credit" => atOnce
    BY <1>2
  <2> HIDE DEF row, own, pc, atOnce
  <2>7. /\ rank'[r] = row /\ \A q \in R!Ranks \ {r} : rank'[q] = rank[q]
        /\ rank' \in [R!Ranks -> RankRow]
    BY <1>2, <2>2, <2>4 DEF RewardTypes
  <2>8. /\ evaluation'[e] = own /\ \A f \in Evaluations \ {e} : evaluation'[f] = evaluation[f]
        /\ evaluation' \in [Evaluations -> EvaluationRow]
    BY <2>3, <2>4 DEF RewardTypes
  <2>9. R!Newest(e)' = r /\ \A f \in Evaluations \ {e} : R!Newest(f)' = R!Newest(f)
    BY <2>3, <2>8 DEF R!Newest
  <2> HIDE DEF r
  <2>10. RewardTypes'
    BY <1>1, <1>2, <2>3, <2>7, <2>8 DEF RewardTypes
  <2>11. \A f \in Evaluations \ {e} : /\ Rewards(f)' <=> Rewards(f)
                                      /\ Rewards(f) => R!Newest(f) # r /\ R!Newest(f) \in R!Ranks
    <3>1. \A f \in Evaluations \ {e} : Rewards(f)' <=> Rewards(f)
      BY <2>8 DEF Rewards
    <3>2. \A f \in Evaluations : Rewards(f) => rank[R!Newest(f)].achieved
      BY DEF EvaluationsApart, RewardInHand
    <3>3. \A f \in Evaluations : Rewards(f) => R!Newest(f) \in R!Ranks
      BY LadderFacts DEF Rewards
    <3> QED
      BY <1>4, <3>1, <3>2, <3>3
  <2>12. Rewards(e)' => RewardInHand(e)'
    <3> SUFFICES ASSUME Rewards(e)' PROVE RewardInHand(e)'
      OBVIOUS
    <3>1. evaluation'[e].pc = pc /\ pc \in {"schedule", "credit"} /\ scene.reward[r] > 0
      BY <2>1, <2>3, <2>6, <2>8 DEF Rewards
    <3>2. /\ rank'[r].achieved /\ rank'[r].plan = <<>> /\ rank'[r].outright = "no"
          /\ rank'[r].stamped <=> pc # "schedule"
      BY <2>2, <2>5, <2>6, <2>7, <3>1
    <3>3. pc = "schedule" => evaluation'[e].months > 0
      BY <2>3, <2>6, <2>8
    <3> QED
      BY <1>1, <2>9, <3>1, <3>2, <3>3 DEF RewardInHand
  <2>13. ASSUME NEW f \in Evaluations \ {e}, Rewards(f)' PROVE RewardInHand(f)' /\ R!Newest(f)' # R!Newest(e)'
    <3>1. rank'[R!Newest(f)] = rank[R!Newest(f)] /\ RewardInHand(f) /\ R!Newest(f) # r
      BY <2>7, <2>11, <2>13 DEF EvaluationsApart
    <3> QED
      BY <1>1, <2>8, <2>9, <3>1 DEF RewardInHand
  <2>14. EvaluationsApart'
    <3>1. ASSUME NEW f \in Evaluations \ {e}, NEW g \in Evaluations \ {e}, Rewards(f)', Rewards(g)',
                 R!Newest(f)' = R!Newest(g)'
          PROVE  f = g
      BY <2>9, <2>11, <3>1 DEF EvaluationsApart
    <3> QED
      BY <2>12, <2>13, <3>1 DEF EvaluationsApart
  <2>15. RewardedIfAchieved'
    <3> SUFFICES ASSUME NEW q \in R!Ranks
                 PROVE  /\ ~rank'[q].achieved =>
                             rank'[q].plan = <<>> /\ rank'[q].outright = "no" /\ ~rank'[q].stamped
                        /\ rank'[q].achieved /\ rank'[q].plan = <<>> /\ scene.reward[q] > 0 /\ ~scene.dies =>
                             \/ rank'[q].stamped /\ rank'[q].outright = "entered"
                             \/ \E f \in Evaluations : Rewards(f)' /\ R!Newest(f)' = q
      BY <1>1 DEF RewardedIfAchieved
    <3>1. CASE q = r
      <4>1. scene.reward[r] > 0 => Rewards(e)' /\ R!Newest(e)' = r
        BY <2>3, <2>6, <2>8, <2>9 DEF Rewards
      <4> QED
        BY <2>2, <2>7, <3>1, <4>1
    <3>2. CASE q # r
      <4>1. \A f \in Evaluations : Rewards(f) => Rewards(f)' /\ R!Newest(f)' = R!Newest(f)
        BY <1>1, <2>9, <2>11 DEF Rewards
      <4> QED
        BY <2>7, <3>2, <4>1 DEF RewardedIfAchieved
    <3> QED
      BY <3>1, <3>2
  <2>16. PlansAreExact' /\ RunsApart'
    <3>1. \A q \in R!Ranks : /\ rank'[q].plan = rank[q].plan
                             /\ rank[q].plan # <<>> =>
                                  rank'[q].outright = rank[q].outright /\ (rank'[q].stamped <=> rank[q].stamped)
      BY <2>2, <2>5, <2>7
    <3> QED
      BY <1>1, <3>1, PlansKept, RunsKept
  <2>17. LadderIsClimbed'
    <3> SUFFICES ASSUME scene.apart, ~scene.dies PROVE LadderIsClimbed'
      BY <1>1 DEF LadderIsClimbed
    <3>1. /\ \A q, s \in R!Ranks : rank[q].achieved /\ s < q => rank[s].achieved
          /\ \A f \in Evaluations : evaluation[f].pc # "idle" => f = e
          /\ \A t \in evaluation[e].todo, q \in R!Ranks :
               q < t => q \in evaluation[e].todo \/ rank[q].achieved
          /\ \A t \in evaluation[e].todo : ~rank[t].achieved
      BY <1>1 DEF LadderIsClimbed
    <3>2. \A q \in R!Ranks : rank'[q].achieved <=> rank[q].achieved \/ q = r
      BY <2>2, <2>7
    <3>3. \A q \in R!Ranks : q \in Nat
      BY LadderFacts
    <3>4. \A q \in R!Ranks : q < r => rank[q].achieved
      BY <1>2, <3>1, <3>3
    <3>5. \A q \in R!Ranks : rank[q].achieved => q <= r
      BY <1>2, <1>4, <3>1, <3>3
    <3>6. evaluation'[e].pc \notin {"idle", "next"} /\ evaluation'[e].todo = evaluation[e].todo
      BY <2>1, <2>3, <2>8
    <3>7. \A f \in Evaluations : evaluation'[f].pc # "idle" => f = e
      BY <2>8, <3>1
    <3>8. \A q, s \in R!Ranks : rank'[q].achieved /\ s < q => rank'[s].achieved
      BY <3>1, <3>2, <3>4
    <3>9. /\ \A t \in evaluation'[e].todo, q \in R!Ranks :
               q < t => q \in evaluation'[e].todo \/ rank'[q].achieved
          /\ \A t \in evaluation'[e].todo : rank'[t].achieved => t = r
          /\ rank'[r].achieved /\ \A q \in R!Ranks : rank'[q].achieved => q <= r
      BY <1>2, <3>1, <3>2, <3>5, <3>6
    <3> QED
      BY <1>1, <2>9, <3>6, <3>7, <3>8, <3>9 DEF LadderIsClimbed
  <2> QED
    BY <2>10, <2>14, <2>15, <2>16, <2>17
<1> QED
  BY <1>1, <1>3, <1>4

\* splitEvenly's instalments are put down for the achievement in hand.
LEMMA ScheduleStep ==
  ASSUME RewardsIInv, NEW e \in Evaluations, R!Schedule(e)
  PROVE  RewardsIInv'
<1> DEFINE r == R!Newest(e)
           n == evaluation[e].months
           parts == R!SplitEvenly(scene.reward[r], n)
           plan == [i \in 1..n |-> [amount |-> parts[i], due |-> rank[r].at + i, paid |-> 0]]
           row == [rank[r] EXCEPT !.plan = plan]
           own == [evaluation[e] EXCEPT !.pc = "title"]
<1> USE DEF RewardsIInv
<1>1. /\ evaluation[e].pc = "schedule"
      /\ rank' = [rank EXCEPT ![r].plan = plan]
      /\ evaluation' = [evaluation EXCEPT ![e].pc = "title"]
      /\ UNCHANGED <<scene, month, setting, active, reach, current, run>>
  BY DEF R!Schedule, R!In, R!Move, R!world
<1>2. r \in R!Ranks /\ scene.reward[r] \in Nat /\ rank[r] \in RankRow /\ rank[r].at \in Nat
      /\ evaluation[e] \in EvaluationRow /\ n \in Nat
  BY <1>1, LadderFacts
<1>3. Rewards(e) /\ RewardInHand(e)
  BY <1>1 DEF Rewards, EvaluationsApart
<1>4. n \in Nat \ {0} /\ rank[r].achieved /\ ~rank[r].stamped /\ rank[r].plan = <<>> /\ rank[r].outright = "no"
  BY <1>1, <1>2, <1>3 DEF RewardInHand
<1>5. parts \in [1..n -> Nat] /\ SumOver(parts, 1..n) = scene.reward[r]
  BY <1>2, <1>4, SplitAddsUp
<1> HIDE DEF parts, n
<1>6. /\ plan \in Seq(Instalment) /\ DOMAIN plan = 1..n /\ plan # <<>> /\ 1 \in 1..n
      /\ \A i \in 1..n : plan[i].amount = parts[i] /\ plan[i].paid = 0
  <2>1. \A i \in 1..n : [amount |-> parts[i], due |-> rank[r].at + i, paid |-> 0] \in Instalment
    BY <1>2, <1>4, <1>5 DEF Instalment
  <2>2. plan \in Seq(Instalment)
    BY <1>4, <2>1, IsASeq
  <2>3. 1 \in 1..n /\ DOMAIN plan = 1..n
    BY <1>4
  <2>4. plan # <<>>
    BY <2>3
  <2> QED
    BY <2>2, <2>3, <2>4
<1> HIDE DEF plan
<1>7. SumOver(Amounts(plan), DOMAIN plan) = scene.reward[r]
  <2>1. IsFiniteSet(1..n)
    <3>1. 1 \in Int /\ n \in Int
      BY <1>4
    <3> QED
      BY <3>1, FS_Interval
  <2>2. \A i \in 1..n : Amounts(plan)[i] = parts[i]
    BY <1>6 DEF Amounts
  <2>3. SumOver(Amounts(plan), 1..n) = SumOver(parts, 1..n)
    BY <2>1, <2>2, SumSame
  <2> QED
    BY <1>5, <1>6, <2>3
<1>8. /\ row \in RankRow /\ row.plan = plan /\ row.achieved = TRUE /\ row.stamped = FALSE /\ row.outright = "no"
  BY <1>2, <1>4, <1>6 DEF RankRow
<1>9. own \in EvaluationRow /\ own.pc = "title" /\ own.todo = evaluation[e].todo
  BY <1>2 DEF EvaluationRow
<1>10. rank' = [rank EXCEPT ![r] = row] /\ evaluation' = [evaluation EXCEPT ![e] = own]
  BY <1>1 DEF RewardTypes
<1> HIDE DEF row, own
<1>11. /\ rank'[r] = row /\ \A q \in R!Ranks \ {r} : rank'[q] = rank[q]
       /\ rank' \in [R!Ranks -> RankRow]
  BY <1>2, <1>8, <1>10 DEF RewardTypes
<1>12. /\ evaluation'[e] = own /\ \A f \in Evaluations \ {e} : evaluation'[f] = evaluation[f]
       /\ evaluation' \in [Evaluations -> EvaluationRow]
  BY <1>9, <1>10 DEF RewardTypes
<1>13. RewardTypes'
  BY <1>1, <1>2, <1>9, <1>11, <1>12 DEF RewardTypes
<1>14. \A f \in Evaluations : /\ Rewards(f)' <=> (Rewards(f) /\ f # e)
                              /\ Rewards(f) /\ f # e => R!Newest(f) # r /\ R!Newest(f) \in R!Ranks
  <2>1. \A f \in Evaluations : Rewards(f)' <=> (Rewards(f) /\ f # e)
    BY <1>9, <1>12 DEF Rewards
  <2>2. \A f \in Evaluations : Rewards(f) /\ f # e => R!Newest(f) # r
    BY <1>3 DEF EvaluationsApart
  <2>3. \A f \in Evaluations : Rewards(f) => R!Newest(f) \in R!Ranks
    BY LadderFacts DEF Rewards
  <2> QED
    BY <2>1, <2>2, <2>3
<1>15. EvaluationsApart'
  <2>1. \A f \in Evaluations : Rewards(f)' =>
           Rewards(f) /\ evaluation'[f] = evaluation[f] /\ rank'[R!Newest(f)] = rank[R!Newest(f)]
    BY <1>11, <1>12, <1>14
  <2> QED
    BY <1>1, <2>1, ApartKept
<1>16. RewardedIfAchieved'
  <2>1. \A q \in R!Ranks : rank'[q] = rank[q] \/ (rank'[q].achieved /\ rank'[q].plan # <<>>)
    BY <1>6, <1>8, <1>11
  <2>2. \A f \in Evaluations : Rewards(f) =>
           \/ Rewards(f)' /\ evaluation'[f].todo = evaluation[f].todo
           \/ rank'[R!Newest(f)].plan # <<>>
    BY <1>6, <1>8, <1>11, <1>12, <1>14
  <2> QED
    BY <1>1, <2>1, <2>2, RewardedKept
<1>17. PlansAreExact'
  <2> SUFFICES ASSUME NEW q \in R!Ranks, rank'[q].plan # <<>>
               PROVE  /\ rank'[q].outright = "no"
                      /\ SumOver(Amounts(rank'[q].plan), DOMAIN rank'[q].plan) = scene.reward[q]
                      /\ \A k \in DOMAIN rank'[q].plan : rank'[q].plan[k].paid \in {0, 1}
                      /\ rank'[q].stamped <=> \A k \in DOMAIN rank'[q].plan : rank'[q].plan[k].paid = 1
    <3>1. scene' = scene
      BY <1>1
    <3> QED
      BY <3>1 DEF PlansAreExact
  <2>1. CASE q = r
    <3>1. rank'[q].plan = plan /\ rank'[q].outright = "no" /\ rank'[q].stamped = FALSE
      BY <1>8, <1>11, <2>1
    <3>2. /\ \A k \in DOMAIN plan : plan[k].paid = 0
          /\ ~\A k \in DOMAIN plan : plan[k].paid = 1
      BY <1>6
    <3> QED
      BY <1>7, <2>1, <3>1, <3>2
  <2>2. CASE q # r
    BY <1>11, <2>2 DEF PlansAreExact
  <2> QED
    BY <2>1, <2>2
<1>18. RunsApart'
  BY <1>1, <1>4, <1>11, RunsKept
<1>19. LadderIsClimbed'
  <2>1. /\ \A q \in R!Ranks : rank'[q].achieved = rank[q].achieved
        /\ \A f \in Evaluations : /\ evaluation'[f].todo = evaluation[f].todo
                                  /\ evaluation'[f].pc = "idle" <=> evaluation[f].pc = "idle"
                                  /\ evaluation'[f].pc = "next" <=> evaluation[f].pc = "next"
    <3>1. rank[r].achieved = TRUE
      BY <1>2, <1>4 DEF RankRow
    <3> QED
      BY <1>1, <1>8, <1>9, <1>11, <1>12, <3>1
  <2> QED
    BY <1>1, <2>1, LadderKept
<1> QED
  BY <1>13, <1>15, <1>16, <1>17, <1>18, <1>19

\* The reward goes to the wallet and into the books.
LEMMA CreditStep ==
  ASSUME RewardsIInv, NEW e \in Evaluations, R!Credit(e)
  PROVE  RewardsIInv'
<1> DEFINE r == R!Newest(e)
<1> USE DEF RewardsIInv
<1>1. PICK out \in {"wallet", "entered"}, to \in {"entry", "title"} :
        /\ evaluation[e].pc = (IF out = "wallet" THEN "credit" ELSE "entry")
        /\ to = (IF out = "wallet" THEN "entry" ELSE "title")
        /\ rank' = [rank EXCEPT ![r].outright = out]
        /\ evaluation' = [evaluation EXCEPT ![e].pc = to]
  BY DEF R!Credit, R!In, R!Move
<1>2. UNCHANGED <<scene, month, setting, active, reach, current, run>>
  BY DEF R!Credit, R!world
<1>3. r \in R!Ranks /\ rank[r] \in RankRow /\ evaluation[e] \in EvaluationRow
  BY <1>1, LadderFacts
<1>4. Rewards(e) /\ RewardInHand(e)
  BY <1>1 DEF Rewards, EvaluationsApart
<1>5. rank[r].achieved /\ rank[r].stamped /\ rank[r].plan = <<>> /\ scene.reward[r] > 0
  BY <1>1, <1>4 DEF RewardInHand
<1> DEFINE row == [rank[r] EXCEPT !.outright = out]
           own == [evaluation[e] EXCEPT !.pc = to]
<1>6. /\ row \in RankRow /\ row.plan = <<>> /\ row.achieved = rank[r].achieved /\ row.stamped = rank[r].stamped
      /\ row.outright = out
  BY <1>3, <1>5 DEF RankRow
<1>7. own \in EvaluationRow /\ own.pc = to /\ own.todo = evaluation[e].todo
  BY <1>3 DEF EvaluationRow
<1>8. rank' = [rank EXCEPT ![r] = row] /\ evaluation' = [evaluation EXCEPT ![e] = own]
  BY <1>1 DEF RewardTypes
<1> HIDE DEF row, own
<1>9. /\ rank'[r] = row /\ \A q \in R!Ranks \ {r} : rank'[q] = rank[q]
      /\ rank' \in [R!Ranks -> RankRow]
  BY <1>3, <1>6, <1>8 DEF RewardTypes
<1>10. /\ evaluation'[e] = own /\ \A f \in Evaluations \ {e} : evaluation'[f] = evaluation[f]
       /\ evaluation' \in [Evaluations -> EvaluationRow]
  BY <1>7, <1>8 DEF RewardTypes
<1>11. R!Newest(e)' = r /\ \A f \in Evaluations \ {e} : R!Newest(f)' = R!Newest(f)
  BY <1>7, <1>10 DEF R!Newest
<1>12. RewardTypes'
  BY <1>1, <1>2, <1>7, <1>9, <1>10 DEF RewardTypes
<1>13. \A f \in Evaluations \ {e} :
         /\ Rewards(f)' <=> Rewards(f)
         /\ Rewards(f) => RewardInHand(f) /\ R!Newest(f) # r /\ R!Newest(f) \in R!Ranks
  <2>1. \A f \in Evaluations \ {e} : Rewards(f)' <=> Rewards(f)
    BY <1>10 DEF Rewards
  <2>2. \A f \in Evaluations \ {e} : Rewards(f) => RewardInHand(f) /\ R!Newest(f) # r
    BY <1>4 DEF EvaluationsApart
  <2>3. \A f \in Evaluations : Rewards(f) => R!Newest(f) \in R!Ranks
    BY LadderFacts DEF Rewards
  <2> QED
    BY <2>1, <2>2, <2>3
<1> HIDE DEF r
<1>14. Rewards(e)' => out = "wallet" /\ RewardInHand(e)'
  <2>1. Rewards(e)' => out = "wallet" /\ evaluation'[e].pc = "entry"
    BY <1>1, <1>7, <1>10 DEF Rewards
  <2> QED
    BY <1>2, <1>5, <1>6, <1>9, <1>11, <2>1 DEF RewardInHand
<1>15. EvaluationsApart'
  <2>1. ASSUME NEW f \in Evaluations \ {e}, Rewards(f)' PROVE RewardInHand(f)' /\ R!Newest(f)' # r
    <3>1. rank'[R!Newest(f)] = rank[R!Newest(f)] /\ RewardInHand(f) /\ R!Newest(f) # r
      BY <1>9, <1>13, <2>1
    <3> QED
      BY <1>2, <1>10, <1>11, <3>1 DEF RewardInHand
  <2>2. ASSUME NEW f \in Evaluations \ {e}, NEW g \in Evaluations \ {e}, Rewards(f)', Rewards(g)',
               R!Newest(f)' = R!Newest(g)'
        PROVE  f = g
    BY <1>11, <1>13, <2>2 DEF EvaluationsApart
  <2> QED
    BY <1>11, <1>14, <2>1, <2>2 DEF EvaluationsApart
<1>16. RewardedIfAchieved'
  <2> SUFFICES ASSUME NEW q \in R!Ranks
               PROVE  /\ ~rank'[q].achieved =>
                           rank'[q].plan = <<>> /\ rank'[q].outright = "no" /\ ~rank'[q].stamped
                      /\ rank'[q].achieved /\ rank'[q].plan = <<>> /\ scene.reward[q] > 0 /\ ~scene.dies =>
                           \/ rank'[q].stamped /\ rank'[q].outright = "entered"
                           \/ \E f \in Evaluations : Rewards(f)' /\ R!Newest(f)' = q
    BY <1>2 DEF RewardedIfAchieved
  <2>1. CASE q = r
    <3>1. rank'[q].achieved /\ rank'[q].stamped /\ rank'[q].outright = out
      BY <1>5, <1>6, <1>9, <2>1
    <3>2. out = "wallet" => Rewards(e)' /\ R!Newest(e)' = q
      BY <1>1, <1>7, <1>10, <1>11, <2>1 DEF Rewards
    <3> QED
      BY <3>1, <3>2
  <2>2. CASE q # r
    <3>1. \A f \in Evaluations : Rewards(f) /\ R!Newest(f) = q => Rewards(f)' /\ R!Newest(f)' = q
      <4>1. R!Newest(e) = r
        BY DEF r
      <4> QED
        BY <1>11, <1>13, <2>2, <4>1
    <3> QED
      BY <1>9, <2>2, <3>1 DEF RewardedIfAchieved
  <2> QED
    BY <2>1, <2>2
<1>17. PlansAreExact' /\ RunsApart'
  <2>1. \A q \in R!Ranks : /\ rank'[q].plan = rank[q].plan
                           /\ rank[q].plan # <<>> =>
                                rank'[q].outright = rank[q].outright /\ (rank'[q].stamped <=> rank[q].stamped)
    BY <1>5, <1>6, <1>9
  <2> QED
    BY <1>2, <2>1, PlansKept, RunsKept
<1>18. LadderIsClimbed'
  <2>1. \A q \in R!Ranks : rank'[q].achieved = rank[q].achieved
    BY <1>6, <1>9
  <2>2. \A f \in Evaluations : /\ evaluation'[f].todo = evaluation[f].todo
                               /\ evaluation'[f].pc = "idle" <=> evaluation[f].pc = "idle"
                               /\ evaluation'[f].pc = "next" <=> evaluation[f].pc = "next"
    BY <1>1, <1>7, <1>10
  <2> QED
    BY <1>2, <2>1, <2>2, LadderKept
<1> QED
  BY <1>12, <1>15, <1>16, <1>17, <1>18

-----------------------------------------------------------------------------
(* Steps of vesting runs *)

\* What a run's row is made of.
LEMMA RunFacts ==
  ASSUME RewardTypes, NEW w \in Runs
  PROVE  /\ run[w] \in RunRow /\ run[w].todo \subseteq Nat \X Nat
         /\ run[w].pc \in {"idle", "next", "claimed", "posted"}
         /\ run[w].at \in Nat \X Nat /\ run[w].last \in BOOLEAN
<1>1. run[w] \in RunRow
  BY DEF RewardTypes
<1> QED
  BY <1>1 DEF RunRow

\* A run that leaves an instalment pays none, and has no more to do than before.
LEMMA LeaveFacts ==
  ASSUME RewardTypes, NEW w \in Runs, NEW i, R!Leave(w, i)
  PROVE  /\ run' \in [Runs -> RunRow] /\ run'[w].pc \in {"idle", "next"}
         /\ run'[w].todo \subseteq run[w].todo
         /\ \A v \in Runs \ {w} : run'[v] = run[v]
<1> DEFINE left == run[w].todo \ {i}
           row == IF left = {} THEN R!NoRun ELSE [R!NoRun EXCEPT !.pc = "next", !.todo = left]
<1>1. run' = [run EXCEPT ![w] = row]
  BY DEF R!Leave
<1>2. left \subseteq run[w].todo /\ left \subseteq Nat \X Nat
  BY RunFacts
<1> HIDE DEF left
<1>3. row \in RunRow /\ row.pc \in {"idle", "next"} /\ row.todo \subseteq run[w].todo
  BY <1>2 DEF RunRow, R!NoRun
<1> HIDE DEF row
<1> QED
  BY <1>1, <1>3 DEF RewardTypes

\* One run moves and the ranks stay.
LEMMA RunMoves ==
  ASSUME RewardsIInv, UNCHANGED rank, NEW w \in Runs,
         \A v \in Runs \ {w} : run'[v] = run[v],
         run'[w].pc # "idle" => run'[w].todo \subseteq R!Instalments,
         Pays(w)' => /\ run'[w].at \in R!Instalments
                     /\ \A i \in R!Instalments : run'[w].at = i => R!Row(i).paid = 0
                     /\ \A v \in Runs \ {w} : Pays(v) => run[v].at # run'[w].at,
         run'[w].pc = "posted" =>
           /\ \A v \in Runs \ {w} : run[v].pc # "posted"
           /\ \A i \in R!Instalments : run'[w].at = i => (run'[w].last <=> R!Others(i) = {})
  PROVE  RunsApart'
<1> USE DEF RewardsIInv
<1>1. R!Instalments' = R!Instalments
  BY DEF R!Instalments
<1>2. \A i : R!Row(i)' = R!Row(i)
  BY DEF R!Row
<1>3. \A i : R!Others(i)' = R!Others(i)
  BY <1>1, <1>2 DEF R!Others
<1>4. \A v \in Runs \ {w} : Pays(v)' <=> Pays(v)
  BY DEF Pays
<1>5. \A v \in Runs : run'[v].pc # "idle" => run'[v].todo \subseteq R!Instalments'
  BY <1>1 DEF RunsApart
<1>6. \A v \in Runs : Pays(v)' => run'[v].at \in R!Instalments'
  BY <1>1, <1>4 DEF RunsApart
<1>7. \A v \in Runs, i \in R!Instalments' : Pays(v)' /\ run'[v].at = i => R!Row(i)'.paid = 0
  <2>1. ASSUME NEW v \in Runs, NEW i \in R!Instalments, Pays(v)', run'[v].at = i PROVE R!Row(i).paid = 0
    BY <1>4, <2>1 DEF RunsApart
  <2> QED
    BY <1>1, <1>2, <2>1
<1>8. \A u, v \in Runs : Pays(u)' /\ Pays(v)' /\ run'[u].at = run'[v].at => u = v
  <2>1. ASSUME NEW u \in Runs, NEW v \in Runs, Pays(u)', Pays(v)', run'[u].at = run'[v].at PROVE u = v
    BY <1>4, <2>1 DEF RunsApart
  <2> QED
    BY <2>1
<1>9. \A u, v \in Runs : run'[u].pc = "posted" /\ run'[v].pc = "posted" => u = v
  BY DEF RunsApart
<1>10. \A v \in Runs, i \in R!Instalments' :
         run'[v].pc = "posted" /\ run'[v].at = i => (run'[v].last <=> R!Others(i)' = {})
  <2>1. ASSUME NEW v \in Runs, NEW i \in R!Instalments, run'[v].pc = "posted", run'[v].at = i
        PROVE  run'[v].last <=> R!Others(i) = {}
    BY <2>1 DEF RunsApart
  <2> QED
    BY <1>1, <1>3, <2>1
<1> QED
  BY <1>5, <1>6, <1>7, <1>8, <1>9, <1>10 DEF RunsApart

\* Where the ranks and evaluations stay, only the runs are to be looked at.
LEMMA OnlyRunsMove ==
  ASSUME RewardsIInv, UNCHANGED <<scene, month, setting, active, reach, rank, current, evaluation>>,
         run' \in [Runs -> RunRow], RunsApart'
  PROVE  RewardsIInv'
<1>1. RewardTypes'
  BY DEF RewardsIInv, RewardTypes
<1>2. EvaluationsApart' /\ RewardedIfAchieved'
  BY ApartKept, RewardedKept DEF Rewards
<1>3. PlansAreExact' /\ LadderIsClimbed'
  BY PlansKept, LadderKept
<1> QED
  BY <1>1, <1>2, <1>3 DEF RewardsIInv

\* A run begins with what is due.
LEMMA StartRunStep ==
  ASSUME RewardsIInv, NEW w \in Runs, R!StartRun(w)
  PROVE  RewardsIInv'
<1> USE DEF RewardsIInv
<1>1. /\ run[w].pc = "idle" /\ run' = [run EXCEPT ![w].pc = "next", ![w].todo = R!Due]
      /\ UNCHANGED <<scene, month, setting, active, reach, rank, current, evaluation>>
  BY DEF R!StartRun, R!Is, R!world
<1>2. R!Due \subseteq R!Instalments /\ R!Due \subseteq Nat \X Nat
  BY InstalmentType DEF R!Due
<1> DEFINE row == [run[w] EXCEPT !.pc = "next", !.todo = R!Due]
<1>3. row \in RunRow /\ row.pc = "next" /\ row.todo = R!Due
  BY <1>2, RunFacts DEF RunRow
<1>4. run' = [run EXCEPT ![w] = row]
  BY <1>1 DEF RewardTypes
<1> HIDE DEF row
<1>5. run'[w] = row /\ (\A v \in Runs \ {w} : run'[v] = run[v]) /\ run' \in [Runs -> RunRow]
  BY <1>3, <1>4 DEF RewardTypes
<1>6. RunsApart'
  BY <1>1, <1>2, <1>3, <1>5, RunMoves DEF Pays
<1> QED
  BY <1>1, <1>5, <1>6, OnlyRunsMove

\* A run that leaves an instalment or ends holds none.
LEMMA LeaveStep ==
  ASSUME RewardsIInv, NEW w \in Runs, run[w].pc # "idle",
         run' \in [Runs -> RunRow], \A v \in Runs \ {w} : run'[v] = run[v],
         run'[w].pc \in {"idle", "next"}, run'[w].todo \subseteq run[w].todo,
         UNCHANGED <<scene, month, setting, active, reach, rank, current, evaluation>>
  PROVE  RewardsIInv'
<1>1. run'[w].todo \subseteq R!Instalments
  BY DEF RewardsIInv, RunsApart
<1>2. RunsApart'
  BY <1>1, RunMoves DEF Pays
<1> QED
  BY <1>2, OnlyRunsMove

\* An instalment that is not paid is claimed, by one run.
LEMMA ClaimStep ==
  ASSUME RewardsIInv, NEW w \in Runs, R!Claim(w)
  PROVE  RewardsIInv'
<1> USE DEF RewardsIInv
<1>1. PICK i \in R!Earliest(run[w].todo) :
        /\ run[w].pc = "next"
        /\ \A v \in Runs \ {w} : run[v].pc \in {"claimed", "posted"} => run[v].at # i
        /\ \/ R!Leave(w, i)
           \/ ~(R!Row(i).paid > 0) /\ run' = [run EXCEPT ![w].pc = "claimed", ![w].at = i]
        /\ UNCHANGED <<scene, month, setting, active, reach, rank, current, evaluation>>
  BY DEF R!Claim, R!Is, R!world
<1>2. i \in run[w].todo /\ i \in R!Instalments
  BY <1>1 DEF R!Earliest, RunsApart
<1>3. CASE R!Leave(w, i)
  BY <1>1, <1>3, LeaveFacts, LeaveStep
<1>4. CASE ~(R!Row(i).paid > 0) /\ run' = [run EXCEPT ![w].pc = "claimed", ![w].at = i]
  <2> DEFINE row == [run[w] EXCEPT !.pc = "claimed", !.at = i]
  <2>1. i \in Nat \X Nat
    BY <1>2, InstalmentType
  <2>2. row \in RunRow /\ row.pc = "claimed" /\ row.at = i /\ row.todo = run[w].todo
    BY <2>1, RunFacts DEF RunRow
  <2>3. run' = [run EXCEPT ![w] = row]
    BY <1>4 DEF RewardTypes
  <2> HIDE DEF row
  <2>4. run'[w] = row /\ (\A v \in Runs \ {w} : run'[v] = run[v]) /\ run' \in [Runs -> RunRow]
    BY <2>2, <2>3 DEF RewardTypes
  <2>5. R!Row(i).paid = 0
    <3>1. R!Row(i).paid \in Nat
      BY <1>2, InstalmentsAre, PlanFacts DEF R!Row
    <3> QED
      BY <1>4, <3>1
  <2>6. run'[w].todo \subseteq R!Instalments
    BY <1>1, <2>2, <2>4 DEF RunsApart
  <2>7. RunsApart'
    BY <1>1, <1>2, <2>2, <2>4, <2>5, <2>6, RunMoves DEF Pays
  <2> QED
    BY <1>1, <2>4, <2>7, OnlyRunsMove
<1> QED
  BY <1>1, <1>3, <1>4

\* Of the runs that pay, one at a time has the wallet and counts.
LEMMA PostStep ==
  ASSUME RewardsIInv, NEW w \in Runs, R!Post(w)
  PROVE  RewardsIInv'
<1> USE DEF RewardsIInv
<1>1. /\ run[w].pc = "claimed" /\ \A v \in Runs : run[v].pc # "posted"
      /\ run' = [run EXCEPT ![w].pc = "posted", ![w].last = R!Others(run[w].at) = {}]
      /\ UNCHANGED <<scene, month, setting, active, reach, rank, current, evaluation>>
  BY DEF R!Post, R!Is, R!world
<1> DEFINE row == [run[w] EXCEPT !.pc = "posted", !.last = R!Others(run[w].at) = {}]
<1>2. /\ row \in RunRow /\ row.pc = "posted" /\ row.at = run[w].at /\ row.todo = run[w].todo
      /\ row.last = (R!Others(run[w].at) = {})
  BY RunFacts DEF RunRow
<1>3. run' = [run EXCEPT ![w] = row]
  BY <1>1 DEF RewardTypes
<1> HIDE DEF row
<1>4. run'[w] = row /\ (\A v \in Runs \ {w} : run'[v] = run[v]) /\ run' \in [Runs -> RunRow]
  BY <1>2, <1>3 DEF RewardTypes
<1>5. /\ run[w].todo \subseteq R!Instalments /\ Pays(w) /\ run[w].at \in R!Instalments
      /\ \A i \in R!Instalments : run[w].at = i => R!Row(i).paid = 0
      /\ \A v \in Runs \ {w} : Pays(v) => run[v].at # run[w].at
  BY <1>1 DEF RunsApart, Pays
<1>6. \A i \in R!Instalments : run'[w].at = i => (run'[w].last <=> R!Others(i) = {})
  BY <1>2, <1>4
<1>7. /\ run'[w].todo \subseteq R!Instalments /\ run'[w].at \in R!Instalments
      /\ \A i \in R!Instalments : run'[w].at = i => R!Row(i).paid = 0
      /\ \A v \in Runs \ {w} : Pays(v) => run[v].at # run'[w].at
  BY <1>2, <1>4, <1>5
<1>8. RunsApart'
  BY <1>1, <1>4, <1>6, <1>7, RunMoves
<1> QED
  BY <1>1, <1>4, <1>8, OnlyRunsMove

\* Runs that fail or die leave the instalment due.
LEMMA FailStep ==
  ASSUME RewardsIInv, NEW w \in Runs, R!PaymentFails(w) \/ R!RunDies(w)
  PROVE  RewardsIInv'
<1> USE DEF RewardsIInv
<1>1. UNCHANGED <<scene, month, setting, active, reach, rank, current, evaluation>>
  BY DEF R!PaymentFails, R!RunDies, R!world
<1>2. run[w].pc # "idle"
  BY DEF R!PaymentFails, R!RunDies, R!Is
<1>3. CASE R!PaymentFails(w)
  BY <1>1, <1>2, <1>3, LeaveFacts, LeaveStep DEF R!PaymentFails
<1>4. CASE R!RunDies(w)
  <2>1. run' = [run EXCEPT ![w] = R!NoRun]
    BY <1>4 DEF R!RunDies
  <2>2. R!NoRun \in RunRow /\ R!NoRun.pc = "idle" /\ R!NoRun.todo = {}
    BY DEF R!NoRun, RunRow
  <2>3. run' \in [Runs -> RunRow] /\ run'[w] = R!NoRun /\ \A v \in Runs \ {w} : run'[v] = run[v]
    BY <2>1, <2>2 DEF RewardTypes
  <2> QED
    BY <1>1, <1>2, <2>2, <2>3, LeaveStep
<1> QED
  BY <1>3, <1>4

\* What the commit of an instalment does to its rank: it is paid, once, and the
\* achievement is stamped if it was the last.
LEMMA PaidOnce ==
  ASSUME RewardsIInv, NEW w \in Runs, run[w].pc = "posted", NEW r, NEW k, run[w].at = <<r, k>>
  PROVE  /\ r \in R!Ranks /\ k \in DOMAIN rank[r].plan /\ rank[r].plan # <<>>
         /\ rank[r].plan[k].paid = 0 /\ rank[r].stamped = FALSE
         /\ run[w].last <=> \A m \in DOMAIN rank[r].plan : m # k => rank[r].plan[m].paid = 1
<1> USE DEF RewardsIInv
<1>1. <<r, k>> \in R!Instalments /\ R!Row(<<r, k>>).paid = 0 /\ (run[w].last <=> R!Others(<<r, k>>) = {})
  BY DEF RunsApart, Pays
<1>2. r \in R!Ranks /\ k \in DOMAIN rank[r].plan
  BY <1>1, InstalmentsAre
<1>3. rank[r].plan # <<>>
  BY <1>2, PlanFacts
<1>4. rank[r].plan[k].paid = 0
  BY <1>1 DEF R!Row
<1>5. /\ \A m \in DOMAIN rank[r].plan : rank[r].plan[m].paid \in {0, 1}
      /\ rank[r].stamped <=> \A m \in DOMAIN rank[r].plan : rank[r].plan[m].paid = 1
  BY <1>2, <1>3 DEF PlansAreExact
<1>6. rank[r].stamped = FALSE
  BY <1>2, <1>4, <1>5, LadderFacts
<1>7. ASSUME NEW m \in DOMAIN rank[r].plan, m # k
      PROVE  <<r, m>> \in R!Others(<<r, k>>) <=> rank[r].plan[m].paid = 0
  <2>1. <<r, m>> \in R!Instalments /\ R!Row(<<r, m>>) = rank[r].plan[m]
    BY <1>2, InstalmentsAre DEF R!Row
  <2> QED
    BY <1>7, <2>1 DEF R!Others
<1>8. \A j \in R!Others(<<r, k>>) : \E m \in DOMAIN rank[r].plan : m # k /\ j = <<r, m>>
  <2>1. ASSUME NEW j \in R!Others(<<r, k>>) PROVE j[2] \in DOMAIN rank[r].plan /\ j[2] # k /\ j = <<r, j[2]>>
    BY <2>1, InstalmentsAre DEF R!Others
  <2> QED
    BY <2>1
<1>9. R!Others(<<r, k>>) = {} <=> \A m \in DOMAIN rank[r].plan : m # k => rank[r].plan[m].paid # 0
  <2>1. ASSUME R!Others(<<r, k>>) = {}, NEW m \in DOMAIN rank[r].plan, m # k PROVE rank[r].plan[m].paid # 0
    BY <1>7, <2>1
  <2>2. ASSUME \A m \in DOMAIN rank[r].plan : m # k => rank[r].plan[m].paid # 0, NEW j \in R!Others(<<r, k>>)
        PROVE  FALSE
    <3>1. PICK m \in DOMAIN rank[r].plan : m # k /\ j = <<r, m>>
      BY <1>8
    <3> QED
      BY <1>7, <2>2, <3>1
  <2> QED
    BY <2>1, <2>2
<1> QED
  BY <1>1, <1>2, <1>3, <1>4, <1>5, <1>6, <1>9

\* The commit.
LEMMA PayStep ==
  ASSUME RewardsIInv, NEW w \in Runs, R!Pay(w)
  PROVE  RewardsIInv'
<1>1. /\ run[w].pc = "posted" /\ R!Leave(w, run[w].at)
      /\ UNCHANGED <<scene, month, setting, active, reach, current, evaluation>>
  BY DEF R!Pay, R!Is, R!world
<1>2. PICK r, k : run[w].at = <<r, k>>
  BY RunFacts DEF RewardsIInv
<1>0. /\ r \in R!Ranks /\ k \in DOMAIN rank[r].plan /\ rank[r].plan # <<>>
      /\ rank[r].plan[k].paid = 0 /\ rank[r].stamped = FALSE
      /\ run[w].last <=> \A m \in DOMAIN rank[r].plan : m # k => rank[r].plan[m].paid = 1
  BY <1>1, <1>2, PaidOnce
<1> DEFINE plan == rank[r].plan
           item == [plan[k] EXCEPT !.paid = @ + 1]
           new == [plan EXCEPT ![k] = item]
           row == [rank[r] EXCEPT !.plan = new, !.stamped = @ \/ run[w].last]
<1>3. /\ r \in R!Ranks /\ k \in DOMAIN plan /\ plan # <<>> /\ plan[k].paid = 0 /\ rank[r].stamped = FALSE
      /\ run[w].last <=> \A m \in DOMAIN plan : m # k => plan[m].paid = 1
  BY <1>0
<1> USE DEF RewardsIInv
<1>4. /\ plan \in Seq(Instalment) /\ rank[r] \in RankRow /\ DOMAIN plan = 1..Len(plan) /\ Len(plan) \in Nat
      /\ IsFiniteSet(DOMAIN plan)
      /\ \A m \in DOMAIN plan : plan[m] \in Instalment /\ plan[m].amount \in Nat
  BY <1>3, LadderFacts, PlanFacts
<1>5. rank' = [rank EXCEPT ![r] = row]
  <2>1. rank' = [rank EXCEPT ![r].plan[k].paid = @ + 1, ![r].stamped = @ \/ run[w].last]
    BY <1>2 DEF R!Pay
  <2>2. rank \in [R!Ranks -> RankRow]
    BY DEF RewardTypes
  <2> DEFINE one == [rank EXCEPT ![r].plan[k].paid = @ + 1]
  <2>3. one[r] = [rank[r] EXCEPT !.plan = new] /\ DOMAIN one = DOMAIN rank
    BY <1>3, <2>2
  <2>4. rank' = [one EXCEPT ![r] = [one[r] EXCEPT !.stamped = @ \/ run[w].last]]
    BY <1>3, <2>1, <2>2
  <2>5. \A q \in R!Ranks : q # r => one[q] = rank[q]
    BY <2>2
  <2>6. row = [one[r] EXCEPT !.stamped = @ \/ run[w].last]
    <3>1. PICK v, m : v \in RankRow /\ v = rank[r] /\ m = new
      BY <1>4
    <3>2. one[r] = [v EXCEPT !.plan = m]
      BY <2>3, <3>1
    <3>3. [v EXCEPT !.plan = m].stamped = v.stamped
      BY DEF RankRow
    <3>4. [v EXCEPT !.plan = m, !.stamped = @ \/ run[w].last]
            = [[v EXCEPT !.plan = m] EXCEPT !.stamped = @ \/ run[w].last]
      BY <3>3 DEF RankRow
    <3> QED
      BY <3>1, <3>2, <3>4
  <2> HIDE DEF one, row
  <2> QED
    BY <1>3, <2>2, <2>3, <2>4, <2>5, <2>6
<1>6. item \in Instalment /\ item.paid = 1 /\ item.amount = plan[k].amount
  <2>1. PICK i : i = plan[k] /\ i \in Instalment /\ i.paid = 0
    BY <1>3, <1>4
  <2>2. [i EXCEPT !.paid = @ + 1] \in Instalment
    BY <2>1 DEF Instalment
  <2>3. [i EXCEPT !.paid = @ + 1].paid = 1 /\ [i EXCEPT !.paid = @ + 1].amount = i.amount
    BY <2>1 DEF Instalment
  <2> QED
    BY <2>1, <2>2, <2>3
<1>7. /\ new \in Seq(Instalment) /\ DOMAIN new = DOMAIN plan /\ new[k] = item
      /\ \A m \in DOMAIN plan : m # k => new[m] = plan[m]
  <2> HIDE DEF item
  <2>1. new \in Seq(Instalment) /\ Len(new) = Len(plan)
    BY <1>3, <1>4, <1>6, ExceptSeq
  <2> QED
    BY <1>3, <1>4, <2>1
<1>8. /\ row \in RankRow /\ row.plan = new /\ (row.stamped <=> run[w].last)
      /\ row.achieved = rank[r].achieved /\ row.outright = rank[r].outright
  <2> HIDE DEF new
  <2>1. rank[r].stamped \/ run[w].last \in BOOLEAN
    BY <1>3, RunFacts
  <2> QED
    BY <1>3, <1>4, <1>7, <2>1, RunFacts DEF RankRow
<1> HIDE DEF plan, item, new, row
<1>9. /\ rank'[r] = row /\ \A q \in R!Ranks \ {r} : rank'[q] = rank[q]
      /\ rank' \in [R!Ranks -> RankRow]
  BY <1>3, <1>5, <1>8 DEF RewardTypes
<1>10. /\ run' \in [Runs -> RunRow] /\ run'[w].pc \in {"idle", "next"} /\ run'[w].todo \subseteq run[w].todo
       /\ \A v \in Runs \ {w} : run'[v] = run[v]
  BY <1>1, LeaveFacts
<1>11. new # <<>> /\ rank[r].plan = plan
  <2>1. k \in DOMAIN new
    BY <1>3, <1>7
  <2> QED
    BY <2>1 DEF plan
<1>12. rank[r].achieved
  BY <1>3, <1>11, LadderFacts DEF RewardedIfAchieved
<1>13. RewardTypes'
  BY <1>1, <1>9, <1>10 DEF RewardTypes
<1>14. \A f \in Evaluations : (Rewards(f)' <=> Rewards(f)) /\ (Rewards(f) => R!Newest(f) \in R!Ranks /\ R!Newest(f) # r)
  <2>1. \A f \in Evaluations : Rewards(f) => rank[R!Newest(f)].plan = <<>>
    BY DEF EvaluationsApart, RewardInHand
  <2>2. \A f \in Evaluations : Rewards(f) => R!Newest(f) \in R!Ranks
    BY LadderFacts DEF Rewards
  <2>3. \A f \in Evaluations : Rewards(f)' <=> Rewards(f)
    BY <1>1 DEF Rewards
  <2> QED
    BY <1>3, <1>11, <2>1, <2>2, <2>3
<1>15. EvaluationsApart'
  <2>1. \A f \in Evaluations : Rewards(f)' => rank'[R!Newest(f)] = rank[R!Newest(f)]
    BY <1>9, <1>14
  <2> QED
    BY <1>1, <1>14, <2>1, ApartKept
<1>16. RewardedIfAchieved'
  <2>1. \A q \in R!Ranks : rank'[q] = rank[q] \/ (rank'[q].achieved /\ rank'[q].plan # <<>>)
    BY <1>8, <1>9, <1>11, <1>12
  <2> QED
    BY <1>1, <1>14, <2>1, RewardedKept
<1>17. PlansAreExact'
  <2> SUFFICES ASSUME NEW q \in R!Ranks, rank'[q].plan # <<>>
               PROVE  /\ rank'[q].outright = "no"
                      /\ SumOver(Amounts(rank'[q].plan), DOMAIN rank'[q].plan) = scene.reward[q]
                      /\ \A m \in DOMAIN rank'[q].plan : rank'[q].plan[m].paid \in {0, 1}
                      /\ rank'[q].stamped <=> \A m \in DOMAIN rank'[q].plan : rank'[q].plan[m].paid = 1
    <3>1. scene' = scene
      BY <1>1
    <3> QED
      BY <3>1 DEF PlansAreExact
  <2>1. CASE q = r
    <3>1. /\ rank[r].outright = "no" /\ SumOver(Amounts(plan), DOMAIN plan) = scene.reward[r]
          /\ \A m \in DOMAIN plan : plan[m].paid \in {0, 1}
      BY <1>3, <1>11 DEF PlansAreExact
    <3>2. rank'[q].plan = new /\ (rank'[q].stamped <=> run[w].last) /\ rank'[q].outright = "no"
      BY <1>8, <1>9, <2>1, <3>1
    <3>3. \A m \in DOMAIN plan : Amounts(new)[m] = Amounts(plan)[m]
      BY <1>6, <1>7 DEF Amounts
    <3>4. SumOver(Amounts(new), DOMAIN new) = scene.reward[r]
      <4>1. PICK K, f, g : K = DOMAIN plan /\ f = Amounts(new) /\ g = Amounts(plan)
        OBVIOUS
      <4>2. IsFiniteSet(K) /\ \A m \in K : f[m] = g[m]
        BY <1>4, <1>11, <3>3, <4>1
      <4>3. SumOver(f, K) = SumOver(g, K)
        BY ONLY <4>2, SumSame
      <4> QED
        BY <1>7, <3>1, <4>1, <4>3
    <3>5. \A m \in DOMAIN new : new[m].paid \in {0, 1}
      BY <1>6, <1>7, <3>1
    <3>6. run[w].last <=> \A m \in DOMAIN new : new[m].paid = 1
      BY <1>3, <1>6, <1>7
    <3> QED
      BY <2>1, <3>2, <3>4, <3>5, <3>6
  <2>2. CASE q # r
    BY <1>9, <2>2 DEF PlansAreExact
  <2> QED
    BY <2>1, <2>2
<1>18. RunsApart'
  <2>1. \A q \in R!Ranks : DOMAIN rank'[q].plan = DOMAIN rank[q].plan
    BY <1>7, <1>8, <1>9, <1>11
  <2>2. R!Instalments' = R!Instalments
    BY <2>1 DEF R!Instalments
  <2>3. ASSUME NEW i \in R!Instalments, i # <<r, k>> PROVE R!Row(i)' = R!Row(i)
    <3>1. i = <<i[1], i[2]>> /\ i[1] \in R!Ranks /\ i[2] \in DOMAIN rank[i[1]].plan
      BY InstalmentsAre
    <3>2. rank'[i[1]].plan[i[2]] = rank[i[1]].plan[i[2]]
      BY <1>7, <1>8, <1>9, <1>11, <2>3, <3>1
    <3> QED
      BY <3>2 DEF R!Row
  <2>4. \A v \in Runs : Pays(v)' => v # w /\ Pays(v) /\ run'[v] = run[v]
    BY <1>10 DEF Pays
  <2>5. \A v \in Runs \ {w} : Pays(v) => run[v].at \in R!Instalments /\ run[v].at # <<r, k>>
    BY <1>1, <1>2 DEF RunsApart, Pays
  <2>6. \A v \in Runs : run'[v].pc # "posted"
    BY <1>1, <1>10 DEF RunsApart
  <2>7. \A v \in Runs : run'[v].pc # "idle" => run'[v].todo \subseteq R!Instalments'
    <3>1. run'[w].todo \subseteq R!Instalments
      BY <1>1, <1>10 DEF RunsApart
    <3> QED
      BY <1>10, <2>2, <3>1 DEF RunsApart
  <2>8. \A v \in Runs : Pays(v)' => run'[v].at \in R!Instalments'
    BY <2>2, <2>4, <2>5
  <2>9. \A v \in Runs, i \in R!Instalments' : Pays(v)' /\ run'[v].at = i => R!Row(i)'.paid = 0
    <3>1. ASSUME NEW v \in Runs, NEW i \in R!Instalments, Pays(v)', run'[v].at = i PROVE R!Row(i)'.paid = 0
      <4>1. Pays(v) /\ run[v].at = i /\ i # <<r, k>>
        BY <2>4, <2>5, <3>1
      <4>2. R!Row(i).paid = 0 /\ R!Row(i)' = R!Row(i)
        BY <2>3, <4>1 DEF RunsApart
      <4> QED
        BY <4>2
    <3> QED
      BY <2>2, <3>1
  <2>10. \A u, v \in Runs : Pays(u)' /\ Pays(v)' /\ run'[u].at = run'[v].at => u = v
    BY <2>4 DEF RunsApart
  <2> QED
    BY <2>6, <2>7, <2>8, <2>9, <2>10 DEF RunsApart
<1>19. LadderIsClimbed'
  <2>1. \A q \in R!Ranks : rank'[q].achieved = rank[q].achieved
    BY <1>8, <1>9
  <2> QED
    BY <1>1, <2>1, LadderKept
<1> QED
  BY <1>13, <1>15, <1>16, <1>17, <1>18, <1>19

-----------------------------------------------------------------------------
(* What is proved of the rewards *)

\* Every step of the ladder and of its rewards keeps the invariant.
LEMMA RewardsStep ==
  ASSUME RewardsIInv, [R!Next]_rewards
  PROVE  RewardsIInv'
<1>1. CASE UNCHANGED rewards
  <2>1. UNCHANGED <<scene, month, setting, active, reach, rank, current, evaluation, run>>
    BY <1>1 DEF rewards
  <2>2. RewardTypes'
    BY <2>1 DEF RewardsIInv, RewardTypes
  <2> QED
    BY <2>1, <2>2, StandsStill DEF RewardsIInv
<1>2. CASE R!NextMonth \/ R!BusinessGrows \/ R!Suspend \/ R!Reinstate \/ R!Reconfigure
  BY <1>2, WorldStep
<1>3. ASSUME NEW e \in Evaluations,
             \/ R!Evaluate(e) \/ R!Achieve(e) \/ R!Schedule(e) \/ R!Credit(e) \/ R!Title(e)
             \/ R!EvaluationDies(e)
      PROVE  RewardsIInv'
  BY <1>3, EvaluateStep, AchieveStep, ScheduleStep, CreditStep, TitleStep, DiesStep
<1>4. ASSUME NEW w \in Runs,
             R!StartRun(w) \/ R!Claim(w) \/ R!Post(w) \/ R!Pay(w) \/ R!PaymentFails(w) \/ R!RunDies(w)
      PROVE  RewardsIInv'
  BY <1>4, StartRunStep, ClaimStep, PostStep, PayStep, FailStep
<1> QED
  BY <1>1, <1>2, <1>3, <1>4 DEF R!Next, R!RunStep

\* The ladder's invariant, of the two side by side.
THEOREM RewardsInvariant == MCSpec => []RewardsIInv
<1>1. MCInit => RewardsIInv
  BY RewardsInit DEF MCInit
<1>2. RewardsIInv /\ [MCNext]_<<part, vars, rewards>> => RewardsIInv'
  BY RewardsStep DEF MCNext
<1> QED
  BY <1>1, <1>2, PTL DEF MCSpec

\* What is paid of a plan is not more than the plan.
LEMMA PaidInPart ==
  ASSUME RewardsIInv, NEW r \in R!Ranks
  PROVE  /\ rank[r].plan # <<>> =>
              R!FoldFunction(LAMBDA i, sum : sum + i.amount, 0, rank[r].plan) = scene.reward[r]
         /\ rank[r].plan # <<>> =>
              R!FoldFunction(LAMBDA i, sum : sum + i.amount * i.paid, 0, rank[r].plan) <= scene.reward[r]
         /\ rank[r].plan = <<>> =>
              R!FoldFunction(LAMBDA i, sum : sum + i.amount * i.paid, 0, rank[r].plan) = 0
         /\ R!FoldFunction(LAMBDA i, sum : sum + i.amount * i.paid, 0, rank[r].plan) \in Int
<1> DEFINE plan == rank[r].plan
<1> USE DEF RewardsIInv
<1>1. /\ IsFiniteSet(DOMAIN plan) /\ (plan = <<>> => DOMAIN plan = {})
      /\ \A k \in DOMAIN plan : plan[k].amount \in Nat /\ plan[k].paid \in Nat
  BY PlanFacts
<1>2. plan # <<>> =>
        /\ SumOver(Amounts(plan), DOMAIN plan) = scene.reward[r]
        /\ \A k \in DOMAIN plan : plan[k].paid \in {0, 1}
  BY DEF PlansAreExact
<1> HIDE DEF plan
<1>3. /\ R!FoldFunction(LAMBDA i, sum : sum + i.amount, 0, plan) = SumOver(Amounts(plan), DOMAIN plan)
      /\ R!FoldFunction(LAMBDA i, sum : sum + i.amount * i.paid, 0, plan) = SumOver(Payments(plan), DOMAIN plan)
  BY <1>1, PlanSums
<1>4. \A k \in DOMAIN plan : Amounts(plan)[k] \in Int /\ Payments(plan)[k] \in Int
  BY <1>1 DEF Amounts, Payments
<1>5. plan # <<>> => SumOver(Payments(plan), DOMAIN plan) <= SumOver(Amounts(plan), DOMAIN plan)
  <2>1. ASSUME plan # <<>>, NEW k \in DOMAIN plan PROVE Payments(plan)[k] <= Amounts(plan)[k]
    BY <1>1, <1>2, <2>1 DEF Amounts, Payments
  <2> QED
    BY <1>1, <1>4, <2>1, SumMonotone
<1>6. plan = <<>> => SumOver(Payments(plan), DOMAIN plan) = 0
  BY <1>1, SumStep
<1>7. SumOver(Payments(plan), DOMAIN plan) \in Int
  BY <1>1, <1>4, SumType
<1> QED
  BY <1>2, <1>3, <1>5, <1>6, <1>7 DEF plan

\* The instalments of a reward sum to it, nothing is paid twice, and whoever
\* pays the last instalment, and nobody before, stamps the achievement.
THEOREM RewardTheorem == MCSpec => []RewardIsPaidAsStamped
<1>1. RewardsIInv => R!RewardIsExact
  <2> SUFFICES ASSUME RewardsIInv, NEW r \in R!Ranks
               PROVE  /\ rank[r].plan # <<>> =>
                           /\ rank[r].outright = "no"
                           /\ R!FoldFunction(LAMBDA i, sum : sum + i.amount, 0, rank[r].plan) = scene.reward[r]
                      /\ R!Paid(r) <= scene.reward[r]
    BY DEF R!RewardIsExact
  <2> DEFINE credited == R!FoldFunction(LAMBDA i, sum : sum + i.amount * i.paid, 0, rank[r].plan)
  <2>1. R!Paid(r) = (IF rank[r].outright = "no" THEN 0 ELSE scene.reward[r]) + credited
    BY DEF R!Paid
  <2>2. /\ rank[r].plan # <<>> =>
             R!FoldFunction(LAMBDA i, sum : sum + i.amount, 0, rank[r].plan) = scene.reward[r]
        /\ rank[r].plan # <<>> => credited <= scene.reward[r]
        /\ rank[r].plan = <<>> => credited = 0
        /\ credited \in Int
    BY PaidInPart
  <2>3. rank[r].plan # <<>> => rank[r].outright = "no"
    BY DEF RewardsIInv, PlansAreExact
  <2>4. scene.reward[r] \in Nat
    BY LadderFacts DEF RewardsIInv
  <2>5. PICK p, t : p = credited /\ t = scene.reward[r]
    OBVIOUS
  <2>6. /\ R!Paid(r) = (IF rank[r].outright = "no" THEN 0 ELSE t) + p /\ t \in Nat /\ p \in Int
        /\ rank[r].plan # <<>> => p <= t /\ rank[r].outright = "no"
        /\ rank[r].plan = <<>> => p = 0
    BY <2>1, <2>2, <2>3, <2>4, <2>5
  <2>7. R!Paid(r) <= t
    BY ONLY <2>6
  <2>8. R!Paid(r) <= scene.reward[r]
    BY <2>5, <2>7
  <2> QED
    BY <2>2, <2>3, <2>8
<1>2. RewardsIInv => R!StampedIffPaid
  <2> SUFFICES ASSUME RewardsIInv, NEW r \in R!Ranks, rank[r].achieved
               PROVE  /\ rank[r].plan # <<>> =>
                           (rank[r].stamped <=> \A k \in DOMAIN rank[r].plan : rank[r].plan[k].paid > 0)
                      /\ rank[r].plan = <<>> /\ scene.reward[r] > 0 /\ ~R!Working(r) /\ ~scene.dies =>
                           rank[r].stamped /\ rank[r].outright = "entered"
    BY DEF R!StampedIffPaid
  <2>1. ASSUME rank[r].plan # <<>>
        PROVE  rank[r].stamped <=> \A k \in DOMAIN rank[r].plan : rank[r].plan[k].paid > 0
    <3>1. /\ \A k \in DOMAIN rank[r].plan : rank[r].plan[k].paid \in {0, 1}
          /\ rank[r].stamped <=> \A k \in DOMAIN rank[r].plan : rank[r].plan[k].paid = 1
      BY <2>1 DEF RewardsIInv, PlansAreExact
    <3>2. \A k \in DOMAIN rank[r].plan : rank[r].plan[k].paid = 1 <=> rank[r].plan[k].paid > 0
      BY <3>1
    <3> QED
      BY <3>1, <3>2
  <2>2. ASSUME rank[r].plan = <<>>, scene.reward[r] > 0, ~R!Working(r), ~scene.dies
        PROVE  rank[r].stamped /\ rank[r].outright = "entered"
    <3>1. ~\E e \in Evaluations : Rewards(e) /\ R!Newest(e) = r
      BY <2>2 DEF R!Working, R!In, Rewards
    <3> QED
      BY <2>2, <3>1 DEF RewardsIInv, RewardedIfAchieved
  <2> QED
    BY <2>1, <2>2
<1> QED
  BY <1>1, <1>2, RewardsInvariant, PTL DEF RewardIsPaidAsStamped

\* A member bears the highest rank that was achieved, while evaluations do not
\* overlap or stop in the middle.
THEOREM CurrentTheorem == MCSpec => []CurrentIsHighest
<1>1. RewardsIInv => CurrentIsHighest
  <2> SUFFICES ASSUME RewardsIInv, scene.apart, ~scene.dies, \A e \in Evaluations : evaluation[e].pc = "idle"
               PROVE  current = R!Max({r \in R!Ranks : rank[r].achieved} \union {0})
    BY DEF CurrentIsHighest, R!CurrentIsHighest, R!In
  <2> DEFINE S == {r \in R!Ranks : rank[r].achieved} \union {0}
  <2>1. Highest
    BY DEF RewardsIInv, LadderIsClimbed
  <2>2. current \in Nat /\ (current # 0 => current \in R!Ranks)
    BY EarningsAssumption DEF RewardsIInv, RewardTypes, R!Ranks
  <2>3. \A r \in R!Ranks : r \in Nat
    BY LadderFacts DEF RewardsIInv
  <2>4. S \in SUBSET Nat
    BY <2>3
  <2>5. current \in S /\ \A y \in S : y <= current
    BY <2>1, <2>2, <2>3 DEF Highest
  <2> HIDE DEF S
  <2>6. R!Max(S) = current
    BY <2>4, <2>5, GreatestIsMax
  <2> QED
    BY <2>6 DEF S
<1> QED
  BY <1>1, RewardsInvariant, PTL
=============================================================================

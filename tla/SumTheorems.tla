---------------------------- MODULE SumTheorems ----------------------------
(***************************************************************************)
(* Facts about SumFunctionOnSet(f, S), the sum of f[x] for x in a finite   *)
(* set S.  The library defines it by removing one chosen element after the *)
(* other; here it is shown to be what a sum is: it is typed, depends on    *)
(* the values in S only, and may be taken apart at any element of S.       *)
(* Induction over S is by a minimal counterexample among its subsets.      *)
(***************************************************************************)
EXTENDS Integers, FiniteSets, Functions, FiniteSetTheorems, WellFoundedInduction, TLAPS

\* A non-empty set of subsets of a finite set has a minimal element.
LEMMA MinimalSubset ==
    ASSUME NEW S, IsFiniteSet(S), NEW T \in SUBSET (SUBSET S), T # {}
    PROVE  \E m \in T : \A t \in T : t \subseteq m => t = m
<1>1. IsWellFoundedOn(StrictSubsetOrdering(S), SUBSET S)
  BY FS_StrictSubsetOrderingWellFounded, FS_FiniteSubsetsOfFinite
<1>2. PICK m \in T : \A t \in T : <<t, m>> \notin StrictSubsetOrdering(S)
  BY <1>1, WFMin
<1>3. \A t \in T : t \subseteq m => t = m
  BY <1>2 DEF StrictSubsetOrdering
<1> QED
  BY <1>3

\* The element that is summed first, and what the summing function satisfies.
Chosen(s) == CHOOSE x \in s : TRUE
Sums(f, S, g) == g = [s \in SUBSET S |->
    IF s = {} THEN 0 ELSE f[Chosen(s)] + g[s \ {Chosen(s)}]]
Summing(f, S) == CHOOSE g : Sums(f, S, g)

\* A non-empty set has a chosen element, and one less without it.
LEMMA ChosenIn == ASSUME NEW s, s # {}
                  PROVE  Chosen(s) \in s /\ s \ {Chosen(s)} \subseteq s /\ s \ {Chosen(s)} # s
BY DEF Chosen

\* The sum is the value of the summing function.
LEMMA SumIsSumming ==
    ASSUME NEW f, NEW S PROVE SumFunctionOnSet(f, S) = Summing(f, S)[S]
BY DEF SumFunctionOnSet, FoldFunctionOnSet, MapThenFoldSet, Summing, Sums, Chosen

\* Two summing functions agree where both are defined.
LEMMA SummingAgrees ==
    ASSUME NEW f, NEW S, IsFiniteSet(S), NEW U \in SUBSET S,
           NEW g, Sums(f, S, g), NEW h, Sums(f, U, h)
    PROVE  g[U] = h[U]
<1> DEFINE T == {s \in SUBSET U : g[s] # h[s]}
<1> SUFFICES ASSUME T # {} PROVE FALSE
  OBVIOUS
<1>1. T \in SUBSET (SUBSET S)
  OBVIOUS
<1>2. PICK m \in T : \A t \in T : t \subseteq m => t = m
  <2> HIDE DEF T
  <2> QED BY <1>1, MinimalSubset
<1>3. m \in SUBSET U /\ m \in SUBSET S
  BY <1>2
<1>4. m # {}
  BY <1>2, <1>3 DEF Sums
<1>5. g[m \ {Chosen(m)}] = h[m \ {Chosen(m)}]
  BY <1>2, <1>3, <1>4, ChosenIn
<1>6. g[m] = f[Chosen(m)] + g[m \ {Chosen(m)}]
  BY <1>3, <1>4 DEF Sums
<1>7. h[m] = f[Chosen(m)] + h[m \ {Chosen(m)}]
  BY <1>3, <1>4 DEF Sums
<1> QED
  BY <1>2, <1>5, <1>6, <1>7

\* A summing function of S is one of every subset.
LEMMA SummingBelow ==
    ASSUME NEW f, NEW S, NEW U \in SUBSET S, NEW g, Sums(f, S, g)
    PROVE  Sums(f, U, [s \in SUBSET U |-> g[s]])
<1> DEFINE h == [s \in SUBSET U |-> g[s]]
<1>1. ASSUME NEW s \in SUBSET U
      PROVE  h[s] = IF s = {} THEN 0 ELSE f[Chosen(s)] + h[s \ {Chosen(s)}]
  <2>1. s \in SUBSET S /\ s \ {Chosen(s)} \in SUBSET U
    OBVIOUS
  <2>2. g[s] = IF s = {} THEN 0 ELSE f[Chosen(s)] + g[s \ {Chosen(s)}]
    BY <2>1 DEF Sums
  <2> QED
    BY <2>1, <2>2
<1>2. h = [s \in SUBSET U |-> h[s]]
  OBVIOUS
<1> HIDE DEF h
<1>3. h = [s \in SUBSET U |-> IF s = {} THEN 0 ELSE f[Chosen(s)] + h[s \ {Chosen(s)}]]
  BY <1>1, <1>2
<1> QED
  BY <1>3 DEF Sums, h

\* The summing function exists, so the recursive definition means what it says.
LEMMA SummingExists ==
    ASSUME NEW f, NEW S, IsFiniteSet(S) PROVE Sums(f, S, Summing(f, S))
<1> DEFINE T == {s \in SUBSET S : ~\E g : Sums(f, s, g)}
<1>1. ASSUME T # {} PROVE FALSE
  <2>1. PICK m \in T : \A t \in T : t \subseteq m => t = m
    <3>1. T \in SUBSET (SUBSET S)
      OBVIOUS
    <3> HIDE DEF T
    <3> QED BY <1>1, <3>1, MinimalSubset
  <2>2. m \in SUBSET S
    BY <2>1
  <2> DEFINE v(s) == Summing(f, s)[s]
  <2>3. ASSUME NEW t \in SUBSET m, t # m
        PROVE  v(t) = IF t = {} THEN 0 ELSE f[Chosen(t)] + v(t \ {Chosen(t)})
    <3> DEFINE u == t \ {Chosen(t)}
    <3>1. t \in SUBSET S /\ t \notin T /\ u \in SUBSET t /\ u \in SUBSET m
      BY <2>1, <2>2, <2>3
    <3>2. IsFiniteSet(t)
      BY <3>1, FS_Subset
    <3>3. \E g : Sums(f, t, g)
      BY <3>1
    <3>4. Sums(f, t, Summing(f, t))
      BY <3>3 DEF Summing
    <3>5. Sums(f, u, Summing(f, u))
      BY <3>1, <3>4, SummingBelow DEF Summing
    <3>6. Summing(f, t)[u] = Summing(f, u)[u]
      BY <3>1, <3>2, <3>4, <3>5, SummingAgrees
    <3>7. Summing(f, t)[t] = IF t = {} THEN 0 ELSE f[Chosen(t)] + Summing(f, t)[u]
      BY <3>4 DEF Sums
    <3> QED
      BY <3>6, <3>7
  <2> HIDE DEF v
  <2> DEFINE h == [s \in SUBSET m |-> IF s = {} THEN 0 ELSE f[Chosen(s)] + v(s \ {Chosen(s)})]
  <2>4. \A t \in SUBSET m : t # m => h[t] = v(t)
    BY <2>3
  <2>5. \A s \in SUBSET m : s # {} => h[s] = f[Chosen(s)] + h[s \ {Chosen(s)}]
    <3> SUFFICES ASSUME NEW s \in SUBSET m, s # {}
                 PROVE  h[s] = f[Chosen(s)] + h[s \ {Chosen(s)}]
      OBVIOUS
    <3>1. s \ {Chosen(s)} \in SUBSET m /\ s \ {Chosen(s)} # m
      BY ChosenIn
    <3>2. h[s \ {Chosen(s)}] = v(s \ {Chosen(s)})
      BY <2>4, <3>1
    <3> QED
      BY <3>2
  <2>6. h[{}] = 0 /\ h = [s \in SUBSET m |-> h[s]]
    OBVIOUS
  <2> HIDE DEF h
  <2>7. h = [s \in SUBSET m |-> IF s = {} THEN 0 ELSE f[Chosen(s)] + h[s \ {Chosen(s)}]]
    BY <2>5, <2>6
  <2> QED
    BY <2>1, <2>7 DEF Sums
<1>2. \E g : Sums(f, S, g)
  BY <1>1
<1> QED
  BY <1>2 DEF Summing

\* The empty sum, and the sum without its chosen element.
LEMMA SumChosen ==
    ASSUME NEW f, NEW S, IsFiniteSet(S)
    PROVE  /\ S = {} => SumFunctionOnSet(f, S) = 0
           /\ S # {} => SumFunctionOnSet(f, S) =
                          f[Chosen(S)] + SumFunctionOnSet(f, S \ {Chosen(S)})
<1> DEFINE U == S \ {Chosen(S)}
<1>1. IsFiniteSet(U) /\ U \in SUBSET S
  BY FS_Subset
<1>2. Sums(f, S, Summing(f, S)) /\ Sums(f, U, Summing(f, U))
  BY <1>1, SummingExists
<1>3. Summing(f, S)[U] = Summing(f, U)[U]
  BY <1>1, <1>2, SummingAgrees
<1>4. Summing(f, S)[S] = IF S = {} THEN 0 ELSE f[Chosen(S)] + Summing(f, S)[U]
  BY <1>2 DEF Sums
<1> QED
  BY <1>3, <1>4, SumIsSumming

\* Sums of natural numbers are natural numbers.
LEMMA SumNat ==
    ASSUME NEW f, NEW S, IsFiniteSet(S), \A x \in S : f[x] \in Nat
    PROVE  SumFunctionOnSet(f, S) \in Nat
<1> DEFINE T == {s \in SUBSET S : SumFunctionOnSet(f, s) \notin Nat}
<1>1. ASSUME T # {} PROVE FALSE
  <2>1. PICK m \in T : \A t \in T : t \subseteq m => t = m
    <3>1. T \in SUBSET (SUBSET S)
      OBVIOUS
    <3> HIDE DEF T
    <3> QED BY <1>1, <3>1, MinimalSubset
  <2>2. m \in SUBSET S /\ IsFiniteSet(m) /\ SumFunctionOnSet(f, m) \notin Nat
    BY <2>1, FS_Subset
  <2>3. m # {}
    BY <2>2, SumChosen
  <2>4. SumFunctionOnSet(f, m \ {Chosen(m)}) \in Nat
    BY <2>1, <2>2, <2>3, ChosenIn
  <2> QED
    BY <2>2, <2>3, <2>4, SumChosen, ChosenIn
<1> QED
  BY <1>1

\* A sum may be taken apart at any of its elements.
LEMMA SumRemove ==
    ASSUME NEW f, NEW S, IsFiniteSet(S), \A y \in S : f[y] \in Nat, NEW x \in S
    PROVE  SumFunctionOnSet(f, S) = f[x] + SumFunctionOnSet(f, S \ {x})
<1> DEFINE Sum(s) == SumFunctionOnSet(f, s)
           T == {s \in SUBSET S : \E y \in s : Sum(s) # f[y] + Sum(s \ {y})}
<1>0. \A s \in SUBSET S : IsFiniteSet(s) /\ Sum(s) \in Nat
  BY SumNat, FS_Subset
<1>1. ASSUME T # {} PROVE FALSE
  <2>1. PICK m \in T : \A t \in T : t \subseteq m => t = m
    <3>1. T \in SUBSET (SUBSET S)
      OBVIOUS
    <3> HIDE DEF T
    <3> QED BY <1>1, <3>1, MinimalSubset
  <2>2. PICK y \in m : Sum(m) # f[y] + Sum(m \ {y})
    BY <2>1
  <2> DEFINE z == Chosen(m)
             r == (m \ {y}) \ {z}
  <2>3. /\ m \in SUBSET S /\ m # {} /\ z \in m
        /\ m \ {z} \in SUBSET S /\ m \ {y} \in SUBSET S /\ r \in SUBSET S
    BY <2>1, <2>2, ChosenIn
  <2>4. Sum(m) = f[z] + Sum(m \ {z})
    BY <1>0, <2>3, SumChosen
  <2>5. y # z
    BY <2>2, <2>4
  <2>6. Sum(m \ {z}) = f[y] + Sum(r)
    <3>1. m \ {z} \notin T /\ y \in m \ {z} /\ (m \ {z}) \ {y} = r
      BY <2>1, <2>3, <2>5
    <3> QED
      BY <2>3, <3>1
  <2>7. Sum(m \ {y}) = f[z] + Sum(r)
    <3>1. m \ {y} \notin T /\ z \in m \ {y}
      BY <2>1, <2>3, <2>5
    <3> QED
      BY <2>3, <3>1
  <2>8. f[y] \in Nat /\ f[z] \in Nat /\ Sum(r) \in Nat
    BY <1>0, <2>2, <2>3
  <2> HIDE DEF z, r, Sum
  <2> QED
    BY <2>2, <2>4, <2>6, <2>7, <2>8
<1> QED
  BY <1>1

\* A sum depends on the values in its set only.
LEMMA SumSame ==
    ASSUME NEW f, NEW g, NEW S, IsFiniteSet(S), \A x \in S : f[x] = g[x]
    PROVE  SumFunctionOnSet(f, S) = SumFunctionOnSet(g, S)
<1> DEFINE T == {s \in SUBSET S : SumFunctionOnSet(f, s) # SumFunctionOnSet(g, s)}
<1>1. ASSUME T # {} PROVE FALSE
  <2>1. PICK m \in T : \A t \in T : t \subseteq m => t = m
    <3>1. T \in SUBSET (SUBSET S)
      OBVIOUS
    <3> HIDE DEF T
    <3> QED BY <1>1, <3>1, MinimalSubset
  <2>2. m \in SUBSET S /\ IsFiniteSet(m) /\ SumFunctionOnSet(f, m) # SumFunctionOnSet(g, m)
    BY <2>1, FS_Subset
  <2>3. m # {}
    BY <2>2, SumChosen
  <2>4. SumFunctionOnSet(f, m \ {Chosen(m)}) = SumFunctionOnSet(g, m \ {Chosen(m)})
    BY <2>1, <2>2, <2>3, ChosenIn
  <2> QED
    BY <2>2, <2>3, <2>4, SumChosen, ChosenIn
<1> QED
  BY <1>1

\* A sum of zeroes is zero.
LEMMA SumZero ==
    ASSUME NEW f, NEW S, IsFiniteSet(S), \A x \in S : f[x] = 0
    PROVE  SumFunctionOnSet(f, S) = 0
<1> DEFINE T == {s \in SUBSET S : SumFunctionOnSet(f, s) # 0}
<1>1. ASSUME T # {} PROVE FALSE
  <2>1. PICK m \in T : \A t \in T : t \subseteq m => t = m
    <3>1. T \in SUBSET (SUBSET S)
      OBVIOUS
    <3> HIDE DEF T
    <3> QED BY <1>1, <3>1, MinimalSubset
  <2>2. m \in SUBSET S /\ IsFiniteSet(m) /\ SumFunctionOnSet(f, m) # 0
    BY <2>1, FS_Subset
  <2>3. m # {}
    BY <2>2, SumChosen
  <2>4. SumFunctionOnSet(f, m \ {Chosen(m)}) = 0
    BY <2>1, <2>2, <2>3, ChosenIn
  <2> QED
    BY <2>2, <2>3, <2>4, SumChosen, ChosenIn
<1> QED
  BY <1>1

\* A sum over one element more, and over one element.
LEMMA SumAdd ==
    ASSUME NEW f, NEW S, IsFiniteSet(S), NEW x, x \notin S, \A y \in S \cup {x} : f[y] \in Nat
    PROVE  SumFunctionOnSet(f, S \cup {x}) = SumFunctionOnSet(f, S) + f[x]
<1> DEFINE U == S \cup {x}
<1>1. IsFiniteSet(U) /\ x \in U /\ U \ {x} = S /\ \A y \in U : f[y] \in Nat
  BY FS_AddElement
<1> HIDE DEF U
<1>2. SumFunctionOnSet(f, U) = f[x] + SumFunctionOnSet(f, S)
  BY <1>1, SumRemove
<1>3. SumFunctionOnSet(f, S) \in Nat /\ f[x] \in Nat
  BY <1>1, SumNat
<1> QED
  BY <1>2, <1>3 DEF U

LEMMA SumSingle ==
    ASSUME NEW f, NEW x, f[x] \in Nat PROVE SumFunctionOnSet(f, {x}) = f[x]
<1>1. IsFiniteSet({}) /\ SumFunctionOnSet(f, {}) = 0
  BY FS_EmptySet, SumZero
<1>2. SumFunctionOnSet(f, {} \cup {x}) = 0 + f[x]
  BY <1>1, SumAdd
<1>3. {} \cup {x} = {x}
  OBVIOUS
<1> QED
  BY <1>2, <1>3

\* What a sum is at most when one value is known.
LEMMA SumBelow ==
    ASSUME NEW f, NEW S, IsFiniteSet(S), \A y \in S : f[y] \in Nat,
           NEW x, NEW n \in Nat, x \in S => f[x] = n
    PROVE  SumFunctionOnSet(f, S) <= n + SumFunctionOnSet(f, S \ {x})
<1>1. IsFiniteSet(S \ {x}) /\ \A y \in S \ {x} : f[y] \in Nat
  BY FS_Subset
<1>2. SumFunctionOnSet(f, S) \in Nat /\ SumFunctionOnSet(f, S \ {x}) \in Nat
  BY <1>1, SumNat
<1>3. CASE x \in S
  BY <1>2, <1>3, SumRemove
<1>4. CASE x \notin S
  <2>1. S \ {x} = S
    BY <1>4
  <2> QED
    BY <1>2, <2>1
<1> QED
  BY <1>3, <1>4

=============================================================================

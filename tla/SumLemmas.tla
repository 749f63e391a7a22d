------------------------------ MODULE SumLemmas ------------------------------
(***************************************************************************)
(* Sums of functions over finite sets, and the induction they rest on.     *)
(* The induction theorems of the library take the induction hypothesis as  *)
(* an operator; here it is a set of sets, or of numbers, so that it can be *)
(* instantiated in a proof by cases.                                       *)
(***************************************************************************)
EXTENDS FiniteSetTheorems, TLAPS

\* Among sets of subsets of a finite set, every nonempty one has a minimal member.
LEMMA MinimalSubset ==
    ASSUME NEW S, IsFiniteSet(S), NEW Bad \in SUBSET SUBSET S, Bad # {}
    PROVE  \E T \in Bad : \A U \in Bad : U \subseteq T => U = T
<1>1. IsWellFoundedOn(StrictSubsetOrdering(S), SUBSET S)
    BY FS_StrictSubsetOrderingWellFounded, FS_FiniteSubsetsOfFinite
<1>2. PICK T \in Bad : \A U \in Bad : ~ (<<U, T>> \in StrictSubsetOrdering(S))
    BY <1>1, WFMin
<1> QED
    BY <1>2 DEF StrictSubsetOrdering

UpTo(S, n) == {i \in S : i <= n}

\* Every nonempty set of natural numbers has a least member.
LEMMA LeastNumber ==
    ASSUME NEW Bad \in SUBSET Nat, Bad # {}
    PROVE  \E m \in Bad : \A n \in Bad : m <= n
<1>1. PICK b \in Bad : b \in Nat
    OBVIOUS
<1> DEFINE Parts == {UpTo(Bad, n) : n \in UpTo(Bad, b)}
<1>2. IsFiniteSet(UpTo(Bad, b))
    <2>1. UpTo(Bad, b) \in SUBSET Nat /\ \A i \in UpTo(Bad, b) : i <= b
        BY DEF UpTo
    <2> QED
        BY <1>1, <2>1, FS_BoundedSetOfNaturals
<1>3. Parts # {} /\ Parts \in SUBSET SUBSET UpTo(Bad, b)
    <2>1. b \in UpTo(Bad, b)
        BY <1>1 DEF UpTo
    <2>2. ASSUME NEW n \in UpTo(Bad, b) PROVE UpTo(Bad, n) \subseteq UpTo(Bad, b)
        <3>1. n \in Nat /\ n <= b
            BY DEF UpTo
        <3>2. ASSUME NEW i \in UpTo(Bad, n) PROVE i \in UpTo(Bad, b)
            <4>1. i \in Bad /\ i \in Nat /\ i <= n
                BY DEF UpTo
            <4>2. i <= b
                BY <1>1, <3>1, <4>1
            <4> QED
                BY <4>1, <4>2 DEF UpTo
        <3> QED
            BY <3>2
    <2> QED
        BY <2>1, <2>2
<1>4. PICK T \in Parts : \A U \in Parts : U \subseteq T => U = T
    <2> HIDE DEF Parts
    <2> QED
        BY <1>2, <1>3, MinimalSubset
<1>5. PICK m \in UpTo(Bad, b) : T = UpTo(Bad, m)
    BY <1>4
<1>6. ASSUME NEW n \in Bad, ~ (m <= n) PROVE FALSE
    <2>1. m \in Bad /\ m \in Nat /\ n \in Nat /\ m <= b
        BY DEF UpTo
    <2>2. n < m /\ n <= b
        BY <1>1, <1>6, <2>1
    <2>3. n \in UpTo(Bad, b) /\ m \in UpTo(Bad, m) /\ m \notin UpTo(Bad, n)
        BY <2>1, <2>2 DEF UpTo
    <2>4. ASSUME NEW i \in UpTo(Bad, n) PROVE i \in UpTo(Bad, m)
        <3>1. i \in Bad /\ i \in Nat /\ i <= n
            BY DEF UpTo
        <3>2. i <= m
            BY <2>1, <2>2, <3>1
        <3> QED
            BY <3>1, <3>2 DEF UpTo
    <2> QED
        BY <1>4, <1>5, <2>3, <2>4
<1> QED
    BY <1>5, <1>6 DEF UpTo

\* Induction on natural numbers.
LEMMA NumberInduction ==
    ASSUME NEW Good, 0 \in Good, \A n \in Nat : n \in Good => n + 1 \in Good
    PROVE  Nat \subseteq Good
<1> SUFFICES ASSUME Nat \ Good # {} PROVE FALSE
    OBVIOUS
<1>1. PICK m \in Nat \ Good : \A n \in Nat \ Good : m <= n
    BY LeastNumber
<1>2. m # 0 /\ m - 1 \in Nat /\ m - 1 \in Good
    BY <1>1
<1> QED
    BY <1>1, <1>2

\* Induction on the subsets of a finite set.
LEMMA SubsetInduction ==
    ASSUME NEW S, IsFiniteSet(S), NEW Good, {} \in Good,
           \A T \in SUBSET S : \A x \in T : T \ {x} \in Good => T \in Good
    PROVE  SUBSET S \subseteq Good
<1> DEFINE Bad == (SUBSET S) \ Good
<1> SUFFICES ASSUME Bad # {} PROVE FALSE
    OBVIOUS
<1>1. Bad \in SUBSET SUBSET S
    OBVIOUS
<1>2. PICK T \in Bad : \A U \in Bad : U \subseteq T => U = T
    <2> HIDE DEF Bad
    <2> QED
        BY <1>1, MinimalSubset
<1>3. T # {} /\ T \in SUBSET S
    BY <1>2
<1>4. PICK x : x \in T
    BY <1>3
<1>5. T \ {x} \in SUBSET S /\ T \ {x} # T /\ T \ {x} \subseteq T
    BY <1>3, <1>4
<1>6. T \ {x} \in Good
    BY <1>2, <1>5
<1> QED
    BY <1>2, <1>3, <1>4, <1>6
-----------------------------------------------------------------------------
Pick(s) == CHOOSE x \in s : TRUE

\* g sums up f over every subset of T.
Sums(g, f, T) ==
    g = [s \in SUBSET T |-> IF s = {} THEN 0 ELSE f[Pick(s)] + g[s \ {Pick(s)}]]

LEMMA SumIs ==
    ASSUME NEW f, NEW S
    PROVE  SumFunctionOnSet(f, S) = (CHOOSE g : Sums(g, f, S))[S]
BY DEF SumFunctionOnSet, FoldFunctionOnSet, MapThenFoldSet, Sums, Pick

\* What such a function is for one set.
LEMMA SumsAt ==
    ASSUME NEW f, NEW T, NEW g, Sums(g, f, T), NEW s \in SUBSET T
    PROVE  /\ s = {} => g[s] = 0
           /\ s # {} => /\ Pick(s) \in s
                        /\ s \ {Pick(s)} \in SUBSET T
                        /\ g[s] = f[Pick(s)] + g[s \ {Pick(s)}]
<1>1. s # {} => Pick(s) \in s
    BY DEF Pick
<1> QED
    BY <1>1 DEF Sums

\* Two of them agree where both are defined.
LEMMA SumsAgree ==
    ASSUME NEW f, NEW T, IsFiniteSet(T), NEW U \in SUBSET T,
           NEW g, Sums(g, f, T), NEW h, Sums(h, f, U)
    PROVE  \A s \in SUBSET U : g[s] = h[s]
<1> DEFINE Bad == {s \in SUBSET U : g[s] # h[s]}
<1> SUFFICES ASSUME Bad # {} PROVE FALSE
    OBVIOUS
<1>1. IsFiniteSet(U)
    BY FS_Subset
<1>2. PICK s \in Bad : \A r \in Bad : r \subseteq s => r = s
    <2>1. Bad \in SUBSET SUBSET U
        OBVIOUS
    <2> HIDE DEF Bad
    <2> QED
        BY <1>1, <2>1, MinimalSubset
<1>3. s # {} /\ Pick(s) \in s
    BY <1>2, SumsAt
<1>4. g[s \ {Pick(s)}] = h[s \ {Pick(s)}]
    BY <1>2, <1>3
<1>5. g[s] = f[Pick(s)] + g[s \ {Pick(s)}] /\ h[s] = f[Pick(s)] + h[s \ {Pick(s)}]
    BY <1>2, <1>3, SumsAt
<1> QED
    BY <1>2, <1>4, <1>5

\* There is one.
LEMMA SumsExist ==
    ASSUME NEW f, NEW S, IsFiniteSet(S)
    PROVE  \E g : Sums(g, f, S)
<1> DEFINE Bad == {T \in SUBSET S : ~ \E g : Sums(g, f, T)}
<1> SUFFICES ASSUME Bad # {} PROVE FALSE
    OBVIOUS
<1>1. PICK T \in Bad : \A U \in Bad : U \subseteq T => U = T
    <2>1. Bad \in SUBSET SUBSET S
        OBVIOUS
    <2> HIDE DEF Bad
    <2> QED
        BY <2>1, MinimalSubset
<1>2. \A U \in SUBSET T : U # T => \E g : Sums(g, f, U)
    BY <1>1
<1> DEFINE G(U) == CHOOSE g : Sums(g, f, U)
           g == [s \in SUBSET T |->
                    IF s # T THEN G(s)[s]
                    ELSE IF T = {} THEN 0 ELSE f[Pick(T)] + G(T \ {Pick(T)})[T \ {Pick(T)}]]
<1>3. \A U \in SUBSET T : U # T => Sums(G(U), f, U)
    BY <1>2
<1> HIDE DEF G
<1>4. ASSUME NEW s \in SUBSET T
      PROVE  g[s] = IF s = {} THEN 0 ELSE f[Pick(s)] + g[s \ {Pick(s)}]
    <2>1. s # {} => Pick(s) \in s
        BY DEF Pick
    <2>2. CASE s = T
        BY <2>1, <2>2
    <2>3. CASE s # T /\ s = {}
        BY <1>3, <2>3, SumsAt
    <2>4. CASE s # T /\ s # {}
        <3> DEFINE r == s \ {Pick(s)}
        <3>1. r \in SUBSET s /\ r # T /\ r \in SUBSET T
            BY <2>1, <2>4
        <3>2. G(s)[s] = f[Pick(s)] + G(s)[r]
            BY <1>3, <2>4, SumsAt
        <3>3. IsFiniteSet(s)
            BY <1>1, FS_Subset
        <3>4. G(s)[r] = G(r)[r]
            <4>1. Sums(G(s), f, s) /\ Sums(G(r), f, r)
                BY <1>3, <2>4, <3>1
            <4>2. \A q \in SUBSET r : G(s)[q] = G(r)[q]
                BY <3>1, <3>3, <4>1, SumsAgree
            <4> QED
                BY <4>2
        <3> QED
            BY <2>4, <3>1, <3>2, <3>4
    <2> QED
        BY <2>2, <2>3, <2>4
<1>5. Sums(g, f, T)
    BY <1>4 DEF Sums
<1> QED
    BY <1>1, <1>5

\* The sum over no element is 0.
LEMMA SumOfNone ==
    ASSUME NEW f
    PROVE  SumFunctionOnSet(f, {}) = 0
<1> DEFINE g == CHOOSE h : Sums(h, f, {})
<1>1. Sums(g, f, {})
    BY SumsExist, FS_EmptySet
<1>2. SumFunctionOnSet(f, {}) = g[{}]
    BY SumIs
<1> HIDE DEF g
<1>3. {} \in SUBSET {}
    OBVIOUS
<1> QED
    BY <1>1, <1>2, <1>3, SumsAt

\* The sum over a nonempty set, by the element that the definition picks.
LEMMA SumByPick ==
    ASSUME NEW f, NEW S, IsFiniteSet(S), S # {}
    PROVE  /\ Pick(S) \in S
           /\ SumFunctionOnSet(f, S) = f[Pick(S)] + SumFunctionOnSet(f, S \ {Pick(S)})
<1> DEFINE R == S \ {Pick(S)}
           g == CHOOSE k : Sums(k, f, S)
           h == CHOOSE k : Sums(k, f, R)
<1>1. R \in SUBSET S /\ IsFiniteSet(R)
    BY FS_Subset
<1>2. Sums(g, f, S) /\ Sums(h, f, R)
    BY <1>1, SumsExist
<1>3. SumFunctionOnSet(f, S) = g[S] /\ SumFunctionOnSet(f, R) = h[R]
    BY SumIs
<1> HIDE DEF g, h
<1>4. Pick(S) \in S /\ g[S] = f[Pick(S)] + g[R]
    BY <1>2, SumsAt
<1>5. g[R] = h[R]
    <2> HIDE DEF R
    <2>1. \A s \in SUBSET R : g[s] = h[s]
        BY <1>1, <1>2, SumsAgree
    <2> QED
        BY <2>1
<1> QED
    BY <1>3, <1>4, <1>5

\* The sum over a set, by any of its elements.
LEMMA SumByElement ==
    ASSUME NEW S, IsFiniteSet(S), NEW f, \A x \in S : f[x] \in Int
    PROVE  /\ SumFunctionOnSet(f, S) \in Int
           /\ \A x \in S : SumFunctionOnSet(f, S) = f[x] + SumFunctionOnSet(f, S \ {x})
<1> DEFINE Fine(T) ==
               /\ SumFunctionOnSet(f, T) \in Int
               /\ \A x \in T : SumFunctionOnSet(f, T) = f[x] + SumFunctionOnSet(f, T \ {x})
           Bad == {T \in SUBSET S : ~ Fine(T)}
<1> SUFFICES ASSUME Bad # {} PROVE FALSE
    OBVIOUS
<1>1. PICK T \in Bad : \A U \in Bad : U \subseteq T => U = T
    <2>1. Bad \in SUBSET SUBSET S
        OBVIOUS
    <2> HIDE DEF Bad
    <2> QED
        BY <2>1, MinimalSubset
<1>2. T # {}
    <2>1. Fine({})
        BY SumOfNone
    <2> HIDE DEF Fine
    <2> QED
        BY <1>1, <2>1
<1>3. T \in SUBSET S /\ IsFiniteSet(T)
    BY <1>1, FS_Subset
<1>4. \A x \in T : Fine(T \ {x})
    BY <1>1, <1>3
<1> DEFINE p == Pick(T)
<1>5. p \in T /\ SumFunctionOnSet(f, T) = f[p] + SumFunctionOnSet(f, T \ {p})
    BY <1>2, <1>3, SumByPick
<1> HIDE DEF p
<1>6. SumFunctionOnSet(f, T) \in Int
    BY <1>3, <1>4, <1>5
<1>7. ASSUME NEW x \in T
      PROVE  SumFunctionOnSet(f, T) = f[x] + SumFunctionOnSet(f, T \ {x})
    <2>1. CASE x = p
        BY <1>5, <2>1
    <2>2. CASE x # p
        <3>1. SumFunctionOnSet(f, T \ {p}) = f[x] + SumFunctionOnSet(f, (T \ {p}) \ {x})
            BY <1>4, <1>5, <2>2
        <3>2. SumFunctionOnSet(f, T \ {x}) = f[p] + SumFunctionOnSet(f, (T \ {x}) \ {p})
            BY <1>4, <1>5, <2>2
        <3>3. (T \ {p}) \ {x} = (T \ {x}) \ {p}
            OBVIOUS
        <3>4. IsFiniteSet((T \ {x}) \ {p}) /\ (T \ {x}) \ {p} \in SUBSET S
            BY <1>3, FS_RemoveElement
        <3>5. SumFunctionOnSet(f, (T \ {x}) \ {p}) \in Int
            <4>1. (T \ {x}) \ {p} \notin Bad
                BY <1>1, <1>5
            <4> QED
                BY <3>4, <4>1
        <3> HIDE DEF Bad
        <3>6. f[p] \in Int /\ f[x] \in Int
            BY <1>3, <1>5
        <3>7. SumFunctionOnSet(f, T \ {p}) = f[x] + SumFunctionOnSet(f, (T \ {x}) \ {p})
            BY <3>1, <3>3
        <3> QED
            BY <1>5, <3>2, <3>5, <3>6, <3>7
    <2> QED
        BY <2>1, <2>2
<1> QED
    BY <1>1, <1>6, <1>7

LEMMA SumType ==
    ASSUME NEW S, IsFiniteSet(S), NEW f, \A x \in S : f[x] \in Nat
    PROVE  SumFunctionOnSet(f, S) \in Nat
<1> DEFINE Good == {T \in SUBSET S : SumFunctionOnSet(f, T) \in Nat}
<1>1. {} \in Good
    BY SumOfNone
<1>2. ASSUME NEW T \in SUBSET S, NEW x \in T, T \ {x} \in Good PROVE T \in Good
    <2>1. IsFiniteSet(T)
        BY FS_Subset
    <2>2. SumFunctionOnSet(f, T) = f[x] + SumFunctionOnSet(f, T \ {x})
        BY <2>1, SumByElement
    <2> QED
        BY <1>2, <2>2
<1>3. SUBSET S \subseteq Good
    <2> HIDE DEF Good
    <2> QED
        BY <1>1, <1>2, SubsetInduction
<1> QED
    BY <1>3

\* One element more.
LEMMA SumAdd ==
    ASSUME NEW S, IsFiniteSet(S), NEW f, \A x \in S : f[x] \in Int,
           NEW x, x \notin S, f[x] \in Int
    PROVE  SumFunctionOnSet(f, S \cup {x}) = SumFunctionOnSet(f, S) + f[x]
<1>1. IsFiniteSet(S \cup {x}) /\ (S \cup {x}) \ {x} = S
    BY FS_AddElement
<1>2. SumFunctionOnSet(f, S \cup {x}) = f[x] + SumFunctionOnSet(f, S)
    BY <1>1, SumByElement
<1>3. SumFunctionOnSet(f, S) \in Int
    BY SumByElement
<1> QED
    BY <1>2, <1>3

LEMMA SumOfOne ==
    ASSUME NEW f, NEW x, f[x] \in Int
    PROVE  SumFunctionOnSet(f, {x}) = f[x]
<1>1. IsFiniteSet({x}) /\ {x} \ {x} = {}
    BY FS_Singleton
<1>2. SumFunctionOnSet(f, {x}) = f[x] + SumFunctionOnSet(f, {x} \ {x})
    BY <1>1, SumByElement
<1> QED
    BY <1>1, <1>2, SumOfNone

\* The sum is about the values on the set only.
LEMMA SumSame ==
    ASSUME NEW S, IsFiniteSet(S), NEW f, NEW g,
           \A x \in S : f[x] \in Int /\ g[x] = f[x]
    PROVE  SumFunctionOnSet(f, S) = SumFunctionOnSet(g, S)
<1> DEFINE Good == {T \in SUBSET S : SumFunctionOnSet(f, T) = SumFunctionOnSet(g, T)}
<1>1. {} \in Good
    BY SumOfNone
<1>2. ASSUME NEW T \in SUBSET S, NEW x \in T, T \ {x} \in Good PROVE T \in Good
    <2>1. IsFiniteSet(T)
        BY FS_Subset
    <2>2. SumFunctionOnSet(f, T) = f[x] + SumFunctionOnSet(f, T \ {x})
        BY <2>1, SumByElement
    <2>3. SumFunctionOnSet(g, T) = g[x] + SumFunctionOnSet(g, T \ {x})
        BY <2>1, SumByElement
    <2> QED
        BY <1>2, <2>2, <2>3
<1>3. SUBSET S \subseteq Good
    <2> HIDE DEF Good
    <2> QED
        BY <1>1, <1>2, SubsetInduction
<1> QED
    BY <1>3

\* Where it changes, the sum changes by as much.
LEMMA SumChange ==
    ASSUME NEW S, IsFiniteSet(S), NEW x \in S, NEW f, NEW g,
           \A y \in S : f[y] \in Int /\ g[y] \in Int,
           \A y \in S : y # x => g[y] = f[y]
    PROVE  SumFunctionOnSet(g, S) = SumFunctionOnSet(f, S) - f[x] + g[x]
<1>1. IsFiniteSet(S \ {x})
    BY FS_RemoveElement
<1>2. SumFunctionOnSet(f, S \ {x}) = SumFunctionOnSet(g, S \ {x})
    BY <1>1, SumSame
<1>3. SumFunctionOnSet(f, S \ {x}) \in Int
    BY <1>1, SumByElement
<1>4. /\ SumFunctionOnSet(f, S) = f[x] + SumFunctionOnSet(f, S \ {x})
      /\ SumFunctionOnSet(g, S) = g[x] + SumFunctionOnSet(g, S \ {x})
    BY SumByElement
<1> QED
    BY <1>2, <1>3, <1>4

\* What is nowhere anything sums up to nothing.
LEMMA SumOfZeros ==
    ASSUME NEW S, IsFiniteSet(S), NEW f, \A x \in S : f[x] = 0
    PROVE  SumFunctionOnSet(f, S) = 0
<1> DEFINE Good == {T \in SUBSET S : SumFunctionOnSet(f, T) = 0}
<1>1. {} \in Good
    BY SumOfNone
<1>2. ASSUME NEW T \in SUBSET S, NEW x \in T, T \ {x} \in Good PROVE T \in Good
    <2>1. IsFiniteSet(T) /\ \A y \in T : f[y] \in Int
        BY FS_Subset
    <2>2. SumFunctionOnSet(f, T) = f[x] + SumFunctionOnSet(f, T \ {x})
        BY <2>1, SumByElement
    <2>3. f[x] = 0 /\ SumFunctionOnSet(f, T \ {x}) = 0
        BY <1>2
    <2> QED
        BY <2>2, <2>3
<1> HIDE DEF Good
<1>3. SUBSET S \subseteq Good
    BY <1>1, <1>2, SubsetInduction
<1> QED
    BY <1>3 DEF Good
=============================================================================

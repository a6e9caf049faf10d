----------------------------- MODULE SumTheorems -----------------------------
(***************************************************************************)
(* Sums over finite sets: what SumFunctionOnSet does with one element more *)
(* or less, with one value changed, with other functions.                  *)
(*                                                                         *)
(* The induction theorems of the library are not used: induction on a      *)
(* number is the lemma Induct about a set of numbers.                      *)
(***************************************************************************)
EXTENDS Integers, FiniteSets, FiniteSetTheorems, TLAPS

LEMMA LeastNumber ==
  ASSUME NEW S, S \subseteq Nat, S # {}
  PROVE  \E x \in S : \A y \in S : x <= y
<1>1. \E R : IsWellFoundedOn(R, Nat) /\ \A x, y \in Nat : x < y => <<x, y>> \in R
  <2>1. \A x, y \in Nat : x < y => <<x, y>> \in OpToRel(<, Nat)
    BY DEF OpToRel
  <2>. QED
    BY <2>1, NatLessThanWellFounded
<1>2. PICK R : IsWellFoundedOn(R, Nat) /\ \A x, y \in Nat : x < y => <<x, y>> \in R
  BY <1>1
<1>3. PICK x \in S : \A y \in S : <<y, x>> \notin R
  <2>. DEFINE N == Nat
  <2>1. S \subseteq N /\ IsWellFoundedOn(R, N)
    BY <1>2
  <2>. HIDE DEF N
  <2>. QED
    BY <2>1, WFMin, Zenon
<1>4. ASSUME NEW y \in S, y < x
      PROVE  FALSE
  BY <1>2, <1>3, <1>4
<1>. QED
  BY <1>3, <1>4

LEMMA Induct ==
  ASSUME NEW T, 0 \in T, \A n \in Nat : n \in T => n + 1 \in T
  PROVE  \A n \in Nat : n \in T
<1> SUFFICES ASSUME NEW b \in Nat, b \notin T
             PROVE  FALSE
  OBVIOUS
<1>1. PICK m \in Nat \ T : \A y \in Nat \ T : m <= y
  BY LeastNumber
<1>2. m # 0 /\ m - 1 \in Nat
  BY <1>1
<1>3. m - 1 \in T
  BY <1>1, <1>2
<1>4. (m - 1) + 1 \in T
  BY <1>2, <1>3
<1>. QED
  BY <1>1, <1>4

-----------------------------------------------------------------------------
(* The recursion of the fold. *)
Pick(s) == CHOOSE x \in s : TRUE
Adds(f, S, g) == g = [s \in SUBSET S |-> IF s = {} THEN 0 ELSE f[Pick(s)] + g[s \ {Pick(s)}]]

LEMMA SumIsFold ==
  ASSUME NEW f, NEW S
  PROVE  SumFunctionOnSet(f, S) = (CHOOSE g : Adds(f, S, g))[S]
  BY Zenon DEF SumFunctionOnSet, FoldFunctionOnSet, MapThenFoldSet, Adds, Pick

LEMMA PickIn ==
  ASSUME NEW s, s # {}
  PROVE  Pick(s) \in s
  BY DEF Pick

LEMMA Smaller ==
  ASSUME NEW s, IsFiniteSet(s), NEW x \in s
  PROVE  /\ IsFiniteSet(s \ {x}) /\ Cardinality(s) \in Nat
         /\ Cardinality(s \ {x}) \in Nat /\ Cardinality(s \ {x}) = Cardinality(s) - 1
  BY FS_RemoveElement, FS_CardinalityType

\* The recursion has a solution: one for the sets of at most n elements, for every n.
LEMMA FoldExists ==
  ASSUME NEW f, NEW S, IsFiniteSet(S)
  PROVE  \E g : Adds(f, S, g)
<1> DEFINE Step(g, s) == IF s = {} THEN 0 ELSE f[Pick(s)] + g[s \ {Pick(s)}]
           UpTo(n, g) == \A s \in SUBSET S : Cardinality(s) <= n => g[s] = Step(g, s)
           Good == {n \in Nat : \E V : \E g \in [SUBSET S -> V] : UpTo(n, g)}
<1>0. \A s \in SUBSET S : IsFiniteSet(s) /\ Cardinality(s) \in Nat /\ Cardinality(s) <= Cardinality(S)
  BY FS_Subset, FS_CardinalityType
<1>1. 0 \in Good
  <2>. DEFINE zero == [s \in SUBSET S |-> 0]
  <2>1. \A s \in SUBSET S : Cardinality(s) <= 0 => s = {}
    BY <1>0, FS_EmptySet
  <2>2. zero \in [SUBSET S -> {0}] /\ UpTo(0, zero)
    BY <2>1
  <2>. QED
    BY <2>2, ZenonT(60)
<1>2. ASSUME NEW n \in Nat, n \in Good
      PROVE  n + 1 \in Good
  <2>1. PICK V : \E g \in [SUBSET S -> V] : UpTo(n, g)
    BY <1>2
  <2>2. PICK g \in [SUBSET S -> V] : UpTo(n, g)
    BY <2>1
  <2>. DEFINE h == [s \in SUBSET S |-> IF Cardinality(s) = n + 1 THEN Step(g, s) ELSE g[s]]
              W == {h[s] : s \in SUBSET S}
  <2>3. h \in [SUBSET S -> W]
    OBVIOUS
  <2>4. ASSUME NEW s \in SUBSET S, Cardinality(s) <= n + 1
        PROVE  h[s] = Step(h, s)
    <3>1. s # {} => /\ s \ {Pick(s)} \in SUBSET S
                    /\ Cardinality(s \ {Pick(s)}) <= n
                    /\ Cardinality(s \ {Pick(s)}) # n + 1
      <4>1. s # {} => Cardinality(s \ {Pick(s)}) = Cardinality(s) - 1 /\ Cardinality(s) \in Nat
        BY <1>0, PickIn, Smaller
      <4>. QED
        BY <2>4, <4>1
    <3>2. s # {} => h[s \ {Pick(s)}] = g[s \ {Pick(s)}]
      BY <3>1
    <3>3. Step(h, s) = Step(g, s)
      BY <3>2
    <3>4. CASE Cardinality(s) = n + 1
      BY <3>3, <3>4
    <3>5. CASE Cardinality(s) # n + 1
      <4>1. Cardinality(s) <= n
        BY <1>0, <2>4, <3>5
      <4>2. g[s] = Step(g, s)
        BY <2>2, <4>1
      <4>3. h[s] = g[s]
        BY <3>5
      <4>. QED
        BY <3>3, <4>2, <4>3
    <3>. QED
      BY <3>4, <3>5
  <2>5. UpTo(n + 1, h)
    BY <2>4
  <2>6. \E k \in [SUBSET S -> W] : UpTo(n + 1, k)
    <3>. HIDE DEF h, W, UpTo
    <3>. QED
      BY <2>3, <2>5
  <2>. HIDE DEF h, W, UpTo
  <2>. QED
    BY <2>6
<1>3. Cardinality(S) \in Good
  <2>. HIDE DEF Good
  <2>. QED
    BY <1>1, <1>2, FS_CardinalityType, Induct
<1>4. PICK V : \E g \in [SUBSET S -> V] : UpTo(Cardinality(S), g)
  BY <1>3
<1>5. PICK g \in [SUBSET S -> V] : UpTo(Cardinality(S), g)
  BY <1>4
<1>6. \A s \in SUBSET S : g[s] = Step(g, s)
  BY <1>0, <1>5
<1>7. Adds(f, S, g)
  BY <1>6 DEF Adds
<1>. QED
  BY <1>7

\* It has only one, on the sets that two solutions share.
LEMMA FoldUnique ==
  ASSUME NEW f, NEW S, NEW T, IsFiniteSet(S), NEW g, NEW h, Adds(f, S, g), Adds(f, T, h),
         NEW t, t \subseteq S, t \subseteq T
  PROVE  g[t] = h[t]
<1> DEFINE Same == {n \in Nat : \A s \in SUBSET (S \cap T) : Cardinality(s) = n => g[s] = h[s]}
<1>0. \A s \in SUBSET (S \cap T) : IsFiniteSet(s) /\ Cardinality(s) \in Nat
  <2>1. \A s \in SUBSET (S \cap T) : s \in SUBSET S
    OBVIOUS
  <2>. QED
    BY <2>1, FS_Subset, FS_CardinalityType
<1>1. \A s \in SUBSET (S \cap T) : /\ g[s] = IF s = {} THEN 0 ELSE f[Pick(s)] + g[s \ {Pick(s)}]
                                   /\ h[s] = IF s = {} THEN 0 ELSE f[Pick(s)] + h[s \ {Pick(s)}]
  <2>1. ASSUME NEW s \in SUBSET (S \cap T)
        PROVE  /\ g[s] = IF s = {} THEN 0 ELSE f[Pick(s)] + g[s \ {Pick(s)}]
               /\ h[s] = IF s = {} THEN 0 ELSE f[Pick(s)] + h[s \ {Pick(s)}]
    <3>1. s \in SUBSET S /\ s \in SUBSET T
      OBVIOUS
    <3>. QED
      BY <3>1 DEF Adds
  <2>. QED
    BY <2>1
<1>2. 0 \in Same
  <2>1. \A s \in SUBSET (S \cap T) : Cardinality(s) = 0 => s = {}
    BY <1>0, FS_EmptySet
  <2>. QED
    BY <1>1, <2>1
<1>3. ASSUME NEW n \in Nat, n \in Same
      PROVE  n + 1 \in Same
  <2>1. ASSUME NEW s \in SUBSET (S \cap T), Cardinality(s) = n + 1
        PROVE  g[s] = h[s]
    <3>1. s # {}
      BY <2>1, FS_EmptySet
    <3>2. s \ {Pick(s)} \in SUBSET (S \cap T) /\ Cardinality(s \ {Pick(s)}) = n
      BY <1>0, <2>1, <3>1, PickIn, Smaller
    <3>3. g[s \ {Pick(s)}] = h[s \ {Pick(s)}]
      BY <1>3, <3>2
    <3>. QED
      BY <1>1, <3>1, <3>3
  <2>. QED
    BY <2>1
<1>4. t \in SUBSET (S \cap T) /\ Cardinality(t) \in Same
  <2>. HIDE DEF Same
  <2>1. t \in SUBSET (S \cap T)
    OBVIOUS
  <2>. QED
    BY <1>0, <1>2, <1>3, <2>1, Induct
<1>. QED
  BY <1>4

-----------------------------------------------------------------------------
(* The sum, one element at a time. *)

LEMMA SumOfSolution ==
  ASSUME NEW f, NEW S, IsFiniteSet(S), NEW g, Adds(f, S, g), NEW t, t \subseteq S
  PROVE  SumFunctionOnSet(f, t) = g[t]
<1>1. IsFiniteSet(t)
  <2>1. t \in SUBSET S
    OBVIOUS
  <2>. QED
    BY <2>1, FS_Subset
<1>2. PICK h : Adds(f, t, h)
  BY <1>1, FoldExists
<1>. DEFINE c == CHOOSE k : Adds(f, t, k)
<1>3. Adds(f, t, c)
  BY <1>2, Zenon
<1>4. c[t] = g[t]
  <2>. HIDE DEF c
  <2>. QED
    BY <1>1, <1>3, FoldUnique
<1>. QED
  BY <1>4, SumIsFold, Zenon

\* The sum over a set, by the element that the fold takes first.
LEMMA SumFirst ==
  ASSUME NEW f, NEW S, IsFiniteSet(S)
  PROVE  SumFunctionOnSet(f, S) =
           IF S = {} THEN 0 ELSE f[Pick(S)] + SumFunctionOnSet(f, S \ {Pick(S)})
<1>1. PICK g : Adds(f, S, g)
  BY FoldExists
<1>2. g[S] = IF S = {} THEN 0 ELSE f[Pick(S)] + g[S \ {Pick(S)}]
  <2>1. S \in SUBSET S
    OBVIOUS
  <2>. QED
    BY <1>1, <2>1 DEF Adds
<1>3. SumFunctionOnSet(f, S) = g[S] /\ SumFunctionOnSet(f, S \ {Pick(S)}) = g[S \ {Pick(S)}]
  <2>1. S \ {Pick(S)} \subseteq S
    OBVIOUS
  <2>. QED
    BY <1>1, <2>1, SumOfSolution
<1>. QED
  BY <1>2, <1>3

LEMMA SumEmpty ==
  ASSUME NEW f
  PROVE  SumFunctionOnSet(f, {}) = 0
  BY SumFirst, FS_EmptySet

\* The value of a sum of integers, and of natural numbers.
LEMMA SumType ==
  ASSUME NEW f, NEW S, IsFiniteSet(S), \A x \in S : f[x] \in Int
  PROVE  /\ SumFunctionOnSet(f, S) \in Int
         /\ (\A x \in S : f[x] >= 0) => SumFunctionOnSet(f, S) >= 0
<1> DEFINE Sum(s) == SumFunctionOnSet(f, s)
           Fine(s) == Sum(s) \in Int /\ ((\A x \in S : f[x] >= 0) => Sum(s) >= 0)
           Done == {n \in Nat : \A s \in SUBSET S : Cardinality(s) = n => Fine(s)}
<1>0. \A s \in SUBSET S : IsFiniteSet(s) /\ Cardinality(s) \in Nat
  BY FS_Subset, FS_CardinalityType
<1>1. 0 \in Done
  <2>1. \A s \in SUBSET S : Cardinality(s) = 0 => s = {}
    BY <1>0, FS_EmptySet
  <2>2. Fine({})
    BY SumEmpty
  <2>. QED
    BY <2>1, <2>2
<1>2. ASSUME NEW n \in Nat, n \in Done
      PROVE  n + 1 \in Done
  <2>1. ASSUME NEW s \in SUBSET S, Cardinality(s) = n + 1
        PROVE  Fine(s)
    <3>. DEFINE x == Pick(s)
    <3>1. s # {} /\ x \in S
      BY <2>1, FS_EmptySet, PickIn
    <3>2. s \ {x} \in SUBSET S /\ Cardinality(s \ {x}) = n
      BY <1>0, <2>1, <3>1, PickIn, Smaller
    <3>3. Fine(s \ {x})
      BY <1>2, <3>2
    <3>4. Sum(s) = f[x] + Sum(s \ {x})
      BY <1>0, <3>1, SumFirst
    <3>. HIDE DEF x, Sum
    <3>. QED
      BY <3>1, <3>3, <3>4
  <2>. HIDE DEF Fine
  <2>. QED
    BY <2>1
<1>3. S \in SUBSET S /\ Cardinality(S) \in Done
  <2>. HIDE DEF Done
  <2>. QED
    BY <1>0, <1>1, <1>2, Induct
<1>. QED
  BY <1>3

\* Any element can be taken out of the sum.
LEMMA SumRemove ==
  ASSUME NEW f, NEW S, IsFiniteSet(S), \A x \in S : f[x] \in Int, NEW x \in S
  PROVE  SumFunctionOnSet(f, S) = f[x] + SumFunctionOnSet(f, S \ {x})
<1> DEFINE Sum(s) == SumFunctionOnSet(f, s)
           Out(s) == \A y \in s : Sum(s) = f[y] + Sum(s \ {y})
           Done == {n \in Nat : \A s \in SUBSET S : Cardinality(s) = n => Out(s)}
<1>0. \A s \in SUBSET S : IsFiniteSet(s) /\ Cardinality(s) \in Nat /\ Sum(s) \in Int
  <2>1. \A s \in SUBSET S : IsFiniteSet(s) /\ Cardinality(s) \in Nat
    BY FS_Subset, FS_CardinalityType
  <2>2. \A s \in SUBSET S : Sum(s) \in Int
    BY <2>1, SumType
  <2>. QED
    BY <2>1, <2>2
<1>1. 0 \in Done
  <2>1. \A s \in SUBSET S : Cardinality(s) = 0 => s = {}
    BY <1>0, FS_EmptySet
  <2>. QED
    BY <2>1
<1>2. ASSUME NEW n \in Nat, n \in Done
      PROVE  n + 1 \in Done
  <2>1. ASSUME NEW s \in SUBSET S, Cardinality(s) = n + 1, NEW y \in s
        PROVE  Sum(s) = f[y] + Sum(s \ {y})
    <3>. DEFINE p == Pick(s)
    <3>1. p \in s /\ Sum(s) = f[p] + Sum(s \ {p})
      BY <1>0, <2>1, SumFirst, PickIn
    <3>2. CASE y = p
      BY <3>1, <3>2
    <3>3. CASE y # p
      <4>0. p \in s
        BY <3>1
      <4>. HIDE DEF p
      <4>1. /\ s \ {p} \in SUBSET S /\ Cardinality(s \ {p}) = n /\ y \in s \ {p}
            /\ s \ {y} \in SUBSET S /\ Cardinality(s \ {y}) = n /\ p \in s \ {y}
        BY <1>0, <2>1, <3>3, <4>0, Smaller
      <4>2. Out(s \ {p}) /\ Out(s \ {y})
        BY <1>2, <4>1
      <4>3. (s \ {p}) \ {y} = (s \ {y}) \ {p} /\ (s \ {y}) \ {p} \in SUBSET S
        OBVIOUS
      <4>4. /\ Sum(s \ {p}) = f[y] + Sum((s \ {y}) \ {p})
            /\ Sum(s \ {y}) = f[p] + Sum((s \ {y}) \ {p})
        BY <4>1, <4>2, <4>3
      <4>5. f[p] \in Int /\ f[y] \in Int /\ Sum((s \ {y}) \ {p}) \in Int
        BY <1>0, <4>0, <4>3
      <4>. HIDE DEF Sum
      <4>. QED
        BY <3>1, <4>4, <4>5
    <3>. QED
      BY <3>2, <3>3
  <2>. HIDE DEF Sum
  <2>. QED
    BY <2>1
<1>3. S \in SUBSET S /\ Cardinality(S) \in Done
  <2>. HIDE DEF Done
  <2>. QED
    BY <1>0, <1>1, <1>2, Induct
<1>. QED
  BY <1>3

\* An element is added.
LEMMA SumAdd ==
  ASSUME NEW f, NEW S, IsFiniteSet(S), NEW x, x \notin S, \A y \in S \cup {x} : f[y] \in Int
  PROVE  SumFunctionOnSet(f, S \cup {x}) = f[x] + SumFunctionOnSet(f, S)
<1>1. IsFiniteSet(S \cup {x}) /\ x \in S \cup {x} /\ (S \cup {x}) \ {x} = S
  BY FS_AddElement
<1>. QED
  BY <1>1, SumRemove

\* Two functions that agree on the set have the same sum.
LEMMA SumSame ==
  ASSUME NEW f, NEW g, NEW S, IsFiniteSet(S), \A x \in S : f[x] = g[x]
  PROVE  SumFunctionOnSet(f, S) = SumFunctionOnSet(g, S)
<1> DEFINE Same(s) == SumFunctionOnSet(f, s) = SumFunctionOnSet(g, s)
           Done == {n \in Nat : \A s \in SUBSET S : Cardinality(s) = n => Same(s)}
<1>0. \A s \in SUBSET S : IsFiniteSet(s) /\ Cardinality(s) \in Nat
  BY FS_Subset, FS_CardinalityType
<1>1. 0 \in Done
  <2>1. \A s \in SUBSET S : Cardinality(s) = 0 => s = {}
    BY <1>0, FS_EmptySet
  <2>2. Same({})
    BY SumEmpty
  <2>. QED
    BY <2>1, <2>2
<1>2. ASSUME NEW n \in Nat, n \in Done
      PROVE  n + 1 \in Done
  <2>1. ASSUME NEW s \in SUBSET S, Cardinality(s) = n + 1
        PROVE  Same(s)
    <3>. DEFINE x == Pick(s)
    <3>1. s # {} /\ x \in S
      BY <2>1, FS_EmptySet, PickIn
    <3>2. s \ {x} \in SUBSET S /\ Cardinality(s \ {x}) = n
      BY <1>0, <2>1, <3>1, PickIn, Smaller
    <3>3. Same(s \ {x})
      BY <1>2, <3>2
    <3>4. /\ SumFunctionOnSet(f, s) = f[x] + SumFunctionOnSet(f, s \ {x})
          /\ SumFunctionOnSet(g, s) = g[x] + SumFunctionOnSet(g, s \ {x})
      BY <1>0, <3>1, SumFirst
    <3>. HIDE DEF x
    <3>. QED
      BY <3>1, <3>3, <3>4
  <2>. HIDE DEF Same
  <2>. QED
    BY <2>1
<1>3. S \in SUBSET S /\ Cardinality(S) \in Done
  <2>. HIDE DEF Done
  <2>. QED
    BY <1>0, <1>1, <1>2, Induct
<1>. QED
  BY <1>3

\* Two functions that agree on the set but for one element.
LEMMA SumChange ==
  ASSUME NEW f, NEW g, NEW S, IsFiniteSet(S), NEW x \in S,
         \A y \in S : f[y] \in Int /\ g[y] \in Int, \A y \in S \ {x} : g[y] = f[y]
  PROVE  SumFunctionOnSet(g, S) = SumFunctionOnSet(f, S) + g[x] - f[x]
<1>1. IsFiniteSet(S \ {x})
  BY FS_RemoveElement
<1>2. SumFunctionOnSet(g, S \ {x}) = SumFunctionOnSet(f, S \ {x})
  BY <1>1, SumSame
<1>3. /\ SumFunctionOnSet(f, S) = f[x] + SumFunctionOnSet(f, S \ {x})
      /\ SumFunctionOnSet(g, S) = g[x] + SumFunctionOnSet(g, S \ {x})
  BY SumRemove
<1>4. SumFunctionOnSet(f, S \ {x}) \in Int
  BY <1>1, SumType
<1>. QED
  BY <1>2, <1>3, <1>4

\* A sum of nothing but zeros.
LEMMA SumZero ==
  ASSUME NEW f, NEW S, IsFiniteSet(S), \A x \in S : f[x] = 0
  PROVE  SumFunctionOnSet(f, S) = 0
<1> DEFINE Done == {n \in Nat : \A s \in SUBSET S : Cardinality(s) = n => SumFunctionOnSet(f, s) = 0}
<1>0. \A s \in SUBSET S : IsFiniteSet(s) /\ Cardinality(s) \in Nat
  BY FS_Subset, FS_CardinalityType
<1>2. 0 \in Done
  BY <1>0, FS_EmptySet, SumEmpty
<1>3. ASSUME NEW n \in Nat, n \in Done
      PROVE  n + 1 \in Done
  <2>1. ASSUME NEW s \in SUBSET S, Cardinality(s) = n + 1
        PROVE  SumFunctionOnSet(f, s) = 0
    <3>1. s # {} /\ Pick(s) \in s
      BY <2>1, FS_EmptySet, PickIn
    <3>2. s \ {Pick(s)} \in SUBSET S /\ Cardinality(s \ {Pick(s)}) = n
      BY <1>0, <2>1, <3>1, Smaller
    <3>3. SumFunctionOnSet(f, s \ {Pick(s)}) = 0
      BY <1>3, <3>2
    <3>. QED
      BY <1>0, <3>1, <3>3, SumFirst
  <2>. QED
    BY <2>1
<1>4. S \in SUBSET S /\ Cardinality(S) \in Done
  <2>. HIDE DEF Done
  <2>. QED
    BY <1>0, <1>2, <1>3, Induct
<1>. QED
  BY <1>4

\* Term by term no more.
LEMMA SumLess ==
  ASSUME NEW f, NEW g, NEW S, IsFiniteSet(S), \A x \in S : f[x] \in Int /\ g[x] \in Int /\ f[x] <= g[x]
  PROVE  SumFunctionOnSet(f, S) <= SumFunctionOnSet(g, S)
<1> DEFINE F(s) == SumFunctionOnSet(f, s)
           G(s) == SumFunctionOnSet(g, s)
           Done == {n \in Nat : \A s \in SUBSET S : Cardinality(s) = n => F(s) <= G(s)}
<1>0. \A s \in SUBSET S : IsFiniteSet(s) /\ Cardinality(s) \in Nat /\ F(s) \in Int /\ G(s) \in Int
  <2>1. \A s \in SUBSET S : IsFiniteSet(s) /\ Cardinality(s) \in Nat
    BY FS_Subset, FS_CardinalityType
  <2>. QED
    BY <2>1, SumType
<1>2. 0 \in Done
  BY <1>0, FS_EmptySet, SumEmpty
<1>3. ASSUME NEW n \in Nat, n \in Done
      PROVE  n + 1 \in Done
  <2>1. ASSUME NEW s \in SUBSET S, Cardinality(s) = n + 1
        PROVE  F(s) <= G(s)
    <3>1. s # {} /\ Pick(s) \in s /\ IsFiniteSet(s)
      BY <1>0, <2>1, FS_EmptySet, PickIn
    <3>. DEFINE x == Pick(s)
                rest == s \ {x}
    <3>2. Cardinality(rest) = Cardinality(s) - 1
      BY <3>1, Smaller
    <3>3. rest \in SUBSET S /\ x \in S /\ Cardinality(rest) = n
      BY <2>1, <3>1, <3>2
    <3>4. F(rest) <= G(rest) /\ F(rest) \in Int /\ G(rest) \in Int
      BY <1>0, <1>3, <3>3
    <3>5. F(s) = f[x] + F(rest) /\ G(s) = g[x] + G(rest)
      BY <3>1, SumFirst
    <3>. HIDE DEF F, G, x, rest
    <3>. QED
      BY <3>3, <3>4, <3>5
  <2>. QED
    BY <2>1
<1>4. S \in SUBSET S /\ Cardinality(S) \in Done
  <2>. HIDE DEF Done
  <2>. QED
    BY <1>0, <1>2, <1>3, Induct
<1>. QED
  BY <1>4

LEMMA SumSingle ==
  ASSUME NEW f, NEW x, f[x] \in Int
  PROVE  SumFunctionOnSet(f, {x}) = f[x]
<1>1. IsFiniteSet({x}) /\ Pick({x}) = x /\ {x} \ {x} = {}
  BY FS_Singleton, PickIn
<1>2. SumFunctionOnSet(f, {x}) = f[x] + SumFunctionOnSet(f, {})
  <2>1. SumFunctionOnSet(f, {x}) = IF {x} = {} THEN 0 ELSE f[Pick({x})] + SumFunctionOnSet(f, {x} \ {Pick({x})})
    BY <1>1, SumFirst
  <2>2. {x} # {}
    OBVIOUS
  <2>. QED
    BY <1>1, <2>1, <2>2, Zenon
<1>. QED
  BY <1>2, SumEmpty

\* A sum whose terms differ by a multiple differs by that multiple.
LEMMA SumShift ==
  ASSUME NEW f, NEW g, NEW h, NEW c \in Int, NEW S, IsFiniteSet(S),
         \A x \in S : g[x] \in Int /\ h[x] \in Int /\ f[x] = g[x] + c * h[x]
  PROVE  SumFunctionOnSet(f, S) = SumFunctionOnSet(g, S) + c * SumFunctionOnSet(h, S)
<1> DEFINE F(s) == SumFunctionOnSet(f, s)
           G(s) == SumFunctionOnSet(g, s)
           H(s) == SumFunctionOnSet(h, s)
           Done == {n \in Nat : \A s \in SUBSET S : Cardinality(s) = n => F(s) = G(s) + c * H(s)}
<1>0. \A s \in SUBSET S : IsFiniteSet(s) /\ Cardinality(s) \in Nat /\ G(s) \in Int /\ H(s) \in Int
  <2>1. \A s \in SUBSET S : IsFiniteSet(s) /\ Cardinality(s) \in Nat
    BY FS_Subset, FS_CardinalityType
  <2>. QED
    BY <2>1, SumType
<1>2. 0 \in Done
  <2>1. F({}) = 0 /\ G({}) = 0 /\ H({}) = 0 /\ c * 0 = 0
    BY SumEmpty
  <2>2. \A s \in SUBSET S : Cardinality(s) = 0 => s = {}
    BY <1>0, FS_EmptySet
  <2>. HIDE DEF F, G, H
  <2>3. F({}) = G({}) + c * H({})
    BY <2>1
  <2>. QED
    BY <2>2, <2>3
<1>3. ASSUME NEW n \in Nat, n \in Done
      PROVE  n + 1 \in Done
  <2>1. ASSUME NEW s \in SUBSET S, Cardinality(s) = n + 1
        PROVE  F(s) = G(s) + c * H(s)
    <3>1. s # {} /\ Pick(s) \in s /\ IsFiniteSet(s)
      BY <1>0, <2>1, FS_EmptySet, PickIn
    <3>. DEFINE x == Pick(s)
                rest == s \ {x}
    <3>2. Cardinality(rest) = Cardinality(s) - 1
      BY <3>1, Smaller
    <3>3. rest \in SUBSET S /\ x \in S /\ Cardinality(rest) = n
      BY <2>1, <3>1, <3>2
    <3>4. F(rest) = G(rest) + c * H(rest) /\ G(rest) \in Int /\ H(rest) \in Int
      BY <1>0, <1>3, <3>3
    <3>5. F(s) = f[x] + F(rest) /\ G(s) = g[x] + G(rest) /\ H(s) = h[x] + H(rest)
      BY <3>1, SumFirst
    <3>. HIDE DEF F, G, H, x, rest
    <3>6. c * (h[x] + H(rest)) = c * h[x] + c * H(rest) /\ c * h[x] \in Int /\ c * H(rest) \in Int
      BY <3>3, <3>4
    <3>. QED
      BY <3>3, <3>4, <3>5, <3>6
  <2>. QED
    BY <2>1
<1>4. S \in SUBSET S /\ Cardinality(S) \in Done
  <2>. HIDE DEF Done
  <2>. QED
    BY <1>0, <1>2, <1>3, Induct
<1>. QED
  BY <1>4

\* A sum of natural numbers is at least any two of its terms.
LEMMA SumOfTwo ==
  ASSUME NEW f, NEW S, IsFiniteSet(S), \A x \in S : f[x] \in Nat, NEW x \in S
  PROVE  /\ SumFunctionOnSet(f, S) \in Nat /\ SumFunctionOnSet(f, S) >= f[x]
         /\ \A y \in S \ {x} : SumFunctionOnSet(f, S) >= f[x] + f[y]
<1>0. \A z \in S : f[z] \in Int /\ f[z] >= 0
  OBVIOUS
<1>1. IsFiniteSet(S \ {x})
  BY FS_RemoveElement
<1>2. SumFunctionOnSet(f, S) = f[x] + SumFunctionOnSet(f, S \ {x})
  BY <1>0, SumRemove
<1>3. SumFunctionOnSet(f, S \ {x}) \in Int /\ SumFunctionOnSet(f, S \ {x}) >= 0
  BY <1>0, <1>1, SumType
<1>4. ASSUME NEW y \in S \ {x}
      PROVE  SumFunctionOnSet(f, S \ {x}) >= f[y]
  <2>1. IsFiniteSet((S \ {x}) \ {y})
    BY <1>1, FS_RemoveElement
  <2>2. SumFunctionOnSet(f, S \ {x}) = f[y] + SumFunctionOnSet(f, (S \ {x}) \ {y})
    BY <1>0, <1>1, SumRemove
  <2>3. SumFunctionOnSet(f, (S \ {x}) \ {y}) \in Int /\ SumFunctionOnSet(f, (S \ {x}) \ {y}) >= 0
    BY <1>0, <2>1, SumType
  <2>. QED
    BY <1>0, <2>2, <2>3
<1>5. ASSUME NEW y \in S \ {x}
      PROVE  SumFunctionOnSet(f, S) >= f[x] + f[y]
  BY <1>0, <1>2, <1>3, <1>4
<1>6. SumFunctionOnSet(f, S) \in Nat /\ SumFunctionOnSet(f, S) >= f[x]
  BY <1>0, <1>2, <1>3
<1>. QED
  BY <1>5, <1>6
=============================================================================

-------------------------- MODULE ContextBundleProofs --------------------------
(***************************************************************************)
(* Proofs about what the context bundle holds: the outputs of validation   *)
(* runs (OutputSummaries), for any outputs and any limits, and the status  *)
(* sections (StatusSections), for any documents of the contracts.  Both    *)
(* need sums, of the sizes of texts and of counts, and what is needed of   *)
(* a sum of natural numbers is that it counts the elements of a finite     *)
(* set: such sets are compared where an induction over the length of a     *)
(* text or of a list would be needed.                                      *)
(***************************************************************************)
EXTENDS StatusSections, OutputSummaries, TLAPS, FiniteSetTheorems, SequenceTheorems,
        FunctionTheorems, WellFoundedInduction

-----------------------------------------------------------------------------
(* Sums as numbers of pairs *)

\* Numbers are well-founded: a set of them has a smallest.
LEMMA SmallestNat ==
  ASSUME NEW S, S \subseteq Nat, S # {}
  PROVE  \E n \in S : \A m \in S : n <= m
<1> DEFINE Below == OpToRel(<, Nat)
<1>1. IsWellFoundedOn(Below, Nat)
  BY NatLessThanWellFounded
<1>2. \A i, j \in Nat : <<i, j>> \in Below <=> i < j
  BY DEF OpToRel
<1> HIDE DEF Below
<1>3. PICK n \in S : \A m \in S : ~(<<m, n>> \in Below)
  BY <1>1, WFMin, Zenon
<1>4. ASSUME NEW m \in S
      PROVE  n <= m
  <2>1. m \in Nat /\ n \in Nat
    OBVIOUS
  <2>2. ~(m < n)
    BY <1>2, <1>3, <2>1
  <2> QED BY <2>1, <2>2
<1> QED BY <1>4

\* A sum is the number of these pairs.
Under(f, S) == {p \in S \X (Nat \ {0}) : p[2] <= f[p[1]]}

\* Of any sets that all are finite, one has the fewest elements.
LEMMA SmallestSet ==
  ASSUME NEW W, W # {}, \A T \in W : IsFiniteSet(T)
  PROVE  \E T \in W : \A U \in W : Cardinality(T) <= Cardinality(U)
<1> DEFINE Sizes == {Cardinality(T) : T \in W}
<1>1. \A T \in W : Cardinality(T) \in Nat
  BY FS_CardinalityType
<1>2. Sizes \subseteq Nat /\ Sizes # {}
  BY <1>1
<1>3. PICK n \in Sizes : \A m \in Sizes : n <= m
  <2> HIDE DEF Sizes
  <2> QED BY <1>2, SmallestNat
<1>4. PICK T \in W : n = Cardinality(T)
  BY <1>3
<1>5. \A U \in W : Cardinality(U) \in Sizes
  OBVIOUS
<1> QED BY <1>3, <1>4, <1>5

\* One element more adds as many pairs as it is counted for.
LEMMA UnderSplit ==
  ASSUME NEW f, NEW T, NEW x \in T, f[x] \in Nat
  PROVE  /\ Under(f, T) = Under(f, T \ {x}) \cup Under(f, {x})
         /\ Under(f, T \ {x}) \cap Under(f, {x}) = {}
         /\ IsFiniteSet(Under(f, {x}))
         /\ Cardinality(Under(f, {x})) = f[x]
<1>1. Under(f, T) = Under(f, T \ {x}) \cup Under(f, {x})
  BY DEF Under
<1>2. Under(f, T \ {x}) \cap Under(f, {x}) = {}
  BY DEF Under
<1> DEFINE b == [j \in 1 .. f[x] |-> <<x, j>>]
<1>3. Under(f, {x}) = {<<x, j>> : j \in 1 .. f[x]}
  <2>1. ASSUME NEW p \in Under(f, {x})
        PROVE  p \in {<<x, j>> : j \in 1 .. f[x]}
    <3>1. p = <<x, p[2]>> /\ p[2] \in Nat \ {0} /\ p[2] <= f[x]
      BY DEF Under
    <3>2. p[2] \in 1 .. f[x]
      BY <3>1
    <3> QED BY <3>1, <3>2
  <2>2. ASSUME NEW j \in 1 .. f[x]
        PROVE  <<x, j>> \in Under(f, {x})
    BY DEF Under
  <2> QED BY <2>1, <2>2
<1>4. b \in Bijection(1 .. f[x], Under(f, {x}))
  BY <1>3 DEF Bijection, Injection, Surjection, IsInjective
<1>5. IsFiniteSet(1 .. f[x]) /\ Cardinality(1 .. f[x]) = f[x]
  BY FS_Interval
<1>6. ExistsBijection(1 .. f[x], Under(f, {x}))
  BY <1>4 DEF ExistsBijection
<1>7. IsFiniteSet(Under(f, {x})) /\ Cardinality(Under(f, {x})) = f[x]
  <2> HIDE DEF b
  <2> QED BY <1>5, <1>6, FS_Bijection
<1> QED BY <1>1, <1>2, <1>7

\* There are finitely many pairs: of the sets for which this failed, the smallest
\* would not be one.
LEMMA UnderFinite ==
  ASSUME NEW f, NEW S, IsFiniteSet(S), \A x \in S : f[x] \in Nat
  PROVE  \A T \in SUBSET S : IsFiniteSet(Under(f, T))
<1> DEFINE W == {T \in SUBSET S : ~IsFiniteSet(Under(f, T))}
<1> SUFFICES ASSUME W # {} PROVE FALSE
  OBVIOUS
<1>1. \A T \in SUBSET S : IsFiniteSet(T) /\ Cardinality(T) \in Nat
  BY FS_Subset, FS_CardinalityType
<1>2. PICK T \in W : \A U \in W : Cardinality(T) <= Cardinality(U)
  <2>1. \A U \in W : IsFiniteSet(U)
    BY <1>1
  <2> HIDE DEF W
  <2> QED BY <2>1, SmallestSet
<1>3. T # {}
  <2>1. Under(f, {}) = {}
    BY DEF Under
  <2> QED BY <2>1, FS_EmptySet
<1>4. PICK x \in T : TRUE
  BY <1>3
<1>5. T \ {x} \in SUBSET S /\ T \ {x} \notin W
  <2>1. Cardinality(T \ {x}) = Cardinality(T) - 1
    BY <1>1, FS_RemoveElement
  <2>2. Cardinality(T \ {x}) \in Nat /\ Cardinality(T) \in Nat
    BY <1>1
  <2> HIDE DEF W
  <2>3. T \ {x} \notin W
    BY <1>2, <2>1, <2>2
  <2> USE DEF W
  <2> QED BY <2>3
<1>6. IsFiniteSet(Under(f, T \ {x}))
  BY <1>5
<1>7. f[x] \in Nat
  BY <1>4
<1>8. IsFiniteSet(Under(f, T))
  <2>1. /\ Under(f, T) = Under(f, T \ {x}) \cup Under(f, {x})
        /\ IsFiniteSet(Under(f, {x}))
    BY <1>7, UnderSplit
  <2> QED BY <1>6, <2>1, FS_Union
<1> QED BY <1>2, <1>8

\* The number of pairs obeys the recursion of a sum.
LEMMA UnderAdds ==
  ASSUME NEW f, NEW T, IsFiniteSet(T), \A x \in T : f[x] \in Nat, NEW x \in T
  PROVE  Cardinality(Under(f, T)) = f[x] + Cardinality(Under(f, T \ {x}))
<1>1. IsFiniteSet(Under(f, T \ {x}))
  <2>1. T \ {x} \in SUBSET T
    OBVIOUS
  <2> QED BY <2>1, UnderFinite
<1>2. f[x] \in Nat
  OBVIOUS
<1>3. /\ Under(f, T) = Under(f, T \ {x}) \cup Under(f, {x})
      /\ Under(f, T \ {x}) \cap Under(f, {x}) = {}
      /\ IsFiniteSet(Under(f, {x}))
      /\ Cardinality(Under(f, {x})) = f[x]
  BY <1>2, UnderSplit
<1>4. ASSUME NEW A, NEW B, IsFiniteSet(A), IsFiniteSet(B), A \cap B = {}
      PROVE  Cardinality(A \cup B) = Cardinality(A) + Cardinality(B)
  <2>1. Cardinality(A \cup B) = Cardinality(A) + Cardinality(B) - Cardinality(A \cap B)
    BY <1>4, FS_Union
  <2>2. Cardinality(A \cap B) = 0
    BY <1>4, FS_EmptySet
  <2>3. Cardinality(A) \in Nat /\ Cardinality(B) \in Nat
    BY <1>4, FS_CardinalityType
  <2> QED BY <2>1, <2>2, <2>3
<1>5. Cardinality(Under(f, T)) = Cardinality(Under(f, T \ {x})) + Cardinality(Under(f, {x}))
  BY <1>1, <1>3, <1>4
<1>6. Cardinality(Under(f, T \ {x})) \in Nat
  BY <1>1, FS_CardinalityType
<1> QED BY <1>2, <1>3, <1>5, <1>6

\* The sum of the community modules is a recursive function over the subsets of S,
\* and takes what CHOOSE picks first.
Picked(s) == CHOOSE x \in s : TRUE

Sums(f, S) ==
  CHOOSE it :
    it = [s \in SUBSET S |-> IF s = {} THEN 0 ELSE f[Picked(s)] + it[s \ {Picked(s)}]]

\* The sum is that function, with its helpers expanded.
LEMMA SumUnfolds ==
  ASSUME NEW f, NEW S
  PROVE SumFunctionOnSet(f, S) = Sums(f, S)[S]
  BY Zenon DEF SumFunctionOnSet, FoldFunctionOnSet, MapThenFoldSet, Sums, Picked

\* What a sum over the subsets of S obeys.
AddsUp(g, f, S) == 
  /\ g \in [SUBSET S -> Nat]
  /\ g[{}] = 0
  /\ \A T \in SUBSET S : \A x \in T : g[T] = f[x] + g[T \ {x}]

\* A recursion like that of a sum has one solution only, for the smallest set on which
\* two differed would not be one.
LEMMA SumSolved ==
  ASSUME NEW f, NEW S, IsFiniteSet(S), NEW g, AddsUp(g, f, S)
  PROVE  SumFunctionOnSet(f, S) = g[S]
<1> DEFINE Equations(it) ==
      it = [s \in SUBSET S |-> IF s = {} THEN 0 ELSE f[Picked(s)] + it[s \ {Picked(s)}]]
           it == Sums(f, S)
           W == {T \in SUBSET S : it[T] # g[T]}
<1>1. \A s \in SUBSET S : s # {} => Picked(s) \in s
  BY DEF Picked
<1>2. \A T \in SUBSET S : IsFiniteSet(T) /\ Cardinality(T) \in Nat
  BY FS_Subset, FS_CardinalityType
<1>3. \A T \in SUBSET S : g[T] = IF T = {} THEN 0 ELSE f[Picked(T)] + g[T \ {Picked(T)}]
  BY <1>1 DEF AddsUp
<1>4. Equations(g)
  <2>1. g = [T \in SUBSET S |-> g[T]]
    BY DEF AddsUp
  <2> QED BY <1>3, <2>1
<1>5. Equations(it)
  <2>1. \E fcn : Equations(fcn)
    BY <1>4
  <2>2. it = CHOOSE fcn : Equations(fcn)
    BY DEF Sums
  <2> HIDE DEF Equations, it
  <2> QED BY <2>1, <2>2
<1>6. \A T \in SUBSET S : it[T] = IF T = {} THEN 0 ELSE f[Picked(T)] + it[T \ {Picked(T)}]
  <2> HIDE DEF it
  <2> QED BY <1>5
<1>7. W = {}
  <2> SUFFICES ASSUME W # {} PROVE FALSE
    OBVIOUS
  <2>2. PICK T \in W : \A U \in W : Cardinality(T) <= Cardinality(U)
    <3>1. \A U \in W : IsFiniteSet(U)
      BY <1>2
    <3> HIDE DEF W
    <3> QED BY <3>1, SmallestSet
  <2> HIDE DEF it
  <2>3. T \in SUBSET S /\ T # {}
    BY <1>6 DEF AddsUp
  <2>4. Picked(T) \in T
    BY <1>1, <2>3
  <2>5. Cardinality(T \ {Picked(T)}) = Cardinality(T) - 1
    BY <1>2, <2>3, <2>4, FS_RemoveElement
  <2>6. T \ {Picked(T)} \in SUBSET S
    BY <2>3
  <2>7. Cardinality(T \ {Picked(T)}) \in Nat /\ Cardinality(T) \in Nat
    BY <1>2, <2>3, <2>6
  <2>8. T \ {Picked(T)} \notin W
    <3> HIDE DEF W
    <3> QED BY <2>2, <2>5, <2>7
  <2>9. it[T \ {Picked(T)}] = g[T \ {Picked(T)}]
    BY <2>6, <2>8
  <2>10. it[T] = g[T]
    BY <1>3, <1>6, <2>3, <2>9
  <2> QED BY <2>2, <2>10
<1>8. it[S] = g[S]
  <2>1. S \in SUBSET S
    OBVIOUS
  <2> QED BY <1>7, <2>1
<1> QED BY <1>8, SumUnfolds

\* A sum of natural numbers is the number of the pairs under it.
LEMMA SumIsNumber ==
  ASSUME NEW f, NEW S, IsFiniteSet(S), \A x \in S : f[x] \in Nat
  PROVE  /\ IsFiniteSet(Under(f, S))
         /\ SumFunctionOnSet(f, S) = Cardinality(Under(f, S))
<1> DEFINE g == [T \in SUBSET S |-> Cardinality(Under(f, T))]
<1>1. \A T \in SUBSET S : \A x \in T : g[T] = f[x] + g[T \ {x}]
  <2> SUFFICES ASSUME NEW T \in SUBSET S, NEW x \in T
               PROVE  g[T] = f[x] + g[T \ {x}]
    OBVIOUS
  <2>1. IsFiniteSet(T) /\ \A y \in T : f[y] \in Nat
    BY FS_Subset
  <2>2. Cardinality(Under(f, T)) = f[x] + Cardinality(Under(f, T \ {x}))
    BY <2>1, UnderAdds
  <2>3. T \ {x} \in SUBSET S
    OBVIOUS
  <2> QED BY <2>2, <2>3
<1>2. g[{}] = 0
  <2>1. Under(f, {}) = {}
    BY DEF Under
  <2> QED BY <2>1, FS_EmptySet
<1>3. g \in [SUBSET S -> Nat] /\ g[S] = Cardinality(Under(f, S))
  <2>1. \A T \in SUBSET S : Cardinality(Under(f, T)) \in Nat
    BY UnderFinite, FS_CardinalityType
  <2> QED BY <2>1
<1>a. AddsUp(g, f, S)
  BY <1>1, <1>2, <1>3 DEF AddsUp
<1> HIDE DEF g
<1>4. SumFunctionOnSet(f, S) = g[S]
  BY <1>a, <1>3, SumSolved
<1>5. IsFiniteSet(Under(f, S))
  BY UnderFinite
<1> QED BY <1>3, <1>4, <1>5

-----------------------------------------------------------------------------
\* Every text has a piece.
AnyText == Seq(Nat) \ {<<>>}

\* The first pieces of a text: their sum is a number.
LEMMA PrefixSum ==
  ASSUME NEW p \in Seq(Nat), NEW n \in 0 .. Len(p)
  PROVE  /\ IsFiniteSet(Under(p, 1 .. n))
         /\ SumFunctionOnSet(p, 1 .. n) = Cardinality(Under(p, 1 .. n))
         /\ SumFunctionOnSet(p, 1 .. n) \in Nat
<1>1. IsFiniteSet(1 .. n)
  BY FS_Interval
<1>2. \A x \in 1 .. n : p[x] \in Nat
  OBVIOUS
<1>3. /\ IsFiniteSet(Under(p, 1 .. n))
      /\ SumFunctionOnSet(p, 1 .. n) = Cardinality(Under(p, 1 .. n))
  BY <1>1, <1>2, SumIsNumber
<1> QED BY <1>3, FS_CardinalityType

\* A sum over fewer, or over smaller ones, is no larger, and equal only if it is
\* over the same.
LEMMA SumGrows ==
  ASSUME NEW p \in Seq(Nat), NEW q \in Seq(Nat), NEW m \in 0 .. Len(q), NEW n \in 0 .. Len(p),
         m <= n, \A i \in 1 .. m : q[i] <= p[i]
  PROVE  /\ SumFunctionOnSet(q, 1 .. m) <= SumFunctionOnSet(p, 1 .. n)
         /\ SumFunctionOnSet(q, 1 .. m) = SumFunctionOnSet(p, 1 .. n) =>
              \A i \in 1 .. m : q[i] = p[i]
<1>1. Under(q, 1 .. m) \in SUBSET Under(p, 1 .. n)
  <2> SUFFICES ASSUME NEW u \in Under(q, 1 .. m)
               PROVE  u \in Under(p, 1 .. n)
    OBVIOUS
  <2>1. u \in (1 .. m) \X (Nat \ {0}) /\ u[2] <= q[u[1]]
    BY DEF Under
  <2>2. u \in (1 .. n) \X (Nat \ {0})
    BY <2>1
  <2>3. u[2] \in Nat /\ q[u[1]] \in Nat /\ p[u[1]] \in Nat /\ q[u[1]] <= p[u[1]]
    BY <2>1
  <2>4. u[2] <= p[u[1]]
    BY <2>1, <2>3
  <2> QED BY <2>2, <2>4 DEF Under
<1>2. /\ IsFiniteSet(Under(p, 1 .. n))
      /\ SumFunctionOnSet(p, 1 .. n) = Cardinality(Under(p, 1 .. n))
      /\ SumFunctionOnSet(q, 1 .. m) = Cardinality(Under(q, 1 .. m))
  BY PrefixSum
<1>3. /\ Cardinality(Under(q, 1 .. m)) <= Cardinality(Under(p, 1 .. n))
      /\ Cardinality(Under(p, 1 .. n)) = Cardinality(Under(q, 1 .. m)) =>
           Under(p, 1 .. n) = Under(q, 1 .. m)
  BY <1>1, <1>2, FS_Subset
<1>4. ASSUME Under(p, 1 .. n) = Under(q, 1 .. m), NEW i \in 1 .. m
      PROVE  q[i] = p[i]
  <2>1. q[i] \in Nat /\ p[i] \in Nat /\ q[i] <= p[i] /\ i \in 1 .. n
    OBVIOUS
  <2>2. CASE p[i] = 0
    BY <2>1, <2>2
  <2>3. CASE p[i] # 0
    <3>1. <<i, p[i]>> \in Under(p, 1 .. n)
      BY <2>1, <2>3 DEF Under
    <3>2. <<i, p[i]>> \in Under(q, 1 .. m)
      BY <1>4, <3>1
    <3>3. p[i] <= q[i]
      BY <3>2 DEF Under
    <3> QED BY <2>1, <3>3
  <2> QED BY <2>2, <2>3
<1> QED BY <1>2, <1>3, <1>4

\* A later piece does not start earlier.
LEMMA OffsetGrows ==
  ASSUME NEW p \in Seq(Nat), NEW i \in 1 .. Len(p) + 1, NEW j \in 1 .. Len(p) + 1, i <= j
  PROVE  Offset(p, i) \in Nat /\ Offset(p, j) \in Nat /\ Offset(p, i) <= Offset(p, j)
<1>1. i - 1 \in 0 .. Len(p) /\ j - 1 \in 0 .. Len(p) /\ i - 1 <= j - 1
  OBVIOUS
<1>2. \A k \in 1 .. i - 1 : p[k] <= p[k]
  <2>1. \A k \in 1 .. i - 1 : p[k] \in Nat
    BY <1>1
  <2> QED BY <2>1
<1>3. SumFunctionOnSet(p, 1 .. i - 1) <= SumFunctionOnSet(p, 1 .. j - 1)
  BY <1>1, <1>2, SumGrows
<1>4. SumFunctionOnSet(p, 1 .. i - 1) \in Nat /\ SumFunctionOnSet(p, 1 .. j - 1) \in Nat
  BY <1>1, PrefixSum
<1> QED BY <1>3, <1>4 DEF Offset

\* A set of numbers from 1 on, with all that are smaller than one in it.
LEMMA InitialPart ==
  ASSUME NEW n \in Nat, NEW K \in SUBSET (1 .. n), \A j \in K : \A i \in 1 .. j : i \in K
  PROVE  /\ K = 1 .. Cardinality(K)
         /\ Cardinality(K) \in 0 .. n
<1>1. IsFiniteSet(1 .. n) /\ Cardinality(1 .. n) = n
  BY FS_Interval
<1>2. PICK k \in 0 .. n : K = 1 .. k
  <2> DEFINE Free == {i \in 1 .. n + 1 : i \notin K}
  <2>1. Free \subseteq Nat /\ n + 1 \in Free
    OBVIOUS
  <2>2. PICK m \in Free : \A i \in Free : m <= i
    <3> HIDE DEF Free
    <3> QED BY <2>1, SmallestNat
  <2>3. m \in 1 .. n + 1 /\ m \notin K
    BY <2>2
  <2>4. ASSUME NEW i \in K
        PROVE  i \in 1 .. m - 1
    <3>1. i \in 1 .. n
      OBVIOUS
    <3>2. ~(m \in 1 .. i)
      BY <2>3
    <3> QED BY <2>3, <3>1, <3>2
  <2>5. ASSUME NEW i \in 1 .. m - 1
        PROVE  i \in K
    <3>1. i \in 1 .. n + 1 /\ i < m
      BY <2>3
    <3> QED BY <2>2, <3>1
  <2>6. K = 1 .. m - 1
    BY <2>4, <2>5
  <2>7. m - 1 \in 0 .. n
    BY <2>3
  <2> QED BY <2>6, <2>7
<1>3. Cardinality(1 .. k) = k
  BY FS_Interval
<1> QED BY <1>2, <1>3

\* A text cut off is a text of at most as many pieces, none of them longer, and it is
\* the whole text if it is not shorter.
LEMMA CutIs ==
  ASSUME NEW p \in AnyText, NEW limit \in Nat
  PROVE  /\ Cut(p, limit) \in AnyText
         /\ Len(Cut(p, limit)) <= Len(p)
         /\ \A i \in DOMAIN Cut(p, limit) : Cut(p, limit)[i] <= p[i]
         /\ Size(p) <= Size(Cut(p, limit)) => Cut(p, limit) = p
<1> DEFINE K == {i \in DOMAIN p : Offset(p, i) <= limit}
           q == Cut(p, limit)
<1>0. p \in Seq(Nat) /\ Len(p) \in Nat /\ DOMAIN p = 1 .. Len(p) /\ Len(p) # 0
  BY EmptySeq DEF AnyText
<1>1. ASSUME NEW j \in K, NEW i \in 1 .. j
      PROVE  i \in K
  <2>1. j \in 1 .. Len(p) /\ Offset(p, j) <= limit
    BY <1>0
  <2>2. i \in 1 .. Len(p) + 1 /\ j \in 1 .. Len(p) + 1 /\ i <= j
    BY <1>0, <2>1
  <2>3. Offset(p, i) \in Nat /\ Offset(p, j) \in Nat /\ Offset(p, i) <= Offset(p, j)
    BY <1>0, <2>2, OffsetGrows
  <2>4. Offset(p, i) <= limit
    BY <2>1, <2>3
  <2>5. i \in DOMAIN p
    BY <1>0, <2>1
  <2> QED BY <2>4, <2>5
<1>2. K = 1 .. Cardinality(K) /\ Cardinality(K) \in 0 .. Len(p)
  <2>1. K \in SUBSET (1 .. Len(p))
    BY <1>0
  <2> HIDE DEF K
  <2> QED BY <1>0, <1>1, <2>1, InitialPart
<1>3. 1 \in K
  <2>1. Offset(p, 1) = 0
    <3>1. Under(p, 1 .. 0) = {}
      BY DEF Under
    <3>2. SumFunctionOnSet(p, 1 .. 0) = 0
      BY <1>0, <3>1, PrefixSum, FS_EmptySet
    <3>3. 1 - 1 = 0
      OBVIOUS
    <3> QED BY <3>2, <3>3 DEF Offset
  <2>2. 1 \in DOMAIN p
    BY <1>0
  <2> QED BY <2>1, <2>2
<1>4. q = [i \in 1 .. Cardinality(K) |-> Smaller(p[i], limit - Offset(p, i))]
  BY DEF Cut
<1>5. ASSUME NEW i \in 1 .. Cardinality(K)
      PROVE  q[i] \in Nat /\ q[i] <= p[i]
  <2>1. i \in DOMAIN p /\ Offset(p, i) <= limit
    BY <1>2
  <2>2. Offset(p, i) \in Nat
    BY <1>0, <2>1, OffsetGrows
  <2>3. p[i] \in Nat
    BY <1>0, <2>1
  <2> HIDE DEF K, q
  <2> QED BY <1>4, <2>1, <2>2, <2>3 DEF Smaller
<1>6. Cardinality(K) \in 1 .. Len(p)
  BY <1>2, <1>3
<1> HIDE DEF K, q
<1>7. q \in Seq(Nat) /\ Len(q) = Cardinality(K) /\ DOMAIN q = 1 .. Len(q)
  <2>1. q \in [1 .. Cardinality(K) -> Nat]
    BY <1>4, <1>5
  <2>2. q \in Seq(Nat)
    BY <1>6, <2>1
  <2> QED BY <1>6, <2>1, <2>2
<1>8. q \in AnyText
  BY <1>6, <1>7, EmptySeq DEF AnyText
<1>9. ASSUME Size(p) <= Size(q)
      PROVE  q = p
  <2>1. Len(q) \in 0 .. Len(q) /\ Len(p) \in 0 .. Len(p) /\ Len(q) <= Len(p)
    BY <1>0, <1>6, <1>7
  <2>2. /\ SumFunctionOnSet(q, 1 .. Len(q)) <= SumFunctionOnSet(p, 1 .. Len(p))
        /\ SumFunctionOnSet(q, 1 .. Len(q)) = SumFunctionOnSet(p, 1 .. Len(p)) =>
             \A i \in 1 .. Len(q) : q[i] = p[i]
    BY <1>0, <1>5, <1>7, <2>1, SumGrows
  <2>3. /\ SumFunctionOnSet(q, 1 .. Len(q)) \in Nat
        /\ SumFunctionOnSet(p, 1 .. Len(p)) \in Nat
    BY <1>0, <1>7, <2>1, PrefixSum
  <2>4. ASSUME NEW t \in Seq(Nat)
        PROVE  Size(t) = Len(t) + SumFunctionOnSet(t, 1 .. Len(t)) - 1
    <3>1. Len(t) \in Nat /\ Len(t) + 1 - 1 = Len(t)
      OBVIOUS
    <3>2. Offset(t, Len(t) + 1) = Len(t) + SumFunctionOnSet(t, 1 .. Len(t))
      BY <3>1 DEF Offset
    <3>3. Size(t) = Offset(t, Len(t) + 1) - 1
      BY DEF Size
    <3>4. SumFunctionOnSet(t, 1 .. Len(t)) \in Nat
      BY <3>1, PrefixSum
    <3> HIDE DEF Size, Offset
    <3> QED BY <3>1, <3>2, <3>3, <3>4
  <2>6. /\ Size(q) = Len(q) + SumFunctionOnSet(q, 1 .. Len(q)) - 1
        /\ Size(p) = Len(p) + SumFunctionOnSet(p, 1 .. Len(p)) - 1
    BY <1>0, <1>7, <2>4
  <2>7. Len(q) = Len(p) /\ SumFunctionOnSet(q, 1 .. Len(q)) = SumFunctionOnSet(p, 1 .. Len(p))
    BY <1>9, <2>1, <2>2, <2>3, <2>6
  <2>8. \A i \in 1 .. Len(q) : q[i] = p[i]
    BY <2>2, <2>7
  <2> QED BY <1>0, <1>7, <2>7, <2>8, SeqEqual
<1>10. \A i \in DOMAIN q : q[i] <= p[i]
  BY <1>5, <1>7
<1>11. Len(q) <= Len(p)
  BY <1>6, <1>7
<1>12. q = Cut(p, limit)
  BY DEF q
<1> QED BY <1>8, <1>9, <1>10, <1>11, <1>12

-----------------------------------------------------------------------------
(* Cutting, shortening and joining *)

\* A summary.
Told == [lines : Seq(0 .. LineChars), lineCount : Nat, truncated : BOOLEAN]

\* Types of the limits.
LEMMA Limits ==
  /\ RunnerLines \subseteq Nat
  /\ LineChars \in Nat /\ RunnerChars \in Nat /\ CacheLines \in Nat /\ CacheChars \in Nat
  /\ BundleLines \in Nat /\ DisplayLines \in Nat
  BY LimitsAssumption

\* The first elements of a sequence are elements of it, all of it if no fewer.
LEMMA FirstOfIs ==
  ASSUME NEW S, NEW s \in Seq(S), NEW n \in Nat
  PROVE  /\ FirstOf(s, n) \in Seq(S)
         /\ Len(FirstOf(s, n)) <= Len(s)
         /\ \A i \in 1 .. Len(FirstOf(s, n)) : FirstOf(s, n)[i] = s[i]
         /\ Len(s) <= Len(FirstOf(s, n)) => FirstOf(s, n) = s
<1> DEFINE m == IF Len(s) < n THEN Len(s) ELSE n
<1>1. m \in 0 .. Len(s)
  OBVIOUS
<1>2. FirstOf(s, n) = SubSeq(s, 1, m)
  BY DEF FirstOf
<1> HIDE DEF m
<1>3. FirstOf(s, n) \in Seq(S) /\ Len(FirstOf(s, n)) = m
  BY <1>1, <1>2
<1>4. \A i \in 1 .. m : FirstOf(s, n)[i] = s[i]
  BY <1>1, <1>2
<1>5. ASSUME Len(s) <= m
      PROVE  FirstOf(s, n) = s
  <2>1. Len(s) = m
    BY <1>1, <1>5
  <2> QED BY <1>3, <1>4, <2>1, SeqEqual
<1> QED BY <1>1, <1>3, <1>4, <1>5

\* Shortened lines are no longer than before, nor than a line may be.
LEMMA ShortenedIs ==
  ASSUME NEW s \in Seq(Nat)
  PROVE  /\ Shortened(s) \in Seq(0 .. LineChars)
         /\ Len(Shortened(s)) = Len(s)
         /\ \A i \in 1 .. Len(s) : Shortened(s)[i] \in Nat /\ Shortened(s)[i] <= s[i]
         /\ s \in Seq(0 .. LineChars) => Shortened(s) = s
<1>1. Shortened(s) = [i \in 1 .. Len(s) |-> Smaller(s[i], LineChars)]
  BY DEF Shortened
<1>2. LineChars \in Nat /\ Len(s) \in Nat
  BY Limits
<1>3. ASSUME NEW i \in 1 .. Len(s)
      PROVE  /\ Smaller(s[i], LineChars) \in 0 .. LineChars
             /\ Smaller(s[i], LineChars) <= s[i]
             /\ s[i] <= LineChars => Smaller(s[i], LineChars) = s[i]
  <2>1. s[i] \in Nat
    OBVIOUS
  <2> QED BY <1>2, <2>1 DEF Smaller
<1>4. Shortened(s) \in Seq(0 .. LineChars) /\ Len(Shortened(s)) = Len(s)
  BY <1>1, <1>2, <1>3
<1>5. \A i \in 1 .. Len(s) : Shortened(s)[i] \in Nat /\ Shortened(s)[i] <= s[i]
  BY <1>1, <1>3
<1>6. ASSUME s \in Seq(0 .. LineChars)
      PROVE  Shortened(s) = s
  <2>1. \A i \in 1 .. Len(s) : s[i] <= LineChars
    <3>1. \A i \in 1 .. Len(s) : s[i] \in 0 .. LineChars
      BY <1>6, ElementOfSeq
    <3> QED BY <1>2, <3>1
  <2>2. \A i \in 1 .. Len(s) : Shortened(s)[i] = s[i]
    BY <1>1, <1>3, <2>1
  <2> QED BY <1>4, <1>6, <2>2, SeqEqual
<1> QED BY <1>4, <1>5, <1>6

\* The lines of a text are its pieces, but for an empty last one.
LEMMA LinesIs ==
  ASSUME NEW p \in AnyText
  PROVE  /\ Lines(p) \in Seq(Nat)
         /\ \A i \in 1 .. Len(Lines(p)) : Lines(p)[i] = p[i]
         /\ Len(Lines(p)) = IF p[Len(p)] = 0 THEN Len(p) - 1 ELSE Len(p)
         /\ p[Len(p)] # 0 => Lines(p) = p
<1>1. p \in Seq(Nat) /\ Len(p) \in Nat \ {0}
  BY EmptySeq DEF AnyText
<1>2. CASE p[Len(p)] = 0
  <2>1. Lines(p) = SubSeq(p, 1, Len(p) - 1)
    BY <1>2 DEF Lines
  <2>2. PICK m \in 0 .. Len(p) : m = Len(p) - 1
    <3>1. Len(p) - 1 \in 0 .. Len(p)
      BY <1>1
    <3> QED BY <3>1
  <2>3. Lines(p) \in Seq(Nat) /\ Len(Lines(p)) = Len(p) - 1
    <3>1. SubSeq(p, 1, m) \in Seq(Nat) /\ Len(SubSeq(p, 1, m)) = m
      BY <1>1, <2>2
    <3> QED BY <2>1, <2>2, <3>1
  <2>4. \A i \in 1 .. Len(p) - 1 : Lines(p)[i] = p[i]
    <3>1. \A i \in 1 .. m : SubSeq(p, 1, m)[i] = p[i]
      BY <1>1, <2>2
    <3> QED BY <2>1, <2>2, <3>1
  <2> QED BY <1>2, <2>3, <2>4
<1>3. CASE p[Len(p)] # 0
  <2>1. Lines(p) = p
    BY <1>3 DEF Lines
  <2> QED BY <1>1, <1>3, <2>1
<1> QED BY <1>2, <1>3

\* Of a text that is cut off somewhere there are no lines that were not there.
LEMMA FewerLines ==
  ASSUME NEW p \in AnyText, NEW q \in AnyText, Len(q) <= Len(p),
         \A i \in DOMAIN q : q[i] <= p[i]
  PROVE  /\ Len(Lines(q)) <= Len(Lines(p))
         /\ \A i \in 1 .. Len(Lines(q)) : Lines(q)[i] <= Lines(p)[i]
<1>1. /\ p \in Seq(Nat) /\ Len(p) \in Nat \ {0}
      /\ q \in Seq(Nat) /\ Len(q) \in Nat \ {0} /\ DOMAIN q = 1 .. Len(q)
  BY EmptySeq DEF AnyText
<1>2. ASSUME NEW t \in AnyText
      PROVE  /\ Len(Lines(t)) \in Nat
             /\ t[Len(t)] = 0 => Len(Lines(t)) = Len(t) - 1
             /\ t[Len(t)] # 0 => Len(Lines(t)) = Len(t)
  <2>1. Lines(t) \in Seq(Nat)
    BY LinesIs
  <2> QED BY <2>1, LinesIs
<1>3. Len(Lines(q)) <= Len(Lines(p)) /\ Len(Lines(q)) <= Len(q)
  <2>1. /\ Len(Lines(p)) \in Nat /\ Len(p) - 1 <= Len(Lines(p))
        /\ Len(Lines(q)) \in Nat /\ Len(Lines(q)) <= Len(q)
    <3>1. ASSUME NEW t \in AnyText, Len(t) \in Nat
          PROVE  Len(t) - 1 <= Len(Lines(t)) /\ Len(Lines(t)) <= Len(t)
      <4>1. CASE t[Len(t)] = 0
        BY <1>2, <3>1, <4>1
      <4>2. CASE t[Len(t)] # 0
        BY <1>2, <3>1, <4>2
      <4> QED BY <4>1, <4>2
    <3> QED BY <1>1, <1>2, <3>1
  <2>2. CASE Len(q) < Len(p)
    BY <1>1, <2>1, <2>2
  <2>3. CASE Len(q) = Len(p)
    <3>1. p[Len(p)] \in Nat /\ q[Len(q)] \in Nat /\ q[Len(q)] <= p[Len(p)]
      BY <1>1, <2>3
    <3>2. p[Len(p)] = 0 => q[Len(q)] = 0
      BY <3>1
    <3>3. CASE p[Len(p)] = 0
      <4>1. Len(Lines(p)) = Len(p) - 1 /\ Len(Lines(q)) = Len(q) - 1
        BY <1>2, <3>2, <3>3
      <4> QED BY <1>1, <2>3, <4>1
    <3>4. CASE p[Len(p)] # 0
      <4>1. Len(Lines(p)) = Len(p)
        BY <1>2, <3>4
      <4> QED BY <1>1, <2>1, <2>3, <4>1
    <3> QED BY <3>3, <3>4
  <2> QED BY <1>1, <2>1, <2>2, <2>3
<1>4. ASSUME NEW i \in 1 .. Len(Lines(q))
      PROVE  Lines(q)[i] <= Lines(p)[i]
  <2>1. i \in DOMAIN q /\ i \in 1 .. Len(Lines(p))
    <3>1. Len(Lines(q)) \in Nat /\ Len(Lines(p)) \in Nat
      BY <1>2
    <3> QED BY <1>1, <1>3, <3>1
  <2>2. Lines(q)[i] = q[i] /\ Lines(p)[i] = p[i]
    BY <2>1, LinesIs
  <2> QED BY <2>1, <2>2
<1> QED BY <1>3, <1>4

\* What a summary says of a text, at any limits.
LEMMA SummarizedIs ==
  ASSUME NEW p \in AnyText, NEW maxLines \in Nat, NEW maxChars \in Nat
  PROVE  LET s == Summarized(p, maxLines, maxChars) IN
         /\ s \in Told
         /\ Len(s.lines) <= s.lineCount
         /\ s.lineCount <= Len(Lines(p))
         /\ \A i \in 1 .. Len(s.lines) : s.lines[i] <= Lines(p)[i]
         /\ ~s.truncated => s.lines = Shortened(Lines(p))
<1> DEFINE seen == Cut(p, maxChars)
           all == Shortened(Lines(seen))
           lines == FirstOf(all, maxLines)
           s == Summarized(p, maxLines, maxChars)
           cut == \/ Size(p) > Size(seen)
                  \/ Len(Lines(seen)) > Len(lines)
<1>1. /\ seen \in AnyText /\ Len(seen) <= Len(p)
      /\ \A i \in DOMAIN seen : seen[i] <= p[i]
      /\ Size(p) <= Size(seen) => seen = p
  BY CutIs
<1>2. s = [lines |-> lines, lineCount |-> Len(Lines(seen)), truncated |-> cut]
  BY DEF Summarized
<1> HIDE DEF seen
<1>3. Lines(seen) \in Seq(Nat) /\ Lines(p) \in Seq(Nat)
  BY <1>1, LinesIs
<1>4. /\ Len(Lines(seen)) <= Len(Lines(p))
      /\ \A i \in 1 .. Len(Lines(seen)) : Lines(seen)[i] <= Lines(p)[i]
  BY <1>1, FewerLines
<1>5. /\ all \in Seq(0 .. LineChars) /\ Len(all) = Len(Lines(seen))
      /\ \A i \in 1 .. Len(Lines(seen)) : all[i] \in Nat /\ all[i] <= Lines(seen)[i]
  BY <1>3, ShortenedIs
<1>6. /\ lines \in Seq(0 .. LineChars) /\ Len(lines) <= Len(all)
      /\ \A i \in 1 .. Len(lines) : lines[i] = all[i]
      /\ Len(all) <= Len(lines) => lines = all
  <2> HIDE DEF all
  <2> QED BY <1>5, FirstOfIs
<1> HIDE DEF all, lines
<1>7. Len(Lines(seen)) \in Nat /\ Len(Lines(p)) \in Nat /\ Len(lines) \in Nat
  BY <1>3, <1>6
<1>8. s \in Told
  BY <1>2, <1>6, <1>7 DEF Told
<1>9. Len(lines) <= Len(Lines(seen))
  BY <1>5, <1>6
<1>10. ASSUME NEW i \in 1 .. Len(lines)
       PROVE  lines[i] <= Lines(p)[i]
  <2>1. i \in 1 .. Len(Lines(seen)) /\ i \in 1 .. Len(Lines(p))
    BY <1>4, <1>7, <1>9
  <2>2. lines[i] = all[i] /\ all[i] \in Nat /\ all[i] <= Lines(seen)[i]
        /\ Lines(seen)[i] <= Lines(p)[i]
    BY <1>4, <1>5, <1>6, <2>1
  <2>3. Lines(seen)[i] \in Nat /\ Lines(p)[i] \in Nat
    BY <1>3, <2>1
  <2> QED BY <2>2, <2>3
<1>11. ASSUME ~cut
       PROVE  lines = Shortened(Lines(p))
  <2>1. Len(all) <= Len(lines)
    BY <1>5, <1>7, <1>11
  <2>2. Size(p) <= Size(seen)
    <3>1. Size(p) \in Int /\ Size(seen) \in Int
      <4>1. ASSUME NEW t \in AnyText
            PROVE  Size(t) \in Int
        <5>1. t \in Seq(Nat) /\ Len(t) \in Nat
          BY DEF AnyText
        <5>2. Len(t) + 1 \in 1 .. Len(t) + 1 /\ Len(t) + 1 <= Len(t) + 1
          BY <5>1
        <5>3. Offset(t, Len(t) + 1) \in Nat
          BY <5>1, <5>2, OffsetGrows
        <5> QED BY <5>3 DEF Size
      <4> QED BY <1>1, <4>1
    <3>2. ~(Size(p) > Size(seen))
      BY <1>11
    <3> QED BY <3>1, <3>2
  <2>3. seen = p /\ lines = all
    BY <1>1, <1>6, <2>1, <2>2
  <2> QED BY <2>3 DEF all
<1> HIDE DEF cut
<1>12. s.lines = lines /\ s.lineCount = Len(Lines(seen)) /\ s.truncated = cut
  BY <1>2
<1> HIDE DEF s
<1>13. /\ s \in Told
       /\ Len(s.lines) <= s.lineCount
       /\ s.lineCount <= Len(Lines(p))
       /\ \A i \in 1 .. Len(s.lines) : s.lines[i] <= Lines(p)[i]
       /\ ~s.truncated => s.lines = Shortened(Lines(p))
  BY <1>4, <1>8, <1>9, <1>10, <1>11, <1>12
<1> QED BY <1>13 DEF s

-----------------------------------------------------------------------------
(* The invariant *)

\* Each output has a piece.
LEMMA TextsArePieces == Texts \subseteq AnyText
  BY TextsAssumption DEF AnyText

\* Nothing told is not a summary.
LEMMA UntoldIsNotTold == Untold \notin Told
<1>1. Told \subseteq [lines : Seq(Nat), lineCount : Nat, truncated : BOOLEAN]
  <2> SUFFICES ASSUME NEW s \in Told
               PROVE  s \in [lines : Seq(Nat), lineCount : Nat, truncated : BOOLEAN]
    OBVIOUS
  <2>1. s.lines \in Seq(0 .. LineChars)
    BY DEF Told
  <2>2. s.lines \in Seq(Nat)
    <3>1. \A i \in 1 .. Len(s.lines) : s.lines[i] \in Nat
      BY <2>1, Limits, ElementOfSeq
    <3> QED BY <2>1, <3>1
  <2> QED BY <2>2 DEF Told
<1> QED BY <1>1, UntoldAssumption

\* Nothing is told at first.
LEMMA OutputInitInv == OutputInit => OutputTypeOK /\ NothingLostSilently
  BY DEF OutputInit, OutputTypeOK, NothingLostSilently

\* Types of the lines of the output.
LEMMA TextLines ==
  ASSUME OutputTypeOK
  PROVE  /\ Lines(text) \in Seq(Nat)
         /\ Len(Lines(text)) \in Nat
         /\ Shortened(Lines(text)) \in Seq(0 .. LineChars)
         /\ Len(Shortened(Lines(text))) = Len(Lines(text))
<1>1. Lines(text) \in Seq(Nat)
  BY TextsArePieces, LinesIs DEF OutputTypeOK
<1> QED BY <1>1, ShortenedIs

\* What is told never becomes more.
LEMMA StillNothingLost ==
  ASSUME OutputTypeOK, NothingLostSilently, told # Untold, NEW told2 \in Told, NEW hop2,
         hop # "displayed",
         Len(told2.lines) <= Len(told.lines),
         \A i \in 1 .. Len(told2.lines) : told2.lines[i] <= told.lines[i],
         told2.lineCount = told.lineCount,
         ~told2.truncated /\ (hop2 = "displayed" => Len(told2.lines) = told2.lineCount)
           => ~told.truncated /\ told2.lines = told.lines
  PROVE  /\ ~told2.truncated /\ (hop2 = "displayed" => Len(told2.lines) = told2.lineCount)
              => told2.lines = Shortened(Lines(text))
         /\ \A i \in DOMAIN told2.lines :
              i <= Len(Lines(text)) /\ told2.lines[i] <= Lines(text)[i]
         /\ Len(told2.lines) <= told2.lineCount
         /\ told2.lineCount <= Len(Lines(text))
<1>1. told \in Told
  BY DEF OutputTypeOK, Told
<1>2. /\ told.lines \in Seq(0 .. LineChars) /\ told2.lines \in Seq(0 .. LineChars)
      /\ told.lineCount \in Nat /\ told2.lineCount \in Nat
      /\ told.truncated \in BOOLEAN /\ told2.truncated \in BOOLEAN
  BY <1>1 DEF Told
<1>3. /\ DOMAIN told.lines = 1 .. Len(told.lines) /\ Len(told.lines) \in Nat
      /\ DOMAIN told2.lines = 1 .. Len(told2.lines) /\ Len(told2.lines) \in Nat
  BY <1>2
<1>4. Lines(text) \in Seq(Nat) /\ Len(Lines(text)) \in Nat
  BY TextLines
<1>5. Len(told2.lines) <= told2.lineCount /\ told2.lineCount <= Len(Lines(text))
  BY <1>2, <1>3, <1>4 DEF NothingLostSilently
<1>6. ASSUME NEW i \in DOMAIN told2.lines
      PROVE  i <= Len(Lines(text)) /\ told2.lines[i] <= Lines(text)[i]
  <2>1. i \in 1 .. Len(told2.lines) /\ i \in 1 .. Len(told.lines)
    BY <1>3
  <2>2. i <= Len(Lines(text)) /\ told.lines[i] <= Lines(text)[i]
    BY <1>3, <2>1 DEF NothingLostSilently
  <2>3. told2.lines[i] \in 0 .. LineChars /\ told.lines[i] \in 0 .. LineChars
    BY <1>2, <2>1, ElementOfSeq
  <2>4. Lines(text)[i] \in Nat
    <3>1. i \in 1 .. Len(Lines(text))
      BY <1>4, <2>1, <2>2
    <3> QED BY <1>4, <3>1, ElementOfSeq
  <2>5. told2.lines[i] <= told.lines[i]
    BY <2>1
  <2>6. told2.lines[i] \in Int /\ told.lines[i] \in Int
    BY <2>3, Limits
  <2> QED BY <2>2, <2>4, <2>5, <2>6
<1>7. ~told.truncated => told.lines = Shortened(Lines(text))
  BY DEF NothingLostSilently, ToldAsWhole
<1> QED BY <1>5, <1>6, <1>7

\* The first summary is of the whole output.
LEMMA SummarizeInv ==
  ASSUME OutputTypeOK, Summarize
  PROVE  OutputTypeOK' /\ NothingLostSilently'
<1>1. PICK max \in RunnerLines : told' = Summarized(text, max, RunnerChars)
  BY DEF Summarize
<1>2. text \in AnyText /\ max \in Nat /\ RunnerChars \in Nat
  BY TextsArePieces, Limits DEF OutputTypeOK
<1>3. /\ told' \in Told
      /\ Len(told'.lines) <= told'.lineCount
      /\ told'.lineCount <= Len(Lines(text))
      /\ \A i \in 1 .. Len(told'.lines) : told'.lines[i] <= Lines(text)[i]
      /\ ~told'.truncated => told'.lines = Shortened(Lines(text))
  BY <1>1, <1>2, SummarizedIs
<1>4. text' = text /\ hop' = "summarized" /\ told' # Untold
  BY <1>3, UntoldIsNotTold DEF Summarize
<1>5. OutputTypeOK'
  BY <1>3, <1>4 DEF OutputTypeOK, Told
<1>6. \A i \in DOMAIN told'.lines : i <= Len(Lines(text)) /\ told'.lines[i] <= Lines(text)[i]
  <2>1. told'.lines \in Seq(0 .. LineChars) /\ told'.lineCount \in Nat
    BY <1>3 DEF Told
  <2>2. DOMAIN told'.lines = 1 .. Len(told'.lines) /\ Len(told'.lines) \in Nat
    BY <2>1
  <2>3. Len(Lines(text)) \in Nat
    BY TextLines
  <2> QED BY <1>3, <2>1, <2>2, <2>3
<1> QED BY <1>3, <1>4, <1>5, <1>6 DEF NothingLostSilently, ToldAsWhole

\* Types of what is told.
LEMMA ToldType ==
  ASSUME OutputTypeOK, told # Untold
  PROVE  /\ told \in Told
         /\ told.lines \in Seq(0 .. LineChars) /\ told.lines \in Seq(Nat)
         /\ Len(told.lines) \in Nat
         /\ told.lineCount \in Nat /\ told.truncated \in BOOLEAN
<1>1. told \in Told
  BY DEF OutputTypeOK, Told
<1>2. told.lines \in Seq(0 .. LineChars) /\ told.lineCount \in Nat /\ told.truncated \in BOOLEAN
  BY <1>1 DEF Told
<1>3. \A i \in 1 .. Len(told.lines) : told.lines[i] \in Nat
  BY <1>2, Limits, ElementOfSeq
<1>4. Len(told.lines) \in Nat /\ told.lines \in Seq(Nat)
  BY <1>2, <1>3
<1> QED BY <1>1, <1>2, <1>4

\* The lines of joined lines are those, but for an empty one at the end.
LEMMA JoinedIs ==
  ASSUME NEW s \in Seq(Nat)
  PROVE  /\ Joined(s) \in AnyText
         /\ Len(Lines(Joined(s))) <= Len(s)
         /\ \A i \in 1 .. Len(Lines(Joined(s))) : Lines(Joined(s))[i] = s[i]
         /\ Len(s) <= Len(Lines(Joined(s))) => Lines(Joined(s)) = s
<1>1. CASE s = <<>>
  <2>1. Joined(s) = <<0>>
    BY <1>1 DEF Joined
  <2>2. <<0>> \in Seq(Nat) /\ Len(<<0>>) = 1 /\ <<0>>[1] = 0
    OBVIOUS
  <2>3. Joined(s) \in AnyText
    BY <2>1, <2>2, EmptySeq DEF AnyText
  <2>4. Len(Lines(Joined(s))) = 0 /\ Lines(Joined(s)) \in Seq(Nat)
    BY <2>1, <2>2, <2>3, LinesIs
  <2>5. Lines(Joined(s)) = <<>>
    BY <2>4, EmptySeq
  <2>6. Len(s) = 0
    BY <1>1
  <2> QED BY <1>1, <2>3, <2>4, <2>5, <2>6
<1>2. CASE s # <<>>
  <2>1. Joined(s) = s /\ s \in AnyText
    BY <1>2 DEF Joined, AnyText
  <2>2. /\ \A i \in 1 .. Len(Lines(s)) : Lines(s)[i] = s[i]
        /\ s[Len(s)] = 0 => Len(Lines(s)) = Len(s) - 1
        /\ s[Len(s)] # 0 => Lines(s) = s
    BY <2>1, LinesIs
  <2>3. Len(s) \in Nat
    OBVIOUS
  <2>4. Len(Lines(s)) <= Len(s) /\ (Len(s) <= Len(Lines(s)) => Lines(s) = s)
    <3>1. CASE s[Len(s)] = 0
      BY <2>2, <2>3, <3>1
    <3>2. CASE s[Len(s)] # 0
      BY <2>2, <2>3, <3>2
    <3> QED BY <3>1, <3>2
  <2> QED BY <2>1, <2>2, <2>4
<1> QED BY <1>1, <1>2

\* The lines of a cache entry are cut from those of the runner: its flag is set when
\* any of them is lost, the empty last one too.
LEMMA CacheInv ==
  ASSUME OutputTypeOK, NothingLostSilently, Cache
  PROVE  OutputTypeOK' /\ NothingLostSilently'
<1> DEFINE joined == Joined(told.lines)
           own == Summarized(joined, CacheLines, CacheChars)
<1>1. /\ told # Untold /\ hop = "summarized" /\ hop' = "cached" /\ text' = text
      /\ told' = Cached(told)
  BY DEF Cache, OutputTypeOK
<1>2. /\ told.lines \in Seq(Nat) /\ told.lines \in Seq(0 .. LineChars)
      /\ Len(told.lines) \in Nat /\ told.lineCount \in Nat
      /\ told.truncated \in BOOLEAN
  BY <1>1, ToldType
<1>3. Len(told.lines) <= told.lineCount
  BY <1>1 DEF NothingLostSilently
<1>4. /\ joined \in AnyText
      /\ Len(Lines(joined)) <= Len(told.lines)
      /\ \A i \in 1 .. Len(Lines(joined)) : Lines(joined)[i] = told.lines[i]
      /\ Len(told.lines) <= Len(Lines(joined)) => Lines(joined) = told.lines
  BY <1>2, JoinedIs
<1>5. CacheLines \in Nat /\ CacheChars \in Nat
  BY Limits
<1> HIDE DEF joined
<1>6. /\ own \in Told
      /\ Len(own.lines) <= own.lineCount
      /\ own.lineCount <= Len(Lines(joined))
      /\ \A i \in 1 .. Len(own.lines) : own.lines[i] <= Lines(joined)[i]
      /\ ~own.truncated => own.lines = Shortened(Lines(joined))
  BY <1>4, <1>5, SummarizedIs
<1>7. Lines(joined) \in Seq(Nat) /\ Len(Lines(joined)) \in Nat
  BY <1>4, LinesIs
<1> DEFINE cut == \/ told.truncated \/ own.truncated
                  \/ Len(told.lines) > Len(own.lines)
                  \/ told.lineCount > Len(own.lines)
<1>8. told' = [lines |-> own.lines, lineCount |-> Larger(told.lineCount, own.lineCount),
               truncated |-> cut]
  BY <1>1 DEF Cached, joined
<1> HIDE DEF own
<1>9. own.lines \in Seq(0 .. LineChars) /\ Len(own.lines) \in Nat /\ own.lineCount \in Nat
  <2>1. own.lines \in Seq(0 .. LineChars) /\ own.lineCount \in Nat
    BY <1>6 DEF Told
  <2> QED BY <2>1
<1>10. /\ Larger(told.lineCount, own.lineCount) = told.lineCount
       /\ Len(own.lines) <= Len(told.lines)
  BY <1>2, <1>3, <1>4, <1>6, <1>7, <1>9 DEF Larger
<1>11. told' \in Told
  BY <1>2, <1>8, <1>9, <1>10 DEF Told
<1>12. \A i \in 1 .. Len(own.lines) : own.lines[i] <= told.lines[i]
  <2> SUFFICES ASSUME NEW i \in 1 .. Len(own.lines)
               PROVE  own.lines[i] <= told.lines[i]
    OBVIOUS
  <2>1. i \in 1 .. Len(Lines(joined))
    BY <1>6, <1>7, <1>9
  <2> QED BY <1>4, <1>6, <2>1
<1>13. ASSUME ~cut
       PROVE  ~told.truncated /\ own.lines = told.lines
  <2>1. ~own.truncated /\ Len(told.lines) <= Len(own.lines)
    BY <1>2, <1>9, <1>13
  <2>2. Len(told.lines) <= Len(Lines(joined))
    BY <1>2, <1>6, <1>7, <1>9, <2>1
  <2>3. own.lines = Shortened(told.lines)
    BY <1>4, <1>6, <2>1, <2>2
  <2> QED BY <1>2, <1>13, <2>3, ShortenedIs
<1> HIDE DEF cut
<1>14. /\ told'.lines = own.lines /\ told'.lineCount = told.lineCount /\ told'.truncated = cut
  BY <1>8, <1>10
<1>15. /\ ~told'.truncated /\ (hop' = "displayed" => Len(told'.lines) = told'.lineCount)
            => told'.lines = Shortened(Lines(text))
       /\ \A i \in DOMAIN told'.lines :
            i <= Len(Lines(text)) /\ told'.lines[i] <= Lines(text)[i]
       /\ Len(told'.lines) <= told'.lineCount
       /\ told'.lineCount <= Len(Lines(text))
  <2>1. hop # "displayed"
    BY <1>1
  <2>2. Len(told'.lines) <= Len(told.lines)
    BY <1>10, <1>14
  <2>3. \A i \in 1 .. Len(told'.lines) : told'.lines[i] <= told.lines[i]
    BY <1>12, <1>14
  <2>4. told'.lineCount = told.lineCount
    BY <1>14
  <2>5. ~told'.truncated => ~told.truncated /\ told'.lines = told.lines
    BY <1>13, <1>14
  <2> QED BY <1>1, <1>11, <2>1, <2>2, <2>3, <2>4, <2>5, StillNothingLost
<1>16. OutputTypeOK'
  BY <1>1, <1>11, UntoldIsNotTold DEF OutputTypeOK, Told
<1> QED BY <1>1, <1>15, <1>16 DEF NothingLostSilently, ToldAsWhole

\* The bundle sets the flag when it leaves out lines.
LEMMA BundleInv ==
  ASSUME OutputTypeOK, NothingLostSilently, Bundle
  PROVE  OutputTypeOK' /\ NothingLostSilently'
<1> DEFINE lines == FirstOf(told.lines, BundleLines)
           cut == told.truncated \/ Len(told.lines) > Len(lines)
<1>1. /\ told # Untold /\ hop \in {"summarized", "cached"} /\ hop' = "bundled" /\ text' = text
      /\ told' = Bundled(told)
  BY DEF Bundle, OutputTypeOK
<1>2. /\ told \in Told /\ told.lines \in Seq(0 .. LineChars) /\ Len(told.lines) \in Nat
      /\ told.lineCount \in Nat /\ told.truncated \in BOOLEAN
  BY <1>1, ToldType
<1>3. told' = [lines |-> lines, lineCount |-> told.lineCount, truncated |-> cut]
  BY <1>1, <1>2 DEF Bundled, Told
<1>4. /\ lines \in Seq(0 .. LineChars) /\ Len(lines) <= Len(told.lines)
      /\ \A i \in 1 .. Len(lines) : lines[i] = told.lines[i]
      /\ Len(told.lines) <= Len(lines) => lines = told.lines
  BY <1>2, Limits, FirstOfIs
<1> HIDE DEF lines
<1>5. told' \in Told
  BY <1>2, <1>3, <1>4 DEF Told
<1>6. \A i \in 1 .. Len(lines) : lines[i] <= told.lines[i]
  <2>1. \A i \in 1 .. Len(lines) : lines[i] \in 0 .. LineChars
    BY <1>4, ElementOfSeq
  <2> QED BY <1>4, <2>1, Limits
<1>7. ASSUME ~cut
      PROVE  ~told.truncated /\ lines = told.lines
  <2>1. Len(lines) \in Nat
    BY <1>4
  <2> QED BY <1>2, <1>4, <1>7, <2>1
<1> HIDE DEF cut
<1>8. told'.lines = lines /\ told'.lineCount = told.lineCount /\ told'.truncated = cut
  BY <1>3
<1>9. /\ ~told'.truncated /\ (hop' = "displayed" => Len(told'.lines) = told'.lineCount)
           => told'.lines = Shortened(Lines(text))
      /\ \A i \in DOMAIN told'.lines :
           i <= Len(Lines(text)) /\ told'.lines[i] <= Lines(text)[i]
      /\ Len(told'.lines) <= told'.lineCount
      /\ told'.lineCount <= Len(Lines(text))
  <2>1. hop # "displayed"
    BY <1>1
  <2>2. Len(told'.lines) <= Len(told.lines)
    BY <1>4, <1>8
  <2>3. \A i \in 1 .. Len(told'.lines) : told'.lines[i] <= told.lines[i]
    BY <1>6, <1>8
  <2>4. told'.lineCount = told.lineCount
    BY <1>8
  <2>5. ~told'.truncated => ~told.truncated /\ told'.lines = told.lines
    BY <1>7, <1>8
  <2> QED BY <1>1, <1>5, <2>1, <2>2, <2>3, <2>4, <2>5, StillNothingLost
<1>10. OutputTypeOK'
  BY <1>1, <1>5, UntoldIsNotTold DEF OutputTypeOK, Told
<1> QED BY <1>1, <1>9, <1>10 DEF NothingLostSilently, ToldAsWhole

\* The display leaves out lines without a flag, but says how many there were.
LEMMA DisplayInv ==
  ASSUME OutputTypeOK, NothingLostSilently, Display
  PROVE  OutputTypeOK' /\ NothingLostSilently'
<1> DEFINE lines == FirstOf(told.lines, DisplayLines)
<1>1. /\ told # Untold /\ hop = "cached" /\ hop' = "displayed" /\ text' = text
      /\ told' = Displayed(told)
  BY DEF Display, OutputTypeOK
<1>2. /\ told \in Told /\ told.lines \in Seq(0 .. LineChars) /\ Len(told.lines) \in Nat
      /\ told.lineCount \in Nat /\ told.truncated \in BOOLEAN
  BY <1>1, ToldType
<1>3. told' = [lines |-> lines, lineCount |-> told.lineCount, truncated |-> told.truncated]
  BY <1>1, <1>2 DEF Displayed, Told
<1>4. /\ lines \in Seq(0 .. LineChars) /\ Len(lines) <= Len(told.lines)
      /\ \A i \in 1 .. Len(lines) : lines[i] = told.lines[i]
      /\ Len(told.lines) <= Len(lines) => lines = told.lines
  BY <1>2, Limits, FirstOfIs
<1> HIDE DEF lines
<1>5. told' \in Told
  BY <1>2, <1>3, <1>4 DEF Told
<1>6. \A i \in 1 .. Len(lines) : lines[i] <= told.lines[i]
  <2>1. \A i \in 1 .. Len(lines) : lines[i] \in 0 .. LineChars
    BY <1>4, ElementOfSeq
  <2> QED BY <1>4, <2>1, Limits
<1>7. told'.lines = lines /\ told'.lineCount = told.lineCount
      /\ told'.truncated = told.truncated
  BY <1>3
<1>8. ASSUME Len(lines) = told.lineCount
      PROVE  lines = told.lines
  <2>1. Len(told.lines) <= told.lineCount
    BY <1>1 DEF NothingLostSilently
  <2> QED BY <1>4, <1>8, <2>1
<1>9. /\ ~told'.truncated /\ (hop' = "displayed" => Len(told'.lines) = told'.lineCount)
           => told'.lines = Shortened(Lines(text))
      /\ \A i \in DOMAIN told'.lines :
           i <= Len(Lines(text)) /\ told'.lines[i] <= Lines(text)[i]
      /\ Len(told'.lines) <= told'.lineCount
      /\ told'.lineCount <= Len(Lines(text))
  <2>1. hop # "displayed"
    BY <1>1
  <2>2. Len(told'.lines) <= Len(told.lines)
    BY <1>4, <1>7
  <2>3. \A i \in 1 .. Len(told'.lines) : told'.lines[i] <= told.lines[i]
    BY <1>6, <1>7
  <2>4. told'.lineCount = told.lineCount
    BY <1>7
  <2>5. ~told'.truncated /\ (hop' = "displayed" => Len(told'.lines) = told'.lineCount)
          => ~told.truncated /\ told'.lines = told.lines
    BY <1>1, <1>7, <1>8
  <2> QED BY <1>1, <1>5, <2>1, <2>2, <2>3, <2>4, <2>5, StillNothingLost
<1>10. OutputTypeOK'
  BY <1>1, <1>5, UntoldIsNotTold DEF OutputTypeOK, Told
<1> QED BY <1>1, <1>9, <1>10 DEF NothingLostSilently, ToldAsWhole

\* Each hop keeps both.
LEMMA OutputStepInv ==
  OutputTypeOK /\ NothingLostSilently /\ [OutputNext]_outputVars => (OutputTypeOK /\ NothingLostSilently)'
<1> SUFFICES ASSUME OutputTypeOK, NothingLostSilently, [OutputNext]_outputVars
             PROVE  (OutputTypeOK /\ NothingLostSilently)'
  OBVIOUS
<1>1. CASE Summarize
  BY <1>1, SummarizeInv
<1>2. CASE Cache
  BY <1>2, CacheInv
<1>3. CASE Bundle
  BY <1>3, BundleInv
<1>4. CASE Display
  BY <1>4, DisplayInv
<1>5. CASE UNCHANGED outputVars
  BY <1>5 DEF outputVars, OutputTypeOK, NothingLostSilently, ToldAsWhole
<1> QED BY <1>1, <1>2, <1>3, <1>4, <1>5 DEF OutputNext

\* Both together are inductive.
LEMMA OutputInvariance == OutputSpec => [](OutputTypeOK /\ NothingLostSilently)
  BY OutputInitInv, OutputStepInv, PTL DEF OutputSpec

-----------------------------------------------------------------------------
(* How often a value is in a list *)

\* The places at which a function has one of some values.
Having(key, T) == {i \in DOMAIN key : key[i] \in T}

\* Each key is counted.
CountsEach(f, key, K) == \A k \in K : f[k] = Cardinality(Having(key, {k}))

\* The sum of how often each of some values is there is how often any of them is.
LEMMA SumOfNumbers ==
  ASSUME NEW key, IsFiniteSet(DOMAIN key), NEW K, IsFiniteSet(K), NEW f, CountsEach(f, key, K)
  PROVE  SumFunctionOnSet(f, K) = Cardinality(Having(key, K))
<1> DEFINE g == [T \in SUBSET K |-> Cardinality(Having(key, T))]
<1>1. ASSUME NEW T \in SUBSET K, NEW x \in T
      PROVE  g[T] = f[x] + g[T \ {x}]
  <2>1. f[x] = Cardinality(Having(key, {x}))
    BY DEF CountsEach
  <2>2. /\ Having(key, T) = Having(key, {x}) \cup Having(key, T \ {x})
        /\ Having(key, {x}) \cap Having(key, T \ {x}) = {}
    BY DEF Having
  <2>3. IsFiniteSet(Having(key, {x})) /\ IsFiniteSet(Having(key, T \ {x}))
    BY FS_Subset DEF Having
  <2>4. Cardinality(Having(key, T)) =
          Cardinality(Having(key, {x})) + Cardinality(Having(key, T \ {x}))
            - Cardinality(Having(key, {x}) \cap Having(key, T \ {x}))
    BY <2>2, <2>3, FS_Union
  <2>5. Cardinality(Having(key, {x}) \cap Having(key, T \ {x})) = 0
    BY <2>2, FS_EmptySet
  <2>6. Cardinality(Having(key, {x})) \in Nat /\ Cardinality(Having(key, T \ {x})) \in Nat
    BY <2>3, FS_CardinalityType
  <2>7. T \ {x} \in SUBSET K
    OBVIOUS
  <2> QED BY <2>1, <2>4, <2>5, <2>6, <2>7
<1>2. g[{}] = 0
  <2>1. Having(key, {}) = {}
    BY DEF Having
  <2> QED BY <2>1, FS_EmptySet
<1>3. g \in [SUBSET K -> Nat] /\ g[K] = Cardinality(Having(key, K))
  <2>1. \A T \in SUBSET K : IsFiniteSet(Having(key, T))
    BY FS_Subset DEF Having
  <2>2. \A T \in SUBSET K : Cardinality(Having(key, T)) \in Nat
    BY <2>1, FS_CardinalityType
  <2> QED BY <2>2
<1>4. AddsUp(g, f, K)
  BY <1>1, <1>2, <1>3 DEF AddsUp
<1> HIDE DEF g
<1> QED BY <1>3, <1>4, SumSolved

\* A set written out is finite.
LEMMA FewAreFinite ==
  ASSUME NEW a, NEW b, NEW c, NEW d, NEW e, NEW f, NEW g
  PROVE  IsFiniteSet({a, b, c, d, e, f, g})
<1>0. IsFiniteSet({g})
  BY FS_Singleton
<1>1. IsFiniteSet({f, g})
  BY <1>0, FS_AddElement, {f, g} = {g} \cup {f}
<1>2. IsFiniteSet({e, f, g})
  BY <1>1, FS_AddElement, {e, f, g} = {f, g} \cup {e}
<1>3. IsFiniteSet({d, e, f, g})
  BY <1>2, FS_AddElement, {d, e, f, g} = {e, f, g} \cup {d}
<1>4. IsFiniteSet({c, d, e, f, g})
  BY <1>3, FS_AddElement, {c, d, e, f, g} = {d, e, f, g} \cup {c}
<1>5. IsFiniteSet({b, c, d, e, f, g})
  BY <1>4, FS_AddElement, {b, c, d, e, f, g} = {c, d, e, f, g} \cup {b}
<1> QED
  BY <1>5, FS_AddElement, {a, b, c, d, e, f, g} = {b, c, d, e, f, g} \cup {a}

\* The instances of the contracts have the same functions.
LEMMA SameFunctions ==
  /\ \A S : /\ H!Cardinality(S) = Cardinality(S)
            /\ D!Cardinality(S) = Cardinality(S)
            /\ X!Cardinality(S) = Cardinality(S)
  /\ \A f, S : /\ H!SumFunctionOnSet(f, S) = SumFunctionOnSet(f, S)
               /\ D!SumFunctionOnSet(f, S) = SumFunctionOnSet(f, S)
               /\ X!SumFunctionOnSet(f, S) = SumFunctionOnSet(f, S)
<1>1. \A S : /\ H!Cardinality(S) = Cardinality(S)
            /\ D!Cardinality(S) = Cardinality(S)
            /\ X!Cardinality(S) = Cardinality(S)
  BY DEF H!Cardinality, D!Cardinality, X!Cardinality, Cardinality
<1>2. \A f, S : H!SumFunctionOnSet(f, S) = SumFunctionOnSet(f, S)
  BY DEF H!SumFunctionOnSet, H!FoldFunctionOnSet, H!MapThenFoldSet,
         SumFunctionOnSet, FoldFunctionOnSet, MapThenFoldSet
<1>3. \A f, S : D!SumFunctionOnSet(f, S) = SumFunctionOnSet(f, S)
  BY DEF D!SumFunctionOnSet, D!FoldFunctionOnSet, D!MapThenFoldSet,
         SumFunctionOnSet, FoldFunctionOnSet, MapThenFoldSet
<1>4. \A f, S : X!SumFunctionOnSet(f, S) = SumFunctionOnSet(f, S)
  BY DEF X!SumFunctionOnSet, X!FoldFunctionOnSet, X!MapThenFoldSet,
         SumFunctionOnSet, FoldFunctionOnSet, MapThenFoldSet
<1> QED BY <1>1, <1>2, <1>3, <1>4

\* What CountBy() counts, and the property.
LEMMA CountByIs ==
  ASSUME NEW list, NEW key, NEW K
  PROVE  LET counts == CountBy(Column(list, key), K) IN
         /\ DOMAIN counts = K
         /\ \A k \in K : counts[k] = NumberWith(list, key, k)
<1> DEFINE column == Column(list, key)
<1>1. DOMAIN column = DOMAIN list /\ \A i \in DOMAIN list : column[i] = list[i][key]
  BY DEF Column
<1> HIDE DEF column
<1>2. \A v : {i \in DOMAIN column : column[i] = v} = {i \in DOMAIN list : list[i][key] = v}
  BY <1>1
<1> QED BY <1>2 DEF CountBy, NumberWith, column

\* The elements of a list, each with one of the values.
NumbersOf(f, list, key, K) == \A k \in K : f[k] = NumberWith(list, key, k)
AllWith(list, key, K) == \A i \in DOMAIN list : list[i][key] \in K

\* The sum of the numbers of elements with each value is the length of the list.
LEMMA ColumnSum ==
  ASSUME NEW S, NEW list \in Seq(S), NEW key, NEW K, IsFiniteSet(K), NEW f,
         NumbersOf(f, list, key, K), AllWith(list, key, K)
  PROVE  SumFunctionOnSet(f, K) = Len(list)
<1> DEFINE column == Column(list, key)
<1>1. /\ DOMAIN column = 1 .. Len(list) /\ \A i \in DOMAIN list : column[i] = list[i][key]
      /\ Len(list) \in Nat /\ DOMAIN list = 1 .. Len(list)
  BY DEF Column
<1> HIDE DEF column
<1>2. CountsEach(f, column, K)
  <2>1. \A v : Having(column, {v}) = {i \in DOMAIN list : list[i][key] = v}
    BY <1>1 DEF Having
  <2> QED BY <2>1 DEF CountsEach, NumbersOf, NumberWith
<1>3. IsFiniteSet(1 .. Len(list)) /\ Cardinality(1 .. Len(list)) = Len(list)
  BY <1>1, FS_Interval
<1>4. SumFunctionOnSet(f, K) = Cardinality(Having(column, K))
  BY <1>1, <1>2, <1>3, SumOfNumbers
<1>5. Having(column, K) = 1 .. Len(list)
  BY <1>1 DEF Having, AllWith
<1> QED BY <1>3, <1>4, <1>5

-----------------------------------------------------------------------------
(* Handoffs *)

\* What is known of a handoff the consumer accepts.
LEMMA HAccepted ==
  ASSUME NEW d \in H!Document, H!Errors(d) = {}
  PROVE  /\ DOMAIN d.field = H!Fields
         /\ \A f \in H!Policies : d.field[f] = "good"
         /\ \A f \in H!Required : d.field[f] # "absent"
         /\ \A f \in H!ReferenceNames : IsText(d.field[f])
         /\ \A i \in DOMAIN d.diagnostics : /\ d.diagnostics[i].severity \in H!Severities
                                            /\ d.diagnostics[i].category \in H!Categories
         /\ \A i \in DOMAIN d.transport : d.transport[i] = "good"
         /\ \A i \in DOMAIN d.limitations : IsText(d.limitations[i])
         /\ "unsafe" \notin Range(d.field)
         /\ "unsafe" \notin Range(d.limitations)
<1>1. /\ H!Missing(d.field, H!Required) = {}
      /\ H!Unexpected(d.field, H!Policies) = {}
      /\ H!NotText(d.field, H!ReferenceNames) = {}
      /\ H!DiagnosticErrors(d.diagnostics) = {}
      /\ H!TransportErrors(d.transport) = {}
      /\ H!NotTexts("limitations", d.limitations) = {}
      /\ H!Scanned(H!Range(d.field) \cup H!Range(d.limitations)) = {}
  BY DEF H!Errors
<1>2. DOMAIN d.field = H!Fields /\ \A f \in H!Fields : H!At(d.field, f) = d.field[f]
  BY DEF H!Document, H!At
<1>3. H!Policies \subseteq H!Fields /\ H!Required \subseteq H!Fields
      /\ H!ReferenceNames \subseteq H!Fields
  BY DEF H!Fields
<1>4. \A f \in H!Policies : d.field[f] = "good"
  BY <1>1, <1>2, <1>3 DEF H!Unexpected
<1>5. \A f \in H!Required : d.field[f] # "absent"
  BY <1>1, <1>2, <1>3 DEF H!Missing
<1>6. \A f \in H!ReferenceNames : IsText(d.field[f])
  BY <1>1, <1>2, <1>3 DEF H!NotText, H!IsText, IsText
<1>7. \A i \in DOMAIN d.diagnostics : /\ d.diagnostics[i].severity \in H!Severities
                                      /\ d.diagnostics[i].category \in H!Categories
  BY <1>1 DEF H!DiagnosticErrors, H!ErrorIf, H!Range
<1>8. \A i \in DOMAIN d.transport : d.transport[i] = "good"
  <2>1. H!Range(d.transport) = {"good"} \/ d.transport = <<>>
    BY <1>1 DEF H!TransportErrors, H!ErrorIf
  <2> QED BY <2>1 DEF H!Range
<1>9. \A i \in DOMAIN d.limitations : IsText(d.limitations[i])
  BY <1>1 DEF H!NotTexts, H!ErrorIf, H!IsText, IsText
<1>10. "unsafe" \notin Range(d.field) /\ "unsafe" \notin Range(d.limitations)
  BY <1>1 DEF H!Scanned, H!ErrorIf, H!Range, Range
<1> QED BY <1>2, <1>4, <1>5, <1>6, <1>7, <1>8, <1>9, <1>10
\* The fields of its summary.
LEMMA HSummaryIs ==
  ASSUME NEW d \in H!Document
  PROVE  LET field == H!Summary(d).field IN
         /\ DOMAIN field = DOMAIN H!CopiedFields \cup H!SummarySafety
                             \cup {"version", "kind", "referenceKind"}
         /\ \A p \in DOMAIN H!CopiedFields : field[p] = d.field[H!CopiedFields[p]]
         /\ \A p \in H!SummarySafety \cup {"version", "kind", "referenceKind"} : field[p] = "good"
<1> DEFINE field == H!Summary(d).field
           own == H!SummarySafety \cup {"version", "kind", "referenceKind"}
<1>1. field = H!Merged(H!Copied(d.field, H!CopiedFields), H!AllGood(own))
  BY DEF H!Summary
<1>2. DOMAIN H!CopiedFields = {"handoffSchemaVersion", "handoffId", "handoffKind", "producerId",
                               "consumerId", "targetKind", "launcherOperationId", "modelId", "runtimeId"}
  BY DEF H!CopiedFields
<1>3. DOMAIN H!CopiedFields \cap own = {}
  BY <1>2 DEF H!SummarySafety
<1>4. \A p \in DOMAIN H!CopiedFields : H!CopiedFields[p] \in H!Fields
  BY DEF H!CopiedFields, H!Fields, H!Policies, H!Identity, H!Required, H!Ignored,
         H!ReferenceNames, H!ReferenceKinds
<1> HIDE DEF own
<1>5. /\ DOMAIN field = DOMAIN H!CopiedFields \cup own
      /\ \A p \in DOMAIN H!CopiedFields : field[p] = H!At(d.field, H!CopiedFields[p])
      /\ \A p \in own : field[p] = "good"
  BY <1>1, <1>3 DEF H!Merged, H!Copied, H!AllGood
<1>6. \A p \in DOMAIN H!CopiedFields : H!At(d.field, H!CopiedFields[p]) = d.field[H!CopiedFields[p]]
  BY <1>4 DEF H!At, H!Document
<1> QED BY <1>5, <1>6 DEF own

\* What the checks of the surface but that of the counts find in its summary.
LEMMA HShown ==
  ASSUME NEW d \in H!Document, H!Errors(d) = {}
  PROVE  LET s == H!Summary(d) IN
         /\ H!Unexpected(s.field, H!SurfacePolicies \cup H!SurfaceSafety) = {}
         /\ H!NotText(s.field, H!SurfaceNames) = {} <=> NotText(d.field, NamesOnlyShownIfTexts) = {}
         /\ H!NotTexts("transportKinds", s.lists["transportKinds"]) = {}
         /\ H!NotTexts("limitations", s.lists["limitations"]) = {}
         /\ H!Scanned(H!Range(s.field) \cup UNION {H!Range(l) : l \in H!Range(s.lists)}) = {}
<1> DEFINE s == H!Summary(d)
           field == s.field
<1>1. /\ DOMAIN field = DOMAIN H!CopiedFields \cup H!SummarySafety
                          \cup {"version", "kind", "referenceKind"}
      /\ \A p \in DOMAIN H!CopiedFields : field[p] = d.field[H!CopiedFields[p]]
      /\ \A p \in H!SummarySafety \cup {"version", "kind", "referenceKind"} : field[p] = "good"
  BY HSummaryIs
<1>2. s.lists = [transportKinds |-> d.transport, limitations |-> d.limitations]
  BY DEF H!Summary
<1> HIDE DEF s
<1>3. /\ H!SurfaceSafety = H!SummarySafety
      /\ H!Policies \subseteq H!Fields
  BY DEF H!SurfaceSafety, H!SummarySafety, H!Fields
<1>4. /\ field["handoffId"] = d.field["handoffId"]
      /\ field["producerId"] = d.field["producer.id"]
      /\ field["consumerId"] = d.field["consumer.id"]
      /\ field["targetKind"] = d.field["targetKind"]
      /\ field["launcherOperationId"] = "good"
      /\ IsText(field["modelId"])
      /\ IsText(field["runtimeId"])
      /\ field["referenceKind"] = "good"
      /\ field["handoffSchemaVersion"] = "good"
      /\ field["handoffKind"] = "good"
  BY <1>1, HAccepted DEF H!CopiedFields, H!Policies, H!Identity, H!ReferenceKinds,
                         H!ReferenceNames
<1>5. H!SurfaceNames \cup H!SurfacePolicies \subseteq DOMAIN field
  BY <1>1 DEF H!SurfaceNames, H!SurfacePolicies, H!CopiedFields
<1>6. H!Unexpected(field, H!SurfacePolicies \cup H!SurfaceSafety) = {}
  <2>1. \A p \in H!SurfacePolicies \cup H!SurfaceSafety : p \in DOMAIN field /\ field[p] = "good"
    BY <1>1, <1>3, <1>4, <1>5 DEF H!SurfacePolicies
  <2> QED BY <2>1 DEF H!Unexpected, H!At
<1>7. H!NotText(field, H!SurfaceNames) = {} <=> NotText(d.field, NamesOnlyShownIfTexts) = {}
  <2>1. H!NotText(field, H!SurfaceNames) = {} <=> \A p \in H!SurfaceNames : IsText(field[p])
    BY <1>5 DEF H!NotText, H!At, H!IsText, IsText
  <2>2. (\A p \in H!SurfaceNames : IsText(field[p])) <=>
        \A f \in NamesOnlyShownIfTexts : IsText(d.field[f])
    BY <1>4 DEF H!SurfaceNames, NamesOnlyShownIfTexts, IsText
  <2>3. NamesOnlyShownIfTexts \subseteq DOMAIN d.field
    BY HAccepted DEF NamesOnlyShownIfTexts, H!Fields, H!Required, H!Ignored
  <2> QED BY <2>1, <2>2, <2>3 DEF NotText, At
<1>8. /\ s.lists["transportKinds"] = d.transport /\ s.lists["limitations"] = d.limitations
      /\ H!Range(s.lists) = {d.transport, d.limitations}
  BY <1>2 DEF H!Range
<1>9. /\ H!NotTexts("transportKinds", d.transport) = {}
      /\ H!NotTexts("limitations", d.limitations) = {}
  BY HAccepted DEF H!NotTexts, H!ErrorIf, H!IsText, IsText
<1>10. "unsafe" \notin H!Range(field)
  <2>1. \A p \in DOMAIN H!CopiedFields : H!CopiedFields[p] \in H!Fields
    BY DEF H!CopiedFields, H!Fields, H!Policies, H!Identity, H!Required, H!Ignored,
           H!ReferenceNames, H!ReferenceKinds
  <2>2. \A f \in H!Fields : d.field[f] # "unsafe"
    BY HAccepted DEF Range
  <2> QED BY <1>1, <2>1, <2>2 DEF H!Range
<1>11. "unsafe" \notin H!Range(d.transport) /\ "unsafe" \notin H!Range(d.limitations)
  BY HAccepted DEF H!Range, Range
<1>12. H!Scanned(H!Range(field) \cup UNION {H!Range(l) : l \in H!Range(s.lists)}) = {}
  BY <1>8, <1>10, <1>11 DEF H!Scanned, H!ErrorIf
<1> QED BY <1>6, <1>7, <1>8, <1>9, <1>12 DEF s
\* What a summary of a handoff counts.
LEMMA HCounts ==
  ASSUME NEW d \in H!Document
  PROVE  LET counts == H!Summary(d).counts IN
         /\ counts["count"] = Len(d.diagnostics)
         /\ \A s \in H!Severities : counts[s] = NumberWith(d.diagnostics, "severity", s)
         /\ \A c \in H!Categories : counts[c] = NumberWith(d.diagnostics, "category", c)
<1> DEFINE counts == H!Summary(d).counts
           severities == H!CountBy(H!Column(d.diagnostics, "severity"), H!Severities)
           categories == H!CountBy(H!Column(d.diagnostics, "category"), H!Categories)
           rest == [count |-> Len(d.diagnostics)]
<1>1. counts = H!Merged(severities, H!Merged(categories, rest))
  BY DEF H!Summary, H!DiagnosticCounts
<1>2. /\ DOMAIN severities = H!Severities
      /\ \A s \in H!Severities : severities[s] = NumberWith(d.diagnostics, "severity", s)
  BY SameFunctions, CountByIs DEF H!CountBy, H!Column, CountBy, Column
<1>3. /\ DOMAIN categories = H!Categories
      /\ \A s \in H!Categories : categories[s] = NumberWith(d.diagnostics, "category", s)
  BY SameFunctions, CountByIs DEF H!CountBy, H!Column, CountBy, Column
<1>4. DOMAIN rest = {"count"} /\ rest["count"] = Len(d.diagnostics)
  OBVIOUS
<1>5. H!Severities \cap H!Categories =
        {} /\ "count" \notin H!Severities /\ "count" \notin H!Categories
  BY DEF H!Severities, H!Categories
<1> HIDE DEF counts, severities, categories, rest
<1>6. /\ counts["count"] = rest["count"]
      /\ \A s \in H!Severities : counts[s] = severities[s]
      /\ \A c \in H!Categories : counts[c] = categories[c]
  BY <1>1, <1>2, <1>3, <1>4, <1>5 DEF H!Merged
<1>7. /\ counts["count"] = Len(d.diagnostics)
      /\ \A s \in H!Severities : counts[s] = NumberWith(d.diagnostics, "severity", s)
      /\ \A c \in H!Categories : counts[c] = NumberWith(d.diagnostics, "category", c)
  BY <1>2, <1>3, <1>4, <1>6
<1> QED BY <1>7 DEF counts

\* The counts of an accepted handoff add up.
LEMMA HCountErrors ==
  ASSUME NEW d \in H!Document, H!Errors(d) = {}
  PROVE  H!CountErrors(H!Summary(d).counts) = {}
<1> DEFINE counts == H!Summary(d).counts
<1>1. /\ counts["count"] = Len(d.diagnostics)
      /\ \A s \in H!Severities : counts[s] = NumberWith(d.diagnostics, "severity", s)
      /\ \A c \in H!Categories : counts[c] = NumberWith(d.diagnostics, "category", c)
  BY HCounts
<1> HIDE DEF counts
<1>2. /\ d.diagnostics \in Seq(H!Diagnostic)
      /\ NumbersOf(counts, d.diagnostics, "severity", H!Severities)
      /\ NumbersOf(counts, d.diagnostics, "category", H!Categories)
      /\ AllWith(d.diagnostics, "severity", H!Severities)
      /\ AllWith(d.diagnostics, "category", H!Categories)
  BY <1>1, HAccepted DEF H!Document, NumbersOf, AllWith
<1>3. IsFiniteSet(H!Severities) /\ IsFiniteSet(H!Categories)
  <2>1. H!Severities = {"info", "warning", "blocked", "error", "error", "error", "error"}
    BY DEF H!Severities
  <2>2. IsFiniteSet(H!Categories)
    BY FewAreFinite DEF H!Categories
  <2> QED BY <2>1, <2>2, FewAreFinite
<1>4. SumFunctionOnSet(counts, H!Severities) = Len(d.diagnostics)
  BY <1>2, <1>3, ColumnSum
<1>5. SumFunctionOnSet(counts, H!Categories) = Len(d.diagnostics)
  BY <1>2, <1>3, ColumnSum
<1> QED BY <1>1, <1>4, <1>5, SameFunctions DEF H!CountErrors, H!ErrorIf, counts

-----------------------------------------------------------------------------
(* Readiness fixtures *)

\* What is known of a readiness fixture the consumer accepts.
LEMMA RAccepted ==
  ASSUME NEW d \in R!Document, R!Errors(d) = {}
  PROVE  /\ DOMAIN d.field = R!Fields
         /\ \A f \in R!Policies : d.field[f] = "good"
         /\ \A f \in R!Names \cup R!PerformanceNames : IsShortText(d.field[f])
         /\ Len(d.blockers) \in 1 .. R!MaxBlockers
         /\ \A i \in DOMAIN d.blockers : IsShortText(d.blockers[i].text)
         /\ "unsafe" \notin Range(d.field)
         /\ \A i \in DOMAIN d.blockers : d.blockers[i].text # "unsafe"
<1>1. /\ R!Unexpected(d.field, R!Identity \cup R!BlockedStates) = {}
      /\ R!BlockerErrors(d.blockers) = {}
      /\ R!PerformanceErrors(d) = {}
      /\ R!Unexpected(d.field, R!SafetyFlags) = {}
      /\ R!NotShortText(d.field, R!Names) = {}
      /\ R!Scanned(R!Range(d.field) \cup R!Range(R!Column(d.blockers, "text"))) = {}
  BY DEF R!Errors
<1>2. /\ R!Unexpected(d.field, R!PerformancePolicies) = {}
      /\ R!NotShortText(d.field, R!PerformanceNames) = {}
  BY <1>1 DEF R!PerformanceErrors
<1>3. DOMAIN d.field = R!Fields /\ \A f \in R!Fields : R!At(d.field, f) = d.field[f]
  BY DEF R!Document, R!At
<1>4. /\ R!Policies \subseteq R!Fields /\ R!Names \subseteq R!Fields
      /\ R!PerformanceNames \subseteq R!Fields
  BY DEF R!Fields
<1>5. \A f \in R!Policies : d.field[f] = "good"
  BY <1>1, <1>2, <1>3, <1>4 DEF R!Policies, R!Unexpected
<1>6. \A f \in R!Names \cup R!PerformanceNames : IsShortText(d.field[f])
  BY <1>1, <1>2, <1>3, <1>4 DEF R!NotShortText, R!IsShortText, IsShortText
<1>7. /\ Len(d.blockers) \in 1 .. R!MaxBlockers
      /\ \A i \in DOMAIN d.blockers : IsShortText(d.blockers[i].text)
  BY <1>1 DEF R!BlockerErrors, R!ErrorIf, R!Range, R!IsShortText, IsShortText
<1>8. /\ "unsafe" \notin Range(d.field)
      /\ \A i \in DOMAIN d.blockers : d.blockers[i].text # "unsafe"
  BY <1>1 DEF R!Scanned, R!ErrorIf, R!Range, R!Column, Range
<1> QED BY <1>3, <1>5, <1>6, <1>7, <1>8

\* The fields of its summary.
LEMMA RSummaryIs ==
  ASSUME NEW d \in R!Document
  PROVE  LET field == R!Summary(d).field IN
         /\ DOMAIN field = DOMAIN R!CopiedFields \cup R!SummarySafety \cup {"version", "kind"}
         /\ \A p \in DOMAIN R!CopiedFields : field[p] = d.field[R!CopiedFields[p]]
         /\ \A p \in R!SummarySafety \cup {"version", "kind"} : field[p] = "good"
<1> DEFINE field == R!Summary(d).field
           own == R!SummarySafety \cup {"version", "kind"}
<1>1. field = R!Merged(R!Copied(d.field, R!CopiedFields), R!AllGood(own))
  BY DEF R!Summary
<1>2. DOMAIN R!CopiedFields = {"readinessSchemaVersion", "readinessId", "fixtureVersion",
        "lastUpdatedSource", "statusAnswer", "readinessState", "evidenceState", "modelId",
        "modelFamily", "modelVariant", "targetDevice", "targetBoard", "timingState",
        "bitstreamState", "implementationState", "kv260SmokeState", "runtimeEvidenceState",
        "throughputState"}
  BY DEF R!CopiedFields
<1>3. DOMAIN R!CopiedFields \cap own = {}
  BY <1>2 DEF R!SummarySafety
<1>4. \A p \in DOMAIN R!CopiedFields : R!CopiedFields[p] \in R!Fields
  BY DEF R!CopiedFields, R!Fields, R!Policies, R!Identity, R!BlockedStates, R!Names
<1> HIDE DEF own
<1>5. /\ DOMAIN field = DOMAIN R!CopiedFields \cup own
      /\ \A p \in DOMAIN R!CopiedFields : field[p] = R!At(d.field, R!CopiedFields[p])
      /\ \A p \in own : field[p] = "good"
  BY <1>1, <1>3 DEF R!Merged, R!Copied, R!AllGood
<1>6. \A p \in DOMAIN R!CopiedFields : R!At(d.field, R!CopiedFields[p]) = d.field[R!CopiedFields[p]]
  BY <1>4 DEF R!At, R!Document
<1> QED BY <1>5, <1>6 DEF own

\* The surface finds nothing in the summary of an accepted fixture.
LEMMA RShown ==
  ASSUME NEW d \in R!Document, R!Errors(d) = {}
  PROVE  R!SurfaceErrors(R!Summary(d)) = {}
<1> DEFINE s == R!Summary(d)
           field == s.field
<1>1. /\ DOMAIN field = DOMAIN R!CopiedFields \cup R!SummarySafety \cup {"version", "kind"}
      /\ \A p \in DOMAIN R!CopiedFields : field[p] = d.field[R!CopiedFields[p]]
      /\ \A p \in R!SummarySafety \cup {"version", "kind"} : field[p] = "good"
  BY RSummaryIs
<1>2. /\ s.lists["blockers"] = R!Column(d.blockers, "text")
      /\ s.counts["count"] = Len(d.blockers)
  BY DEF R!Summary
<1> HIDE DEF s
<1>3. R!SurfaceSafety = R!SummarySafety
  BY DEF R!SurfaceSafety, R!SummarySafety
<1>4. /\ \A p \in {"readinessSchemaVersion", "readinessId", "statusAnswer", "readinessState",
                   "evidenceState", "modelFamily", "modelVariant", "targetDevice", "timingState",
                   "bitstreamState", "implementationState", "kv260SmokeState",
                   "runtimeEvidenceState", "throughputState"} : field[p] = "good"
      /\ \A p \in {"fixtureVersion", "lastUpdatedSource", "modelId", "targetBoard"} :
           IsShortText(field[p])
  BY <1>1, RAccepted DEF R!CopiedFields, R!Policies, R!Identity, R!BlockedStates, R!Names
<1>5. R!SurfaceNames \cup R!SurfacePolicies \subseteq DOMAIN field
  BY <1>1 DEF R!SurfaceNames, R!SurfacePolicies, R!CopiedFields
<1>6. R!Unexpected(field, R!SurfacePolicies \cup R!SurfaceSafety) = {}
  <2>1. \A p \in R!SurfacePolicies \cup R!SurfaceSafety : p \in DOMAIN field /\ field[p] = "good"
    BY <1>1, <1>3, <1>4, <1>5 DEF R!SurfacePolicies
  <2> QED BY <2>1 DEF R!Unexpected, R!At
<1>7. R!Unexpected(field, R!OptionalSafety \cap DOMAIN field) = {}
  <2>1. "kv260RuntimeExecution" \notin DOMAIN field
    BY <1>1 DEF R!CopiedFields, R!SummarySafety
  <2> QED BY <2>1 DEF R!Unexpected, R!OptionalSafety
<1>8. R!NotShortText(field, R!SurfaceNames) = {}
  <2>1. \A p \in R!SurfaceNames : p \in DOMAIN field /\ IsShortText(field[p])
    BY <1>4, <1>5 DEF R!SurfaceNames, IsShortText
  <2> QED BY <2>1 DEF R!NotShortText, R!At, R!IsShortText, IsShortText
<1>9. R!SurfaceBlockerErrors(s) = {}
  <2>1. /\ DOMAIN R!Column(d.blockers, "text") = DOMAIN d.blockers
        /\ \A i \in DOMAIN d.blockers : R!Column(d.blockers, "text")[i] = d.blockers[i].text
    BY DEF R!Column
  <2>2. Len(R!Column(d.blockers, "text")) = Len(d.blockers) /\ Len(d.blockers) \in Nat
    <3>1. Len(d.blockers) \in Nat /\ DOMAIN d.blockers = 1 .. Len(d.blockers)
      BY DEF R!Document
    <3>2. R!Column(d.blockers, "text") = [i \in 1 .. Len(d.blockers) |-> d.blockers[i].text]
      BY <3>1 DEF R!Column
    <3> QED BY <3>1, <3>2
  <2>3. R!NotShortTexts("blockers", R!Column(d.blockers, "text")) = {}
    BY <2>1, RAccepted DEF R!NotShortTexts, R!ErrorIf, R!IsShortText, IsShortText
  <2>4. Len(d.blockers) \in 1 .. R!MaxBlockers
    BY RAccepted
  <2>5. ~(Len(d.blockers) > R!MaxBlockers)
    <3>1. \A n \in 1 .. 8 : ~(n > 8)
      OBVIOUS
    <3> QED BY <2>4, <3>1 DEF R!MaxBlockers
  <2>6. R!SurfaceBlockerErrors(s) =
          R!NotShortTexts("blockers", R!Column(d.blockers, "text"))
            \cup R!ErrorIf("blockerCount",
                   \/ Len(R!Column(d.blockers, "text")) > R!MaxBlockers
                   \/ s.counts["count"] # Len(R!Column(d.blockers, "text")))
    BY <1>2 DEF R!SurfaceBlockerErrors
  <2> QED BY <1>2, <2>2, <2>3, <2>5, <2>6 DEF R!ErrorIf
<1>10. R!Scanned(R!Range(field) \cup R!Range(s.lists["blockers"])) = {}
  <2>1. \A p \in DOMAIN R!CopiedFields : R!CopiedFields[p] \in R!Fields
    BY DEF R!CopiedFields, R!Fields, R!Policies, R!Identity, R!BlockedStates, R!Names
  <2>2. \A f \in R!Fields : d.field[f] # "unsafe"
    BY RAccepted DEF Range
  <2>3. "unsafe" \notin R!Range(field)
    BY <1>1, <2>1, <2>2 DEF R!Range
  <2>4. "unsafe" \notin R!Range(R!Column(d.blockers, "text"))
    BY RAccepted DEF R!Range, R!Column
  <2> QED BY <1>2, <2>3, <2>4 DEF R!Scanned, R!ErrorIf
<1> QED BY <1>6, <1>7, <1>8, <1>9, <1>10 DEF R!SurfaceErrors, s

-----------------------------------------------------------------------------
(* Device sessions *)

\* What is known of a device session the consumer accepts.
LEMMA DAccepted ==
  ASSUME NEW d \in D!Document, D!Errors(d) = {}
  PROVE  /\ DOMAIN d.field = D!Fields
         /\ \A f \in D!Policies : d.field[f] = "good"
         /\ \A f \in D!Names \cup D!PccxLabNames : IsShortText(d.field[f])
         /\ \A i \in DOMAIN d.rows : IsShortText(d.rows[i].text) /\ d.rows[i].text # "unsafe"
         /\ \A i \in DOMAIN d.taxonomy : d.taxonomy[i].severity \in D!Severities
         /\ \A i \in DOMAIN d.limitations :
              IsShortText(d.limitations[i]) /\ d.limitations[i] # "unsafe"
         /\ \A i \in DOMAIN d.issueRefs :
              IsShortText(d.issueRefs[i]) /\ d.issueRefs[i] # "unsafe"
         /\ "unsafe" \notin Range(d.field)
<1>1. /\ D!Unexpected(d.field, D!Policies) = {}
      /\ D!NotShortText(d.field, D!Names \cup D!PccxLabNames) = {}
      /\ D!PanelErrors(d.rows) = {}
      /\ D!TaxonomyErrors(d.taxonomy) = {}
      /\ D!NotShortTexts("limitations", d.limitations) = {}
      /\ D!NotShortTexts("issueRefs", d.issueRefs) = {}
      /\ D!Scanned(D!Texts(d)) = {}
  BY DEF D!Errors
<1>2. DOMAIN d.field = D!Fields /\ \A f \in D!Fields : D!At(d.field, f) = d.field[f]
  BY DEF D!Document, D!At
<1>3. /\ D!Policies \subseteq D!Fields
      /\ D!Names \cup D!PccxLabNames \subseteq D!Fields
  BY DEF D!Fields
<1>4. \A f \in D!Policies : d.field[f] = "good"
  BY <1>1, <1>2, <1>3 DEF D!Unexpected
<1>5. \A f \in D!Names \cup D!PccxLabNames : IsShortText(d.field[f])
  BY <1>1, <1>2, <1>3 DEF D!NotShortText, D!IsShortText, IsShortText
<1>6. "unsafe" \notin D!Texts(d)
  BY <1>1 DEF D!Scanned, D!ErrorIf
<1>7. "unsafe" \notin Range(d.field)
  BY <1>6 DEF D!Texts, D!Range, Range
<1>8. \A i \in DOMAIN d.rows : IsShortText(d.rows[i].text) /\ d.rows[i].text # "unsafe"
  <2>1. D!NotShortTexts("statusPanel", D!Column(d.rows, "text")) = {}
    BY <1>1 DEF D!PanelErrors, D!ElementErrors
  <2>2. /\ DOMAIN D!Column(d.rows, "text") = DOMAIN d.rows
        /\ \A i \in DOMAIN d.rows : D!Column(d.rows, "text")[i] = d.rows[i].text
    BY DEF D!Column
  <2>3. \A i \in DOMAIN d.rows : IsShortText(d.rows[i].text)
    BY <2>1, <2>2 DEF D!NotShortTexts, D!ErrorIf, D!IsShortText, IsShortText
  <2>4. "unsafe" \notin D!Range(D!Column(d.rows, "text"))
    BY <1>6 DEF D!Texts
  <2>5. \A i \in DOMAIN d.rows : d.rows[i].text # "unsafe"
    BY <2>2, <2>4 DEF D!Range
  <2> QED BY <2>3, <2>5
<1>9. \A i \in DOMAIN d.taxonomy : d.taxonomy[i].severity \in D!Severities
  BY <1>1 DEF D!TaxonomyErrors, D!ErrorIf, D!Range
<1>10. \A i \in DOMAIN d.limitations : IsShortText(d.limitations[i])
  BY <1>1 DEF D!NotShortTexts, D!ErrorIf, D!IsShortText, IsShortText
<1>11. \A i \in DOMAIN d.issueRefs : IsShortText(d.issueRefs[i])
  BY <1>1 DEF D!NotShortTexts, D!ErrorIf, D!IsShortText, IsShortText
<1>12. "unsafe" \notin D!Range(d.limitations) /\ "unsafe" \notin D!Range(d.issueRefs)
  BY <1>6 DEF D!Texts
<1>13. /\ \A i \in DOMAIN d.limitations : d.limitations[i] # "unsafe"
       /\ \A i \in DOMAIN d.issueRefs : d.issueRefs[i] # "unsafe"
  BY <1>12 DEF D!Range
<1> QED BY <1>2, <1>4, <1>5, <1>7, <1>8, <1>9, <1>10, <1>11, <1>13

\* The fields of its summary.
LEMMA DSummaryIs ==
  ASSUME NEW d \in D!Document
  PROVE  LET field == D!Summary(d).field
             own == D!SummarySafety \cup D!SummaryPccxLab \cup {"version", "kind"} IN
         /\ DOMAIN field = DOMAIN D!CopiedFields \cup own
         /\ \A p \in DOMAIN D!CopiedFields : D!CopiedFields[p] \in D!Fields
         /\ \A p \in DOMAIN D!CopiedFields : field[p] = d.field[D!CopiedFields[p]]
         /\ \A p \in own : field[p] = "good"
<1> DEFINE field == D!Summary(d).field
           own == D!SummarySafety \cup D!SummaryPccxLab \cup {"version", "kind"}
<1>1. field = D!Merged(D!Copied(d.field, D!CopiedFields), D!AllGood(own))
  BY DEF D!Summary
<1>2. DOMAIN D!CopiedFields = {"statusSchemaVersion", "statusId", "fixtureVersion",
        "lastUpdatedSource", "statusAnswer", "device", "board", "model", "connection",
        "discovery", "authentication", "runtime", "modelLoad", "session", "logStream",
        "diagnostics", "readiness", "lowerBoundary"}
  BY DEF D!CopiedFields
<1>3. DOMAIN D!CopiedFields \cap own = {}
  BY <1>2 DEF D!SummarySafety, D!SummaryPccxLab
<1>4. \A p \in DOMAIN D!CopiedFields : D!CopiedFields[p] \in D!Fields
  BY DEF D!CopiedFields, D!Fields, D!Policies, D!Identity, D!States, D!Names, D!PccxLabNames
<1> HIDE DEF own
<1>5. /\ DOMAIN field = DOMAIN D!CopiedFields \cup own
      /\ \A p \in DOMAIN D!CopiedFields : field[p] = D!At(d.field, D!CopiedFields[p])
      /\ \A p \in own : field[p] = "good"
  BY <1>1, <1>3 DEF D!Merged, D!Copied, D!AllGood
<1>6. \A p \in DOMAIN D!CopiedFields : D!At(d.field, D!CopiedFields[p]) = d.field[D!CopiedFields[p]]
  BY <1>4 DEF D!At, D!Document
<1> QED BY <1>4, <1>5, <1>6 DEF own

\* What the summary counts.
LEMMA DCounts ==
  ASSUME NEW d \in D!Document
  PROVE  LET counts == D!Summary(d).counts IN
         /\ counts["count"] = Len(d.rows)
         /\ counts["errors"] = Len(d.taxonomy)
         /\ counts["flowSteps"] = Len(d.steps)
         /\ \A s \in D!Severities : counts[s] = NumberWith(d.taxonomy, "severity", s)
<1> DEFINE counts == D!Summary(d).counts
           severities == D!CountBy(D!Column(d.taxonomy, "severity"), D!Severities)
           rest == [count |-> Len(d.rows), errors |-> Len(d.taxonomy),
                    discoveryPaths |-> Len(d.discovery), flowSteps |-> Len(d.steps)]
<1>1. counts = D!Merged(severities, rest)
  BY DEF D!Summary
<1>2. /\ DOMAIN severities = D!Severities
      /\ \A s \in D!Severities : severities[s] = NumberWith(d.taxonomy, "severity", s)
  BY SameFunctions, CountByIs DEF D!CountBy, D!Column, CountBy, Column
<1>4. /\ DOMAIN rest = {"count", "errors", "discoveryPaths", "flowSteps"}
      /\ rest["count"] = Len(d.rows)
      /\ rest["errors"] = Len(d.taxonomy)
      /\ rest["flowSteps"] = Len(d.steps)
  OBVIOUS
<1>5. DOMAIN rest \cap D!Severities = {}
  BY <1>4 DEF D!Severities
<1> HIDE DEF counts, severities, rest
<1>6. /\ \A x \in DOMAIN rest : counts[x] = rest[x]
      /\ \A s \in D!Severities : counts[s] = severities[s]
  BY <1>1, <1>2, <1>5 DEF D!Merged
<1>7. /\ counts["count"] = Len(d.rows)
      /\ counts["errors"] = Len(d.taxonomy)
      /\ counts["flowSteps"] = Len(d.steps)
      /\ \A s \in D!Severities : counts[s] = NumberWith(d.taxonomy, "severity", s)
  BY <1>2, <1>4, <1>6
<1> QED BY <1>7 DEF counts

\* The surface finds nothing in the summary of an accepted device session.
LEMMA DShown ==
  ASSUME NEW d \in D!Document, D!Errors(d) = {}
  PROVE  D!SurfaceErrors(D!Summary(d)) = {}
<1> DEFINE s == D!Summary(d)
           field == s.field
           own == D!SummarySafety \cup D!SummaryPccxLab \cup {"version", "kind"}
<1>1. /\ DOMAIN field = DOMAIN D!CopiedFields \cup own
      /\ \A p \in DOMAIN D!CopiedFields : D!CopiedFields[p] \in D!Fields
      /\ \A p \in DOMAIN D!CopiedFields : field[p] = d.field[D!CopiedFields[p]]
      /\ \A p \in own : field[p] = "good"
  BY DSummaryIs
<1>2. s.lists = [rows |-> D!Column(d.rows, "text"), limitations |-> d.limitations,
                 issueRefs |-> d.issueRefs]
  BY DEF D!Summary
<1>3. /\ s.counts["count"] = Len(d.rows)
      /\ s.counts["errors"] = Len(d.taxonomy)
      /\ \A v \in D!Severities : s.counts[v] = NumberWith(d.taxonomy, "severity", v)
  BY DCounts
<1> HIDE DEF s
<1>4. D!SurfaceSafety = D!SummarySafety
  BY DEF D!SurfaceSafety, D!SummarySafety
<1>5. /\ \A p \in {"statusSchemaVersion", "statusId", "statusAnswer", "device", "board", "model",
                   "connection", "discovery", "authentication", "runtime", "modelLoad", "session",
                   "logStream", "diagnostics", "readiness"} : field[p] = "good"
      /\ \A p \in {"fixtureVersion", "lastUpdatedSource", "lowerBoundary"} :
           IsShortText(field[p])
  BY <1>1, DAccepted DEF D!CopiedFields, D!Policies, D!Identity, D!States, D!Names,
                         D!PccxLabNames
<1>6. D!SurfaceNames \cup D!SurfacePolicies \subseteq DOMAIN field
  BY <1>1 DEF D!SurfaceNames, D!SurfacePolicies, D!CopiedFields, D!SummaryPccxLab
<1>7. D!Unexpected(field, D!SurfacePolicies \cup D!SurfaceSafety) = {}
  <2>1. \A p \in D!SurfacePolicies \cup D!SurfaceSafety : p \in DOMAIN field /\ field[p] = "good"
    BY <1>1, <1>4, <1>5, <1>6 DEF D!SurfacePolicies, D!SummaryPccxLab
  <2> QED BY <2>1 DEF D!Unexpected, D!At
<1>8. D!NotShortText(field, D!SurfaceNames) = {}
  <2>1. \A p \in D!SummaryPccxLab : field[p] = "good"
    BY <1>1
  <2>2. \A p \in D!SurfaceNames : p \in DOMAIN field /\ IsShortText(field[p])
    BY <1>5, <1>6, <2>1 DEF D!SurfaceNames, D!SummaryPccxLab, IsShortText
  <2> QED BY <2>2 DEF D!NotShortText, D!At, D!IsShortText, IsShortText
<1>9. D!CountErrors(s) = {}
  <2>1. Len(D!Column(d.rows, "text")) = Len(d.rows)
    <3>1. Len(d.rows) \in Nat /\ DOMAIN d.rows = 1 .. Len(d.rows)
      BY DEF D!Document
    <3>2. D!Column(d.rows, "text") = [i \in 1 .. Len(d.rows) |-> d.rows[i].text]
      BY <3>1 DEF D!Column
    <3> QED BY <3>1, <3>2
  <2>2. s.counts["count"] = Len(s.lists["rows"])
    BY <1>2, <1>3, <2>1
  <2>3. /\ d.taxonomy \in Seq(D!Item)
        /\ NumbersOf(s.counts, d.taxonomy, "severity", D!Severities)
        /\ AllWith(d.taxonomy, "severity", D!Severities)
    BY <1>3, DAccepted DEF D!Document, NumbersOf, AllWith
  <2>4. IsFiniteSet(D!Severities)
    <3>1. D!Severities = {"info", "warning", "blocked", "error", "placeholder", "placeholder",
                          "placeholder"}
      BY DEF D!Severities
    <3> QED BY <3>1, FewAreFinite
  <2>5. SumFunctionOnSet(s.counts, D!Severities) = Len(d.taxonomy)
    BY <2>3, <2>4, ColumnSum
  <2> QED BY <1>3, <2>2, <2>5, SameFunctions DEF D!CountErrors, D!ErrorIf
<1>10. /\ D!NotShortTexts("rows", s.lists["rows"]) = {}
       /\ D!NotShortTexts("limitations", s.lists["limitations"]) = {}
       /\ D!NotShortTexts("issueRefs", s.lists["issueRefs"]) = {}
  <2>1. /\ DOMAIN D!Column(d.rows, "text") = DOMAIN d.rows
        /\ \A i \in DOMAIN d.rows : D!Column(d.rows, "text")[i] = d.rows[i].text
    BY DEF D!Column
  <2>2. D!NotShortTexts("rows", D!Column(d.rows, "text")) = {}
    BY <2>1, DAccepted DEF D!NotShortTexts, D!ErrorIf, D!IsShortText, IsShortText
  <2>3. /\ D!NotShortTexts("limitations", d.limitations) = {}
        /\ D!NotShortTexts("issueRefs", d.issueRefs) = {}
    BY DAccepted DEF D!NotShortTexts, D!ErrorIf, D!IsShortText, IsShortText
  <2> QED BY <1>2, <2>2, <2>3
<1>11. UNION {D!NotShortTexts(l, s.lists[l]) : l \in DOMAIN s.lists} = {}
  <2>1. DOMAIN s.lists = {"rows", "limitations", "issueRefs"}
    BY <1>2
  <2> QED BY <1>10, <2>1
<1>12. D!Scanned(D!Range(field) \cup UNION {D!Range(l) : l \in D!Range(s.lists)}) = {}
  <2>1. \A f \in D!Fields : d.field[f] # "unsafe"
    BY DAccepted DEF Range
  <2>2. "unsafe" \notin D!Range(field)
    BY <1>1, <2>1 DEF D!Range
  <2>3. D!Range(s.lists) = {D!Column(d.rows, "text"), d.limitations, d.issueRefs}
    BY <1>2 DEF D!Range
  <2>4. "unsafe" \notin D!Range(D!Column(d.rows, "text"))
    BY DAccepted DEF D!Range, D!Column
  <2>5. "unsafe" \notin D!Range(d.limitations) /\ "unsafe" \notin D!Range(d.issueRefs)
    BY DAccepted DEF D!Range
  <2> QED BY <2>2, <2>3, <2>4, <2>5 DEF D!Scanned, D!ErrorIf
<1> QED BY <1>7, <1>8, <1>9, <1>11, <1>12 DEF D!SurfaceErrors, s

-----------------------------------------------------------------------------
(* Xsim logs *)

\* What is known of an xsim log that is accepted.
LEMMA XAccepted ==
  ASSUME NEW d \in X!Document, X!Errors(d) = {}
  PROVE  /\ DOMAIN d.field = X!Fields
         /\ \A f \in X!PayloadPolicies : d.field[f] = "good"
         /\ d.field["source"] \in {"good", "long"}
         /\ \A i \in DOMAIN d.problems : /\ d.problems[i].severity \in X!Severities
                                         /\ d.problems[i].file \in X!InFiles \cup {"none"}
         /\ "unsafe" \notin Range(d.field)
<1>1. /\ X!Unexpected(d.field, X!PayloadPolicies) = {}
      /\ X!ErrorIf("source", ~X!IsRelative(X!At(d.field, "source"))) = {}
      /\ X!ProblemErrors(d.problems) = {}
      /\ X!Scanned(X!Range(d.field) \cup X!Range(X!Column(d.problems, "code"))) = {}
  BY DEF X!Errors
<1>2. DOMAIN d.field = X!Fields /\ \A f \in X!Fields : X!At(d.field, f) = d.field[f]
  BY DEF X!Document, X!At
<1>3. X!PayloadPolicies \subseteq X!Fields /\ "source" \in X!Fields
  BY DEF X!Fields
<1>4. \A f \in X!PayloadPolicies : d.field[f] = "good"
  BY <1>1, <1>2, <1>3 DEF X!Unexpected
<1>5. d.field["source"] \in {"good", "long"}
  BY <1>1, <1>2, <1>3 DEF X!ErrorIf, X!IsRelative
<1>6. \A p \in X!Range(d.problems) : p.severity \in X!Severities /\ p.file # "outside"
  BY <1>1 DEF X!ProblemErrors, X!ErrorIf
<1>7. \A i \in DOMAIN d.problems : d.problems[i] \in X!Problem
  BY DEF X!Document
<1>8. \A i \in DOMAIN d.problems : /\ d.problems[i].severity \in X!Severities
                                   /\ d.problems[i].file \in X!InFiles \cup {"none"}
  BY <1>6, <1>7 DEF X!Range, X!Problem
<1>9. "unsafe" \notin Range(d.field)
  BY <1>1 DEF X!Scanned, X!ErrorIf, X!Range, Range
<1> QED BY <1>2, <1>4, <1>5, <1>8, <1>9

\* How many of a set of numbers are not greater.
Rank(S, i) == Cardinality({j \in S : j <= i})

\* The places of the numbers of a finite set.
LEMMA NthIs ==
  ASSUME NEW S, S \subseteq Nat, IsFiniteSet(S)
  PROVE  /\ \A n \in 1 .. Cardinality(S) : X!Nth(S, n) \in S /\ Rank(S, X!Nth(S, n)) = n
         /\ \A i \in S : Rank(S, i) \in 1 .. Cardinality(S)
         /\ \A i, j \in S : Rank(S, i) = Rank(S, j) => i = j
<1> DEFINE upTo(i) == {j \in S : j <= i}
           rank == [i \in S |-> Rank(S, i)]
<1>1. \A i \in S : IsFiniteSet(upTo(i)) /\ Cardinality(upTo(i)) <= Cardinality(S)
  BY FS_Subset
<1>2. \A i \in S : Rank(S, i) \in Nat /\ Rank(S, i) # 0 /\ Rank(S, i) <= Cardinality(S)
  <2> SUFFICES ASSUME NEW i \in S
               PROVE  Rank(S, i) \in Nat /\ Rank(S, i) # 0 /\ Rank(S, i) <= Cardinality(S)
    OBVIOUS
  <2>1. i \in upTo(i)
    OBVIOUS
  <2>2. Cardinality(upTo(i)) \in Nat /\ Cardinality(upTo(i)) # 0
    BY <1>1, <2>1, FS_CardinalityType, FS_EmptySet
  <2> QED BY <1>1, <2>2 DEF Rank
<1>3. \A i \in S : Rank(S, i) \in 1 .. Cardinality(S)
  <2>1. Cardinality(S) \in Nat
    BY FS_CardinalityType
  <2> QED BY <1>2, <2>1
<1>4. ASSUME NEW i \in S, NEW j \in S, i < j
      PROVE  Rank(S, i) # Rank(S, j)
  <2>1. upTo(i) \subseteq upTo(j)
    <3> SUFFICES ASSUME NEW k \in S, k <= i PROVE k <= j
      OBVIOUS
    <3>1. i \in Nat /\ j \in Nat /\ k \in Nat
      OBVIOUS
    <3> QED BY <1>4, <3>1
  <2>2. j \in upTo(j) /\ j \notin upTo(i)
    BY <1>4
  <2>3. Cardinality(upTo(i)) # Cardinality(upTo(j))
    BY <1>1, <2>1, <2>2, FS_Subset
  <2> QED BY <2>3 DEF Rank
<1>5. \A i, j \in S : Rank(S, i) = Rank(S, j) => i = j
  BY <1>4
<1>6. rank \in Injection(S, 1 .. Cardinality(S))
  <2>1. rank \in [S -> 1 .. Cardinality(S)]
    BY <1>3
  <2> HIDE DEF rank
  <2>2. \A a, b \in S : rank[a] = rank[b] => a = b
    BY <1>5 DEF rank
  <2> QED BY <2>1, <2>2, Fun_IsInj
<1>7. rank \in Surjection(S, 1 .. Cardinality(S))
  <2>1. Cardinality(S) \in Nat
    BY FS_CardinalityType
  <2>2. IsFiniteSet(1 .. Cardinality(S)) /\ Cardinality(1 .. Cardinality(S)) = Cardinality(S)
    BY <2>1, FS_Interval
  <2> HIDE DEF rank
  <2> QED BY <1>6, <2>2, FS_Injection
<1>8. \A n \in 1 .. Cardinality(S) : \E i \in S : Rank(S, i) = n
  <2> HIDE DEF rank
  <2>1. \A n \in 1 .. Cardinality(S) : \E i \in S : rank[i] = n
    BY <1>7, Fun_SurjectionProperties
  <2> QED BY <2>1 DEF rank
<1>9. \A n : X!Nth(S, n) = CHOOSE i \in S : Rank(S, i) = n
  BY SameFunctions DEF X!Nth, Rank
<1> QED BY <1>3, <1>5, <1>8, <1>9

\* Which problems are in a file, and that each file that is named is there once.
LEMMA FilesAre ==
  ASSUME NEW problems \in Seq(X!Problem)
  PROVE  LET files == X!FilesOf(problems) IN
         /\ Len(files) \in Nat /\ DOMAIN files = 1 .. Len(files)
         /\ \A n \in DOMAIN files :
              /\ files[n].file \in X!InFiles
              /\ files[n].problemCount = NumberWith(problems, "file", files[n].file)
         /\ \A n, m \in DOMAIN files : files[n].file = files[m].file => n = m
         /\ \A p \in DOMAIN problems : problems[p].file \in X!InFiles =>
              \E n \in DOMAIN files : files[n].file = problems[p].file
         /\ files \in Seq([file : X!InFiles, problemCount : Nat])
<1> DEFINE counts == X!CountBy(X!Column(problems, "file"), X!InFiles)
           named  == {i \in DOMAIN FileOrder : counts[FileOrder[i]] > 0}
           names  == X!NamedFiles(counts)
           files  == X!FilesOf(problems)
<1>1. /\ FileOrder \in Seq(STRING \ {"none", "outside"})
      /\ \A i, j \in DOMAIN FileOrder : FileOrder[i] = FileOrder[j] => i = j
  BY FileOrderAssumption
<1>2. /\ DOMAIN FileOrder = 1 .. Len(FileOrder) /\ Len(FileOrder) \in Nat
      /\ X!InFiles = {FileOrder[i] : i \in DOMAIN FileOrder}
  BY <1>1 DEF X!InFiles, X!Range
<1>3. /\ DOMAIN counts = X!InFiles
      /\ \A f \in X!InFiles : counts[f] = NumberWith(problems, "file", f)
  BY SameFunctions, CountByIs DEF X!CountBy, X!Column, CountBy, Column
<1>4. \A f : /\ IsFiniteSet({p \in DOMAIN problems : problems[p]["file"] = f})
             /\ NumberWith(problems, "file", f) \in Nat
  <2>1. IsFiniteSet(DOMAIN problems)
    BY FS_Interval
  <2>2. \A f : IsFiniteSet({p \in DOMAIN problems : problems[p]["file"] = f})
    BY <2>1, FS_Subset
  <2> QED BY <2>2, FS_CardinalityType DEF NumberWith
<1> HIDE DEF counts
<1>5. named \subseteq Nat /\ IsFiniteSet(named) /\ named \subseteq DOMAIN FileOrder
  <2>1. IsFiniteSet(DOMAIN FileOrder)
    BY <1>2, FS_Interval
  <2> QED BY <1>2, <2>1, FS_Subset
<1>6. X!Cardinality(named) = Cardinality(named) /\ Cardinality(named) \in Nat
  BY <1>5, SameFunctions, FS_CardinalityType
<1>7. names = [n \in 1 .. Cardinality(named) |-> FileOrder[X!Nth(named, n)]]
  BY <1>6 DEF X!NamedFiles
<1>8. files = [n \in DOMAIN names |-> [file |-> names[n], problemCount |-> counts[names[n]]]]
  BY DEF X!FilesOf, counts
<1> HIDE DEF named, names, files
<1>9. /\ \A n \in 1 .. Cardinality(named) : X!Nth(named, n) \in named
                                            /\ Rank(named, X!Nth(named, n)) = n
      /\ \A i \in named : Rank(named, i) \in 1 .. Cardinality(named)
      /\ \A i, j \in named : Rank(named, i) = Rank(named, j) => i = j
  BY <1>5, NthIs
<1>10. \A n \in 1 .. Cardinality(named) : names[n] = FileOrder[X!Nth(named, n)]
                                          /\ names[n] \in X!InFiles
  BY <1>2, <1>5, <1>7, <1>9
<1>11. /\ DOMAIN names = 1 .. Cardinality(named)
       /\ DOMAIN files = 1 .. Cardinality(named)
       /\ \A n \in DOMAIN files : /\ files[n].file = names[n]
                                  /\ files[n].problemCount = counts[names[n]]
  BY <1>7, <1>8
<1>12. files \in Seq([file : X!InFiles, problemCount : Nat])
  <2>1. \A n \in 1 .. Cardinality(named) : names[n] \in X!InFiles /\ counts[names[n]] \in Nat
    BY <1>3, <1>4, <1>10
  <2>2. files \in [1 .. Cardinality(named) -> [file : X!InFiles, problemCount : Nat]]
    BY <1>8, <1>11, <2>1
  <2> DEFINE E == [file : X!InFiles, problemCount : Nat]
             c == Cardinality(named)
  <2>3. c \in Nat /\ files \in [1 .. c -> E]
    BY <1>6, <2>2
  <2> HIDE DEF E, c
  <2>4. files \in Seq(E) /\ Len(files) = c
    BY <2>3
  <2> QED BY <2>4 DEF E
<1>13. Len(files) = Cardinality(named)
  BY <1>6, <1>11, <1>12
<1>14. \A n \in DOMAIN files :
         /\ files[n].file \in X!InFiles
         /\ files[n].problemCount = NumberWith(problems, "file", files[n].file)
  BY <1>3, <1>10, <1>11
<1>15. ASSUME NEW n \in DOMAIN files, NEW m \in DOMAIN files, files[n].file = files[m].file
       PROVE  n = m
  <2>1. FileOrder[X!Nth(named, n)] = FileOrder[X!Nth(named, m)]
    BY <1>10, <1>11, <1>15
  <2>2. X!Nth(named, n) \in DOMAIN FileOrder /\ X!Nth(named, m) \in DOMAIN FileOrder
    BY <1>5, <1>9, <1>11
  <2>3. X!Nth(named, n) = X!Nth(named, m)
    BY <1>1, <2>1, <2>2
  <2> QED BY <1>9, <1>11, <2>3
<1>16. ASSUME NEW p \in DOMAIN problems, problems[p].file \in X!InFiles
       PROVE  \E n \in DOMAIN files : files[n].file = problems[p].file
  <2>1. PICK i \in DOMAIN FileOrder : FileOrder[i] = problems[p].file
    BY <1>2, <1>16
  <2>2. counts[problems[p].file] > 0
    <3> DEFINE f == problems[p].file
               there == {q \in DOMAIN problems : problems[q]["file"] = f}
    <3>1. p \in there
      OBVIOUS
    <3>2. Cardinality(there) # 0
      BY <1>4, <3>1, FS_EmptySet
    <3>3. NumberWith(problems, "file", f) = Cardinality(there)
      BY DEF NumberWith
    <3>4. NumberWith(problems, "file", f) \in Nat
      BY <1>4
    <3>5. counts[f] = NumberWith(problems, "file", f)
      BY <1>3, <1>16
    <3> QED BY <3>2, <3>3, <3>4, <3>5
  <2>3. i \in named
    BY <2>1, <2>2 DEF named
  <2>4. Rank(named, i) \in DOMAIN files
    BY <1>9, <1>11, <2>3
  <2>5. X!Nth(named, Rank(named, i)) = i
    BY <1>9, <2>3
  <2>6. files[Rank(named, i)].file = FileOrder[i]
    BY <1>10, <1>11, <2>4, <2>5
  <2> QED BY <2>1, <2>4, <2>6
<1>17. Len(files) \in Nat /\ DOMAIN files = 1 .. Len(files)
  BY <1>6, <1>11, <1>13
<1> QED BY <1>12, <1>14, <1>15, <1>16, <1>17 DEF files

\* The fields of the summary of an xsim log.
LEMMA XSummaryIs ==
  ASSUME NEW d \in X!Document
  PROVE  LET field == X!Summary(d).field
             own == X!SummarySafety \cup {"version", "kind", "sourceKind", "tool"} IN
         /\ DOMAIN field = {"source"} \cup own
         /\ field["source"] = d.field["source"]
         /\ \A p \in own : field[p] = "good"
<1> DEFINE field == X!Summary(d).field
           own == X!SummarySafety \cup {"version", "kind", "sourceKind", "tool"}
           copied == [source |-> X!At(d.field, "source")]
<1>1. field = X!Merged(copied, X!AllGood(own))
  BY DEF X!Summary
<1>2. DOMAIN copied = {"source"} /\ copied["source"] = d.field["source"]
  BY DEF X!At, X!Document, X!Fields
<1>3. "source" \notin own
  BY DEF X!SummarySafety
<1> HIDE DEF own, copied
<1>4. /\ DOMAIN field = {"source"} \cup own
      /\ field["source"] = copied["source"]
      /\ \A p \in own : field[p] = "good"
  BY <1>1, <1>2, <1>3 DEF X!Merged, X!AllGood
<1> QED BY <1>2, <1>4 DEF own

\* What the summary counts.
LEMMA XCounts ==
  ASSUME NEW d \in X!Document
  PROVE  LET counts == X!Summary(d).counts IN
         /\ counts["count"] = Len(d.problems)
         /\ counts["located"] = X!Located(d.problems)
         /\ counts["unlocated"] = Len(d.problems) - X!Located(d.problems)
         /\ counts["coded"] = X!Coded(d.problems)
         /\ \A s \in X!Severities : counts[s] = NumberWith(d.problems, "severity", s)
<1> DEFINE counts == X!Summary(d).counts
           severities == X!CountBy(X!Column(d.problems, "severity"), X!Severities)
           rest == [count |-> Len(d.problems), located |-> X!Located(d.problems),
                    unlocated |-> Len(d.problems) - X!Located(d.problems),
                    coded |-> X!Coded(d.problems)]
<1>1. counts = X!Merged(severities, rest)
  BY DEF X!Summary
<1>2. /\ DOMAIN severities = X!Severities
      /\ \A s \in X!Severities : severities[s] = NumberWith(d.problems, "severity", s)
  BY SameFunctions, CountByIs DEF X!CountBy, X!Column, CountBy, Column
<1>4. /\ DOMAIN rest = {"count", "located", "unlocated", "coded"}
      /\ rest["count"] = Len(d.problems)
      /\ rest["located"] = X!Located(d.problems)
      /\ rest["unlocated"] = Len(d.problems) - X!Located(d.problems)
      /\ rest["coded"] = X!Coded(d.problems)
  OBVIOUS
<1>5. DOMAIN rest \cap X!Severities = {}
  BY <1>4 DEF X!Severities
<1> HIDE DEF counts, severities, rest
<1>6. /\ \A x \in DOMAIN rest : counts[x] = rest[x]
      /\ \A s \in X!Severities : counts[s] = severities[s]
  BY <1>1, <1>2, <1>5 DEF X!Merged
<1>7. /\ counts["count"] = Len(d.problems)
      /\ counts["located"] = X!Located(d.problems)
      /\ counts["unlocated"] = Len(d.problems) - X!Located(d.problems)
      /\ counts["coded"] = X!Coded(d.problems)
      /\ \A s \in X!Severities : counts[s] = NumberWith(d.problems, "severity", s)
  BY <1>2, <1>4, <1>6
<1> QED BY <1>7 DEF counts

\* Each located problem is counted at the one place of its file.
LEMMA FileTotalIs ==
  ASSUME NEW problems \in Seq(X!Problem),
         \A i \in DOMAIN problems : problems[i].file \in X!InFiles \cup {"none"}
  PROVE  X!FileTotal(X!FilesOf(problems)) = X!Located(problems)
<1> DEFINE files == X!FilesOf(problems)
           column == X!Column(files, "problemCount")
           place == [p \in DOMAIN problems |->
                      IF problems[p].file = "none" THEN 0
                      ELSE CHOOSE n \in DOMAIN files : files[n].file = problems[p].file]
<1>1. /\ Len(files) \in Nat /\ DOMAIN files = 1 .. Len(files)
      /\ \A n \in DOMAIN files :
           /\ files[n].file \in X!InFiles
           /\ files[n].problemCount = NumberWith(problems, "file", files[n].file)
      /\ \A n, m \in DOMAIN files : files[n].file = files[m].file => n = m
      /\ \A p \in DOMAIN problems : problems[p].file \in X!InFiles =>
           \E n \in DOMAIN files : files[n].file = problems[p].file
  BY FilesAre
<1>2. "none" \notin X!InFiles
  BY FileOrderAssumption DEF X!InFiles, X!Range
<1> HIDE DEF files
<1>3. DOMAIN column = DOMAIN files /\ \A n \in DOMAIN files : column[n] = files[n].problemCount
  BY DEF X!Column
<1>4. \A p \in DOMAIN problems :
        /\ problems[p].file = "none" => place[p] = 0
        /\ problems[p].file # "none" => /\ place[p] \in DOMAIN files
                                        /\ files[place[p]].file = problems[p].file
  BY <1>1
<1>5. DOMAIN place = DOMAIN problems /\ IsFiniteSet(DOMAIN problems)
  BY FS_Interval
<1> HIDE DEF place, column
<1>6. 0 \notin DOMAIN files
  BY <1>1
<1>7. \A n \in DOMAIN files : Having(place, {n}) =
        {p \in DOMAIN problems : problems[p]["file"] = files[n].file}
  <2> SUFFICES ASSUME NEW n \in DOMAIN files, NEW p \in DOMAIN problems
               PROVE  place[p] = n <=> problems[p].file = files[n].file
    BY <1>5 DEF Having
  <2>1. ASSUME place[p] = n PROVE problems[p].file = files[n].file
    BY <1>4, <1>6, <2>1
  <2>2. ASSUME problems[p].file = files[n].file PROVE place[p] = n
    BY <1>1, <1>2, <1>4, <2>2
  <2> QED BY <2>1, <2>2
<1>8. CountsEach(column, place, DOMAIN files)
  BY <1>1, <1>3, <1>7 DEF CountsEach, NumberWith
<1>9. IsFiniteSet(DOMAIN files)
  <2>1. Len(files) \in Nat /\ DOMAIN files = 1 .. Len(files)
    BY <1>1
  <2> QED BY <2>1, FS_Interval
<1>10. SumFunctionOnSet(column, DOMAIN files) = Cardinality(Having(place, DOMAIN files))
  BY <1>5, <1>8, <1>9, SumOfNumbers
<1>11. Having(place, DOMAIN files) = {p \in DOMAIN problems : problems[p].file # "none"}
  BY <1>4, <1>5, <1>6 DEF Having
<1>12. X!FileTotal(files) = SumFunctionOnSet(column, DOMAIN files)
  BY <1>3, SameFunctions DEF X!FileTotal, X!SumFunction, column
<1>13. X!Located(problems) = Cardinality({p \in DOMAIN problems : problems[p].file # "none"})
  BY SameFunctions DEF X!Located
<1> QED BY <1>10, <1>11, <1>12, <1>13 DEF files

\* The surface finds nothing in the summary of an accepted log.
LEMMA XShown ==
  ASSUME NEW d \in X!Document, X!Errors(d) = {}
  PROVE  X!SurfaceErrors(X!Summary(d)) = {}
<1> DEFINE s == X!Summary(d)
           field == s.field
           own == X!SummarySafety \cup {"version", "kind", "sourceKind", "tool"}
           n == Len(d.problems)
           located == X!Located(d.problems)
           coded == X!Coded(d.problems)
<1>1. /\ DOMAIN field = {"source"} \cup own
      /\ field["source"] = d.field["source"]
      /\ \A p \in own : field[p] = "good"
  BY XSummaryIs
<1>2. s.lists["files"] = X!FilesOf(d.problems)
  BY DEF X!Summary
<1>3. /\ s.counts["count"] = n
      /\ s.counts["located"] = located
      /\ s.counts["unlocated"] = n - located
      /\ s.counts["coded"] = coded
      /\ \A v \in X!Severities : s.counts[v] = NumberWith(d.problems, "severity", v)
  BY XCounts
<1>4. d.problems \in Seq(X!Problem)
  BY DEF X!Document
<1> HIDE DEF s
<1>5. X!Unexpected(field, X!SurfacePolicies \cup X!SurfaceSafety) = {}
  <2>1. X!SurfacePolicies \cup X!SurfaceSafety = own
    BY DEF X!SurfacePolicies, X!SurfaceSafety, X!SummarySafety
  <2> HIDE DEF own
  <2> QED BY <1>1, <2>1 DEF X!Unexpected, X!At
<1>6. X!ErrorIf("source", ~X!IsRelative(X!At(field, "source"))) = {}
  BY <1>1, XAccepted DEF X!ErrorIf, X!IsRelative, X!At
<1>7. n \in Nat /\ located \in Nat /\ coded \in Nat /\ located <= n /\ coded <= n
  <2>1. n \in Nat /\ DOMAIN d.problems = 1 .. n
    BY <1>4
  <2>2. IsFiniteSet(DOMAIN d.problems) /\ Cardinality(DOMAIN d.problems) = n
    BY <2>1, FS_Interval
  <2>3. \A T \in SUBSET (DOMAIN d.problems) : Cardinality(T) \in Nat /\ Cardinality(T) <= n
    BY <2>2, FS_Subset, FS_CardinalityType
  <2>4. /\ located = Cardinality({i \in DOMAIN d.problems : d.problems[i].file # "none"})
        /\ coded = Cardinality({i \in DOMAIN d.problems : d.problems[i].code # "absent"})
    BY SameFunctions DEF X!Located, X!Coded
  <2> HIDE DEF n, located, coded
  <2> QED BY <2>1, <2>3, <2>4
<1>8. X!ErrorIf("severity", X!SumFunctionOnSet(s.counts, X!Severities) # s.counts["count"]) = {}
  <2>1. /\ NumbersOf(s.counts, d.problems, "severity", X!Severities)
        /\ AllWith(d.problems, "severity", X!Severities)
    BY <1>3, XAccepted DEF NumbersOf, AllWith
  <2>2. IsFiniteSet(X!Severities)
    <3>1. X!Severities = {"error", "warning", "info", "hint", "hint", "hint", "hint"}
      BY DEF X!Severities
    <3> QED BY <3>1, FewAreFinite
  <2>3. SumFunctionOnSet(s.counts, X!Severities) = n
    BY <1>4, <2>1, <2>2, ColumnSum
  <2> QED BY <1>3, <2>3, SameFunctions DEF X!ErrorIf
<1>9. X!ErrorIf("located", s.counts["located"] + s.counts["unlocated"] # s.counts["count"]) = {}
  <2> HIDE DEF n, located, coded
  <2>1. located + (n - located) = n
    BY <1>7
  <2> QED BY <1>3, <2>1 DEF X!ErrorIf
<1>10. X!ErrorIf("coded", s.counts["coded"] > s.counts["count"]) = {}
  <2> HIDE DEF n, located, coded
  <2>1. ~(coded > n)
    BY <1>7
  <2> QED BY <1>3, <2>1 DEF X!ErrorIf
<1>11. X!ErrorIf("files", X!FileTotal(s.lists["files"]) # s.counts["located"]) = {}
  <2>1. X!FileTotal(X!FilesOf(d.problems)) = located
    BY <1>4, XAccepted, FileTotalIs
  <2> HIDE DEF n, located, coded
  <2> QED BY <1>2, <1>3, <2>1 DEF X!ErrorIf
<1>12. X!CountErrors(s) = {}
  BY <1>8, <1>9, <1>10, <1>11 DEF X!CountErrors
<1>13. X!Scanned(X!Range(field)) = {}
  <2>1. "unsafe" \notin X!Range(field)
    <3> HIDE DEF own
    <3> QED BY <1>1, XAccepted DEF X!Range
  <2> QED BY <2>1 DEF X!Scanned, X!ErrorIf
<1> QED BY <1>5, <1>6, <1>12, <1>13 DEF X!SurfaceErrors, s

-----------------------------------------------------------------------------
(* Surfaces and sections of all contracts *)

\* What no surface claims.
NoClaims ==
  {"none", "status", "summaryAvailable", "version", "kind", "source", "sourceKind", "tool"}
  \cup H!SurfaceNames \cup H!SurfacePolicies \cup R!SurfaceNames \cup R!SurfacePolicies
  \cup D!SurfaceNames \cup {"statusSchemaVersion", "statusAnswer"}

\* None of these is a claim.
LEMMA NoClaimsAreClaims == NoClaims \cap Claims = {}
<1>1. NoClaims \cap (H!ShownSafety \cup R!ShownSafety) = {}
  <2>1. NoClaims \cap H!ShownSafety = {}
    BY DEF NoClaims, H!ShownSafety, H!SurfaceNames, H!SurfacePolicies, R!SurfaceNames,
           R!SurfacePolicies, D!SurfaceNames
  <2>2. NoClaims \cap R!ShownSafety = {}
    BY DEF NoClaims, R!ShownSafety, R!SurfaceSafety, H!SurfaceNames, H!SurfacePolicies,
           R!SurfaceNames, R!SurfacePolicies, D!SurfaceNames
  <2> QED BY <2>1, <2>2
<1>2. NoClaims \cap (D!SurfaceSafety \cup D!AddedSafety) = {}
    BY DEF NoClaims, D!SurfaceSafety, D!AddedSafety, H!SurfaceNames, H!SurfacePolicies,
           R!SurfaceNames, R!SurfacePolicies, D!SurfaceNames
<1>3. NoClaims \cap X!SurfaceSafety = {}
    BY DEF NoClaims, X!SurfaceSafety, H!SurfaceNames, H!SurfacePolicies, R!SurfaceNames,
           R!SurfacePolicies, D!SurfaceNames
<1>4. NoClaims \cap {"pccxLab.automaticUpload", "pccxLab.writeBack", "pccxLab.executesPccxLab",
                     "rawParsedByUi", "rawLogParsedByUi"} = {}
    BY DEF NoClaims, H!SurfaceNames, H!SurfacePolicies, R!SurfaceNames, R!SurfacePolicies,
           D!SurfaceNames
<1> QED BY <1>1, <1>2, <1>3, <1>4 DEF Claims

\* The fields of a surface: those it adds, and those it takes from the summary.
LEMMA HSurfaceIs ==
  ASSUME NEW s
  PROVE  LET field == H!Surface(s).field
             added == H!ShownSafety \cup {"status", "summaryAvailable", "rawParsedByUi"} IN
         /\ DOMAIN field = added \cup H!SurfaceNames \cup H!SurfacePolicies
         /\ \A p \in added : field[p] = "good"
<1> DEFINE added == H!ShownSafety \cup {"status", "summaryAvailable", "rawParsedByUi"}
           copied == H!SurfaceNames \cup H!SurfacePolicies
           f == H!Copied(s.field, [p \in copied |-> p])
<1>1. H!Surface(s).field = H!Merged(H!AllGood(added), f)
  BY DEF H!Surface
<1>2. DOMAIN f = copied
  BY DEF H!Copied
<1>3. DOMAIN H!AllGood(added) = added /\ \A p \in added : H!AllGood(added)[p] = "good"
  BY DEF H!AllGood
<1> HIDE DEF added, copied, f
<1>4. /\ DOMAIN H!Surface(s).field = added \cup copied
      /\ \A p \in added : H!Surface(s).field[p] = "good"
  BY <1>1, <1>2, <1>3 DEF H!Merged
<1> QED BY <1>4 DEF added, copied

\* The same of readiness fixtures.
LEMMA RSurfaceIs ==
  ASSUME NEW s
  PROVE  LET field == R!Surface(s).field
             added == {"localOnly", "pccxLabValidatorInvocation", "shellExecution",
                       "kv260RuntimeExecution", "status", "summaryAvailable", "rawParsedByUi"}
             copied == R!SurfaceNames \cup R!SurfacePolicies \cup R!SurfaceSafety IN
         /\ DOMAIN field = added \cup copied
         /\ \A p \in added : field[p] = "good"
         /\ \A p \in copied : p \in DOMAIN s.field /\ s.field[p] = "good" => field[p] = "good"
<1> DEFINE added == {"localOnly", "pccxLabValidatorInvocation", "shellExecution",
                     "kv260RuntimeExecution", "status", "summaryAvailable", "rawParsedByUi"}
           copied == R!SurfaceNames \cup R!SurfacePolicies \cup R!SurfaceSafety
           f == R!Copied(s.field, [p \in copied |-> p])
<1>1. R!Surface(s).field = R!Merged(R!AllGood(added), f)
  BY DEF R!Surface
<1>2. DOMAIN f = copied /\ \A p \in copied : p \in DOMAIN s.field => f[p] = s.field[p]
  BY DEF R!Copied, R!At
<1>3. DOMAIN R!AllGood(added) = added /\ \A p \in added : R!AllGood(added)[p] = "good"
  BY DEF R!AllGood
<1> HIDE DEF added, copied, f
<1>4. /\ DOMAIN R!Surface(s).field = added \cup copied
      /\ \A p \in added : R!Surface(s).field[p] = "good"
      /\ \A p \in copied : p \in DOMAIN s.field /\ s.field[p] = "good" =>
                             R!Surface(s).field[p] = "good"
  BY <1>1, <1>2, <1>3 DEF R!Merged
<1> QED BY <1>4 DEF added, copied

\* The same of device sessions.
LEMMA DSurfaceIs ==
  ASSUME NEW s
  PROVE  LET field == D!Surface(s).field
             added == D!AddedSafety \cup {"status", "summaryAvailable", "rawParsedByUi"}
             copied == D!SurfaceNames \cup D!SurfacePolicies \cup D!SurfaceSafety IN
         /\ DOMAIN field = added \cup copied
         /\ \A p \in added : field[p] = "good"
         /\ \A p \in copied : p \in DOMAIN s.field /\ s.field[p] = "good" => field[p] = "good"
<1> DEFINE added == D!AddedSafety \cup {"status", "summaryAvailable", "rawParsedByUi"}
           copied == D!SurfaceNames \cup D!SurfacePolicies \cup D!SurfaceSafety
           f == D!Copied(s.field, [p \in copied |-> p])
<1>1. D!Surface(s).field = D!Merged(D!AllGood(added), f)
  BY DEF D!Surface
<1>2. DOMAIN f = copied /\ \A p \in copied : p \in DOMAIN s.field => f[p] = s.field[p]
  BY DEF D!Copied, D!At
<1>3. DOMAIN D!AllGood(added) = added /\ \A p \in added : D!AllGood(added)[p] = "good"
  BY DEF D!AllGood
<1> HIDE DEF added, copied, f
<1>4. /\ DOMAIN D!Surface(s).field = added \cup copied
      /\ \A p \in added : D!Surface(s).field[p] = "good"
      /\ \A p \in copied : p \in DOMAIN s.field /\ s.field[p] = "good" =>
                             D!Surface(s).field[p] = "good"
  BY <1>1, <1>2, <1>3 DEF D!Merged
<1> QED BY <1>4 DEF added, copied

\* The same of xsim logs.
LEMMA XSurfaceIs ==
  ASSUME NEW s
  PROVE  LET field == X!Surface(s).field
             added == {"status", "summaryAvailable", "rawParsedByUi", "rawLogParsedByUi"}
             copied == {"source"} \cup X!SurfacePolicies \cup X!SurfaceSafety IN
         /\ DOMAIN field = added \cup copied
         /\ \A p \in added : field[p] = "good"
         /\ \A p \in copied : p \in DOMAIN s.field /\ s.field[p] = "good" => field[p] = "good"
<1> DEFINE added == {"status", "summaryAvailable", "rawParsedByUi", "rawLogParsedByUi"}
           copied == {"source"} \cup X!SurfacePolicies \cup X!SurfaceSafety
           f == X!Copied(s.field, [p \in copied |-> p])
<1>1. X!Surface(s).field = X!Merged(X!AllGood(added), f)
  BY DEF X!Surface
<1>2. DOMAIN f = copied /\ \A p \in copied : p \in DOMAIN s.field => f[p] = s.field[p]
  BY DEF X!Copied, X!At
<1>3. DOMAIN X!AllGood(added) = added /\ \A p \in added : X!AllGood(added)[p] = "good"
  BY DEF X!AllGood
<1> HIDE DEF added, copied, f
<1>4. /\ DOMAIN X!Surface(s).field = added \cup copied
      /\ \A p \in added : X!Surface(s).field[p] = "good"
      /\ \A p \in copied : p \in DOMAIN s.field /\ s.field[p] = "good" =>
                             X!Surface(s).field[p] = "good"
  BY <1>1, <1>2, <1>3 DEF X!Merged
<1> QED BY <1>4 DEF added, copied

\* The claims the bundle looks at.
LookedAt(c) == ContextTrue(c) \cup ContextFalse(c)

\* A claim a surface makes is one of these, or one of NotLookedAtAgain.
LEMMA ClaimsAreLookedAt ==
  ASSUME NEW c \in ContractNames, NEW s, NEW p \in DOMAIN Surface(c, s).field,
         p \in Claims \ NotLookedAtAgain
  PROVE  p \in LookedAt(c)
<1>0. p \notin NoClaims
  BY NoClaimsAreClaims
<1>1. CASE c = "diagnosticsHandoff"
  <2>1. p \in H!ShownSafety \cup {"status", "summaryAvailable", "rawParsedByUi"}
              \cup H!SurfaceNames \cup H!SurfacePolicies
    BY <1>1, HSurfaceIs DEF Surface
  <2>2. p \in H!ShownSafety \cup {"rawParsedByUi"}
    BY <1>0, <2>1 DEF NoClaims
  <2>3. H!ShownSafety \cup {"rawParsedByUi"} \subseteq
          H!ContextTrue \cup H!ContextFalse \cup {"localOnly"}
    BY DEF H!ContextTrue, H!ContextFalse
  <2> QED BY <1>1, <2>2, <2>3 DEF LookedAt, ContextTrue, ContextFalse, NotLookedAtAgain
<1>2. CASE c = "runtimeReadiness"
  <2>1. p \in {"localOnly", "pccxLabValidatorInvocation", "shellExecution",
               "kv260RuntimeExecution", "status", "summaryAvailable", "rawParsedByUi"}
              \cup R!SurfaceNames \cup R!SurfacePolicies \cup R!SurfaceSafety
    BY <1>2, RSurfaceIs DEF Surface
  <2>2. p \in R!ShownSafety \cup {"rawParsedByUi"}
    BY <1>0, <2>1 DEF NoClaims, R!ShownSafety
  <2>3. R!ShownSafety \cup {"rawParsedByUi"} \subseteq R!ContextTrue \cup R!ContextFalse
          \cup {"localOnly", "deterministic", "descriptorOnly", "systemverilogIdeExecution"}
    BY DEF R!ContextTrue, R!ContextFalse
  <2> QED BY <1>2, <2>2, <2>3 DEF LookedAt, ContextTrue, ContextFalse, NotLookedAtAgain
<1>3. CASE c = "deviceSessionStatus"
  <2>1. p \in D!AddedSafety \cup {"status", "summaryAvailable", "rawParsedByUi"}
              \cup D!SurfaceNames \cup D!SurfacePolicies \cup D!SurfaceSafety
    BY <1>3, DSurfaceIs DEF Surface
  <2>2. p \in D!SurfaceSafety \cup D!AddedSafety \cup {"rawParsedByUi",
          "pccxLab.automaticUpload", "pccxLab.writeBack", "pccxLab.executesPccxLab"}
    BY <1>0, <2>1 DEF NoClaims, D!SurfacePolicies
  <2>3. D!SurfaceSafety \cup D!AddedSafety \subseteq D!ContextTrue \cup D!ContextFalse
          \cup {"localOnly", "deterministic"}
    BY DEF D!ContextTrue, D!ContextFalse
  <2> QED BY <1>3, <2>2, <2>3 DEF LookedAt, ContextTrue, ContextFalse, D!ContextFalse,
                                  NotLookedAtAgain
<1>4. CASE c = "xsimDiagnostics"
  <2>1. p \in {"status", "summaryAvailable", "rawParsedByUi", "rawLogParsedByUi"}
              \cup {"source"} \cup X!SurfacePolicies \cup X!SurfaceSafety
    BY <1>4, XSurfaceIs DEF Surface
  <2>2. p \in X!SurfaceSafety \cup {"rawParsedByUi", "rawLogParsedByUi"}
    BY <1>0, <2>1 DEF NoClaims, X!SurfacePolicies
  <2>3. X!SurfaceSafety \subseteq X!ContextTrue \cup X!ContextFalse \cup {"localOnly"}
    BY DEF X!ContextTrue, X!ContextFalse
  <2> QED BY <1>4, <2>2, <2>3 DEF LookedAt, ContextTrue, ContextFalse, X!ContextFalse,
                                  NotLookedAtAgain
<1> QED BY <1>1, <1>2, <1>3, <1>4 DEF ContractNames

\* The fields of an accepted document, of any contract.
LEMMA Accepted ==
  ASSUME NEW c \in ContractNames, NEW d \in Documents(c), Errors(c, d) = {}
  PROVE  /\ \A f \in DOMAIN d.field : d.field[f] = "good" \/ f \in FreeTexts
         /\ "unsafe" \notin Range(d.field)
<1>1. CASE c = "diagnosticsHandoff"
  <2>1. d \in H!Document /\ H!Errors(d) = {}
    BY <1>1, DocumentsAssumption DEF Errors
  <2>2. DOMAIN d.field =
          H!Policies \cup H!ReferenceNames \cup H!Artifact \cup H!Required \cup H!Ignored
    BY <2>1, HAccepted DEF H!Fields
  <2>3. \A f \in H!Policies : d.field[f] = "good"
    BY <2>1, HAccepted
  <2>4. "unsafe" \notin Range(d.field)
    BY <2>1, HAccepted
  <2> QED BY <2>2, <2>3, <2>4 DEF FreeTexts
<1>2. CASE c = "runtimeReadiness"
  <2>1. d \in R!Document /\ R!Errors(d) = {}
    BY <1>2, DocumentsAssumption DEF Errors
  <2>2. DOMAIN d.field = R!Policies \cup R!Names \cup R!PerformanceNames \cup R!Required
    BY <2>1, RAccepted DEF R!Fields
  <2>3. \A f \in R!Policies : d.field[f] = "good"
    BY <2>1, RAccepted
  <2>4. "unsafe" \notin Range(d.field)
    BY <2>1, RAccepted
  <2> QED BY <2>2, <2>3, <2>4 DEF FreeTexts
<1>3. CASE c = "deviceSessionStatus"
  <2>1. d \in D!Document /\ D!Errors(d) = {}
    BY <1>3, DocumentsAssumption DEF Errors
  <2>2. DOMAIN d.field = D!Policies \cup D!Names \cup D!PccxLabNames
    BY <2>1, DAccepted DEF D!Fields
  <2>3. \A f \in D!Policies : d.field[f] = "good"
    BY <2>1, DAccepted
  <2>4. "unsafe" \notin Range(d.field)
    BY <2>1, DAccepted
  <2> QED BY <2>2, <2>3, <2>4 DEF FreeTexts
<1>4. CASE c = "xsimDiagnostics"
  <2>1. d \in X!Document /\ X!Errors(d) = {}
    BY <1>4, DocumentsAssumption DEF Errors
  <2>2. DOMAIN d.field = X!PayloadPolicies \cup {"source"}
    BY <2>1, XAccepted DEF X!Fields
  <2>3. \A f \in X!PayloadPolicies : d.field[f] = "good"
    BY <2>1, XAccepted
  <2>4. "unsafe" \notin Range(d.field)
    BY <2>1, XAccepted
  <2> QED BY <2>2, <2>3, <2>4 DEF FreeTexts
<1> QED BY <1>1, <1>2, <1>3, <1>4 DEF ContractNames

\* Whether the surface of an accepted document is shown.
LEMMA Shown ==
  ASSUME NEW c \in ContractNames, NEW d \in Documents(c), Errors(c, d) = {}
  PROVE  SurfaceErrors(c, Summary(c, d)) = {} <=>
           (c = "diagnosticsHandoff" => NotText(d.field, NamesOnlyShownIfTexts) = {})
<1>1. CASE c = "diagnosticsHandoff"
  <2>1. d \in H!Document /\ H!Errors(d) = {}
    BY <1>1, DocumentsAssumption DEF Errors
  <2> DEFINE s == H!Summary(d)
  <2>2. /\ H!Unexpected(s.field, H!SurfacePolicies \cup H!SurfaceSafety) = {}
        /\ H!NotText(s.field, H!SurfaceNames) = {} <=> NotText(d.field, NamesOnlyShownIfTexts) = {}
        /\ H!NotTexts("transportKinds", s.lists["transportKinds"]) = {}
        /\ H!NotTexts("limitations", s.lists["limitations"]) = {}
        /\ H!Scanned(H!Range(s.field) \cup UNION {H!Range(l) : l \in H!Range(s.lists)}) = {}
    BY <2>1, HShown
  <2>3. H!CountErrors(s.counts) = {}
    BY <2>1, HCountErrors
  <2> HIDE DEF s
  <2>4. H!SurfaceErrors(s) = {} <=> H!NotText(s.field, H!SurfaceNames) = {}
    BY <2>2, <2>3 DEF H!SurfaceErrors
  <2>5. SurfaceErrors(c, Summary(c, d)) = H!SurfaceErrors(s)
    BY <1>1 DEF SurfaceErrors, Summary, s
  <2> QED BY <1>1, <2>2, <2>4, <2>5
<1>2. CASE c = "runtimeReadiness"
  BY <1>2, RShown, DocumentsAssumption DEF Errors, SurfaceErrors, Summary
<1>3. CASE c = "deviceSessionStatus"
  BY <1>3, DShown, DocumentsAssumption DEF Errors, SurfaceErrors, Summary
<1>4. CASE c = "xsimDiagnostics"
  BY <1>4, XShown, DocumentsAssumption DEF Errors, SurfaceErrors, Summary
<1> QED BY <1>1, <1>2, <1>3, <1>4 DEF ContractNames

\* The surface of an accepted document as it was made passes the check of the bundle.
LEMMA SurfaceIsSafe ==
  ASSUME NEW c \in ContractNames, NEW d \in Documents(c)
  PROVE  Safe(c, Surface(c, Summary(c, d)))
<1> DEFINE field == Surface(c, Summary(c, d)).field
<1> SUFFICES \A p \in LookedAt(c) : p \in DOMAIN field /\ field[p] = "good"
  BY DEF Safe, At, LookedAt
<1>1. CASE c = "diagnosticsHandoff"
  <2>1. field = H!Surface(H!Summary(d)).field
    BY <1>1 DEF Surface, Summary
  <2>2. LookedAt(c) \subseteq H!ShownSafety \cup {"status", "summaryAvailable", "rawParsedByUi"}
    BY <1>1 DEF LookedAt, ContextTrue, ContextFalse, H!ContextTrue, H!ContextFalse,
                H!ShownSafety
  <2> HIDE DEF field
  <2> QED BY <2>1, <2>2, HSurfaceIs
<1>2. CASE c = "runtimeReadiness"
  <2> DEFINE s == R!Summary(d)
  <2>1. field = R!Surface(s).field /\ d \in R!Document
    BY <1>2, DocumentsAssumption DEF Surface, Summary
  <2>2. LookedAt(c) \subseteq R!SurfaceSafety \cup {"localOnly", "pccxLabValidatorInvocation",
          "shellExecution", "kv260RuntimeExecution", "status", "summaryAvailable", "rawParsedByUi"}
    BY <1>2 DEF LookedAt, ContextTrue, ContextFalse, R!ContextTrue, R!ContextFalse,
                R!ShownSafety, R!SurfaceSafety
  <2>3. \A p \in R!SurfaceSafety : p \in DOMAIN s.field /\ s.field[p] = "good"
    BY <2>1, RSummaryIs DEF R!SurfaceSafety, R!SummarySafety
  <2> HIDE DEF field, s
  <2> QED BY <2>1, <2>2, <2>3, RSurfaceIs
<1>3. CASE c = "deviceSessionStatus"
  <2> DEFINE s == D!Summary(d)
             safety == D!SurfaceSafety \cup
               {"pccxLab.automaticUpload", "pccxLab.writeBack", "pccxLab.executesPccxLab"}
  <2>1. field = D!Surface(s).field /\ d \in D!Document
    BY <1>3, DocumentsAssumption DEF Surface, Summary
  <2>2. LookedAt(c) \subseteq
          safety \cup D!AddedSafety \cup {"status", "summaryAvailable", "rawParsedByUi"}
    BY <1>3 DEF LookedAt, ContextTrue, ContextFalse, D!ContextTrue, D!ContextFalse,
                D!SurfaceSafety
  <2>3. safety \subseteq D!SummarySafety \cup D!SummaryPccxLab
    BY DEF D!SurfaceSafety, D!SummarySafety, D!SummaryPccxLab
  <2>4. safety \subseteq D!SurfaceNames \cup D!SurfacePolicies \cup D!SurfaceSafety
    BY DEF D!SurfacePolicies
  <2> HIDE DEF field, s, safety
  <2>5. \A p \in safety : p \in DOMAIN s.field /\ s.field[p] = "good"
    BY <2>1, <2>3, DSummaryIs DEF s
  <2> QED BY <2>1, <2>2, <2>4, <2>5, DSurfaceIs
<1>4. CASE c = "xsimDiagnostics"
  <2> DEFINE s == X!Summary(d)
  <2>1. field = X!Surface(s).field /\ d \in X!Document
    BY <1>4, DocumentsAssumption DEF Surface, Summary
  <2>2. LookedAt(c) \subseteq
          X!SurfaceSafety \cup {"status", "summaryAvailable", "rawParsedByUi", "rawLogParsedByUi"}
    BY <1>4 DEF LookedAt, ContextTrue, ContextFalse, X!ContextTrue, X!ContextFalse,
                X!SurfaceSafety
  <2>3. \A p \in X!SurfaceSafety : p \in DOMAIN s.field /\ s.field[p] = "good"
    BY <2>1, XSummaryIs DEF X!SurfaceSafety, X!SummarySafety
  <2> HIDE DEF field, s
  <2> QED BY <2>1, <2>2, <2>3, XSurfaceIs
<1> QED BY <1>1, <1>2, <1>3, <1>4 DEF ContractNames

\* What a section keeps of a surface.
LEMMA SectionIs ==
  ASSUME NEW c \in ContractNames, NEW s
  PROVE  LET made == Section(c, s) IN
         /\ DOMAIN made = {"status", "filled", "summaryAvailable", "counts", "lists"}
         /\ made.status = StatusOf(s.field)
         /\ made.filled
         /\ made.summaryAvailable = (At(s.field, "summaryAvailable") = "good")
         /\ made.counts = s.counts
         /\ c = "xsimDiagnostics" => made.lists["files"] = X!FirstOf(s.lists["files"], MaxFiles)
<1>1. CASE c = "diagnosticsHandoff"
  BY <1>1 DEF Section, H!Section, H!SectionWith, H!StatusOf, H!At, StatusOf, At
<1>2. CASE c = "runtimeReadiness"
  BY <1>2 DEF Section, R!Section, R!SectionWith, R!StatusOf, R!At, StatusOf, At
<1>3. CASE c = "deviceSessionStatus"
  BY <1>3 DEF Section, D!Section, D!SectionWith, D!StatusOf, D!At, StatusOf, At
<1>4. CASE c = "xsimDiagnostics"
  BY <1>4 DEF Section, X!Section, X!SectionWith, X!StatusOf, X!At, StatusOf, At
<1> QED BY <1>1, <1>2, <1>3, <1>4 DEF ContractNames

\* A surface as it was made says that it is available, and so does its section.
LEMMA MadeAvailable ==
  ASSUME NEW c \in ContractNames, NEW s
  PROVE  /\ "status" \in DOMAIN Surface(c, s).field
         /\ Surface(c, s).field["status"] = "good"
         /\ StatusOf(Surface(c, s).field) = "available"
<1>1. "status" \in DOMAIN Surface(c, s).field /\ Surface(c, s).field["status"] = "good"
  <2>1. CASE c = "diagnosticsHandoff"
    BY <2>1, HSurfaceIs DEF Surface
  <2>2. CASE c = "runtimeReadiness"
    BY <2>2, RSurfaceIs DEF Surface
  <2>3. CASE c = "deviceSessionStatus"
    BY <2>3, DSurfaceIs DEF Surface
  <2>4. CASE c = "xsimDiagnostics"
    BY <2>4, XSurfaceIs DEF Surface
  <2> QED BY <2>1, <2>2, <2>3, <2>4 DEF ContractNames
<1> QED BY <1>1 DEF StatusOf, At

\* A surface keeps the counts and the lists of the summary.
LEMMA SurfaceKeeps ==
  ASSUME NEW c \in ContractNames, NEW s
  PROVE  LET made == Surface(c, s) IN
         /\ DOMAIN made = {"field", "counts", "lists"}
         /\ made.counts = s.counts
         /\ made.lists = s.lists
<1>1. CASE c = "diagnosticsHandoff"
  BY <1>1 DEF Surface, H!Surface
<1>2. CASE c = "runtimeReadiness"
  BY <1>2 DEF Surface, R!Surface
<1>3. CASE c = "deviceSessionStatus"
  BY <1>3 DEF Surface, D!Surface
<1>4. CASE c = "xsimDiagnostics"
  BY <1>4 DEF Surface, X!Surface
<1> QED BY <1>1, <1>2, <1>3, <1>4 DEF ContractNames

\* The files of a section are the first of those of the summary.
LEMMA FilesAreTheDocuments ==
  ASSUME doc \in X!Document, X!Errors(doc) = {},
         section.lists["files"] = X!FirstOf(X!FilesOf(doc.problems), MaxFiles)
  PROVE  FilesOfDocument
<1> DEFINE all   == X!FilesOf(doc.problems)
           files == section.lists["files"]
           m     == Len(all)
           n     == IF m < MaxFiles THEN m ELSE MaxFiles
<1>1. doc.problems \in Seq(X!Problem)
  BY DEF X!Document
<1>2. /\ m \in Nat /\ DOMAIN all = 1 .. m /\ Len(all) = m
      /\ \A i \in DOMAIN all : all[i].problemCount = NumberWith(doc.problems, "file", all[i].file)
      /\ \A p \in DOMAIN doc.problems : doc.problems[p].file \in X!InFiles =>
           \E i \in DOMAIN all : all[i].file = doc.problems[p].file
      /\ all \in Seq([file : X!InFiles, problemCount : Nat])
  BY <1>1, FilesAre
<1>3. \A p \in DOMAIN doc.problems : doc.problems[p].file \in X!InFiles \cup {"none"}
  BY XAccepted
<1>4. files = SubSeq(all, 1, n)
  BY DEF X!FirstOf
<1> HIDE DEF all, files, m
<1>5. n \in Nat /\ n <= m /\ n <= MaxFiles /\ (n < MaxFiles => n = m)
  BY <1>2, MaxFilesAssumption
<1> HIDE DEF n
<1>6. Len(files) = n /\ DOMAIN files = 1 .. n /\ \A i \in 1 .. n : files[i] = all[i]
  <2> DEFINE E == [file : X!InFiles, problemCount : Nat]
  <2>1. all \in Seq(E) /\ 1 \in 1 .. m + 1 /\ n \in 1 - 1 .. m
    BY <1>2, <1>5
  <2> HIDE DEF E
  <2>2. /\ SubSeq(all, 1, n) \in Seq(E)
        /\ Len(SubSeq(all, 1, n)) = n
        /\ \A i \in 1 .. n : SubSeq(all, 1, n)[i] = all[i]
    BY <1>2, <1>5, <2>1
  <2> QED BY <1>4, <1>5, <2>2
<1>7. \A i \in DOMAIN files : files[i].problemCount = NumberWith(doc.problems, "file", files[i].file)
  <2>1. \A i \in 1 .. n : i \in 1 .. m
    BY <1>2, <1>5
  <2> QED BY <1>2, <1>6, <2>1
<1>8. ASSUME NEW p \in Range(doc.problems), p.file # "none", Len(files) < MaxFiles
      PROVE  p.file \in Range(Column(files, "file"))
  <2>1. PICK q \in DOMAIN doc.problems : doc.problems[q] = p
    BY DEF Range
  <2>2. PICK i \in DOMAIN all : all[i].file = p.file
    BY <1>2, <1>3, <1>8, <2>1
  <2>3. n = m
    BY <1>5, <1>6, <1>8
  <2>4. i \in DOMAIN files /\ files[i].file = p.file
    BY <1>2, <1>6, <2>2, <2>3
  <2> QED BY <2>4 DEF Column, Range
<1> QED BY <1>5, <1>6, <1>7, <1>8 DEF FilesOfDocument, files

\* The counts of a summary are those of the document.
LEMMA CountsKept ==
  ASSUME contract \in ContractNames, doc \in Documents(contract), Errors(contract, doc) = {},
         section.counts = Summary(contract, doc).counts,
         contract = "xsimDiagnostics" =>
           section.lists["files"] = X!FirstOf(Summary(contract, doc).lists["files"], MaxFiles)
  PROVE  CountsAreTheDocuments
<1>1. CASE contract = "diagnosticsHandoff"
  <2>1. doc \in H!Document /\ section.counts = H!Summary(doc).counts
    BY <1>1, DocumentsAssumption DEF Summary
  <2>2. /\ section.counts["count"] = Len(doc.diagnostics)
        /\ \A s \in H!Severities : section.counts[s] = NumberWith(doc.diagnostics, "severity", s)
    BY <2>1, HCounts
  <2> QED BY <1>1, <2>2 DEF CountsAreTheDocuments, NumberOf
<1>2. CASE contract = "runtimeReadiness"
  <2>1. doc \in R!Document /\ section.counts = R!Summary(doc).counts
    BY <1>2, DocumentsAssumption DEF Summary
  <2>2. section.counts["count"] = Len(doc.blockers)
    BY <2>1 DEF R!Summary
  <2> QED BY <1>2, <2>2 DEF CountsAreTheDocuments, NumberOf
<1>3. CASE contract = "deviceSessionStatus"
  <2>1. doc \in D!Document /\ section.counts = D!Summary(doc).counts
    BY <1>3, DocumentsAssumption DEF Summary
  <2>2. /\ section.counts["count"] = Len(doc.rows)
        /\ section.counts["flowSteps"] = Len(doc.steps)
        /\ \A s \in D!Severities : section.counts[s] = NumberWith(doc.taxonomy, "severity", s)
    BY <2>1, DCounts
  <2> QED BY <1>3, <2>2 DEF CountsAreTheDocuments, NumberOf
<1>4. CASE contract = "xsimDiagnostics"
  <2>1. /\ doc \in X!Document /\ X!Errors(doc) = {}
        /\ section.counts = X!Summary(doc).counts
        /\ section.lists["files"] = X!FirstOf(X!Summary(doc).lists["files"], MaxFiles)
    BY <1>4, DocumentsAssumption DEF Summary, Errors
  <2>2. /\ section.counts["count"] = Len(doc.problems)
        /\ \A s \in X!Severities : section.counts[s] = NumberWith(doc.problems, "severity", s)
    BY <2>1, XCounts
  <2>3. X!Summary(doc).lists["files"] = X!FilesOf(doc.problems)
    BY DEF X!Summary
  <2>4. FilesOfDocument
    BY <2>1, <2>3, FilesAreTheDocuments
  <2> QED BY <1>4, <2>2, <2>4 DEF CountsAreTheDocuments, NumberOf
<1> QED BY <1>1, <1>2, <1>3, <1>4 DEF ContractNames

-----------------------------------------------------------------------------
(* The inductive invariant: what is at each hop is made of the document *)

\* What the consumer and the surface make of the document.
SummaryOfDoc == Summary(contract, doc)
SurfaceOfDoc == Surface(contract, SummaryOfDoc)

IsAccepted == Errors(contract, doc) = {}
IsShown    == IsAccepted /\ SurfaceErrors(contract, SummaryOfDoc) = {}

\* A surface is as it was made, or one of its fields is not.
SurfaceStands ==
  \/ altered = "none" /\ surface = SurfaceOfDoc
  \/ /\ altered \in DOMAIN SurfaceOfDoc.field
     /\ \E v : surface = [SurfaceOfDoc EXCEPT !.field[altered] = v]

\* A section is made in the way of what the bundle was given.
SectionStands ==
  \/ offer = "nothing" /\ section = Without("notAvailable")
  \/ offer = "otherKind" /\ section = Without("invalid")
  \/ offer = "summary" /\ IsAccepted /\ section = SectionOfSummary(contract, SummaryOfDoc)
  \/ offer = "surface" /\ IsShown /\ SurfaceStands /\ section = SectionOf(contract, surface)
  \/ /\ offer = "problems" /\ contract = "xsimDiagnostics"
     /\ section = SectionOfProblems(doc)

HopsInv ==
  /\ contract \in ContractNames /\ doc \in Documents(contract)
  /\ stage \in {"document", "refused", "consumed", "notShown", "shown", "built"}
  /\ stage \in {"consumed", "notShown", "shown"} \/ summary # None =>
       IsAccepted /\ summary = SummaryOfDoc
  /\ stage = "notShown" => ~IsShown
  /\ altered # "none" => stage \in {"shown", "built"}
  /\ stage = "shown" \/ surface # None \/ altered # "none" => IsShown /\ SurfaceStands
  /\ IF stage = "built" THEN SectionStands ELSE offer = "none" /\ section = NoSection

\* What is made of the document is the same after the step.
SameOfDoc ==
  /\ IsAccepted' <=> IsAccepted
  /\ IsShown' <=> IsShown
  /\ SummaryOfDoc' = SummaryOfDoc
  /\ SurfaceOfDoc' = SurfaceOfDoc

\* It is if the document is.
LEMMA DocStays ==
  ASSUME contract' = contract, doc' = doc
  PROVE  SameOfDoc
BY DEF SameOfDoc, IsAccepted, IsShown, SummaryOfDoc, SurfaceOfDoc

\* The invariant holds before the first hop.
LEMMA HopsInit == Init => HopsInv
  BY DEF Init, HopsInv

\* The consumer.
LEMMA ConsumeStep ==
  ASSUME HopsInv, Consume PROVE HopsInv'
<1>1. /\ stage = "document" /\ UNCHANGED <<contract, doc, surface, altered, offer, section>>
      /\ \/ IsAccepted /\ stage' = "consumed" /\ summary' = SummaryOfDoc
         \/ ~IsAccepted /\ stage' = "refused" /\ summary' = summary
  BY DEF Consume, IsAccepted, SummaryOfDoc
<1>2. SameOfDoc
  BY <1>1, DocStays
<1>3. SurfaceStands' <=> SurfaceStands
  BY <1>1, <1>2 DEF SurfaceStands, SameOfDoc
<1> QED BY <1>1, <1>2, <1>3 DEF HopsInv, SameOfDoc

\* The surface.
LEMMA ShowStep ==
  ASSUME HopsInv, Show PROVE HopsInv'
<1>1. /\ stage = "consumed" /\ UNCHANGED <<contract, doc, summary, altered, offer, section>>
      /\ IsAccepted /\ summary = SummaryOfDoc
      /\ \/ IsShown /\ stage' = "shown" /\ surface' = SurfaceOfDoc
         \/ ~IsShown /\ stage' = "notShown" /\ surface' = surface
  BY DEF Show, HopsInv, IsShown, SurfaceOfDoc
<1>2. SameOfDoc
  BY <1>1, DocStays
<1>3. altered = "none" /\ altered' = "none"
  BY <1>1 DEF HopsInv
<1>4. CASE stage' = "shown"
  <2>1. IsShown /\ surface' = SurfaceOfDoc
    BY <1>1, <1>4
  <2>2. SurfaceStands'
    BY <1>2, <1>3, <2>1 DEF SurfaceStands, SameOfDoc
  <2> QED BY <1>1, <1>2, <1>3, <1>4, <2>1, <2>2 DEF HopsInv, SameOfDoc
<1>5. CASE stage' = "notShown"
  <2>1. ~IsShown /\ surface' = surface
    BY <1>1, <1>5
  <2> QED BY <1>1, <1>2, <1>3, <1>5, <2>1 DEF HopsInv, SameOfDoc
<1> QED BY <1>1, <1>4, <1>5

\* No field of a surface is taken for no field.
LEMMA NoFieldNone ==
  ASSUME NEW c \in ContractNames, NEW s PROVE "none" \notin DOMAIN Surface(c, s).field
<1>1. CASE c = "diagnosticsHandoff"
  BY <1>1, HSurfaceIs DEF Surface, H!ShownSafety, H!SurfaceNames, H!SurfacePolicies
<1>2. CASE c = "runtimeReadiness"
  BY <1>2, RSurfaceIs DEF Surface, R!SurfaceNames, R!SurfacePolicies, R!SurfaceSafety
<1>3. CASE c = "deviceSessionStatus"
  BY <1>3, DSurfaceIs DEF Surface, D!AddedSafety, D!SurfaceNames, D!SurfacePolicies,
                          D!SurfaceSafety
<1>4. CASE c = "xsimDiagnostics"
  BY <1>4, XSurfaceIs DEF Surface, X!SurfacePolicies, X!SurfaceSafety
<1> QED BY <1>1, <1>2, <1>3, <1>4 DEF ContractNames

\* A caller.
LEMMA AlterStep ==
  ASSUME HopsInv, Alter PROVE HopsInv'
<1>1. /\ stage = "shown" /\ altered = "none"
      /\ UNCHANGED <<contract, doc, stage, summary, offer, section>>
  BY DEF Alter
<1>2. IsAccepted /\ IsShown /\ surface = SurfaceOfDoc /\ contract \in ContractNames
  <2>1. IsShown /\ SurfaceStands
    BY <1>1 DEF HopsInv
  <2>2. "none" \notin DOMAIN SurfaceOfDoc.field
    BY NoFieldNone DEF HopsInv, SurfaceOfDoc
  <2> QED BY <1>1, <2>1, <2>2 DEF SurfaceStands, IsShown, HopsInv
<1>3. PICK v : /\ altered' \in DOMAIN surface.field
               /\ surface' = [surface EXCEPT !.field[altered'] = v]
  BY DEF Alter
<1>4. SameOfDoc
  BY <1>1, DocStays
<1>5. SurfaceStands'
  BY <1>2, <1>3, <1>4 DEF SurfaceStands, SameOfDoc
<1> QED BY <1>1, <1>2, <1>4, <1>5 DEF HopsInv, SameOfDoc

\* The bundle, in whichever way.
LEMMA BuildStep ==
  ASSUME HopsInv, NEW given, NEW built, Build(given, built),
         \/ given = "nothing" /\ built = Without("notAvailable")
         \/ given = "otherKind" /\ built = Without("invalid")
         \/ given = "summary" /\ IsAccepted /\ built = SectionOfSummary(contract, SummaryOfDoc)
         \/ given = "surface" /\ IsShown /\ SurfaceStands /\ built = SectionOf(contract, surface)
         \/ /\ given = "problems" /\ contract = "xsimDiagnostics"
            /\ built = SectionOfProblems(doc)
  PROVE  HopsInv'
<1>1. /\ stage' = "built" /\ offer' = given /\ section' = built
      /\ UNCHANGED <<contract, doc, summary, surface, altered>>
  BY DEF Build
<1>2. SameOfDoc
  BY <1>1, DocStays
<1>3. SurfaceStands' <=> SurfaceStands
  BY <1>1, <1>2 DEF SurfaceStands, SameOfDoc
<1>4. SectionStands'
  BY <1>1, <1>2, <1>3 DEF SectionStands, SameOfDoc
<1> QED BY <1>1, <1>2, <1>3, <1>4 DEF HopsInv, SameOfDoc

\* Every hop keeps it.
LEMMA HopsStep == HopsInv /\ [Next]_vars => HopsInv'
<1> SUFFICES ASSUME HopsInv, [Next]_vars PROVE HopsInv'
  OBVIOUS
<1>1. CASE Consume
  BY <1>1, ConsumeStep
<1>2. CASE Show
  BY <1>2, ShowStep
<1>3. CASE Alter
  BY <1>3, AlterStep
<1>4. CASE BuildOfNothing
  BY <1>4, BuildStep DEF BuildOfNothing
<1>5. CASE BuildOfOtherKind
  BY <1>5, BuildStep DEF BuildOfOtherKind
<1>6. CASE BuildOfSummary
  <2>1. IsAccepted /\ summary = SummaryOfDoc
    BY <1>6 DEF BuildOfSummary, HopsInv
  <2> QED BY <1>6, <2>1, BuildStep DEF BuildOfSummary
<1>7. CASE BuildOfSurface
  <2>1. IsShown /\ SurfaceStands
    BY <1>7 DEF BuildOfSurface, HopsInv
  <2> QED BY <1>7, <2>1, BuildStep DEF BuildOfSurface
<1>8. CASE BuildOfProblems
  BY <1>8, BuildStep DEF BuildOfProblems
<1>9. CASE UNCHANGED vars
  <2>1. UNCHANGED <<contract, doc, stage, summary, surface, altered, offer, section>>
    BY <1>9 DEF vars
  <2>2. SameOfDoc
    BY <2>1, DocStays
  <2>3. SurfaceStands' <=> SurfaceStands
    BY <2>1, <2>2 DEF SurfaceStands, SameOfDoc
  <2>4. SectionStands' <=> SectionStands
    BY <2>1, <2>2, <2>3 DEF SectionStands, SameOfDoc
  <2> QED BY <2>1, <2>2, <2>3, <2>4 DEF HopsInv, SameOfDoc
<1> QED BY <1>1, <1>2, <1>3, <1>4, <1>5, <1>6, <1>7, <1>8, <1>9 DEF Next

\* So it always holds.
LEMMA HopsInvariance == Spec => []HopsInv
  BY HopsInit, HopsStep, PTL DEF Spec

\* A surface that stands has the counts and lists of the document's summary.
LEMMA StandingSurface ==
  ASSUME HopsInv, SurfaceStands
  PROVE  /\ DOMAIN surface = {"field", "counts", "lists"}
         /\ DOMAIN surface.field = DOMAIN SurfaceOfDoc.field
         /\ surface.counts = SummaryOfDoc.counts
         /\ surface.lists = SummaryOfDoc.lists
<1>1. /\ DOMAIN SurfaceOfDoc = {"field", "counts", "lists"}
      /\ SurfaceOfDoc.counts = SummaryOfDoc.counts
      /\ SurfaceOfDoc.lists = SummaryOfDoc.lists
  BY SurfaceKeeps DEF HopsInv, SurfaceOfDoc
<1>2. CASE surface = SurfaceOfDoc
  BY <1>1, <1>2
<1>3. CASE \E v : surface = [SurfaceOfDoc EXCEPT !.field[altered] = v]
  <2>1. PICK v : surface = [SurfaceOfDoc EXCEPT !.field[altered] = v]
    BY <1>3
  <2> QED BY <1>1, <2>1
<1> QED BY <1>2, <1>3 DEF SurfaceStands

\* A section with something in it is a section of the document.
LEMMA FilledSection ==
  ASSUME HopsInv, section.filled
  PROVE  /\ IsAccepted
         /\ section.counts = SummaryOfDoc.counts
         /\ contract = "xsimDiagnostics" =>
              section.lists["files"] = X!FirstOf(SummaryOfDoc.lists["files"], MaxFiles)
         /\ offer = "surface" => Safe(contract, surface) /\ SurfaceStands
<1>1. SectionStands /\ contract \in ContractNames
  BY DEF HopsInv, NoSection
<1>2. section # Without("notAvailable") /\ section # Without("invalid")
  BY DEF Without
<1>3. ASSUME NEW s, section = Section(contract, s), s.counts = SummaryOfDoc.counts,
             s.lists = SummaryOfDoc.lists
      PROVE  /\ section.counts = SummaryOfDoc.counts
             /\ contract = "xsimDiagnostics" =>
                  section.lists["files"] = X!FirstOf(SummaryOfDoc.lists["files"], MaxFiles)
  <2>1. /\ section.counts = s.counts
        /\ contract = "xsimDiagnostics" =>
             section.lists["files"] = X!FirstOf(s.lists["files"], MaxFiles)
    BY <1>1, <1>3, SectionIs
  <2> QED BY <1>3, <2>1
<1>4. SurfaceOfDoc.counts = SummaryOfDoc.counts /\ SurfaceOfDoc.lists = SummaryOfDoc.lists
  BY <1>1, SurfaceKeeps DEF SurfaceOfDoc
<1>5. CASE offer = "summary"
  <2>1. IsAccepted /\ section = SectionOfSummary(contract, SummaryOfDoc)
    BY <1>1, <1>5 DEF SectionStands
  <2>2. section = Section(contract, SurfaceOfDoc)
    BY <1>2, <2>1 DEF SectionOfSummary, SectionOf, SurfaceOfDoc
  <2> QED BY <1>3, <1>4, <1>5, <2>1, <2>2
<1>6. CASE offer = "surface"
  <2>1. IsShown /\ SurfaceStands /\ section = SectionOf(contract, surface)
    BY <1>1, <1>6 DEF SectionStands
  <2>2. Safe(contract, surface) /\ section = Section(contract, surface)
    BY <1>2, <2>1 DEF SectionOf
  <2>3. surface.counts = SummaryOfDoc.counts /\ surface.lists = SummaryOfDoc.lists
    BY <2>1, StandingSurface
  <2> QED BY <1>3, <1>6, <2>1, <2>2, <2>3 DEF IsShown
<1>7. CASE offer = "problems"
  <2>1. contract = "xsimDiagnostics" /\ section = SectionOfProblems(doc)
    BY <1>1, <1>7 DEF SectionStands
  <2>2. X!Errors(doc) = {} /\ section = SectionOf("xsimDiagnostics", X!Surface(X!Summary(doc)))
    BY <1>2, <2>1 DEF SectionOfProblems
  <2>3. IsAccepted /\ SurfaceOfDoc = X!Surface(X!Summary(doc))
    BY <2>1, <2>2 DEF IsAccepted, Errors, SurfaceOfDoc, SummaryOfDoc, Surface, Summary
  <2>4. section = Section(contract, SurfaceOfDoc)
    BY <1>2, <2>1, <2>2, <2>3 DEF SectionOf
  <2> QED BY <1>3, <1>4, <1>7, <2>3, <2>4
<1> QED BY <1>1, <1>2, <1>5, <1>6, <1>7 DEF SectionStands

\* A claim that was turned round is looked at.
LEMMA SafeFromInv == HopsInv => OnlySafeAvailable
<1> SUFFICES ASSUME HopsInv, section.filled
             PROVE  /\ \A f \in DOMAIN doc.field : doc.field[f] = "good" \/ f \in FreeTexts
                    /\ "unsafe" \notin Range(doc.field)
                    /\ altered \in Claims /\ offer = "surface" /\ surface.field[altered] = "other"
                         => altered \in NotLookedAtAgain
  BY DEF OnlySafeAvailable
<1>1. contract \in ContractNames /\ doc \in Documents(contract) /\ IsAccepted
  BY FilledSection DEF HopsInv
<1>2. /\ \A f \in DOMAIN doc.field : doc.field[f] = "good" \/ f \in FreeTexts
      /\ "unsafe" \notin Range(doc.field)
  BY <1>1, Accepted DEF IsAccepted
<1>3. ASSUME altered \in Claims, offer = "surface", surface.field[altered] = "other",
             altered \notin NotLookedAtAgain
      PROVE  FALSE
  <2>1. Safe(contract, surface) /\ SurfaceStands
    BY <1>3, FilledSection
  <2>2. altered # "none"
    BY <1>3, NoClaimsAreClaims DEF NoClaims
  <2>3. altered \in DOMAIN SurfaceOfDoc.field
    BY <2>1, <2>2 DEF SurfaceStands
  <2>4. altered \in LookedAt(contract)
    BY <1>1, <1>3, <2>3, ClaimsAreLookedAt DEF SurfaceOfDoc
  <2>5. At(surface.field, altered) = "other"
    BY <1>3, <2>1, <2>3, StandingSurface DEF At
  <2> QED BY <2>1, <2>4, <2>5 DEF Safe, LookedAt
<1> QED BY <1>2, <1>3

\* What CountsAreTheDocuments asks of a section is what CountsKept says of it.
LEMMA CountsFromInv == HopsInv => CountsAreTheDocuments
<1> SUFFICES ASSUME HopsInv, section.filled PROVE CountsAreTheDocuments
  BY DEF CountsAreTheDocuments
<1>1. /\ contract \in ContractNames /\ doc \in Documents(contract)
      /\ Errors(contract, doc) = {}
      /\ section.counts = Summary(contract, doc).counts
      /\ contract = "xsimDiagnostics" =>
           section.lists["files"] = X!FirstOf(Summary(contract, doc).lists["files"], MaxFiles)
  BY FilledSection DEF HopsInv, IsAccepted, SummaryOfDoc
<1> QED BY <1>1, CountsKept

\* Each way into the bundle takes what the surface takes.
LEMMA AvailableFromInv == HopsInv => AcceptedIsAvailable
<1> SUFFICES ASSUME HopsInv PROVE AcceptedIsAvailable
  OBVIOUS
<1>0. contract \in ContractNames /\ doc \in Documents(contract)
  BY DEF HopsInv
<1>1. IsAccepted => (IsShown <=> ShowableIfAccepted)
  BY <1>0, Shown DEF IsAccepted, IsShown, SummaryOfDoc, ShowableIfAccepted
<1>2. Safe(contract, SurfaceOfDoc)
  BY <1>0, SurfaceIsSafe DEF SurfaceOfDoc, SummaryOfDoc
<1>3. SectionOf(contract, SurfaceOfDoc).status = "available"
  BY <1>0, <1>2, SectionIs, MadeAvailable DEF SectionOf, SurfaceOfDoc
<1>4. Without("invalid").status = "invalid"
  BY DEF Without
<1>5. stage = "notShown" => ~ShowableIfAccepted
  BY <1>1 DEF HopsInv
<1>6. ASSUME Offered, altered = "none"
      PROVE  Available <=> IsAccepted /\ ShowableIfAccepted
  <2>1. SectionStands
    BY <1>6 DEF HopsInv, Offered
  <2>2. CASE offer = "summary"
    <3>1. IsAccepted /\ section = SectionOfSummary(contract, SummaryOfDoc)
      BY <2>1, <2>2 DEF SectionStands
    <3>2. section = IF IsShown THEN SectionOf(contract, SurfaceOfDoc) ELSE Without("invalid")
      BY <3>1 DEF SectionOfSummary, IsShown, SurfaceOfDoc
    <3> QED BY <1>1, <1>3, <1>4, <3>1, <3>2 DEF Available
  <2>3. CASE offer = "surface"
    <3>1. IsShown /\ SurfaceStands /\ section = SectionOf(contract, surface)
      BY <2>1, <2>3 DEF SectionStands
    <3>2. surface = SurfaceOfDoc
      <4>1. "none" \notin DOMAIN SurfaceOfDoc.field
        BY <1>0, NoFieldNone DEF SurfaceOfDoc
      <4> QED BY <1>6, <3>1, <4>1 DEF SurfaceStands
    <3> QED BY <1>1, <1>3, <3>1, <3>2 DEF Available, IsShown
  <2>4. CASE offer = "problems"
    <3>1. contract = "xsimDiagnostics" /\ section = SectionOfProblems(doc)
      BY <2>1, <2>4 DEF SectionStands
    <3>2. /\ IsAccepted <=> X!Errors(doc) = {}
          /\ SurfaceOfDoc = X!Surface(X!Summary(doc))
          /\ ShowableIfAccepted
      BY <3>1 DEF IsAccepted, Errors, SurfaceOfDoc, SummaryOfDoc, Surface, Summary,
                  ShowableIfAccepted
    <3>3. section = IF IsAccepted THEN SectionOf(contract, SurfaceOfDoc) ELSE Without("invalid")
      BY <3>1, <3>2 DEF SectionOfProblems
    <3> QED BY <1>3, <1>4, <3>2, <3>3 DEF Available
  <2> QED BY <1>6, <2>2, <2>3, <2>4 DEF Offered
<1> QED BY <1>5, <1>6 DEF AcceptedIsAvailable, IsAccepted

\* Only of a surface that was relabelled has a section that is filled another status.
LEMMA StatusStands ==
  ASSUME HopsInv
  PROVE  \/ section \in {NoSection, Without("notAvailable"), Without("invalid")}
         \/ /\ section.summaryAvailable \in BOOLEAN
            /\ section.status \in {"available", "invalid", "other"}
            /\ section.status = "available" \/ Relabelled
<1> SUFFICES ASSUME section \notin {NoSection, Without("notAvailable"), Without("invalid")}
             PROVE  /\ section.summaryAvailable \in BOOLEAN
                    /\ section.status \in {"available", "invalid", "other"}
                    /\ section.status = "available" \/ Relabelled
  OBVIOUS
<1>1. SectionStands /\ contract \in ContractNames
  BY DEF HopsInv
<1>2. ASSUME NEW s, section = Section(contract, s)
      PROVE  /\ section.summaryAvailable \in BOOLEAN
             /\ section.status = StatusOf(s.field)
             /\ section.status \in {"available", "invalid", "other"}
  <2>1. section.status = StatusOf(s.field) /\ section.summaryAvailable \in BOOLEAN
    BY <1>1, <1>2, SectionIs
  <2> QED BY <2>1 DEF StatusOf
<1>3. StatusOf(SurfaceOfDoc.field) = "available"
  BY <1>1, MadeAvailable DEF SurfaceOfDoc
<1>4. CASE section = Section(contract, SurfaceOfDoc)
  BY <1>2, <1>3, <1>4
<1>5. CASE offer = "surface"
  <2>1. SurfaceStands /\ section = SectionOf(contract, surface)
    BY <1>1, <1>5 DEF SectionStands
  <2>2. section = Section(contract, surface)
    BY <2>1 DEF SectionOf
  <2>3. ASSUME altered # "status" PROVE StatusOf(surface.field) = "available"
    <3>1. /\ DOMAIN surface.field = DOMAIN SurfaceOfDoc.field
          /\ "status" \in DOMAIN SurfaceOfDoc.field /\ SurfaceOfDoc.field["status"] = "good"
      BY <1>1, <2>1, StandingSurface, MadeAvailable DEF SurfaceOfDoc
    <3>2. surface.field["status"] = "good"
      <4>1. CASE surface = SurfaceOfDoc
        BY <3>1, <4>1
      <4>2. CASE \E v : surface = [SurfaceOfDoc EXCEPT !.field[altered] = v]
        <5>1. PICK v : surface = [SurfaceOfDoc EXCEPT !.field[altered] = v]
          BY <4>2
        <5>2. DOMAIN SurfaceOfDoc = {"field", "counts", "lists"}
          BY <1>1, SurfaceKeeps DEF SurfaceOfDoc
        <5>3. surface.field = [SurfaceOfDoc.field EXCEPT ![altered] = v]
          BY <5>1, <5>2
        <5> QED BY <2>3, <3>1, <5>3
      <4> QED BY <2>1, <4>1, <4>2 DEF SurfaceStands
    <3> QED BY <3>1, <3>2 DEF StatusOf, At
  <2> QED BY <1>2, <1>5, <2>2, <2>3 DEF Relabelled
<1>6. CASE offer = "summary"
  BY <1>1, <1>4, <1>6 DEF SectionStands, SectionOfSummary, SectionOf, SurfaceOfDoc
<1>7. CASE offer = "problems"
  <2>1. contract = "xsimDiagnostics" /\ section = SectionOfProblems(doc)
    BY <1>1, <1>7 DEF SectionStands
  <2>2. SurfaceOfDoc = X!Surface(X!Summary(doc))
    BY <2>1 DEF SurfaceOfDoc, SummaryOfDoc, Surface, Summary
  <2> QED BY <1>4, <2>1, <2>2 DEF SectionOfProblems, SectionOf
<1>8. offer \in {"summary", "surface", "problems"} \/ section = NoSection
        \/ section \in {Without("notAvailable"), Without("invalid")}
  BY <1>1 DEF SectionStands, HopsInv
<1> QED BY <1>5, <1>6, <1>7, <1>8

\* What the readers tell of a section of any of these shapes.
LEMMA ReportsFromInv == HopsInv => ReportsAgree
<1> SUFFICES ASSUME HopsInv, section # NoSection PROVE ReportsAgree
  BY DEF ReportsAgree
<1>1. CASE section = Without("notAvailable")
  BY <1>1 DEF ReportsAgree, Without, ProposalContext, BundleSummary, AuditEntries
<1>2. CASE section = Without("invalid")
  BY <1>2 DEF ReportsAgree, Without, ProposalContext, BundleSummary, AuditEntries
<1>3. CASE /\ section.summaryAvailable \in BOOLEAN
           /\ section.status \in {"available", "invalid", "other"}
           /\ section.status = "available" \/ Relabelled
  <2>1. CASE section.status = "available" /\ section.summaryAvailable
    BY <2>1 DEF ReportsAgree, ProposalContext, BundleSummary, AuditEntries
  <2>2. CASE ~section.summaryAvailable
    BY <1>3, <2>2 DEF ReportsAgree, ProposalContext, BundleSummary, AuditEntries
  <2>3. CASE section.status # "available" /\ section.summaryAvailable
    BY <1>3, <2>3 DEF ReportsAgree, ProposalContext, BundleSummary, AuditEntries
  <2> QED BY <1>3, <2>1, <2>2, <2>3
<1> QED BY <1>1, <1>2, <1>3, StatusStands

\* The shapes of what is made.
LEMMA TypeFromInv == HopsInv => TypeOK
<1> SUFFICES ASSUME HopsInv PROVE TypeOK
  OBVIOUS
<1>0. contract \in ContractNames
  BY DEF HopsInv
<1>1. DOMAIN SummaryOfDoc = {"field", "counts", "lists"}
  <2>1. CASE contract = "diagnosticsHandoff"
    BY <2>1 DEF SummaryOfDoc, Summary, H!Summary
  <2>2. CASE contract = "runtimeReadiness"
    BY <2>2 DEF SummaryOfDoc, Summary, R!Summary
  <2>3. CASE contract = "deviceSessionStatus"
    BY <2>3 DEF SummaryOfDoc, Summary, D!Summary
  <2>4. CASE contract = "xsimDiagnostics"
    BY <2>4 DEF SummaryOfDoc, Summary, X!Summary
  <2> QED BY <1>0, <2>1, <2>2, <2>3, <2>4 DEF ContractNames
<1>2. stage \in {"consumed", "notShown", "shown"} \/ summary # None =>
        DOMAIN summary = {"field", "counts", "lists"}
  BY <1>1 DEF HopsInv
<1>3. stage = "shown" \/ surface # None => DOMAIN surface = {"field", "counts", "lists"}
  BY StandingSurface DEF HopsInv
<1>4. altered # "none" => altered \in DOMAIN surface.field
  BY StandingSurface DEF HopsInv, SurfaceStands
<1>5. ASSUME stage = "built"
      PROVE  /\ offer \in {"nothing", "otherKind", "summary", "surface", "problems"}
             /\ DOMAIN section = {"status", "filled", "summaryAvailable", "counts", "lists"}
  <2>1. SectionStands
    BY <1>5 DEF HopsInv
  <2>2. \A s : DOMAIN SectionOf(contract, s) =
                 {"status", "filled", "summaryAvailable", "counts", "lists"}
    BY <1>0, SectionIs DEF SectionOf, Without
  <2> QED BY <2>1, <2>2 DEF SectionStands, SectionOfSummary, SectionOfProblems, Without
<1> QED BY <1>2, <1>3, <1>4, <1>5 DEF HopsInv, TypeOK

-----------------------------------------------------------------------------
(* Theorems *)

\* What is told is nothing before the runner's summary, and a summary with lines
\* within the length of a line after it.
THEOREM OutputTypeCorrect == OutputSpec => []OutputTypeOK
  BY OutputInvariance, PTL

\* Through any hops and at any limits nothing of an output is lost silently: what
\* does not say that something is missing has every line, what is told is a beginning
\* of the output, and the number of lines told of is not more than there were.
THEOREM NothingIsLost == OutputSpec => []NothingLostSilently
  BY OutputInvariance, PTL

\* What is at each hop has the fields of that hop, and a section is there with the
\* bundle and not before.
THEOREM SectionsTypeCorrect == Spec => []TypeOK
  BY HopsInvariance, TypeFromInv, PTL

\* OnlySafeAvailable of StatusSections: the context bundle's checks let no document
\* with a violated policy and no scanned text through, by whichever way it came, and
\* no claim a caller turned round that they look at.
THEOREM OnlySafeIsAvailable == Spec => []OnlySafeAvailable
  BY HopsInvariance, SafeFromInv, PTL

\* CountsAreTheDocuments of StatusSections: consumers, surfaces and bundle count alike
\* and keep the counts, for lists of any length.
THEOREM CountsArrive == Spec => []CountsAreTheDocuments
  BY HopsInvariance, CountsFromInv, PTL

\* AcceptedIsAvailable of StatusSections: surface and bundle accept all that is made of
\* an accepted document, but for the names of a handoff that are no texts.
THEOREM AcceptedArrives == Spec => []AcceptedIsAvailable
  BY HopsInvariance, AvailableFromInv, PTL

\* ReportsAgree of StatusSections: summary, audit and validation proposals report the
\* same of every section, but for a surface whose status was changed, of which the
\* proposals tell no more than the two others.
THEOREM ReportsTellTheSame == Spec => []ReportsAgree
  BY HopsInvariance, ReportsFromInv, PTL

=============================================================================

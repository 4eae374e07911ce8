------------------------ MODULE HierarchyCyclesProofs ------------------------
(***************************************************************************)
(* The cycle report is right for every hierarchy: what HierarchyCycles     *)
(* finds are elementary cycles, all of them, each once, through the first  *)
(* instances and in the order of the report.                               *)
(***************************************************************************)
EXTENDS HierarchyCycles, TLAPS, FiniteSetTheorems, WellFoundedInduction

Front(path) == SubSeq(path, 1, Len(path) - 1)

\* The calls of visit() hold what is left of the edges of their modules, and
\* the path behind them is one of edges.
Walk ==
  /\ Len(todo) = Len(modulePath)
  /\ Len(edgePath) = IF Idle THEN 0 ELSE Len(modulePath) - 1
  /\ \A i \in DOMAIN modulePath : todo[i] \subseteq adjacency[modulePath[i]]
  /\ \A i \in DOMAIN edgePath : /\ edgePath[i] \in adjacency[modulePath[i]]
                                /\ Child(edgePath[i]) = modulePath[i + 1]

\* Starts are taken in order.
StartsInOrder == ~Idle => \A m \in starts : modulePath[1] < m

\* The keys are the paths of the rows without their ends.
SeenExact ==
  /\ \A q \in seen : \E r \in DOMAIN cycles : cycles[r].modules = Append(q, q[1])
  /\ \A r \in DOMAIN cycles : Front(cycles[r].modules) \in seen
  /\ \A q, r \in DOMAIN cycles : Front(cycles[q].modules) = Front(cycles[r].modules) => q = r

\* The search is on the way to p: it has come along p to some module, and an
\* edge to the next one is still to come.
Ahead(p) ==
  \E k \in DOMAIN p \cap DOMAIN modulePath :
    /\ \A i \in 1 .. k : p[i] = modulePath[i]
    /\ \E e \in todo[k] : Child(e) = After(p, k)

\* A cycle is found, or started from later, or on the way.
NoneMissed ==
  \A p \in Seq(Modules) :
    IsCycle(p) /\ SmallestFirst(p) => p \in seen \/ p[1] \in starts \/ Ahead(p)

ReportFinal == Reported => Idle /\ starts = {}

IInv ==
  /\ TypeOK
  /\ Walk
  /\ StartsInOrder
  /\ RowsAreCycles
  /\ SeenExact
  /\ NoneMissed
  /\ ReportFinal

-----------------------------------------------------------------------------
(* Numbers, sequences and rotations *)

LEMMA SmallestNat ==
  ASSUME NEW S, S \subseteq Nat, S # {}
  PROVE  \E n \in S : \A m \in S : n <= m
<1> DEFINE R == OpToRel(<, Nat)
<1>1. IsWellFoundedOn(R, Nat)
  BY NatLessThanWellFounded
<1>2. \A i, j \in Nat : <<i, j>> \in R <=> i < j
  BY DEF OpToRel
<1> HIDE DEF R
<1>3. PICK n \in S : \A m \in S : ~(<<m, n>> \in R)
  BY <1>1, WFMin, Zenon
<1>4. ASSUME NEW m \in S
      PROVE  n <= m
  <2>1. m \in Nat /\ n \in Nat
    OBVIOUS
  <2>2. ~(m < n)
    BY <1>2, <1>3, <2>1
  <2> QED BY <2>1, <2>2
<1> QED BY <1>4

LEMMA Appended ==
  ASSUME NEW S, NEW s \in Seq(S), NEW x \in S
  PROVE  /\ Append(s, x) \in Seq(S)
         /\ Len(Append(s, x)) = Len(s) + 1
         /\ \A i \in DOMAIN s : Append(s, x)[i] = s[i]
         /\ Append(s, x)[Len(s) + 1] = x
  OBVIOUS

LEMMA FrontOfAppend ==
  ASSUME NEW S, NEW s \in Seq(S), NEW x \in S
  PROVE  Front(Append(s, x)) = s
<1> DEFINE t == Append(s, x)
<1>1. t \in Seq(S) /\ Len(t) = Len(s) + 1 /\ \A i \in DOMAIN s : t[i] = s[i]
  OBVIOUS
<1> HIDE DEF t
<1>2. /\ SubSeq(t, 1, Len(s)) \in Seq(S)
      /\ Len(SubSeq(t, 1, Len(s))) = Len(s)
      /\ \A i \in 1 .. Len(s) : SubSeq(t, 1, Len(s))[i] = t[i]
  BY <1>1
<1>3. SubSeq(t, 1, Len(s)) = s
  BY <1>1, <1>2
<1>4. Front(t) = s
  BY <1>1, <1>3 DEF Front
<1> QED BY <1>4 DEF t

LEMMA RotatedType ==
  ASSUME NEW p \in Seq(Modules), NEW i \in 0 .. Len(p) - 1
  PROVE  /\ Rotated(p, i) \in Seq(Modules)
         /\ Len(Rotated(p, i)) = Len(p)
         /\ \A j \in DOMAIN p :
              Rotated(p, i)[j] = p[IF i + j <= Len(p) THEN i + j ELSE i + j - Len(p)]
<1>1. Len(p) \in Nat /\ DOMAIN p = 1 .. Len(p) /\ i \in Nat /\ i < Len(p)
  OBVIOUS
<1>2. \A j \in DOMAIN p : (IF i + j <= Len(p) THEN i + j ELSE i + j - Len(p)) \in DOMAIN p
  BY <1>1
<1>3. Rotated(p, i) \in [1 .. Len(p) -> Modules]
  BY <1>1, <1>2 DEF Rotated
<1>4. Rotated(p, i) \in Seq(Modules) /\ Len(Rotated(p, i)) = Len(p)
  BY <1>1, <1>3
<1> QED BY <1>4 DEF Rotated

\* A rotation of a cycle is a cycle through the same modules.
LEMMA RotatedCycle ==
  ASSUME TypeOK, NEW p \in Seq(Modules), IsCycle(p), NEW i \in 0 .. Len(p) - 1
  PROVE  IsCycle(Rotated(p, i))
<1> DEFINE r == Rotated(p, i)
           n == Len(p)
           at(j) == IF i + j <= n THEN i + j ELSE i + j - n
<1>1. n \in Nat /\ n > 0 /\ DOMAIN p = 1 .. n /\ i \in Nat /\ i < n
  BY DEF IsCycle
<1>2. r \in Seq(Modules) /\ Len(r) = n /\ \A j \in 1 .. n : r[j] = p[at(j)]
  BY <1>1, RotatedType
<1>3. DOMAIN r = 1 .. n /\ r # <<>>
  BY <1>1, <1>2
<1> HIDE DEF r, n
<1>4. \A j \in 1 .. n : at(j) \in 1 .. n
  BY <1>1
<1>5. Simple(r)
  <2>1. \A j, k \in 1 .. n : at(j) = at(k) => j = k
    BY <1>1
  <2>2. \A j, k \in 1 .. n : p[at(j)] = p[at(k)] => at(j) = at(k)
    BY <1>1, <1>4 DEF IsCycle, Simple
  <2> QED BY <1>2, <1>3, <2>1, <2>2 DEF Simple
<1>6. ASSUME NEW k \in 1 .. n
      PROVE  After(r, k) \in Children(r[k])
  <2>1. After(p, at(k)) \in Children(p[at(k)])
    BY <1>1, <1>4 DEF IsCycle
  <2>2. CASE k < n
    <3>1. After(r, k) = p[at(k + 1)]
      BY <1>1, <1>2, <2>2 DEF After
    <3>2. at(k + 1) = IF at(k) < n THEN at(k) + 1 ELSE 1
      BY <1>1, <2>2
    <3>3. After(p, at(k)) = p[at(k + 1)]
      BY <1>1, <3>2 DEF After, n
    <3> QED BY <1>2, <2>1, <3>1, <3>3
  <2>3. CASE k = n
    <3>1. After(r, k) = p[at(1)]
      BY <1>1, <1>2, <2>3 DEF After
    <3>2. at(1) = IF at(k) < n THEN at(k) + 1 ELSE 1
      BY <1>1, <2>3
    <3>3. After(p, at(k)) = p[at(1)]
      BY <1>1, <3>2 DEF After, n
    <3> QED BY <1>2, <2>1, <3>1, <3>3
  <2> QED BY <1>1, <2>2, <2>3
<1>7. IsCycle(r)
  BY <1>3, <1>5, <1>6 DEF IsCycle
<1> QED BY <1>7 DEF r

\* The key of a cycle: the same cycle from its alphabetically first module on.
LEMMA KeyOfCycle ==
  ASSUME TypeOK, NEW p \in Seq(Modules), IsCycle(p), NEW x \in Modules
  PROVE  /\ CycleKey(Append(p, x)) \in Seq(Modules)
         /\ IsCycle(CycleKey(Append(p, x)))
         /\ SmallestFirst(CycleKey(Append(p, x)))
         /\ \A k \in DOMAIN p : CycleKey(Append(p, x))[1] <= p[k]
         /\ SmallestFirst(p) => CycleKey(Append(p, x)) = p
<1> DEFINE n == Len(p)
           rotations == {Rotated(p, i) : i \in 0 .. n - 1}
           key == CHOOSE r \in rotations : \A q \in rotations : r[1] <= q[1]
<1>1. n \in Nat /\ n > 0 /\ DOMAIN p = 1 .. n
  BY DEF IsCycle
<1>2. CycleKey(Append(p, x)) = key
  <2>1. SubSeq(Append(p, x), 1, Len(Append(p, x)) - 1) = p
    BY FrontOfAppend DEF Front
  <2> QED BY <2>1, Zenon DEF CycleKey
<1>3. \A i \in 0 .. n - 1 :
        /\ Rotated(p, i) \in Seq(Modules)
        /\ Len(Rotated(p, i)) = n
        /\ \A j \in 1 .. n : Rotated(p, i)[j] = p[IF i + j <= n THEN i + j ELSE i + j - n]
  BY <1>1, RotatedType
<1>4. /\ \A i \in 0 .. n - 1 : Rotated(p, i)[1] = p[i + 1] /\ i + 1 \in 1 .. n
      /\ \A k \in 1 .. n : p[k] \in Nat
  <2>1. \A k \in 1 .. n : p[k] \in Modules
    BY <1>1
  <2>2. ASSUME NEW i \in 0 .. n - 1
        PROVE  Rotated(p, i)[1] = p[i + 1] /\ i + 1 \in 1 .. n
    <3>1. 1 \in 1 .. n /\ i + 1 <= n /\ i + 1 \in 1 .. n
      BY <1>1
    <3>2. Rotated(p, i)[1] = p[IF i + 1 <= n THEN i + 1 ELSE i + 1 - n]
      BY <1>3, <3>1
    <3> QED BY <3>1, <3>2
  <2> QED BY <2>1, <2>2, ModulesAssumption
<1>5. \A r \in rotations : r[1] \in Nat
  BY <1>4
<1>6. \E r \in rotations : \A q \in rotations : r[1] <= q[1]
  <2> DEFINE firsts == {r[1] : r \in rotations}
  <2>1. firsts \subseteq Nat
    BY <1>5
  <2>2. Rotated(p, 0) \in rotations
    BY <1>1
  <2>3. firsts # {}
    BY <2>2
  <2>4. PICK f \in firsts : \A g \in firsts : f <= g
    BY <2>1, <2>3, SmallestNat
  <2> QED BY <2>4
<1>7. key \in rotations /\ \A q \in rotations : key[1] <= q[1]
  BY <1>6
<1>8. PICK i \in 0 .. n - 1 : key = Rotated(p, i)
  BY <1>7
<1>9. \A j \in 1 .. n : key[1] <= p[j]
  <2> SUFFICES ASSUME NEW j \in 1 .. n PROVE key[1] <= p[j]
    OBVIOUS
  <2>1. j - 1 \in 0 .. n - 1 /\ (j - 1) + 1 = j
    BY <1>1
  <2>2. Rotated(p, j - 1) \in rotations /\ Rotated(p, j - 1)[1] = p[j]
    BY <1>4, <2>1
  <2> QED BY <1>7, <2>2
<1>10. key[1] = p[i + 1]
  BY <1>4, <1>8
<1> HIDE DEF rotations, key
<1>11. key \in Seq(Modules) /\ DOMAIN key = 1 .. n
  BY <1>3, <1>8
<1>12. IsCycle(key)
  BY <1>8, RotatedCycle DEF n
<1>13. SmallestFirst(key)
  <2> SUFFICES ASSUME NEW j \in 1 .. n PROVE key[1] <= key[j]
    BY <1>11 DEF SmallestFirst
  <2>1. (IF i + j <= n THEN i + j ELSE i + j - n) \in 1 .. n
    BY <1>1
  <2> QED BY <1>3, <1>8, <1>9, <2>1
<1>14. ASSUME SmallestFirst(p)
       PROVE  key = p
  <2>1. i + 1 \in 1 .. n /\ p[1] <= p[i + 1] /\ p[i + 1] <= p[1]
    BY <1>1, <1>9, <1>10, <1>14 DEF SmallestFirst
  <2>2. p[1] \in Nat /\ p[i + 1] \in Nat
    BY <1>1, <1>4, <2>1
  <2>3. p[1] = p[i + 1]
    BY <2>1, <2>2
  <2>4. i = 0
    BY <1>1, <2>1, <2>3 DEF IsCycle, Simple
  <2>5. \A j \in 1 .. n : key[j] = p[j]
    BY <1>1, <1>3, <1>8, <2>4
  <2> QED BY <1>1, <1>11, <2>5
<1> QED BY <1>1, <1>2, <1>9, <1>11, <1>12, <1>13, <1>14

LEMMA StepsOfCycle ==
  ASSUME NEW p \in Seq(Modules), p # <<>>
  PROVE  Steps(Append(p, p[1])) = {<<p[k], After(p, k)>> : k \in DOMAIN p}
<1> DEFINE path == Append(p, p[1])
<1>1. Len(p) \in Nat /\ Len(p) > 0 /\ DOMAIN p = 1 .. Len(p) /\ p[1] \in Modules
  OBVIOUS
<1>2. /\ Len(path) - 1 = Len(p)
      /\ \A k \in 1 .. Len(p) : path[k] = p[k]
      /\ path[Len(p) + 1] = p[1]
  BY <1>1
<1> HIDE DEF path
<1>3. \A k \in 1 .. Len(p) : path[k + 1] = After(p, k)
  BY <1>1, <1>2 DEF After
<1>4. Steps(path) = {<<path[k], path[k + 1]>> : k \in 1 .. Len(p)}
  BY <1>2 DEF Steps
<1>5. Steps(path) = {<<p[k], After(p, k)>> : k \in DOMAIN p}
  BY <1>1, <1>2, <1>3, <1>4
<1> QED BY <1>5 DEF path

\* Of two cycles with the same steps and the same first module, one runs along
\* the other.
LEMMA StepsLeadAlong ==
  ASSUME NEW p \in Seq(Modules), NEW q \in Seq(Modules), IsCycle(p), IsCycle(q),
         p[1] = q[1],
         {<<p[k], After(p, k)>> : k \in DOMAIN p} \subseteq
           {<<q[k], After(q, k)>> : k \in DOMAIN q}
  PROVE  \A k \in DOMAIN p : k \in DOMAIN q /\ p[k] = q[k]
<1> DEFINE Off == {k \in DOMAIN p : ~(k \in DOMAIN q /\ p[k] = q[k])}
<1>1. /\ Len(p) \in Nat /\ Len(p) > 0 /\ DOMAIN p = 1 .. Len(p)
      /\ Len(q) \in Nat /\ Len(q) > 0 /\ DOMAIN q = 1 .. Len(q)
  BY DEF IsCycle
<1>2. SUFFICES ASSUME Off # {} PROVE FALSE
  OBVIOUS
<1>3. Off \subseteq Nat
  BY <1>1
<1>4. PICK k \in Off : \A m \in Off : k <= m
  BY <1>2, <1>3, SmallestNat
<1>5. k # 1
  BY <1>1, <1>4
<1>6. /\ k \in 1 .. Len(p) /\ k - 1 \in 1 .. Len(p) /\ k - 1 < Len(p)
      /\ k - 1 \notin Off
  BY <1>1, <1>3, <1>4, <1>5
<1>7. k - 1 \in DOMAIN q /\ p[k - 1] = q[k - 1]
  BY <1>1, <1>6
<1>8. After(p, k - 1) = p[k]
  BY <1>6 DEF After
<1>9. PICK j \in DOMAIN q : <<p[k - 1], p[k]>> = <<q[j], After(q, j)>>
  BY <1>1, <1>6, <1>8
<1>10. j = k - 1
  BY <1>7, <1>9 DEF IsCycle, Simple
<1>11. p[k] = After(q, k - 1)
  BY <1>9, <1>10
<1>12. CASE k - 1 < Len(q)
  <2>1. k \in DOMAIN q /\ p[k] = q[k]
    BY <1>1, <1>6, <1>11, <1>12 DEF After
  <2> QED BY <1>4, <2>1
<1>13. CASE k - 1 = Len(q)
  <2>1. p[k] = p[1]
    BY <1>11, <1>13 DEF After
  <2> QED BY <1>1, <1>5, <1>6, <2>1 DEF IsCycle, Simple
<1> QED BY <1>1, <1>7, <1>12, <1>13

LEMMA StepsDetermine ==
  ASSUME NEW p \in Seq(Modules), NEW q \in Seq(Modules), IsCycle(p), IsCycle(q),
         SmallestFirst(p), SmallestFirst(q),
         Steps(Append(p, p[1])) = Steps(Append(q, q[1]))
  PROVE  p = q
<1>1. /\ Len(p) \in Nat /\ Len(p) > 0 /\ DOMAIN p = 1 .. Len(p)
      /\ Len(q) \in Nat /\ Len(q) > 0 /\ DOMAIN q = 1 .. Len(q)
      /\ p[1] \in Modules /\ q[1] \in Modules
  BY DEF IsCycle
<1>2. {<<p[k], After(p, k)>> : k \in DOMAIN p} = {<<q[k], After(q, k)>> : k \in DOMAIN q}
  BY StepsOfCycle DEF IsCycle
<1>3. \E k \in DOMAIN q : p[1] = q[k]
  <2>1. <<p[1], After(p, 1)>> \in {<<p[k], After(p, k)>> : k \in DOMAIN p}
    BY <1>1
  <2>2. PICK k \in DOMAIN q : <<p[1], After(p, 1)>> = <<q[k], After(q, k)>>
    BY <1>2, <2>1
  <2> QED BY <2>2
<1>4. \E k \in DOMAIN p : q[1] = p[k]
  <2>1. <<q[1], After(q, 1)>> \in {<<q[k], After(q, k)>> : k \in DOMAIN q}
    BY <1>1
  <2>2. PICK k \in DOMAIN p : <<q[1], After(q, 1)>> = <<p[k], After(p, k)>>
    BY <1>2, <2>1
  <2> QED BY <2>2
<1>5. p[1] = q[1]
  <2>1. p[1] <= q[1]
    BY <1>4 DEF SmallestFirst
  <2>2. q[1] <= p[1]
    BY <1>3 DEF SmallestFirst
  <2>3. p[1] \in Nat /\ q[1] \in Nat
    BY <1>1, ModulesAssumption
  <2> QED BY <2>1, <2>2, <2>3
<1>6. \A k \in DOMAIN p : k \in DOMAIN q /\ p[k] = q[k]
  BY <1>2, <1>5, StepsLeadAlong
<1>7. \A k \in DOMAIN q : k \in DOMAIN p
  BY <1>2, <1>5, StepsLeadAlong
<1>8. Len(p) = Len(q)
  <2>1. Len(p) <= Len(q)
    BY <1>1, <1>6
  <2>2. Len(q) <= Len(p)
    BY <1>1, <1>7
  <2>3. \A m, n \in Nat : m <= n /\ n <= m => m = n
    OBVIOUS
  <2> QED BY <1>1, <2>1, <2>2, <2>3, Zenon
<1> QED BY <1>1, <1>6, <1>8

-----------------------------------------------------------------------------
(* The state of the search *)

LEMMA WalkType ==
  ASSUME TypeOK, Walk
  PROVE  /\ Len(modulePath) \in Nat
         /\ DOMAIN modulePath = 1 .. Len(modulePath)
         /\ DOMAIN todo = 1 .. Len(modulePath)
         /\ \A i \in 1 .. Len(modulePath) : /\ modulePath[i] \in Modules
                                            /\ todo[i] \in SUBSET Edge
         /\ \A m \in Modules : adjacency[m] \in SUBSET Edge
         /\ \A e \in Edge : Child(e) \in Modules
         /\ ~Idle => Len(modulePath) > 0
         /\ Len(edgePath) \in Nat
         /\ DOMAIN edgePath = 1 .. Len(edgePath)
         /\ Len(cycles) \in Nat
         /\ DOMAIN cycles = 1 .. Len(cycles)
<1>1. /\ modulePath \in Seq(Modules) /\ edgePath \in Seq(Edge) /\ todo \in Seq(SUBSET Edge)
      /\ cycles \in Seq(Row)
      /\ Len(todo) = Len(modulePath)
  BY DEF TypeOK, Walk
<1>2. /\ Len(modulePath) \in Nat /\ DOMAIN modulePath = 1 .. Len(modulePath)
      /\ DOMAIN todo = 1 .. Len(modulePath)
  BY <1>1
<1>3. \A i \in 1 .. Len(modulePath) : modulePath[i] \in Modules /\ todo[i] \in SUBSET Edge
  BY <1>1, <1>2
<1>4. ~Idle => Len(modulePath) > 0
  BY <1>1, <1>2 DEF Idle
<1>5. /\ Len(edgePath) \in Nat /\ DOMAIN edgePath = 1 .. Len(edgePath)
      /\ Len(cycles) \in Nat /\ DOMAIN cycles = 1 .. Len(cycles)
  BY <1>1
<1>6. /\ \A m \in Modules : adjacency[m] \in SUBSET Edge
      /\ \A e \in Edge : Child(e) \in Modules
  BY DEF TypeOK, Edge, Child
<1> QED BY <1>2, <1>3, <1>4, <1>5, <1>6

\* The steps along the path are edges.
LEMMA PathSteps ==
  ASSUME TypeOK, Walk, NEW k \in DOMAIN modulePath, k < Len(modulePath)
  PROVE  modulePath[k + 1] \in Children(modulePath[k])
<1>1. k \in DOMAIN edgePath
  BY WalkType DEF Walk, Idle
<1> QED BY <1>1 DEF Walk, Children

\* An edge back to the start closes a cycle.
LEMMA ClosedIsCycle ==
  ASSUME TypeOK, Walk, NEW e, NextEdge(e), Child(e) = modulePath[1]
  PROVE  /\ IsCycle(modulePath)
         /\ e \in adjacency[modulePath[Len(modulePath)]]
<1>1. ~Idle /\ e \in todo[Len(modulePath)]
  BY DEF NextEdge, Walk
<1>2. Len(modulePath) \in DOMAIN modulePath
  BY <1>1, WalkType
<1>3. e \in adjacency[modulePath[Len(modulePath)]]
  BY <1>1, <1>2 DEF Walk
<1>4. ASSUME NEW k \in DOMAIN modulePath
      PROVE  After(modulePath, k) \in Children(modulePath[k])
  <2>1. CASE k < Len(modulePath)
    BY <2>1, PathSteps DEF After
  <2>2. CASE k = Len(modulePath)
    BY <1>3, <2>2 DEF After, Children
  <2> QED BY <2>1, <2>2, WalkType
<1> QED BY <1>1, <1>3, <1>4 DEF IsCycle, TypeOK, Idle

\* What does not depend on more than the edges.
LEMMA CycleConstant ==
  ASSUME adjacency' = adjacency
  PROVE  /\ \A m : Children(m)' = Children(m)
         /\ \A p : IsCycle(p)' <=> IsCycle(p)
<1>1. \A m : Children(m)' = Children(m)
  BY DEF Children
<1> QED BY <1>1 DEF IsCycle

\* The calls of visit() after an edge was dealt with.
LEMMA Advanced ==
  ASSUME TypeOK, Walk, NEW e \in Edge, ~Idle
  PROVE  /\ Without(e) \in Seq(SUBSET Edge)
         /\ Len(Without(e)) = Len(modulePath)
         /\ \A i \in 1 .. Len(modulePath) :
              Without(e)[i] = IF i = Len(modulePath) THEN todo[i] \ {e} ELSE todo[i]
<1>1. /\ todo \in Seq(SUBSET Edge) /\ Len(todo) = Len(modulePath)
      /\ Len(modulePath) \in DOMAIN todo
  BY WalkType DEF TypeOK, Walk
<1>2. todo[Len(todo)] \ {e} \in SUBSET Edge
  BY <1>1
<1>3. Without(e) = [todo EXCEPT ![Len(todo)] = todo[Len(todo)] \ {e}]
  BY DEF Without
<1>4. Without(e) \in Seq(SUBSET Edge) /\ Len(Without(e)) = Len(modulePath)
  BY <1>1, <1>2, <1>3
<1>5. \A i \in DOMAIN todo :
        Without(e)[i] = IF i = Len(todo) THEN todo[i] \ {e} ELSE todo[i]
  BY <1>3
<1> QED BY <1>1, <1>4, <1>5, WalkType

\* The row of a cycle that is not the first to be closed from its alphabetically
\* first module was found from there.
LEMMA NewKey ==
  ASSUME IInv, NEW e \in Edge, NextEdge(e), Child(e) = modulePath[1],
         CycleKey(Closed(e)) \notin seen
  PROVE  SmallestFirst(modulePath) /\ CycleKey(Closed(e)) = modulePath
<1> DEFINE key == CycleKey(Closed(e))
<1>1. IsCycle(modulePath) /\ modulePath \in Seq(Modules) /\ Child(e) \in Modules
  BY ClosedIsCycle, WalkType DEF IInv, TypeOK
<1>2. /\ key \in Seq(Modules) /\ IsCycle(key) /\ SmallestFirst(key)
      /\ \A k \in DOMAIN modulePath : key[1] <= modulePath[k]
      /\ SmallestFirst(modulePath) => key = modulePath
  BY <1>1, KeyOfCycle DEF Closed, IInv
<1> HIDE DEF key
<1>3. /\ 1 \in DOMAIN modulePath /\ modulePath[1] \in Nat
      /\ 1 \in DOMAIN key /\ key[1] \in Nat
  <2>1. 1 \in DOMAIN modulePath /\ modulePath[1] \in Modules
    BY <1>1 DEF IsCycle
  <2>2. 1 \in DOMAIN key /\ key[1] \in Modules
    BY <1>2 DEF IsCycle
  <2> QED BY <2>1, <2>2, ModulesAssumption
<1>4. key[1] \notin starts
  <2>1. ~(modulePath[1] < key[1])
    BY <1>2, <1>3
  <2> QED BY <2>1 DEF IInv, StartsInOrder, NextEdge
<1>5. Ahead(key)
  BY <1>2, <1>4 DEF IInv, NoneMissed, key
<1>6. key[1] = modulePath[1]
  <2>1. PICK k \in DOMAIN key \cap DOMAIN modulePath : \A i \in 1 .. k : key[i] = modulePath[i]
    BY <1>5 DEF Ahead
  <2>2. k \in Nat /\ k >= 1
    BY <1>1, <2>1
  <2> QED BY <2>1, <2>2
<1>7. SmallestFirst(modulePath)
  BY <1>2, <1>6 DEF SmallestFirst
<1> QED BY <1>2, <1>7 DEF key

\* The whole path is the beginning of p, and the edge is the next step of p.
OnTip(p, e) ==
  /\ Len(modulePath) \in DOMAIN p
  /\ \A i \in DOMAIN modulePath : p[i] = modulePath[i]
  /\ Child(e) = After(p, Len(modulePath))

\* Whatever the search is on the way to, it still is after an edge was dealt
\* with, unless that edge was the next step.
LEMMA AheadKept ==
  ASSUME TypeOK, Walk, ~Idle, NEW e \in Edge, NEW p \in Seq(Modules), Ahead(p),
         DOMAIN modulePath \subseteq DOMAIN modulePath',
         \A i \in DOMAIN modulePath : /\ modulePath'[i] = modulePath[i]
                                      /\ todo'[i] = Without(e)[i]
  PROVE  Ahead(p)' \/ OnTip(p, e)
<1>1. PICK k \in DOMAIN p \cap DOMAIN modulePath :
        /\ \A i \in 1 .. k : p[i] = modulePath[i]
        /\ \E f \in todo[k] : Child(f) = After(p, k)
  BY DEF Ahead
<1>2. PICK f \in todo[k] : Child(f) = After(p, k)
  BY <1>1
<1>3. k \in 1 .. Len(modulePath) /\ Len(modulePath) \in Nat /\ 1 .. k \subseteq DOMAIN modulePath
  BY <1>1, WalkType
<1>4. \A i \in 1 .. k : p[i] = modulePath'[i]
  BY <1>1, <1>3
<1>5. CASE k < Len(modulePath)
  <2>1. todo'[k] = todo[k]
    <3>1. k # Len(modulePath)
      BY <1>3, <1>5
    <3>2. Without(e)[k] = todo[k]
      BY <1>3, <3>1, Advanced
    <3>3. todo'[k] = Without(e)[k]
      BY <1>1
    <3> QED BY <3>2, <3>3
  <2> QED BY <1>1, <1>2, <1>4, <2>1 DEF Ahead
<1>6. CASE k = Len(modulePath) /\ f # e
  <2>1. f \in todo'[k]
    BY <1>2, <1>3, <1>6, Advanced
  <2> QED BY <1>1, <1>2, <1>4, <2>1 DEF Ahead
<1>7. CASE k = Len(modulePath) /\ f = e
  BY <1>1, <1>2, <1>7, WalkType DEF OnTip
<1> QED BY <1>3, <1>5, <1>6, <1>7

\* A cycle that runs along the path to its tip and then back onto the path has
\* come to its start.
LEMMA OnTipBack ==
  ASSUME TypeOK, Walk, ~Idle, NEW e, NEW p \in Seq(Modules), IsCycle(p), OnTip(p, e),
         OnPath(Child(e))
  PROVE  Child(e) = modulePath[1] /\ p = modulePath
<1> DEFINE n == Len(modulePath)
<1>1. /\ n \in Nat /\ n > 0 /\ DOMAIN modulePath = 1 .. n
      /\ Len(p) \in Nat /\ DOMAIN p = 1 .. Len(p) /\ n <= Len(p)
      /\ \A i \in 1 .. n : p[i] = modulePath[i]
      /\ Child(e) = After(p, n)
  BY WalkType DEF OnTip
<1> HIDE DEF n
<1>2. PICK i \in 1 .. n : modulePath[i] = Child(e)
  BY <1>1 DEF OnPath
<1>3. ~(n < Len(p))
  <2> SUFFICES ASSUME n < Len(p) PROVE FALSE
    OBVIOUS
  <2>1. p[n + 1] = p[i]
    BY <1>1, <1>2 DEF After
  <2>2. n + 1 \in DOMAIN p /\ i \in DOMAIN p /\ n + 1 # i
    BY <1>1
  <2> QED BY <2>1, <2>2 DEF IsCycle, Simple
<1>4. n = Len(p)
  <2>1. \A a, b \in Nat : a <= b /\ ~(a < b) => a = b
    OBVIOUS
  <2> QED BY <1>1, <1>3, <2>1, Zenon
<1>5. Child(e) = modulePath[1]
  BY <1>1, <1>4 DEF After
<1>6. p = modulePath
  BY <1>1, <1>4 DEF n, TypeOK
<1> QED BY <1>5, <1>6

\* Rows and keys that do not change.
LEMMA RowsKept ==
  ASSUME IInv, adjacency' = adjacency, cycles' = cycles, seen' = seen
  PROVE  RowsAreCycles' /\ SeenExact'
<1>1. \A p : IsCycle(p)' <=> IsCycle(p)
  BY CycleConstant
<1>2. RowsAreCycles'
  BY <1>1 DEF IInv, RowsAreCycles
<1> QED BY <1>2 DEF IInv, SeenExact

-----------------------------------------------------------------------------
(* The invariant *)

LEMMA InitInv == Init => IInv
<1> SUFFICES ASSUME Init PROVE IInv
  OBVIOUS
<1>1. TypeOK
  BY GraphsAssumption DEF Init, TypeOK, Edge, Simple, Row
<1>2. Walk /\ StartsInOrder
  BY DEF Init, Walk, StartsInOrder, Idle
<1>3. RowsAreCycles /\ SeenExact
  BY DEF Init, RowsAreCycles, SeenExact
<1>4. NoneMissed
  <2>1. \A p \in Seq(Modules) : IsCycle(p) => p[1] \in Modules
    BY DEF IsCycle
  <2> QED BY <2>1 DEF Init, NoneMissed
<1>5. ReportFinal
  BY DEF Init, ReportFinal, Reported
<1> QED BY <1>1, <1>2, <1>3, <1>4, <1>5 DEF IInv

LEMMA BeginInv == IInv /\ Begin => IInv'
<1> SUFFICES ASSUME IInv, Begin PROVE IInv'
  OBVIOUS
<1>1. PICK s \in starts :
        /\ Idle
        /\ \A m \in starts : s <= m
        /\ starts' = starts \ {s}
        /\ modulePath' = <<s>>
        /\ todo' = <<adjacency[s]>>
        /\ adjacency' = adjacency /\ recursionLimit' = recursionLimit /\ edgePath' = edgePath
        /\ seen' = seen /\ cycles' = cycles /\ report' = report
  BY DEF Begin
<1>2. s \in Modules /\ starts \subseteq Modules /\ adjacency[s] \in SUBSET Edge
  BY <1>1, WalkType DEF IInv, TypeOK
<1>3. /\ modulePath' \in Seq(Modules) /\ Len(modulePath') = 1 /\ DOMAIN modulePath' = {1}
      /\ modulePath'[1] = s
      /\ todo' \in Seq(SUBSET Edge) /\ Len(todo') = 1 /\ todo'[1] = adjacency[s]
      /\ ~Idle'
  BY <1>1, <1>2 DEF Idle
<1>4. TypeOK'
  <2>1. Simple(modulePath')
    BY <1>3 DEF Simple
  <2> QED BY <1>1, <1>2, <1>3, <2>1 DEF IInv, TypeOK, Reported
<1>5. Walk'
  <2>1. edgePath' = <<>>
    BY <1>1 DEF IInv, Walk, TypeOK
  <2> QED BY <1>1, <1>3, <2>1 DEF Walk
<1>6. StartsInOrder'
  <2>1. ASSUME NEW m \in starts \ {s} PROVE s < m
    BY <1>1, <1>2, ModulesAssumption
  <2> QED BY <1>1, <1>3, <2>1 DEF StartsInOrder
<1>7. NoneMissed'
  <2> SUFFICES ASSUME NEW p \in Seq(Modules), IsCycle(p), SmallestFirst(p)
               PROVE  p \in seen' \/ p[1] \in starts' \/ Ahead(p)'
    BY <1>1, CycleConstant DEF NoneMissed, SmallestFirst
  <2>1. ~Ahead(p)
    BY <1>1 DEF Ahead, Idle
  <2>2. CASE p[1] = s
    <3>1. 1 \in DOMAIN p
      BY DEF IsCycle
    <3>2. After(p, 1) \in Children(s)
      BY <2>2, <3>1 DEF IsCycle
    <3>3. \E e \in todo'[1] : Child(e) = After(p, 1)
      BY <1>3, <3>2 DEF Children
    <3>4. \A i \in 1 .. 1 : p[i] = modulePath'[i]
      BY <1>3, <2>2
    <3> QED BY <1>3, <3>1, <3>3, <3>4 DEF Ahead
  <2> QED BY <1>1, <2>1, <2>2 DEF IInv, NoneMissed
<1>8. ReportFinal'
  BY <1>1 DEF IInv, ReportFinal, Reported
<1>9. RowsAreCycles' /\ SeenExact'
  BY <1>1, RowsKept
<1> QED BY <1>4, <1>5, <1>6, <1>7, <1>8, <1>9 DEF IInv

\* The loop moves on and the path stays.
LEMMA WalkKept ==
  ASSUME IInv, NEW e \in Edge, ~Idle, todo' = Without(e),
         UNCHANGED <<adjacency, recursionLimit, starts, modulePath, edgePath>>
  PROVE  /\ todo' \in Seq(SUBSET Edge)
         /\ Walk'
         /\ StartsInOrder'
         /\ ~Idle'
<1>1. /\ todo' \in Seq(SUBSET Edge) /\ Len(todo') = Len(modulePath)
      /\ \A i \in 1 .. Len(modulePath) : todo'[i] \subseteq todo[i]
  BY Advanced DEF IInv
<1>2. Idle' <=> Idle
  BY DEF Idle
<1>3. DOMAIN modulePath = 1 .. Len(modulePath)
  BY WalkType DEF IInv
<1>4. \A i \in DOMAIN modulePath : todo'[i] \subseteq adjacency[modulePath[i]]
  BY <1>1, <1>3 DEF IInv, Walk
<1>5. Walk'
  BY <1>1, <1>2, <1>4 DEF IInv, Walk
<1> QED BY <1>1, <1>2, <1>5 DEF IInv, StartsInOrder

LEMMA RepeatInv == \A e \in Edge : IInv /\ Repeat(e) => IInv'
<1> SUFFICES ASSUME NEW e \in Edge, IInv, Repeat(e) PROVE IInv'
  OBVIOUS
<1>1. /\ NextEdge(e) /\ ~Idle /\ Child(e) = modulePath[1]
      /\ CycleKey(Closed(e)) \in seen
      /\ todo' = Without(e)
      /\ UNCHANGED <<adjacency, recursionLimit, starts, modulePath, edgePath, seen, cycles, report>>
  BY DEF Repeat, NextEdge
<1>2. todo' \in Seq(SUBSET Edge) /\ Walk' /\ StartsInOrder' /\ ~Idle'
  BY <1>1, WalkKept
<1>3. TypeOK'
  BY <1>1, <1>2 DEF IInv, TypeOK, Reported
<1>4. NoneMissed'
  <2> SUFFICES ASSUME NEW p \in Seq(Modules), IsCycle(p), SmallestFirst(p)
               PROVE  p \in seen' \/ p[1] \in starts' \/ Ahead(p)'
    BY <1>1, CycleConstant DEF NoneMissed, SmallestFirst
  <2>1. CASE Ahead(p) /\ OnTip(p, e)
    <3>1. OnPath(Child(e))
      BY <1>1, WalkType DEF IInv, OnPath
    <3>2. p = modulePath
      BY <1>1, <2>1, <3>1, OnTipBack DEF IInv
    <3>3. CycleKey(Closed(e)) = p
      BY <1>1, <3>2, KeyOfCycle, WalkType DEF IInv, Closed
    <3> QED BY <1>1, <3>3
  <2>2. CASE Ahead(p) /\ ~OnTip(p, e)
    BY <1>1, <2>2, AheadKept DEF IInv
  <2> QED BY <1>1, <2>1, <2>2 DEF IInv, NoneMissed
<1>5. ReportFinal'
  BY <1>1 DEF IInv, ReportFinal, Reported
<1>6. RowsAreCycles' /\ SeenExact'
  BY <1>1, RowsKept
<1> QED BY <1>2, <1>3, <1>4, <1>5, <1>6 DEF IInv

LEMMA PruneInv == \A e \in Edge : IInv /\ Prune(e) => IInv'
<1> SUFFICES ASSUME NEW e \in Edge, IInv, Prune(e) PROVE IInv'
  OBVIOUS
<1>1. /\ NextEdge(e) /\ ~Idle /\ Child(e) # modulePath[1] /\ OnPath(Child(e))
      /\ todo' = Without(e)
      /\ UNCHANGED <<adjacency, recursionLimit, starts, modulePath, edgePath, seen, cycles, report>>
  BY DEF Prune, NextEdge
<1>2. todo' \in Seq(SUBSET Edge) /\ Walk' /\ StartsInOrder' /\ ~Idle'
  BY <1>1, WalkKept
<1>3. TypeOK'
  BY <1>1, <1>2 DEF IInv, TypeOK, Reported
<1>4. NoneMissed'
  <2> SUFFICES ASSUME NEW p \in Seq(Modules), IsCycle(p), SmallestFirst(p)
               PROVE  p \in seen' \/ p[1] \in starts' \/ Ahead(p)'
    BY <1>1, CycleConstant DEF NoneMissed, SmallestFirst
  <2>1. ~OnTip(p, e)
    BY <1>1, OnTipBack DEF IInv
  <2>2. Ahead(p) => Ahead(p)'
    BY <1>1, <2>1, AheadKept DEF IInv
  <2> QED BY <1>1, <2>2 DEF IInv, NoneMissed
<1>5. ReportFinal'
  BY <1>1 DEF IInv, ReportFinal, Reported
<1>6. RowsAreCycles' /\ SeenExact'
  BY <1>1, RowsKept
<1> QED BY <1>2, <1>3, <1>4, <1>5, <1>6 DEF IInv

\* What a step down does to the path and to the calls.
LEMMA Descended ==
  ASSUME IInv, NEW e \in Edge, Descend(e)
  PROVE  /\ Len(modulePath) \in Nat /\ Len(modulePath) > 0
         /\ DOMAIN modulePath = 1 .. Len(modulePath) /\ Child(e) \in Modules
         /\ modulePath \in Seq(Modules) /\ edgePath \in Seq(Edge)
         /\ DOMAIN edgePath = 1 .. Len(modulePath) - 1
         /\ e \in adjacency[modulePath[Len(modulePath)]]
         /\ Without(e) \in Seq(SUBSET Edge) /\ Len(Without(e)) = Len(modulePath)
         /\ \A i \in 1 .. Len(modulePath) : Without(e)[i] \subseteq todo[i]
         /\ modulePath' \in Seq(Modules) /\ Len(modulePath') = Len(modulePath) + 1
         /\ \A i \in 1 .. Len(modulePath) : modulePath'[i] = modulePath[i]
         /\ modulePath'[Len(modulePath) + 1] = Child(e)
         /\ todo' \in Seq(SUBSET Edge) /\ Len(todo') = Len(modulePath) + 1
         /\ \A i \in 1 .. Len(modulePath) : todo'[i] = Without(e)[i]
         /\ todo'[Len(modulePath) + 1] = adjacency[Child(e)]
         /\ edgePath' \in Seq(Edge) /\ Len(edgePath') = Len(modulePath)
         /\ \A i \in 1 .. Len(modulePath) - 1 : edgePath'[i] = edgePath[i]
         /\ edgePath'[Len(modulePath)] = e
         /\ DOMAIN modulePath' = 1 .. Len(modulePath) + 1
         /\ DOMAIN edgePath' = 1 .. Len(modulePath)
         /\ ~Idle'
<1> DEFINE n == Len(modulePath)
<1>1. /\ NextEdge(e) /\ ~Idle /\ ~OnPath(Child(e)) /\ e \in todo[Len(todo)]
      /\ modulePath' = Append(modulePath, Child(e))
      /\ edgePath' = Append(edgePath, e)
      /\ todo' = Append(Without(e), adjacency[Child(e)])
      /\ UNCHANGED <<adjacency, recursionLimit, starts, seen, cycles, report>>
  BY DEF Descend, NextEdge
<1>2. /\ n \in Nat /\ n > 0 /\ DOMAIN modulePath = 1 .. n /\ Child(e) \in Modules
      /\ modulePath \in Seq(Modules) /\ edgePath \in Seq(Edge)
      /\ adjacency[Child(e)] \in SUBSET Edge
      /\ Len(edgePath) = n - 1 /\ Len(edgePath) \in Nat /\ DOMAIN edgePath = 1 .. n - 1
      /\ e \in adjacency[modulePath[n]]
  BY <1>1, WalkType DEF IInv, TypeOK, Walk
<1>3. /\ Without(e) \in Seq(SUBSET Edge) /\ Len(Without(e)) = n
      /\ \A i \in 1 .. n : Without(e)[i] \subseteq todo[i]
  BY <1>1, Advanced DEF IInv
<1>4. /\ modulePath' \in Seq(Modules) /\ Len(modulePath') = n + 1
      /\ \A i \in 1 .. n : modulePath'[i] = modulePath[i]
      /\ modulePath'[n + 1] = Child(e)
  BY <1>1, <1>2, Appended
<1>5. /\ todo' \in Seq(SUBSET Edge) /\ Len(todo') = n + 1
      /\ \A i \in 1 .. n : todo'[i] = Without(e)[i]
      /\ todo'[n + 1] = adjacency[Child(e)]
  BY <1>1, <1>2, <1>3, Appended
<1>6. /\ edgePath' \in Seq(Edge) /\ Len(edgePath') = n
      /\ \A i \in 1 .. n - 1 : edgePath'[i] = edgePath[i]
      /\ edgePath'[n] = e
  <2>1. Len(edgePath) + 1 = n
    BY <1>2
  <2>2. /\ edgePath' \in Seq(Edge) /\ Len(edgePath') = Len(edgePath) + 1
        /\ \A i \in DOMAIN edgePath : edgePath'[i] = edgePath[i]
        /\ edgePath'[Len(edgePath) + 1] = e
    <3>1. edgePath \in Seq(Edge) /\ edgePath' = Append(edgePath, e)
      BY <1>1, <1>2
    <3> QED BY <3>1, Appended
  <2> HIDE DEF n
  <2> QED BY <1>2, <2>1, <2>2
<1>7. DOMAIN modulePath' = 1 .. n + 1 /\ DOMAIN edgePath' = 1 .. n /\ ~Idle'
  BY <1>2, <1>4, <1>6 DEF Idle
<1> QED BY <1>2, <1>3, <1>4, <1>5, <1>6, <1>7

LEMMA DescendInv == \A e \in Edge : IInv /\ Descend(e) => IInv'
<1> SUFFICES ASSUME NEW e \in Edge, IInv, Descend(e) PROVE IInv'
  OBVIOUS
<1> DEFINE n == Len(modulePath)
<1>1. /\ NextEdge(e) /\ ~Idle /\ ~OnPath(Child(e))
      /\ UNCHANGED <<adjacency, recursionLimit, starts, seen, cycles, report>>
  BY DEF Descend, NextEdge
<1>2. /\ n \in Nat /\ n > 0 /\ DOMAIN modulePath = 1 .. n /\ Child(e) \in Modules
      /\ modulePath \in Seq(Modules) /\ edgePath \in Seq(Edge)
      /\ DOMAIN edgePath = 1 .. n - 1
      /\ e \in adjacency[modulePath[n]]
  BY Descended
<1>3. \A i \in 1 .. n : Without(e)[i] \subseteq todo[i]
  BY Descended
<1>4. /\ modulePath' \in Seq(Modules) /\ Len(modulePath') = n + 1
      /\ \A i \in 1 .. n : modulePath'[i] = modulePath[i]
      /\ modulePath'[n + 1] = Child(e)
  BY Descended
<1>5. /\ todo' \in Seq(SUBSET Edge) /\ Len(todo') = n + 1
      /\ \A i \in 1 .. n : todo'[i] = Without(e)[i]
      /\ todo'[n + 1] = adjacency[Child(e)]
  BY Descended
<1>6. /\ edgePath' \in Seq(Edge) /\ Len(edgePath') = n
      /\ \A i \in 1 .. n - 1 : edgePath'[i] = edgePath[i]
      /\ edgePath'[n] = e
  BY Descended
<1>7. DOMAIN modulePath' = 1 .. n + 1 /\ DOMAIN edgePath' = 1 .. n /\ ~Idle'
  BY Descended
<1> HIDE DEF n
<1>8. TypeOK'
  <2>1. ASSUME NEW i \in 1 .. n + 1, NEW j \in 1 .. n + 1, modulePath'[i] = modulePath'[j]
        PROVE  i = j
    <3>1. \A k \in 1 .. n : modulePath'[k] # Child(e)
      BY <1>1, <1>2, <1>4 DEF OnPath
    <3>2. CASE i \in 1 .. n /\ j \in 1 .. n
      BY <1>2, <1>4, <2>1, <3>2 DEF IInv, TypeOK, Simple
    <3>3. CASE i = n + 1 \/ j = n + 1
      BY <1>2, <1>4, <2>1, <3>1, <3>3
    <3> QED BY <1>2, <3>2, <3>3
  <2>2. Simple(modulePath')
    BY <1>7, <2>1 DEF Simple
  <2> QED BY <1>1, <1>4, <1>5, <1>6, <2>2 DEF IInv, TypeOK, Reported
<1>9. Walk'
  <2>1. ASSUME NEW i \in 1 .. n + 1
        PROVE  todo'[i] \subseteq adjacency[modulePath'[i]]
    <3>1. CASE i \in 1 .. n
      BY <1>2, <1>3, <1>4, <1>5, <3>1 DEF IInv, Walk
    <3>2. CASE i = n + 1
      BY <1>4, <1>5, <3>2
    <3> QED BY <1>2, <3>1, <3>2
  <2>2. ASSUME NEW i \in 1 .. n
        PROVE  edgePath'[i] \in adjacency[modulePath'[i]] /\ Child(edgePath'[i]) = modulePath'[i + 1]
    <3>1. CASE i \in 1 .. n - 1
      <4>1. i + 1 \in 1 .. n
        BY <1>2, <3>1
      <4> QED BY <1>2, <1>4, <1>6, <3>1, <4>1 DEF IInv, Walk
    <3>2. CASE i = n
      BY <1>2, <1>4, <1>6, <3>2
    <3> QED BY <1>2, <3>1, <3>2
  <2>3. Len(todo') = Len(modulePath') /\ Len(edgePath') = Len(modulePath') - 1
    BY <1>2, <1>4, <1>5, <1>6
  <2> QED BY <1>1, <1>7, <2>1, <2>2, <2>3 DEF Walk
<1>10. StartsInOrder'
  BY <1>1, <1>2, <1>4 DEF IInv, StartsInOrder
<1>11. NoneMissed'
  <2> SUFFICES ASSUME NEW p \in Seq(Modules), IsCycle(p), SmallestFirst(p)
               PROVE  p \in seen' \/ p[1] \in starts' \/ Ahead(p)'
    BY <1>1, CycleConstant DEF NoneMissed, SmallestFirst
  <2>1. CASE Ahead(p) /\ OnTip(p, e)
    <3>1. /\ Len(p) \in Nat /\ DOMAIN p = 1 .. Len(p) /\ n \in 1 .. Len(p)
          /\ \A i \in 1 .. n : p[i] = modulePath[i]
          /\ Child(e) = After(p, n)
      BY <1>2, <2>1 DEF OnTip, n
    <3>2. Child(e) # p[1]
      <4>1. 1 \in DOMAIN modulePath /\ p[1] = modulePath[1]
        BY <1>2, <3>1
      <4> QED BY <1>1, <4>1 DEF OnPath
    <3>3. n + 1 \in DOMAIN p /\ Child(e) = p[n + 1]
      BY <1>2, <3>1, <3>2 DEF After
    <3>4. \A i \in 1 .. n + 1 : p[i] = modulePath'[i]
      BY <1>2, <1>4, <3>1, <3>3
    <3>5. After(p, n + 1) \in Children(Child(e))
      BY <3>3 DEF IsCycle
    <3>6. \E f \in todo'[n + 1] : Child(f) = After(p, n + 1)
      BY <1>5, <3>5 DEF Children
    <3>7. n + 1 \in DOMAIN p \cap DOMAIN modulePath'
      BY <1>2, <1>7, <3>3
    <3> QED BY <3>4, <3>6, <3>7 DEF Ahead
  <2>2. CASE Ahead(p) /\ ~OnTip(p, e)
    <3>1. DOMAIN modulePath \subseteq DOMAIN modulePath'
      BY <1>2, <1>7
    <3> QED BY <1>1, <1>2, <1>4, <1>5, <2>2, <3>1, AheadKept DEF IInv
  <2> QED BY <1>1, <2>1, <2>2 DEF IInv, NoneMissed
<1>12. ReportFinal'
  BY <1>1 DEF IInv, ReportFinal, Reported
<1>13. RowsAreCycles' /\ SeenExact'
  BY <1>1, RowsKept
<1> QED BY <1>8, <1>9, <1>10, <1>11, <1>12, <1>13 DEF IInv

\* row describes the cycle p.
Describes(row, p) ==
  /\ IsCycle(p) /\ SmallestFirst(p)
  /\ row.modules = Append(p, p[1])
  /\ Len(row.edges) = Len(p)
  /\ \A k \in DOMAIN p : row.edges[k] \in adjacency[p[k]] /\ Child(row.edges[k]) = After(p, k)

LEMMA RowsDescribe ==
  RowsAreCycles <=> \A r \in DOMAIN cycles : Describes(cycles[r], Front(cycles[r].modules))
BY DEF RowsAreCycles, Describes, Front

LEMMA FoundInv == \A e \in Edge : IInv /\ Found(e) => IInv'
<1> SUFFICES ASSUME NEW e \in Edge, IInv, Found(e) PROVE IInv'
  OBVIOUS
<1> DEFINE n == Len(modulePath)
           row == [modules |-> Append(modulePath, modulePath[1]), edges |-> Append(edgePath, e)]
<1>1. /\ NextEdge(e) /\ ~Idle /\ Child(e) = modulePath[1]
      /\ CycleKey(Closed(e)) \notin seen
      /\ seen' = seen \cup {CycleKey(Closed(e))}
      /\ cycles' = Append(cycles, row)
      /\ todo' = Without(e)
      /\ UNCHANGED <<adjacency, recursionLimit, starts, modulePath, edgePath, report>>
  BY DEF Found, NextEdge, Closed
<1>2. /\ SmallestFirst(modulePath) /\ CycleKey(Closed(e)) = modulePath
      /\ IsCycle(modulePath) /\ e \in adjacency[modulePath[n]]
  BY <1>1, NewKey, ClosedIsCycle DEF IInv
<1>3. modulePath \notin seen /\ seen' = seen \cup {modulePath}
  BY <1>1, <1>2
<1>4. /\ n \in Nat /\ n > 0 /\ DOMAIN modulePath = 1 .. n /\ modulePath[1] \in Modules
      /\ modulePath \in Seq(Modules) /\ edgePath \in Seq(Edge)
      /\ Len(edgePath) \in Nat /\ Len(edgePath) = n - 1 /\ DOMAIN edgePath = 1 .. n - 1
  BY <1>1, WalkType DEF IInv, TypeOK, Walk
<1>5. todo' \in Seq(SUBSET Edge) /\ Walk' /\ StartsInOrder' /\ ~Idle'
  BY <1>1, WalkKept
<1>6. /\ row.modules = Append(modulePath, modulePath[1]) /\ row.modules \in Seq(Modules)
      /\ row.edges = Append(edgePath, e) /\ row.edges \in Seq(Edge)
      /\ Len(row.edges) = Len(edgePath) + 1
      /\ \A k \in DOMAIN edgePath : row.edges[k] = edgePath[k]
      /\ row.edges[Len(edgePath) + 1] = e
  <2>1. row.modules = Append(modulePath, modulePath[1]) /\ row.edges = Append(edgePath, e)
    OBVIOUS
  <2>2. Append(modulePath, modulePath[1]) \in Seq(Modules)
    BY <1>4, Appended
  <2>3. /\ Append(edgePath, e) \in Seq(Edge)
        /\ Len(Append(edgePath, e)) = Len(edgePath) + 1
        /\ \A k \in DOMAIN edgePath : Append(edgePath, e)[k] = edgePath[k]
        /\ Append(edgePath, e)[Len(edgePath) + 1] = e
    BY <1>4, Appended
  <2> HIDE DEF row
  <2> QED BY <2>1, <2>2, <2>3
<1>7. Front(row.modules) = modulePath
  BY <1>4, <1>6, FrontOfAppend
<1>8. Describes(row, modulePath)
  <2>1. Len(edgePath) + 1 = n
    BY <1>4
  <2>2. ASSUME NEW k \in 1 .. n
        PROVE  row.edges[k] \in adjacency[modulePath[k]] /\ Child(row.edges[k]) = After(modulePath, k)
    <3>1. CASE k \in 1 .. n - 1
      <4>1. k \in DOMAIN edgePath
        BY <1>4, <3>1
      <4>2. edgePath[k] \in adjacency[modulePath[k]] /\ Child(edgePath[k]) = modulePath[k + 1]
        BY <4>1 DEF IInv, Walk
      <4>3. After(modulePath, k) = modulePath[k + 1]
        BY <1>4, <3>1 DEF After
      <4>4. row.edges[k] = edgePath[k]
        BY <1>6, <4>1
      <4> QED BY <4>2, <4>3, <4>4
    <3>2. CASE k = n
      <4>1. After(modulePath, k) = modulePath[1]
        BY <1>4, <3>2 DEF After
      <4>2. row.edges[k] = e
        BY <1>6, <2>1, <3>2
      <4> QED BY <1>1, <1>2, <3>2, <4>1, <4>2
    <3>3. k \in 1 .. n - 1 \/ k = n
      <4>1. \A m \in Nat : \A j \in 1 .. m : j \in 1 .. m - 1 \/ j = m
        OBVIOUS
      <4> QED BY <1>4, <4>1, Zenon
    <3> QED BY <3>1, <3>2, <3>3, Zenon
  <2> QED BY <1>2, <1>4, <1>6, <2>1, <2>2 DEF Describes
<1>9. row \in Row
  BY <1>4, Appended DEF Row
<1> HIDE DEF row, n
<1>10. /\ cycles \in Seq(Row) /\ cycles' \in Seq(Row)
       /\ DOMAIN cycles' = DOMAIN cycles \cup {Len(cycles) + 1}
       /\ \A r \in DOMAIN cycles : cycles'[r] = cycles[r]
       /\ cycles'[Len(cycles) + 1] = row
       /\ Len(cycles) + 1 \notin DOMAIN cycles
  <2>1. cycles \in Seq(Row)
    BY DEF IInv, TypeOK
  <2> QED BY <1>1, <1>9, <2>1
<1>11. report = NoReport
  BY <1>1 DEF IInv, ReportFinal, Reported, NextEdge, Failed
<1>12. TypeOK'
  <2>1. Simple(modulePath)
    BY DEF IInv, TypeOK
  <2> QED BY <1>1, <1>3, <1>4, <1>5, <1>10, <1>11, <2>1 DEF IInv, TypeOK, Reported
<1>13. RowsAreCycles'
  <2>1. ASSUME NEW r \in DOMAIN cycles'
        PROVE  Describes(cycles'[r], Front(cycles'[r].modules))
    <3>1. CASE r \in DOMAIN cycles
      BY <1>10, <3>1, RowsDescribe DEF IInv
    <3>2. CASE r = Len(cycles) + 1
      BY <1>7, <1>8, <1>10, <3>2
    <3> QED BY <1>10, <3>1, <3>2
  <2>2. \A p : IsCycle(p)' <=> IsCycle(p)
    BY <1>1, CycleConstant
  <2> QED BY <1>1, <2>1, <2>2 DEF RowsAreCycles, Describes, Front
<1>14. SeenExact'
  <2>1. ASSUME NEW q \in seen'
        PROVE  \E r \in DOMAIN cycles' : cycles'[r].modules = Append(q, q[1])
    <3>1. CASE q \in seen
      BY <1>10, <3>1 DEF IInv, SeenExact
    <3>2. CASE q = modulePath
      BY <1>6, <1>10, <3>2
    <3> QED BY <1>3, <3>1, <3>2
  <2>2. /\ \A r \in DOMAIN cycles : Front(cycles'[r].modules) \in seen
        /\ Front(cycles'[Len(cycles) + 1].modules) = modulePath
    BY <1>7, <1>10 DEF IInv, SeenExact
  <2>3. ASSUME NEW q \in DOMAIN cycles', NEW r \in DOMAIN cycles',
               Front(cycles'[q].modules) = Front(cycles'[r].modules)
        PROVE  q = r
    <3>1. CASE q \in DOMAIN cycles /\ r \in DOMAIN cycles
      BY <1>10, <2>3, <3>1 DEF IInv, SeenExact
    <3>2. CASE q = Len(cycles) + 1 \/ r = Len(cycles) + 1
      BY <1>3, <1>10, <2>2, <2>3, <3>2
    <3> QED BY <1>10, <3>1, <3>2
  <2>4. \A r \in DOMAIN cycles' : Front(cycles'[r].modules) \in seen'
    BY <1>3, <1>10, <2>2
  <2> QED BY <2>1, <2>3, <2>4 DEF SeenExact, Front
<1>15. NoneMissed'
  <2> SUFFICES ASSUME NEW p \in Seq(Modules), IsCycle(p), SmallestFirst(p)
               PROVE  p \in seen' \/ p[1] \in starts' \/ Ahead(p)'
    BY <1>1, CycleConstant DEF NoneMissed, SmallestFirst
  <2>1. CASE Ahead(p) /\ OnTip(p, e)
    <3>1. OnPath(Child(e))
      BY <1>1, WalkType DEF IInv, OnPath
    <3>2. p = modulePath
      BY <1>1, <2>1, <3>1, OnTipBack DEF IInv
    <3> QED BY <1>3, <3>2
  <2>2. CASE Ahead(p) /\ ~OnTip(p, e)
    BY <1>1, <2>2, AheadKept DEF IInv
  <2> QED BY <1>1, <2>1, <2>2 DEF IInv, NoneMissed
<1>16. ReportFinal'
  BY <1>1, <1>11 DEF ReportFinal, Reported
<1> QED BY <1>5, <1>12, <1>13, <1>14, <1>15, <1>16 DEF IInv

LEMMA Shortened ==
  ASSUME NEW S, NEW s \in Seq(S), s # <<>>
  PROVE  /\ SubSeq(s, 1, Len(s) - 1) \in Seq(S)
         /\ Len(SubSeq(s, 1, Len(s) - 1)) = Len(s) - 1
         /\ \A i \in 1 .. Len(s) - 1 : SubSeq(s, 1, Len(s) - 1)[i] = s[i]
<1> DEFINE m == Len(s) - 1
<1>1. m \in Nat /\ Len(s) = m + 1 /\ \A i \in 1 .. m + 1 : s[i] \in S
  OBVIOUS
<1> HIDE DEF m
<1>2. /\ SubSeq(s, 1, m) \in Seq(S)
      /\ Len(SubSeq(s, 1, m)) = m
      /\ \A i \in 1 .. m : SubSeq(s, 1, m)[i] = s[i]
  BY <1>1
<1> QED BY <1>2 DEF m

\* What a return leaves of the path and of the calls.
LEMMA Returned ==
  ASSUME IInv, Return
  PROVE  /\ Len(modulePath) \in Nat /\ Len(modulePath) > 0
         /\ DOMAIN modulePath = 1 .. Len(modulePath)
         /\ todo[Len(modulePath)] = {}
         /\ DOMAIN edgePath = 1 .. Len(modulePath) - 1
         /\ modulePath' \in Seq(Modules) /\ Len(modulePath') = Len(modulePath) - 1
         /\ DOMAIN modulePath' = 1 .. Len(modulePath) - 1
         /\ \A i \in 1 .. Len(modulePath) - 1 : modulePath'[i] = modulePath[i]
         /\ todo' \in Seq(SUBSET Edge) /\ Len(todo') = Len(modulePath) - 1
         /\ \A i \in 1 .. Len(modulePath) - 1 : todo'[i] = todo[i]
         /\ edgePath' \in Seq(Edge)
         /\ Len(edgePath') = IF Len(modulePath) = 1 THEN 0 ELSE Len(modulePath) - 2
         /\ \A i \in DOMAIN edgePath' : i \in DOMAIN edgePath /\ edgePath'[i] = edgePath[i]
         /\ Len(modulePath) > 1 => DOMAIN edgePath' = 1 .. Len(modulePath) - 2
         /\ Idle' <=> Len(modulePath) = 1
<1> DEFINE n == Len(modulePath)
<1>1. /\ ~Idle /\ todo[Len(todo)] = {}
      /\ modulePath' = SubSeq(modulePath, 1, Len(modulePath) - 1)
      /\ edgePath' = IF edgePath = <<>> THEN <<>> ELSE SubSeq(edgePath, 1, Len(edgePath) - 1)
      /\ todo' = SubSeq(todo, 1, Len(todo) - 1)
      /\ UNCHANGED <<adjacency, recursionLimit, starts, seen, cycles, report>>
  BY DEF Return
<1>2. /\ n \in Nat /\ n > 0 /\ DOMAIN modulePath = 1 .. n
      /\ modulePath \in Seq(Modules) /\ edgePath \in Seq(Edge) /\ todo \in Seq(SUBSET Edge)
      /\ Len(todo) = n
      /\ Len(edgePath) = n - 1 /\ Len(edgePath) \in Nat /\ DOMAIN edgePath = 1 .. n - 1
  BY <1>1, WalkType DEF IInv, TypeOK, Walk
<1>3. modulePath # <<>> /\ todo # <<>> /\ (edgePath = <<>> <=> n = 1)
  BY <1>2
<1>4. /\ modulePath' \in Seq(Modules) /\ Len(modulePath') = n - 1
      /\ \A i \in 1 .. n - 1 : modulePath'[i] = modulePath[i]
  BY <1>1, <1>2, <1>3, Shortened
<1>5. /\ todo' \in Seq(SUBSET Edge) /\ Len(todo') = n - 1
      /\ \A i \in 1 .. n - 1 : todo'[i] = todo[i]
  BY <1>1, <1>2, <1>3, Shortened
<1> HIDE DEF n
<1>6. /\ edgePath' \in Seq(Edge) /\ Len(edgePath') = IF n = 1 THEN 0 ELSE n - 2
      /\ \A i \in DOMAIN edgePath' : i \in DOMAIN edgePath /\ edgePath'[i] = edgePath[i]
      /\ n > 1 => DOMAIN edgePath' = 1 .. n - 2
  <2>1. CASE n = 1
    BY <1>1, <1>2, <1>3, <2>1
  <2>2. CASE n > 1
    <3>1. edgePath # <<>> /\ edgePath' = SubSeq(edgePath, 1, Len(edgePath) - 1)
      BY <1>1, <1>3, <2>2
    <3>2. /\ edgePath' \in Seq(Edge) /\ Len(edgePath') = Len(edgePath) - 1
          /\ \A i \in 1 .. Len(edgePath) - 1 : edgePath'[i] = edgePath[i]
      BY <1>2, <3>1, Shortened
    <3>3. DOMAIN edgePath' = 1 .. Len(edgePath) - 1 /\ DOMAIN edgePath = 1 .. Len(edgePath)
      BY <1>2, <3>2
    <3> QED BY <1>2, <2>2, <3>2, <3>3
  <2> QED BY <1>2, <2>1, <2>2
<1>7. DOMAIN modulePath' = 1 .. n - 1 /\ (Idle' <=> n = 1)
  BY <1>2, <1>4 DEF Idle
<1> QED BY <1>1, <1>2, <1>4, <1>5, <1>6, <1>7

LEMMA ReturnInv == IInv /\ Return => IInv'
<1> SUFFICES ASSUME IInv, Return PROVE IInv'
  OBVIOUS
<1> DEFINE n == Len(modulePath)
<1>1. ~Idle /\ todo[n] = {} /\ UNCHANGED <<adjacency, recursionLimit, starts, seen, cycles, report>>
  BY Returned DEF Return
<1>2. n \in Nat /\ n > 0 /\ DOMAIN modulePath = 1 .. n /\ DOMAIN edgePath = 1 .. n - 1
  BY Returned
<1>4. /\ modulePath' \in Seq(Modules) /\ Len(modulePath') = n - 1
      /\ \A i \in 1 .. n - 1 : modulePath'[i] = modulePath[i]
  BY Returned
<1>5. /\ todo' \in Seq(SUBSET Edge) /\ Len(todo') = n - 1
      /\ \A i \in 1 .. n - 1 : todo'[i] = todo[i]
  BY Returned
<1>6. /\ edgePath' \in Seq(Edge) /\ Len(edgePath') = IF n = 1 THEN 0 ELSE n - 2
      /\ \A i \in DOMAIN edgePath' : i \in DOMAIN edgePath /\ edgePath'[i] = edgePath[i]
      /\ n > 1 => DOMAIN edgePath' = 1 .. n - 2
  BY Returned
<1>7. DOMAIN modulePath' = 1 .. n - 1 /\ (Idle' <=> n = 1)
  BY Returned
<1> HIDE DEF n
<1>8. TypeOK'
  <2>1. Simple(modulePath')
    <3>1. \A i \in 1 .. n - 1 : i \in DOMAIN modulePath
      BY <1>2
    <3> QED BY <1>4, <1>7, <3>1 DEF IInv, TypeOK, Simple
  <2> QED BY <1>1, <1>4, <1>5, <1>6, <2>1 DEF IInv, TypeOK, Reported
<1>9. Walk'
  <2>1. Len(edgePath') = IF Idle' THEN 0 ELSE Len(modulePath') - 1
    BY <1>2, <1>4, <1>6, <1>7
  <2>2. ASSUME NEW i \in DOMAIN modulePath'
        PROVE  todo'[i] \subseteq adjacency[modulePath'[i]]
    <3>1. i \in 1 .. n - 1 /\ i \in DOMAIN modulePath
      BY <1>2, <1>7
    <3> QED BY <1>4, <1>5, <3>1 DEF IInv, Walk
  <2>3. ASSUME NEW i \in DOMAIN edgePath'
        PROVE  edgePath'[i] \in adjacency[modulePath'[i]] /\ Child(edgePath'[i]) = modulePath'[i + 1]
    <3>1. edgePath'[i] = edgePath[i] /\ i \in DOMAIN edgePath
      BY <1>6
    <3>2. n > 1
      BY <1>2, <1>6
    <3>3. i \in 1 .. n - 1 /\ i + 1 \in 1 .. n - 1
      BY <1>2, <1>6, <3>2
    <3> QED BY <1>4, <3>1, <3>3 DEF IInv, Walk
  <2> QED BY <1>1, <1>4, <1>5, <2>1, <2>2, <2>3 DEF Walk
<1>10. StartsInOrder'
  <2>1. ~Idle' => 1 \in 1 .. n - 1
    BY <1>2, <1>7
  <2> QED BY <1>1, <1>4, <2>1 DEF IInv, StartsInOrder
<1>11. NoneMissed'
  <2> SUFFICES ASSUME NEW p \in Seq(Modules), IsCycle(p), SmallestFirst(p)
               PROVE  p \in seen' \/ p[1] \in starts' \/ Ahead(p)'
    BY <1>1, CycleConstant DEF NoneMissed, SmallestFirst
  <2>1. ASSUME Ahead(p) PROVE Ahead(p)'
    <3>1. PICK k \in DOMAIN p \cap DOMAIN modulePath :
            /\ \A i \in 1 .. k : p[i] = modulePath[i]
            /\ \E e \in todo[k] : Child(e) = After(p, k)
      BY <2>1 DEF Ahead
    <3>2. k \in 1 .. n - 1
      BY <1>1, <1>2, <3>1
    <3>3. 1 .. k \subseteq 1 .. n - 1
      BY <1>2, <3>2
    <3> QED BY <1>4, <1>5, <1>7, <3>1, <3>2, <3>3 DEF Ahead
  <2> QED BY <1>1, <2>1 DEF IInv, NoneMissed
<1>12. ReportFinal'
  BY <1>1 DEF IInv, ReportFinal, Reported
<1>13. RowsAreCycles' /\ SeenExact'
  BY <1>1, RowsKept
<1> QED BY <1>8, <1>9, <1>10, <1>11, <1>12, <1>13 DEF IInv

LEMMA ReportInv == IInv /\ Report => IInv'
<1> SUFFICES ASSUME IInv, Report PROVE IInv'
  OBVIOUS
<1>1. /\ Idle /\ starts = {}
      /\ UNCHANGED <<adjacency, recursionLimit, starts, modulePath, edgePath, todo, seen, cycles>>
      /\ report' \in [state : {"cycles-detected", "no-cycles-detected"},
                      cycleId : [DOMAIN cycles -> Nat]]
  <2> DEFINE Upto(i) ==
        {j \in DOMAIN cycles : Precedes(cycles[j].modules, cycles[i].modules)}
  <2>1. Len(cycles) \in Nat /\ DOMAIN cycles = 1 .. Len(cycles)
    BY WalkType DEF IInv
  <2>2. IsFiniteSet(DOMAIN cycles)
    BY <2>1, FS_Interval
  <2>3. ASSUME NEW i PROVE Cardinality(Upto(i)) \in Nat
    <3>1. Upto(i) \in SUBSET DOMAIN cycles
      OBVIOUS
    <3>2. IsFiniteSet(Upto(i))
      BY <2>2, <3>1, FS_Subset
    <3> QED BY <3>2, FS_CardinalityType
  <2>4. report' = [state |-> IF cycles # <<>> THEN "cycles-detected" ELSE "no-cycles-detected",
                   cycleId |-> [i \in DOMAIN cycles |-> Cardinality(Upto(i))]]
    BY DEF Report
  <2>5. [i \in DOMAIN cycles |-> Cardinality(Upto(i))] \in [DOMAIN cycles -> Nat]
    BY <2>3
  <2> HIDE DEF Upto
  <2>6. report' \in [state : {"cycles-detected", "no-cycles-detected"},
                     cycleId : [DOMAIN cycles -> Nat]]
    BY <2>4, <2>5
  <2> QED BY <2>6 DEF Report
<1>2. TypeOK'
  BY <1>1 DEF IInv, TypeOK
<1>3. Idle'
  BY <1>1 DEF Idle
<1>4. Walk' /\ StartsInOrder'
  BY <1>1, <1>3 DEF IInv, Walk, StartsInOrder
<1>5. NoneMissed'
  <2>1. \A p : IsCycle(p)' <=> IsCycle(p)
    BY <1>1, CycleConstant
  <2> QED BY <1>1, <2>1 DEF IInv, NoneMissed, SmallestFirst, Ahead
<1>6. ReportFinal'
  BY <1>1, <1>3 DEF ReportFinal
<1>7. RowsAreCycles' /\ SeenExact'
  BY <1>1, RowsKept
<1> QED BY <1>2, <1>4, <1>5, <1>6, <1>7 DEF IInv

LEMMA StutterInv == IInv /\ UNCHANGED vars => IInv'
<1> SUFFICES ASSUME IInv, UNCHANGED vars PROVE IInv'
  OBVIOUS
<1>1. UNCHANGED <<adjacency, recursionLimit, starts, modulePath, edgePath, todo,
                  seen, cycles, report>>
  BY DEF vars
<1>2. (Idle' <=> Idle) /\ (Reported' <=> Reported)
  BY <1>1 DEF Idle, Reported
<1>3. TypeOK' /\ Walk' /\ StartsInOrder' /\ ReportFinal'
  BY <1>1, <1>2 DEF IInv, TypeOK, Walk, StartsInOrder, ReportFinal
<1>4. NoneMissed'
  <2>1. \A p : IsCycle(p)' <=> IsCycle(p)
    BY <1>1, CycleConstant
  <2> QED BY <1>1, <2>1 DEF IInv, NoneMissed, SmallestFirst, Ahead
<1>5. RowsAreCycles' /\ SeenExact'
  BY <1>1, RowsKept
<1> QED BY <1>3, <1>4, <1>5 DEF IInv

LEMMA OverflowInv == \A e \in Edge : IInv /\ Overflow(e) => IInv'
<1> SUFFICES ASSUME NEW e \in Edge, IInv, Overflow(e) PROVE IInv'
  OBVIOUS
<1>1. /\ ~Idle /\ report' = Failure
      /\ UNCHANGED <<adjacency, recursionLimit, starts, modulePath, edgePath, todo, seen, cycles>>
  BY DEF Overflow, NextEdge
<1>2. Idle' <=> Idle
  BY <1>1 DEF Idle
<1>3. TypeOK' /\ Walk' /\ StartsInOrder'
  BY <1>1, <1>2 DEF IInv, TypeOK, Walk, StartsInOrder
<1>4. NoneMissed'
  <2>1. \A p : IsCycle(p)' <=> IsCycle(p)
    BY <1>1, CycleConstant
  <2> QED BY <1>1, <2>1 DEF IInv, NoneMissed, SmallestFirst, Ahead
<1>5. ReportFinal'
  BY <1>1 DEF ReportFinal, Reported
<1>6. RowsAreCycles' /\ SeenExact'
  BY <1>1, RowsKept
<1> QED BY <1>3, <1>4, <1>5, <1>6 DEF IInv

\* The invariant the theorems below follow from.
THEOREM Invariance == Spec => []IInv
<1>1. IInv /\ [Next]_vars => IInv'
  BY BeginInv, ReturnInv, ReportInv, RepeatInv, FoundInv, PruneInv, DescendInv, OverflowInv,
     StutterInv
     DEF Next
<1> QED BY InitInv, <1>1, PTL DEF Spec

-----------------------------------------------------------------------------
(* The properties *)

\* The paths, the keys, the rows and the report are always of the stated types;
\* a path never holds a module twice.
THEOREM TypeCorrect == Spec => []TypeOK
<1>1. IInv => TypeOK
  BY DEF IInv
<1> QED BY <1>1, Invariance, PTL

\* Whatever the hierarchy, every row of _hierarchy_cycle_rows describes an
\* elementary cycle from its alphabetically first module on.
THEOREM RowsAreSound == Spec => []RowsAreCycles
<1>1. IInv => RowsAreCycles
  BY DEF IInv
<1> QED BY <1>1, Invariance, PTL

\* Although the search follows a path only until it meets itself, it has found
\* every elementary cycle when it reports.
THEOREM CyclesAreComplete == Spec => []AllCyclesFound
<1>1. IInv => AllCyclesFound
  <2> SUFFICES ASSUME IInv, Reported, NEW n \in 1 .. Cardinality(Modules),
                      NEW p \in [1 .. n -> Modules], IsCycle(p), SmallestFirst(p)
               PROVE  \E r \in DOMAIN cycles : cycles[r].modules = Append(p, p[1])
    BY DEF AllCyclesFound
  <2>1. p \in Seq(Modules)
    <3>1. n \in Nat
      OBVIOUS
    <3> QED BY <3>1
  <2>2. Idle /\ starts = {}
    BY DEF IInv, ReportFinal
  <2>3. ~Ahead(p)
    BY <2>2 DEF Ahead, Idle
  <2>4. p \in seen
    BY <2>1, <2>2, <2>3 DEF IInv, NoneMissed
  <2> QED BY <2>4 DEF IInv, SeenExact
<1> QED BY <1>1, Invariance, PTL

\* No cycle has two rows, whichever instances and starts lead along it.
THEOREM CyclesAreUnique == Spec => []EachCycleOnce
<1>1. IInv => EachCycleOnce
  <2> SUFFICES ASSUME IInv, NEW q \in DOMAIN cycles, NEW r \in DOMAIN cycles,
                      Steps(cycles[q].modules) = Steps(cycles[r].modules)
               PROVE  q = r
    BY DEF EachCycleOnce
  <2>1. ASSUME NEW k \in DOMAIN cycles
        PROVE  /\ Describes(cycles[k], Front(cycles[k].modules))
               /\ Front(cycles[k].modules) \in Seq(Modules)
    <3>1. Describes(cycles[k], Front(cycles[k].modules))
      BY RowsDescribe DEF IInv
    <3>2. Front(cycles[k].modules) \in seen
      BY DEF IInv, SeenExact
    <3> QED BY <3>1, <3>2 DEF IInv, TypeOK
  <2>2. Front(cycles[q].modules) = Front(cycles[r].modules)
    BY <2>1, StepsDetermine DEF Describes
  <2> QED BY <2>2 DEF IInv, SeenExact
<1> QED BY <1>1, Invariance, PTL

-----------------------------------------------------------------------------
(* The order of the search *)

\* The path leads to k and then to the module m, and so does p.
Through(p, path, k, m) ==
  k \in DOMAIN p /\ (\A i \in 1 .. k : p[i] = path[i]) /\ After(p, k) = m

\* p leaves the path and m behind it at some place, for a module that comes before.
Behind(p, path, k, m) ==
  \E j \in DOMAIN p \cap (1 .. k + 1) :
    /\ \A i \in 1 .. j - 1 : p[i] = path[i]
    /\ p[j] < IF j <= k THEN path[j] ELSE m

\* Of the instances of a child the first.
First(m, e) == \A f \in adjacency[m] : Child(f) = Child(e) => e[2] <= f[2]

\* Edges are taken in order.
TodoAfter ==
  \A k \in DOMAIN edgePath : \A f \in todo[k] : Before(edgePath[k], f) /\ f # edgePath[k]

\* Behind an edge that the search has come back from, nothing is left to find.
DoneSeen ==
  \A k \in DOMAIN modulePath : \A f \in adjacency[modulePath[k]] \ todo[k] :
    k = Len(modulePath) \/ f # edgePath[k] =>
      \A p \in Seq(Modules) :
        IsCycle(p) /\ SmallestFirst(p) /\ Through(p, modulePath, k, Child(f)) => p \in seen

\* On a path of first instances, each row comes before all that is still to come.
RowsBehind ==
  \A r \in DOMAIN cycles :
    /\ \A s \in starts : cycles[r].modules[1] < s
    /\ \A k \in DOMAIN modulePath :
         (\A i \in 1 .. k - 1 : First(modulePath[i], edgePath[i])) =>
           \A f \in todo[k] : First(modulePath[k], f) =>
             Behind(cycles[r].modules, modulePath, k, Child(f))

Earlier(p, q) ==
  \E k \in DOMAIN p \cap DOMAIN q : p[k] < q[k] /\ \A i \in 1 .. k - 1 : p[i] = q[i]

RowsInOrder ==
  \A q, r \in DOMAIN cycles : q < r => Earlier(cycles[q].modules, cycles[r].modules)

OInv ==
  /\ TodoAfter
  /\ DoneSeen
  /\ FirstInstances
  /\ RowsBehind
  /\ RowsInOrder
  /\ FoundInOrder

LEMMA EdgeOrder ==
  ASSUME NEW e \in Edge, NEW f \in Edge, Before(e, f), f # e
  PROVE  /\ Child(e) \in Nat /\ Child(f) \in Nat /\ e[2] \in Nat /\ f[2] \in Nat
         /\ Child(e) < Child(f) \/ (Child(e) = Child(f) /\ e[2] < f[2])
<1>1. /\ e = <<e[1], e[2]>> /\ f = <<f[1], f[2]>>
      /\ e[1] \in Nat /\ e[2] \in Nat /\ f[1] \in Nat /\ f[2] \in Nat
  <2>1. \A g \in Edge : g = <<g[1], g[2]>> /\ g[1] \in Modules /\ g[2] \in Instances
    BY DEF Edge
  <2> QED BY <2>1, ModulesAssumption, InstancesAssumption
<1>2. e[1] # f[1] \/ e[2] # f[2]
  BY <1>1
<1> QED BY <1>1, <1>2 DEF Before, Child

\* Of the edges still to come the one that is taken is the least.
LEMMA LeastEdge ==
  ASSUME IInv, NEW e \in Edge, NextEdge(e)
  PROVE  /\ e \in todo[Len(modulePath)]
         /\ Len(modulePath) \in DOMAIN modulePath
         /\ \A f \in todo[Len(modulePath)] : f \in Edge /\ Before(e, f)
<1>1. Len(todo) = Len(modulePath) /\ Len(modulePath) \in DOMAIN modulePath
  BY WalkType DEF IInv, Walk, NextEdge
<1> QED BY <1>1, WalkType DEF IInv, NextEdge

\* p is compared with as much of the path as it is behind.
LEMMA BehindSame ==
  ASSUME NEW p, NEW path, NEW other, NEW k \in Nat, NEW m, Behind(p, path, k, m),
         \A i \in 1 .. k : other[i] = path[i]
  PROVE  Behind(p, other, k, m)
<1>1. PICK j \in DOMAIN p \cap (1 .. k + 1) :
        /\ \A i \in 1 .. j - 1 : p[i] = path[i]
        /\ p[j] < IF j <= k THEN path[j] ELSE m
  BY DEF Behind
<1>2. \A i \in 1 .. j - 1 : p[i] = other[i]
  BY <1>1
<1>3. p[j] < IF j <= k THEN other[j] ELSE m
  BY <1>1
<1> QED BY <1>2, <1>3 DEF Behind

LEMMA BehindLonger ==
  ASSUME NEW p, NEW path, NEW k \in Nat, NEW m, Behind(p, path, k, path[k + 1])
  PROVE  Behind(p, path, k + 1, m)
<1>1. PICK j \in DOMAIN p \cap (1 .. k + 1) :
        /\ \A i \in 1 .. j - 1 : p[i] = path[i]
        /\ p[j] < IF j <= k THEN path[j] ELSE path[k + 1]
  BY DEF Behind
<1>2. j <= k + 1 /\ j \in 1 .. (k + 1) + 1
  BY <1>1
<1>3. p[j] < path[j]
  <2>1. CASE j <= k
    BY <1>1, <2>1
  <2>2. CASE j = k + 1
    <3>1. ~(j <= k)
      BY <2>2
    <3> QED BY <1>1, <2>2, <3>1
  <2> QED BY <1>1, <2>1, <2>2
<1> QED BY <1>1, <1>2, <1>3 DEF Behind

\* A row is not empty.
LEMMA RowStarts ==
  ASSUME IInv, NEW r \in DOMAIN cycles
  PROVE  1 \in DOMAIN cycles[r].modules
<1>1. Describes(cycles[r], Front(cycles[r].modules))
  BY RowsDescribe DEF IInv
<1>2. PICK q \in Seq(Modules) : q = Front(cycles[r].modules) /\ q # <<>>
  BY <1>1 DEF IInv, SeenExact, TypeOK, Describes, IsCycle
<1>3. cycles[r].modules = Append(q, q[1])
  BY <1>1, <1>2 DEF Describes
<1>4. q[1] \in Modules
  BY <1>2
<1> QED BY <1>2, <1>3, <1>4

\* Steps that add no row and make no report.
LEMMA RowsStay ==
  ASSUME OInv, UNCHANGED <<adjacency, cycles, report>>
  PROVE  FirstInstances' /\ RowsInOrder' /\ FoundInOrder'
<1>1. FirstInstances'
  BY DEF OInv, FirstInstances
<1>2. RowsInOrder'
  BY DEF OInv, RowsInOrder
<1>3. FoundInOrder'
  BY DEF OInv, FoundInOrder, Reported
<1> QED BY <1>1, <1>2, <1>3


LEMMA RowsBehindNext ==
  ASSUME OInv, UNCHANGED <<adjacency, recursionLimit, starts, cycles>>,
         \A r \in DOMAIN cycles : \A k \in DOMAIN modulePath' :
           (\A i \in 1 .. k - 1 : First(modulePath'[i], edgePath'[i])) =>
             \A f \in todo'[k] : First(modulePath'[k], f) =>
               Behind(cycles[r].modules, modulePath', k, Child(f))
  PROVE  RowsBehind'
<1>1. \A r \in DOMAIN cycles : \A s \in starts : cycles[r].modules[1] < s
  BY DEF OInv, RowsBehind
<1> QED BY <1>1 DEF RowsBehind, First

\* The loop moves on, the path stays, and what the edge closes is known.
LEMMA TipOrder ==
  ASSUME IInv, OInv, NEW e \in Edge, NextEdge(e), todo' = Without(e),
         UNCHANGED <<adjacency, recursionLimit, starts, modulePath, edgePath>>,
         seen \subseteq seen',
         \A p \in Seq(Modules) : IsCycle(p) /\ SmallestFirst(p) /\ OnTip(p, e) => p \in seen'
  PROVE  TodoAfter' /\ DoneSeen'
<1>1. /\ Len(modulePath) \in Nat /\ DOMAIN modulePath = 1 .. Len(modulePath) /\ ~Idle
      /\ DOMAIN edgePath \subseteq DOMAIN modulePath
  BY WalkType DEF IInv, Walk, NextEdge
<1>2. \A i \in DOMAIN modulePath :
        todo'[i] = IF i = Len(modulePath) THEN todo[i] \ {e} ELSE todo[i]
  BY <1>1, Advanced DEF IInv
<1>3. TodoAfter'
  BY <1>1, <1>2 DEF OInv, TodoAfter
<1>4. DoneSeen'
  <2> SUFFICES ASSUME NEW k \in DOMAIN modulePath,
                      NEW f \in adjacency[modulePath[k]] \ todo'[k],
                      k = Len(modulePath) \/ f # edgePath[k],
                      NEW p \in Seq(Modules), IsCycle(p), SmallestFirst(p),
                      Through(p, modulePath, k, Child(f))
               PROVE  p \in seen'
    BY CycleConstant DEF DoneSeen, SmallestFirst
  <2>1. CASE f \notin todo[k]
    BY <2>1 DEF OInv, DoneSeen
  <2>2. CASE f \in todo[k]
    <3>1. k = Len(modulePath) /\ f = e
      BY <1>2, <2>2
    <3>2. OnTip(p, e)
      BY <1>1, <3>1 DEF OnTip, Through
    <3> QED BY <3>2
  <2> QED BY <2>1, <2>2
<1> QED BY <1>3, <1>4

\* Fewer edges to come, and the same rows.
LEMMA TipRows ==
  ASSUME IInv, OInv, NEW e \in Edge, NextEdge(e), todo' = Without(e),
         UNCHANGED <<adjacency, recursionLimit, starts, modulePath, edgePath, cycles>>
  PROVE  RowsBehind'
<1>1. ~Idle /\ DOMAIN modulePath = 1 .. Len(modulePath)
  BY WalkType DEF IInv, NextEdge
<1>2. \A i \in DOMAIN modulePath : todo'[i] \subseteq todo[i]
  BY <1>1, Advanced DEF IInv
<1>3. \A m, f : First(m, f)' <=> First(m, f)
  BY DEF First
<1> QED BY <1>2, <1>3 DEF OInv, RowsBehind, First

LEMMA RepeatOrder == \A e \in Edge : IInv /\ OInv /\ Repeat(e) => OInv'
<1> SUFFICES ASSUME NEW e \in Edge, IInv, OInv, Repeat(e) PROVE OInv'
  OBVIOUS
<1>1. /\ NextEdge(e) /\ ~Idle /\ Child(e) = modulePath[1]
      /\ CycleKey(Closed(e)) \in seen
      /\ todo' = Without(e)
      /\ UNCHANGED <<adjacency, recursionLimit, starts, modulePath, edgePath, seen, cycles, report>>
  BY DEF Repeat, NextEdge
<1>2. ASSUME NEW p \in Seq(Modules), IsCycle(p), SmallestFirst(p), OnTip(p, e)
      PROVE  p \in seen
  <2>1. OnPath(Child(e))
    BY <1>1, WalkType DEF IInv, OnPath
  <2>2. p = modulePath
    BY <1>1, <1>2, <2>1, OnTipBack DEF IInv
  <2>3. CycleKey(Closed(e)) = p
    BY <1>1, <1>2, <2>2, KeyOfCycle, WalkType DEF IInv, Closed
  <2> QED BY <1>1, <2>3
<1>3. TodoAfter' /\ DoneSeen'
  BY <1>1, <1>2, TipOrder
<1>4. RowsBehind'
  BY <1>1, TipRows
<1> QED BY <1>1, <1>3, <1>4, RowsStay DEF OInv

LEMMA PruneOrder == \A e \in Edge : IInv /\ OInv /\ Prune(e) => OInv'
<1> SUFFICES ASSUME NEW e \in Edge, IInv, OInv, Prune(e) PROVE OInv'
  OBVIOUS
<1>1. /\ NextEdge(e) /\ ~Idle /\ Child(e) # modulePath[1] /\ OnPath(Child(e))
      /\ todo' = Without(e)
      /\ UNCHANGED <<adjacency, recursionLimit, starts, modulePath, edgePath, seen, cycles, report>>
  BY DEF Prune, NextEdge
<1>2. \A p \in Seq(Modules) : IsCycle(p) => ~OnTip(p, e)
  BY <1>1, OnTipBack DEF IInv
<1>3. TodoAfter' /\ DoneSeen'
  BY <1>1, <1>2, TipOrder
<1>4. RowsBehind'
  BY <1>1, TipRows
<1> QED BY <1>1, <1>3, <1>4, RowsStay DEF OInv

LEMMA BeginOrder == IInv /\ OInv /\ Begin => OInv'
<1> SUFFICES ASSUME IInv, OInv, Begin PROVE OInv'
  OBVIOUS
<1>1. PICK s \in starts :
        /\ Idle
        /\ starts' = starts \ {s}
        /\ modulePath' = <<s>>
        /\ todo' = <<adjacency[s]>>
        /\ adjacency' = adjacency /\ edgePath' = edgePath /\ seen' = seen
        /\ cycles' = cycles /\ report' = report
  BY DEF Begin
<1>2. /\ Len(modulePath') = 1 /\ DOMAIN modulePath' = {1} /\ modulePath'[1] = s
      /\ todo'[1] = adjacency[s]
  BY <1>1
<1>3. DOMAIN edgePath' = {}
  <2>1. Len(edgePath) = 0 /\ DOMAIN edgePath = 1 .. Len(edgePath)
    BY <1>1, WalkType DEF IInv, Walk
  <2> QED BY <1>1, <2>1
<1>4. TodoAfter'
  BY <1>3 DEF TodoAfter
<1>5. DoneSeen'
  BY <1>1, <1>2 DEF DoneSeen
<1>6. RowsBehind'
  <2>1. ASSUME NEW r \in DOMAIN cycles
        PROVE  /\ \A t \in starts' : cycles[r].modules[1] < t
               /\ \A m : Behind(cycles[r].modules, modulePath', 1, m)
    <3>1. \A t \in starts : cycles[r].modules[1] < t
      BY DEF OInv, RowsBehind
    <3>2. 1 \in DOMAIN cycles[r].modules
      BY RowStarts
    <3>3. 1 \in DOMAIN cycles[r].modules \cap (1 .. 1 + 1)
      BY <3>2
    <3> QED BY <1>1, <1>2, <3>1, <3>3 DEF Behind
  <2> QED BY <1>1, <1>2, <2>1 DEF RowsBehind
<1> QED BY <1>1, <1>4, <1>5, <1>6, RowsStay DEF OInv

LEMMA DescendOrder == \A e \in Edge : IInv /\ OInv /\ Descend(e) => OInv'
<1> SUFFICES ASSUME NEW e \in Edge, IInv, OInv, Descend(e) PROVE OInv'
  OBVIOUS
<1> DEFINE n == Len(modulePath)
<1>1. /\ NextEdge(e) /\ ~Idle
      /\ UNCHANGED <<adjacency, recursionLimit, starts, seen, cycles, report>>
  BY DEF Descend, NextEdge
<1>2. /\ n \in Nat /\ n > 0 /\ DOMAIN modulePath = 1 .. n
      /\ DOMAIN modulePath' = 1 .. n + 1 /\ Len(modulePath') = n + 1
      /\ DOMAIN edgePath = 1 .. n - 1 /\ DOMAIN edgePath' = 1 .. n
  BY Descended
<1>3. /\ \A i \in 1 .. n : modulePath'[i] = modulePath[i]
      /\ modulePath'[n + 1] = Child(e)
      /\ \A i \in 1 .. n - 1 : edgePath'[i] = edgePath[i]
      /\ edgePath'[n] = e
  BY Descended
<1>4. /\ \A i \in 1 .. n : todo'[i] = IF i = n THEN todo[i] \ {e} ELSE todo[i]
      /\ todo'[n + 1] = adjacency[Child(e)]
  <2>1. \A i \in 1 .. n : todo'[i] = Without(e)[i]
    BY Descended
  <2>2. \A i \in 1 .. n : Without(e)[i] = IF i = n THEN todo[i] \ {e} ELSE todo[i]
    BY <1>1, Advanced DEF IInv
  <2>3. todo'[n + 1] = adjacency[Child(e)]
    BY Descended
  <2> QED BY <2>1, <2>2, <2>3
<1>5. e \in todo[n] /\ \A f \in todo[n] : Before(e, f)
  BY <1>1, LeastEdge
<1> HIDE DEF n
<1>6. TodoAfter'
  <2>1. ASSUME NEW k \in 1 .. n, NEW f \in todo'[k]
        PROVE  Before(edgePath'[k], f) /\ f # edgePath'[k]
    <3>1. CASE k = n
      BY <1>3, <1>4, <1>5, <2>1, <3>1
    <3>2. CASE k # n
      <4>1. k \in 1 .. n - 1
        BY <1>2, <3>2
      <4>2. f \in todo[k]
        BY <1>4, <2>1, <3>2
      <4>3. Before(edgePath[k], f) /\ f # edgePath[k]
        BY <1>2, <4>1, <4>2 DEF OInv, TodoAfter
      <4> QED BY <1>3, <4>1, <4>3
    <3> QED BY <3>1, <3>2
  <2> QED BY <1>2, <2>1 DEF TodoAfter
<1>7. DoneSeen'
  <2> SUFFICES ASSUME NEW k \in 1 .. n + 1,
                      NEW f \in adjacency[modulePath'[k]] \ todo'[k],
                      k = n + 1 \/ f # edgePath'[k],
                      NEW p \in Seq(Modules), IsCycle(p), SmallestFirst(p),
                      Through(p, modulePath', k, Child(f))
               PROVE  p \in seen
    BY <1>1, <1>2, CycleConstant DEF DoneSeen, SmallestFirst
  <2>1. k \in 1 .. n
    BY <1>2, <1>3, <1>4
  <2>2. f \in adjacency[modulePath[k]] \ todo[k] /\ f # edgePath'[k]
    BY <1>2, <1>3, <1>4, <2>1
  <2>3. k = n \/ f # edgePath[k]
    BY <1>2, <1>3, <2>1, <2>2
  <2>4. Through(p, modulePath, k, Child(f))
    BY <1>2, <1>3, <2>1 DEF Through
  <2> QED BY <1>2, <2>1, <2>2, <2>3, <2>4 DEF OInv, DoneSeen, n
<1>8. RowsBehind'
  <2> SUFFICES ASSUME NEW r \in DOMAIN cycles, NEW k \in 1 .. n + 1,
                      \A i \in 1 .. k - 1 : First(modulePath'[i], edgePath'[i]),
                      NEW f \in todo'[k], First(modulePath'[k], f)
               PROVE  Behind(cycles[r].modules, modulePath', k, Child(f))
    <3>1. \A m, g : First(m, g)' <=> First(m, g)
      BY <1>1 DEF First
    <3>2. \A r \in DOMAIN cycles : \A s \in starts : cycles[r].modules[1] < s
      BY DEF OInv, RowsBehind
    <3> QED BY <1>1, <1>2, <3>1, <3>2 DEF RowsBehind, First
  <2>1. CASE k \in 1 .. n
    <3>1. f \in todo[k] /\ First(modulePath[k], f)
      BY <1>3, <1>4, <2>1
    <3>2. \A i \in 1 .. k - 1 : First(modulePath[i], edgePath[i])
      <4>1. \A i \in 1 .. k - 1 : i \in 1 .. n - 1 /\ i \in 1 .. n
        BY <1>2, <2>1
      <4> QED BY <1>3, <4>1
    <3>3. Behind(cycles[r].modules, modulePath, k, Child(f))
      BY <1>2, <2>1, <3>1, <3>2 DEF OInv, RowsBehind
    <3>4. \A i \in 1 .. k : modulePath'[i] = modulePath[i]
      BY <1>2, <1>3, <2>1
    <3>5. k \in Nat
      OBVIOUS
    <3> QED BY <3>3, <3>4, <3>5, BehindSame
  <2>2. CASE k = n + 1
    <3>1. \A i \in 1 .. n - 1 : First(modulePath[i], edgePath[i])
      BY <1>2, <1>3, <2>2
    <3>2. First(modulePath[n], e)
      BY <1>2, <1>3, <2>2
    <3>3. Behind(cycles[r].modules, modulePath, n, Child(e))
      BY <1>2, <1>5, <3>1, <3>2 DEF OInv, RowsBehind
    <3>4. Behind(cycles[r].modules, modulePath', n, modulePath'[n + 1])
      BY <1>2, <1>3, <3>3, BehindSame
    <3> QED BY <1>2, <2>2, <3>4, BehindLonger
  <2> QED BY <1>2, <2>1, <2>2
<1> QED BY <1>1, <1>6, <1>7, <1>8, RowsStay DEF OInv

\* The search comes back from a module when it has come back from all its edges.
LEMMA ReturnOrder == IInv /\ OInv /\ Return => OInv'
<1> SUFFICES ASSUME IInv, OInv, Return PROVE OInv'
  OBVIOUS
<1> DEFINE n == Len(modulePath)
<1>1. todo[n] = {} /\ UNCHANGED <<adjacency, recursionLimit, starts, seen, cycles, report>>
  BY Returned DEF Return
<1>2. /\ n \in Nat /\ n > 0 /\ DOMAIN modulePath = 1 .. n
      /\ DOMAIN modulePath' = 1 .. n - 1 /\ Len(modulePath') = n - 1
      /\ DOMAIN edgePath = 1 .. n - 1
      /\ \A i \in 1 .. n - 1 : modulePath'[i] = modulePath[i] /\ todo'[i] = todo[i]
      /\ \A i \in DOMAIN edgePath' : i \in DOMAIN edgePath /\ edgePath'[i] = edgePath[i]
      /\ n > 1 => DOMAIN edgePath' = 1 .. n - 2
  BY Returned
<1> HIDE DEF n
<1>3. TodoAfter'
  BY <1>2 DEF OInv, TodoAfter
<1>4. ASSUME NEW p \in Seq(Modules), IsCycle(p), SmallestFirst(p),
             n \in DOMAIN p, \A i \in 1 .. n : p[i] = modulePath[i]
      PROVE  p \in seen
  <2>1. After(p, n) \in Children(modulePath[n])
    BY <1>2, <1>4 DEF IsCycle
  <2>2. PICK f \in adjacency[modulePath[n]] : Child(f) = After(p, n)
    BY <2>1 DEF Children
  <2>3. Through(p, modulePath, n, Child(f))
    BY <1>4, <2>2 DEF Through
  <2>4. n \in DOMAIN modulePath /\ f \notin todo[n]
    BY <1>1, <1>2
  <2> QED BY <1>4, <2>2, <2>3, <2>4 DEF OInv, DoneSeen, n
<1>5. DoneSeen'
  <2> SUFFICES ASSUME NEW k \in 1 .. n - 1,
                      NEW f \in adjacency[modulePath[k]] \ todo[k],
                      k = n - 1 \/ f # edgePath'[k],
                      NEW p \in Seq(Modules), IsCycle(p), SmallestFirst(p),
                      Through(p, modulePath, k, Child(f))
               PROVE  p \in seen
    <3>1. \A p : IsCycle(p)' <=> IsCycle(p)
      BY <1>1, CycleConstant
    <3>2. \A k \in 1 .. n - 1 : \A p, m :
            Through(p, modulePath', k, m) => Through(p, modulePath, k, m)
      BY <1>2 DEF Through
    <3> QED BY <1>1, <1>2, <3>1, <3>2 DEF DoneSeen, SmallestFirst
  <2>1. CASE f # edgePath[k]
    BY <1>2, <2>1 DEF OInv, DoneSeen
  <2>2. CASE f = edgePath[k]
    <3>1. k = n - 1
      <4>1. n > 1 /\ (k \in 1 .. n - 2 => k \in DOMAIN edgePath')
        BY <1>2
      <4>2. k \in 1 .. n - 2 => edgePath'[k] = edgePath[k]
        BY <1>2, <4>1
      <4> QED BY <1>2, <2>2, <4>2
    <3>2. Child(f) = modulePath[n]
      <4>1. Child(edgePath[k]) = modulePath[k + 1] /\ k + 1 = n
        BY <1>2, <3>1 DEF IInv, Walk
      <4> QED BY <2>2, <4>1
    <3>3. /\ Len(p) \in Nat /\ DOMAIN p = 1 .. Len(p) /\ k \in DOMAIN p
          /\ \A i \in 1 .. k : p[i] = modulePath[i]
          /\ After(p, k) = modulePath[n]
      BY <3>2 DEF Through
    <3>4. p[1] = modulePath[1]
      BY <1>2, <3>3
    <3>5. modulePath[n] # modulePath[1]
      <4>1. n # 1 /\ n \in DOMAIN modulePath /\ 1 \in DOMAIN modulePath
        BY <1>2, <3>1
      <4> QED BY <4>1 DEF IInv, TypeOK, Simple
    <3>6. k < Len(p) /\ p[n] = modulePath[n]
      BY <1>2, <3>1, <3>3, <3>4, <3>5 DEF After
    <3>7. n \in DOMAIN p /\ \A i \in 1 .. n : p[i] = modulePath[i]
      BY <1>2, <3>1, <3>3, <3>6
    <3> QED BY <1>4, <3>7
  <2> QED BY <2>1, <2>2
<1>6. RowsBehind'
  <2> SUFFICES ASSUME NEW r \in DOMAIN cycles, NEW k \in 1 .. n - 1,
                      \A i \in 1 .. k - 1 : First(modulePath[i], edgePath[i]),
                      NEW f \in todo[k], First(modulePath[k], f)
               PROVE  Behind(cycles[r].modules, modulePath', k, Child(f))
    <3>1. \A k \in 1 .. n - 1 : \A i \in 1 .. k - 1 :
            modulePath'[i] = modulePath[i] /\ edgePath'[i] = edgePath[i]
      <4>1. \A k \in 1 .. n - 1 : \A i \in 1 .. k - 1 :
              n > 1 /\ i \in 1 .. n - 1 /\ i \in 1 .. n - 2
        BY <1>2
      <4> QED BY <1>2, <4>1
    <3>2. \A r \in DOMAIN cycles : \A k \in 1 .. n - 1 :
            (\A i \in 1 .. k - 1 : First(modulePath[i], edgePath[i])) =>
              \A f \in todo[k] : First(modulePath[k], f) =>
                Behind(cycles[r].modules, modulePath', k, Child(f))
      OBVIOUS
    <3>3. \A r \in DOMAIN cycles : \A k \in 1 .. n - 1 :
            (\A i \in 1 .. k - 1 : First(modulePath'[i], edgePath'[i])) =>
              \A f \in todo'[k] : First(modulePath'[k], f) =>
                Behind(cycles[r].modules, modulePath', k, Child(f))
      BY <1>2, <3>1, <3>2
    <3> QED BY <1>1, <1>2, <3>3, RowsBehindNext
  <2>1. k \in DOMAIN modulePath /\ k \in Nat
    BY <1>2
  <2>2. Behind(cycles[r].modules, modulePath, k, Child(f))
    BY <2>1 DEF OInv, RowsBehind
  <2>3. \A i \in 1 .. k : modulePath'[i] = modulePath[i]
    BY <1>2
  <2> QED BY <2>1, <2>2, <2>3, BehindSame
<1> QED BY <1>1, <1>3, <1>5, <1>6, RowsStay DEF OInv

\* The row of a cycle that is found: the path and its edges, closed.
LEMMA FoundRow ==
  ASSUME IInv, NEW e \in Edge, Found(e)
  PROVE  \E row \in Row :
           /\ DOMAIN cycles' = DOMAIN cycles \cup {Len(cycles) + 1}
           /\ \A r \in DOMAIN cycles : cycles'[r] = cycles[r]
           /\ cycles'[Len(cycles) + 1] = row
           /\ DOMAIN row.modules = 1 .. Len(modulePath) + 1
           /\ \A k \in 1 .. Len(modulePath) : row.modules[k] = modulePath[k]
           /\ row.modules[Len(modulePath) + 1] = Child(e)
           /\ DOMAIN row.edges = 1 .. Len(modulePath)
           /\ \A k \in 1 .. Len(modulePath) - 1 : row.edges[k] = edgePath[k]
           /\ row.edges[Len(modulePath)] = e
<1> DEFINE n == Len(modulePath)
           path == Append(modulePath, Child(e))
           edges == Append(edgePath, e)
           row == [modules |-> path, edges |-> edges]
<1>1. cycles' = Append(cycles, row) /\ ~Idle
  BY DEF Found, NextEdge, Closed
<1>2. /\ n \in Nat /\ n > 0 /\ DOMAIN modulePath = 1 .. n /\ Child(e) \in Modules
      /\ modulePath \in Seq(Modules) /\ edgePath \in Seq(Edge)
      /\ Len(edgePath) = n - 1 /\ DOMAIN edgePath = 1 .. n - 1
  BY <1>1, WalkType DEF IInv, TypeOK, Walk
<1>3. /\ path \in Seq(Modules) /\ Len(path) = n + 1
      /\ \A i \in 1 .. n : path[i] = modulePath[i]
      /\ path[n + 1] = Child(e)
  BY <1>2, Appended
<1>4. /\ edges \in Seq(Edge) /\ Len(edges) = (n - 1) + 1
      /\ \A i \in 1 .. n - 1 : edges[i] = edgePath[i]
      /\ edges[(n - 1) + 1] = e
  <2> HIDE DEF n, path, row, edges
  <2>1. edgePath \in Seq(Edge)
    BY <1>2
  <2>2. /\ Append(edgePath, e) \in Seq(Edge)
        /\ Len(Append(edgePath, e)) = Len(edgePath) + 1
        /\ \A i \in DOMAIN edgePath : Append(edgePath, e)[i] = edgePath[i]
        /\ Append(edgePath, e)[Len(edgePath) + 1] = e
    BY <2>1, Appended
  <2> QED BY <1>2, <2>2 DEF edges
<1>5. (n - 1) + 1 = n
  BY <1>2
<1> HIDE DEF n, path, edges
<1>6. row \in Row /\ row.modules = path /\ row.edges = edges
  BY <1>3, <1>4 DEF Row
<1>7. DOMAIN path = 1 .. n + 1 /\ DOMAIN edges = 1 .. n
  <2>1. DOMAIN path = 1 .. Len(path)
    BY <1>3
  <2>2. DOMAIN edges = 1 .. Len(edges)
    BY <1>4
  <2> QED BY <1>3, <1>4, <1>5, <2>1, <2>2
<1> HIDE DEF row
<1>8. /\ DOMAIN cycles' = DOMAIN cycles \cup {Len(cycles) + 1}
      /\ \A r \in DOMAIN cycles : cycles'[r] = cycles[r]
      /\ cycles'[Len(cycles) + 1] = row
  <2>1. cycles \in Seq(Row)
    BY DEF IInv, TypeOK
  <2> QED BY <1>1, <1>6, <2>1
<1>9. /\ DOMAIN row.modules = 1 .. n + 1
      /\ \A k \in 1 .. n : row.modules[k] = modulePath[k]
      /\ row.modules[n + 1] = Child(e)
  BY <1>3, <1>6, <1>7
<1>10. /\ DOMAIN row.edges = 1 .. n
       /\ \A k \in 1 .. n - 1 : row.edges[k] = edgePath[k]
       /\ row.edges[n] = e
  BY <1>4, <1>5, <1>6, <1>7
<1> QED BY <1>6, <1>8, <1>9, <1>10 DEF n

\* A cycle is found along first instances: with an earlier instance it would
\* have been found before.
LEMMA FirstsOnPath ==
  ASSUME IInv, OInv, NEW e \in Edge, NextEdge(e), Child(e) = modulePath[1],
         CycleKey(Closed(e)) \notin seen
  PROVE  /\ \A k \in 1 .. Len(modulePath) - 1 : First(modulePath[k], edgePath[k])
         /\ First(modulePath[Len(modulePath)], e)
<1> DEFINE n == Len(modulePath)
<1>1. /\ IsCycle(modulePath) /\ SmallestFirst(modulePath) /\ modulePath \notin seen
      /\ modulePath \in Seq(Modules)
  BY ClosedIsCycle, NewKey DEF IInv, TypeOK
<1>2. /\ n \in Nat /\ n > 0 /\ DOMAIN modulePath = 1 .. n
      /\ DOMAIN edgePath = 1 .. n - 1
      /\ \A k \in 1 .. n : \A f \in adjacency[modulePath[k]] : f \in Edge
  <2>1. ~Idle
    BY DEF NextEdge
  <2> QED BY <2>1, WalkType DEF IInv, Walk
<1>3. ASSUME NEW k \in 1 .. n, NEW f \in adjacency[modulePath[k]],
             k = n \/ f # edgePath[k], Child(f) = After(modulePath, k)
      PROVE  f \in todo[k]
  <2>1. Through(modulePath, modulePath, k, Child(f))
    BY <1>2, <1>3 DEF Through
  <2> QED BY <1>1, <1>2, <1>3, <2>1 DEF OInv, DoneSeen
<1>4. ASSUME NEW k \in 1 .. n - 1
      PROVE  First(modulePath[k], edgePath[k])
  <2> SUFFICES ASSUME NEW f \in adjacency[modulePath[k]], Child(f) = Child(edgePath[k])
               PROVE  edgePath[k][2] <= f[2]
    BY DEF First
  <2>1. k \in 1 .. n /\ k < n /\ k \in DOMAIN edgePath
    BY <1>2
  <2>2. /\ edgePath[k] \in adjacency[modulePath[k]]
        /\ Child(edgePath[k]) = modulePath[k + 1]
    BY <2>1 DEF IInv, Walk
  <2>3. After(modulePath, k) = modulePath[k + 1]
    BY <2>1 DEF After
  <2>4. f \in Edge /\ edgePath[k] \in Edge
    BY <1>2, <2>1, <2>2
  <2>5. CASE f = edgePath[k]
    <3>1. f[2] \in Nat
      BY <2>4, InstancesAssumption DEF Edge
    <3> QED BY <2>5, <3>1
  <2>6. CASE f # edgePath[k]
    <3>1. f \in todo[k]
      BY <1>3, <2>1, <2>2, <2>3, <2>6
    <3>2. Before(edgePath[k], f)
      BY <2>1, <3>1 DEF OInv, TodoAfter
    <3>3. /\ Child(edgePath[k]) \in Nat /\ f[2] \in Nat /\ edgePath[k][2] \in Nat
          /\ Child(edgePath[k]) < Child(f) \/ edgePath[k][2] < f[2]
      BY <2>4, <2>6, <3>2, EdgeOrder
    <3> QED BY <3>3
  <2> QED BY <2>5, <2>6
<1>5. First(modulePath[n], e)
  <2> SUFFICES ASSUME NEW f \in adjacency[modulePath[n]], Child(f) = Child(e)
               PROVE  e[2] <= f[2]
    BY DEF First
  <2>1. n \in 1 .. n /\ After(modulePath, n) = modulePath[1] /\ f \in Edge
    BY <1>2 DEF After
  <2>2. f \in todo[n]
    BY <1>3, <2>1
  <2>3. CASE f = e
    <3>1. e[2] \in Nat
      BY InstancesAssumption DEF Edge
    <3> QED BY <2>3, <3>1
  <2>4. CASE f # e
    <3>1. Before(e, f)
      BY <2>2, LeastEdge
    <3>2. /\ Child(e) \in Nat /\ f[2] \in Nat /\ e[2] \in Nat
          /\ Child(e) < Child(f) \/ e[2] < f[2]
      BY <2>1, <2>4, <3>1, EdgeOrder
    <3> QED BY <3>2
  <2> QED BY <2>3, <2>4
<1> QED BY <1>4, <1>5

LEMMA FoundOrder == \A e \in Edge : IInv /\ OInv /\ Found(e) => OInv'
<1> SUFFICES ASSUME NEW e \in Edge, IInv, OInv, Found(e) PROVE OInv'
  OBVIOUS
<1> DEFINE n == Len(modulePath)
           new == Len(cycles) + 1
<1>1. /\ NextEdge(e) /\ ~Idle /\ Child(e) = modulePath[1]
      /\ CycleKey(Closed(e)) \notin seen
      /\ seen' = seen \cup {CycleKey(Closed(e))}
      /\ todo' = Without(e)
      /\ UNCHANGED <<adjacency, recursionLimit, starts, modulePath, edgePath, report>>
  BY DEF Found, NextEdge
<1>2. PICK row \in Row :
        /\ DOMAIN cycles' = DOMAIN cycles \cup {new}
        /\ \A r \in DOMAIN cycles : cycles'[r] = cycles[r]
        /\ cycles'[new] = row
        /\ DOMAIN row.modules = 1 .. n + 1
        /\ \A k \in 1 .. n : row.modules[k] = modulePath[k]
        /\ row.modules[n + 1] = Child(e)
        /\ DOMAIN row.edges = 1 .. n
        /\ \A k \in 1 .. n - 1 : row.edges[k] = edgePath[k]
        /\ row.edges[n] = e
  BY FoundRow
<1>3. /\ n \in Nat /\ n > 0 /\ DOMAIN modulePath = 1 .. n
      /\ DOMAIN edgePath = 1 .. n - 1
      /\ DOMAIN cycles = 1 .. Len(cycles) /\ Len(cycles) \in Nat
  BY <1>1, WalkType DEF IInv, Walk
<1>4. \A i \in 1 .. n : todo'[i] = IF i = n THEN todo[i] \ {e} ELSE todo[i]
  BY <1>1, Advanced DEF IInv
<1>5. /\ e \in todo[n] /\ e \in adjacency[modulePath[n]]
      /\ \A f \in todo[n] : Before(e, f)
  BY <1>1, LeastEdge, ClosedIsCycle DEF IInv
<1>6. /\ \A k \in 1 .. n - 1 : First(modulePath[k], edgePath[k])
      /\ First(modulePath[n], e)
  BY <1>1, FirstsOnPath
<1>7. \A p \in Seq(Modules) : IsCycle(p) /\ SmallestFirst(p) /\ OnTip(p, e) => p \in seen'
  <2>1. OnPath(Child(e))
    BY <1>1, WalkType DEF IInv, OnPath
  <2>2. \A p \in Seq(Modules) : IsCycle(p) /\ OnTip(p, e) => p = modulePath
    BY <1>1, <2>1, OnTipBack DEF IInv
  <2>3. modulePath \in seen'
    BY <1>1, NewKey
  <2> QED BY <2>2, <2>3
<1>8. TodoAfter' /\ DoneSeen'
  BY <1>1, <1>7, TipOrder
<1> HIDE DEF n, new
<1>9. FirstInstances'
  <2>1. ASSUME NEW i \in 1 .. n
        PROVE  First(row.modules[i], row.edges[i])
    <3>1. CASE i = n
      BY <1>2, <1>6, <3>1
    <3>2. CASE i # n
      <4>1. i \in 1 .. n - 1
        BY <1>3, <3>2
      <4> QED BY <1>2, <1>6, <4>1
    <3> QED BY <3>1, <3>2
  <2>2. \A i \in DOMAIN row.edges : \A f \in adjacency[row.modules[i]] :
          Child(f) = Child(row.edges[i]) => row.edges[i][2] <= f[2]
    BY <1>2, <2>1 DEF First
  <2>3. \A k \in DOMAIN cycles : \A i \in DOMAIN cycles'[k].edges :
          \A f \in adjacency[cycles'[k].modules[i]] :
            Child(f) = Child(cycles'[k].edges[i]) => cycles'[k].edges[i][2] <= f[2]
    BY <1>2 DEF OInv, FirstInstances
  <2> QED BY <1>1, <1>2, <2>2, <2>3 DEF FirstInstances
\* What is still to come leaves the new row after the edges of its path.
<1>10. ASSUME NEW k \in 1 .. n, NEW f \in todo'[k], First(modulePath[k], f)
       PROVE  Behind(row.modules, modulePath, k, Child(f))
  <2> DEFINE g == IF k = n THEN e ELSE edgePath[k]
  <2>1. k + 1 \in 1 .. n + 1 /\ row.modules[k + 1] = Child(g)
    <3>1. CASE k = n
      BY <1>2, <1>3, <3>1
    <3>2. CASE k # n
      <4>1. k \in 1 .. n - 1 /\ k + 1 \in 1 .. n
        BY <1>3, <3>2
      <4>2. Child(edgePath[k]) = modulePath[k + 1]
        BY <1>3, <4>1 DEF IInv, Walk
      <4> QED BY <1>2, <1>3, <3>2, <4>1, <4>2
    <3> QED BY <3>1, <3>2
  <2>2. g \in adjacency[modulePath[k]]
    <3>1. CASE k = n
      BY <1>5, <3>1
    <3>2. CASE k # n
      <4>1. k \in DOMAIN edgePath
        BY <1>3, <3>2
      <4> QED BY <3>2, <4>1 DEF IInv, Walk
    <3> QED BY <3>1, <3>2
  <2>3. Before(g, f) /\ f # g
    <3>1. CASE k = n
      BY <1>4, <1>5, <1>10, <3>1
    <3>2. CASE k # n
      <4>1. k \in DOMAIN edgePath
        BY <1>3, <3>2
      <4>2. f \in todo[k]
        BY <1>4, <1>10, <3>2
      <4> QED BY <3>2, <4>1, <4>2 DEF OInv, TodoAfter
    <3> QED BY <3>1, <3>2
  <2>4. f \in Edge /\ g \in Edge
    <3>1. f \in todo[k]
      BY <1>4, <1>10
    <3>2. \A m \in Modules : adjacency[m] \in SUBSET Edge
      BY WalkType DEF IInv
    <3>3. modulePath[k] \in Modules /\ todo[k] \subseteq Edge
      BY <1>3, WalkType DEF IInv
    <3> QED BY <2>2, <3>1, <3>2, <3>3
  <2>5. Child(g) = Child(f) => f[2] <= g[2]
    BY <1>10, <2>2 DEF First
  <2> HIDE DEF g
  <2>6. Child(g) < Child(f)
    <3>1. /\ Child(g) \in Nat /\ Child(f) \in Nat /\ g[2] \in Nat /\ f[2] \in Nat
          /\ Child(g) < Child(f) \/ (Child(g) = Child(f) /\ g[2] < f[2])
      BY <2>3, <2>4, EdgeOrder
    <3> QED BY <2>5, <3>1
  <2>7. \A i \in 1 .. (k + 1) - 1 : row.modules[i] = modulePath[i]
    BY <1>2, <1>3
  <2>8. /\ k + 1 \in DOMAIN row.modules \cap (1 .. k + 1)
        /\ row.modules[k + 1] < IF k + 1 <= k THEN modulePath[k + 1] ELSE Child(f)
    <3>1. ~(k + 1 <= k) /\ k + 1 \in 1 .. k + 1
      BY <1>3
    <3> QED BY <1>2, <2>1, <2>6, <3>1
  <2> QED BY <2>7, <2>8 DEF Behind
<1>11. RowsBehind'
  <2>1. ASSUME NEW s \in starts
        PROVE  /\ \A r \in DOMAIN cycles : cycles[r].modules[1] < s
               /\ row.modules[1] < s
    <3>1. modulePath[1] < s
      BY <1>1 DEF IInv, StartsInOrder
    <3>2. row.modules[1] = modulePath[1]
      BY <1>2, <1>3
    <3> QED BY <3>1, <3>2 DEF OInv, RowsBehind
  <2>2. ASSUME NEW r \in DOMAIN cycles', NEW k \in 1 .. n,
               \A i \in 1 .. k - 1 : First(modulePath[i], edgePath[i]),
               NEW f \in todo'[k], First(modulePath[k], f)
        PROVE  Behind(cycles'[r].modules, modulePath, k, Child(f))
    <3>1. CASE r \in DOMAIN cycles
      <4>1. f \in todo[k]
        BY <1>4, <2>2
      <4> QED BY <1>2, <1>3, <2>2, <3>1, <4>1 DEF OInv, RowsBehind
    <3>2. CASE r = new
      BY <1>2, <1>10, <2>2, <3>2
    <3> QED BY <1>2, <3>1, <3>2
  <2>3. \A r \in DOMAIN cycles' : \A s \in starts : cycles'[r].modules[1] < s
    BY <1>2, <2>1
  <2> QED BY <1>1, <1>3, <2>2, <2>3 DEF RowsBehind, First
<1>12. RowsInOrder'
  <2> SUFFICES ASSUME NEW q \in DOMAIN cycles', NEW r \in DOMAIN cycles', q < r
               PROVE  Earlier(cycles'[q].modules, cycles'[r].modules)
    BY DEF RowsInOrder
  <2>1. q \in DOMAIN cycles
    BY <1>2, <1>3 DEF new
  <2>2. CASE r \in DOMAIN cycles
    BY <1>2, <2>1, <2>2 DEF OInv, RowsInOrder
  <2>3. CASE r = new
    <3>1. Behind(cycles[q].modules, modulePath, n, Child(e))
      <4>1. n \in DOMAIN modulePath
        BY <1>3
      <4> QED BY <1>5, <1>6, <2>1, <4>1 DEF OInv, RowsBehind
    <3>2. PICK j \in DOMAIN cycles[q].modules \cap (1 .. n + 1) :
            /\ \A i \in 1 .. j - 1 : cycles[q].modules[i] = modulePath[i]
            /\ cycles[q].modules[j] < IF j <= n THEN modulePath[j] ELSE Child(e)
      BY <3>1 DEF Behind
    <3>3. \A i \in 1 .. j - 1 : cycles[q].modules[i] = row.modules[i]
      BY <1>2, <1>3, <3>2
    <3>4. cycles[q].modules[j] < row.modules[j]
      <4>1. CASE j <= n
        BY <1>2, <1>3, <3>2, <4>1
      <4>2. CASE ~(j <= n)
        <5>1. j = n + 1
          BY <1>3, <4>2
        <5> QED BY <1>2, <3>2, <4>2, <5>1
      <4> QED BY <4>1, <4>2
    <3>5. j \in DOMAIN cycles[q].modules \cap DOMAIN row.modules
      BY <1>2, <3>2
    <3>6. Earlier(cycles[q].modules, row.modules)
      BY <3>3, <3>4, <3>5 DEF Earlier
    <3> QED BY <1>2, <2>1, <2>3, <3>6
  <2> QED BY <1>2, <2>2, <2>3
<1>13. FoundInOrder'
  <2>1. ~Reported
    BY <1>1 DEF IInv, ReportFinal
  <2> QED BY <1>1, <2>1 DEF FoundInOrder, Reported
<1> QED BY <1>8, <1>9, <1>11, <1>12, <1>13 DEF OInv

\* The numbers that are counted are those up to i.
LEMMA UptoRow ==
  ASSUME IInv, OInv, NEW i \in DOMAIN cycles
  PROVE  {j \in DOMAIN cycles : Precedes(cycles[j].modules, cycles[i].modules)} = 1 .. i
<1> DEFINE Path(j) == cycles[j].modules
<1>1. Len(cycles) \in Nat /\ DOMAIN cycles = 1 .. Len(cycles)
  BY WalkType DEF IInv
<1>2. ASSUME NEW j \in DOMAIN cycles
      PROVE  /\ Path(j) \in Seq(Modules)
             /\ Len(Path(j)) \in Nat /\ DOMAIN Path(j) = 1 .. Len(Path(j))
             /\ \A k \in DOMAIN Path(j) : Path(j)[k] \in Nat
  <2>1. cycles[j] \in Row
    BY DEF IInv, TypeOK
  <2>2. Path(j) \in Seq(Modules)
    BY <2>1 DEF Row
  <2>3. \A s \in Seq(Modules) : /\ Len(s) \in Nat /\ DOMAIN s = 1 .. Len(s)
                                /\ \A k \in DOMAIN s : s[k] \in Modules
    OBVIOUS
  <2> HIDE DEF Path
  <2> QED BY <2>2, <2>3, ModulesAssumption
<1>3. \A q, r \in DOMAIN cycles : q < r => Earlier(Path(q), Path(r))
  BY DEF OInv, RowsInOrder
<1> HIDE DEF Path
<1>4. ASSUME NEW j \in DOMAIN cycles, j < i
      PROVE  Precedes(Path(j), Path(i))
  BY <1>3, <1>4 DEF Precedes, Earlier
<1>5. Precedes(Path(i), Path(i))
  <2>1. Path(i) \in Seq(Modules)
    BY <1>2
  <2>2. \A s \in Seq(Modules) : Len(s) <= Len(s) /\ s = SubSeq(s, 1, Len(s))
    OBVIOUS
  <2> QED BY <2>1, <2>2 DEF Precedes
<1>6. ASSUME NEW j \in DOMAIN cycles, i < j, Precedes(Path(j), Path(i))
      PROVE  FALSE
  <2>1. PICK k \in DOMAIN Path(i) \cap DOMAIN Path(j) :
          Path(i)[k] < Path(j)[k] /\ \A m \in 1 .. k - 1 : Path(i)[m] = Path(j)[m]
    BY <1>3, <1>6 DEF Earlier
  <2>2. Path(i)[k] \in Nat /\ Path(j)[k] \in Nat /\ k \in 1 .. Len(Path(j))
    BY <1>2, <2>1
  <2>3. CASE Len(Path(j)) <= Len(Path(i)) /\ Path(j) = SubSeq(Path(i), 1, Len(Path(j)))
    <3>1. \A s \in Seq(Modules) : \A n \in Nat : n <= Len(s) =>
            \A m \in 1 .. n : SubSeq(s, 1, n)[m] = s[m]
      OBVIOUS
    <3>2. SubSeq(Path(i), 1, Len(Path(j)))[k] = Path(i)[k]
      BY <1>2, <2>2, <2>3, <3>1
    <3>3. Path(j)[k] = Path(i)[k]
      BY <2>3, <3>2
    <3> QED BY <2>1, <2>2, <3>3
  <2>4. CASE \E m \in DOMAIN Path(j) \cap DOMAIN Path(i) :
               Path(j)[m] < Path(i)[m] /\ \A l \in 1 .. m - 1 : Path(j)[l] = Path(i)[l]
    <3>1. PICK m \in DOMAIN Path(j) \cap DOMAIN Path(i) :
            Path(j)[m] < Path(i)[m] /\ \A l \in 1 .. m - 1 : Path(j)[l] = Path(i)[l]
      BY <2>4
    <3>2. Path(i)[m] \in Nat /\ Path(j)[m] \in Nat /\ m \in 1 .. Len(Path(j))
      BY <1>2, <3>1
    <3>3. m < k => m \in 1 .. k - 1
      BY <2>2, <3>2
    <3>4. k < m => k \in 1 .. m - 1
      BY <2>2, <3>2
    <3>5. CASE m < k
      BY <2>1, <3>1, <3>2, <3>3, <3>5
    <3>6. CASE k < m
      BY <2>1, <2>2, <3>1, <3>4, <3>6
    <3>7. CASE m = k
      BY <2>1, <2>2, <3>1, <3>7
    <3>8. m < k \/ k < m \/ m = k
      BY <2>2, <3>2
    <3> QED BY <3>5, <3>6, <3>7, <3>8
  <2> QED BY <1>6, <2>3, <2>4 DEF Precedes
<1>7. \A j \in DOMAIN cycles : Precedes(Path(j), Path(i)) <=> j <= i
  <2> SUFFICES ASSUME NEW j \in DOMAIN cycles
               PROVE  Precedes(Path(j), Path(i)) <=> j <= i
    OBVIOUS
  <2>1. j \in Nat /\ i \in Nat
    BY <1>1
  <2>2. j < i \/ j = i \/ i < j
    BY <2>1
  <2> QED BY <1>4, <1>5, <1>6, <2>1, <2>2
<1>8. {j \in DOMAIN cycles : Precedes(Path(j), Path(i))} = 1 .. i
  BY <1>1, <1>7
<1> QED BY <1>8 DEF Path

LEMMA ReportOrder == IInv /\ OInv /\ Report => OInv'
<1> SUFFICES ASSUME IInv, OInv, Report PROVE OInv'
  OBVIOUS
<1>1. UNCHANGED <<adjacency, recursionLimit, starts, modulePath, edgePath, todo, seen, cycles>>
  BY DEF Report
<1>2. FoundInOrder'
  <2>1. ASSUME NEW i \in DOMAIN cycles
        PROVE  report'.cycleId[i] = i
    <3>1. report'.cycleId[i] = Cardinality(
            {j \in DOMAIN cycles : Precedes(cycles[j].modules, cycles[i].modules)})
      BY DEF Report
    <3>2. i \in Nat
      BY WalkType DEF IInv
    <3>3. Cardinality(1 .. i) = i
      BY <3>2, FS_Interval
    <3> QED BY <3>1, <3>3, UptoRow
  <2> QED BY <1>1, <2>1 DEF FoundInOrder
<1>3. TodoAfter' /\ RowsBehind'
  BY <1>1 DEF OInv, TodoAfter, RowsBehind, First
<1>4. DoneSeen'
  BY <1>1, CycleConstant DEF OInv, DoneSeen, SmallestFirst
<1>5. FirstInstances' /\ RowsInOrder'
  BY <1>1 DEF OInv, FirstInstances, RowsInOrder
<1> QED BY <1>2, <1>3, <1>4, <1>5 DEF OInv

LEMMA StutterOrder == OInv /\ UNCHANGED vars => OInv'
<1> SUFFICES ASSUME OInv, UNCHANGED vars PROVE OInv'
  OBVIOUS
<1>1. UNCHANGED <<adjacency, recursionLimit, starts, modulePath, edgePath, todo,
                  seen, cycles, report>>
  BY DEF vars
<1>2. TodoAfter' /\ RowsBehind'
  BY <1>1 DEF OInv, TodoAfter, RowsBehind, First
<1>3. DoneSeen'
  BY <1>1, CycleConstant DEF OInv, DoneSeen, SmallestFirst
<1> QED BY <1>1, <1>2, <1>3, RowsStay DEF OInv

LEMMA OverflowOrder == \A e \in Edge : IInv /\ OInv /\ Overflow(e) => OInv'
<1> SUFFICES ASSUME NEW e \in Edge, IInv, OInv, Overflow(e) PROVE OInv'
  OBVIOUS
<1>1. /\ report' = Failure
      /\ UNCHANGED <<adjacency, recursionLimit, starts, modulePath, edgePath, todo, seen, cycles>>
  BY DEF Overflow
<1>2. TodoAfter' /\ RowsBehind'
  BY <1>1 DEF OInv, TodoAfter, RowsBehind, First
<1>3. DoneSeen'
  BY <1>1, CycleConstant DEF OInv, DoneSeen, SmallestFirst
<1>4. FirstInstances' /\ RowsInOrder' /\ FoundInOrder'
  BY <1>1 DEF OInv, FirstInstances, RowsInOrder, FoundInOrder, Reported
<1> QED BY <1>2, <1>3, <1>4 DEF OInv

LEMMA InitOrder == Init => OInv
<1> SUFFICES ASSUME Init PROVE OInv
  OBVIOUS
<1>1. /\ DOMAIN modulePath = {} /\ DOMAIN edgePath = {} /\ DOMAIN cycles = {}
      /\ ~Reported
  BY DEF Init, Reported
<1> QED BY <1>1
     DEF OInv, TodoAfter, DoneSeen, FirstInstances, RowsBehind, RowsInOrder, FoundInOrder

\* What the order of the search rests on holds at every step, with IInv.
THEOREM SearchOrder == Spec => [](IInv /\ OInv)
<1>1. IInv /\ OInv /\ [Next]_vars => OInv'
  BY BeginOrder, ReturnOrder, ReportOrder, RepeatOrder, FoundOrder, PruneOrder, DescendOrder,
     OverflowOrder, StutterOrder DEF Next
<1> QED BY InitOrder, Invariance, <1>1, PTL DEF Spec

\* Every row shows the first instance of each child in each parent: with another
\* combination of instances the cycle would have been found before.
THEOREM RowsShowFirstInstances == Spec => []FirstInstances
<1>1. OInv => FirstInstances
  BY DEF OInv
<1> QED BY <1>1, SearchOrder, PTL

\* _hierarchy_cycle_rows finds the cycles in the order of their summaries, so
\* that the sort before the cycle ids are given changes nothing.
THEOREM RowsFoundInOrder == Spec => []FoundInOrder
<1>1. OInv => FoundInOrder
  BY DEF OInv
<1> QED BY <1>1, SearchOrder, PTL

-----------------------------------------------------------------------------
(* The limit of the recursion *)

FInv == Failed => ~Idle /\ IsChain(modulePath) /\ Len(modulePath) + InnerCalls > recursionLimit

\* The path of the search is a chain.
LEMMA PathIsChain ==
  ASSUME TypeOK, Walk
  PROVE  IsChain(modulePath)
<1>1. ASSUME NEW k \in 1 .. Len(modulePath) - 1
      PROVE  modulePath[k + 1] \in Children(modulePath[k])
  <2>1. k \in DOMAIN modulePath /\ k < Len(modulePath)
    BY WalkType
  <2> QED BY <2>1, PathSteps
<1> QED BY <1>1 DEF IsChain, TypeOK

LEMMA OverflowFails == \A e \in Edge : IInv /\ Overflow(e) => FInv'
<1> SUFFICES ASSUME NEW e \in Edge, IInv, Overflow(e) PROVE FInv'
  OBVIOUS
<1>1. ~Idle /\ UNCHANGED <<adjacency, recursionLimit, modulePath>>
      /\ (~RoomFor(InnerCalls) \/ ~RoomFor(1))
  BY DEF Overflow, NextEdge
<1>2. Len(modulePath) \in Nat /\ IsChain(modulePath)
  BY WalkType, PathIsChain DEF IInv
<1>3. Len(modulePath) + InnerCalls > recursionLimit
  BY <1>1, <1>2, LimitAssumption DEF RoomFor, IInv, TypeOK
<1>4. IsChain(modulePath)'
  BY <1>1, <1>2 DEF IsChain, Children
<1> QED BY <1>1, <1>3, <1>4 DEF FInv, Idle

\* No other step ends in a failure.
LEMMA FailureStep ==
  ASSUME IInv, FInv, [Next]_vars
  PROVE  FInv'
<1>1. CASE \E e \in Edge : Overflow(e)
  BY <1>1, OverflowFails
<1>2. CASE Begin
  <2>1. Idle /\ report' = report
    BY <1>2 DEF Begin
  <2> QED BY <2>1 DEF FInv, Failed
<1>3. CASE Report
  <2>1. report'.state \in {"cycles-detected", "no-cycles-detected"}
    BY <1>3 DEF Report
  <2> QED BY <2>1 DEF FInv, Failed, Failure
<1>4. CASE Return \/ \E e \in Edge : Repeat(e) \/ Found(e) \/ Prune(e) \/ Descend(e)
  <2>1. ~Failed /\ report' = report
    BY <1>4 DEF Return, Repeat, Found, Prune, Descend, NextEdge
  <2> QED BY <2>1 DEF FInv, Failed
<1>5. CASE UNCHANGED vars
  <2>1. UNCHANGED <<adjacency, recursionLimit, modulePath, report>>
    BY <1>5 DEF vars
  <2> QED BY <2>1 DEF FInv, Failed, Idle, IsChain, Children
<1> QED BY <1>1, <1>2, <1>3, <1>4, <1>5 DEF Next

\* FailsOnlyOnLongChains: for every hierarchy and every limit the search fails only
\* when it has come down a chain of different modules that long.
THEOREM FailuresAreLongChains == Spec => []FailsOnlyOnLongChains
<1>1. Init => FInv
  BY DEF Init, FInv, Failed, NoReport, Failure
<1>2. FInv => FailsOnlyOnLongChains
  BY DEF FInv, FailsOnlyOnLongChains
<1> QED BY <1>1, <1>2, FailureStep, Invariance, PTL DEF Spec

=============================================================================

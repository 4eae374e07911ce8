------------------------- MODULE HierarchyWalksProofs -----------------------
(***************************************************************************)
(* Proofs about two walks over the hierarchy, for every finite set of      *)
(* modules and every hierarchy over it: the queue of ModuleDepth and, for  *)
(* every start, the recursion of ReachableNames.                           *)
(***************************************************************************)
EXTENDS ModuleDepth, ReachableNames,
        FiniteSetTheorems, FunctionTheorems, WellFoundedInduction, TLAPS

-----------------------------------------------------------------------------
(* ModuleDepth                                                             *)
-----------------------------------------------------------------------------

\* Depths never fall along the queue, and differ by one at most.
QueueInOrder ==
  \A i, j \in DOMAIN queue : i < j => /\ queue[i][2] <= queue[j][2]
                                      /\ queue[j][2] <= queue[i][2] + 1

\* What is placed is not deeper than what is queued.
PlacedFirst == \A m \in Placed, i \in DOMAIN queue : depths[m] <= queue[i][2]

Reasons(m, d) ==
  \/ m \in Roots /\ d = 0
  \/ \E p \in Parents(m) \cap Placed : d = depths[p] + 1

\* Every depth, placed or queued, comes from being a root or from a parent.
Justified ==
  /\ \A m \in Placed : Reasons(m, depths[m])
  /\ \A i \in DOMAIN queue : Reasons(queue[i][1], queue[i][2])

Awaited(m, d) == \E i \in DOMAIN queue : queue[i] = <<m, d>>

\* Nothing is forgotten: a root or a child of a placed module is placed or
\* still in the queue.
Pending ==
  /\ \A r \in Roots : r \in Placed \/ Awaited(r, 0)
  /\ \A m \in Placed : \A c \in children[m] :
       \/ c \in Placed /\ depths[c] <= depths[m] + 1
       \/ c \notin Placed /\ Awaited(c, depths[m] + 1)

\* A detached set is never entered.
DetachedOut ==
  \A S \in SUBSET Modules : Detached(S) =>
    S \cap Placed = {} /\ \A i \in DOMAIN queue : queue[i][1] \notin S

ReportFinal ==
  Reported => queue = <<>> /\ report.unplaced = Modules \ Placed /\ report.levels = Levels

IInv ==
  /\ TypeOK
  /\ QueueInOrder
  /\ PlacedFirst
  /\ Justified
  /\ Pending
  /\ DetachedOut
  /\ ReportFinal

-----------------------------------------------------------------------------
(* Lemmas about the queue *)

LEMMA QueueType ==
  ASSUME TypeOK
  PROVE  /\ Len(queue) \in Nat
         /\ DOMAIN queue = 1 .. Len(queue)
         /\ \A i \in DOMAIN queue : /\ queue[i][1] \in Modules
                                    /\ queue[i][2] \in Nat
                                    /\ queue[i] = <<queue[i][1], queue[i][2]>>
  BY DEF TypeOK

\* A sorted list is a sequence of the set's elements, with the given depth.
LEMMA SortedType ==
  ASSUME NEW S \in SUBSET Modules, NEW d \in Nat, NEW s \in Sorted(S, d)
  PROVE  /\ s \in Seq(Modules \X Nat)
         /\ DOMAIN s = 1 .. Len(s)
         /\ Len(s) \in Nat
         /\ \A i \in DOMAIN s : s[i][1] \in S /\ s[i][2] = d /\ s[i] = <<s[i][1], d>>
         /\ \A m \in S : \E i \in DOMAIN s : s[i] = <<m, d>>
<1>1. IsFiniteSet(S)
  BY FS_Subset, ModulesAssumption
<1>2. Cardinality(S) \in Nat
  BY <1>1, FS_CardinalityType
<1>3. s \in [1 .. Cardinality(S) -> S \X {d}]
  BY DEF Sorted
<1>4. \A i \in DOMAIN s : s[i] \in S \X {d}
  BY <1>3
<1>5. s \in [1 .. Cardinality(S) -> Modules \X Nat]
  BY <1>3, <1>4
<1>6. s \in Seq(Modules \X Nat)
  BY <1>2, <1>5
<1>7. DOMAIN s = 1 .. Len(s) /\ Len(s) \in Nat
  BY <1>6
<1>8. \A m \in S : \E i \in DOMAIN s : s[i][1] = m
  BY DEF Sorted
<1> QED BY <1>4, <1>6, <1>7, <1>8

\* A step that takes the head and appends s keeps all else where it was.
LEMMA Requeued ==
  ASSUME TypeOK, queue # <<>>,
         NEW s \in Seq(Modules \X Nat), queue' = Tail(queue) \o s
  PROVE  /\ queue' \in Seq(Modules \X Nat)
         /\ Len(queue) > 0
         /\ DOMAIN queue' = 1 .. Len(queue) - 1 + Len(s)
         /\ \A i \in 1 .. Len(queue) - 1 : queue'[i] = queue[i + 1]
         /\ \A i \in 1 .. Len(s) : queue'[Len(queue) - 1 + i] = s[i]
<1>1. queue \in Seq(Modules \X Nat)
  BY DEF TypeOK
<1>2. Len(queue) \in Nat /\ Len(queue) > 0 /\ Len(s) \in Nat
  BY <1>1
<1>3. /\ Tail(queue) \in Seq(Modules \X Nat)
      /\ Len(Tail(queue)) = Len(queue) - 1
      /\ \A i \in 1 .. Len(queue) - 1 : Tail(queue)[i] = queue[i + 1]
  BY <1>1, <1>2
<1>4. /\ queue' \in Seq(Modules \X Nat)
      /\ Len(queue') = Len(queue) - 1 + Len(s)
  BY <1>2, <1>3
<1>5. \A i \in 1 .. Len(queue) - 1 : queue'[i] = Tail(queue)[i]
  BY <1>2, <1>3
<1>6. \A i \in 1 .. Len(s) : queue'[Len(queue) - 1 + i] = s[i]
  BY <1>2, <1>3
<1> QED BY <1>2, <1>3, <1>4, <1>5, <1>6

LEMMA Tailed ==
  ASSUME TypeOK, queue # <<>>, queue' = Tail(queue)
  PROVE  /\ queue' \in Seq(Modules \X Nat)
         /\ Len(queue) > 0
         /\ DOMAIN queue' = 1 .. Len(queue) - 1
         /\ \A i \in 1 .. Len(queue) - 1 : queue'[i] = queue[i + 1]
<1>1. queue \in Seq(Modules \X Nat)
  BY DEF TypeOK
<1> QED BY <1>1

\* The head of the queue, and why a module that is known is placed for good:
\* no queued depth is smaller than a placed one.
LEMMA HeadFacts ==
  ASSUME IInv, queue # <<>>
  PROVE  /\ 1 \in DOMAIN queue
         /\ Head(queue) = queue[1]
         /\ queue[1][1] \in Modules
         /\ queue[1][2] \in Nat
         /\ Known(queue[1][1], queue[1][2]) <=> queue[1][1] \in Placed
<1>1. queue \in Seq(Modules \X Nat)
  BY DEF IInv, TypeOK
<1>2. 1 \in DOMAIN queue /\ Head(queue) = queue[1]
  BY <1>1
<1>3. queue[1][1] \in Modules /\ queue[1][2] \in Nat
  BY <1>2, QueueType DEF IInv
<1>4. queue[1][1] \in Placed => depths[queue[1][1]] <= queue[1][2]
  BY <1>2 DEF IInv, PlacedFirst
<1> QED BY <1>2, <1>3, <1>4 DEF Known

LEMMA RootsType == Roots \subseteq Modules
  BY DEF Roots

LEMMA ParentsConstant == children' = children => Roots' = Roots /\ \A m : Parents(m)' = Parents(m)
  BY DEF Roots, Parents

\* What Place does when the invariant holds: the head is placed, its children
\* are queued one level deeper.
LEMMA PlaceFacts ==
  ASSUME IInv, Place
  PROVE  \E m \in Modules \ Placed, d \in Nat :
           \E s \in Sorted(children[m], d + 1) :
             /\ queue # <<>>
             /\ queue[1] = <<m, d>>
             /\ Placed' = Placed \cup {m}
             /\ depths' = [n \in Placed \cup {m} |-> IF n = m THEN d ELSE depths[n]]
             /\ queue' = Tail(queue) \o s
             /\ s \in Seq(Modules \X Nat)
             /\ children' = children
             /\ report' = report
<1> DEFINE m == queue[1][1]
           d == queue[1][2]
<1>1. /\ queue # <<>>
      /\ Head(queue) = queue[1]
      /\ m \in Modules \ Placed
      /\ d \in Nat
  BY HeadFacts DEF Place
<1>2. /\ depths' = [n \in Placed \cup {m} |-> IF n = m THEN d ELSE depths[n]]
      /\ \E s \in Sorted(children[m], d + 1) : queue' = Tail(queue) \o s
      /\ children' = children
      /\ report' = report
  BY <1>1 DEF Place, ChildDepth, Enqueued
<1>3. PICK s \in Sorted(children[m], d + 1) : queue' = Tail(queue) \o s
  BY <1>2
<1>4. children[m] \in SUBSET Modules
  BY <1>1 DEF IInv, TypeOK
<1>5. s \in Seq(Modules \X Nat)
  <2>1. d + 1 \in Nat
    BY <1>1
  <2> QED BY <1>3, <1>4, <2>1, SortedType
<1>6. Placed' = Placed \cup {m}
  BY <1>2 DEF Placed
<1>7. 1 \in DOMAIN queue
  BY <1>1, HeadFacts
<1>8. queue[1] = <<m, d>>
  BY <1>7, QueueType DEF IInv
<1> QED BY <1>1, <1>2, <1>3, <1>5, <1>6, <1>8

\* The pairs in the queue after a step that drops the head and appends s.
LEMMA EntriesAfter ==
  ASSUME IInv, queue # <<>>,
         NEW S \in SUBSET Modules, NEW d \in Nat, NEW s \in Sorted(S, d),
         queue' = Tail(queue) \o s
  PROVE  /\ \A i \in DOMAIN queue' :
              \/ i + 1 \in DOMAIN queue /\ queue'[i] = queue[i + 1]
              \/ /\ i + 1 > Len(queue)
                 /\ queue'[i][1] \in S
                 /\ queue'[i][2] = d
         /\ \A i \in DOMAIN queue : i # 1 => i - 1 \in DOMAIN queue' /\ queue'[i - 1] = queue[i]
         /\ \A c \in S : \E i \in DOMAIN queue' : queue'[i] = <<c, d>>
<1>1. /\ s \in Seq(Modules \X Nat)
      /\ DOMAIN s = 1 .. Len(s)
      /\ Len(s) \in Nat
      /\ \A i \in DOMAIN s : s[i][1] \in S /\ s[i][2] = d
      /\ \A m \in S : \E i \in DOMAIN s : s[i] = <<m, d>>
  BY SortedType
<1>2. /\ Len(queue) > 0
      /\ DOMAIN queue' = 1 .. Len(queue) - 1 + Len(s)
      /\ \A i \in 1 .. Len(queue) - 1 : queue'[i] = queue[i + 1]
      /\ \A i \in 1 .. Len(s) : queue'[Len(queue) - 1 + i] = s[i]
  BY <1>1, Requeued DEF IInv
<1>3. Len(queue) \in Nat /\ DOMAIN queue = 1 .. Len(queue)
  BY QueueType DEF IInv
<1>4. ASSUME NEW i \in DOMAIN queue'
      PROVE  \/ i + 1 \in DOMAIN queue /\ queue'[i] = queue[i + 1]
             \/ /\ i + 1 > Len(queue)
                /\ queue'[i][1] \in S
                /\ queue'[i][2] = d
  <2>1. CASE i \in 1 .. Len(queue) - 1
    BY <1>2, <1>3, <2>1
  <2>2. CASE i \notin 1 .. Len(queue) - 1
    <3> DEFINE k == i - (Len(queue) - 1)
    <3>1. k \in 1 .. Len(s) /\ i = Len(queue) - 1 + k
      BY <1>1, <1>2, <1>3, <2>2
    <3>2. queue'[i] = s[k]
      BY <1>2, <3>1
    <3>3. i + 1 > Len(queue)
      BY <1>3, <3>1
    <3> QED BY <1>1, <3>1, <3>2, <3>3
  <2> QED BY <2>1, <2>2
<1>5. \A i \in DOMAIN queue : i # 1 => i - 1 \in DOMAIN queue' /\ queue'[i - 1] = queue[i]
  BY <1>1, <1>2, <1>3
<1>6. ASSUME NEW c \in S PROVE \E i \in DOMAIN queue' : queue'[i] = <<c, d>>
  <2>1. PICK k \in DOMAIN s : s[k] = <<c, d>>
    BY <1>1
  <2>2. Len(queue) - 1 + k \in DOMAIN queue'
    BY <1>1, <1>2, <1>3
  <2> QED BY <1>1, <1>2, <2>1, <2>2
<1> QED BY <1>4, <1>5, <1>6

-----------------------------------------------------------------------------
(* The invariant *)

LEMMA InitInv == Init => IInv
<1> SUFFICES ASSUME Init PROVE IInv
  OBVIOUS
<1>1. /\ children \in [Modules -> SUBSET Modules]
      /\ depths = <<>>
      /\ Placed = {}
      /\ report = NoReport
  BY GraphsAssumption DEF Init, Placed
<1>2. /\ queue \in Seq(Modules \X Nat)
      /\ \A i \in DOMAIN queue : queue[i][1] \in Roots /\ queue[i][2] = 0
      /\ \A r \in Roots : \E i \in DOMAIN queue : queue[i] = <<r, 0>>
  <2>1. queue \in Sorted(Roots, 0) /\ Roots \in SUBSET Modules /\ 0 \in Nat
    BY RootsType DEF Init
  <2> QED BY <2>1, SortedType
<1>3. TypeOK
  BY <1>1, <1>2 DEF TypeOK
<1>4. QueueInOrder /\ PlacedFirst
  BY <1>1, <1>2 DEF QueueInOrder, PlacedFirst
<1>5. Justified
  BY <1>1, <1>2 DEF Justified, Reasons
<1>6. Pending
  BY <1>1, <1>2 DEF Pending, Awaited
<1>7. DetachedOut
  BY <1>1, <1>2 DEF DetachedOut, Detached, Roots
<1>8. ReportFinal
  BY <1>1 DEF ReportFinal, Reported
<1> QED BY <1>3, <1>4, <1>5, <1>6, <1>7, <1>8 DEF IInv

LEMMA SkipInv == IInv /\ Skip => IInv'
<1> SUFFICES ASSUME IInv, Skip PROVE IInv'
  OBVIOUS
<1>1. /\ queue # <<>>
      /\ queue' = Tail(queue)
      /\ children' = children /\ depths' = depths /\ report' = report
      /\ Placed' = Placed
  BY DEF Skip, Placed
<1>2. /\ queue' \in Seq(Modules \X Nat)
      /\ \A i \in DOMAIN queue' : i + 1 \in DOMAIN queue /\ queue'[i] = queue[i + 1]
      /\ \A i \in DOMAIN queue : i # 1 => i - 1 \in DOMAIN queue' /\ queue'[i - 1] = queue[i]
  <2>1. /\ queue' \in Seq(Modules \X Nat)
        /\ DOMAIN queue' = 1 .. Len(queue) - 1
        /\ \A i \in 1 .. Len(queue) - 1 : queue'[i] = queue[i + 1]
    BY <1>1, Tailed DEF IInv
  <2>2. Len(queue) \in Nat /\ DOMAIN queue = 1 .. Len(queue)
    BY QueueType DEF IInv
  <2> QED BY <2>1, <2>2
<1>3. queue[1][1] \in Placed
  BY <1>1, HeadFacts DEF Skip
<1>4. Roots' = Roots /\ \A m : Parents(m)' = Parents(m)
  BY <1>1, ParentsConstant
<1>5. TypeOK'
  BY <1>1, <1>2 DEF IInv, TypeOK, NoReport
<1>6. QueueInOrder'
  <2> SUFFICES ASSUME NEW i \in DOMAIN queue', NEW j \in DOMAIN queue', i < j
               PROVE  /\ queue'[i][2] <= queue'[j][2]
                      /\ queue'[j][2] <= queue'[i][2] + 1
    BY DEF QueueInOrder
  <2>1. i + 1 \in DOMAIN queue /\ j + 1 \in DOMAIN queue /\ i + 1 < j + 1
    BY <1>2, QueueType DEF IInv
  <2> QED BY <1>2, <2>1 DEF IInv, QueueInOrder
<1>7. PlacedFirst'
  BY <1>1, <1>2 DEF IInv, PlacedFirst
<1>8. Justified'
  BY <1>1, <1>2, <1>4 DEF IInv, Justified, Reasons
<1>9. Pending'
  <2> DEFINE StillAwaited(c, d) == \E i \in DOMAIN queue' : queue'[i] = <<c, d>>
  <2>1. ASSUME NEW c, c \notin Placed, NEW d, Awaited(c, d)
        PROVE  StillAwaited(c, d)
    <3>1. PICK i \in DOMAIN queue : queue[i] = <<c, d>>
      BY <2>1 DEF Awaited
    <3>2. i # 1
      BY <1>3, <2>1, <3>1
    <3> QED BY <1>2, <3>1, <3>2
  <2>2. \A r \in Roots : r \in Placed \/ StillAwaited(r, 0)
    BY <2>1 DEF IInv, Pending
  <2>3. \A m \in Placed : \A c \in children[m] :
          \/ c \in Placed /\ depths[c] <= depths[m] + 1
          \/ c \notin Placed /\ StillAwaited(c, depths[m] + 1)
    BY <2>1 DEF IInv, Pending
  <2> QED BY <1>1, <1>4, <2>2, <2>3 DEF Pending, Awaited
<1>10. DetachedOut'
  BY <1>1, <1>2, <1>4 DEF IInv, DetachedOut, Detached
<1>11. ReportFinal'
  BY <1>1 DEF IInv, ReportFinal, Reported, NoReport
<1> QED BY <1>5, <1>6, <1>7, <1>8, <1>9, <1>10, <1>11 DEF IInv

LEMMA PlaceInv == IInv /\ Place => IInv'
<1> SUFFICES ASSUME IInv, Place PROVE IInv'
  OBVIOUS
<1>1. PICK m \in Modules \ Placed, d \in Nat :
        \E s \in Sorted(children[m], d + 1) :
          /\ queue # <<>>
          /\ queue[1] = <<m, d>>
          /\ Placed' = Placed \cup {m}
          /\ depths' = [n \in Placed \cup {m} |-> IF n = m THEN d ELSE depths[n]]
          /\ queue' = Tail(queue) \o s
          /\ s \in Seq(Modules \X Nat)
          /\ children' = children
          /\ report' = report
  BY PlaceFacts
<1>2. PICK s \in Sorted(children[m], d + 1) :
          /\ queue # <<>>
          /\ queue[1] = <<m, d>>
          /\ Placed' = Placed \cup {m}
          /\ depths' = [n \in Placed \cup {m} |-> IF n = m THEN d ELSE depths[n]]
          /\ queue' = Tail(queue) \o s
          /\ s \in Seq(Modules \X Nat)
          /\ children' = children
          /\ report' = report
  BY <1>1
<1>3. children[m] \in SUBSET Modules /\ d + 1 \in Nat
  BY DEF IInv, TypeOK
<1>4. /\ \A i \in DOMAIN queue' :
            \/ i + 1 \in DOMAIN queue /\ queue'[i] = queue[i + 1]
            \/ /\ i + 1 > Len(queue)
               /\ queue'[i][1] \in children[m]
               /\ queue'[i][2] = d + 1
      /\ \A i \in DOMAIN queue : i # 1 => i - 1 \in DOMAIN queue' /\ queue'[i - 1] = queue[i]
      /\ \A c \in children[m] : \E i \in DOMAIN queue' : queue'[i] = <<c, d + 1>>
  BY <1>2, <1>3, EntriesAfter
<1>5. queue' \in Seq(Modules \X Nat)
  BY <1>2, Requeued DEF IInv
<1>6. Roots' = Roots /\ \A n : Parents(n)' = Parents(n)
  BY <1>2, ParentsConstant
<1>7. /\ \A n \in Placed : depths'[n] = depths[n] /\ depths[n] \in Nat /\ n # m
      /\ depths'[m] = d
  BY <1>2 DEF IInv, TypeOK
<1>8. /\ Len(queue) \in Nat
      /\ DOMAIN queue = 1 .. Len(queue)
      /\ 1 \in DOMAIN queue
      /\ queue[1][1] = m /\ queue[1][2] = d
      /\ \A i \in DOMAIN queue : queue[i][2] \in Nat
  BY <1>2, QueueType, HeadFacts DEF IInv
<1>9. \A i \in DOMAIN queue : d <= queue[i][2] /\ queue[i][2] <= d + 1
  BY <1>8 DEF IInv, QueueInOrder
<1>10. TypeOK'
  <2>1. depths' \in [Placed' -> Nat] /\ Placed' \subseteq Modules
    BY <1>2, <1>7 DEF IInv, TypeOK
  <2> QED BY <1>2, <1>5, <2>1 DEF IInv, TypeOK, NoReport
<1>11. QueueInOrder'
  <2> SUFFICES ASSUME NEW i \in DOMAIN queue', NEW j \in DOMAIN queue', i < j
               PROVE  /\ queue'[i][2] <= queue'[j][2]
                      /\ queue'[j][2] <= queue'[i][2] + 1
    BY DEF QueueInOrder
  <2>0. i \in Nat /\ j \in Nat
    BY <1>5
  <2>1. CASE i + 1 \in DOMAIN queue /\ j + 1 \in DOMAIN queue
    <3>1. queue'[i] = queue[i + 1] /\ queue'[j] = queue[j + 1] /\ i + 1 < j + 1
      BY <1>4, <1>8, <2>0, <2>1
    <3> QED BY <2>1, <3>1 DEF IInv, QueueInOrder
  <2>2. CASE i + 1 \in DOMAIN queue /\ j + 1 \notin DOMAIN queue
    <3>1. queue'[i] = queue[i + 1] /\ queue'[j][2] = d + 1
      BY <1>4, <1>8, <2>0, <2>2
    <3> QED BY <1>8, <1>9, <2>2, <3>1
  <2>3. CASE i + 1 \notin DOMAIN queue
    <3>1. j + 1 \notin DOMAIN queue
      BY <1>8, <2>0, <2>3
    <3>2. queue'[i][2] = d + 1 /\ queue'[j][2] = d + 1
      BY <1>4, <2>3, <3>1
    <3> QED BY <3>2
  <2> QED BY <2>1, <2>2, <2>3
<1>12. \A i \in DOMAIN queue' : queue'[i][2] = d \/ queue'[i][2] = d + 1
  BY <1>3, <1>4, <1>8, <1>9
<1>13. PlacedFirst'
  <2>1. \A n \in Placed : depths[n] <= d
    BY <1>8 DEF IInv, PlacedFirst
  <2>2. \A n \in Placed' : depths'[n] \in Nat /\ depths'[n] <= d
    BY <1>2, <1>7, <2>1
  <2> QED BY <1>12, <2>2 DEF PlacedFirst
<1>14. Justified'
  <2>2. \A n \in Placed : Reasons(n, depths[n])
    BY DEF IInv, Justified
  <2>3. \A i \in DOMAIN queue : Reasons(queue[i][1], queue[i][2])
    BY DEF IInv, Justified
  <2>4. Reasons(m, d)
    BY <1>8, <2>3
  <2>5. \A c \in children[m] : \E p \in Parents(c) \cap Placed' : d + 1 = depths'[p] + 1
    BY <1>2, <1>3, <1>7 DEF Parents
  <2> DEFINE Reason(n, e) == \/ n \in Roots /\ e = 0
                             \/ \E p \in Parents(n) \cap Placed' : e = depths'[p] + 1
  <2>6. \A n, e : Reasons(n, e) => Reason(n, e)
    BY <1>2, <1>7 DEF Reasons
  <2>7. \A n \in Placed' : Reason(n, depths'[n])
    <3>1. ASSUME NEW n \in Placed PROVE Reason(n, depths'[n])
      <4>1. depths'[n] = depths[n]
        BY <1>7
      <4>2. Reason(n, depths[n])
        BY <2>2, <2>6
      <4> QED BY <4>1, <4>2
    <3>2. Reason(m, depths'[m])
      <4>1. Reason(m, d)
        BY <2>4, <2>6
      <4> QED BY <1>7, <4>1
    <3> HIDE DEF Reason
    <3> QED BY <1>2, <3>1, <3>2
  <2>8. \A i \in DOMAIN queue' : Reason(queue'[i][1], queue'[i][2])
    BY <1>4, <2>3, <2>5, <2>6
  <2> QED BY <1>6, <2>7, <2>8 DEF Justified, Reasons
<1>15. Pending'
  <2> DEFINE StillAwaited(c, e) == \E i \in DOMAIN queue' : queue'[i] = <<c, e>>
  <2>1. ASSUME NEW c, c # m, NEW e, Awaited(c, e)
        PROVE  StillAwaited(c, e)
    <3>1. PICK i \in DOMAIN queue : queue[i] = <<c, e>>
      BY <2>1 DEF Awaited
    <3>2. i # 1
      BY <1>8, <2>1, <3>1
    <3> QED BY <1>4, <3>1, <3>2
  <2>2. \A r \in Roots : r \in Placed' \/ StillAwaited(r, 0)
    BY <1>2, <2>1 DEF IInv, Pending
  <2>3. ASSUME NEW n \in Placed, NEW c \in children[n]
        PROVE  \/ c \in Placed' /\ depths'[c] <= depths'[n] + 1
               \/ c \notin Placed' /\ StillAwaited(c, depths'[n] + 1)
    <3>1. \/ c \in Placed /\ depths[c] <= depths[n] + 1
          \/ c \notin Placed /\ Awaited(c, depths[n] + 1)
      BY <2>3 DEF IInv, Pending
    <3>2. CASE c \in Placed
      BY <1>2, <1>7, <3>1, <3>2
    <3>3. CASE c \notin Placed /\ c # m
      BY <1>2, <1>7, <2>1, <3>1, <3>3
    <3>4. CASE c = m
      <4>1. PICK i \in DOMAIN queue : queue[i] = <<m, depths[n] + 1>>
        BY <3>1, <3>4 DEF Awaited
      <4>2. d <= depths[n] + 1
        BY <1>9, <4>1
      <4> QED BY <1>2, <1>7, <3>4, <4>2
    <3> QED BY <3>2, <3>3, <3>4
  <2>4. ASSUME NEW c \in children[m]
        PROVE  \/ c \in Placed' /\ depths'[c] <= depths'[m] + 1
               \/ c \notin Placed' /\ StillAwaited(c, depths'[m] + 1)
    <3>1. CASE c \in Placed
      <4>1. depths[c] <= d
        BY <1>8, <3>1 DEF IInv, PlacedFirst
      <4> QED BY <1>2, <1>7, <3>1, <4>1
    <3>2. CASE c = m
      BY <1>2, <1>7, <3>2
    <3>3. CASE c \notin Placed /\ c # m
      BY <1>2, <1>4, <1>7, <3>3
    <3> QED BY <3>1, <3>2, <3>3
  <2> QED BY <1>2, <1>6, <2>2, <2>3, <2>4 DEF Pending, Awaited
<1>16. DetachedOut'
  <2> SUFFICES ASSUME NEW S \in SUBSET Modules, Detached(S)
               PROVE  S \cap Placed' = {} /\ \A i \in DOMAIN queue' : queue'[i][1] \notin S
    BY <1>6 DEF DetachedOut, Detached
  <2>1. S \cap Placed = {} /\ \A i \in DOMAIN queue : queue[i][1] \notin S
    BY DEF IInv, DetachedOut
  <2>2. m \notin S
    BY <1>8, <2>1
  <2>3. \A c \in children[m] : c \notin S
    BY <2>2, <1>3 DEF Detached, Parents
  <2> QED BY <1>2, <1>4, <2>1, <2>2, <2>3
<1>17. ReportFinal'
  <2>1. ~Reported
    BY <1>2 DEF IInv, ReportFinal
  <2> QED BY <1>2, <2>1 DEF ReportFinal, Reported, NoReport
<1> QED BY <1>10, <1>11, <1>13, <1>14, <1>15, <1>16, <1>17 DEF IInv

LEMMA ReportInv == IInv /\ Report => IInv'
<1> SUFFICES ASSUME IInv, Report PROVE IInv'
  OBVIOUS
<1>1. /\ queue = <<>>
      /\ queue' = queue /\ depths' = depths /\ children' = children
      /\ Placed' = Placed
      /\ report'.unplaced = Modules \ Placed
      /\ report'.levels = Levels
      /\ report'.state \in {"depths-detected", "no-depths-detected"}
  BY DEF Report, LoopEnds, Placed
<1>2. Roots' = Roots /\ \A n : Parents(n)' = Parents(n)
  BY <1>1, ParentsConstant
<1>3. TypeOK'
  <2>1. Levels \in SUBSET (Nat \X SUBSET Modules)
    BY DEF IInv, TypeOK, Levels
  <2>2. report' \in [state : {"depths-detected", "no-depths-detected"},
                     levels : SUBSET (Nat \X SUBSET Modules),
                     unplaced : SUBSET Modules]
    BY <2>1 DEF Report
  <2> QED BY <1>1, <2>2 DEF IInv, TypeOK
<1>4. QueueInOrder' /\ PlacedFirst'
  BY <1>1 DEF QueueInOrder, PlacedFirst
<1>5. Justified'
  BY <1>1, <1>2 DEF IInv, Justified, Reasons
<1>6. Pending'
  BY <1>1, <1>2 DEF IInv, Pending, Awaited
<1>7. DetachedOut'
  BY <1>1, <1>2 DEF IInv, DetachedOut, Detached
<1>8. ReportFinal'
  BY <1>1 DEF ReportFinal, Levels
<1> QED BY <1>3, <1>4, <1>5, <1>6, <1>7, <1>8 DEF IInv

LEMMA StutterInv == IInv /\ UNCHANGED vars => IInv'
<1> SUFFICES ASSUME IInv, UNCHANGED vars PROVE IInv'
  OBVIOUS
<1>1. /\ queue' = queue /\ depths' = depths /\ children' = children /\ report' = report
      /\ Placed' = Placed
  BY DEF vars, Placed
<1>2. Roots' = Roots /\ \A n : Parents(n)' = Parents(n)
  BY <1>1, ParentsConstant
<1>3. TypeOK' /\ QueueInOrder' /\ PlacedFirst'
  BY <1>1 DEF IInv, TypeOK, QueueInOrder, PlacedFirst, NoReport
<1>4. Justified' /\ Pending'
  BY <1>1, <1>2 DEF IInv, Justified, Reasons, Pending, Awaited
<1>5. DetachedOut'
  BY <1>1, <1>2 DEF IInv, DetachedOut, Detached
<1>6. Levels' = Levels
  BY <1>1 DEF Levels
<1>7. ReportFinal'
  BY <1>1, <1>6 DEF IInv, ReportFinal, Reported, NoReport
<1> QED BY <1>3, <1>4, <1>5, <1>7 DEF IInv

\* The invariant the theorems below follow from.
THEOREM Invariance == Spec => []IInv
<1>1. IInv /\ [Next]_vars => IInv'
  BY SkipInv, PlaceInv, ReportInv, StutterInv DEF Next
<1> QED BY InitInv, <1>1, PTL DEF Spec

-----------------------------------------------------------------------------
(* The properties *)

\* The queue, the depths and the report are always of the stated types.
THEOREM TypeCorrect == Spec => []TypeOK
<1>1. IInv => TypeOK
  BY DEF IInv
<1> QED BY <1>1, Invariance, PTL

\* A depth that was assigned is never assigned again: in the walk of
\* _module_depth_rows the test for a smaller depth is a test for any depth.
THEOREM DepthsNeverRevised == Spec => NeverRevised
<1>1. IInv /\ [Next]_vars => [\A m \in Placed : m \in Placed' /\ depths'[m] = depths[m]]_vars
  <2> SUFFICES ASSUME IInv, [Next]_vars
               PROVE  \A m \in Placed : m \in Placed' /\ depths'[m] = depths[m]
    OBVIOUS
  <2>1. CASE Place
    <3>1. PICK m \in Modules \ Placed, d \in Nat :
            /\ Placed' = Placed \cup {m}
            /\ depths' = [n \in Placed \cup {m} |-> IF n = m THEN d ELSE depths[n]]
      BY <2>1, PlaceFacts
    <3> QED BY <3>1
  <2>2. CASE Skip \/ Report \/ UNCHANGED vars
    BY <2>2 DEF Skip, Report, vars, Placed
  <2> QED BY <2>1, <2>2 DEF Next
<1> QED BY <1>1, Invariance, PTL DEF Spec, NeverRevised

LEMMA DepthsLocalNow == IInv => DepthsLocal
<1> SUFFICES ASSUME IInv, Reported, NEW m \in Placed
             PROVE  /\ depths[m] = 0 <=> m \in Roots
                    /\ depths[m] > 0 => \E p \in Parents(m) \cap Placed : depths[m] = depths[p] + 1
                    /\ \A c \in children[m] : c \in Placed /\ depths[c] <= depths[m] + 1
  BY DEF DepthsLocal
<1>1. queue = <<>>
  BY DEF IInv, ReportFinal
<1>2. Reasons(m, depths[m])
  BY DEF IInv, Justified
<1>3. \A n \in Placed : depths[n] \in Nat
  BY DEF IInv, TypeOK
<1>4. m \in Roots => Parents(m) = {}
  BY DEF Roots
<1>5. \A c \in children[m] : c \in Placed /\ depths[c] <= depths[m] + 1
  BY <1>1 DEF IInv, Pending, Awaited
<1> QED BY <1>2, <1>3, <1>4, <1>5 DEF Reasons

\* When the report is made, the depths are those of a shortest way from the
\* roots: each edge is respected, and each depth is reached by an edge.
THEOREM DepthsAreLocal == Spec => []DepthsLocal
  BY DepthsLocalNow, Invariance, PTL

-----------------------------------------------------------------------------
(* Depths are distances *)

\* A set of natural numbers has a smallest one.
LEMMA SmallestNat ==
  ASSUME NEW S, S \subseteq Nat, S # {}
  PROVE  \E n \in S : \A m \in S : n <= m
<1> DEFINE R == OpToRel(<, Nat)
<1>1. IsWellFoundedOn(R, Nat)
  BY NatLessThanWellFounded
<1>2. \A i, j \in Nat : <<i, j>> \in R <=> i < j
  BY DEF OpToRel
<1> HIDE DEF R
<1>3. PICK n \in S : \A m \in S : ~(<<m, n>> \in R)
  BY <1>1, WFMin, Zenon
<1>4. ASSUME NEW m \in S
      PROVE  n <= m
  <2>1. m \in Nat /\ n \in Nat
    OBVIOUS
  <2>2. ~(m < n)
    BY <1>2, <1>3, <2>1
  <2> QED BY <2>1, <2>2
<1> QED BY <1>4

\* One more step down.
Further(S) == S \cup UNION {children[p] : p \in S}

\* The modules placed at depth n or above are those at most n instantiations below a
\* root, as the equations of Within say of its values.
Above(n) == {m \in Placed : depths[m] <= n}

LEMMA AboveStep ==
  ASSUME IInv, Reported
  PROVE  /\ Above(0) = Roots
         /\ \A n \in Nat : Above(n + 1) = Further(Above(n))
<1>1. DepthsLocal
  BY DepthsLocalNow
<1>2. \A m \in Placed : depths[m] \in Nat /\ m \in Modules
  BY DEF IInv, TypeOK
<1>3. Roots \subseteq Placed
  BY DEF IInv, ReportFinal, Pending, Awaited
<1>4. Above(0) = Roots
  BY <1>1, <1>2, <1>3 DEF DepthsLocal, Above
<1>5. ASSUME NEW n \in Nat
      PROVE  Above(n + 1) = Further(Above(n))
  <2>1. ASSUME NEW m \in Above(n + 1), m \notin Above(n)
        PROVE  m \in Further(Above(n))
    <3>1. m \in Placed /\ depths[m] = n + 1
      BY <1>2, <2>1 DEF Above
    <3>2. PICK p \in Parents(m) \cap Placed : depths[m] = depths[p] + 1
      BY <1>1, <3>1 DEF DepthsLocal
    <3>3. p \in Above(n) /\ m \in children[p]
      BY <1>2, <3>1, <3>2 DEF Above, Parents
    <3> QED BY <3>3 DEF Further
  <2>2. Above(n) \subseteq Above(n + 1)
    BY <1>2 DEF Above
  <2>3. ASSUME NEW p \in Above(n), NEW c \in children[p]
        PROVE  c \in Above(n + 1)
    BY <1>1, <1>2, <2>3 DEF DepthsLocal, Above
  <2> QED BY <2>1, <2>2, <2>3 DEF Further
<1> QED BY <1>4, <1>5

\* The equations of Within have a solution, so that it is one.
LEMMA WithinStep ==
  ASSUME IInv, Reported
  PROVE  /\ Within[0] = Roots
         /\ \A n \in Nat : Within[n + 1] = Further(Within[n])
<1> DEFINE Solves(f) ==
             f = [n \in Nat |-> IF n = 0 THEN Roots
                                ELSE f[n - 1] \cup UNION {children[p] : p \in f[n - 1]}]
           above == [n \in Nat |-> Above(n)]
<1>1. Solves(above)
  <2>1. ASSUME NEW n \in Nat
        PROVE  above[n] = IF n = 0 THEN Roots
                          ELSE above[n - 1] \cup UNION {children[p] : p \in above[n - 1]}
    <3>1. CASE n = 0
      BY <3>1, AboveStep
    <3>2. CASE n # 0
      <4>1. n - 1 \in Nat /\ n = (n - 1) + 1
        BY <3>2
      <4>2. Above(n) = Further(Above(n - 1))
        BY <4>1, AboveStep
      <4> QED BY <3>2, <4>1, <4>2 DEF Further
    <3> QED BY <3>1, <3>2
  <2> QED BY <2>1
<1>2. Within = CHOOSE f : Solves(f)
  BY DEF Within
<1> HIDE DEF Solves, above
<1>3. Solves(Within)
  BY <1>1, <1>2
<1>4. \A n \in Nat : Within[n] = IF n = 0 THEN Roots
                     ELSE Within[n - 1] \cup UNION {children[p] : p \in Within[n - 1]}
  BY <1>3 DEF Solves
<1>5. ASSUME NEW n \in Nat
      PROVE  Within[n + 1] = Further(Within[n])
  <2>1. n + 1 \in Nat /\ n + 1 # 0 /\ (n + 1) - 1 = n
    OBVIOUS
  <2> QED BY <1>4, <2>1 DEF Further
<1> QED BY <1>4, <1>5

\* There is no least number at which the two differ.
LEMMA WithinIsAbove ==
  ASSUME IInv, Reported
  PROVE  \A n \in Nat : Within[n] = Above(n)
<1> DEFINE Wrong == {n \in Nat : Within[n] # Above(n)}
<1> SUFFICES ASSUME Wrong # {} PROVE FALSE
  OBVIOUS
<1>1. PICK n \in Wrong : \A m \in Wrong : n <= m
  BY SmallestNat
<1>2. n # 0
  BY AboveStep, WithinStep
<1>3. n - 1 \in Nat /\ n = (n - 1) + 1
  BY <1>2
<1>4. Within[n - 1] = Above(n - 1)
  BY <1>1, <1>3
<1> QED BY <1>3, <1>4, AboveStep, WithinStep

\* Up to the greatest depth there is none that no module has.
LEMMA DepthsInterval ==
  ASSUME IInv, Reported
  PROVE  \E k \in Nat : {depths[m] : m \in Placed} = 0 .. k - 1
<1> DEFINE D == {depths[m] : m \in Placed}
<1>1. \A m \in Placed : depths[m] \in Nat /\ m \in Modules
  BY DEF IInv, TypeOK
<1>2. IsFiniteSet(D)
  <2>1. IsFiniteSet(Placed)
    BY <1>1, FS_Subset, ModulesAssumption
  <2>2. [m \in Placed |-> depths[m]] \in Surjection(Placed, D)
    BY DEF Surjection
  <2> QED BY <2>1, <2>2, FS_Surjection
<1>3. ~(Nat \subseteq D)
  <2> SUFFICES ASSUME Nat \subseteq D PROVE FALSE
    OBVIOUS
  <2>1. Cardinality(D) \in Nat
    BY <1>2, FS_CardinalityType
  <2>2. 0 .. Cardinality(D) \in SUBSET D
    BY <2>1
  <2>3. Cardinality(0 .. Cardinality(D)) <= Cardinality(D)
    BY <1>2, <2>2, FS_Subset
  <2>4. Cardinality(0 .. Cardinality(D)) = Cardinality(D) + 1
    BY <2>1, FS_Interval
  <2> QED BY <2>1, <2>3, <2>4
<1>4. PICK k \in Nat \ D : \A j \in Nat \ D : k <= j
  <2>1. Nat \ D \subseteq Nat /\ Nat \ D # {}
    BY <1>3
  <2> QED BY <2>1, SmallestNat
<1>5. 0 .. k - 1 \subseteq D
  BY <1>4
<1>6. ASSUME NEW d \in D, d > 0
      PROVE  d - 1 \in D
  <2>1. PICK m \in Placed : d = depths[m]
    OBVIOUS
  <2>2. PICK p \in Parents(m) \cap Placed : depths[m] = depths[p] + 1
    BY <1>6, <2>1, DepthsLocalNow DEF DepthsLocal
  <2> QED BY <1>1, <2>1, <2>2
<1> DEFINE Deeper == {d \in D : d > k}
<1>7. ASSUME Deeper # {}
      PROVE  FALSE
  <2>1. Deeper \subseteq Nat
    BY <1>1
  <2>2. PICK d \in Deeper : \A e \in Deeper : d <= e
    BY <1>7, <2>1, SmallestNat
  <2>3. d \in Nat /\ d > k /\ d - 1 \in D
    BY <1>6, <2>1, <2>2
  <2>4. d - 1 # k
    BY <1>4, <2>3
  <2>5. d - 1 \in Deeper
    BY <2>3, <2>4
  <2> QED BY <2>2, <2>3, <2>5
<1>8. D \subseteq 0 .. k - 1
  <2>1. ASSUME NEW d \in D
        PROVE  d \in 0 .. k - 1
    <3>1. d \in Nat /\ d # k /\ ~(d > k)
      BY <1>1, <1>4, <1>7
    <3> QED BY <3>1
  <2> QED BY <2>1
<1> QED BY <1>5, <1>8

\* The levels of the report are the modules at each distance from the roots, and there
\* is a level for every distance up to the last: depth_levels of the depth report.
THEOREM DepthsAreDistances == Spec => []LevelsAreDistances
<1>1. ASSUME IInv
      PROVE  LevelsAreDistances
  <2> SUFFICES ASSUME Reported
               PROVE  /\ \A level \in report.levels :
                           level[2] = Within[level[1]]
                                        \ (IF level[1] = 0 THEN {} ELSE Within[level[1] - 1])
                      /\ {level[1] : level \in report.levels}
                           = 0 .. Cardinality(report.levels) - 1
    BY DEF LevelsAreDistances
  <2>1. report.levels = Levels
    BY <1>1 DEF IInv, ReportFinal
  <2>2. \A m \in Placed : depths[m] \in Nat
    BY <1>1 DEF IInv, TypeOK
  <2>3. ASSUME NEW m \in Placed
        PROVE  {n \in Placed : depths[n] = depths[m]}
                 = Within[depths[m]] \ (IF depths[m] = 0 THEN {} ELSE Within[depths[m] - 1])
    <3>1. Within[depths[m]] = Above(depths[m])
      BY <1>1, <2>2, WithinIsAbove
    <3>2. CASE depths[m] = 0
      BY <2>2, <3>1, <3>2 DEF Above
    <3>3. CASE depths[m] # 0
      <4>1. depths[m] - 1 \in Nat
        BY <2>2, <3>3
      <4>2. Within[depths[m] - 1] = Above(depths[m] - 1)
        BY <1>1, <4>1, WithinIsAbove
      <4> QED BY <2>2, <3>1, <3>3, <4>2 DEF Above
    <3> QED BY <3>2, <3>3
  <2>4. \A level \in Levels :
          level[2] = Within[level[1]] \ (IF level[1] = 0 THEN {} ELSE Within[level[1] - 1])
    BY <2>3 DEF Levels
  <2>5. PICK k \in Nat : {depths[m] : m \in Placed} = 0 .. k - 1
    BY <1>1, DepthsInterval
  <2>6. {level[1] : level \in Levels} = 0 .. k - 1
    <3>1. \A level \in Levels : \E m \in Placed : level[1] = depths[m]
      BY DEF Levels
    <3>2. ASSUME NEW m \in Placed
          PROVE  \E level \in Levels : level[1] = depths[m]
      <4> DEFINE level == <<depths[m], {n \in Placed : depths[n] = depths[m]}>>
      <4>1. level \in Levels
        BY DEF Levels
      <4>2. level[1] = depths[m]
        OBVIOUS
      <4> HIDE DEF level
      <4> QED BY <4>1, <4>2
    <3>3. {level[1] : level \in Levels} = {depths[m] : m \in Placed}
      BY <3>1, <3>2
    <3> QED BY <2>5, <3>3
  <2>7. Cardinality(Levels) = k
    <3> DEFINE f == [d \in 0 .. k - 1 |-> <<d, {n \in Placed : depths[n] = d}>>]
    <3>1. f \in [0 .. k - 1 -> Levels]
      BY <2>5 DEF Levels
    <3>2. f \in Injection(0 .. k - 1, Levels)
      BY <3>1 DEF Injection, IsInjective
    <3>3. \A level \in Levels : \E d \in 0 .. k - 1 : f[d] = level
      BY <2>5 DEF Levels
    <3>4. f \in Bijection(0 .. k - 1, Levels)
      BY <3>1, <3>2, <3>3 DEF Bijection, Surjection
    <3>5. IsFiniteSet(0 .. k - 1) /\ Cardinality(0 .. k - 1) = k
      BY FS_Interval
    <3> QED BY <3>4, <3>5, FS_Bijection DEF ExistsBijection
  <2> QED BY <2>1, <2>4, <2>6, <2>7
<1> QED BY <1>1, Invariance, PTL

-----------------------------------------------------------------------------
(* What is left out, and the abstract specification *)

\* The unplaced modules of the report are the largest set in which every
\* module is instantiated, and only by members.
THEOREM UnplacedAreDetached == Spec => []UnplacedIsLargest
<1>1. IInv => UnplacedIsLargest
  <2> SUFFICES ASSUME IInv, Reported
               PROVE  /\ Detached(report.unplaced)
                      /\ \A S \in SUBSET Modules : Detached(S) => S \subseteq report.unplaced
    BY DEF UnplacedIsLargest
  <2>1. queue = <<>> /\ report.unplaced = Modules \ Placed
    BY DEF IInv, ReportFinal
  <2>2. ASSUME NEW m \in Modules \ Placed
        PROVE  Parents(m) # {} /\ Parents(m) \subseteq Modules \ Placed
    <3>1. m \notin Roots
      BY <2>1, <2>2 DEF IInv, Pending, Awaited
    <3>2. \A p \in Parents(m) : p \notin Placed
      BY <2>1, <2>2 DEF IInv, Pending, Awaited, Parents
    <3> QED BY <3>1, <3>2 DEF Roots, Parents
  <2>3. \A S \in SUBSET Modules : Detached(S) => S \subseteq Modules \ Placed
    BY DEF IInv, DetachedOut
  <2> QED BY <2>1, <2>2, <2>3 DEF Detached
<1> QED BY <1>1, Invariance, PTL

\* The queue walk implements NearestFirst: every module is placed when it is
\* nearest to the roots among those not placed, and the report comes when
\* none could be placed any more.
THEOREM WalkPlacesNearest ==
  Spec => Abstract!Init /\ [][Abstract!Next]_(Abstract!vars)
<1>1. Init => Abstract!Init
  BY GraphsAssumption DEF Init, Abstract!Init, Reported
<1>2. IInv /\ [Next]_vars => [Abstract!Next]_(Abstract!vars)
  <2> SUFFICES ASSUME IInv, [Next]_vars
               PROVE  [Abstract!Next]_(Abstract!vars)
    OBVIOUS
  <2>1. Abstract!Placed = Placed /\ Abstract!Roots = Roots
    BY DEF Abstract!Placed, Placed, Abstract!Roots, Roots, Parents
  <2>2. \A n \in Modules : \A e : e \in Abstract!Offers(n) <=> Reasons(n, e)
    <3> SUFFICES ASSUME NEW n \in Modules, NEW e
                 PROVE  e \in Abstract!Offers(n) <=> Reasons(n, e)
      OBVIOUS
    <3>1. Placed \subseteq Modules
      BY DEF IInv, TypeOK
    <3>2. e \in {depths[p] + 1 : p \in {q \in Placed : n \in children[q]}}
          <=> \E p \in Parents(n) \cap Placed : e = depths[p] + 1
      BY <3>1 DEF Parents
    <3> QED BY <2>1, <3>2 DEF Abstract!Offers, Reasons
  <2>3. \A n \in Modules \ Placed : \A e : Reasons(n, e) => Awaited(n, e)
    BY DEF IInv, Pending, Reasons, Parents
  <2>4. CASE Place
    <3>1. PICK m \in Modules \ Placed, d \in Nat :
            /\ queue # <<>>
            /\ queue[1] = <<m, d>>
            /\ Placed' = Placed \cup {m}
            /\ depths' = [n \in Placed \cup {m} |-> IF n = m THEN d ELSE depths[n]]
            /\ children' = children
            /\ report' = report
      BY <2>4, PlaceFacts
    <3>2. 1 \in DOMAIN queue /\ DOMAIN queue = 1 .. Len(queue) /\ Len(queue) \in Nat
      BY <3>1, HeadFacts, QueueType DEF IInv
    <3>3. \A i \in DOMAIN queue : d <= queue[i][2]
      BY <3>1, <3>2 DEF IInv, QueueInOrder
    <3>4. \A n \in Modules \ Placed : \A e \in Abstract!Offers(n) : d <= e
      BY <2>2, <2>3, <3>3 DEF Awaited
    <3>5. Reasons(m, d)
      BY <3>1, <3>2 DEF IInv, Justified
    <3>6. d \in Abstract!Offers(m)
      BY <2>2, <3>5
    <3>7. Abstract!Place(m, d)
      BY <2>1, <3>1, <3>4, <3>6 DEF Abstract!Place, Reported, NoReport
    <3> QED BY <3>6, <3>7 DEF Abstract!Next
  <2>5. CASE Report
    <3>1. queue = <<>> /\ report'.state # "none" /\ children' = children /\ depths' = depths
      BY <2>5 DEF Report, LoopEnds
    <3>2. \A m \in Modules \ Placed : \A e : ~Reasons(m, e)
      BY <2>3, <3>1 DEF Awaited
    <3>3. \A m \in Modules \ Placed : Abstract!Offers(m) = {}
      BY <2>2, <3>2
    <3>4. Reported' = TRUE
      BY <3>1 DEF Reported, NoReport
    <3> QED BY <2>1, <3>1, <3>3, <3>4 DEF Abstract!Finish, Abstract!Next
  <2>6. CASE Skip \/ UNCHANGED vars
    BY <2>6 DEF Skip, vars, Abstract!vars, Reported, NoReport
  <2> QED BY <2>4, <2>5, <2>6 DEF Next
<1> QED BY <1>1, <1>2, Invariance, PTL DEF Spec

-----------------------------------------------------------------------------
(* ReachableNames                                                          *)
-----------------------------------------------------------------------------
\* Modules that were entered, and those of them whose visit is over.
Entered  == reachable \cup {start}
Finished == Entered \ OnStack

\* The stack is a path from the start without repetition.
Path ==
  /\ ~Done => stack[1].module = start
  /\ \A i, j \in DOMAIN stack : stack[i].module = stack[j].module => i = j
  /\ \A i \in DOMAIN stack :
       i + 1 \in DOMAIN stack => stack[i + 1].module \in adjacency[stack[i].module]
  /\ \A i, j \in DOMAIN stack : i < j => stack[j].module \in Descendants(stack[i].module)

\* What was entered is led to by the start, and nothing of it is overlooked:
\* children are entered, or still to come in a call under way.
Bounds ==
  /\ start \notin reachable
  /\ OnStack \subseteq Entered
  /\ reachable \subseteq Descendants(start)
  /\ \A i \in DOMAIN stack : /\ stack[i].todo \subseteq adjacency[stack[i].module]
                             /\ adjacency[stack[i].module] \ stack[i].todo \subseteq Entered
  /\ \A m \in Finished : adjacency[m] \subseteq Entered

\* Each marker belongs to an endless set of entered modules.
MarkersEndless == \A k \in markers : \E S \in SUBSET Entered : k \in S /\ Endless(S)

\* As long as nothing is marked, edges lead from what is finished to what was
\* finished before.
NoneMissed ==
  markers = {} =>
    /\ \A m \in Finished : adjacency[m] \subseteq Finished
    /\ \A i \in DOMAIN stack :
         \A c \in adjacency[stack[i].module] \ stack[i].todo :
           c \in Finished \/ (i + 1 \in DOMAIN stack /\ stack[i + 1].module = c)
    /\ \A S \in SUBSET Finished : Endless(S) => S = {}

WalkInv ==
  /\ WalkTypeOK
  /\ Path
  /\ Bounds
  /\ MarkersOnCycles
  /\ MarkersEndless
  /\ NoneMissed

-----------------------------------------------------------------------------
(* Lemmas *)

LEMMA StackType ==
  ASSUME WalkTypeOK
  PROVE  /\ Len(stack) \in Nat
         /\ DOMAIN stack = 1 .. Len(stack)
         /\ \A i \in DOMAIN stack : /\ stack[i].module \in Modules
                                    /\ stack[i].todo \in SUBSET Modules
         /\ ~Done => Len(stack) \in DOMAIN stack /\ 1 \in DOMAIN stack
<1>1. stack \in Seq(Frame)
  BY DEF WalkTypeOK
<1>2. Len(stack) \in Nat /\ DOMAIN stack = 1 .. Len(stack)
  BY <1>1
<1>3. \A i \in DOMAIN stack : stack[i] \in Frame
  BY <1>1
<1>4. ~Done => Len(stack) # 0
  BY <1>1 DEF Done
<1> QED BY <1>2, <1>3, <1>4 DEF Frame

\* A descendant of a module is in every closed set that holds its children.
LEMMA DescendantsClosed ==
  ASSUME WalkTypeOK, NEW m \in Modules
  PROVE  /\ adjacency[m] \subseteq Descendants(m)
         /\ Closed(Descendants(m))
         /\ Descendants(m) \in SUBSET Modules
<1>1. adjacency[m] \subseteq Modules
  BY DEF WalkTypeOK
<1>2. \A n \in Modules : adjacency[n] \subseteq Modules
  BY DEF WalkTypeOK
<1> QED BY <1>1, <1>2 DEF Descendants, Closed

\* The stack after a child was dealt with.
LEMMA Advanced ==
  ASSUME WalkTypeOK, ~Done, NEW c, Advance(c)
  PROVE  /\ stack' \in Seq(Frame)
         /\ DOMAIN stack' = DOMAIN stack
         /\ Len(stack') = Len(stack)
         /\ \A i \in DOMAIN stack :
              /\ stack'[i].module = stack[i].module
              /\ stack'[i].todo = IF i = Len(stack) THEN stack[i].todo \ {c} ELSE stack[i].todo
<1>1. stack \in Seq(Frame) /\ Len(stack) \in DOMAIN stack
  BY StackType DEF WalkTypeOK
<1>2. stack[Len(stack)] \in Frame
  BY <1>1
<1>3. stack' = [stack EXCEPT ![Len(stack)].todo = @ \ {c}]
  BY DEF Advance
<1>4. [stack[Len(stack)] EXCEPT !.todo = @ \ {c}] \in Frame
  BY <1>2 DEF Frame
<1>5. stack' = [stack EXCEPT ![Len(stack)] = [stack[Len(stack)] EXCEPT !.todo = @ \ {c}]]
  BY <1>1, <1>3
<1>6. stack' \in Seq(Frame) /\ DOMAIN stack' = DOMAIN stack /\ Len(stack') = Len(stack)
  BY <1>1, <1>4, <1>5
<1>7. \A i \in DOMAIN stack : stack[i] \in Frame
  BY <1>1
<1>8. \A i \in DOMAIN stack :
        stack'[i] = IF i = Len(stack) THEN [stack[i] EXCEPT !.todo = @ \ {c}] ELSE stack[i]
  BY <1>1, <1>5
<1>9. ASSUME NEW i \in DOMAIN stack
      PROVE  /\ stack'[i].module = stack[i].module
             /\ stack'[i].todo = IF i = Len(stack) THEN stack[i].todo \ {c} ELSE stack[i].todo
  BY <1>7, <1>8 DEF Frame
<1> QED BY <1>6, <1>9

LEMMA Appended ==
  ASSUME NEW s \in Seq(Frame), NEW f \in Frame
  PROVE  /\ Append(s, f) \in Seq(Frame)
         /\ Len(Append(s, f)) = Len(s) + 1
         /\ \A i \in DOMAIN s : Append(s, f)[i] = s[i]
         /\ Append(s, f)[Len(s) + 1] = f
  OBVIOUS

\* The stack after a call of visit().
LEMMA Called ==
  ASSUME WalkTypeOK, ~Done, NEW c \in Modules,
         stack' = Append([stack EXCEPT ![Len(stack)].todo = @ \ {c}],
                         [module |-> c, todo |-> adjacency[c]])
  PROVE  /\ stack' \in Seq(Frame)
         /\ DOMAIN stack' = DOMAIN stack \cup {Len(stack) + 1}
         /\ \A i \in DOMAIN stack :
              /\ stack'[i].module = stack[i].module
              /\ stack'[i].todo = IF i = Len(stack) THEN stack[i].todo \ {c} ELSE stack[i].todo
         /\ stack'[Len(stack) + 1].module = c
         /\ stack'[Len(stack) + 1].todo = adjacency[c]
<1> DEFINE s == [stack EXCEPT ![Len(stack)].todo = @ \ {c}]
           f == [module |-> c, todo |-> adjacency[c]]
<1>1. stack \in Seq(Frame) /\ Len(stack) \in DOMAIN stack /\ Len(stack) \in Nat
  BY StackType DEF WalkTypeOK
<1>2. \A i \in DOMAIN stack : stack[i] \in Frame
  BY <1>1
<1>3. [stack[Len(stack)] EXCEPT !.todo = @ \ {c}] \in Frame
  BY <1>1, <1>2 DEF Frame
<1>4. s = [stack EXCEPT ![Len(stack)] = [stack[Len(stack)] EXCEPT !.todo = @ \ {c}]]
  BY <1>1
<1>5. s \in Seq(Frame) /\ DOMAIN s = DOMAIN stack /\ Len(s) = Len(stack)
  BY <1>1, <1>3, <1>4
<1>6. \A i \in DOMAIN stack :
        s[i] = IF i = Len(stack) THEN [stack[i] EXCEPT !.todo = @ \ {c}] ELSE stack[i]
  BY <1>1, <1>4
<1>7. \A i \in DOMAIN stack :
        /\ s[i].module = stack[i].module
        /\ s[i].todo = IF i = Len(stack) THEN stack[i].todo \ {c} ELSE stack[i].todo
  BY <1>2, <1>6 DEF Frame
<1>8. f \in Frame
  BY DEF Frame, WalkTypeOK
<1>9. stack' = Append(s, f)
  OBVIOUS
<1>10. f.module = c /\ f.todo = adjacency[c]
  OBVIOUS
<1> HIDE DEF s, f
<1>11. /\ stack' \in Seq(Frame)
       /\ Len(stack') = Len(stack) + 1
       /\ \A i \in DOMAIN stack : stack'[i] = s[i]
       /\ stack'[Len(stack) + 1] = f
  <2>1. /\ Append(s, f) \in Seq(Frame)
        /\ Len(Append(s, f)) = Len(s) + 1
        /\ \A i \in DOMAIN s : Append(s, f)[i] = s[i]
        /\ Append(s, f)[Len(s) + 1] = f
    BY <1>5, <1>8, Appended
  <2> QED BY <1>5, <1>9, <2>1, Zenon
<1>12. DOMAIN stack' = 1 .. Len(stack) + 1 /\ DOMAIN stack = 1 .. Len(stack)
  <2>1. stack' \in Seq(Frame) /\ Len(stack') = Len(stack) + 1
    BY <1>11
  <2> QED BY <1>1, <2>1, StackType
<1>15. DOMAIN stack' = DOMAIN stack \cup {Len(stack) + 1}
  BY <1>1, <1>12
<1>16. \A i \in DOMAIN stack :
         /\ stack'[i].module = stack[i].module
         /\ stack'[i].todo = IF i = Len(stack) THEN stack[i].todo \ {c} ELSE stack[i].todo
  BY <1>7, <1>11
<1>17. stack'[Len(stack) + 1].module = c /\ stack'[Len(stack) + 1].todo = adjacency[c]
  BY <1>10, <1>11
<1> QED BY <1>11, <1>15, <1>16, <1>17

\* The stack after a return.
LEMMA Returned ==
  ASSUME WalkTypeOK, ~Done, stack' = SubSeq(stack, 1, Len(stack) - 1)
  PROVE  /\ stack' \in Seq(Frame)
         /\ DOMAIN stack' = DOMAIN stack \ {Len(stack)}
         /\ \A i \in DOMAIN stack' : stack'[i] = stack[i]
<1>1. stack \in Seq(Frame) /\ Len(stack) \in Nat /\ Len(stack) > 0
  BY StackType DEF WalkTypeOK
<1> QED BY <1>1

-----------------------------------------------------------------------------
(* The invariant *)

LEMMA WalkInitInv == WalkInit => WalkInv
<1> SUFFICES ASSUME WalkInit PROVE WalkInv
  OBVIOUS
<1> DEFINE f == [module |-> start, todo |-> adjacency[start]]
<1>1. /\ adjacency \in [Modules -> SUBSET Modules]
      /\ start \in Modules
      /\ reachable = {} /\ markers = {}
  BY GraphsAssumption DEF WalkInit
<1>2. f \in Frame
  BY <1>1 DEF Frame
<1>3. stack = <<f>>
  BY DEF WalkInit
<1>4. /\ stack \in Seq(Frame)
      /\ DOMAIN stack = {1}
      /\ stack[1].module = start
      /\ stack[1].todo = adjacency[start]
  BY <1>2, <1>3
<1>5. WalkTypeOK
  BY <1>1, <1>4 DEF WalkTypeOK
<1>6. OnStack = {start} /\ Entered = {start} /\ Finished = {}
  BY <1>1, <1>4 DEF OnStack, Entered, Finished
<1>7. Path
  BY <1>4 DEF Path, Done
<1>8. Bounds
  BY <1>1, <1>4, <1>6 DEF Bounds
<1>9. NoneMissed
  BY <1>1, <1>4, <1>6 DEF NoneMissed
<1>10. MarkersOnCycles /\ MarkersEndless
  BY <1>1 DEF MarkersOnCycles, MarkersEndless
<1> QED BY <1>5, <1>7, <1>8, <1>9, <1>10 DEF WalkInv

\* The child the loop looks at.
LEMMA ChildFacts ==
  ASSUME WalkInv, NEW c \in Modules, NextChild(c)
  PROVE  /\ ~Done
         /\ Len(stack) \in DOMAIN stack
         /\ stack[Len(stack)].module \in Modules
         /\ c \in adjacency[stack[Len(stack)].module]
         /\ c \in Descendants(start)
<1> DEFINE n == Len(stack)
           top == stack[n].module
<1>1. ~Done /\ n \in DOMAIN stack /\ top \in Modules /\ n \in Nat
  BY StackType DEF NextChild, WalkInv
<1>2. c \in adjacency[top]
  BY <1>1 DEF NextChild, Current, WalkInv, Bounds
<1>3. top \in OnStack
  BY <1>1 DEF OnStack
<1>4. top = start \/ top \in Descendants(start)
  BY <1>3 DEF WalkInv, Bounds, Entered
<1>5. c \in Descendants(start)
  BY <1>2, <1>4, DescendantsClosed DEF WalkInv, WalkTypeOK, Closed
<1> QED BY <1>1, <1>2, <1>5

\* Mark and Pass alike: a child that was entered before is taken off the list.
LEMMA AdvanceKeeps ==
  ASSUME WalkInv, NEW c \in Entered, ~Done, Advance(c),
         UNCHANGED <<adjacency, start, reachable>>, markers' \in SUBSET Modules
  PROVE  /\ WalkTypeOK'
         /\ Path'
         /\ Bounds'
         /\ Finished' = Finished
         /\ (markers # {} \/ c \in Finished) /\ markers' = markers => NoneMissed'
<1>1. /\ stack' \in Seq(Frame)
      /\ DOMAIN stack' = DOMAIN stack
      /\ Len(stack') = Len(stack)
      /\ \A i \in DOMAIN stack :
           /\ stack'[i].module = stack[i].module
           /\ stack'[i].todo = IF i = Len(stack) THEN stack[i].todo \ {c} ELSE stack[i].todo
  BY Advanced DEF WalkInv
<1>2. /\ adjacency' = adjacency /\ start' = start /\ reachable' = reachable
      /\ Entered' = Entered
      /\ \A m : Descendants(m)' = Descendants(m)
      /\ \A S : Endless(S)' = Endless(S)
  BY DEF Entered, Descendants, Closed, Endless
<1>3. OnStack' = OnStack
  BY <1>1 DEF OnStack
<1>4. Finished' = Finished
  BY <1>2, <1>3 DEF Finished
<1>5. Done' = Done
  <2>1. stack \in Seq(Frame) /\ Len(stack) # 0
    BY StackType DEF WalkInv, WalkTypeOK
  <2> QED BY <1>1, <2>1 DEF Done
<1>6. WalkTypeOK'
  BY <1>1, <1>2 DEF WalkInv, WalkTypeOK
<1>7. Path'
  <2>1. /\ stack'[1].module = start'
        /\ \A i, j \in DOMAIN stack' : stack'[i].module = stack'[j].module => i = j
        /\ \A i \in DOMAIN stack' :
             i + 1 \in DOMAIN stack' => stack'[i + 1].module \in adjacency[stack'[i].module]
    BY <1>1, <1>2, StackType DEF WalkInv, Path
  <2>2. \A i, j \in DOMAIN stack' : i < j => stack'[j].module \in Descendants(stack'[i].module)
    BY <1>1 DEF WalkInv, Path
  <2> QED BY <1>2, <2>1, <2>2 DEF Path
<1>8. Bounds'
  <2>1. \A i \in DOMAIN stack' :
          /\ stack'[i].todo \subseteq adjacency[stack'[i].module]
          /\ adjacency[stack'[i].module] \ stack'[i].todo \subseteq Entered
    BY <1>1 DEF WalkInv, Bounds
  <2> QED BY <1>2, <1>3, <1>4, <2>1 DEF WalkInv, Bounds
<1>9. ASSUME markers # {} \/ c \in Finished, markers' = markers
      PROVE  NoneMissed'
  <2> SUFFICES ASSUME markers = {}
               PROVE  NoneMissed'
    BY <1>9 DEF NoneMissed
  <2>1. \A i \in DOMAIN stack' :
          \A d \in adjacency[stack'[i].module] \ stack'[i].todo :
            d \in Finished \/ (i + 1 \in DOMAIN stack' /\ stack'[i + 1].module = d)
    <3> SUFFICES ASSUME NEW i \in DOMAIN stack,
                        NEW d \in adjacency[stack[i].module] \ stack'[i].todo
                 PROVE  d \in Finished \/ (i + 1 \in DOMAIN stack /\ stack[i + 1].module = d)
      BY <1>1
    <3>1. CASE d = c
      BY <1>9, <3>1
    <3>2. CASE d # c
      <4>1. d \notin stack[i].todo
        BY <1>1, <3>2
      <4> QED BY <4>1 DEF WalkInv, NoneMissed
    <3> QED BY <3>1, <3>2
  <2>2. /\ \A m \in Finished : adjacency[m] \subseteq Finished
        /\ \A S \in SUBSET Finished : Endless(S) => S = {}
    BY DEF WalkInv, NoneMissed
  <2> QED BY <1>2, <1>4, <2>1, <2>2 DEF NoneMissed
<1> QED BY <1>4, <1>6, <1>7, <1>8, <1>9

LEMMA PassInv == ASSUME WalkInv, NEW c \in Modules, Pass(c) PROVE WalkInv'
<1>1. /\ NextChild(c) /\ c \in reachable /\ c \notin OnStack
      /\ Advance(c)
      /\ adjacency' = adjacency /\ start' = start
      /\ reachable' = reachable /\ markers' = markers
  BY DEF Pass, Closes
<1>2. c \in Entered /\ c \in Finished
  BY <1>1 DEF Entered, Finished
<1>3. ~Done
  BY <1>1 DEF NextChild
<1>4. markers' \in SUBSET Modules
  BY <1>1 DEF WalkInv, WalkTypeOK
<1>5. WalkTypeOK' /\ Path' /\ Bounds' /\ NoneMissed'
  BY <1>1, <1>2, <1>3, <1>4, AdvanceKeeps
<1>6. MarkersOnCycles' /\ MarkersEndless'
  <2>1. /\ \A m : Descendants(m)' = Descendants(m)
        /\ \A S : Endless(S)' = Endless(S)
        /\ Entered' = Entered
    BY <1>1 DEF Descendants, Closed, Endless, Entered
  <2> QED BY <1>1, <2>1 DEF WalkInv, MarkersOnCycles, MarkersEndless
<1> QED BY <1>5, <1>6 DEF WalkInv

LEMMA MarkInv == ASSUME WalkInv, NEW c \in Modules, Mark(c) PROVE WalkInv'
<1> DEFINE n == Len(stack)
           top == stack[n].module
<1>1. /\ NextChild(c) /\ Closes(c) /\ Advance(c)
      /\ adjacency' = adjacency /\ start' = start
      /\ reachable' = reachable /\ markers' = markers \cup {c}
  BY DEF Mark
<1>2. /\ ~Done /\ n \in DOMAIN stack /\ top \in Modules
      /\ c \in adjacency[top] /\ c \in Descendants(start)
  BY <1>1, ChildFacts
<1>3. PICK i \in DOMAIN stack : stack[i].module = c
  BY <1>1, <1>2, StackType DEF Closes, OnStack, WalkInv, Path
<1>4. c \in Entered
  BY <1>3 DEF WalkInv, Bounds, OnStack
<1>5. DOMAIN stack = 1 .. n /\ n \in Nat
  BY StackType DEF WalkInv
<1>6. markers' \in SUBSET Modules
  BY <1>1 DEF WalkInv, WalkTypeOK
<1>7. WalkTypeOK' /\ Path' /\ Bounds'
  BY <1>1, <1>2, <1>4, <1>6, AdvanceKeeps
<1>8. /\ \A m : Descendants(m)' = Descendants(m)
      /\ \A S : Endless(S)' = Endless(S)
      /\ Entered' = Entered
  BY <1>1 DEF Descendants, Closed, Endless, Entered
<1>9. NoneMissed'
  BY <1>1 DEF NoneMissed
<1>10. MarkersOnCycles'
  <2>1. c \in Descendants(c)
    <3>1. CASE i = n
      BY <1>2, <1>3, <3>1, DescendantsClosed DEF WalkInv
    <3>2. CASE i < n
      <4>1. top \in Descendants(c)
        BY <1>2, <1>3, <3>2 DEF WalkInv, Path
      <4> QED BY <1>2, <4>1, DescendantsClosed DEF WalkInv, Closed
    <3> QED BY <1>3, <1>5, <3>1, <3>2
  <2>2. \A k \in markers' : k \in Descendants(k) /\ k \in {start} \cup Descendants(start)
    BY <1>1, <1>2, <2>1 DEF WalkInv, MarkersOnCycles
  <2> QED BY <1>1, <1>8, <2>2 DEF MarkersOnCycles
<1>11. MarkersEndless'
  <2> DEFINE S == {stack[j].module : j \in i .. n}
  <2>1. S \in SUBSET Entered
    BY <1>3, <1>5 DEF WalkInv, Bounds, OnStack
  <2>2. c \in S
    BY <1>3, <1>5
  <2>3. Endless(S)
    <3> SUFFICES ASSUME NEW j \in i .. n PROVE adjacency[stack[j].module] \cap S # {}
      BY DEF Endless
    <3>1. CASE j = n
      BY <1>2, <2>2, <3>1
    <3>2. CASE j # n
      <4>1. j \in DOMAIN stack /\ j + 1 \in DOMAIN stack /\ j + 1 \in i .. n
        <5>1. i \in 1 .. n
          BY <1>3, <1>5
        <5> HIDE DEF n
        <5>2. j \in 1 .. n /\ j + 1 \in 1 .. n /\ j + 1 \in i .. n
          BY <1>5, <3>2, <5>1
        <5> QED BY <1>5, <5>2
      <4>2. stack[j + 1].module \in adjacency[stack[j].module]
        BY <4>1 DEF WalkInv, Path
      <4> QED BY <4>1, <4>2
    <3> QED BY <3>1, <3>2
  <2> HIDE DEF S
  <2>4. \A k \in markers' : \E T \in SUBSET Entered : k \in T /\ Endless(T)
    BY <1>1, <2>1, <2>2, <2>3 DEF WalkInv, MarkersEndless
  <2> QED BY <1>8, <2>4 DEF MarkersEndless
<1> QED BY <1>7, <1>9, <1>10, <1>11 DEF WalkInv

LEMMA VisitInv == ASSUME WalkInv, NEW c \in Modules, Visit(c) PROVE WalkInv'
<1> DEFINE n == Len(stack)
           top == stack[n].module
<1>1. /\ NextChild(c) /\ c \notin OnStack /\ c \notin reachable /\ c # start
      /\ reachable' = reachable \cup {c}
      /\ stack' = Append([stack EXCEPT ![Len(stack)].todo = @ \ {c}],
                         [module |-> c, todo |-> adjacency[c]])
      /\ adjacency' = adjacency /\ start' = start /\ markers' = markers
  BY DEF Visit, Closes
<1>2. /\ ~Done /\ n \in DOMAIN stack /\ top \in Modules
      /\ c \in adjacency[top] /\ c \in Descendants(start)
  BY <1>1, ChildFacts
<1>3. /\ stack' \in Seq(Frame)
      /\ DOMAIN stack' = DOMAIN stack \cup {n + 1}
      /\ \A i \in DOMAIN stack :
           /\ stack'[i].module = stack[i].module
           /\ stack'[i].todo = IF i = n THEN stack[i].todo \ {c} ELSE stack[i].todo
      /\ stack'[n + 1].module = c
      /\ stack'[n + 1].todo = adjacency[c]
  BY <1>1, <1>2, Called DEF WalkInv
<1>4. DOMAIN stack = 1 .. n /\ n \in Nat /\ n > 0
  BY <1>2, StackType DEF WalkInv
<1>5. /\ \A m : Descendants(m)' = Descendants(m)
      /\ \A S : Endless(S)' = Endless(S)
      /\ Entered' = Entered \cup {c}
  BY <1>1 DEF Descendants, Closed, Endless, Entered
<1> HIDE DEF n
<1>6. OnStack' = OnStack \cup {c}
  <2>1. OnStack' = {stack'[i].module : i \in DOMAIN stack'}
    BY DEF OnStack
  <2>2. OnStack = {stack[i].module : i \in DOMAIN stack}
    BY DEF OnStack
  <2>3. ASSUME NEW m \in OnStack'
        PROVE  m \in OnStack \cup {c}
    <3>1. PICK i \in DOMAIN stack' : stack'[i].module = m
      BY <2>1
    <3>2. i = n + 1 \/ i \in DOMAIN stack
      BY <1>3
    <3> QED BY <1>3, <2>2, <3>1, <3>2
  <2>4. ASSUME NEW m \in OnStack
        PROVE  m \in OnStack'
    <3>1. PICK i \in DOMAIN stack : stack[i].module = m
      BY <2>2
    <3>2. i \in DOMAIN stack' /\ stack'[i].module = m
      BY <1>3, <1>4, <3>1
    <3> QED BY <2>1, <3>2
  <2>5. c \in OnStack'
    <3>1. n + 1 \in DOMAIN stack' /\ stack'[n + 1].module = c
      BY <1>3, <1>4
    <3> QED BY <2>1, <3>1
  <2> QED BY <2>3, <2>4, <2>5
<1>7. Finished' = Finished
  BY <1>1, <1>5, <1>6 DEF Finished, Entered
<1>8. WalkTypeOK'
  BY <1>1, <1>3 DEF WalkInv, WalkTypeOK
<1>9. stack' # <<>>
  BY <1>3, <1>4
<1>10. Path'
  <2>1. stack'[1].module = start'
    BY <1>1, <1>2, <1>3, <1>4 DEF WalkInv, Path
  <2>2. ASSUME NEW i \in DOMAIN stack', NEW j \in DOMAIN stack',
               stack'[i].module = stack'[j].module
        PROVE  i = j
    <3>1. \A k \in DOMAIN stack : stack'[k].module # c
      BY <1>1, <1>3 DEF OnStack
    <3>2. /\ i = n + 1 \/ i \in DOMAIN stack
          /\ j = n + 1 \/ j \in DOMAIN stack
          /\ stack'[n + 1].module = c
      BY <1>3, <2>2
    <3>3. CASE i \in DOMAIN stack /\ j \in DOMAIN stack
      BY <1>3, <2>2, <3>3 DEF WalkInv, Path
    <3>4. CASE i = n + 1 \/ j = n + 1
      BY <2>2, <3>1, <3>2, <3>4
    <3> QED BY <3>2, <3>3, <3>4
  <2>3. ASSUME NEW i \in DOMAIN stack', i + 1 \in DOMAIN stack'
        PROVE  stack'[i + 1].module \in adjacency[stack'[i].module]
    <3>1. i \in DOMAIN stack
      BY <1>3, <1>4, <2>3
    <3>2. CASE i + 1 \in DOMAIN stack
      BY <1>3, <3>1, <3>2 DEF WalkInv, Path
    <3>3. CASE i + 1 = n + 1
      <4>1. i = n
        BY <1>4, <3>1, <3>3
      <4> QED BY <1>2, <1>3, <3>1, <3>3, <4>1
    <3> QED BY <1>3, <2>3, <3>2, <3>3
  <2>4. ASSUME NEW i \in DOMAIN stack', NEW j \in DOMAIN stack', i < j
        PROVE  stack'[j].module \in Descendants(stack'[i].module)
    <3>1. i \in DOMAIN stack /\ i \in 1 .. n
      BY <1>3, <1>4, <2>4
    <3>2. CASE j \in DOMAIN stack
      BY <1>3, <2>4, <3>1, <3>2 DEF WalkInv, Path
    <3>3. CASE j = n + 1
      <4>1. stack[i].module \in Modules
        BY <3>1, StackType DEF WalkInv
      <4>2. CASE i = n
        BY <1>2, <1>3, <3>1, <3>3, <4>1, <4>2, DescendantsClosed DEF WalkInv
      <4>3. CASE i < n
        <5>1. top \in Descendants(stack[i].module)
          BY <1>2, <3>1, <4>3 DEF WalkInv, Path
        <5>2. c \in Descendants(stack[i].module)
          BY <1>2, <4>1, <5>1, DescendantsClosed DEF WalkInv, Closed
        <5> QED BY <1>3, <3>1, <3>3, <5>2
      <4> QED BY <1>4, <3>1, <4>2, <4>3
    <3> QED BY <1>3, <3>2, <3>3
  <2> QED BY <1>1, <1>5, <1>9, <2>1, <2>2, <2>3, <2>4 DEF Path, Done
<1>11. Bounds'
  <2>1. start \notin reachable' /\ OnStack' \subseteq Entered'
    BY <1>1, <1>5, <1>6 DEF WalkInv, Bounds
  <2>2. reachable' \subseteq Descendants(start)
    BY <1>1, <1>2 DEF WalkInv, Bounds
  <2>3. ASSUME NEW i \in DOMAIN stack'
        PROVE  /\ stack'[i].todo \subseteq adjacency[stack'[i].module]
               /\ adjacency[stack'[i].module] \ stack'[i].todo \subseteq Entered'
    <3>1. CASE i \in DOMAIN stack
      BY <1>3, <1>5, <3>1 DEF WalkInv, Bounds
    <3>2. CASE i = n + 1
      BY <1>3, <3>2
    <3> QED BY <1>3, <3>1, <3>2
  <2>4. \A m \in Finished' : adjacency[m] \subseteq Entered'
    BY <1>5, <1>7 DEF WalkInv, Bounds
  <2> QED BY <1>1, <1>5, <2>1, <2>2, <2>3, <2>4 DEF Bounds
<1>12. MarkersOnCycles' /\ MarkersEndless'
  BY <1>1, <1>5 DEF WalkInv, MarkersOnCycles, MarkersEndless
<1>13. NoneMissed'
  <2> SUFFICES ASSUME markers = {} PROVE NoneMissed'
    BY <1>1 DEF NoneMissed
  <2>1. /\ \A m \in Finished : adjacency[m] \subseteq Finished
        /\ \A S \in SUBSET Finished : Endless(S) => S = {}
        /\ \A i \in DOMAIN stack :
             \A d \in adjacency[stack[i].module] \ stack[i].todo :
               d \in Finished \/ (i + 1 \in DOMAIN stack /\ stack[i + 1].module = d)
    BY DEF WalkInv, NoneMissed
  <2>2. ASSUME NEW i \in DOMAIN stack',
               NEW d \in adjacency[stack'[i].module] \ stack'[i].todo
        PROVE  d \in Finished \/ (i + 1 \in DOMAIN stack' /\ stack'[i + 1].module = d)
    <3>1. CASE i = n + 1
      BY <1>3, <3>1
    <3>2. CASE i \in DOMAIN stack /\ d = c
      <4>1. i = n \/ d \notin stack[i].todo
        BY <1>3, <3>2
      <4>2. CASE i = n
        BY <1>3, <3>2, <4>2
      <4>3. CASE d \notin stack[i].todo
        <5>1. d \in Finished \/ (i + 1 \in DOMAIN stack /\ stack[i + 1].module = d)
          BY <1>3, <2>1, <3>2, <4>3
        <5> QED BY <1>1, <3>2, <5>1 DEF Finished, Entered, OnStack
      <4> QED BY <4>1, <4>2, <4>3
    <3>3. CASE i \in DOMAIN stack /\ d # c
      <4>1. d \in adjacency[stack[i].module] \ stack[i].todo
        BY <1>3, <3>3
      <4>2. d \in Finished \/ (i + 1 \in DOMAIN stack /\ stack[i + 1].module = d)
        BY <2>1, <3>3, <4>1
      <4> QED BY <1>3, <4>2
    <3> QED BY <1>3, <3>1, <3>2, <3>3
  <2> QED BY <1>1, <1>5, <1>7, <2>1, <2>2 DEF NoneMissed
<1> QED BY <1>8, <1>10, <1>11, <1>12, <1>13 DEF WalkInv

LEMMA ReturnInv == WalkInv /\ Return => WalkInv'
<1> SUFFICES ASSUME WalkInv, Return PROVE WalkInv'
  OBVIOUS
<1> DEFINE n == Len(stack)
           top == stack[n].module
<1>1. /\ ~Done /\ stack[n].todo = {}
      /\ stack' = SubSeq(stack, 1, Len(stack) - 1)
      /\ adjacency' = adjacency /\ start' = start
      /\ reachable' = reachable /\ markers' = markers
  BY DEF Return, Current
<1>2. /\ stack' \in Seq(Frame)
      /\ DOMAIN stack' = DOMAIN stack \ {n}
      /\ \A i \in DOMAIN stack' : stack'[i] = stack[i]
  BY <1>1, Returned DEF WalkInv
<1>3. DOMAIN stack = 1 .. n /\ n \in DOMAIN stack /\ n \in Nat
  BY <1>1, StackType DEF WalkInv
<1>4. /\ \A m : Descendants(m)' = Descendants(m)
      /\ \A S : Endless(S)' = Endless(S)
      /\ Entered' = Entered
  BY <1>1 DEF Descendants, Closed, Endless, Entered
<1> HIDE DEF n
<1>5. OnStack' = OnStack \ {top}
  <2>1. OnStack' = {stack'[i].module : i \in DOMAIN stack'}
    BY DEF OnStack
  <2>2. OnStack = {stack[i].module : i \in DOMAIN stack}
    BY DEF OnStack
  <2>3. \A i \in DOMAIN stack : stack[i].module = top => i = n
    BY <1>3 DEF WalkInv, Path
  <2> QED BY <1>2, <1>3, <2>1, <2>2, <2>3
<1>6. top \in OnStack /\ top \in Entered
  <2>1. top \in OnStack
    BY <1>3 DEF OnStack
  <2> QED BY <2>1 DEF WalkInv, Bounds
<1>7. Finished' = Finished \cup {top} /\ top \notin Finished
  BY <1>4, <1>5, <1>6 DEF Finished
<1>8. adjacency[top] \subseteq Entered
  BY <1>1, <1>3 DEF WalkInv, Bounds
<1>9. WalkTypeOK'
  BY <1>1, <1>2 DEF WalkInv, WalkTypeOK
<1>10. Path'
  <2>1. ~Done' => 1 \in DOMAIN stack'
    BY <1>2 DEF Done
  <2>2. \A i, j \in DOMAIN stack' : stack'[i].module = stack'[j].module => i = j
    BY <1>2 DEF WalkInv, Path
  <2>3. \A i \in DOMAIN stack' :
          i + 1 \in DOMAIN stack' => stack'[i + 1].module \in adjacency[stack'[i].module]
    BY <1>2 DEF WalkInv, Path
  <2>4. \A i, j \in DOMAIN stack' : i < j => stack'[j].module \in Descendants(stack'[i].module)
    BY <1>2 DEF WalkInv, Path
  <2>5. ~Done' => stack'[1].module = start
    BY <1>1, <1>2, <2>1 DEF WalkInv, Path
  <2> QED BY <1>1, <1>4, <2>2, <2>3, <2>4, <2>5 DEF Path
<1>11. Bounds'
  <2>1. \A i \in DOMAIN stack' :
          /\ stack'[i].todo \subseteq adjacency[stack'[i].module]
          /\ adjacency[stack'[i].module] \ stack'[i].todo \subseteq Entered
    BY <1>2 DEF WalkInv, Bounds
  <2>2. \A m \in Finished' : adjacency[m] \subseteq Entered
    BY <1>7, <1>8 DEF WalkInv, Bounds
  <2> QED BY <1>1, <1>4, <1>5, <2>1, <2>2 DEF WalkInv, Bounds
<1>12. MarkersOnCycles' /\ MarkersEndless'
  BY <1>1, <1>4 DEF WalkInv, MarkersOnCycles, MarkersEndless
<1>13. NoneMissed'
  <2> SUFFICES ASSUME markers = {} PROVE NoneMissed'
    BY <1>1 DEF NoneMissed
  <2>1. /\ \A m \in Finished : adjacency[m] \subseteq Finished
        /\ \A S \in SUBSET Finished : Endless(S) => S = {}
        /\ \A i \in DOMAIN stack :
             \A d \in adjacency[stack[i].module] \ stack[i].todo :
               d \in Finished \/ (i + 1 \in DOMAIN stack /\ stack[i + 1].module = d)
    BY DEF WalkInv, NoneMissed
  <2>2. adjacency[top] \subseteq Finished
    <3>1. n + 1 \notin DOMAIN stack
      BY <1>3
    <3> QED BY <1>1, <1>3, <2>1, <3>1
  <2>3. \A m \in Finished' : adjacency[m] \subseteq Finished'
    BY <1>7, <2>1, <2>2
  <2>4. ASSUME NEW i \in DOMAIN stack',
               NEW d \in adjacency[stack'[i].module] \ stack'[i].todo
        PROVE  d \in Finished' \/ (i + 1 \in DOMAIN stack' /\ stack'[i + 1].module = d)
    <3>1. d \in Finished \/ (i + 1 \in DOMAIN stack /\ stack[i + 1].module = d)
      BY <1>2, <2>1
    <3>2. CASE i + 1 = n
      BY <1>7, <3>1, <3>2
    <3>3. CASE i + 1 # n
      BY <1>2, <1>7, <3>1, <3>3
    <3> QED BY <3>2, <3>3
  <2>5. ASSUME NEW S \in SUBSET Finished', Endless(S), S # {}
        PROVE  FALSE
    <3> DEFINE T == S \ {top}
    <3>1. T \in SUBSET Finished
      BY <1>7
    <3>2. Endless(T)
      <4> SUFFICES ASSUME NEW m \in T PROVE adjacency[m] \cap T # {}
        BY DEF Endless
      <4>1. adjacency[m] \cap S # {}
        BY <2>5 DEF Endless
      <4>2. top \notin adjacency[m]
        BY <1>7, <2>1, <3>1
      <4> QED BY <4>1, <4>2
    <3>3. S = {top}
      BY <2>1, <2>5, <3>1, <3>2
    <3>4. top \in adjacency[top]
      BY <2>5, <3>3 DEF Endless
    <3> QED BY <1>7, <2>2, <3>4
  <2>6. \A S \in SUBSET Finished' : Endless(S) => S = {}
    BY <2>5
  <2> QED BY <1>1, <1>4, <2>3, <2>4, <2>6 DEF NoneMissed
<1> QED BY <1>9, <1>10, <1>11, <1>12, <1>13 DEF WalkInv

LEMMA WalkStutterInv == WalkInv /\ UNCHANGED walkVars => WalkInv'
<1> SUFFICES ASSUME WalkInv, UNCHANGED walkVars PROVE WalkInv'
  OBVIOUS
<1>1. /\ adjacency' = adjacency /\ start' = start /\ stack' = stack
      /\ reachable' = reachable /\ markers' = markers
  BY DEF walkVars
<1>2. OnStack' = OnStack /\ (Done <=> Done')
  BY <1>1 DEF OnStack, Done
<1>3. Entered' = Entered
  BY <1>1 DEF Entered
<1>4. Finished' = Finished
  BY <1>2, <1>3 DEF Finished
<1>5. \A m : Descendants(m)' = Descendants(m)
  BY <1>1 DEF Descendants, Closed
<1>6. \A S : Endless(S)' = Endless(S)
  BY <1>1 DEF Endless
<1>7. WalkTypeOK'
  BY <1>1 DEF WalkInv, WalkTypeOK
<1>8. Path'
  BY <1>1, <1>2, <1>5 DEF WalkInv, Path
<1>9. Bounds'
  BY <1>1, <1>2, <1>3, <1>4, <1>5 DEF WalkInv, Bounds
<1>10. MarkersOnCycles'
  BY <1>1, <1>5 DEF WalkInv, MarkersOnCycles
<1>11. MarkersEndless'
  BY <1>1, <1>3, <1>6 DEF WalkInv, MarkersEndless
<1>12. NoneMissed'
  BY <1>1, <1>4, <1>6 DEF WalkInv, NoneMissed
<1> QED BY <1>7, <1>8, <1>9, <1>10, <1>11, <1>12 DEF WalkInv

\* The invariant the theorems below follow from.
THEOREM WalkInvariance == WalkSpec => []WalkInv
<1>1. WalkInv /\ [WalkNext]_walkVars => WalkInv'
  BY MarkInv, PassInv, VisitInv, ReturnInv, WalkStutterInv DEF WalkNext
<1> QED BY WalkInitInv, <1>1, PTL DEF WalkSpec

-----------------------------------------------------------------------------
(* The properties *)

\* The stack of calls, the result and the markers are always of the stated
\* types.
THEOREM WalkTypeCorrect == WalkSpec => []WalkTypeOK
<1>1. WalkInv => WalkTypeOK
  BY DEF WalkInv
<1> QED BY <1>1, WalkInvariance, PTL

\* _reachable_names returns exactly what the start leads to, without itself.
THEOREM WalkIsExact == WalkSpec => []ReachableExact
<1>1. WalkInv => ReachableExact
  <2> SUFFICES ASSUME WalkInv, Done PROVE reachable = Descendants(start) \ {start}
    BY DEF ReachableExact
  <2>1. OnStack = {}
    BY DEF Done, OnStack
  <2>2. Closed(Entered) /\ adjacency[start] \subseteq Entered
    BY <2>1 DEF WalkInv, Bounds, Finished, Closed, Entered
  <2>3. Entered \in SUBSET Modules
    BY DEF WalkInv, WalkTypeOK, Entered
  <2>4. Descendants(start) \subseteq Entered
    BY <2>2, <2>3 DEF Descendants
  <2> QED BY <2>4 DEF WalkInv, Bounds, Entered
<1> QED BY <1>1, WalkInvariance, PTL

\* Every marker of the walk is a module on a cycle the start leads to.
THEOREM MarkersAreOnCycles == WalkSpec => []MarkersOnCycles
<1>1. WalkInv => MarkersOnCycles
  BY DEF WalkInv
<1> QED BY <1>1, WalkInvariance, PTL

\* The walk ends without a marker only if nothing the start leads to holds a
\* cycle: entering each module once does not hide all the cycles.
THEOREM CyclesAreDetected == WalkSpec => []MarkersDetectCycles
<1>1. WalkInv => MarkersDetectCycles
  <2> SUFFICES ASSUME WalkInv, Done
               PROVE  markers = {} <=> \A S \in SUBSET Entered : Endless(S) => S = {}
    BY DEF MarkersDetectCycles, Entered
  <2>1. Finished = Entered
    BY DEF Done, Finished, OnStack
  <2>2. markers = {} => \A S \in SUBSET Entered : Endless(S) => S = {}
    BY <2>1 DEF WalkInv, NoneMissed
  <2>3. markers # {} => \E S \in SUBSET Entered : Endless(S) /\ S # {}
    BY DEF WalkInv, MarkersEndless
  <2> QED BY <2>2, <2>3
<1> QED BY <1>1, WalkInvariance, PTL

=============================================================================

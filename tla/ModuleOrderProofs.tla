-------------------------- MODULE ModuleOrderProofs -------------------------
(***************************************************************************)
(* Proofs about ModuleOrder, for every finite set of modules and every     *)
(* dependency graph over it.                                               *)
(***************************************************************************)
EXTENDS ModuleOrder, FiniteSetTheorems, WellFoundedInduction, TLAPS

\* A count is the number of dependencies still to come.
Counted == \A m \in Modules : remaining[m] = Cardinality(dependencies[m] \ Listed)

\* The worklist holds exactly the candidates.
ReadyExact == ready = {m \in Modules \ Listed : dependencies[m] \subseteq Listed}

\* A level is the highest level of a listed dependency plus one, or zero.
LevelsSoFar ==
  \A m \in Modules :
    /\ \A d \in dependencies[m] \cap Listed : level[d] < level[m]
    /\ level[m] > 0 => \E d \in dependencies[m] \cap Listed : level[m] = level[d] + 1

\* Modules that wait for one another are never listed.
CaughtUnlisted == \A S \in SUBSET Modules : SelfSupporting(S) => S \cap Listed = {}

\* The report is made when the worklist is empty, of what is left over.
ReportFinal ==
  Reported => /\ ready = {}
              /\ report.cycleNames = Modules \ Listed
              /\ \A m \in Modules : report.rows[m] = "blocked-cycle" <=> m \notin Listed

IInv ==
  /\ TypeOK
  /\ Counted
  /\ ReadyExact
  /\ DependencyFirst
  /\ LevelsSoFar
  /\ CaughtUnlisted
  /\ ReportFinal

-----------------------------------------------------------------------------
(* Lemmas *)

\* The set of listed modules grows by the popped one.
LEMMA ListedAfterPop ==
  ASSUME TypeOK, NEW current \in Modules, ordered' = Append(ordered, current)
  PROVE  Listed' = Listed \cup {current}
<1>1. /\ ordered \in Seq(Modules)
      /\ DOMAIN ordered' = 1 .. Len(ordered) + 1
      /\ DOMAIN ordered = 1 .. Len(ordered)
      /\ \A i \in DOMAIN ordered : ordered'[i] = ordered[i]
      /\ ordered'[Len(ordered) + 1] = current
      /\ Len(ordered) \in Nat
  BY DEF TypeOK
<1>2. Listed' = {ordered'[i] : i \in DOMAIN ordered'}
  BY DEF Listed
<1>3. Listed = {ordered[i] : i \in DOMAIN ordered}
  BY DEF Listed
<1>4. DOMAIN ordered' = DOMAIN ordered \cup {Len(ordered) + 1}
  BY <1>1
<1> QED BY <1>1, <1>2, <1>3, <1>4

LEMMA ListedAreModules == TypeOK => Listed \subseteq Modules
  BY DEF TypeOK, Listed

\* A listed module has all its dependencies listed.
LEMMA ListedClosed ==
  ASSUME TypeOK, DependencyFirst, NEW m \in Listed
  PROVE  dependencies[m] \subseteq Listed
<1>1. PICK i \in DOMAIN ordered : m = ordered[i]
  BY DEF Listed
<1>2. dependencies[m] \subseteq {ordered[j] : j \in 1 .. i - 1}
  BY <1>1 DEF DependencyFirst
<1>3. DOMAIN ordered = 1 .. Len(ordered) /\ Len(ordered) \in Nat
  BY DEF TypeOK
<1>4. 1 .. i - 1 \subseteq DOMAIN ordered
  BY <1>3
<1> QED BY <1>2, <1>4 DEF Listed

\* What a module still waits for is a finite set.
LEMMA WaitsFinite ==
  ASSUME TypeOK, NEW m \in Modules
  PROVE  IsFiniteSet(dependencies[m] \ Listed)
<1>1. dependencies[m] \ Listed \subseteq Modules
  BY DEF TypeOK
<1> QED BY <1>1, FS_Subset, ModulesAssumption

\* A pop takes a candidate.
LEMMA PopTakesCandidate ==
  ASSUME IInv, NEW current \in Modules, Pop(current)
  PROVE  /\ current \in Modules \ Listed
         /\ dependencies[current] \subseteq Listed
         /\ current \notin dependencies[current]
         /\ ordered' = Append(ordered, current)
         /\ Listed' = Listed \cup {current}
         /\ dependencies' = dependencies
<1>1. current \in ready
  BY DEF Pop, NextReady
<1>2. current \in Modules \ Listed /\ dependencies[current] \subseteq Listed
  BY <1>1 DEF IInv, ReadyExact
<1>3. ordered' = Append(ordered, current) /\ dependencies' = dependencies
  BY DEF Pop
<1>4. Listed' = Listed \cup {current}
  BY <1>3, ListedAfterPop DEF IInv
<1> QED BY <1>2, <1>3, <1>4

\* The counts after a pop.
LEMMA CountsAfterPop ==
  ASSUME IInv, NEW current \in Modules, Pop(current)
  PROVE  \A m \in Modules :
           /\ remaining'[m] = Cardinality(dependencies[m] \ Listed')
           /\ m \in Dependents(current) => remaining[m] > 0
<1> SUFFICES ASSUME NEW m \in Modules
             PROVE  /\ remaining'[m] = Cardinality(dependencies[m] \ Listed')
                    /\ m \in Dependents(current) => remaining[m] > 0
  OBVIOUS
<1> DEFINE waits == dependencies[m] \ Listed
<1>1. current \notin Listed /\ Listed' = Listed \cup {current}
  BY PopTakesCandidate
<1>2. IsFiniteSet(waits) /\ remaining[m] = Cardinality(waits)
  BY WaitsFinite DEF IInv, Counted
<1>3. remaining'[m] = IF m \in Dependents(current) THEN remaining[m] - 1 ELSE remaining[m]
  BY DEF Pop
<1>4. dependencies[m] \ Listed' = waits \ {current}
  BY <1>1
<1>5. CASE m \in Dependents(current)
  <2>1. current \in waits
    BY <1>1, <1>5 DEF Dependents
  <2>2. /\ Cardinality(waits \ {current}) = Cardinality(waits) - 1
        /\ Cardinality(waits) \in Nat
    BY <1>2, <2>1, FS_RemoveElement, FS_CardinalityType
  <2>3. waits # {}
    BY <2>1
  <2>4. Cardinality(waits) # 0
    BY <1>2, <2>3, FS_EmptySet
  <2> QED BY <1>2, <1>3, <1>4, <1>5, <2>2, <2>4
<1>6. CASE m \notin Dependents(current)
  <2>1. waits \ {current} = waits
    BY <1>6 DEF Dependents
  <2> QED BY <1>2, <1>3, <1>4, <1>6, <2>1
<1> QED BY <1>5, <1>6

-----------------------------------------------------------------------------
(* The parts of IInv, one by one *)

\* The invariant holds of every graph the loop may start from.
LEMMA InitInv == Init => IInv
<1> SUFFICES ASSUME Init PROVE IInv
  OBVIOUS
<1>1. dependencies \in [Modules -> SUBSET Modules] /\ flawed \in FlawSets /\ ordered = <<>>
  BY DEF Init
<1>2. Listed = {} /\ DOMAIN ordered = {}
  BY <1>1 DEF Listed
<1>3. remaining = [m \in Modules |-> Cardinality(dependencies[m])]
  BY DEF Init, Counts
<1>11. ASSUME NEW m \in Modules
      PROVE  /\ Cardinality(dependencies[m]) \in Nat
             /\ Cardinality(dependencies[m]) = 0 <=> dependencies[m] = {}
  <2>1. dependencies[m] \subseteq Modules
    BY <1>1
  <2>2. IsFiniteSet(dependencies[m])
    BY <2>1, FS_Subset, ModulesAssumption
  <2> QED BY <2>2, FS_CardinalityType, FS_EmptySet
<1>4. TypeOK
  <2>1. flawed \in SUBSET Modules
    BY <1>1, FlawSetsAssumption
  <2>2. remaining \in [Modules -> Nat]
    BY <1>3, <1>11
  <2>3. level \in [Modules -> Nat] /\ ready \in SUBSET Modules /\ ordered \in Seq(Modules)
    BY DEF Init
  <2>4. report = NoReport
    BY DEF Init
  <2> QED BY <1>1, <2>1, <2>2, <2>3, <2>4 DEF TypeOK
<1>5. Counted
  <2>1. \A m \in Modules : dependencies[m] \ Listed = dependencies[m]
    BY <1>2
  <2> QED BY <1>3, <2>1 DEF Counted
<1>6. ReadyExact
  <2>1. ready = {m \in Modules : Cardinality(dependencies[m]) = 0}
    BY <1>3 DEF Init
  <2>2. {m \in Modules \ Listed : dependencies[m] \subseteq Listed}
          = {m \in Modules : dependencies[m] = {}}
    BY <1>2
  <2> QED BY <1>11, <2>1, <2>2 DEF ReadyExact
<1>7. DependencyFirst
  BY <1>2 DEF DependencyFirst
<1>8. LevelsSoFar
  BY <1>2 DEF LevelsSoFar, Init
<1>9. CaughtUnlisted
  BY <1>2 DEF CaughtUnlisted
<1>10. ReportFinal
  BY DEF ReportFinal, Reported, Init
<1> QED BY <1>4, <1>5, <1>6, <1>7, <1>8, <1>9, <1>10 DEF IInv

\* A pop keeps the types: no count goes below zero.
LEMMA PopType ==
  ASSUME IInv, NEW current \in Modules, Pop(current)
  PROVE  TypeOK'
<1>1. TypeOK /\ current \in Modules
  BY DEF IInv
<1>2. remaining' \in [Modules -> Nat]
  <2>1. \A m \in Modules : /\ m \in Dependents(current) => remaining[m] > 0
                          /\ remaining[m] \in Nat
    BY <1>1, CountsAfterPop DEF TypeOK
  <2> QED BY <2>1 DEF Pop
<1>3. level' \in [Modules -> Nat]
  BY <1>1 DEF TypeOK, Pop, LevelAfter
<1>4. ready' \in SUBSET Modules
  BY <1>1 DEF TypeOK, Pop, Dependents
<1>5. ordered' \in Seq(Modules)
  BY <1>1 DEF TypeOK, Pop
<1>6. /\ dependencies' \in [Modules -> SUBSET Modules]
      /\ flawed' \in SUBSET Modules
      /\ report' = report
  BY <1>1 DEF TypeOK, Pop
<1>7. report' \in {NoReport} \cup [state : ReportStates, cycleNames : SUBSET Modules,
                                    rows : [Modules -> OrderStates]]
  BY <1>1, <1>6 DEF TypeOK
<1> QED BY <1>2, <1>3, <1>4, <1>5, <1>6, <1>7 DEF TypeOK

LEMMA PopCounted ==
  ASSUME IInv, NEW current \in Modules, Pop(current)
  PROVE  Counted'
<1>1. dependencies' = dependencies
  BY PopTakesCandidate
<1> QED BY <1>1, CountsAfterPop DEF Counted

\* After a pop the worklist still holds exactly the candidates: a dependent
\* joins it when the count says that its last dependency was listed.
LEMMA PopReady ==
  ASSUME IInv, NEW current \in Modules, Pop(current)
  PROVE  ReadyExact'
<1>1. /\ Listed' = Listed \cup {current}
      /\ current \in Modules \ Listed
      /\ dependencies' = dependencies
      /\ current \notin dependencies[current]
      /\ dependencies[current] \subseteq Listed
  BY PopTakesCandidate
<1>2. ready' = (ready \ {current}) \cup {d \in Dependents(current) : remaining[d] = 1}
  BY DEF Pop, Unblocks
<1>3. ready = {m \in Modules \ Listed : dependencies[m] \subseteq Listed}
  BY DEF IInv, ReadyExact
<1>4. ASSUME NEW m \in Modules
      PROVE  m \in Dependents(current) =>
               (remaining[m] = 1 <=> dependencies[m] \subseteq Listed')
  <2> SUFFICES ASSUME m \in Dependents(current)
               PROVE  remaining[m] = 1 <=> dependencies[m] \subseteq Listed'
    OBVIOUS
  <2>1. remaining'[m] = remaining[m] - 1 /\ remaining[m] \in Nat
    BY DEF Pop, IInv, TypeOK
  <2>2. remaining'[m] = Cardinality(dependencies[m] \ Listed') /\ remaining[m] > 0
    BY CountsAfterPop
  <2>3. IsFiniteSet(dependencies[m] \ Listed')
    <3>1. dependencies[m] \ Listed' \subseteq Modules
      BY DEF IInv, TypeOK
    <3> QED BY <3>1, FS_Subset, ModulesAssumption
  <2>4. Cardinality(dependencies[m] \ Listed') = 0 <=> dependencies[m] \ Listed' = {}
    BY <2>3, FS_EmptySet
  <2>5. remaining[m] = 1 <=> dependencies[m] \ Listed' = {}
    BY <2>1, <2>2, <2>4
  <2> QED BY <2>5
<1>5. ASSUME NEW m \in Modules
      PROVE  m \in ready' <=> m \notin Listed' /\ dependencies[m] \subseteq Listed'
  <2>1. CASE m \in Dependents(current)
    <3>1. m \notin ready
      BY <1>1, <1>3, <2>1 DEF Dependents
    <3>2. m \notin Listed'
      <4>1. m # current
        BY <1>1, <2>1 DEF Dependents
      <4>2. m \notin Listed
        <5>2. m \in Listed => dependencies[m] \subseteq Listed
          BY ListedClosed DEF IInv
        <5>3. dependencies[m] \subseteq Listed => current \in Listed
          BY <2>1 DEF Dependents
        <5> QED BY <5>2, <5>3, <1>1
      <4> QED BY <4>1, <4>2, <1>1
    <3> QED BY <1>2, <1>4, <2>1, <3>1, <3>2
  <2>2. CASE m \notin Dependents(current)
    <3>1. current \notin dependencies[m]
      BY <2>2 DEF Dependents
    <3>2. m \in ready' <=> m \in ready /\ m # current
      BY <1>2, <2>2
    <3> QED BY <1>1, <1>3, <3>1, <3>2
  <2> QED BY <2>1, <2>2
<1>6. ready' \subseteq Modules
  BY PopType DEF TypeOK
<1> QED BY <1>1, <1>5, <1>6 DEF ReadyExact

LEMMA PopDependencyFirst ==
  ASSUME IInv, NEW current \in Modules, Pop(current)
  PROVE  DependencyFirst'
<1> DEFINE n == Len(ordered)
<1>1. /\ ordered' = Append(ordered, current)
      /\ current \in Modules \ Listed
      /\ dependencies' = dependencies
      /\ dependencies[current] \subseteq Listed
  BY PopTakesCandidate
<1>2. ordered \in Seq(Modules) /\ n \in Nat /\ DOMAIN ordered = 1 .. n
  BY DEF IInv, TypeOK
<1>3. /\ DOMAIN ordered' = 1 .. n + 1
      /\ ordered'[n + 1] = current
      /\ \A j \in 1 .. n : ordered'[j] = ordered[j]
  BY <1>1, <1>2
<1>4. SUFFICES ASSUME NEW i \in 1 .. n + 1
               PROVE  /\ dependencies[ordered'[i]] \subseteq {ordered'[j] : j \in 1 .. i - 1}
                      /\ \A j \in 1 .. i - 1 : ordered'[j] # ordered'[i]
  BY <1>1, <1>3 DEF DependencyFirst
<1>5. CASE i \in 1 .. n
  <2>1. /\ dependencies[ordered[i]] \subseteq {ordered[j] : j \in 1 .. i - 1}
        /\ \A j \in 1 .. i - 1 : ordered[j] # ordered[i]
    BY <1>2, <1>5 DEF IInv, DependencyFirst
  <2>2. \A j \in 1 .. i - 1 : ordered'[j] = ordered[j]
    BY <1>2, <1>3, <1>5
  <2>3. ordered'[i] = ordered[i]
    BY <1>3, <1>5
  <2>4. {ordered'[j] : j \in 1 .. i - 1} = {ordered[j] : j \in 1 .. i - 1}
    BY <2>2
  <2> QED BY <2>1, <2>2, <2>3, <2>4
<1>6. CASE i = n + 1
  <2>1. 1 .. i - 1 = 1 .. n /\ ordered'[i] = current
    BY <1>2, <1>3, <1>6
  <2>2. Listed = {ordered[j] : j \in 1 .. n}
    BY <1>2 DEF Listed
  <2>3. {ordered'[j] : j \in 1 .. n} = Listed
    BY <1>3, <2>2
  <2>4. \A j \in 1 .. n : ordered'[j] \in Listed
    BY <2>3
  <2> QED BY <1>1, <2>1, <2>3, <2>4
<1> QED BY <1>2, <1>5, <1>6

\* The level of a module only grows while its dependencies are listed, and no
\* listed module is a dependent of the one that is popped.
LEMMA PopLevels ==
  ASSUME IInv, NEW current \in Modules, Pop(current)
  PROVE  LevelsSoFar'
<1>1. /\ Listed' = Listed \cup {current}
      /\ current \in Modules \ Listed
      /\ dependencies' = dependencies
      /\ current \notin dependencies[current]
  BY PopTakesCandidate
<1>2. \A d \in Listed \cup {current} : d \in Modules /\ d \notin Dependents(current)
  <2>1. \A d \in Listed : d \in Modules /\ dependencies[d] \subseteq Listed
    BY ListedClosed, ListedAreModules DEF IInv
  <2> QED BY <1>1, <2>1 DEF Dependents
<1>3. \A d \in Listed' : level'[d] = level[d]
  BY <1>1, <1>2 DEF Pop
<1>4. level \in [Modules -> Nat] /\ level' \in [Modules -> Nat]
  BY PopType DEF IInv, TypeOK
<1>5. SUFFICES ASSUME NEW m \in Modules
               PROVE  /\ \A d \in dependencies[m] \cap Listed' : level'[d] < level'[m]
                      /\ level'[m] > 0 =>
                           \E d \in dependencies[m] \cap Listed' : level'[m] = level'[d] + 1
  BY <1>1 DEF LevelsSoFar
<1>6. /\ \A d \in dependencies[m] \cap Listed : level[d] < level[m]
      /\ level[m] > 0 => \E d \in dependencies[m] \cap Listed : level[m] = level[d] + 1
  BY DEF IInv, LevelsSoFar
<1>7. CASE m \in Dependents(current)
  <2>1. current \in dependencies[m]
    BY <1>7 DEF Dependents
  <2>2. dependencies[m] \cap Listed' = (dependencies[m] \cap Listed) \cup {current}
    BY <1>1, <2>1
  <2>3. level'[m] = IF level[m] < level[current] + 1 THEN level[current] + 1 ELSE level[m]
    BY <1>7 DEF Pop, LevelAfter
  <2>4. /\ \A d \in Listed' : level'[d] = level[d] /\ level[d] \in Nat
        /\ level[m] \in Nat
        /\ level[current] \in Nat
    BY <1>1, <1>2, <1>3, <1>4
  <2>5. \A d \in dependencies[m] \cap Listed' : level'[d] < level'[m]
    <3> SUFFICES ASSUME NEW d \in dependencies[m] \cap Listed'
                 PROVE  level'[d] < level'[m]
      OBVIOUS
    <3>1. CASE d = current
      BY <2>3, <2>4, <3>1, <1>1
    <3>2. CASE d \in dependencies[m] \cap Listed
      <4>1. level[d] < level[m] /\ level'[d] = level[d] /\ level[d] \in Nat
        BY <1>6, <2>4, <3>2
      <4> QED BY <2>3, <2>4, <4>1
    <3> QED BY <2>2, <3>1, <3>2
  <2>6. ASSUME level'[m] > 0
        PROVE  \E d \in dependencies[m] \cap Listed' : level'[m] = level'[d] + 1
    <3>1. CASE level[m] < level[current] + 1
      BY <2>1, <2>3, <2>4, <3>1, <1>1
    <3>2. CASE ~(level[m] < level[current] + 1)
      <4>1. level'[m] = level[m] /\ level[m] > 0
        BY <2>3, <2>6, <3>2
      <4>2. PICK d \in dependencies[m] \cap Listed : level[m] = level[d] + 1
        BY <1>6, <4>1
      <4> QED BY <2>2, <2>4, <4>1, <4>2
    <3> QED BY <3>1, <3>2
  <2> QED BY <2>5, <2>6
<1>8. CASE m \notin Dependents(current)
  <2>1. dependencies[m] \cap Listed' = dependencies[m] \cap Listed
    BY <1>1, <1>8 DEF Dependents
  <2>2. level'[m] = level[m]
    BY <1>8 DEF Pop
  <2> QED BY <1>1, <1>3, <1>6, <2>1, <2>2
<1> QED BY <1>7, <1>8

\* A candidate waits for nobody, so no set of modules that wait for one
\* another holds it.
LEMMA PopCaught ==
  ASSUME IInv, NEW current \in Modules, Pop(current)
  PROVE  CaughtUnlisted'
<1>1. /\ Listed' = Listed \cup {current}
      /\ dependencies' = dependencies
      /\ dependencies[current] \subseteq Listed
  BY PopTakesCandidate
<1>2. ASSUME NEW S \in SUBSET Modules, SelfSupporting(S)
      PROVE  S \cap Listed' = {}
  <2>1. S \cap Listed = {}
    BY <1>2 DEF IInv, CaughtUnlisted
  <2>2. current \notin S
    BY <1>1, <1>2, <2>1 DEF SelfSupporting
  <2> QED BY <1>1, <2>1, <2>2
<1>3. \A S \in SUBSET Modules : SelfSupporting(S)' => SelfSupporting(S)
  BY <1>1 DEF SelfSupporting
<1> QED BY <1>2, <1>3 DEF CaughtUnlisted

\* Nothing is popped once the report is made.
LEMMA PopReportFinal ==
  ASSUME IInv, NEW current \in Modules, Pop(current)
  PROVE  ReportFinal'
<1>1. ready # {}
  BY DEF Pop, NextReady
<1>2. ~Reported
  BY <1>1 DEF IInv, ReportFinal
<1>3. report' = report
  BY DEF Pop
<1> QED BY <1>2, <1>3 DEF ReportFinal, Reported, NoReport

-----------------------------------------------------------------------------
(* The report *)

LEMMA ReportStateType == ReportState \in ReportStates
  BY DEF ReportState, ReportStates

LEMMA OrderStateType == \A m \in Modules : OrderState(m) \in OrderStates
  BY DEF OrderState, OrderStates

\* What the loop leaves over is what it did not list.
LEMMA LeftOver ==
  ASSUME IInv, ready = {}
  PROVE  CycleNames = Modules \ Listed
<1> SUFFICES ASSUME NEW m \in Modules
             PROVE  remaining[m] > 0 <=> m \notin Listed
  BY DEF CycleNames
<1> DEFINE waits == dependencies[m] \ Listed
<1>1. remaining[m] = Cardinality(waits) /\ remaining[m] \in Nat
  BY DEF IInv, Counted, TypeOK
<1>2. Cardinality(waits) = 0 <=> waits = {}
  BY WaitsFinite, FS_EmptySet DEF IInv
<1>3. CASE m \in Listed
  <2>1. waits = {}
    BY <1>3, ListedClosed DEF IInv
  <2> QED BY <1>1, <1>2, <1>3, <2>1
<1>4. CASE m \notin Listed
  <2>1. waits # {}
    BY <1>4 DEF IInv, ReadyExact
  <2> QED BY <1>1, <1>2, <1>4, <2>1
<1> QED BY <1>3, <1>4

LEMMA ReportInv == IInv /\ Report => IInv'
<1> SUFFICES ASSUME IInv, Report PROVE IInv'
  OBVIOUS
<1>1. /\ UNCHANGED <<dependencies, flawed, remaining, level, ready, ordered>>
      /\ ready = {}
      /\ report' = [state |-> ReportState, cycleNames |-> CycleNames,
                    rows |-> [m \in Modules |-> OrderState(m)]]
  BY DEF Report, LoopEnds
<1>2. TypeOK'
  <2>1. report' \in [state : ReportStates, cycleNames : SUBSET Modules,
                     rows : [Modules -> OrderStates]]
    BY <1>1, ReportStateType, OrderStateType DEF CycleNames
  <2> QED BY <1>1, <2>1 DEF IInv, TypeOK
<1>3. Listed' = Listed
  BY <1>1 DEF Listed
<1>4. Counted' /\ ReadyExact' /\ LevelsSoFar'
  BY <1>1, <1>3 DEF IInv, Counted, ReadyExact, LevelsSoFar
<1>5. DependencyFirst'
  BY <1>1 DEF IInv, DependencyFirst
<1>6. CaughtUnlisted'
  BY <1>1, <1>3 DEF IInv, CaughtUnlisted, SelfSupporting
<1>7. \A m \in Modules : OrderState(m) = "blocked-cycle" <=> m \notin Listed
  BY DEF OrderState
<1>8. ReportFinal'
  BY <1>1, <1>3, <1>7, LeftOver DEF ReportFinal
<1> QED BY <1>2, <1>4, <1>5, <1>6, <1>8 DEF IInv

LEMMA PopInv ==
  ASSUME IInv, NEW current \in Modules, Pop(current)
  PROVE  IInv'
  BY PopType, PopCounted, PopReady, PopDependencyFirst, PopLevels, PopCaught,
     PopReportFinal DEF IInv

LEMMA StutterInv == IInv /\ UNCHANGED vars => IInv'
<1> SUFFICES ASSUME IInv, UNCHANGED vars PROVE IInv'
  OBVIOUS
<1>1. UNCHANGED <<dependencies, flawed, remaining, level, ready, ordered, report>>
  BY DEF vars
<1>2. Listed' = Listed /\ (Reported' <=> Reported)
  BY <1>1 DEF Listed, Reported, NoReport
<1>3. TypeOK' /\ Counted'
  BY <1>1, <1>2 DEF IInv, TypeOK, Counted
<1>4. ReadyExact' /\ DependencyFirst' /\ LevelsSoFar'
  BY <1>1, <1>2 DEF IInv, ReadyExact, DependencyFirst, LevelsSoFar
<1>5. CaughtUnlisted' /\ ReportFinal'
  BY <1>1, <1>2 DEF IInv, CaughtUnlisted, SelfSupporting, ReportFinal
<1> QED BY <1>3, <1>4, <1>5 DEF IInv

LEMMA StepInv == IInv /\ [Next]_vars => IInv'
  BY PopInv, ReportInv, StutterInv DEF Next

\* The invariant the theorems below follow from.
THEOREM Invariance == Spec => []IInv
  BY InitInv, StepInv, PTL DEF Spec

-----------------------------------------------------------------------------
(* Theorems *)

\* No count of the worklist loop goes below zero, and nothing but declared
\* modules enters its lists (_module_order_rows).
THEOREM TypeCorrect == Spec => []TypeOK
<1>1. IInv => TypeOK
  BY DEF IInv
<1> QED BY <1>1, Invariance, PTL

\* The order is dependency-first and lists a module once: order_direction of
\* the module order report holds at every moment of the loop.
THEOREM OrderIsDependencyFirst == Spec => []DependencyFirst
<1>1. IInv => DependencyFirst
  BY DEF IInv
<1> QED BY <1>1, Invariance, PTL

\* The dependency level of a listed module is exact although the loop pops
\* modules alphabetically.
THEOREM LevelsAreExact == Spec => []LevelsExact
<1>1. IInv => LevelsExact
  <2> SUFFICES ASSUME IInv, NEW m \in Listed
               PROVE  /\ \A d \in dependencies[m] : level[d] < level[m]
                      /\ level[m] > 0 => \E d \in dependencies[m] : level[m] = level[d] + 1
    BY DEF LevelsExact
  <2>1. m \in Modules /\ dependencies[m] \cap Listed = dependencies[m]
    BY ListedClosed, ListedAreModules DEF IInv
  <2> QED BY <2>1 DEF IInv, LevelsSoFar
<1> QED BY <1>1, Invariance, PTL

\* The report blocks exactly the largest set of modules that wait for one
\* another (cycle_names).
THEOREM BlockedModulesAreCaught == Spec => []BlockedIsLargest
<1>1. IInv => BlockedIsLargest
  <2> SUFFICES ASSUME IInv, Reported
               PROVE  /\ report.cycleNames = Modules \ Listed
                      /\ SelfSupporting(report.cycleNames)
                      /\ \A S \in SUBSET Modules :
                            SelfSupporting(S) => S \subseteq report.cycleNames
    BY DEF BlockedIsLargest
  <2>1. ready = {} /\ report.cycleNames = Modules \ Listed
    BY DEF IInv, ReportFinal
  <2>2. SelfSupporting(Modules \ Listed)
    <3> SUFFICES ASSUME NEW m \in Modules \ Listed
                 PROVE  dependencies[m] \cap (Modules \ Listed) # {}
      BY DEF SelfSupporting
    <3>1. ~(dependencies[m] \subseteq Listed)
      BY <2>1 DEF IInv, ReadyExact
    <3>2. dependencies[m] \subseteq Modules
      BY DEF IInv, TypeOK
    <3> QED BY <3>1, <3>2
  <2>3. \A S \in SUBSET Modules : SelfSupporting(S) => S \subseteq Modules \ Listed
    BY DEF IInv, CaughtUnlisted
  <2> QED BY <2>1, <2>2, <2>3
<1> QED BY <1>1, Invariance, PTL

\* A set of natural numbers has a smallest one.
LEMMA SmallestNat ==
  ASSUME NEW S, S \subseteq Nat, S # {}
  PROVE  \E n \in S : \A m \in S : n <= m
<1> DEFINE R == OpToRel(<, Nat)
<1>1. IsWellFoundedOn(R, Nat)
  BY NatLessThanWellFounded
<1>2. \A i, j \in Nat : <<i, j>> \in R <=> i < j
  BY DEF OpToRel
<1> HIDE DEF R
<1>3. PICK n \in S : \A m \in S : ~(<<m, n>> \in R)
  BY <1>1, WFMin, Zenon
<1>4. ASSUME NEW m \in S
      PROVE  n <= m
  <2>1. m \in Nat /\ n \in Nat
    OBVIOUS
  <2>2. ~(m < n)
    BY <1>2, <1>3, <2>1
  <2> QED BY <2>1, <2>2
<1> QED BY <1>4

\* What is closed under instantiation and holds the dependencies of a module holds
\* all that is below it; and what is below a module is closed.
LEMMA DescendantsLeast ==
  ASSUME NEW m \in Modules, NEW S \in SUBSET Modules,
         dependencies[m] \subseteq S, \A x \in S : dependencies[x] \subseteq S
  PROVE  Descendants(m) \subseteq S
  BY DEF Descendants

LEMMA DescendantsClosed ==
  ASSUME TypeOK, NEW m \in Modules
  PROVE  /\ Descendants(m) \subseteq Modules
         /\ dependencies[m] \subseteq Descendants(m)
         /\ \A n \in Descendants(m) : dependencies[n] \subseteq Descendants(m)
<1>1. dependencies[m] \subseteq Modules
  BY DEF TypeOK
<1>2. dependencies[m] \subseteq Descendants(m)
  BY <1>1 DEF Descendants
<1>3. ASSUME NEW n \in Descendants(m), NEW d \in dependencies[n]
      PROVE  d \in Descendants(m)
  <2>1. n \in Modules /\ d \in Modules
    BY <1>3 DEF Descendants, TypeOK
  <2>2. ASSUME NEW S \in SUBSET Modules, dependencies[m] \subseteq S,
               \A x \in S : dependencies[x] \subseteq S
        PROVE  d \in S
    BY <1>3, <2>2, DescendantsLeast
  <2> QED BY <2>1, <2>2 DEF Descendants
<1> QED BY <1>2, <1>3 DEF Descendants

\* Below a dependency that is not below itself there is less than above it.
LEMMA FewerBelow ==
  ASSUME TypeOK, NEW m \in Modules, NEW d \in dependencies[m], d \notin Descendants(d)
  PROVE  /\ Cardinality(Descendants(m)) \in Nat
         /\ Cardinality(Descendants(d)) \in Nat
         /\ Cardinality(Descendants(d)) < Cardinality(Descendants(m))
<1>1. d \in Modules
  BY DEF TypeOK
<1>2. d \in Descendants(m) /\ Descendants(d) \subseteq Descendants(m)
  BY <1>1, DescendantsClosed, DescendantsLeast
<1>3. IsFiniteSet(Descendants(m)) /\ IsFiniteSet(Descendants(d))
  BY <1>1, DescendantsClosed, FS_Subset, ModulesAssumption
<1>4. Descendants(d) # Descendants(m)
  BY <1>2
<1> QED BY <1>2, <1>3, <1>4, FS_Subset, FS_CardinalityType

\* A module that is listed leads to no cycle: what it leads to was listed before.
LEMMA ListedReachNoCycle ==
  ASSUME IInv, NEW m \in Listed
  PROVE  ~ReachesCycle(m)
<1> SUFFICES ASSUME NEW n \in {m} \cup Descendants(m), n \in Descendants(n)
             PROVE  FALSE
  BY DEF ReachesCycle
<1>1. Listed \subseteq Modules /\ \A x \in Listed : dependencies[x] \subseteq Listed
  BY ListedAreModules, ListedClosed DEF IInv
<1>2. n \in Listed
  BY <1>1, DescendantsLeast
<1>3. PICK i \in DOMAIN ordered : n = ordered[i]
  BY <1>2 DEF Listed
<1> DEFINE S == {ordered[j] : j \in 1 .. i - 1}
<1>4. /\ DOMAIN ordered = 1 .. Len(ordered) /\ Len(ordered) \in Nat
      /\ \A j \in DOMAIN ordered : ordered[j] \in Modules
  BY DEF IInv, TypeOK
<1>5. S \in SUBSET Modules
  BY <1>4
<1>6. dependencies[n] \subseteq S
  BY <1>3 DEF IInv, DependencyFirst
<1>7. ASSUME NEW x \in S
      PROVE  dependencies[x] \subseteq S
  <2>1. PICK j \in 1 .. i - 1 : x = ordered[j]
    OBVIOUS
  <2>2. j \in DOMAIN ordered
    BY <1>4
  <2>3. dependencies[x] \subseteq {ordered[k] : k \in 1 .. j - 1}
    BY <2>1, <2>2 DEF IInv, DependencyFirst
  <2>4. 1 .. j - 1 \subseteq 1 .. i - 1
    BY <1>4
  <2> QED BY <2>3, <2>4
<1>8. n \in S
  BY <1>1, <1>2, <1>5, <1>6, <1>7, DescendantsLeast
<1> QED BY <1>3, <1>8 DEF IInv, DependencyFirst

\* From a set of modules that wait for one another there is a way to a cycle: the
\* member with least below it waits for another one.
LEMMA CaughtReachCycle ==
  ASSUME TypeOK, NEW B \in SUBSET Modules, SelfSupporting(B), NEW m \in B
  PROVE  ReachesCycle(m)
<1> SUFFICES ASSUME ~ReachesCycle(m) PROVE FALSE
  OBVIOUS
<1> DEFINE D == ({m} \cup Descendants(m)) \cap B
           Sizes == {Cardinality(Descendants(n)) : n \in D}
<1>1. \A n \in D : n \in Modules /\ n \notin Descendants(n)
  BY DEF ReachesCycle
<1>2. ASSUME NEW n \in D
      PROVE  \E d \in D : d \in dependencies[n]
  <2>1. PICK d \in B : d \in dependencies[n]
    BY DEF SelfSupporting
  <2>2. d \in Descendants(m)
    BY <2>1, DescendantsClosed
  <2> QED BY <2>1, <2>2
<1>3. ASSUME NEW n \in D
      PROVE  Cardinality(Descendants(n)) \in Nat
  <2>1. IsFiniteSet(Descendants(n))
    BY <1>1, DescendantsClosed, FS_Subset, ModulesAssumption
  <2> QED BY <2>1, FS_CardinalityType
<1>4. Sizes \subseteq Nat /\ Sizes # {}
  BY <1>3
<1>5. PICK k \in Sizes : \A j \in Sizes : k <= j
  BY <1>4, SmallestNat
<1>6. PICK n \in D : k = Cardinality(Descendants(n))
  OBVIOUS
<1>7. PICK d \in D : d \in dependencies[n]
  BY <1>2
<1>8. /\ Cardinality(Descendants(d)) < Cardinality(Descendants(n))
      /\ Cardinality(Descendants(d)) \in Nat /\ Cardinality(Descendants(n)) \in Nat
  BY <1>1, <1>7, FewerBelow
<1>9. Cardinality(Descendants(n)) <= Cardinality(Descendants(d))
  BY <1>5, <1>6
<1> QED BY <1>8, <1>9

\* A module is reported as blocked exactly when it is on a cycle of instantiations or
\* depends on one (order_state "blocked-cycle").
THEOREM BlockedReachCycles == Spec => []BlockedByCycles
<1>1. IInv => BlockedByCycles
  <2> SUFFICES ASSUME IInv, Reported, NEW m \in Modules
               PROVE  report.rows[m] = "blocked-cycle" <=> ReachesCycle(m)
    BY DEF BlockedByCycles
  <2>1. ready = {} /\ (report.rows[m] = "blocked-cycle" <=> m \notin Listed)
    BY DEF IInv, ReportFinal
  <2>2. CASE m \in Listed
    BY <2>1, <2>2, ListedReachNoCycle
  <2>3. CASE m \notin Listed
    <3>1. SelfSupporting(Modules \ Listed)
      BY <2>1 DEF IInv, ReadyExact, TypeOK, SelfSupporting
    <3>2. ReachesCycle(m)
      BY <2>3, <3>1, CaughtReachCycle DEF IInv
    <3> QED BY <2>1, <2>3, <3>2
  <2> QED BY <2>2, <2>3
<1> QED BY <1>1, Invariance, PTL

\* The worklist loop implements DependencyFirstOrder: each pop lists the
\* alphabetically first module whose dependencies are all listed, and the
\* report comes only when no module could be listed any more.
THEOREM LoopImplementsOrder ==
  Spec => Abstract!Init /\ [][Abstract!Next]_(Abstract!vars)
<1>1. Init => Abstract!Init
  BY DEF Init, Abstract!Init, Reported
<1>2. IInv /\ IInv' /\ [Next]_vars => [Abstract!Next]_(Abstract!vars)
  <2> SUFFICES ASSUME IInv, IInv', [Next]_vars
               PROVE  [Abstract!Next]_(Abstract!vars)
    OBVIOUS
  <2>1. Abstract!Listed = Listed
    BY DEF Abstract!Listed, Listed
  <2>2. \A m \in Modules : Abstract!Candidate(m) <=> m \in ready
    BY <2>1 DEF Abstract!Candidate, IInv, ReadyExact
  <2>3. ASSUME NEW current \in Modules, Pop(current)
        PROVE  Abstract!Next
    <3>1. Abstract!Candidate(current)
      BY <2>2, <2>3 DEF Pop, NextReady
    <3>2. \A n \in Modules : Abstract!Candidate(n) => current <= n
      BY <2>2, <2>3 DEF Pop, NextReady
    <3>3. ordered' = Append(ordered, current) /\ dependencies' = dependencies
      BY <2>3 DEF Pop
    <3>4. Reported' = Reported
      BY <2>3 DEF Pop, Reported, NoReport
    <3>5. Abstract!List(current)
      BY <3>1, <3>2, <3>3, <3>4 DEF Abstract!List
    <3> QED BY <3>5 DEF Abstract!Next
  <2>4. ASSUME Report
        PROVE  Abstract!Next
    <3>1. \A m \in Modules : ~Abstract!Candidate(m)
      BY <2>2, <2>4 DEF Report, LoopEnds
    <3>2. report'.state = ReportState
      BY <2>4 DEF Report
    <3>3. report'.state # "none"
      BY <3>2, ReportStateType DEF ReportStates
    <3>4. Reported' = TRUE
      BY <3>3 DEF Reported, NoReport
    <3>5. dependencies' = dependencies /\ ordered' = ordered
      BY <2>4 DEF Report
    <3> QED BY <3>1, <3>4, <3>5 DEF Abstract!Finish, Abstract!Next
  <2>5. CASE UNCHANGED vars
    BY <2>5 DEF vars, Abstract!vars, Reported, NoReport
  <2> QED BY <2>3, <2>4, <2>5 DEF Next
<1> QED BY <1>1, <1>2, Invariance, PTL DEF Spec

=============================================================================

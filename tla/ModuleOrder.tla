----------------------------- MODULE ModuleOrder ----------------------------
(***************************************************************************)
(* The dependency order of the module order report                         *)
(* (src/pccx_ide_cli/module_organization.py, _module_order_rows and        *)
(* build_module_order_report) as a step machine: the worklist loop over    *)
(* `ready', then the report.                                               *)
(*                                                                         *)
(* The input is the resolved hierarchy of a scan: any directed graph over  *)
(* the declared names, self-instantiations included, each name counted     *)
(* once.  The blockers that are not cycles (incomplete boundary, ambiguous *)
(* name, unresolved instantiation) come down to one set, `flawed'.         *)
(***************************************************************************)
EXTENDS Naturals, Sequences, FiniteSets

CONSTANTS
  Modules,   \* module names, each by its rank in alphabetical order
  FlawSets   \* the sets of modules that may have a blocker other than a cycle

ASSUME ModulesAssumption == Modules \subseteq Nat /\ IsFiniteSet(Modules)
ASSUME FlawSetsAssumption == FlawSets \subseteq SUBSET Modules

VARIABLES
  dependencies,  \* dependencies_by_module
  flawed,        \* modules with a blocked reason that is not a cycle
  remaining,     \* remaining_dependency_count
  level,         \* dependency_levels
  ready,         \* the sorted list `ready', as the set of its names
  ordered,       \* ordered_names
  report         \* what the report says

vars == <<dependencies, flawed, remaining, level, ready, ordered, report>>

OrderStates  == {"ordered", "ordered-with-blockers", "blocked-cycle"}
ReportStates == {"order-detected", "order-detected-with-blockers", "blocked",
                 "no-order-detected"}

NoReport == [state |-> "none", cycleNames |-> {}, rows |-> [m \in Modules |-> "none"]]

Reported == report # NoReport

Listed == {ordered[i] : i \in DOMAIN ordered}

\* dependents_by_module
Dependents(m) == {d \in Modules : m \in dependencies[d]}

TypeOK ==
  /\ dependencies \in [Modules -> SUBSET Modules]
  /\ flawed \in SUBSET Modules
  /\ remaining \in [Modules -> Nat]
  /\ level \in [Modules -> Nat]
  /\ ready \in SUBSET Modules
  /\ ordered \in Seq(Modules)
  /\ report \in {NoReport} \cup [state : ReportStates, cycleNames : SUBSET Modules,
                                 rows : [Modules -> OrderStates]]

-----------------------------------------------------------------------------
\* The counts the loop starts from.
Counts == [m \in Modules |-> Cardinality(dependencies[m])]

Init ==
  /\ dependencies \in [Modules -> SUBSET Modules]
  /\ flawed \in FlawSets
  /\ remaining = Counts
  /\ level = [m \in Modules |-> 0]
  /\ ready = {m \in Modules : remaining[m] = 0}
  /\ ordered = <<>>
  /\ report = NoReport

\* Variants of the pop: the last name instead of the first (the list is
\* appended to and not sorted again); of the level: no max.
NextReadyUnsorted(current) == current \in ready /\ \A n \in ready : n <= current

\* ready.pop(0) of the sorted list.
NextReady(current) == current \in ready /\ \A n \in ready : current <= n

LevelOverwritten(current, d) == level[current] + 1

\* The level of a dependent once `current' is ordered.
LevelAfter(current, d) ==
  IF level[d] < level[current] + 1 THEN level[current] + 1 ELSE level[d]

\* Variant: a dependent is ready while one dependency is still to come.
UnblocksEarly(d) == remaining[d] <= 2

Unblocks(d) == remaining[d] = 1

\* One round of the loop: pop a module and settle all its dependents.
Pop(current) ==
  /\ NextReady(current)
  /\ ordered' = Append(ordered, current)
  /\ remaining' = [d \in Modules |->
       IF d \in Dependents(current) THEN remaining[d] - 1 ELSE remaining[d]]
  /\ level' = [d \in Modules |->
       IF d \in Dependents(current) THEN LevelAfter(current, d) ELSE level[d]]
  /\ ready' = (ready \ {current}) \cup {d \in Dependents(current) : Unblocks(d)}
  /\ UNCHANGED <<dependencies, flawed, report>>

\* Variant: a module stuck on one last dependency is not called blocked.
CycleNamesAboveOne == {m \in Modules : remaining[m] > 1}

\* cycle_names: what the loop left over.
CycleNames == {m \in Modules : remaining[m] > 0}

OrderState(m) ==
  CASE m \notin Listed               -> "blocked-cycle"
    [] m \in Listed /\ m \in flawed  -> "ordered-with-blockers"
    [] m \in Listed \ flawed         -> "ordered"

\* report_state: blocked rows are those with a blocked reason, ready rows the
\* ordered ones without.
ReportState ==
  LET blocked == CycleNames \cup flawed
  IN CASE blocked # {} /\ Listed \ blocked # {} -> "order-detected-with-blockers"
       [] blocked # {} /\ Listed \ blocked = {} -> "blocked"
       [] blocked = {} /\ Listed # {}           -> "order-detected"
       [] blocked = {} /\ Listed = {}           -> "no-order-detected"

LoopEnds == ready = {}

Report ==
  /\ LoopEnds
  /\ ~Reported
  /\ report' = [state |-> ReportState, cycleNames |-> CycleNames,
                rows |-> [m \in Modules |-> OrderState(m)]]
  /\ UNCHANGED <<dependencies, flawed, remaining, level, ready, ordered>>

Next == Report \/ \E current \in Modules : Pop(current)

\* A sequential program: it goes on as long as it can.
Spec == Init /\ [][Next]_vars /\ WF_vars(Next)

-----------------------------------------------------------------------------
(* Properties *)

\* Every module is listed once and after all the modules it instantiates.
DependencyFirst ==
  \A i \in DOMAIN ordered :
    /\ dependencies[ordered[i]] \subseteq {ordered[j] : j \in 1 .. i - 1}
    /\ \A j \in 1 .. i - 1 : ordered[j] # ordered[i]

\* The level of a listed module is one more than the highest level below it:
\* the length of its longest dependency chain, although the order in which
\* dependencies are popped is alphabetical and not by level.
LevelsExact ==
  \A m \in Listed :
    /\ \A d \in dependencies[m] : level[d] < level[m]
    /\ level[m] > 0 => \E d \in dependencies[m] : level[m] = level[d] + 1

\* Every member waits for another member (or for itself): such modules can
\* never all be ordered.
SelfSupporting(S) == \A m \in S : dependencies[m] \cap S # {}

\* The report calls blocked exactly the largest set of modules that wait for
\* one another: it neither blames a module that could be ordered nor orders
\* one that is caught.
BlockedIsLargest ==
  Reported =>
    /\ report.cycleNames = Modules \ Listed
    /\ SelfSupporting(report.cycleNames)
    /\ \A S \in SUBSET Modules : SelfSupporting(S) => S \subseteq report.cycleNames

\* Everything a module depends on, through any number of instantiations.
Descendants(m) ==
  {n \in Modules :
     \A S \in SUBSET Modules :
       (dependencies[m] \subseteq S /\ \A x \in S : dependencies[x] \subseteq S) => n \in S}

ReachesCycle(m) == \E n \in {m} \cup Descendants(m) : n \in Descendants(n)

\* Reference definition of the blocked rows: a module is blocked by a cycle
\* when it is on one or depends, however indirectly, on a module that is.
BlockedByCycles ==
  Reported => \A m \in Modules : report.rows[m] = "blocked-cycle" <=> ReachesCycle(m)

\* The worklist computes the promised order: see DependencyFirstOrder.
Abstract == INSTANCE DependencyFirstOrder WITH order <- ordered, finished <- Reported

AbstractSpec == Abstract!Spec

=============================================================================

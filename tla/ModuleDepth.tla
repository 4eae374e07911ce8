----------------------------- MODULE ModuleDepth ----------------------------
(***************************************************************************)
(* The depth levels of the module depth report                             *)
(* (src/pccx_ide_cli/module_organization.py, _module_depth_rows and        *)
(* build_module_depth_report) as a step machine: the loop over the queue,  *)
(* then the report.                                                        *)
(*                                                                         *)
(* The input is the resolved hierarchy of a scan, any directed graph over  *)
(* the declared names; `roots' are the names no resolved edge points to    *)
(* (_build_hierarchy).                                                     *)
(***************************************************************************)
EXTENDS Hierarchy, Sequences

VARIABLES
  children,  \* children_by_parent
  queue,     \* pairs <<module, depth>>
  depths,    \* the dict `depths'
  report     \* what the report says

vars == <<children, queue, depths, report>>

Placed == DOMAIN depths

NoReport == [state |-> "none", levels |-> {}, unplaced |-> {}]

Reported == report # NoReport

TypeOK ==
  /\ children \in [Modules -> SUBSET Modules]
  /\ queue \in Seq(Modules \X Nat)
  /\ Placed \subseteq Modules
  /\ depths \in [Placed -> Nat]
  /\ report \in {NoReport} \cup [state : {"depths-detected", "no-depths-detected"},
                                 levels : SUBSET (Nat \X SUBSET Modules),
                                 unplaced : SUBSET Modules]

-----------------------------------------------------------------------------
Parents(m) == {p \in Modules : m \in children[p]}

\* Variant: a module that only instantiates itself counts as a root.
RootsIgnoringSelf == {m \in Modules : Parents(m) \subseteq {m}}

\* hierarchy["roots"]
Roots == {m \in Modules : Parents(m) = {}}

\* sorted(S), each paired with a depth
Sorted(S, depth) ==
  {s \in [1 .. Cardinality(S) -> S \X {depth}] :
     /\ \A m \in S : \E i \in DOMAIN s : s[i][1] = m
     /\ \A i, j \in DOMAIN s : i < j => s[i][1] < s[j][1]}

Init ==
  /\ children \in Graphs
  /\ queue \in Sorted(Roots, 0)
  /\ depths = <<>>
  /\ report = NoReport

\* previous_depth is not None and previous_depth <= depth
Known(m, depth) == m \in Placed /\ depths[m] <= depth

Skip ==
  /\ queue # <<>>
  /\ Known(Head(queue)[1], Head(queue)[2])
  /\ queue' = Tail(queue)
  /\ UNCHANGED <<children, depths, report>>

\* Variant: the children go to the front of the queue.
EnqueuedFirst(s) == s \o Tail(queue)

Enqueued(s) == Tail(queue) \o s

\* Variant: the children get the depth of the module.
SameDepth(depth) == depth

ChildDepth(depth) == depth + 1

Place ==
  /\ queue # <<>>
  /\ LET m == Head(queue)[1]
         depth == Head(queue)[2]
     IN /\ ~Known(m, depth)
        /\ depths' = [n \in Placed \cup {m} |-> IF n = m THEN depth ELSE depths[n]]
        /\ \E s \in Sorted(children[m], ChildDepth(depth)) : queue' = Enqueued(s)
  /\ UNCHANGED <<children, report>>

Levels == {<<depths[m], {n \in Placed : depths[n] = depths[m]}>> : m \in Placed}

LoopEnds == queue = <<>>

Report ==
  /\ LoopEnds
  /\ ~Reported
  /\ report' = [state |-> IF Levels # {} THEN "depths-detected" ELSE "no-depths-detected",
                levels |-> Levels,
                unplaced |-> Modules \ Placed]
  /\ UNCHANGED <<children, queue, depths>>

Next == Skip \/ Place \/ Report

\* A sequential program: it goes on as long as it can.
Spec == Init /\ [][Next]_vars /\ WF_vars(Next)

-----------------------------------------------------------------------------
(* Properties *)

\* A depth is never revised: the queue yields modules nearest first, so that
\* the code's comparison with an earlier, larger depth never succeeds.
NeverRevised == [][\A m \in Placed : m \in Placed' /\ depths'[m] = depths[m]]_vars

\* In the end every edge below a root is accounted for: roots have depth 0,
\* every other module one more than some parent of it, and no parent of it
\* is further up than that.
DepthsLocal ==
  Reported =>
    \A m \in Placed :
      /\ depths[m] = 0 <=> m \in Roots
      /\ depths[m] > 0 => \E p \in Parents(m) \cap Placed : depths[m] = depths[p] + 1
      /\ \A c \in children[m] : c \in Placed /\ depths[c] <= depths[m] + 1

\* Modules at most n instantiations below a root.
Within[n \in Nat] ==
  IF n = 0 THEN Roots ELSE Within[n - 1] \cup UNION {children[p] : p \in Within[n - 1]}

\* Reference definition: the depth of a module is the length of the shortest
\* chain of instantiations from a root, and every level up to the last is
\* there.
LevelsAreDistances ==
  Reported =>
    /\ \A level \in report.levels :
         level[2] = Within[level[1]] \ (IF level[1] = 0 THEN {} ELSE Within[level[1] - 1])
    /\ {level[1] : level \in report.levels} = 0 .. Cardinality(report.levels) - 1

\* No root above, and none above its parents: such modules hang below a
\* cycle that nothing else instantiates.
Detached(S) == \A m \in S : Parents(m) # {} /\ Parents(m) \subseteq S

\* The report leaves out exactly the largest detached set.
UnplacedIsLargest ==
  Reported =>
    /\ Detached(report.unplaced)
    /\ \A S \in SUBSET Modules : Detached(S) => S \subseteq report.unplaced

\* The queue walk keeps the promise of NearestFirst.
Abstract == INSTANCE NearestFirst WITH finished <- Reported

AbstractSpec == Abstract!Spec

=============================================================================

---------------------------- MODULE ReachableNames --------------------------
(***************************************************************************)
(* The walk behind the module reachability report                          *)
(* (src/pccx_ide_cli/module_organization.py, _reachable_names) as a step   *)
(* machine: one step for each child looked at and one for each return of   *)
(* visit().  The report walks twice for each module, over dependencies and *)
(* over dependents; the second graph is the first one turned round, and    *)
(* any graph is allowed here.                                              *)
(***************************************************************************)
EXTENDS Hierarchy, Sequences

VARIABLES
  adjacency,  \* adjacency: dependencies or dependents of each module
  start,
  stack,      \* calls of visit(): the module, and its children still to come
  reachable,
  markers     \* cycle_markers

walkVars == <<adjacency, start, stack, reachable, markers>>

Frame == [module : Modules, todo : SUBSET Modules]

Current == stack[Len(stack)]

OnStack == {stack[i].module : i \in DOMAIN stack}

WalkTypeOK ==
  /\ adjacency \in [Modules -> SUBSET Modules]
  /\ start \in Modules
  /\ stack \in Seq(Frame)
  /\ reachable \in SUBSET Modules
  /\ markers \in SUBSET Modules

Done == stack = <<>>

-----------------------------------------------------------------------------
WalkInit ==
  /\ adjacency \in Graphs
  /\ start \in Modules
  /\ stack = <<[module |-> start, todo |-> adjacency[start]]>>
  /\ reachable = {}
  /\ markers = {}

\* The child the loop comes to: the first of sorted(adjacency[current]) left.
NextChild(c) ==
  /\ ~Done
  /\ c \in Current.todo
  /\ \A d \in Current.todo : c <= d

\* The loop goes on without a call.
Advance(c) == stack' = [stack EXCEPT ![Len(stack)].todo = @ \ {c}]

\* Variants of the test for a cycle: only the start is looked for; whatever
\* was seen before counts as a cycle.
ClosesAtStart(c) == c = start

ClosesWhenSeen(c) == c = start \/ c \in reachable

\* child == start or child in stack
Closes(c) == c = start \/ c \in OnStack

Mark(c) ==
  /\ NextChild(c)
  /\ Closes(c)
  /\ markers' = markers \cup {c}
  /\ Advance(c)
  /\ UNCHANGED <<adjacency, start, reachable>>

Pass(c) ==
  /\ NextChild(c)
  /\ ~Closes(c)
  /\ c \in reachable
  /\ Advance(c)
  /\ UNCHANGED <<adjacency, start, reachable, markers>>

\* Variant: the module is entered but not added.
VisitForgets(c) ==
  /\ NextChild(c)
  /\ ~Closes(c)
  /\ c \notin reachable
  /\ stack' = Append([stack EXCEPT ![Len(stack)].todo = @ \ {c}],
                     [module |-> c, todo |-> adjacency[c]])
  /\ UNCHANGED <<adjacency, start, reachable, markers>>

Visit(c) ==
  /\ NextChild(c)
  /\ ~Closes(c)
  /\ c \notin reachable
  /\ reachable' = reachable \cup {c}
  /\ stack' = Append([stack EXCEPT ![Len(stack)].todo = @ \ {c}],
                     [module |-> c, todo |-> adjacency[c]])
  /\ UNCHANGED <<adjacency, start, markers>>

Return ==
  /\ ~Done
  /\ Current.todo = {}
  /\ stack' = SubSeq(stack, 1, Len(stack) - 1)
  /\ UNCHANGED <<adjacency, start, reachable, markers>>

WalkNext == Return \/ \E c \in Modules : Mark(c) \/ Pass(c) \/ Visit(c)

\* A sequential program: it goes on as long as it can.
WalkSpec == WalkInit /\ [][WalkNext]_walkVars /\ WF_walkVars(WalkNext)

-----------------------------------------------------------------------------
(* Properties *)

Closed(S) == \A m \in S : adjacency[m] \subseteq S

\* Everything a module leads to, through any number of edges.
Descendants(m) ==
  {n \in Modules : \A S \in SUBSET Modules : adjacency[m] \subseteq S /\ Closed(S) => n \in S}

\* The walk finds exactly the modules the start leads to, itself excepted.
ReachableExact == Done => reachable = Descendants(start) \ {start}

\* Each marker lies on a cycle that the start leads to, already when it is set.
MarkersOnCycles ==
  \A k \in markers : k \in Descendants(k) /\ k \in {start} \cup Descendants(start)

\* Every member leads on to a member: such a set holds a cycle.
Endless(S) == \A m \in S : adjacency[m] \cap S # {}

\* The row is blocked for a cycle exactly when the start leads to one, although
\* the walk enters every module once and can miss cycles: it never misses all.
MarkersDetectCycles ==
  Done =>
    (markers = {} <=> \A S \in SUBSET ({start} \cup reachable) : Endless(S) => S = {})

=============================================================================

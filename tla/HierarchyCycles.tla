--------------------------- MODULE HierarchyCycles ---------------------------
(***************************************************************************)
(* The search of the hierarchy cycle report                                *)
(* (src/pccx_ide_cli/module_organization.py, _hierarchy_cycle_rows) as a   *)
(* step machine: one step for each edge looked at, for each return of      *)
(* visit() and for each start.                                             *)
(*                                                                         *)
(* A parent may instantiate a child several times: an edge is a child and  *)
(* the rank of the instance in source order.                               *)
(*                                                                         *)
(* Python bounds how deep calls are nested, and nothing catches the        *)
(* RecursionError of a search that goes deeper: there is no report then.   *)
(***************************************************************************)
EXTENDS Naturals, Sequences, FiniteSets

CONSTANTS
  Modules,         \* module names, each by its rank in alphabetical order
  Instances,       \* ranks of the instances of one child in one parent
  Graphs,          \* the hierarchies considered
  RecursionLimits, \* the limits considered
  InnerCalls       \* how many calls are nested in a visit() that closes a cycle

ASSUME ModulesAssumption == Modules \subseteq Nat
ASSUME InstancesAssumption == Instances \subseteq Nat
ASSUME GraphsAssumption == Graphs \subseteq [Modules -> SUBSET (Modules \X Instances)]
ASSUME LimitAssumption == RecursionLimits \subseteq Nat \ {0} /\ InnerCalls \in Nat \ {0}

VARIABLES
  adjacency,      \* resolved edges of each module
  recursionLimit, \* how many calls may be nested, from the first visit() on
  starts,         \* module names that are still to be started from
  modulePath,     \* module_path of the innermost visit()
  edgePath,       \* edge_path of the innermost visit()
  todo,           \* for each call of visit(), the edges still to come
  seen,           \* keys of the cycles found
  cycles,         \* rows in the order they are found
  report          \* cycle_state, and for each row the number in its cycle_id; or that
                  \* the search failed

vars == <<adjacency, recursionLimit, starts, modulePath, edgePath, todo, seen, cycles,
          report>>

Edge == Modules \X Instances

Child(e) == e[1]

\* Paths without repetition.
Simple(p) == \A i, j \in DOMAIN p : p[i] = p[j] => i = j

Row == [modules : Seq(Modules), edges : Seq(Edge)]

NoReport == [state |-> "none", cycleId |-> <<>>]

Failure == [state |-> "failed", cycleId |-> <<>>]

Failed   == report = Failure
Reported == report \notin {NoReport, Failure}

Idle == modulePath = <<>>

TypeOK ==
  /\ adjacency \in [Modules -> SUBSET Edge]
  /\ recursionLimit \in RecursionLimits
  /\ starts \in SUBSET Modules
  /\ modulePath \in Seq(Modules) /\ Simple(modulePath)
  /\ edgePath \in Seq(Edge)
  /\ todo \in Seq(SUBSET Edge)
  /\ \A k \in seen : k \in Seq(Modules) /\ Simple(k)
  /\ cycles \in Seq(Row)
  /\ report \in {NoReport, Failure} \cup [state : {"cycles-detected", "no-cycles-detected"},
                                          cycleId : [DOMAIN cycles -> Nat]]

-----------------------------------------------------------------------------
\* The sort key of an edge: the child, then the place.
Before(e, f) == e[1] < f[1] \/ (e[1] = f[1] /\ e[2] <= f[2])

\* cycle[index:] + cycle[:index]
Rotated(p, i) == [j \in DOMAIN p |-> p[IF i + j <= Len(p) THEN i + j ELSE i + j - Len(p)]]

\* Variants of the key: the path as it was walked; the set of its
\* modules.
CycleKeyAsWalked(p) == SubSeq(p, 1, Len(p) - 1)

CycleKeyAsSet(p) ==
  LET cycle == SubSeq(p, 1, Len(p) - 1)
  IN CHOOSE s \in [DOMAIN cycle -> {cycle[i] : i \in DOMAIN cycle}] :
       \A i, j \in DOMAIN s : i < j => s[i] < s[j]

\* min(rotations): no module occurs twice, so that the first one decides.
CycleKey(p) ==
  LET cycle == SubSeq(p, 1, Len(p) - 1)
      rotations == {Rotated(cycle, i) : i \in 0 .. Len(cycle) - 1}
  IN CHOOSE r \in rotations : \A q \in rotations : r[1] <= q[1]

Init ==
  /\ adjacency \in Graphs
  /\ recursionLimit \in RecursionLimits
  /\ starts = Modules
  /\ modulePath = <<>>
  /\ edgePath = <<>>
  /\ todo = <<>>
  /\ seen = {}
  /\ cycles = <<>>
  /\ report = NoReport

Begin ==
  /\ Idle
  /\ \E s \in starts :
       /\ \A m \in starts : s <= m
       /\ starts' = starts \ {s}
       /\ modulePath' = <<s>>
       /\ todo' = <<adjacency[s]>>
  /\ UNCHANGED <<adjacency, recursionLimit, edgePath, seen, cycles, report>>

\* Variant: of several instances the last one comes first.
NextEdgeLastInstance(e) ==
  /\ ~Idle /\ ~Failed
  /\ e \in todo[Len(todo)]
  /\ \A f \in todo[Len(todo)] : Before(<<e[1], f[2]>>, <<f[1], e[2]>>)

\* The edge the loop comes to: edges are sorted by child, then by place.
NextEdge(e) ==
  /\ ~Idle /\ ~Failed
  /\ e \in todo[Len(todo)]
  /\ \A f \in todo[Len(todo)] : Before(e, f)

Without(e) == [todo EXCEPT ![Len(todo)] = @ \ {e}]

Closed(e) == Append(modulePath, Child(e))

\* So many more calls may be nested.
RoomFor(calls) == Len(modulePath) + calls <= recursionLimit

Repeat(e) ==
  /\ NextEdge(e)
  /\ Child(e) = modulePath[1]
  /\ RoomFor(InnerCalls)
  /\ CycleKey(Closed(e)) \in seen
  /\ todo' = Without(e)
  /\ UNCHANGED <<adjacency, recursionLimit, starts, modulePath, edgePath, seen,
                 cycles, report>>

Found(e) ==
  /\ NextEdge(e)
  /\ Child(e) = modulePath[1]
  /\ RoomFor(InnerCalls)
  /\ CycleKey(Closed(e)) \notin seen
  /\ seen' = seen \cup {CycleKey(Closed(e))}
  /\ cycles' = Append(cycles, [modules |-> Closed(e), edges |-> Append(edgePath, e)])
  /\ todo' = Without(e)
  /\ UNCHANGED <<adjacency, recursionLimit, starts, modulePath, edgePath, report>>

OnPath(m) == \E i \in DOMAIN modulePath : modulePath[i] = m

Prune(e) ==
  /\ NextEdge(e)
  /\ Child(e) # modulePath[1]
  /\ OnPath(Child(e))
  /\ todo' = Without(e)
  /\ UNCHANGED <<adjacency, recursionLimit, starts, modulePath, edgePath, seen,
                 cycles, report>>

\* Variant: the edge path is not extended.
DescendWithoutEdge(e) ==
  /\ NextEdge(e)
  /\ ~OnPath(Child(e))
  /\ RoomFor(1)
  /\ modulePath' = Append(modulePath, Child(e))
  /\ todo' = Append(Without(e), adjacency[Child(e)])
  /\ UNCHANGED <<adjacency, recursionLimit, starts, edgePath, seen, cycles, report>>

\* Variant: a module may be visited again further down.
DescendAgain(e) ==
  /\ NextEdge(e)
  /\ Child(e) # modulePath[1]
  /\ RoomFor(1)
  /\ modulePath' = Append(modulePath, Child(e))
  /\ edgePath' = Append(edgePath, e)
  /\ todo' = Append(Without(e), adjacency[Child(e)])
  /\ UNCHANGED <<adjacency, recursionLimit, starts, seen, cycles, report>>

Descend(e) ==
  /\ NextEdge(e)
  /\ ~OnPath(Child(e))
  /\ RoomFor(1)
  /\ modulePath' = Append(modulePath, Child(e))
  /\ edgePath' = Append(edgePath, e)
  /\ todo' = Append(Without(e), adjacency[Child(e)])
  /\ UNCHANGED <<adjacency, recursionLimit, starts, seen, cycles, report>>

\* No call can be nested that is needed: that of _cycle_key() with its list
\* comprehension, or that of visit().  The calls for the edges of a row are as many as
\* those for its key and come after them.
Overflow(e) ==
  /\ NextEdge(e)
  /\ \/ Child(e) = modulePath[1] /\ ~RoomFor(InnerCalls)
     \/ ~OnPath(Child(e)) /\ ~RoomFor(1)
  /\ report' = Failure
  /\ UNCHANGED <<adjacency, recursionLimit, starts, modulePath, edgePath, todo, seen,
                 cycles>>

\* The outermost call has no edge behind it.
Return ==
  /\ ~Idle /\ ~Failed
  /\ todo[Len(todo)] = {}
  /\ modulePath' = SubSeq(modulePath, 1, Len(modulePath) - 1)
  /\ edgePath' = IF edgePath = <<>> THEN <<>> ELSE SubSeq(edgePath, 1, Len(edgePath) - 1)
  /\ todo' = SubSeq(todo, 1, Len(todo) - 1)
  /\ UNCHANGED <<adjacency, recursionLimit, starts, seen, cycles, report>>

\* Variant: shorter cycles first.
PrecedesShorter(p, q) ==
  \/ Len(p) < Len(q)
  \/ /\ Len(p) = Len(q)
     /\ \/ p = q
        \/ \E k \in DOMAIN p : p[k] < q[k] /\ \A i \in 1 .. k - 1 : p[i] = q[i]

\* p before q, compared module by module (summary): the separator of a summary
\* sorts before the characters of a name.
Precedes(p, q) ==
  \/ Len(p) <= Len(q) /\ p = SubSeq(q, 1, Len(p))
  \/ \E k \in DOMAIN p \cap DOMAIN q :
       p[k] < q[k] /\ \A i \in 1 .. k - 1 : p[i] = q[i]

\* cycles.sort(), then a cycle_id by position: summaries are different, so the
\* position of a row is the number of rows that do not come after it.
Report ==
  /\ Idle
  /\ starts = {}
  /\ ~Reported
  /\ report' =
       [state |-> IF cycles # <<>> THEN "cycles-detected" ELSE "no-cycles-detected",
        cycleId |-> [i \in DOMAIN cycles |->
          Cardinality({j \in DOMAIN cycles : Precedes(cycles[j].modules, cycles[i].modules)})]]
  /\ UNCHANGED <<adjacency, recursionLimit, starts, modulePath, edgePath, todo, seen,
                 cycles>>

Next ==
  \/ Begin
  \/ Return
  \/ Report
  \/ \E e \in Edge : Repeat(e) \/ Found(e) \/ Prune(e) \/ Descend(e) \/ Overflow(e)

Spec == Init /\ [][Next]_vars

-----------------------------------------------------------------------------
(* Properties *)

Children(m) == {Child(e) : e \in adjacency[m]}

\* The module after the k-th one when p is walked round and round.
After(p, k) == IF k < Len(p) THEN p[k + 1] ELSE p[1]

\* An elementary cycle: closed by an edge, and no module twice.
IsCycle(p) ==
  /\ p # <<>>
  /\ Simple(p)
  /\ \A k \in DOMAIN p : After(p, k) \in Children(p[k])

SmallestFirst(p) == \A k \in DOMAIN p : p[1] <= p[k]

\* At any time a row describes an elementary cycle from its alphabetically
\* first module on, although the search also walks it from all its other
\* modules; and its edges are instances that lead from each module to the next.
RowsAreCycles ==
  \A r \in DOMAIN cycles :
    LET path == cycles[r].modules
        edges == cycles[r].edges
        p == SubSeq(path, 1, Len(path) - 1)
    IN /\ IsCycle(p) /\ SmallestFirst(p)
       /\ path = Append(p, p[1])
       /\ Len(edges) = Len(p)
       /\ \A k \in DOMAIN p : edges[k] \in adjacency[p[k]] /\ Child(edges[k]) = After(p, k)

\* In the end no elementary cycle is missing.
AllCyclesFound ==
  Reported =>
    \A n \in 1 .. Cardinality(Modules) : \A p \in [1 .. n -> Modules] :
      IsCycle(p) /\ SmallestFirst(p) =>
        \E r \in DOMAIN cycles : cycles[r].modules = Append(p, p[1])

Steps(path) == {<<path[k], path[k + 1]>> : k \in 1 .. Len(path) - 1}

\* No cycle is found twice, wherever it was entered and through whichever
\* instances: two rows never take the same steps.
EachCycleOnce ==
  \A q, r \in DOMAIN cycles : Steps(cycles[q].modules) = Steps(cycles[r].modules) => q = r

\* A row shows the first instance of each child in each parent, although
\* every combination of instances is walked.
FirstInstances ==
  \A k \in DOMAIN cycles :
    \A i \in DOMAIN cycles[k].edges :
      \A f \in adjacency[cycles[k].modules[i]] :
        Child(f) = Child(cycles[k].edges[i]) => cycles[k].edges[i][2] <= f[2]

\* Sorting the rows changes nothing: cycles are found in the order of their ids.
FoundInOrder == Reported => \A i \in DOMAIN cycles : report.cycleId[i] = i

\* Modules that are all different, each of which instantiates the next.
IsChain(p) == Simple(p) /\ \A k \in 1 .. Len(p) - 1 : p[k + 1] \in Children(p[k])

\* Neither cycles nor the many ways through repeated instances exhaust the stack: a
\* search that fails has come down a chain of different modules that is itself about
\* as long as calls may be nested.
FailsOnlyOnLongChains ==
  Failed => IsChain(modulePath) /\ Len(modulePath) + InnerCalls > recursionLimit

=============================================================================

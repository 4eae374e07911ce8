------------------------- MODULE MCHierarchyCycles --------------------------
EXTENDS HierarchyCycles

\* At most three instances, of the modules in S.
FewInstances(S) ==
  {es \in SUBSET (S \X Instances) :
     /\ Cardinality(es) <= 3
     /\ \A e \in es : e[2] > 1 => <<e[1], e[2] - 1>> \in es}

Small(S) ==
  {[m \in Modules |-> IF m \in S THEN g[m] ELSE {}] : g \in [S -> FewInstances(S)]}

\* One instance of at least two of the other modules.
Dense ==
  {g \in [Modules -> {es \in SUBSET (Modules \X {1}) : Cardinality(es) > 1}] :
     \A m \in Modules : <<m, 1>> \notin g[m]}

MCGraphs == Small({1, 2, 3}) \cup Dense

=============================================================================

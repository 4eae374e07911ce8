-------------------------- MODULE MCReachableNames --------------------------
EXTENDS ReachableNames

\* Every hierarchy in which a module has two different children at most.
Binary == {g \in [Modules -> SUBSET Modules] : \A m \in Modules : Cardinality(g[m]) <= 2}

=============================================================================

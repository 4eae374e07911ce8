------------------------ MODULE DependencyFirstOrder ------------------------
(***************************************************************************)
(* What a module order report promises: a dependency-first order of the    *)
(* modules that can be ordered, the alphabetically first candidate each    *)
(* time, and nothing left out that could still be ordered.                 *)
(***************************************************************************)
EXTENDS Naturals, Sequences

CONSTANT Modules  \* module names, each by its rank in alphabetical order

VARIABLES
  dependencies,  \* the modules a module instantiates
  order,         \* the modules in review order
  finished

vars == <<dependencies, order, finished>>

Listed == {order[i] : i \in DOMAIN order}

Candidate(m) == m \in Modules \ Listed /\ dependencies[m] \subseteq Listed

Init ==
  /\ dependencies \in [Modules -> SUBSET Modules]
  /\ order = <<>>
  /\ finished = FALSE

List(m) ==
  /\ Candidate(m)
  /\ \A n \in Modules : Candidate(n) => m <= n
  /\ order' = Append(order, m)
  /\ UNCHANGED <<dependencies, finished>>

Finish ==
  /\ \A m \in Modules : ~Candidate(m)
  /\ finished' = TRUE
  /\ UNCHANGED <<dependencies, order>>

Next == Finish \/ \E m \in Modules : List(m)

Spec == Init /\ [][Next]_vars /\ WF_vars(Next)

=============================================================================

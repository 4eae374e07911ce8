---------------------------- MODULE NearestFirst ----------------------------
(***************************************************************************)
(* What a module depth report promises: modules are placed nearest to the  *)
(* roots first, each once and for all, with a depth one more than its      *)
(* nearest parent's, until no module below a root is left.                 *)
(***************************************************************************)
EXTENDS Naturals

CONSTANT Modules

VARIABLES
  children,  \* the modules a module instantiates
  depths,    \* the depth of every module placed so far
  finished

vars == <<children, depths, finished>>

Placed == DOMAIN depths

Roots == {m \in Modules : \A p \in Modules : m \notin children[p]}

\* Depths at which m could be placed now.
Offers(m) ==
  (IF m \in Roots THEN {0} ELSE {}) \cup
  {depths[p] + 1 : p \in {q \in Placed : m \in children[q]}}

Init ==
  /\ children \in [Modules -> SUBSET Modules]
  /\ depths = <<>>
  /\ finished = FALSE

Place(m, d) ==
  /\ m \in Modules \ Placed
  /\ d \in Offers(m)
  /\ \A n \in Modules \ Placed : \A e \in Offers(n) : d <= e
  /\ depths' = [n \in Placed \cup {m} |-> IF n = m THEN d ELSE depths[n]]
  /\ UNCHANGED <<children, finished>>

Finish ==
  /\ \A m \in Modules \ Placed : Offers(m) = {}
  /\ finished' = TRUE
  /\ UNCHANGED <<children, depths>>

Next == Finish \/ \E m \in Modules : \E d \in Offers(m) : Place(m, d)

Spec == Init /\ [][Next]_vars /\ WF_vars(Next)

=============================================================================

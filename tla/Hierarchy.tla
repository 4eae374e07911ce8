------------------------------ MODULE Hierarchy -----------------------------
(***************************************************************************)
(* What the walks over the resolved hierarchy of a scan are given          *)
(* (src/pccx_ide_cli/module_organization.py, _build_hierarchy): module     *)
(* names and, for each, the names it instantiates.  Any directed graph is  *)
(* one, self-instantiations included; each name is counted once.           *)
(***************************************************************************)
EXTENDS Naturals, FiniteSets

CONSTANTS
  Modules,  \* module names, each by its rank in alphabetical order
  Graphs    \* the hierarchies considered

ASSUME ModulesAssumption == Modules \subseteq Nat /\ IsFiniteSet(Modules)
ASSUME GraphsAssumption == Graphs \subseteq [Modules -> SUBSET Modules]

=============================================================================

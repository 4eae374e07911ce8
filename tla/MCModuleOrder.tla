---------------------------- MODULE MCModuleOrder ---------------------------
(* Small instances of ModuleOrder for TLC. *)
EXTENDS ModuleOrder

\* Either no blocker besides cycles, or the alphabetically first or last
\* module has one, or all have.
SomeFlaws == {{}, {1}, {4}, Modules}
=============================================================================

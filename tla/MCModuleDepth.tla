--------------------------- MODULE MCModuleDepth ----------------------------
EXTENDS ModuleDepth

\* Every hierarchy of these modules.
AllGraphs == [Modules -> SUBSET Modules]

=============================================================================

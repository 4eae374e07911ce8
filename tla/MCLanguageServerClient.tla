----------------------- MODULE MCLanguageServerClient -----------------------
(* Small instances of LanguageServerClient for TLC. *)
EXTENDS LanguageServerClient, TLC

CONSTANTS c1, c2, c3, d1, d2

\* Three calls on one document.
OneDoc == [c \in Calls |-> d1]

\* c1 and c2 race for d1, c3 is about another document.
TwoDocs == [c \in Calls |-> IF c = c3 THEN d2 ELSE d1]

Symmetry == Permutations(Calls)
=============================================================================

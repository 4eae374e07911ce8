-------------------------- MODULE MCOutputSummaries --------------------------
(* Texts of up to six pieces: empty ones, short ones and over-long ones.  *)
EXTENDS OutputSummaries

MCTexts == UNION {[1..n -> {0, 1, 3}] : n \in 1..6}

=============================================================================

-------------------------- MODULE MCValidationGates --------------------------
(* Model values for ValidationGates: names of the proposals that are offered,
   and each way to pass one, with one thing in it that the audit looks for. *)
EXTENDS ValidationGates, TLC

Symmetry == Permutations(Runs)

Exactly(id) == [id |-> id, padded |-> FALSE]
Baseline    == Exactly("pytestBaseline")
Names == {Exactly(id) : id \in Offered \cup {"otherWord"}}
         \cup {[Baseline EXCEPT !.padded = TRUE]}

Plain(form, n) == [NoInput EXCEPT !.form = form, !.name = n]

\* A proposal the caller holds, as it is or changed.
Changed(p) == {[p EXCEPT !.claims = TRUE]}
  \cup {[p EXCEPT !.command = c] : c \in {"malformed", "handoff", "editorBridgeSmoke"}}
Carried(proposals) ==
  proposals \cup UNION {Changed(p) : p \in {q \in proposals : q.name = Baseline}}

MCInputs(proposals) ==
  {NoInput, Plain("text", Exactly("noWord")), Plain("text", Exactly("futureXsimLogAnalysis"))}
  \cup {Plain(form, n) : form \in {"text", "proposalId"}, n \in Names}
  \cup {[Plain("proposalId", Baseline) EXCEPT !.extra = x] : x \in Extras}
  \cup {[NoInput EXCEPT !.form = form, !.proposal = p] :
          form \in {"proposal", "itself"}, p \in {q \in proposals : q.name = Baseline}}
  \cup {[Plain("both", n) EXCEPT !.proposal = p] : n \in Names, p \in Carried(proposals)}

=============================================================================

--------------------------- MODULE ValidationGates ---------------------------
(***************************************************************************)
(* The commands about validation proposals in one session of the extension *)
(* (extension.mjs): one lists them, one audits one, the user picking it or *)
(* the caller passing it in, one runs one.  In between the user changes    *)
(* the settings, and the diagnostics handoff comes and goes: what a        *)
(* caller holds, and what a quick pick was opened with, is as old as it    *)
(* is.  The processes of the runner are the matter of ValidationCommands.  *)
(***************************************************************************)
EXTENDS ProposalAudit

CONSTANTS
  Runs,     \* invocations of the commands
  Offered,  \* the proposals of the list that are used: a bound
  Inputs(_) \* what a caller passes, given the proposals he holds

ASSUME OfferedAssumption == Offered \subseteq Ids
ASSUME InputsAssumption ==
  \A proposals \in SUBSET {Listed(id, h) : id \in Offered, h \in Handoffs} :
    Inputs(proposals) \subseteq Input

VARIABLES
  config,   \* the settings: "invalid", "disabled", "enabled"
  summary,  \* runtime.diagnosticsHandoffSummary: "absent", "good", "bad"
  shown,    \* runtime.recentDiagnosticsHandoffStatus: what was shown, or "nothing"
  held,     \* the listed proposals a caller holds
  run       \* where each invocation stands

vars == <<config, summary, shown, held, run>>

NoInput == [form |-> "nothing", name |-> NoProposal.name, proposal |-> NoProposal,
            extra |-> "none"]
Idle == [stage |-> "idle", input |-> NoInput, handoff |-> "absent", enabled |-> FALSE,
         passed |-> FALSE, reported |-> "absent", executed |-> "none"]

TypeOK ==
  /\ config \in {"invalid", "disabled", "enabled"}
  /\ summary \in {"absent", "good", "bad"}
  /\ shown \in {"nothing", "absent", "good"}
  /\ held \subseteq {Listed(id, h) : id \in Offered, h \in Handoffs}
  /\ run \in [Runs -> [stage : {"idle", "picking", "audited", "accepted", "blocked", "threw"},
                       input : Input, handoff : Handoffs \cup {"absent"}, enabled : BOOLEAN,
                       passed : BOOLEAN, reported : Handoffs \cup {"absent"},
                       executed : Commands]]

Init ==
  /\ config \in {"invalid", "disabled", "enabled"}
  /\ summary = "absent"
  /\ shown = "nothing"
  /\ held = {}
  /\ run = [r \in Runs |-> Idle]

-----------------------------------------------------------------------------
(* The handoff *)

\* A surface is made of the summary; of none, the built-in placeholder is shown.
Showable == summary # "bad"

\* diagnosticsHandoffStatusFromRuntime() and the section of the bundle: what was
\* shown last, or what the summary makes now.  No summary is not unavailable.
Handoff == IF shown # "nothing" \/ Showable THEN "available" ELSE "unavailable"

\* Variant: a summary that cannot be shown is forgotten.
ShowHandoffForgets ==
  /\ shown' = IF Showable THEN summary ELSE "nothing"
  /\ UNCHANGED <<config, summary, held, run>>

\* The command that shows it; an exception leaves what was shown before.
ShowHandoff ==
  /\ shown' = IF Showable THEN summary ELSE shown
  /\ UNCHANGED <<config, summary, held, run>>

SetSummary(s) ==
  /\ summary' = s
  /\ UNCHANGED <<config, shown, held, run>>

SetConfig(c) ==
  /\ config' = c
  /\ UNCHANGED <<summary, shown, held, run>>

-----------------------------------------------------------------------------
(* The commands; settings that do not normalize make each of them throw *)

Propose ==
  /\ config # "invalid"
  /\ held' = held \cup {Listed(id, Handoff) : id \in Offered}
  /\ UNCHANGED <<config, summary, shown, run>>

Set(r, fields) ==
  /\ run' = [run EXCEPT ![r] = fields]
  /\ UNCHANGED <<config, summary, shown, held>>

Audit1(r, input, handoff) ==
  Set(r, [Idle EXCEPT !.stage = "audited", !.input = input,
                      !.passed = Audit(input, handoff).passed,
                      !.reported = Audit(input, handoff).handoff])

Throw(r) ==
  /\ run[r].stage = "idle"
  /\ config = "invalid"
  /\ Set(r, [Idle EXCEPT !.stage = "threw"])

\* The audit with an input.
AuditInput(r, input) ==
  /\ run[r].stage = "idle"
  /\ config # "invalid"
  /\ Audit1(r, input, Handoff)

\* The audit without one: the context is taken, then the quick pick opens.
AuditAsk(r) ==
  /\ run[r].stage = "idle"
  /\ config # "invalid"
  /\ Set(r, [Idle EXCEPT !.stage = "picking", !.handoff = Handoff])

\* The user picks a proposal, whose id is audited.
AuditPick(r, id) ==
  /\ run[r].stage = "picking"
  /\ Audit1(r, [NoInput EXCEPT !.form = "text", !.name = [id |-> id, padded |-> FALSE]],
            run[r].handoff)

\* He picks none, and nothing is audited, which fails.
AuditDismiss(r) ==
  /\ run[r].stage = "picking"
  /\ Audit1(r, NoInput, run[r].handoff)

Run(r, input) ==
  /\ run[r].stage = "idle"
  /\ config # "invalid"
  /\ LET accepted == Accepts(input, config = "enabled") IN
     Set(r, [Idle EXCEPT !.stage = IF accepted THEN "accepted" ELSE "blocked",
                         !.input = input, !.enabled = config = "enabled",
                         !.executed = IF accepted THEN Executed(input) ELSE "none"])

Next ==
  \/ ShowHandoff \/ Propose
  \/ \E s \in {"absent", "good", "bad"} : SetSummary(s)
  \/ \E c \in {"invalid", "disabled", "enabled"} : SetConfig(c)
  \/ \E r \in Runs :
       \/ Throw(r) \/ AuditAsk(r) \/ AuditDismiss(r)
       \/ \E id \in Offered : AuditPick(r, id)
       \/ \E input \in Inputs(held) : AuditInput(r, input) \/ Run(r, input)

Spec == Init /\ [][Next]_vars

-----------------------------------------------------------------------------
(* Properties *)

Audits == {run[r] : r \in {x \in Runs : run[x].stage = "audited"}}
Ran    == {run[r] : r \in {x \in Runs : run[x].stage \in {"accepted", "blocked"}}}

\* The same thing is asked, though the proposals in it may be of different age.
Ageless(input) == [input EXCEPT !.proposal.handoff = "absent"]
SameAsked(a, b) == Ageless(a.input) = Ageless(b.input)

\* The runner takes a name as it is written, and from no proposal.
Exact(input) == NamesProposal(input) /\ ~input.name.padded

\* The audit command tells what the runner will do, whichever comes first,
\* whatever becomes of the handoff between them, and however old the proposal is
\* that is passed along: what passes, an enabled runner starts, if it is named
\* exactly, and what fails it does not start.
AuditForetellsRun ==
  \A a \in Audits, b \in Ran :
    SameAsked(a, b) => (b.stage = "accepted" <=> a.passed /\ b.enabled /\ Exact(b.input))

\* What is executed belongs to the name the caller gave, and a proposal he passes
\* along, held since whenever or changed by him, has the same command and claims
\* nothing.
ExecutedIsNamed ==
  \A b \in Ran : b.stage = "accepted" =>
    /\ b.executed = b.input.name.id
    /\ b.executed \in Runnable
    /\ Direct(b.input) =>
         b.input.proposal.command = b.executed /\ ~b.input.proposal.claims

\* Once a handoff has been shown, one is available for good: what is listed, what
\* is asked for an audit and what is audited without a proposal of the caller's
\* says so, and a summary that goes bad, shown again or not, does not take it away.
ShownStaysAvailable ==
  [][shown # "nothing" =>
       /\ Handoff' = "available"
       /\ \A p \in held' \ held : p.handoff = "available"
       /\ \A r \in Runs : run[r].stage = "idle" =>
            /\ run'[r].stage = "picking" => run'[r].handoff = "available"
            /\ run'[r].stage = "audited" /\ ~Direct(run'[r].input)
                 => run'[r].reported = "available"]_vars

=============================================================================

---------------------------- MODULE ProposalAudit ----------------------------
(***************************************************************************)
(* The validation proposals (validation-proposals.mjs), the preflight      *)
(* audit of one (validation-proposal-preflight-audit.mjs) and the gates of *)
(* the approved runner (approved-validation-runner.mjs): two modules that  *)
(* decide, each from the caller's input, what may be run.                  *)
(***************************************************************************)
EXTENDS Naturals

Runnable     == {"vscodeAdapterSmoke", "editorBridgeSmoke", "exampleDriftCheck",
                 "pytestBaseline"}
ProposalOnly == {"extensionHostSmokeOptIn"}
Placeholders == {"futurePccxLabDiagnostics", "futureXsimLogAnalysis"}
Ids          == Runnable \cup ProposalOnly \cup Placeholders

\* A name as a caller writes it: an id, another word, no word; blanks around it.
Name == [id : Ids \cup {"otherWord", "noWord"}, padded : BOOLEAN]

\* The command of a proposal: that of the proposal of an id, none, no argument
\* array, or one that holds what the audit looks for.
Commands == (Runnable \cup ProposalOnly)
  \cup {"none", "malformed", "harmless", "shell", "launcher", "pccxLab", "validator", "handoff"}

\* What the status of the diagnostics handoff may be for a proposal.
Handoffs == {"available", "unavailable", "invalid"}

Proposal == [name : Name, command : Commands, claims : BOOLEAN,
             handoff : Handoffs \cup {"absent"}]
NoProposal == [name |-> [id |-> "noWord", padded |-> FALSE], command |-> "none",
               claims |-> FALSE, handoff |-> "absent"]

\* The input of both: a text, an object with a proposalId, with a proposal, with
\* both, one that is a proposal itself, or nothing of these.  Beside that an
\* object may have fields for a command or a claim in any other.
Forms  == {"text", "proposalId", "proposal", "both", "itself", "nothing"}
Extras == {"none", "harmless", "shell", "launcher", "pccxLab", "validator", "handoff", "claim"}
Input  == [form : Forms, name : Name, proposal : Proposal, extra : Extras]

-----------------------------------------------------------------------------
(* The proposals *)

CommandOf(id) == IF id \in Placeholders THEN "none" ELSE id

\* cloneProposal(): a listed proposal says what the handoff was when it was listed.
Listed(id, handoff) ==
  [name |-> [id |-> id, padded |-> FALSE], command |-> CommandOf(id), claims |-> FALSE,
   handoff |-> handoff]

-----------------------------------------------------------------------------
(* The audit *)

\* proposalIdFromInput()
AuditName(input) ==
  CASE input.form \in {"text", "proposalId", "both"} -> input.name
    [] input.form \in {"proposal", "itself"}         -> input.proposal.name
    [] input.form = "nothing"                        -> NoProposal.name

\* scrubLine() trims it.
AuditId(input) == AuditName(input).id
Known(input)   == AuditId(input) \in Ids

\* directProposalFromInput()
Direct(input) == input.form \in {"proposal", "both", "itself"}

\* The proposal that is audited: the caller's, or that of the id.
Audited(input) ==
  IF Direct(input) THEN input.proposal
  ELSE IF Known(input) THEN Listed(AuditId(input), "absent") ELSE NoProposal

\* allowedRunnerIds()
AllowedIds == {id \in Ids : CommandOf(id) # "none" /\ id \notin ProposalOnly}

\* Variant: the command is not compared with that of the id.
AllowlistedById(input) == AuditId(input) \in AllowedIds

Allowlisted(input) ==
  AuditId(input) \in AllowedIds /\ Audited(input).command = CommandOf(AuditId(input))

\* What is found in the fields for a command: collectStrings() looks at no more than
\* 80 strings and at 320 characters of each, which no input here goes beyond.
Finds(input, what) ==
  \/ Audited(input).command = what
  \/ input.form \notin {"text", "nothing"} /\ input.extra = what

\* The checks that fail.
Failed(input) ==
  LET If(name, condition) == IF condition THEN {name} ELSE {} IN
  UNION {
    If("proposal-id-exists", ~Known(input)),
    If("proposal-shape", \/ ~Direct(input) /\ ~Known(input)
                         \/ Audited(input).command = "malformed"),
    If("command-allowlist", ~Allowlisted(input)),
    If("no-raw-shell", Finds(input, "shell")),
    If("no-launcher-command", Finds(input, "launcher")),
    If("no-pccx-lab-command", Finds(input, "pccxLab") \/ Finds(input, "validator")),
    If("no-pccx-lab-validator", Finds(input, "validator")),
    If("no-execution-claim-wording", Audited(input).claims \/ Finds(input, "claim")),
    If("diagnostics-handoff-context-only", Finds(input, "handoff"))}

\* diagnosticsHandoffFromProposal(): the proposal's own word first, and that of a
\* proposal found by its id is the context's.
ReportedHandoff(input, handoff) ==
  IF Direct(input) /\ input.proposal.handoff # "absent" THEN input.proposal.handoff ELSE handoff

\* createValidationProposalPreflightAudit()
Audit(input, handoff) ==
  [passed |-> Failed(input) = {}, handoff |-> ReportedHandoff(input, handoff)]

-----------------------------------------------------------------------------
(* The runner *)

\* resolveApprovedValidationProposalId()
NamesProposal(input) == input.form \in {"text", "proposalId", "both"}

\* Variant: the name is trimmed here, too.
AcceptsTrimmed(input, enabled) ==
  /\ NamesProposal(input)
  /\ input.name.id \in Ids
  /\ enabled
  /\ input.name.id \notin ProposalOnly
  /\ Failed(input) = {}

\* The gates of runApprovedValidationProposal(), up to the process: the pattern
\* of an id, the list, the settings, the policy, the audit, and the command's
\* executable and arguments, which no proposal of the list fails.
Accepts(input, enabled) ==
  /\ NamesProposal(input)
  /\ ~input.name.padded /\ input.name.id # "noWord"
  /\ input.name.id \in Ids
  /\ enabled
  /\ input.name.id \notin ProposalOnly
  /\ Failed(input) = {}

\* What is executed is the command of the list, never the caller's.
Executed(input) == CommandOf(input.name.id)

=============================================================================

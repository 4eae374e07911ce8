------------------------ MODULE ValidationGatesProofs ------------------------
(***************************************************************************)
(* Proofs about ValidationGates, for any invocations, any of the proposals *)
(* offered, and whatever callers pass.                                     *)
(***************************************************************************)
EXTENDS ValidationGates, TLAPS

\* What is said of an invocation that has ended is what the audit and the runner say
\* of its input, whatever the settings and the handoff have become since.
Decided ==
  \A r \in Runs :
    /\ run[r].stage = "audited" => (run[r].passed <=> Failed(run[r].input) = {})
    /\ run[r].stage \in {"accepted", "blocked"} =>
         (run[r].stage = "accepted" <=> Accepts(run[r].input, run[r].enabled))
    /\ run[r].stage = "accepted" => run[r].executed = Executed(run[r].input)

IInv == TypeOK /\ Decided

-----------------------------------------------------------------------------
(* The audit *)

LEMMA IdsDiffer ==
  /\ Runnable \cap ProposalOnly = {}
  /\ Runnable \cap Placeholders = {}
  /\ ProposalOnly \cap Placeholders = {}
  /\ "none" \notin Ids /\ "noWord" \notin Ids /\ "malformed" \notin Ids
  BY DEF Runnable, ProposalOnly, Placeholders, Ids

\* What may be run is on the list with a command of its own name.
LEMMA AllowedAreRunnable ==
  \A id \in AllowedIds : id \in Runnable /\ id \in Ids /\ id \notin ProposalOnly
                         /\ CommandOf(id) = id
  BY IdsDiffer DEF AllowedIds, CommandOf, Ids

\* Nothing fails exactly when each of the checks holds.
Clean(input) ==
  /\ Known(input)
  /\ Direct(input) \/ Known(input)
  /\ Audited(input).command # "malformed"
  /\ Allowlisted(input)
  /\ \A what \in {"shell", "launcher", "pccxLab", "validator", "claim", "handoff"} :
       ~Finds(input, what)
  /\ ~Audited(input).claims

LEMMA CleanMeansPassed ==
  ASSUME NEW input
  PROVE  Failed(input) = {} <=> Clean(input)
  BY DEF Failed, Clean

\* The age of a proposal that is passed along is not looked at.
LEMMA AgelessInputs ==
  ASSUME NEW a \in Input, NEW b \in Input, Ageless(a) = Ageless(b)
  PROVE  /\ a.form = b.form /\ a.name = b.name /\ a.extra = b.extra
         /\ a.proposal.name = b.proposal.name
         /\ a.proposal.command = b.proposal.command
         /\ a.proposal.claims = b.proposal.claims
<1>1. ASSUME NEW i \in Input
      PROVE  /\ Ageless(i).form = i.form /\ Ageless(i).name = i.name
             /\ Ageless(i).extra = i.extra
             /\ Ageless(i).proposal.name = i.proposal.name
             /\ Ageless(i).proposal.command = i.proposal.command
             /\ Ageless(i).proposal.claims = i.proposal.claims
  <2>1. i.proposal \in Proposal
    BY DEF Input
  <2>2. /\ Ageless(i).form = i.form /\ Ageless(i).name = i.name
        /\ Ageless(i).extra = i.extra
        /\ Ageless(i).proposal = [i.proposal EXCEPT !.handoff = "absent"]
    BY DEF Ageless, Input
  <2> QED BY <2>1, <2>2 DEF Proposal
<1> QED BY <1>1

LEMMA AgelessClean ==
  ASSUME NEW a \in Input, NEW b \in Input, Ageless(a) = Ageless(b)
  PROVE  Failed(a) = {} <=> Failed(b) = {}
<1>1. /\ a.form = b.form /\ a.name = b.name /\ a.extra = b.extra
      /\ a.proposal.name = b.proposal.name
      /\ a.proposal.command = b.proposal.command
      /\ a.proposal.claims = b.proposal.claims
  BY AgelessInputs
<1>2. AuditId(a) = AuditId(b) /\ (Direct(a) <=> Direct(b))
  BY <1>1 DEF AuditId, AuditName, Direct
<1>3. /\ Known(a) <=> Known(b)
      /\ Audited(a).command = Audited(b).command
      /\ Audited(a).claims = Audited(b).claims
  BY <1>1, <1>2 DEF Known, Audited
<1>4. Allowlisted(a) <=> Allowlisted(b)
  BY <1>2, <1>3 DEF Allowlisted
<1>5. \A what : Finds(a, what) <=> Finds(b, what)
  BY <1>1, <1>3 DEF Finds
<1>6. Clean(a) <=> Clean(b)
  BY <1>2, <1>3, <1>4, <1>5 DEF Clean
<1> QED BY <1>6, CleanMeansPassed

\* What passes the audit under a name may be run under it.
LEMMA PassedIsRunnable ==
  ASSUME NEW input \in Input, Failed(input) = {}, NamesProposal(input)
  PROVE  /\ input.name.id \in AllowedIds
         /\ Direct(input) => /\ input.proposal.command = CommandOf(input.name.id)
                             /\ ~input.proposal.claims
<1>1. Clean(input)
  BY CleanMeansPassed
<1>2. AuditId(input) = input.name.id
  BY DEF NamesProposal, AuditId, AuditName
<1>3. Allowlisted(input) /\ ~Audited(input).claims
  BY <1>1 DEF Clean
<1> QED BY <1>2, <1>3 DEF Allowlisted, Audited

\* The runner's gates, but for the settings, are those of the audit.
LEMMA AcceptsMeansPassed ==
  ASSUME NEW input \in Input, NEW enabled \in BOOLEAN
  PROVE  Accepts(input, enabled) <=> Failed(input) = {} /\ enabled /\ Exact(input)
<1>1. ASSUME Failed(input) = {}, enabled, Exact(input)
      PROVE  Accepts(input, enabled)
  <2>1. input.name.id \in AllowedIds
    BY <1>1, PassedIsRunnable DEF Exact
  <2>2. input.name.id \in Ids /\ input.name.id \notin ProposalOnly /\ input.name.id # "noWord"
    BY <2>1, AllowedAreRunnable, IdsDiffer
  <2> QED BY <1>1, <2>2 DEF Accepts, Exact
<1>2. ASSUME Accepts(input, enabled)
      PROVE  Failed(input) = {} /\ enabled /\ Exact(input)
  BY <1>2 DEF Accepts, Exact
<1> QED BY <1>1, <1>2

-----------------------------------------------------------------------------
(* The invariant *)

Invocation == [stage : {"idle", "picking", "audited", "accepted", "blocked", "threw"},
               input : Input, handoff : Handoffs \cup {"absent"}, enabled : BOOLEAN,
               passed : BOOLEAN, reported : Handoffs \cup {"absent"}, executed : Commands]

LEMMA IdleType == NoInput \in Input /\ Idle \in Invocation
<1>1. NoProposal \in Proposal
  BY DEF NoProposal, Proposal, Name, Commands
<1>2. NoInput \in Input
  BY <1>1 DEF NoInput, Input, Forms, Extras, NoProposal, Name
<1> QED BY <1>2 DEF Idle, Invocation, Commands

LEMMA HandoffType == Handoff \in {"available", "unavailable"} /\ Handoff \in Handoffs
  BY DEF Handoff, Handoffs

\* The audit reports a status that may be.
LEMMA AuditType ==
  ASSUME NEW input \in Input, NEW handoff \in Handoffs \cup {"absent"}
  PROVE  /\ Audit(input, handoff).passed \in BOOLEAN
         /\ Audit(input, handoff).passed <=> Failed(input) = {}
         /\ Audit(input, handoff).handoff \in Handoffs \cup {"absent"}
         /\ ~Direct(input) => Audit(input, handoff).handoff = handoff
<1>1. input.proposal.handoff \in Handoffs \cup {"absent"}
  BY DEF Input, Proposal
<1> QED BY <1>1 DEF Audit, ReportedHandoff

LEMMA InitInv == Init => IInv
<1> SUFFICES ASSUME Init PROVE IInv
  OBVIOUS
<1>1. TypeOK
  BY IdleType DEF Init, TypeOK, Invocation
<1>2. Decided
  BY DEF Init, Decided, Idle
<1> QED BY <1>1, <1>2 DEF IInv

\* Steps that make one invocation go on.
LEMMA SetInv ==
  ASSUME IInv, NEW r \in Runs, NEW fields \in Invocation, Set(r, fields),
         fields.stage = "audited" => (fields.passed <=> Failed(fields.input) = {}),
         fields.stage \in {"accepted", "blocked"} =>
           (fields.stage = "accepted" <=> Accepts(fields.input, fields.enabled)),
         fields.stage = "accepted" => fields.executed = Executed(fields.input)
  PROVE  IInv'
<1>1. run \in [Runs -> Invocation]
  BY DEF IInv, TypeOK, Invocation
<1>2. /\ run' \in [Runs -> Invocation]
      /\ run'[r] = fields
      /\ \A q \in Runs \ {r} : run'[q] = run[q]
  BY <1>1 DEF Set
<1>3. TypeOK'
  BY <1>2 DEF IInv, TypeOK, Invocation, Set
<1>4. Decided'
  BY <1>2 DEF IInv, Decided
<1> QED BY <1>3, <1>4 DEF IInv

LEMMA AuditInv ==
  ASSUME IInv, NEW r \in Runs, NEW input \in Input, NEW handoff \in Handoffs \cup {"absent"},
         Audit1(r, input, handoff)
  PROVE  IInv'
<1> DEFINE x == [Idle EXCEPT !.stage = "audited", !.input = input,
                             !.passed = Audit(input, handoff).passed,
                             !.reported = Audit(input, handoff).handoff]
<1>1. /\ x \in Invocation /\ x.stage = "audited" /\ x.input = input
      /\ x.passed = Audit(input, handoff).passed
  BY IdleType, AuditType DEF Invocation
<1>2. Set(r, x)
  BY DEF Audit1
<1> QED BY <1>1, <1>2, AuditType, SetInv

\* What a caller passes is an input.
LEMMA PassedInputs == TypeOK => Inputs(held) \subseteq Input
  BY InputsAssumption DEF TypeOK

\* A run sets what the runner's gates decide.
LEMMA RunSets ==
  ASSUME NEW r \in Runs, NEW input \in Input, Run(r, input)
  PROVE  \E x \in Invocation :
           /\ Set(r, x)
           /\ x.stage \in {"accepted", "blocked"}
           /\ x.stage = "accepted" <=> Accepts(x.input, x.enabled)
           /\ x.stage = "accepted" => x.executed = Executed(x.input)
<1> DEFINE accepted == Accepts(input, config = "enabled")
           x == [Idle EXCEPT !.stage = IF accepted THEN "accepted" ELSE "blocked",
                             !.input = input, !.enabled = config = "enabled",
                             !.executed = IF accepted THEN Executed(input) ELSE "none"]
<1>1. accepted => Executed(input) \in Commands
  <2>1. \A id \in Ids : CommandOf(id) \in Commands
    BY DEF CommandOf, Commands, Ids
  <2> QED BY <2>1 DEF Accepts, Executed
<1>2. Set(r, x)
  BY DEF Run
<1> HIDE DEF accepted
<1>3. /\ x \in Invocation
      /\ x.stage = IF accepted THEN "accepted" ELSE "blocked"
      /\ x.input = input /\ x.enabled = (config = "enabled")
      /\ accepted => x.executed = Executed(input)
  BY <1>1, IdleType DEF Invocation, Commands
<1>4. x.stage = "accepted" <=> Accepts(x.input, x.enabled)
  BY <1>3 DEF accepted
<1> HIDE DEF x
<1> QED BY <1>2, <1>3, <1>4

LEMMA RunInv ==
  ASSUME IInv, NEW r \in Runs, NEW input \in Input, Run(r, input)
  PROVE  IInv'
<1>1. PICK x \in Invocation :
        /\ Set(r, x)
        /\ x.stage \in {"accepted", "blocked"}
        /\ x.stage = "accepted" <=> Accepts(x.input, x.enabled)
        /\ x.stage = "accepted" => x.executed = Executed(x.input)
  BY RunSets
<1> QED BY <1>1, SetInv

LEMMA StepInv == IInv /\ [Next]_vars => IInv'
<1> SUFFICES ASSUME IInv, [Next]_vars PROVE IInv'
  OBVIOUS
<1>0. TypeOK
  BY DEF IInv
<1>1. ASSUME UNCHANGED run, TypeOK'
      PROVE  IInv'
  BY <1>1 DEF IInv, Decided
<1>2. CASE ShowHandoff
  BY <1>0, <1>1, <1>2 DEF ShowHandoff, Showable, TypeOK
<1>3. CASE Propose
  BY <1>0, <1>1, <1>3, HandoffType DEF Propose, TypeOK
<1>4. ASSUME NEW s \in {"absent", "good", "bad"}, SetSummary(s)
      PROVE  IInv'
  BY <1>0, <1>1, <1>4 DEF SetSummary, TypeOK
<1>5. ASSUME NEW c \in {"invalid", "disabled", "enabled"}, SetConfig(c)
      PROVE  IInv'
  BY <1>0, <1>1, <1>5 DEF SetConfig, TypeOK
<1>6. ASSUME NEW r \in Runs, Throw(r)
      PROVE  IInv'
  <2> DEFINE x == [Idle EXCEPT !.stage = "threw"]
  <2>1. x \in Invocation /\ x.stage = "threw"
    BY IdleType DEF Invocation
  <2>2. Set(r, x)
    BY <1>6 DEF Throw
  <2> QED BY <2>1, <2>2, SetInv
<1>7. ASSUME NEW r \in Runs, AuditAsk(r)
      PROVE  IInv'
  <2> DEFINE x == [Idle EXCEPT !.stage = "picking", !.handoff = Handoff]
  <2>1. x \in Invocation /\ x.stage = "picking"
    BY IdleType, HandoffType DEF Invocation
  <2>2. Set(r, x)
    BY <1>7 DEF AuditAsk
  <2> QED BY <2>1, <2>2, SetInv
<1>8. ASSUME NEW r \in Runs
      PROVE  run[r].handoff \in Handoffs \cup {"absent"}
  BY <1>0 DEF TypeOK
<1>9. ASSUME NEW r \in Runs, AuditDismiss(r)
      PROVE  IInv'
  BY <1>8, <1>9, IdleType, AuditInv DEF AuditDismiss
<1>10. ASSUME NEW r \in Runs, NEW id \in Offered, AuditPick(r, id)
       PROVE  IInv'
  <2> DEFINE input == [NoInput EXCEPT !.form = "text",
                                      !.name = [id |-> id, padded |-> FALSE]]
  <2>1. input \in Input
    BY IdleType, OfferedAssumption DEF Input, Forms, Name
  <2>2. Audit1(r, input, run[r].handoff)
    BY <1>10 DEF AuditPick
  <2> QED BY <1>8, <2>1, <2>2, AuditInv
<1>11. ASSUME NEW r \in Runs, NEW input \in Inputs(held), AuditInput(r, input) \/ Run(r, input)
       PROVE  IInv'
  <2>1. input \in Input
    BY <1>0, PassedInputs
  <2> QED BY <1>11, <2>1, AuditInv, RunInv, HandoffType DEF AuditInput
<1>12. CASE UNCHANGED vars
  BY <1>0, <1>1, <1>12 DEF vars, TypeOK
<1> QED BY <1>2, <1>3, <1>4, <1>5, <1>6, <1>7, <1>9, <1>10, <1>11, <1>12 DEF Next

\* What is said of ended invocations stays what audit and runner say of them.
THEOREM Invariance == Spec => []IInv
<1> QED BY InitInv, StepInv, PTL DEF Spec

\* The settings, the handoff, what callers hold and where each invocation stands are
\* what they are meant to be: extension.mjs, the commands about proposals.
THEOREM TypeCorrect == Spec => []TypeOK
<1>1. IInv => TypeOK
  BY DEF IInv
<1> QED BY <1>1, Invariance, PTL

-----------------------------------------------------------------------------
(* The properties *)

\* The audit and the runner, two modules apart, decide alike about what they are
\* both asked, whichever comes first and whatever happens between them.
THEOREM AuditsForetell == Spec => []AuditForetellsRun
<1>1. IInv => AuditForetellsRun
  <2> SUFFICES ASSUME IInv, NEW a \in Audits, NEW b \in Ran, SameAsked(a, b)
               PROVE  b.stage = "accepted" <=> a.passed /\ b.enabled /\ Exact(b.input)
    BY DEF AuditForetellsRun
  <2>1. /\ a.input \in Input /\ b.input \in Input /\ b.enabled \in BOOLEAN
        /\ a.passed <=> Failed(a.input) = {}
        /\ b.stage = "accepted" <=> Accepts(b.input, b.enabled)
    BY DEF Audits, Ran, IInv, TypeOK, Decided
  <2>2. Failed(a.input) = {} <=> Failed(b.input) = {}
    BY <2>1, AgelessClean DEF SameAsked
  <2> QED BY <2>1, <2>2, AcceptsMeansPassed
<1> QED BY <1>1, Invariance, PTL

\* The runner executes the command of the name that was given, and never one of a
\* proposal that says otherwise.
THEOREM OnlyNamedIsExecuted == Spec => []ExecutedIsNamed
<1>1. IInv => ExecutedIsNamed
  <2> SUFFICES ASSUME IInv, NEW b \in Ran, b.stage = "accepted"
               PROVE  /\ b.executed = b.input.name.id
                      /\ b.executed \in Runnable
                      /\ Direct(b.input) =>
                           /\ b.input.proposal.command = b.executed
                           /\ ~b.input.proposal.claims
    BY DEF ExecutedIsNamed
  <2>1. /\ b.input \in Input /\ b.enabled \in BOOLEAN
        /\ Accepts(b.input, b.enabled)
        /\ b.executed = Executed(b.input)
    BY DEF Ran, IInv, TypeOK, Decided
  <2>2. Failed(b.input) = {} /\ NamesProposal(b.input)
    BY <2>1 DEF Accepts
  <2>3. /\ b.input.name.id \in AllowedIds
        /\ Direct(b.input) => /\ b.input.proposal.command = CommandOf(b.input.name.id)
                              /\ ~b.input.proposal.claims
    BY <2>1, <2>2, PassedIsRunnable
  <2> QED BY <2>1, <2>3, AllowedAreRunnable DEF Executed
<1> QED BY <1>1, Invariance, PTL

\* What ShownStaysAvailable says of a step.
Available ==
  shown # "nothing" =>
    /\ Handoff' = "available"
    /\ \A p \in held' \ held : p.handoff = "available"
    /\ \A r \in Runs : run[r].stage = "idle" =>
         /\ run'[r].stage = "picking" => run'[r].handoff = "available"
         /\ run'[r].stage = "audited" /\ ~Direct(run'[r].input)
              => run'[r].reported = "available"

\* A step of one invocation that is not idle, or goes on with what is available.
LEMMA SetAvailable ==
  ASSUME TypeOK, shown # "nothing", NEW r \in Runs, NEW fields \in Invocation, Set(r, fields),
         \/ run[r].stage # "idle"
         \/ /\ fields.stage = "picking" => fields.handoff = "available"
            /\ fields.stage = "audited" /\ ~Direct(fields.input) => fields.reported = "available"
  PROVE  Available
<1>1. run'[r] = fields /\ \A q \in Runs \ {r} : run'[q] = run[q]
  BY DEF Set, TypeOK
<1>2. UNCHANGED <<shown, held>>
  BY DEF Set
<1>3. Handoff' = "available"
  BY <1>2 DEF Handoff
<1>4. ASSUME NEW q \in Runs, run[q].stage = "idle"
      PROVE  /\ run'[q].stage = "picking" => run'[q].handoff = "available"
             /\ run'[q].stage = "audited" /\ ~Direct(run'[q].input)
                  => run'[q].reported = "available"
  BY <1>1, <1>4
<1> QED BY <1>2, <1>3, <1>4 DEF Available

LEMMA AuditAvailable ==
  ASSUME TypeOK, shown # "nothing", NEW r \in Runs, NEW input \in Input,
         NEW handoff \in Handoffs \cup {"absent"}, Audit1(r, input, handoff),
         run[r].stage # "idle" \/ handoff = "available"
  PROVE  Available
<1> DEFINE x == [Idle EXCEPT !.stage = "audited", !.input = input,
                             !.passed = Audit(input, handoff).passed,
                             !.reported = Audit(input, handoff).handoff]
<1>1. /\ x \in Invocation /\ x.stage = "audited" /\ x.input = input
      /\ x.reported = Audit(input, handoff).handoff
  BY IdleType, AuditType DEF Invocation
<1>2. Set(r, x)
  BY DEF Audit1
<1>3. ~Direct(x.input) => x.reported = handoff
  BY <1>1, AuditType
<1> HIDE DEF x
<1> QED BY <1>1, <1>2, <1>3, SetAvailable

\* Only the commands' own steps touch the invocations, and none takes away what was
\* shown: a show that fails leaves it, and a summary is read only when none was.
LEMMA StepAvailable == TypeOK /\ [Next]_vars => [Available]_vars
<1> SUFFICES ASSUME TypeOK, Next, shown # "nothing" PROVE Available
  BY DEF Available, vars
<1>1. Handoff = "available"
  BY DEF Handoff
<1>2. ASSUME UNCHANGED run, UNCHANGED held, shown' # "nothing"
      PROVE  Available
  BY <1>2 DEF Available, Handoff
<1>3. CASE ShowHandoff
  BY <1>2, <1>3 DEF ShowHandoff, Showable, TypeOK
<1>4. CASE Propose
  BY <1>1, <1>4 DEF Propose, Available, Handoff, Listed
<1>5. ASSUME NEW s \in {"absent", "good", "bad"}, SetSummary(s)
      PROVE  Available
  BY <1>2, <1>5 DEF SetSummary
<1>6. ASSUME NEW c \in {"invalid", "disabled", "enabled"}, SetConfig(c)
      PROVE  Available
  BY <1>2, <1>6 DEF SetConfig
<1>7. ASSUME NEW r \in Runs, Throw(r)
      PROVE  Available
  <2> DEFINE x == [Idle EXCEPT !.stage = "threw"]
  <2>1. x \in Invocation /\ x.stage = "threw"
    BY IdleType DEF Invocation
  <2>2. Set(r, x)
    BY <1>7 DEF Throw
  <2> HIDE DEF x
  <2> QED BY <2>1, <2>2, SetAvailable
<1>8. ASSUME NEW r \in Runs, AuditAsk(r)
      PROVE  Available
  <2> DEFINE x == [Idle EXCEPT !.stage = "picking", !.handoff = Handoff]
  <2>1. x \in Invocation /\ x.stage = "picking" /\ x.handoff = "available"
    BY <1>1, IdleType DEF Invocation, Handoffs
  <2>2. Set(r, x)
    BY <1>8 DEF AuditAsk
  <2> HIDE DEF x
  <2> QED BY <2>1, <2>2, SetAvailable
<1>9. ASSUME NEW r \in Runs
      PROVE  run[r].handoff \in Handoffs \cup {"absent"}
  BY DEF TypeOK
<1>10. ASSUME NEW r \in Runs, AuditDismiss(r)
       PROVE  Available
  BY <1>9, <1>10, IdleType, AuditAvailable DEF AuditDismiss
<1>11. ASSUME NEW r \in Runs, NEW id \in Offered, AuditPick(r, id)
       PROVE  Available
  <2> DEFINE input == [NoInput EXCEPT !.form = "text",
                                      !.name = [id |-> id, padded |-> FALSE]]
  <2>1. input \in Input
    BY IdleType, OfferedAssumption DEF Input, Forms, Name
  <2>2. Audit1(r, input, run[r].handoff) /\ run[r].stage # "idle"
    BY <1>11 DEF AuditPick
  <2> QED BY <1>9, <2>1, <2>2, AuditAvailable
<1>12. ASSUME NEW r \in Runs, NEW input \in Inputs(held), AuditInput(r, input)
       PROVE  Available
  <2>1. input \in Input
    BY PassedInputs
  <2> QED BY <1>1, <1>12, <2>1, HandoffType, AuditAvailable DEF AuditInput
<1>13. ASSUME NEW r \in Runs, NEW input \in Inputs(held), Run(r, input)
       PROVE  Available
  <2>1. input \in Input
    BY PassedInputs
  <2>2. PICK x \in Invocation : Set(r, x) /\ x.stage \in {"accepted", "blocked"}
    BY <1>13, <2>1, RunSets
  <2> QED BY <2>2, SetAvailable
<1> QED BY <1>3, <1>4, <1>5, <1>6, <1>7, <1>8, <1>10, <1>11, <1>12, <1>13 DEF Next

\* A handoff that was shown is available from then on, in whatever is listed, asked for
\* or audited later: diagnosticsHandoffStatusFromRuntime() reads what was shown first.
THEOREM ShownHandoffStays == Spec => ShownStaysAvailable
<1>1. TypeOK /\ [Next]_vars => [shown # "nothing" =>
       /\ Handoff' = "available"
       /\ \A p \in held' \ held : p.handoff = "available"
       /\ \A r \in Runs : run[r].stage = "idle" =>
            /\ run'[r].stage = "picking" => run'[r].handoff = "available"
            /\ run'[r].stage = "audited" /\ ~Direct(run'[r].input)
                 => run'[r].reported = "available"]_vars
  BY StepAvailable DEF Available
<1> QED BY <1>1, TypeCorrect, PTL DEF Spec, ShownStaysAvailable

=============================================================================

---------------------- MODULE DiagnosticsCommandsProofs ----------------------
(***************************************************************************)
(* Proofs about DiagnosticsCommands, for any invocations, settings, paths  *)
(* and files, and any ends of the tools.                                   *)
(***************************************************************************)
EXTENDS DiagnosticsCommands, SequenceTheorems, TLAPS

\* What the stage of an invocation says about its process: nothing is known of one
\* that has not started, a process under way has not reported, and at its end
\* `proper' tells whether the code will read a report in it.
Accounted ==
  \A r \in Runs :
    /\ run[r].stage = "idle" => run[r] = Idle
    /\ run[r].stage \in {"tool", "overdue"} =>
         /\ ~run[r].proper
         /\ run[r].command = Lint \/ (run[r].command \in Live /\ run[r].parses)
    /\ run[r].stage = "tooldone" =>
         (run[r].proper <=> \/ run[r].command \notin Live
                            \/ run[r].parses /\ LiveOk(run[r].tool))
    /\ run[r].stage = "picking" => run[r].proper

IInv ==
  /\ TypeOK
  /\ Accounted
  /\ CollectionIsLatest
  /\ StatusMatchesItems

-----------------------------------------------------------------------------
(* Types of the parts *)

Invocation == [stage : Stages, command : Commands \cup {"none"}, parses : BOOLEAN,
               tool : Ends, proper : BOOLEAN]

Presentation == [run : Runs, found : SUBSET Files]

LEMMA LintIsNoFacadeCommand == Lint \notin FacadeCommands /\ Lint \notin Live
  BY DEF Lint, FacadeCommands, ExampleDiagnostics, ExampleNavigation, Live, LiveDiagnostics,
         LiveNavigation

LEMMA NoEndType == NoEnd \in Ends
  BY DEF NoEnd, Ends, Codes, Blank

\* What a process printed names files only.
LEMMA PrintedFiles == \A end \in Ends : end.out.found \in SUBSET Files
  BY DEF Ends, Payload, Blank, Garbage

\* The action a facade ends with is of the command's kind, names files, and comes
\* only of arguments that parse and of a CLI that succeeded.
LEMMA ApplicableEnd ==
  ASSUME NEW command \in FacadeCommands, NEW parses \in BOOLEAN, NEW tool \in Ends,
         Applicable(FacadeEnd(command, parses, tool))
  PROVE  LET out == FacadeEnd(command, parses, tool).out IN
         /\ parses
         /\ command \in Live => LiveOk(tool)
         /\ out.kind = Kind(command)
         /\ out.kind \in {"diagnostics", "navigation"}
         /\ out.found = IF command \in Live THEN LiveFound(command, tool) ELSE {ExampleFile}
         /\ out.found \in SUBSET Files
<1>1. Blank.kind \notin {"diagnostics", "navigation"}
  BY DEF Blank
<1>2. parses /\ (command \in Live => LiveOk(tool))
  BY <1>1 DEF Applicable, FacadeEnd
<1> DEFINE found == IF command \in Live THEN LiveFound(command, tool) ELSE {ExampleFile}
<1>3. FacadeEnd(command, parses, tool) = Emitted(command, found)
  BY <1>2 DEF FacadeEnd
<1>4. LiveFound(command, tool) \in SUBSET Files
  BY PrintedFiles DEF LiveFound
<1>5. found \in SUBSET Files
  BY <1>4, ExampleAssumption
<1>6. Emitted(command, found).out = [kind |-> Kind(command), found |-> found]
  BY DEF Emitted
<1>7. Kind(command) \in {"diagnostics", "navigation"}
  BY DEF Kind
<1> HIDE DEF found
<1>8. /\ FacadeEnd(command, parses, tool).out.kind = Kind(command)
      /\ FacadeEnd(command, parses, tool).out.found = found
  BY <1>3, <1>6
<1> QED BY <1>2, <1>5, <1>7, <1>8 DEF found

\* A command that shows navigation items in a quick pick needs no process.
LEMMA ExampleIsNotLive == "showNavigationExample" \notin Live
  BY DEF Live, LiveDiagnostics, LiveNavigation

-----------------------------------------------------------------------------
(* One invocation goes on *)

\* Only invocation r changes, from a stage that is not its last one.
Only(r, fields) ==
  /\ r \in Runs
  /\ run[r].stage # "done"
  /\ run' = [run EXCEPT ![r] = fields]

\* What is accounted of one invocation.
AccountOf(x) ==
  /\ x.stage = "idle" => x = Idle
  /\ x.stage \in {"tool", "overdue"} =>
       ~x.proper /\ (x.command = Lint \/ (x.command \in Live /\ x.parses))
  /\ x.stage = "tooldone" =>
       (x.proper <=> x.command \notin Live \/ (x.parses /\ LiveOk(x.tool)))
  /\ x.stage = "picking" => x.proper

LEMMA OnlyKeeps ==
  ASSUME TypeOK, Accounted, NEW r, NEW fields, Only(r, fields),
         fields \in Invocation, AccountOf(fields)
  PROVE  /\ run' \in [Runs -> Invocation]
         /\ Accounted'
         /\ run'[r] = fields
         /\ \A q \in Runs \ {r} : run'[q] = run[q]
<1>1. run \in [Runs -> Invocation]
  BY DEF TypeOK, Invocation
<1>2. /\ run' \in [Runs -> Invocation]
      /\ run'[r] = fields
      /\ \A q \in Runs \ {r} : run'[q] = run[q]
  BY <1>1 DEF Only
<1>3. ASSUME NEW q \in Runs
      PROVE  AccountOf(run'[q])
  <2>1. CASE q = r
    BY <1>2, <2>1
  <2>2. CASE q # r
    BY <1>2, <2>2 DEF Accounted, AccountOf
  <2> QED BY <2>1, <2>2
<1> QED BY <1>2, <1>3 DEF Accounted, AccountOf

\* Ending an invocation that the account holds of.
LEMMA DoneIsOnly ==
  ASSUME TypeOK, NEW r \in Runs, run[r].stage # "done", Done(r)
  PROVE  LET fields == [run[r] EXCEPT !.stage = "done"] IN
         /\ Only(r, fields)
         /\ fields \in Invocation
         /\ AccountOf(fields)
         /\ fields.stage = "done" /\ fields.proper = run[r].proper
         /\ fields.command = run[r].command /\ fields.tool = run[r].tool
<1>1. run[r] \in Invocation
  BY DEF TypeOK, Invocation
<1>2. /\ [run[r] EXCEPT !.stage = "done"] \in Invocation
      /\ [run[r] EXCEPT !.stage = "done"].stage = "done"
      /\ [run[r] EXCEPT !.stage = "done"].proper = run[r].proper
      /\ [run[r] EXCEPT !.stage = "done"].command = run[r].command
      /\ [run[r] EXCEPT !.stage = "done"].tool = run[r].tool
  BY <1>1 DEF Invocation, Stages
<1> QED BY <1>2 DEF Done, Only, AccountOf

\* A process that is found to have ended.
LEMMA ToolFinishesIsOnly ==
  ASSUME TypeOK, Accounted, NEW r \in Runs, NEW end \in ToolEnds, ToolFinishes(r, end)
  PROVE  LET fields == [run[r] EXCEPT !.stage = "tooldone", !.tool = end,
                                      !.proper = LiveOk(end) \/ run[r].command = Lint] IN
         /\ Only(r, fields)
         /\ fields \in Invocation
         /\ AccountOf(fields)
         /\ fields.stage = "tooldone" /\ fields.tool = end
         /\ fields.proper = (LiveOk(end) \/ run[r].command = Lint)
         /\ fields.command = run[r].command
<1> DEFINE x == run[r]
           y == [x EXCEPT !.stage = "tooldone", !.tool = end,
                          !.proper = LiveOk(end) \/ x.command = Lint]
<1>1. x \in Invocation /\ x.stage \in {"tool", "overdue"}
  BY DEF TypeOK, Invocation, ToolFinishes
<1>2. end \in Ends
  BY InputAssumption
<1>3. (LiveOk(end) \/ x.command = Lint) \in BOOLEAN
  OBVIOUS
<1>4. /\ y \in Invocation
      /\ y.stage = "tooldone" /\ y.tool = end
      /\ y.proper = (LiveOk(end) \/ x.command = Lint)
      /\ y.command = x.command /\ y.parses = x.parses
  BY <1>1, <1>2, <1>3 DEF Invocation, Stages
<1>5. x.command = Lint \/ (x.command \in Live /\ x.parses)
  BY <1>1 DEF Accounted
<1>6. AccountOf(y)
  BY <1>4, <1>5, LintIsNoFacadeCommand DEF AccountOf
<1>7. Only(r, y)
  BY <1>1 DEF Only, ToolFinishes
<1> QED BY <1>4, <1>6, <1>7

\* A facade command that is started.
LEMMA InvokeIsOnly ==
  ASSUME TypeOK, NEW r \in Runs, NEW command \in Commands \ {Lint}, NEW path \in Paths,
         Invoke(r, command, path)
  PROVE  LET parses == ArgumentsParse(command, Requested(settings, command, path))
             fields == [stage |-> IF command \in Live /\ parses THEN "tool" ELSE "tooldone",
                        command |-> command, parses |-> parses,
                        tool |-> NoEnd, proper |-> command \notin Live] IN
         /\ run[r].stage = "idle"
         /\ Only(r, fields)
         /\ fields \in Invocation
         /\ AccountOf(fields)
<1> DEFINE parses == ArgumentsParse(command, Requested(settings, command, path))
           x == [stage |-> IF command \in Live /\ parses THEN "tool" ELSE "tooldone",
                 command |-> command, parses |-> parses,
                 tool |-> NoEnd, proper |-> command \notin Live]
<1>1. parses \in BOOLEAN /\ (~parses => command \in Live)
  BY DEF ArgumentsParse, Live
<1>2. run[r].stage = "idle" /\ run' = [run EXCEPT ![r] = x]
  BY DEF Invoke
<1> HIDE DEF parses
<1>3. x \in Invocation
  BY <1>1, NoEndType DEF Invocation, Stages
<1>4. AccountOf(x)
  BY <1>1 DEF AccountOf
<1>5. Only(r, x)
  BY <1>2 DEF Only
<1> QED BY <1>2, <1>3, <1>4, <1>5 DEF parses

\* A command that ends before any process, and the lint command's beginning.
Restaged(r, stage, command) ==
  run' = [run EXCEPT ![r].stage = stage, ![r].command = command]

LEMMA RestagedIsOnly ==
  ASSUME TypeOK, Accounted, NEW r \in Runs, run[r].stage = "idle",
         NEW stage \in {"tool", "done"}, NEW command \in Commands,
         stage = "tool" => command = Lint,
         Restaged(r, stage, command)
  PROVE  \E fields \in Invocation :
           /\ Only(r, fields)
           /\ AccountOf(fields)
           /\ fields.stage = stage /\ fields.command = command
           /\ ~fields.proper
<1> DEFINE x == [run[r] EXCEPT !.stage = stage, !.command = command]
<1>1. run[r] \in Invocation /\ run[r].proper = FALSE
  BY DEF TypeOK, Invocation, Accounted, Idle
<1>2. /\ x \in Invocation
      /\ x.stage = stage /\ x.command = command /\ ~x.proper
  BY <1>1 DEF Invocation, Stages
<1>3. AccountOf(x)
  BY <1>2 DEF AccountOf
<1>4. Only(r, x)
  BY <1>1 DEF Only, TypeOK, Restaged
<1> QED BY <1>2, <1>3, <1>4

-----------------------------------------------------------------------------
(* What a step does *)

\* What one invocation leaves behind when it goes on: diagnostics and records only
\* at its end, and records of a success only when its tool reported.
Effect(fields, r) ==
  /\ \/ UNCHANGED <<collection, presented>>
     \/ \E found \in SUBSET Files : Present(r, found)
  /\ \/ UNCHANGED <<status, items>>
     \/ /\ fields.stage = "done"
        /\ \E ok \in BOOLEAN, kind \in {"diagnostics", "navigation", "none"},
              found \in SUBSET Files :
             Remember(r, ok, kind, found) /\ (ok => fields.proper)

Goes(r) ==
  \E fields \in Invocation :
    /\ Only(r, fields)
    /\ AccountOf(fields)
    /\ Effect(fields, r)

LEMMA EndEffect ==
  ASSUME NEW r, NEW fields, fields.stage = "done",
         \/ UNCHANGED <<collection, presented>>
         \/ \E found \in SUBSET Files : Present(r, found),
         NEW ok \in BOOLEAN, NEW kind \in {"diagnostics", "navigation", "none"},
         NEW found \in SUBSET Files,
         Remember(r, ok, kind, found), ok => fields.proper
  PROVE  Effect(fields, r)
  BY DEF Effect

LEMMA FailureEffect ==
  ASSUME NEW r, NEW fields, fields.stage = "done", FailFacade(r)
  PROVE  Effect(fields, r) /\ settings' = settings
<1>1. Remember(r, FALSE, "none", {}) /\ UNCHANGED <<settings, collection, presented>>
  BY DEF FailFacade
<1>2. FALSE \in BOOLEAN /\ {} \in SUBSET Files
  OBVIOUS
<1>3. Effect(fields, r)
  BY <1>1, <1>2, EndEffect
<1> QED BY <1>1, <1>3

\* Each step of a facade command ...
LEMMA FacadeGoes ==
  ASSUME TypeOK, Accounted, NEW r \in Runs,
         \/ \E command \in Commands \ {Lint}, path \in Paths :
              Reject(r, command, path) \/ Invoke(r, command, path)
         \/ FacadeFails(r) \/ FacadeRefuses(r) \/ FacadeAnswers(r) \/ Pick(r)
  PROVE  Goes(r) /\ settings' = settings
<1>1. ASSUME NEW command \in Commands \ {Lint}, NEW path \in Paths, Reject(r, command, path)
      PROVE  Goes(r) /\ settings' = settings
  BY <1>1, RestagedIsOnly, FailureEffect DEF Reject, Restaged, Goes
<1>2. ASSUME NEW command \in Commands \ {Lint}, NEW path \in Paths, Invoke(r, command, path)
      PROVE  Goes(r) /\ settings' = settings
  <2>1. UNCHANGED <<settings, collection, status, items, presented>>
    BY <1>2 DEF Invoke
  <2> QED BY <1>2, <2>1, InvokeIsOnly DEF Goes, Effect
<1>3. CASE FacadeFails(r) \/ FacadeRefuses(r)
  BY <1>3, DoneIsOnly, FailureEffect DEF FacadeFails, FacadeRefuses, Goes
<1>4. CASE FacadeAnswers(r)
  <2> DEFINE x     == run[r]
             end   == FacadeEnd(x.command, x.parses, x.tool)
             found == end.out.found
  <2>1. /\ x.stage = "tooldone" /\ x.command \in FacadeCommands /\ Applicable(end)
        /\ settings' = settings
    BY <1>4 DEF FacadeAnswers
  <2>2. x \in Invocation /\ x.parses \in BOOLEAN /\ x.tool \in Ends
    BY DEF TypeOK, Invocation
  <2>3. /\ x.parses /\ (x.command \in Live => LiveOk(x.tool))
        /\ found \in SUBSET Files
    BY <2>1, <2>2, ApplicableEnd
  <2>4. x.proper
    BY <2>1, <2>3 DEF Accounted
  <2>5. CASE /\ x.command = "showNavigationExample"
             /\ run' = [run EXCEPT ![r].stage = "picking"]
             /\ UNCHANGED <<collection, presented, status, items>>
    <3>1. [x EXCEPT !.stage = "picking"] \in Invocation
      BY <2>2 DEF Invocation, Stages
    <3>2. AccountOf([x EXCEPT !.stage = "picking"])
      BY <2>2, <2>4 DEF AccountOf, Invocation
    <3>3. Only(r, [x EXCEPT !.stage = "picking"])
      BY <2>1, <2>5 DEF Only
    <3> QED BY <2>1, <2>5, <3>1, <3>2, <3>3 DEF Goes, Effect
  <2>6. CASE Done(r) /\ ~UNCHANGED run
    <3>1. \/ UNCHANGED <<collection, presented>>
          \/ \E f \in SUBSET Files : Present(r, f)
      BY <1>4, <2>3, <2>6 DEF FacadeAnswers
    <3>2. \E kind \in {"diagnostics", "navigation", "none"} : Remember(r, TRUE, kind, found)
      <4>1. run' # [run EXCEPT ![r].stage = "picking"]
        BY <2>1, <2>2, <2>6 DEF Done, TypeOK
      <4> QED BY <1>4, <4>1 DEF FacadeAnswers
    <3> DEFINE fields == [x EXCEPT !.stage = "done"]
    <3>3. /\ Only(r, fields) /\ fields \in Invocation /\ AccountOf(fields)
          /\ fields.stage = "done" /\ fields.proper = x.proper
      BY <2>1, <2>6, DoneIsOnly
    <3> HIDE DEF fields, found, end, x
    <3>4. Effect(fields, r)
      BY <2>3, <2>4, <3>1, <3>2, <3>3, EndEffect
    <3> QED BY <2>1, <3>3, <3>4 DEF Goes
  <2>7. run' = [run EXCEPT ![r].stage = "done"] => ~UNCHANGED run
    BY <2>1 DEF TypeOK
  <2> QED BY <1>4, <2>1, <2>5, <2>6, <2>7 DEF FacadeAnswers, Done
<1>5. CASE Pick(r)
  <2>1. /\ run[r].stage = "picking" /\ Done(r)
        /\ Remember(r, TRUE, "navigation", {ExampleFile})
        /\ UNCHANGED <<settings, collection, presented>>
    BY <1>5 DEF Pick
  <2>2. run[r].proper
    BY <2>1 DEF Accounted
  <2>3. {ExampleFile} \in SUBSET Files
    BY ExampleAssumption
  <2> QED BY <2>1, <2>2, <2>3, DoneIsOnly DEF Goes, Effect
<1> QED BY <1>1, <1>2, <1>3, <1>4, <1>5

\* ... and of a lint command.
LEMMA LintGoes ==
  ASSUME TypeOK, Accounted, NEW r \in Runs,
         \/ \E path \in Paths : Lint \in Commands /\ (LintThrows(r, path) \/ LintStarts(r, path))
         \/ \E end \in ToolEnds : ToolFinishes(r, end)
         \/ LintDeadline(r) \/ LintAnswers(r)
  PROVE  Goes(r) /\ settings' = settings
<1>1. ASSUME NEW path \in Paths, Lint \in Commands, LintThrows(r, path) \/ LintStarts(r, path)
      PROVE  Goes(r) /\ settings' = settings
  <2>1. UNCHANGED <<settings, collection, status, items, presented>>
    BY <1>1 DEF LintThrows, LintStarts
  <2> QED BY <1>1, <2>1, RestagedIsOnly DEF LintThrows, LintStarts, Restaged, Goes, Effect
<1>2. ASSUME NEW end \in ToolEnds, ToolFinishes(r, end)
      PROVE  Goes(r) /\ settings' = settings
  <2>1. UNCHANGED <<settings, collection, status, items, presented>>
    BY <1>2 DEF ToolFinishes
  <2> QED BY <1>2, <2>1, ToolFinishesIsOnly DEF Goes, Effect
<1>3. CASE LintDeadline(r)
  <2> DEFINE x == [run[r] EXCEPT !.stage = "overdue"]
  <2>1. run[r] \in Invocation /\ run[r].stage = "tool"
    BY <1>3 DEF TypeOK, Invocation, LintDeadline
  <2>2. x \in Invocation /\ x.stage = "overdue"
    BY <2>1 DEF Invocation, Stages
  <2>3. AccountOf(x)
    BY <2>1, <2>2 DEF AccountOf, Accounted, Invocation
  <2>4. Only(r, x) /\ UNCHANGED <<settings, collection, status, items, presented>>
    BY <1>3, <2>1 DEF LintDeadline, Only
  <2> QED BY <2>2, <2>3, <2>4 DEF Goes, Effect
<1>4. CASE LintAnswers(r)
  <2>1. LintFound(run[r].tool) \in SUBSET Files
    BY PrintedFiles DEF LintFound, TypeOK
  <2> QED BY <1>4, <2>1, DoneIsOnly DEF LintAnswers, Goes, Effect
<1> QED BY <1>1, <1>2, <1>3, <1>4

LEMMA StepGoes ==
  ASSUME TypeOK, Accounted, Next
  PROVE  \/ \E s \in Settings : Configure(s)
         \/ \E r \in Runs : Goes(r) /\ settings' = settings
  BY FacadeGoes, LintGoes DEF Next

-----------------------------------------------------------------------------
(* The invariant *)

LEMMA InitInv == Init => IInv
<1> SUFFICES ASSUME Init PROVE IInv
  OBVIOUS
<1>1. Idle \in Invocation
  BY NoEndType DEF Idle, Invocation, Stages
<1>2. TypeOK
  <2>1. run \in [Runs -> Invocation]
    BY <1>1 DEF Init
  <2>2. presented \in Seq(Presentation)
    BY DEF Init
  <2> QED BY <2>1, <2>2 DEF Init, TypeOK, Invocation, Presentation
<1>3. Accounted
  BY DEF Init, Accounted, Idle
<1>4. \A f \in Files : Naming(f) = {} /\ collection[f] = "none"
  <2>1. DOMAIN presented = {}
    BY DEF Init
  <2> QED BY <2>1 DEF Init, Naming
<1>5. CollectionIsLatest
  BY <1>4 DEF CollectionIsLatest
<1>6. StatusMatchesItems
  BY DEF Init, StatusMatchesItems
<1> QED BY <1>2, <1>3, <1>5, <1>6 DEF IInv

\* Presenting appends to the history.
LEMMA Appended ==
  ASSUME TypeOK, NEW r \in Runs, NEW found \in SUBSET Files, Present(r, found)
  PROVE  /\ presented' \in Seq(Presentation)
         /\ Len(presented) \in Nat
         /\ DOMAIN presented = 1 .. Len(presented)
         /\ Len(presented') = Len(presented) + 1
         /\ DOMAIN presented' = 1 .. Len(presented) + 1
         /\ \A i \in 1 .. Len(presented) : presented'[i] = presented[i]
         /\ presented'[Len(presented) + 1].run = r
         /\ presented'[Len(presented) + 1].found = found
<1> DEFINE p == [run |-> r, found |-> found]
<1>1. presented \in Seq(Presentation)
  BY DEF TypeOK, Presentation
<1>2. p \in Presentation /\ p.run = r /\ p.found = found
  BY DEF Presentation
<1>3. presented' = Append(presented, p)
  BY DEF Present
<1> HIDE DEF p
<1> QED BY <1>1, <1>2, <1>3, AppendProperties

\* An empty presentation wipes the collection; another one is the latest for the
\* files it names, and for the others nothing changes.
LEMMA PresentKeepsLatest ==
  ASSUME TypeOK, CollectionIsLatest, NEW r \in Runs, NEW found \in SUBSET Files,
         Present(r, found)
  PROVE  CollectionIsLatest'
<1> DEFINE n == Len(presented)
<1>1. /\ n \in Nat
      /\ DOMAIN presented = 1 .. n
      /\ Len(presented') = n + 1
      /\ DOMAIN presented' = 1 .. n + 1
      /\ \A i \in 1 .. n : presented'[i] = presented[i]
      /\ presented'[n + 1].run = r
      /\ presented'[n + 1].found = found
  BY Appended
<1>2. collection' = Show(r, found)
  BY DEF Present
<1> SUFFICES ASSUME NEW f \in Files
             PROVE  IF Naming(f)' = {} THEN collection'[f] = "none"
                    ELSE \E i \in Naming(f)' : /\ \A j \in Naming(f)' : j <= i
                                               /\ collection'[f] = presented'[i].run
  BY DEF CollectionIsLatest
<1>3. Naming(f)' = {i \in 1 .. n + 1 :
                      /\ f \in presented'[i].found
                      /\ \A j \in i .. n + 1 : presented'[j].found # {}}
  BY <1>1 DEF Naming
<1>4. Naming(f) = {i \in 1 .. n :
                     /\ f \in presented[i].found
                     /\ \A j \in i .. n : presented[j].found # {}}
  BY <1>1 DEF Naming
<1> HIDE DEF n
<1>5. CASE found = {}
  <2>1. collection'[f] = "none"
    BY <1>2, <1>5 DEF Show
  <2>2. \A i \in 1 .. n + 1 : n + 1 \in i .. n + 1
    BY <1>1
  <2>3. Naming(f)' = {}
    BY <1>1, <1>3, <1>5, <2>2
  <2> QED BY <2>1, <2>3
<1>6. CASE found # {} /\ f \in found
  <2>1. collection'[f] = r
    BY <1>2, <1>6 DEF Show
  <2>2. n + 1 \in Naming(f)'
    <3>1. n + 1 \in 1 .. n + 1 /\ \A j \in n + 1 .. n + 1 : j = n + 1
      BY <1>1
    <3> QED BY <1>1, <1>3, <1>6, <3>1
  <2>3. \A j \in Naming(f)' : j <= n + 1
    BY <1>1, <1>3
  <2> QED BY <1>1, <2>1, <2>2, <2>3
<1>7. CASE found # {} /\ f \notin found
  <2>1. collection'[f] = collection[f]
    BY <1>2, <1>7 DEF Show
  <2>2. ASSUME NEW i
        PROVE  i \in Naming(f)' <=> i \in Naming(f)
    <3>1. i \in Naming(f)' => i \in 1 .. n
      <4>1. i \in 1 .. n + 1 /\ i # n + 1 => i \in 1 .. n
        BY <1>1
      <4> QED BY <1>1, <1>3, <1>7, <4>1
    <3>2. ASSUME i \in 1 .. n
          PROVE  /\ presented'[i].found = presented[i].found
                 /\ (\A j \in i .. n + 1 : presented'[j].found # {})
                      <=> (\A j \in i .. n : presented[j].found # {})
      <4>1. \A j \in i .. n + 1 : j = n + 1 \/ j \in i .. n
        BY <1>1, <3>2
      <4>2. \A j \in i .. n : j \in i .. n + 1 /\ presented'[j] = presented[j]
        BY <1>1, <3>2
      <4> QED BY <1>1, <1>7, <3>2, <4>1, <4>2
    <3>3. i \in 1 .. n => i \in 1 .. n + 1
      BY <1>1
    <3> QED BY <1>3, <1>4, <3>1, <3>2, <3>3
  <2>3. Naming(f)' = Naming(f)
    BY <2>2
  <2>4. \A i \in Naming(f) : presented'[i].run = presented[i].run
    BY <1>1, <1>4
  <2> QED BY <2>1, <2>3, <2>4 DEF CollectionIsLatest
<1> QED BY <1>5, <1>6, <1>7

LEMMA GoesInv ==
  ASSUME IInv, NEW r \in Runs, Goes(r), settings' = settings
  PROVE  IInv'
<1>1. PICK fields \in Invocation : /\ Only(r, fields)
                                   /\ AccountOf(fields)
                                   /\ Effect(fields, r)
  BY DEF Goes
<1>2. TypeOK /\ Accounted /\ CollectionIsLatest /\ StatusMatchesItems
  BY DEF IInv
<1>3. /\ run' \in [Runs -> Invocation]
      /\ Accounted'
      /\ run'[r] = fields
      /\ \A q \in Runs \ {r} : run'[q] = run[q]
  BY <1>1, <1>2, OnlyKeeps
<1>4. CollectionIsLatest'
  <2>1. CASE UNCHANGED <<collection, presented>>
    BY <1>2, <2>1 DEF CollectionIsLatest, Naming
  <2>2. CASE \E found \in SUBSET Files : Present(r, found)
    BY <1>2, <2>2, PresentKeepsLatest
  <2> QED BY <1>1, <2>1, <2>2 DEF Effect
<1>5. /\ collection' \in [Files -> Runs \cup {"none"}]
      /\ presented' \in Seq(Presentation)
  <2>1. CASE UNCHANGED <<collection, presented>>
    BY <1>2, <2>1 DEF TypeOK, Presentation
  <2>2. ASSUME NEW found \in SUBSET Files, Present(r, found)
        PROVE  /\ collection' \in [Files -> Runs \cup {"none"}]
               /\ presented' \in Seq(Presentation)
    BY <1>2, <2>2, Appended DEF TypeOK, Present, Show
  <2> QED BY <1>1, <2>1, <2>2 DEF Effect
<1>6. /\ status' \in [run : Runs, ok : BOOLEAN, kind : {"diagnostics", "navigation", "none"},
                      found : SUBSET Files] \cup {None}
      /\ items' \in [run : Runs, found : SUBSET Files] \cup {None}
      /\ StatusMatchesItems'
  <2>0. run[r].stage # "done"
    BY <1>1 DEF Only
  <2>1. CASE UNCHANGED <<status, items>>
    <3>1. items # None => items.run # r /\ items.run \in Runs
      BY <1>2, <2>0 DEF TypeOK, StatusMatchesItems
    <3> QED BY <1>2, <1>3, <2>1, <3>1 DEF TypeOK, StatusMatchesItems
  <2>2. ASSUME NEW ok \in BOOLEAN, NEW kind \in {"diagnostics", "navigation", "none"},
               NEW found \in SUBSET Files,
               Remember(r, ok, kind, found), fields.stage = "done", ok => fields.proper
        PROVE  /\ status' \in [run : Runs, ok : BOOLEAN,
                               kind : {"diagnostics", "navigation", "none"},
                               found : SUBSET Files] \cup {None}
               /\ items' \in [run : Runs, found : SUBSET Files] \cup {None}
               /\ StatusMatchesItems'
    <3>1. CASE ok /\ kind = "navigation"
      <4>1. /\ status' = [run |-> r, ok |-> ok, kind |-> kind, found |-> found]
            /\ items' = [run |-> r, found |-> found]
        BY <2>2, <3>1 DEF Remember
      <4> QED BY <1>3, <2>2, <3>1, <4>1 DEF StatusMatchesItems
    <3>2. CASE ~(ok /\ kind = "navigation")
      <4>1. /\ status' = [run |-> r, ok |-> ok, kind |-> kind, found |-> found]
            /\ items' = items
        BY <2>2, <3>2 DEF Remember
      <4>2. items # None => items.run # r /\ items.run \in Runs
        BY <1>2, <2>0 DEF TypeOK, StatusMatchesItems
      <4>3. ~(status'.ok /\ status'.kind = "navigation")
        BY <3>2, <4>1
      <4> QED BY <1>2, <1>3, <4>1, <4>2, <4>3 DEF TypeOK, StatusMatchesItems
    <3> QED BY <3>1, <3>2
  <2> QED BY <1>1, <2>1, <2>2 DEF Effect
<1>7. TypeOK'
  BY <1>2, <1>3, <1>5, <1>6 DEF TypeOK, Invocation, Presentation
<1> QED BY <1>3, <1>4, <1>6, <1>7 DEF IInv

LEMMA StepInv == IInv /\ [Next]_vars => IInv'
<1> SUFFICES ASSUME IInv, [Next]_vars PROVE IInv'
  OBVIOUS
<1>1. ASSUME UNCHANGED <<run, collection, status, items, presented>>, settings' \in Settings
      PROVE  IInv'
  <2>1. TypeOK'
    BY <1>1 DEF IInv, TypeOK
  <2>2. Accounted'
    BY <1>1 DEF IInv, Accounted
  <2>3. CollectionIsLatest'
    BY <1>1 DEF IInv, CollectionIsLatest, Naming
  <2>4. StatusMatchesItems'
    BY <1>1 DEF IInv, StatusMatchesItems
  <2> QED BY <2>1, <2>2, <2>3, <2>4 DEF IInv
<1>2. CASE UNCHANGED vars
  BY <1>1, <1>2 DEF vars, IInv, TypeOK
<1>3. ASSUME NEW s \in Settings, Configure(s)
      PROVE  IInv'
  BY <1>1, <1>3 DEF Configure
<1>4. ASSUME NEW r \in Runs, Goes(r), settings' = settings
      PROVE  IInv'
  BY <1>4, GoesInv
<1> QED BY <1>2, <1>3, <1>4, StepGoes DEF IInv

\* Types, the account of every invocation, and both properties hold always.
THEOREM Invariance == Spec => []IInv
<1> QED BY InitInv, StepInv, PTL DEF Spec

\* The shared records, and where each invocation stands, are what they are meant to
\* be: extension.mjs, the command handlers.
THEOREM TypeCorrect == Spec => []TypeOK
<1>1. IInv => TypeOK
  BY DEF IInv
<1> QED BY <1>1, Invariance, PTL

\* However many commands overlap, each file shows the diagnostics presented last of
\* those that name it: presenter.mjs, presentDiagnostics().
THEOREM LatestIsShown == Spec => []CollectionIsLatest
<1>1. IInv => CollectionIsLatest
  BY DEF IInv
<1> QED BY <1>1, Invariance, PTL

\* The remembered status and the remembered items never tell of different
\* navigations, and items come of tools that succeeded: command-handlers.mjs,
\* rememberCommandResult().
THEOREM RecordsMatch == Spec => []StatusMatchesItems
<1>1. IInv => StatusMatchesItems
  BY DEF IInv
<1> QED BY <1>1, Invariance, PTL

-----------------------------------------------------------------------------
(* The refinement *)

\* What a user sees of one invocation.
ProgressOf(x) ==
  IF x.stage \in {"idle", "done"} THEN x.stage ELSE "asked"

ReportedOf(x) ==
  IF ~x.proper THEN [reported |-> FALSE, found |-> {}]
  ELSE [reported |-> TRUE,
        found |-> IF x.command = Lint THEN x.tool.out.found
                  ELSE IF x.command \in Live THEN LiveFound(x.command, x.tool)
                  ELSE {ExampleFile}]

LEMMA Seen ==
  ASSUME NEW r \in Runs, NEW fields, Only(r, fields), run \in [Runs -> Invocation]
  PROVE  /\ Progress[r] = ProgressOf(run[r])
         /\ Reported[r] = ReportedOf(run[r])
         /\ Progress' = [Progress EXCEPT ![r] = ProgressOf(fields)]
         /\ Reported' = [Reported EXCEPT ![r] = ReportedOf(fields)]
         /\ ProgressOf(fields) = ProgressOf(run[r]) => Progress' = Progress
         /\ ReportedOf(fields) = ReportedOf(run[r]) => Reported' = Reported
<1>1. /\ run'[r] = fields
      /\ \A q \in Runs \ {r} : run'[q] = run[q]
  BY DEF Only
<1>2. /\ Progress = [q \in Runs |-> ProgressOf(run[q])]
      /\ Reported = [q \in Runs |-> ReportedOf(run[q])]
  BY DEF Progress, ProgressOf, Reported, ReportedOf
<1>3. /\ Progress' = [q \in Runs |-> ProgressOf(run'[q])]
      /\ Reported' = [q \in Runs |-> ReportedOf(run'[q])]
  BY DEF Progress, ProgressOf, Reported, ReportedOf
<1> QED BY <1>1, <1>2, <1>3

Nothing == [reported |-> FALSE, found |-> {}]

\* A report names files.
LEMMA ReportedType ==
  ASSUME NEW x \in Invocation
  PROVE  /\ ~x.proper => ReportedOf(x) = Nothing
         /\ x.proper => \E found \in SUBSET Files :
                          ReportedOf(x) = [reported |-> TRUE, found |-> found]
<1>1. x.tool \in Ends
  BY DEF Invocation
<1>2. x.tool.out.found \in SUBSET Files /\ LiveFound(x.command, x.tool) \in SUBSET Files
  BY <1>1, PrintedFiles DEF LiveFound
<1> QED BY <1>2, ExampleAssumption DEF ReportedOf, Nothing

\* The four ways in which an invocation shows that it goes on, and the one in which
\* it does not.
LEMMA FailStep ==
  ASSUME run \in [Runs -> Invocation], NEW r \in Runs, NEW fields, Only(r, fields),
         fields.stage = "done", ReportedOf(fields) = ReportedOf(run[r]),
         collection' = collection
  PROVE  Reports!Fail(r)
<1>1. Progress[r] # "done" /\ Progress' = [Progress EXCEPT ![r] = "done"]
  BY Seen DEF ProgressOf, Only
<1>2. Reported' = Reported
  BY Seen
<1> QED BY <1>1, <1>2 DEF Reports!Fail

LEMMA AskStep ==
  ASSUME run \in [Runs -> Invocation], NEW r \in Runs, NEW fields \in Invocation,
         Only(r, fields),
         run[r].stage = "idle", ~run[r].proper, fields.stage \in {"tool", "tooldone"},
         collection' = collection
  PROVE  Reports!Ask(r)
<1>1. Progress[r] = "idle" /\ Progress' = [Progress EXCEPT ![r] = "asked"]
  BY Seen DEF ProgressOf, Only
<1>2. Reported[r] = Nothing /\ Reported' = [Reported EXCEPT ![r] = ReportedOf(fields)]
  BY Seen, ReportedType
<1>3. Reported' = Reported \/ \E found \in SUBSET Files : Reports!Told(r, found)
  <2>1. CASE fields.proper
    <3>1. PICK found \in SUBSET Files :
            ReportedOf(fields) = [reported |-> TRUE, found |-> found]
      BY <2>1, ReportedType
    <3>2. Reports!Told(r, found)
      BY <1>2, <3>1 DEF Reports!Told
    <3> QED BY <3>2
  <2>2. CASE ~fields.proper
    <3>1. ReportedOf(fields) = Reported[r]
      BY <1>2, <2>2, ReportedType
    <3> QED BY <3>1, Seen
  <2> QED BY <2>1, <2>2
<1> QED BY <1>1, <1>3 DEF Reports!Ask

LEMMA ReportStep ==
  ASSUME run \in [Runs -> Invocation], NEW r \in Runs, NEW fields \in Invocation,
         Only(r, fields),
         run[r].stage \in {"tool", "overdue"}, ~run[r].proper, fields.stage = "tooldone",
         collection' = collection
  PROVE  Reports!Report(r) \/ UNCHANGED Reports!vars
<1>1. Progress[r] = "asked" /\ Progress' = Progress
  BY Seen DEF ProgressOf
<1>2. Reported[r] = Nothing /\ Reported' = [Reported EXCEPT ![r] = ReportedOf(fields)]
  BY Seen, ReportedType
<1>3. CASE fields.proper
  <2>1. PICK found \in SUBSET Files :
          ReportedOf(fields) = [reported |-> TRUE, found |-> found]
    BY <1>3, ReportedType
  <2>2. Reports!Told(r, found)
    BY <1>2, <2>1 DEF Reports!Told
  <2>3. ~Reported[r].reported
    BY <1>2 DEF Nothing
  <2> QED BY <1>1, <2>2, <2>3 DEF Reports!Report
<1>4. CASE ~fields.proper
  <2>1. Reported' = Reported
    BY <1>2, <1>4, Seen, ReportedType
  <2> QED BY <1>1, <2>1 DEF Reports!vars
<1> QED BY <1>3, <1>4

LEMMA PublishStep ==
  ASSUME run \in [Runs -> Invocation], NEW r \in Runs, NEW fields, Only(r, fields),
         run[r].stage = "tooldone", fields.stage = "done",
         ReportedOf(fields) = ReportedOf(run[r]),
         NEW found, ReportedOf(run[r]) = [reported |-> TRUE, found |-> found],
         collection' = Show(r, found)
  PROVE  Reports!Publish(r)
<1>1. Progress[r] = "asked" /\ Progress' = [Progress EXCEPT ![r] = "done"]
  BY Seen DEF ProgressOf
<1>2. Reported[r].reported /\ Reported[r].found = found
  BY Seen
<1>3. Reported' = Reported
  BY Seen
<1>4. collection' = [f \in Files |-> IF Reported[r].found = {} THEN "none"
                                     ELSE IF f \in Reported[r].found THEN r
                                     ELSE collection[f]]
  BY <1>2 DEF Show
<1> QED BY <1>1, <1>2, <1>3, <1>4 DEF Reports!Publish

LEMMA PendingStep ==
  ASSUME run \in [Runs -> Invocation], NEW r \in Runs, NEW fields, Only(r, fields),
         run[r].stage \notin {"idle", "done"}, fields.stage \notin {"idle", "done"},
         ReportedOf(fields) = ReportedOf(run[r]), collection' = collection
  PROVE  UNCHANGED Reports!vars
<1>1. Progress' = Progress /\ Reported' = Reported
  BY Seen DEF ProgressOf
<1> QED BY <1>1 DEF Reports!vars

LEMMA RefinementStep ==
  IInv /\ [Next]_vars => [Reports!Next]_(Reports!vars)
<1> SUFFICES ASSUME TypeOK, Accounted, [Next]_vars
             PROVE  [Reports!Next]_(Reports!vars)
  BY DEF IInv
<1>0. run \in [Runs -> Invocation]
  BY DEF TypeOK, Invocation
<1>1. ASSUME UNCHANGED <<run, collection>>
      PROVE  UNCHANGED Reports!vars
  BY <1>1 DEF Reports!vars, Progress, Reported
<1>2. ASSUME NEW r \in Runs, NEW command \in Commands \ {Lint}, NEW path \in Paths,
             Reject(r, command, path)
      PROVE  Reports!Fail(r)
  <2>0. run[r].stage = "idle" /\ command \in Commands /\ Restaged(r, "done", command)
    BY <1>2 DEF Reject, Restaged
  <2>1. PICK x \in Invocation : Only(r, x) /\ x.stage = "done" /\ ~x.proper
    BY <2>0, RestagedIsOnly
  <2>2. run[r].proper = FALSE /\ run[r] \in Invocation
    BY <1>0, <1>2 DEF Accounted, Reject, Idle
  <2>3. ReportedOf(x) = ReportedOf(run[r])
    BY <2>1, <2>2, ReportedType
  <2> QED BY <1>0, <1>2, <2>1, <2>3, FailStep DEF Reject, FailFacade
<1>3. ASSUME NEW r \in Runs, NEW command \in Commands \ {Lint}, NEW path \in Paths,
             Invoke(r, command, path)
      PROVE  Reports!Ask(r)
  <2>1. run[r].stage = "idle" /\ ~run[r].proper /\ collection' = collection
    BY <1>3 DEF Invoke, Accounted, Idle
  <2> QED BY <1>0, <1>3, <2>1, InvokeIsOnly, AskStep
<1>4. ASSUME NEW r \in Runs, NEW path \in Paths, Lint \in Commands, LintThrows(r, path)
      PROVE  Reports!Fail(r)
  <2>0. run[r].stage = "idle" /\ Lint \in Commands /\ Restaged(r, "done", Lint)
    BY <1>4 DEF LintThrows, Restaged
  <2>1. PICK x \in Invocation : Only(r, x) /\ x.stage = "done" /\ ~x.proper
    BY <2>0, RestagedIsOnly
  <2>2. run[r].proper = FALSE /\ run[r] \in Invocation
    BY <1>0, <1>4 DEF Accounted, LintThrows, Idle
  <2>3. ReportedOf(x) = ReportedOf(run[r])
    BY <2>1, <2>2, ReportedType
  <2> QED BY <1>0, <1>4, <2>1, <2>3, FailStep DEF LintThrows
<1>5. ASSUME NEW r \in Runs, NEW path \in Paths, Lint \in Commands, LintStarts(r, path)
      PROVE  Reports!Ask(r)
  <2>0. run[r].stage = "idle" /\ Lint \in Commands /\ Restaged(r, "tool", Lint)
    BY <1>5 DEF LintStarts, Restaged
  <2>1. PICK x \in Invocation : Only(r, x) /\ x.stage = "tool"
    BY <2>0, RestagedIsOnly
  <2>2. run[r].stage = "idle" /\ ~run[r].proper /\ collection' = collection
    BY <1>5 DEF LintStarts, Accounted, Idle
  <2> QED BY <1>0, <2>1, <2>2, AskStep
<1>6. ASSUME NEW r \in Runs, NEW end \in ToolEnds, ToolFinishes(r, end)
      PROVE  Reports!Report(r) \/ UNCHANGED Reports!vars
  <2>1. /\ run[r].stage \in {"tool", "overdue"} /\ ~run[r].proper
        /\ collection' = collection
    BY <1>6 DEF ToolFinishes, Accounted
  <2> QED BY <1>0, <1>6, <2>1, ToolFinishesIsOnly, ReportStep
<1>7. ASSUME NEW r \in Runs, run[r].stage # "done", Done(r)
      PROVE  LET x == [run[r] EXCEPT !.stage = "done"] IN
             Only(r, x) /\ x.stage = "done" /\ ReportedOf(x) = ReportedOf(run[r])
  <2> DEFINE x == [run[r] EXCEPT !.stage = "done"]
  <2>1. /\ Only(r, x) /\ x.stage = "done" /\ x.proper = run[r].proper
        /\ x.command = run[r].command /\ x.tool = run[r].tool
    BY <1>7, DoneIsOnly
  <2> QED BY <2>1 DEF ReportedOf
<1>8. ASSUME NEW r \in Runs, run[r].stage # "done", Done(r), collection' = collection
      PROVE  Reports!Fail(r)
  BY <1>0, <1>7, <1>8, FailStep
<1>9. ASSUME NEW r \in Runs, FacadeFails(r) \/ FacadeRefuses(r) \/ Pick(r)
      PROVE  Reports!Fail(r)
  BY <1>8, <1>9 DEF FacadeFails, FacadeRefuses, FailFacade, Pick
<1>10. ASSUME NEW r \in Runs, FacadeAnswers(r)
       PROVE  Reports!Next \/ UNCHANGED Reports!vars
  <2> DEFINE x     == run[r]
             end   == FacadeEnd(x.command, x.parses, x.tool)
             found == end.out.found
  <2>1. /\ x.stage = "tooldone" /\ x.command \in FacadeCommands /\ Applicable(end)
        /\ x \in Invocation /\ x.parses \in BOOLEAN /\ x.tool \in Ends
    BY <1>0, <1>10 DEF FacadeAnswers, Invocation
  <2>2. /\ x.parses /\ (x.command \in Live => LiveOk(x.tool))
        /\ found = IF x.command \in Live THEN LiveFound(x.command, x.tool) ELSE {ExampleFile}
    BY <2>1, ApplicableEnd
  <2>3. x.proper /\ x.command # Lint
    BY <2>1, <2>2, LintIsNoFacadeCommand DEF Accounted
  <2>4. ReportedOf(x) = [reported |-> TRUE, found |-> found]
    BY <2>2, <2>3 DEF ReportedOf
  <2>5. CASE Present(r, found) /\ Done(r)
    <3>1. collection' = Show(r, found)
      BY <2>5 DEF Present
    <3>2. Reports!Publish(r)
      BY <1>0, <1>7, <2>1, <2>4, <2>5, <3>1, PublishStep
    <3> QED BY <3>2 DEF Reports!Next
  <2>6. CASE run' = [run EXCEPT ![r].stage = "picking"] /\ collection' = collection
    <3> DEFINE y == [x EXCEPT !.stage = "picking"]
    <3>1. Only(r, y)
      BY <2>1, <2>6 DEF Only
    <3>2. /\ y.stage = "picking" /\ y.proper = x.proper
          /\ y.command = x.command /\ y.tool = x.tool
      BY <2>1 DEF Invocation
    <3>3. ReportedOf(y) = ReportedOf(x)
      BY <3>2 DEF ReportedOf
    <3> QED BY <1>0, <2>1, <2>6, <3>1, <3>2, <3>3, PendingStep
  <2>7. CASE Done(r) /\ collection' = collection
    BY <1>8, <2>1, <2>7 DEF Reports!Next
  <2> QED BY <1>10, <2>5, <2>6, <2>7 DEF FacadeAnswers
<1>11. ASSUME NEW r \in Runs, LintDeadline(r)
       PROVE  UNCHANGED Reports!vars
  <2> DEFINE y == [run[r] EXCEPT !.stage = "overdue"]
  <2>1. run[r].stage = "tool" /\ run[r] \in Invocation
    BY <1>0, <1>11 DEF LintDeadline
  <2>2. Only(r, y) /\ collection' = collection
    BY <1>11, <2>1 DEF LintDeadline, Only
  <2>3. /\ y.stage = "overdue" /\ y.proper = run[r].proper
        /\ y.command = run[r].command /\ y.tool = run[r].tool
    BY <2>1 DEF Invocation
  <2>4. ReportedOf(y) = ReportedOf(run[r])
    BY <2>3 DEF ReportedOf
  <2> QED BY <1>0, <2>1, <2>2, <2>3, <2>4, PendingStep
<1>12. ASSUME NEW r \in Runs, LintAnswers(r)
       PROVE  Reports!Publish(r)
  <2>1. /\ run[r].stage = "tooldone" /\ run[r].command = Lint /\ Done(r)
        /\ collection' = Show(r, LintFound(run[r].tool))
    BY <1>12 DEF LintAnswers, Present
  <2>2. run[r].proper
    BY <2>1, LintIsNoFacadeCommand DEF Accounted
  <2>3. ReportedOf(run[r]) = [reported |-> TRUE, found |-> LintFound(run[r].tool)]
    BY <2>1, <2>2 DEF ReportedOf, LintFound
  <2> QED BY <1>0, <1>7, <2>1, <2>3, PublishStep
<1>13. CASE UNCHANGED vars
  BY <1>1, <1>13 DEF vars
<1>14. ASSUME NEW s \in Settings, Configure(s)
       PROVE  UNCHANGED Reports!vars
  BY <1>1, <1>14 DEF Configure
<1>15. ASSUME NEW r \in Runs, Reports!Ask(r) \/ Reports!Report(r) \/ Reports!Publish(r) \/ Reports!Fail(r)
       PROVE  Reports!Next
  BY <1>15 DEF Reports!Next
<1> QED
  BY <1>2, <1>3, <1>4, <1>5, <1>6, <1>9, <1>10, <1>11, <1>12, <1>13, <1>14, <1>15 DEF Next

\* Commands publish the report of their own tool, as a whole and once, or change
\* nothing of what is shown: the commands implement ToolReports.
THEOREM CommandsImplementReports == Spec => AbstractSpec
<1>1. Init => Reports!Init
  BY DEF Init, Reports!Init, Reports!Nothing, Progress, Reported, Idle
<1> QED BY <1>1, RefinementStep, Invariance, PTL DEF Spec, AbstractSpec, Reports!Spec

=============================================================================

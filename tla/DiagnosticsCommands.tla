------------------------- MODULE DiagnosticsCommands -------------------------
(***************************************************************************)
(* The diagnostics and navigation commands of the VS Code prototype, any   *)
(* number of them under way at a time (extension.mjs, command-handlers.mjs,*)
(* presenter.mjs, verible-lint.mjs).  They share the diagnostic collection,*)
(* runtime.recentCommandStatus and runtime.recentNavigationItems.  A       *)
(* command reads the settings when it is invoked; the processes it waits   *)
(* for end in any order, and the user closes quick picks when he likes.    *)
(* From the end of a process to the end of the handler, or to a quick      *)
(* pick, there are promise continuations only: one step here.              *)
(***************************************************************************)
EXTENDS FacadeChain, Sequences

CONSTANTS
  Runs,      \* invocations of commands
  Commands,  \* the commands invoked
  Settings,  \* the settings the user goes through
  Paths,     \* the path a command may be given, "absent" for none
  ToolEnds   \* how the CLI and the linter may end

Lint == "runVeribleLintDiagnostics"

ASSUME InputAssumption ==
  /\ Commands \subseteq FacadeCommands \cup {Lint}
  /\ Settings \subseteq [Keys -> Raw]
  /\ Paths \subseteq Raw
  /\ ToolEnds \subseteq Ends
  /\ "none" \notin Runs

VARIABLES
  settings,    \* what the user has configured
  run,         \* where each invocation stands
  collection,  \* the run whose diagnostics each file shows, or "none"
  status,      \* runtime.recentCommandStatus
  items,       \* runtime.recentNavigationItems
  presented    \* history: the diagnostics presented, in order

vars == <<settings, run, collection, status, items, presented>>

\* "tool": the CLI or the linter runs, "overdue": the linter got SIGTERM,
\* "tooldone": its end is known to whoever waits for it, "picking": a quick
\* pick is open.
Stages == {"idle", "tool", "overdue", "tooldone", "picking", "done"}
None   == [run |-> "none"]
NoEnd  == [code |-> "none", out |-> Blank]
Idle   == [stage |-> "idle", command |-> "none", parses |-> TRUE, tool |-> NoEnd, proper |-> FALSE]

TypeOK ==
  /\ settings \in Settings
  /\ run \in [Runs -> [stage : Stages, command : Commands \cup {"none"}, parses : BOOLEAN,
                       tool : Ends, proper : BOOLEAN]]
  /\ collection \in [Files -> Runs \cup {"none"}]
  /\ status \in [run : Runs, ok : BOOLEAN, kind : {"diagnostics", "navigation", "none"},
                 found : SUBSET Files] \cup {None}
  /\ items \in [run : Runs, found : SUBSET Files] \cup {None}
  /\ presented \in Seq([run : Runs, found : SUBSET Files])

Init ==
  /\ settings \in Settings
  /\ run = [r \in Runs |-> Idle]
  /\ collection = [f \in Files |-> "none"]
  /\ status = None
  /\ items = None
  /\ presented = <<>>

-----------------------------------------------------------------------------
(* What a command leaves behind *)

\* Variant: files that are not named are forgotten as well.
ShowAfresh(r, found) == [f \in Files |-> IF f \in found THEN r ELSE "none"]

\* presentDiagnostics(): no diagnostics clear the collection, others are set
\* for the files they name.
Show(r, found) ==
  [f \in Files |-> IF found = {} THEN "none" ELSE IF f \in found THEN r ELSE collection[f]]

Present(r, found) ==
  /\ collection' = Show(r, found)
  /\ presented' = Append(presented, [run |-> r, found |-> found])

\* Variant: an empty list of items is not remembered.
RememberNonEmpty(r, ok, kind, found) ==
  /\ status' = [run |-> r, ok |-> ok, kind |-> kind, found |-> found]
  /\ items' = IF ok /\ kind = "navigation" /\ found # {} THEN [run |-> r, found |-> found] ELSE items

\* rememberCommandResult(): the status always, the items when there are any
\* in the action, which a failed command has not got.
Remember(r, ok, kind, found) ==
  /\ status' = [run |-> r, ok |-> ok, kind |-> kind, found |-> found]
  /\ items' = IF ok /\ kind = "navigation" THEN [run |-> r, found |-> found] ELSE items

Done(r) == run' = [run EXCEPT ![r].stage = "done"]

FailFacade(r) ==
  /\ Remember(r, FALSE, "none", {})
  /\ UNCHANGED <<settings, collection, presented>>

-----------------------------------------------------------------------------
(* Facade commands *)

\* createCommandExecutionPlan() throws: the command ends before any process.
Reject(r, command, path) ==
  /\ run[r].stage = "idle"
  /\ command \in FacadeCommands
  /\ ~Plans(command, Requested(settings, command, path))
  /\ run' = [run EXCEPT ![r].stage = "done", ![r].command = command]
  /\ FailFacade(r)

\* The facade is started; with live arguments it starts the CLI, after findPython().
Invoke(r, command, path) ==
  LET requested == Requested(settings, command, path)
      parses    == ArgumentsParse(command, requested)
      waits     == command \in Live /\ parses
  IN /\ run[r].stage = "idle"
     /\ command \in FacadeCommands
     /\ Plans(command, requested)
     /\ run' = [run EXCEPT ![r] = [stage |-> IF waits THEN "tool" ELSE "tooldone",
                                   command |-> command, parses |-> parses,
                                   tool |-> NoEnd, proper |-> command \notin Live]]
     /\ UNCHANGED <<settings, collection, status, items, presented>>

\* The tool ends: the CLI with any exit code and output, the linter too.
ToolFinishes(r, end) ==
  /\ run[r].stage \in {"tool", "overdue"}
  /\ run' = [run EXCEPT ![r].stage = "tooldone", ![r].tool = end,
                        ![r].proper = LiveOk(end) \/ run[r].command = Lint]
  /\ UNCHANGED <<settings, collection, status, items, presented>>

\* The facade process is killed, or main() throws, before it has printed: it may still
\* be waiting for the CLI.
FacadeFails(r) ==
  /\ run[r].stage \in {"tool", "tooldone"}
  /\ run[r].command \in FacadeCommands
  /\ Done(r)
  /\ FailFacade(r)

\* The facade ends, and its end is no action to apply.
FacadeRefuses(r) ==
  /\ run[r].stage = "tooldone"
  /\ run[r].command \in FacadeCommands
  /\ ~Applicable(FacadeEnd(run[r].command, run[r].parses, run[r].tool))
  /\ Done(r)
  /\ FailFacade(r)

\* applyUiAction() on diagnostics, and the end of the handler; on navigation
\* items it opens a quick pick first, when the command shows them and there
\* are any.
FacadeAnswers(r) ==
  LET command == run[r].command
      end     == FacadeEnd(command, run[r].parses, run[r].tool)
      found   == end.out.found
  IN /\ run[r].stage = "tooldone"
     /\ command \in FacadeCommands
     /\ Applicable(end)
     /\ UNCHANGED settings
     /\ \/ /\ end.out.kind = "diagnostics"
           /\ Present(r, found)
           /\ Remember(r, TRUE, "diagnostics", found)
           /\ Done(r)
        \/ /\ end.out.kind = "navigation"
           /\ command = "showNavigationExample" /\ found # {}
           /\ run' = [run EXCEPT ![r].stage = "picking"]
           /\ UNCHANGED <<collection, presented, status, items>>
        \/ /\ end.out.kind = "navigation"
           /\ command # "showNavigationExample" \/ found = {}
           /\ Remember(r, TRUE, "navigation", found)
           /\ Done(r)
           /\ UNCHANGED <<collection, presented>>

\* The user picks an item, or closes the quick pick: the pick changes nothing.
Pick(r) ==
  /\ run[r].stage = "picking"
  /\ Remember(r, TRUE, "navigation", {ExampleFile})
  /\ Done(r)
  /\ UNCHANGED <<settings, collection, presented>>

-----------------------------------------------------------------------------
(* The lint command *)

\* normalizeConfig() or buildVeribleLintInvocation() throws: nothing else is done.
LintThrows(r, path) ==
  /\ run[r].stage = "idle"
  /\ ~Normalizes(settings) \/ path = "blank"
  /\ run' = [run EXCEPT ![r].stage = "done", ![r].command = Lint]
  /\ UNCHANGED <<settings, collection, status, items, presented>>

LintStarts(r, path) ==
  /\ run[r].stage = "idle"
  /\ Normalizes(settings) /\ path # "blank"
  /\ run' = [run EXCEPT ![r].stage = "tool", ![r].command = Lint]
  /\ UNCHANGED <<settings, collection, status, items, presented>>

\* Variant: execFile is given no timeout.
LintUnbounded(r) == r \in {} /\ UNCHANGED vars

\* The timeout of execFile.
LintDeadline(r) ==
  /\ run[r].stage = "tool"
  /\ run[r].command = Lint
  /\ run' = [run EXCEPT ![r].stage = "overdue"]
  /\ UNCHANGED <<settings, collection, status, items, presented>>

\* The handler presents what the linter printed, and remembers no status.
LintAnswers(r) ==
  /\ run[r].stage = "tooldone"
  /\ run[r].command = Lint
  /\ Present(r, LintFound(run[r].tool))
  /\ Done(r)
  /\ UNCHANGED <<settings, status, items>>

-----------------------------------------------------------------------------

Configure(s) ==
  /\ s # settings
  /\ settings' = s
  /\ UNCHANGED <<run, collection, status, items, presented>>

Next ==
  \/ \E r \in Runs, path \in Paths :
       \/ \E command \in Commands \ {Lint} : Reject(r, command, path) \/ Invoke(r, command, path)
       \/ Lint \in Commands /\ (LintThrows(r, path) \/ LintStarts(r, path))
  \/ \E r \in Runs :
       \/ \E end \in ToolEnds : ToolFinishes(r, end)
       \/ FacadeFails(r) \/ FacadeRefuses(r) \/ FacadeAnswers(r) \/ Pick(r)
       \/ LintDeadline(r) \/ LintAnswers(r)
  \/ \E s \in Settings : Configure(s)

\* Timers fire, a linter that got SIGTERM ends, and the callback of execFile
\* runs.  Nothing bounds the facade and the CLI, nor a quick pick.
Fairness ==
  \A r \in Runs :
    /\ WF_vars(LintDeadline(r))
    /\ WF_vars(run[r].stage = "overdue" /\ \E end \in ToolEnds : ToolFinishes(r, end))
    /\ WF_vars(LintAnswers(r))

Spec == Init /\ [][Next]_vars /\ Fairness

-----------------------------------------------------------------------------
(* Properties *)

\* The presentations a file still owes something to: those after the last
\* empty one that name it.
Naming(f) ==
  {i \in DOMAIN presented :
     /\ f \in presented[i].found
     /\ \A j \in i .. Len(presented) : presented[j].found # {}}

\* However commands overlap, a file shows the diagnostics of the presentation
\* that came last of those that name it, and nothing once an empty one wiped
\* the collection: presenter.mjs, presentDiagnostics().
CollectionIsLatest ==
  \A f \in Files :
    IF Naming(f) = {} THEN collection[f] = "none"
    ELSE \E i \in Naming(f) : (\A j \in Naming(f) : j <= i) /\ collection[f] = presented[i].run

\* The two records the context bundle carries of the latest navigation agree:
\* a successful navigation status comes with the items of the same command,
\* and items only ever come from a command that succeeded.
StatusMatchesItems ==
  /\ (status # None /\ status.ok /\ status.kind = "navigation")
       => items = [run |-> status.run, found |-> status.found]
  /\ items # None => run[items.run].stage = "done" /\ run[items.run].proper

\* Every lint command comes to its end, also when the linter hangs.
LintSettles ==
  \A r \in Runs : run[r].command = Lint ~> run[r].stage = "done"

\* What a user sees of a command: that it was asked for, and that it has ended.
Progress ==
  [r \in Runs |-> IF run[r].stage \in {"idle", "done"} THEN run[r].stage ELSE "asked"]

\* The report of a command's own tool, once there is one.
Reported ==
  [r \in Runs |->
     IF ~run[r].proper THEN [reported |-> FALSE, found |-> {}]
     ELSE [reported |-> TRUE,
           found |-> IF run[r].command = Lint THEN run[r].tool.out.found
                     ELSE IF run[r].command \in Live
                     THEN LiveFound(run[r].command, run[r].tool)
                     ELSE {ExampleFile}]]

\* What a user relies on: commands publish the report of their own tool or
\* leave the collection alone.  A failure at any hop of the facade chain is a
\* failure of the command; only the linter's is read as a report.
Reports == INSTANCE ToolReports WITH
  stage <- Progress, report <- Reported, board <- collection

AbstractSpec == Reports!Spec

=============================================================================

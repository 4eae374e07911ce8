---------------------------- MODULE FacadeChain ----------------------------
(***************************************************************************)
(* The chain a facade command goes through, hop by hop: the settings, the  *)
(* arguments made of them (config.mjs), the pccx_ide_cli process           *)
(* (cli-runner.mjs, live-adapter.mjs), the facade process around it        *)
(* (bin/pccx-vscode-prototype.mjs), and what the extension makes of that   *)
(* process's end (extension.mjs, command-handlers.mjs).  verible-lint.mjs  *)
(* is a chain of one process.  All operators are functions of their        *)
(* arguments; DiagnosticsCommands puts the steps in time.                  *)
(***************************************************************************)
EXTENDS Naturals

CONSTANTS
  Files,        \* the files a tool's output may name
  ExampleFile   \* the file of the checked examples

ASSUME ExampleAssumption == ExampleFile \in Files

-----------------------------------------------------------------------------
(* Settings *)

\* The kinds of settings that differ: two with values of their own, one of each
\* other kind, and one more that is handed on to the facade.
Keys == {"mode", "liveWorkspace.enabled", "defaultSource", "defaultNavigationRoot",
         "assist.lint.command", "validationRunner.timeoutMs"}

\* What a user may have written for a setting, as far as it matters.  A `word'
\* has no blank in it, an `option' is a word that starts with two dashes.
Raw == {"absent", "checkedExample", "liveWorkspace", "true", "false", "blank", "multiline",
        "shellControl", "spaced", "word", "option", "inRange", "outOfRange"}

Words == {"checkedExample", "liveWorkspace", "word", "option"}

StringAccepts(v)  == v \in Words \cup {"spaced"}
CommandAccepts(v) == v \in Words
EnumAccepts(v)    == v \in {"checkedExample", "liveWorkspace"}
BooleanAccepts(v) == v \in {"true", "false"}
IntegerAccepts(v) == v = "inRange"

Accepts(key, v) ==
  \/ v = "absent"
  \/ key = "mode" /\ EnumAccepts(v)
  \/ key = "liveWorkspace.enabled" /\ BooleanAccepts(v)
  \/ key \in {"defaultSource", "defaultNavigationRoot"} /\ StringAccepts(v)
  \/ key = "assist.lint.command" /\ CommandAccepts(v)
  \/ key = "validationRunner.timeoutMs" /\ IntegerAccepts(v)

\* normalizeConfig() throws on the first setting it does not accept.
Normalizes(settings) == \A key \in Keys : Accepts(key, settings[key])

\* The defaults are the checked examples, and live workspace commands off.
LiveWorkspaceEnabled(settings) ==
  settings["mode"] = "liveWorkspace" /\ settings["liveWorkspace.enabled"] = "true"

-----------------------------------------------------------------------------
(* Commands and their facade arguments *)

ExampleDiagnostics == {"publishCheckedExampleDiagnostics", "showDiagnosticsExample"}
ExampleNavigation  == {"showCheckedExampleNavigation", "showNavigationExample"}
LiveDiagnostics    == {"publishLiveWorkspaceDiagnostics", "runDiagnosticsLive"}
LiveNavigation     == {"showLiveWorkspaceNavigation", "runNavigationLive"}
Live               == LiveDiagnostics \cup LiveNavigation
FacadeCommands     == ExampleDiagnostics \cup ExampleNavigation \cup Live

Kind(command) == IF command \in ExampleDiagnostics \cup LiveDiagnostics
                 THEN "diagnostics" ELSE "navigation"

\* A path given to a live diagnostics command takes the place of the setting.
Requested(settings, command, path) ==
  IF command \in LiveDiagnostics /\ path # "absent"
  THEN [settings EXCEPT !["defaultSource"] = path] ELSE settings

\* buildFacadeArgsForCommand() returns, and does not throw.
Plans(command, settings) ==
  Normalizes(settings) /\ (command \in Live => LiveWorkspaceEnabled(settings))

\* parseOptions() of the facade takes no value that looks like an option, be it that of
\* --from-check or one of the two of --locate.
ArgumentsParse(command, settings) ==
  /\ command \in LiveDiagnostics => settings["defaultSource"] # "option"
  /\ command \in LiveNavigation => settings["defaultNavigationRoot"] # "option"

-----------------------------------------------------------------------------
(* Ends of processes, as execFile reports them *)

\* "none": not started, killed by a signal, or more output than the buffer holds.
Codes    == {"zero", "nonzero", "none"}
Payload  == [kind : {"diagnostics", "navigation", "other"}, found : SUBSET Files]
Blank    == [kind |-> "blank", found |-> {}]
Garbage  == [kind |-> "garbage", found |-> {}]
Ends     == [code : Codes, out : Payload \cup {Blank, Garbage}]
IsJson(out) == out.kind \notin {"blank", "garbage"}

\* captureExec() and withParsedJson(): an exit code other than zero, or output
\* that is no JSON, is a failure; output that is empty is none.
LiveOk(end) == end.code = "zero" /\ end.out # Garbage

\* withDiagnostics(), withLocateNavigation(): the list under the key the adapter
\* looks for, and no entry when there is no such list, or no JSON at all.
LiveFound(command, end) == IF end.out.kind = Kind(command) THEN end.out.found ELSE {}

Emitted(command, found) ==
  [code |-> "zero", out |-> [kind |-> Kind(command), found |-> found]]

\* Variant: the facade prints what the CLI printed, whatever its exit code.
FacadeEndIgnoringCode(command, parses, tool) ==
  IF ~parses THEN [code |-> "nonzero", out |-> Blank]
  ELSE IF command \notin Live THEN Emitted(command, {ExampleFile})
  ELSE Emitted(command, LiveFound(command, tool))

\* main() of the facade: 2 for a usage error, the records of a checked example,
\* the records of a live run, or `result.exitCode || 1' when that failed.
FacadeEnd(command, parses, tool) ==
  IF ~parses THEN [code |-> "nonzero", out |-> Blank]
  ELSE IF command \notin Live THEN Emitted(command, {ExampleFile})
  ELSE IF LiveOk(tool) THEN Emitted(command, LiveFound(command, tool))
  ELSE [code |-> "nonzero", out |-> Blank]

\* runFacadeInvocation(), payloadFromFacadeResult() and toUiAction(): there is
\* an action to apply, and no exception.
Applicable(end) == end.code = "zero" /\ end.out.kind \in {"diagnostics", "navigation"}

\* runVeribleLint(): every line of the output that parses is a diagnostic,
\* whatever the process came to.
LintFound(end) == end.out.found

=============================================================================

# TLA+ models of pccx-systemverilog-ide

Formal models of the parts of this repository whose correctness depends on
order or on several modules agreeing: asynchronous request handling in the VS Code
prototype, shared state between overlapping commands, the chains of checks a record
passes on its way to an assistant, and the graph algorithms behind the module
organization reports of the Python CLI. TLC checks every model on small
instances; TLAPS proves the main safety properties for every value of the
constants. Paths below are relative to the repository root.

## 1. The system and its components

Two programs that meet at a command line:

* the **VS Code prototype** (`editors/vscode-prototype/`, JavaScript): one
  extension host process, event driven, several commands and provider calls
  under way at once, child processes on the other end of pipes;
* the **Python CLI** (`src/pccx_ide_cli/`): one process per command, sequential,
  stateless, with real algorithms in `module_organization.py`.

### VS Code prototype

| component | state | operations | hard behaviour | what makes it correct |
|---|---|---|---|---|
| Language server client (`verible-language-server.mjs`) | `nextId`, `pending` with timers, `started`, `initialized`, `openDocuments`, the partial message buffer, `process` | `completion`, `hover`, `definition`, `shutdown`; stdout data, `exit`, `error`, timers | calls interleave at every `await`; late, lost and malformed answers; requests of the server's own; exit and shutdown in the middle of everything; restart on an object that keeps its old process | a waiting call always has something armed that settles it; an answer reaches the call that asked, and nothing else passes for its result; `initialize`, `didOpen`, request in that order; `didOpen` once per session |
| Assist providers (`sv-assist-provider.mjs`) | the client cached in a runtime record | completion, hover, definition providers | client kept over settings changes; every failure falls back to static data | every call settles, at worst with the static answer |
| Approved validation runner (`approved-validation-runner.mjs`) | one child process per run | run a proposal, with gates before it | `execFile` timeout against the child's own end; runs overlap; failures before the process starts | status and exit code say what happened; every run ends |
| Validation result cache (`validation-result-cache.mjs`) | bounded list, newest first | `add`, `clear`, `list`, `latest`, `status` | limit reached, cleared while runs are under way | exactly the newest results since the last clear |
| Extension commands (`extension.mjs`) | `runtime.recentValidationSummary`, last command status, output channel, diagnostics collection | one handler per command, `activate` | handlers overlap at `await`; state read after an `await` may belong to another command | what a command shows is its own result; the copies of a result agree |
| Diagnostics and navigation presentation (`presenter.mjs`, `verible-lint.mjs`, `definition-provider.mjs`, `command-handlers.mjs`) | the diagnostics collection | set per file, clear, quick picks | two producers of diagnostics on one collection; out-of-order results | the collection shows the newest result of a producer |
| Facade and CLI bridge (`cli-runner.mjs`, `live-adapter.mjs`, `config.mjs`, `bin/`) | none between calls | run the CLI, parse its JSON | process and parse errors at each of three hops | a failure at any hop is a failure of the command |
| Validation proposals, preflight audit (`validation-proposals.mjs`, `validation-proposal-preflight-audit.mjs`) | none | list proposals, ten audit checks | the runner decides the same in a module of its own, with later settings | what passes the audit is what the runner takes |
| Status surfaces and consumers (eight modules for diagnostics handoff, runtime readiness, device session, xsim log) | the surface shown last | validate and summarize a record, show the summary | three hops with checks of their own, changed records, counts made at one hop and lists cut at another | the hops accept the same, nothing unsafe is shown, counts are those of the record |
| Context bundle (`context-bundle.mjs`, `context-bundle-audit.mjs`, `selected-symbol-context.mjs`, `validation-result-summary.mjs`) | none | collect, bound, redact, audit | a section is re-checked, read by three readers, texts cut several times | what is shown as available is; nothing is missing without a flag |
| Patch proposals, workflow status, assist data, adapter of the CLI's payloads | none or a fixture | validate, convert, format | | |

The parts interact by calls and by the shared runtime record: providers call the
language server client; the command handler calls the runner, then adds to the
cache and sets `recentValidationSummary`, then prints; the context bundle reads
both; facade and lint commands write one diagnostics collection. A status record
goes from its consumer to its surface to the context bundle, whose sections the
bundle's summary, its audit and the validation proposals read; the preflight audit and
the runner decide about the same proposal.

### Python CLI

| component | state | operations | hard behaviour | what makes it correct |
|---|---|---|---|---|
| Module scanner, index, boundary audit (`module_index.py`, `module_organization.py`) | none between runs | strip comments, find module boundaries and instantiations | missing `endmodule`, names in comments | boundaries never overlap |
| Module order report | worklist, remaining counts, levels | `_module_order_rows`, `build_module_order_report` | cycles, self-instantiation, shared dependencies, alphabetical ties | dependency-first; levels exact; blocked iff caught by a cycle |
| Hierarchy and graph reports (cycles, depth, paths, reachability, roots, leaves, orphans, fan-in, fan-out, health, connections) | traversal queues, stacks and visited sets | one builder per report | cycles in the graph, pruning, agreement between reports | each report equals its graph-theoretic definition |
| Refactor review pipeline (proposal, validation plan, review packet, approval, application request, result, handoff, checklist, session) | none; each step rescans the files | one builder per step | the workspace may change between two scans | the parts describe one workspace |
| Command line, exports, `xsim_log.py`, `problem_export.py`, `pccx_lab_backend.py`, formatters | none | parse arguments, print | exit codes | one report per command |

`PROJECT.json` lists the same components with their status, and under `hazards`
every place in this code that is hard to test, with the properties that cover it.

## 2. Modules

| module | models | role |
|---|---|---|
| `AssistCalls` | contract of the client's callers | abstract specification |
| `LanguageServerClient` | client, pipes, server process | detailed specification, implements `AssistCalls` |
| `LanguageServerClientProofs` | | safety theorems and the step simulation |
| `MCLanguageServerClient` | | constants and symmetry for TLC |
| `DependencyFirstOrder` | promise of the order report | abstract specification |
| `ModuleOrder` | `_module_order_rows` and the report | detailed specification, implements `DependencyFirstOrder` |
| `ModuleOrderProofs` | | safety theorems and the step simulation |
| `MCModuleOrder` | | flaw sets for TLC |
| `Hierarchy` | what the two walks below are given | constants |
| `NearestFirst` | promise of the depth report | abstract specification |
| `ModuleDepth` | queue walk of `_module_depth_rows` and the report | detailed specification, implements `NearestFirst` |
| `ReachableNames` | `_reachable_names`, the walk of the reachability report | step machine of a recursive function |
| `HierarchyWalksProofs` | | safety theorems of the two walks, and the step simulation of `NearestFirst` |
| `HierarchyCycles` | `_hierarchy_cycle_rows` and the cycle report | step machine of a recursive search |
| `HierarchyCyclesProofs` | | soundness, completeness, uniqueness, instances and order of the rows |
| `MCModuleDepth`, `MCReachableNames`, `MCHierarchyCycles` | | the hierarchies TLC goes through |
| `ValidationCommands` | approved runs, cache, clear, settings | one specification for the three files that share the state |
| `ValidationCommandsProofs` | | safety theorems |
| `MCValidationCommands` | | names of the runs for TLC |
| `FacadeChain` | settings, planning, and how an end of the CLI becomes an end of the facade | operators |
| `ToolReports` | what a user of the diagnostics commands relies on | abstract specification |
| `DiagnosticsCommands` | facade, navigation and lint commands on shared state | detailed specification, implements `ToolReports` |
| `DiagnosticsCommandsProofs` | | safety theorems and the refinement of `ToolReports` |
| `MCDiagnosticsCommands` | | settings and ends of tools for TLC |
| `Contracts` | what the checked records have in common | operators |
| `DiagnosticsHandoff`, `RuntimeReadiness`, `DeviceSession`, `XsimDiagnostics` | consumer, surface and section of one record each | operators |
| `StatusSections` | the way of a record into the context bundle, and its readers | specification over the four |
| `MCStatusSections` | | the records for TLC |
| `OutputSummaries` | the output of a validation command on its way to bundle and display | specification |
| `MCOutputSummaries` | | the outputs for TLC |
| `ContextBundleProofs` | | safety theorems about `StatusSections` and `OutputSummaries` |
| `ProposalAudit` | proposals, audit and the runner's gates | operators |
| `ValidationGates` | the proposal commands while settings and handoff change | specification over `ProposalAudit` |
| `ValidationGatesProofs` | | safety theorems and the action property |
| `MCValidationGates` | | inputs and symmetry for TLC |

Some modules hold definitions marked *Variant*: a plausible slip in the code
(a dropped check, a swapped order). No specification uses them; each one, put in
the place of the definition below it, breaks a property, which shows that the
property depends on that detail.

### 2.1 LanguageServerClient

`pc[c]` is where the async function of provider call `c` stands:

| `pc` | code |
|---|---|
| `initializing` | awaits the answer of its `initialize` request |
| `initReply` | that promise is resolved, the rest of `initialize()` is queued |
| `opening` | about to run `ensureDocumentOpen()` after `initialize()` |
| `asking` | about to send its own request |
| `waiting` | awaits the answer of that request |
| `answered`, `blank`, `rejected` | its promise is settled: with a result, with nothing, with an error |

The other variables carry the names of the fields. JavaScript runs a macrotask
to its end and then all promise continuations: an action that models a
macrotask (a new call, a data chunk, a timer, `exit`, `shutdown()`) is guarded
by `Quiescent`, no continuation is queued. The order of the continuations of one
macrotask is left open, which allows more orders than the engine's queue does.

What the code really does, and the model therefore keeps:

* `start()` says `this.process ?? this.spawn(...)` and nothing resets
  `this.process`: after an exit or a failed spawn the client registers its
  listeners on the old process again and never has a live server any more.
  Every later call then waits for its timer.
* each call that finds `initialized` false sends its own `initialize`; two first
  calls send two (listed as a hazard: no document claims otherwise).
* the pending entry and the timer are set before the send: if `start()` throws,
  both stay behind while the promise is rejected.
* `push()` throws on a malformed frame without consuming it: the buffer is
  `poisoned` and every later answer is lost.
* `handleMessage()` looks for an `id` and never for a `method`
  (`verible-language-server.mjs:186-200`). A request that the server makes of its own
  accord (the client offers it workspace folders in `initialize`) carries an id of the
  server's own sequence; when that id is pending, the call it stands for is resolved
  with `message.result`, which a request does not have. `ServerRequest` sends such
  requests, with any ids in `OwnIds`, and `Receive` reads them among the answers. A
  call that is waiting then comes back `blank`: the providers go on with what they have
  without a server (`sv-assist-provider.mjs:198-204`, `:226`, `:248`), as they do after an
  error. A call in the middle of `initialize()` takes the request for the server's
  consent and goes on. When the request is still in the pipe after the process exited, this
  begins a session with a process that is gone, which the code otherwise never does; the
  history variable `misled` says when, and `InitializedServerAlive` names it as the exception.
* data may arrive after `exit`, and `shutdown()` neither waits for the process
  nor settles the pending requests. The extension itself never calls
  `shutdown()`; it is part of the exported class and modelled as such.

The server is the environment: it answers in any order, late or never, makes requests
of its own (each id once; of a request and an answer with one id in one chunk the request comes
first, the other order is that of two chunks), writes
garbage, dies at any moment. Abstracted: texts, positions and results; server
notifications (they have no id; emitted, nobody listens); documents without a URI; document
versions (a document is never sent again). A write to a process that is not
running is dropped.

### 2.2 ModuleOrder

State is the loop's own: `remaining`, `level`, `ready`, `ordered`. One action,
`Pop`, is one round of the `while` loop with its inner loop over dependents;
`Report` is what `build_module_order_report` derives from the result. `ready` is
a set with the minimum popped: the code sorts the list after each append, and a
name becomes ready once, so the list is that set in order. The scan result is
the input: any graph, and any set `flawed` of modules with a blocker that is not
a cycle.

The row state `blocked-cycle` is given to the modules on a cycle *and* to those
that depend on one: `BlockedByCycles` is stated that way.

### 2.3 ModuleDepth

`queue` and `depths` are the variables of the loop; `Skip` and `Place` are its
two branches, `Report` what follows. `sorted(...)` is the one sequence in
`Sorted(S, depth)`. The roots come from the hierarchy: the names no resolved edge
points to, so a module that instantiates itself is no root. The code compares a
depth with an earlier one and would overwrite a larger one: `NeverRevised` says
that this branch is never taken for a module that has a depth.

### 2.4 ReachableNames

One frame of `stack` is one call of `visit()`: the module and the children its
loop has not come to. `Mark`, `Pass` and `Visit` are the three ways the loop goes
on. The report walks twice for each module, over dependencies and over
dependents; the second graph is the first one turned round, and the model takes
any graph.

### 2.5 HierarchyCycles

`modulePath`, `edgePath` and `todo` together are the calls of `visit()`; an edge
is a child and the rank of the instance, since a parent may instantiate a child
several times and the code walks each of the instances. Of the final sort only
the `cycle_id` it gives is kept, as a number for each row. Names are compared by
rank; `Precedes` compares summaries module by module, which is the order of the
strings because the separator starts with a blank, and a blank sorts before every
character of a name.

Python bounds how deep calls may be nested, and nothing catches the `RecursionError`
of a search that needs more. `RecursionLimits` are the numbers of calls that may be
left from the first `visit()` on, and the variable `recursionLimit` one such number; a
`visit()` that closes a cycle needs room for `InnerCalls` more (`_cycle_key()`, and
its list comprehension where the interpreter runs that as a call; the comprehension of
a row's edges needs as many, later). `Overflow` is the step that finds no room: the
search then ends without a report. `ReachableNames` and the other models leave the
limit out.

### 2.6 ValidationCommands

One action for each gate or event: `Refuse` (a gate of the runner says no),
`Throw` (`normalizeConfig` throws before the runner), `Execute` (the child is
started), `Deadline` (`execFile`'s timeout sends SIGTERM), `Exit` (the child ends
and the handler runs to its end), `Clear`, `SetConfig`. Nothing in the code makes
one invocation wait for another, so any number may be executing. From the
callback of `execFile` to the end of the handler there are only promise
continuations, so no other event comes in between. `Exit` carries how the child
ended, `Status` and `ExitCode` are the classification the code makes of it, with
one detail that matters: the message of the error that Node's `execFile` creates
contains the child's stderr, and the classification searches that message for
"timeout". `log` is a history variable: the results since the last clear.

After a throw the handler prints the summary that is still remembered, which is
of an earlier run; `OutputNamesItsRun` allows this for runs that threw, and only
for those.

Abstracted: text of summaries (`OutputSummaries`) and redaction, the audit
(`ProposalAudit`), the quick pick of recent results, which prints an entry of the
snapshot it was opened with and changes nothing.
`validateAllowlistedCommand` never fails for the commands of the fixed list of
proposals. `1 <= MaxSize <= 20` is what `clampInteger` guarantees.

### 2.7 DiagnosticsCommands, FacadeChain, ToolReports

`run[r].stage` is where invocation `r` stands: its process runs (`tool`), it got
SIGTERM (`overdue`), its end is known (`tooldone`), a quick pick is open
(`picking`). `FacadeChain` is the sequential part: which settings normalize, which
commands can be planned with them, and what the extension sees of the facade for a
given end of the CLI; of the settings handed on to the facade `defaultSource` and
`defaultNavigationRoot` stand for all (`defaultModule` goes the way of the second), with a
value that looks like an option among theirs, which the facade refuses. The facade may fail
or be killed while it still waits for the CLI. `collection` is the diagnostics collection, `status` and `items`
are the two records the command runtime remembers.

* A facade command that fails at any hop presents nothing and is remembered as
  failed; the facade turns a failed CLI into an exit code of its own.
* The CLI's exit code 0 with blank output is no failure: the facade then reports
  no diagnostics, which clears the collection.
* The lint command presents what the linter printed whatever its end was, also
  when it could not be started, and remembers no status. That clears what the
  facade found; the code does so on purpose or not, nothing in the repository says
  otherwise, and `ToolReports` lets it.
* Only the linter has a deadline. The facade has none, and a quick pick stays open as
  long as the user likes: `LintSettles` is about lint commands only.

`presented` is a history variable, `run[r].proper` says whether the tool of a run
ended in a way that counts as a report.

### 2.8 StatusSections and the four records

A record has leaf fields, named by their path, and lists. What a validator can tell
about the value of a field is a member of `Contracts!Values` (as expected, another
text or Boolean, blank, several lines, over-long, found by the scan, absent). The
four modules give for each record the checks of the consumer (`Errors`), what it
hands on (`Summary`), the checks of the surface (`SurfaceErrors`), the surface
(`Surface`) and the claims the bundle looks at again (`ContextTrue`, `ContextFalse`).
The fields are those of the code, one by one; they differ between the hops, which is
the point of the model. `Document` in each of the four is the shape of a record: the
fields with any of these values, and lists of any length. That the log of xsim lists its
files sorted is a constant order `FileOrder` of the files it may name.

`StatusSections` takes one record through: `Consume`, `Show`, `Alter` (a caller changes any
one field of the surface, its status included; external to the code), and the ways the bundle may be built. The
sections of a bundle do not depend on each other, so one record at a time is enough.

Facts the model keeps: the consumer of a handoff does not look whether `handoffId`,
`targetKind`, `producer.id` and `consumer.id` are texts, its surface does, so that
such a record is accepted and never shown; the bundle does not look again at
`localOnly`, `deterministic`, `descriptorOnly` and `systemverilogIdeExecution` of a
surface it is given; problems of an xsim log take the place of a summary; the
audit has no entry for the runtime readiness.

The status of a section is that of the surface it was made of, taken over as it is
(`StatusOf`; `context-bundle.mjs:604`, `:780`, `:969`, `:1191`), and "available" when the
surface has none. A surface with another status is filled in, counted and audited like any
other; the validation proposals alone go by the status
(`validation-proposals.mjs:311-317`) and say "unavailable" or "invalid" and 0. That is
what the code does with a surface that a caller has changed, and `ReportsAgree` names
it as its exception (`Relabelled`). What a section shows, be it labelled available or
not, is `filled`: the properties about safety and counts are about filled sections.

### 2.9 OutputSummaries

An output is the sequence of the lengths of its pieces between line ends. `Summarized`
is `summarizeOutputText()`, used by the runner and, on lines joined to a text again,
by the cache; the bundle and the display slice once more. Over-long lines are cut
everywhere without a flag, and the property allows for that. When the last line of
an output is empty the cache loses it, although no limit is reached, and says so.

### 2.10 ProposalAudit and ValidationGates

`ProposalAudit` has the list of proposals, the checks of the audit (`Failed`, by
name) and the gates of the runner (`Accepts`), both as functions of what a caller
passes. `ValidationGates` lets a caller list proposals, hold them, pass them to audit
and runner or pick one in a quick pick, while the settings change and the handoff
summary comes, goes bad and is shown. The two differ where the code does: the
audit trims a name and takes one from a proposal, the runner does neither
(`Exact`); the audit does not know whether the runner is enabled. The audit looks for raw
shell text in at most 80 strings, and at 320 characters of each
(`validation-proposal-preflight-audit.mjs:104-139`): the model's inputs stay below both,
and what it says of findings is said of such inputs.

Two facts about the handoff: no summary at all shows the built-in placeholder and
counts as available; a surface that was shown is kept, and a show that fails
leaves it.

## 3. What TLC checks

| run | question | instance | size |
|---|---|---|---|
| `lsp_safety` | do interleaved calls, late answers, exit, shutdown and restart keep the client's bookkeeping right? | 3 calls on 1 document, symmetry, no garbage, no requests of the server's own | 1.1 M states |
| `lsp_contract` | does every call settle, does the client implement `AssistCalls`, and when does it believe in a process that is gone? | 2 calls, 1 malformed frame, 1 request of the server's own with id 2, no symmetry | 605 k states |
| `module_order` | is the order dependency-first, are levels and blocked rows exact, for every graph? | all 65 536 graphs on 4 modules | 607 k states |
| `module_depth` | are depths distances from the roots, and what has none exactly what hangs below a cycle? | all 65 536 hierarchies of 4 modules | 226 k states |
| `reachable_names` | does the walk find what the start leads to, and notice a cycle although it enters each module once? | every start in every hierarchy of 4 modules with at most 2 children each | 455 k states |
| `hierarchy_cycles` | are the rows the elementary cycles, each once, with stable ids and instances, and does the search fail on long chains only? | 3 modules with up to 3 instances each, 4 modules with 2 or 3 different children; room for 3 or 6 nested calls | 488 k states |
| `validation_commands` | do cache, remembered summary and output agree however runs, clears and settings interleave? | 3 runs, cache of 2 | 23 k states |
| `diagnostics_commands` | do collection, remembered status and items agree with the reports however commands overlap, and does every lint command end? | 3 runs of 5 commands, 3 settings, 3 paths, 5 ends of a tool, 2 files | 771 k states |
| `status_sections` | do the hops of the four records accept, count and report the same, and is only what is safe shown? | every record with one deviating field, or with one list short or around its limit; any one field of a surface changed, its status included; 2 files | 68 k states |
| `output_summaries` | is nothing of an output missing without a word? | every output of up to 6 pieces, empty, short or over-long; limits of 1 to 5 lines | 10 k states |
| `validation_gates` | do audit and runner decide alike, and does a shown handoff stay? | 2 runs, symmetry, 2 of the proposals, 3 settings | 1.5 M states |
| `timed_out_exit_code` | does a `timedOut` result always come without an exit code? (violated) | 1 run | |

**Properties.**

* `NoLostCall`: a waiting call has exactly one pending entry, with an armed timer.
* `InitializedServerAlive`: the client believes in a session only while its
  process has not been seen to exit, or when a request of the server's own, read after the
  exit, was taken for the answer to `initialize`.
* `AnswersBelong`: ids are unique, and an answer in the pipe never carries an id
  that stands for another call.
* `OpenBeforeAsk`, `OpenedOnce`: the protocol the server sees.
* `EveryCallSettles` and `AbstractSpec` (`AssistCalls`): liveness and the
  contract: settled once, answered only with a result the server produced
  for that call, and blank only at the price of one of the server's own requests
  for each such call.
* `DependencyFirst`, `LevelsExact`, `BlockedIsLargest` (the blocked modules are
  the largest set of modules that wait for each other), `BlockedByCycles` (the
  same set by reachability), `AbstractSpec` (`DependencyFirstOrder`).
* `AbstractSpec` (`NearestFirst`): depths are assigned once, nearest modules first.
  `LevelsAreDistances` compares the levels with the length of the shortest chain
  from a root, `UnplacedIsLargest` says that the unplaced modules are the largest
  set all of whose members have parents, and only in that set.
* `ReachableExact`, `MarkersOnCycles`, `MarkersDetectCycles`: pruning
  at modules entered before can hide single cycles, but never all of them, and
  makes none up.
* `RowsAreCycles`, `AllCyclesFound`, `EachCycleOnce` (the rows are the elementary
  cycles), `FirstInstances` (a row shows the first instances, although later ones
  are walked too), `FoundInOrder` (sorting the rows changes nothing),
  `FailsOnlyOnLongChains` (a search that runs into the recursion limit has come down a
  chain of different modules about as long as the limit; neither cycles nor repeated
  instances use up the stack).
* `CacheHoldsLatest`, `ContextCarriesLatest`, `OutputNamesItsRun`,
  `EveryRunSettles`.
* `CollectionIsLatest`: a file shows the diagnostics presented last of those that
  name it, and none once an empty presentation cleared the collection.
  `StatusMatchesItems`: a successful navigation status and the remembered items are of
  one command (which of the commands ended last is not part of it). `AbstractSpec` (`ToolReports`): a command publishes the report of its
  own tool or leaves the collection alone. `LintSettles`.
* `AcceptedIsAvailable`: a record the consumer accepts is available in the bundle by
  every way, and no other is; the gap above is named in the property.
  `OnlySafeAvailable`: what is shown comes of a record without a violated policy, and
  with no claim turned round on the way. `CountsAreTheDocuments`: counts are those
  of the record, whatever the bundle cuts. `ReportsAgree`: three readers of a section
  tell the same; of a surface with a changed status the proposals tell less.
* `NothingLostSilently`: what is not flagged has every line, what is told is a beginning
  of the output, and the number of lines told of is between those shown and those
  there were.
* `AuditForetellsRun`: an exactly named proposal that passes the audit is started by an
  enabled runner, any other is not, whichever comes first. `ExecutedIsNamed`: what is
  executed is the command of the name the caller gave. `ShownStaysAvailable`: what was
  shown once is not taken away by a summary that goes bad.

Each specification has a type invariant (`TypeOK`, `OutputTypeOK`, `WalkTypeOK`); for the modules with theorems it is
proved, and the runs check what goes beyond it.

**Why the bounds are enough.** Three calls are needed for one that owns the
session, one that arrives during the await and one after `shutdown()`; one
document makes them race for `didOpen`; two documents add no interaction, since
`openDocuments` is only tested for the call's own document. One malformed frame
poisons the buffer for good. The id 2 is that of a call after an `initialize`
or of a second `initialize`, before or after an exit. Four modules give a cycle with a module above it, a
module below it and one beside it, diamonds, and chains of length four; they hold
for all the graph models. Two children each are enough for a reachability walk to
prune on one branch what it entered on another. Repeated instances multiply walks
along one cycle, which needs no more than a few modules; many cycles on the same
modules need dense graphs, where one instance each is enough. Room for six nested calls is
what four modules and a closing cycle need, so that no search fails with it;
with room for three a search fails at the third module of a chain when it would go on, and
at the second when a cycle closes. Three
runs and a cache of two give overlap, eviction, and a clear between two ends.
Three diagnostics commands on two files give a presentation between two others, a
file that is named by one of them only, and a clear among them. Checks of a record
look at one field each and add up errors, so that records with one deviating field
tell every pair of checks apart. Six pieces are more than every limit of lines, and
longer than every limit of characters. Of the proposals, one that may be run and one
that may not are enough for what goes on between commands; the inputs also name a
placeholder and an unknown one, and a proposal may carry the command of another, one
that is malformed, or a claim.

**Finding.** `timed_out_exit_code`: `test/approved-validation-runner.test.mjs`
asserts that a `timedOut` result has no exit code while one with exit code 7 is
`failed`. A script that exits non-zero by itself and writes "timeout" to stderr
is reported as `timedOut` with its exit code: the code looks for the word in the
error's message, which Node fills with the child's stderr.

**Fairness.** `LanguageServerClient`: queued continuations run and armed timers
fire, which the event loop guarantees. Nothing is assumed of the server, the
user or the exit event. `ValidationCommands`: the timeout of `execFile` fires,
and a child that got SIGTERM ends; the runnable proposals are pytest and bash
scripts that set no trap. `DiagnosticsCommands`: the deadline of the linter fires, a
linter that got SIGTERM ends, and the handler's continuation runs; nothing is assumed of
the CLI, the facade or the user. `StatusSections`, `OutputSummaries`, `ValidationGates`:
none, their properties are safety. `ModuleOrder`, `ModuleDepth`, `ReachableNames`: a
sequential program goes on while it can. `HierarchyCycles`: none, its properties are safety
too, and the search has an end without a report.

**Deadlock** is not checked for the client (all calls may be settled and the
server gone), for the graph models (the program ends), for `StatusSections` and
`OutputSummaries` (a record or output is taken through once) and for `ValidationGates`
(an invocation is made once). It is for `ValidationCommands` and
`DiagnosticsCommands`.

## 4. What is proved

TLAPS checks every theorem below for all values of the constants: any sets of calls
and documents, any ids of the server's own, any hierarchy, any recursion limit, any
set of runs and every legal cache size, any settings, files and ends of a tool,
whatever callers pass to audit and runner. The only assumptions are those named in the
modules: what the constants are (`DocOfAssumption`, `OwnIdsAssumption`,
`MaxGarbageAssumption`, `LimitAssumption`, `ModulesAssumption`, `FlawSetsAssumption`,
`GraphsAssumption`, `InstancesAssumption`, `MaxSizeAssumption`, `InputAssumption`,
`OfferedAssumption`, `InputsAssumption`, `TextsAssumption`, `LimitsAssumption`,
`UntoldAssumption`, `DocumentsAssumption`, `FileOrderAssumption`,
`MaxFilesAssumption`), and that the built-in example names a file of the model
(`ExampleAssumption`). None of them bounds the length of a text, of a list or of an
execution.

**LanguageServerClient.** All its safety properties, and that every step of the
client is a step of `AssistCalls` or a stutter. The inductive invariant `IInv` is
`TypeOK` and

* `Entries`: timers and pending entries are the same pairs, unique by id and by
  call, and each waiting call has one;
* `Pipes`: what travels was issued before, and agrees with the pending entry of
  its id;
* `Session`: a session, or a call about to make one, exists only with a process
  not yet seen to exit, or one that is `misled`; without one no answer in the pipe has a
  pending id;
* `Opened`: what the client believes of the session is what its process got.

None of the properties is inductive alone. The delicate step is an `initialize`
answer read after `exit`: `FinishInitialize` would then set `initialized` for a
process that is gone. With an answer it cannot happen, because `exit` settles every pending
entry, and by `Session` no answer left in the pipe has a pending id; ids are
never reused (`Pipes`, `Entries`). Nothing of that holds of the ids of the server's own
requests, which are any numbers: the one step where such a request settles an
`initialize` after the exit sets `misled`, and it stays set until `exit` or `shutdown()`
ends the session. In the step simulation a blank call has to be paid for: the request that
settles it is gone from the pipe, and one request settles one call, since pending ids are
unique.

**ModuleOrder.** `TypeOK`, `DependencyFirst`, `LevelsExact`, `BlockedIsLargest`
and the step simulation of `DependencyFirstOrder`, for every finite graph. `IInv` is
`TypeOK` and `Counted` (the count of a module is the number of its dependencies
not yet listed), `ReadyExact` (ready are the unlisted ones with count zero),
`DependencyFirst`, `LevelsSoFar` (a level is exact for what is listed so far),
`CaughtUnlisted` (no member of a self-supporting set is listed), `ReportFinal`.
`BlockedByCycles` says of the blocked modules that they lead to a cycle, where
`BlockedIsLargest` says that they wait for each other: that a set of modules each of
which waits for another one in it leads to a cycle is shown with the module that has
the fewest descendants in the set. What it waits for has no more, hence the same ones,
and is one of them itself.

**ModuleDepth.** `TypeOK`, `NeverRevised`, `DepthsLocal`, `UnplacedIsLargest` and
the step simulation of `NearestFirst`. `IInv` is `TypeOK` and `QueueInOrder` (depths
in the queue do not fall, and the last is at most one more than the first),
`PlacedFirst` (no depth in the queue is smaller than one assigned), `Justified`
(every depth has a reason: a root, or a parent one level up), `Pending` (a child
of a placed module is placed or in the queue), `DetachedOut` (members of a
detached set are in neither), `ReportFinal`. `LevelsAreDistances` compares with a
recursive function over the lengths of chains. Its equations are solved by the sets
`Above(n)` of the modules with a depth of at most `n` (`AboveStep`), and a least number
at which function and solution differ leads to a contradiction (`WithinIsAbove`). That
the levels are numbered without gaps follows from `DepthsLocal`.

**ReachableNames.** `WalkTypeOK`, `ReachableExact`, `MarkersOnCycles`,
`MarkersDetectCycles`. `WalkInv` adds `Path` (the stack is a path from the start
without repetition), `Bounds` (what was entered is led to, and children of
finished modules were entered), `MarkersEndless` (a marker belongs to a set
of entered modules each of which leads on within the set) and `NoneMissed`: as
long as nothing is marked, edges lead from finished modules to modules finished
before, so that the finished part holds no cycle. That last conjunct is why
pruning never hides all cycles.

**HierarchyCycles.** `TypeOK`, `RowsAreCycles`, `AllCyclesFound`, `EachCycleOnce`: the
report is right for every hierarchy. `IInv` adds `Walk`, `StartsInOrder`, `SeenExact`
(keys and rows correspond) and `NoneMissed`: every elementary cycle, taken from
its first module on, is found, or starts at a module still to be started from,
or the search is on the way to it. When a walk closes a cycle whose key is new,
`NoneMissed` and `StartsInOrder` leave only one possibility: the walk began at the
first module of the cycle. Uniqueness then needs that the steps of a cycle
determine it, which is an induction along the path; it is done with the least
counterexample (`SmallestNat`, from the well-foundedness of `<`).

`FirstInstances` and `FoundInOrder` need the order in which edges are taken, which is
a second invariant over the first one, `OInv`: `TodoAfter` (what is left at a frame comes
after the edge taken), `DoneSeen` (every cycle that leads through a path and an edge
the search has come back from has its row already), `RowsBehind` (as long as a path
goes over first instances, each row found so far leaves it at some place for a module
that comes before everything still to come), `RowsInOrder`, and the two properties.
A cycle closed over a later instance has been found over the first one, by
`DoneSeen`, so that no new row comes from it; the path of a new row therefore goes over
first instances, and `RowsBehind` puts it after all rows before it. A property about
sorting is thus one about what the search has already been through.

`FailsOnlyOnLongChains` is a third one, `FInv`: the path is a chain of different modules
(`PathIsChain`, from `Walk`), and where the search failed it has no room for the calls
that come next.

**ValidationCommands.** `TypeOK`, `CacheHoldsLatest`, `ContextCarriesLatest`,
`OutputNamesItsRun`. `IInv` is `TypeOK`, `CacheHoldsLatest`, `RecentIsNewest` (the
summary is the head of the history), `ResultsAreSettled` (every result in the
history, cache or output is of a run that has ended), `OutputNamesItsRun`.

**DiagnosticsCommands.** `TypeOK`, `CollectionIsLatest`, `StatusMatchesItems`, and that
the commands implement `ToolReports` (`CommandsImplementReports`, with initial states and
every step, for `ToolReports` states no fairness). `IInv` is `TypeOK`, the two properties and
`Accounted`: what the stage of an invocation says of its process. A facade
command presents what the facade handed it: that the
report comes of that command's own tool, and only of arguments that parse and a CLI that
succeeded, is the lemma `ApplicableEnd` about `FacadeChain`, and `Accounted` carries the
outcome over the events between the tool's end and the presentation.

**ValidationGates.** `TypeOK`, `AuditForetellsRun`, `ExecutedIsNamed`, and the action
property `ShownStaysAvailable`. `IInv` is `TypeOK` and `Decided`: what was said of an
invocation is what audit and gates say of its input, whatever the settings and the handoff
have become since. `AuditForetellsRun` compares two invocations that may lie any number of
changes apart; with `Decided` it comes down to a fact about the two functions, `Failed`
and `Accepts`, for inputs that differ in the age of a proposal only (`AgelessClean`,
`AcceptsMeansPassed`).

**OutputSummaries.** `OutputTypeOK` and `NothingLostSilently`, for any outputs and any limits;
together they are inductive. The cut of a text compares sizes, which are sums over its
pieces, and the length of a text has no bound: what is proved of a sum is that it is the
number of elements of a finite set of pairs (`SumIsNumber`, the recursion of the
community module's sum has one solution only), and sets are compared instead
(`SumGrows`: fewer and smaller pieces have a smaller sum, and the same sum only if they are
the same). From that come what a cut keeps (`CutIs`), what a summary says of a text
(`SummarizedIs`) and what is left of joined lines (`JoinedIs`); each hop is then a
short step over `StillNothingLost`: what is told never becomes more.

**StatusSections.** `TypeOK`, `AcceptedIsAvailable`, `OnlySafeAvailable`,
`CountsAreTheDocuments` and `ReportsAgree`, for any documents of the four contracts: any
value in every field, lists of any length, any files, and any one field of a surface
changed on the way, its status included, where the run has one deviation at a time. `HopsInv` says that what
is at each hop is made of the document: the summary is that of an accepted document
(`SummaryOfDoc`), the surface is made of it and at most one of its fields is not as it was
made (`SurfaceStands`), and the section is made in the way of what the bundle was given
(`SectionStands`). It is inductive in a few lines; what there is to prove is about the
functions, contract by contract:

* `HAccepted` to `XAccepted`: what the consumer's checks say of an accepted document;
  `HShown` to `XShown`: of such a document the surface refuses nothing but the names of
  a handoff that are no texts. The surface adds up counts it does not make, so that the
  sums of the counts have to come out as the lengths of the lists (`HCounts`,
  `DCounts`, `FileTotalIs`): a sum is a number of pairs again (`SumOfNumbers`), and the
  counts of a list by a key are the sizes of disjoint sets of places (`ColumnSum`).
* `Accepted` and `Shown` bring the four together, `SectionIs` and `SurfaceKeeps` say what
  of a surface is in its section.
* `FilesAre`: the files of a log are those its problems name, each once,
  because `Nth` goes through a finite set of numbers without a gap (`NthIs`).
  `FilesAreTheDocuments` adds the cut at `MaxFiles`.
* `MadeAvailable`, `StatusStands` and `FilledSection`: a surface as it was made says that it
  is available, so that a section with another status comes of a surface that was relabelled,
  and a filled section comes of an accepted document whatever its status.
* `ClaimsAreLookedAt` and `SurfaceIsSafe`: of the claims of a surface the bundle looks at
  all again except those `NotLookedAtAgain` names, and finds them as they were made.

**Only model-checked.** Liveness (`EveryCallSettles`, `EveryRunSettles`, `LintSettles`, the fairness part of the refinements), because the
prover does not reason about fairness of this kind. Every safety property that a run
expects to hold is a theorem. What TLC adds to those is that the assumptions
can be met, and that each property is broken by a slip in the code.

## 5. Not modelled, and the plan

Modules that remain to be written: `GraphReports` (roots, leaves, orphans, paths,
fan-in and fan-out and the health report as functions of one hierarchy, and where the
reports must agree); `RefactorPipeline` (workspace edits between the scans of a
packet, approval and session states); `ModuleScanner` (boundaries over token lines);
the bounded lists of the context bundle; patch proposals.

Not modelled: the SystemVerilog assist data (a table), definition and navigation
locations, the adapter of the CLI's payloads and the workflow status (conversions of
one record to another), the patch proposal contract (a validator without readers in the
extension's own state), the redaction of texts, text formatting, argument parsing, the
repository's own scripts, fixtures and examples. They hold no state, and nothing in
them depends on order. The commands of the extension that print a fixed status are of
the same kind.

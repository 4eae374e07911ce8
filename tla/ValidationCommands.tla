-------------------------- MODULE ValidationCommands -------------------------
(***************************************************************************)
(* The approved validation command of the VS Code prototype and the state  *)
(* its invocations share (editors/vscode-prototype/src: extension.mjs,     *)
(* approved-validation-runner.mjs, validation-result-cache.mjs).           *)
(*                                                                         *)
(* Any number of invocations may be under way: nothing makes a run wait    *)
(* for the one before.  The user changes the settings and clears the cache *)
(* meanwhile; a run reads the settings when it is invoked, and the cache   *)
(* and runtime.recentValidationSummary are touched when its child process  *)
(* has ended.  What lies between the callback of execFile and the end of   *)
(* the command handler are promise continuations, with no other event in   *)
(* between: one step here.                                                 *)
(***************************************************************************)
EXTENDS Naturals, Sequences

CONSTANTS
  Runs,    \* invocations of the command
  MaxSize  \* entries the result cache holds

ASSUME MaxSizeAssumption == MaxSize \in 1 .. 20

VARIABLES
  config,   \* the settings, as normalizeConfig() and the runner see them
  run,      \* where each invocation stands
  entries,  \* the result cache, newest first
  recent,   \* runtime.recentValidationSummary
  output,   \* blocks on the validation output channel: whose, and what
  log       \* history: every result recorded since the last clear, newest first

vars == <<config, run, entries, recent, output, log>>

Configs == {"invalid", "disabled", "enabled"}
Active  == {"executing", "overdue"}
Stages  == {"idle", "settled", "threw"} \cup Active

\* What the caller passes: no proposal id, an id that is not listed, the id of
\* a proposal-only proposal, input the preflight audit fails, or the id of a
\* runnable proposal.
Inputs == {"malformed", "unknown", "proposalOnly", "auditFails", "runnable"}

\* How a child process ends: with exit code 0, another one, another one and
\* `timeout' in its stderr (execFile appends it to the error's message), by
\* SIGTERM, by another signal, or by too much output or a failed spawn.
Ends == {"zero", "nonzero", "mentionsTimeout", "sigterm", "signal", "overflow"}

Statuses  == {"passed", "failed", "timedOut", "blocked"}
ExitCodes == {"none", "zero", "nonzero"}
Entry     == [run : Runs, status : Statuses, exitCode : ExitCodes]

None == [run |-> "none"]

TypeOK ==
  /\ config \in Configs
  /\ run \in [Runs -> Stages]
  /\ entries \in Seq(Entry)
  /\ Len(entries) <= MaxSize
  /\ recent \in Entry \cup {None}
  /\ output \in SUBSET [run : Runs, entry : Entry]
  /\ log \in Seq(Entry)

Init ==
  /\ config \in Configs
  /\ run = [r \in Runs |-> "idle"]
  /\ entries = <<>>
  /\ recent = None
  /\ output = {}
  /\ log = <<>>

-----------------------------------------------------------------------------
(* The cache *)

\* slice(0, maxSize)
Newest(s) == SubSeq(s, 1, IF Len(s) < MaxSize THEN Len(s) ELSE MaxSize)

\* Variant: the new entry goes to the end of the list.
AddedLast(e) == Newest(Append(entries, e))

\* entries after add()
Added(e) == Newest(<<e>> \o entries)

-----------------------------------------------------------------------------
(* The run command *)

\* Every gate of the runner, in its order, once normalizeConfig() has passed.
Admitted(input) ==
  /\ input \notin {"malformed", "unknown"}
  /\ config = "enabled"
  /\ input # "proposalOnly"
  /\ input # "auditFails"

\* Variant: the output is printed before the result is remembered.
RecordPrintsFirst(r, e) ==
  /\ entries' = Added(e)
  /\ recent' = e
  /\ output' = IF recent = None THEN output
               ELSE output \cup {[run |-> r, entry |-> recent]}
  /\ log' = <<e>> \o log

\* The end of the handler for a run that has a result.
Record(r, e) ==
  /\ entries' = Added(e)
  /\ recent' = e
  /\ output' = output \cup {[run |-> r, entry |-> e]}
  /\ log' = <<e>> \o log

\* A gate refuses: the blocked result is recorded without a process.
Refuse(r, input) ==
  /\ run[r] = "idle"
  /\ config # "invalid"
  /\ ~Admitted(input)
  /\ run' = [run EXCEPT ![r] = "settled"]
  /\ Record(r, [run |-> r, status |-> "blocked", exitCode |-> "none"])
  /\ UNCHANGED config

\* normalizeConfig() throws: nothing is recorded, and what the handler prints
\* is whatever result is still remembered.
Throw(r) ==
  /\ run[r] = "idle"
  /\ config = "invalid"
  /\ run' = [run EXCEPT ![r] = "threw"]
  /\ output' = IF recent = None THEN output
               ELSE output \cup {[run |-> r, entry |-> recent]}
  /\ UNCHANGED <<config, entries, recent, log>>

Execute(r, input) ==
  /\ run[r] = "idle"
  /\ config # "invalid"
  /\ Admitted(input)
  /\ run' = [run EXCEPT ![r] = "executing"]
  /\ UNCHANGED <<config, entries, recent, output, log>>

\* Variant: no timeout is passed to execFile.
NoDeadline(r) == r \in {} /\ UNCHANGED vars

\* The timeout of execFile: SIGTERM goes to the child.
Deadline(r) ==
  /\ run[r] = "executing"
  /\ run' = [run EXCEPT ![r] = "overdue"]
  /\ UNCHANGED <<config, entries, recent, output, log>>

\* captureExecFile() and the status the runner makes of it.  `late': the
\* child was killed because of the timeout.
Status(end, late) ==
  CASE end = "zero"                           -> "passed"
    [] end = "overflow"                       -> "failed"
    [] end \in {"mentionsTimeout", "sigterm"} -> "timedOut"
    [] end \in {"nonzero", "signal"}          -> IF late THEN "timedOut" ELSE "failed"

ExitCode(end) ==
  CASE end = "zero"                             -> "zero"
    [] end \in {"nonzero", "mentionsTimeout"}   -> "nonzero"
    [] end \in {"sigterm", "signal", "overflow"} -> "none"

\* The child process ends and the handler runs to its end.
Exit(r, end) ==
  /\ run[r] \in Active
  /\ run' = [run EXCEPT ![r] = "settled"]
  /\ Record(r, [run |-> r, status |-> Status(end, run[r] = "overdue"),
                exitCode |-> ExitCode(end)])
  /\ UNCHANGED config

-----------------------------------------------------------------------------
(* The user's other moves *)

\* Variant: only the cache is cleared.
ClearKeepsRecent ==
  /\ entries' = <<>>
  /\ log' = <<>>
  /\ UNCHANGED <<config, run, recent, output>>

\* The clear command.
Clear ==
  /\ entries' = <<>>
  /\ recent' = None
  /\ log' = <<>>
  /\ UNCHANGED <<config, run, output>>

SetConfig(c) ==
  /\ config' = c
  /\ UNCHANGED <<run, entries, recent, output, log>>

Next ==
  \/ \E r \in Runs, input \in Inputs : Refuse(r, input) \/ Execute(r, input)
  \/ \E r \in Runs : Throw(r) \/ Deadline(r)
  \/ \E r \in Runs, end \in Ends : Exit(r, end)
  \/ Clear
  \/ \E c \in Configs : SetConfig(c)

\* Timers fire, and a child that got SIGTERM ends: the runnable proposals are
\* bash scripts without a trap and pytest.
Fairness ==
  \A r \in Runs :
    /\ WF_vars(Deadline(r))
    /\ WF_vars(run[r] = "overdue" /\ \E end \in Ends : Exit(r, end))

Spec == Init /\ [][Next]_vars /\ Fairness

-----------------------------------------------------------------------------
(* Properties *)

\* However runs overlap, and whatever is cleared while they are under way, the
\* cache is the newest results recorded since the last clear: nothing cleared
\* comes back, nothing recent is dropped for something older.
CacheHoldsLatest == entries = Newest(log)

\* recentValidation of the context bundle: history[0] ?? recentValidationSummary.
Carried == IF entries # <<>> THEN entries[1] ELSE recent

\* The context bundle carries the newest result since the last clear, and
\* nothing when there is none: the cache and runtime.recentValidationSummary,
\* kept apart, always agree.
ContextCarriesLatest ==
  /\ Carried = IF log = <<>> THEN None ELSE log[1]
  /\ recent = Carried

ShownBy(r) == {b.entry : b \in {x \in output : x.run = r}}

\* The channel shows a run its own result, and nothing else.  Only a run whose
\* settings did not pass shows a result that is not its own.
OutputNamesItsRun ==
  \A r \in Runs :
    /\ run[r] = "settled" => \E e \in Entry : ShownBy(r) = {e} /\ e.run = r
    /\ run[r] \in {"idle"} \cup Active => ShownBy(r) = {}
    /\ run[r] = "threw" => \A e \in ShownBy(r) : run[e.run] = "settled"

\* Every command the user starts comes to its end, also when its child hangs.
EveryRunSettles == \A r \in Runs : run[r] \in Active ~> run[r] = "settled"

\* What the runner's test asserts of its two results: the one with exit code 7
\* is `failed', the `timedOut' one has no exit code.
TimedOutHasNoExitCode ==
  \A i \in DOMAIN entries :
    /\ entries[i].status = "timedOut" => entries[i].exitCode = "none"
    /\ entries[i].exitCode = "nonzero" => entries[i].status = "failed"

=============================================================================

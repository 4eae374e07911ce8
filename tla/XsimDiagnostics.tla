--------------------------- MODULE XsimDiagnostics ---------------------------
(***************************************************************************)
(* The problems of an xsim log: their summary, its validation, the status  *)
(* surface (all three xsim-diagnostics-status-surface.mjs) and the checks  *)
(* of the section of the context bundle (context-bundle.mjs).  A document  *)
(* has the fields and the list of problems.                                *)
(***************************************************************************)
EXTENDS Contracts

CONSTANTS
  FileOrder,  \* the files a problem may be in, in the order of localeCompare()
  MaxFiles    \* limits.maxFiles of the bundle

Severities == {"error", "warning", "info", "hint"}

InFiles == Range(FileOrder)

\* A problem is whole if its source kind, message, raw text, line and column
\* are what they must be.  It may be in no file, or in one that is named by no
\* relative path.
Problem == [severity : Severities \cup {"unknown"}, file : InFiles \cup {"none", "outside"},
            code : Values, whole : BOOLEAN]

IsRelative(v) == v \in {"good", "long"}

-----------------------------------------------------------------------------
(* The summary of a payload *)

PayloadPolicies == {"kind", "source_kind", "tool"}
Fields          == PayloadPolicies \cup {"source"}

Document == [field : [Fields -> Values], problems : Seq(Problem)]

\* A code may be missing, but not be blank.
ProblemErrors(problems) ==
  ErrorIf("problems", \E p \in Range(problems) :
    \/ ~p.whole
    \/ p.severity \notin Severities
    \/ p.file = "outside"
    \/ p.code # "absent" /\ ~IsText(p.code))

\* summarizeXsimDiagnosticsProblems() throws if there are any.
Errors(doc) ==
  UNION {Unexpected(doc.field, PayloadPolicies),
         ErrorIf("source", ~IsRelative(At(doc.field, "source"))),
         ProblemErrors(doc.problems),
         Scanned(Range(doc.field) \cup Range(Column(doc.problems, "code")))}

Located(problems) == Cardinality({i \in DOMAIN problems : problems[i].file # "none"})
Coded(problems)   == Cardinality({i \in DOMAIN problems : problems[i].code # "absent"})

\* The files that are named, in order.
NamedFiles(counts) ==
  LET named == {i \in DOMAIN FileOrder : counts[FileOrder[i]] > 0}
  IN  [n \in 1 .. Cardinality(named) |-> FileOrder[Nth(named, n)]]

\* Variant: the names are sorted, their counts are not.
FilesMixedUp(problems) ==
  LET counts == CountBy(Column(problems, "file"), InFiles)
      files  == NamedFiles(counts)
  IN  [i \in DOMAIN files |-> [file |-> files[i],
                               problemCount |-> counts[files[1 + Len(files) - i]]]]

\* sortedFiles()
FilesOf(problems) ==
  LET counts == CountBy(Column(problems, "file"), InFiles)
      files  == NamedFiles(counts)
  IN  [i \in DOMAIN files |-> [file |-> files[i], problemCount |-> counts[files[i]]]]

SummarySafety == {"dataOnly", "readOnly", "localOnly", "existingLogOnly", "rawLogIncluded",
  "rawLineEcho", "xsimExecution", "vivadoExecution", "pccxLabExecution",
  "launcherExecution", "shellExecution", "fpgaRepoAccess", "hardwareAccess", "kv260Access",
  "runtimeExecution", "modelExecution", "providerCalls", "networkCalls", "mcpCalls",
  "lspImplemented", "marketplaceFlow", "telemetry", "automaticUpload", "writeBack"}

Summary(doc) ==
  [field  |-> Merged([source |-> At(doc.field, "source")],
                     AllGood(SummarySafety \cup {"version", "kind", "sourceKind", "tool"})),
   counts |-> Merged(CountBy(Column(doc.problems, "severity"), Severities),
                     [count |-> Len(doc.problems), located |-> Located(doc.problems),
                      unlocated |-> Len(doc.problems) - Located(doc.problems),
                      coded |-> Coded(doc.problems)]),
   lists  |-> [files |-> FilesOf(doc.problems)]]

-----------------------------------------------------------------------------
(* The status surface *)

SurfacePolicies == {"version", "kind", "sourceKind", "tool"}

SurfaceSafety == {"dataOnly", "readOnly", "localOnly", "existingLogOnly", "rawLogIncluded",
  "rawLineEcho", "xsimExecution", "vivadoExecution", "pccxLabExecution",
  "launcherExecution", "shellExecution", "fpgaRepoAccess", "hardwareAccess", "kv260Access",
  "runtimeExecution", "modelExecution", "providerCalls", "networkCalls", "mcpCalls",
  "lspImplemented", "marketplaceFlow", "telemetry", "automaticUpload", "writeBack"}

FileTotal(files) == SumFunction(Column(files, "problemCount"))

CountErrors(summary) ==
  LET c == summary.counts IN
  UNION {ErrorIf("severity", SumFunctionOnSet(c, Severities) # c["count"]),
         ErrorIf("located", c["located"] + c["unlocated"] # c["count"]),
         ErrorIf("coded", c["coded"] > c["count"]),
         ErrorIf("files", FileTotal(summary.lists["files"]) # c["located"])}

\* validateSummary() and the scan throw if there are any.
SurfaceErrors(summary) ==
  UNION {Unexpected(summary.field, SurfacePolicies \cup SurfaceSafety),
         ErrorIf("source", ~IsRelative(At(summary.field, "source"))),
         CountErrors(summary), Scanned(Range(summary.field))}

Surface(summary) ==
  [field  |-> Merged(AllGood({"status", "summaryAvailable", "rawParsedByUi",
                              "rawLogParsedByUi"}),
                     Copied(summary.field, [p \in {"source"} \cup SurfacePolicies
                                                          \cup SurfaceSafety |-> p])),
   counts |-> summary.counts,
   lists  |-> summary.lists]

-----------------------------------------------------------------------------
(* The section of the context bundle *)

\* assertXsimDiagnosticsContextSafety(): these must be true, the others false.
ContextTrue  == {"dataOnly", "readOnly", "existingLogOnly"}
ContextFalse == {"rawParsedByUi", "rawLogParsedByUi"} \cup
  (SurfaceSafety \ {"dataOnly", "readOnly", "localOnly", "existingLogOnly"})

Section(surface) == SectionWith(surface, [files |-> MaxFiles])

=============================================================================

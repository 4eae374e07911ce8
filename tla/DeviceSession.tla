---------------------------- MODULE DeviceSession ----------------------------
(***************************************************************************)
(* The device/session status: its consumer                                 *)
(* (device-session-status-consumer.mjs), its status surface                *)
(* (device-session-status-surface.mjs) and the checks of its section of    *)
(* the context bundle (context-bundle.mjs).  A document has the fields,    *)
(* the rows of the status panel, the discovery paths, the steps of the     *)
(* launch flow, the error taxonomy, limitations and issue references.      *)
(***************************************************************************)
EXTENDS Contracts

Severities == {"info", "warning", "blocked", "error", "placeholder"}

RequiredRows == {"device_connection", "model_load", "session_activity",
  "pccx_lab_diagnostics", "runtime_readiness"}

\* The state of an element is one of the contract's states or not; its text is
\* as bad as the worst of its texts.
Row  == [id : RequiredRows \cup {"other_row"}, known : BOOLEAN, text : Values]
Step == [order : Nat, known : BOOLEAN, text : Values]
Item == [severity : Severities \cup {"unknown"}, known : BOOLEAN, text : Values]

-----------------------------------------------------------------------------
(* The consumer *)

Identity == {"schemaVersion", "statusId", "statusAnswer", "targetDevice", "targetBoard",
  "targetModel"}

States == {"connectionState", "discoveryState", "authenticationState", "runtimeState",
  "modelLoadState", "sessionState", "logStreamState", "diagnosticsState",
  "readinessState"}

Names == {"fixtureVersion", "lastUpdatedSource"}

PccxLabPolicies == {"pccxLabDiagnostics.state", "pccxLabDiagnostics.mode",
  "pccxLabDiagnostics.automaticUpload", "pccxLabDiagnostics.writeBack",
  "pccxLabDiagnostics.executesPccxLab"}
PccxLabNames == {"pccxLabDiagnostics.lowerBoundary"}

SafetyFlags == {"safetyFlags.dataOnly", "safetyFlags.readOnly", "safetyFlags.deterministic",
  "safetyFlags.writesArtifacts", "safetyFlags.touchesHardware", "safetyFlags.kv260Access",
  "safetyFlags.opensSerialPort", "safetyFlags.serialWrites", "safetyFlags.networkCalls",
  "safetyFlags.networkScan", "safetyFlags.sshExecution",
  "safetyFlags.authenticationAttempt", "safetyFlags.runtimeExecution",
  "safetyFlags.modelLoaded", "safetyFlags.modelExecution",
  "safetyFlags.modelWeightPathsIncluded", "safetyFlags.privatePathsIncluded",
  "safetyFlags.secretsIncluded", "safetyFlags.tokensIncluded",
  "safetyFlags.artifactBlobsIncluded", "safetyFlags.hardwareDumpsIncluded",
  "safetyFlags.providerCalls", "safetyFlags.telemetry", "safetyFlags.automaticUpload",
  "safetyFlags.writeBack", "safetyFlags.executesPccxLab",
  "safetyFlags.executesSystemverilogIde", "safetyFlags.firmwareFlashing",
  "safetyFlags.packageInstallation", "safetyFlags.stableApiAbiClaim"}

Policies == Identity \cup States \cup PccxLabPolicies \cup SafetyFlags
Fields   == Policies \cup Names \cup PccxLabNames

Document == [field : [Fields -> Values], rows : Seq(Row), discovery : Seq(Values),
             steps : Seq(Step), taxonomy : Seq(Item), limitations : Seq(Values),
             issueRefs : Seq(Values)]

\* What rows, steps and errors have in common.
ElementErrors(name, list) ==
  NotShortTexts(name, Column(list, "text")) \cup ErrorIf(name, \E e \in Range(list) : ~e.known)

\* The five rows every panel has are there.
PanelErrors(rows) ==
  ElementErrors("statusPanel", rows)
  \cup ErrorIf("statusPanel", rows = <<>> \/ ~(RequiredRows \subseteq Range(Column(rows, "id"))))

\* A discovery path is as good as its transport, its state and its texts.
DiscoveryErrors(paths) ==
  ErrorIf("discoveryPaths", paths = <<>> \/ \E i \in DOMAIN paths : paths[i] # "good")

\* The orders of the steps count from one.
FlowErrors(steps) ==
  ElementErrors("connectionLaunchFlow", steps)
  \cup ErrorIf("connectionLaunchFlow",
         steps = <<>> \/ \E i \in DOMAIN steps : steps[i].order # i)

TaxonomyErrors(items) ==
  ElementErrors("errorTaxonomy", items)
  \cup ErrorIf("errorTaxonomy",
         items = <<>> \/ \E item \in Range(items) : item.severity \notin Severities)

Texts(doc) ==
  UNION {Range(doc.field), Range(doc.discovery), Range(doc.limitations), Range(doc.issueRefs),
         Range(Column(doc.rows, "text")), Range(Column(doc.steps, "text")),
         Range(Column(doc.taxonomy, "text"))}

\* consumeDeviceSessionStatus() throws if there are any.
Errors(doc) ==
  UNION {Unexpected(doc.field, Policies), NotShortText(doc.field, Names \cup PccxLabNames),
         PanelErrors(doc.rows), DiscoveryErrors(doc.discovery), FlowErrors(doc.steps),
         TaxonomyErrors(doc.taxonomy), NotShortTexts("limitations", doc.limitations),
         NotShortTexts("issueRefs", doc.issueRefs), Scanned(Texts(doc))}

\* What the summary takes from the document, under its own names.
CopiedFields ==
  [statusSchemaVersion |-> "schemaVersion", statusId |-> "statusId",
   fixtureVersion |-> "fixtureVersion", lastUpdatedSource |-> "lastUpdatedSource",
   statusAnswer |-> "statusAnswer", device |-> "targetDevice", board |-> "targetBoard",
   model |-> "targetModel", connection |-> "connectionState",
   discovery |-> "discoveryState", authentication |-> "authenticationState",
   runtime |-> "runtimeState", modelLoad |-> "modelLoadState", session |-> "sessionState",
   logStream |-> "logStreamState", diagnostics |-> "diagnosticsState",
   readiness |-> "readinessState", lowerBoundary |-> "pccxLabDiagnostics.lowerBoundary"]

\* What the consumer says of pccx-lab, and of itself.
SummaryPccxLab == {"pccxLab.state", "pccxLab.mode", "pccxLab.automaticUpload",
  "pccxLab.writeBack", "pccxLab.executesPccxLab"}
SummarySafety == {"dataOnly", "readOnly", "deterministic", "launcherExecution",
  "pccxLabExecution", "pccxLabValidatorInvocation", "systemverilogIdeExecution",
  "shellExecution", "touchesHardware", "kv260Access", "opensSerialPort", "serialWrites",
  "networkCalls", "networkScan", "sshExecution", "authenticationAttempt",
  "runtimeExecution", "modelLoaded", "modelExecution", "modelWeightPathsIncluded",
  "privatePathsIncluded", "secretsIncluded", "tokensIncluded", "artifactBlobsIncluded",
  "hardwareDumpsIncluded", "providerCalls", "telemetry", "automaticUpload", "writeBack",
  "writesArtifacts", "firmwareFlashing", "packageInstallation", "stableApiAbiClaim"}

Summary(doc) ==
  [field  |-> Merged(Copied(doc.field, CopiedFields),
                     AllGood(SummarySafety \cup SummaryPccxLab \cup {"version", "kind"})),
   counts |-> Merged(CountBy(Column(doc.taxonomy, "severity"), Severities),
                     [count |-> Len(doc.rows), errors |-> Len(doc.taxonomy),
                      discoveryPaths |-> Len(doc.discovery), flowSteps |-> Len(doc.steps)]),
   lists  |-> [rows |-> Column(doc.rows, "text"), limitations |-> doc.limitations,
               issueRefs |-> doc.issueRefs]]

-----------------------------------------------------------------------------
(* The status surface *)

SurfacePolicies == {"version", "kind", "statusSchemaVersion", "statusAnswer",
  "pccxLab.automaticUpload", "pccxLab.writeBack", "pccxLab.executesPccxLab"}

SurfaceSafety == {"dataOnly", "readOnly", "deterministic", "launcherExecution",
  "pccxLabExecution", "pccxLabValidatorInvocation", "systemverilogIdeExecution",
  "shellExecution", "touchesHardware", "kv260Access", "opensSerialPort", "serialWrites",
  "networkCalls", "networkScan", "sshExecution", "authenticationAttempt",
  "runtimeExecution", "modelLoaded", "modelExecution", "modelWeightPathsIncluded",
  "privatePathsIncluded", "secretsIncluded", "tokensIncluded", "artifactBlobsIncluded",
  "hardwareDumpsIncluded", "providerCalls", "telemetry", "automaticUpload", "writeBack",
  "writesArtifacts", "firmwareFlashing", "packageInstallation", "stableApiAbiClaim"}

SurfaceNames == {"statusId", "fixtureVersion", "lastUpdatedSource", "device", "board",
  "model", "connection", "discovery", "authentication", "runtime", "modelLoad", "session",
  "logStream", "diagnostics", "readiness", "pccxLab.state", "pccxLab.mode",
  "lowerBoundary"}

CountErrors(summary) ==
  ErrorIf("rowCount", summary.counts["count"] # Len(summary.lists["rows"]))
  \cup ErrorIf("errorCount",
         SumFunctionOnSet(summary.counts, Severities) # summary.counts["errors"])

\* normalizeConsumerSummary() throws if there are any.
SurfaceErrors(summary) ==
  UNION {Unexpected(summary.field, SurfacePolicies \cup SurfaceSafety),
         NotShortText(summary.field, SurfaceNames), CountErrors(summary),
         UNION {NotShortTexts(l, summary.lists[l]) : l \in DOMAIN summary.lists},
         Scanned(Range(summary.field) \cup UNION {Range(l) : l \in Range(summary.lists)})}

\* What the surface says itself, and not the summary.
AddedSafety == {"localOnly", "pccxLabValidatorInvocation", "shellExecution",
  "kv260RuntimeExecution", "mcpCalls", "lspImplemented", "marketplaceFlow"}

Surface(summary) ==
  [field  |-> Merged(AllGood(AddedSafety \cup {"status", "summaryAvailable", "rawParsedByUi"}),
                     Copied(summary.field, [p \in SurfaceNames \cup SurfacePolicies
                                                          \cup SurfaceSafety |-> p])),
   counts |-> summary.counts,
   lists  |-> summary.lists]

-----------------------------------------------------------------------------
(* The section of the context bundle *)

\* assertDeviceSessionStatusContextSafety(): these must be true, the others false.
ContextTrue  == {"dataOnly", "readOnly"}
ContextFalse ==
  {"rawParsedByUi", "pccxLab.automaticUpload", "pccxLab.writeBack", "pccxLab.executesPccxLab"}
  \cup ((SurfaceSafety \cup AddedSafety) \ {"dataOnly", "readOnly", "localOnly", "deterministic"})

Section(surface) == SectionWith(surface, [rows |-> 8])

=============================================================================

-------------------------- MODULE DiagnosticsHandoff --------------------------
(***************************************************************************)
(* The diagnostics handoff of the launcher: its consumer                   *)
(* (diagnostics-handoff-consumer.mjs), its status surface                  *)
(* (diagnostics-handoff-status-surface.mjs) and the checks of its section  *)
(* of the context bundle (context-bundle.mjs).  A document has the fields, *)
(* one artifact among them, and the lists of diagnostics, transports and   *)
(* limitations.                                                            *)
(***************************************************************************)
EXTENDS Contracts

Severities == {"info", "warning", "blocked", "error"}
Categories == {"configuration", "model_descriptor", "runtime_descriptor", "target_device",
               "evidence", "safety", "diagnostics_handoff"}

\* A diagnostic is whole if it has every field and a reference to a contract.
Diagnostic == [severity : Severities \cup {"unknown"},
               category : Categories \cup {"unknown"}, whole : BOOLEAN]

-----------------------------------------------------------------------------
(* The consumer *)

\* Fields that need only be there, and those whose leaves are not looked at.
Required == {"handoffId", "createdAt", "sessionId", "targetKind", "evidenceRefs", "issueRefs"}
Ignored  == {"producer.id", "consumer.id"}

Identity == {"schemaVersion", "handoffKind", "producer.role", "consumer.role",
             "targetDevice.accessState"}

ReferenceKinds == {"launcherStatusRef.operationId", "launcherStatusRef.referenceKind",
                   "modelDescriptorRef.referenceKind", "runtimeDescriptorRef.referenceKind"}
ReferenceNames == {"modelDescriptorRef.modelId", "runtimeDescriptorRef.runtimeId"}

ArtifactKind == {"artifactRefs.referenceKind"}
Artifact     == {"artifactRefs.reference"}
TransportPolicies == {"transport.mode", "transport.execution"}

PrivacyFlags == {"privacyFlags.uploadPolicy", "privacyFlags.telemetryPolicy",
  "privacyFlags.automaticUpload", "privacyFlags.rawFullLogsIncluded",
  "privacyFlags.userRequestsIncluded", "privacyFlags.userSourceCodeIncluded",
  "privacyFlags.privatePathsIncluded", "privacyFlags.secretsIncluded",
  "privacyFlags.tokensIncluded", "privacyFlags.providerConfigsIncluded",
  "privacyFlags.modelWeightPathsIncluded", "privacyFlags.artifactBlobsIncluded"}

SafetyFlags == {"safetyFlags.executesPccxLab", "safetyFlags.executesLauncher",
  "safetyFlags.runtimeExecution", "safetyFlags.touchesHardware", "safetyFlags.kv260Access",
  "safetyFlags.modelExecution", "safetyFlags.networkCalls", "safetyFlags.providerCalls",
  "safetyFlags.shellExecution", "safetyFlags.mcpServerImplemented",
  "safetyFlags.lspImplemented", "safetyFlags.marketplaceFlow", "safetyFlags.telemetry",
  "safetyFlags.automaticUpload", "safetyFlags.writeBack", "safetyFlags.dataOnly",
  "safetyFlags.readOnly", "safetyFlags.contractKind", "safetyFlags.descriptorPolicy",
  "safetyFlags.runtimePolicy", "safetyFlags.hardwarePolicy"}

Policies == Identity \cup ReferenceKinds \cup ArtifactKind \cup TransportPolicies
              \cup PrivacyFlags \cup SafetyFlags
Fields   == Policies \cup ReferenceNames \cup Artifact \cup Required \cup Ignored

Document == [field : [Fields -> Values], diagnostics : Seq(Diagnostic),
             transport : Seq(Values), limitations : Seq(Values)]

\* Variant: a diagnostic of an unknown severity is let through.
DiagnosticErrorsLax(diagnostics) ==
  ErrorIf("diagnostics", diagnostics = <<>> \/ \E d \in Range(diagnostics) : ~d.whole)

DiagnosticErrors(diagnostics) ==
  ErrorIf("diagnostics",
    \/ diagnostics = <<>>
    \/ \E d \in Range(diagnostics) : \/ ~d.whole
                                     \/ d.severity \notin Severities
                                     \/ d.category \notin Categories)

\* A relative reference, of any length.
ArtifactErrors(field) == {p \in Artifact : At(field, p) \notin {"good", "long"}}

\* Only the three kinds of transport.
TransportErrors(transport) ==
  ErrorIf("transport", Range(transport) # {"good"} /\ transport # <<>>)

\* consumeDiagnosticsHandoff() throws if there are any.
Errors(doc) ==
  UNION {Missing(doc.field, Required), Unexpected(doc.field, Policies),
         NotText(doc.field, ReferenceNames), ArtifactErrors(doc.field),
         DiagnosticErrors(doc.diagnostics), TransportErrors(doc.transport),
         NotTexts("limitations", doc.limitations),
         Scanned(Range(doc.field) \cup Range(doc.limitations))}

\* What the summary takes from the document, under its own names.
CopiedFields ==
  [handoffSchemaVersion |-> "schemaVersion", handoffId |-> "handoffId",
   handoffKind |-> "handoffKind", producerId |-> "producer.id",
   consumerId |-> "consumer.id", targetKind |-> "targetKind",
   launcherOperationId |-> "launcherStatusRef.operationId",
   modelId |-> "modelDescriptorRef.modelId",
   runtimeId |-> "runtimeDescriptorRef.runtimeId"]

\* What the consumer says of itself.
SummarySafety == {"dataOnly", "readOnly", "fixtureConsumer", "launcherExecution",
  "pccxLabExecution", "shellExecution", "providerCalls", "networkCalls", "runtimeCalls",
  "mcpCalls", "lspImplemented", "marketplaceFlow", "telemetry", "automaticUpload",
  "writeBack"}

DiagnosticCounts(diagnostics) ==
  Merged(CountBy(Column(diagnostics, "severity"), Severities),
         Merged(CountBy(Column(diagnostics, "category"), Categories),
                [count |-> Len(diagnostics)]))

Summary(doc) ==
  [field  |-> Merged(Copied(doc.field, CopiedFields),
                     AllGood(SummarySafety \cup {"version", "kind", "referenceKind"})),
   counts |-> DiagnosticCounts(doc.diagnostics),
   lists  |-> [transportKinds |-> doc.transport, limitations |-> doc.limitations]]

-----------------------------------------------------------------------------
(* The status surface *)

SurfacePolicies == {"version", "kind", "handoffSchemaVersion", "handoffKind"}
SurfaceSafety == {"dataOnly", "readOnly", "fixtureConsumer", "launcherExecution",
  "pccxLabExecution", "shellExecution", "providerCalls", "networkCalls", "runtimeCalls",
  "mcpCalls", "lspImplemented", "marketplaceFlow", "telemetry", "automaticUpload",
  "writeBack"}
SurfaceNames == {"handoffId", "producerId", "consumerId", "targetKind",
  "launcherOperationId", "modelId", "runtimeId", "referenceKind"}

CountErrors(counts) ==
  ErrorIf("severity", SumFunctionOnSet(counts, Severities) # counts["count"])
  \cup ErrorIf("category", SumFunctionOnSet(counts, Categories) # counts["count"])

\* normalizeConsumerSummary() throws if there are any.
SurfaceErrors(summary) ==
  UNION {Unexpected(summary.field, SurfacePolicies \cup SurfaceSafety),
         NotText(summary.field, SurfaceNames), CountErrors(summary.counts),
         NotTexts("transportKinds", summary.lists["transportKinds"]),
         NotTexts("limitations", summary.lists["limitations"]),
         Scanned(Range(summary.field) \cup UNION {Range(l) : l \in Range(summary.lists)})}

\* The surface's own word, whatever the summary's.
ShownSafety == {"dataOnly", "readOnly", "localOnly", "launcherExecution",
  "pccxLabExecution", "pccxLabValidatorInvocation", "shellExecution", "providerCalls",
  "networkCalls", "runtimeCalls", "mcpCalls", "lspImplemented", "marketplaceFlow",
  "telemetry", "automaticUpload", "writeBack"}

Surface(summary) ==
  [field  |-> Merged(AllGood(ShownSafety \cup {"status", "summaryAvailable", "rawParsedByUi"}),
                     Copied(summary.field, [p \in SurfaceNames \cup SurfacePolicies |-> p])),
   counts |-> summary.counts,
   lists  |-> summary.lists]

-----------------------------------------------------------------------------
(* The section of the context bundle *)

\* assertDiagnosticsHandoffContextSafety(): these must be true, the others false.
ContextTrue  == {"dataOnly", "readOnly"}
\* Variant: a claim is forgotten.
ContextFalseForgetful ==
  (ShownSafety \ {"dataOnly", "readOnly", "localOnly", "writeBack"}) \cup {"rawParsedByUi"}

ContextFalse == (ShownSafety \ {"dataOnly", "readOnly", "localOnly"}) \cup {"rawParsedByUi"}

Section(surface) == SectionWith(surface, [transportKinds |-> 4, limitations |-> 4])

=============================================================================

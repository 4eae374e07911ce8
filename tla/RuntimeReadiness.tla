--------------------------- MODULE RuntimeReadiness ---------------------------
(***************************************************************************)
(* The runtime readiness fixture: its consumer                             *)
(* (runtime-readiness-consumer.mjs), its status surface                    *)
(* (runtime-readiness-status-surface.mjs) and the checks of its section of *)
(* the context bundle (context-bundle.mjs).  A document has the fields,    *)
(* those of its first performance target among them, the number of         *)
(* performance targets and the list of blockers.                           *)
(***************************************************************************)
EXTENDS Contracts

MaxBlockers == 8

\* The text of a blocker is the worst of its three texts.
Blocker == [state : {"blocked", "other"}, text : Values]

-----------------------------------------------------------------------------
(* The consumer *)

Required == {"targetState", "overallState", "descriptorState", "boardInputState",
  "simulationEvidenceState", "vivadoSynthState", "compatibilityState", "stateVocabulary",
  "nextInputsRequired", "evidenceRefs", "coordinationNotes", "limitations", "issueRefs"}

Identity == {"schemaVersion", "readinessId", "statusAnswer", "modelFamily", "modelVariant",
  "targetDevice", "modelWeightState"}

BlockedStates == {"readinessState", "evidenceState", "timingEvidenceState",
  "bitstreamState", "implementationState", "kv260SmokeState", "runtimeEvidenceState",
  "throughputEvidenceState"}

Names == {"fixtureVersion", "lastUpdatedSource", "modelId", "targetBoard"}

PerformancePolicies == {"performanceTargets.metricId", "performanceTargets.state",
  "performanceTargets.target", "performanceTargets.measured", "performanceTargets.achieved"}
PerformanceNames == {"performanceTargets.summary"}

SafetyFlags == {"safetyFlags.dataOnly", "safetyFlags.readOnly", "safetyFlags.deterministic",
  "safetyFlags.descriptorOnly", "safetyFlags.writesArtifacts", "safetyFlags.touchesHardware",
  "safetyFlags.kv260Access", "safetyFlags.runtimeExecution", "safetyFlags.modelLoaded",
  "safetyFlags.modelExecution", "safetyFlags.modelWeightPathsIncluded",
  "safetyFlags.privatePathsIncluded", "safetyFlags.secretsIncluded",
  "safetyFlags.tokensIncluded", "safetyFlags.artifactBlobsIncluded",
  "safetyFlags.hardwareDumpsIncluded", "safetyFlags.networkCalls",
  "safetyFlags.providerCalls", "safetyFlags.telemetry", "safetyFlags.automaticUpload",
  "safetyFlags.writeBack", "safetyFlags.executesPccxLab",
  "safetyFlags.executesSystemverilogIde", "safetyFlags.mcpServerImplemented",
  "safetyFlags.lspImplemented", "safetyFlags.marketplaceFlow",
  "safetyFlags.stableApiAbiClaim"}

Policies == Identity \cup BlockedStates \cup PerformancePolicies \cup SafetyFlags
Fields   == Policies \cup Names \cup PerformanceNames \cup Required

Document == [field : [Fields -> Values], blockers : Seq(Blocker), targets : Nat]

\* One to eight blockers, all of them blocked.
BlockerErrors(blockers) ==
  ErrorIf("blockers",
    \/ Len(blockers) \notin 1 .. MaxBlockers
    \/ \E b \in Range(blockers) : b.state # "blocked" \/ ~IsShortText(b.text))

\* One performance target, not measured and not achieved.
PerformanceErrors(doc) ==
  ErrorIf("performanceTargets", doc.targets # 1)
  \cup Unexpected(doc.field, PerformancePolicies)
  \cup NotShortText(doc.field, PerformanceNames)

\* consumeRuntimeReadiness() throws if there are any.
Errors(doc) ==
  UNION {Missing(doc.field, Required), Unexpected(doc.field, Identity \cup BlockedStates),
         BlockerErrors(doc.blockers), PerformanceErrors(doc),
         Unexpected(doc.field, SafetyFlags), NotShortText(doc.field, Names),
         Scanned(Range(doc.field) \cup Range(Column(doc.blockers, "text")))}

\* What the summary takes from the fixture, under its own names.
CopiedFields ==
  [readinessSchemaVersion |-> "schemaVersion", readinessId |-> "readinessId",
   fixtureVersion |-> "fixtureVersion", lastUpdatedSource |-> "lastUpdatedSource",
   statusAnswer |-> "statusAnswer", readinessState |-> "readinessState",
   evidenceState |-> "evidenceState", modelId |-> "modelId",
   modelFamily |-> "modelFamily", modelVariant |-> "modelVariant",
   targetDevice |-> "targetDevice", targetBoard |-> "targetBoard",
   timingState |-> "timingEvidenceState", bitstreamState |-> "bitstreamState",
   implementationState |-> "implementationState", kv260SmokeState |-> "kv260SmokeState",
   runtimeEvidenceState |-> "runtimeEvidenceState",
   throughputState |-> "throughputEvidenceState"]

\* What the consumer says of itself.
SummarySafety == {"dataOnly", "readOnly", "deterministic", "descriptorOnly",
  "launcherExecution", "pccxLabExecution", "systemverilogIdeExecution", "fpgaRepoAccess",
  "kv260Access", "runtimeExecution", "modelLoaded", "modelExecution",
  "modelWeightPathsIncluded", "privatePathsIncluded", "secretsIncluded", "tokensIncluded",
  "artifactBlobsIncluded", "hardwareDumpsIncluded", "writesArtifacts", "networkCalls",
  "providerCalls", "mcpCalls", "lspImplemented", "marketplaceFlow", "telemetry",
  "automaticUpload", "writeBack", "stableApiAbiClaim"}

Summary(doc) ==
  [field  |-> Merged(Copied(doc.field, CopiedFields),
                     AllGood(SummarySafety \cup {"version", "kind"})),
   counts |-> [count |-> Len(doc.blockers)],
   lists  |-> [blockers |-> Column(doc.blockers, "text")]]

-----------------------------------------------------------------------------
(* The status surface *)

SurfacePolicies == {"version", "kind", "readinessSchemaVersion", "statusAnswer"}

SurfaceSafety == {"dataOnly", "readOnly", "deterministic", "descriptorOnly",
  "launcherExecution", "pccxLabExecution", "systemverilogIdeExecution", "fpgaRepoAccess",
  "kv260Access", "runtimeExecution", "modelLoaded", "modelExecution",
  "modelWeightPathsIncluded", "privatePathsIncluded", "secretsIncluded", "tokensIncluded",
  "artifactBlobsIncluded", "hardwareDumpsIncluded", "writesArtifacts", "networkCalls",
  "providerCalls", "mcpCalls", "lspImplemented", "marketplaceFlow", "telemetry",
  "automaticUpload", "writeBack", "stableApiAbiClaim"}

\* A flag the consumer does not write, checked when it is there.
OptionalSafety == {"kv260RuntimeExecution"}

SurfaceNames == {"readinessId", "fixtureVersion", "lastUpdatedSource", "readinessState",
  "evidenceState", "modelId", "modelFamily", "modelVariant", "targetDevice", "targetBoard",
  "timingState", "bitstreamState", "implementationState", "kv260SmokeState",
  "runtimeEvidenceState", "throughputState"}

SurfaceBlockerErrors(summary) ==
  LET blockers == summary.lists["blockers"] IN
  NotShortTexts("blockers", blockers)
  \cup ErrorIf("blockerCount", \/ Len(blockers) > MaxBlockers
                               \/ summary.counts["count"] # Len(blockers))

\* normalizeConsumerSummary() throws if there are any.
SurfaceErrors(summary) ==
  UNION {Unexpected(summary.field, SurfacePolicies \cup SurfaceSafety),
         Unexpected(summary.field, OptionalSafety \cap DOMAIN summary.field),
         NotShortText(summary.field, SurfaceNames), SurfaceBlockerErrors(summary),
         Scanned(Range(summary.field) \cup Range(summary.lists["blockers"]))}

\* The summary's word, and what the surface adds.
ShownSafety == SurfaceSafety
  \cup {"localOnly", "pccxLabValidatorInvocation", "shellExecution", "kv260RuntimeExecution"}

Surface(summary) ==
  [field  |-> Merged(AllGood({"localOnly", "pccxLabValidatorInvocation", "shellExecution",
                              "kv260RuntimeExecution", "status", "summaryAvailable",
                              "rawParsedByUi"}),
                     Copied(summary.field, [p \in SurfaceNames \cup SurfacePolicies
                                                          \cup SurfaceSafety |-> p])),
   counts |-> summary.counts,
   lists  |-> summary.lists]

-----------------------------------------------------------------------------
(* The section of the context bundle *)

\* assertRuntimeReadinessContextSafety(): these must be true, the others false.
ContextTrue  == {"dataOnly", "readOnly"}
ContextFalse == {"rawParsedByUi"} \cup
  (ShownSafety \ {"dataOnly", "readOnly", "localOnly", "deterministic", "descriptorOnly",
                  "systemverilogIdeExecution"})

Section(surface) == SectionWith(surface, [blockers |-> 8])

=============================================================================

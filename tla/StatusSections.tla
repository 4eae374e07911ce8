---------------------------- MODULE StatusSections ----------------------------
(***************************************************************************)
(* The way of a status document into the context bundle, hop by hop: a     *)
(* consumer validates and summarizes it, a status surface validates the    *)
(* summary and shows it, the context bundle takes the surface (or makes    *)
(* one of the summary, or of the problems of an xsim log) and checks it    *)
(* once more, and the summary of the bundle, its audit and the validation  *)
(* proposals report what they find there.  Each hop has checks of its own, *)
(* written apart from the others.  The four sections of a bundle are made  *)
(* independently (buildContextBundle()): one contract at a time here.      *)
(***************************************************************************)
EXTENDS Contracts

CONSTANTS
  Documents(_),  \* the documents of a contract
  Alterable(_),  \* those of whose surfaces a caller changes a field: a bound
  None,          \* no summary, no surface yet
  FileOrder,     \* the files an xsim log may name, in order
  MaxFiles       \* limits.maxFiles of the bundle

ASSUME MaxFilesAssumption == MaxFiles \in Nat
ASSUME FileOrderAssumption ==
  /\ FileOrder \in Seq(STRING \ {"none", "outside"})
  /\ \A i, j \in DOMAIN FileOrder : FileOrder[i] = FileOrder[j] => i = j

H == INSTANCE DiagnosticsHandoff
R == INSTANCE RuntimeReadiness
D == INSTANCE DeviceSession
X == INSTANCE XsimDiagnostics

ASSUME DocumentsAssumption ==
  /\ Documents("diagnosticsHandoff") \subseteq H!Document
  /\ Documents("runtimeReadiness") \subseteq R!Document
  /\ Documents("deviceSessionStatus") \subseteq D!Document
  /\ Documents("xsimDiagnostics") \subseteq X!Document

ContractNames == {"diagnosticsHandoff", "runtimeReadiness", "deviceSessionStatus",
                  "xsimDiagnostics"}

VARIABLES
  contract,  \* the contract this is about
  doc,       \* the document
  stage,     \* how far it has come
  summary,   \* what the consumer made of it
  surface,   \* what the surface made of that
  altered,   \* history: the field of the surface a caller changed
  offer,     \* what the bundle was given
  section    \* the section of the bundle

vars == <<contract, doc, stage, summary, surface, altered, offer, section>>

-----------------------------------------------------------------------------
(* The contracts' operators by name *)

Errors(c, d) ==
  CASE c = "diagnosticsHandoff"  -> H!Errors(d)
    [] c = "runtimeReadiness"    -> R!Errors(d)
    [] c = "deviceSessionStatus" -> D!Errors(d)
    [] c = "xsimDiagnostics"     -> X!Errors(d)

Summary(c, d) ==
  CASE c = "diagnosticsHandoff"  -> H!Summary(d)
    [] c = "runtimeReadiness"    -> R!Summary(d)
    [] c = "deviceSessionStatus" -> D!Summary(d)
    [] c = "xsimDiagnostics"     -> X!Summary(d)

SurfaceErrors(c, s) ==
  CASE c = "diagnosticsHandoff"  -> H!SurfaceErrors(s)
    [] c = "runtimeReadiness"    -> R!SurfaceErrors(s)
    [] c = "deviceSessionStatus" -> D!SurfaceErrors(s)
    [] c = "xsimDiagnostics"     -> X!SurfaceErrors(s)

Surface(c, s) ==
  CASE c = "diagnosticsHandoff"  -> H!Surface(s)
    [] c = "runtimeReadiness"    -> R!Surface(s)
    [] c = "deviceSessionStatus" -> D!Surface(s)
    [] c = "xsimDiagnostics"     -> X!Surface(s)

ContextTrue(c) ==
  CASE c = "diagnosticsHandoff"  -> H!ContextTrue
    [] c = "runtimeReadiness"    -> R!ContextTrue
    [] c = "deviceSessionStatus" -> D!ContextTrue
    [] c = "xsimDiagnostics"     -> X!ContextTrue

ContextFalse(c) ==
  CASE c = "diagnosticsHandoff"  -> H!ContextFalse
    [] c = "runtimeReadiness"    -> R!ContextFalse
    [] c = "deviceSessionStatus" -> D!ContextFalse
    [] c = "xsimDiagnostics"     -> X!ContextFalse

Section(c, s) ==
  CASE c = "diagnosticsHandoff"  -> H!Section(s)
    [] c = "runtimeReadiness"    -> R!Section(s)
    [] c = "deviceSessionStatus" -> D!Section(s)
    [] c = "xsimDiagnostics"     -> X!Section(s)

-----------------------------------------------------------------------------
(* The sections of the bundle, and what is reported of them *)

\* Before there is a bundle.
NoSection == [status |-> "none", filled |-> FALSE]

\* A section with nothing in it.
Without(status) ==
  [status |-> status, filled |-> FALSE, summaryAvailable |-> FALSE,
   counts |-> [count |-> 0], lists |-> <<>>]

\* A flag that is no Boolean reads false.
Safe(c, s) ==
  /\ \A flag \in ContextTrue(c) : At(s.field, flag) = "good"
  /\ \A flag \in ContextFalse(c) : At(s.field, flag) # "other"

\* A surface that makes a claim it must not make has no section.
SectionOf(c, s) == IF Safe(c, s) THEN Section(c, s) ELSE Without("invalid")

\* A surface is made of a summary first; an exception makes the section invalid.
SectionOfSummary(c, s) ==
  IF SurfaceErrors(c, s) = {} THEN SectionOf(c, Surface(c, s)) ELSE Without("invalid")

\* The problems of an xsim log take the place of a summary, and are no summary
\* to validate.
SectionOfProblems(d) ==
  IF X!Errors(d) = {} THEN SectionOf("xsimDiagnostics", X!Surface(X!Summary(d)))
  ELSE Without("invalid")

\* summarizeContextBundle()
BundleSummary(s) ==
  [status |-> s.status, count |-> IF s.summaryAvailable THEN s.counts["count"] ELSE 0]

\* createContextBundleAudit() has no entry for the runtime readiness.
AuditEntries(c, s) == IF s.summaryAvailable /\ c # "runtimeReadiness" THEN 1 ELSE 0

\* Variant: the status alone is looked at.
ProposalContextByStatus(s) ==
  [status |-> IF s.status = "invalid" THEN "unavailable" ELSE s.status,
   count  |-> s.counts["count"]]

\* createValidationDiagnosticsHandoffContext(); a section is safe by now.
ProposalContext(s) ==
  IF s.status = "invalid" THEN [status |-> "invalid", count |-> 0]
  ELSE IF s.status = "available" /\ s.summaryAvailable
       THEN [status |-> "available", count |-> s.counts["count"]]
       ELSE [status |-> "unavailable", count |-> 0]

-----------------------------------------------------------------------------
(* The hops *)

Init ==
  /\ contract \in ContractNames
  /\ doc \in Documents(contract)
  /\ stage = "document"
  /\ summary = None
  /\ surface = None
  /\ altered = "none"
  /\ offer = "none"
  /\ section = NoSection

Consume ==
  /\ stage = "document"
  /\ IF Errors(contract, doc) = {}
     THEN stage' = "consumed" /\ summary' = Summary(contract, doc)
     ELSE stage' = "refused" /\ UNCHANGED summary
  /\ UNCHANGED <<contract, doc, surface, altered, offer, section>>

Show ==
  /\ stage = "consumed"
  /\ IF SurfaceErrors(contract, summary) = {}
     THEN stage' = "shown" /\ surface' = Surface(contract, summary)
     ELSE stage' = "notShown" /\ UNCHANGED surface
  /\ UNCHANGED <<contract, doc, summary, altered, offer, section>>

\* What a caller may put in the place of a field; that the status of a surface is
\* "invalid" makes a difference to the readers of a section.
Replacements(path) ==
  {"other", "blank", "absent"} \cup (IF path = "status" THEN {"invalid"} ELSE {})

\* A caller hands on a surface that is not as it was made.
Alter ==
  /\ stage = "shown"
  /\ altered = "none"
  /\ doc \in Alterable(contract)
  /\ \E path \in DOMAIN surface.field : \E v \in Replacements(path) :
       /\ surface' = [surface EXCEPT !.field[path] = v]
       /\ altered' = path
  /\ UNCHANGED <<contract, doc, stage, summary, offer, section>>

Build(given, built) ==
  /\ stage \in {"refused", "consumed", "notShown", "shown"}
  /\ stage' = "built"
  /\ offer' = given
  /\ section' = built
  /\ UNCHANGED <<contract, doc, summary, surface, altered>>

BuildOfNothing   == Build("nothing", Without("notAvailable"))
BuildOfOtherKind == Build("otherKind", Without("invalid"))
BuildOfSummary   == summary # None /\ Build("summary", SectionOfSummary(contract, summary))
BuildOfSurface   == surface # None /\ Build("surface", SectionOf(contract, surface))
BuildOfProblems  ==
  contract = "xsimDiagnostics" /\ Build("problems", SectionOfProblems(doc))

Next ==
  \/ Consume \/ Show \/ Alter
  \/ BuildOfNothing \/ BuildOfOtherKind \/ BuildOfSummary \/ BuildOfSurface
  \/ BuildOfProblems

Spec == Init /\ [][Next]_vars

-----------------------------------------------------------------------------
(* Properties *)

\* What the texts and lists of a bundle are, and that each hop has been passed.
TypeOK ==
  /\ contract \in ContractNames /\ doc \in Documents(contract)
  /\ stage \in {"document", "refused", "consumed", "notShown", "shown", "built"}
  /\ stage \in {"consumed", "notShown", "shown"} \/ summary # None =>
       DOMAIN summary = {"field", "counts", "lists"}
  /\ stage = "shown" \/ surface # None => DOMAIN surface = {"field", "counts", "lists"}
  /\ altered # "none" => altered \in DOMAIN surface.field
  /\ IF stage = "built"
     THEN /\ offer \in {"nothing", "otherKind", "summary", "surface", "problems"}
          /\ DOMAIN section = {"status", "filled", "summaryAvailable", "counts", "lists"}
     ELSE offer = "none" /\ section = NoSection

Offered   == offer \in {"summary", "surface", "problems"}
Available == section.status = "available"

\* The consumer of a handoff only looks whether its identifiers are there, and
\* not at all at those of the producer and the consumer; its surface wants texts.
NamesOnlyShownIfTexts == {"handoffId", "targetKind", "producer.id", "consumer.id"}
ShowableIfAccepted ==
  contract = "diagnosticsHandoff" => NotText(doc.field, NamesOnlyShownIfTexts) = {}

\* The hops agree on what is acceptable: of a document the consumer accepts, every
\* later check, none of which knows the document, accepts what was made of it, and
\* of a refused one nothing gets into the bundle.  The one gap is named above.
AcceptedIsAvailable ==
  /\ stage = "notShown" => ~ShowableIfAccepted
  /\ Offered /\ altered = "none" =>
       (Available <=> Errors(contract, doc) = {} /\ ShowableIfAccepted)

\* The fields of a document that are free texts; the others have one right value.
FreeTexts == H!Required \cup H!ReferenceNames \cup H!Artifact \cup H!Ignored \cup R!Required
  \cup R!Names \cup R!PerformanceNames \cup D!Names \cup D!PccxLabNames \cup {"source"}

\* What a surface says was not done, or only done so; and the claims of these that
\* the bundle does not look at again in a surface it is given.
Claims == UNION {H!ShownSafety, R!ShownSafety, D!SurfaceSafety, D!AddedSafety, X!SurfaceSafety,
  {"pccxLab.automaticUpload", "pccxLab.writeBack", "pccxLab.executesPccxLab",
   "rawParsedByUi", "rawLogParsedByUi"}}
NotLookedAtAgain == {"localOnly", "deterministic", "descriptorOnly",
                     "systemverilogIdeExecution"}

\* What the bundle shows to an assistant comes of a document without a violated policy
\* or claim and without a scanned text in any of its fields, and no claim of safety a
\* caller turned round in the surface is shown, whatever its status says.
OnlySafeAvailable ==
  section.filled =>
    /\ \A f \in DOMAIN doc.field : doc.field[f] = "good" \/ f \in FreeTexts
    /\ "unsafe" \notin Range(doc.field)
    /\ altered \in Claims /\ offer = "surface" /\ surface.field[altered] = "other"
         => altered \in NotLookedAtAgain

\* The number of things of a section, and of those it is divided into.
NumberOf(c, d) ==
  CASE c = "diagnosticsHandoff"  -> Len(d.diagnostics)
    [] c = "runtimeReadiness"    -> Len(d.blockers)
    [] c = "deviceSessionStatus" -> Len(d.rows)
    [] c = "xsimDiagnostics"     -> Len(d.problems)

NumberWith(list, key, value) == Cardinality({i \in DOMAIN list : list[i][key] = value})

\* The files of an xsim section: each with the number of its problems, and one is
\* left out only when as many as the bundle takes are there.
FilesOfDocument ==
  LET files == section.lists["files"] IN
  /\ Len(files) <= MaxFiles
  /\ \A i \in DOMAIN files :
       files[i].problemCount = NumberWith(doc.problems, "file", files[i].file)
  /\ \A p \in Range(doc.problems) :
       p.file # "none" /\ Len(files) < MaxFiles => p.file \in Range(Column(files, "file"))

\* The counts in the bundle are those of the document three hops before, however
\* many of its elements the bundle leaves out, and by whichever way it came.
CountsAreTheDocuments ==
  section.filled =>
    /\ section.counts["count"] = NumberOf(contract, doc)
    /\ contract = "diagnosticsHandoff" =>
         \A s \in H!Severities : section.counts[s] = NumberWith(doc.diagnostics, "severity", s)
    /\ contract = "deviceSessionStatus" =>
         /\ \A s \in D!Severities : section.counts[s] = NumberWith(doc.taxonomy, "severity", s)
         /\ section.counts["flowSteps"] = Len(doc.steps)
    /\ contract = "xsimDiagnostics" =>
         /\ \A s \in X!Severities : section.counts[s] = NumberWith(doc.problems, "severity", s)
         /\ FilesOfDocument

\* A caller gave the surface another status than it was made with.
Relabelled == offer = "surface" /\ altered = "status"

\* The three readers of a section, written apart from each other, tell the same of
\* it, also of a surface that says it has no summary: an invalid section is nowhere
\* reported as merely missing, what the bundle's summary counts has an entry in the
\* audit, and the proposals show a handoff only as the two others do, and always when
\* they do.  The one exception is a surface of which a caller changed the status,
\* which the audit does not look at, nor the summary when it counts: the proposals
\* then leave out what those two still report.
ReportsAgree ==
  LET told     == BundleSummary(section)
      audited  == AuditEntries(contract, section) = 1
      proposed == ProposalContext(section) IN
  section # NoSection =>
    /\ audited /\ told.status # "available" => Relabelled
    /\ told.count > 0 /\ contract # "runtimeReadiness" => audited
    /\ contract = "diagnosticsHandoff" =>
         /\ proposed.status = "invalid" <=> told.status = "invalid"
         /\ proposed.status = "available" => audited /\ told.status = "available"
         /\ audited /\ proposed.status # "available" => Relabelled
         /\ proposed.count \in {0, told.count}
         /\ proposed.count # told.count => Relabelled

=============================================================================

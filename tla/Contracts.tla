------------------------------ MODULE Contracts ------------------------------
(***************************************************************************)
(* What the checked documents of the VS Code prototype have in common      *)
(* (diagnostics-handoff-consumer.mjs and its surface, and the modules for  *)
(* runtime readiness, device sessions and xsim logs, which have copies of  *)
(* the same helpers).  A document has leaf fields, named by their path,    *)
(* and lists.  What a validator can tell about the value of a field is a   *)
(* member of Values.  Validators add an error per field; a document with   *)
(* any error is refused by an exception, one without is summarized.        *)
(***************************************************************************)
EXTENDS Naturals, Sequences, FiniteSets, Functions

\* `good' is what the contract expects, or some one-line text where it expects
\* none in particular; `other' is another text, or the other Boolean; `blank'
\* is an empty text or no text at all (for a flag, no Boolean); `long' is over
\* the length limit; `unsafe' is a text the scan of the whole document finds.
Values == {"good", "other", "blank", "multiline", "long", "unsafe", "absent"}

\* A path through objects that are not there ends in undefined.
At(field, path) == IF path \in DOMAIN field THEN field[path] ELSE "absent"

\* ensureValue() and boolField(): the fields that are not what they must be.
Unexpected(field, paths) == {p \in paths : At(field, p) # "good"}

IsText(v) == v \in {"good", "other", "long", "unsafe"}
IsShortText(v) == v \in {"good", "other", "unsafe"}

\* stringField(): without a length limit, and with one.
NotText(field, paths)      == {p \in paths : ~IsText(At(field, p))}
NotShortText(field, paths) == {p \in paths : ~IsShortText(At(field, p))}

\* Object.hasOwn()
Missing(field, paths) == {p \in paths : At(field, p) = "absent"}

\* addError() under a condition.
ErrorIf(name, condition) == IF condition THEN {name} ELSE {}

\* stringField() of every element of a list of texts.
NotTexts(name, texts)      == ErrorIf(name, \E i \in DOMAIN texts : ~IsText(texts[i]))
NotShortTexts(name, texts) == ErrorIf(name, \E i \in DOMAIN texts : ~IsShortText(texts[i]))

\* The scan for secrets, private paths, model artifacts and claims.
Scanned(texts) == ErrorIf("text", "unsafe" \in texts)

\* Fields the code fills in itself, and fields it copies under another name.
AllGood(paths)     == [p \in paths |-> "good"]
Copied(field, from) == [p \in DOMAIN from |-> At(field, from[p])]

\* { ...g, ...f }
Merged(f, g) == [x \in DOMAIN f \cup DOMAIN g |-> IF x \in DOMAIN f THEN f[x] ELSE g[x]]

\* zeroCounts() and a += 1 for every element that has one of the keys.
CountBy(list, keys) == [k \in keys |-> Cardinality({i \in DOMAIN list : list[i] = k})]

\* Array.sort() on numbers: the one at place n.
Nth(S, n) == CHOOSE i \in S : Cardinality({j \in S : j <= i}) = n

\* Array.slice(0, limit)
FirstOf(list, limit) == SubSeq(list, 1, IF Len(list) < limit THEN Len(list) ELSE limit)

\* The status a surface has is taken over as it is; one without is available.
StatusOf(field) ==
  LET status == At(field, "status") IN
  CASE status \in {"good", "absent"} -> "available"
    [] status = "invalid" -> "invalid"
    [] OTHER -> "other"

\* What is kept of a surface in a section of the context bundle: its counts, and of
\* the lists in `limits' the first elements.  Such a section is filled.
SectionWith(surface, limits) ==
  [status |-> StatusOf(surface.field), filled |-> TRUE,
   summaryAvailable |-> At(surface.field, "summaryAvailable") = "good",
   counts |-> surface.counts,
   lists  |-> [l \in DOMAIN limits |-> FirstOf(surface.lists[l], limits[l])]]

\* Array.map()
Column(list, key) == [i \in DOMAIN list |-> list[i][key]]

=============================================================================

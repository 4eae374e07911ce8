--------------------------- MODULE OutputSummaries ---------------------------
(***************************************************************************)
(* What is told of the output of a validation command: the runner cuts it  *)
(* to lines (summarizeOutputText() in validation-result-summary.mjs), the  *)
(* cache joins and cuts them again (validation-result-cache.mjs), and the  *)
(* context bundle (context-bundle.mjs) or the display of the cache cut     *)
(* once more, each to limits of its own and with a flag of its own.  Of a  *)
(* text only the lengths of the pieces between its line ends are kept: a   *)
(* text that ends with a line end has an empty last piece.  Redaction is   *)
(* left out.  One of the two streams of a command is followed; they are    *)
(* summarized apart.                                                       *)
(***************************************************************************)
EXTENDS Contracts

CONSTANTS
  Texts,         \* outputs of a command
  Untold,          \* nothing told yet
  LineChars,     \* characters kept of a line
  RunnerLines,   \* settings of validationRunner.maxOutputLines
  RunnerChars,   \* characters of an output the runner looks at
  CacheLines, CacheChars,  \* limits of a cache entry
  BundleLines,   \* maxLogSummaryLines of the bundle
  DisplayLines   \* maxDisplayLines of formatValidationResultCacheEntry()

ASSUME TextsAssumption == \A t \in Texts : t \in Seq(Nat) /\ t # <<>>
ASSUME UntoldAssumption == Untold \notin [lines : Seq(Nat), lineCount : Nat, truncated : BOOLEAN]
ASSUME LimitsAssumption ==
  /\ RunnerLines \subseteq Nat \ {0}
  /\ {LineChars, RunnerChars, CacheLines, CacheChars, BundleLines, DisplayLines} \subseteq Nat

VARIABLES
  text,  \* the output
  told,  \* what is told of it
  hop    \* by whom

outputVars == <<text, told, hop>>

-----------------------------------------------------------------------------
(* Texts and lines *)

Smaller(a, b) == IF a < b THEN a ELSE b
Larger(a, b)  == IF a < b THEN b ELSE a

\* The characters before piece i, one for each line end.
Offset(pieces, i) == (i - 1) + SumFunctionOnSet(pieces, 1..(i - 1))
Size(pieces)      == Offset(pieces, Len(pieces) + 1) - 1

\* String.slice(0, limit), between two line ends or in the middle of a line.
Cut(pieces, limit) ==
  LET kept == {i \in DOMAIN pieces : Offset(pieces, i) <= limit} IN
  [i \in 1..Cardinality(kept) |-> Smaller(pieces[i], limit - Offset(pieces, i))]

\* An empty last piece is not a line.
Lines(pieces) ==
  IF pieces[Len(pieces)] = 0 THEN SubSeq(pieces, 1, Len(pieces) - 1) ELSE pieces

\* Array.join() with line ends.
Joined(lines) == IF lines = <<>> THEN <<0>> ELSE lines

\* Every line is cut, and no flag says so.
Shortened(lines) == [i \in DOMAIN lines |-> Smaller(lines[i], LineChars)]

-----------------------------------------------------------------------------
(* The hops *)

\* summarizeOutputText()
Summarized(pieces, maxLines, maxChars) ==
  LET seen  == Cut(pieces, maxChars)
      lines == FirstOf(Shortened(Lines(seen)), maxLines) IN
  [lines |-> lines, lineCount |-> Len(Lines(seen)),
   truncated |-> Size(pieces) > Size(seen) \/ Len(Lines(seen)) > Len(lines)]

\* Variant: the cache looks at its own cuts only.
CachedOwnCuts(summary) ==
  LET own == Summarized(Joined(summary.lines), CacheLines, CacheChars) IN
  [lines |-> own.lines, lineCount |-> Larger(summary.lineCount, own.lineCount),
   truncated |-> summary.truncated \/ own.truncated]

\* normalizeOutputSummary() of the cache: the lines are a text again, so that an
\* empty last line is lost.
Cached(summary) ==
  LET own == Summarized(Joined(summary.lines), CacheLines, CacheChars) IN
  [lines |-> own.lines, lineCount |-> Larger(summary.lineCount, own.lineCount),
   truncated |-> \/ summary.truncated \/ own.truncated
                 \/ Len(summary.lines) > Len(own.lines)
                 \/ summary.lineCount > Len(own.lines)]

\* normalizeOutputSummary() of the bundle.
Bundled(summary) ==
  LET lines == FirstOf(summary.lines, BundleLines) IN
  [summary EXCEPT !.lines = lines,
                  !.truncated = @ \/ Len(summary.lines) > Len(lines)]

\* The display keeps the flag of the entry, and says how many lines it shows.
Displayed(summary) == [summary EXCEPT !.lines = FirstOf(@, DisplayLines)]

OutputInit == text \in Texts /\ told = Untold /\ hop = "executed"

Summarize ==
  /\ hop = "executed"
  /\ hop' = "summarized"
  /\ \E max \in RunnerLines : told' = Summarized(text, max, RunnerChars)
  /\ UNCHANGED text

\* What is in the cache is told of the newest run; without one, its own summary.
Cache ==
  /\ hop = "summarized"
  /\ hop' = "cached"
  /\ told' = Cached(told)
  /\ UNCHANGED text

Bundle ==
  /\ hop \in {"summarized", "cached"}
  /\ hop' = "bundled"
  /\ told' = Bundled(told)
  /\ UNCHANGED text

Display ==
  /\ hop = "cached"
  /\ hop' = "displayed"
  /\ told' = Displayed(told)
  /\ UNCHANGED text

OutputNext == Summarize \/ Cache \/ Bundle \/ Display

OutputSpec == OutputInit /\ [][OutputNext]_outputVars

-----------------------------------------------------------------------------
(* Properties *)

OutputTypeOK ==
  /\ text \in Texts
  /\ hop \in {"executed", "summarized", "cached", "bundled", "displayed"}
  /\ (told = Untold) = (hop = "executed")
  /\ told # Untold => told \in [lines : Seq(0..LineChars), lineCount : Nat, truncated : BOOLEAN]

\* What is told says that it is all.
ToldAsWhole == ~told.truncated /\ (hop = "displayed" => Len(told.lines) = told.lineCount)

\* However often an output is cut, joined and cut again, and at whatever limits:
\* what does not say that something is missing has every line of the output, none
\* but the over-long ones cut; what is told is a beginning of the output; and
\* the number of lines told of lies between those shown and those there were.
NothingLostSilently ==
  told # Untold =>
    /\ ToldAsWhole => told.lines = Shortened(Lines(text))
    /\ \A i \in DOMAIN told.lines : i <= Len(Lines(text)) /\ told.lines[i] <= Lines(text)[i]
    /\ Len(told.lines) <= told.lineCount
    /\ told.lineCount <= Len(Lines(text))

=============================================================================

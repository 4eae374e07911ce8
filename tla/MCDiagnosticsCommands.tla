----------------------- MODULE MCDiagnosticsCommands -----------------------
(* Small instances of DiagnosticsCommands for TLC. *)
EXTENDS DiagnosticsCommands, TLC

\* Live commands allowed; the checked examples; a value the facade refuses.
Allowed == [k \in Keys |-> CASE k = "mode" -> "liveWorkspace"
                             [] k = "liveWorkspace.enabled" -> "true"
                             [] k = "defaultSource" -> "spaced"
                             [] OTHER -> "absent"]

MCSettings == {Allowed, [Allowed EXCEPT !["mode"] = "absent"],
               [Allowed EXCEPT !["defaultNavigationRoot"] = "option"]}

End(code, kind, found) == [code |-> code, out |-> [kind |-> kind, found |-> found]]

\* A report on one file, an empty one, an output that is no JSON, a failure
\* with a report on its output, and a report of the other kind.
MCToolEnds ==
  {End("zero", "diagnostics", {"f2"}), End("zero", "diagnostics", {}), End("zero", "garbage", {}),
   End("nonzero", "diagnostics", {"f2"}), End("zero", "navigation", {"f1"})}

CONSTANTS r1, r2, r3
=============================================================================

--------------------------- MODULE MCStatusSections ---------------------------
(* Model values for StatusSections: every document with one field that is not as
   it should be, and every document that has all fields right and one of some
   small lists. *)
EXTENDS StatusSections

Good(paths) == AllGood(paths)
Deviations(paths) ==
  {Good(paths)} \cup {[Good(paths) EXCEPT ![p] = v] : p \in paths, v \in Values}

Times(n, element) == [i \in 1 .. n |-> element]
UpTo(n, elements) == UNION {[1 .. k -> elements] : k \in 0 .. n}
TextLists == {<<>>, Times(1, "good"), Times(5, "good"), <<"good", "blank">>, <<"long">>,
              <<"unsafe">>, <<"multiline">>}

-----------------------------------------------------------------------------
(* Handoffs: 2 diagnostics, 5 transports, 5 limitations *)

Diagnostic == [severity : H!Severities \cup {"unknown"},
               category : {"evidence", "safety", "unknown"}, whole : BOOLEAN]
GoodDiagnostic == [severity |-> "blocked", category |-> "evidence", whole |-> TRUE]
GoodHandoff == [field |-> Good(H!Fields), diagnostics |-> <<GoodDiagnostic>>,
                transport |-> <<"good">>, limitations |-> <<"good">>]
Handoffs ==
  {[GoodHandoff EXCEPT !.field = f] : f \in Deviations(H!Fields)}
  \cup {[GoodHandoff EXCEPT !.diagnostics = d] : d \in UpTo(2, Diagnostic)}
  \cup {[GoodHandoff EXCEPT !.transport = t, !.limitations = l] :
          t \in {<<>>, Times(5, "good"), <<"good", "other">>, <<"blank">>}, l \in TextLists}

-----------------------------------------------------------------------------
(* Readiness fixtures: 9 blockers, 2 performance targets *)

GoodBlocker == [state |-> "blocked", text |-> "good"]
GoodReadiness == [field |-> Good(R!Fields), blockers |-> <<GoodBlocker>>, targets |-> 1]
Readinesses ==
  {[GoodReadiness EXCEPT !.field = f] : f \in Deviations(R!Fields)}
  \cup {[GoodReadiness EXCEPT !.blockers = b, !.targets = t] :
          b \in UpTo(2, R!Blocker) \cup {Times(n, GoodBlocker) : n \in {7, 8, 9}}, t \in 0 .. 2}

-----------------------------------------------------------------------------
(* Device sessions: 9 rows, 3 steps, 2 errors *)

Rows == <<"device_connection", "model_load", "session_activity", "pccx_lab_diagnostics",
          "runtime_readiness">>
GoodRow(id) == [id |-> id, known |-> TRUE, text |-> "good"]
GoodRows == [i \in DOMAIN Rows |-> GoodRow(Rows[i])]
GoodStep(n) == [order |-> n, known |-> TRUE, text |-> "good"]
GoodItem == [severity |-> "blocked", known |-> TRUE, text |-> "good"]
GoodSession == [field |-> Good(D!Fields), rows |-> GoodRows, discovery |-> <<"good">>,
                steps |-> <<GoodStep(1)>>, taxonomy |-> <<GoodItem>>,
                limitations |-> <<"good">>, issueRefs |-> <<"good">>]

RowLists ==
  {GoodRows \o Times(n, GoodRow("other_row")) : n \in {0, 1, 3, 4}}
  \cup {[GoodRows EXCEPT ![i] = r] : i \in DOMAIN Rows,
          r \in [id : {"other_row", "model_load"}, known : BOOLEAN, text : Values]}
  \cup {[GoodRows EXCEPT ![i].text = v] : i \in DOMAIN Rows, v \in Values}
  \cup {<<>>, SubSeq(GoodRows, 1, 4)}
StepLists ==
  UpTo(3, {GoodStep(n) : n \in 0 .. 4})
  \cup {<<[GoodStep(1) EXCEPT !.text = v]>> : v \in Values}
  \cup {<<[GoodStep(1) EXCEPT !.known = FALSE]>>}
ItemLists ==
  UpTo(2, {[GoodItem EXCEPT !.severity = s] : s \in D!Severities \cup {"unknown"}})
  \cup {<<GoodItem, [GoodItem EXCEPT !.text = v]>> : v \in Values}
  \cup {<<[GoodItem EXCEPT !.known = FALSE]>>}
Sessions ==
  {[GoodSession EXCEPT !.field = f] : f \in Deviations(D!Fields)}
  \cup {[GoodSession EXCEPT !.rows = r] : r \in RowLists}
  \cup {[GoodSession EXCEPT !.steps = s] : s \in StepLists}
  \cup {[GoodSession EXCEPT !.taxonomy = t] : t \in ItemLists}
  \cup {[GoodSession EXCEPT !.discovery = d] : d \in UpTo(2, {"good", "other", "unsafe"})}
  \cup {[GoodSession EXCEPT !.limitations = l, !.issueRefs = i] : l \in TextLists, i \in TextLists}

-----------------------------------------------------------------------------
(* Xsim logs: 2 problems of any kind, 3 good ones in any files *)

MCFileOrder == <<"a.sv", "b.sv", "c.sv">>

Problem == [severity : {"error", "hint", "unknown"}, file : {"a.sv", "b.sv", "none", "outside"},
            code : {"good", "blank", "absent", "unsafe"}, whole : BOOLEAN]
GoodProblem == [severity : {"error"}, file : X!InFiles \cup {"none"}, code : {"good"},
                whole : {TRUE}]
GoodLog == [field |-> Good(X!Fields), problems |-> <<>>]
Logs ==
  {[GoodLog EXCEPT !.field = f] : f \in Deviations(X!Fields)}
  \cup {[GoodLog EXCEPT !.problems = p] : p \in UpTo(2, Problem) \cup UpTo(4, GoodProblem)}

-----------------------------------------------------------------------------

MCDocuments(c) ==
  CASE c = "diagnosticsHandoff"  -> Handoffs
    [] c = "runtimeReadiness"    -> Readinesses
    [] c = "deviceSessionStatus" -> Sessions
    [] c = "xsimDiagnostics"     -> Logs

MCAlterable(c) ==
  CASE c = "diagnosticsHandoff"  -> {GoodHandoff}
    [] c = "runtimeReadiness"    -> {GoodReadiness}
    [] c = "deviceSessionStatus" -> {GoodSession}
    [] c = "xsimDiagnostics"     -> {GoodLog}

=============================================================================

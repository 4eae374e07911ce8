---------------------------- MODULE ToolReports ----------------------------
(***************************************************************************)
(* What a user of the diagnostics commands relies on: a board with at most *)
(* one report per file, and commands that each put up the report of their  *)
(* own tool or fail and change nothing.  An empty report wipes the board,  *)
(* another one replaces what the board says of the files it names.         *)
(***************************************************************************)
CONSTANTS Runs, Files

VARIABLES
  stage,   \* of each command: "idle", "asked", "done"
  report,  \* what its tool has reported: nothing yet, or a set of files
  board    \* the command whose report the board shows for a file, or "none"

vars == <<stage, report, board>>

Nothing == [reported |-> FALSE, found |-> {}]

Init ==
  /\ stage = [r \in Runs |-> "idle"]
  /\ report = [r \in Runs |-> Nothing]
  /\ board = [f \in Files |-> "none"]

Told(r, found) == report' = [report EXCEPT ![r] = [reported |-> TRUE, found |-> found]]

\* A checked example is a report that is known from the start.
Ask(r) ==
  /\ stage[r] = "idle"
  /\ stage' = [stage EXCEPT ![r] = "asked"]
  /\ UNCHANGED report \/ \E found \in SUBSET Files : Told(r, found)
  /\ UNCHANGED board

\* A tool reports once, and only for a command that was asked.
Report(r) ==
  /\ stage[r] = "asked"
  /\ ~report[r].reported
  /\ \E found \in SUBSET Files : Told(r, found)
  /\ UNCHANGED <<stage, board>>

Publish(r) ==
  /\ stage[r] = "asked"
  /\ report[r].reported
  /\ stage' = [stage EXCEPT ![r] = "done"]
  /\ board' = [f \in Files |-> IF report[r].found = {} THEN "none"
                               ELSE IF f \in report[r].found THEN r ELSE board[f]]
  /\ UNCHANGED report

\* A command comes to its end and leaves the board alone.
Fail(r) ==
  /\ stage[r] # "done"
  /\ stage' = [stage EXCEPT ![r] = "done"]
  /\ UNCHANGED <<report, board>>

Next == \E r \in Runs : Ask(r) \/ Report(r) \/ Publish(r) \/ Fail(r)

Spec == Init /\ [][Next]_vars

=============================================================================

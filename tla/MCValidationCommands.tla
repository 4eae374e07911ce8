------------------------ MODULE MCValidationCommands ------------------------
(* Small instances of ValidationCommands for TLC. *)
EXTENDS ValidationCommands, TLC

CONSTANTS r1, r2, r3
=============================================================================

----------------------------- MODULE MCThrowsRuns -----------------------------
(***************************************************************************)
(* The programs of MCThrowsEvaluation, run several times each.             *)
(***************************************************************************)
EXTENDS ThrowsRuns, MCThrowsEvaluation
=============================================================================

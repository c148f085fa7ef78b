------------------------------ MODULE ThrowsRuns ------------------------------
(***************************************************************************)
(* Runs of extract_throws.py one after another over one checkout.  A run   *)
(* is a process of its own: of an earlier one nothing is left but what it  *)
(* reported, and the addresses of the definitions are others, so the       *)
(* orders CallGraphSolver leaves open are chosen anew.                     *)
(***************************************************************************)
EXTENDS ThrowsEvaluation

CONSTANT MaxRuns   \* bound on the runs compared

ASSUME RunsAssumption == MaxRuns \in Nat \ {0}

VARIABLE reports   \* what the runs before this one reported of the entry

RunsInit == Init /\ reports = <<>>

\* One more process over the same checkout, which starts with empty tables.
RunAgain ==
  /\ phase = "done" /\ Len(reports) + 1 < MaxRuns
  /\ reports' = Append(reports, result)
  /\ phase' = "solve" /\ summaries' = [d \in Definition |-> Empty]
  /\ left' = Reached /\ component' = <<>> /\ todo' = <<>> /\ changed' = FALSE
  /\ result' = "none"
  /\ UNCHANGED program

RunsNext == (Next /\ UNCHANGED reports) \/ RunAgain

RunsSpec == RunsInit /\ [][RunsNext]_<<vars, reports>>

-----------------------------------------------------------------------------
(* What two runs have in common.                                           *)

\* Every run reports the same of an entry, whatever the addresses of the
\* definitions: "Two runs over one checkout yield equal results"
\* (spec-throws.md, Invariants).
EqualResults == phase = "done" => \A k \in DOMAIN reports : reports[k] = result

=============================================================================

----------------------------- MODULE MCCopilotRun -----------------------------
(* Small instances of the copilot's runs for TLC. *)
EXTENDS CopilotRunProps

CONSTANTS run1, run2

MCOneRun == {run1}
MCTwoRuns == {run1, run2}
===============================================================================

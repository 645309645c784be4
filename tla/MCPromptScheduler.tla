--------------------------- MODULE MCPromptScheduler ---------------------------
(* Small instances of the prompt scheduler for TLC. *)
EXTENDS PromptSchedulerProps, TLC

CONSTANTS bot, watchers, cli

MCJobId == 1..2
MCCaller == (1 :> watchers) @@ (2 :> bot)
MCOneJob == {1}
MCOneCaller == (1 :> bot)
===============================================================================

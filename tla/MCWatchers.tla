------------------------------ MODULE MCWatchers ------------------------------
(* Small instances of the watchers for TLC. *)
EXTENDS WatchersProps

CONSTANTS notes, triage, wake1, wake2

MCWatcher == {notes, triage}
MCOneWatcher == {notes}
MCWake == {wake1, wake2}
===============================================================================

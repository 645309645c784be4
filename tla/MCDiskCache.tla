------------------------------ MODULE MCDiskCache ------------------------------
(* A small instance of the disk cache for TLC. *)
EXTENDS DiskCacheProps, TLC

CONSTANTS bot, consumer, call1, call2, call3

MCProcess == {bot, consumer}
MCCall == {call1, call2, call3}
Symmetry == Permutations(MCCall) \cup Permutations(MCProcess)
===============================================================================

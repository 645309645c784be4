----------------------------- MODULE MCSlackRag -----------------------------
(* Small instances of the channel index for TLC. *)
EXTENDS SlackRagProps

CONSTANTS eng, req1

MCChannel == {eng}
MCNone == {}
MCRequest == {req1}
MCNoise == {2}
===============================================================================

-------------------------- MODULE MCToolConfirmation --------------------------
(* A small instance of the confirmation flow for TLC. *)
EXTENDS ToolConfirmationProps, TLC

CONSTANTS ada, bob, thread1, words1, words2, card1, card2, job1, job2, job3

MCUser == {ada, bob}
MCThread == {thread1}
MCBody == {words1, words2}
MCCard == {card1, card2}
MCJob == {job1, job2, job3}

\* Nothing tells two members, texts, cards or listener invocations apart, and the
\* run checks no liveness.
Symmetric == Permutations(MCUser) \cup Permutations(MCBody)
               \cup Permutations(MCCard) \cup Permutations(MCJob)
===============================================================================

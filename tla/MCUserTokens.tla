----------------------------- MODULE MCUserTokens -----------------------------
(* A small instance of the user tokens for TLC. *)
EXTENDS UserTokensProps, TLC

CONSTANTS dana, eli, visit1, visit2, read1, read2

MCMember == {dana, eli}
MCAttempt == {visit1, visit2}
MCReader == {read1, read2}
Symmetry == Permutations(MCAttempt) \cup Permutations(MCReader)
===============================================================================

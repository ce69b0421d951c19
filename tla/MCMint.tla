------------------------------- MODULE MCMint -------------------------------
(***************************************************************************)
(* MintSystem on small instances for TLC.                                  *)
(***************************************************************************)
EXTENDS MintSystem

CONSTANTS s1, s2

\* Both are found under the first challenge; the contract goes on to the second.
SolvedBy == [s \in Solutions |-> 1]

=============================================================================

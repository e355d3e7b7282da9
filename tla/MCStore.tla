------------------------------- MODULE MCStore -------------------------------
(***************************************************************************)
(* An instance of ServiceTokenStore for TLC.                               *)
(***************************************************************************)
EXTENDS ServiceTokenStore, TLC

CONSTANTS p, q, a, b

TwoProcesses == {p, q}
TwoChains    == {a, b}

\* Processes differ in nothing but their name, and so do chains.
SameName == Permutations(TwoProcesses) \cup Permutations(TwoChains)

=============================================================================

------------------------------- MODULE MCCache -------------------------------
(***************************************************************************)
(* An instance of TTLCache for TLC.                                        *)
(***************************************************************************)
EXTENDS TTLCache, TLC

CONSTANTS k1, k2, k3

ThreeKeys == {k1, k2, k3}

\* Beside the default of 2: times that are over at once, a short and a long one.
SomeTTLs == {-1, 0, 1, 3}

\* Nothing but times that one might pass on purpose.
LiveTTLs == {1, 3}

\* Keys differ in nothing but their name.
SameKey == Permutations(ThreeKeys)

=============================================================================

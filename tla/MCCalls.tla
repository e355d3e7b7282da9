------------------------------- MODULE MCCalls -------------------------------
(***************************************************************************)
(* An instance of PlatformCalls for TLC.                                   *)
(***************************************************************************)
EXTENDS PlatformCalls

CONSTANTS x, y

TwoCalls == {x, y}

\* Methods with the same shape and the same way to the platform behave alike:
\* one of each kind stands for all.
KindOf(m) == <<Shape[m], Checked(m)>>
OneOfEach == {CHOOSE m \in DOMAIN Shape : KindOf(m) = k : k \in {KindOf(m) : m \in DOMAIN Shape}}

\* Calls differ in nothing but their name.
SameCall == Permutations(TwoCalls)

=============================================================================

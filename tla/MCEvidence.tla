------------------------------ MODULE MCEvidence ------------------------------
(***************************************************************************)
(* An instance of TestEvidence for TLC: a unit case, an integration case,  *)
(* and a third case that is new, or in the wrong place.                    *)
(***************************************************************************)
EXTENDS TestEvidence

CONSTANTS u, i, x

ThreeCases == {u, i, x}

With(placement) == [c \in ThreeCases |->
  CASE c = u -> "unit" [] c = i -> "integration" [] c = x -> placement]

FewTrees == {With("absent"), With("integration"), With("unmarked"), With("misfiled")}

=============================================================================

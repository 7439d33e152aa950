-------------------------- MODULE MCPddiktiDetail --------------------------
(* Small instances of PddiktiDetail for TLC. *)
EXTENDS PddiktiDetail

CONSTANTS a, b, c, w1, w2, none

MCIds     == {a, b, c}
MCWorkers == {w1, w2}
TwoIds    == <<a, b>>
ThreeIds  == <<a, b, c>>

SymmetricWorkers == Permutations(MCWorkers)
=============================================================================

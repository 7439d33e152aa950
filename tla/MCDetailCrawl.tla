--------------------------- MODULE MCDetailCrawl ---------------------------
(* Small instances of DetailCrawl for TLC. *)
EXTENDS DetailCrawl

CONSTANTS a, b, c, w1, w2, none, nl

MCIds     == {a, b, c}
MCWorkers == {w1, w2}

TwoIds    == <<a, b>>
ThreeIds  == <<a, b, c>>

SymmetricWorkers == Permutations(MCWorkers)
=============================================================================

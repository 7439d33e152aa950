--------------------------- MODULE MCRateLimiter ---------------------------
(* A small instance of RateLimiter for TLC. *)
EXTENDS RateLimiter

CONSTANTS c1, c2, c3

ThreeCallers == {c1, c2, c3}
=============================================================================

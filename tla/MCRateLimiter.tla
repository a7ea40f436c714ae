--------------------------- MODULE MCRateLimiter ---------------------------
(* A small instance of RateLimiter for TLC. *)
EXTENDS RateLimiter, TLC

CONSTANTS a, b, c

\* The addresses are interchangeable.
Addresses == Permutations({a, b, c})
=============================================================================

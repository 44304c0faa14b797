--------------------------- MODULE RateLimiterMC ----------------------------
(***************************************************************************)
(* A small instance of RateLimiter for TLC, up to a permutation of the     *)
(* requests and of the addresses, which nothing in the module orders.      *)
(***************************************************************************)
EXTENDS RateLimiter, TLC

Symmetry == Permutations(Req) \cup Permutations(Ip)
=============================================================================

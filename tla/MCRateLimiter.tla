---------------------------- MODULE MCRateLimiter ----------------------------
(* RateLimiter on a few addresses and a short window.                       *)
EXTENDS RateLimiter, TLC

\* Addresses are interchangeable.
Symmetric == Permutations(Address)
==============================================================================

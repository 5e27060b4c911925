---------------------------- MODULE MCMiddleware ----------------------------
(* Middleware with two connections and a limit that is soon reached.        *)
EXTENDS Middleware, TLC

\* Connections are interchangeable, and so are addresses.
Symmetric == Permutations(Client) \cup Permutations(Address)
==============================================================================

----------------------------- MODULE MCLoadTest -----------------------------
(* LoadTest with one user of each class.                                    *)
EXTENDS LoadTest, TLC

CONSTANTS browser, writer, verifier

Classes ==
  (browser :> "browse") @@ (writer :> "write") @@ (verifier :> "verify")

\* Tasks are interchangeable.
Symmetric == Permutations(Task)
=============================================================================

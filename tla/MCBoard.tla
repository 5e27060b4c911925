------------------------------- MODULE MCBoard -------------------------------
(* Board with two users who have a project each, and one task.              *)
EXTENDS Board, TLC

CONSTANTS u1, u2, p1, p2, t1

OneOwner == [p \in Project |-> u1]
TwoOwners == (p1 :> u1) @@ (p2 :> u2)
OneHome == [t \in Task |-> p1]

\* Tabs and slots are interchangeable.
Symmetric == Permutations(Tab) \cup Permutations(Slot)
==============================================================================

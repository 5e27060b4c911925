------------------------------ MODULE MCTaskApi ------------------------------
(* TaskApi on small sets of clients, accounts and rows.                     *)
EXTENDS TaskApi, TLC

\* Clients, accounts and row ids are interchangeable.
Symmetric ==
  Permutations(Client) \cup Permutations(User) \cup Permutations(Project)
    \cup Permutations(Task) \cup Permutations(Comment)
==============================================================================

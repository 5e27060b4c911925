------------------------------ MODULE MCAuthApi ------------------------------
(* AuthApi on small sets of clients, accounts and tokens.                   *)
EXTENDS AuthApi, TLC

\* Clients, ids, addresses, tokens and processes are interchangeable.
Symmetric ==
  Permutations(Client) \cup Permutations(User) \cup Permutations(Email)
    \cup Permutations(Token) \cup Permutations(Process)
==============================================================================

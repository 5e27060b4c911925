-------------------------- MODULE MCConnectionPool --------------------------
(* ConnectionPool with a request of two transactions among others of one.   *)
EXTENDS ConnectionPool

CONSTANT c1

OneCreates == [c \in Client |-> IF c = c1 THEN 2 ELSE 1]
==============================================================================

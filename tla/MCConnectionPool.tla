-------------------------- MODULE MCConnectionPool --------------------------
(* Instances of ConnectionPool for model checking: the cfg gives the       *)
(* threads as model values and the number of connections.                  *)
EXTENDS ConnectionPool
=============================================================================

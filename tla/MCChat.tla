------------------------------- MODULE MCChat -------------------------------
(***************************************************************************)
(* The instance of Chat that is model-checked: two sockets of one user on two *)
(* processes, and another user with whom he shares threads.                  *)
(***************************************************************************)
EXTENDS Chat

CONSTANTS u1, u2, a, b

Owners == [s \in {a, b} |-> u1]
=============================================================================

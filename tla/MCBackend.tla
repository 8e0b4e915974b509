----------------------------- MODULE MCBackend -----------------------------
(***************************************************************************)
(* Instances of Backend for TLC: connections with addresses of their own.  *)
(***************************************************************************)
EXTENDS Backend, TLC

CONSTANTS c1, c2

TwoConns == {c1, c2}
OwnAddresses == [c \in Conns |-> c]
Symmetry == Permutations(Conns)
=============================================================================

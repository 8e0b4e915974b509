------------------------------ MODULE MCTarpit ------------------------------
(***************************************************************************)
(* Instances of Tarpit for TLC: a few connections, and who has which       *)
(* address.                                                                *)
(***************************************************************************)
EXTENDS Tarpit, TLC

CONSTANTS c1, c2, c3, a1

TwoConns == {c1, c2}
ThreeConns == {c1, c2, c3}

\* Every connection has an address of its own, here named like the connection.
OwnAddresses == [c \in Conns |-> c]

\* Connections with addresses of their own can be swapped.
Symmetry == Permutations(Conns)

\* Every connection comes from one and the same address, one after the other.
OneAddress == {a1}
SameAddress == [c \in Conns |-> a1]
=============================================================================

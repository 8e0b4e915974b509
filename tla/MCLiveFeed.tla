----------------------------- MODULE MCLiveFeed -----------------------------
(***************************************************************************)
(* Instances of LiveFeed for TLC: a few connections, one web socket at a   *)
(* time.                                                                   *)
(***************************************************************************)
EXTENDS LiveFeed, TLC

CONSTANTS c1, c2, c3, s1

TwoConns == {c1, c2}
ThreeConns == {c1, c2, c3}
OneSocket == {s1}
Symmetry == Permutations(Conns)
=============================================================================

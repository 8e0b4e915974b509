----------------------------- MODULE MCDashboard -----------------------------
(***************************************************************************)
(* Instances of Dashboard and of its parts for TLC.                        *)
(***************************************************************************)
EXTENDS Dashboard, TLC

CONSTANTS w1, w2, f1, f2, r1, r2

TwoSockets == {w1, w2}
TwoControllers == {f1, f2}
TwoRanges == {r1, r2}
Symmetry == Permutations(Sockets) \cup Permutations(Controllers)
=============================================================================

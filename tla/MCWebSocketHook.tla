-------------------------- MODULE MCWebSocketHook --------------------------
(***************************************************************************)
(* Instances of WebSocketHook for TLC: a socket and one that replaces it.  *)
(***************************************************************************)
EXTENDS WebSocketHook

CONSTANTS w1, w2

TwoSockets == {w1, w2}
=============================================================================

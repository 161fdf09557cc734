--------------------------- MODULE MCConnRegistry ---------------------------
(* Instances of ConnRegistry for TLC. *)
EXTENDS ConnRegistry

CONSTANTS h1, h2, c1, pusher

OneHandler == {h1}
TwoHandlers == {h1, h2}
OneController == {c1}
NoController == {}

TunnelOnly == {"tunnel"}
=============================================================================

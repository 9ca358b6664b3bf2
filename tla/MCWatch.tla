------------------------------ MODULE MCWatch ------------------------------
(* A project with its config directory and one more watch root.            *)
EXTENDS WatchLoop, TLC

CONSTANTS cfg, a
=============================================================================

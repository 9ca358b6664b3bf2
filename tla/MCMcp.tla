------------------------------- MODULE MCMcp -------------------------------
(* Two tool calls of one server, which works alone and may be reloaded, or  *)
(* beside another server on the same project.                              *)
EXTENDS McpModelState

CONSTANTS s1, s2, c1, c2
TwoServers == {s1, s2}
TwoCallers == {c1, c2}
AllHome == [c \in TwoCallers |-> s1]
AloneOrNot == {{s1}, {s1, s2}}
AloneReloads == [T \in AloneOrNot |-> IF T = {s1} THEN 1 ELSE 0]
=============================================================================

---------------------------- MODULE MCMcpServer ----------------------------
(* One server: a slot, one place in line and a call that is refused, a     *)
(* stop and a restart.                                                     *)
EXTENDS McpServer

CONSTANTS c1, c2, c3, x1, x2

MCCalls == {c1, c2, c3}
MCNoCalls == {}
MCStops == {x1, x2}
MCRestarts == {x2}
============================================================================

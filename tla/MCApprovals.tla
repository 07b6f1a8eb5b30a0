---------------------------- MODULE MCApprovals ----------------------------
(* One thread with two requests open at once: they share its pipe, its      *)
(* chunks, its stops and its exits.                                         *)
EXTENDS Approvals

CONSTANTS h1, r1, r2

MCThreads == {h1}
MCRequests == {r1, r2}
MCHome == [r \in Requests |-> h1]
============================================================================

---------------------------- MODULE MCTeamTurns ----------------------------
(* One shared thread: lanes, sessions and rows of different threads share  *)
(* nothing.  Two turns: one unwinds while its successor already runs.      *)
EXTENDS TeamTurns

CONSTANTS h1, t1, t2

MCThreads == {h1}
MCTwoTurns == {t1, t2}
MCHome == [t \in Turns |-> h1]
============================================================================

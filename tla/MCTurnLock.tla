---------------------------- MODULE MCTurnLock ----------------------------
(* One thread with three turns: a holder, one to withdraw from the middle   *)
(* and one behind it.  Lanes of different threads share nothing but the     *)
(* memory of settled turns, which three turns overflow; that two lanes do   *)
(* not disturb each other is proved, for any threads (TurnLock_proofs).     *)
EXTENDS TurnLock

CONSTANTS h1, t1, t2, t3

MCThreads == {h1}
MCTurns == {t1, t2, t3}
MCHome == [t \in MCTurns |-> h1]
===========================================================================

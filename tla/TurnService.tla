---------------------------- MODULE TurnService ----------------------------
(***************************************************************************)
(* What the turn lock promises a team (AgentTurnLock.ts:10-21), with no    *)
(* waiters, promises, lane states or memory of settled turns: every thread *)
(* is one line of turns in order of arrival, and only the turn at its      *)
(* front is ever served.                                                   *)
(***************************************************************************)
EXTENDS Naturals, Sequences

CONSTANTS Threads, Turns

VARIABLES
    line,     \* the turns present on a thread, in order of arrival
    serving   \* whether the turn at the front of the line holds the lock

vars == <<line, serving>>

Init ==
    /\ line = [th \in Threads |-> <<>>]
    /\ serving = [th \in Threads |-> FALSE]

\* The front may be served as part of any change to the line, never more than
\* one turn at a time, and service once begun is not taken back.
MayServe(th, was) ==
    \E now \in BOOLEAN :
        /\ was => now
        /\ now => line'[th] # <<>>
        /\ serving' = [serving EXCEPT ![th] = now]

Arrive(th, t) ==
    /\ \A i \in DOMAIN line[th] : line[th][i] # t
    /\ line' = [line EXCEPT ![th] = Append(@, t)]
    /\ MayServe(th, serving[th])

\* A turn that waits leaves its place; those behind it close up.
Withdraw(th, i) ==
    /\ serving[th] => i > 1
    /\ line' = [line EXCEPT ![th] =
          [j \in 1..(Len(@) - 1) |-> IF j < i THEN @[j] ELSE @[j + 1]]]
    /\ MayServe(th, serving[th])

Finish(th) ==
    /\ serving[th]
    /\ line' = [line EXCEPT ![th] = Tail(@)]
    /\ MayServe(th, FALSE)

Serve(th) ==
    /\ line' = line
    /\ MayServe(th, serving[th])

Close(th) ==
    /\ line' = [line EXCEPT ![th] = <<>>]
    /\ serving' = [serving EXCEPT ![th] = FALSE]

Next ==
    \E th \in Threads :
        \/ \E t \in Turns : Arrive(th, t)
        \/ \E i \in DOMAIN line[th] : Withdraw(th, i)
        \/ Finish(th)
        \/ Serve(th)
        \/ Close(th)

Spec == Init /\ [][Next]_vars

=============================================================================

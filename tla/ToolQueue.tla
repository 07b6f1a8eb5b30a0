----------------------------- MODULE ToolQueue -----------------------------
(***************************************************************************)
(* SerialQueue of McpProcessSupervisor.ts: one tools/call at a time for    *)
(* one MCP server, a bounded line behind it, and a limit on the wait.      *)
(*                                                                         *)
(* The slot is handed over in two steps: `finally` clears `active` and     *)
(* settles the promise of the call in front, and that call sets `active`   *)
(* again when its promise continues.  In between the slot looks free; what *)
(* keeps it is that promises continue before the next event (HandingOver). *)
(*                                                                         *)
(* A name with an underscore is a bug for the mutants.                     *)
(***************************************************************************)
EXTENDS Naturals, Sequences

CONSTANTS
    Calls,      \* tool calls, each made at most once
    MaxDepth    \* MAX_QUEUE_DEPTH

ASSUME QueueAssumption == MaxDepth \in Nat

VARIABLES
    active,     \* SerialQueue.active
    waiting,    \* SerialQueue.waiting
    call        \* how far each call has come

queueVars == <<active, waiting, call>>

CallStates ==
    {"unmade", "waiting", "woken", "running", "settled", "refused", "abandoned"}

QueueTypeOK ==
    /\ active \in BOOLEAN
    /\ waiting \in Seq(Calls)
    /\ call \in [Calls -> CallStates]

QueueInit ==
    /\ active = FALSE
    /\ waiting = <<>>
    /\ call = [c \in Calls |-> "unmade"]

InState(s) == {c \in Calls : call[c] = s}
HandingOver == InState("woken") # {}

\* Array.splice(i, 1)
Without(s, i) == [j \in 1..(Len(s) - 1) |-> IF j < i THEN s[j] ELSE s[j + 1]]

----------------------------------------------------------------------------
\* SerialQueue.run, up to its first await: the job starts, the call joins the
\* line, or it is refused.
Enter(c) ==
    /\ ~HandingOver
    /\ call[c] = "unmade"
    /\ \/ /\ ~active
          /\ active' = TRUE
          /\ call' = [call EXCEPT ![c] = "running"]
          /\ UNCHANGED waiting
       \/ /\ active /\ Len(waiting) < MaxDepth
          /\ waiting' = Append(waiting, c)
          /\ call' = [call EXCEPT ![c] = "waiting"]
          /\ UNCHANGED active
       \/ /\ active /\ Len(waiting) >= MaxDepth
          /\ call' = [call EXCEPT ![c] = "refused"]
          /\ UNCHANGED <<active, waiting>>

Resume_forgetsActive(c) ==
    /\ call[c] = "woken"
    /\ call' = [call EXCEPT ![c] = "running"]
    /\ UNCHANGED <<active, waiting>>

\* The awaited turn has come.
Resume(c) ==
    /\ call[c] = "woken"
    /\ active' = TRUE
    /\ call' = [call EXCEPT ![c] = "running"]
    /\ UNCHANGED waiting

Leave_wakesNobody(c) ==
    /\ call[c] = "running"
    /\ call' = [call EXCEPT ![c] = "settled"]
    /\ active' = FALSE
    /\ UNCHANGED waiting

\* The job has ended, however it ended; `finally` wakes the call in front.
Leave(c) ==
    /\ call[c] = "running"
    /\ active' = FALSE
    /\ \/ /\ waiting = <<>>
          /\ call' = [call EXCEPT ![c] = "settled"]
          /\ UNCHANGED waiting
       \/ /\ waiting # <<>>
          /\ call' = [call EXCEPT ![c] = "settled", ![Head(waiting)] = "woken"]
          /\ waiting' = Tail(waiting)

\* QUEUE_WAIT_TIMEOUT_MS have passed: the call gives its place up.
WaitTimeout(c) ==
    /\ ~HandingOver
    /\ \E i \in DOMAIN waiting : waiting[i] = c /\ waiting' = Without(waiting, i)
    /\ call' = [call EXCEPT ![c] = "abandoned"]
    /\ UNCHANGED active

----------------------------------------------------------------------------
(* Properties.                                                             *)

\* "Runs one job at a time for one server": two tools/call writes at once would
\* be two interleaved byte streams (McpProcessSupervisor.ts:76-82).
OneCallAtATime ==
    \A c, d \in InState("running") : c = d

\* A slot that is free is not waited for: whoever stands in line has a call in
\* front that will wake it, also after timeouts and failures.
NoLostWaiter ==
    waiting # <<>> => InState("running") \cup InState("woken") # {}
============================================================================

----------------------------- MODULE McpServer -----------------------------
(***************************************************************************)
(* One MCP server under McpProcessSupervisor: its child processes, the     *)
(* JSON-RPC sessions opened over their pipes, the startServer, stopServer  *)
(* and restartServer calls that wait on them, and the tool calls behind    *)
(* ToolQueue.                                                              *)
(*                                                                         *)
(* A step is one event (a request, a timer, a child's answer or exit) with *)
(* the promise continuations it lets run, in their order; the queue's      *)
(* hand-overs are steps of their own, taken before the next event (Quiet). *)
(* Node emits `spawn` or `error` before the next event as well, so a start *)
(* goes from STARTING to INITIALIZING or ERROR in one step.                *)
(*                                                                         *)
(* terminate() waits for an exit unless the child has an exitCode, and a   *)
(* child ended by a signal never has one.                                  *)
(*                                                                         *)
(* A name with an underscore is a bug for the mutants.                     *)
(***************************************************************************)
EXTENDS ToolQueue

CONSTANTS
    Stops,         \* stopServer calls, each made at most once
    Restarts,      \* those made by restartServer
    MaxStarts,     \* bound on spawned children
    MaxSessions    \* bound on handshakes

ASSUME ServerAssumption ==
    Restarts \subseteq Stops /\ MaxStarts \in Nat /\ MaxSessions \in Nat

VARIABLES
    rt,      \* RuntimeState, with the handshakes and starts that will change it
    proc,    \* the operating system's view of each child
    stop,    \* the child each stopServer call waits for
    using    \* the session each tool call took when it was made

vars == <<rt, proc, stop, using, queueVars>>

None == 0
Children == 1..MaxStarts
Sessions == 1..MaxSessions

Statuses == {"STOPPED", "STARTING", "INITIALIZING", "RUNNING", "ERROR", "CRASHED"}
Exits == {"finished", "failed", "killed"}    \* code 0, another code, a signal

RuntimeStates ==
    [status : Statuses, stopping : BOOLEAN,
     child : Children \cup {None}, client : Sessions \cup {None},
     start : [Children -> {"none", "handshake", "terminate", "returned"}],
     session : [Sessions -> [of : Children \cup {None}, opening : BOOLEAN,
                             stage : {"unused", "discovering", "open", "disposed"}]]]

TypeOK ==
    /\ QueueTypeOK
    /\ rt \in RuntimeStates
    /\ proc \in [Children -> {"unborn", "up", "absent"} \cup Exits]
    /\ stop \in [Stops -> [stage : {"unmade", "waiting", "returned"}, on : Children \cup {None}]]
    /\ using \in [Calls -> Sessions \cup {None}]

Init ==
    /\ QueueInit
    /\ rt = [status |-> "STOPPED", stopping |-> FALSE, child |-> None, client |-> None,
             start |-> [k \in Children |-> "none"],
             session |-> [s \in Sessions |-> [of |-> None, opening |-> FALSE, stage |-> "unused"]]]
    /\ proc = [k \in Children |-> "unborn"]
    /\ stop = [x \in Stops |-> [stage |-> "unmade", on |-> None]]
    /\ using = [c \in Calls |-> None]

----------------------------------------------------------------------------
IsRunning(r) == r.status \in {"STARTING", "INITIALIZING", "RUNNING"}

InStage(r, stage) == {s \in Sessions : r.session[s].stage = stage}
IsDisposed(c) == using[c] # None /\ rt.session[using[c]].stage = "disposed"

Quiet == ~HandingOver /\ \A c \in InState("running") : ~IsDisposed(c)

Dispose(r, S) ==
    [r EXCEPT !.session = [s \in Sessions |->
        IF s \in S THEN [r.session[s] EXCEPT !.stage = "disposed"] ELSE r.session[s]]]

(* The operators below take the runtime state before a piece of code to    *)
(* the one after it; p is the state of the children at that time.          *)

\* The catch of handshake, for sessions whose discovery was rejected, and the
\* catch of startServer if one of them was a start: unless the child already
\* explained itself the start ends in ERROR and its child is terminated.
Rejected(r, S, p) ==
    LET dropped == IF S = {} THEN r ELSE [Dispose(r, S) EXCEPT !.client = None]
        of == {r.session[s].of : s \in {z \in S : r.session[z].opening}}
        left == {k \in of : r.status # "CRASHED" /\ p[k] \notin {"finished", "failed"}}
    IN  [dropped EXCEPT
           !.status = IF of = {} \/ @ = "CRASHED" THEN @ ELSE "ERROR",
           !.stopping = IF of = {} \/ r.status = "CRASHED" THEN @ ELSE left # {},
           !.start = [k \in Children |-> IF k \in left THEN "terminate"
                                         ELSE IF k \in of THEN "returned" ELSE @[k]]]

\* handshake: the session before it is disposed, and rejects if it still
\* discovers; the catch of that handshake runs after this one is under way.
Handshake(r, k, s, opening, p) ==
    LET before == {r.client} \ {None}
        opened == [Dispose(r, before) EXCEPT
                     !.client = s,
                     !.session[s] = [of |-> k, opening |-> opening, stage |-> "discovering"]]
    IN  Rejected(opened, before \cap InStage(r, "discovering"), p)

\* startServer up to its spawn, then what was left to run, then the child's
\* spawn event and the handshake, or its error event; or spawn throws, and the
\* status stays where it is.
StartFrom(r, lost, p) ==
    \E k \in Children, s \in Sessions :
        LET begun == [r EXCEPT !.status = "STARTING", !.stopping = FALSE,
                               !.child = k, !.start[k] = "handshake"]
            then == Rejected(begun, lost, p)
        IN  /\ p[k] = "unborn" /\ \A j \in 1..(k - 1) : p[j] # "unborn"
            /\ r.session[s].stage = "unused" /\ \A z \in 1..(s - 1) : r.session[z].stage # "unused"
            /\ \/ /\ proc' = [p EXCEPT ![k] = "up"]
                  /\ rt' = Handshake([then EXCEPT !.status = "INITIALIZING"], k, s, TRUE, proc')
               \/ /\ proc' = [p EXCEPT ![k] = "absent"]
                  /\ rt' = [then EXCEPT !.status = "ERROR", !.child = None, !.start[k] = "returned"]
               \/ /\ proc' = [p EXCEPT ![k] = "absent"]
                  /\ rt' = Rejected([r EXCEPT !.status = "STARTING", !.stopping = FALSE,
                                              !.start[k] = "returned"], lost, p)

----------------------------------------------------------------------------
(* Starting, discovering, refreshing.                                      *)

\* A route, or autostartEnabledServers on boot.
StartServer ==
    /\ Quiet
    /\ ~IsRunning(rt)
    /\ StartFrom(rt, {}, proc)
    /\ UNCHANGED <<stop, using, queueVars>>

HandshakeDone(s) ==
    LET k == rt.session[s].of IN
    /\ Quiet
    /\ s \in InStage(rt, "discovering")
    /\ rt' = [rt EXCEPT !.session[s].stage = "open",
                        !.status = IF rt.session[s].opening THEN "RUNNING" ELSE @,
                        !.start[k] = IF rt.session[s].opening THEN "returned" ELSE @]
    /\ UNCHANGED <<proc, stop, using, queueVars>>

\* An error answer, or the handshake's time is up.
HandshakeFails(s) ==
    /\ Quiet
    /\ s \in InStage(rt, "discovering")
    /\ rt' = Rejected(rt, {s}, proc)
    /\ UNCHANGED <<proc, stop, using, queueVars>>

\* A refresh asked for by a client; and onListChanged, which does the same when
\* the server announces that a list of its own has changed.
RefreshCapabilities ==
    /\ Quiet
    /\ rt.status = "RUNNING" /\ rt.child # None
    /\ \E s \in Sessions :
          /\ rt.session[s].stage = "unused" /\ \A z \in 1..(s - 1) : rt.session[z].stage # "unused"
          /\ rt' = Handshake(rt, rt.child, s, FALSE, proc)
    /\ UNCHANGED <<proc, stop, using, queueVars>>

----------------------------------------------------------------------------
(* Stopping.                                                               *)

StopServer_shownAtOnce(x) ==
    /\ Quiet
    /\ stop[x].stage = "unmade"
    /\ rt.child # None
    /\ rt' = [rt EXCEPT !.stopping = TRUE, !.status = "STOPPED"]
    /\ stop' = [stop EXCEPT ![x] = [stage |-> "waiting", on |-> rt.child]]
    /\ UNCHANGED <<proc, using, queueVars>>

StopServer_withoutWaiting(x) ==
    /\ Quiet
    /\ stop[x].stage = "unmade"
    /\ rt.child # None
    /\ rt' = [rt EXCEPT !.status = "STOPPED", !.child = None]
    /\ stop' = [stop EXCEPT ![x] = [stage |-> "returned", on |-> rt.child]]
    /\ UNCHANGED <<proc, using, queueVars>>

\* stopServer, also for a server that was disabled or deleted and on shutdown.
\* With no child there is nothing to wait for, and a restart starts at once.
StopServer(x) ==
    /\ Quiet
    /\ stop[x].stage = "unmade"
    /\ \/ /\ rt.child # None
          /\ rt' = [rt EXCEPT !.stopping = TRUE]
          /\ stop' = [stop EXCEPT ![x] = [stage |-> "waiting", on |-> rt.child]]
          /\ UNCHANGED proc
       \/ LET before == {rt.client} \ {None}
              lost == before \cap InStage(rt, "discovering")
              idle == [Dispose(rt, before) EXCEPT
                         !.client = None,
                         !.status = IF @ \in {"CRASHED", "ERROR"} THEN @ ELSE "STOPPED"]
          IN  /\ rt.child = None
              /\ stop' = [stop EXCEPT ![x].stage = "returned"]
              /\ \/ /\ x \notin Restarts
                    /\ rt' = Rejected(idle, lost, proc)
                    /\ UNCHANGED proc
                 \/ /\ x \in Restarts
                    /\ StartFrom(idle, lost, proc)
    /\ UNCHANGED <<using, queueVars>>

ExitHandler_unknownStatus(r, how) ==
    [Dispose(r, {r.client} \ {None}) EXCEPT
       !.child = None, !.client = None,
       !.status = IF r.stopping THEN "STOPPED" ELSE "EXITED"]

\* The exit listener of startServer, which is the same whichever child it was.
ExitHandler(r, how) ==
    [Dispose(r, {r.client} \ {None}) EXCEPT
       !.child = None, !.client = None,
       !.status = IF @ = "ERROR" THEN "ERROR"
                  ELSE IF r.stopping \/ how = "finished" THEN "STOPPED" ELSE "CRASHED"]

WaitingFor_current(k) ==
    {x \in Stops : stop[x] = [stage |-> "waiting", on |-> k] /\ rt.child = k}

WaitingFor(k) == {x \in Stops : stop[x] = [stage |-> "waiting", on |-> k]}

\* What waited in terminate() for this child: the stops, and a failed start.
TerminateResolved(r, k) ==
    LET stopped == IF WaitingFor(k) = {} THEN r
                   ELSE [r EXCEPT !.stopping = FALSE, !.status = "STOPPED", !.child = None]
    IN  [stopped EXCEPT !.stopping = IF r.start[k] = "terminate" THEN FALSE ELSE @,
                        !.start[k] = IF @ = "terminate" THEN "returned" ELSE @]

\* A child exits: the exit listener, then those who waited for it, then a
\* restart's start, and last the handshakes it cut short.  A restarted server
\* may have been disabled meanwhile; then startServer refuses.
Exit(k, how) ==
    LET p == [proc EXCEPT ![k] = how]
        lost == {s \in InStage(rt, "discovering") : rt.session[s].of = k \/ s = rt.client}
        gone == TerminateResolved(ExitHandler(rt, how), k)
    IN  /\ Quiet
        /\ proc[k] = "up"
        /\ stop' = [x \in Stops |-> IF x \in WaitingFor(k)
                                 THEN [stop[x] EXCEPT !.stage = "returned"] ELSE stop[x]]
        /\ \/ rt' = Rejected(gone, lost, p) /\ proc' = p
           \/ WaitingFor(k) \cap Restarts # {} /\ StartFrom(gone, lost, p)
        /\ UNCHANGED <<using, queueVars>>

----------------------------------------------------------------------------
(* Tool calls.                                                             *)

\* callTool takes the session before it waits in the queue.
CallTool(c) ==
    /\ Quiet
    /\ rt.status = "RUNNING" /\ rt.client # None
    /\ Enter(c)
    /\ using' = [using EXCEPT ![c] = rt.client]
    /\ UNCHANGED <<rt, proc, stop>>

CallResumes(c) ==
    /\ Resume(c)
    /\ UNCHANGED <<rt, proc, stop, using>>

\* An answer, an error answer, or the tool's time is up.
CallEnds(c) ==
    /\ Quiet
    /\ Leave(c)
    /\ UNCHANGED <<rt, proc, stop, using>>

\* Its session was disposed under it or before it began.
CallFails(c) ==
    /\ ~HandingOver
    /\ IsDisposed(c)
    /\ Leave(c)
    /\ UNCHANGED <<rt, proc, stop, using>>

CallGivesUp(c) ==
    /\ Quiet
    /\ WaitTimeout(c)
    /\ UNCHANGED <<rt, proc, stop, using>>

----------------------------------------------------------------------------
Next ==
    \/ StartServer
    \/ RefreshCapabilities
    \/ \E s \in Sessions : HandshakeDone(s) \/ HandshakeFails(s)
    \/ \E x \in Stops : StopServer(x)
    \/ \E k \in Children, how \in Exits : Exit(k, how)
    \/ \E c \in Calls : \/ CallTool(c) \/ CallResumes(c) \/ CallEnds(c)
                        \/ CallFails(c) \/ CallGivesUp(c)

Spec == Init /\ [][Next]_vars

\* Promises continue, a tool call has a time limit, and SIGKILL ends a child that
\* ignores SIGTERM.  Nobody has to start, stop, answer or call anything.
Fairness ==
    /\ \A c \in Calls : WF_vars(CallResumes(c) \/ CallEnds(c) \/ CallFails(c))
    /\ \A k \in Children : WF_vars(WaitingFor(k) # {} /\ \E how \in Exits : Exit(k, how))

FairSpec == Spec /\ Fairness

----------------------------------------------------------------------------
(* Properties.                                                             *)

\* The supervised child is alive, and a server shown as down has none: a status a
\* client reads never hides a process that stopServer would still find.
StatusIsTrue ==
    /\ rt.child # None => proc[rt.child] = "up"
    /\ rt.status \in {"STOPPED", "CRASHED"} => rt.child = None

\* When stopServer returns, the process it found is gone, and until then it waits
\* for one that is there: terminate "resolves once it is actually gone".
StoppedIsGone ==
    \A x \in Stops : stop[x].on # None =>
        ((stop[x].stage = "waiting") <=> (proc[stop[x].on] = "up"))

\* Every tool call that is not refused is settled or gives up, even if its wait
\* had no limit.
EveryCallSettles ==
    \A c \in Calls :
        (call[c] \in {"waiting", "woken", "running"}) ~> (call[c] \in {"settled", "abandoned"})

\* Every stopServer call returns.
EveryStopReturns ==
    \A x \in Stops : (stop[x].stage = "waiting") ~> (stop[x].stage = "returned")

(* What comments of the code say and the runs refute.                      *)

\* "stale is better than empty": a failed re-read leaves the server as it was,
\* with a session to call its tools over (McpProcessSupervisor.ts:751-757).
RunningHasSession ==
    Quiet /\ rt.status = "RUNNING" => rt.client # None

\* "Stops every running child" (McpProcessSupervisor.ts:916): shutdownAll and the
\* exit hook reach a child through RuntimeState.child alone.
NoOrphan ==
    \A k \in Children : proc[k] = "up" =>
        rt.child = k \/ rt.start[k] = "terminate" \/ WaitingFor(k) # {}
============================================================================

----------------------------- MODULE Approvals -----------------------------
(***************************************************************************)
(* One permission request of a native agent, from the CLI that blocks on   *)
(* it to the person who decides and back:                                  *)
(*   ClaudeAdapter.handleControlRequest / handleControlCancel              *)
(*   AgentService.requestNativePermission, stopAgent and the exit handler  *)
(*   TeamAgentService.resolveTurnApproval, where it rejects                *)
(*   ApprovalManager: the pending map, its timers, the approvals table.    *)
(*                                                                         *)
(* The CLI writes lines to its stdout; the adapter reads them in chunks,   *)
(* and the lines of one chunk are handled before any promise continues.    *)
(* A promise that has settled continues before the next timer, request or  *)
(* chunk: Quiet.  The CLI and the people at the dashboards are external.   *)
(* A client may answer a card it still shows, however late.                *)
(*                                                                         *)
(* A name with an underscore is a bug for the mutants.                     *)
(***************************************************************************)
EXTENDS Naturals, Sequences

CONSTANTS
    Threads,     \* threads with an agent session
    Requests,    \* permission requests, each raised at most once
    Home,        \* the thread of each request
    NoThread,    \* no chunk is being read
    MaxFaults,   \* bound on refused database writes
    MaxCrashes   \* bound on crashes of a session and of the Core

ASSUME ApprovalAssumption ==
    /\ Home \in [Requests -> Threads]
    /\ NoThread \notin Threads
    /\ MaxFaults \in Nat /\ MaxCrashes \in Nat

VARIABLES
    cli,      \* what the CLI knows of each request
    process,  \* the agent process of each thread
    leaving,  \* threads whose exit handler awaits the end of a watcher
    pipe,     \* lines the CLI wrote and the adapter has not read
    chunk,    \* the thread whose chunk is being read
    host,     \* the adapter's and AgentService's promise of each request
    pending,  \* ApprovalManager.pendingApprovals, with their timers running
    row,      \* the approvals table
    missed,   \* requests for which the database refused a call
    said,     \* what a person answered while the request was pending
    core      \* whether the Core is up, and the bounds' counters

vars == <<cli, process, leaving, pipe, chunk, host, pending, row, missed, said, core>>

----------------------------------------------------------------------------
Lines == [kind : {"can_use_tool", "cancel"}, of : Requests]
RowStates == {"none", "pending", "approved", "denied", "expired", "cancelled"}
Stages == {"none", "starting", "asking", "resolved", "finished", "lost"}

TypeOK ==
    /\ cli \in [Requests -> {"unasked", "waiting", "allowed", "denied", "withdrew", "gone"}]
    /\ process \in [Threads -> {"up", "stopping", "down"}]
    /\ leaving \subseteq Threads
    /\ pipe \in [Threads -> Seq(Lines)]
    /\ chunk \in Threads \cup {NoThread}
    /\ host \in [Requests -> [stage : Stages, aborted : BOOLEAN, approved : BOOLEAN]]
    /\ pending \subseteq Requests
    /\ row \in [Requests -> RowStates]
    /\ missed \subseteq Requests
    /\ said \in [Requests -> {"nothing", "approve", "deny"}]
    /\ core \in [up : BOOLEAN, faults : 0..MaxFaults, crashes : 0..MaxCrashes]

Init ==
    /\ cli = [r \in Requests |-> "unasked"]
    /\ process = [th \in Threads |-> "up"]
    /\ leaving = {}
    /\ pipe = [th \in Threads |-> <<>>]
    /\ chunk = NoThread
    /\ host = [r \in Requests |-> [stage |-> "none", aborted |-> FALSE, approved |-> FALSE]]
    /\ pending = {}
    /\ row = [r \in Requests |-> "none"]
    /\ missed = {}
    /\ said = [r \in Requests |-> "nothing"]
    /\ core = [up |-> TRUE, faults |-> 0, crashes |-> 0]

----------------------------------------------------------------------------
BetweenChunks == core.up /\ chunk = NoThread
Quiet == BetweenChunks /\ \A r \in Requests : host[r].stage \notin {"starting", "resolved"}

Alive(th) == process[th] # "down"
Raised(th) == {r \in pending : Home[r] = th}

Each(S, word) == [r \in S |-> word]

Update_always(words) ==
    /\ row' = [r \in Requests |->
                 IF r \in DOMAIN words /\ row[r] # "none" THEN words[r] ELSE row[r]]
    /\ UNCHANGED <<missed, core>>

\* UPDATE approvals SET status = ? WHERE status = 'pending', for some requests.
\* A write the database refuses is logged and forgotten.
Update(words) ==
    \E bad \in SUBSET DOMAIN words :
        /\ bad # {} => core.faults < MaxFaults
        /\ core' = [core EXCEPT !.faults = IF bad = {} THEN @ ELSE @ + 1]
        /\ missed' = missed \cup bad
        /\ row' = [r \in Requests |->
                     IF r \in DOMAIN words \ bad /\ row[r] = "pending" THEN words[r] ELSE row[r]]

Resolve_unsettled(S, approved) ==
    /\ pending' = pending \ S
    /\ UNCHANGED host

\* The promises of some pending requests settle: out of the map, timer cleared.
Resolve(S, approved) ==
    /\ pending' = pending \ S
    /\ host' = [r \in Requests |->
                  IF r \in S THEN [host[r] EXCEPT !.stage = "resolved", !.approved = approved]
                  ELSE host[r]]

----------------------------------------------------------------------------
(* The CLI.                                                                *)

CliAsks(r) ==
    /\ core.up /\ Alive(Home[r])
    /\ cli[r] = "unasked"
    /\ cli' = [cli EXCEPT ![r] = "waiting"]
    /\ pipe' = [pipe EXCEPT ![Home[r]] = Append(@, [kind |-> "can_use_tool", of |-> r])]
    /\ UNCHANGED <<process, leaving, chunk, host, pending, row, missed, said, core>>

\* A hook or a rule of its own decided first.
CliWithdraws(r) ==
    /\ core.up /\ Alive(Home[r])
    /\ cli[r] = "waiting"
    /\ cli' = [cli EXCEPT ![r] = "withdrew"]
    /\ pipe' = [pipe EXCEPT ![Home[r]] = Append(@, [kind |-> "cancel", of |-> r])]
    /\ UNCHANGED <<process, leaving, chunk, host, pending, row, missed, said, core>>

----------------------------------------------------------------------------
(* ClaudeAdapter and requestNativePermission.                              *)

Reads(th, kind) ==
    /\ Quiet \/ (core.up /\ chunk = th)
    /\ pipe[th] # <<>>
    /\ Head(pipe[th]).kind = kind
    /\ pipe' = [pipe EXCEPT ![th] = Tail(@)]
    /\ chunk' = th

\* handleControlRequest, up to the first await of requestNativePermission.
ReadControlRequest(th) ==
    /\ Reads(th, "can_use_tool")
    /\ host' = [host EXCEPT ![Head(pipe[th]).of].stage = "starting"]
    /\ UNCHANGED <<cli, process, leaving, pending, row, missed, said, core>>

\* handleControlCancel aborts an ask it still holds.  The listener withdraws the
\* approval if it has been raised; one that has not is left to onActionId.
ReadControlCancel(th) ==
    LET r == Head(pipe[th]).of IN
    /\ Reads(th, "cancel")
    /\ \/ /\ host[r].stage = "asking"
          /\ pending' = pending \ {r}
          /\ host' = [host EXCEPT ![r] = [stage |-> "resolved", aborted |-> TRUE, approved |-> FALSE]]
          /\ Update(Each({r}, "cancelled"))
       \/ /\ host[r].stage \in {"starting", "resolved"}
          /\ host' = [host EXCEPT ![r].aborted = TRUE]
          /\ UNCHANGED <<pending, row, missed, core>>
       \/ /\ host[r].stage \notin {"starting", "asking", "resolved"}
          /\ UNCHANGED <<host, pending, row, missed, core>>
    /\ UNCHANGED <<cli, process, leaving, said>>

EndChunk ==
    /\ core.up /\ chunk # NoThread
    /\ chunk' = NoThread
    /\ UNCHANGED <<cli, process, leaving, pipe, host, pending, row, missed, said, core>>

\* requestApproval: onActionId comes first, and its withdraw finds nothing in
\* the map; then the row, the timer, the map and the card.
RequestApproval(r) ==
    /\ BetweenChunks
    /\ host[r].stage = "starting"
    /\ host' = [host EXCEPT ![r].stage = "asking"]
    /\ pending' = pending \cup {r}
    /\ \/ /\ row' = [row EXCEPT ![r] = "pending"]
          /\ UNCHANGED <<missed, core>>
       \/ /\ core.faults < MaxFaults
          /\ core' = [core EXCEPT !.faults = @ + 1]
          /\ missed' = missed \cup {r}
          /\ UNCHANGED row
    /\ UNCHANGED <<cli, process, leaving, pipe, chunk, said>>

\* The project cannot be read, and the request is denied with no row and no card.
RequestFails(r) ==
    /\ BetweenChunks
    /\ host[r].stage = "starting"
    /\ core.faults < MaxFaults
    /\ core' = [core EXCEPT !.faults = @ + 1]
    /\ missed' = missed \cup {r}
    /\ host' = [host EXCEPT ![r].stage = "resolved"]
    /\ UNCHANGED <<cli, process, leaving, pipe, chunk, pending, row, said>>

Verdict_rowWord(r) == IF host[r].approved THEN "approved" ELSE "denied"

Verdict(r) == IF host[r].approved THEN "allowed" ELSE "denied"

\* The promise has settled: an aborted ask is not answered, and an answer to a
\* process that is gone, or that no longer waits for it, is lost.
Respond(r) ==
    /\ BetweenChunks
    /\ host[r].stage = "resolved"
    /\ host' = [host EXCEPT ![r].stage = "finished"]
    /\ cli' = [cli EXCEPT ![r] = IF @ = "waiting" /\ ~host[r].aborted THEN Verdict(r) ELSE @]
    /\ UNCHANGED <<process, leaving, pipe, chunk, pending, row, missed, said, core>>

----------------------------------------------------------------------------
(* ApprovalManager.                                                        *)

AnswerCard_rowApproved(r, approved) ==
    /\ Quiet
    /\ host[r].stage \notin {"none", "starting"}
    /\ Update(Each({r}, "approved"))
    /\ Resolve({r} \cap pending, approved)
    /\ said' = [said EXCEPT ![r] = IF r \notin pending THEN @
                                   ELSE IF approved THEN "approve" ELSE "deny"]
    /\ UNCHANGED <<cli, process, leaving, pipe, chunk>>

\* client.approval_response, from any client that was ever shown the card: the
\* row while it is pending, the promise while it is in the map.
AnswerCard(r, approved) ==
    /\ Quiet
    /\ host[r].stage \notin {"none", "starting"}
    /\ Update(Each({r}, IF approved THEN "approved" ELSE "denied"))
    /\ Resolve({r} \cap pending, approved)
    /\ said' = [said EXCEPT ![r] = IF r \notin pending THEN @
                                   ELSE IF approved THEN "approve" ELSE "deny"]
    /\ UNCHANGED <<cli, process, leaving, pipe, chunk>>

Expire_approves(r) ==
    /\ Quiet
    /\ r \in pending
    /\ Update(Each({r}, "expired"))
    /\ Resolve({r}, TRUE)
    /\ UNCHANGED <<cli, process, leaving, pipe, chunk, said>>

\* Nobody answered within the request's time: denied.
Expire(r) ==
    /\ Quiet
    /\ r \in pending
    /\ Update(Each({r}, "expired"))
    /\ Resolve({r}, FALSE)
    /\ UNCHANGED <<cli, process, leaving, pipe, chunk, said>>

\* resolveTurnApproval of a team that rejects: 'n' to the card it answers, if the
\* prompt had one, and the end of whatever else the thread waits for.
RejectTurn(th, told) ==
    /\ Quiet
    /\ \A r \in told : Home[r] = th /\ host[r].stage \notin {"none", "starting"}
    /\ Update([r \in told \cup Raised(th) |-> IF r \in told THEN "denied" ELSE "cancelled"])
    /\ Resolve(Raised(th), FALSE)
    /\ said' = [r \in Requests |-> IF r \in told \cap pending THEN "deny" ELSE said[r]]
    /\ UNCHANGED <<cli, process, leaving, pipe, chunk>>

----------------------------------------------------------------------------
(* The life of the session, as far as its requests go.                     *)

Ends(th) == [r \in Requests |-> IF Home[r] = th /\ cli[r] = "waiting" THEN "gone" ELSE cli[r]]

CancelFor_oneOnly(th) ==
    LET one == IF Raised(th) = {} THEN {} ELSE {CHOOSE r \in Raised(th) : TRUE} IN
    /\ Update(Each(one, "cancelled"))
    /\ Resolve(one, FALSE)

\* cancelApprovalsForThread.
CancelFor(th) ==
    /\ Update(Each(Raised(th), "cancelled"))
    /\ Resolve(Raised(th), FALSE)

\* stopAgent cancels what the thread waits for, whether or not it has a process,
\* and then awaits the end of the process tree, which has seconds to go.
Stop(th) ==
    /\ process' = [process EXCEPT ![th] = IF @ = "up" THEN "stopping" ELSE @]
    /\ CancelFor(th)
    /\ UNCHANGED <<cli, pipe, chunk, said>>

StopAgent(th) ==
    /\ Quiet
    /\ Stop(th)
    /\ UNCHANGED leaving

\* The exit of a process the user stopped.
ProcessStopped(th) ==
    /\ Quiet
    /\ process[th] = "stopping"
    /\ process' = [process EXCEPT ![th] = "down"]
    /\ cli' = Ends(th)
    /\ UNCHANGED <<leaving, pipe, chunk, host, pending, row, missed, said, core>>

\* An exit with code 0, or one too many crashes: the handler ends in stopAgent,
\* at once or when the project's watcher has stopped.
ProcessExits(th) ==
    /\ Quiet
    /\ process[th] = "up"
    /\ process' = [process EXCEPT ![th] = "down"]
    /\ cli' = Ends(th)
    /\ \/ CancelFor(th) /\ UNCHANGED leaving
       \/ leaving' = leaving \cup {th} /\ UNCHANGED <<host, pending, row, missed, core>>
    /\ UNCHANGED <<pipe, chunk, said>>

\* By now the thread may have another process, and that is the one that stops.
ExitHandled(th) ==
    /\ Quiet
    /\ th \in leaving
    /\ leaving' = leaving \ {th}
    /\ Stop(th)

\* A crash the handler answers with an automatic restart.
ProcessCrashes(th) ==
    /\ Quiet
    /\ process[th] = "up"
    /\ core.crashes < MaxCrashes
    /\ core' = [core EXCEPT !.crashes = @ + 1]
    /\ process' = [process EXCEPT ![th] = "down"]
    /\ cli' = Ends(th)
    /\ UNCHANGED <<leaving, pipe, chunk, host, pending, row, missed, said>>

\* A new process, with a pipe of its own.
StartAgent(th) ==
    /\ Quiet
    /\ process[th] = "down"
    /\ process' = [process EXCEPT ![th] = "up"]
    /\ pipe' = [pipe EXCEPT ![th] = <<>>]
    /\ UNCHANGED <<cli, leaving, chunk, host, pending, row, missed, said, core>>

\* The table is all that is left of a Core that crashed.
CoreCrashes ==
    /\ core.up /\ core.crashes < MaxCrashes
    /\ core' = [core EXCEPT !.up = FALSE, !.crashes = @ + 1]
    /\ cli' = [r \in Requests |-> IF cli[r] = "waiting" THEN "gone" ELSE cli[r]]
    /\ process' = [th \in Threads |-> "down"]
    /\ leaving' = {}
    /\ pipe' = [th \in Threads |-> <<>>]
    /\ chunk' = NoThread
    /\ host' = [r \in Requests |->
                  IF host[r].stage \in {"starting", "asking", "resolved"}
                  THEN [host[r] EXCEPT !.stage = "lost"] ELSE host[r]]
    /\ pending' = {}
    /\ UNCHANGED <<row, missed, said>>

\* recoverPendingApprovals shows the pending rows again; nothing waits on them.
CoreRestarts ==
    /\ ~core.up
    /\ core' = [core EXCEPT !.up = TRUE]
    /\ UNCHANGED <<cli, process, leaving, pipe, chunk, host, pending, row, missed, said>>

----------------------------------------------------------------------------
Continue(r) == RequestApproval(r) \/ RequestFails(r) \/ Respond(r)
ReadLine(th) == ReadControlRequest(th) \/ ReadControlCancel(th)

Next ==
    \/ \E r \in Requests :
          \/ CliAsks(r)
          \/ CliWithdraws(r)
          \/ Continue(r)
          \/ \E approved \in BOOLEAN : AnswerCard(r, approved)
          \/ Expire(r)
    \/ \E th \in Threads :
          \/ ReadLine(th)
          \/ \E told \in {{}} \cup {{r} : r \in Requests} : RejectTurn(th, told)
          \/ StopAgent(th)
          \/ ProcessStopped(th)
          \/ ProcessExits(th)
          \/ ExitHandled(th)
          \/ ProcessCrashes(th)
          \/ StartAgent(th)
    \/ EndChunk
    \/ CoreCrashes
    \/ CoreRestarts

Spec == Init /\ [][Next]_vars

\* Output is read, microtasks run and timers fire.  Nobody has to answer.
Fairness ==
    /\ \A th \in Threads : WF_vars(ReadLine(th))
    /\ WF_vars(EndChunk)
    /\ \A r \in Requests : WF_vars(Continue(r)) /\ WF_vars(Expire(r))

FairSpec == Spec /\ Fairness

----------------------------------------------------------------------------
(* Properties.                                                             *)

\* The Core never approves: the CLI is allowed only what a person approved while
\* the request was pending, whatever timed out, stopped or was withdrawn.
AllowedOnlyByAPerson ==
    \A r \in Requests : cli[r] = "allowed" => said[r] = "approve"

\* No lost promise: whoever awaits requestApproval is in the map, where an
\* answer, the timer or a cancellation will find it, and the map keeps nothing
\* that nobody awaits.
PendingIsAwaited ==
    pending = {r \in Requests : host[r].stage = "asking"}

\* The table tells what the CLI was told, however many answers come and however
\* late, unless a write was refused.
RowTellsOutcome ==
    \A r \in Requests \ missed :
        /\ cli[r] = "allowed" => row[r] = "approved"
        /\ cli[r] = "denied" => row[r] \in {"denied", "expired", "cancelled"}

\* A stop, an exit or a rejection that cancels one request of a thread leaves none
\* of its others on a screen and touches none of another thread; a request the
\* CLI withdraws goes alone.
CancelsItsThread ==
    [][\A r \in Requests : row[r] # "cancelled" /\ row'[r] = "cancelled" =>
          /\ \A q \in Requests : Home[q] # Home[r] => host'[q] = host[q] /\ row'[q] = row[q]
          /\ \/ ~host[r].aborted /\ host'[r].aborted
             \/ \A q \in pending' : Home[q] # Home[r]]_vars

\* Once a request has been decided its row stands: a second client's answer, the
\* timer and a cancellation come too late.
DecisionStands ==
    [][\A r \in Requests : row[r] \notin {"none", "pending"} => row'[r] = row[r]]_vars

\* A CLI that blocks on a request does not block for ever, even if no one looks.
EveryAskAnswered ==
    \A r \in Requests : (cli[r] = "waiting") ~> (cli[r] # "waiting")

(* What a comment of the code says and a run refutes.                      *)

\* What asked has gone, so the request is denied: a thread the user stopped, a
\* session that crashed (ApprovalManager.ts:306-312; AgentService.ts:956-957).
\* An exit handler that still awaits the watcher has time to do it.
DeadSessionAsksNothing ==
    Quiet => \A r \in pending : Home[r] \in leaving \/ cli[r] # "gone"
=============================================================================

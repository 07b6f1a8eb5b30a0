----------------------------- MODULE TeamTurns -----------------------------
(***************************************************************************)
(* Turns of a shared team agent, from submission to the durable outcome    *)
(* (apps/server/src/services/ai/TeamAgentService.ts), on top of the turn   *)
(* lock.  A turn meets its runner (runTurn), the executor that watches the *)
(* agent's session through the event bus, the rows of team_turn_queue and  *)
(* team_threads, the approvals its agent asks for, the members who answer  *)
(* or withdraw, write failures, and a Core that crashes and restarts.      *)
(*                                                                         *)
(* One action is one synchronous stretch of the event loop.  A runner      *)
(* whose promise has settled continues as a microtask, so it goes before   *)
(* any request, timer or agent event: Quiet.  A crash may come in between. *)
(* Each write to the database is refused or not on its own: a mishap is a  *)
(* step in which at least one was, or a crash.                             *)
(* As in TurnLock, a name with an underscore is a bug for the mutants.     *)
(*                                                                         *)
(* The agent's CLI is external: it serves the messages it was sent in      *)
(* order, speaks, asks, ends each with an idle status, and may fail.       *)
(***************************************************************************)
EXTENDS TurnLock

CONSTANTS
    NoThread,    \* a prompt nobody has raised
    Context,     \* the persona brief or the memory brief sent to a session
    MaxMishaps   \* bound on steps with a refused write, and on crashes

ASSUME TeamAssumption ==
    /\ NoThread \notin Threads
    /\ Context \notin Turns
    /\ MaxMishaps \in Nat

VARIABLES
    row,        \* team_turn_queue.status
    missed,     \* turns whose row refused the last write
    threadRow,  \* team_threads: status and active member
    unsynced,   \* threads whose row was not written when the lock moved on
    gone,       \* deleted threads
    run,        \* the runner and the executor's watch of each turn
    session,    \* the agent session of each thread
    ask,        \* the approvals, by action id
    core        \* whether the Core is up, and the bounds' counters

teamVars == <<lane, turn, settled, row, missed, threadRow, unsynced, gone, run, session,
              ask, core>>

----------------------------------------------------------------------------
Unsettled == {"QUEUED"} \cup Running
RowStates == {"NONE"} \cup Unsettled \cup Outcomes
Stages == {"none", "awaiting", "running", "answered", "failed", "refused", "done", "lost"}
AskStates == {"none", "pending", "decided", "cancelled"}

TeamTypeOK ==
    /\ LockTypeOK
    /\ row \in [Turns -> RowStates]
    /\ missed \subseteq Turns
    /\ threadRow \in [Threads -> [state : LaneStates, by : Turns \cup {NoTurn}]]
    /\ unsynced \subseteq Threads
    /\ gone \subseteq Threads
    /\ run \in [Turns -> [stage : Stages, watching : BOOLEAN,
                          heard : SUBSET (Turns \cup {Context})]]
    /\ session \in [Threads -> [jobs : Seq(Turns \cup {Context}), briefed : BOOLEAN]]
    /\ ask \in [Prompts -> [state : AskStates, on : Threads \cup {NoThread}]]
    /\ core \in [up : BOOLEAN, mishaps : 0..MaxMishaps]

NoSession == [jobs |-> <<>>, briefed |-> FALSE]
IdleRow == [state |-> "IDLE", by |-> NoTurn]

TeamInit ==
    /\ LockInit
    /\ row = [t \in Turns |-> "NONE"]
    /\ missed = {}
    /\ threadRow = [th \in Threads |-> IdleRow]
    /\ unsynced = {}
    /\ gone = {}
    /\ run = [t \in Turns |-> [stage |-> "none", watching |-> FALSE, heard |-> {}]]
    /\ session = [th \in Threads |-> NoSession]
    /\ ask = [p \in Prompts |-> [state |-> "none", on |-> NoThread]]
    /\ core = [up |-> TRUE, mishaps |-> 0]

----------------------------------------------------------------------------
(* Who goes next, and the writes every operation is made of.               *)

Granted_unchecked(t) == run[t].stage = "awaiting" /\ turn[t].answer # "pending"

Granted(t)   == run[t].stage = "awaiting" /\ turn[t].answer = "granted"
Withdrawn(t) == run[t].stage = "awaiting" /\ turn[t].answer = "refused"
Ended(t)     == run[t].stage \in {"answered", "failed", "refused"}

Quiet == core.up /\ \A t \in Turns : ~Granted(t) /\ ~Withdrawn(t) /\ ~Ended(t)

\* An UPDATE of a turn's row; the cascade has taken the rows of a deleted thread.
Save(t, status) ==
    /\ row' = [row EXCEPT ![t] = IF Home[t] \in gone THEN "NONE" ELSE status]
    /\ missed' = missed \ {t}

\* The database refuses it.
Miss(t) ==
    /\ row' = row
    /\ missed' = missed \cup {t}

\* syncThreadState: the thread's row is rewritten from the lock.
SyncThreadState(th) ==
    /\ threadRow' = [threadRow EXCEPT ![th] =
                       IF th \in gone THEN IdleRow
                       ELSE [state |-> lane'[th].state, by |-> lane'[th].active]]
    /\ unsynced' = unsynced \ {th}

\* That write is refused, or not reached.
Unsynced(th) ==
    /\ threadRow' = threadRow
    /\ unsynced' = unsynced \cup {th}

AllWritten == core' = core
Refused ==
    /\ core.mishaps < MaxMishaps
    /\ core' = [core EXCEPT !.mishaps = @ + 1]

TrySync(th) ==
    \/ SyncThreadState(th) /\ AllWritten
    \/ Unsynced(th) /\ Refused

\* A turn's row and then its thread's, the second not tried without the first.
Mirror(t, status) ==
    \/ Save(t, status) /\ TrySync(Home[t])
    \/ Miss(t) /\ Unsynced(Home[t]) /\ Refused

SameLock == UNCHANGED lockVars
SameRows == UNCHANGED <<row, missed, threadRow, unsynced, core>>

Watchers(th) == {t \in Turns : Home[t] = th /\ run[t].watching}
Talkative(th) == {t \in Watchers(th) : run[t].heard # {}}

\* finish: the watches end, and the runners that wait on them go on.
EndWatches(ended, stage) ==
    run' = [t \in Turns |->
              IF t \in ended
              THEN [run[t] EXCEPT !.watching = FALSE,
                                  !.stage = IF @ = "running" THEN stage ELSE @]
              ELSE run[t]]

Raised(th) == {p \in Prompts : ask[p].state = "pending" /\ ask[p].on = th}
AskEnds(ended, state) ==
    [p \in Prompts |-> IF p \in ended THEN [ask[p] EXCEPT !.state = state] ELSE ask[p]]

----------------------------------------------------------------------------
(* Submission, and the runner: runTurn.                                    *)

\* enqueueTurn: the row is inserted, the lock is asked for at once.
EnqueueTurn(t) ==
    /\ Quiet
    /\ Home[t] \notin gone
    /\ run[t].stage = "none"
    /\ AcquireUnseen(t)
    /\ row' = [row EXCEPT ![t] = "QUEUED"]
    /\ run' = [run EXCEPT ![t].stage = "awaiting"]
    /\ UNCHANGED <<missed, threadRow, unsynced, gone, session, ask, core>>

\* The row is inserted, the transcript refuses the instruction: the submission
\* throws before the lock hears of it, and the row is nobody's.
EnqueueFails(t) ==
    /\ Quiet
    /\ Home[t] \notin gone
    /\ run[t].stage = "none"
    /\ Refused
    /\ row' = [row EXCEPT ![t] = "QUEUED"]
    /\ run' = [run EXCEPT ![t].stage = "lost"]
    /\ SameLock /\ UNCHANGED <<missed, threadRow, unsynced, gone, session, ask>>

\* acquireTurn answered false: withdrawn, or its thread was deleted.
EndWithdrawn(t) ==
    /\ core.up /\ Withdrawn(t)
    /\ run' = [run EXCEPT ![t].stage = "done"]
    /\ SameLock /\ SameRows /\ UNCHANGED <<gone, session, ask>>

MarkStarted_turnState(t) ==
    /\ Save(t, "PROCESSING") /\ AllWritten
    /\ threadRow' = [threadRow EXCEPT ![Home[t]] = [state |-> "PROCESSING", by |-> t]]
    /\ unsynced' = unsynced \ {Home[t]}

\* markTurnStarted and setThreadState.
MarkStarted(t) ==
    /\ Save(t, "PROCESSING") /\ AllWritten
    /\ threadRow' = [threadRow EXCEPT ![Home[t]] = [state |-> "PROCESSING_TURN", by |-> t]]
    /\ unsynced' = unsynced \ {Home[t]}

\* The lock is granted: the row says so, the watch is armed and the instruction
\* goes to the session, after the context it has not been given.  Messages to a
\* session that is not there are dropped.
StartTurn(t) ==
    LET th == Home[t] IN
    /\ core.up /\ Granted(t)
    /\ MarkStarted(t)
    /\ run' = [run EXCEPT ![t].stage = "running", ![t].watching = TRUE]
    /\ \E context \in {<<>>, <<Context>>}, delivered \in BOOLEAN :
          /\ session[th].briefed \/ context # <<>>
          /\ session' = [session EXCEPT ![th] =
                [jobs |-> IF delivered THEN @.jobs \o context \o <<t>> ELSE @.jobs,
                 briefed |-> TRUE]]
    /\ UNCHANGED <<lane, turn, settled, gone, ask>>

\* The thread is bound to no project: the executor refuses before it watches.
StartUnbound(t) ==
    /\ core.up /\ Granted(t)
    /\ MarkStarted(t)
    /\ run' = [run EXCEPT ![t].stage = "failed"]
    /\ UNCHANGED <<lane, turn, settled, gone, session, ask>>

\* One of the two writes is refused: the try ends there.
StartFails(t) ==
    /\ core.up /\ Granted(t)
    /\ Save(t, "PROCESSING") \/ Miss(t)
    /\ Unsynced(Home[t]) /\ Refused
    /\ run' = [run EXCEPT ![t].stage = "failed"]
    /\ SameLock /\ UNCHANGED <<gone, session, ask>>

OutcomeOf(stage) ==
    CASE stage = "answered" -> "COMPLETED"
      [] stage = "failed"   -> "FAILED"
      [] stage = "refused"  -> "CANCELLED"

FinishTurn_releaseAfterWrite(t) ==
    LET outcome == OutcomeOf(run[t].stage) IN
    /\ core.up /\ Ended(t)
    /\ \/ /\ Save(t, outcome) /\ AllWritten
          /\ ReleaseTurn(t, outcome) \/ (Here(t).active # t /\ SameLock)
       \/ Miss(t) /\ Refused /\ SameLock
    /\ SyncThreadState(Home[t])
    /\ run' = [run EXCEPT ![t].stage = "done"]
    /\ UNCHANGED <<gone, session, ask>>

FinishTurn_syncBeforeRelease(t) ==
    LET outcome == OutcomeOf(run[t].stage) IN
    /\ core.up /\ Ended(t)
    /\ \/ Save(t, outcome) /\ AllWritten
       \/ Miss(t) /\ Refused
    /\ ReleaseTurn(t, outcome) \/ (Here(t).active # t /\ SameLock)
    /\ UNCHANGED <<threadRow, unsynced>>
    /\ run' = [run EXCEPT ![t].stage = "done"]
    /\ UNCHANGED <<gone, session, ask>>

\* The finally of runTurn: each of the two writes is swallowed if it is refused,
\* and the lock is released between them whether or not they are.
FinishTurn(t) ==
    LET outcome == OutcomeOf(run[t].stage) IN
    /\ core.up /\ Ended(t)
    /\ ReleaseTurn(t, outcome) \/ (Here(t).active # t /\ SameLock)
    /\ \/ Save(t, outcome) /\ TrySync(Home[t])
       \/ Miss(t) /\ (SyncThreadState(Home[t]) \/ Unsynced(Home[t])) /\ Refused
    /\ run' = [run EXCEPT ![t].stage = "done"]
    /\ UNCHANGED <<gone, session, ask>>

CancelQueued_lockOnly(t) ==
    /\ Quiet
    /\ Home[t] \notin gone
    /\ CancelTurn(t)
    /\ SameRows /\ UNCHANGED <<gone, run, session, ask>>

\* cancelTurn withdraws a turn that still waits; the row follows the lock.
CancelQueued(t) ==
    /\ Quiet
    /\ Home[t] \notin gone
    /\ CancelTurn(t)
    /\ \/ Save(t, "CANCELLED") /\ AllWritten
       \/ Miss(t) /\ Refused
    /\ UNCHANGED <<threadRow, unsynced, gone, run, session, ask>>

----------------------------------------------------------------------------
(* The session, as its watches see it.                                     *)

AgentSpeaks(th) ==
    /\ Quiet
    /\ session[th].jobs # <<>>
    /\ run' = [t \in Turns |-> IF t \in Watchers(th)
                               THEN [run[t] EXCEPT !.heard = @ \cup {Head(session[th].jobs)}]
                               ELSE run[t]]
    /\ SameLock /\ SameRows /\ UNCHANGED <<gone, session, ask>>

\* A message is done and the status is idle: whoever has heard output is done.
AgentGoesIdle(th) ==
    /\ Quiet
    /\ session[th].jobs # <<>>
    /\ session' = [session EXCEPT ![th].jobs = Tail(@)]
    /\ EndWatches(Talkative(th), "answered")
    /\ SameLock /\ SameRows /\ UNCHANGED <<gone, ask>>

\* An error status: one message failed, or the process is gone.
AgentErrors(th) ==
    /\ Quiet
    /\ session[th].jobs # <<>> \/ Watchers(th) # {}
    /\ \E rest \in {<<>>} \cup {Tail(s) : s \in {session[th].jobs} \ {<<>>}} :
          session' = [session EXCEPT ![th].jobs = rest]
    /\ EndWatches(Watchers(th), "failed")
    /\ SameLock /\ SameRows /\ UNCHANGED <<gone, ask>>

\* No answer within the time a turn has.
Timeout(t) ==
    /\ Quiet
    /\ run[t].watching
    /\ EndWatches({t}, "failed")
    /\ SameLock /\ SameRows /\ UNCHANGED <<gone, session, ask>>

----------------------------------------------------------------------------
(* Approvals.                                                              *)

\* A turn is on hold for the prompt its lane shows.
OnHold(th, p) ==
    /\ lane[th].state = "AWAITING_APPROVAL"
    /\ turn[lane[th].active].prompt = p

\* A request's id is generated: any unused one is as good as another.
FreshPrompts ==
    LET unused == {p \in Prompts : ask[p].state = "none"}
    IN  IF unused = {} THEN {} ELSE {CHOOSE p \in unused : TRUE}

\* agent.approval_request: parkOnApproval parks the turn whose watch hears it,
\* if that turn holds the lock.
AgentAsks(th, p) ==
    LET t == lane[th].active IN
    /\ Quiet
    /\ session[th].jobs # <<>>
    /\ ask' = [ask EXCEPT ![p].state = "pending", ![p].on = th]
    /\ \/ /\ t \in Watchers(th)
          /\ MarkAwaitingApproval(t, p)
          /\ Mirror(t, "AWAITING_APPROVAL")
       \/ /\ t \notin Watchers(th)
          /\ SameLock /\ SameRows
    /\ UNCHANGED <<gone, run, session>>

ReleaseApprovalHold_ignored(th, cancelled) == SameLock /\ SameRows

\* releaseApprovalHold, on agent.approval_cancelled: only the prompt it names.
ReleaseApprovalHold(th, cancelled) ==
    LET t == lane[th].active IN
    \/ /\ t \in Watchers(th)
       /\ \E p \in cancelled : OnHold(th, p)
       /\ ResumeFromApproval(t)
       /\ Mirror(t, "PROCESSING")
    \/ /\ ~ \E p \in cancelled : t \in Watchers(th) /\ OnHold(th, p)
       /\ SameLock /\ SameRows

\* The agent withdraws what it asked for.
WithdrawAsk(p) ==
    /\ Quiet
    /\ ask[p].state = "pending"
    /\ ask' = AskEnds({p}, "cancelled")
    /\ ReleaseApprovalHold(ask[p].on, {p})
    /\ UNCHANGED <<gone, run, session>>

\* A member stops the session: its prompts are cancelled, then it is idle.
StopSession(th) ==
    /\ Quiet
    /\ session' = [session EXCEPT ![th].jobs = <<>>]
    /\ ask' = AskEnds(Raised(th), "cancelled")
    /\ ReleaseApprovalHold(th, Raised(th))
    /\ EndWatches(Talkative(th), "answered")
    /\ UNCHANGED gone

\* A client answers the approval card itself, past the team's queue, or the
\* approval's own five minutes run out.  Neither tells the watch.
DecideElsewhere(p) ==
    /\ Quiet
    /\ ask[p].state = "pending"
    /\ ask' = AskEnds({p}, "decided")
    /\ SameLock /\ SameRows /\ UNCHANGED <<gone, run, session>>

Prompted(t) == lane[Home[t]].active = t /\ lane[Home[t]].state = "AWAITING_APPROVAL"

\* signalApproval: the answer a member recorded reaches the agent only if nobody
\* and nothing has decided the prompt before.
Decide(p) == [ask[p] EXCEPT !.state = IF @ = "pending" THEN "decided" ELSE @]

\* resolveTurnApproval, APPROVED: recorded, resumed, and then signalled.
ResolveApproved(t) ==
    LET p == turn[t].prompt IN
    /\ Quiet
    /\ Prompted(t)
    /\ ResumeFromApproval(t)
    /\ \/ /\ Save(t, "PROCESSING")
          /\ ask' = [ask EXCEPT ![p] = Decide(p)]
          /\ TrySync(Home[t])
       \/ Miss(t) /\ Unsynced(Home[t]) /\ Refused /\ UNCHANGED ask
    /\ UNCHANGED <<gone, run, session>>

\* resolveTurnApproval, REJECTED: recorded, signalled, whatever else the thread
\* asked for is cancelled, the lock is released, and the runner is told.
ResolveRejected(t) ==
    LET p == turn[t].prompt IN
    /\ Quiet
    /\ Prompted(t)
    /\ ask' = [AskEnds(Raised(Home[t]), "cancelled") EXCEPT ![p] = Decide(p)]
    /\ ReleaseTurn(t, "CANCELLED")
    /\ Save(t, "CANCELLED")
    /\ TrySync(Home[t])
    /\ run' = [run EXCEPT ![t].stage = "refused"]
    /\ UNCHANGED <<gone, session>>

----------------------------------------------------------------------------
(* Deletion, crash and restart.                                            *)

\* deleteTeamAgent: lanes and executor forget the thread, rows cascade away.
DeleteTeamAgent(th) ==
    /\ Quiet
    /\ th \notin gone
    /\ ClearThread(th)
    /\ gone' = gone \cup {th}
    /\ row' = [t \in Turns |-> IF Home[t] = th THEN "NONE" ELSE row[t]]
    /\ missed' = {t \in missed : Home[t] # th}
    /\ threadRow' = [threadRow EXCEPT ![th] = IdleRow]
    /\ unsynced' = unsynced \ {th}
    /\ session' = [session EXCEPT ![th].briefed = FALSE]
    /\ UNCHANGED <<run, ask, core>>

\* The DELETE is refused once the lanes and the executor have forgotten.
DeleteFails(th) ==
    /\ Quiet
    /\ th \notin gone
    /\ Refused
    /\ ClearThread(th)
    /\ missed' = missed \cup {t \in Turns : Home[t] = th /\ row[t] \in Unsettled}
    /\ unsynced' = unsynced \cup {th}
    /\ session' = [session EXCEPT ![th].briefed = FALSE]
    /\ UNCHANGED <<row, threadRow, gone, run, ask>>

\* Only the rows outlive the process.
Crash ==
    /\ core.up /\ core.mishaps < MaxMishaps
    /\ core' = [core EXCEPT !.up = FALSE, !.mishaps = @ + 1]
    /\ lane' = [th \in Threads |-> EmptyLane]
    /\ turn' = [t \in Turns |-> IF turn[t] = FreshTurn THEN FreshTurn
                  ELSE [FreshTurn EXCEPT !.status = "DROPPED", !.answer = "refused"]]
    /\ settled' = <<>>
    /\ run' = [t \in Turns |->
                 [stage |-> IF run[t].stage = "none" THEN "none" ELSE "lost",
                  watching |-> FALSE, heard |-> {}]]
    /\ session' = [th \in Threads |-> NoSession]
    /\ ask' = AskEnds({p \in Prompts : ask[p].state = "pending"}, "decided")
    /\ UNCHANGED <<row, missed, threadRow, unsynced, gone>>

Restart_failsCancelled ==
    /\ ~core.up
    /\ core' = [core EXCEPT !.up = TRUE]
    /\ row' = [t \in Turns |-> IF row[t] \in {"NONE", "COMPLETED"} THEN row[t] ELSE "FAILED"]
    /\ missed' = {} /\ unsynced' = {}
    /\ threadRow' = [th \in Threads |-> IdleRow]
    /\ UNCHANGED <<lane, turn, settled, gone, run, session, ask>>

\* recoverTurns, before the Core takes a request.
Restart ==
    /\ ~core.up
    /\ core' = [core EXCEPT !.up = TRUE]
    /\ row' = [t \in Turns |-> CASE row[t] \in Running -> "FAILED"
                                 [] row[t] = "QUEUED"  -> "CANCELLED"
                                 [] OTHER              -> row[t]]
    /\ missed' = {} /\ unsynced' = {}
    /\ threadRow' = [th \in Threads |-> IdleRow]
    /\ UNCHANGED <<lane, turn, settled, gone, run, session, ask>>

----------------------------------------------------------------------------
Continue(t) ==
    \/ EndWithdrawn(t)
    \/ StartTurn(t)
    \/ StartUnbound(t)
    \/ StartFails(t)
    \/ FinishTurn(t)

TeamNext ==
    \/ \E t \in Turns : \/ EnqueueTurn(t)
                        \/ EnqueueFails(t)
                        \/ Continue(t)
                        \/ CancelQueued(t)
                        \/ Timeout(t)
                        \/ ResolveApproved(t)
                        \/ ResolveRejected(t)
    \/ \E th \in Threads : \/ AgentSpeaks(th)
                           \/ AgentGoesIdle(th)
                           \/ AgentErrors(th)
                           \/ StopSession(th)
                           \/ DeleteTeamAgent(th)
                           \/ DeleteFails(th)
                           \/ \E p \in FreshPrompts : AgentAsks(th, p)
    \/ \E p \in Prompts : \/ WithdrawAsk(p)
                          \/ DecideElsewhere(p)
    \/ Crash
    \/ Restart

TeamSpec == TeamInit /\ [][TeamNext]_teamVars

\* Microtasks run, an armed timer fires, and a Core that stopped is started
\* again.  Nothing is asked of the agent or of the team.
TeamFairness ==
    /\ \A t \in Turns : WF_teamVars(Continue(t)) /\ WF_teamVars(Timeout(t))
    /\ WF_teamVars(Restart)

FairTeamSpec == TeamSpec /\ TeamFairness

----------------------------------------------------------------------------
(* Properties.                                                             *)

\* runTurn never runs anything before acquireTurn has answered true, and keeps
\* the lock until it ends, unless the lane was cleared under it.
RunnerHoldsLock ==
    \A t \in Turns : run[t].stage \in {"running", "answered", "failed"} =>
        Here(t).active = t \/ turn[t].status = "DROPPED"

\* The lock is never left with a turn that nobody will release: its runner is
\* about to go on, or waits on a watch whose timer is armed.  This must survive
\* refused writes, rejections and deletions (runTurn's finally).
NoStuckLock ==
    \A th \in Threads : \A t \in {lane[th].active} \cap Turns :
        \/ Granted(t)
        \/ Ended(t)
        \/ run[t].stage = "running" /\ run[t].watching

\* Between two turns of the event loop the durable row says what the lock says,
\* unless the row refused its last write.
RowsFollowLock ==
    Quiet => \A t \in Turns \ missed :
        turn[t].status \notin {"NEW", "DROPPED"} /\ Home[t] \notin gone =>
            row[t] = turn[t].status

\* The thread's row names the member being served, and nobody when it is free,
\* whatever the turns' rows refused; only the refusal of its own last write, or
\* of one that stands before it, leaves it behind (runTurn's swallows, the
\* parks, the releases, the answers).
ThreadRowAgrees ==
    Quiet => \A th \in Threads \ unsynced :
        threadRow[th] = [state |-> lane[th].state, by |-> lane[th].active]

\* A turn is not left parked on a prompt that was cancelled
\* (TeamTurnRunParams.onApprovalCancelled), even if no row can be written.
NotParkedOnCancelled ==
    \A th \in Threads, p \in Prompts : OnHold(th, p) => ask[p].state # "cancelled"

\* A recorded outcome is final: no late runner, second answer or recovery pass
\* overwrites it.
KeepsOutcomeRows == \A t \in Turns : row[t] \in Outcomes => row'[t] \in {row[t], "NONE"}
OutcomeRowStands == [][KeepsOutcomeRows]_teamVars

\* Every turn whose submission was accepted (enqueueTurn returned) gets an
\* outcome, whatever the agent does, unless its row goes with its thread or
\* refuses to be written or deleted.
EveryTurnSettles ==
    \A t \in Turns : (run[t].stage = "awaiting") ~>
                        (row[t] \in Outcomes \cup {"NONE"} \/ t \in missed)

(* What a comment of the code says and a run refutes.                       *)

\* A turn is done when it has produced output and gone idle
\* (TeamAgentService.ts:706-709): a completed turn heard its own output only.
AnswerIsOwn ==
    \A t \in Turns : turn[t].status = "COMPLETED" => run[t].heard = {t}

=============================================================================

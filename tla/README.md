# Asterim, verified: the Core's turns, approvals, MCP servers, delegations and pipelines

Asterim is a local "Core" (a Node.js server, `src/apps/server`) that runs coding
agents on a developer's machine and shares them with a team: dashboards talk to
the Core over sockets, the Core talks to agent CLIs over their pipes or a
terminal, and everything durable is in one SQLite database. The Core is one
event loop, so nothing runs in parallel; what makes it hard is everything that
can happen *between* two stretches of synchronous code: a promise that settled
and has not continued, a timer that meets an answer, a process that exits while
somebody awaits it, a write the database refuses, a Core that dies half way.

These modules model the parts of the Core where such orders decide whether it is
correct. TLC checks them on small instances, TLAPS proves the safety of all of
them for every instance.

    TurnService                  what the turn lock promises (abstract)
      ^ refinement (ServesInOrder)
    TurnLock  <-EXTENDS-  TeamTurns        the lock; the turns run under it
    Approvals                              a permission request, CLI to person and back
    ToolQueue <-EXTENDS-  McpServer        a queue of tool calls; the server it calls
    DelegationPromise                      what delegating promises (abstract)
      ^ refinement (PromiseKept)
    Delegation  -EXTENDS->  DelegationBoard  parents and children; the dashboard's banner
    Pipeline                               runs of step graphs, and their checkouts
    MC*.tla + *.cfg                        instances for TLC
    *_proofs.tla                           theorems for TLAPS

## 1. Inventory

Paths below are relative to `src/apps/server/src/services/` unless they start
with `src/`. "Modelled" is stated per part in PROJECT.json; this section says
what there is.

| Component | State it keeps | Operations | What must hold |
|---|---|---|---|
| Turn lock `ai/AgentTurnLock.ts` | per team thread: active turn, queue, lane state, waiters; a memory of settled turn ids | enqueue, acquireTurn, releaseTurn, cancelTurn, markAwaitingApproval, resumeFromApproval, clearThread | one turn at a time, in order; no caller forgotten; a settled turn stays settled |
| Team turns `ai/TeamAgentService.ts` | rows of `team_turn_queue` and `team_threads`; in-flight runners; the executor's watches on the event bus | enqueueTurn, runTurn, cancelTurn, resolveTurnApproval, deleteTeamAgent, recoverTurns; park and release on approval events | the lock always has a runner that releases it; rows follow the lock; every turn gets one final outcome, its own |
| Approvals `ApprovalManager.ts`, `src/packages/adapters/src/providers/claude/ClaudeAdapter.ts`, part of `AgentService.ts` | map of pending promises and timers; `approvals` rows; the adapter's open control requests | requestApproval, client answer, expiry, cancelApproval, cancelApprovalsForThread, recoverPendingApprovals; read control request, read cancel, respond | nothing allowed without a person; no promise lost; row and CLI agree; a decision is final |
| MCP supervisor `mcp/McpProcessSupervisor.ts` | per server: status, stopping, child, client, start in flight; the call queue | startServer, stopServer, restartServer, refreshCapabilities, list_changed, exit listener, callTool, SerialQueue.run | one call at a time; no caller forgotten; the status is true; stop returns when the process is gone; no orphan |
| Agent sessions `AgentService.ts`, `src/packages/adapters/src/sdk/` | map of sessions; restart counters and timers; session rows; command queue of each adapter | startAgent, stopAgent, restart, exit handler, input, settings | one session per thread; a stopped thread stays stopped; no restart of what was replaced |
| Delegation `ai/AgentDelegationService.ts` | delegation rows; parents parked on children (`waitingFor`); running delegations per parent with their abort and settle promises; batches | delegateTask, delegateParallel, the child's watch (answer, error, timeout), cancelDelegation, cancelAllDelegations, recoverDelegations | one outcome per child, told alike to everybody; a parent is parked exactly as long as children run, then released; limits of depth and number hold |
| Dashboard `src/apps/web/src/stores/useProjectStore.ts` | per parent: delegation state, pending children | apply started, parent state, completed, batch completed | the banner agrees with what runs |
| Pipelines `pipeline/PipelineEngine.ts` | run and step rows; map of active runs with their cancel reason; per run: statuses, attempts, checkouts, results | runPipeline, the scheduling loop, dispatch, retries, cancelPipeline, recoverRuns, synthesizeRun | a step runs on the whole of its input; nothing is tried after a failure or a cancellation; rows and run agree; every run ends |
| Worktrees, sandboxes `pipeline/WorktreeFleetService.ts`, `git/GitWorktreeService.ts` | directories and branches | provisionStep, settleStep, synthesize, remove | a branch holds what its step was built on; nobody's worktree is removed under them |
| Pairing `PairingService.ts`, `TokenService.ts` | code, attempts, tokens | pair, verify, rotate, revoke | attempts are counted once each |
| Migrations `MigrationEngine.ts`, `DatabaseService.ts` | schema version | migrate, back up | a version is applied wholly or not at all |
| Questions `QuestionManager.ts` | map of pending questions | ask, answer, cancel | as approvals, without row or timer |
| Terminal FSM `src/packages/adapters/src/providers/antigravity/` | screen state | parse, transition, publish | published states follow the screen's |
| Relay `src/apps/relay`, `RelayClient.ts` | rooms, sockets | join, forward, reconnect | frozen by the project |
| Event bus, sockets `EventBus.ts`, `src/apps/server/src/sockets/` | listeners, rooms | publish, subscribe | `publish` is synchronous: the models rely on it |
| The rest | - | shutdown, desktop daemon, verification, audit, policy, vault, memory, skills, parsers, views, routes | statements, text or views; see PROJECT.json for each |

How they interact. A team member's instruction goes to Team turns, which asks
the Turn lock, then Agent sessions; the session's output comes back as events on
the bus, which the executor's watch reads. A CLI that wants permission writes to
its pipe; the Claude adapter calls back into `AgentService.requestNativePermission`,
which calls `ApprovalManager.requestApproval`; its event is heard by every
dashboard and by the watch of the turn that is running, which parks the turn.
A person answers the card (Approvals) or the team's turn (Team turns, which then
signals Approvals). Pipelines and Delegation start sessions and await their
events. On boot `server.ts:376-406` recovers sessions, approvals, delegations,
turns and pipelines in that order. It does so after the listener is open (355),
but nothing between them waits for more than modules to load, so the models let
a restarted Core recover before it takes a request.

What is hard, and where each order bites, is the `hazards` list of PROJECT.json
(each at its line, each with the properties that would catch it or the reason why
none does yet).

## 2. The models

### What one action is

A Node event loop runs one callback to its end, then every settled promise's
continuation (microtasks), then the next event. So an action is one synchronous
stretch of code with everything it publishes (listeners run inside `publish`).
Where a continuation can be overtaken by nothing but a crash, the other events
are guarded by `Quiet` (no continuation is due). The exceptions are the places
where the code itself lets events in: between the lines of one stdout chunk
(`chunk` in Approvals) and in the queue's hand-over (`HandingOver` in ToolQueue).
A definition whose name has an underscore is a bug the definition before it
could have had; no specification uses it, the mutants of PROJECT.json do.

### TurnLock and TurnService (`AgentTurnLock.ts`)

`lane` is `lanes`, `turn` is what the lock and its caller know of each turn
(`answer` is acquireTurn's promise), `settled` is `settledTurns` with its bound.
One action per public operation; `acquireTurn` is four, one per early return.
`Pump` is the private `pump`, part of the operations that call it; `Enqueue`
does not. Left out: broadcasts, read-only queries, timestamps.

`TurnService` is the promise of the class comment (`AgentTurnLock.ts:10-21`): a
line per thread, of which the front alone is served. `ServesInOrder` says that
TurnLock implements it, with `line` the holder followed by the queue.

### TeamTurns (`TeamAgentService.ts`, over TurnLock)

EXTENDS TurnLock and conjoins its operations into the service's: `EnqueueTurn`
inserts a row and acquires; `StartTurn`, `StartUnbound`, `StartFails`,
`FinishTurn`, `EndWithdrawn` are the stretches of `runTurn`; `CancelQueued`,
`ResolveApproved`, `ResolveRejected`, `DeleteTeamAgent`, `Restart` (recoverTurns)
the requests; `EnqueueFails` and `DeleteFails` what is left when a write between
the row and the lock throws. `run` is runner and watch (`heard` is a history variable: whose
output the watch took as the turn's), `session` the messages the CLI still
serves, `ask` the approvals as the team sees them: whoever decides one, a member, a client or
its own five minutes, it is `decided`, and only a cancellation tells the watch.
A turn's row (`Miss`) and
its thread's row (`Unsynced`) are refused separately, at each place that writes
them: `missed` and `unsynced` hold those a refused write has left behind, until
the next one succeeds. `FinishTurn` swallows either refusal; `Mirror` tries the
thread's row only after the turn's; `EnqueueFails` has inserted a QUEUED row
when the transcript throws, so that no runner will ever take it up; `DeleteFails`
has cleared the lanes when the DELETE throws, so that a runner goes on without
its lock. Not refused in the model: recoverTurns (a Core whose boot fails), the
first writes of `ResolveRejected` (they throw before the lock has changed), the
INSERT of `enqueueTurn` (likewise). The CLI is external.

### Approvals (`ApprovalManager.ts`, `ClaudeAdapter.ts`, part of `AgentService.ts`)

`pipe` and `chunk` are the CLI's output and the chunk the adapter reads; `host`
is the promise of `requestNativePermission` (stage, aborted, verdict), `pending`
the manager's map with its timers, `row` the table, `said` a history variable:
what a person answered while the request was pending. `Update` and `Resolve` are
the two halves of every way a request ends: the UPDATE guarded by
`status = 'pending'`, which may be refused, and the promise. `CancelFor` is
`cancelApprovalsForThread`; three things call it. `StopAgent` may come for a thread
that has no process; it first cancels and then waits for the process, which
may still ask. `ProcessExits` either cancels at once or, when the exit handler
has a watcher to stop first, leaves the thread in `leaving`, and `ExitHandled`
cancels later, when the thread may have another process, which it then stops.
`RejectTurn` is the team's rejection: it denies the card it answers, if the
prompt had one, and cancels whatever else the thread asked, with its process up.
A crash with automatic restart cancels nothing. `RequestFails` denies a request
whose project cannot be read, with no row. AnswerCard is possible for a card
long decided.

### ToolQueue and McpServer (`McpProcessSupervisor.ts`, `McpStdioClient.ts`)

ToolQueue is `SerialQueue`. McpServer extends it with the supervised server:
`rt` is `RuntimeState` (with the handshakes and starts in flight), `proc` the
operating system's view of each child, `stop` the stopServer calls. Because
several promises continue after one event, and in an order that matters, the
code's pieces are operators from a runtime state to the next (`Handshake`,
`Rejected`, `ExitHandler`, `TerminateResolved`, `StartFrom`) and an action
composes them in the order Node runs them: exit listener, those who wait in
`terminate`, a restart's start, rejected handshakes' catch, spawn event. A spawn
may fail by an event or by throwing; the throw leaves the status STARTING with no
child, in which state every later start returns at once, until a stop.

### Delegation, DelegationBoard and DelegationPromise (`AgentDelegationService.ts`)

A delegation is one asynchronous function (`runDelegation`) and `pc` says where
it waits: for its worktree, for its session, for its verification. `parent` and
`status` are the row, `waiting` and `active` the service's two maps, `watch` what
`watchChild` has seen of the session, `batches` the delegateParallel calls that
await their children, `call` the cancellations in flight: each waits for the
settle promises of the children it found and collects their outcomes. `shown` is
the last state published for a parent. `DelegateTask` and `DelegateParallel` are
everything up to the first await, refusals included as guards; `Shed` is the tail
of `runDelegation` (unpark, release, report, settle, finally). The worktree, the
sessions and the verification are external: each may end either way.

`DelegationBoard` is the part of the dashboard's store that the published events
drive (`applyDelegationStarted` and its siblings); Delegation applies its
operators where it publishes. `DelegationPromise` says what a caller may rely on:
a child closes once; one that was stopped closes as FAILED; whoever asked is told
what the row says. `PromiseKept` maps `pc`, `status`, `cancelled` and `watch` to
the stage of each child, and the answers collected by the cancellations to `told`.

### Pipeline (`PipelineEngine.ts`, `WorktreeFleetService.ts`)

A run is one asynchronous function too. `run`, `row` and `tries` are its rows,
`reason` the `cancelReason` of the active map, `stopped` the local that is read
once per batch, `batch`/`todo`/`going` the loops over a batch, `outcome` the last
attempt's answer. `branch` is what git holds: for each step, the steps whose work
is on its branch, as `provisionStep` (tips of the direct dependencies) and
`settleStep` make it. `Round` is the loop's head and tail: end, or dispatch the
next batch; `StartAgents` follows the last checkout without a pause, and
`Yields` names the awaits at which a cancellation can come in. The agents are
Delegation as seen from here: they end, and `cancelAllDelegations` waits for
those it found.

Git fails in two ways. Where the code throws (a checkout, a merge, a commit), the
step fails. Where it asks git through `tryExec` it takes null for an answer: an
ancestor whose tip cannot be named is left out of the input (`lost`), and work
that `git status` did not show is not committed though the step passes
(`unsaved`). The rows fail in two ways as well. `OpenBreaks` is a throw ahead of
the try of runPipeline: the run's row stays RUNNING, and if a subscriber to the
first publish threw, the map keeps the run too (place `stuck`). `Breaks` is a
throw that runPipeline catches: a prefix of the rows the loop was writing is
written (`Remaining`, `Beginning`), then the catch fails what is not over, and
may itself be refused, before the steps' rows or between them and the run's
(`trouble`).

## 3. What the runs show

| Run | States | Properties | Bounds |
|---|---|---|---|
| TurnLock | 53 thousand | LockTypeOK, OnePlace, WaiterIsBehindHolder, LaneAgrees, OutcomeStands, ServesInOrder, EveryCallerAnswered | 1 thread, 3 turns, 1 prompt, memory of 2 |
| TeamTurns | 628 thousand | TeamTypeOK, RunnerHoldsLock, NoStuckLock, RowsFollowLock, ThreadRowAgrees, NotParkedOnCancelled, OutcomeRowStands, EveryTurnSettles | 2 turns, 2 prompts, 1 mishap (a step with one or two refused writes, or a crash) |
| Approvals | 295 thousand | TypeOK, RowTellsOutcome, AllowedOnlyByAPerson, PendingIsAwaited, DecisionStands, CancelsItsThread, EveryAskAnswered | 1 thread, 2 requests, 1 refused call, 1 crash |
| McpServer_calls | 392 thousand | TypeOK, OneCallAtATime, NoLostWaiter, StatusIsTrue, StoppedIsGone, EveryCallSettles, EveryStopReturns | 3 calls, depth 1, 2 children, 3 handshakes, a stop and a restart |
| Delegation | 600 thousand | DelegationTypeOK, WithinLimits, ParkedIsOwed, BannerIsLive, PromiseKept, EveryoneIsReleased | 3 children, depth 2, 2 at a time, 1 caller that cancels again and again, 1 restart |
| Pipeline | 164 thousand | PipelineTypeOK, InputIsWhole, RunTellsSteps, NothingMoreIsTried, EveryRunEnds | 1 run of 5 steps, 2 at a time, 1 retry, 2 throws or restarts; git may hide an answer at any step |

Why these bounds are enough to meet the cases. Three turns on one lane are a
holder, one to withdraw from the middle and one behind it; a memory of two
settled turns overflows with three, which is when `markSettled` forgets. That two
lanes do not touch is proved (section 4). Two turns of a team suffice for a
runner that still unwinds while its successor runs; two prompts for a second
prompt on a parked turn. One mishap can refuse a turn's row, its thread's, or
both; what is left behind lasts, so the rest of the run shows what follows from
it. Two requests on one thread share a pipe, a chunk, a stop and an exit; that
what is done to one thread touches no other (the first half of CancelsItsThread)
needs a second thread, which no run has, and is proved for any number of them.
Depth 1 with three calls has a running, a waiting and a refused one; two children are a child and
the one that replaced it, three sessions an overtaken refresh. Three children are
a batch of two with a task beside it, a chain down to the depth that is refused,
and one more than may run at once. The five steps are two roots of which one may
be retried, a join of both, a step behind the join, and beside it a step that
opts out of its checkout, so that a batch mixes both kinds; every batch may fail,
be cancelled at each of its awaits, or lose the database. The faults may strike at
any step, and the silent failures of git are not bounded at all.

Every run but TurnLock (where a thread can always be removed) says CHECK_DEADLOCK
FALSE: turns, requests, calls, stops, children and runs are finite and each is
used once, so the bounded system really comes to an end, which TLC would
call a deadlock. That nobody is stuck before that end is what NoStuckLock,
WaiterIsBehindHolder, NoLostWaiter and the liveness properties are for.

Fairness. *TurnLock*: whoever enqueued a turn acquires it, a holder releases it;
this is what acquireTurn's comment obliges its caller to, and in TeamTurns it is
not assumed but checked and proved (NoStuckLock, RunnerHoldsLock), because `runTurn`
releases in its `finally`. *TeamTurns*: promises continue, an armed timer fires
(each prompt re-arms it, but prompts are finitely many), a Core that stopped is
started again; the agent and the team owe nothing. *Approvals*: a pipe is read, a
chunk ends, promises continue, the five-minute timer fires; nobody owes an
answer. *McpServer*: promises continue, a tool call has a time limit and its
ending is therefore fair, SIGKILL ends a child that is being stopped; no server
owes an answer or an exit of its own accord. *Delegation*: promises continue and
a child's timer fires, so a watch ends whatever the agent does; the provisioning
of a worktree and the verification end (both are subprocesses with a time limit);
nobody owes a delegation or a cancellation. *Pipeline*: promises continue, git
ends, and every agent ends, which is what EveryoneIsReleased of Delegation shows;
no run need be started.

### Where the code does not do what it says

Six runs expect a violation; each checks one sentence of the code's comments.

- **TeamTurns_own_answer** (`TeamAgentService.ts:872`): output followed by idle
  completes the turn, also when it belongs to the brief sent before the
  instruction, or to an earlier turn that timed out.
- **Approvals_crashed** (`AgentService.ts:559`): a crash that is restarted
  automatically leaves the dead process's requests pending; the comment of
  `cancelApproval` (`ApprovalManager.ts:306-312`) names "a session that crashed".
- **McpServer_session** (`McpProcessSupervisor.ts:652`): a failed re-read, or
  one overtaken by another, leaves a RUNNING server without a session; 754-756
  promise "stale is better than empty".
- **McpServer_orphan** (`McpProcessSupervisor.ts:532`): a start made while a
  failed start's child is being terminated ends with a child nobody names; 916
  and 932-935 say that every child is stopped.
- **Pipeline_cancelled** (`PipelineEngine.ts:785`): a cancellation that comes
  while checkouts are being made finds no child to stop and returns true; the
  agents are started behind it. 1054 says that it stops "everything it has
  running".
- **Pipeline_delivered** (`PipelineEngine.ts:533`): a run cancelled while its
  last agent is answering ends PASSED, with that step's work on no branch; the
  branch that synthesizeRun then builds lacks it, against 1247-1250.

Also against a sentence of the code, and taken by the models, but not kept as
runs:

- a deletion the database refuses has already cleared the lanes
  (`TeamAgentService.ts:1146-1150`), so the next submission is served beside the
  turn that still runs; `AgentTurnLock.ts:12-14` promises one at a time
  (`DeleteFails`, then `EnqueueTurn`);
- a request withdrawn in the chunk that raises it gets its card all the same,
  since `requestApproval` calls `onActionId` before the map knows the request
  (`ApprovalManager.ts:405`); `AgentService.ts:772-774` says that "the card must go
  with it" (`ReadControlCancel` between `ReadControlRequest` and
  `RequestApproval`);
- git fails to name an ancestor's tip, and the step is started on what remains
  (`WorktreeFleetService.ts:206`); `PipelineEngine.ts:722-724` calls this "a
  question nobody asked" (`Provision` with a step in `gone`);
- git fails to say whether a checkout has changed, and the step passes with its
  work uncommitted (`WorktreeFleetService.ts:292`), against
  `PipelineEngine.ts:530-532` and `WorktreeFleetService.ts:306` (`Record` with the
  verdict `unsaved`);
- a refused INSERT of a step's row leaves the run's row RUNNING with nobody at work
  on it (`PipelineEngine.ts:403`); 342 says that "the run always reaches a terminal
  status" (`OpenBreaks`).

Found by reading beside them: a timeout of an approval publishes nothing, so a turn
stays parked on the prompt that expired until its own time is up
(`ApprovalManager.ts:427`; `TeamAgentService.ts:671-673` says it must not); the
dashboard's banner is cleared by a batch that completes while another delegation
still parks the thread (`useProjectStore.ts:741` against 650-651 and 670-672); two
runs of one pipeline can both pass the check for a run in progress
(`PipelineEngine.ts:385`); a step that opts out of its checkout cuts the chain of
branches (841-843).

Seen while modelling, without a run, since no sentence of the code promises
otherwise: a thread being stopped may still raise a request (`AgentService.ts:958`),
and an exit handler that waited may cancel the requests of the process that came
after the one it was called for (`AgentService.ts:587`); a submission whose
transcript is refused leaves a QUEUED row until the next boot
(`TeamAgentService.ts:1346`); a spawn that throws leaves a server STARTING, and it
is not started again before it has been stopped (`McpProcessSupervisor.ts:515`); the verdict a team records can
differ from the one the agent got, when the card was answered first
(`TeamAgentService.ts:1643`); a second prompt of one turn overwrites the first
in the lane (`AgentTurnLock.ts:278`); recovered pending rows have no timer
(`ApprovalManager.ts:478`); `terminate` of a child that a signal ended during its
handshake waits for ever, so that start never returns and `stopping` stays set
(`McpProcessSupervisor.ts:832`); calls that wait in line across a refresh fail,
because they hold the session they saw (723).

## 4. What is proved

TLAPS checks every leaf, for any sets of threads, turns, requests, calls, runs
and steps and any bounds. The assumptions are those in the modules: every turn and request has
one thread, null values are not members, bounds are naturals, a pipeline's graph
has no cycle (its definition is refused otherwise).

**TurnLock_proofs** - type correctness, OnePlace, WaiterIsBehindHolder, and
LaneAgrees with its parts (AnswersAgree, StateAgrees, PromptUnderParkedTurn). None of them is inductive
alone: a waiter is answered only because it is in the queue, which needs that it
is there once, which needs that no settled or running turn re-enters. The
invariant is `Good(lane, turn, settled)`, a predicate on the three values rather
than the variables, and "nobody awaits a free lane". The operations first change
a lane, then pump it; in between the second half may be false. So the proof has
one lemma for the pump (from Good values to Good values with nobody awaiting a
free lane), and each operation shows Good for what it hands to it.

OutcomeStands needs nothing more: a remembered turn is in no lane (`TurnGood`),
and every operation writes the status of the lane's holder, of a turn in its
queue, or of one the lock does not know.

**TurnService_proofs** - ServesInOrder, the refinement: each operation followed
by its pump is one step of the abstract line, and the pump leaves the line as it
is (the head moves from the queue to `active`, and both are the front). The lock's
invariant supplies that a cancelled or released turn is in the line once.

**TeamTurns_proofs** - everything the run TeamTurns checks but its liveness: type
correctness, RunnerHoldsLock, NoStuckLock, RowsFollowLock, ThreadRowAgrees,
NotParkedOnCancelled and the action property OutcomeRowStands. Every step of the
service does to the lock what one of its operations does, or nothing, or loses it
in a crash, so the invariant of TurnLock_proofs holds here as well; it makes a
turn's place in its lane a function of the turn's status. On top of it `TeamInv`
relates, turn by turn, the stage of the runner to that status (`RunnerGood`) and
the status to the row (`RowGood`), and thread by thread the lane to the thread's
row and to the prompts it was raised for. What the properties do not say and the
proof needs: a turn in line is awaited by its runner (so a free lane has an empty
line, and a release serves the next at once); a turn in line, or granted and not
started, has the row QUEUED; a turn that runs has no outcome in its row, also when
its lane was cleared under it; a prompt is known to the thread that raised it; and
a Core that is down has lost every lane. RunnerHoldsLock excepts a turn whose
lane was cleared (DROPPED), RowsFollowLock a turn whose own last write was
refused, ThreadRowAgrees a thread whose own was, or was not reached, and nothing
else: a refused row of a turn does not excuse its thread. The steps share three lemmas: a runner's step that leaves the lock
alone (RunnerStep), the end of a hold (ResumeStep), and a release with the grant
that follows (ReleaseStep).

**Delegation_proofs** - type correctness, WithinLimits, ParkedIsOwed and
BannerIsLive. The invariant says that the two maps name the same children, that
these are the children whose runner has not shed its parent (`MapsAgree`), that
what was last published agrees with the maps (`Published`), and what each place
of a runner, a batch or a cancellation implies for its child's row. The depth of
a thread is a recursive function over the parents' rows; that it is defined, and
bounded, for every thread is carried as a part of the invariant, since it cannot
be had by induction here: a new child is below a thread that is there, so it is
one deeper and every other thread keeps its depth. Assumed of the constants: the children are finitely many
(ids the process draws in its life), and `None` is neither a thread nor a child.

**DelegationPromise_proofs** - PromiseKept, the refinement, on top of the same
invariant: its first states map to first states, and every step maps to a step of
DelegationPromise or to a stutter.

**Approvals_proofs** - type correctness, AllowedOnlyByAPerson, PendingIsAwaited,
RowTellsOutcome, and the action properties DecisionStands and CancelsItsThread.
The invariant `RequestGood` follows one request through the stages of its
promise: what its row, the person's answer and the CLI may be at each. It is
inductive only with `PipeGood`: the line that asks is in the pipe once and only
while its promise does not exist, or reading it again would ask for what was
already decided; and the line that withdraws is there once and only while the
promise is not aborted. Answers, expiry, stop, exit, a team's rejection and
withdrawal share one lemma (DecidedStaysGood): a set of pending requests is
resolved, and rows outside it keep their word. CancelsItsThread needs from it that
a cancelled row had a pending request of the thread that was cancelled (or was
withdrawn, which aborts that one promise and no other). That lemma is where the guard `status = 'pending'` of the UPDATE
is used, and where AnswerCard's late answers turn out harmless.

**McpServer_proofs** - type correctness, OneCallAtATime, NoLostWaiter,
StatusIsTrue, StoppedIsGone. The invariant has two halves that share no
variable: `Lined` for the queue (the slot or its heir is one call; the line holds
the waiting calls once each) and `Supervised` for the processes (the supervised
child and every awaited child are alive). OneCallAtATime is not inductive: while
a woken call has not continued, `active` is false although the slot is taken.

**Pipeline_proofs** - type correctness (with the bound on attempts), InputIsWhole,
RunTellsSteps and the action property NothingMoreIsTried, for any graph without a
cycle, any retries and parallelism, any number of runs and faults. The invariant
`RunGood` says what the rows of the batch, and of all other steps, may be at each
place of the run. InputIsWhole needs two things the property does not say: a step
whose row is not PENDING has only PASSED steps before it, so no branch changes
under a step that was chained from it (`Rows`), and a step that passed before the
run was stopped has committed, or git took its work for none (`Committed`). A run
that was stopped is where the second fails, which is Pipeline_delivered. What
InputIsWhole excepts is what git hid, ancestor by ancestor (`lost`) and step by
step (`unsaved`), and the chain through a step that opts out of its checkout: such
a step has no branch, so neither it nor what came before it is asked for behind
it. That a loop which finds nothing ready has run everything is where the graph's
acyclicity is used (RoundGood). NothingMoreIsTried says that an attempt begins
only when no agent of the run works, nobody cancelled, the step has not completed,
and no step's row is FAILED, SKIPPED or CANCELLED. It does not say that no step of
the same batch has failed for good: of one batch, a step with an attempt left is
tried again before the other's failure is recorded. BeginningGood is the lemma that
the rows a loop begins to write, even if it throws among them, are of such steps.

Every invariant and action property of the passing runs, and both refinements,
are thereby proved. Only model-checked: the liveness properties
(EveryCallerAnswered, EveryTurnSettles, EveryAskAnswered, EveryCallSettles,
EveryStopReturns, EveryoneIsReleased, EveryRunEnds). Liveness under fairness,
ENABLED and induction over data are beyond this prover and stay with TLC, and so
do the six runs that expect a violation.

## 5. Not modelled, and the plan

Not modelled yet: agent sessions except for what they do to their requests,
pipeline triggers and synthesis, the removal of worktrees, pairing, migrations,
questions, terminal FSM, relay. Left out of the modelled parts: wording and
transcripts, permission policy (who may answer), security analysis of a command,
capability contents, settings and configuration rows, profile resolution, and the
sessions that a delegation's report starts. Refused writes left out, and what the
code does there: in Delegation, a batch of which no row could be written, for
which ACTIVE and BATCH_COMPLETED are published all the same
(`AgentDelegationService.ts:877-891`), a refused outcome is caught and the caller
told what the row does not say (757-765), and the UPDATE that adopts a sandbox may
throw to the same catch (1336-1338); in Pipeline, writes of `cancelPipeline` and
`recoverRuns`, and a commit that was made before the row of its step is refused
(the branch then holds work of a step that is FAILED, from which nothing is
chained). Pure I/O and single statements
(audit, vault, memory, routes, views) have nothing a model checker would add to
their tests.

Order of the work, most important behaviour first:

1. done: TurnLock, TurnService, TeamTurns, Approvals, ToolQueue, McpServer,
   Delegation, DelegationBoard, DelegationPromise, Pipeline, and the proofs above.
2. `AgentSession` (AgentService, SessionManager, BaseAdapter): two messages that
   both start a session (242), the crash-restart timer that outlives a stop
   (555), stopAgent stopping a session that replaced the one it waited for (997).
   Properties: one live process per thread, a stopped thread stays stopped, every
   queued command is written or reported. It then composes with Approvals, whose
   StartAgent and Process* actions become its own.
   Two starts for one message are within reach: Delegation's runner publishes a
   start and a message at once.
3. `Pairing` (attempt accounting), `Migration` (a crash between versions),
   `TerminalFSM`, questions as an instance of Approvals.
4. Abstract specifications: a permission gate (asked, decided once, by a person or
   refused) that Approvals implements; a turn ledger (queued, running, one
   outcome) that TeamTurns implements.
5. Proofs: those of the abstract specifications of 4, over the invariants of
   section 4, and of the components of 2 and 3 as they are modelled.
6. Pipeline with Delegation in place of its external agents, and DelegationBoard
   with events lost while a socket is away.

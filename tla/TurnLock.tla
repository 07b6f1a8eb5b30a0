------------------------------ MODULE TurnLock ------------------------------
(***************************************************************************)
(* The turn lock of a shared team agent                                    *)
(* (apps/server/src/services/ai/AgentTurnLock.ts).                         *)
(*                                                                         *)
(* Every team thread has one lane: the turn that holds the lock, the turns *)
(* that wait for it in order of arrival, and the acquireTurn callers that  *)
(* have not been answered.  Every operation is synchronous, so each is one *)
(* step, and the pump that ends most of them belongs to the step.          *)
(*                                                                         *)
(* A lane that does not exist and an empty lane answer every operation     *)
(* alike, so lanes are total on Threads.  A turn's id is fresh when it is  *)
(* enqueued and its thread never changes: Home.  Each caller in src/       *)
(* acquires a turn once, so the answer belongs to the turn.                *)
(***************************************************************************)
EXTENDS Naturals, Sequences

CONSTANTS
    Threads,        \* team threads
    Turns,          \* turn ids
    Home,           \* the thread each turn belongs to
    Prompts,        \* action ids of the approvals an agent may ask for
    SettledMemory,  \* AgentTurnLock.SETTLED_MEMORY, 2000 in the code
    NoTurn,         \* a lane nobody holds
    NoPrompt        \* a turn that carries no pending approval

ASSUME HomeAssumption == Home \in [Turns -> Threads]
ASSUME SettledMemoryAssumption == SettledMemory \in Nat \ {0}
ASSUME NullAssumption == NoTurn \notin Turns /\ NoPrompt \notin Prompts

VARIABLES
    lane,     \* the lanes, by thread
    turn,     \* what the lock and its caller know of each turn
    settled   \* ids of turns that ended, oldest first

lockVars == <<lane, turn, settled>>

----------------------------------------------------------------------------
Outcomes == {"COMPLETED", "FAILED", "CANCELLED"}
Running  == {"PROCESSING", "AWAITING_APPROVAL"}
LaneStates == {"IDLE", "PROCESSING_TURN", "AWAITING_APPROVAL"}

\* NEW: never enqueued.  DROPPED: its lane was cleared while it was there.
Statuses == {"NEW", "QUEUED", "DROPPED"} \cup Running \cup Outcomes

\* What acquireTurn's promise has answered: nothing was asked, no answer yet,
\* true, false.
Answers == {"unasked", "pending", "granted", "refused"}

Lane == [active  : Turns \cup {NoTurn},
         queue   : Seq(Turns),
         state   : LaneStates,
         waiters : SUBSET Turns]

Turn == [status : Statuses,
         prompt : Prompts \cup {NoPrompt},
         answer : Answers]

LockTypeOK ==
    /\ lane \in [Threads -> Lane]
    /\ turn \in [Turns -> Turn]
    /\ settled \in Seq(Turns)

EmptyLane == [active |-> NoTurn, queue |-> <<>>, state |-> "IDLE", waiters |-> {}]
FreshTurn == [status |-> "NEW", prompt |-> NoPrompt, answer |-> "unasked"]

LockInit ==
    /\ lane = [th \in Threads |-> EmptyLane]
    /\ turn = [t \in Turns |-> FreshTurn]
    /\ settled = <<>>

----------------------------------------------------------------------------
Members(s) == {s[i] : i \in DOMAIN s}

\* The queue without its i-th entry.
Without(s, i) == [j \in 1..(Len(s) - 1) |-> IF j < i THEN s[j] ELSE s[j + 1]]

Here(t) == lane[Home[t]]

\* markSettled: the newest id joins, the oldest leaves once the memory is full.
Remember(t) ==
    LET known == IF t \in Members(settled) THEN settled ELSE Append(settled, t)
    IN  IF Len(known) > SettledMemory THEN Tail(known) ELSE known

\* pump hands a free lock to the head of the queue, and answers the head's
\* caller if it is already waiting.
Grants(l) == l.active = NoTurn /\ l.queue # <<>>

Pumped(l) ==
    IF Grants(l)
    THEN [active  |-> Head(l.queue),
          queue   |-> Tail(l.queue),
          state   |-> "PROCESSING_TURN",
          waiters |-> l.waiters \ {Head(l.queue)}]
    ELSE l

Served(l, known) ==
    IF Grants(l)
    THEN [known EXCEPT
            ![Head(l.queue)].status = "PROCESSING",
            ![Head(l.queue)].answer = IF Head(l.queue) \in l.waiters THEN "granted" ELSE @]
    ELSE known

\* An operation leaves its lane as l and its turns as known; the pump follows.
Pump(th, l, known) ==
    /\ lane' = [lane EXCEPT ![th] = Pumped(l)]
    /\ turn' = Served(l, known)

----------------------------------------------------------------------------
(* The operations.  A definition whose name has an underscore is a bug the *)
(* operation under it could have had; no specification uses it, and the    *)
(* mutants of PROJECT.json show which property each one breaks.            *)

\* enqueue fixes a turn's place in line; it does not pump.
Enqueue(t) ==
    /\ turn[t].status = "NEW"
    /\ lane' = [lane EXCEPT ![Home[t]].queue = Append(@, t)]
    /\ turn' = [turn EXCEPT ![t].status = "QUEUED"]
    /\ UNCHANGED settled

\* acquireTurn on the turn the pump has already granted.
AcquireHeld(t) ==
    /\ turn[t].answer = "unasked"
    /\ Here(t).active = t
    /\ turn' = [turn EXCEPT ![t].answer = "granted"]
    /\ UNCHANGED <<lane, settled>>

\* acquireTurn on a turn that ended while the caller was on its way.
AcquireSettled(t) ==
    /\ turn[t].answer = "unasked"
    /\ Here(t).active # t
    /\ t \notin Members(Here(t).queue)
    /\ t \in Members(settled)
    /\ turn' = [turn EXCEPT ![t].answer = "refused"]
    /\ UNCHANGED <<lane, settled>>

\* acquireTurn on a turn that waits in line.
AcquireQueued(t) ==
    /\ turn[t].answer = "unasked"
    /\ Here(t).active # t
    /\ t \in Members(Here(t).queue)
    /\ Pump(Home[t],
            [Here(t) EXCEPT !.waiters = @ \cup {t}],
            [turn EXCEPT ![t].answer = "pending"])
    /\ UNCHANGED settled

AcquireUnseen_forgetsSettled(t) ==
    /\ turn[t].answer = "unasked"
    /\ Here(t).active # t
    /\ t \notin Members(Here(t).queue)
    /\ Pump(Home[t],
            [Here(t) EXCEPT !.queue = Append(@, t), !.waiters = @ \cup {t}],
            [turn EXCEPT ![t] = [status |-> "QUEUED", prompt |-> NoPrompt, answer |-> "pending"]])
    /\ UNCHANGED settled

\* acquireTurn on an id the lock does not know: it takes a place in line.
AcquireUnseen(t) ==
    /\ turn[t].answer = "unasked"
    /\ Here(t).active # t
    /\ t \notin Members(Here(t).queue)
    /\ t \notin Members(settled)
    /\ Pump(Home[t],
            [Here(t) EXCEPT !.queue = Append(@, t), !.waiters = @ \cup {t}],
            [turn EXCEPT ![t] = [status |-> "QUEUED", prompt |-> NoPrompt, answer |-> "pending"]])
    /\ UNCHANGED settled

AcquireTurn(t) ==
    \/ AcquireHeld(t)
    \/ AcquireSettled(t)
    \/ AcquireQueued(t)
    \/ AcquireUnseen(t)

ReleaseTurn_noPump(t, outcome) ==
    /\ Here(t).active = t
    /\ lane' = [lane EXCEPT ![Home[t]].active = NoTurn, ![Home[t]].state = "IDLE"]
    /\ turn' = [turn EXCEPT ![t].status = outcome]
    /\ settled' = Remember(t)

ReleaseTurn_anyTurn(t, outcome) ==
    /\ Here(t).active # NoTurn
    /\ Pump(Home[t],
            [Here(t) EXCEPT !.active = NoTurn, !.state = "IDLE"],
            [turn EXCEPT ![t].status = outcome])
    /\ settled' = Remember(t)

\* releaseTurn: ignored unless the turn holds the lock.
ReleaseTurn(t, outcome) ==
    /\ Here(t).active = t
    /\ Pump(Home[t],
            [Here(t) EXCEPT !.active = NoTurn, !.state = "IDLE"],
            [turn EXCEPT ![t].status = outcome])
    /\ settled' = Remember(t)

CancelTurn_swapsLast(t) ==
    \E i \in DOMAIN Here(t).queue :
        /\ Here(t).queue[i] = t
        /\ LET q == Here(t).queue
               swapped == [q EXCEPT ![i] = q[Len(q)]] IN
           Pump(Home[t],
                [Here(t) EXCEPT !.queue = SubSeq(swapped, 1, Len(q) - 1), !.waiters = @ \ {t}],
                [turn EXCEPT ![t].status = "CANCELLED",
                             ![t].answer = IF t \in Here(t).waiters THEN "refused" ELSE @])
        /\ settled' = Remember(t)

\* cancelTurn: only a turn that still waits; its caller is answered false.
CancelTurn(t) ==
    \E i \in DOMAIN Here(t).queue :
        /\ Here(t).queue[i] = t
        /\ Pump(Home[t],
                [Here(t) EXCEPT !.queue = Without(@, i), !.waiters = @ \ {t}],
                [turn EXCEPT ![t].status = "CANCELLED",
                             ![t].answer = IF t \in Here(t).waiters THEN "refused" ELSE @])
        /\ settled' = Remember(t)

MarkAwaitingApproval_anyTurn(t, prompt) ==
    /\ Here(t).active # NoTurn
    /\ lane' = [lane EXCEPT ![Home[t]].state = "AWAITING_APPROVAL"]
    /\ turn' = [turn EXCEPT ![t].status = "AWAITING_APPROVAL",
                            ![t].prompt = IF prompt = NoPrompt THEN @ ELSE prompt]
    /\ UNCHANGED settled

\* markAwaitingApproval: a park without details keeps the details it had.
MarkAwaitingApproval(t, prompt) ==
    /\ Here(t).active = t
    /\ lane' = [lane EXCEPT ![Home[t]].state = "AWAITING_APPROVAL"]
    /\ turn' = [turn EXCEPT ![t].status = "AWAITING_APPROVAL",
                            ![t].prompt = IF prompt = NoPrompt THEN @ ELSE prompt]
    /\ UNCHANGED settled

ResumeFromApproval_keepsPrompt(t) ==
    /\ Here(t).active = t
    /\ lane' = [lane EXCEPT ![Home[t]].state = "PROCESSING_TURN"]
    /\ turn' = [turn EXCEPT ![t].status = "PROCESSING"]
    /\ UNCHANGED settled

ResumeFromApproval_wrongState(t) ==
    /\ Here(t).active = t
    /\ lane' = [lane EXCEPT ![Home[t]].state = "PROCESSING"]
    /\ turn' = [turn EXCEPT ![t].status = "PROCESSING", ![t].prompt = NoPrompt]
    /\ UNCHANGED settled

\* resumeFromApproval: the prompt goes as the turn resumes.
ResumeFromApproval(t) ==
    /\ Here(t).active = t
    /\ lane' = [lane EXCEPT ![Home[t]].state = "PROCESSING_TURN"]
    /\ turn' = [turn EXCEPT ![t].status = "PROCESSING", ![t].prompt = NoPrompt]
    /\ UNCHANGED settled

ClearThread_silent(th) ==
    LET inLane(t) == t = lane[th].active \/ t \in Members(lane[th].queue)
    IN  /\ lane' = [lane EXCEPT ![th] = EmptyLane]
        /\ turn' = [t \in Turns |->
               [turn[t] EXCEPT !.status = IF inLane(t) THEN "DROPPED" ELSE @]]
        /\ UNCHANGED settled

\* clearThread: every waiter is answered false and the lane is forgotten.  The
\* turns in it never settle.
ClearThread(th) ==
    LET inLane(t) == t = lane[th].active \/ t \in Members(lane[th].queue)
    IN  /\ lane' = [lane EXCEPT ![th] = EmptyLane]
        /\ turn' = [t \in Turns |->
               [turn[t] EXCEPT
                  !.status = IF inLane(t) THEN "DROPPED" ELSE @,
                  !.answer = IF t \in lane[th].waiters THEN "refused" ELSE @]]
        /\ UNCHANGED settled

LockNext ==
    \/ \E t \in Turns : Enqueue(t)
    \/ \E t \in Turns : AcquireTurn(t)
    \/ \E t \in Turns, o \in Outcomes : ReleaseTurn(t, o)
    \/ \E t \in Turns : CancelTurn(t)
    \/ \E t \in Turns, p \in Prompts \cup {NoPrompt} : MarkAwaitingApproval(t, p)
    \/ \E t \in Turns : ResumeFromApproval(t)
    \/ \E th \in Threads : ClearThread(th)

LockSpec == LockInit /\ [][LockNext]_lockVars

\* A caller that enqueued a turn goes on to acquire it, and a turn that holds
\* the lock is released: acquireTurn's comment obliges every caller to, and
\* runTurn does so in its finally (TeamAgentService.ts:1461).
LockFairness ==
    \A t \in Turns :
        /\ WF_lockVars(turn[t].status # "NEW" /\ AcquireTurn(t))
        /\ WF_lockVars(\E o \in Outcomes : ReleaseTurn(t, o))

FairLockSpec == LockSpec /\ LockFairness

----------------------------------------------------------------------------
(* Properties.                                                             *)

Waiting(th) == Members(lane[th].queue)

\* A turn is in one place only: it holds its own lane, waits there once, or is
\* remembered as settled.  This is what stops one instruction from being served
\* twice, or a withdrawn one from being served at all.
OnePlace ==
    /\ \A th \in Threads :
          /\ lane[th].active \in Turns => Home[lane[th].active] = th
          /\ \A t \in Waiting(th) : Home[t] = th /\ t # lane[th].active
          /\ \A i, j \in DOMAIN lane[th].queue :
                lane[th].queue[i] = lane[th].queue[j] => i = j
    /\ \A t \in Members(settled) : Here(t).active # t /\ t \notin Waiting(Home[t])

\* No lost wake-up: whoever awaits acquireTurn stands in the queue behind a turn
\* that holds the lock, so some later release or cancellation answers it.
WaiterIsBehindHolder ==
    \A th \in Threads : \A t \in lane[th].waiters :
        t \in Waiting(th) /\ lane[th].active # NoTurn

\* acquireTurn's promise and the lane agree: an unanswered caller is a waiter,
\* and a turn still in line has not been told it may run.
AnswersAgree ==
    \A t \in Turns :
        /\ turn[t].answer = "pending" <=> t \in Here(t).waiters
        /\ t \in Waiting(Home[t]) => turn[t].answer \in {"unasked", "pending"}

\* The lane's state is what its holder is doing, and a turn that runs is the
\* holder: two running turns on one thread are the collision the lock prevents.
StateAgrees ==
    /\ \A th \in Threads :
          LET a == lane[th].active IN
          /\ lane[th].state = "IDLE" <=> a = NoTurn
          /\ lane[th].state = "AWAITING_APPROVAL" =>
                a \in Turns /\ turn[a].status = "AWAITING_APPROVAL"
          /\ lane[th].state = "PROCESSING_TURN" =>
                a \in Turns /\ turn[a].status = "PROCESSING"
    /\ \A t \in Turns :
          /\ turn[t].status \in Running => Here(t).active = t
          /\ turn[t].status = "QUEUED" <=> t \in Waiting(Home[t])

\* A prompt is shown only under a turn that waits for its answer, or under one
\* that is over; never under a turn that is generating.
PromptUnderParkedTurn ==
    \A t \in Turns : turn[t].status = "PROCESSING" => turn[t].prompt = NoPrompt

\* The three together: the lane, the statuses, the promises and the prompts of a
\* thread tell one story after every operation.
LaneAgrees == StateAgrees /\ AnswersAgree /\ PromptUnderParkedTurn

\* While the lock remembers how a turn ended, nothing changes that outcome: a
\* late acquireTurn, a second release and a stray park are all ignored.
KeepsOutcomes == \A t \in Members(settled) : turn'[t].status = turn[t].status
OutcomeStands == [][KeepsOutcomes]_lockVars

\* Every caller of acquireTurn is answered.
EveryCallerAnswered ==
    \A t \in Turns : (turn[t].answer = "pending") ~> (turn[t].answer # "pending")

\* The lock implements the line of TurnService: the holder, if any, is its
\* front, the queue the rest.
Order(th) == (IF lane[th].active = NoTurn THEN <<>> ELSE <<lane[th].active>>) \o lane[th].queue

Line == INSTANCE TurnService WITH
            line    <- [th \in Threads |-> Order(th)],
            serving <- [th \in Threads |-> lane[th].active # NoTurn]

\* Exactly one turn per thread is served at a time, in order of arrival
\* (AgentTurnLock.ts:12-18).
ServesInOrder == Line!Spec
=============================================================================

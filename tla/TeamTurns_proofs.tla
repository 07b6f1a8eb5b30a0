-------------------------- MODULE TeamTurns_proofs --------------------------
(***************************************************************************)
(* Safety of team turns, for any threads, turns, prompts and mishaps.      *)
(*                                                                         *)
(* Every step of the service does to the lock what one of its operations   *)
(* does, or nothing, or loses it in a crash; so the lock's own invariant   *)
(* holds here too (TurnLock_proofs).  It makes a turn's place in its lane  *)
(* a function of the turn's status, and the rest of the invariant relates  *)
(* that status to the stage of the turn's runner and to the rows.          *)
(***************************************************************************)
EXTENDS TeamTurns, TurnLock_proofs

----------------------------------------------------------------------------
(* The inductive invariant.                                                *)

\* How far a runner is says where the lock has its turn.
RunnerGood(u) ==
    /\ \/ run[u].stage = "none" /\ turn[u].status = "NEW"
       \/ run[u].stage = "awaiting" /\ turn[u].status = "QUEUED" /\ turn[u].answer = "pending"
       \/ run[u].stage = "awaiting" /\ turn[u].status = "PROCESSING" /\ turn[u].answer = "granted"
       \/ /\ run[u].stage = "awaiting"
          /\ turn[u].status \in {"CANCELLED", "DROPPED"} /\ turn[u].answer = "refused"
       \/ /\ run[u].stage \in {"running", "answered", "failed"}
          /\ turn[u].status \in Running \cup {"DROPPED"}
       \/ run[u].stage = "refused" /\ turn[u].status = "CANCELLED"
       \/ run[u].stage = "done" /\ turn[u].status \in Outcomes \cup {"DROPPED"}
       \/ run[u].stage = "lost" /\ turn[u].status \in {"NEW", "DROPPED"}
    /\ run[u].stage = "running" => run[u].watching
    /\ run[u].watching => run[u].stage \in {"running", "refused", "done"}

\* A row follows its turn, but for the moment between the grant and the start;
\* a turn that runs has no outcome yet, with or without its lane.
RowGood(u) ==
    /\ Home[u] \in gone => row[u] = "NONE"
    /\ run[u].stage = "none" => row[u] = "NONE"
    /\ turn[u].status = "QUEUED" \/ Granted(u) => row[u] = "QUEUED"
    /\ turn[u].status \in Running \/ run[u].stage \in {"running", "answered", "failed"} =>
         row[u] \notin Outcomes
    /\ run[u].stage = "refused" => row[u] \in {"CANCELLED", "NONE"}
    /\ \/ Home[u] \in gone \/ u \in missed \/ Granted(u)
       \/ turn[u].status \in {"NEW", "DROPPED"} \/ row[u] = turn[u].status

\* A thread's row follows its lane, with the same exceptions.
ThreadGood(th) ==
    \/ ~core.up
    \/ th \in unsynced
    \/ \E t \in Turns : Home[t] = th /\ Granted(t)
    \/ threadRow[th] = [state |-> lane[th].state, by |-> lane[th].active]

\* A prompt has the thread that raised it, and a thread is on hold only for a
\* prompt of its own, which is not cancelled.
HoldGood ==
    \A p \in Prompts :
        /\ ask[p].state # "none" => ask[p].on \in Threads
        /\ \A th \in Threads :
             OnHold(th, p) => ask[p].on = th /\ ask[p].state \notin {"none", "cancelled"}

\* A deleted thread has an empty lane, and a Core that is down has lost them all.
EmptyGood ==
    /\ \A th \in Threads : th \in gone \/ ~core.up => lane[th] = EmptyLane
    /\ ~core.up => \A u \in Turns : /\ turn[u].status \in {"NEW", "DROPPED"}
                                     /\ run[u].stage \in {"none", "lost"}

TeamInv ==
    /\ IInv /\ TeamTypeOK
    /\ \A u \in Turns : RunnerGood(u)
    /\ \A u \in Turns : RowGood(u)
    /\ \A th \in Threads : ThreadGood(th)
    /\ HoldGood /\ EmptyGood

----------------------------------------------------------------------------
(* What the lock's operations do to the turns and the lanes.               *)

\* A turn's place in the lanes, by its status.
LEMMA Places ==
    ASSUME IInv, NEW u \in Turns, NEW th \in Threads
    PROVE  /\ lane[th].active = u <=> Home[u] = th /\ turn[u].status \in Running
           /\ u \in Members(lane[th].queue) <=> Home[u] = th /\ turn[u].status = "QUEUED"
           /\ u \in lane[th].waiters <=> Home[u] = th /\ turn[u].answer = "pending"
           /\ Home[u] = th /\ turn[u].status = "PROCESSING" => lane[th].state = "PROCESSING_TURN"
           /\ Home[u] = th /\ turn[u].status = "AWAITING_APPROVAL" =>
                lane[th].state = "AWAITING_APPROVAL"
<1>1. LaneGood(th, lane[th], turn) /\ TurnGood(u, lane[Home[u]], turn[u], settled)
  BY DEF IInv, Good
<1>2. LaneGood(Home[u], lane[Home[u]], turn)
  BY HomeAssumption DEF IInv, Good
<1> QED BY <1>1, <1>2, NullAssumption DEF LaneGood, TurnGood, Running

\* A turn that is served is the one its lane names.
LEMMA Holder ==
    ASSUME IInv, NEW th \in Threads
    PROVE  /\ lane[th].active \in Turns \cup {NoTurn}
           /\ lane[th].active = NoTurn <=> lane[th].state = "IDLE"
           /\ lane[th].active \in Turns =>
                /\ Home[lane[th].active] = th
                /\ turn[lane[th].active].status \in Running
                /\ lane[th].state = "AWAITING_APPROVAL" =>
                     turn[lane[th].active].status = "AWAITING_APPROVAL"
<1>1. LaneGood(th, lane[th], turn)
  BY DEF IInv, Good
<1> QED BY <1>1, NullAssumption DEF LaneGood, Running, Lane

\* Nobody in line has yet to ask for the lock.
AllAsked == \A u \in Turns : turn[u].status = "QUEUED" => turn[u].answer = "pending"

\* So a lane with somebody in line is held.
LEMMA LineIsBehindHolder ==
    ASSUME IInv, AllAsked, NEW u \in Turns, turn[u].status = "QUEUED"
    PROVE  Here(u).active # NoTurn /\ u \in Here(u).waiters
<1>1. Home[u] \in Threads
  BY HomeAssumption
<1>2. u \in lane[Home[u]].waiters
  BY <1>1, Places DEF AllAsked
<1> QED BY <1>1, <1>2 DEF IInv, NobodyAwaitsFree, Here

\* enqueueTurn's turn is served at once, or waits behind a lane left as it was.
LEMMA AcquireUnseenDoes ==
    ASSUME IInv, AllAsked, NEW t \in Turns, AcquireUnseen(t)
    PROVE  /\ \A u \in Turns : u # t => turn'[u] = turn[u]
           /\ \A th \in Threads : th # Home[t] => lane'[th] = lane[th]
           /\ \/ turn'[t] = [status |-> "PROCESSING", prompt |-> NoPrompt, answer |-> "granted"]
              \/ /\ turn'[t] = [status |-> "QUEUED", prompt |-> NoPrompt, answer |-> "pending"]
                 /\ lane'[Home[t]].state = Here(t).state
                 /\ lane'[Home[t]].active = Here(t).active
           /\ lane'[Home[t]].state = "AWAITING_APPROVAL" =>
                Here(t).state = "AWAITING_APPROVAL" /\ lane'[Home[t]].active = Here(t).active
<1> DEFINE l == Here(t)
           l2 == [l EXCEPT !.queue = Append(@, t), !.waiters = @ \cup {t}]
           r == [status |-> "QUEUED", prompt |-> NoPrompt, answer |-> "pending"]
           known == [turn EXCEPT ![t] = r]
<1>1. /\ l \in Lane /\ turn \in [Turns -> Turn] /\ lane \in [Threads -> Lane]
      /\ Home[t] \in Threads /\ l = lane[Home[t]]
      /\ Pump(Home[t], l2, known)
  BY Parts DEF AcquireUnseen, Here
<1>2. /\ l2.queue = Append(l.queue, t) /\ l2.waiters = l.waiters \cup {t}
      /\ l2.active = l.active /\ l2.state = l.state /\ l.queue \in Seq(Turns)
  BY <1>1 DEF Lane
<1>3. known[t] = r /\ \A u \in Turns : u # t => known[u] = turn[u]
  BY <1>1
<1>4. r \in Turn /\ known \in [Turns -> Turn]
  BY <1>1 DEF Turn, Statuses, Answers
<1>5. lane' = [lane EXCEPT ![Home[t]] = Pumped(l2)] /\ turn' = Served(l2, known)
  BY <1>1 DEF Pump
<1> HIDE DEF l, l2, known
<1>6. CASE l.active # NoTurn
  <2>1. Pumped(l2) = l2 /\ Served(l2, known) = known
    BY <1>2, <1>6 DEF Pumped, Served, Grants
  <2> QED BY <1>1, <1>2, <1>3, <1>5, <2>1 DEF l
<1>7. CASE l.active = NoTurn
  <2>1. l.queue = <<>>
    <3> SUFFICES ASSUME l.queue # <<>> PROVE FALSE
      OBVIOUS
    <3>1. Head(l.queue) \in Turns /\ Head(l.queue) \in Members(l.queue)
      BY <1>2, MembersHeadTail
    <3>2. turn[Head(l.queue)].status = "QUEUED" /\ Home[Head(l.queue)] = Home[t]
      BY <1>1, <3>1, Places
    <3> QED BY <1>1, <1>7, <3>1, <3>2, LineIsBehindHolder DEF Here
  <2>2. l2.queue = <<t>>
    BY <1>2, <2>1
  <2>3. Grants(l2) /\ Head(l2.queue) = t /\ t \in l2.waiters
    BY <1>2, <1>7, <2>2 DEF Grants
  <2>4. /\ Pumped(l2).state = "PROCESSING_TURN"
        /\ Served(l2, known) = [known EXCEPT ![t].status = "PROCESSING", ![t].answer = "granted"]
    BY <2>3 DEF Pumped, Served
  <2>5. /\ turn'[t] = [r EXCEPT !.status = "PROCESSING", !.answer = "granted"]
        /\ \A u \in Turns : u # t => turn'[u] = turn[u]
    BY <1>3, <1>4, <1>5, <2>4
  <2>6. /\ lane'[Home[t]].state = "PROCESSING_TURN"
        /\ \A th \in Threads : th # Home[t] => lane'[th] = lane[th]
    BY <1>1, <1>5, <2>4
  <2> QED BY <2>5, <2>6
<1> QED BY <1>6, <1>7

\* A release ends the turn and serves at most the next in line.
LEMMA ReleaseDoes ==
    ASSUME IInv, AllAsked, NEW t \in Turns, NEW o \in Outcomes, ReleaseTurn(t, o)
    PROVE  /\ Here(t).active = t
           /\ turn'[t] = [turn[t] EXCEPT !.status = o]
           /\ \A u \in Turns : u # t =>
                \/ turn'[u] = turn[u]
                \/ /\ Home[u] = Home[t] /\ turn[u].status = "QUEUED"
                   /\ turn'[u] = [turn[u] EXCEPT !.status = "PROCESSING", !.answer = "granted"]
           /\ \A th \in Threads : th # Home[t] => lane'[th] = lane[th]
           /\ lane'[Home[t]].state # "AWAITING_APPROVAL"
<1> DEFINE l == Here(t)
           l2 == [l EXCEPT !.active = NoTurn, !.state = "IDLE"]
           known == [turn EXCEPT ![t].status = o]
           h == Head(l.queue)
<1>1. /\ l \in Lane /\ turn \in [Turns -> Turn] /\ lane \in [Threads -> Lane]
      /\ Home[t] \in Threads /\ l = lane[Home[t]] /\ l.active = t
      /\ Pump(Home[t], l2, known)
  BY Parts DEF ReleaseTurn, Here
<1>2. /\ l2.queue = l.queue /\ l2.waiters = l.waiters
      /\ l2.active = NoTurn /\ l2.state = "IDLE" /\ l.queue \in Seq(Turns)
  BY <1>1 DEF Lane
<1>3. /\ known[t] = [turn[t] EXCEPT !.status = o] /\ \A u \in Turns : u # t => known[u] = turn[u]
      /\ known \in [Turns -> Turn]
  BY <1>1 DEF Turn, Statuses
<1>4. lane' = [lane EXCEPT ![Home[t]] = Pumped(l2)] /\ turn' = Served(l2, known)
  BY <1>1 DEF Pump
<1> HIDE DEF l, l2, known
<1>5. CASE l.queue = <<>>
  <2>1. Pumped(l2) = l2 /\ Served(l2, known) = known
    BY <1>2, <1>5 DEF Pumped, Served, Grants
  <2> QED BY <1>1, <1>2, <1>3, <1>4, <2>1 DEF l
<1>6. CASE l.queue # <<>>
  <2>1. h \in Turns /\ h \in Members(l.queue)
    BY <1>2, <1>6, MembersHeadTail
  <2>2. turn[h].status = "QUEUED" /\ Home[h] = Home[t]
    BY <1>1, <2>1, Places
  <2>3. h # t /\ h \in l.waiters
    <3>1. turn[t].status \in Running
      BY <1>1, Places
    <3> QED BY <1>1, <2>1, <2>2, <3>1, LineIsBehindHolder DEF Here, Running
  <2>4. Grants(l2) /\ Head(l2.queue) = h /\ h \in l2.waiters
    BY <1>2, <1>6, <2>3 DEF Grants
  <2>5. /\ Pumped(l2).state = "PROCESSING_TURN"
        /\ Served(l2, known) = [known EXCEPT ![h].status = "PROCESSING", ![h].answer = "granted"]
    BY <2>4 DEF Pumped, Served
  <2> HIDE DEF h
  <2>6. /\ turn'[h] = [turn[h] EXCEPT !.status = "PROCESSING", !.answer = "granted"]
        /\ \A u \in Turns : u # h => turn'[u] = known[u]
    BY <1>3, <1>4, <2>1, <2>3, <2>5
  <2>7. /\ lane'[Home[t]].state = "PROCESSING_TURN"
        /\ \A th \in Threads : th # Home[t] => lane'[th] = lane[th]
    BY <1>1, <1>4, <2>5
  <2> QED BY <1>1, <1>3, <2>2, <2>3, <2>6, <2>7 DEF l
<1> QED BY <1>5, <1>6

\* A cancellation takes its turn out of the line behind a lane left as it was.
LEMMA CancelDoes ==
    ASSUME IInv, AllAsked, NEW t \in Turns, CancelTurn(t)
    PROVE  /\ turn[t].status = "QUEUED"
           /\ turn'[t] = [turn[t] EXCEPT !.status = "CANCELLED", !.answer = "refused"]
           /\ \A u \in Turns : u # t => turn'[u] = turn[u]
           /\ \A th \in Threads : /\ lane'[th].state = lane[th].state
                                  /\ lane'[th].active = lane[th].active
                                  /\ th # Home[t] => lane'[th] = lane[th]
<1> DEFINE l == Here(t)
<1>1. /\ l \in Lane /\ turn \in [Turns -> Turn] /\ lane \in [Threads -> Lane]
      /\ Home[t] \in Threads /\ l = lane[Home[t]]
  BY Parts DEF Here
<1>2. PICK i \in DOMAIN l.queue :
        /\ l.queue[i] = t
        /\ Pump(Home[t],
                [l EXCEPT !.queue = Without(@, i), !.waiters = @ \ {t}],
                [turn EXCEPT ![t].status = "CANCELLED",
                             ![t].answer = IF t \in l.waiters THEN "refused" ELSE @])
  BY DEF CancelTurn
<1>3. turn[t].status = "QUEUED"
  <2>1. t \in Members(l.queue)
    BY <1>2 DEF Members
  <2> QED BY <1>1, <2>1, Places
<1>4. l.active # NoTurn /\ t \in l.waiters
  BY <1>3, LineIsBehindHolder
<1> DEFINE l2 == [l EXCEPT !.queue = Without(@, i), !.waiters = @ \ {t}]
           known == [turn EXCEPT ![t].status = "CANCELLED",
                       ![t].answer = IF t \in l.waiters THEN "refused" ELSE @]
<1>5. l2.active = l.active /\ l2.state = l.state
  BY <1>1 DEF Lane
<1>6. /\ known[t] = [turn[t] EXCEPT !.status = "CANCELLED", !.answer = "refused"]
      /\ \A u \in Turns : u # t => known[u] = turn[u]
  BY <1>1, <1>4
<1>7. lane' = [lane EXCEPT ![Home[t]] = Pumped(l2)] /\ turn' = Served(l2, known)
  BY <1>2 DEF Pump
<1> HIDE DEF l, l2, known
<1>8. Pumped(l2) = l2 /\ Served(l2, known) = known
  BY <1>4, <1>5 DEF Pumped, Served, Grants
<1> QED BY <1>1, <1>3, <1>5, <1>6, <1>7, <1>8

\* A park, and a resume, change their turn and its lane's state.
LEMMA MarkDoes ==
    ASSUME IInv, NEW t \in Turns, NEW p \in Prompts, MarkAwaitingApproval(t, p)
    PROVE  /\ turn'[t] = [turn[t] EXCEPT !.status = "AWAITING_APPROVAL", !.prompt = p]
           /\ \A u \in Turns : u # t => turn'[u] = turn[u]
           /\ \A th \in Threads : lane'[th].active = lane[th].active
           /\ lane'[Home[t]].state = "AWAITING_APPROVAL"
           /\ \A th \in Threads : th # Home[t] => lane'[th] = lane[th]
<1>1. turn \in [Turns -> Turn] /\ lane \in [Threads -> Lane] /\ Home[t] \in Threads /\ p # NoPrompt
  BY Parts, NullAssumption
<1> QED BY <1>1 DEF MarkAwaitingApproval, Lane

LEMMA ResumeDoes ==
    ASSUME IInv, NEW t \in Turns, ResumeFromApproval(t)
    PROVE  /\ turn'[t] = [turn[t] EXCEPT !.status = "PROCESSING", !.prompt = NoPrompt]
           /\ \A u \in Turns : u # t => turn'[u] = turn[u]
           /\ \A th \in Threads : lane'[th].active = lane[th].active
           /\ lane'[Home[t]].state = "PROCESSING_TURN"
           /\ \A th \in Threads : th # Home[t] => lane'[th] = lane[th]
<1>1. turn \in [Turns -> Turn] /\ lane \in [Threads -> Lane] /\ Home[t] \in Threads
  BY Parts
<1> QED BY <1>1 DEF ResumeFromApproval, Lane

\* Clearing a thread drops the turns in its lane and answers who waits.
LEMMA ClearDoes ==
    ASSUME IInv, NEW th \in Threads, ClearThread(th)
    PROVE  /\ lane'[th] = EmptyLane
           /\ \A x \in Threads : x # th => lane'[x] = lane[x]
           /\ \A u \in Turns : Home[u] # th => turn'[u] = turn[u]
           /\ \A u \in Turns : Home[u] = th =>
                /\ turn'[u].status = IF turn[u].status \in Running \cup {"QUEUED"}
                                     THEN "DROPPED" ELSE turn[u].status
                /\ turn'[u].answer = IF turn[u].answer = "pending" THEN "refused"
                                     ELSE turn[u].answer
<1>1. turn \in [Turns -> Turn] /\ lane \in [Threads -> Lane]
  BY DEF IInv, Good
<1>2. ASSUME NEW u \in Turns
      PROVE  /\ u = lane[th].active <=> Home[u] = th /\ turn[u].status \in Running
             /\ u \in Members(lane[th].queue) <=> Home[u] = th /\ turn[u].status = "QUEUED"
             /\ u \in lane[th].waiters <=> Home[u] = th /\ turn[u].answer = "pending"
  BY Places
<1>3. ASSUME NEW u \in Turns
      PROVE  turn'[u] = [turn[u] EXCEPT
                           !.status = IF u = lane[th].active \/ u \in Members(lane[th].queue)
                                      THEN "DROPPED" ELSE @,
                           !.answer = IF u \in lane[th].waiters THEN "refused" ELSE @]
  BY DEF ClearThread
<1>4. lane' = [lane EXCEPT ![th] = EmptyLane]
  BY DEF ClearThread
<1>5. ASSUME NEW u \in Turns, Home[u] # th PROVE turn'[u] = turn[u]
  <2>1. ~(u = lane[th].active) /\ u \notin Members(lane[th].queue) /\ u \notin lane[th].waiters
    BY <1>2, <1>5
  <2>2. turn[u] \in Turn
    BY <1>1
  <2>3. turn'[u] = [turn[u] EXCEPT !.status = @, !.answer = @]
    BY <1>3, <2>1
  <2> QED BY <2>2, <2>3 DEF Turn
<1>6. ASSUME NEW u \in Turns, Home[u] = th
      PROVE  /\ turn'[u].status = IF turn[u].status \in Running \cup {"QUEUED"}
                                  THEN "DROPPED" ELSE turn[u].status
             /\ turn'[u].answer = IF turn[u].answer = "pending" THEN "refused"
                                  ELSE turn[u].answer
  <2>1. turn[u] \in Turn
    BY <1>1
  <2>2. /\ (u = lane[th].active \/ u \in Members(lane[th].queue)) <=>
             turn[u].status \in Running \cup {"QUEUED"}
        /\ u \in lane[th].waiters <=> turn[u].answer = "pending"
    BY <1>2, <1>6
  <2> QED BY <1>3, <2>1, <2>2 DEF Turn
<1> QED BY <1>1, <1>4, <1>5, <1>6

\* A crash loses the lanes, and drops every turn the Core had been given.
LEMMA CrashKeepsLock ==
    ASSUME TeamInv, Crash
    PROVE  /\ IInv'
           /\ \A u \in Turns :
                turn'[u] = IF turn[u] = FreshTurn THEN FreshTurn
                           ELSE [FreshTurn EXCEPT !.status = "DROPPED", !.answer = "refused"]
<1>1. /\ lane' = [th \in Threads |-> EmptyLane] /\ settled' = <<>>
      /\ \A u \in Turns :
           turn'[u] = IF turn[u] = FreshTurn THEN FreshTurn
                      ELSE [FreshTurn EXCEPT !.status = "DROPPED", !.answer = "refused"]
      /\ turn' = [u \in Turns |-> turn'[u]]
  BY DEF Crash
<1>2. /\ EmptyLane \in Lane /\ Members(EmptyLane.queue) = {} /\ NoRepeats(EmptyLane.queue)
      /\ EmptyLane.active = NoTurn /\ EmptyLane.state = "IDLE" /\ EmptyLane.waiters = {}
  BY DEF EmptyLane, Lane, LaneStates, Members, NoRepeats
<1>3. ASSUME NEW u \in Turns
      PROVE  /\ turn'[u] \in Turn
             /\ \/ turn'[u].status = "NEW" /\ turn'[u].answer = "unasked"
                \/ turn'[u].status = "DROPPED" /\ turn'[u].answer = "refused"
             /\ turn'[u].prompt = NoPrompt
  <2>1. /\ FreshTurn \in Turn /\ FreshTurn.status = "NEW"
        /\ FreshTurn.answer = "unasked" /\ FreshTurn.prompt = NoPrompt
    BY DEF FreshTurn, Turn, Statuses, Answers
  <2>2. /\ [FreshTurn EXCEPT !.status = "DROPPED", !.answer = "refused"] \in Turn
        /\ [FreshTurn EXCEPT !.status = "DROPPED", !.answer = "refused"].status = "DROPPED"
        /\ [FreshTurn EXCEPT !.status = "DROPPED", !.answer = "refused"].answer = "refused"
        /\ [FreshTurn EXCEPT !.status = "DROPPED", !.answer = "refused"].prompt = NoPrompt
    BY <2>1 DEF Turn, Statuses, Answers
  <2>3. CASE turn[u] = FreshTurn
    <3>1. turn'[u] = FreshTurn
      BY <1>1, <2>3
    <3> QED BY <2>1, <3>1
  <2>4. CASE turn[u] # FreshTurn
    <3>1. turn'[u] = [FreshTurn EXCEPT !.status = "DROPPED", !.answer = "refused"]
      BY <1>1, <2>4
    <3> QED BY <2>2, <3>1
  <2> QED BY <2>3, <2>4
<1>4. Members(settled') = {} /\ settled' \in Seq(Turns)
  BY <1>1 DEF Members
<1>5. turn' \in [Turns -> Turn] /\ lane' \in [Threads -> Lane]
  BY <1>1, <1>2, <1>3
<1>6. ASSUME NEW th \in Threads PROVE lane'[th] = EmptyLane /\ LaneGood(th, lane'[th], turn')
  BY <1>1, <1>2, NullAssumption DEF LaneGood
<1>7. ASSUME NEW u \in Turns PROVE TurnGood(u, lane'[Home[u]], turn'[u], settled')
  BY <1>1, <1>2, <1>3, <1>4, HomeAssumption DEF TurnGood, Running
<1>8. Good(lane', turn', settled') /\ NobodyAwaitsFree(lane')
  BY <1>2, <1>4, <1>5, <1>6, <1>7 DEF Good, NobodyAwaitsFree
<1> QED BY <1>1, <1>8 DEF IInv, Good, LaneGood, TurnGood, NobodyAwaitsFree

----------------------------------------------------------------------------
(* What the invariant says of one turn.                                    *)

LEMMA TeamParts ==
    ASSUME TeamInv, NEW u \in Turns
    PROVE  /\ IInv /\ TeamTypeOK /\ AllAsked
           /\ Home[u] \in Threads /\ turn[u] \in Turn /\ run[u].stage \in Stages
           /\ RunnerGood(u) /\ RowGood(u)
<1>1. run[u].stage \in Stages /\ turn[u] \in Turn
  BY DEF TeamInv, TeamTypeOK, LockTypeOK
<1>2. AllAsked
  BY DEF TeamInv, RunnerGood, AllAsked, Running, Outcomes
<1> QED BY <1>1, <1>2, HomeAssumption DEF TeamInv

\* A turn in line or running has its thread, and a Core that is up.
LEMMA ServedIsThere ==
    ASSUME TeamInv, NEW u \in Turns, turn[u].status \in Running \cup {"QUEUED"}
    PROVE  Home[u] \notin gone /\ core.up
<1>1. Home[u] \in Threads
  BY HomeAssumption
<1>2. lane[Home[u]] # EmptyLane
  <2>1. lane[Home[u]].active = u \/ u \in Members(lane[Home[u]].queue)
    BY <1>1, Places DEF TeamInv
  <2> QED BY <2>1, NullAssumption DEF EmptyLane, Members
<1> QED BY <1>1, <1>2 DEF TeamInv, EmptyGood

\* A turn that may start holds its lane.
LEMMA GrantedHolds ==
    ASSUME TeamInv, NEW u \in Turns, Granted(u)
    PROVE  /\ turn[u].status = "PROCESSING" /\ Here(u).active = u
           /\ Here(u).state = "PROCESSING_TURN" /\ Home[u] \notin gone
<1>1. turn[u].status = "PROCESSING"
  BY TeamParts DEF Granted, RunnerGood
<1> QED BY <1>1, TeamParts, Places, ServedIsThere DEF Here, Running

\* Between two turns of the event loop, whoever holds a lane is being watched.
LEMMA QuietHolderRuns ==
    ASSUME TeamInv, Quiet, NEW u \in Turns, turn[u].status \in Running
    PROVE  run[u].stage = "running" /\ run[u].watching /\ u \in Watchers(Home[u])
<1>1. ~Granted(u) /\ ~Ended(u)
  BY DEF Quiet
<1>2. run[u].stage = "running" /\ run[u].watching
  BY <1>1, TeamParts DEF RunnerGood, Running, Outcomes, Granted, Ended
<1> QED BY <1>2 DEF Watchers

\* A turn that a watch hears and that holds its lane runs.
LEMMA WatchedHolderRuns ==
    ASSUME TeamInv, NEW u \in Turns, run[u].watching, turn[u].status \in Running
    PROVE  run[u].stage = "running"
BY TeamParts DEF RunnerGood, Running, Outcomes

----------------------------------------------------------------------------
(* Types of the writes every operation is made of.                         *)

LEMMA WriteTypes ==
    ASSUME TeamTypeOK, NEW t \in Turns, NEW status \in RowStates,
           Save(t, status) \/ Miss(t)
    PROVE  /\ row' \in [Turns -> RowStates] /\ missed' \subseteq Turns
           /\ \A u \in Turns : u # t => row'[u] = row[u] /\ (u \in missed' <=> u \in missed)
<1>1. CASE Save(t, status)
  BY <1>1 DEF Save, TeamTypeOK, RowStates
<1>2. CASE Miss(t)
  BY <1>2 DEF Miss, TeamTypeOK
<1> QED BY <1>1, <1>2

LEMMA CoreTypes ==
    ASSUME TeamTypeOK, AllWritten \/ Refused
    PROVE  core' \in [up : BOOLEAN, mishaps : 0..MaxMishaps] /\ core'.up = core.up
<1>1. CASE AllWritten
  BY <1>1 DEF AllWritten, TeamTypeOK
<1>2. CASE Refused
  <2>1. core.mishaps \in 0..MaxMishaps /\ core.mishaps < MaxMishaps /\ MaxMishaps \in Nat
    BY <1>2, TeamAssumption DEF Refused, TeamTypeOK
  <2>2. core.mishaps + 1 \in 0..MaxMishaps
    BY <2>1
  <2> QED BY <1>2, <2>2 DEF Refused, TeamTypeOK
<1> QED BY <1>1, <1>2

\* A thread's row is rewritten, or known to be behind.
LEMMA SyncTypes ==
    ASSUME TeamTypeOK, NEW th \in Threads, lane' \in [Threads -> Lane],
           SyncThreadState(th) \/ Unsynced(th)
    PROVE  /\ threadRow' \in [Threads -> [state : LaneStates, by : Turns \cup {NoTurn}]]
           /\ unsynced' \subseteq Threads
           /\ \A x \in Threads : x # th =>
                threadRow'[x] = threadRow[x] /\ (x \in unsynced' <=> x \in unsynced)
           /\ \/ th \in unsynced'
              \/ threadRow'[th] = IF th \in gone THEN IdleRow
                                  ELSE [state |-> lane'[th].state, by |-> lane'[th].active]
<1>1. CASE SyncThreadState(th)
  <2>1. lane'[th].state \in LaneStates /\ lane'[th].active \in Turns \cup {NoTurn}
    BY DEF Lane
  <2>2. IdleRow \in [state : LaneStates, by : Turns \cup {NoTurn}]
    BY DEF IdleRow, LaneStates
  <2> QED BY <1>1, <2>1, <2>2 DEF SyncThreadState, TeamTypeOK
<1>2. CASE Unsynced(th)
  BY <1>2 DEF Unsynced, TeamTypeOK
<1> QED BY <1>1, <1>2

LEMMA StageTypes ==
    ASSUME TeamTypeOK, NEW t \in Turns, NEW stage \in Stages, run' = [run EXCEPT ![t].stage = stage]
    PROVE  /\ run'[t].stage = stage /\ run'[t].watching = run[t].watching
           /\ \A u \in Turns : u # t => run'[u] = run[u]
           /\ run' \in [Turns -> [stage : Stages, watching : BOOLEAN,
                                  heard : SUBSET (Turns \cup {Context})]]
<1> DEFINE next == [run[t] EXCEPT !.stage = stage]
<1>1. /\ run[t] \in [stage : Stages, watching : BOOLEAN, heard : SUBSET (Turns \cup {Context})]
      /\ run \in [Turns -> [stage : Stages, watching : BOOLEAN,
                            heard : SUBSET (Turns \cup {Context})]]
  BY DEF TeamTypeOK
<1>2. /\ next \in [stage : Stages, watching : BOOLEAN, heard : SUBSET (Turns \cup {Context})]
      /\ next.stage = stage /\ next.watching = run[t].watching
  BY <1>1
<1>3. run' = [run EXCEPT ![t] = next]
  OBVIOUS
<1> HIDE DEF next
<1> QED BY <1>1, <1>2, <1>3

LEMMA JobTypes ==
    ASSUME TeamTypeOK, NEW th \in Threads, NEW jobs \in Seq(Turns \cup {Context}),
           session' = [session EXCEPT ![th].jobs = jobs]
    PROVE  session' \in [Threads -> [jobs : Seq(Turns \cup {Context}), briefed : BOOLEAN]]
<1> DEFINE next == [session[th] EXCEPT !.jobs = jobs]
<1>1. /\ session[th] \in [jobs : Seq(Turns \cup {Context}), briefed : BOOLEAN]
      /\ session \in [Threads -> [jobs : Seq(Turns \cup {Context}), briefed : BOOLEAN]]
  BY DEF TeamTypeOK
<1>2. next \in [jobs : Seq(Turns \cup {Context}), briefed : BOOLEAN]
  BY <1>1
<1>3. session' = [session EXCEPT ![th] = next]
  OBVIOUS
<1> HIDE DEF next
<1> QED BY <1>1, <1>2, <1>3

\* A runner's watch ends, and with it what the runner waits for, or nothing does.
RunEnds ==
    \A u \in Turns :
        \/ run'[u].stage = run[u].stage /\ run'[u].watching = run[u].watching
        \/ ~run'[u].watching /\ run'[u].stage = run[u].stage /\ run[u].stage # "running"
        \/ /\ ~run'[u].watching
           /\ run[u].stage = "running" /\ run'[u].stage \in {"answered", "failed"}

LEMMA WatchesEnd ==
    ASSUME TeamTypeOK, NEW ended, NEW stage \in {"answered", "failed"}, EndWatches(ended, stage)
    PROVE  /\ run' \in [Turns -> [stage : Stages, watching : BOOLEAN,
                                  heard : SUBSET (Turns \cup {Context})]]
           /\ RunEnds
<1>1. ASSUME NEW u \in Turns
      PROVE  /\ run'[u] \in [stage : Stages, watching : BOOLEAN,
                             heard : SUBSET (Turns \cup {Context})]
             /\ \/ run'[u] = run[u]
                \/ /\ ~run'[u].watching
                   /\ run'[u].stage = IF run[u].stage = "running" THEN stage ELSE run[u].stage
  <2>1. run[u] \in [stage : Stages, watching : BOOLEAN, heard : SUBSET (Turns \cup {Context})]
    BY DEF TeamTypeOK
  <2>2. CASE u \in ended
    <3>1. run'[u] = [run[u] EXCEPT !.watching = FALSE,
                                   !.stage = IF @ = "running" THEN stage ELSE @]
      BY <2>2 DEF EndWatches
    <3> QED BY <2>1, <3>1 DEF Stages
  <2>3. CASE u \notin ended
    BY <2>1, <2>3 DEF EndWatches
  <2> QED BY <2>2, <2>3
<1>2. run' = [u \in Turns |-> run'[u]]
  BY DEF EndWatches
<1> QED BY <1>1, <1>2 DEF RunEnds

LEMMA SameLockKeeps ==
    ASSUME IInv, SameLock PROVE IInv' /\ lane' = lane /\ turn' = turn /\ settled' = settled
BY DEF SameLock, lockVars, IInv, Good, LaneGood, TurnGood, NobodyAwaitsFree

\* The end of a watch leaves the order of runner, turn and row alone.
LEMMA RunnersEnd ==
    ASSUME TeamInv, RunEnds, NEW u \in Turns, turn'[u] = turn[u], gone' = gone,
           row'[u] = row[u], u \in missed' <=> u \in missed
    PROVE  RunnerGood(u)' /\ RowGood(u)' /\ (Granted(u)' <=> Granted(u))
<1>1. RunnerGood(u) /\ RowGood(u)
  BY DEF TeamInv
<1>2. \/ run'[u].stage = run[u].stage /\ run'[u].watching = run[u].watching
      \/ ~run'[u].watching /\ run'[u].stage = run[u].stage /\ run[u].stage # "running"
      \/ /\ ~run'[u].watching
         /\ run[u].stage = "running" /\ run'[u].stage \in {"answered", "failed"}
  BY DEF RunEnds
<1>3. Granted(u)' <=> Granted(u)
  BY <1>2 DEF Granted
<1>4. RunnerGood(u)'
  BY <1>1, <1>2 DEF RunnerGood
<1>5. RowGood(u)'
  BY <1>1, <1>2, <1>3 DEF RowGood
<1> QED BY <1>3, <1>4, <1>5

\* What happens in a session, and to prompts nobody is on hold for, moves no
\* turn and no row.
LEMMA SessionStep ==
    ASSUME TeamInv, SameLock, SameRows, gone' = gone, RunEnds, TeamTypeOK',
           \A p \in Prompts :
               \/ ask'[p] = ask[p]
               \/ /\ ask'[p].on = ask[p].on /\ ask[p].state # "none"
                  /\ ask'[p].state \notin {"none", "cancelled"} \/ ~OnHold(ask[p].on, p)
               \/ ask[p].state = "none" /\ ask'[p].on \in Threads
    PROVE  TeamInv'
<1>1. IInv' /\ lane' = lane /\ turn' = turn
  BY SameLockKeeps DEF TeamInv
<1>2. /\ row' = row /\ missed' = missed /\ threadRow' = threadRow /\ unsynced' = unsynced
      /\ core' = core
  BY DEF SameRows
<1>3. ASSUME NEW u \in Turns PROVE RunnerGood(u)' /\ RowGood(u)' /\ (Granted(u)' <=> Granted(u))
  BY <1>1, <1>2, RunnersEnd
<1>4. ASSUME NEW th \in Threads PROVE ThreadGood(th)'
  BY <1>1, <1>2, <1>3 DEF TeamInv, ThreadGood
<1>5. HoldGood'
  BY <1>1 DEF TeamInv, HoldGood, OnHold
<1>6. EmptyGood'
  BY <1>1, <1>2 DEF TeamInv, EmptyGood, RunEnds
<1> QED BY <1>1, <1>3, <1>4, <1>5, <1>6 DEF TeamInv

\* A turn that a step leaves alone, and its runner and its row.
LEMMA UntouchedTurn ==
    ASSUME TeamInv, NEW u \in Turns, turn'[u] = turn[u], run'[u] = run[u],
           Home[u] \in gone' <=> Home[u] \in gone,
           row'[u] = row[u], u \in missed' <=> u \in missed
    PROVE  RunnerGood(u)' /\ RowGood(u)' /\ (Granted(u)' <=> Granted(u))
<1>1. RunnerGood(u) /\ RowGood(u)
  BY DEF TeamInv
<1>2. Granted(u)' <=> Granted(u)
  BY DEF Granted
<1>3. RunnerGood(u)'
  BY <1>1 DEF RunnerGood
<1>4. RowGood(u)'
  BY <1>1, <1>2 DEF RowGood
<1> QED BY <1>2, <1>3, <1>4

\* The turn that a release serves next.
LEMMA ServedNext ==
    ASSUME TeamInv, NEW u \in Turns, turn[u].status = "QUEUED",
           turn'[u] = [turn[u] EXCEPT !.status = "PROCESSING", !.answer = "granted"],
           run'[u] = run[u], gone' = gone, row'[u] = row[u], u \in missed' <=> u \in missed
    PROVE  RunnerGood(u)' /\ RowGood(u)' /\ ~Granted(u) /\ Granted(u)'
<1>1. RunnerGood(u) /\ RowGood(u) /\ turn[u] \in Turn
  BY TeamParts
<1>2. turn'[u].status = "PROCESSING" /\ turn'[u].answer = "granted"
  BY <1>1 DEF Turn
<1>3. run[u].stage = "awaiting" /\ turn[u].answer = "pending" /\ ~run[u].watching
  BY <1>1 DEF RunnerGood, Running, Outcomes
<1>4. Granted(u)' /\ ~Granted(u)
  BY <1>2, <1>3 DEF Granted
<1>5. RunnerGood(u)'
  BY <1>2, <1>3 DEF RunnerGood
<1>6. row[u] = "QUEUED" /\ Home[u] \notin gone
  BY <1>1, ServedIsThere DEF RowGood
<1>7. RowGood(u)'
  BY <1>2, <1>3, <1>4, <1>6 DEF RowGood, Outcomes
<1> QED BY <1>4, <1>5, <1>7

\* A thread whose lane state, row and grants are left alone still agrees with them.
LEMMA OtherThread ==
    ASSUME TeamInv, NEW th \in Threads, core'.up = core.up,
           lane'[th].state = lane[th].state, lane'[th].active = lane[th].active,
           threadRow'[th] = threadRow[th], th \in unsynced => th \in unsynced',
           \A u \in Turns : Home[u] = th => (Granted(u) => Granted(u)')
    PROVE  ThreadGood(th)'
<1>1. ThreadGood(th)
  BY DEF TeamInv
<1>2. ASSUME NEW u \in Turns, Home[u] = th, Granted(u) PROVE ThreadGood(th)'
  <2>1. Granted(u)'
    BY <1>2
  <2> QED BY <1>2, <2>1 DEF ThreadGood
<1>3. CASE ~core.up \/ th \in unsynced
  BY <1>3 DEF ThreadGood
<1>4. CASE threadRow[th] = [state |-> lane[th].state, by |-> lane[th].active]
  BY <1>4 DEF ThreadGood
<1> QED BY <1>1, <1>2, <1>3, <1>4 DEF ThreadGood

\* A thread that is not put on hold is on hold for what it was before.
LEMMA SameHold ==
    ASSUME TeamInv, NEW th \in Threads, NEW p \in Prompts, OnHold(th, p)',
           lane'[th].state = "AWAITING_APPROVAL" =>
               lane[th].state = "AWAITING_APPROVAL" /\ lane'[th].active = lane[th].active,
           \A u \in Turns : Home[u] = th /\ turn[u].status = "AWAITING_APPROVAL" =>
               turn'[u].prompt = turn[u].prompt
    PROVE  OnHold(th, p) /\ ask[p].on = th /\ ask[p].state \notin {"none", "cancelled"}
<1>1. lane[th].state = "AWAITING_APPROVAL" /\ lane'[th].active = lane[th].active
  BY DEF OnHold
<1>2. /\ lane[th].active \in Turns /\ Home[lane[th].active] = th
      /\ turn[lane[th].active].status = "AWAITING_APPROVAL"
  BY <1>1, Holder DEF TeamInv
<1>3. OnHold(th, p)
  BY <1>1, <1>2 DEF OnHold
<1> QED BY <1>3 DEF TeamInv, HoldGood

\* What happens on one thread that is there empties no lane.
LEMMA SameEmpty ==
    ASSUME TeamInv, core.up, core'.up = core.up, gone' = gone,
           NEW here \in Threads, here \notin gone,
           \A th \in Threads : th # here => lane'[th] = lane[th]
    PROVE  EmptyGood'
BY DEF TeamInv, EmptyGood

LEMMA LockTypes == ASSUME IInv' PROVE LockTypeOK'
BY DEF IInv, Good, LockTypeOK

----------------------------------------------------------------------------
(* The session, as its watches see it.                                     *)

LEMMA SameTypes ==
    ASSUME TeamInv, SameLock, SameRows, gone' = gone,
           run' \in [Turns -> [stage : Stages, watching : BOOLEAN,
                              heard : SUBSET (Turns \cup {Context})]],
           session' \in [Threads -> [jobs : Seq(Turns \cup {Context}), briefed : BOOLEAN]],
           ask' \in [Prompts -> [state : AskStates, on : Threads \cup {NoThread}]]
    PROVE  TeamTypeOK'
<1>1. lane' = lane /\ turn' = turn /\ settled' = settled
  BY SameLockKeeps DEF TeamInv
<1> QED BY <1>1 DEF TeamInv, TeamTypeOK, LockTypeOK, SameRows

LEMMA AgentSpeaksGood == ASSUME TeamInv, NEW th \in Threads, AgentSpeaks(th) PROVE TeamInv'
<1>1. TeamTypeOK /\ session[th].jobs \in Seq(Turns \cup {Context}) /\ session[th].jobs # <<>>
  BY DEF TeamInv, TeamTypeOK, AgentSpeaks
<1>2. Head(session[th].jobs) \in Turns \cup {Context}
  BY <1>1
<1>3. ASSUME NEW u \in Turns
      PROVE  /\ run'[u] \in [stage : Stages, watching : BOOLEAN,
                             heard : SUBSET (Turns \cup {Context})]
             /\ run'[u].stage = run[u].stage /\ run'[u].watching = run[u].watching
  <2>1. run[u] \in [stage : Stages, watching : BOOLEAN, heard : SUBSET (Turns \cup {Context})]
    BY <1>1 DEF TeamTypeOK
  <2>2. run'[u] = IF u \in Watchers(th)
                  THEN [run[u] EXCEPT !.heard = @ \cup {Head(session[th].jobs)}] ELSE run[u]
    BY DEF AgentSpeaks
  <2> QED BY <1>2, <2>1, <2>2
<1>4. run' \in [Turns -> [stage : Stages, watching : BOOLEAN,
                         heard : SUBSET (Turns \cup {Context})]]
  <2>1. run' = [u \in Turns |-> run'[u]]
    BY DEF AgentSpeaks
  <2> QED BY <1>3, <2>1
<1>5. SameLock /\ SameRows /\ gone' = gone /\ session' = session /\ ask' = ask
  BY DEF AgentSpeaks
<1>6. TeamTypeOK'
  BY <1>1, <1>4, <1>5, SameTypes DEF TeamTypeOK
<1>7. RunEnds
  BY <1>3 DEF RunEnds
<1> QED BY <1>5, <1>6, <1>7, SessionStep

LEMMA AgentGoesIdleGood == ASSUME TeamInv, NEW th \in Threads, AgentGoesIdle(th) PROVE TeamInv'
<1>1. TeamTypeOK /\ session[th].jobs \in Seq(Turns \cup {Context}) /\ session[th].jobs # <<>>
  BY DEF TeamInv, TeamTypeOK, AgentGoesIdle
<1>2. /\ SameLock /\ SameRows /\ gone' = gone /\ ask' = ask
      /\ session' = [session EXCEPT ![th].jobs = Tail(@)] /\ EndWatches(Talkative(th), "answered")
  BY DEF AgentGoesIdle
<1>3. RunEnds /\ run' \in [Turns -> [stage : Stages, watching : BOOLEAN,
                                    heard : SUBSET (Turns \cup {Context})]]
  BY <1>1, <1>2, WatchesEnd
<1>4. session' \in [Threads -> [jobs : Seq(Turns \cup {Context}), briefed : BOOLEAN]]
  <2>1. Tail(session[th].jobs) \in Seq(Turns \cup {Context})
    BY <1>1
  <2> QED BY <1>1, <1>2, <2>1, JobTypes
<1>5. TeamTypeOK'
  BY <1>1, <1>2, <1>3, <1>4, SameTypes DEF TeamTypeOK
<1> QED BY <1>2, <1>3, <1>5, SessionStep

LEMMA AgentErrorsGood == ASSUME TeamInv, NEW th \in Threads, AgentErrors(th) PROVE TeamInv'
<1>1. TeamTypeOK /\ session[th].jobs \in Seq(Turns \cup {Context})
  BY DEF TeamInv, TeamTypeOK
<1>2. /\ SameLock /\ SameRows /\ gone' = gone /\ ask' = ask /\ EndWatches(Watchers(th), "failed")
  BY DEF AgentErrors
<1>3. PICK rest \in {<<>>} \cup {Tail(s) : s \in {session[th].jobs} \ {<<>>}} :
        session' = [session EXCEPT ![th].jobs = rest]
  BY DEF AgentErrors
<1>4. RunEnds /\ run' \in [Turns -> [stage : Stages, watching : BOOLEAN,
                                    heard : SUBSET (Turns \cup {Context})]]
  BY <1>1, <1>2, WatchesEnd
<1>5. rest \in Seq(Turns \cup {Context})
  <2>1. session[th].jobs # <<>> => Tail(session[th].jobs) \in Seq(Turns \cup {Context})
    BY <1>1
  <2>2. rest = <<>> \/ (session[th].jobs # <<>> /\ rest = Tail(session[th].jobs))
    OBVIOUS
  <2>3. <<>> \in Seq(Turns \cup {Context})
    OBVIOUS
  <2> QED BY <2>1, <2>2, <2>3
<1>6. session' \in [Threads -> [jobs : Seq(Turns \cup {Context}), briefed : BOOLEAN]]
  BY <1>1, <1>3, <1>5, JobTypes
<1>7. TeamTypeOK'
  BY <1>1, <1>2, <1>4, <1>6, SameTypes DEF TeamTypeOK
<1> QED BY <1>2, <1>4, <1>7, SessionStep

LEMMA TimeoutGood == ASSUME TeamInv, NEW t \in Turns, Timeout(t) PROVE TeamInv'
<1>1. TeamTypeOK /\ SameLock /\ SameRows /\ gone' = gone /\ session' = session /\ ask' = ask
      /\ EndWatches({t}, "failed")
  BY DEF Timeout, TeamInv
<1>2. RunEnds /\ run' \in [Turns -> [stage : Stages, watching : BOOLEAN,
                                    heard : SUBSET (Turns \cup {Context})]]
  BY <1>1, WatchesEnd
<1>3. TeamTypeOK'
  BY <1>1, <1>2, SameTypes DEF TeamTypeOK
<1> QED BY <1>1, <1>2, <1>3, SessionStep

\* An end of some prompts.
LEMMA AskEndsDoes ==
    ASSUME TeamTypeOK, NEW ended, NEW state \in AskStates, NEW p \in Prompts
    PROVE  /\ AskEnds(ended, state) \in [Prompts -> [state : AskStates, on : Threads \cup {NoThread}]]
           /\ AskEnds(ended, state)[p].on = ask[p].on
           /\ AskEnds(ended, state)[p].state = IF p \in ended THEN state ELSE ask[p].state
           /\ p \notin ended => AskEnds(ended, state)[p] = ask[p]
BY DEF AskEnds, TeamTypeOK

LEMMA CardGood ==
    ASSUME TeamInv, NEW p \in Prompts, DecideElsewhere(p)
    PROVE  TeamInv'
<1>1. ask' = AskEnds({p}, "decided")
  BY DEF DecideElsewhere
<1>2. TeamTypeOK /\ SameLock /\ SameRows /\ gone' = gone /\ session' = session /\ run' = run
  BY DEF DecideElsewhere, TeamInv
<1>3. "decided" \in AskStates
  BY DEF AskStates
<1>4. ask' \in [Prompts -> [state : AskStates, on : Threads \cup {NoThread}]]
  BY <1>1, <1>2, <1>3, AskEndsDoes
<1>5. TeamTypeOK'
  BY <1>2, <1>4, SameTypes DEF TeamTypeOK
<1>6. \A q \in Prompts : \/ ask'[q] = ask[q]
                         \/ /\ ask'[q].on = ask[q].on /\ ask[q].state # "none"
                            /\ ask'[q].state \notin {"none", "cancelled"}
  <2> SUFFICES ASSUME NEW q \in Prompts, q = p
               PROVE  /\ ask'[q].on = ask[q].on /\ ask[q].state # "none"
                      /\ ask'[q].state \notin {"none", "cancelled"}
    BY <1>1, <1>2, <1>3, AskEndsDoes
  <2>1. ask'[p].on = ask[p].on /\ ask'[p].state = "decided" /\ ask[p].state = "pending"
    BY <1>1, <1>2, <1>3, AskEndsDoes DEF DecideElsewhere
  <2> QED BY <2>1
<1>7. RunEnds
  BY <1>2 DEF RunEnds
<1> QED BY <1>2, <1>5, <1>6, <1>7, SessionStep

----------------------------------------------------------------------------
(* Approvals.                                                              *)

\* A hold that is over, alone or with the watches of a session that stops, and
\* with whatever happens to the prompts of that thread.
LEMMA ResumeStep ==
    ASSUME TeamInv, NEW t \in Turns, run[t].stage = "running", ResumeFromApproval(t),
           Save(t, "PROCESSING") \/ Miss(t), AllWritten \/ Refused,
           SyncThreadState(Home[t]) \/ Unsynced(Home[t]), gone' = gone, RunEnds,
           run' \in [Turns -> [stage : Stages, watching : BOOLEAN,
                              heard : SUBSET (Turns \cup {Context})]],
           session' \in [Threads -> [jobs : Seq(Turns \cup {Context}), briefed : BOOLEAN]],
           ask' \in [Prompts -> [state : AskStates, on : Threads \cup {NoThread}]],
           \A p \in Prompts :
               /\ ask'[p].on = ask[p].on
               /\ \/ ask'[p] = ask[p]
                  \/ /\ ask[p].state # "none"
                     /\ ask'[p].state \notin {"none", "cancelled"} \/ ask[p].on = Home[t]
    PROVE  TeamInv'
<1>1. IInv' /\ LockTypeOK'
  <2>1. IInv'
    BY ResumeFromApprovalKeeps DEF TeamInv
  <2> QED BY <2>1 DEF IInv, Good, LockTypeOK
<1>2. /\ IInv /\ TeamTypeOK /\ Home[t] \in Threads /\ turn[t] \in Turn
      /\ RunnerGood(t) /\ RowGood(t)
  BY TeamParts
<1>3. /\ turn'[t] = [turn[t] EXCEPT !.status = "PROCESSING", !.prompt = NoPrompt]
      /\ \A u \in Turns : u # t => turn'[u] = turn[u]
      /\ \A th \in Threads : lane'[th].active = lane[th].active
      /\ lane'[Home[t]].state = "PROCESSING_TURN"
      /\ \A th \in Threads : th # Home[t] => lane'[th] = lane[th]
      /\ lane[Home[t]].active = t
  <2>1. Here(t).active = t
    BY DEF ResumeFromApproval
  <2> QED BY <1>2, <2>1, ResumeDoes DEF Here
<1>4. turn[t].status \in Running /\ Home[t] \notin gone /\ core.up
  <2>1. turn[t].status \in Running
    BY <1>2, <1>3, Places
  <2> QED BY <2>1, ServedIsThere
<1>5. /\ row' \in [Turns -> RowStates] /\ missed' \subseteq Turns
      /\ core' \in [up : BOOLEAN, mishaps : 0..MaxMishaps] /\ core'.up = core.up
      /\ \A u \in Turns : u # t => row'[u] = row[u] /\ (u \in missed' <=> u \in missed)
  <2>1. "PROCESSING" \in RowStates
    BY DEF RowStates, Unsettled, Running
  <2> QED BY <1>2, <2>1, WriteTypes, CoreTypes
<1>6. /\ threadRow' \in [Threads -> [state : LaneStates, by : Turns \cup {NoTurn}]]
      /\ unsynced' \subseteq Threads
      /\ \A x \in Threads : x # Home[t] =>
           threadRow'[x] = threadRow[x] /\ (x \in unsynced' <=> x \in unsynced)
      /\ \/ Home[t] \in unsynced'
         \/ threadRow'[Home[t]] = [state |-> lane'[Home[t]].state, by |-> lane'[Home[t]].active]
      /\ row'[t] = "PROCESSING" \/ (t \in missed' /\ row'[t] = row[t])
  <2>1. lane' \in [Threads -> Lane]
    BY <1>1 DEF LockTypeOK
  <2>2. row'[t] = "PROCESSING" \/ (t \in missed' /\ row'[t] = row[t])
    BY <1>2, <1>4 DEF Save, Miss, TeamTypeOK
  <2> QED BY <1>2, <1>4, <2>1, <2>2, SyncTypes
<1>7. TeamTypeOK'
  BY <1>1, <1>2, <1>5, <1>6 DEF TeamTypeOK
<1>8. ASSUME NEW u \in Turns
      PROVE  /\ RunnerGood(u)' /\ RowGood(u)'
             /\ u # t => (Granted(u)' <=> Granted(u))
             /\ ~Granted(t)
  <2>1. CASE u = t
    <3>1. turn'[t].status = "PROCESSING"
      BY <1>2, <1>3 DEF Turn
    <3>2. \/ run'[t].stage = "running" /\ run'[t].watching
          \/ run'[t].stage \in {"answered", "failed"} /\ ~run'[t].watching
      BY <1>2 DEF RunEnds, RunnerGood
    <3>3. row'[t] \notin Outcomes /\ (t \in missed' \/ row'[t] = "PROCESSING")
      BY <1>2, <1>4, <1>6 DEF RowGood, Outcomes
    <3>4. ~Granted(t)' /\ ~Granted(t)
      BY <3>2 DEF Granted
    <3>5. RunnerGood(t)'
      BY <3>1, <3>2 DEF RunnerGood, Running
    <3>6. RowGood(t)'
      BY <1>4, <3>1, <3>2, <3>3, <3>4 DEF RowGood, Running
    <3> QED BY <2>1, <3>4, <3>5, <3>6
  <2>2. CASE u # t
    <3>1. ~Granted(t)
      BY DEF Granted
    <3> QED BY <1>3, <1>5, <2>2, <3>1, RunnersEnd
  <2> QED BY <2>1, <2>2
<1>9. ASSUME NEW th \in Threads PROVE ThreadGood(th)'
  <2>1. CASE th = Home[t]
    BY <1>6, <2>1 DEF ThreadGood
  <2>2. CASE th # Home[t]
    BY <1>3, <1>5, <1>6, <1>8, <2>2, OtherThread
  <2> QED BY <2>1, <2>2
<1>10. HoldGood'
  <2> SUFFICES ASSUME NEW th \in Threads, NEW p \in Prompts, OnHold(th, p)'
               PROVE  ask'[p].on = th /\ ask'[p].state \notin {"none", "cancelled"}
    BY DEF TeamInv, HoldGood
  <2>1. th # Home[t]
    BY <1>3 DEF OnHold
  <2>2. lane'[th] = lane[th] /\ turn'[lane[th].active] = turn[lane[th].active]
    <3>1. lane[th].state = "AWAITING_APPROVAL"
      BY <1>3, <2>1 DEF OnHold
    <3>2. lane[th].active \in Turns /\ Home[lane[th].active] = th
      BY <1>2, <3>1, Holder
    <3> QED BY <1>3, <2>1, <3>2
  <2>3. OnHold(th, p)
    BY <2>2 DEF OnHold
  <2> QED BY <2>1, <2>3 DEF TeamInv, HoldGood
<1>11. EmptyGood'
  <2>1. core'.up
    BY <1>4, <1>5
  <2>2. \A th \in gone : th \in Threads /\ th # Home[t]
    BY <1>2, <1>4 DEF TeamTypeOK
  <2> QED BY <1>3, <2>1, <2>2 DEF TeamInv, EmptyGood
<1> QED BY <1>1, <1>7, <1>8, <1>9, <1>10, <1>11 DEF TeamInv

LEMMA ResolveApprovedGood == ASSUME TeamInv, NEW t \in Turns, ResolveApproved(t) PROVE TeamInv'
<1> DEFINE p == turn[t].prompt
<1>1. /\ Quiet /\ Prompted(t) /\ ResumeFromApproval(t) /\ gone' = gone /\ run' = run
      /\ session' = session
      /\ Save(t, "PROCESSING") \/ Miss(t)
      /\ SyncThreadState(Home[t]) \/ Unsynced(Home[t])
      /\ AllWritten \/ Refused
      /\ ask' = [ask EXCEPT ![p] = Decide(p)] \/ ask' = ask
  BY DEF ResolveApproved, TrySync
<1>2. IInv /\ TeamTypeOK /\ Home[t] \in Threads
  BY TeamParts
<1>3. run[t].stage = "running"
  <2>1. turn[t].status \in Running
    BY <1>1, <1>2, Places DEF Prompted
  <2> QED BY <1>1, <2>1, QuietHolderRuns
<1>4. /\ ask' \in [Prompts -> [state : AskStates, on : Threads \cup {NoThread}]]
      /\ \A q \in Prompts : /\ ask'[q].on = ask[q].on
                            /\ \/ ask'[q] = ask[q]
                               \/ ask[q].state # "none" /\ ask'[q].state \notin {"none", "cancelled"}
  <2>1. CASE ask' = ask
    BY <1>2, <2>1 DEF TeamTypeOK
  <2>2. CASE ask' = [ask EXCEPT ![p] = Decide(p)]
    <3>1. ASSUME p \in Prompts
          PROVE  /\ Decide(p) \in [state : AskStates, on : Threads \cup {NoThread}]
                 /\ Decide(p).on = ask[p].on
                 /\ \/ Decide(p) = ask[p]
                    \/ /\ ask[p].state # "none"
                       /\ Decide(p).state \notin {"none", "cancelled"}
      <4>1. ask[p] \in [state : AskStates, on : Threads \cup {NoThread}]
        BY <1>2, <3>1 DEF TeamTypeOK
      <4> QED BY <4>1 DEF Decide, AskStates
    <3> HIDE DEF p
    <3> QED BY <1>2, <2>2, <3>1 DEF TeamTypeOK
  <2> QED BY <1>1, <2>1, <2>2
<1>5. RunEnds
  BY <1>1 DEF RunEnds
<1> HIDE DEF p
<1>6. /\ run' \in [Turns -> [stage : Stages, watching : BOOLEAN,
                            heard : SUBSET (Turns \cup {Context})]]
      /\ session' \in [Threads -> [jobs : Seq(Turns \cup {Context}), briefed : BOOLEAN]]
  BY <1>1, <1>2 DEF TeamTypeOK
<1> QED BY <1>1, <1>3, <1>4, <1>5, <1>6, ResumeStep

\* A prompt that is withdrawn, or cancelled with its session, resumes the turn
\* that is on hold for it: such a turn runs, and its watch hears of it.
LEMMA ReleaseHoldGood ==
    ASSUME TeamInv, Quiet, NEW th \in Threads, NEW cancelled \in SUBSET Prompts,
           \A p \in cancelled : ask[p].on = th /\ ask[p].state = "pending",
           ReleaseApprovalHold(th, cancelled), ask' = AskEnds(cancelled, "cancelled"),
           gone' = gone, RunEnds,
           run' \in [Turns -> [stage : Stages, watching : BOOLEAN,
                              heard : SUBSET (Turns \cup {Context})]],
           session' \in [Threads -> [jobs : Seq(Turns \cup {Context}), briefed : BOOLEAN]]
    PROVE  TeamInv'
<1> DEFINE t == lane[th].active
<1>1. IInv /\ TeamTypeOK
  BY DEF TeamInv
<1>2. ask' \in [Prompts -> [state : AskStates, on : Threads \cup {NoThread}]]
  BY <1>1 DEF AskEnds, AskStates, TeamTypeOK
<1>3. ASSUME NEW p \in Prompts
      PROVE  ask'[p].on = ask[p].on /\ (p \notin cancelled => ask'[p] = ask[p])
  <2>1. "cancelled" \in AskStates
    BY DEF AskStates
  <2> QED BY <1>1, <2>1, AskEndsDoes
<1>4. CASE t \in Watchers(th) /\ ResumeFromApproval(t) /\ Mirror(t, "PROCESSING")
  <2>1. t \in Turns /\ Home[t] = th /\ run[t].watching
    BY <1>4 DEF Watchers
  <2>2. turn[t].status \in Running
    BY <1>1, <2>1, Holder
  <2> HIDE DEF t
  <2>3. run[t].stage = "running"
    BY <2>1, <2>2, WatchedHolderRuns
  <2>4. \A p \in Prompts : /\ ask'[p].on = ask[p].on
                           /\ ask'[p] = ask[p] \/ (ask[p].state # "none" /\ ask[p].on = Home[t])
    BY <1>3, <2>1
  <2>5. /\ Save(t, "PROCESSING") \/ Miss(t)
        /\ SyncThreadState(Home[t]) \/ Unsynced(Home[t])
        /\ AllWritten \/ Refused
    BY <1>4 DEF Mirror, TrySync
  <2> QED BY <1>2, <1>4, <2>1, <2>3, <2>4, <2>5, ResumeStep
<1>5. CASE /\ ~ \E p \in cancelled : t \in Watchers(th) /\ OnHold(th, p)
           /\ SameLock /\ SameRows
  <2>1. ASSUME NEW p \in cancelled PROVE ~OnHold(th, p)
    <3> SUFFICES ASSUME OnHold(th, p) PROVE FALSE
      OBVIOUS
    <3>1. t \in Turns /\ Home[t] = th /\ turn[t].status \in Running
      BY <1>1, Holder DEF OnHold
    <3>2. t \in Watchers(th)
      BY <3>1, QuietHolderRuns
    <3> QED BY <1>5, <3>2
  <2>2. TeamTypeOK'
    BY <1>2, <1>5, SameTypes
  <2>3. \A p \in Prompts : \/ ask'[p] = ask[p]
                           \/ /\ ask'[p].on = ask[p].on /\ ask[p].state # "none"
                              /\ ~OnHold(ask[p].on, p)
    BY <1>3, <2>1
  <2> QED BY <1>5, <2>2, <2>3, SessionStep
<1> QED BY <1>4, <1>5 DEF ReleaseApprovalHold

LEMMA WithdrawAskGood == ASSUME TeamInv, NEW p \in Prompts, WithdrawAsk(p) PROVE TeamInv'
<1>1. /\ Quiet /\ ask[p].state = "pending" /\ ask' = AskEnds({p}, "cancelled")
      /\ ReleaseApprovalHold(ask[p].on, {p}) /\ gone' = gone /\ run' = run /\ session' = session
  BY DEF WithdrawAsk
<1>2. ask[p].on \in Threads
  BY <1>1 DEF TeamInv, HoldGood
<1>3. RunEnds
  BY <1>1 DEF RunEnds
<1>4. /\ run' \in [Turns -> [stage : Stages, watching : BOOLEAN,
                            heard : SUBSET (Turns \cup {Context})]]
      /\ session' \in [Threads -> [jobs : Seq(Turns \cup {Context}), briefed : BOOLEAN]]
  BY <1>1 DEF TeamInv, TeamTypeOK
<1>5. {p} \in SUBSET Prompts /\ \A q \in {p} : ask[q].on = ask[p].on /\ ask[q].state = "pending"
  BY <1>1
<1> QED BY <1>1, <1>2, <1>3, <1>4, <1>5, ReleaseHoldGood

LEMMA StopSessionGood == ASSUME TeamInv, NEW th \in Threads, StopSession(th) PROVE TeamInv'
<1>1. /\ Quiet /\ ask' = AskEnds(Raised(th), "cancelled") /\ ReleaseApprovalHold(th, Raised(th))
      /\ gone' = gone /\ session' = [session EXCEPT ![th].jobs = <<>>]
      /\ EndWatches(Talkative(th), "answered") /\ TeamTypeOK
  BY DEF StopSession, TeamInv
<1>2. Raised(th) \in SUBSET Prompts /\ \A p \in Raised(th) : ask[p].on = th /\ ask[p].state = "pending"
  BY DEF Raised
<1>3. RunEnds /\ run' \in [Turns -> [stage : Stages, watching : BOOLEAN,
                                    heard : SUBSET (Turns \cup {Context})]]
  BY <1>1, WatchesEnd
<1>4. session' \in [Threads -> [jobs : Seq(Turns \cup {Context}), briefed : BOOLEAN]]
  <2>1. <<>> \in Seq(Turns \cup {Context})
    OBVIOUS
  <2> QED BY <1>1, <2>1, JobTypes
<1> QED BY <1>1, <1>2, <1>3, <1>4, ReleaseHoldGood

----------------------------------------------------------------------------
(* Submission, and the runner.                                             *)

LEMMA EnqueueTurnGood == ASSUME TeamInv, NEW t \in Turns, EnqueueTurn(t) PROVE TeamInv'
<1>1. /\ core.up /\ Home[t] \notin gone /\ run[t].stage = "none" /\ AcquireUnseen(t)
      /\ row' = [row EXCEPT ![t] = "QUEUED"] /\ run' = [run EXCEPT ![t].stage = "awaiting"]
      /\ missed' = missed /\ threadRow' = threadRow /\ unsynced' = unsynced /\ gone' = gone
      /\ session' = session /\ ask' = ask /\ core' = core
  BY DEF EnqueueTurn, Quiet
<1>2. /\ IInv /\ TeamTypeOK /\ AllAsked /\ Home[t] \in Threads /\ turn[t] \in Turn
      /\ RunnerGood(t) /\ RowGood(t)
  BY TeamParts
<1>3. turn[t].status = "NEW" /\ ~run[t].watching /\ ~Granted(t)
  BY <1>1, <1>2 DEF RunnerGood, Granted
<1>4. IInv' /\ LockTypeOK'
  BY <1>1, <1>2, AcquireUnseenKeeps, LockTypes
<1>5. /\ \A u \in Turns : u # t => turn'[u] = turn[u]
      /\ \A th \in Threads : th # Home[t] => lane'[th] = lane[th]
      /\ \/ turn'[t] = [status |-> "PROCESSING", prompt |-> NoPrompt, answer |-> "granted"]
         \/ /\ turn'[t] = [status |-> "QUEUED", prompt |-> NoPrompt, answer |-> "pending"]
            /\ lane'[Home[t]].state = lane[Home[t]].state
            /\ lane'[Home[t]].active = lane[Home[t]].active
      /\ lane'[Home[t]].state = "AWAITING_APPROVAL" =>
           lane[Home[t]].state = "AWAITING_APPROVAL" /\ lane'[Home[t]].active = lane[Home[t]].active
  BY <1>1, <1>2, AcquireUnseenDoes DEF Here
<1>6. /\ run'[t].stage = "awaiting" /\ ~run'[t].watching /\ row'[t] = "QUEUED"
      /\ \A u \in Turns : u # t => run'[u] = run[u] /\ row'[u] = row[u]
      /\ row' \in [Turns -> RowStates]
      /\ run' \in [Turns -> [stage : Stages, watching : BOOLEAN,
                             heard : SUBSET (Turns \cup {Context})]]
  <2>1. "awaiting" \in Stages
    BY DEF Stages
  <2>2. /\ row'[t] = "QUEUED" /\ row' \in [Turns -> RowStates]
        /\ \A u \in Turns : u # t => row'[u] = row[u]
    BY <1>1, <1>2 DEF TeamTypeOK, RowStates, Unsettled
  <2> QED BY <1>1, <1>2, <1>3, <2>1, <2>2, StageTypes
<1>7. TeamTypeOK'
  BY <1>1, <1>2, <1>4, <1>6 DEF TeamTypeOK
<1>8. ASSUME NEW u \in Turns, u # t
      PROVE  RunnerGood(u)' /\ RowGood(u)' /\ (Granted(u)' <=> Granted(u))
  BY <1>1, <1>5, <1>6, <1>8, UntouchedTurn
<1>9. RunnerGood(t)' /\ RowGood(t)'
  <2>1. \/ turn'[t].status = "PROCESSING" /\ turn'[t].answer = "granted" /\ Granted(t)'
        \/ turn'[t].status = "QUEUED" /\ turn'[t].answer = "pending"
    BY <1>5, <1>6 DEF Granted
  <2>2. RunnerGood(t)'
    BY <1>6, <2>1 DEF RunnerGood
  <2>3. RowGood(t)'
    BY <1>1, <1>3, <1>6, <2>1 DEF RowGood, Outcomes
  <2> QED BY <2>2, <2>3
<1>10. ASSUME NEW th \in Threads PROVE ThreadGood(th)'
  <2>1. CASE th = Home[t] /\ turn'[t].answer = "granted"
    <3>1. Granted(t)'
      BY <1>6, <2>1 DEF Granted
    <3> QED BY <2>1, <3>1 DEF ThreadGood
  <2>2. CASE th # Home[t] \/ turn'[t].answer # "granted"
    <3>1. lane'[th].state = lane[th].state /\ lane'[th].active = lane[th].active
      BY <1>5, <2>2
    <3> QED BY <1>1, <1>3, <1>8, <3>1, OtherThread
  <2> QED BY <2>1, <2>2
<1>11. HoldGood'
  <2>1. ASSUME NEW th \in Threads, NEW p \in Prompts, OnHold(th, p)'
        PROVE  ask[p].on = th /\ ask[p].state \notin {"none", "cancelled"}
    <3>1. lane'[th].state = "AWAITING_APPROVAL" =>
            lane[th].state = "AWAITING_APPROVAL" /\ lane'[th].active = lane[th].active
      BY <1>5
    <3>2. \A u \in Turns : turn[u].status = "AWAITING_APPROVAL" => turn'[u].prompt = turn[u].prompt
      BY <1>3, <1>5
    <3> QED BY <2>1, <3>1, <3>2, SameHold
  <2> QED BY <1>1, <2>1 DEF TeamInv, HoldGood
<1>12. EmptyGood'
  BY <1>1, <1>2, <1>5, SameEmpty
<1> QED BY <1>4, <1>7, <1>8, <1>9, <1>10, <1>11, <1>12 DEF TeamInv

\* A step of the runner that leaves the lock as it is.
LEMMA RunnerStep ==
    ASSUME TeamInv, SameLock, NEW t \in Turns, gone' = gone, ask' = ask, TeamTypeOK',
           core.up, core'.up = core.up,
           \A u \in Turns : u # t =>
               run'[u] = run[u] /\ row'[u] = row[u] /\ (u \in missed' <=> u \in missed),
           \A th \in Threads : th # Home[t] =>
               threadRow'[th] = threadRow[th] /\ (th \in unsynced' <=> th \in unsynced),
           RunnerGood(t)', RowGood(t)', ThreadGood(Home[t])'
    PROVE  TeamInv'
<1>1. IInv' /\ lane' = lane /\ turn' = turn
  BY SameLockKeeps DEF TeamInv
<1>2. ASSUME NEW u \in Turns, u # t
      PROVE  RunnerGood(u)' /\ RowGood(u)' /\ (Granted(u)' <=> Granted(u))
  BY <1>1, <1>2, UntouchedTurn
<1>3. ASSUME NEW th \in Threads, th # Home[t] PROVE ThreadGood(th)'
  BY <1>1, <1>2, <1>3, OtherThread
<1>4. HoldGood'
  BY <1>1 DEF TeamInv, HoldGood, OnHold
<1>5. EmptyGood'
  BY <1>1 DEF TeamInv, EmptyGood
<1> QED BY <1>1, <1>2, <1>3, <1>4, <1>5 DEF TeamInv

LEMMA EndWithdrawnGood == ASSUME TeamInv, NEW t \in Turns, EndWithdrawn(t) PROVE TeamInv'
<1>1. /\ core.up /\ Withdrawn(t) /\ SameLock /\ run' = [run EXCEPT ![t].stage = "done"]
      /\ row' = row /\ missed' = missed /\ threadRow' = threadRow /\ unsynced' = unsynced
      /\ gone' = gone /\ session' = session /\ ask' = ask /\ core' = core
  BY DEF EndWithdrawn, SameRows
<1>2. /\ TeamTypeOK /\ Home[t] \in Threads /\ RunnerGood(t) /\ RowGood(t) /\ ThreadGood(Home[t])
      /\ lane' = lane /\ turn' = turn /\ settled' = settled
  BY <1>1, TeamParts, SameLockKeeps DEF TeamInv
<1>3. /\ run'[t].stage = "done" /\ run'[t].watching = run[t].watching
      /\ \A u \in Turns : u # t => run'[u] = run[u]
      /\ run' \in [Turns -> [stage : Stages, watching : BOOLEAN,
                             heard : SUBSET (Turns \cup {Context})]]
  <2>1. "done" \in Stages
    BY DEF Stages
  <2> QED BY <1>1, <1>2, <2>1, StageTypes
<1>4. run[t].stage = "awaiting" /\ turn[t].status \in {"CANCELLED", "DROPPED"} /\ ~run[t].watching
  BY <1>1, <1>2 DEF Withdrawn, RunnerGood, Running, Outcomes
<1>5. TeamTypeOK'
  BY <1>1, <1>2, <1>3 DEF TeamTypeOK, LockTypeOK
<1>6. ~Granted(t) /\ ~Granted(t)'
  BY <1>1, <1>3 DEF Granted, Withdrawn
<1>7. RunnerGood(t)'
  BY <1>2, <1>3, <1>4 DEF RunnerGood, Outcomes
<1>8. RowGood(t)'
  BY <1>1, <1>2, <1>3, <1>6 DEF RowGood
<1>9. ThreadGood(Home[t])'
  <2>1. \A u \in Turns : Granted(u) => Granted(u)'
    BY <1>2, <1>3, <1>6 DEF Granted
  <2> QED BY <1>1, <1>2, <2>1, OtherThread
<1> QED BY <1>1, <1>3, <1>5, <1>7, <1>8, <1>9, RunnerStep

\* A submission that fails half way leaves a row to nobody, and no turn.
LEMMA EnqueueFailsGood == ASSUME TeamInv, NEW t \in Turns, EnqueueFails(t) PROVE TeamInv'
<1>1. /\ core.up /\ Home[t] \notin gone /\ run[t].stage = "none" /\ Refused /\ SameLock
      /\ row' = [row EXCEPT ![t] = "QUEUED"] /\ run' = [run EXCEPT ![t].stage = "lost"]
      /\ missed' = missed /\ threadRow' = threadRow /\ unsynced' = unsynced /\ gone' = gone
      /\ session' = session /\ ask' = ask
  BY DEF EnqueueFails, Quiet
<1>2. /\ TeamTypeOK /\ Home[t] \in Threads /\ RunnerGood(t)
      /\ lane' = lane /\ turn' = turn /\ settled' = settled
  BY <1>1, TeamParts, SameLockKeeps
<1>3. /\ run'[t].stage = "lost" /\ run'[t].watching = run[t].watching
      /\ \A u \in Turns : u # t => run'[u] = run[u]
      /\ run' \in [Turns -> [stage : Stages, watching : BOOLEAN,
                             heard : SUBSET (Turns \cup {Context})]]
  <2>1. "lost" \in Stages
    BY DEF Stages
  <2> QED BY <1>1, <1>2, <2>1, StageTypes
<1>4. /\ row'[t] = "QUEUED" /\ row' \in [Turns -> RowStates]
      /\ \A u \in Turns : u # t => row'[u] = row[u]
  BY <1>1, <1>2 DEF TeamTypeOK, RowStates, Unsettled
<1>5. core' \in [up : BOOLEAN, mishaps : 0..MaxMishaps] /\ core'.up = core.up
  BY <1>1, <1>2, CoreTypes
<1>6. TeamTypeOK'
  BY <1>1, <1>2, <1>3, <1>4, <1>5 DEF TeamTypeOK, LockTypeOK
<1>7. turn[t].status = "NEW" /\ ~run[t].watching /\ ~Granted(t) /\ ~Granted(t)'
  BY <1>1, <1>2, <1>3 DEF RunnerGood, Granted
<1>8. RunnerGood(t)' /\ RowGood(t)'
  BY <1>1, <1>2, <1>3, <1>7 DEF RunnerGood, RowGood, Running
<1>9. ThreadGood(Home[t])'
  <2>1. \A u \in Turns : Granted(u) => Granted(u)'
    BY <1>2, <1>3, <1>7 DEF Granted
  <2> QED BY <1>1, <1>2, <1>5, <2>1, OtherThread
<1> QED BY <1>1, <1>3, <1>4, <1>5, <1>6, <1>8, <1>9, RunnerStep

\* A granted turn starts, or does not get that far: its runner goes on with the
\* lock, and the rows say that it runs or that one of them was refused.
LEMMA StartStep ==
    ASSUME TeamInv, NEW t \in Turns, core.up, Granted(t), SameLock, gone' = gone, ask' = ask,
           \/ MarkStarted(t)
           \/ (Save(t, "PROCESSING") \/ Miss(t)) /\ Unsynced(Home[t]) /\ Refused,
           NEW stage \in {"running", "failed"},
           run'[t].stage = stage, run'[t].watching = (stage = "running"),
           \A u \in Turns : u # t => run'[u] = run[u],
           run' \in [Turns -> [stage : Stages, watching : BOOLEAN,
                              heard : SUBSET (Turns \cup {Context})]],
           session' \in [Threads -> [jobs : Seq(Turns \cup {Context}), briefed : BOOLEAN]]
    PROVE  TeamInv'
<1>1. /\ TeamTypeOK /\ Home[t] \in Threads /\ RowGood(t)
      /\ lane' = lane /\ turn' = turn /\ settled' = settled
  BY TeamParts, SameLockKeeps
<1>2. /\ turn[t].status = "PROCESSING" /\ lane[Home[t]].active = t
      /\ lane[Home[t]].state = "PROCESSING_TURN" /\ Home[t] \notin gone
  BY GrantedHolds DEF Here
<1>3. (Save(t, "PROCESSING") \/ Miss(t)) /\ (AllWritten \/ Refused)
  BY DEF MarkStarted
<1>4. /\ row' \in [Turns -> RowStates] /\ missed' \subseteq Turns
      /\ core' \in [up : BOOLEAN, mishaps : 0..MaxMishaps] /\ core'.up = core.up
      /\ \A u \in Turns : u # t => row'[u] = row[u] /\ (u \in missed' <=> u \in missed)
  <2>1. "PROCESSING" \in RowStates
    BY DEF RowStates, Unsettled, Running
  <2> QED BY <1>1, <1>3, <2>1, WriteTypes, CoreTypes
<1>5. /\ threadRow' \in [Threads -> [state : LaneStates, by : Turns \cup {NoTurn}]]
      /\ unsynced' \subseteq Threads
      /\ \A th \in Threads : th # Home[t] =>
           threadRow'[th] = threadRow[th] /\ (th \in unsynced' <=> th \in unsynced)
      /\ \/ threadRow'[Home[t]] = [state |-> "PROCESSING_TURN", by |-> t]
         \/ Home[t] \in unsynced'
  <2>1. CASE MarkStarted(t)
    BY <1>1, <1>2, <2>1 DEF MarkStarted, TeamTypeOK, LaneStates
  <2>2. CASE Unsynced(Home[t])
    BY <1>1, <2>2 DEF Unsynced, TeamTypeOK
  <2> QED BY <2>1, <2>2
<1>6. TeamTypeOK'
  BY <1>1, <1>4, <1>5 DEF TeamTypeOK, LockTypeOK
<1>7. ~Granted(t)'
  BY DEF Granted
<1>8. RunnerGood(t)'
  BY <1>1, <1>2, <1>3 DEF RunnerGood, Running
<1>9. RowGood(t)'
  <2>1. row'[t] = "PROCESSING" \/ (row'[t] = "QUEUED" /\ t \in missed')
    BY <1>1, <1>2, <1>3 DEF Save, Miss, TeamTypeOK, RowGood
  <2> QED BY <1>1, <1>2, <1>7, <2>1 DEF RowGood, Outcomes
<1>10. ThreadGood(Home[t])'
  BY <1>1, <1>2, <1>5 DEF ThreadGood
<1> QED BY <1>4, <1>5, <1>6, <1>8, <1>9, <1>10, RunnerStep

LEMMA StartTurnGood == ASSUME TeamInv, NEW t \in Turns, StartTurn(t) PROVE TeamInv'
<1> DEFINE th == Home[t]
<1>1. /\ core.up /\ Granted(t) /\ MarkStarted(t) /\ SameLock /\ gone' = gone /\ ask' = ask
      /\ run' = [run EXCEPT ![t].stage = "running", ![t].watching = TRUE]
  BY DEF StartTurn, SameLock, lockVars
<1>2. TeamTypeOK /\ th \in Threads
  BY TeamParts
<1>3. PICK context \in {<<>>, <<Context>>} : \E delivered \in BOOLEAN :
        session' = [session EXCEPT ![th] =
            [jobs |-> IF delivered THEN @.jobs \o context \o <<t>> ELSE @.jobs,
             briefed |-> TRUE]]
  BY DEF StartTurn
<1>4. PICK delivered \in BOOLEAN :
        session' = [session EXCEPT ![th] =
            [jobs |-> IF delivered THEN @.jobs \o context \o <<t>> ELSE @.jobs,
             briefed |-> TRUE]]
  BY <1>3
<1>5. session' \in [Threads -> [jobs : Seq(Turns \cup {Context}), briefed : BOOLEAN]]
  <2>1. session[th].jobs \in Seq(Turns \cup {Context})
    BY <1>2 DEF TeamTypeOK
  <2>2. <<>> \in Seq(Turns \cup {Context}) /\ <<Context>> \in Seq(Turns \cup {Context})
    OBVIOUS
  <2>3. context = <<>> \/ context = <<Context>>
    OBVIOUS
  <2>4. <<t>> \in Seq(Turns \cup {Context})
    OBVIOUS
  <2>5. context \in Seq(Turns \cup {Context})
    BY <2>2, <2>3
  <2>6. session[th].jobs \o context \o <<t>> \in Seq(Turns \cup {Context})
    BY <2>1, <2>4, <2>5
  <2> HIDE DEF th
  <2> QED BY <1>2, <1>4, <2>1, <2>6 DEF TeamTypeOK
<1>6. /\ run'[t].stage = "running" /\ run'[t].watching
      /\ \A u \in Turns : u # t => run'[u] = run[u]
      /\ run' \in [Turns -> [stage : Stages, watching : BOOLEAN,
                             heard : SUBSET (Turns \cup {Context})]]
  <2>1. run[t] \in [stage : Stages, watching : BOOLEAN, heard : SUBSET (Turns \cup {Context})]
    BY <1>2 DEF TeamTypeOK
  <2>2. run' = [run EXCEPT ![t] = [run[t] EXCEPT !.stage = "running", !.watching = TRUE]]
    BY <1>1, <1>2 DEF TeamTypeOK
  <2>3. [run[t] EXCEPT !.stage = "running", !.watching = TRUE]
          \in [stage : Stages, watching : BOOLEAN, heard : SUBSET (Turns \cup {Context})]
    BY <2>1 DEF Stages
  <2> QED BY <1>2, <2>1, <2>2, <2>3 DEF TeamTypeOK
<1> HIDE DEF th
<1> QED BY <1>1, <1>5, <1>6, StartStep

LEMMA StartFailedGood ==
    ASSUME TeamInv, NEW t \in Turns, StartUnbound(t) \/ StartFails(t)
    PROVE  TeamInv'
<1>1. /\ core.up /\ Granted(t) /\ SameLock /\ gone' = gone /\ ask' = ask /\ session' = session
      /\ \/ MarkStarted(t)
         \/ (Save(t, "PROCESSING") \/ Miss(t)) /\ Unsynced(Home[t]) /\ Refused
      /\ run' = [run EXCEPT ![t].stage = "failed"]
  BY DEF StartUnbound, StartFails, SameLock, lockVars
<1>2. TeamTypeOK /\ RunnerGood(t)
  BY TeamParts
<1>3. ~run[t].watching
  BY <1>1, <1>2 DEF RunnerGood, Granted
<1>4. /\ run'[t].stage = "failed" /\ ~run'[t].watching
      /\ \A u \in Turns : u # t => run'[u] = run[u]
      /\ run' \in [Turns -> [stage : Stages, watching : BOOLEAN,
                             heard : SUBSET (Turns \cup {Context})]]
  <2>1. "failed" \in Stages
    BY DEF Stages
  <2> QED BY <1>1, <1>2, <1>3, <2>1, StageTypes
<1>5. session' \in [Threads -> [jobs : Seq(Turns \cup {Context}), briefed : BOOLEAN]]
  BY <1>1, <1>2 DEF TeamTypeOK
<1> QED BY <1>1, <1>4, <1>5, StartStep

\* A holder's turn ends and the lock is released: the next in line is granted
\* it, and the prompts of that thread may be settled by it, no others.
LEMMA ReleaseStep ==
    ASSUME TeamInv, NEW t \in Turns, NEW o \in Outcomes, ReleaseTurn(t, o),
           Save(t, o) \/ Miss(t), AllWritten \/ Refused,
           SyncThreadState(Home[t]) \/ Unsynced(Home[t]), gone' = gone,
           NEW stage \in {"done", "refused"},
           stage = "refused" => o = "CANCELLED" /\ Save(t, o),
           run'[t].stage = stage,
           \A u \in Turns : u # t => run'[u] = run[u],
           run' \in [Turns -> [stage : Stages, watching : BOOLEAN,
                              heard : SUBSET (Turns \cup {Context})]],
           session' \in [Threads -> [jobs : Seq(Turns \cup {Context}), briefed : BOOLEAN]],
           ask' \in [Prompts -> [state : AskStates, on : Threads \cup {NoThread}]],
           \A p \in Prompts :
               /\ ask'[p].on = ask[p].on /\ (ask[p].state = "none" => ask'[p].state = "none")
               /\ ask[p].on # Home[t] => ask'[p] = ask[p]
    PROVE  TeamInv'
<1>1. IInv' /\ LockTypeOK'
  BY ReleaseTurnKeeps, LockTypes DEF TeamInv
<1>2. IInv /\ TeamTypeOK /\ AllAsked /\ Home[t] \in Threads /\ turn[t] \in Turn
      /\ RunnerGood(t) /\ RowGood(t)
  BY TeamParts
<1>3. /\ Here(t).active = t /\ turn'[t] = [turn[t] EXCEPT !.status = o]
      /\ \A u \in Turns : u # t =>
           \/ turn'[u] = turn[u]
           \/ /\ Home[u] = Home[t] /\ turn[u].status = "QUEUED"
              /\ turn'[u] = [turn[u] EXCEPT !.status = "PROCESSING", !.answer = "granted"]
      /\ \A th \in Threads : th # Home[t] => lane'[th] = lane[th]
      /\ lane'[Home[t]].state # "AWAITING_APPROVAL"
  BY ZenonT(30), <1>2, ReleaseDoes
<1>4. turn[t].status \in Running /\ Home[t] \notin gone /\ core.up
  <2>1. turn[t].status \in Running
    BY <1>2, <1>3, Places DEF Here
  <2> QED BY <2>1, ServedIsThere
<1>5. /\ row' \in [Turns -> RowStates] /\ missed' \subseteq Turns
      /\ core' \in [up : BOOLEAN, mishaps : 0..MaxMishaps] /\ core'.up = core.up
      /\ \A u \in Turns : u # t => row'[u] = row[u] /\ (u \in missed' <=> u \in missed)
  <2>1. o \in RowStates
    BY DEF RowStates
  <2> QED BY <1>2, <2>1, WriteTypes, CoreTypes
<1>6. /\ row'[t] = o \/ (t \in missed' /\ row'[t] \notin Outcomes)
      /\ stage = "refused" => row'[t] = "CANCELLED"
  BY <1>2, <1>4 DEF Save, Miss, TeamTypeOK, RowGood
<1>7. /\ threadRow' \in [Threads -> [state : LaneStates, by : Turns \cup {NoTurn}]]
      /\ unsynced' \subseteq Threads
      /\ \A th \in Threads : th # Home[t] =>
           threadRow'[th] = threadRow[th] /\ (th \in unsynced' <=> th \in unsynced)
      /\ \/ Home[t] \in unsynced'
         \/ threadRow'[Home[t]] = [state |-> lane'[Home[t]].state, by |-> lane'[Home[t]].active]
  <2>1. lane' \in [Threads -> Lane]
    BY <1>1 DEF LockTypeOK
  <2> QED BY <1>2, <1>4, <2>1, SyncTypes
<1>8. TeamTypeOK'
  BY <1>1, <1>2, <1>5, <1>7 DEF TeamTypeOK
<1>9. ASSUME NEW u \in Turns, u # t
      PROVE  /\ RunnerGood(u)' /\ RowGood(u)' /\ (Granted(u) => Granted(u)')
             /\ Home[u] # Home[t] => turn'[u] = turn[u]
  <2>1. CASE turn'[u] = turn[u]
    BY <1>5, <1>9, <2>1, UntouchedTurn
  <2>2. CASE /\ Home[u] = Home[t] /\ turn[u].status = "QUEUED"
             /\ turn'[u] = [turn[u] EXCEPT !.status = "PROCESSING", !.answer = "granted"]
    BY <1>5, <1>9, <2>2, ServedNext
  <2> QED BY <1>3, <1>9, <2>1, <2>2
<1>10. RunnerGood(t)' /\ RowGood(t)'
  <2>1. turn'[t].status = o /\ ~Granted(t)'
    BY <1>2, <1>3 DEF Turn, Granted
  <2>2. RunnerGood(t)'
    BY <2>1 DEF RunnerGood, Outcomes
  <2>3. RowGood(t)'
    BY <1>4, <1>6, <2>1 DEF RowGood, Outcomes, Running
  <2> QED BY <2>2, <2>3
<1>11. ASSUME NEW th \in Threads PROVE ThreadGood(th)'
  <2>1. CASE th = Home[t]
    BY <1>7, <2>1 DEF ThreadGood
  <2>2. CASE th # Home[t]
    BY <1>3, <1>5, <1>7, <1>9, <2>2, OtherThread
  <2> QED BY <2>1, <2>2
<1>12. HoldGood'
  <2>1. ASSUME NEW p \in Prompts, ask'[p].state # "none" PROVE ask'[p].on \in Threads
    BY <2>1 DEF TeamInv, HoldGood
  <2>2. ASSUME NEW th \in Threads, NEW p \in Prompts, OnHold(th, p)'
        PROVE  ask'[p].on = th /\ ask'[p].state \notin {"none", "cancelled"}
    <3>1. th # Home[t]
      BY <1>3, <2>2 DEF OnHold
    <3>2. ask[p].on = th /\ ask[p].state \notin {"none", "cancelled"}
      <4>1. \A u \in Turns : Home[u] = th => turn'[u].prompt = turn[u].prompt
        BY <1>9, <3>1
      <4>2. lane'[th] = lane[th]
        BY <1>3, <3>1
      <4> QED BY <2>2, <4>1, <4>2, SameHold
    <3> QED BY <3>1, <3>2
  <2> QED BY <2>1, <2>2 DEF HoldGood
<1>13. EmptyGood'
  BY <1>2, <1>3, <1>4, <1>5, SameEmpty
<1> QED BY <1>1, <1>8, <1>9, <1>10, <1>11, <1>12, <1>13 DEF TeamInv

LEMMA FinishTurnGood == ASSUME TeamInv, NEW t \in Turns, FinishTurn(t) PROVE TeamInv'
<1> DEFINE o == OutcomeOf(run[t].stage)
<1>1. /\ core.up /\ Ended(t)
      /\ Save(t, o) \/ Miss(t)
      /\ SyncThreadState(Home[t]) \/ Unsynced(Home[t])
      /\ AllWritten \/ Refused
      /\ run' = [run EXCEPT ![t].stage = "done"]
      /\ gone' = gone /\ session' = session /\ ask' = ask
  BY DEF FinishTurn, TrySync
<1>2. /\ TeamTypeOK /\ IInv /\ Home[t] \in Threads /\ RunnerGood(t) /\ RowGood(t)
  BY TeamParts
<1>3. /\ run'[t].stage = "done" /\ run'[t].watching = run[t].watching
      /\ \A u \in Turns : u # t => run'[u] = run[u]
      /\ run' \in [Turns -> [stage : Stages, watching : BOOLEAN,
                             heard : SUBSET (Turns \cup {Context})]]
  <2>1. "done" \in Stages
    BY DEF Stages
  <2> HIDE DEF o
  <2> QED BY <1>1, <1>2, <2>1, StageTypes
<1>4. /\ session' \in [Threads -> [jobs : Seq(Turns \cup {Context}), briefed : BOOLEAN]]
      /\ ask' \in [Prompts -> [state : AskStates, on : Threads \cup {NoThread}]]
  BY <1>1, <1>2 DEF TeamTypeOK
<1>5. o \in Outcomes /\ (run[t].stage = "refused" => o = "CANCELLED")
  BY <1>1 DEF Ended, OutcomeOf, Outcomes
<1> HIDE DEF o
<1>6. CASE ReleaseTurn(t, o)
  BY <1>1, <1>3, <1>4, <1>5, <1>6, ReleaseStep
<1>7. CASE Here(t).active # t /\ SameLock
  <2>1. lane' = lane /\ turn' = turn /\ settled' = settled
    BY <1>2, <1>7, SameLockKeeps
  <2>2. turn[t].status \notin Running
    BY <1>2, <1>7, Places DEF Here
  <2>3. \/ turn[t].status = "DROPPED"
        \/ run[t].stage = "refused" /\ turn[t].status = "CANCELLED"
    BY <1>1, <1>2, <2>2 DEF Ended, RunnerGood
  <2>4. /\ row' \in [Turns -> RowStates] /\ missed' \subseteq Turns
        /\ core' \in [up : BOOLEAN, mishaps : 0..MaxMishaps] /\ core'.up = core.up
        /\ \A u \in Turns : u # t => row'[u] = row[u] /\ (u \in missed' <=> u \in missed)
    <3>1. o \in RowStates
      BY <1>5 DEF RowStates
    <3> QED BY <1>1, <1>2, <3>1, WriteTypes, CoreTypes
  <2>5. /\ Home[t] \in gone => row'[t] = "NONE"
        /\ Home[t] \in gone \/ t \in missed' \/ row'[t] = o
    BY <1>1, <1>2 DEF Save, Miss, TeamTypeOK, RowGood
  <2>6. /\ threadRow' \in [Threads -> [state : LaneStates, by : Turns \cup {NoTurn}]]
        /\ unsynced' \subseteq Threads
        /\ \A th \in Threads : th # Home[t] =>
             threadRow'[th] = threadRow[th] /\ (th \in unsynced' <=> th \in unsynced)
        /\ \/ Home[t] \in unsynced'
           \/ threadRow'[Home[t]] = [state |-> lane'[Home[t]].state, by |-> lane'[Home[t]].active]
    <3>1. lane' \in [Threads -> Lane]
      BY <1>2, <2>1 DEF IInv, Good
    <3>2. Home[t] \in gone => lane'[Home[t]] = EmptyLane
      BY <1>2, <2>1 DEF TeamInv, EmptyGood
    <3>3. IdleRow = [state |-> EmptyLane.state, by |-> EmptyLane.active]
      BY DEF IdleRow, EmptyLane
    <3> QED BY <1>1, <1>2, <3>1, <3>2, <3>3, SyncTypes
  <2>7. TeamTypeOK'
    BY <1>1, <1>2, <1>3, <1>4, <2>1, <2>4, <2>6 DEF TeamTypeOK, LockTypeOK
  <2>8. ~Granted(t)'
    BY <1>3 DEF Granted
  <2>9. RunnerGood(t)'
    BY <1>3, <2>1, <2>3 DEF RunnerGood, Outcomes
  <2>10. RowGood(t)'
    BY <1>1, <1>3, <1>5, <2>1, <2>3, <2>5, <2>8 DEF RowGood, Running
  <2>11. ThreadGood(Home[t])'
    BY <2>6 DEF ThreadGood
  <2> QED BY <1>1, <1>3, <1>7, <2>4, <2>6, <2>7, <2>9, <2>10, <2>11, RunnerStep
<1>8. ReleaseTurn(t, o) \/ (Here(t).active # t /\ SameLock)
  BY DEF FinishTurn, o
<1> QED BY <1>6, <1>7, <1>8

LEMMA CancelQueuedGood == ASSUME TeamInv, NEW t \in Turns, CancelQueued(t) PROVE TeamInv'
<1>1. /\ core.up /\ CancelTurn(t)
      /\ Save(t, "CANCELLED") \/ Miss(t)
      /\ AllWritten \/ Refused
      /\ Home[t] \notin gone /\ threadRow' = threadRow /\ unsynced' = unsynced /\ gone' = gone
      /\ run' = run /\ session' = session /\ ask' = ask
  BY DEF CancelQueued, Quiet
<1>2. IInv /\ TeamTypeOK /\ AllAsked /\ Home[t] \in Threads /\ turn[t] \in Turn
      /\ RunnerGood(t) /\ RowGood(t)
  BY TeamParts
<1>3. IInv' /\ LockTypeOK'
  BY <1>1, <1>2, CancelTurnKeeps, LockTypes
<1>4. /\ turn[t].status = "QUEUED"
      /\ turn'[t] = [turn[t] EXCEPT !.status = "CANCELLED", !.answer = "refused"]
      /\ \A u \in Turns : u # t => turn'[u] = turn[u]
      /\ \A th \in Threads : /\ lane'[th].state = lane[th].state
                             /\ lane'[th].active = lane[th].active
                             /\ th # Home[t] => lane'[th] = lane[th]
  BY <1>1, <1>2, CancelDoes
<1>5. /\ row' \in [Turns -> RowStates] /\ missed' \subseteq Turns
      /\ core' \in [up : BOOLEAN, mishaps : 0..MaxMishaps] /\ core'.up = core.up
      /\ \A u \in Turns : u # t => row'[u] = row[u] /\ (u \in missed' <=> u \in missed)
  <2>1. "CANCELLED" \in RowStates
    BY DEF RowStates, Outcomes
  <2> QED BY <1>1, <1>2, <2>1, WriteTypes, CoreTypes
<1>6. TeamTypeOK'
  BY <1>1, <1>2, <1>3, <1>5 DEF TeamTypeOK
<1>7. /\ run[t].stage = "awaiting" /\ turn[t].answer = "pending" /\ ~run[t].watching
      /\ turn'[t].status = "CANCELLED" /\ turn'[t].answer = "refused"
      /\ ~Granted(t) /\ ~Granted(t)'
  BY <1>1, <1>2, <1>4 DEF RunnerGood, Running, Outcomes, Granted, Turn
<1>8. row'[t] = "CANCELLED" \/ t \in missed'
  BY <1>1, <1>2 DEF Save, Miss, TeamTypeOK
<1>9. ASSUME NEW u \in Turns, u # t
      PROVE  RunnerGood(u)' /\ RowGood(u)' /\ (Granted(u)' <=> Granted(u))
  BY <1>1, <1>4, <1>5, <1>9, UntouchedTurn
<1>10. RunnerGood(t)'
  BY <1>1, <1>7 DEF RunnerGood
<1>11. RowGood(t)'
  BY <1>1, <1>7, <1>8 DEF RowGood, Running
<1>12. ASSUME NEW th \in Threads PROVE ThreadGood(th)'
  BY <1>1, <1>4, <1>5, <1>7, <1>9, OtherThread
<1>13. HoldGood'
  <2>1. ASSUME NEW th \in Threads, NEW p \in Prompts, OnHold(th, p)'
        PROVE  ask[p].on = th /\ ask[p].state \notin {"none", "cancelled"}
    <3>1. turn'[t].prompt = turn[t].prompt
      BY <1>2, <1>4 DEF Turn
    <3>2. \A u \in Turns : turn'[u].prompt = turn[u].prompt
      BY <1>4, <3>1
    <3> QED BY <1>4, <2>1, <3>2, SameHold
  <2> QED BY <1>1, <2>1 DEF TeamInv, HoldGood
<1>14. EmptyGood'
  BY <1>1, <1>2, <1>4, <1>5, SameEmpty
<1> QED BY <1>3, <1>6, <1>9, <1>10, <1>11, <1>12, <1>13, <1>14 DEF TeamInv

\* A rejection settles the prompt it answers and whatever else the thread asked.
LEMMA ResolveRejectedGood == ASSUME TeamInv, NEW t \in Turns, ResolveRejected(t) PROVE TeamInv'
<1> DEFINE p == turn[t].prompt
           others == Raised(Home[t])
           decided == Decide(p)
<1>1. /\ Quiet /\ lane[Home[t]].active = t /\ lane[Home[t]].state = "AWAITING_APPROVAL"
      /\ ReleaseTurn(t, "CANCELLED") /\ Save(t, "CANCELLED")
      /\ SyncThreadState(Home[t]) \/ Unsynced(Home[t])
      /\ AllWritten \/ Refused
      /\ run' = [run EXCEPT ![t].stage = "refused"] /\ gone' = gone /\ session' = session
      /\ ask' = [AskEnds(others, "cancelled") EXCEPT ![p] = decided]
  BY DEF ResolveRejected, Prompted, TrySync
<1>2. IInv /\ TeamTypeOK /\ Home[t] \in Threads
  BY TeamParts
<1>3. /\ run'[t].stage = "refused"
      /\ \A u \in Turns : u # t => run'[u] = run[u]
      /\ run' \in [Turns -> [stage : Stages, watching : BOOLEAN,
                             heard : SUBSET (Turns \cup {Context})]]
      /\ session' \in [Threads -> [jobs : Seq(Turns \cup {Context}), briefed : BOOLEAN]]
  <2>1. "refused" \in Stages
    BY DEF Stages
  <2>2. session' \in [Threads -> [jobs : Seq(Turns \cup {Context}), briefed : BOOLEAN]]
    BY <1>1, <1>2 DEF TeamTypeOK
  <2> HIDE DEF p, others, decided
  <2> QED BY <1>1, <1>2, <2>1, <2>2, StageTypes
<1>4. p \in Prompts => ask[p].on = Home[t]
  BY <1>1, <1>2 DEF TeamInv, HoldGood, OnHold
<1>5. ASSUME NEW q \in Prompts
      PROVE  /\ ask[q] \in [state : AskStates, on : Threads \cup {NoThread}]
             /\ ask[q] = [state |-> ask[q].state, on |-> ask[q].on]
             /\ q \in others => ask[q].state = "pending" /\ ask[q].on = Home[t]
  BY <1>2 DEF TeamTypeOK, Raised
<1>6. ASSUME NEW q \in Prompts
      PROVE  /\ ask'[q] \in [state : AskStates, on : Threads \cup {NoThread}]
             /\ ask'[q].on = ask[q].on /\ (ask[q].state = "none" => ask'[q].state = "none")
             /\ ask[q].on # Home[t] => ask'[q] = ask[q]
  <2> DEFINE closed == AskEnds(others, "cancelled")
  <2>1. ask' = [closed EXCEPT ![p] = decided]
    BY <1>1
  <2>2. closed = [x \in Prompts |-> closed[x]]
    BY DEF AskEnds
  <2>3. closed[q] = IF q \in others THEN [ask[q] EXCEPT !.state = "cancelled"] ELSE ask[q]
    BY DEF AskEnds
  <2>4. "cancelled" \in AskStates /\ "decided" \in AskStates
    BY DEF AskStates
  <2> HIDE DEF closed, others, p, decided
  <2>5. CASE q = p
    <3>1. decided = [ask[q] EXCEPT !.state = IF @ = "pending" THEN "decided" ELSE @]
      BY <2>5 DEF decided, Decide
    <3>2. ask'[q] = decided
      BY <2>1, <2>2, <2>5
    <3>3. /\ decided \in [state : AskStates, on : Threads \cup {NoThread}]
          /\ decided.on = ask[q].on /\ (ask[q].state = "none" => decided.state = "none")
      BY <1>5, <2>4, <3>1
    <3> QED BY <1>4, <2>5, <3>2, <3>3
  <2>6. CASE q # p
    <3>1. ask'[q] = closed[q]
      BY <2>1, <2>2, <2>6
    <3>2. CASE q \in others
      <4>1. ask'[q] = [ask[q] EXCEPT !.state = "cancelled"]
        BY <2>3, <3>1, <3>2
      <4> QED BY <1>5, <2>4, <3>2, <4>1
    <3>3. CASE q \notin others
      BY <1>5, <2>3, <3>1, <3>3
    <3> QED BY <3>2, <3>3
  <2> QED BY <2>5, <2>6
<1>7. ask' \in [Prompts -> [state : AskStates, on : Threads \cup {NoThread}]]
  <2>1. ask' = [x \in Prompts |-> ask'[x]]
    BY <1>1 DEF AskEnds
  <2> QED BY <1>6, <2>1
<1>8. "CANCELLED" \in Outcomes
  BY DEF Outcomes
<1> HIDE DEF p, others, decided
<1> QED BY <1>1, <1>3, <1>6, <1>7, <1>8, ReleaseStep

\* A prompt the agent raises parks the turn that hears it, and no other.
LEMMA AgentAsksGood ==
    ASSUME TeamInv, NEW th \in Threads, NEW p \in FreshPrompts, AgentAsks(th, p)
    PROVE  TeamInv'
<1> DEFINE holder == lane[th].active
<1>1. p \in Prompts /\ ask[p].state = "none"
  BY DEF FreshPrompts
<1>2. /\ core.up /\ ask' = [ask EXCEPT ![p].state = "pending", ![p].on = th]
      /\ gone' = gone /\ run' = run /\ session' = session
      /\ \/ /\ holder \in Watchers(th)
            /\ MarkAwaitingApproval(holder, p)
            /\ Mirror(holder, "AWAITING_APPROVAL")
         \/ SameLock /\ SameRows
  BY DEF AgentAsks, Quiet
<1>3. IInv /\ TeamTypeOK
  BY DEF TeamInv
<1>4. /\ ask' \in [Prompts -> [state : AskStates, on : Threads \cup {NoThread}]]
      /\ ask'[p].state = "pending" /\ ask'[p].on = th
      /\ \A q \in Prompts : q # p => ask'[q] = ask[q]
  <2>1. ask' = [ask EXCEPT ![p] = [ask[p] EXCEPT !.state = "pending", !.on = th]]
    BY <1>1, <1>2, <1>3 DEF TeamTypeOK
  <2>2. ask[p] \in [state : AskStates, on : Threads \cup {NoThread}]
    BY <1>1, <1>3 DEF TeamTypeOK
  <2>3. /\ [ask[p] EXCEPT !.state = "pending", !.on = th]
             \in [state : AskStates, on : Threads \cup {NoThread}]
        /\ [ask[p] EXCEPT !.state = "pending", !.on = th].state = "pending"
        /\ [ask[p] EXCEPT !.state = "pending", !.on = th].on = th
    BY <2>2 DEF AskStates
  <2> QED BY <1>1, <1>3, <2>1, <2>3 DEF TeamTypeOK
<1>5. /\ run' \in [Turns -> [stage : Stages, watching : BOOLEAN,
                            heard : SUBSET (Turns \cup {Context})]]
      /\ session' \in [Threads -> [jobs : Seq(Turns \cup {Context}), briefed : BOOLEAN]]
  BY <1>2, <1>3 DEF TeamTypeOK
<1>6. RunEnds
  BY <1>2 DEF RunEnds
<1> HIDE DEF holder
<1>7. CASE SameLock /\ SameRows
  <2>1. TeamTypeOK'
    BY <1>2, <1>4, <1>5, <1>7, SameTypes
  <2> QED BY <1>1, <1>2, <1>4, <1>6, <1>7, <2>1, SessionStep
<1>8. ASSUME NEW t \in Watchers(th), t = holder, MarkAwaitingApproval(t, p),
             Mirror(t, "AWAITING_APPROVAL")
      PROVE  TeamInv'
  <2>1. t \in Turns /\ Home[t] = th /\ run[t].watching /\ turn[t].status \in Running
    BY <1>3, <1>8, Holder DEF Watchers, holder
  <2>2. run[t].stage = "running" /\ th \notin gone
    BY <2>1, WatchedHolderRuns, ServedIsThere
  <2>3. IInv' /\ LockTypeOK'
    BY <1>1, <1>3, <1>8, <2>1, MarkAwaitingApprovalKeeps, LockTypes
  <2>4. /\ turn'[t] = [turn[t] EXCEPT !.status = "AWAITING_APPROVAL", !.prompt = p]
        /\ \A u \in Turns : u # t => turn'[u] = turn[u]
        /\ \A x \in Threads : lane'[x].active = lane[x].active
        /\ \A x \in Threads : x # th => lane'[x] = lane[x]
    BY <1>1, <1>3, <1>8, <2>1, MarkDoes
  <2>5. turn[t] \in Turn /\ turn'[t].status = "AWAITING_APPROVAL" /\ turn'[t].prompt = p
        /\ RunnerGood(t) /\ RowGood(t)
    <3>1. turn[t] \in Turn /\ RunnerGood(t) /\ RowGood(t)
      BY <2>1, TeamParts
    <3> QED BY <2>4, <3>1 DEF Turn
  <2>6. /\ Save(t, "AWAITING_APPROVAL") \/ Miss(t)
        /\ SyncThreadState(th) \/ Unsynced(th)
        /\ AllWritten \/ Refused
    BY <1>8, <2>1 DEF Mirror, TrySync
  <2>7. /\ row' \in [Turns -> RowStates] /\ missed' \subseteq Turns
        /\ core' \in [up : BOOLEAN, mishaps : 0..MaxMishaps] /\ core'.up = core.up
        /\ \A u \in Turns : u # t => row'[u] = row[u] /\ (u \in missed' <=> u \in missed)
    <3>1. "AWAITING_APPROVAL" \in RowStates
      BY DEF RowStates, Unsettled, Running
    <3> QED BY <1>3, <2>1, <2>6, <3>1, WriteTypes, CoreTypes
  <2>8. /\ threadRow' \in [Threads -> [state : LaneStates, by : Turns \cup {NoTurn}]]
        /\ unsynced' \subseteq Threads
        /\ \A x \in Threads : x # th =>
             threadRow'[x] = threadRow[x] /\ (x \in unsynced' <=> x \in unsynced)
        /\ \/ th \in unsynced'
           \/ threadRow'[th] = [state |-> lane'[th].state, by |-> lane'[th].active]
        /\ row'[t] = "AWAITING_APPROVAL" \/ (t \in missed' /\ row'[t] = row[t])
    <3>1. lane' \in [Threads -> Lane]
      BY <2>3 DEF LockTypeOK
    <3>2. row'[t] = "AWAITING_APPROVAL" \/ (t \in missed' /\ row'[t] = row[t])
      BY <1>3, <2>1, <2>2, <2>6 DEF Save, Miss, TeamTypeOK
    <3> QED BY <1>3, <2>2, <2>6, <3>1, <3>2, SyncTypes
  <2>9. TeamTypeOK'
    BY <1>2, <1>3, <1>4, <1>5, <2>3, <2>7, <2>8 DEF TeamTypeOK
  <2>10. ~Granted(t) /\ ~Granted(t)'
    BY <1>2, <2>2 DEF Granted
  <2>11. ASSUME NEW u \in Turns, u # t
         PROVE  RunnerGood(u)' /\ RowGood(u)' /\ (Granted(u)' <=> Granted(u))
    BY <1>2, <2>4, <2>7, <2>11, UntouchedTurn
  <2>12. RunnerGood(t)'
    BY <1>2, <2>1, <2>2, <2>5 DEF RunnerGood, Running
  <2>13. RowGood(t)'
    BY <1>2, <2>1, <2>2, <2>5, <2>8, <2>10 DEF RowGood, Running, Outcomes
  <2>14. ASSUME NEW x \in Threads PROVE ThreadGood(x)'
    <3>1. CASE x = th
      BY <2>1, <2>8, <3>1 DEF ThreadGood
    <3>2. CASE x # th
      BY <2>1, <2>4, <2>7, <2>8, <2>10, <2>11, <3>2, OtherThread
    <3> QED BY <3>1, <3>2
  <2>15. HoldGood'
    <3>1. ASSUME NEW q \in Prompts, ask'[q].state # "none" PROVE ask'[q].on \in Threads
      BY <1>4, <3>1 DEF TeamInv, HoldGood
    <3>2. ASSUME NEW x \in Threads, NEW q \in Prompts, OnHold(x, q)'
          PROVE  ask'[q].on = x /\ ask'[q].state \notin {"none", "cancelled"}
      <4>1. CASE x = th
        <5>1. lane'[th].active = t
          BY <1>8, <2>4 DEF holder
        <5>2. q = p
          BY <2>5, <3>2, <4>1, <5>1 DEF OnHold
        <5> QED BY <1>4, <4>1, <5>2
      <4>2. CASE x # th
        <5>1. \A u \in Turns : Home[u] = x => turn'[u].prompt = turn[u].prompt
          BY <2>1, <2>4, <4>2
        <5>2. lane'[x] = lane[x]
          BY <2>4, <4>2
        <5>3. ask[q].on = x /\ ask[q].state \notin {"none", "cancelled"}
          BY <3>2, <5>1, <5>2, SameHold
        <5> QED BY <1>1, <1>4, <5>3
      <4> QED BY <4>1, <4>2
    <3> QED BY <3>1, <3>2 DEF HoldGood
  <2>16. EmptyGood'
    BY <1>2, <2>2, <2>4, <2>7, SameEmpty
  <2> QED BY <2>3, <2>9, <2>11, <2>12, <2>13, <2>14, <2>15, <2>16 DEF TeamInv
<1> QED BY <1>2, <1>7, <1>8

----------------------------------------------------------------------------
(* Deletion, crash and restart.                                            *)

\* A thread's lane is cleared: its turns are dropped, and their rows are gone
\* with it, or stay.
LEMMA ClearStep ==
    ASSUME TeamInv, Quiet, NEW th \in Threads, ClearThread(th), TeamTypeOK',
           run' = run, ask' = ask, core'.up = core.up,
           \A x \in Threads : x # th =>
               /\ x \in gone' <=> x \in gone
               /\ threadRow'[x] = threadRow[x] /\ (x \in unsynced' <=> x \in unsynced),
           th \in unsynced' \/ threadRow'[th] = IdleRow,
           \A u \in Turns : Home[u] # th => row'[u] = row[u] /\ (u \in missed' <=> u \in missed),
           \A u \in Turns : Home[u] = th =>
               \/ th \in gone' /\ row'[u] = "NONE"
               \/ /\ th \notin gone /\ th \notin gone'
                  /\ row'[u] = row[u] /\ (u \in missed => u \in missed')
    PROVE  TeamInv'
<1>1. IInv /\ IInv' /\ TeamTypeOK
  BY ClearThreadKeeps DEF TeamInv
<1>2. /\ lane'[th] = EmptyLane
      /\ \A x \in Threads : x # th => lane'[x] = lane[x]
      /\ \A u \in Turns : Home[u] # th => turn'[u] = turn[u]
      /\ \A u \in Turns : Home[u] = th =>
           /\ turn'[u].status = IF turn[u].status \in Running \cup {"QUEUED"}
                                THEN "DROPPED" ELSE turn[u].status
           /\ turn'[u].answer = IF turn[u].answer = "pending" THEN "refused" ELSE turn[u].answer
  BY <1>1, ClearDoes
<1>3. IdleRow = [state |-> lane'[th].state, by |-> lane'[th].active]
  BY <1>2 DEF EmptyLane, IdleRow
<1>4. ASSUME NEW u \in Turns, Home[u] # th
      PROVE  RunnerGood(u)' /\ RowGood(u)' /\ (Granted(u)' <=> Granted(u))
  <2>1. Home[u] \in Threads
    BY TeamParts
  <2> QED BY <1>2, <1>4, <2>1, UntouchedTurn
<1>5. ASSUME NEW u \in Turns, Home[u] = th PROVE RunnerGood(u)' /\ RowGood(u)'
  <2>1. RunnerGood(u) /\ RowGood(u) /\ turn[u] \in Turn
    BY TeamParts
  <2>2. ~Granted(u) /\ ~Withdrawn(u) /\ ~Ended(u)
    BY DEF Quiet
  <2>3. /\ turn'[u].status = IF turn[u].status \in Running \cup {"QUEUED"}
                             THEN "DROPPED" ELSE turn[u].status
        /\ turn'[u].answer = IF turn[u].answer = "pending" THEN "refused" ELSE turn[u].answer
    BY <1>2, <1>5
  <2>4. ~Granted(u)' /\ turn'[u].status \notin Running \cup {"QUEUED"}
    BY <2>2, <2>3 DEF Granted, Running
  <2>5. RunnerGood(u)'
    <3>1. CASE run[u].stage = "awaiting"
      BY <2>1, <2>2, <2>3, <3>1 DEF RunnerGood, Granted, Withdrawn
    <3>2. CASE run[u].stage # "awaiting"
      BY <2>1, <2>2, <2>3, <3>2 DEF RunnerGood, Ended, Running, Outcomes
    <3> QED BY <3>1, <3>2
  <2>6. CASE th \in gone' /\ row'[u] = "NONE"
    <3>1. RowGood(u)'
      BY <1>5, <2>4, <2>6 DEF RowGood, Outcomes
    <3> QED BY <2>5, <3>1
  <2>7. CASE /\ th \notin gone /\ th \notin gone'
             /\ row'[u] = row[u] /\ (u \in missed => u \in missed')
    <3>1. turn'[u].status = "DROPPED" \/ turn'[u].status = turn[u].status
      BY <2>3
    <3>2. RowGood(u)'
      BY <1>5, <2>1, <2>2, <2>4, <2>7, <3>1 DEF RowGood
    <3> QED BY <2>5, <3>2
  <2> QED BY <1>5, <2>6, <2>7
<1>6. ASSUME NEW x \in Threads PROVE ThreadGood(x)'
  <2>1. CASE x = th
    BY <1>3, <2>1 DEF ThreadGood
  <2>2. CASE x # th
    BY <1>2, <1>4, <2>2, OtherThread
  <2> QED BY <2>1, <2>2
<1>7. HoldGood'
  <2>1. ASSUME NEW x \in Threads, NEW p \in Prompts, OnHold(x, p)'
        PROVE  ask[p].on = x /\ ask[p].state \notin {"none", "cancelled"}
    <3>1. x # th
      BY <1>2, <2>1 DEF OnHold, EmptyLane
    <3>2. \A u \in Turns : Home[u] = x => turn'[u].prompt = turn[u].prompt
      BY <1>2, <3>1
    <3>3. lane'[x] = lane[x]
      BY <1>2, <3>1
    <3> QED BY <2>1, <3>2, <3>3, SameHold
  <2> QED BY <2>1 DEF TeamInv, HoldGood
<1>8. EmptyGood'
  BY <1>2 DEF TeamInv, EmptyGood, Quiet
<1> QED BY <1>1, <1>4, <1>5, <1>6, <1>7, <1>8 DEF TeamInv

LEMMA DeleteTeamAgentGood ==
    ASSUME TeamInv, NEW th \in Threads, DeleteTeamAgent(th)
    PROVE  TeamInv'
<1>1. /\ Quiet /\ ClearThread(th) /\ gone' = gone \cup {th}
      /\ row' = [t \in Turns |-> IF Home[t] = th THEN "NONE" ELSE row[t]]
      /\ missed' = {t \in missed : Home[t] # th}
      /\ threadRow' = [threadRow EXCEPT ![th] = IdleRow] /\ unsynced' = unsynced \ {th}
      /\ session' = [session EXCEPT ![th].briefed = FALSE]
      /\ run' = run /\ ask' = ask /\ core' = core
  BY DEF DeleteTeamAgent
<1>2. IInv /\ TeamTypeOK
  BY DEF TeamInv
<1>3. LockTypeOK'
  BY <1>1, <1>2, ClearThreadKeeps, LockTypes
<1>4. /\ threadRow' \in [Threads -> [state : LaneStates, by : Turns \cup {NoTurn}]]
      /\ threadRow'[th] = IdleRow
      /\ \A x \in Threads : x # th => threadRow'[x] = threadRow[x]
  <2>1. IdleRow \in [state : LaneStates, by : Turns \cup {NoTurn}]
    BY DEF IdleRow, LaneStates
  <2> QED BY <1>1, <1>2, <2>1 DEF TeamTypeOK
<1>5. /\ row' \in [Turns -> RowStates]
      /\ \A u \in Turns : /\ Home[u] = th => row'[u] = "NONE"
                          /\ Home[u] # th => row'[u] = row[u] /\ (u \in missed' <=> u \in missed)
  BY <1>1, <1>2 DEF TeamTypeOK, RowStates
<1>6. session' \in [Threads -> [jobs : Seq(Turns \cup {Context}), briefed : BOOLEAN]]
  BY <1>1, <1>2 DEF TeamTypeOK
<1>7. TeamTypeOK'
  BY <1>1, <1>2, <1>3, <1>4, <1>5, <1>6 DEF TeamTypeOK
<1> QED BY <1>1, <1>4, <1>5, <1>7, ClearStep

LEMMA DeleteFailsGood ==
    ASSUME TeamInv, NEW th \in Threads, DeleteFails(th)
    PROVE  TeamInv'
<1>1. /\ Quiet /\ th \notin gone /\ Refused /\ ClearThread(th)
      /\ missed' = missed \cup {t \in Turns : Home[t] = th /\ row[t] \in Unsettled}
      /\ unsynced' = unsynced \cup {th}
      /\ session' = [session EXCEPT ![th].briefed = FALSE]
      /\ row' = row /\ threadRow' = threadRow /\ gone' = gone /\ run' = run /\ ask' = ask
  BY DEF DeleteFails
<1>2. IInv /\ TeamTypeOK
  BY DEF TeamInv
<1>3. LockTypeOK'
  BY <1>1, <1>2, ClearThreadKeeps, LockTypes
<1>4. core' \in [up : BOOLEAN, mishaps : 0..MaxMishaps] /\ core'.up = core.up
  BY <1>1, <1>2, CoreTypes
<1>5. session' \in [Threads -> [jobs : Seq(Turns \cup {Context}), briefed : BOOLEAN]]
  BY <1>1, <1>2 DEF TeamTypeOK
<1>6. TeamTypeOK'
  BY <1>1, <1>2, <1>3, <1>4, <1>5 DEF TeamTypeOK
<1> QED BY <1>1, <1>4, <1>6, ClearStep

LEMMA CrashGood == ASSUME TeamInv, Crash PROVE TeamInv'
<1>1. /\ core.mishaps < MaxMishaps
      /\ core' = [core EXCEPT !.up = FALSE, !.mishaps = @ + 1]
      /\ lane' = [th \in Threads |-> EmptyLane]
      /\ run' = [t \in Turns |->
                  [stage |-> IF run[t].stage = "none" THEN "none" ELSE "lost",
                   watching |-> FALSE, heard |-> {}]]
      /\ session' = [th \in Threads |-> NoSession]
      /\ ask' = AskEnds({p \in Prompts : ask[p].state = "pending"}, "decided")
      /\ row' = row /\ missed' = missed /\ threadRow' = threadRow /\ unsynced' = unsynced
      /\ gone' = gone
  BY DEF Crash
<1>2. IInv /\ TeamTypeOK
  BY DEF TeamInv
<1>3. IInv' /\ LockTypeOK'
  BY CrashKeepsLock, LockTypes
<1>4. core' \in [up : BOOLEAN, mishaps : 0..MaxMishaps] /\ ~core'.up
  <2>1. core.mishaps + 1 \in 0..MaxMishaps
    BY <1>1, <1>2, TeamAssumption DEF TeamTypeOK
  <2> QED BY <1>1, <1>2, <2>1 DEF TeamTypeOK
<1>5. session' \in [Threads -> [jobs : Seq(Turns \cup {Context}), briefed : BOOLEAN]]
  <2>1. <<>> \in Seq(Turns \cup {Context})
    OBVIOUS
  <2> QED BY <1>1, <2>1 DEF NoSession
<1>6. /\ ask' \in [Prompts -> [state : AskStates, on : Threads \cup {NoThread}]]
      /\ \A p \in Prompts : ask'[p].on = ask[p].on /\ (ask[p].state = "none" => ask'[p] = ask[p])
  <2> DEFINE open == {p \in Prompts : ask[p].state = "pending"}
  <2>1. ASSUME NEW p \in Prompts
        PROVE  /\ ask'[p] \in [state : AskStates, on : Threads \cup {NoThread}]
               /\ ask'[p].on = ask[p].on /\ (ask[p].state = "none" => ask'[p] = ask[p])
    <3>1. ask[p] \in [state : AskStates, on : Threads \cup {NoThread}]
      BY <1>2 DEF TeamTypeOK
    <3>2. ask'[p] = IF p \in open THEN [ask[p] EXCEPT !.state = "decided"] ELSE ask[p]
      BY <1>1 DEF AskEnds
    <3> QED BY <3>1, <3>2 DEF AskStates
  <2>2. ask' = [p \in Prompts |-> ask'[p]]
    BY <1>1 DEF AskEnds
  <2> QED BY <2>1, <2>2
<1>7. run' \in [Turns -> [stage : Stages, watching : BOOLEAN,
                          heard : SUBSET (Turns \cup {Context})]]
  BY <1>1 DEF Stages
<1>8. TeamTypeOK'
  BY <1>1, <1>2, <1>3, <1>4, <1>5, <1>6, <1>7 DEF TeamTypeOK
<1>9. ASSUME NEW u \in Turns
      PROVE  /\ run'[u].stage = (IF run[u].stage = "none" THEN "none" ELSE "lost") /\ ~run'[u].watching
             /\ turn'[u].status \in {"NEW", "DROPPED"}
             /\ run'[u].stage = "none" => turn'[u].status = "NEW"
  <2>1. RunnerGood(u) /\ turn[u] \in Turn
    BY TeamParts
  <2>2. turn'[u] = IF turn[u] = FreshTurn THEN FreshTurn
                   ELSE [FreshTurn EXCEPT !.status = "DROPPED", !.answer = "refused"]
    BY CrashKeepsLock
  <2>3. /\ run'[u].stage = IF run[u].stage = "none" THEN "none" ELSE "lost"
        /\ ~run'[u].watching
    BY <1>1
  <2>4. turn'[u].status \in {"NEW", "DROPPED"}
    <3>1. FreshTurn.status = "NEW"
      BY DEF FreshTurn
    <3>2. [FreshTurn EXCEPT !.status = "DROPPED", !.answer = "refused"].status = "DROPPED"
      BY DEF FreshTurn
    <3> QED BY <2>2, <3>1, <3>2
  <2>5. run'[u].stage = "none" => turn'[u].status = "NEW"
    <3> SUFFICES ASSUME run[u].stage = "none" PROVE turn'[u].status = "NEW"
      BY <2>3
    <3>1. turn[u].status = "NEW"
      BY <2>1 DEF RunnerGood
    <3>2. turn[u].answer = "unasked" /\ turn[u].prompt = NoPrompt
      BY <1>2, <3>1 DEF IInv, Good, TurnGood
    <3>3. turn[u] = FreshTurn
      BY <2>1, <3>1, <3>2 DEF Turn, FreshTurn
    <3> QED BY <2>2, <3>3 DEF FreshTurn
  <2> QED BY <2>3, <2>4, <2>5
<1>10. ASSUME NEW u \in Turns PROVE RunnerGood(u)'
  BY <1>9 DEF RunnerGood
<1>11. ASSUME NEW u \in Turns PROVE RowGood(u)'
  <2>1. RowGood(u)
    BY DEF TeamInv
  <2>2. ~Granted(u)'
    BY <1>9 DEF Granted
  <2> QED BY <1>1, <1>9, <2>1, <2>2 DEF RowGood, Running
<1>12. ASSUME NEW th \in Threads PROVE ThreadGood(th)'
  BY <1>4 DEF ThreadGood
<1>13. HoldGood'
  <2>1. \A th \in Threads, p \in Prompts : ~OnHold(th, p)'
    BY <1>1 DEF OnHold, EmptyLane
  <2> QED BY <1>6, <2>1 DEF TeamInv, HoldGood
<1>14. EmptyGood'
  BY <1>1, <1>9 DEF EmptyGood
<1> QED BY <1>3, <1>8, <1>10, <1>11, <1>12, <1>13, <1>14 DEF TeamInv

LEMMA RestartGood == ASSUME TeamInv, Restart PROVE TeamInv'
<1>1. /\ ~core.up /\ core' = [core EXCEPT !.up = TRUE]
      /\ row' = [t \in Turns |-> CASE row[t] \in Running -> "FAILED"
                                   [] row[t] = "QUEUED"  -> "CANCELLED"
                                   [] OTHER              -> row[t]]
      /\ missed' = {} /\ unsynced' = {} /\ threadRow' = [th \in Threads |-> IdleRow]
      /\ SameLock /\ gone' = gone /\ run' = run /\ session' = session /\ ask' = ask
  BY DEF Restart, SameLock, lockVars
<1>2. TeamTypeOK /\ IInv' /\ lane' = lane /\ turn' = turn /\ settled' = settled
  BY <1>1, SameLockKeeps DEF TeamInv
<1>3. \A th \in Threads : lane[th] = EmptyLane
  BY <1>1 DEF TeamInv, EmptyGood
<1>4. \A u \in Turns : turn[u].status \in {"NEW", "DROPPED"} /\ run[u].stage \in {"none", "lost"}
  BY <1>1 DEF TeamInv, EmptyGood
<1>5. TeamTypeOK'
  <2>1. row' \in [Turns -> RowStates]
    <3>1. ASSUME NEW u \in Turns PROVE row'[u] \in RowStates
      <4>1. row[u] \in RowStates
        BY <1>2 DEF TeamTypeOK
      <4>2. row'[u] = CASE row[u] \in Running -> "FAILED"
                        [] row[u] = "QUEUED"  -> "CANCELLED"
                        [] OTHER              -> row[u]
        BY <1>1
      <4> QED BY <4>1, <4>2 DEF RowStates, Unsettled, Outcomes, Running
    <3> QED BY <1>1, <3>1
  <2>2. IdleRow \in [state : LaneStates, by : Turns \cup {NoTurn}]
    BY DEF IdleRow, LaneStates
  <2> QED BY <1>1, <1>2, <2>1, <2>2 DEF TeamTypeOK, LockTypeOK
<1>6. ASSUME NEW u \in Turns PROVE RunnerGood(u)' /\ RowGood(u)'
  <2>1. RunnerGood(u) /\ RowGood(u) /\ turn[u].status \in {"NEW", "DROPPED"}
    BY <1>4 DEF TeamInv
  <2>2. row[u] = "NONE" => row'[u] = "NONE"
    BY <1>1 DEF Running
  <2>3. run[u].stage \in {"none", "lost"} /\ ~Granted(u)
    BY <1>4 DEF Granted
  <2>4. ~Granted(u)'
    BY <1>1, <1>2, <2>3 DEF Granted
  <2>5. RunnerGood(u)'
    BY <1>1, <1>2, <2>1 DEF RunnerGood
  <2>6. RowGood(u)'
    BY <1>1, <1>2, <2>1, <2>2, <2>3, <2>4 DEF RowGood, Running
  <2> QED BY <2>5, <2>6
<1>7. ASSUME NEW th \in Threads PROVE ThreadGood(th)'
  BY <1>1, <1>2, <1>3 DEF ThreadGood, IdleRow, EmptyLane
<1>8. HoldGood'
  BY <1>1, <1>2 DEF TeamInv, HoldGood, OnHold
<1>9. EmptyGood'
  BY <1>1, <1>2, <1>3, <1>4 DEF EmptyGood
<1> QED BY <1>2, <1>5, <1>6, <1>7, <1>8, <1>9 DEF TeamInv

----------------------------------------------------------------------------
(* The invariant holds.                                                    *)

LEMMA TeamInitGood == TeamInit => TeamInv
<1> SUFFICES ASSUME TeamInit PROVE TeamInv
  OBVIOUS
<1>1. /\ LockInit /\ row = [t \in Turns |-> "NONE"] /\ missed = {}
      /\ threadRow = [th \in Threads |-> IdleRow] /\ unsynced = {} /\ gone = {}
      /\ run = [t \in Turns |-> [stage |-> "none", watching |-> FALSE, heard |-> {}]]
      /\ session = [th \in Threads |-> NoSession]
      /\ ask = [p \in Prompts |-> [state |-> "none", on |-> NoThread]]
      /\ core = [up |-> TRUE, mishaps |-> 0]
  BY DEF TeamInit
<1>2. IInv /\ LockTypeOK
  BY <1>1, InitEstablishes DEF IInv, Good, LockTypeOK
<1>3. /\ lane = [th \in Threads |-> EmptyLane] /\ turn = [t \in Turns |-> FreshTurn]
  BY <1>1 DEF LockInit
<1>4. TeamTypeOK
  <2>1. <<>> \in Seq(Turns \cup {Context}) /\ 0 \in 0..MaxMishaps
    BY TeamAssumption
  <2>2. session \in [Threads -> [jobs : Seq(Turns \cup {Context}), briefed : BOOLEAN]]
    BY <1>1, <2>1 DEF NoSession
  <2>3. threadRow \in [Threads -> [state : LaneStates, by : Turns \cup {NoTurn}]]
    BY <1>1 DEF IdleRow, LaneStates
  <2>4. /\ run \in [Turns -> [stage : Stages, watching : BOOLEAN,
                              heard : SUBSET (Turns \cup {Context})]]
        /\ ask \in [Prompts -> [state : AskStates, on : Threads \cup {NoThread}]]
        /\ row \in [Turns -> RowStates]
    BY <1>1 DEF Stages, AskStates, RowStates
  <2> QED BY <1>1, <1>2, <2>1, <2>2, <2>3, <2>4 DEF TeamTypeOK
<1>5. ASSUME NEW u \in Turns PROVE RunnerGood(u) /\ RowGood(u)
  <2>1. run[u].stage = "none" /\ ~run[u].watching /\ turn[u].status = "NEW" /\ row[u] = "NONE"
    BY <1>1, <1>3 DEF FreshTurn
  <2> QED BY <1>1, <2>1 DEF RunnerGood, RowGood, Granted, Running, Outcomes
<1>6. ASSUME NEW th \in Threads PROVE ThreadGood(th)
  BY <1>1, <1>3 DEF ThreadGood, IdleRow, EmptyLane
<1>7. HoldGood /\ EmptyGood
  BY <1>1, <1>3 DEF HoldGood, OnHold, EmptyGood, EmptyLane
<1> QED BY <1>2, <1>4, <1>5, <1>6, <1>7 DEF TeamInv

LEMMA TeamStepGood == TeamInv /\ [TeamNext]_teamVars => TeamInv'
<1> SUFFICES ASSUME TeamInv, [TeamNext]_teamVars PROVE TeamInv'
  OBVIOUS
<1>1. ASSUME NEW t \in Turns, EnqueueTurn(t) \/ EnqueueFails(t) PROVE TeamInv'
  BY <1>1, EnqueueTurnGood, EnqueueFailsGood
<1>2. ASSUME NEW t \in Turns, Continue(t) PROVE TeamInv'
  BY <1>2, EndWithdrawnGood, StartTurnGood, StartFailedGood, FinishTurnGood DEF Continue
<1>3. ASSUME NEW t \in Turns, CancelQueued(t) \/ Timeout(t) PROVE TeamInv'
  BY <1>3, CancelQueuedGood, TimeoutGood
<1>4. ASSUME NEW t \in Turns, ResolveApproved(t) \/ ResolveRejected(t) PROVE TeamInv'
  BY <1>4, ResolveApprovedGood, ResolveRejectedGood
<1>5. ASSUME NEW th \in Threads, AgentSpeaks(th) \/ AgentGoesIdle(th) \/ AgentErrors(th)
      PROVE  TeamInv'
  BY <1>5, AgentSpeaksGood, AgentGoesIdleGood, AgentErrorsGood
<1>6. ASSUME NEW th \in Threads, StopSession(th) \/ DeleteTeamAgent(th) \/ DeleteFails(th)
      PROVE  TeamInv'
  BY <1>6, StopSessionGood, DeleteTeamAgentGood, DeleteFailsGood
<1>7. ASSUME NEW th \in Threads, NEW p \in FreshPrompts, AgentAsks(th, p) PROVE TeamInv'
  BY <1>7, AgentAsksGood
<1>8. ASSUME NEW p \in Prompts, WithdrawAsk(p) \/ DecideElsewhere(p) PROVE TeamInv'
  BY <1>8, WithdrawAskGood, CardGood
<1>9. ASSUME Crash \/ Restart PROVE TeamInv'
  BY <1>9, CrashGood, RestartGood
<1>10. ASSUME UNCHANGED teamVars PROVE TeamInv'
  <2>1. SameLock /\ SameRows /\ gone' = gone /\ run' = run /\ session' = session /\ ask' = ask
    BY <1>10 DEF teamVars, SameLock, SameRows, lockVars
  <2>2. TeamTypeOK'
    BY <2>1, SameTypes DEF TeamInv, TeamTypeOK
  <2>3. RunEnds
    BY <2>1 DEF RunEnds
  <2> QED BY <2>1, <2>2, <2>3, SessionStep
<1> QED BY <1>1, <1>2, <1>3, <1>4, <1>5, <1>6, <1>7, <1>8, <1>9, <1>10 DEF TeamNext

LEMMA TeamInvHolds == TeamSpec => []TeamInv
BY TeamInitGood, TeamStepGood, PTL DEF TeamSpec

----------------------------------------------------------------------------
(* What follows from it.                                                   *)

\* Every variable of the service keeps its type (TeamAgentService.ts).
THEOREM TeamTypeCorrect == TeamSpec => []TeamTypeOK
<1>1. TeamInv => TeamTypeOK
  BY DEF TeamInv
<1> QED BY <1>1, TeamInvHolds, PTL

\* A runner keeps the lock from the grant to its end, whatever is rejected,
\* withdrawn or refused, unless its lane is cleared: so two runners share a
\* session only where a deletion dropped one of them (runTurn).
THEOREM RunnersNeverShare == TeamSpec => []RunnerHoldsLock
<1>1. TeamInv => RunnerHoldsLock
  <2> SUFFICES ASSUME TeamInv, NEW t \in Turns,
                      run[t].stage \in {"running", "answered", "failed"},
                      turn[t].status # "DROPPED"
               PROVE  Here(t).active = t
    BY DEF RunnerHoldsLock
  <2>1. turn[t].status \in Running
    BY TeamParts DEF RunnerGood
  <2> QED BY <2>1, TeamParts, Places DEF Here
<1> QED BY <1>1, TeamInvHolds, PTL

\* Whoever holds the lock is about to go on, or waits on a watch whose timer is
\* armed: the finally of runTurn is always reached.
THEOREM LockIsNeverStuck == TeamSpec => []NoStuckLock
<1>1. TeamInv => NoStuckLock
  <2> SUFFICES ASSUME TeamInv, NEW th \in Threads, NEW t \in Turns, lane[th].active = t
               PROVE  Granted(t) \/ Ended(t) \/ (run[t].stage = "running" /\ run[t].watching)
    BY DEF NoStuckLock
  <2>1. turn[t].status \in Running /\ RunnerGood(t)
    BY TeamParts, Holder
  <2> QED BY <2>1 DEF RunnerGood, Running, Outcomes, Granted, Ended
<1> QED BY <1>1, TeamInvHolds, PTL

\* Between two turns of the event loop a row that took its last write says what
\* the lock says: team_turn_queue never drifts from it.
THEOREM RowsAgreeWithLock == TeamSpec => []RowsFollowLock
<1>1. TeamInv => RowsFollowLock
  <2> SUFFICES ASSUME TeamInv, Quiet, NEW t \in Turns, t \notin missed,
                      turn[t].status \notin {"NEW", "DROPPED"}, Home[t] \notin gone
               PROVE  row[t] = turn[t].status
    BY DEF RowsFollowLock
  <2> QED BY TeamParts DEF RowGood, Quiet
<1> QED BY <1>1, TeamInvHolds, PTL

\* And a thread's row names the member being served, or nobody, unless its own
\* last write was refused or not reached (syncThreadState).
THEOREM ThreadRowsAgreeWithLock == TeamSpec => []ThreadRowAgrees
<1>1. TeamInv => ThreadRowAgrees
  BY DEF TeamInv, ThreadGood, ThreadRowAgrees, Quiet
<1> QED BY <1>1, TeamInvHolds, PTL

\* No turn stays parked on a prompt that its agent has withdrawn, that a stop has
\* cancelled or that a rejection has swept away (releaseApprovalHold).
THEOREM NeverParkedOnCancelled == TeamSpec => []NotParkedOnCancelled
<1>1. TeamInv => NotParkedOnCancelled
  BY DEF TeamInv, HoldGood, NotParkedOnCancelled
<1> QED BY <1>1, TeamInvHolds, PTL

----------------------------------------------------------------------------
(* A recorded outcome is final.                                            *)

LEMMA WriteElsewhere ==
    ASSUME TeamTypeOK, NEW s \in Turns, NEW t \in Turns, t # s, NEW status,
           Save(t, status) \/ Miss(t)
    PROVE  row'[s] = row[s]
BY DEF Save, Miss, TeamTypeOK

\* A turn whose outcome is recorded is neither in line nor served, and a runner
\* that is told of a rejection has nothing else to record.
LEMMA RecordedIsOver ==
    ASSUME TeamInv, NEW s \in Turns, row[s] \in Outcomes
    PROVE  /\ run[s].stage # "none" /\ ~Granted(s) /\ ~CancelTurn(s) /\ Here(s).active # s
           /\ \A th \in Threads : lane[th].active # s
           /\ Ended(s) => run[s].stage = "refused" /\ row[s] = "CANCELLED"
<1>1. IInv /\ AllAsked /\ Home[s] \in Threads /\ RunnerGood(s) /\ RowGood(s)
  BY TeamParts
<1>2. turn[s].status \notin {"QUEUED"} \cup Running /\ ~Granted(s) /\ Home[s] \notin gone
  BY <1>1 DEF RowGood, Outcomes
<1>3. \A th \in Threads : lane[th].active # s
  BY <1>1, <1>2, Places
<1>4. run[s].stage # "none"
  BY <1>1 DEF RowGood, Outcomes
<1>5. ~CancelTurn(s)
  BY <1>1, <1>2, CancelDoes
<1>6. Ended(s) => run[s].stage = "refused" /\ row[s] = "CANCELLED"
  BY <1>1, <1>2 DEF Ended, RunnerGood, RowGood, Outcomes
<1> QED BY <1>1, <1>2, <1>3, <1>4, <1>5, <1>6 DEF Here

LEMMA OutcomeRowStep ==
    ASSUME TeamInv, TeamNext, NEW s \in Turns, row[s] \in Outcomes
    PROVE  row'[s] \in {row[s], "NONE"}
<1>1. /\ TeamTypeOK /\ run[s].stage # "none" /\ ~Granted(s) /\ ~CancelTurn(s)
      /\ Here(s).active # s /\ \A th \in Threads : lane[th].active # s
      /\ Ended(s) => run[s].stage = "refused" /\ row[s] = "CANCELLED"
  BY RecordedIsOver DEF TeamInv
<1>2. ASSUME NEW t \in Turns, EnqueueTurn(t) \/ EnqueueFails(t) PROVE row'[s] = row[s]
  BY <1>1, <1>2 DEF EnqueueTurn, EnqueueFails, TeamTypeOK
<1>3. ASSUME NEW t \in Turns, EndWithdrawn(t) \/ Timeout(t) PROVE row'[s] = row[s]
  BY <1>3 DEF EndWithdrawn, Timeout, SameRows
<1>4. ASSUME NEW t \in Turns, StartTurn(t) \/ StartUnbound(t) \/ StartFails(t)
      PROVE  row'[s] = row[s]
  <2>1. Granted(t) /\ (Save(t, "PROCESSING") \/ Miss(t))
    BY <1>4 DEF StartTurn, StartUnbound, StartFails, MarkStarted
  <2> QED BY <1>1, <2>1, WriteElsewhere
<1>5. ASSUME NEW t \in Turns, FinishTurn(t) PROVE row'[s] \in {row[s], "NONE"}
  <2>1. Ended(t) /\ (Save(t, OutcomeOf(run[t].stage)) \/ Miss(t))
    BY <1>5 DEF FinishTurn
  <2>2. CASE t = s
    <3>1. OutcomeOf(run[t].stage) = row[s]
      BY <1>1, <2>1, <2>2 DEF OutcomeOf
    <3> QED BY <1>1, <2>1, <2>2, <3>1 DEF Save, Miss, TeamTypeOK
  <2> QED BY <1>1, <2>1, <2>2, WriteElsewhere
<1>6. ASSUME NEW t \in Turns, CancelQueued(t) PROVE row'[s] = row[s]
  <2>1. CancelTurn(t) /\ (Save(t, "CANCELLED") \/ Miss(t))
    BY <1>6 DEF CancelQueued
  <2> QED BY <1>1, <2>1, WriteElsewhere
<1>7. ASSUME NEW t \in Turns, ResolveApproved(t) \/ ResolveRejected(t) PROVE row'[s] = row[s]
  <2>1. /\ Here(t).active = t
        /\ Save(t, "PROCESSING") \/ Save(t, "CANCELLED") \/ Miss(t)
    BY <1>7 DEF ResolveApproved, ResolveRejected, Prompted, Here
  <2> QED BY <1>1, <2>1, WriteElsewhere
<1>8. ASSUME NEW th \in Threads, AgentSpeaks(th) \/ AgentGoesIdle(th) \/ AgentErrors(th)
      PROVE  row'[s] = row[s]
  BY <1>8 DEF AgentSpeaks, AgentGoesIdle, AgentErrors, SameRows
<1>9. ASSUME NEW th, NEW cancelled, ReleaseApprovalHold(th, cancelled)
      PROVE  row'[s] = row[s]
  <2> DEFINE holder == lane[th].active
  <2>1. CASE SameRows
    BY <2>1 DEF SameRows
  <2>2. ASSUME NEW t \in Turns, t = holder, ResumeFromApproval(t), Mirror(t, "PROCESSING")
        PROVE  row'[s] = row[s]
    <3>1. Here(t).active = t /\ (Save(t, "PROCESSING") \/ Miss(t))
      BY <2>2 DEF ResumeFromApproval, Mirror
    <3> QED BY <1>1, <3>1, WriteElsewhere
  <2> QED BY <1>9, <2>1, <2>2 DEF ReleaseApprovalHold, Watchers
<1>10. ASSUME NEW th \in Threads, StopSession(th) PROVE row'[s] = row[s]
  BY <1>9, <1>10 DEF StopSession
<1>11. ASSUME NEW p \in Prompts, WithdrawAsk(p) \/ DecideElsewhere(p)
       PROVE  row'[s] = row[s]
  BY <1>9, <1>11 DEF WithdrawAsk, DecideElsewhere, SameRows
<1>12. ASSUME NEW th \in Threads, NEW p, AgentAsks(th, p) PROVE row'[s] = row[s]
  <2> DEFINE holder == lane[th].active
  <2>1. CASE SameRows
    BY <2>1 DEF SameRows
  <2>2. ASSUME NEW t \in Turns, t = holder, Mirror(t, "AWAITING_APPROVAL")
        PROVE  row'[s] = row[s]
    <3>1. t # s /\ (Save(t, "AWAITING_APPROVAL") \/ Miss(t))
      BY <1>1, <2>2 DEF Mirror
    <3> QED BY <1>1, <3>1, WriteElsewhere
  <2> QED BY <1>12, <2>1, <2>2 DEF AgentAsks, Watchers
<1>13. ASSUME NEW th \in Threads, DeleteTeamAgent(th) PROVE row'[s] \in {row[s], "NONE"}
  BY <1>13 DEF DeleteTeamAgent
<1>14. ASSUME (\E th \in Threads : DeleteFails(th)) \/ Crash \/ Restart PROVE row'[s] = row[s]
  BY <1>14 DEF DeleteFails, Crash, Restart, Outcomes, Running
<1> QED BY <1>2, <1>3, <1>4, <1>5, <1>6, <1>7, <1>8, <1>10, <1>11, <1>12, <1>13, <1>14
        DEF TeamNext, Continue

\* No late runner, second answer or recovery pass rewrites a recorded outcome:
\* it goes only with its thread (runTurn, resolveTurnApproval, recoverTurns).
THEOREM RecordedOutcomesStand == TeamSpec => OutcomeRowStands
<1>1. TeamInv /\ [TeamNext]_teamVars => [KeepsOutcomeRows]_teamVars
  BY OutcomeRowStep DEF KeepsOutcomeRows
<1> QED BY <1>1, TeamInvHolds, PTL DEF TeamSpec, OutcomeRowStands
=============================================================================

----------------------------- MODULE Delegation -----------------------------
(***************************************************************************)
(* Delegated agents: AgentDelegationService.ts.  A thread hands work to    *)
(* child threads, one at a time (delegateTask) or as a batch               *)
(* (delegateParallel), is parked until they have settled, and is then      *)
(* resumed; a child may delegate further.  A delegation is one             *)
(* asynchronous function, modelled by where it waits:                      *)
(*   provision  its worktree is being made                                 *)
(*   watch      its session runs, or has ended and the diff is being read  *)
(*   verify     outcome recorded and session told to stop; being verified  *)
(* Awaiting what does not wait (EventBusSessionRunner only publishes) ends  *)
(* no step.                                                                *)
(* Callers are the operators' cancellations, Restart is a crash of the     *)
(* Core followed by recoverDelegations.  Rows are written at once.         *)
(*                                                                         *)
(* A name with an underscore is a bug for the mutants.                     *)
(***************************************************************************)
EXTENDS Naturals, FiniteSets, SequencesExt, DelegationBoard

CONSTANTS
  Callers,        \* who may cancel, one request at a time each
  MaxDepth,       \* MAX_DELEGATION_DEPTH
  MaxConcurrent,  \* MAX_CONCURRENT_DELEGATIONS
  MaxRestarts,    \* bound on Restart
  None

ASSUME DelegationAssumption ==
  /\ IsFiniteSet(Children)
  /\ Root \notin Children /\ None \notin Threads \cup {"COMPLETED", "FAILED", "TIMEOUT", "task", "batch"}
  /\ MaxDepth \in Nat /\ MaxConcurrent \in Nat \ {0} /\ MaxRestarts \in Nat

VARIABLES
  parent,     \* row: parent_thread_id
  status,     \* row: status in the delegation context, None while running
  waiting,    \* parent |-> the children it is parked behind
  active,     \* parent |-> its running delegations, oldest first
  pc,         \* child |-> where its delegation waits
  mode,       \* child |-> how it was delegated
  watch,      \* child |-> what watching its session has seen
  cancelled,  \* child |-> cancelReason is set
  batches,    \* running delegateParallel calls
  call,       \* caller |-> its cancellation
  shown,      \* parent |-> the state last published for it
  board,      \* what a dashboard that listens all along shows
  restarts

vars == <<parent, status, waiting, active, pc, mode, watch, cancelled, batches,
          call, shown, board, restarts>>

Outcomes == {"COMPLETED", "FAILED", "TIMEOUT"}
Steps == {"unborn", "provision", "watch", "verify", "done"}

\* delegateTask or delegateParallel, which releases the parent itself.
Modes == {"task", "batch"}

Batches == [of: Threads, members: SUBSET Children]

\* A cancellation waits on the settle of the children in "on", and holds how
\* those in "got" ended; it is answered when it has them all.
Idle == [on |-> {}, got |-> {}]
Calls == [on: SUBSET Children, got: SUBSET (Children \X Outcomes)]

Unborn == {c \in Children : pc[c] = "unborn"}
Exists(t) == t \notin Unborn
Armed(c) == watch[c] \in {"quiet", "said"}
Depth ==
  LET below[t \in Threads] == IF parent[t] = None THEN 0 ELSE 1 + below[parent[t]]
  IN  below

\* New rows differ in nothing but their name.
Fresh(n) == CHOOSE S \in SUBSET Unborn : Cardinality(S) = n

Init ==
  /\ parent = [t \in Threads |-> None]
  /\ status = [c \in Children |-> None]
  /\ waiting = [t \in Threads |-> {}]
  /\ active = [t \in Threads |-> <<>>]
  /\ pc = [c \in Children |-> "unborn"]
  /\ mode = [c \in Children |-> None]
  /\ watch = [c \in Children |-> "none"]
  /\ cancelled = [c \in Children |-> FALSE]
  /\ batches = {}
  /\ call = [k \in Callers |-> Idle]
  /\ shown = [t \in Threads |-> "ACTIVE"]
  /\ board = EmptyBoard
  /\ restarts = 0

-----------------------------------------------------------------------------
(* Delegating: everything up to the first await.                           *)

\* A new set of children, the parent parked behind each.
Launch(p, S, how) ==
  /\ parent' = [t \in Threads |-> IF t \in S THEN p ELSE parent[t]]
  /\ pc' = [c \in Children |-> IF c \in S THEN "provision" ELSE pc[c]]
  /\ mode' = [c \in Children |-> IF c \in S THEN how ELSE mode[c]]
  /\ waiting' = [waiting EXCEPT ![p] = @ \cup S]
  /\ active' = [active EXCEPT ![p] = @ \o SetToSeq(S)]
  /\ shown' = [shown EXCEPT ![p] = IF S = {} THEN @ ELSE "WAITING_FOR_CHILD"]
  /\ board' = Parked(board, p, S)
  /\ UNCHANGED <<status, watch, cancelled, call, restarts>>

DelegateTask(p) ==
  /\ Exists(p) /\ Unborn # {}
  /\ waiting[p] = {}
  /\ Depth[p] + 1 <= MaxDepth
  /\ Launch(p, Fresh(1), "task")
  /\ UNCHANGED batches

DelegateParallel_countsItems(p) ==
  \E n \in 1..Cardinality(Unborn) :
    /\ Exists(p) /\ n <= MaxConcurrent /\ Depth[p] + 1 <= MaxDepth
    /\ Launch(p, Fresh(n), "batch")
    /\ batches' = batches \cup {[of |-> p, members |-> Fresh(n)]}

\* A batch of n items.  An item whose row cannot be written is a result of its
\* own that nothing waits for (a batch without any row only reports).
DelegateParallel(p) ==
  \E n \in 1..Cardinality(Unborn) :
    /\ Exists(p)
    /\ Len(active[p]) + n <= MaxConcurrent
    /\ Depth[p] + 1 <= MaxDepth
    /\ \E written \in {n - 1, n} \ {0} :
         /\ Launch(p, Fresh(written), "batch")
         /\ batches' = batches \cup {[of |-> p, members |-> Fresh(written)]}

-----------------------------------------------------------------------------
(* The child's life: runDelegation, runChild and watchChild.               *)

StartChild_forgetsCancel(c) ==
  /\ pc[c] = "provision"
  /\ pc' = [pc EXCEPT ![c] = "watch"]
  /\ watch' = [watch EXCEPT ![c] = "quiet"]
  /\ UNCHANGED <<parent, status, waiting, active, mode, cancelled, batches, call,
                 shown, board, restarts>>

\* The worktree is there or could not be made.  The watch is armed before the
\* session is started; a delegation cancelled by now gets no session.
StartChild(c) ==
  /\ pc[c] = "provision"
  /\ pc' = [pc EXCEPT ![c] = "watch"]
  /\ \/ ~cancelled[c] /\ watch' = [watch EXCEPT ![c] = "quiet"]
     \/ watch' = [watch EXCEPT ![c] = "FAILED"]   \* cancelled, or the runner threw
  /\ UNCHANGED <<parent, status, waiting, active, mode, cancelled, batches, call,
                 shown, board, restarts>>

\* The first thing a watch sees that ends it is how the child ended.
Sees(c, From, what) ==
  /\ watch[c] \in From
  /\ watch' = [watch EXCEPT ![c] = what]
  /\ UNCHANGED <<parent, status, waiting, active, pc, mode, cancelled, batches,
                 call, shown, board, restarts>>

AgentSpeaks(c) == Sees(c, {"quiet"}, "said")

\* An idle session has answered only if it has said something.
AgentGoesIdle(c) == Sees(c, {"said"}, "COMPLETED")
AgentErrors(c) == Sees(c, {"quiet", "said"}, "FAILED")
Timeout_afterOutput(c) == Sees(c, {"said"}, "TIMEOUT")
Timeout(c) == Sees(c, {"quiet", "said"}, "TIMEOUT")

Recorded_unfinished(c) ==
  /\ pc[c] = "watch"
  /\ status' = [status EXCEPT ![c] = watch[c]]
  /\ pc' = [pc EXCEPT ![c] = "verify"]
  /\ UNCHANGED <<parent, waiting, active, mode, watch, cancelled, batches, call,
                 shown, board, restarts>>

\* The diff has been read: the outcome is written to the row and published, and
\* the session told to stop.
Recorded(c) ==
  /\ pc[c] = "watch" /\ watch[c] \in Outcomes
  /\ status' = [status EXCEPT ![c] = watch[c]]
  /\ pc' = [pc EXCEPT ![c] = "verify"]
  /\ UNCHANGED <<parent, waiting, active, mode, watch, cancelled, batches, call,
                 shown, board, restarts>>

\* Settle hands the outcome to the cancellations waiting on it; the finally block
\* drops the delegation, and what it knew with it.
Settle(p, c) ==
  /\ active' = [active EXCEPT ![p] = RemoveFirst(@, c)]
  /\ call' = [k \in Callers |->
                IF c \in call[k].on THEN [call[k] EXCEPT !.got = @ \cup {<<c, watch[c]>>}]
                                    ELSE call[k]]
  /\ pc' = [pc EXCEPT ![c] = "done"]
  /\ mode' = [mode EXCEPT ![c] = None]
  /\ watch' = [watch EXCEPT ![c] = "none"]
  /\ cancelled' = [cancelled EXCEPT ![c] = FALSE]

\* Verified, or nothing to verify: the parent sheds the child, and is released
\* and sent the report unless the child is one of a batch or others still run.
Shed(c) ==
  LET p == parent[c]
      left == waiting[p] \ {c}
      frees == mode[c] = "task" /\ left = {}
  IN  /\ pc[c] = "verify"
      /\ waiting' = [waiting EXCEPT ![p] = left]
      /\ shown' = [shown EXCEPT ![p] = IF frees THEN "ACTIVE" ELSE @]
      /\ board' = Completed(IF frees THEN Freed(board, p) ELSE board, p, c)
      /\ Settle(p, c)
      /\ UNCHANGED <<parent, status, batches, restarts>>

BatchSettles_always(b) ==
  /\ \A c \in b.members : pc[c] = "done"
  /\ batches' = batches \ {b}
  /\ shown' = [shown EXCEPT ![b.of] = "ACTIVE"]
  /\ board' = BatchCompleted(Freed(board, b.of), b.of)
  /\ UNCHANGED <<parent, status, waiting, active, pc, mode, watch, cancelled, call,
                 restarts>>

\* The last of a batch has settled: one release, unless something else runs
\* under the parent, and one report.
BatchSettles(b) ==
  LET p == b.of
      frees == waiting[p] = {}
  IN  /\ \A c \in b.members : pc[c] = "done"
      /\ batches' = batches \ {b}
      /\ shown' = [shown EXCEPT ![p] = IF frees THEN "ACTIVE" ELSE @]
      /\ board' = BatchCompleted(IF frees THEN Freed(board, p) ELSE board, p)
      /\ UNCHANGED <<parent, status, waiting, active, pc, mode, watch, cancelled,
                     call, restarts>>

-----------------------------------------------------------------------------
(* Cancellation: it ends the watches and waits on the settle like anyone.  *)

RunningUnder(t) == ToSet(active[t])
Running == UNION {RunningUnder(t) : t \in Threads}

\* A parent means its oldest running child, a child means itself.
Target(t) == IF active[t] # <<>> THEN {Head(active[t])} ELSE {t} \cap Running

Abort(S) ==
  /\ cancelled' = [c \in Children |-> cancelled[c] \/ c \in S]
  /\ watch' = [c \in Children |->
                 IF c \in S /\ ~cancelled[c] /\ Armed(c) THEN "FAILED" ELSE watch[c]]

\* Nothing running is answered at once: with the row of a child that has
\* settled, with an empty list, or with a refusal.
Ask(k, t, S) ==
  /\ call[k] = Idle /\ Exists(t) /\ S # {}
  /\ call' = [call EXCEPT ![k].on = S]
  /\ Abort(S)
  /\ UNCHANGED <<parent, status, waiting, active, pc, mode, batches, shown, board,
                 restarts>>

CancelDelegation(k, t) == Ask(k, t, Target(t))
CancelAllDelegations(k, t) == Ask(k, t, RunningUnder(t))

\* Every child it waited on has settled.
Answered(k) ==
  /\ call[k] # Idle
  /\ call[k].on = {a[1] : a \in call[k].got}
  /\ call' = [call EXCEPT ![k] = Idle]
  /\ UNCHANGED <<parent, status, waiting, active, pc, mode, watch, cancelled, batches,
                 shown, board, restarts>>

-----------------------------------------------------------------------------

\* recoverDelegations: the rows without an outcome.
Recovered == [c \in Children |->
                IF pc[c] # "unborn" /\ status[c] = None THEN "FAILED" ELSE status[c]]

\* A crash, and the recovery of the next start, before anything is served.
Restart ==
  /\ restarts < MaxRestarts
  /\ restarts' = restarts + 1
  /\ status' = Recovered
  /\ waiting' = [t \in Threads |-> {}]
  /\ active' = [t \in Threads |-> <<>>]
  /\ pc' = [c \in Children |-> IF pc[c] = "unborn" THEN "unborn" ELSE "done"]
  /\ mode' = [c \in Children |-> None]
  /\ watch' = [c \in Children |-> "none"]
  /\ cancelled' = [c \in Children |-> FALSE]
  /\ batches' = {}
  /\ call' = [k \in Callers |-> Idle]
  /\ shown' = [t \in Threads |-> "ACTIVE"]
  /\ UNCHANGED <<parent, board>>

-----------------------------------------------------------------------------

ChildStep(c) ==
  StartChild(c) \/ Timeout(c) \/ Recorded(c) \/ Shed(c)

Next ==
  \/ \E p \in Threads : DelegateTask(p) \/ DelegateParallel(p)
  \/ \E c \in Children :
       ChildStep(c) \/ AgentSpeaks(c) \/ AgentGoesIdle(c) \/ AgentErrors(c)
  \/ \E b \in batches : BatchSettles(b)
  \/ \E k \in Callers, t \in Threads : CancelDelegation(k, t) \/ CancelAllDelegations(k, t)
  \/ \E k \in Callers : Answered(k)
  \/ Restart

Spec == Init /\ [][Next]_vars

\* The event loop runs every continuation that is ready, and a timer fires.
Fairness ==
  /\ \A c \in Children : WF_vars(ChildStep(c))
  /\ WF_vars(\E b \in batches : BatchSettles(b))
  /\ \A k \in Callers : WF_vars(Answered(k))

FairSpec == Spec /\ Fairness

-----------------------------------------------------------------------------
(* Properties.                                                             *)

\* Types, and what each variable may hold.
DelegationTypeOK ==
  /\ parent \in [Threads -> Threads \cup {None}]
  /\ status \in [Children -> Outcomes \cup {None}]
  /\ waiting \in [Threads -> SUBSET Children]
  /\ active \in [Threads -> Seq(Children)]
  /\ pc \in [Children -> Steps]
  /\ mode \in [Children -> Modes \cup {None}]
  /\ watch \in [Children -> {"none", "quiet", "said"} \cup Outcomes]
  /\ cancelled \in [Children -> BOOLEAN]
  /\ batches \subseteq Batches
  /\ call \in [Callers -> Calls]
  /\ shown \in [Threads -> ParentStates]
  /\ board \in Boards
  /\ restarts \in 0..MaxRestarts

\* "At most MAX_CONCURRENT_DELEGATIONS": how many children a thread is parked
\* behind, and how deep delegation goes, whatever mix of tasks and batches.
WithinLimits ==
  /\ \A t \in Threads : Cardinality(waiting[t]) <= MaxConcurrent
  /\ \A t \in Threads : Depth[t] <= MaxDepth

\* A batch all of whose children are past their own release.
Owed(p) == \E b \in batches : b.of = p

\* A thread is parked behind exactly the delegations that have yet to shed it,
\* each of them can be cancelled through "active", a thread published as parked
\* has one of those or a batch that will release it, and a thread published as
\* active has none.
ParkedIsOwed ==
  \A p \in Threads :
    /\ waiting[p] = {c \in Children : parent[c] = p /\ pc[c] \in {"provision", "watch", "verify"}}
    /\ waiting[p] \subseteq RunningUnder(p)
    /\ shown[p] = "WAITING_FOR_CHILD" => waiting[p] # {} \/ Owed(p)
    /\ shown[p] = "ACTIVE" => waiting[p] = {}

\* However tasks and batches of one parent overlap, the banner of a dashboard
\* that has been there since the start never names a child that is over, and is
\* never left standing with nobody to wait for.
BannerIsLive ==
  restarts = 0 =>
    \A p \in Threads :
      /\ board.pending[p] \subseteq RunningUnder(p)
      /\ board.state[p] = "WAITING_FOR_CHILD" => board.pending[p] # {}

\* What AgentDelegationService promises, and the mapping to it.
Stage ==
  [c \in Children |->
     CASE pc[c] = "unborn" -> "unborn"
       [] pc[c] # "unborn" /\ status[c] # None -> status[c]
       [] OTHER -> IF cancelled[c] /\ watch[c] \notin {"COMPLETED", "TIMEOUT"}
                   THEN "stopping" ELSE "open"]

Told == UNION {call[k].got : k \in Callers}

Promise == INSTANCE DelegationPromise WITH stage <- Stage, told <- Told

\* A child closes once, a child cancelled before its watch ended closes as
\* FAILED, and every cancellation, whichever end it named and however late it
\* came, is answered with what the row says, also after a restart.
PromiseKept == Promise!Spec

\* Nothing is running, nobody is parked and no cancellation is unanswered.
AtRest ==
  /\ Running = {} /\ batches = {}
  /\ \A c \in Children : pc[c] # "unborn" => status[c] # None
  /\ \A p \in Threads : shown[p] = "ACTIVE"
  /\ \A k \in Callers : call[k] = Idle

\* Whatever the sessions do, whoever cancels and wherever a restart comes, every
\* delegated child ends, every parent is released and every cancellation
\* returns: with no more than finitely many delegations, rest is always reached.
EveryoneIsReleased == []<>AtRest

=============================================================================

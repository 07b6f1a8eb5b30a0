----------------------- MODULE DelegationPromise_proofs -----------------------
(***************************************************************************)
(* Delegation keeps what DelegationPromise promises: every step of the     *)
(* service opens, stops, closes or tells, or leaves the promise alone.     *)
(* What a child may close as follows from ChildGood, what a caller is told *)
(* from the row that Shed finds written.                                   *)
(***************************************************************************)
EXTENDS Delegation_proofs

----------------------------------------------------------------------------
(* The stage of one child.                                                 *)

Place(step, outcome, stopped, seen) ==
  IF step = "unborn" THEN "unborn"
  ELSE IF outcome # None THEN outcome
  ELSE IF stopped /\ seen \notin {"COMPLETED", "TIMEOUT"} THEN "stopping" ELSE "open"

LEMMA StageIsPlace ==
  ASSUME NEW c \in Children
  PROVE  /\ Stage[c] = Place(pc[c], status[c], cancelled[c], watch[c])
         /\ Stage'[c] = Place(pc'[c], status'[c], cancelled'[c], watch'[c])
BY DEF Stage, Place

LEMMA StageStays ==
  ASSUME \A c \in Children : Stage'[c] = Stage[c]
  PROVE  Stage' = Stage
<1>1. Stage = [c \in Children |-> Stage[c]] /\ Stage' = [c \in Children |-> Stage'[c]]
  BY DEF Stage
<1> QED BY <1>1

\* A move of the promise, seen child by child.
LEMMA MoveIs ==
  ASSUME NEW S \in SUBSET Children, NEW From, NEW f,
         \A c \in S : Stage[c] \in From /\ Stage'[c] = f[c],
         \A c \in Children \ S : Stage'[c] = Stage[c]
  PROVE  Promise!Move(S, From, f)
<1>1. Stage' = [c \in Children |-> Stage'[c]]
  BY DEF Stage
<1>2. Stage' = [c \in Children |-> IF c \in S THEN f[c] ELSE Stage[c]]
  BY <1>1
<1> QED BY <1>2 DEF Promise!Move

LEMMA ToldStays == ASSUME call' = call PROVE Told' = Told
BY DEF Told

----------------------------------------------------------------------------
(* Step by step.                                                           *)

LEMMA LaunchOpens ==
  ASSUME IInv, NEW p \in Threads, NEW S \in SUBSET Unborn, NEW how, Launch(p, S, how)
  PROVE  Promise!Next
<1>1. S \in SUBSET Children
  BY DEF Unborn
<1>2. ASSUME NEW c \in Children
      PROVE  /\ c \in S => Stage[c] = "unborn" /\ Stage'[c] = "open"
             /\ c \notin S => Stage'[c] = Stage[c]
  <2>1. /\ pc'[c] = (IF c \in S THEN "provision" ELSE pc[c])
        /\ status' = status /\ cancelled' = cancelled /\ watch' = watch
    BY DEF Launch
  <2>2. c \in S => pc[c] = "unborn" /\ status[c] = None /\ ~cancelled[c]
    BY DEF Unborn, IInv, ChildGood, Live
  <2> QED BY <2>1, <2>2, StageIsPlace DEF Place
<1>3. Promise!Open(S)
  BY <1>1, <1>2, MoveIs DEF Promise!Open
<1>4. Told' = Told
  BY ToldStays DEF Launch
<1> QED BY <1>1, <1>3, <1>4 DEF Promise!Next

LEMMA StartChildStutters ==
  ASSUME IInv, NEW c \in Children, StartChild(c)
  PROVE  UNCHANGED <<Stage, Told>>
<1>1. ASSUME NEW x \in Children PROVE Stage'[x] = Stage[x]
  <2>1. ChildGood(x) /\ DelegationTypeOK
    BY DEF IInv
  <2>2. /\ pc[c] = "provision" /\ pc' = [pc EXCEPT ![c] = "watch"]
        /\ status' = status /\ cancelled' = cancelled
        /\ \/ ~cancelled[c] /\ watch' = [watch EXCEPT ![c] = "quiet"]
           \/ watch' = [watch EXCEPT ![c] = "FAILED"]
    BY DEF StartChild
  <2>3. CASE x = c
    BY <2>1, <2>2, <2>3, StageIsPlace DEF Place, ChildGood, DelegationTypeOK
  <2>4. CASE x # c
    <3>1. pc'[x] = pc[x] /\ status'[x] = status[x] /\ cancelled'[x] = cancelled[x]
      BY <2>1, <2>2, <2>4 DEF DelegationTypeOK
    <3>2. watch'[x] = watch[x]
      BY <2>1, <2>2, <2>4 DEF DelegationTypeOK
    <3> QED BY <3>1, <3>2, StageIsPlace
  <2> QED BY <2>3, <2>4
<1> QED BY <1>1, StageStays, ToldStays DEF StartChild

\* A child that is watched has not been cancelled.
LEMMA SeesStutters ==
  ASSUME IInv, NEW c \in Children, NEW From \in SUBSET {"quiet", "said"}, NEW what,
         Sees(c, From, what)
  PROVE  UNCHANGED <<Stage, Told>>
<1>1. ASSUME NEW x \in Children PROVE Stage'[x] = Stage[x]
  <2>1. ChildGood(x) /\ DelegationTypeOK
    BY DEF IInv
  <2>2. /\ watch[c] \in {"quiet", "said"} /\ watch' = [watch EXCEPT ![c] = what]
        /\ pc' = pc /\ status' = status /\ cancelled' = cancelled
    BY DEF Sees
  <2>3. CASE x = c
    BY <2>1, <2>2, <2>3, StageIsPlace DEF Place, ChildGood, Armed, DelegationTypeOK
  <2>4. CASE x # c
    <3>1. pc'[x] = pc[x] /\ status'[x] = status[x] /\ cancelled'[x] = cancelled[x]
      BY <2>1, <2>2, <2>4 DEF DelegationTypeOK
    <3>2. watch'[x] = watch[x]
      BY <2>1, <2>2, <2>4 DEF DelegationTypeOK
    <3> QED BY <3>1, <3>2, StageIsPlace
  <2> QED BY <2>3, <2>4
<1> QED BY <1>1, StageStays, ToldStays DEF Sees

\* A child that was asked to stop has failed by the time its outcome is written.
LEMMA RecordedCloses == ASSUME IInv, NEW c \in Children, Recorded(c) PROVE Promise!Next
<1> DEFINE f == [x \in {c} |-> watch[c]]
<1>1. ChildGood(c) /\ DelegationTypeOK
  BY DEF IInv
<1>2. /\ pc[c] = "watch" /\ watch[c] \in Outcomes
      /\ status' = [status EXCEPT ![c] = watch[c]] /\ pc' = [pc EXCEPT ![c] = "verify"]
      /\ watch' = watch /\ cancelled' = cancelled /\ call' = call
  BY DEF Recorded
<1>3. /\ Stage[c] \in {"open", "stopping"} /\ Stage'[c] = watch[c]
      /\ Stage[c] = "stopping" => watch[c] = "FAILED"
  <2>1. status[c] = None /\ status'[c] = watch[c] /\ pc'[c] = "verify" /\ watch[c] # None
    BY <1>1, <1>2, DelegationAssumption DEF ChildGood, DelegationTypeOK, Outcomes
  <2> QED BY <1>2, <2>1, StageIsPlace DEF Place, Outcomes
<1>4. ASSUME NEW x \in Children \ {c} PROVE Stage'[x] = Stage[x]
  BY <1>1, <1>2, StageIsPlace DEF DelegationTypeOK
<1>5. f \in [{c} -> Promise!Outcomes] /\ f[c] = watch[c]
  BY <1>2 DEF Outcomes, Promise!Outcomes
<1> HIDE DEF f
<1>6. Promise!Move({c}, {"open", "stopping"}, f)
  BY <1>3, <1>4, <1>5, MoveIs
<1>7. Promise!Close({c})
  BY <1>3, <1>5, <1>6 DEF Promise!Close
<1>8. Promise!Leave
  BY <1>2, ToldStays DEF Promise!Leave
<1> QED BY <1>7, <1>8 DEF Promise!Next

\* A settle tells whoever waits what the row has said since Recorded.
LEMMA ShedTells ==
  ASSUME IInv, NEW c \in Children, Shed(c)
  PROVE  Promise!Next \/ UNCHANGED <<Stage, Told>>
<1>1. ChildGood(c) /\ DelegationTypeOK
  BY DEF IInv
<1>2. /\ pc[c] = "verify" /\ pc' = [pc EXCEPT ![c] = "done"] /\ status' = status
      /\ watch' = [watch EXCEPT ![c] = "none"] /\ cancelled' = [cancelled EXCEPT ![c] = FALSE]
      /\ call' = [k \in Callers |->
                    IF c \in call[k].on THEN [call[k] EXCEPT !.got = @ \cup {<<c, watch[c]>>}]
                                        ELSE call[k]]
  BY DEF Shed, Settle
<1>3. watch[c] \in Outcomes /\ status[c] = watch[c] /\ watch[c] # None
  BY <1>1, <1>2, DelegationAssumption DEF ChildGood, Outcomes
<1>4. Stage[c] = watch[c]
  BY <1>2, <1>3, StageIsPlace DEF Place
<1>5. Stage' = Stage
  <2>1. ASSUME NEW x \in Children PROVE Stage'[x] = Stage[x]
    <3>1. CASE x = c
      BY <1>1, <1>2, <1>3, <3>1, StageIsPlace DEF Place, DelegationTypeOK
    <3>2. CASE x # c
      <4>1. /\ pc'[x] = pc[x] /\ status'[x] = status[x]
            /\ cancelled'[x] = cancelled[x] /\ watch'[x] = watch[x]
        BY <1>1, <1>2, <3>2 DEF DelegationTypeOK
      <4> QED BY <4>1, StageIsPlace
    <3> QED BY <3>1, <3>2
  <2> QED BY <2>1, StageStays
<1>6. ASSUME NEW k \in Callers
      PROVE  call'[k].got = IF c \in call[k].on THEN call[k].got \cup {<<c, watch[c]>>}
                                                ELSE call[k].got
  BY <1>1, <1>2 DEF DelegationTypeOK, Calls
<1>7. CASE \E k \in Callers : c \in call[k].on
  <2>1. Told' = Told \cup {<<c, watch[c]>>}
    <3>1. ASSUME NEW a \in Told' PROVE a \in Told \cup {<<c, watch[c]>>}
      <4>1. PICK k \in Callers : a \in call'[k].got
        BY DEF Told
      <4> QED BY <1>6, <4>1 DEF Told
    <3>2. ASSUME NEW a \in Told PROVE a \in Told'
      <4>1. PICK k \in Callers : a \in call[k].got
        BY DEF Told
      <4> QED BY <1>6, <4>1 DEF Told
    <3>3. <<c, watch[c]>> \in Told'
      <4>1. PICK k \in Callers : c \in call[k].on
        BY <1>7
      <4> QED BY <1>6, <4>1 DEF Told
    <3> QED BY <3>1, <3>2, <3>3
  <2>2. Promise!Tell({c})
    BY <1>3, <1>4, <2>1 DEF Promise!Tell, Promise!Closed, Promise!Outcomes, Outcomes
  <2> QED BY <1>5, <2>2 DEF Promise!Next
<1>8. CASE ~ \E k \in Callers : c \in call[k].on
  <2>1. Told' = Told
    BY <1>6, <1>8 DEF Told
  <2> QED BY <1>5, <2>1
<1> QED BY <1>7, <1>8

\* A cancellation stops the children that are still open, and comes too late for
\* one whose watch has ended.
LEMMA AskStops ==
  ASSUME IInv, NEW k \in Callers, NEW t \in Threads, NEW S \in SUBSET Running, Ask(k, t, S)
  PROVE  Promise!Next
<1> DEFINE Hit == {c \in Children : Stage'[c] # Stage[c]}
<1>1. DelegationTypeOK /\ MapsAgree /\ \A x \in Children : ChildGood(x)
  BY DEF IInv
<1>2. /\ call' = [call EXCEPT ![k].on = S] /\ pc' = pc /\ status' = status
      /\ \A c \in Children : cancelled'[c] <=> cancelled[c] \/ c \in S
      /\ \A c \in Children :
           watch'[c] = IF c \in S /\ ~cancelled[c] /\ Armed(c) THEN "FAILED" ELSE watch[c]
  BY DEF Ask, Abort
<1>3. ASSUME NEW c \in Hit PROVE Stage[c] = "open" /\ Stage'[c] = "stopping"
  <2>1. pc[c] # "unborn" /\ status[c] = None
    BY <1>2, StageIsPlace DEF Place
  <2> QED BY <1>2, <2>1, StageIsPlace DEF Place, Armed
<1> HIDE DEF Hit
<1>4. Hit \in SUBSET Children /\ \A c \in Children \ Hit : Stage'[c] = Stage[c]
  BY DEF Hit
<1>5. Promise!Stop(Hit)
  BY <1>3, <1>4, MoveIs DEF Promise!Stop
<1>6. Told' = Told
  <2>1. ASSUME NEW j \in Callers PROVE call'[j].got = call[j].got
    BY <1>1, <1>2 DEF DelegationTypeOK, Calls
  <2> QED BY <2>1 DEF Told
<1> QED BY <1>4, <1>5, <1>6 DEF Promise!Next

LEMMA AnsweredLeaves == ASSUME IInv, NEW k \in Callers, Answered(k) PROVE Promise!Next
<1> DEFINE f == [c \in {} |-> "FAILED"]
<1>1. /\ call' = [call EXCEPT ![k] = Idle] /\ pc' = pc /\ status' = status
      /\ cancelled' = cancelled /\ watch' = watch /\ DelegationTypeOK
  BY DEF Answered, IInv
<1>2. Told' \in SUBSET Told
  <2>1. ASSUME NEW j \in Callers PROVE call'[j].got \subseteq call[j].got
    BY <1>1 DEF DelegationTypeOK, Calls, Idle
  <2> QED BY <2>1 DEF Told
<1>3. \A c \in Children : Stage'[c] = Stage[c]
  BY <1>1, StageIsPlace
<1>4. f \in [{} -> Promise!Outcomes]
  OBVIOUS
<1> HIDE DEF f
<1>5. Promise!Move({}, {"open", "stopping"}, f)
  BY <1>3, MoveIs
<1>6. Promise!Close({})
  BY <1>4, <1>5 DEF Promise!Close
<1> QED BY <1>2, <1>6 DEF Promise!Next, Promise!Leave

\* A restart fails whatever is open, and drops every connection.
LEMMA RestartCloses == ASSUME IInv, Restart PROVE Promise!Next
<1> DEFINE S == {c \in Children : pc[c] # "unborn" /\ status[c] = None}
           f == [c \in S |-> "FAILED"]
<1>1. /\ status' = Recovered /\ cancelled' = [c \in Children |-> FALSE]
      /\ pc' = [c \in Children |-> IF pc[c] = "unborn" THEN "unborn" ELSE "done"]
      /\ watch' = [c \in Children |-> "none"] /\ call' = [k \in Callers |-> Idle]
  BY DEF Restart
<1>2. ASSUME NEW c \in Children
      PROVE  /\ c \in S => Stage[c] \in {"open", "stopping"} /\ Stage'[c] = "FAILED"
             /\ c \notin S => Stage'[c] = Stage[c]
  <2>1. /\ status'[c] = (IF pc[c] # "unborn" /\ status[c] = None THEN "FAILED" ELSE status[c])
        /\ pc'[c] = (IF pc[c] = "unborn" THEN "unborn" ELSE "done")
    BY <1>1 DEF Recovered
  <2> QED BY <2>1, StageIsPlace, DelegationAssumption DEF Place
<1>3. f \in [S -> Promise!Outcomes] /\ \A c \in S : f[c] = "FAILED"
  BY DEF Promise!Outcomes
<1>4. S \in SUBSET Children
  OBVIOUS
<1> HIDE DEF S, f
<1>5. Promise!Move(S, {"open", "stopping"}, f)
  BY <1>2, <1>3, <1>4, MoveIs
<1>6. Promise!Close(S)
  BY <1>3, <1>5 DEF Promise!Close
<1>7. Promise!Leave
  BY <1>1 DEF Told, Idle, Promise!Leave
<1> QED BY <1>4, <1>6, <1>7 DEF Promise!Next

----------------------------------------------------------------------------

LEMMA PromiseInit == Init => Promise!Init
<1> SUFFICES ASSUME Init PROVE Promise!Init
  OBVIOUS
<1>1. Stage = [c \in Children |-> "unborn"]
  BY DEF Init, Stage
<1>2. Told = {}
  BY DEF Init, Told, Idle
<1> QED BY <1>1, <1>2 DEF Promise!Init

LEMMA PromiseStep == IInv /\ [Next]_vars => [Promise!Next]_(Promise!vars)
<1> SUFFICES ASSUME IInv, [Next]_vars
             PROVE  Promise!Next \/ UNCHANGED <<Stage, Told>>
  BY DEF Promise!vars
<1>1. ASSUME NEW p \in Threads, DelegateTask(p) PROVE Promise!Next
  <2>1. 1 \in 1..Cardinality(Unborn)
    <3>1. IsFiniteSet(Unborn) /\ Unborn # {}
      BY <1>1, DelegationAssumption, FS_Subset DEF Unborn, DelegateTask
    <3>2. Cardinality(Unborn) \in Nat /\ Cardinality(Unborn) # 0
      BY <3>1, FS_CardinalityType, FS_EmptySet
    <3> QED BY <3>2
  <2>2. Fresh(1) \in SUBSET Unborn
    BY <2>1, FreshRows
  <2> QED BY <1>1, <2>2, LaunchOpens DEF DelegateTask
<1>2. ASSUME NEW p \in Threads, DelegateParallel(p) PROVE Promise!Next
  <2>1. PICK n \in 1..Cardinality(Unborn) :
          \E written \in {n - 1, n} \ {0} : Launch(p, Fresh(written), "batch")
    BY <1>2 DEF DelegateParallel
  <2>2. PICK m \in {n - 1, n} \ {0} : Launch(p, Fresh(m), "batch")
    BY <2>1
  <2>3. Cardinality(Unborn) \in Nat
    BY DelegationAssumption, FS_Subset, FS_CardinalityType DEF Unborn
  <2>4. m \in 1..Cardinality(Unborn)
    BY <2>3
  <2>5. Fresh(m) \in SUBSET Unborn
    BY <2>4, FreshRows
  <2> QED BY <2>2, <2>5, LaunchOpens
<1>3. ASSUME NEW c \in Children,
             ChildStep(c) \/ AgentSpeaks(c) \/ AgentGoesIdle(c) \/ AgentErrors(c)
      PROVE  Promise!Next \/ UNCHANGED <<Stage, Told>>
  <2>1. CASE StartChild(c) \/ Recorded(c) \/ Shed(c)
    BY <2>1, StartChildStutters, RecordedCloses, ShedTells
  <2>2. CASE Timeout(c) \/ AgentErrors(c)
    BY <2>2, SeesStutters DEF Timeout, AgentErrors
  <2>3. CASE AgentSpeaks(c) \/ AgentGoesIdle(c)
    BY <2>3, SeesStutters DEF AgentSpeaks, AgentGoesIdle
  <2> QED BY <1>3, <2>1, <2>2, <2>3 DEF ChildStep
<1>4. ASSUME NEW b \in batches, BatchSettles(b) PROVE UNCHANGED <<Stage, Told>>
  BY <1>4 DEF BatchSettles, Stage, Told
<1>5. ASSUME NEW k \in Callers, NEW t \in Threads,
             CancelDelegation(k, t) \/ CancelAllDelegations(k, t)
      PROVE  Promise!Next
  BY <1>5, AskStops, TargetIsRunning DEF CancelDelegation, CancelAllDelegations
<1>6. ASSUME NEW k \in Callers, Answered(k) PROVE Promise!Next
  BY <1>6, AnsweredLeaves
<1>7. CASE Restart
  BY <1>7, RestartCloses
<1>8. CASE UNCHANGED vars
  BY <1>8 DEF vars, Stage, Told
<1> QED BY <1>1, <1>2, <1>3, <1>4, <1>5, <1>6, <1>7, <1>8 DEF Next

\* AgentDelegationService.ts, for any threads, limits, callers and restarts: a
\* child closes once, a child cancelled before its watch ended closes as FAILED,
\* and whoever cancels is told what the row says.
THEOREM DelegationKeepsItsPromise == Spec => PromiseKept
<1>1. Init => Promise!Init
  BY PromiseInit
<1>2. IInv /\ [Next]_vars => [Promise!Next]_(Promise!vars)
  BY PromiseStep
<1> QED BY <1>1, <1>2, Invariance, PTL DEF Spec, PromiseKept, Promise!Spec
=============================================================================

-------------------------- MODULE Pipeline_proofs --------------------------
(***************************************************************************)
(* Safety of a pipeline run, for every graph of steps without a cycle, any *)
(* retries, parallelism, faults and number of runs.                        *)
(*                                                                         *)
(* The invariant follows one run from place to place.  What the properties *)
(* leave out and it needs: which rows a batch may have at each place, that *)
(* a step whose row is not PENDING has only PASSED steps before it (so     *)
(* that no branch changes under a step that was chained from it), and that *)
(* a step which passed before the run was stopped has committed, or its    *)
(* work was taken for none.                                                *)
(***************************************************************************)
EXTENDS Pipeline, TLAPS

\* A run that has not been entered in the map has done nothing.
Fresh(r) ==
  pc[r] \in {"idle", "opening"} =>
    /\ run[r] = None /\ batch[r] = {} /\ todo[r] = {}
    /\ \A s \in Steps : row[r][s] = "PENDING" /\ tries[r][s] = 0

\* Agents work while the run waits for them; the loop knows of a cancellation
\* only behind the batch, and learns of it from the reason.
Stops(r) ==
  /\ r \in Active => run[r] = "RUNNING"
  /\ \A s \in Steps : agent[r][s] # "none" => pc[r] = "agents"
  /\ stopped[r] => reason[r] /\ pc[r] \in {"settle", "round"}
  /\ reason[r] => cancels[r]
  /\ going[r] # {} => pc[r] = "provision"
  /\ going[r] \cap todo[r] = {}

\* The rows of a run at work: those of its batch, and all others.
Rows(r) ==
  r \in Active =>
    /\ todo[r] \subseteq batch[r]
    /\ pc[r] = "round" => todo[r] = {}
    /\ \A s \in Steps :
         /\ s \notin batch[r] => row[r][s] \in {"PENDING", "PASSED"}
         /\ s \in batch[r] =>
              IF pc[r] \in {"settle", "round"} /\ s \notin todo[r]
              THEN row[r][s] \in RunTerminal
              ELSE row[r][s] = "RUNNING"
         /\ row[r][s] = "CANCELLED" => stopped[r]
         /\ row[r][s] = "PENDING" => tries[r][s] = 0
         /\ row[r][s] # "PENDING" => \A d \in DependsOn[s] : row[r][d] = "PASSED"

\* A step that is to be delegated, is, or has answered is of the batch, and its
\* checkout chained.
Prepared(r) ==
  \A s \in Steps :
    s \in going[r] \/ agent[r][s] # "none" \/ outcome[r][s] = "COMPLETED" =>
      /\ r \in Active /\ s \in batch[r] /\ row[r][s] = "RUNNING"
      /\ HasCheckout(r, s) => Chained(r, s)

\* A step that passed before the run was stopped has committed, or its work was
\* taken for none.
Committed(r) ==
  r \in Active /\ ~stopped[r] =>
    \A s \in Steps : row[r][s] = "PASSED" /\ HasCheckout(r, s) =>
      Chained(r, s) /\ s \in branch[r][s] \cup unsaved[r]

\* A run that has ended.
Ended(r) ==
  /\ run[r] \in RunTerminal =>
       \A s \in Steps : row[r][s] \in StepTerminal /\ agent[r][s] = "none"
  /\ run[r] = "PASSED" => \A s \in Steps : row[r][s] = "PASSED"
  /\ run[r] = "CANCELLED" => cancels[r] \/ "restart" \in trouble[r]
  /\ run[r] = "RUNNING" /\ pc[r] \in {"stuck", "over"} =>
       trouble[r] \cap {"opening", "refused"} # {}
  /\ Delivered(r) \/ cancels[r]

RunGood(r) == Fresh(r) /\ Stops(r) /\ Rows(r) /\ Prepared(r) /\ Committed(r) /\ Ended(r)

IInv == PipelineTypeOK /\ \A r \in Runs : RunGood(r)

-----------------------------------------------------------------------------
\* What a step of one run does not touch stays good.
LEMMA Untouched ==
  ASSUME NEW q \in Runs, RunGood(q),
         run'[q] = run[q], row'[q] = row[q], tries'[q] = tries[q], pc'[q] = pc[q],
         fleet'[q] = fleet[q], batch'[q] = batch[q], todo'[q] = todo[q],
         going'[q] = going[q], agent'[q] = agent[q], outcome'[q] = outcome[q],
         branch'[q] = branch[q], lost'[q] = lost[q], unsaved'[q] = unsaved[q],
         reason'[q] = reason[q], stopped'[q] = stopped[q], cancels'[q] = cancels[q],
         trouble'[q] = trouble[q]
  PROVE  RunGood(q)'
<1> USE DEF Active, HasCheckout, Chained
<1>1. Fresh(q)' /\ Stops(q)' /\ Rows(q)'
  BY DEF RunGood, Fresh, Stops, Rows
<1>2. Prepared(q)' /\ Committed(q)'
  BY DEF RunGood, Prepared, Committed
<1>3. Ended(q)'
  BY DEF RunGood, Ended, Delivered
<1> QED BY <1>1, <1>2, <1>3 DEF RunGood

LEMMA InitGood == Init => IInv
<1> SUFFICES ASSUME Init PROVE IInv OBVIOUS
<1>1. PipelineTypeOK
  BY PipelineAssumption DEF Init, PipelineTypeOK, Places, Agents, StepTerminal
<1>2. ASSUME NEW r \in Runs PROVE RunGood(r)
  BY <1>2, PipelineAssumption
  DEF Init, RunGood, Fresh, Stops, Rows, Prepared, Committed, Ended, Delivered, Active,
      HasCheckout, RunTerminal
<1> QED BY <1>1, <1>2 DEF IInv

\* The types behind a dispatch.
LEMMA DispatchTypes ==
  ASSUME PipelineTypeOK, NEW r \in Runs, NEW S \in SUBSET Steps, Dispatch(r, S),
         NEW B \in SUBSET Steps, batch' = [batch EXCEPT ![r] = B], stopped' = stopped,
         \A s \in S : tries[r][s] <= Retries[s]
  PROVE  PipelineTypeOK'
<1>1. row' \in [Runs -> [Steps -> StepTerminal \cup {"PENDING", "RUNNING"}]]
  BY DEF PipelineTypeOK, Dispatch
<1>2. /\ tries' \in [Runs -> [Steps -> Nat]]
      /\ \A q \in Runs, s \in Steps : tries'[q][s] <= Retries[s] + 1
  BY PipelineAssumption DEF PipelineTypeOK, Dispatch
<1>3. outcome' \in [Runs -> [Steps -> {"COMPLETED", "FAILED", None}]]
  BY DEF PipelineTypeOK, Dispatch
<1>4. /\ todo' \in [Runs -> SUBSET Steps] /\ going' \in [Runs -> SUBSET Steps]
      /\ batch' \in [Runs -> SUBSET Steps]
      /\ pc' \in [Runs -> Places]
  BY DEF PipelineTypeOK, Dispatch, Places
<1> QED BY <1>1, <1>2, <1>3, <1>4 DEF PipelineTypeOK, Dispatch

\* A dispatch, of a fresh batch or of some of the steps of this one again.
LEMMA DispatchGood ==
  ASSUME IInv, NEW r \in Runs, NEW S \in SUBSET Steps, Dispatch(r, S),
         NEW B \in SUBSET Steps, batch' = [batch EXCEPT ![r] = B], stopped' = stopped,
         r \in Active, ~stopped[r], Working(r) = {}, S \subseteq B,
         \A s \in S : /\ tries[r][s] <= Retries[s]
                      /\ \A d \in DependsOn[s] : row[r][d] = "PASSED"
                      /\ row[r][s] # "PASSED",
         \A s \in B \ S : row[r][s] = "RUNNING",
         \A s \in Steps \ B : /\ row[r][s] \in {"PENDING", "PASSED"}
                              /\ outcome[r][s] # "COMPLETED"
  PROVE  IInv'
<1>1. PipelineTypeOK'
  BY DispatchTypes DEF IInv
<1>2. ASSUME NEW q \in Runs, q # r PROVE RunGood(q)'
  BY <1>2, Untouched DEF IInv, PipelineTypeOK, Dispatch
<1>3. /\ row'[r] = [s \in Steps |-> IF s \in S THEN "RUNNING" ELSE row[r][s]]
      /\ tries'[r] = [s \in Steps |-> IF s \in S THEN tries[r][s] + 1 ELSE tries[r][s]]
      /\ outcome'[r] = [s \in Steps |-> IF s \in S THEN None ELSE outcome[r][s]]
      /\ todo'[r] = {s \in S : HasCheckout(r, s)}
      /\ going'[r] = {s \in S : ~HasCheckout(r, s)}
      /\ pc'[r] = "provision" /\ batch'[r] = B
      /\ run' = run /\ fleet' = fleet /\ agent' = agent /\ branch' = branch
      /\ lost' = lost /\ unsaved' = unsaved /\ trouble' = trouble
      /\ reason' = reason /\ stopped' = stopped /\ cancels' = cancels
  BY DEF Dispatch, IInv, PipelineTypeOK
<1>4. RunGood(r)
  BY DEF IInv
<1>5. Fresh(r)' /\ Stops(r)'
  BY <1>3, <1>4 DEF RunGood, Fresh, Stops, Active, Working
<1>6. Rows(r)'
  BY <1>3, <1>4, PipelineAssumption DEF RunGood, Rows, Active
<1>7. Prepared(r)'
  BY <1>3, <1>4, PipelineAssumption
  DEF RunGood, Prepared, Active, Working, HasCheckout, Chained
<1>8. Committed(r)'
  BY <1>3, <1>4 DEF RunGood, Committed, Active, HasCheckout, Chained
<1>9. Ended(r)'
  BY <1>3, <1>4, PipelineAssumption
  DEF RunGood, Ended, Stops, Active, RunTerminal, Delivered
<1> QED BY <1>1, <1>2, <1>5, <1>6, <1>7, <1>8, <1>9 DEF IInv, RunGood

\* The end of a run.
LEMMA FinishGood ==
  ASSUME IInv, NEW r \in Runs, pc[r] = "round",
         NEW rest \in {"PENDING", "SKIPPED", "CANCELLED"}, Finish(r, rest),
         rest = "CANCELLED" => cancels[r],
         rest = "PENDING" => \A s \in Steps : row[r][s] \in StepTerminal
  PROVE  IInv'
<1> DEFINE now == [s \in Steps |-> IF row[r][s] \in StepTerminal THEN row[r][s] ELSE rest]
           status == Aggregate({now[s] : s \in Steps})
<1>1. now \in [Steps -> StepTerminal]
  BY DEF StepTerminal, RunTerminal
<1>2. /\ status \in RunTerminal
      /\ status = "PASSED" => \A s \in Steps : now[s] = "PASSED"
      /\ status = "CANCELLED" => \E s \in Steps : now[s] = "CANCELLED"
  <2> HIDE DEF now
  <2> QED BY <1>1 DEF Aggregate, RunTerminal, StepTerminal
<1>3. /\ row'[r] = now /\ run'[r] = status /\ pc'[r] = "over" /\ batch'[r] = {}
      /\ reason'[r] = FALSE /\ stopped'[r] = FALSE
      /\ fleet' = fleet /\ going' = going /\ agent' = agent /\ outcome' = outcome
      /\ branch' = branch /\ lost' = lost /\ unsaved' = unsaved /\ cancels' = cancels
      /\ trouble' = trouble
  <2>1. run' = [run EXCEPT ![r] = status] /\ row' = [row EXCEPT ![r] = now]
    BY DEF Finish
  <2> HIDE DEF status, now
  <2> QED BY <2>1 DEF Finish, IInv, PipelineTypeOK
<1>4. PipelineTypeOK'
  <2> HIDE DEF now, status
  <2>1. run' = [run EXCEPT ![r] = status] /\ row' = [row EXCEPT ![r] = now]
    BY DEF Finish, status, now
  <2> QED BY <1>1, <1>2, <2>1 DEF IInv, PipelineTypeOK, Finish, Places, RunTerminal
<1>5. ASSUME NEW q \in Runs, q # r PROVE RunGood(q)'
  <2>1. run' = [run EXCEPT ![r] = status] /\ row' = [row EXCEPT ![r] = now]
    BY DEF Finish
  <2> HIDE DEF now, status
  <2>2. /\ run'[q] = run[q] /\ row'[q] = row[q] /\ pc'[q] = pc[q] /\ batch'[q] = batch[q]
        /\ reason'[q] = reason[q] /\ stopped'[q] = stopped[q]
    BY <1>5, <2>1 DEF IInv, PipelineTypeOK, Finish
  <2>3. RunGood(q)
    BY DEF IInv
  <2>4. UNCHANGED <<tries, fleet, todo, going, agent, outcome, branch, lost, unsaved,
                    cancels, trouble>>
    BY DEF Finish
  <2> QED BY <2>2, <2>3, <2>4, Untouched
<1>6. RunGood(r)
  BY DEF IInv
<1>7. Fresh(r)' /\ Stops(r)' /\ Rows(r)' /\ Committed(r)'
  BY <1>3, <1>6 DEF RunGood, Fresh, Stops, Rows, Committed, Active
<1>8. \A s \in Steps : /\ s \notin going[r] /\ agent[r][s] = "none"
                       /\ outcome[r][s] # "COMPLETED"
  BY <1>6 DEF RunGood, Prepared, Rows, RunTerminal
<1>9. Prepared(r)'
  BY <1>3, <1>8 DEF Prepared
<1>10. status = "CANCELLED" => cancels[r]
  <2>1. \A s \in Steps : row[r][s] = "CANCELLED" => cancels[r]
    BY <1>6 DEF RunGood, Rows, Stops, Active
  <2> QED BY <1>2, <2>1
<1>11. status = "PASSED" => (\A s \in Steps : HasCheckout(r, s) => Chained(r, s)
                                             /\ s \in branch[r][s] \cup unsaved[r])
                            \/ cancels[r]
  <2>1. ASSUME status = "PASSED" PROVE \A s \in Steps : row[r][s] = "PASSED"
    BY <1>2, <2>1
  <2> HIDE DEF status, now
  <2> QED BY <1>6, <2>1 DEF RunGood, Committed, Stops, Active
<1>12. Ended(r)'
  <2> HIDE DEF status, now
  <2> QED BY <1>1, <1>2, <1>3, <1>8, <1>10, <1>11
      DEF Ended, Delivered, HasCheckout, Chained, RunTerminal, Active
<1> QED BY <1>4, <1>5, <1>7, <1>9, <1>12 DEF IInv, RunGood

LEMMA RoundGood == ASSUME IInv, NEW r \in Runs, Round(r) PROVE IInv'
<1>1. RunGood(r) /\ pc[r] = "round" /\ r \in Active
  BY DEF IInv, Round, Active
<1>2. CASE stopped[r]
  <2>1. Closing(r) = "CANCELLED"
    BY <1>2 DEF Closing
  <2> QED BY <1>1, <1>2, <2>1, FinishGood, PipelineAssumption DEF Round, RunGood, Stops
<1>3. CASE ~stopped[r] /\ \E s \in batch[r] : row[r][s] # "PASSED"
  <2>1. Closing(r) = "SKIPPED"
    BY <1>3 DEF Closing
  <2> QED BY <1>1, <2>1, FinishGood, PipelineAssumption DEF Round
<1>4. CASE ~stopped[r] /\ ~(\E s \in batch[r] : row[r][s] # "PASSED")
  <2>1. \A s \in Steps : row[r][s] \in {"PENDING", "PASSED"}
    BY <1>1, <1>4 DEF RunGood, Rows
  <2>2. CASE reason[r]
    <3>1. Closing(r) = "CANCELLED"
      BY <1>4, <2>2 DEF Closing
    <3> QED BY <1>1, <2>2, <3>1, FinishGood, PipelineAssumption DEF Round, RunGood, Stops
  <2>3. CASE ~reason[r] /\ Ready(r) = {}
    <3> DEFINE P == {s \in Steps : row[r][s] = "PENDING"}
    <3>1. ASSUME P # {} PROVE FALSE
      <4>1. PICK s \in P : DependsOn[s] \cap P = {}
        BY <3>1, PipelineAssumption
      <4>2. s \in Ready(r)
        BY <2>1, <4>1, PipelineAssumption DEF Ready
      <4> QED BY <2>3, <4>2
    <3>2. \A s \in Steps : row[r][s] \in StepTerminal
      BY <2>1, <3>1 DEF StepTerminal, RunTerminal
    <3>3. Closing(r) = "PENDING"
      BY <1>4, <2>3 DEF Closing
    <3> QED BY <1>1, <3>2, <3>3, FinishGood, PipelineAssumption DEF Round
  <2>4. CASE ~reason[r] /\ Ready(r) # {}
    <3> DEFINE next == FirstOf(Ready(r))
    <3>1. next \subseteq Ready(r) /\ next \in SUBSET Steps
      BY DEF FirstOf, Ready
    <3>2. batch' = [batch EXCEPT ![r] = next] /\ Dispatch(r, next) /\ stopped' = stopped
      <4>1. Closing(r) = None
        BY <1>4, <2>4 DEF Closing
      <4> QED BY <4>1 DEF Round
    <3> HIDE DEF next
    <3>3. \A s \in next : /\ tries[r][s] <= Retries[s]
                          /\ \A d \in DependsOn[s] : row[r][d] = "PASSED"
                          /\ row[r][s] # "PASSED"
      BY <1>1, <3>1, PipelineAssumption DEF RunGood, Rows, Ready
    <3>4. \A s \in Steps : agent[r][s] = "none" /\ outcome[r][s] # "COMPLETED"
      BY <1>1, <2>1 DEF RunGood, Prepared
    <3>5. /\ Working(r) = {} /\ next \subseteq next
          /\ \A s \in next \ next : row[r][s] = "RUNNING"
          /\ \A s \in Steps \ next : /\ row[r][s] \in {"PENDING", "PASSED"}
                                   /\ outcome[r][s] # "COMPLETED"
      BY <2>1, <3>4 DEF Working
    <3>6. ~stopped[r]
      BY <1>4
    <3> QED BY <1>1, <3>1, <3>2, <3>3, <3>5, <3>6, DispatchGood
  <2> QED BY <2>2, <2>3, <2>4
<1> QED BY <1>2, <1>3, <1>4

LEMMA StartGood == ASSUME IInv, NEW r \in Runs, Start(r) PROVE IInv'
<1>1. PipelineTypeOK'
  BY DEF IInv, PipelineTypeOK, Start, Places
<1>2. ASSUME NEW q \in Runs, q # r PROVE RunGood(q)'
  BY <1>2, Untouched DEF IInv, PipelineTypeOK, Start
<1>3. RunGood(r) /\ pc[r] = "idle" /\ pc'[r] = "opening"
  BY DEF IInv, PipelineTypeOK, Start
<1>4. RunGood(r)'
  BY <1>3, PipelineAssumption DEF Start, RunGood, Fresh, Stops, Rows, Prepared,
     Committed, Ended, Delivered, Active, HasCheckout, Chained, RunTerminal
<1> QED BY <1>1, <1>2, <1>4 DEF IInv

LEMMA OpenedGood == ASSUME IInv, NEW r \in Runs, Opened(r) PROVE IInv'
<1>1. PipelineTypeOK'
  BY DEF IInv, PipelineTypeOK, Opened, Places
<1>2. ASSUME NEW q \in Runs, q # r PROVE RunGood(q)'
  BY <1>2, Untouched DEF IInv, PipelineTypeOK, Opened
<1>3. RunGood(r) /\ pc[r] = "opening" /\ pc'[r] = "round" /\ run'[r] = "RUNNING"
  BY DEF IInv, PipelineTypeOK, Opened
<1>4. \A s \in Steps : /\ s \notin going[r] /\ agent[r][s] = "none"
                       /\ outcome[r][s] # "COMPLETED" /\ row[r][s] = "PENDING"
  BY <1>3 DEF RunGood, Fresh, Prepared
<1>5. RunGood(r)'
  BY <1>3, <1>4, PipelineAssumption DEF Opened, RunGood, Fresh, Stops, Rows, Prepared,
     Committed, Ended, Delivered, Active, HasCheckout, Chained, RunTerminal
<1> QED BY <1>1, <1>2, <1>5 DEF IInv

LEMMA OpenBreaksGood == ASSUME IInv, NEW r \in Runs, OpenBreaks(r) PROVE IInv'
<1>1. PICK place \in {"over", "stuck"}, word \in {None, "RUNNING"} :
        /\ pc' = [pc EXCEPT ![r] = place] /\ run' = [run EXCEPT ![r] = word]
        /\ word = None => place = "over"
  <2>1. RunGood(r) /\ pc[r] = "opening" /\ run \in [Runs -> RunTerminal \cup {"RUNNING", None}]
    BY DEF OpenBreaks, IInv, PipelineTypeOK
  <2>2. run = [run EXCEPT ![r] = None]
    BY <2>1 DEF RunGood, Fresh
  <2>3. CASE pc' = [pc EXCEPT ![r] = "over"] /\ run' = run
    BY <2>2, <2>3
  <2>4. CASE \E place \in {"over", "stuck"} :
               /\ pc' = [pc EXCEPT ![r] = place]
               /\ run' = [run EXCEPT ![r] = "RUNNING"]
    BY <2>4, PipelineAssumption
  <2> QED BY <2>3, <2>4 DEF OpenBreaks
<1>2. PipelineTypeOK'
  <2>1. trouble' \in [Runs -> SUBSET Troubles] /\ mishaps' \in 0..MaxMishaps
    BY PipelineAssumption DEF OpenBreaks, Troubles, IInv, PipelineTypeOK
  <2>2. pc' \in [Runs -> Places] /\ run' \in [Runs -> RunTerminal \cup {"RUNNING", None}]
    BY <1>1 DEF Places, IInv, PipelineTypeOK
  <2> QED BY <2>1, <2>2 DEF OpenBreaks, IInv, PipelineTypeOK
<1>3. ASSUME NEW q \in Runs, q # r PROVE RunGood(q)'
  BY <1>1, <1>3, Untouched DEF IInv, PipelineTypeOK, OpenBreaks
<1>4. /\ RunGood(r) /\ pc[r] = "opening" /\ pc'[r] = place /\ run'[r] = word
      /\ "opening" \in trouble'[r]
  BY <1>1 DEF IInv, PipelineTypeOK, OpenBreaks
<1>5. \A s \in Steps : /\ s \notin going[r] /\ agent[r][s] = "none"
                       /\ outcome[r][s] # "COMPLETED" /\ row[r][s] = "PENDING"
  BY <1>4 DEF RunGood, Fresh, Prepared
<1>6. RunGood(r)'
  BY <1>1, <1>4, <1>5, PipelineAssumption DEF OpenBreaks, RunGood, Fresh, Stops, Rows,
     Prepared, Committed, Ended, Delivered, Active, HasCheckout, Chained, RunTerminal
<1> QED BY <1>2, <1>3, <1>6 DEF IInv

LEMMA ProvisionGood == ASSUME IInv, NEW r \in Runs, Provision(r) PROVE IInv'
<1>1. PICK s \in Foremost(r), gone \in SUBSET Steps :
        /\ todo' = [todo EXCEPT ![r] = @ \ {s}]
        /\ \/ /\ branch' = [branch EXCEPT ![r][s] = Inherited(r, s, gone)]
              /\ lost' = [lost EXCEPT ![r][s] = gone]
              /\ going' = [going EXCEPT ![r] = @ \cup {s}]
              /\ UNCHANGED outcome
           \/ /\ branch' = [branch EXCEPT ![r][s] = {}]
              /\ lost' = [lost EXCEPT ![r][s] = {}]
              /\ outcome' = [outcome EXCEPT ![r][s] = "FAILED"]
              /\ UNCHANGED going
  BY DEF Provision
<1>2. /\ pc[r] = "provision" /\ r \in Active /\ RunGood(r) /\ s \in todo[r] /\ s \in Steps
      /\ s \in batch[r] /\ row[r][s] = "RUNNING" /\ ~stopped[r]
      /\ \A d \in DependsOn[s] : row[r][d] = "PASSED" /\ d # s /\ d \in Steps
  <2>1. pc[r] = "provision" /\ r \in Active /\ RunGood(r) /\ s \in todo[r]
    BY <1>1 DEF Provision, Foremost, Active, IInv
  <2>2. s \in Steps /\ s \in batch[r] /\ row[r][s] = "RUNNING" /\ ~stopped[r]
    BY <2>1 DEF IInv, PipelineTypeOK, RunGood, Rows, Stops
  <2>3. \A d \in DependsOn[s] : row[r][d] = "PASSED" /\ d # s /\ d \in Steps
    BY <2>1, <2>2, PipelineAssumption DEF RunGood, Rows
  <2> QED BY <2>1, <2>2, <2>3
<1>3. Inherited(r, s, gone) \in SUBSET Steps
  BY <1>2, PipelineAssumption DEF Inherited, IInv, PipelineTypeOK
<1>4. PipelineTypeOK'
  <2>1. /\ branch' \in [Runs -> [Steps -> SUBSET Steps]]
        /\ lost' \in [Runs -> [Steps -> SUBSET Steps]]
        /\ outcome' \in [Runs -> [Steps -> {"COMPLETED", "FAILED", None}]]
    <3>1. /\ branch \in [Runs -> [Steps -> SUBSET Steps]]
          /\ lost \in [Runs -> [Steps -> SUBSET Steps]]
          /\ outcome \in [Runs -> [Steps -> {"COMPLETED", "FAILED", None}]]
      BY DEF IInv, PipelineTypeOK
    <3>2. CASE /\ branch' = [branch EXCEPT ![r][s] = Inherited(r, s, gone)]
               /\ lost' = [lost EXCEPT ![r][s] = gone]
               /\ outcome' = outcome
      BY <1>2, <1>3, <3>1, <3>2
    <3>3. CASE /\ branch' = [branch EXCEPT ![r][s] = {}]
               /\ lost' = [lost EXCEPT ![r][s] = {}]
               /\ outcome' = [outcome EXCEPT ![r][s] = "FAILED"]
      BY <1>2, <3>1, <3>3
    <3> QED BY <1>1, <3>2, <3>3
  <2>2. todo' \in [Runs -> SUBSET Steps] /\ going' \in [Runs -> SUBSET Steps]
    <3>1. todo \in [Runs -> SUBSET Steps] /\ going \in [Runs -> SUBSET Steps]
      BY DEF IInv, PipelineTypeOK
    <3>2. going' = going \/ going' = [going EXCEPT ![r] = @ \cup {s}]
      BY <1>1
    <3>3. going' \in [Runs -> SUBSET Steps]
      BY <1>2, <3>1, <3>2
    <3>4. todo' \in [Runs -> SUBSET Steps]
      BY <1>1, <3>1
    <3> QED BY <3>3, <3>4
  <2> QED BY <2>1, <2>2 DEF IInv, PipelineTypeOK, Provision
<1>5. ASSUME NEW q \in Runs, q # r PROVE RunGood(q)'
  BY <1>1, <1>5, Untouched DEF IInv, PipelineTypeOK, Provision
<1>6. /\ todo'[r] = todo[r] \ {s}
      /\ \/ /\ going'[r] = going[r] \cup {s}
            /\ branch'[r][s] = Inherited(r, s, gone) /\ lost'[r][s] = gone
         \/ going'[r] = going[r]
      /\ \A z \in Steps : z # s => branch'[r][z] = branch[r][z] /\ lost'[r][z] = lost[r][z]
      /\ \A z \in Steps : outcome'[r][z] = "COMPLETED" => outcome[r][z] = "COMPLETED"
  BY <1>1, <1>2 DEF IInv, PipelineTypeOK
<1>7. Fresh(r)' /\ Stops(r)' /\ Rows(r)'
  BY <1>2, <1>6 DEF Provision, RunGood, Fresh, Stops, Rows, Active
<1>8. /\ HasCheckout(r, s) /\ branch'[r][s] = Inherited(r, s, gone) /\ lost'[r][s] = gone
      => Chained(r, s)'
  BY <1>2, <1>6 DEF Provision, Inherited, RunGood, Committed, HasCheckout, Chained
<1>9. ASSUME NEW z \in Steps, z # s, row[r][z] # "PENDING"
      PROVE  Chained(r, z) => Chained(r, z)'
  BY <1>2, <1>6, <1>9, PipelineAssumption
  DEF Provision, RunGood, Rows, Chained, HasCheckout
<1>10. Prepared(r)'
  <2>1. ASSUME NEW z \in Steps, z # s,
               z \in going'[r] \/ agent'[r][z] # "none" \/ outcome'[r][z] = "COMPLETED"
        PROVE  /\ r \in Active /\ z \in batch[r] /\ row[r][z] = "RUNNING"
               /\ HasCheckout(r, z) => Chained(r, z)'
    BY <1>2, <1>6, <1>9, <2>1 DEF Provision, RunGood, Prepared
  <2>2. agent[r][s] = "none"
    BY <1>2 DEF Provision, RunGood, Stops
  <2>3. s \in going'[r] \/ outcome'[r][s] = "COMPLETED" =>
          branch'[r][s] = Inherited(r, s, gone) /\ lost'[r][s] = gone
    <3>1. s \notin going[r]
      BY <1>2 DEF RunGood, Stops
    <3>2. CASE /\ branch' = [branch EXCEPT ![r][s] = Inherited(r, s, gone)]
               /\ lost' = [lost EXCEPT ![r][s] = gone]
      BY <1>2, <3>2 DEF IInv, PipelineTypeOK
    <3>3. CASE outcome' = [outcome EXCEPT ![r][s] = "FAILED"] /\ going' = going
      BY <1>2, <3>1, <3>3 DEF IInv, PipelineTypeOK
    <3> QED BY <1>1, <3>2, <3>3
  <2>4. /\ batch' = batch /\ row' = row /\ agent' = agent /\ fleet' = fleet
        /\ pc' = pc
    BY DEF Provision
  <2> QED BY <1>2, <1>8, <2>1, <2>2, <2>3, <2>4 DEF Prepared, HasCheckout, Active
<1>11. Committed(r)'
  BY <1>2, <1>6, <1>9 DEF Provision, RunGood, Committed, HasCheckout, Active
<1>12. Ended(r)'
  BY <1>2, PipelineAssumption
  DEF Provision, RunGood, Ended, Stops, Delivered, RunTerminal, Active
<1> QED BY <1>4, <1>5, <1>7, <1>10, <1>11, <1>12 DEF IInv, RunGood

LEMMA StartAgentsGood == ASSUME IInv, NEW r \in Runs, StartAgents(r) PROVE IInv'
<1>1. /\ agent \in [Runs -> [Steps -> Agents]]
      /\ outcome \in [Runs -> [Steps -> {"COMPLETED", "FAILED", None}]]
      /\ pc \in [Runs -> Places] /\ going \in [Runs -> SUBSET Steps]
  BY DEF IInv, PipelineTypeOK
<1>2. \/ /\ agent' = [agent EXCEPT ![r] =
                        [s \in Steps |-> IF s \in going[r] THEN "running" ELSE @[s]]]
         /\ outcome' = outcome
      \/ /\ outcome' = [outcome EXCEPT ![r] =
                          [s \in Steps |-> IF s \in going[r] THEN "FAILED" ELSE @[s]]]
         /\ agent' = agent
  BY DEF StartAgents
<1>3. /\ agent' \in [Runs -> [Steps -> Agents]]
      /\ outcome' \in [Runs -> [Steps -> {"COMPLETED", "FAILED", None}]]
      /\ \A s \in Steps : /\ agent'[r][s] # "none" => s \in going[r] \/ agent[r][s] # "none"
                          /\ outcome'[r][s] = "COMPLETED" => outcome[r][s] = "COMPLETED"
      /\ \A q \in Runs : q # r => agent'[q] = agent[q] /\ outcome'[q] = outcome[q]
  <2>1. CASE /\ agent' = [agent EXCEPT ![r] =
                             [s \in Steps |-> IF s \in going[r] THEN "running" ELSE @[s]]]
             /\ outcome' = outcome
    BY <1>1, <2>1 DEF Agents
  <2>2. CASE /\ outcome' = [outcome EXCEPT ![r] =
                               [s \in Steps |-> IF s \in going[r] THEN "FAILED" ELSE @[s]]]
             /\ agent' = agent
    BY <1>1, <2>2
  <2> QED BY <1>2, <2>1, <2>2
<1>4. PipelineTypeOK'
  BY <1>3 DEF IInv, PipelineTypeOK, StartAgents, Places
<1>5. ASSUME NEW q \in Runs, q # r PROVE RunGood(q)'
  BY <1>3, <1>5, Untouched DEF IInv, PipelineTypeOK, StartAgents
<1>6. /\ pc[r] = "provision" /\ todo[r] = {} /\ pc'[r] = "agents" /\ going'[r] = {}
      /\ RunGood(r)
  BY <1>1 DEF StartAgents, IInv
<1>7. Fresh(r)' /\ Stops(r)' /\ Rows(r)' /\ Committed(r)'
  BY <1>3, <1>6
  DEF StartAgents, RunGood, Fresh, Stops, Rows, Committed, Active, HasCheckout, Chained
<1>8. Prepared(r)'
  BY <1>3, <1>6 DEF StartAgents, RunGood, Prepared, Active, HasCheckout, Chained
<1>9. Ended(r)'
  BY <1>6, PipelineAssumption
  DEF StartAgents, RunGood, Ended, Stops, Active, Delivered, RunTerminal,
      HasCheckout, Chained
<1> QED BY <1>4, <1>5, <1>7, <1>8, <1>9 DEF IInv, RunGood

LEMMA AgentEndsGood ==
  ASSUME IInv, NEW r \in Runs, NEW s \in Steps, AgentEnds(r, s) PROVE IInv'
<1>1. PICK how \in {"COMPLETED", "FAILED"} :
        outcome' = [outcome EXCEPT ![r][s] = how]
  BY DEF AgentEnds
<1>2. /\ agent' = [agent EXCEPT ![r][s] = "none"] /\ agent[r][s] # "none"
      /\ agent \in [Runs -> [Steps -> Agents]]
      /\ outcome \in [Runs -> [Steps -> {"COMPLETED", "FAILED", None}]]
      /\ RunGood(r)
  BY DEF AgentEnds, IInv, PipelineTypeOK
<1>3. /\ agent' \in [Runs -> [Steps -> Agents]]
      /\ outcome' \in [Runs -> [Steps -> {"COMPLETED", "FAILED", None}]]
      /\ \A z \in Steps : /\ agent'[r][z] # "none" => agent[r][z] # "none"
                          /\ z # s => outcome'[r][z] = outcome[r][z]
      /\ \A q \in Runs : q # r => agent'[q] = agent[q] /\ outcome'[q] = outcome[q]
  BY <1>1, <1>2 DEF Agents
<1>4. PipelineTypeOK'
  BY <1>3 DEF IInv, PipelineTypeOK, AgentEnds
<1>5. ASSUME NEW q \in Runs, q # r PROVE RunGood(q)'
  BY <1>3, <1>5, Untouched DEF IInv, PipelineTypeOK, AgentEnds
<1>6. Fresh(r)' /\ Stops(r)' /\ Rows(r)' /\ Committed(r)'
  BY <1>2, <1>3
  DEF AgentEnds, RunGood, Fresh, Stops, Rows, Committed, Active, HasCheckout, Chained
<1>7. Prepared(r)'
  BY <1>2, <1>3 DEF AgentEnds, RunGood, Prepared, Active, HasCheckout, Chained
<1>8. Ended(r)'
  BY <1>2, <1>3 DEF AgentEnds, RunGood, Ended, Active, Delivered, HasCheckout, Chained
<1> QED BY <1>4, <1>5, <1>6, <1>7, <1>8 DEF IInv, RunGood

\* The batch is over, or is tried again.
LEMMA SettleGood ==
  ASSUME IInv, NEW r \in Runs, pc[r] \in {"agents", "wait"}, Working(r) = {},
         pc' = [pc EXCEPT ![r] = "settle"], todo' = [todo EXCEPT ![r] = batch[r]],
         stopped' = [stopped EXCEPT ![r] = reason[r]],
         UNCHANGED <<run, row, tries, fleet, batch, going, agent, outcome, branch,
                     lost, unsaved, reason, asked, cancels, trouble, mishaps>>
  PROVE  IInv'
<1>1. PipelineTypeOK'
  BY DEF IInv, PipelineTypeOK, Places
<1>2. ASSUME NEW q \in Runs, q # r PROVE RunGood(q)'
  BY <1>2, Untouched DEF IInv, PipelineTypeOK
<1>3. /\ RunGood(r) /\ r \in Active /\ pc'[r] = "settle" /\ todo'[r] = batch[r]
      /\ stopped'[r] = reason[r] /\ ~stopped[r] /\ going[r] = {}
  <2>1. RunGood(r) /\ pc \in [Runs -> Places] /\ todo \in [Runs -> SUBSET Steps]
        /\ stopped \in [Runs -> BOOLEAN]
    BY DEF IInv, PipelineTypeOK
  <2>2. r \in Active /\ ~stopped[r] /\ going[r] = {}
    BY <2>1 DEF Active, RunGood, Stops
  <2> QED BY <2>1, <2>2
<1>4. Fresh(r)' /\ Stops(r)' /\ Rows(r)'
  BY <1>3 DEF RunGood, Fresh, Stops, Rows, Active, Working
<1>5. Prepared(r)' /\ Committed(r)'
  BY <1>3 DEF RunGood, Prepared, Committed, Active, HasCheckout, Chained
<1>6. Ended(r)'
  BY <1>3, PipelineAssumption
  DEF RunGood, Ended, Stops, Active, Delivered, HasCheckout, Chained, RunTerminal
<1> QED BY <1>1, <1>2, <1>4, <1>5, <1>6 DEF IInv, RunGood

LEMMA RetryGood ==
  ASSUME IInv, NEW r \in Runs, pc[r] \in {"agents", "wait"}, Working(r) = {},
         Dispatch(r, Retrying(r)), UNCHANGED <<batch, stopped>>
  PROVE  IInv'
<1>1. RunGood(r) /\ r \in Active /\ ~stopped[r] /\ batch[r] \in SUBSET Steps
  <2>1. RunGood(r) /\ batch[r] \in SUBSET Steps
    BY DEF IInv, PipelineTypeOK
  <2>2. r \in Active
    BY DEF Active
  <2>3. ~stopped[r]
    BY <2>1 DEF RunGood, Stops
  <2> QED BY <2>1, <2>2, <2>3
<1>2. batch' = [batch EXCEPT ![r] = batch[r]] /\ stopped' = stopped
  BY DEF IInv, PipelineTypeOK
<1>3. /\ Retrying(r) \in SUBSET Steps /\ Retrying(r) \subseteq batch[r]
      /\ \A s \in Retrying(r) : tries[r][s] <= Retries[s]
  BY <1>1 DEF Retrying
<1>4. \A s \in batch[r] : /\ row[r][s] = "RUNNING"
                          /\ \A d \in DependsOn[s] : row[r][d] = "PASSED"
  BY <1>1 DEF RunGood, Rows
<1>5. \A s \in Steps \ batch[r] : /\ row[r][s] \in {"PENDING", "PASSED"}
                                  /\ outcome[r][s] # "COMPLETED"
  BY <1>1 DEF RunGood, Rows, Prepared
<1> HIDE DEF Retrying
<1> QED BY <1>1, <1>2, <1>3, <1>4, <1>5, DispatchGood

LEMMA AnsweredGood == ASSUME IInv, NEW r \in Runs, Answered(r) PROVE IInv'
<1>1. pc[r] = "agents" /\ Working(r) = {}
  BY DEF Answered
<1>2. CASE reason[r] \/ Retrying(r) = {}
  BY <1>1, <1>2, SettleGood DEF Answered
<1>3. CASE /\ pc' = [pc EXCEPT ![r] = "wait"]
           /\ UNCHANGED <<run, row, tries, fleet, batch, todo, going, agent, outcome,
                          branch, lost, unsaved, reason, stopped, asked, cancels,
                          trouble, mishaps>>
  <2>1. PipelineTypeOK'
    BY <1>3 DEF IInv, PipelineTypeOK, Places
  <2>2. ASSUME NEW q \in Runs, q # r PROVE RunGood(q)'
    BY <1>3, <2>2, Untouched DEF IInv, PipelineTypeOK
  <2>3. RunGood(r) /\ pc'[r] = "wait" /\ ~stopped[r] /\ r \in Active
    <3>1. RunGood(r) /\ pc \in [Runs -> Places]
      BY DEF IInv, PipelineTypeOK
    <3>2. r \in Active /\ ~stopped[r]
      BY <1>1, <3>1 DEF Active, RunGood, Stops
    <3> QED BY <1>3, <3>1, <3>2
  <2>4. RunGood(r)'
    BY <1>1, <1>3, <2>3 DEF RunGood, Fresh, Stops, Rows, Prepared, Committed, Ended,
       Delivered, Active, HasCheckout, Chained, Working
  <2> QED BY <2>1, <2>2, <2>4 DEF IInv
<1>4. CASE Dispatch(r, Retrying(r)) /\ UNCHANGED <<batch, stopped>>
  BY <1>1, <1>4, RetryGood
<1> QED BY <1>2, <1>3, <1>4 DEF Answered

LEMMA WaitedGood == ASSUME IInv, NEW r \in Runs, Waited(r) PROVE IInv'
<1>1. pc[r] = "wait" /\ Working(r) = {}
  BY DEF Waited, IInv, RunGood, Stops, Working
<1>2. CASE reason[r]
  BY <1>1, <1>2, SettleGood DEF Waited
<1>3. CASE ~reason[r]
  BY <1>1, <1>3, RetryGood DEF Waited
<1> QED BY <1>2, <1>3

LEMMA RecordGood == ASSUME IInv, NEW r \in Runs, Record(r) PROVE IInv'
<1>1. PICK s \in Foremost(r), how \in {"saved", "unsaved", "left", "failed"} :
        /\ how \in Verdicts(r, s)
        /\ row' = [row EXCEPT ![r][s] =
                     IF how # "failed" THEN "PASSED"
                     ELSE IF stopped[r] THEN "CANCELLED" ELSE "FAILED"]
        /\ branch' = [branch EXCEPT ![r][s] = IF how = "saved" THEN @ \cup {s} ELSE @]
        /\ unsaved' = [unsaved EXCEPT ![r] = IF how = "unsaved" THEN @ \cup {s} ELSE @]
        /\ todo' = [todo EXCEPT ![r] = @ \ {s}]
        /\ outcome' = [outcome EXCEPT ![r][s] = None]
        /\ pc' = [pc EXCEPT ![r] = IF todo[r] = {s} THEN "round" ELSE "settle"]
  <2>1. \A z \in Steps : Verdicts(r, z) \subseteq {"saved", "unsaved", "left", "failed"}
    BY DEF Verdicts
  <2>2. Foremost(r) \subseteq Steps
    BY DEF Foremost, IInv, PipelineTypeOK
  <2> QED BY <2>1, <2>2 DEF Record
<1>2. /\ how # "failed" => outcome[r][s] = "COMPLETED"
      /\ how # "failed" /\ HasCheckout(r, s) /\ ~stopped[r] => how \in {"saved", "unsaved"}
  BY <1>1 DEF Verdicts, Commits
<1>3. /\ pc[r] = "settle" /\ r \in Active /\ RunGood(r) /\ s \in todo[r] /\ s \in Steps
      /\ s \in batch[r] /\ row[r][s] = "RUNNING"
      /\ \A d \in DependsOn[s] : row[r][d] = "PASSED" /\ d # s /\ d \in Steps
  <2>1. pc[r] = "settle" /\ r \in Active /\ RunGood(r) /\ s \in todo[r]
    BY <1>1 DEF Record, Foremost, Active, IInv
  <2>2. s \in Steps /\ s \in batch[r] /\ row[r][s] = "RUNNING"
    BY <2>1 DEF IInv, PipelineTypeOK, RunGood, Rows
  <2>3. \A d \in DependsOn[s] : row[r][d] = "PASSED" /\ d # s /\ d \in Steps
    BY <2>1, <2>2, PipelineAssumption DEF RunGood, Rows
  <2> QED BY <2>1, <2>2, <2>3
<1> DEFINE word == IF how # "failed" THEN "PASSED"
                   ELSE IF stopped[r] THEN "CANCELLED" ELSE "FAILED"
           tip == IF how = "saved" THEN branch[r][s] \cup {s} ELSE branch[r][s]
           kept == IF how = "unsaved" THEN unsaved[r] \cup {s} ELSE unsaved[r]
<1>4. /\ row \in [Runs -> [Steps -> StepTerminal \cup {"PENDING", "RUNNING"}]]
      /\ branch \in [Runs -> [Steps -> SUBSET Steps]] /\ unsaved \in [Runs -> SUBSET Steps]
      /\ outcome \in [Runs -> [Steps -> {"COMPLETED", "FAILED", None}]]
      /\ todo \in [Runs -> SUBSET Steps] /\ pc \in [Runs -> Places]
  BY DEF IInv, PipelineTypeOK
<1>5. /\ word \in RunTerminal
      /\ word = "PASSED" => outcome[r][s] = "COMPLETED"
      /\ word = "CANCELLED" => stopped[r]
  BY <1>2 DEF RunTerminal
<1>6. /\ tip \in SUBSET Steps /\ branch[r][s] \subseteq tip
      /\ kept \in SUBSET Steps /\ unsaved[r] \subseteq kept
      /\ word = "PASSED" /\ HasCheckout(r, s) /\ ~stopped[r] => s \in tip \cup kept
  <2>1. branch[r][s] \in SUBSET Steps /\ unsaved[r] \in SUBSET Steps
    BY <1>3, <1>4
  <2>2. word = "PASSED" <=> how # "failed"
    OBVIOUS
  <2> QED BY <1>2, <1>3, <2>1, <2>2
<1>7. /\ row' = [row EXCEPT ![r][s] = word] /\ branch' = [branch EXCEPT ![r][s] = tip]
      /\ unsaved' = [unsaved EXCEPT ![r] = kept]
  BY <1>1, <1>3, <1>4
<1> HIDE DEF word, tip, kept
<1>8. PipelineTypeOK'
  <2>1. row' \in [Runs -> [Steps -> StepTerminal \cup {"PENDING", "RUNNING"}]]
    BY <1>3, <1>4, <1>5, <1>7 DEF StepTerminal
  <2>2. branch' \in [Runs -> [Steps -> SUBSET Steps]] /\ unsaved' \in [Runs -> SUBSET Steps]
    BY <1>3, <1>4, <1>6, <1>7
  <2>3. /\ outcome' \in [Runs -> [Steps -> {"COMPLETED", "FAILED", None}]]
        /\ todo' \in [Runs -> SUBSET Steps] /\ pc' \in [Runs -> Places]
    BY <1>1, <1>3, <1>4 DEF Places
  <2> QED BY <2>1, <2>2, <2>3 DEF IInv, PipelineTypeOK, Record
<1>9. /\ row'[r][s] = word /\ branch'[r][s] = tip /\ outcome'[r][s] = None
      /\ todo'[r] = todo[r] \ {s} /\ unsaved'[r] = kept
      /\ pc'[r] = IF todo[r] = {s} THEN "round" ELSE "settle"
      /\ \A z \in Steps : z # s => /\ row'[r][z] = row[r][z]
                                   /\ branch'[r][z] = branch[r][z]
                                   /\ outcome'[r][z] = outcome[r][z]
      /\ \A q \in Runs : q # r =>
           /\ row'[q] = row[q] /\ branch'[q] = branch[q] /\ outcome'[q] = outcome[q]
           /\ todo'[q] = todo[q] /\ pc'[q] = pc[q] /\ unsaved'[q] = unsaved[q]
      /\ UNCHANGED <<run, tries, fleet, batch, going, agent, lost, reason, stopped, asked,
                     cancels, trouble, mishaps>>
  BY <1>1, <1>3, <1>4, <1>7 DEF Record
<1>10. ASSUME NEW q \in Runs, q # r PROVE RunGood(q)'
  <2>1. RunGood(q)
    BY DEF IInv
  <2> QED BY <1>9, <1>10, <2>1, Untouched
<1>11. r \in Active /\ (r \in Active)'
  BY <1>3, <1>9 DEF Active
<1>12. Fresh(r)' /\ Stops(r)'
  BY <1>3, <1>9, <1>11 DEF RunGood, Fresh, Stops
<1>13. Rows(r)'
  <2>1. todo'[r] \subseteq batch'[r] /\ (pc'[r] = "round" => todo'[r] = {})
    BY <1>3, <1>9 DEF RunGood, Rows
  <2>2. ASSUME NEW z \in Steps
        PROVE  /\ z \notin batch'[r] => row'[r][z] \in {"PENDING", "PASSED"}
               /\ z \in batch'[r] =>
                    IF pc'[r] \in {"settle", "round"} /\ z \notin todo'[r]
                    THEN row'[r][z] \in RunTerminal
                    ELSE row'[r][z] = "RUNNING"
               /\ row'[r][z] = "CANCELLED" => stopped'[r]
               /\ row'[r][z] = "PENDING" => tries'[r][z] = 0
    BY <1>3, <1>5, <1>9, <1>11 DEF RunGood, Rows, RunTerminal
  <2>3. ASSUME NEW z \in Steps, row'[r][z] # "PENDING", NEW d \in DependsOn[z]
        PROVE  row'[r][d] = "PASSED"
    <3>1. row[r][z] # "PENDING" /\ d \in Steps
      BY <1>3, <1>9, <2>3, PipelineAssumption
    <3>2. row[r][d] = "PASSED" /\ d # s
      BY <1>3, <1>11, <3>1 DEF RunGood, Rows
    <3> QED BY <1>9, <3>1, <3>2
  <2> QED BY <2>1, <2>2, <2>3 DEF Rows
<1>14. ASSUME NEW z \in Steps, row[r][z] # "PENDING", Chained(r, z)
       PROVE  Chained(r, z)'
  <2>1. ASSUME NEW d \in DependsOn[z] PROVE d \in Steps /\ branch'[r][d] = branch[r][d]
    BY <1>3, <1>9, <1>11, <1>14, PipelineAssumption DEF RunGood, Rows
  <2>2. branch[r][z] \subseteq branch'[r][z] /\ unsaved[r] \subseteq unsaved'[r]
    BY <1>6, <1>9
  <2> QED BY <1>9, <1>14, <2>1, <2>2 DEF Chained, HasCheckout
<1>15. Prepared(r)'
  BY <1>3, <1>9, <1>11, <1>14, PipelineAssumption DEF RunGood, Stops, Prepared, HasCheckout
<1>16. Committed(r)'
  <2>1. ASSUME NEW z \in Steps, ~stopped[r], row'[r][z] = "PASSED", HasCheckout(r, z)
        PROVE  Chained(r, z)' /\ z \in branch'[r][z] \cup unsaved'[r]
    <3>1. CASE z = s
      BY <1>3, <1>5, <1>6, <1>9, <1>14, <2>1, <3>1 DEF RunGood, Prepared
    <3>2. CASE z # s
      BY <1>3, <1>6, <1>9, <1>11, <1>14, <2>1, <3>2 DEF RunGood, Committed
    <3> QED BY <3>1, <3>2
  <2> QED BY <1>9, <2>1 DEF Committed, HasCheckout
<1>17. Ended(r)'
  BY <1>3, <1>9, <1>11, PipelineAssumption
  DEF RunGood, Ended, Stops, Delivered, RunTerminal
<1> QED BY <1>8, <1>10, <1>12, <1>13, <1>15, <1>16, <1>17 DEF IInv, RunGood

LEMMA CancelLeftBehindGood ==
  ASSUME IInv, NEW r \in Runs, CancelLeftBehind(r) PROVE IInv'
<1> DEFINE now == [s \in Steps |-> IF row[r][s] \in StepTerminal THEN row[r][s]
                                   ELSE "CANCELLED"]
<1>1. now \in [Steps -> StepTerminal]
  BY DEF StepTerminal, RunTerminal
<1>2. row' = [row EXCEPT ![r] = now]
  BY DEF CancelLeftBehind
<1> HIDE DEF now
<1>3. PipelineTypeOK'
  BY <1>1, <1>2 DEF IInv, PipelineTypeOK, CancelLeftBehind, RunTerminal
<1>4. ASSUME NEW q \in Runs, q # r PROVE RunGood(q)'
  <2>1. run'[q] = run[q] /\ row'[q] = row[q] /\ cancels'[q] = cancels[q]
    BY <1>2, <1>4 DEF IInv, PipelineTypeOK, CancelLeftBehind
  <2>2. RunGood(q)
    BY DEF IInv
  <2>3. UNCHANGED <<agent, reason, tries, pc, fleet, batch, todo, going,
                    outcome, branch, lost, unsaved, stopped, trouble>>
    BY DEF CancelLeftBehind
  <2> QED BY <2>1, <2>2, <2>3, Untouched
<1>5. /\ RunGood(r) /\ r \notin Active /\ run[r] = "RUNNING" /\ run'[r] = "CANCELLED"
      /\ row'[r] = now /\ cancels'[r] = TRUE
  BY <1>2 DEF IInv, PipelineTypeOK, CancelLeftBehind
<1>6. Fresh(r)' /\ Stops(r)' /\ Rows(r)' /\ Prepared(r)' /\ Committed(r)'
  BY <1>5, PipelineAssumption DEF CancelLeftBehind, RunGood, Fresh, Stops, Rows, Prepared,
     Committed, Active
<1>7. Ended(r)'
  BY <1>1, <1>5 DEF CancelLeftBehind, RunGood, Stops, Ended, Delivered, Active
<1> QED BY <1>3, <1>4, <1>6, <1>7 DEF IInv, RunGood

LEMMA CancelPipelineGood ==
  ASSUME IInv, NEW r \in Runs, CancelPipeline(r) PROVE IInv'
<1> DEFINE told == [s \in Steps |-> IF agent[r][s] = "none" THEN "none" ELSE "stopping"]
<1>1. told \in [Steps -> Agents] /\ \A s \in Steps : told[s] # "none" => agent[r][s] # "none"
  BY DEF Agents
<1>2. agent' = [agent EXCEPT ![r] = told]
  BY DEF CancelPipeline
<1> HIDE DEF told
<1>3. PipelineTypeOK'
  <2>1. /\ agent' \in [Runs -> [Steps -> Agents]] /\ reason' \in [Runs -> BOOLEAN]
        /\ cancels' \in [Runs -> BOOLEAN]
    BY <1>1, <1>2 DEF IInv, PipelineTypeOK, CancelPipeline
  <2>2. asked' \in [Runs -> {None} \cup SUBSET Steps]
    <3>1. Working(r) \subseteq Steps
      BY DEF Working
    <3> QED BY <3>1 DEF CancelPipeline, IInv, PipelineTypeOK
  <2> QED BY <2>1, <2>2 DEF IInv, PipelineTypeOK, CancelPipeline
<1>4. ASSUME NEW q \in Runs, q # r PROVE RunGood(q)'
  <2>1. agent'[q] = agent[q] /\ reason'[q] = reason[q] /\ cancels'[q] = cancels[q]
    BY <1>2, <1>4 DEF IInv, PipelineTypeOK, CancelPipeline
  <2>2. RunGood(q)
    BY DEF IInv
  <2>3. UNCHANGED <<run, row, tries, pc, fleet, batch, todo, going,
                    outcome, branch, lost, unsaved, stopped, trouble>>
    BY DEF CancelPipeline
  <2> QED BY <2>1, <2>2, <2>3, Untouched
<1>5. /\ RunGood(r) /\ r \in Active /\ run[r] = "RUNNING" /\ agent'[r] = told
      /\ reason'[r] = TRUE /\ cancels'[r] = TRUE
  BY <1>2 DEF IInv, PipelineTypeOK, CancelPipeline
<1>6. Fresh(r)' /\ Stops(r)' /\ Rows(r)'
  BY <1>1, <1>5 DEF CancelPipeline, RunGood, Fresh, Stops, Rows, Active
<1>7. Prepared(r)' /\ Committed(r)'
  BY <1>1, <1>5
  DEF CancelPipeline, RunGood, Prepared, Committed, Active, HasCheckout, Chained
<1>8. Ended(r)'
  BY <1>1, <1>5, PipelineAssumption
  DEF CancelPipeline, RunGood, Ended, Delivered, Active, RunTerminal
<1> QED BY <1>3, <1>4, <1>6, <1>7, <1>8 DEF IInv, RunGood

LEMMA CancelReturnsGood ==
  ASSUME IInv, NEW r \in Runs, CancelReturns(r) PROVE IInv'
<1>1. PipelineTypeOK'
  BY DEF IInv, PipelineTypeOK, CancelReturns
<1>2. ASSUME NEW q \in Runs PROVE RunGood(q)'
  BY Untouched DEF IInv, PipelineTypeOK, CancelReturns
<1> QED BY <1>1, <1>2 DEF IInv

\* What may begin: nothing behind a cancellation, nothing that has completed,
\* nothing once a step did not pass.
LEMMA BeginningGood ==
  ASSUME IInv, NEW r \in Runs, NEW s \in Beginning(r)
  PROVE  /\ s \in Steps /\ tries[r][s] <= Retries[s] /\ ~reason[r]
         /\ outcome[r][s] # "COMPLETED" /\ row[r][s] # "PASSED"
         /\ \A d \in Steps : row[r][d] \notin {"FAILED", "SKIPPED", "CANCELLED"}
<1>1. RunGood(r) /\ batch[r] \in SUBSET Steps
  BY DEF IInv, PipelineTypeOK
<1>2. CASE pc[r] = "round" /\ Closing(r) = None
  <2>1. /\ ~stopped[r] /\ ~reason[r] /\ \A z \in batch[r] : row[r][z] = "PASSED"
    BY <1>2, PipelineAssumption DEF Closing
  <2>2. s \in Steps /\ row[r][s] = "PENDING"
    BY <1>2 DEF Beginning, FirstOf, Ready
  <2>3. \A d \in Steps : row[r][d] \in {"PENDING", "PASSED"}
    BY <1>1, <1>2, <2>1 DEF RunGood, Rows, Active
  <2>4. tries[r][s] = 0 /\ outcome[r][s] # "COMPLETED"
    BY <1>1, <1>2, <2>2 DEF RunGood, Rows, Prepared, Active
  <2> QED BY <2>1, <2>2, <2>3, <2>4, PipelineAssumption
<1>3. CASE pc[r] \in {"agents", "wait"} /\ ~reason[r] /\ s \in Retrying(r)
  <2>1. /\ s \in batch[r] /\ outcome[r][s] # "COMPLETED" /\ tries[r][s] <= Retries[s]
    BY <1>3 DEF Retrying
  <2>2. \A d \in Steps : row[r][d] \in {"PENDING", "RUNNING", "PASSED"}
    BY <1>1, <1>3 DEF RunGood, Rows, Active
  <2>3. row[r][s] = "RUNNING"
    BY <1>1, <1>3, <2>1 DEF RunGood, Rows, Active
  <2> QED BY <1>1, <1>3, <2>1, <2>2, <2>3
<1> QED BY <1>2, <1>3 DEF Beginning

LEMMA BreaksGood == ASSUME IInv, NEW r \in Runs, Breaks(r) PROVE IInv'
<1>1. PICK done \in SUBSET (Remaining(r) \cup Beginning(r)) :
        /\ tries' = [tries EXCEPT ![r] = [s \in Steps |->
                       IF s \in done \cap Beginning(r) THEN @[s] + 1 ELSE @[s]]]
        /\ \/ /\ row' = [row EXCEPT ![r] = Failing(Written(r, done))]
              /\ run' = [run EXCEPT ![r] = "FAILED"]
              /\ UNCHANGED trouble
           \/ /\ \/ row' = [row EXCEPT ![r] = Failing(Written(r, done))]
                 \/ row' = [row EXCEPT ![r] = Written(r, done)]
              /\ trouble' = [trouble EXCEPT ![r] = @ \cup {"refused"}]
              /\ UNCHANGED run
  BY DEF Breaks
<1> DEFINE written == Written(r, done)
           failed == Failing(written)
<1>2. written \in [Steps -> StepTerminal \cup {"PENDING", "RUNNING"}]
  <2>1. row[r] \in [Steps -> StepTerminal \cup {"PENDING", "RUNNING"}]
    BY DEF IInv, PipelineTypeOK
  <2>2. Remaining(r) # {} => Closing(r) \in StepTerminal
    BY DEF Remaining
  <2> QED BY <2>1, <2>2 DEF Written
<1>3. failed \in [Steps -> StepTerminal]
  BY <1>2 DEF Failing, StepTerminal, RunTerminal
<1> DEFINE more == [s \in Steps |-> IF s \in done \cap Beginning(r) THEN tries[r][s] + 1
                                  ELSE tries[r][s]]
<1>4. /\ \E rows \in {written, failed} : row' = [row EXCEPT ![r] = rows]
      /\ \/ /\ row' = [row EXCEPT ![r] = failed] /\ run' = [run EXCEPT ![r] = "FAILED"]
            /\ trouble' = trouble
         \/ run' = run /\ trouble' = [trouble EXCEPT ![r] = @ \cup {"refused"}]
      /\ tries' = [tries EXCEPT ![r] = more]
  BY <1>1
<1>5. more \in [Steps -> Nat] /\ \A s \in Steps : more[s] <= Retries[s] + 1
  <2>1. tries[r] \in [Steps -> Nat] /\ \A s \in Steps : tries[r][s] <= Retries[s] + 1
    BY DEF IInv, PipelineTypeOK
  <2>2. \A s \in Beginning(r) : tries[r][s] <= Retries[s]
    BY BeginningGood
  <2> QED BY <2>1, <2>2, PipelineAssumption
<1> HIDE DEF written, failed, more
<1>6. /\ row' \in [Runs -> [Steps -> StepTerminal \cup {"PENDING", "RUNNING"}]]
      /\ \A q \in Runs : q # r => row'[q] = row[q]
  BY <1>2, <1>3, <1>4 DEF IInv, PipelineTypeOK
<1>7. /\ run' \in [Runs -> RunTerminal \cup {"RUNNING", None}]
      /\ trouble' \in [Runs -> SUBSET Troubles]
      /\ \A q \in Runs : q # r => run'[q] = run[q] /\ trouble'[q] = trouble[q]
  <2>1. /\ run \in [Runs -> RunTerminal \cup {"RUNNING", None}]
        /\ trouble \in [Runs -> SUBSET Troubles]
    BY DEF IInv, PipelineTypeOK
  <2>2. CASE run' = [run EXCEPT ![r] = "FAILED"] /\ trouble' = trouble
    BY <2>1, <2>2 DEF RunTerminal
  <2>3. CASE run' = run /\ trouble' = [trouble EXCEPT ![r] = @ \cup {"refused"}]
    BY <2>1, <2>3 DEF Troubles
  <2> QED BY <1>4, <2>2, <2>3
<1>8. /\ tries' \in [Runs -> [Steps -> Nat]]
      /\ \A q \in Runs, s \in Steps : tries'[q][s] <= Retries[s] + 1
      /\ \A q \in Runs : q # r => tries'[q] = tries[q]
  BY <1>4, <1>5 DEF IInv, PipelineTypeOK
<1>9. PipelineTypeOK'
  <2>1. mishaps' \in 0..MaxMishaps
    BY PipelineAssumption DEF IInv, PipelineTypeOK, Breaks
  <2> QED BY <1>6, <1>7, <1>8, <2>1 DEF IInv, PipelineTypeOK, Breaks, Places
<1>10. ASSUME NEW q \in Runs, q # r PROVE RunGood(q)'
  <2>1. /\ pc'[q] = pc[q] /\ batch'[q] = batch[q] /\ todo'[q] = todo[q]
        /\ outcome'[q] = outcome[q] /\ reason'[q] = reason[q]
        /\ stopped'[q] = stopped[q] /\ going'[q] = going[q]
    BY <1>10 DEF IInv, PipelineTypeOK, Breaks
  <2>2. RunGood(q) /\ UNCHANGED <<fleet, agent, branch, lost, unsaved, cancels>>
    BY DEF IInv, Breaks
  <2> QED BY <1>6, <1>7, <1>8, <1>10, <2>1, <2>2, Untouched
<1>11. /\ RunGood(r) /\ r \in Active /\ pc'[r] = "over" /\ todo'[r] = {}
       /\ going'[r] = {} /\ stopped'[r] = FALSE /\ reason'[r] = FALSE /\ agent' = agent
       /\ outcome'[r] = [s \in Steps |-> None]
  BY DEF IInv, PipelineTypeOK, Breaks
<1>12. \A s \in Steps : agent[r][s] = "none"
  BY <1>11 DEF Breaks, Yields, Working, RunGood, Stops
<1>13. /\ Fresh(r)' /\ Stops(r)' /\ Rows(r)' /\ Prepared(r)' /\ Committed(r)'
  BY <1>11, <1>12, PipelineAssumption
  DEF Fresh, Stops, Rows, Prepared, Committed, Active
<1>14. Ended(r)'
  <2>1. run[r] = "RUNNING"
    BY <1>11 DEF RunGood, Stops
  <2>2. CASE row' = [row EXCEPT ![r] = failed] /\ run' = [run EXCEPT ![r] = "FAILED"]
    <3>1. row'[r] = failed /\ run'[r] = "FAILED"
      BY <2>2 DEF IInv, PipelineTypeOK
    <3> QED BY <1>3, <1>11, <1>12, <3>1 DEF Ended, Delivered
  <2>3. CASE run' = run /\ trouble' = [trouble EXCEPT ![r] = @ \cup {"refused"}]
    <3>1. run'[r] = "RUNNING" /\ "refused" \in trouble'[r]
      BY <2>1, <2>3 DEF IInv, PipelineTypeOK
    <3> QED BY <3>1 DEF Ended, Delivered, RunTerminal
  <2> QED BY <1>4, <2>2, <2>3
<1> QED BY <1>9, <1>10, <1>13, <1>14 DEF IInv, RunGood

LEMMA RestartGood == ASSUME IInv, Restart PROVE IInv'
<1>1. /\ row \in [Runs -> [Steps -> StepTerminal \cup {"PENDING", "RUNNING"}]]
      /\ run \in [Runs -> RunTerminal \cup {"RUNNING", None}]
      /\ pc \in [Runs -> Places]
      /\ mishaps \in 0..MaxMishaps /\ mishaps < MaxMishaps /\ mishaps' = mishaps + 1
      /\ mishaps' \in 0..MaxMishaps /\ mishaps' > 0
  BY PipelineAssumption DEF IInv, PipelineTypeOK, Restart
<1>2. row' \in [Runs -> [Steps -> StepTerminal \cup {"PENDING", "RUNNING"}]]
  BY <1>1 DEF Restart, StepTerminal, RunTerminal
<1>3. /\ run' \in [Runs -> RunTerminal \cup {"RUNNING", None}]
      /\ pc' \in [Runs -> Places] /\ agent' \in [Runs -> [Steps -> Agents]]
      /\ outcome' \in [Runs -> [Steps -> {"COMPLETED", "FAILED", None}]]
      /\ batch' \in [Runs -> SUBSET Steps] /\ todo' \in [Runs -> SUBSET Steps]
      /\ going' \in [Runs -> SUBSET Steps]
      /\ reason' \in [Runs -> BOOLEAN] /\ stopped' \in [Runs -> BOOLEAN]
      /\ asked' \in [Runs -> {None} \cup SUBSET Steps]
  BY <1>1 DEF Restart, RunTerminal, Places, Agents
<1>4. PipelineTypeOK'
  <2>1. trouble' \in [Runs -> SUBSET Troubles]
    BY DEF IInv, PipelineTypeOK, Restart, Troubles
  <2> QED BY <1>1, <1>2, <1>3, <2>1 DEF IInv, PipelineTypeOK, Restart
<1>5. ASSUME NEW r \in Runs PROVE RunGood(r)'
  <2>1. /\ RunGood(r) /\ pc'[r] = IF pc[r] = "idle" THEN "idle" ELSE "over"
        /\ batch'[r] = {} /\ todo'[r] = {} /\ going'[r] = {}
        /\ reason'[r] = FALSE /\ stopped'[r] = FALSE
        /\ \A s \in Steps : agent'[r][s] = "none" /\ outcome'[r][s] = None
        /\ UNCHANGED <<tries, fleet, branch, lost, unsaved, cancels>>
        /\ trouble'[r] = IF run[r] = "RUNNING" THEN trouble[r] \cup {"restart"} ELSE trouble[r]
    BY DEF IInv, Restart
  <2>2. CASE run[r] = "RUNNING"
    <3>1. /\ run'[r] = "CANCELLED" /\ pc[r] \notin {"idle", "opening"}
          /\ \A s \in Steps : row'[r][s] \in StepTerminal
          /\ "restart" \in trouble'[r]
      BY <1>1, <2>1, <2>2, PipelineAssumption
      DEF Restart, RunGood, Fresh, StepTerminal, RunTerminal
    <3> QED BY <1>1, <2>1, <3>1, PipelineAssumption
        DEF RunGood, Fresh, Stops, Rows, Prepared, Committed, Ended, Delivered, Active
  <2>3. CASE run[r] # "RUNNING"
    <3>1. run'[r] = run[r] /\ \A s \in Steps : row'[r][s] = row[r][s]
      BY <1>1, <2>3 DEF Restart
    <3>2. Fresh(r)' /\ Stops(r)' /\ Rows(r)' /\ Prepared(r)' /\ Committed(r)'
      BY <2>1, <3>1, PipelineAssumption
      DEF RunGood, Fresh, Stops, Rows, Prepared, Committed, Active
    <3>3. Ended(r)'
      BY <1>1, <2>1, <2>3, <3>1 DEF RunGood, Ended, Delivered, HasCheckout, Chained
    <3> QED BY <3>2, <3>3 DEF RunGood
  <2> QED BY <2>2, <2>3
<1> QED BY <1>4, <1>5 DEF IInv

LEMMA NextGood == ASSUME IInv, [Next]_vars PROVE IInv'
<1>1. CASE UNCHANGED vars
  <2>1. PipelineTypeOK'
    BY <1>1 DEF IInv, PipelineTypeOK, vars
  <2>2. ASSUME NEW r \in Runs PROVE RunGood(r)'
    <3>1. RunGood(r)
      BY DEF IInv
    <3> QED BY <1>1, <3>1, Untouched DEF vars
  <2> QED BY <2>1, <2>2 DEF IInv
<1>2. ASSUME NEW r \in Runs, EngineStep(r) PROVE IInv'
  BY <1>2, OpenedGood, RoundGood, ProvisionGood, StartAgentsGood, AnsweredGood,
     WaitedGood, RecordGood DEF EngineStep
<1> QED BY <1>1, <1>2, StartGood, CancelPipelineGood, CancelLeftBehindGood,
           CancelReturnsGood, OpenBreaksGood, BreaksGood, AgentEndsGood, RestartGood
    DEF Next

-----------------------------------------------------------------------------
\* The types hold, and no step is tried more often than its retries allow, for
\* any pipeline: dispatchWithRetries.
THEOREM TypesAlwaysOK == Spec => []PipelineTypeOK
<1>1. IInv => PipelineTypeOK
  BY DEF IInv
<1> QED BY <1>1, InitGood, NextGood, PTL DEF Spec

\* For any graph without a cycle: no agent is given a branch that lacks part of
\* the work its step depends on, and a run that passed uncancelled has delivered
\* (provisionStep, settleStep).
THEOREM InputIsAlwaysWhole == Spec => []InputIsWhole
<1>1. ASSUME IInv PROVE InputIsWhole
  <2>1. ASSUME NEW r \in Runs, NEW s \in Steps, agent[r][s] # "none"
        PROVE  /\ \A d \in DependsOn[s] : row[r][d] = "PASSED"
               /\ HasCheckout(r, s) => Chained(r, s)
    BY <1>1, <2>1 DEF IInv, RunGood, Prepared, Rows
  <2>2. ASSUME NEW r \in Runs PROVE Delivered(r) \/ cancels[r]
    BY <1>1 DEF IInv, RunGood, Ended
  <2> QED BY <2>1, <2>2 DEF InputIsWhole
<1> QED BY <1>1, InitGood, NextGood, PTL DEF Spec

\* The row of a run agrees with the rows of its steps at every moment, and with
\* whether anything still works on it (settleRemaining, finish, recoverRuns).
THEOREM RunAlwaysTellsSteps == Spec => []RunTellsSteps
<1>1. ASSUME IInv PROVE RunTellsSteps
  BY <1>1 DEF IInv, RunGood, Ended, RunTellsSteps
<1> QED BY <1>1, InitGood, NextGood, PTL DEF Spec

\* No attempt begins behind a cancellation, beside an agent at work, of a step that
\* has completed, or once a step has been recorded as anything but passed
\* (dispatchWithRetries, execute).
THEOREM NothingMoreIsEverTried == Spec => NothingMoreIsTried
<1> DEFINE Allowed(r, s) ==
             /\ ~reason[r] /\ Working(r) = {}
             /\ outcome[r][s] # "COMPLETED" /\ row[r][s] # "PASSED"
             /\ \A d \in Steps : row[r][d] \notin {"FAILED", "SKIPPED", "CANCELLED"}
           Tries == \A r \in Runs, s \in Steps : tries'[r][s] # tries[r][s] => Allowed(r, s)
<1>1. ASSUME IInv, [Next]_vars PROVE [Tries]_vars
  <2>1. ASSUME NEW r \in Runs, NEW s \in Steps, tries'[r][s] # tries[r][s]
        PROVE  Allowed(r, s)
    <3>1. tries' # tries
      BY <2>1
    <3>2. PICK q \in Runs : Round(q) \/ Answered(q) \/ Waited(q) \/ Breaks(q)
      BY <1>1, <3>1 DEF Next, vars, EngineStep, Start, Opened, OpenBreaks, Provision,
         StartAgents, Record, CancelPipeline, CancelLeftBehind, CancelReturns, AgentEnds,
         Restart
    <3>3. RunGood(q) /\ tries \in [Runs -> [Steps -> Nat]]
      BY <1>1 DEF IInv, PipelineTypeOK
    <3>4. q = r /\ s \in Beginning(r) /\ Working(r) = {}
      <4>1. CASE Round(q)
        <5>1. /\ pc[q] = "round" /\ Closing(q) = None /\ Dispatch(q, FirstOf(Ready(q)))
          BY <3>1, <4>1 DEF Round, Finish
        <5>2. q = r /\ s \in FirstOf(Ready(q))
          BY <2>1, <3>3, <5>1 DEF Dispatch
        <5>3. Working(q) = {}
          BY <3>3, <5>1 DEF RunGood, Stops, Working
        <5> QED BY <5>1, <5>2, <5>3 DEF Beginning
      <4>2. CASE Answered(q) \/ Waited(q)
        <5>1. pc[q] \in {"agents", "wait"} /\ ~reason[q] /\ Dispatch(q, Retrying(q))
          BY <3>1, <4>2 DEF Answered, Waited
        <5>2. q = r /\ s \in Retrying(q)
          BY <2>1, <3>3, <5>1 DEF Dispatch
        <5>3. Working(q) = {}
          BY <3>3, <4>2 DEF RunGood, Stops, Working, Answered, Waited
        <5> QED BY <5>1, <5>2, <5>3 DEF Beginning
      <4>3. CASE Breaks(q)
        <5>1. PICK done \in SUBSET (Remaining(q) \cup Beginning(q)) :
                tries' = [tries EXCEPT ![q] = [z \in Steps |->
                            IF z \in done \cap Beginning(q) THEN @[z] + 1 ELSE @[z]]]
          BY <4>3 DEF Breaks
        <5>2. q = r /\ s \in Beginning(q)
          BY <2>1, <3>3, <5>1
        <5>3. Working(q) = {}
          BY <3>3, <4>3 DEF RunGood, Stops, Working, Breaks, Yields
        <5> QED BY <5>2, <5>3
      <4> QED BY <3>2, <4>1, <4>2, <4>3
    <3> QED BY <1>1, <3>4, BeginningGood
  <2> QED BY <2>1
<1> QED BY <1>1, InitGood, NextGood, PTL DEF Spec, NothingMoreIsTried

=============================================================================

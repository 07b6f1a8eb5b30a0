------------------------------ MODULE Pipeline ------------------------------
(***************************************************************************)
(* Pipelines: PipelineEngine.ts, with the part of WorktreeFleetService.ts  *)
(* that decides what code a step is given.  A pipeline is a graph of       *)
(* steps; a run hands every ready step to a delegated agent, in batches,   *)
(* each in a checkout chained from the steps it depends on, retries what   *)
(* failed, commits what passed, and stops at the first batch that did not  *)
(* pass.  A run is one asynchronous function, modelled by where it is:     *)
(*   opening    openFleet resolves the base commit                         *)
(*   round      at the top of the loop, or behind a recorded batch         *)
(*   provision  the checkouts in "todo" are still to be made               *)
(*   agents     the batch is delegated                                     *)
(*   wait       between two attempts                                       *)
(*   settle     the steps in "todo" are still to be committed and recorded *)
(*   stuck      it is in the map and its function has thrown               *)
(* Agents are AgentDelegationService seen from here: a child ends, and     *)
(* cancelAllDelegations returns once those it found have ended.            *)
(*                                                                         *)
(* A name with an underscore is a bug for the mutants.                     *)
(***************************************************************************)
EXTENDS Naturals, FiniteSets

CONSTANTS
  Runs,         \* the runs of one pipeline
  Steps,        \* its steps
  Rank,         \* step |-> its place in topologicalPipelineOrder
  DependsOn,    \* step |-> the steps it depends on
  Retries,      \* step |-> how often it may be tried again
  Isolated,     \* the steps that do not opt out of a checkout
  MaxParallel,  \* PIPELINE_MAX_PARALLEL_STEPS
  MaxMishaps,   \* bound on refused writes and restarts
  None

\* A definition that is saved has no cycle: in every set of steps there is one
\* that depends on none of the others.
ASSUME PipelineAssumption ==
  /\ Isolated \subseteq Steps /\ MaxParallel \in Nat \ {0} /\ MaxMishaps \in Nat
  /\ DependsOn \in [Steps -> SUBSET Steps] /\ Retries \in [Steps -> Nat]
  /\ Rank \in [Steps -> Nat] /\ \A s, z \in Steps : Rank[s] = Rank[z] => s = z
  /\ \A S \in SUBSET Steps : S # {} => \E s \in S : DependsOn[s] \cap S = {}
  /\ None \notin {"PENDING", "RUNNING", "PASSED", "FAILED", "CANCELLED", "SKIPPED",
                "COMPLETED"}

VARIABLES
  run,      \* row: status of the run, None before it is inserted
  row,      \* rows: status of its steps
  tries,    \* rows: attempts
  pc,       \* where the run is
  fleet,    \* it has a repository and a base commit to work from
  batch,    \* the steps being run
  todo,     \* the steps of the batch the run has still to go through
  going,    \* the steps of this dispatch that can be delegated
  agent,    \* step |-> its delegated child
  outcome,  \* step |-> how its last attempt ended
  branch,   \* step |-> the steps whose work is on its branch
  lost,     \* step |-> the steps it was to be chained from that git did not find
  unsaved,  \* the steps whose work git took for none
  reason,   \* cancelReason is set
  stopped,  \* cancelReason as it was when the batch had ended
  asked,    \* the children a cancellation waits for, None when there is none
  cancels,  \* the run has been cancelled by somebody
  trouble,  \* what kept the run from its own end
  mishaps

vars == <<run, row, tries, pc, fleet, batch, todo, going, agent, outcome, branch, lost,
          unsaved, reason, stopped, asked, cancels, trouble, mishaps>>

RunTerminal == {"PASSED", "FAILED", "CANCELLED"}
StepTerminal == RunTerminal \cup {"SKIPPED"}
Places == {"idle", "opening", "round", "provision", "agents", "wait", "settle", "stuck",
           "over"}
Troubles == {"opening", "refused", "restart"}
Agents == {"none", "running", "stopping"}

Init ==
  /\ run = [r \in Runs |-> None]
  /\ row = [r \in Runs |-> [s \in Steps |-> "PENDING"]]
  /\ tries = [r \in Runs |-> [s \in Steps |-> 0]]
  /\ pc = [r \in Runs |-> "idle"]
  /\ fleet = [r \in Runs |-> FALSE]
  /\ batch = [r \in Runs |-> {}]
  /\ todo = [r \in Runs |-> {}]
  /\ going = [r \in Runs |-> {}]
  /\ agent = [r \in Runs |-> [s \in Steps |-> "none"]]
  /\ outcome = [r \in Runs |-> [s \in Steps |-> None]]
  /\ branch = [r \in Runs |-> [s \in Steps |-> {}]]
  /\ lost = [r \in Runs |-> [s \in Steps |-> {}]]
  /\ unsaved = [r \in Runs |-> {}]
  /\ reason = [r \in Runs |-> FALSE]
  /\ stopped = [r \in Runs |-> FALSE]
  /\ asked = [r \in Runs |-> None]
  /\ cancels = [r \in Runs |-> FALSE]
  /\ trouble = [r \in Runs |-> {}]
  /\ mishaps = 0

-----------------------------------------------------------------------------

\* The runs in the engine's map: it is entered behind openFleet.
Active == {r \in Runs : pc[r] \notin {"idle", "opening", "over"}}
Working(r) == {s \in Steps : agent[r][s] # "none"}
HasCheckout(r, s) == fleet[r] /\ s \in Isolated

\* aggregatePipelineRunStatus.
Aggregate(statuses) ==
  IF "CANCELLED" \in statuses THEN "CANCELLED"
  ELSE IF statuses \cap {"FAILED", "SKIPPED"} # {} THEN "FAILED"
  ELSE IF statuses \cap {"RUNNING", "PENDING"} # {} THEN "RUNNING"
  ELSE "PASSED"

\* readyPipelineStepIds.
Ready(r) ==
  {s \in Steps : row[r][s] = "PENDING" /\ \A d \in DependsOn[s] : row[r][d] = "PASSED"}

\* As many of them as may run at once, in the order of the definition.
FirstOf(S) == {s \in S : Cardinality({z \in S : Rank[z] < Rank[s]}) < MaxParallel}

\* The step a loop over the batch is at.
Foremost(r) == {s \in todo[r] : \A z \in todo[r] : Rank[s] <= Rank[z]}

Retrying_offByOne(r) ==
  {s \in batch[r] : outcome[r][s] # "COMPLETED" /\ tries[r][s] <= Retries[s] + 1}

\* The failed steps of the batch that have an attempt left.
Retrying(r) ==
  {s \in batch[r] : outcome[r][s] # "COMPLETED" /\ tries[r][s] <= Retries[s]}

\* What the run would settle its remaining steps with, None when it goes on: a
\* run that was stopped, or with a step that did not pass, ends.
Closing(r) ==
  IF stopped[r] THEN "CANCELLED"
  ELSE IF \E s \in batch[r] : row[r][s] # "PASSED" THEN "SKIPPED"
  ELSE IF reason[r] THEN "CANCELLED"
  ELSE IF Ready(r) = {} THEN "PENDING"
  ELSE None

\* What recording a step waits for.
Commits(r, s) == outcome[r][s] = "COMPLETED" /\ HasCheckout(r, s) /\ ~stopped[r]

\* Where the run waits for something other than itself: only there can a
\* cancellation come in.
Yields(r) ==
  \/ pc[r] \in {"wait", "stuck"}
  \/ pc[r] = "agents" /\ Working(r) # {}
  \/ pc[r] = "provision" /\ todo[r] # {}
  \/ pc[r] = "settle" /\ \E s \in Foremost(r) : Commits(r, s)

-----------------------------------------------------------------------------
(* runPipeline and execute.                                                *)

\* Another run of the pipeline is refused while one is in the map.
Start(r) ==
  /\ pc[r] = "idle" /\ Active = {}
  /\ pc' = [pc EXCEPT ![r] = "opening"]
  /\ UNCHANGED <<run, row, tries, fleet, batch, todo, going, agent, outcome, branch, lost,
                 unsaved, reason, stopped, asked, cancels, trouble, mishaps>>

\* The rows are inserted and the run is entered in the map.
Opened(r) ==
  /\ pc[r] = "opening"
  /\ \E open \in BOOLEAN : fleet' = [fleet EXCEPT ![r] = open]
  /\ run' = [run EXCEPT ![r] = "RUNNING"]
  /\ pc' = [pc EXCEPT ![r] = "round"]
  /\ UNCHANGED <<row, tries, batch, todo, going, agent, outcome, branch, lost, unsaved,
                 reason, stopped, asked, cancels, trouble, mishaps>>

\* The row of the run is refused, or that of a step behind it (a row that was
\* not written goes with those that were), or a subscriber to the start of the
\* run throws: all this is ahead of the try of runPipeline.
OpenBreaks(r) ==
  /\ pc[r] = "opening" /\ mishaps < MaxMishaps
  /\ mishaps' = mishaps + 1
  /\ trouble' = [trouble EXCEPT ![r] = @ \cup {"opening"}]
  /\ \/ pc' = [pc EXCEPT ![r] = "over"] /\ UNCHANGED run
     \/ \E place \in {"over", "stuck"} :
          /\ pc' = [pc EXCEPT ![r] = place]
          /\ run' = [run EXCEPT ![r] = "RUNNING"]
  /\ UNCHANGED <<row, tries, fleet, batch, todo, going, agent, outcome, branch, lost,
                 unsaved, reason, stopped, asked, cancels>>

Finish_pendingStay(r, rest) ==
  /\ run' = [run EXCEPT ![r] = Aggregate({row[r][s] : s \in Steps})]
  /\ pc' = [pc EXCEPT ![r] = "over"]
  /\ batch' = [batch EXCEPT ![r] = {}]
  /\ reason' = [reason EXCEPT ![r] = FALSE]
  /\ stopped' = [stopped EXCEPT ![r] = FALSE]
  /\ UNCHANGED <<row, tries, fleet, todo, going, agent, outcome, branch, lost, unsaved,
                 asked, cancels, trouble, mishaps>>

\* settleRemaining and finish; the map forgets the run.
Finish(r, rest) ==
  LET now == [s \in Steps |-> IF row[r][s] \in StepTerminal THEN row[r][s] ELSE rest]
  IN  /\ row' = [row EXCEPT ![r] = now]
      /\ run' = [run EXCEPT ![r] = Aggregate({now[s] : s \in Steps})]
      /\ pc' = [pc EXCEPT ![r] = "over"]
      /\ batch' = [batch EXCEPT ![r] = {}]
      /\ reason' = [reason EXCEPT ![r] = FALSE]
      /\ stopped' = [stopped EXCEPT ![r] = FALSE]
      /\ UNCHANGED <<tries, fleet, todo, going, agent, outcome, branch, lost, unsaved,
                     asked, cancels, trouble, mishaps>>

\* dispatch, up to its first checkout.
Dispatch(r, S) ==
  /\ row' = [row EXCEPT ![r] =
                [s \in Steps |-> IF s \in S THEN "RUNNING" ELSE @[s]]]
  /\ tries' = [tries EXCEPT ![r] =
                  [s \in Steps |-> IF s \in S THEN @[s] + 1 ELSE @[s]]]
  /\ outcome' = [outcome EXCEPT ![r] =
                    [s \in Steps |-> IF s \in S THEN None ELSE @[s]]]
  /\ todo' = [todo EXCEPT ![r] = {s \in S : HasCheckout(r, s)}]
  /\ going' = [going EXCEPT ![r] = {s \in S : ~HasCheckout(r, s)}]
  /\ pc' = [pc EXCEPT ![r] = "provision"]
  /\ UNCHANGED <<run, fleet, agent, branch, lost, unsaved, reason, asked, cancels,
                 trouble, mishaps>>

\* The run ends, or the steps that are ready now make the next batch.
Round(r) ==
  /\ pc[r] = "round"
  /\ IF Closing(r) # None THEN Finish(r, Closing(r))
     ELSE LET next == FirstOf(Ready(r))
          IN  /\ batch' = [batch EXCEPT ![r] = next]
              /\ Dispatch(r, next)
              /\ UNCHANGED stopped

\* The tips of the branches a step is chained from: those of its direct
\* dependencies that git finds.
Inherited_firstOnly(r, s, gone) ==
  UNION {branch[r][d] : d \in {x \in DependsOn[s] \ gone :
                                \A z \in DependsOn[s] \ gone : Rank[x] <= Rank[z]}}

Inherited(r, s, gone) == UNION {branch[r][d] : d \in DependsOn[s] \ gone}

\* A fresh checkout on a fresh branch, or none: its ancestors conflict, or git
\* fails, and the step fails without an agent.  A failure of git to name the tip
\* of an ancestor is not told from its having none (tipOf).
Provision(r) ==
  /\ pc[r] = "provision"
  /\ \E s \in Foremost(r), gone \in SUBSET Steps :
       /\ gone \subseteq {d \in DependsOn[s] : HasCheckout(r, d)}
       /\ todo' = [todo EXCEPT ![r] = @ \ {s}]
       /\ \/ /\ branch' = [branch EXCEPT ![r][s] = Inherited(r, s, gone)]
             /\ lost' = [lost EXCEPT ![r][s] = gone]
             /\ going' = [going EXCEPT ![r] = @ \cup {s}]
             /\ UNCHANGED outcome
          \/ /\ branch' = [branch EXCEPT ![r][s] = {}]
             /\ lost' = [lost EXCEPT ![r][s] = {}]
             /\ outcome' = [outcome EXCEPT ![r][s] = "FAILED"]
             /\ UNCHANGED going
  /\ UNCHANGED <<run, row, tries, pc, fleet, batch, agent, unsaved, reason, stopped,
                 asked, cancels, trouble, mishaps>>

\* Every step that can be is delegated, whatever has been cancelled meanwhile;
\* a refusal of the delegation service fails them all.
StartAgents(r) ==
  /\ pc[r] = "provision" /\ todo[r] = {}
  /\ pc' = [pc EXCEPT ![r] = "agents"]
  /\ going' = [going EXCEPT ![r] = {}]
  /\ \/ /\ agent' = [agent EXCEPT ![r] =
                       [s \in Steps |-> IF s \in going[r] THEN "running" ELSE @[s]]]
        /\ UNCHANGED outcome
     \/ /\ outcome' = [outcome EXCEPT ![r] =
                         [s \in Steps |-> IF s \in going[r] THEN "FAILED" ELSE @[s]]]
        /\ UNCHANGED agent
  /\ UNCHANGED <<run, row, tries, fleet, batch, todo, branch, lost, unsaved, reason,
                 stopped, asked, cancels, trouble, mishaps>>

\* A delegated child answers, fails, times out or is stopped; one that is being
\* stopped may have answered before.
AgentEnds(r, s) ==
  /\ agent[r][s] # "none"
  /\ agent' = [agent EXCEPT ![r][s] = "none"]
  /\ \E how \in {"COMPLETED", "FAILED"} : outcome' = [outcome EXCEPT ![r][s] = how]
  /\ UNCHANGED <<run, row, tries, pc, fleet, batch, todo, going, branch, lost, unsaved,
                 reason, stopped, asked, cancels, trouble, mishaps>>

\* The batch is answered, for good or to be tried again, with or without a delay.
Answered(r) ==
  /\ pc[r] = "agents" /\ Working(r) = {}
  /\ IF reason[r] \/ Retrying(r) = {}
     THEN /\ pc' = [pc EXCEPT ![r] = "settle"]
          /\ todo' = [todo EXCEPT ![r] = batch[r]]
          /\ stopped' = [stopped EXCEPT ![r] = reason[r]]
          /\ UNCHANGED <<run, row, tries, fleet, batch, going, agent, outcome, branch,
                         lost, unsaved, reason, asked, cancels, trouble, mishaps>>
     ELSE \/ /\ pc' = [pc EXCEPT ![r] = "wait"]
             /\ UNCHANGED <<run, row, tries, fleet, batch, todo, going, agent, outcome,
                            branch, lost, unsaved, reason, stopped, asked, cancels,
                            trouble, mishaps>>
          \/ Dispatch(r, Retrying(r)) /\ UNCHANGED <<batch, stopped>>

Waited_deaf(r) ==
  /\ pc[r] = "wait"
  /\ Dispatch(r, Retrying(r)) /\ UNCHANGED <<batch, stopped>>

Waited_forEver(r) ==
  /\ pc[r] = "wait" /\ ~reason[r]
  /\ Dispatch(r, Retrying(r)) /\ UNCHANGED <<batch, stopped>>

\* The delay is over, or was cut short by a cancellation.
Waited(r) ==
  /\ pc[r] = "wait"
  /\ IF reason[r]
     THEN /\ pc' = [pc EXCEPT ![r] = "settle"]
          /\ todo' = [todo EXCEPT ![r] = batch[r]]
          /\ stopped' = [stopped EXCEPT ![r] = TRUE]
          /\ UNCHANGED <<run, row, tries, fleet, batch, going, agent, outcome, branch,
                         lost, unsaved, reason, asked, cancels, trouble, mishaps>>
     ELSE Dispatch(r, Retrying(r)) /\ UNCHANGED <<batch, stopped>>

\* How the next step of the batch comes out.  Its work is committed, unless the
\* run has been stopped; work that cannot be committed has failed.  A failure of
\* git to say whether there is any is not told from there being none.
Verdicts(r, s) ==
  IF Commits(r, s) THEN {"saved", "unsaved", "failed"}
  ELSE IF outcome[r][s] = "COMPLETED" THEN {"left"} ELSE {"failed"}

\* The next step of the batch is settled and its row written.
Record(r) ==
  /\ pc[r] = "settle"
  /\ \E s \in Foremost(r) : \E how \in Verdicts(r, s) :
       /\ row' = [row EXCEPT ![r][s] =
                     IF how # "failed" THEN "PASSED"
                     ELSE IF stopped[r] THEN "CANCELLED" ELSE "FAILED"]
       /\ branch' = [branch EXCEPT ![r][s] = IF how = "saved" THEN @ \cup {s} ELSE @]
       /\ unsaved' = [unsaved EXCEPT ![r] = IF how = "unsaved" THEN @ \cup {s} ELSE @]
       /\ todo' = [todo EXCEPT ![r] = @ \ {s}]
       /\ outcome' = [outcome EXCEPT ![r][s] = None]
       /\ pc' = [pc EXCEPT ![r] = IF todo[r] = {s} THEN "round" ELSE "settle"]
  /\ UNCHANGED <<run, tries, fleet, batch, going, agent, lost, reason, stopped, asked,
                 cancels, trouble, mishaps>>

-----------------------------------------------------------------------------
(* Cancellation, refused writes and restarts.                              *)

\* A row nobody works on any more is settled where it stands.
CancelLeftBehind(r) ==
  /\ run[r] = "RUNNING" /\ r \notin Active
  /\ run' = [run EXCEPT ![r] = "CANCELLED"]
  /\ row' = [row EXCEPT ![r] = [s \in Steps |-> IF @[s] \in StepTerminal THEN @[s]
                                                ELSE "CANCELLED"]]
  /\ cancels' = [cancels EXCEPT ![r] = TRUE]
  /\ UNCHANGED <<tries, pc, fleet, batch, todo, going, agent, outcome, branch, lost,
                 unsaved, reason, stopped, asked, trouble, mishaps>>

\* The reason is set, what runs is stopped and waited for.
CancelPipeline(r) ==
  /\ r \in Active /\ Yields(r) /\ run[r] = "RUNNING" /\ asked[r] = None
  /\ reason' = [reason EXCEPT ![r] = TRUE]
  /\ agent' = [agent EXCEPT ![r] = [s \in Steps |-> IF @[s] = "none" THEN "none"
                                                    ELSE "stopping"]]
  /\ asked' = [asked EXCEPT ![r] = Working(r)]
  /\ cancels' = [cancels EXCEPT ![r] = TRUE]
  /\ UNCHANGED <<run, row, tries, pc, fleet, batch, todo, going, outcome, branch, lost,
                 unsaved, stopped, trouble, mishaps>>

\* cancelPipeline returns true.
CancelReturns(r) ==
  /\ asked[r] # None /\ asked[r] \cap Working(r) = {}
  /\ asked' = [asked EXCEPT ![r] = None]
  /\ UNCHANGED <<run, row, tries, pc, fleet, batch, todo, going, agent, outcome, branch,
                 lost, unsaved, reason, stopped, cancels, trouble, mishaps>>

\* What the run writes from here without waiting, row by row: the end of the
\* steps that remain, or the beginning of an attempt.
Remaining(r) ==
  IF pc[r] = "round" /\ Closing(r) \in StepTerminal
  THEN {s \in Steps : row[r][s] \notin StepTerminal} ELSE {}

Beginning(r) ==
  IF pc[r] = "round" /\ Closing(r) = None THEN FirstOf(Ready(r))
  ELSE IF pc[r] \in {"agents", "wait"} /\ ~reason[r] THEN Retrying(r)
  ELSE {}

\* The rows of the steps when those of "done" have been written, and when the
\* steps that have not ended are failed.
Written(r, done) ==
  [s \in Steps |-> IF s \in done \cap Remaining(r) THEN Closing(r)
                  ELSE IF s \in done THEN "RUNNING"
                  ELSE row[r][s]]

Failing(rows) == [s \in Steps |-> IF rows[s] \in StepTerminal THEN rows[s] ELSE "FAILED"]

\* A write or a subscriber throws, with some of those rows written: the catch of
\* runPipeline fails the steps that have not ended and then the run, or the
\* database refuses the one or the other.
Breaks(r) ==
  /\ r \in Active /\ (pc[r] \in {"wait", "settle"} \/ ~Yields(r))
  /\ mishaps < MaxMishaps
  /\ mishaps' = mishaps + 1
  /\ \E done \in SUBSET (Remaining(r) \cup Beginning(r)) :
       /\ \A s \in done, z \in (Remaining(r) \cup Beginning(r)) \ done : Rank[s] < Rank[z]
       /\ tries' = [tries EXCEPT ![r] = [s \in Steps |->
                       IF s \in done \cap Beginning(r) THEN @[s] + 1 ELSE @[s]]]
       /\ \/ /\ row' = [row EXCEPT ![r] = Failing(Written(r, done))]
             /\ run' = [run EXCEPT ![r] = "FAILED"]
             /\ UNCHANGED trouble
          \/ /\ \/ row' = [row EXCEPT ![r] = Failing(Written(r, done))]
                \/ row' = [row EXCEPT ![r] = Written(r, done)]
             /\ trouble' = [trouble EXCEPT ![r] = @ \cup {"refused"}]
             /\ UNCHANGED run
  /\ pc' = [pc EXCEPT ![r] = "over"]
  /\ batch' = [batch EXCEPT ![r] = {}]
  /\ todo' = [todo EXCEPT ![r] = {}]
  /\ outcome' = [outcome EXCEPT ![r] = [s \in Steps |-> None]]
  /\ reason' = [reason EXCEPT ![r] = FALSE]
  /\ stopped' = [stopped EXCEPT ![r] = FALSE]
  /\ going' = [going EXCEPT ![r] = {}]
  /\ UNCHANGED <<fleet, agent, branch, lost, unsaved, asked, cancels>>

\* The Core dies and starts again: recoverRuns.
Restart ==
  LET left == {r \in Runs : run[r] = "RUNNING"}
  IN  /\ mishaps < MaxMishaps
      /\ mishaps' = mishaps + 1
      /\ run' = [r \in Runs |-> IF r \in left THEN "CANCELLED" ELSE run[r]]
      /\ row' = [r \in Runs |-> [s \in Steps |->
                   IF r \in left /\ row[r][s] \notin StepTerminal THEN "CANCELLED"
                   ELSE row[r][s]]]
      /\ pc' = [r \in Runs |-> IF pc[r] = "idle" THEN "idle" ELSE "over"]
      /\ batch' = [r \in Runs |-> {}]
      /\ todo' = [r \in Runs |-> {}]
      /\ going' = [r \in Runs |-> {}]
      /\ agent' = [r \in Runs |-> [s \in Steps |-> "none"]]
      /\ outcome' = [r \in Runs |-> [s \in Steps |-> None]]
      /\ reason' = [r \in Runs |-> FALSE]
      /\ stopped' = [r \in Runs |-> FALSE]
      /\ asked' = [r \in Runs |-> None]
      /\ trouble' = [r \in Runs |-> IF r \in left THEN trouble[r] \cup {"restart"}
                                    ELSE trouble[r]]
      /\ UNCHANGED <<tries, fleet, branch, lost, unsaved, cancels>>

-----------------------------------------------------------------------------

EngineStep(r) ==
  \/ Opened(r) \/ Round(r) \/ Provision(r) \/ StartAgents(r) \/ Answered(r)
  \/ Waited(r) \/ Record(r)

Next ==
  \/ \E r \in Runs :
       \/ Start(r) \/ EngineStep(r)
       \/ CancelPipeline(r) \/ CancelLeftBehind(r) \/ CancelReturns(r)
       \/ OpenBreaks(r) \/ Breaks(r)
       \/ \E s \in Steps : AgentEnds(r, s)
  \/ Restart

Spec == Init /\ [][Next]_vars

\* The event loop goes on, and every delegation ends (it has a timeout).
Fairness ==
  \A r \in Runs :
    /\ WF_vars(EngineStep(r)) /\ WF_vars(CancelReturns(r))
    /\ \A s \in Steps : WF_vars(AgentEnds(r, s))

FairSpec == Spec /\ Fairness

-----------------------------------------------------------------------------
(* Properties.                                                             *)

\* Types, what each variable may hold, and no attempt more than a step has.
PipelineTypeOK ==
  /\ run \in [Runs -> RunTerminal \cup {"RUNNING", None}]
  /\ row \in [Runs -> [Steps -> StepTerminal \cup {"PENDING", "RUNNING"}]]
  /\ tries \in [Runs -> [Steps -> Nat]]
  /\ \A r \in Runs, s \in Steps : tries[r][s] <= Retries[s] + 1
  /\ pc \in [Runs -> Places]
  /\ fleet \in [Runs -> BOOLEAN]
  /\ batch \in [Runs -> SUBSET Steps] /\ todo \in [Runs -> SUBSET Steps]
  /\ going \in [Runs -> SUBSET Steps]
  /\ agent \in [Runs -> [Steps -> Agents]]
  /\ outcome \in [Runs -> [Steps -> {"COMPLETED", "FAILED", None}]]
  /\ branch \in [Runs -> [Steps -> SUBSET Steps]]
  /\ lost \in [Runs -> [Steps -> SUBSET Steps]] /\ unsaved \in [Runs -> SUBSET Steps]
  /\ reason \in [Runs -> BOOLEAN] /\ stopped \in [Runs -> BOOLEAN]
  /\ asked \in [Runs -> {None} \cup SUBSET Steps]
  /\ cancels \in [Runs -> BOOLEAN] /\ trouble \in [Runs -> SUBSET Troubles]
  /\ mishaps \in 0..MaxMishaps

\* The branch of a step starts from what the steps it depends on have committed,
\* and so, step by step, from all the work it builds on; except for an ancestor
\* git did not find, and for work git took for none.
Chained(r, s) ==
  \A d \in DependsOn[s] \ lost[r][s] :
    HasCheckout(r, d) => branch[r][d] \cup ({d} \ unsaved[r]) \subseteq branch[r][s]

\* The branches of a run that passed hold the work of all its steps.
Delivered(r) ==
  run[r] = "PASSED" =>
    \A s \in Steps : HasCheckout(r, s) =>
      Chained(r, s) /\ s \in branch[r][s] \cup unsaved[r]

\* What half an input can come from: no agent works unless everything its step
\* depends on has passed and, where the run has checkouts, its branch starts from
\* the committed work of all of it, whatever failed, was retried or was cancelled
\* on the way, save where git did not answer; and a run that passed, and that
\* nobody tried to cancel, has delivered.
InputIsWhole ==
  \A r \in Runs :
    /\ \A s \in Steps : agent[r][s] # "none" =>
         /\ \A d \in DependsOn[s] : row[r][d] = "PASSED"
         /\ HasCheckout(r, s) => Chained(r, s)
    /\ Delivered(r) \/ cancels[r]

\* A run that has ended has no step and no agent left, and is PASSED only with
\* all its steps; it is CANCELLED only if somebody cancelled it or a restart found
\* it; and a run no process works on has ended, unless it never got into the try
\* of runPipeline or its catch was refused.
RunTellsSteps ==
  \A r \in Runs :
    /\ run[r] \in RunTerminal =>
         \A s \in Steps : row[r][s] \in StepTerminal /\ agent[r][s] = "none"
    /\ run[r] = "PASSED" => \A s \in Steps : row[r][s] = "PASSED"
    /\ run[r] = "CANCELLED" => cancels[r] \/ "restart" \in trouble[r]
    /\ run[r] = "RUNNING" /\ pc[r] \in {"stuck", "over"} =>
         trouble[r] \cap {"opening", "refused"} # {}

\* A cancellation stops the run where it stands: behind it no attempt begins and
\* no batch, only what was being prepared is still started; no attempt begins
\* while an agent of the run works, none of a step that has completed, and none
\* once a step of the run has been recorded as anything but passed.
NothingMoreIsTried ==
  [][\A r \in Runs, s \in Steps :
       tries'[r][s] # tries[r][s] =>
         /\ ~reason[r] /\ Working(r) = {}
         /\ outcome[r][s] # "COMPLETED" /\ row[r][s] # "PASSED"
         /\ \A d \in Steps : row[r][d] \notin {"FAILED", "SKIPPED", "CANCELLED"}]_vars

\* Whatever the agents do and whenever a run is cancelled, it ends, unless it
\* never got into the try of runPipeline; and so does every cancellation.
EveryRunEnds ==
  \A r \in Runs :
    /\ pc[r] = "opening" ~> pc[r] \in {"over", "stuck"}
    /\ asked[r] # None ~> asked[r] = None

\* "Stops a run and everything it has running" (cancelPipeline): once it has
\* returned true, no agent of the run works.
StopsEverything ==
  \A r \in Runs, s \in Steps : cancels[r] /\ asked[r] = None => agent[r][s] # "running"

\* "PASSED means every step passed" and synthesizeRun consolidates "a run's
\* passing steps": the branches of a run that passed hold the work of all of
\* them, also when somebody tried to cancel it.
PassedIsDelivered == \A r \in Runs : Delivered(r)
=============================================================================

-------------------------- MODULE DelegationPromise --------------------------
(***************************************************************************)
(* What delegating promises, without how: a delegated child is opened,     *)
(* possibly asked to stop, and closed exactly once; a child asked to stop  *)
(* can only close as FAILED; and whoever is told how a child ended is told *)
(* what it closed as, for good, also across a restart.                     *)
(***************************************************************************)
CONSTANTS Children

Outcomes == {"COMPLETED", "FAILED", "TIMEOUT"}

VARIABLES
  stage,   \* child |-> "unborn", "open", "stopping" or how it closed
  told     \* the pairs <<child, outcome>> the callers waiting now have been given

vars == <<stage, told>>

Closed == {c \in Children : stage[c] \in Outcomes}

Init ==
  /\ stage = [c \in Children |-> "unborn"]
  /\ told = {}

\* Moves the children of S from a stage in From to the stage f gives them.
Move(S, From, f) ==
  /\ \A c \in S : stage[c] \in From
  /\ stage' = [c \in Children |-> IF c \in S THEN f[c] ELSE stage[c]]

Open(S) == Move(S, {"unborn"}, [c \in S |-> "open"])

Stop(S) == Move(S, {"open"}, [c \in S |-> "stopping"])

Close(S) ==
  \E f \in [S -> Outcomes] :
    /\ \A c \in S : stage[c] = "stopping" => f[c] = "FAILED"
    /\ Move(S, {"open", "stopping"}, f)

\* Callers are told how closed children ended; or they leave, with all they
\* waited for or because the connection is lost.
Tell(S) == S \subseteq Closed /\ told' = told \cup {<<c, stage[c]>> : c \in S}
Leave == told' \in SUBSET told

Next ==
  \E S \in SUBSET Children :
    \/ (Open(S) \/ Stop(S)) /\ UNCHANGED told
    \/ Close(S) /\ Leave
    \/ Tell(S) /\ UNCHANGED stage

Spec == Init /\ [][Next]_vars

=============================================================================

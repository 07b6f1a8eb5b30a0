--------------------------- MODULE DelegationBoard ---------------------------
(***************************************************************************)
(* What a dashboard makes of the delegation events it receives: the        *)
(* reducers of useProjectStore.ts.  A board holds, for every thread, the   *)
(* state its banner shows and the children the banner names.  Events reach *)
(* a socket in the order they are published, so a board is a fold of these *)
(* operators over what the service has published so far.                   *)
(*                                                                         *)
(* A name with an underscore is a bug for the mutants.                     *)
(***************************************************************************)
CONSTANTS Children, Root

Threads == Children \cup {Root}
ParentStates == {"ACTIVE", "WAITING_FOR_CHILD"}

Boards == [state: [Threads -> ParentStates], pending: [Threads -> SUBSET Children]]

EmptyBoard == [state |-> [t \in Threads |-> "ACTIVE"],
               pending |-> [t \in Threads |-> {}]]

\* delegation.started and delegation.parent_state WAITING_FOR_CHILD, once for
\* each child in S.
Parked(board, p, S) ==
  IF S = {} THEN board
  ELSE [board EXCEPT !.state[p] = "WAITING_FOR_CHILD", !.pending[p] = @ \cup S]

\* delegation.parent_state ACTIVE clears everything the parent waited for.
Freed(board, p) == [board EXCEPT !.state[p] = "ACTIVE", !.pending[p] = {}]

Completed_keepsState(board, p, c) == [board EXCEPT !.pending[p] = @ \ {c}]

\* delegation.completed takes one child off; the last one frees the parent.
Completed(board, p, c) ==
  LET left == board.pending[p] \ {c}
  IN  [board EXCEPT !.pending[p] = left,
                    !.state[p] = IF left = {} THEN "ACTIVE" ELSE @]

\* delegation.batch_completed frees the parent whatever else it waits for.
BatchCompleted(board, p) == Freed(board, p)

=============================================================================

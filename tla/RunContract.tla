---------------------------- MODULE RunContract -----------------------------
(***************************************************************************)
(* What one run promises to those who look at its row and at its thread of  *)
(* checkpoints, with no workers, artifacts or failures in sight:           *)
(*   - its nodes are completed one after the other, and stay completed;    *)
(*   - the row becomes terminal when the last node is all that is left,    *)
(*     and the thread ends only after that;                                *)
(*   - a terminal row stays terminal (Spec), or may be reopened            *)
(*     (ReopeningSpec).                                                    *)
(* Delivery, where a node is what it does to the row and to the checkpoint, *)
(* and RunGraph, which models the nodes, both implement it.                *)
(***************************************************************************)
EXTENDS Naturals

CONSTANT LastNode  \* number of nodes

VARIABLES
  done,   \* the nodes whose checkpoint is committed
  status  \* what the row says of the run

vars == <<done, status>>

Init ==
  /\ done = 0
  /\ status = "open"

(* A node before the last is checkpointed.                                 *)
Advance ==
  /\ status = "open"
  /\ done + 1 < LastNode
  /\ done' = done + 1
  /\ UNCHANGED status

(* The last node writes the row ...                                        *)
Complete ==
  /\ status = "open"
  /\ done + 1 = LastNode
  /\ status' = "terminal"
  /\ UNCHANGED done

(* ... and is checkpointed.                                                *)
End ==
  /\ status = "terminal"
  /\ done + 1 = LastNode
  /\ done' = LastNode
  /\ UNCHANGED status

(* Someone takes the run for unfinished.                                   *)
Reopen ==
  /\ status = "terminal"
  /\ status' = "open"
  /\ UNCHANGED done

Next == Advance \/ Complete \/ End

Spec == Init /\ [][Next]_vars

ReopeningSpec == Init /\ [][Next \/ Reopen]_vars
=============================================================================

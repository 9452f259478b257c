---------------------------- MODULE LoopContract ----------------------------
(***************************************************************************)
(* What the editorial loop promises, with no notes, hashes, artifacts or   *)
(* failures in sight: rounds of drafting, checking and reviewing, after    *)
(* each of which the review either settles the run, or asks for a revision *)
(* that differs from the one asked for before, at most MaxRevisionCycles   *)
(* times.  The loop gives up on open issues only when the cycles are used  *)
(* up or the review repeats itself.                                        *)
(*                                                                         *)
(* ReviewLoop, which models the notes, and RunGraph, which models the       *)
(* artifacts and the failures, both implement it.                          *)
(***************************************************************************)
EXTENDS Naturals

CONSTANTS
  Fingerprint,       \* what a review may ask to be fixed
  NoFingerprint,     \* no review has asked for anything
  MaxRevisionCycles

VARIABLES
  stage,      \* the step of the round
  revisions,  \* revisions asked for
  previous,   \* what the last one was asked to fix
  outcome

vars == <<stage, revisions, previous, outcome>>

After == [agent_2 |-> "validate_drafts", validate_drafts |-> "agent_3",
          agent_3 |-> "route_review"]

Init ==
  /\ stage = "agent_2"
  /\ revisions = 0
  /\ previous = NoFingerprint
  /\ outcome = "none"

Advance ==
  /\ stage \in DOMAIN After
  /\ stage' = After[stage]
  /\ UNCHANGED <<revisions, previous, outcome>>

(* The review leaves nothing to revise.                                    *)
Settle ==
  /\ stage = "route_review"
  /\ stage' = "persist_terminal"
  /\ previous' = NoFingerprint
  /\ outcome' \in {"completed", "enrichment_required", "rejected"}
  /\ UNCHANGED revisions

(* The review asks for more, in vain.                                      *)
GiveUp ==
  /\ stage = "route_review"
  /\ stage' = "persist_terminal"
  /\ previous' \in Fingerprint
  /\ revisions >= MaxRevisionCycles \/ previous' = previous
  /\ outcome' = "enrichment_required"
  /\ UNCHANGED revisions

Revise ==
  /\ stage = "route_review"
  /\ revisions < MaxRevisionCycles
  /\ previous' \in Fingerprint \ {previous}
  /\ revisions' = revisions + 1
  /\ stage' = "agent_2"
  /\ outcome' = "none"

Next == Advance \/ Settle \/ GiveUp \/ Revise

Spec == Init /\ [][Next]_vars
=============================================================================

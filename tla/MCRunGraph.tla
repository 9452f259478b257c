----------------------------- MODULE MCRunGraph -----------------------------
(* Instances of RunGraph for TLC.                                          *)
EXTENDS RunGraph, TLC

CONSTANTS p, q, i, j

(* The answers that reach the editorial loop are open: a repeated call for *)
(* a source, a draft or a review may return something else.                *)
OpenAnswers == [a \in Artifact |->
  CASE a[1] \in {"source", "draft"} -> Payload
    [] a[1] = "review" -> Review
    [] a[1] \in {"revision", "manifest"} -> {}
    [] OTHER -> {p}]

(* Scripted doubles: each call has one answer; the review blocks a note    *)
(* once and is content with the revision.                                  *)
ScriptedAnswers == [a \in Artifact |->
  CASE a[1] = "review" -> IF a[2] = 0 THEN {i} ELSE {"clean"}
    [] a[1] \in {"revision", "manifest"} -> {}
    [] OTHER -> {p}]

Symmetry == Permutations({i, j})

=============================================================================

----------------------------- MODULE ReviewLoop -----------------------------
(***************************************************************************)
(* The editorial loop of a run: the curation agent drafts notes, the       *)
(* validation agent reviews them, ReviewPolicy decides, and only the       *)
(* blocked notes go back to the curation agent, at most MaxRevisionCycles  *)
(* times.                                                                  *)
(*                                                                         *)
(* The agents are language models: they answer anything their contracts    *)
(* allow.  An answer a node refuses leaves the checkpoint as it is and the *)
(* node is repeated on redelivery, so a step here is a node that commits.  *)
(* A draft is its content hash, which the agent supplies.                  *)
(***************************************************************************)
EXTENDS Naturals

CONSTANTS
  Note, Hash, Issue,
  NoHash,            \* the note is not in the package
  NoIssue,           \* the note is not blocked
  NoReview,
  MaxRevisionCycles  \* ReviewPolicy.max_revision_cycles

ASSUME ReviewAssumption ==
  /\ NoHash \notin Hash
  /\ NoReview \notin [Note -> Issue \cup {NoIssue}]
  /\ NoIssue \notin Issue
  /\ MaxRevisionCycles \in Nat

VARIABLES
  stage,      \* the node to execute next
  drafts,     \* draft_package_ref: the hash of each draft
  decided,    \* the notes with a curation decision
  reviewed,   \* review_package_ref: the hash each reviewed note was reviewed at
  blocked,    \* its blocked_note_ids
  approving,  \* the notes of its approved_note_hashes
  issues,     \* what it asks of each blocked note
  verdict,    \* its terminal recommendation and note statuses
  requested,  \* revision_request_ref: blocked_note_ids
  approved,   \* approved_note_hashes of the state
  open,       \* blocked_note_ids of the state
  previous,   \* previous_issue_fingerprint
  revisions,  \* revision_count
  outcome,
  \* history
  lastReviewed, \* the hash at which each note was reviewed last
  pending,      \* the notes that were blocked by their last review
  contested,    \* the notes some review approved and blocked at once
  fixed         \* the issues every past revision was asked to fix, in order

draftVars  == <<drafts, decided>>
reviewVars == <<reviewed, blocked, approving, issues, verdict>>
stateVars  == <<requested, approved, open, previous, revisions, outcome>>
history    == <<lastReviewed, pending, contested, fixed>>
vars == <<stage, draftVars, reviewVars, stateVars, history>>

Stage == {"agent_2", "validate_drafts", "agent_3", "route_review", "persist_terminal"}
Verdict == {"ready", "enrichment_required", "rejected"}
Outcome == {"none", "completed", "enrichment_required", "rejected"}
Package == [Note -> Hash \cup {NoHash}]
Fingerprint == [Note -> Issue \cup {NoIssue}]

Present(package) == {n \in Note : package[n] # NoHash}
Nothing == [n \in Note |-> NoHash]
Unasked == [n \in Note |-> NoIssue]

TypeOK ==
  /\ stage \in Stage
  /\ drafts \in Package
  /\ decided \subseteq Note
  /\ reviewed \in Package
  /\ blocked \subseteq Note
  /\ approving \subseteq Note
  /\ issues \in Fingerprint
  /\ verdict \in Verdict
  /\ requested \subseteq Note
  /\ approved \in Package
  /\ open \subseteq Note
  /\ previous \in Fingerprint \cup {NoReview}
  /\ revisions \in 0 .. MaxRevisionCycles
  /\ outcome \in Outcome
  /\ lastReviewed \in Package
  /\ pending \subseteq Note
  /\ contested \subseteq Note
  /\ fixed \in [1 .. revisions -> Fingerprint]

Init ==
  /\ stage = "agent_2"
  /\ drafts = Nothing
  /\ decided = {}
  /\ reviewed = Nothing
  /\ blocked = {}
  /\ approving = {}
  /\ issues = Unasked
  /\ verdict = "ready"
  /\ requested = {}
  /\ approved = Nothing
  /\ open = {}
  /\ previous = NoReview
  /\ revisions = 0
  /\ outcome = "none"
  /\ lastReviewed = Nothing
  /\ pending = {}
  /\ contested = {}
  /\ fixed = [i \in 1 .. 0 |-> Unasked]

-----------------------------------------------------------------------------
(* Faulty variants of some definitions below, for mutation checks only.    *)

WholeCandidate(candidate) == candidate
NotYetApproved == IF revisions > 0 THEN open \ Present(approved) ELSE Present(drafts)
SameRevision == revisions
CyclesOnly == revisions >= MaxRevisionCycles

-----------------------------------------------------------------------------
(* Agent 2, first round: any set of drafts, any set of decisions.          *)
Curate ==
  /\ stage = "agent_2"
  /\ revisions = 0
  /\ drafts' \in Package
  /\ decided' \in SUBSET Note
  /\ stage' = "validate_drafts"
  /\ UNCHANGED <<reviewVars, stateVars, history>>

(* The frozen drafts still have the hash they were approved with.          *)
FrozenIntact == \A n \in Present(approved) : drafts[n] = approved[n]

(* Agent 2, later rounds, with _combine_revision: the candidate holds      *)
(* exactly the blocked notes, decisions for all of them, and the other     *)
(* drafts are taken over from the previous package.                        *)
Combined(candidate) ==
  [n \in Note |-> IF n \in requested THEN candidate[n] ELSE drafts[n]]

Revise ==
  /\ stage = "agent_2"
  /\ revisions > 0
  /\ FrozenIntact
  /\ \E candidate \in Package :
       /\ Present(candidate) = requested
       /\ drafts' = Combined(candidate)
  /\ decided' = Present(drafts)
  /\ stage' = "validate_drafts"
  /\ UNCHANGED <<reviewVars, stateVars, history>>

ValidateDrafts ==
  /\ stage = "validate_drafts"
  /\ Present(drafts) \subseteq decided
  /\ stage' = "agent_3"
  /\ UNCHANGED <<draftVars, reviewVars, stateVars, history>>

(* The notes agent 3 is given.                                             *)
Expected == IF revisions > 0 THEN open ELSE Present(drafts)

(* The hashes it reviewed them at: its answer must name the drafts' own.   *)
ReviewedHashes == drafts

(* Agent 3: a review of exactly the expected notes at their draft hashes,  *)
(* consistent as ReviewPackage demands, which lets it approve a note and   *)
(* block it.                                                               *)
ReviewDrafts ==
  /\ stage = "agent_3"
  /\ reviewed' = [n \in Note |-> IF n \in Expected THEN ReviewedHashes[n] ELSE NoHash]
  /\ blocked' \in SUBSET Expected
  /\ approving' \in SUBSET Expected
  /\ issues' \in Fingerprint
  /\ \A n \in Note : issues'[n] # NoIssue <=> n \in blocked'
  /\ verdict' \in Verdict
  /\ lastReviewed' = [n \in Note |->
       IF n \in Expected THEN ReviewedHashes[n] ELSE lastReviewed[n]]
  /\ pending' = (pending \ Expected) \cup blocked'
  /\ contested' = contested \cup (blocked' \cap approving')
  /\ stage' = "route_review"
  /\ UNCHANGED <<draftVars, stateVars, fixed>>

-----------------------------------------------------------------------------
(* route_review refuses a review of other hashes than the package's.       *)
ReviewMatches ==
  /\ \A n \in Present(reviewed) : drafts[n] = reviewed[n]
  /\ approving \subseteq Present(drafts)

(* It keeps the hashes the review approves and the notes it blocks,        *)
(* whatever the decision is.                                               *)
Merge ==
  /\ stage = "route_review"
  /\ ReviewMatches
  /\ approved' = [n \in Note |-> IF n \in approving THEN drafts[n] ELSE approved[n]]
  /\ open' = blocked
  /\ UNCHANGED <<draftVars, reviewVars, lastReviewed, pending, contested>>

(* ReviewPolicy.evaluate.                                                  *)
Settled  == verdict # "ready" \/ blocked = {}
Stagnant == revisions >= MaxRevisionCycles \/ issues = previous

Conclude ==
  /\ Merge
  /\ Settled \/ Stagnant
  /\ outcome' = IF verdict # "ready" THEN verdict
                ELSE IF blocked = {} THEN "completed" ELSE "enrichment_required"
  /\ previous' = IF Settled THEN NoReview ELSE issues
  /\ stage' = "persist_terminal"
  /\ UNCHANGED <<requested, revisions, fixed>>

NextRevision == revisions + 1

RequestRevision ==
  /\ Merge
  /\ ~ Settled /\ ~ Stagnant
  /\ requested' = blocked
  /\ previous' = issues
  /\ revisions' = NextRevision
  /\ fixed' = [i \in 1 .. NextRevision |-> IF i > revisions THEN issues ELSE fixed[i]]
  /\ outcome' = "none"
  /\ stage' = "agent_2"

Next == Curate \/ Revise \/ ValidateDrafts \/ ReviewDrafts \/ Conclude \/ RequestRevision

Spec == Init /\ [][Next]_vars

(* An unfinished run is executed again until its node commits.             *)
FairSpec == Spec /\ WF_vars(Next)

-----------------------------------------------------------------------------
(* The contract this module implements; a review asks for its issues.      *)

Loop == INSTANCE LoopContract WITH
  NoFingerprint <- NoReview

(* Whatever the agents answer, the loop revises at most MaxRevisionCycles   *)
(* times, never the same issues twice in a row, and gives up on open        *)
(* issues only when one of the two leaves it no choice.                    *)
ImplementsLoop == Loop!Spec

-----------------------------------------------------------------------------
(* Properties.                                                             *)

(* Whatever the agents answer, when the loop ends each draft of the final  *)
(* package was reviewed, and last reviewed at the very hash it has.        *)
ReviewedAtFinalHash ==
  stage = "persist_terminal" => lastReviewed = drafts

(* A committed review is one that route_review accepts: the run is not     *)
(* stuck behind a checkpoint it can neither use nor undo.                  *)
CommittedReviewRoutes == stage = "route_review" => ReviewMatches

(* An approved note stays in the package with the hash it was approved     *)
(* with, to the end of the loop, unless the review that approved it also   *)
(* blocked it.                                                             *)
UncontestedNotesFrozen ==
  \A n \in Present(approved) \ contested : drafts[n] = approved[n]

(* ... and even then: stated by the documents, refuted by the code (README). *)
ApprovedNotesFrozen == FrozenIntact

(* A completed run leaves no note behind whose last review blocked it.     *)
CompletedMeansAnswered == outcome = "completed" => pending = {}

(* No two consecutive revisions are asked to fix the same issues.          *)
RevisionsProgress ==
  \A i \in 1 .. revisions : i > 1 => fixed[i] # fixed[i - 1]

(* A revision changes no draft but the ones the review blocked.            *)
OnlyBlockedChange ==
  [][\A n \in Note : revisions > 0 /\ drafts'[n] # drafts[n] => n \in open]_vars

(* A loop whose drafts all carry a decision and whose reviews never        *)
(* approve and block one note ends.                                        *)
LoopEnds ==
  [](/\ stage = "validate_drafts" => Present(drafts) \subseteq decided
     /\ contested = {})
    => <>(stage = "persist_terminal")

=============================================================================

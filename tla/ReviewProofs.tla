---------------------------- MODULE ReviewProofs ----------------------------
(***************************************************************************)
(* Proofs about ReviewLoop, for any notes, hashes, issues and number of    *)
(* revision cycles that satisfy ReviewAssumption.                          *)
(***************************************************************************)
EXTENDS ReviewLoop, TLAPS

Working == {"agent_2", "validate_drafts", "agent_3"}

(* Before the first review nothing was reviewed, approved or blocked.      *)
FirstRound ==
  revisions = 0 /\ stage \in Working =>
    lastReviewed = Nothing /\ approved = Nothing /\ pending = {}

(* In a later round the package differs from the reviewed one only in the  *)
(* notes that are open, and those are the ones to revise.                  *)
LaterRounds ==
  revisions > 0 /\ stage \in Working =>
    /\ requested = open /\ pending = open
    /\ open \subseteq Present(drafts)
    /\ \A n \in Note \ open : lastReviewed[n] = drafts[n]
    /\ stage = "agent_2" => lastReviewed = drafts

(* After a review every draft is reviewed at the hash it has.              *)
Reviewed ==
  stage \notin Working =>
    /\ lastReviewed = drafts
    /\ pending = IF stage = "route_review" THEN blocked ELSE open
    /\ stage = "route_review" =>
         /\ ReviewMatches
         /\ blocked \subseteq Present(drafts)
         /\ revisions = 0 => approved = Nothing

Ended == outcome = "completed" => stage = "persist_terminal" /\ open = {}

(* The loop remembers what its last revision was asked to fix.             *)
Progress ==
  /\ RevisionsProgress
  /\ stage # "persist_terminal" /\ revisions > 0 => previous = fixed[revisions]

Rounds == FirstRound /\ LaterRounds /\ Reviewed /\ Ended

(* The loop starts in its first round, with nothing reviewed.              *)
LEMMA InitRounds == Init => TypeOK /\ Rounds /\ Progress
BY ReviewAssumption
   DEF Init, TypeOK, Rounds, FirstRound, LaterRounds, Reviewed, Ended, Progress,
       RevisionsProgress, Stage, Verdict, Outcome, Package, Fingerprint, Nothing,
       Unasked, Working

-----------------------------------------------------------------------------
(* Type correctness.                                                       *)

(* Every step keeps the types; one case per action.                        *)
LEMMA TypeStep == TypeOK /\ [Next]_vars => TypeOK'
<1> SUFFICES ASSUME TypeOK, [Next]_vars PROVE TypeOK'
  OBVIOUS
<1> USE ReviewAssumption
    DEF TypeOK, Stage, Verdict, Outcome, Package, Fingerprint, draftVars, reviewVars,
        stateVars, history
<1>1. CASE Curate
  BY <1>1 DEF Curate
<1>2. CASE Revise
  BY <1>2 DEF Revise, Combined, Present
<1>3. CASE ValidateDrafts
  BY <1>3 DEF ValidateDrafts
<1>4. CASE ReviewDrafts
  BY <1>4 DEF ReviewDrafts, Expected, Present, ReviewedHashes
<1>5. CASE Conclude
  BY <1>5 DEF Conclude, Merge
<1>6. CASE RequestRevision
  BY <1>6 DEF RequestRevision, Merge, NextRevision, Stagnant
<1>7. CASE UNCHANGED vars
  BY <1>7 DEF vars
<1> QED
  BY <1>1, <1>2, <1>3, <1>4, <1>5, <1>6, <1>7 DEF Next

(* Every reachable state is well typed; in particular the loop never asks  *)
(* for more than MaxRevisionCycles revisions, whatever the agents answer.  *)
THEOREM ReviewTypeCorrect == Spec => []TypeOK
BY InitRounds, TypeStep, PTL DEF Spec

-----------------------------------------------------------------------------
(* Rounds.                                                                 *)

(* Every node hands the next one what its round calls for.                 *)
LEMMA RoundsStep == TypeOK /\ Rounds /\ [Next]_vars => Rounds'
<1> SUFFICES ASSUME TypeOK, Rounds, [Next]_vars PROVE Rounds'
  OBVIOUS
<1> USE ReviewAssumption
    DEF Rounds, FirstRound, LaterRounds, Reviewed, Ended, Working, Present,
        draftVars, reviewVars, stateVars, history
<1>1. CASE Curate
  BY <1>1 DEF Curate, TypeOK
<1>2. CASE Revise
  <2>0. PICK candidate \in Package :
          Present(candidate) = requested /\ drafts' = Combined(candidate)
    BY <1>2 DEF Revise
  <2>1. requested = open /\ open' = open
    BY <1>2 DEF Revise
  <2>2. open \subseteq Present(drafts)'
    <3>1. ASSUME NEW n \in open PROVE n \in Note /\ drafts'[n] # NoHash
      <4>1. n \in Note /\ n \in requested
        BY <2>1 DEF TypeOK
      <4>2. candidate[n] # NoHash
        BY <2>0, <4>1
      <4> QED
        BY <2>0, <4>1, <4>2 DEF Combined
    <3> QED
      BY <2>1, <3>1
  <2>3. \A n \in Note \ open : lastReviewed'[n] = drafts'[n]
    BY <1>2 DEF Revise, Combined, TypeOK
  <2> QED
    BY <1>2, <2>1, <2>2, <2>3 DEF Revise, TypeOK
<1>3. CASE ValidateDrafts
  BY <1>3 DEF ValidateDrafts, TypeOK
<1>4. CASE ReviewDrafts
  <2>1. lastReviewed' = drafts'
    BY <1>4 DEF ReviewDrafts, Expected, ReviewedHashes, TypeOK, Package, Nothing
  <2>2. pending' = blocked'
    <3>1. pending \subseteq Expected
      BY <1>4 DEF ReviewDrafts, Expected, TypeOK
    <3> QED
      BY <1>4, <3>1 DEF ReviewDrafts
  <2>3. Expected \subseteq Present(drafts)
    BY <1>4 DEF ReviewDrafts, Expected, TypeOK
  <2>4. ReviewMatches'
    BY <1>4, <2>3 DEF ReviewDrafts, ReviewedHashes, ReviewMatches, TypeOK
  <2> QED
    BY <1>4, <2>1, <2>2, <2>3, <2>4 DEF ReviewDrafts, TypeOK
<1>5. CASE Conclude
  BY <1>5 DEF Conclude, Merge, Settled, Stagnant, TypeOK, Verdict
<1>6. CASE RequestRevision
  BY <1>6 DEF RequestRevision, Merge, NextRevision, TypeOK
<1>7. CASE UNCHANGED vars
  BY <1>7 DEF vars, ReviewMatches
<1> QED
  BY <1>1, <1>2, <1>3, <1>4, <1>5, <1>6, <1>7 DEF Next

(* The types and the rounds together are inductive.                        *)
LEMMA RoundsInvariant == Spec => [](TypeOK /\ Rounds)
BY InitRounds, TypeStep, RoundsStep, PTL DEF Spec

(* Whatever the agents answer and however many cycles are allowed, no      *)
(* draft leaves the loop that was not last reviewed at the hash it has.    *)
THEOREM FinalHashesReviewed == Spec => []ReviewedAtFinalHash
<1>1. Rounds => ReviewedAtFinalHash
  BY DEF Rounds, Reviewed, ReviewedAtFinalHash, Working
<1> QED
  BY <1>1, RoundsInvariant, PTL

(* A committed review never makes route_review fail.                       *)
THEOREM ReviewsRoute == Spec => []CommittedReviewRoutes
<1>1. Rounds => CommittedReviewRoutes
  BY DEF Rounds, Reviewed, CommittedReviewRoutes, Working
<1> QED
  BY <1>1, RoundsInvariant, PTL

(* A completed run leaves no note behind whose last review blocked it.     *)
THEOREM CompletedRunsAnswered == Spec => []CompletedMeansAnswered
<1>1. Rounds => CompletedMeansAnswered
  BY DEF Rounds, Reviewed, Ended, CompletedMeansAnswered, Working
<1> QED
  BY <1>1, RoundsInvariant, PTL

(* A revision changes only the drafts that the review blocked.             *)
THEOREM RevisionsAreScoped == Spec => OnlyBlockedChange
<1>1. TypeOK /\ Rounds /\ [Next]_vars =>
        [\A n \in Note : revisions > 0 /\ drafts'[n] # drafts[n] => n \in open]_vars
  <2> SUFFICES ASSUME TypeOK, Rounds, Next, NEW n \in Note, revisions > 0,
                      drafts'[n] # drafts[n]
               PROVE  n \in open
    OBVIOUS
  <2>1. CASE Revise
    BY <2>1 DEF Revise, Combined, Rounds, LaterRounds, Working
  <2> QED
    BY <2>1 DEF Next, Curate, ValidateDrafts, ReviewDrafts, Conclude, RequestRevision,
                Merge, draftVars
<1> QED
  BY <1>1, RoundsInvariant, PTL DEF Spec, OnlyBlockedChange

-----------------------------------------------------------------------------
(* Progress.                                                               *)

(* A new revision is recorded after one that asked for something else.     *)
LEMMA ProgressStep == TypeOK /\ Progress /\ [Next]_vars => Progress'
<1> SUFFICES ASSUME TypeOK, Progress, [Next]_vars PROVE Progress'
  OBVIOUS
<1> USE DEF Progress, RevisionsProgress, draftVars, reviewVars, stateVars, history
<1>1. CASE RequestRevision
  <2>1. /\ revisions \in Nat /\ revisions' = revisions + 1
        /\ previous' = issues /\ issues # previous /\ stage = "route_review"
        /\ fixed' = [i \in 1 .. revisions + 1 |-> IF i > revisions THEN issues ELSE fixed[i]]
    BY <1>1 DEF RequestRevision, Merge, NextRevision, Stagnant, TypeOK
  <2>2. fixed'[revisions + 1] = issues
    BY <2>1
  <2>3. \A i \in 1 .. revisions : fixed'[i] = fixed[i]
    BY <2>1
  <2> QED
    BY <2>1, <2>2, <2>3
<1>2. CASE Curate \/ Revise \/ ValidateDrafts \/ ReviewDrafts
  BY <1>2 DEF Curate, Revise, ValidateDrafts, ReviewDrafts
<1>3. CASE Conclude
  BY <1>3 DEF Conclude, Merge
<1>4. CASE UNCHANGED vars
  BY <1>4 DEF vars
<1> QED
  BY <1>1, <1>2, <1>3, <1>4 DEF Next

(* No revision is asked to fix exactly what the one before it was.         *)
THEOREM RepetitionEnds == Spec => []RevisionsProgress
<1>1. Progress => RevisionsProgress
  BY DEF Progress
<1> QED
  BY <1>1, InitRounds, ProgressStep, ReviewTypeCorrect, PTL DEF Spec

-----------------------------------------------------------------------------
(* Frozen notes.                                                           *)

(* Only a contested note is approved and yet to be revised.               *)
Frozen ==
  /\ UncontestedNotesFrozen
  /\ revisions > 0 /\ stage \in Working => open \cap Present(approved) \subseteq contested
  /\ stage = "route_review" =>
       /\ blocked \cap Present(approved) \subseteq contested
       /\ blocked \cap approving \subseteq contested

(* A revision replaces blocked notes only, and a blocked note that is      *)
(* approved is contested.                                                  *)
LEMMA FrozenStep == TypeOK /\ Rounds /\ Frozen /\ [Next]_vars => Frozen'
<1> SUFFICES ASSUME TypeOK, Rounds, Frozen, [Next]_vars PROVE Frozen'
  OBVIOUS
<1> USE ReviewAssumption
    DEF Frozen, UncontestedNotesFrozen, Present, Working, draftVars, reviewVars,
        stateVars, history
<1>1. CASE Curate
  BY <1>1 DEF Curate, Rounds, FirstRound, Nothing
<1>2. CASE Revise
  BY <1>2 DEF Revise, Combined, Rounds, LaterRounds, TypeOK, Package
<1>3. CASE ValidateDrafts
  BY <1>3 DEF ValidateDrafts
<1>4. CASE ReviewDrafts
  BY <1>4 DEF ReviewDrafts, Expected, Rounds, FirstRound, Nothing, TypeOK
<1>5. CASE Conclude
  BY <1>5 DEF Conclude, Merge, TypeOK, Package
<1>6. CASE RequestRevision
  BY <1>6 DEF RequestRevision, Merge, NextRevision, TypeOK, Package
<1>7. CASE UNCHANGED vars
  BY <1>7 DEF vars
<1> QED
  BY <1>1, <1>2, <1>3, <1>4, <1>5, <1>6, <1>7 DEF Next

(* Whatever the agents answer, an approved note keeps the hash it was      *)
(* approved with to the end of the loop, unless a review both approved and *)
(* blocked it.                                                             *)
THEOREM ApprovedNotesKeepTheirHash == Spec => []UncontestedNotesFrozen
<1>1. Init => Frozen
  BY DEF Init, Frozen, UncontestedNotesFrozen, Present, Nothing, Working
<1>2. Frozen => UncontestedNotesFrozen
  BY DEF Frozen
<1> QED
  BY <1>1, <1>2, FrozenStep, RoundsInvariant, PTL DEF Spec

-----------------------------------------------------------------------------
(* Refinement of LoopContract.                                             *)

(* Every step is a step of the contract or leaves its variables alone; one *)
(* case per action.                                                        *)
LEMMA LoopSimulation == TypeOK /\ [Next]_vars => [Loop!Next]_(Loop!vars)
<1> SUFFICES ASSUME TypeOK, [Next]_vars PROVE Loop!Next \/ UNCHANGED Loop!vars
  OBVIOUS
<1>1. CASE Curate \/ Revise
  BY <1>1 DEF Curate, Revise, stateVars, Loop!Next, Loop!Advance, Loop!After
<1>2. CASE ValidateDrafts
  BY <1>2 DEF ValidateDrafts, stateVars, Loop!Next, Loop!Advance, Loop!After
<1>3. CASE ReviewDrafts
  BY <1>3 DEF ReviewDrafts, stateVars, Loop!Next, Loop!Advance, Loop!After
<1>4. CASE Conclude
  <2>1. stage = "route_review" /\ stage' = "persist_terminal" /\ UNCHANGED revisions
    BY <1>4 DEF Conclude, Merge
  <2>2. CASE Settled
    <3>1. previous' = NoReview /\ outcome' \in {"completed", "enrichment_required", "rejected"}
      BY <1>4, <2>2 DEF Conclude, Settled, TypeOK, Verdict
    <3> QED
      BY <2>1, <3>1 DEF Loop!Next, Loop!Settle
  <2>3. CASE ~ Settled
    <3>1. previous' = issues /\ outcome' = "enrichment_required" /\ Stagnant
      BY <1>4, <2>3 DEF Conclude, Settled
    <3> QED
      BY <2>1, <3>1 DEF Stagnant, TypeOK, Loop!Next, Loop!GiveUp
  <2> QED
    BY <2>2, <2>3
<1>5. CASE RequestRevision
  <2>1. revisions < MaxRevisionCycles /\ previous' \in Fingerprint \ {previous}
    BY <1>5, ReviewAssumption DEF RequestRevision, Stagnant, TypeOK
  <2> QED
    BY <1>5, <2>1 DEF RequestRevision, Merge, NextRevision, Loop!Next, Loop!Revise
<1>6. CASE UNCHANGED vars
  BY <1>6 DEF vars, stateVars, Loop!vars
<1> QED
  BY <1>1, <1>2, <1>3, <1>4, <1>5, <1>6 DEF Next

(* The loop over notes, hashes and approvals implements LoopContract for   *)
(* all of them, whatever the agents answer: it revises at most             *)
(* MaxRevisionCycles times, never the same issues twice in a row, and      *)
(* gives up on open issues only when one of the two leaves it no choice.   *)
THEOREM ReviewImplementsLoop == Spec => ImplementsLoop
<1>1. Init => Loop!Init
  BY DEF Init, Loop!Init
<1> QED
  BY <1>1, LoopSimulation, ReviewTypeCorrect, PTL DEF Spec, ImplementsLoop, Loop!Spec

=============================================================================

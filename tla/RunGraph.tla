------------------------------ MODULE RunGraph ------------------------------
(***************************************************************************)
(* The LangGraph pipeline of one run (application/graph), executed by one   *)
(* worker at a time, over the two stores it must keep consistent with the  *)
(* checkpoint: the artifact directory (FilesystemArtifactStore) and runs.db *)
(* (SqliteRunStore: the artifacts table, the status, the repair tasks).    *)
(*                                                                         *)
(* A node calls its provider, agent or index, writes its artifact, records *)
(* it, updates the run's row and returns; only then is the checkpoint      *)
(* committed.  An error or a crash between any two of these steps makes a  *)
(* later execution repeat the node from its start.                         *)
(***************************************************************************)
EXTENDS Integers, Sequences, FiniteSets

CONSTANTS
  Payload,           \* what a provider, the index or a writing agent may answer
  Issue,             \* issue fingerprints of a review that blocks notes
  NoFile,            \* no such artifact; also no answer yet
  MaxRevisionCycles, \* ReviewPolicy.max_revision_cycles
  MaxMainCalls,      \* ContextBudget.max_main_calls
  Answers,           \* Answers[a]: what the call that makes artifact a may return
  Refetchable,       \* the provider can acquire again after a restart
  FlakyTargets,      \* secondary services that may fail
  MaxFailures        \* bound on failed nodes and crashes

ASSUME GraphAssumption ==
  /\ MaxRevisionCycles \in Nat
  /\ MaxMainCalls \in Nat
  /\ Refetchable \in BOOLEAN
  /\ FlakyTargets \subseteq {"qdrant", "langfuse"}
  /\ MaxFailures \in Nat

(* GRAPH_NODE_ORDER, with the end of the thread.                           *)
NodeOrder == <<"prepare_run", "inspect_source", "acquire_evidence", "agent_1",
  "validate_acquisition", "retrieve_vault_context", "agent_2", "validate_drafts",
  "agent_3", "route_review", "persist_terminal", "sync_index", "flush_telemetry",
  "end">>

Node == {NodeOrder[i] : i \in DOMAIN NodeOrder}
Agents == {"agent_1", "agent_2", "agent_3"}
Position(n) == CHOOSE i \in DOMAIN NodeOrder : NodeOrder[i] = n
Successor(n) == NodeOrder[Position(n) + 1]

Target == {"qdrant", "langfuse"}
Outcome == {"completed", "completed_with_warnings", "enrichment_required", "rejected"}
Review == Issue \cup {"clean", "enrichment", "rejection"}
Manifest == [warnings : SUBSET Target, outcome : Outcome]

(* The artifact kinds; those of the editorial loop carry the revision in   *)
(* their artifact type (draft-package-r0, ...).                            *)
KindOf ==
  [inspect_source |-> "source", acquire_evidence |-> "evidence", agent_1 |-> "packet",
   retrieve_vault_context |-> "retrieval", agent_2 |-> "draft", agent_3 |-> "review",
   route_review |-> "revision", flush_telemetry |-> "manifest"]
Kind == {KindOf[n] : n \in DOMAIN KindOf}
Artifact == Kind \X (0 .. MaxRevisionCycles)

Content(kind) ==
  CASE kind = "review" -> Review
    [] kind = "revision" -> Issue
    [] kind = "manifest" -> Manifest
    [] OTHER -> Payload

VARIABLES
  \* checkpoints.db: the committed RunState
  next,       \* the node to execute next
  refs,       \* the artifact each *_ref points to: <<revision, content>>
  revisions,  \* revision_count
  previous,   \* previous_issue_fingerprint
  ledger,     \* number of usage_entries
  warnings, outcome,
  \* the artifact directory and runs.db
  disk, recorded, status, repairs,
  \* the node in execution
  pc,         \* "idle" between executions
  answer,     \* what its call returned
  result,     \* the RunState update it is going to return
  \* the provider's memory of the inspected source
  inspected,
  \* history and bounds
  lost,       \* targets for which enqueue_repair failed
  failures

stateVars == <<next, refs, revisions, previous, ledger, warnings, outcome>>
storeVars == <<disk, recorded, status, repairs>>
nodeVars  == <<pc, answer, result>>
history   == <<lost, failures>>
vars == <<stateVars, storeVars, nodeVars, inspected, history>>

(* The part of RunState a node may update next to its artifact reference.  *)
Update == [route : {"next", "revise"}, revisions : 0 .. MaxRevisionCycles,
           previous : Issue \cup {NoFile}, warnings : SUBSET Target,
           outcome : Outcome \cup {NoFile}]

NoUpdate == [route |-> "next", revisions |-> revisions, previous |-> previous,
             warnings |-> warnings, outcome |-> outcome]

ASSUME AnswersAssumption ==
  /\ \A a \in Artifact : Answers[a] \subseteq Content(a[1])
  /\ Issue \cap {"clean", "enrichment", "rejection"} = {}
  /\ NoFile \notin Payload \cup Review \cup Outcome \cup Manifest \cup Update

TypeOK ==
  /\ next \in Node
  /\ DOMAIN refs = Kind
  /\ \A k \in Kind : refs[k] \in {NoFile} \cup (0 .. MaxRevisionCycles) \X Content(k)
  /\ revisions \in 0 .. MaxRevisionCycles
  /\ previous \in Issue \cup {NoFile}
  /\ ledger \in 0 .. MaxMainCalls
  /\ warnings \subseteq Target
  /\ outcome \in Outcome \cup {NoFile}
  /\ \A a \in Artifact : {disk[a], recorded[a]} \subseteq Content(a[1]) \cup {NoFile}
  /\ status \in {"received", "running"} \cup Outcome
  /\ repairs \subseteq Target
  /\ pc \in {"idle", "call", "write", "record", "stage", "commit"}
  /\ result \in Update \cup {NoFile}
  /\ inspected \in BOOLEAN
  /\ lost \subseteq Target
  /\ failures \in 0 .. MaxFailures

Init ==
  /\ next = "prepare_run"
  /\ refs = [k \in Kind |-> NoFile]
  /\ revisions = 0
  /\ previous = NoFile
  /\ ledger = 0
  /\ warnings = {}
  /\ outcome = NoFile
  /\ disk = [a \in Artifact |-> NoFile]
  /\ recorded = [a \in Artifact |-> NoFile]
  /\ status = "received"
  /\ repairs = {}
  /\ pc = "idle"
  /\ answer = NoFile
  /\ result = NoFile
  /\ inspected = FALSE
  /\ lost = {}
  /\ failures = 0

-----------------------------------------------------------------------------
(* Faulty variants of some definitions below, for mutation checks only.    *)

AnyFile(file) == TRUE
NewFile(file) == file = NoFile
Silent == {"acquire_evidence", "agent_1", "agent_2", "flush_telemetry"}
CountRepairs(n) == IF n \in Agents THEN 2 ELSE 0
NoRepair(t, update) ==
  /\ update \in {NoUpdate, [NoUpdate EXCEPT !.warnings = @ \cup ({t} \cap FlakyTargets)]}
  /\ UNCHANGED <<repairs, lost>>
OneCycleMore(review) ==
  [NoUpdate EXCEPT
    !.route = IF review \in Issue /\ revisions <= MaxRevisionCycles THEN "revise" ELSE @,
    !.revisions = IF review \in Issue /\ revisions <= MaxRevisionCycles THEN @ + 1 ELSE @,
    !.outcome = IF review \in Issue THEN NoFile ELSE "completed"]
WriteIfAbsent ==
  LET a == <<KindOf[next], IF next = "route_review" THEN result.revisions
                           ELSE IF next \in {"agent_2", "agent_3"} THEN revisions ELSE 0>> IN
  /\ pc = "write"
  /\ disk' = [disk EXCEPT ![a] = IF @ = NoFile THEN answer ELSE @]
  /\ pc' = "record"
  /\ UNCHANGED <<stateVars, recorded, status, repairs, answer, result, inspected,
                 history>>
StatusOfState ==
  /\ pc = "stage"
  /\ status' = IF next = "flush_telemetry" THEN outcome ELSE "running"
  /\ pc' = "commit"
  /\ UNCHANGED <<stateVars, disk, recorded, repairs, answer, result, inspected,
                 history>>

-----------------------------------------------------------------------------
(* What a node reads: each reference must resolve to the very content it   *)
(* was encoded with (read_json checks the hash).                           *)
Inputs(n) ==
  CASE n = "acquire_evidence" -> {"source"}
    [] n = "agent_1" -> {"evidence"}
    [] n = "validate_acquisition" -> {"packet", "evidence"}
    [] n = "retrieve_vault_context" -> {"packet"}
    [] n = "agent_2" -> {"packet"} \cup
         IF revisions = 0 THEN {"retrieval"} ELSE {"draft", "revision"}
    [] n = "validate_drafts" -> {"draft"}
    [] n = "agent_3" -> {"draft", "evidence"}
    [] n = "route_review" -> {"review", "draft"}
    [] OTHER -> {}

Resolves(k) == refs[k] # NoFile /\ disk[<<k, refs[k][1]>>] = refs[k][2]

(* The artifact a node writes.                                             *)
Output(n) ==
  <<KindOf[n],
    CASE n \in {"agent_2", "agent_3"} -> revisions
      [] n = "route_review" -> result.revisions
      [] OTHER -> 0>>

(* The nodes that do not call update_stage.                                *)
Stageless == {"acquire_evidence", "agent_1", "agent_2"}

(* An exception leaves execute; what the node had in memory is lost.       *)
Raise ==
  /\ pc' = "idle"
  /\ answer' = NoFile
  /\ result' = NoFile

-----------------------------------------------------------------------------
(* RunService.execute: a run that is not terminal continues from its       *)
(* checkpoint (acquire_lease has set the status to running).               *)
Execute ==
  /\ pc = "idle"
  /\ next # "end"
  /\ status \notin Outcome
  /\ status' = "running"
  /\ pc' = "call"
  /\ UNCHANGED <<stateVars, disk, recorded, repairs, answer, result, inspected,
                 history>>

Calling(n) ==
  /\ pc = "call"
  /\ next = n
  /\ \A k \in Inputs(n) : Resolves(k)

Answered(a, update) ==
  /\ pc' = "write"
  /\ answer' = a
  /\ result' = update

(* The nodes that only check their inputs and update the row.              *)
Check ==
  /\ \/ \E n \in {"prepare_run", "validate_acquisition", "validate_drafts"} : Calling(n)
     \/ Calling("persist_terminal") /\ outcome # NoFile
  /\ pc' = "stage"
  /\ result' = NoUpdate
  /\ UNCHANGED <<stateVars, storeVars, answer, inspected, history>>

Inspect ==
  /\ Calling("inspect_source")
  /\ \E p \in Answers[<<"source", 0>>] : Answered(p, NoUpdate)
  /\ inspected' = TRUE
  /\ UNCHANGED <<stateVars, storeVars, history>>

(* The provider forgets the source it hands over.                          *)
Acquire ==
  /\ Calling("acquire_evidence")
  /\ inspected \/ Refetchable
  /\ \E p \in Answers[<<"evidence", 0>>] : Answered(p, NoUpdate)
  /\ inspected' = FALSE
  /\ UNCHANGED <<stateVars, storeVars, history>>

Retrieve ==
  /\ Calling("retrieve_vault_context")
  /\ \E p \in Answers[<<"retrieval", 0>>] : Answered(p, NoUpdate)
  /\ UNCHANGED <<stateVars, storeVars, inspected, history>>

(* ensure_agent_budget, then the call.                                     *)
CallAgent(n) ==
  /\ n \in Agents
  /\ Calling(n)
  /\ ledger + 1 <= MaxMainCalls
  /\ \E p \in Answers[Output(n)] : Answered(p, NoUpdate)
  /\ UNCHANGED <<stateVars, storeVars, inspected, history>>

(* ReviewPolicy.evaluate, in its order.                                    *)
Terminal(o, fingerprint) ==
  [NoUpdate EXCEPT !.outcome = o, !.previous = fingerprint]

Decision(review) ==
  CASE review = "rejection" -> Terminal("rejected", NoFile)
    [] review = "enrichment" -> Terminal("enrichment_required", NoFile)
    [] review = "clean" -> Terminal("completed", NoFile)
    [] review \in Issue /\ (revisions >= MaxRevisionCycles \/ review = previous) ->
         Terminal("enrichment_required", review)
    [] OTHER ->
         [NoUpdate EXCEPT !.route = "revise", !.revisions = revisions + 1,
                          !.previous = review, !.outcome = NoFile]

Route ==
  LET decision == Decision(refs["review"][2]) IN
  /\ Calling("route_review")
  /\ result' = decision
  /\ IF decision.route = "revise"
     THEN pc' = "write" /\ answer' = refs["review"][2]
     ELSE pc' = "stage" /\ UNCHANGED answer
  /\ UNCHANGED <<stateVars, storeVars, inspected, history>>

(* A secondary service answers, or its failure becomes a warning and a     *)
(* repair task, whose own failure is swallowed.                            *)
Downgrade(o) == IF o = "completed" THEN "completed_with_warnings" ELSE o

Secondary(t, update) ==
  \/ update = NoUpdate /\ UNCHANGED <<repairs, lost>>
  \/ /\ t \in FlakyTargets
     /\ update = [NoUpdate EXCEPT !.warnings = @ \cup {t}, !.outcome = Downgrade(@)]
     /\ \/ repairs' = repairs \cup {t} /\ UNCHANGED lost
        \/ lost' = lost \cup {t} /\ UNCHANGED repairs

SyncIndex ==
  /\ Calling("sync_index")
  /\ \E update \in Update : Secondary("qdrant", update) /\ result' = update
  /\ pc' = "stage"
  /\ UNCHANGED <<stateVars, disk, recorded, status, answer, inspected, failures>>

FlushTelemetry ==
  /\ Calling("flush_telemetry")
  /\ \E update \in Update :
       /\ Secondary("langfuse", update)
       /\ Answered([warnings |-> update.warnings, outcome |-> update.outcome], update)
  /\ UNCHANGED <<stateVars, disk, recorded, status, inspected, failures>>

(* The call can never succeed: the notebook source was forgotten, the      *)
(* budget is exhausted or an input does not resolve.                       *)
CallRaises ==
  /\ pc = "call"
  /\ \/ \E k \in Inputs(next) : ~ Resolves(k)
     \/ next = "acquire_evidence" /\ ~ (inspected \/ Refetchable)
     \/ next \in Agents /\ ledger + 1 > MaxMainCalls
     \/ next = "persist_terminal" /\ outcome = NoFile
  /\ Raise
  /\ UNCHANGED <<stateVars, storeVars, inspected, history>>

-----------------------------------------------------------------------------
(* write_contract: write_json keeps a file with the same content and       *)
(* refuses another one (IDEMPOTENCY_CONFLICT) ...                          *)
Compatible(file) == file \in {NoFile, answer}

WriteArtifact ==
  LET a == Output(next) IN
  /\ pc = "write"
  /\ IF Compatible(disk[a])
     THEN /\ disk' = [disk EXCEPT ![a] = answer]
          /\ pc' = "record"
          /\ UNCHANGED <<answer, result>>
     ELSE Raise /\ UNCHANGED disk
  /\ UNCHANGED <<stateVars, recorded, status, repairs, inspected, history>>

(* ... and record_artifact does the same in runs.db.                       *)
RecordArtifact ==
  LET a == Output(next) IN
  /\ pc = "record"
  /\ IF Compatible(recorded[a])
     THEN /\ recorded' = [recorded EXCEPT ![a] = answer]
          /\ pc' = IF next \in Stageless THEN "commit" ELSE "stage"
          /\ UNCHANGED <<answer, result>>
     ELSE Raise /\ UNCHANGED recorded
  /\ UNCHANGED <<stateVars, disk, status, repairs, inspected, history>>

(* update_stage; only the last node writes a new status.                   *)
UpdateStage ==
  /\ pc = "stage"
  /\ status' = IF next = "flush_telemetry" THEN result.outcome ELSE "running"
  /\ pc' = "commit"
  /\ UNCHANGED <<stateVars, disk, recorded, repairs, answer, result, inspected,
                 history>>

(* One usage entry per agent call, its contract repair included.           *)
Usage(n) == IF n \in Agents THEN 1 ELSE 0

(* The node returns its update and the checkpoint is saved.                *)
Commit ==
  /\ pc = "commit"
  /\ next' = CASE result.route = "revise" -> "agent_2" [] OTHER -> Successor(next)
  /\ refs' = IF answer = NoFile THEN refs
             ELSE [refs EXCEPT ![KindOf[next]] = <<Output(next)[2], answer>>]
  /\ revisions' = result.revisions
  /\ previous' = result.previous
  /\ warnings' = result.warnings
  /\ outcome' = result.outcome
  /\ ledger' = ledger + Usage(next)
  /\ pc' = IF next = "flush_telemetry" THEN "idle" ELSE "call"
  /\ answer' = NoFile
  /\ result' = NoFile
  /\ UNCHANGED <<storeVars, inspected, history>>

-----------------------------------------------------------------------------
(* Any step of a node may raise, and the process may die at any time.  An   *)
(* acquire that fails may have taken the source off the provider's list.   *)
Fail ==
  /\ pc # "idle"
  /\ failures < MaxFailures
  /\ failures' = failures + 1
  /\ \/ UNCHANGED inspected
     \/ next = "acquire_evidence" /\ pc = "call" /\ inspected' = FALSE
  /\ Raise
  /\ UNCHANGED <<stateVars, storeVars, lost>>

Crash ==
  /\ failures < MaxFailures
  /\ failures' = failures + 1
  /\ inspected' = FALSE
  /\ Raise
  /\ UNCHANGED <<stateVars, storeVars, lost>>

Step ==
  \/ Execute \/ Check \/ Inspect \/ Acquire \/ Retrieve \/ Route \/ SyncIndex
  \/ FlushTelemetry \/ CallRaises \/ WriteArtifact \/ RecordArtifact \/ UpdateStage
  \/ Commit
  \/ \E n \in Agents : CallAgent(n)

Next == Step \/ Fail \/ Crash

Spec == Init /\ [][Next]_vars

(* An unfinished run is delivered and executed again (see Delivery).       *)
FairSpec == Spec /\ WF_vars(Step)

-----------------------------------------------------------------------------
(* The contracts this module implements.                                   *)

(* The nodes behind the checkpoint; the editorial loop counts as one.      *)
NodesDone ==
  [prepare_run |-> 0, inspect_source |-> 1, acquire_evidence |-> 2, agent_1 |-> 3,
   validate_acquisition |-> 4, retrieve_vault_context |-> 5,
   agent_2 |-> 6, validate_drafts |-> 6, agent_3 |-> 6, route_review |-> 6,
   persist_terminal |-> 7, sync_index |-> 8, flush_telemetry |-> 9, end |-> 10]

Run == INSTANCE RunContract WITH
  LastNode <- 10,
  done <- NodesDone[next],
  status <- IF status \in Outcome THEN "terminal" ELSE "open"

(* What a run promises to the worker and the store (see Delivery): its      *)
(* nodes are completed in order, the status becomes terminal only in       *)
(* flush_telemetry, whose checkpoint ends the thread, and no failure, crash *)
(* or later execution takes any of it back.                                *)
ImplementsRun == Run!Spec

(* The nodes before the loop have not begun the first round, the nodes     *)
(* after it only add warnings to the outcome.                              *)
LoopStage ==
  IF next \in {"validate_drafts", "agent_3", "route_review"} THEN next
  ELSE IF next \in {"persist_terminal", "sync_index", "flush_telemetry", "end"}
       THEN "persist_terminal" ELSE "agent_2"

LoopOutcome(o) ==
  CASE o = NoFile -> "none"
    [] o = "completed_with_warnings" -> "completed"
    [] OTHER -> o

Loop == INSTANCE LoopContract WITH
  Fingerprint <- Issue,
  NoFingerprint <- NoFile,
  stage <- LoopStage,
  outcome <- LoopOutcome(outcome)

(* The committed state goes through the editorial loop of LoopContract,     *)
(* however often its nodes fail and are executed again: no failure costs a  *)
(* revision cycle or repeats a revision.                                   *)
ImplementsLoop == Loop!Spec

-----------------------------------------------------------------------------
(* Properties.                                                             *)

(* An artifact, once written, is preserved by every later execution.       *)
ArtifactsPreserved ==
  [][\A a \in Artifact : disk[a] # NoFile => disk'[a] = disk[a]]_vars

(* Whatever failed on the way, every reference in the checkpoint resolves  *)
(* to the content it was made for, on disk and in runs.db.                 *)
ReferencesResolve ==
  \A k \in Kind : refs[k] # NoFile =>
    Resolves(k) /\ recorded[<<k, refs[k][1]>>] = refs[k][2]

(* A terminal row and the run manifest on disk agree on the outcome, and   *)
(* the manifest was recorded before the run was called terminal.           *)
ManifestMatchesStatus ==
  status \in Outcome =>
    LET a == <<"manifest", 0>> IN
    /\ disk[a] # NoFile /\ recorded[a] = disk[a]
    /\ disk[a].outcome = status

(* The committed ledger counts exactly the agent calls of the path the     *)
(* checkpoint took, so the default budget of one acquisition call and two  *)
(* calls per editorial round never stops a run.                            *)
BudgetSuffices ==
  next \in Agents => ledger + 1 <= MaxMainCalls

(* A run that ends with warnings has a repair task for each of them,       *)
(* except those whose task the store refused.                              *)
WarningsHaveRepairs ==
  status \in Outcome => disk[<<"manifest", 0>>].warnings \subseteq repairs \cup lost

(* A run that is interrupted resumes after its last completed node, and    *)
(* ends.                                                                   *)
RunFinishes == <>(status \in Outcome)

=============================================================================

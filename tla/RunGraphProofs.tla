---------------------------- MODULE RunGraphProofs ----------------------------
(***************************************************************************)
(* Proofs about RunGraph, for all answers, issues, budgets and numbers of   *)
(* revisions and failures: the checkpoint, the artifact directory, runs.db  *)
(* and the manifest agree at every step, and the budget lasts.              *)
(***************************************************************************)
EXTENDS RunGraph, TLAPS

-----------------------------------------------------------------------------
(* The tables of the graph, written out.                                   *)

LEMMA Nodes ==
  Node = {"prepare_run", "inspect_source", "acquire_evidence", "agent_1", "validate_acquisition",
          "retrieve_vault_context", "agent_2", "validate_drafts", "agent_3", "route_review",
          "persist_terminal", "sync_index", "flush_telemetry", "end"}
  BY DEF Node, NodeOrder

LEMMA Positions ==
  ASSUME NEW i \in 1 .. 14
  PROVE  Position(NodeOrder[i]) = i
<1>1. DOMAIN NodeOrder = 1 .. 14
  BY DEF NodeOrder
<1>2. \A j \in 1 .. 14 : NodeOrder[j] = NodeOrder[i] => j = i
  BY DEF NodeOrder
<1> QED BY <1>1, <1>2 DEF Position

LEMMA Successors ==
  /\ Successor("prepare_run") = "inspect_source"
  /\ Successor("inspect_source") = "acquire_evidence"
  /\ Successor("acquire_evidence") = "agent_1"
  /\ Successor("agent_1") = "validate_acquisition"
  /\ Successor("validate_acquisition") = "retrieve_vault_context"
  /\ Successor("retrieve_vault_context") = "agent_2"
  /\ Successor("agent_2") = "validate_drafts"
  /\ Successor("validate_drafts") = "agent_3"
  /\ Successor("agent_3") = "route_review"
  /\ Successor("route_review") = "persist_terminal"
  /\ Successor("persist_terminal") = "sync_index"
  /\ Successor("sync_index") = "flush_telemetry"
  /\ Successor("flush_telemetry") = "end"
<1>1. \A i \in 1 .. 13 : Successor(NodeOrder[i]) = NodeOrder[i + 1]
  BY Positions DEF Successor
<1> QED BY <1>1 DEF NodeOrder

LEMMA Kinds ==
  /\ DOMAIN KindOf = {"inspect_source", "acquire_evidence", "agent_1", "retrieve_vault_context",
                      "agent_2", "agent_3", "route_review", "flush_telemetry"}
  /\ KindOf["inspect_source"] = "source"
  /\ KindOf["acquire_evidence"] = "evidence"
  /\ KindOf["agent_1"] = "packet"
  /\ KindOf["retrieve_vault_context"] = "retrieval"
  /\ KindOf["agent_2"] = "draft"
  /\ KindOf["agent_3"] = "review"
  /\ KindOf["route_review"] = "revision"
  /\ KindOf["flush_telemetry"] = "manifest"
  BY DEF KindOf

LEMMA KindsOfNodes == \A n \in DOMAIN KindOf : KindOf[n] \in Kind
  BY DEF Kind

LEMMA Contents ==
  /\ Content("review") = Review
  /\ Content("revision") = Issue
  /\ Content("manifest") = Manifest
  /\ \A k : k \notin {"review", "revision", "manifest"} => Content(k) = Payload
<1>1. Content("review") = Review
  BY DEF Content
<1>2. Content("revision") = Issue
  BY Zenon DEF Content
<1>3. Content("manifest") = Manifest
  BY Zenon DEF Content
<1>4. ASSUME NEW k, k \notin {"review", "revision", "manifest"} PROVE Content(k) = Payload
  BY <1>4 DEF Content
<1> QED BY <1>1, <1>2, <1>3, <1>4

LEMMA OutputRevision ==
  ASSUME NEW n \in DOMAIN KindOf
  PROVE  /\ Output(n)[1] = KindOf[n] /\ Output(n) = <<KindOf[n], Output(n)[2]>>
         /\ n \in {"agent_2", "agent_3"} => Output(n)[2] = revisions
         /\ n = "route_review" => Output(n)[2] = result.revisions
         /\ n \notin {"agent_2", "agent_3", "route_review"} => Output(n)[2] = 0
  BY DEF Output

LEMMA NoFileIsNoContent == \A k : NoFile \notin Content(k)
<1>1. NoFile \notin Payload /\ NoFile \notin Review /\ NoFile \notin Manifest /\ NoFile \notin Issue
  BY AnswersAssumption DEF Review
<1> QED BY <1>1, Contents

-----------------------------------------------------------------------------
(* The inductive invariant.                                                *)

Working == {"write", "record", "stage", "commit"}

(* The tables are total, so that an update of one entry is one.            *)
TablesOK ==
  /\ refs = [k \in Kind |-> refs[k]]
  /\ disk = [a \in Artifact |-> disk[a]]
  /\ recorded = [a \in Artifact |-> recorded[a]]

(* What a node has in hand once its call was made: the update it is going   *)
(* to return and the answer it is going to store.                          *)
UpdateOK ==
  /\ result \in Update
  /\ result.route = "revise" => next = "route_review"
  /\ result.revisions = IF result.route = "revise" THEN revisions + 1 ELSE revisions
  /\ result.warnings \subseteq repairs \cup lost
  /\ next \in {"persist_terminal", "sync_index", "flush_telemetry"} => result.outcome # NoFile
AnswerOK ==
  /\ answer # NoFile => next \in DOMAIN KindOf /\ answer \in Content(KindOf[next])
  /\ pc \in {"write", "record"} => answer # NoFile
  /\ next = "flush_telemetry" =>
       answer = [warnings |-> result.warnings, outcome |-> result.outcome]
InHand ==
  /\ pc \in {"idle", "call"} => answer = NoFile
  /\ pc # "idle" => next # "end"
  /\ pc \in Working => UpdateOK /\ AnswerOK /\ (next \in Agents => ledger + 1 <= MaxMainCalls)

(* How far the answer has come.                                            *)
Stored ==
  /\ pc \in {"record", "stage", "commit"} /\ answer # NoFile => disk[Output(next)] = answer
  /\ pc \in {"stage", "commit"} /\ answer # NoFile => recorded[Output(next)] = answer

(* The ledger and the revisions tell the place of the checkpoint.          *)
LedgerOK ==
  /\ next \in {"prepare_run", "inspect_source", "acquire_evidence", "agent_1"} =>
       ledger = 0 /\ revisions = 0
  /\ next \in {"validate_acquisition", "retrieve_vault_context", "agent_2"} =>
       ledger = 1 + 2 * revisions
  /\ next \in {"validate_drafts", "agent_3"} => ledger = 2 + 2 * revisions
  /\ next = "route_review" => ledger = 3 + 2 * revisions

OutcomeOK == next \in {"sync_index", "flush_telemetry", "end"} => outcome # NoFile

WarningsOK ==
  /\ warnings \subseteq repairs \cup lost
  /\ disk[<<"manifest", 0>>] # NoFile =>
       disk[<<"manifest", 0>>].warnings \subseteq repairs \cup lost

(* A terminal row is the last thing a run writes.                          *)
StatusOK ==
  status \in Outcome =>
    /\ pc = "idle" \/ (pc = "commit" /\ next = "flush_telemetry")
    /\ disk[<<"manifest", 0>>] # NoFile
    /\ recorded[<<"manifest", 0>>] = disk[<<"manifest", 0>>]
    /\ disk[<<"manifest", 0>>].outcome = status

Inv ==
  /\ TypeOK /\ TablesOK
  /\ InHand /\ Stored /\ ReferencesResolve
  /\ LedgerOK /\ OutcomeOK /\ WarningsOK /\ StatusOK

-----------------------------------------------------------------------------
(* Updates and artifacts.                                                  *)

LEMMA NoUpdateIsAnUpdate ==
  ASSUME TypeOK
  PROVE  /\ NoUpdate \in Update
         /\ NoUpdate.route = "next" /\ NoUpdate.revisions = revisions
         /\ NoUpdate.warnings = warnings /\ NoUpdate.outcome = outcome
  BY DEF TypeOK, NoUpdate, Update

LEMMA DecisionIsAnUpdate ==
  ASSUME TypeOK, NEW r \in Review
  PROVE  /\ Decision(r) \in Update
         /\ Decision(r).warnings = warnings
         /\ Decision(r).revisions = IF Decision(r).route = "revise" THEN revisions + 1 ELSE revisions
         /\ Decision(r).route = "revise" => r \in Issue
<1>1. ASSUME NEW o \in Outcome, NEW f \in Issue \cup {NoFile}
      PROVE  /\ Terminal(o, f) \in Update /\ Terminal(o, f).warnings = warnings
             /\ Terminal(o, f).revisions = revisions /\ Terminal(o, f).route = "next"
  BY DEF TypeOK, Terminal, NoUpdate, Update
<1>2. {"rejected", "enrichment_required", "completed"} \subseteq Outcome
  BY DEF Outcome
<1>3. CASE r \in {"rejection", "enrichment", "clean"}
  <2>1. \E o \in {"rejected", "enrichment_required", "completed"} : Decision(r) = Terminal(o, NoFile)
    BY <1>3, AnswersAssumption DEF Decision
  <2> QED BY <1>1, <1>2, <2>1
<1>4. CASE r \in Issue
  <2>1. r \notin {"rejection", "enrichment", "clean"}
    BY <1>4, AnswersAssumption
  <2>2. CASE revisions >= MaxRevisionCycles \/ r = previous
    <3>1. Decision(r) = Terminal("enrichment_required", r)
      BY <1>4, <2>1, <2>2 DEF Decision
    <3> QED BY <1>1, <1>2, <1>4, <3>1
  <2>3. CASE ~ (revisions >= MaxRevisionCycles \/ r = previous)
    <3>1. Decision(r) = [NoUpdate EXCEPT !.route = "revise", !.revisions = revisions + 1,
                                         !.previous = r, !.outcome = NoFile]
      BY <1>4, <2>1, <2>3 DEF Decision
    <3>2. revisions + 1 \in 0 .. MaxRevisionCycles
      BY <2>3, GraphAssumption DEF TypeOK
    <3> QED BY <1>4, <3>1, <3>2 DEF TypeOK, NoUpdate, Update
  <2> QED BY <2>2, <2>3
<1> QED BY <1>3, <1>4 DEF Review

LEMMA OutputIsAnArtifact ==
  ASSUME TypeOK, NEW n \in DOMAIN KindOf, n = "route_review" => result \in Update
  PROVE  /\ Output(n) \in Artifact /\ Output(n)[2] \in 0 .. MaxRevisionCycles
         /\ KindOf[n] \in Kind
<1>1. revisions \in 0 .. MaxRevisionCycles /\ 0 \in 0 .. MaxRevisionCycles
  BY GraphAssumption DEF TypeOK
<1>2. n = "route_review" => result.revisions \in 0 .. MaxRevisionCycles
  BY DEF Update
<1>3. Output(n)[2] \in 0 .. MaxRevisionCycles
  BY <1>1, <1>2, OutputRevision
<1> QED BY <1>3, KindsOfNodes, OutputRevision DEF Artifact

LEMMA ManifestIsAnArtifact ==
  /\ <<"manifest", 0>> \in Artifact
  /\ Output("flush_telemetry") = <<"manifest", 0>>
<1>1. "flush_telemetry" \in DOMAIN KindOf /\ KindOf["flush_telemetry"] = "manifest"
  BY Kinds
<1>2. "manifest" \in Kind /\ 0 \in 0 .. MaxRevisionCycles
  BY <1>1, KindsOfNodes, GraphAssumption
<1> QED BY <1>1, <1>2, OutputRevision DEF Artifact

-----------------------------------------------------------------------------
(* Calls.  Each ends with a state where the node has its answer in hand,    *)
(* and has touched neither the checkpoint nor the artifacts.               *)

Called ==
  /\ pc = "call" /\ pc' \in {"write", "stage"}
  /\ (pc' = "stage" => answer' = NoFile)
  /\ UNCHANGED <<stateVars, disk, recorded, status, failures>>
  /\ repairs \subseteq repairs' /\ repairs' \subseteq Target
  /\ lost \subseteq lost' /\ lost' \subseteq Target
  /\ inspected' \in BOOLEAN
  /\ UpdateOK' /\ AnswerOK'
  /\ next \in Agents => ledger + 1 <= MaxMainCalls

LEMMA CalledKeeps ==
  ASSUME Inv, Called
  PROVE  Inv'
<1>0. TypeOK /\ TablesOK /\ InHand /\ Stored /\ ReferencesResolve /\ LedgerOK /\ OutcomeOK
      /\ WarningsOK /\ StatusOK
  BY DEF Inv
<1>1. UNCHANGED <<next, refs, revisions, previous, ledger, warnings, outcome, disk, recorded,
                  status, failures>>
  BY DEF Called, stateVars
<1>2. TypeOK' /\ TablesOK'
  BY <1>0, <1>1 DEF TypeOK, TablesOK, Called, UpdateOK
<1>3. InHand'
  BY <1>0, <1>1 DEF InHand, Called
<1>4. Stored'
  BY <1>1 DEF Stored, Called
<1>5. ReferencesResolve' /\ LedgerOK' /\ OutcomeOK'
  BY <1>0, <1>1 DEF ReferencesResolve, Resolves, LedgerOK, OutcomeOK
<1>6. WarningsOK'
  BY <1>0, <1>1 DEF WarningsOK, Called
<1>7. StatusOK'
  BY <1>0, <1>1 DEF StatusOK, Called
<1> QED BY <1>2, <1>3, <1>4, <1>5, <1>6, <1>7 DEF Inv

LEMMA CallFacts ==
  ASSUME Inv, NEW n \in Node, Calling(n)
  PROVE  /\ pc = "call" /\ next = n /\ answer = NoFile
         /\ repairs \subseteq Target /\ lost \subseteq Target
         /\ inspected \in BOOLEAN
  BY DEF Inv, TypeOK, InHand, Calling

LEMMA NoUpdateWorks ==
  ASSUME Inv, result' = NoUpdate, UNCHANGED <<stateVars, repairs, lost>>,
         next # "flush_telemetry", next = "persist_terminal" => outcome # NoFile
  PROVE  UpdateOK'
<1>1. UNCHANGED <<next, revisions, warnings, outcome>>
  BY DEF stateVars
<1>2. next = "sync_index" => outcome # NoFile
  BY DEF Inv, OutcomeOK
<1>3. warnings \subseteq repairs \cup lost
  BY DEF Inv, WarningsOK
<1>4. /\ NoUpdate \in Update
      /\ NoUpdate.route = "next" /\ NoUpdate.revisions = revisions
      /\ NoUpdate.warnings = warnings /\ NoUpdate.outcome = outcome
  BY NoUpdateIsAnUpdate DEF Inv
<1> QED BY <1>1, <1>2, <1>3, <1>4 DEF UpdateOK

LEMMA CheckCalls ==
  ASSUME Inv, Check
  PROVE  Called
<1>1. PICK n \in {"prepare_run", "validate_acquisition", "validate_drafts", "persist_terminal"} :
        Calling(n) /\ (n = "persist_terminal" => outcome # NoFile)
  BY DEF Check
<1>2. /\ pc = "call" /\ next = n /\ answer = NoFile
      /\ repairs \subseteq Target /\ lost \subseteq Target
      /\ inspected \in BOOLEAN
  BY <1>1, CallFacts, Nodes
<1>3. /\ pc' = "stage" /\ result' = NoUpdate /\ UNCHANGED answer
      /\ UNCHANGED <<stateVars, disk, recorded, status, repairs, inspected, lost, failures>>
  BY DEF Check, storeVars, history
<1>4. UpdateOK'
  BY <1>1, <1>2, <1>3, NoUpdateWorks
<1>5. AnswerOK'
  BY <1>2, <1>3 DEF AnswerOK, stateVars
<1>6. next \notin Agents
  BY <1>2 DEF Agents
<1> QED BY <1>2, <1>3, <1>4, <1>5, <1>6 DEF Called

(* A node that stores what it got and updates nothing else.                *)
LEMMA AnswersWork ==
  ASSUME Inv, NEW n \in DOMAIN KindOf, Calling(n), n \notin {"route_review", "flush_telemetry"},
         NEW p \in Content(KindOf[n]), Answered(p, NoUpdate),
         UNCHANGED <<stateVars, repairs, lost>>
  PROVE  /\ pc' = "write" /\ UpdateOK' /\ AnswerOK'
<1>1. next = n /\ next # "flush_telemetry" /\ next # "persist_terminal" /\ next' = next
  BY Kinds DEF Calling, stateVars
<1>2. pc' = "write" /\ answer' = p /\ result' = NoUpdate
  BY DEF Answered
<1>3. UpdateOK'
  BY <1>1, <1>2, NoUpdateWorks
<1>4. AnswerOK'
  <2>1. p # NoFile
    BY NoFileIsNoContent
  <2> QED BY <1>1, <1>2, <2>1 DEF AnswerOK
<1> QED BY <1>2, <1>3, <1>4

LEMMA FirstArtifacts ==
  ASSUME NEW n \in DOMAIN KindOf
  PROVE  /\ \A r \in 0 .. MaxRevisionCycles : Answers[<<KindOf[n], r>>] \subseteq Content(KindOf[n])
         /\ 0 \in 0 .. MaxRevisionCycles
<1>1. \A r \in 0 .. MaxRevisionCycles : <<KindOf[n], r>> \in Artifact
  BY KindsOfNodes DEF Artifact
<1>2. 0 \in 0 .. MaxRevisionCycles
  BY GraphAssumption
<1> QED BY <1>1, <1>2, AnswersAssumption

LEMMA ProviderCalls ==
  ASSUME Inv, Inspect \/ Acquire \/ Retrieve
  PROVE  Called
<1>1. PICK n \in {"inspect_source", "acquire_evidence", "retrieve_vault_context"} :
        /\ Calling(n)
        /\ \E p \in Answers[<<KindOf[n], 0>>] : Answered(p, NoUpdate)
  BY Kinds DEF Inspect, Acquire, Retrieve
<1>2. n \in DOMAIN KindOf /\ n \in Node /\ n \notin {"route_review", "flush_telemetry"}
      /\ n \notin Agents
  BY Kinds, Nodes DEF Agents
<1>3. /\ inspected' \in {TRUE, FALSE, inspected}
      /\ UNCHANGED <<stateVars, disk, recorded, status, repairs, lost, failures>>
  BY DEF Inspect, Acquire, Retrieve, storeVars, history
<1>4. /\ pc = "call" /\ next = n
      /\ repairs \subseteq Target /\ lost \subseteq Target
      /\ inspected \in BOOLEAN
  BY <1>1, <1>2, CallFacts
<1>5. PICK p \in Content(KindOf[n]) : Answered(p, NoUpdate)
  BY <1>1, <1>2, FirstArtifacts
<1>6. pc' = "write" /\ UpdateOK' /\ AnswerOK'
  BY <1>1, <1>2, <1>3, <1>5, AnswersWork
<1> QED BY <1>2, <1>3, <1>4, <1>6 DEF Called

LEMMA AgentCalls ==
  ASSUME Inv, NEW n \in Agents, CallAgent(n)
  PROVE  Called
<1>1. n \in DOMAIN KindOf /\ n \in Node /\ n \notin {"route_review", "flush_telemetry"}
  BY Kinds, Nodes DEF Agents
<1>2. /\ Calling(n) /\ ledger + 1 <= MaxMainCalls
      /\ \E p \in Answers[Output(n)] : Answered(p, NoUpdate)
      /\ UNCHANGED <<stateVars, disk, recorded, status, repairs, inspected, lost, failures>>
  BY DEF CallAgent, storeVars, history
<1>3. /\ pc = "call" /\ next = n
      /\ repairs \subseteq Target /\ lost \subseteq Target
      /\ inspected \in BOOLEAN
  BY <1>1, <1>2, CallFacts
<1>4. PICK p \in Content(KindOf[n]) : Answered(p, NoUpdate)
  <2>1. Output(n)[2] \in 0 .. MaxRevisionCycles
    BY <1>1, OutputIsAnArtifact DEF Inv
  <2>2. Answers[Output(n)] \subseteq Content(KindOf[n])
    BY <1>1, <2>1, OutputRevision, FirstArtifacts
  <2> QED BY <1>2, <2>2
<1>5. pc' = "write" /\ UpdateOK' /\ AnswerOK'
  BY <1>1, <1>2, <1>4, AnswersWork
<1> QED BY <1>2, <1>3, <1>5 DEF Called

LEMMA RouteCalls ==
  ASSUME Inv, Route
  PROVE  Called
<1> DEFINE r == refs["review"][2]
<1>1. /\ Calling("route_review") /\ result' = Decision(r)
      /\ IF Decision(r).route = "revise" THEN pc' = "write" /\ answer' = r
         ELSE pc' = "stage" /\ UNCHANGED answer
      /\ UNCHANGED <<stateVars, disk, recorded, status, repairs, inspected, lost, failures>>
  BY DEF Route, storeVars, history
<1>2. /\ pc = "call" /\ next = "route_review" /\ answer = NoFile
      /\ repairs \subseteq Target /\ lost \subseteq Target
      /\ inspected \in BOOLEAN
  BY <1>1, CallFacts, Nodes
<1>3. r \in Review
  <2>1. Resolves("review")
    BY <1>1 DEF Calling, Inputs
  <2>2. "review" \in Kind
    BY Kinds, KindsOfNodes
  <2>3. refs["review"] \in (0 .. MaxRevisionCycles) \X Review
    BY <2>1, <2>2, Contents DEF Inv, TypeOK, Resolves
  <2> QED BY <2>3
<1>4. /\ Decision(r) \in Update /\ Decision(r).warnings = warnings
      /\ Decision(r).revisions = IF Decision(r).route = "revise" THEN revisions + 1 ELSE revisions
      /\ Decision(r).route = "revise" => r \in Issue
  BY <1>3, DecisionIsAnUpdate DEF Inv
<1>5. UNCHANGED <<next, revisions, warnings>> /\ warnings \subseteq repairs \cup lost
  BY <1>1 DEF stateVars, Inv, WarningsOK
<1>6. UpdateOK'
  <2> HIDE DEF r
  <2> QED BY <1>1, <1>2, <1>4, <1>5 DEF UpdateOK
<1>7. AnswerOK'
  <2>1. next' = "route_review" /\ next' \in DOMAIN KindOf /\ Content(KindOf[next']) = Issue
    BY <1>2, <1>5, Kinds, Contents
  <2>2. \A f \in Issue : f # NoFile
    BY NoFileIsNoContent, Contents
  <2> HIDE DEF r
  <2> QED BY <1>1, <1>2, <1>4, <2>1, <2>2 DEF AnswerOK
<1>8. next \notin Agents
  BY <1>2 DEF Agents
<1> HIDE DEF r
<1> QED BY <1>1, <1>2, <1>6, <1>7, <1>8 DEF Called

LEMMA SecondaryUpdates ==
  ASSUME Inv, next \in {"sync_index", "flush_telemetry"}, NEW t \in Target, NEW u \in Update,
         Secondary(t, u)
  PROVE  /\ u.route = "next" /\ u.revisions = revisions /\ u.outcome \in Outcome /\ u.outcome # NoFile
         /\ repairs \subseteq repairs' /\ repairs' \subseteq Target
         /\ lost \subseteq lost' /\ lost' \subseteq Target
         /\ u.warnings \subseteq repairs' \cup lost'
<1>1. /\ NoUpdate \in Update
      /\ NoUpdate.route = "next" /\ NoUpdate.revisions = revisions
      /\ NoUpdate.warnings = warnings /\ NoUpdate.outcome = outcome
  BY NoUpdateIsAnUpdate DEF Inv
<1>2. /\ repairs \subseteq Target /\ lost \subseteq Target /\ warnings \subseteq repairs \cup lost
      /\ outcome \in Outcome /\ outcome # NoFile
  BY DEF Inv, TypeOK, WarningsOK, OutcomeOK
<1>3. CASE u = NoUpdate /\ UNCHANGED <<repairs, lost>>
  BY <1>1, <1>2, <1>3
<1>4. CASE /\ u = [NoUpdate EXCEPT !.warnings = @ \cup {t}, !.outcome = Downgrade(@)]
           /\ \/ repairs' = repairs \cup {t} /\ UNCHANGED lost
              \/ lost' = lost \cup {t} /\ UNCHANGED repairs
  <2>1. /\ u.route = "next" /\ u.revisions = revisions
        /\ u.warnings = warnings \cup {t} /\ u.outcome = Downgrade(outcome)
    BY <1>4 DEF NoUpdate
  <2>2. Downgrade(outcome) \in Outcome /\ Downgrade(outcome) # NoFile
    BY <1>2, AnswersAssumption DEF Downgrade, Outcome
  <2> QED BY <1>2, <1>4, <2>1, <2>2
<1> QED BY <1>3, <1>4 DEF Secondary

LEMMA SyncCalls ==
  ASSUME Inv, SyncIndex
  PROVE  Called
<1>1. PICK u \in Update : Secondary("qdrant", u) /\ result' = u
  BY DEF SyncIndex
<1>2. /\ Calling("sync_index") /\ pc' = "stage" /\ UNCHANGED answer
      /\ UNCHANGED <<stateVars, disk, recorded, status, inspected, failures>>
  BY DEF SyncIndex
<1>3. /\ pc = "call" /\ next = "sync_index" /\ answer = NoFile
      /\ inspected \in BOOLEAN
  BY <1>2, CallFacts, Nodes
<1>4. /\ u.route = "next" /\ u.revisions = revisions /\ u.outcome # NoFile
      /\ repairs \subseteq repairs' /\ repairs' \subseteq Target
      /\ lost \subseteq lost' /\ lost' \subseteq Target
      /\ u.warnings \subseteq repairs' \cup lost'
  BY <1>1, <1>3, SecondaryUpdates DEF Target
<1>5. UNCHANGED <<next, revisions>>
  BY <1>2 DEF stateVars
<1>6. UpdateOK'
  BY <1>1, <1>3, <1>4, <1>5 DEF UpdateOK
<1>7. AnswerOK'
  BY <1>2, <1>3, <1>5 DEF AnswerOK
<1>8. next \notin Agents
  BY <1>3 DEF Agents
<1> QED BY <1>2, <1>3, <1>4, <1>6, <1>7, <1>8 DEF Called

LEMMA FlushCalls ==
  ASSUME Inv, FlushTelemetry
  PROVE  Called
<1>1. PICK u \in Update :
        /\ Secondary("langfuse", u)
        /\ Answered([warnings |-> u.warnings, outcome |-> u.outcome], u)
  BY DEF FlushTelemetry
<1>2. /\ Calling("flush_telemetry")
      /\ UNCHANGED <<stateVars, disk, recorded, status, inspected, failures>>
  BY DEF FlushTelemetry
<1>3. /\ pc = "call" /\ next = "flush_telemetry"
      /\ inspected \in BOOLEAN
  BY <1>2, CallFacts, Nodes
<1>4. /\ u.route = "next" /\ u.revisions = revisions /\ u.outcome \in Outcome /\ u.outcome # NoFile
      /\ repairs \subseteq repairs' /\ repairs' \subseteq Target
      /\ lost \subseteq lost' /\ lost' \subseteq Target
      /\ u.warnings \subseteq repairs' \cup lost'
  BY <1>1, <1>3, SecondaryUpdates DEF Target
<1>5. UNCHANGED <<next, revisions>>
  BY <1>2 DEF stateVars
<1>6. /\ pc' = "write" /\ result' = u
      /\ answer' = [warnings |-> u.warnings, outcome |-> u.outcome]
  BY <1>1 DEF Answered
<1>7. UpdateOK'
  BY <1>1, <1>3, <1>4, <1>5, <1>6 DEF UpdateOK
<1>8. AnswerOK'
  <2>1. u.warnings \in SUBSET Target
    BY <1>1 DEF Update
  <2>2. answer' \in Manifest
    BY <1>4, <1>6, <2>1 DEF Manifest
  <2>3. answer' # NoFile /\ Content("manifest") = Manifest
    BY <2>2, NoFileIsNoContent, Contents
  <2>4. next' \in DOMAIN KindOf /\ KindOf[next'] = "manifest"
    BY <1>3, <1>5, Kinds
  <2> QED BY <1>6, <2>2, <2>3, <2>4 DEF AnswerOK
<1>9. next \notin Agents
  BY <1>3 DEF Agents
<1> QED BY <1>2, <1>3, <1>4, <1>6, <1>7, <1>8, <1>9 DEF Called

-----------------------------------------------------------------------------
(* The other steps.                                                        *)

LEMMA RaiseKeeps ==
  ASSUME Inv, Raise, UNCHANGED <<stateVars, storeVars, lost>>,
         inspected' \in BOOLEAN, failures' \in 0 .. MaxFailures
  PROVE  Inv'
<1>0. TypeOK /\ TablesOK /\ InHand /\ Stored /\ ReferencesResolve /\ LedgerOK /\ OutcomeOK
      /\ WarningsOK /\ StatusOK
  BY DEF Inv
<1>1. /\ UNCHANGED <<next, refs, revisions, previous, ledger, warnings, outcome>>
      /\ UNCHANGED <<disk, recorded, status, repairs, lost>>
      /\ pc' = "idle" /\ answer' = NoFile /\ result' = NoFile
  BY DEF stateVars, storeVars, Raise
<1>2. TypeOK' /\ TablesOK'
  BY <1>0, <1>1 DEF TypeOK, TablesOK
<1>3. InHand' /\ Stored'
  BY <1>1 DEF InHand, Stored, Working
<1>4. ReferencesResolve' /\ LedgerOK' /\ OutcomeOK' /\ WarningsOK'
  BY <1>0, <1>1 DEF ReferencesResolve, Resolves, LedgerOK, OutcomeOK, WarningsOK
<1>5. StatusOK'
  BY <1>0, <1>1 DEF StatusOK
<1> QED BY <1>2, <1>3, <1>4, <1>5 DEF Inv

LEMMA FailuresKeep ==
  ASSUME Inv, CallRaises \/ Fail \/ Crash
  PROVE  Inv'
<1>1. failures \in 0 .. MaxFailures /\ inspected \in BOOLEAN
  BY DEF Inv, TypeOK
<1>2. Raise /\ UNCHANGED <<stateVars, storeVars, lost>>
  BY DEF CallRaises, Fail, Crash, history
<1>3. inspected' \in BOOLEAN
  BY <1>1 DEF CallRaises, Fail, Crash
<1>4. failures' \in 0 .. MaxFailures
  BY <1>1, GraphAssumption DEF CallRaises, Fail, Crash, history
<1> QED BY <1>1, <1>2, <1>3, <1>4, RaiseKeeps

LEMMA ExecuteKeeps ==
  ASSUME Inv, Execute
  PROVE  Inv'
<1>0. TypeOK /\ TablesOK /\ InHand /\ Stored /\ ReferencesResolve /\ LedgerOK /\ OutcomeOK
      /\ WarningsOK /\ StatusOK
  BY DEF Inv
<1>1. /\ pc = "idle" /\ pc' = "call" /\ next # "end" /\ status' = "running"
      /\ UNCHANGED <<next, refs, revisions, previous, ledger, warnings, outcome>>
      /\ UNCHANGED <<disk, recorded, repairs, answer, result, inspected, lost, failures>>
  BY DEF Execute, stateVars, history
<1>2. TypeOK' /\ TablesOK'
  BY <1>0, <1>1 DEF TypeOK, TablesOK
<1>3. InHand' /\ Stored'
  BY <1>0, <1>1 DEF InHand, Stored, Working
<1>4. ReferencesResolve' /\ LedgerOK' /\ OutcomeOK' /\ WarningsOK'
  BY <1>0, <1>1 DEF ReferencesResolve, Resolves, LedgerOK, OutcomeOK, WarningsOK
<1>5. StatusOK'
  BY <1>1 DEF StatusOK, Outcome
<1> QED BY <1>2, <1>3, <1>4, <1>5 DEF Inv

(* A step within a node, between its call and its end.                     *)
LEMMA WithinNode ==
  ASSUME InHand, pc \in Working, pc' \in {"record", "stage", "commit"},
         UNCHANGED <<next, revisions, ledger, repairs, lost, answer, result>>,
         pc' = "record" => answer # NoFile
  PROVE  InHand'
  BY DEF InHand, Working, UpdateOK, AnswerOK

LEMMA AnswerHasAPlace ==
  ASSUME Inv, pc \in Working, answer # NoFile
  PROVE  /\ next \in DOMAIN KindOf /\ answer \in Content(KindOf[next])
         /\ Output(next) \in Artifact /\ Output(next)[1] = KindOf[next]
         /\ Output(next) = <<"manifest", 0>> => next = "flush_telemetry"
<1>1. next \in DOMAIN KindOf /\ answer \in Content(KindOf[next]) /\ result \in Update
  BY DEF Inv, InHand, UpdateOK, AnswerOK
<1>2. Output(next) \in Artifact /\ Output(next)[1] = KindOf[next]
  BY <1>1, OutputIsAnArtifact, OutputRevision DEF Inv
<1>3. Output(next) = <<"manifest", 0>> => KindOf[next] = "manifest"
  BY <1>2
<1> QED BY <1>1, <1>2, <1>3, Kinds

LEMMA OutputStays ==
  ASSUME UNCHANGED <<next, revisions, result>>
  PROVE  Output(next)' = Output(next)
  BY DEF Output

LEMMA WriteArtifactWrites ==
  ASSUME Inv, WriteArtifact, Compatible(disk[Output(next)])
  PROVE  Inv' /\ \A a \in Artifact : disk[a] # NoFile => disk'[a] = disk[a]
<1> DEFINE o == Output(next)
<1>0. TypeOK /\ TablesOK /\ InHand /\ Stored /\ ReferencesResolve /\ LedgerOK /\ OutcomeOK
      /\ WarningsOK /\ StatusOK
  BY DEF Inv
<1>1. /\ pc = "write" /\ pc' = "record" /\ disk' = [disk EXCEPT ![o] = answer]
      /\ UNCHANGED <<next, refs, revisions, previous, ledger, warnings, outcome>>
      /\ UNCHANGED <<recorded, status, repairs, answer, result, inspected, lost, failures>>
  BY DEF WriteArtifact, stateVars, history
<1>2. pc \in Working /\ answer # NoFile
  BY <1>0, <1>1 DEF Working, InHand, AnswerOK
<1>3. /\ next \in DOMAIN KindOf /\ answer \in Content(KindOf[next])
      /\ o \in Artifact /\ o[1] = KindOf[next]
      /\ o = <<"manifest", 0>> => next = "flush_telemetry"
  BY <1>2, AnswerHasAPlace
<1>4. disk[o] \in {NoFile, answer}
  BY DEF Compatible
<1>5. Output(next)' = o
  BY <1>1, OutputStays
<1> HIDE DEF o
<1>6. /\ disk' = [a \in Artifact |-> disk'[a]] /\ disk'[o] = answer
      /\ \A a \in Artifact : a # o => disk'[a] = disk[a]
      /\ \A a \in Artifact : disk[a] # NoFile => disk'[a] = disk[a]
  BY <1>0, <1>1, <1>3, <1>4 DEF TablesOK
<1>7. TypeOK'
  <2>1. \A a \in Artifact : disk'[a] \in Content(a[1]) \cup {NoFile}
    BY <1>0, <1>3, <1>6 DEF TypeOK
  <2> QED BY <1>0, <1>1, <2>1 DEF TypeOK
<1>8. TablesOK'
  BY <1>0, <1>1, <1>6 DEF TablesOK
<1>9. InHand'
  BY <1>0, <1>1, <1>2, WithinNode
<1>10. Stored'
  BY <1>1, <1>5, <1>6 DEF Stored
<1>11. ReferencesResolve'
  <2>1. ASSUME NEW k \in Kind, refs[k] # NoFile
        PROVE  disk'[<<k, refs[k][1]>>] = refs[k][2] /\ recorded[<<k, refs[k][1]>>] = refs[k][2]
    <3>1. <<k, refs[k][1]>> \in Artifact /\ refs[k][2] \in Content(k)
      BY <1>0, <2>1 DEF TypeOK, Artifact
    <3>2. refs[k][2] # NoFile
      BY <3>1, NoFileIsNoContent
    <3>3. disk[<<k, refs[k][1]>>] = refs[k][2] /\ recorded[<<k, refs[k][1]>>] = refs[k][2]
      BY <1>0, <2>1 DEF ReferencesResolve, Resolves
    <3> QED BY <1>6, <3>1, <3>2, <3>3
  <2> QED BY <1>1, <2>1 DEF ReferencesResolve, Resolves
<1>12. LedgerOK' /\ OutcomeOK'
  BY <1>0, <1>1 DEF LedgerOK, OutcomeOK
<1>13. WarningsOK'
  <2>1. CASE o = <<"manifest", 0>>
    <3>1. answer.warnings = result.warnings /\ result.warnings \subseteq repairs \cup lost
      BY <1>0, <1>2, <1>3, <2>1 DEF InHand, AnswerOK, UpdateOK
    <3> QED BY <1>0, <1>1, <1>6, <2>1, <3>1 DEF WarningsOK
  <2>2. CASE o # <<"manifest", 0>>
    BY <1>0, <1>1, <1>6, <2>2, ManifestIsAnArtifact DEF WarningsOK
  <2> QED BY <2>1, <2>2
<1>14. StatusOK'
  BY <1>0, <1>1 DEF StatusOK
<1> QED BY <1>6, <1>7, <1>8, <1>9, <1>10, <1>11, <1>12, <1>13, <1>14 DEF Inv

LEMMA RecordArtifactRecords ==
  ASSUME Inv, RecordArtifact, Compatible(recorded[Output(next)])
  PROVE  Inv'
<1> DEFINE o == Output(next)
<1>0. TypeOK /\ TablesOK /\ InHand /\ Stored /\ ReferencesResolve /\ LedgerOK /\ OutcomeOK
      /\ WarningsOK /\ StatusOK
  BY DEF Inv
<1>1. /\ pc = "record" /\ pc' \in {"stage", "commit"} /\ recorded' = [recorded EXCEPT ![o] = answer]
      /\ UNCHANGED <<next, refs, revisions, previous, ledger, warnings, outcome>>
      /\ UNCHANGED <<disk, status, repairs, answer, result, inspected, lost, failures>>
  BY DEF RecordArtifact, stateVars, history
<1>2. pc \in Working /\ answer # NoFile
  BY <1>0, <1>1 DEF Working, InHand, AnswerOK
<1>3. /\ next \in DOMAIN KindOf /\ answer \in Content(KindOf[next])
      /\ o \in Artifact /\ o[1] = KindOf[next]
  BY <1>2, AnswerHasAPlace
<1>4. recorded[o] \in {NoFile, answer}
  BY DEF Compatible
<1>5. Output(next)' = o
  BY <1>1, OutputStays
<1>6. disk[o] = answer
  BY <1>0, <1>1, <1>2 DEF Stored
<1> HIDE DEF o
<1>7. /\ recorded' = [a \in Artifact |-> recorded'[a]] /\ recorded'[o] = answer
      /\ \A a \in Artifact : recorded[a] # NoFile => recorded'[a] = recorded[a]
      /\ \A a \in Artifact : a # o => recorded'[a] = recorded[a]
  BY <1>0, <1>1, <1>3, <1>4 DEF TablesOK
<1>8. TypeOK'
  <2>1. \A a \in Artifact : recorded'[a] \in Content(a[1]) \cup {NoFile}
    BY <1>0, <1>3, <1>7 DEF TypeOK
  <2> QED BY <1>0, <1>1, <2>1 DEF TypeOK
<1>9. TablesOK'
  BY <1>0, <1>1, <1>7 DEF TablesOK
<1>10. InHand'
  BY <1>0, <1>1, <1>2, WithinNode
<1>11. Stored'
  BY <1>1, <1>5, <1>6, <1>7 DEF Stored
<1>12. ReferencesResolve'
  <2>1. ASSUME NEW k \in Kind, refs[k] # NoFile
        PROVE  disk[<<k, refs[k][1]>>] = refs[k][2] /\ recorded'[<<k, refs[k][1]>>] = refs[k][2]
    <3>1. <<k, refs[k][1]>> \in Artifact /\ refs[k][2] \in Content(k)
      BY <1>0, <2>1 DEF TypeOK, Artifact
    <3>2. refs[k][2] # NoFile
      BY <3>1, NoFileIsNoContent
    <3>3. disk[<<k, refs[k][1]>>] = refs[k][2] /\ recorded[<<k, refs[k][1]>>] = refs[k][2]
      BY <1>0, <2>1 DEF ReferencesResolve, Resolves
    <3> QED BY <1>7, <3>1, <3>2, <3>3
  <2> QED BY <1>1, <2>1 DEF ReferencesResolve, Resolves
<1>13. LedgerOK' /\ OutcomeOK' /\ WarningsOK'
  BY <1>0, <1>1 DEF LedgerOK, OutcomeOK, WarningsOK
<1>14. StatusOK'
  BY <1>0, <1>1 DEF StatusOK
<1> QED BY <1>8, <1>9, <1>10, <1>11, <1>12, <1>13, <1>14 DEF Inv

LEMMA StoringKeeps ==
  ASSUME Inv, WriteArtifact \/ RecordArtifact
  PROVE  Inv'
<1>1. CASE WriteArtifact /\ Compatible(disk[Output(next)])
  BY <1>1, WriteArtifactWrites
<1>2. CASE RecordArtifact /\ Compatible(recorded[Output(next)])
  BY <1>2, RecordArtifactRecords
<1>3. CASE \/ WriteArtifact /\ ~ Compatible(disk[Output(next)])
           \/ RecordArtifact /\ ~ Compatible(recorded[Output(next)])
  <2>1. Raise /\ UNCHANGED <<stateVars, disk, recorded, status, repairs, inspected, lost, failures>>
    BY <1>3 DEF WriteArtifact, RecordArtifact, history
  <2>2. inspected \in BOOLEAN /\ failures \in 0 .. MaxFailures
    BY DEF Inv, TypeOK
  <2> QED BY <2>1, <2>2, RaiseKeeps DEF storeVars
<1> QED BY <1>1, <1>2, <1>3

LEMMA UpdateStageKeeps ==
  ASSUME Inv, UpdateStage
  PROVE  Inv'
<1>0. TypeOK /\ TablesOK /\ InHand /\ Stored /\ ReferencesResolve /\ LedgerOK /\ OutcomeOK
      /\ WarningsOK /\ StatusOK
  BY DEF Inv
<1>1. /\ pc = "stage" /\ pc' = "commit"
      /\ status' = IF next = "flush_telemetry" THEN result.outcome ELSE "running"
      /\ UNCHANGED <<next, refs, revisions, previous, ledger, warnings, outcome>>
      /\ UNCHANGED <<disk, recorded, repairs, answer, result, inspected, lost, failures>>
  BY DEF UpdateStage, stateVars, history
<1>2. pc \in Working /\ UpdateOK /\ AnswerOK
  BY <1>0, <1>1 DEF Working, InHand
<1>3. next = "flush_telemetry" => result.outcome \in Outcome
  BY <1>2 DEF UpdateOK, Update
<1>4. TypeOK' /\ TablesOK'
  BY <1>0, <1>1, <1>3 DEF TypeOK, TablesOK
<1>5. InHand'
  BY <1>0, <1>1, <1>2, WithinNode
<1>6. Stored'
  BY <1>0, <1>1, OutputStays DEF Stored
<1>7. ReferencesResolve' /\ LedgerOK' /\ OutcomeOK' /\ WarningsOK'
  BY <1>0, <1>1 DEF ReferencesResolve, Resolves, LedgerOK, OutcomeOK, WarningsOK
<1>8. StatusOK'
  <2>1. CASE next = "flush_telemetry"
    <3>1. answer = [warnings |-> result.warnings, outcome |-> result.outcome] /\ answer # NoFile
      <4>1. answer = [warnings |-> result.warnings, outcome |-> result.outcome]
        BY <1>2, <2>1 DEF AnswerOK
      <4>2. answer \in Manifest
        BY <1>2, <1>3, <2>1, <4>1 DEF UpdateOK, Update, Manifest
      <4> QED BY <4>1, <4>2, AnswersAssumption
    <3>2. disk[<<"manifest", 0>>] = answer /\ recorded[<<"manifest", 0>>] = answer
      BY <1>0, <1>1, <2>1, <3>1, ManifestIsAnArtifact DEF Stored
    <3>3. disk[<<"manifest", 0>>].outcome = result.outcome
      BY <3>1, <3>2
    <3> QED BY <1>1, <2>1, <3>1, <3>2, <3>3 DEF StatusOK
  <2>2. CASE next # "flush_telemetry"
    BY <1>1, <2>2 DEF StatusOK, Outcome
  <2> QED BY <2>1, <2>2
<1> QED BY <1>4, <1>5, <1>6, <1>7, <1>8 DEF Inv

LEMMA NextNode ==
  ASSUME NEW n \in Node, n # "end"
  PROVE  /\ Successor(n) \in Node
         /\ Successor(n) = "end" => n = "flush_telemetry"
         /\ Successor(n) # "prepare_run"
  BY Nodes, Successors

LEMMA CommitKeeps ==
  ASSUME Inv, Commit
  PROVE  Inv'
<1> DEFINE o == Output(next)
           k == KindOf[next]
<1>0. TypeOK /\ TablesOK /\ InHand /\ Stored /\ ReferencesResolve /\ LedgerOK /\ OutcomeOK
      /\ WarningsOK /\ StatusOK
  BY DEF Inv
<1>1. /\ pc = "commit"
      /\ refs' = IF answer = NoFile THEN refs ELSE [refs EXCEPT ![k] = <<o[2], answer>>]
      /\ revisions' = result.revisions /\ previous' = result.previous
      /\ warnings' = result.warnings /\ outcome' = result.outcome
      /\ ledger' = ledger + Usage(next)
      /\ pc' = IF next = "flush_telemetry" THEN "idle" ELSE "call"
      /\ answer' = NoFile /\ result' = NoFile
      /\ UNCHANGED <<disk, recorded, status, repairs, inspected, lost, failures>>
  BY DEF Commit, storeVars, history
<1>2. next' = IF result.route = "revise" THEN "agent_2" ELSE Successor(next)
  BY DEF Commit
<1>3. /\ next \in Node /\ next # "end" /\ UpdateOK /\ AnswerOK /\ result \in Update
      /\ next \in Agents => ledger + 1 <= MaxMainCalls
  BY <1>0, <1>1 DEF TypeOK, InHand, Working, UpdateOK
<1>4. answer # NoFile =>
        /\ k \in Kind /\ o \in Artifact /\ o = <<k, o[2]>> /\ o[2] \in 0 .. MaxRevisionCycles
        /\ answer \in Content(k) /\ disk[o] = answer /\ recorded[o] = answer
  <2>1. ASSUME answer # NoFile
        PROVE  next \in DOMAIN KindOf /\ answer \in Content(k)
    BY <1>3, <2>1 DEF AnswerOK
  <2>2. ASSUME answer # NoFile
        PROVE  disk[o] = answer /\ recorded[o] = answer
    BY <1>0, <1>1, <2>2 DEF Stored
  <2> QED BY <1>0, <1>3, <2>1, <2>2, OutputIsAnArtifact, OutputRevision
<1>5. next' \in Node
  BY <1>2, <1>3, Nodes, NextNode
<1> HIDE DEF o, k
<1>6. TypeOK'
  <2>1. DOMAIN refs' = Kind
    BY <1>0, <1>1 DEF TypeOK
  <2>2. ASSUME NEW j \in Kind
        PROVE  refs'[j] \in {NoFile} \cup (0 .. MaxRevisionCycles) \X Content(j)
    <3>1. refs[j] \in {NoFile} \cup (0 .. MaxRevisionCycles) \X Content(j) /\ DOMAIN refs = Kind
      BY <1>0 DEF TypeOK
    <3> QED BY <1>1, <1>4, <3>1
  <2>3. /\ revisions' \in 0 .. MaxRevisionCycles /\ previous' \in Issue \cup {NoFile}
        /\ warnings' \subseteq Target /\ outcome' \in Outcome \cup {NoFile}
    BY <1>1, <1>3 DEF Update
  <2>4. ledger' \in 0 .. MaxMainCalls
    BY <1>0, <1>1, <1>3, GraphAssumption DEF TypeOK, Usage
  <2> QED BY <1>0, <1>1, <1>5, <2>1, <2>2, <2>3, <2>4 DEF TypeOK
<1>7. TablesOK'
  BY <1>0, <1>1 DEF TablesOK
<1>8. InHand'
  <2>1. next # "flush_telemetry" => next' # "end"
    BY <1>2, <1>3, NextNode
  <2> QED BY <1>1, <2>1 DEF InHand, Working
<1>9. Stored'
  BY <1>1 DEF Stored
<1>10. ReferencesResolve'
  <2>1. ASSUME NEW j \in Kind, refs'[j] # NoFile
        PROVE  disk[<<j, refs'[j][1]>>] = refs'[j][2] /\ recorded[<<j, refs'[j][1]>>] = refs'[j][2]
    <3>1. CASE refs'[j] = refs[j]
      BY <1>0, <2>1, <3>1 DEF ReferencesResolve, Resolves
    <3>2. CASE answer # NoFile /\ j = k /\ refs'[j] = <<o[2], answer>>
      BY <1>4, <3>2
    <3> QED BY <1>0, <1>1, <3>1, <3>2 DEF TablesOK
  <2> QED BY <1>1, <2>1 DEF ReferencesResolve, Resolves
<1>11. LedgerOK'
  <2>1. revisions \in Nat /\ ledger \in Nat /\ MaxRevisionCycles \in Nat
    BY <1>0, GraphAssumption DEF TypeOK
  <2>2. revisions' = IF result.route = "revise" THEN revisions + 1 ELSE revisions
    BY <1>1, <1>3 DEF UpdateOK
  <2>3. CASE result.route = "revise"
    <3>1. next = "route_review" /\ next' = "agent_2" /\ ledger' = ledger
      BY <1>1, <1>2, <1>3, <2>1, <2>3 DEF UpdateOK, Usage, Agents
    <3> QED BY <1>0, <2>1, <2>2, <2>3, <3>1 DEF LedgerOK
  <2>4. CASE result.route # "revise"
    <3>1. next' = Successor(next) /\ revisions' = revisions
      BY <1>2, <2>2, <2>4
    <3>2. ledger' = IF next \in {"agent_1", "agent_2", "agent_3"} THEN ledger + 1 ELSE ledger
      BY <1>1, <2>1 DEF Usage, Agents
    <3> QED BY <1>0, <1>3, <2>1, <3>1, <3>2, Nodes, Successors DEF LedgerOK
  <2> QED BY <2>3, <2>4
<1>12. OutcomeOK'
  <2>1. next' \in {"sync_index", "flush_telemetry", "end"} =>
          next \in {"persist_terminal", "sync_index", "flush_telemetry"}
    BY <1>2, <1>3, Nodes, Successors
  <2> QED BY <1>1, <1>3, <2>1 DEF OutcomeOK, UpdateOK
<1>13. WarningsOK'
  BY <1>0, <1>1, <1>3 DEF WarningsOK, UpdateOK
<1>14. StatusOK'
  BY <1>0, <1>1 DEF StatusOK
<1> QED BY <1>6, <1>7, <1>8, <1>9, <1>10, <1>11, <1>12, <1>13, <1>14 DEF Inv

-----------------------------------------------------------------------------
(* The invariant holds throughout.                                         *)

LEMMA InitInv ==
  ASSUME Init
  PROVE  Inv
<1>1. TypeOK
  <2>1. /\ MaxMainCalls \in Nat /\ MaxRevisionCycles \in Nat /\ MaxFailures \in Nat
    BY GraphAssumption
  <2>2. next \in Node /\ status \in {"received", "running"} \cup Outcome /\ pc = "idle"
    BY Nodes DEF Init
  <2>3. DOMAIN refs = Kind /\ \A k \in Kind : refs[k] = NoFile
    BY DEF Init
  <2>4. \A a \in Artifact : disk[a] = NoFile /\ recorded[a] = NoFile
    BY DEF Init
  <2>5. /\ revisions = 0 /\ previous = NoFile /\ ledger = 0 /\ warnings = {} /\ outcome = NoFile
        /\ repairs = {} /\ result = NoFile /\ inspected = FALSE /\ lost = {}
        /\ failures = 0
    BY DEF Init
  <2>6. /\ 0 \in 0 .. MaxRevisionCycles /\ 0 \in 0 .. MaxMainCalls
        /\ 0 \in 0 .. MaxFailures
    BY <2>1
  <2>7. \A a \in Artifact : {disk[a], recorded[a]} \subseteq Content(a[1]) \cup {NoFile}
    BY <2>4
  <2> QED BY <2>2, <2>3, <2>5, <2>6, <2>7, Zenon DEF TypeOK
<1>2. TablesOK
  BY DEF Init, TablesOK
<1>3. InHand /\ Stored /\ ReferencesResolve
  BY DEF Init, InHand, Stored, ReferencesResolve, Working
<1>4. LedgerOK /\ OutcomeOK
  BY DEF Init, LedgerOK, OutcomeOK
<1>5. WarningsOK
  BY ManifestIsAnArtifact DEF Init, WarningsOK
<1>6. StatusOK
  BY DEF Init, StatusOK, Outcome
<1> QED BY <1>1, <1>2, <1>3, <1>4, <1>5, <1>6 DEF Inv

LEMMA StutterKeeps ==
  ASSUME Inv, UNCHANGED vars
  PROVE  Inv'
<1>1. /\ UNCHANGED <<next, refs, revisions, previous, ledger, warnings, outcome>>
      /\ UNCHANGED <<disk, recorded, status, repairs>>
      /\ UNCHANGED <<pc, answer, result, inspected, lost, failures>>
  BY DEF vars, stateVars, storeVars, nodeVars, history
<1>2. TypeOK' /\ TablesOK'
  BY <1>1 DEF Inv, TypeOK, TablesOK
<1>3. InHand'
  BY <1>1 DEF Inv, InHand, UpdateOK, AnswerOK
<1>4. ReferencesResolve' /\ LedgerOK' /\ OutcomeOK' /\ WarningsOK' /\ StatusOK'
  BY <1>1 DEF Inv, ReferencesResolve, Resolves, LedgerOK, OutcomeOK, WarningsOK, StatusOK
<1>5. Stored'
  BY <1>1, OutputStays DEF Inv, Stored
<1> QED BY <1>2, <1>3, <1>4, <1>5 DEF Inv

LEMMA NextInv ==
  ASSUME Inv, [Next]_vars
  PROVE  Inv'
<1>1. CASE Check \/ Inspect \/ Acquire \/ Retrieve \/ Route \/ SyncIndex \/ FlushTelemetry
           \/ \E n \in Agents : CallAgent(n)
  BY <1>1, CheckCalls, ProviderCalls, RouteCalls, SyncCalls, FlushCalls, AgentCalls, CalledKeeps
<1>2. CASE CallRaises \/ Fail \/ Crash
  BY <1>2, FailuresKeep
<1>3. CASE Execute
  BY <1>3, ExecuteKeeps
<1>4. CASE WriteArtifact \/ RecordArtifact
  BY <1>4, StoringKeeps
<1>5. CASE UpdateStage
  BY <1>5, UpdateStageKeeps
<1>6. CASE Commit
  BY <1>6, CommitKeeps
<1>7. CASE UNCHANGED vars
  BY <1>7, StutterKeeps
<1> QED BY <1>1, <1>2, <1>3, <1>4, <1>5, <1>6, <1>7 DEF Next, Step

LEMMA InvHolds == Spec => []Inv
<1>1. Init => Inv
  BY InitInv
<1>2. Inv /\ [Next]_vars => Inv'
  BY NextInv
<1> QED BY <1>1, <1>2, PTL DEF Spec

-----------------------------------------------------------------------------
(* The theorems.                                                           *)

(* The checkpoint, the stores and the node in execution keep to their types. *)
THEOREM GraphTypeCorrect == Spec => []TypeOK
<1>1. Inv => TypeOK
  BY DEF Inv
<1> QED BY <1>1, InvHolds, PTL

(* Every reference of the checkpoint resolves to the content it was made    *)
(* for, on disk and in runs.db, whatever failed between write_json,         *)
(* record_artifact and the commit of the checkpoint.                       *)
THEOREM ReferencesAlwaysResolve == Spec => []ReferencesResolve
<1>1. Inv => ReferencesResolve
  BY DEF Inv
<1> QED BY <1>1, InvHolds, PTL

(* The manifest that flush_telemetry wrote says of a terminal run what its  *)
(* row says.                                                               *)
THEOREM ManifestAlwaysMatches == Spec => []ManifestMatchesStatus
<1>1. Inv => ManifestMatchesStatus
  BY DEF Inv, StatusOK, ManifestMatchesStatus
<1> QED BY <1>1, InvHolds, PTL

(* A run that ended with warnings has the repair tasks for them, or the     *)
(* store refused one.                                                      *)
THEOREM WarningsAlwaysHaveRepairs == Spec => []WarningsHaveRepairs
<1>1. Inv => WarningsHaveRepairs
  BY DEF Inv, StatusOK, WarningsOK, WarningsHaveRepairs
<1> QED BY <1>1, InvHolds, PTL

(* A call for the acquisition and two for each round are enough: with such  *)
(* a budget ensure_agent_budget never stops a run.                         *)
THEOREM BudgetAlwaysSuffices ==
  ASSUME MaxMainCalls >= 2 * MaxRevisionCycles + 3
  PROVE  Spec => []BudgetSuffices
<1>1. Inv => BudgetSuffices
  <2>1. ASSUME Inv, next \in Agents
        PROVE  ledger + 1 <= MaxMainCalls
    <3>1. revisions \in 0 .. MaxRevisionCycles /\ ledger \in Nat /\ MaxRevisionCycles \in Nat
          /\ MaxMainCalls \in Nat
      BY <2>1, GraphAssumption DEF Inv, TypeOK
    <3>2. ledger \in {0, 1 + 2 * revisions, 2 + 2 * revisions}
      BY <2>1 DEF Inv, LedgerOK, Agents
    <3> QED BY <3>1, <3>2
  <2> QED BY <2>1 DEF BudgetSuffices
<1> QED BY <1>1, InvHolds, PTL

(* write_json never replaces an artifact by another one.                   *)
THEOREM ArtifactsArePreserved == Spec => ArtifactsPreserved
<1>1. ASSUME Inv, [Next]_vars
      PROVE  [\A a \in Artifact : disk[a] # NoFile => disk'[a] = disk[a]]_vars
  <2>1. CASE WriteArtifact /\ Compatible(disk[Output(next)])
    BY <1>1, <2>1, WriteArtifactWrites
  <2>2. CASE ~ (WriteArtifact /\ Compatible(disk[Output(next)])) /\ Next
    <3>1. UNCHANGED disk
      BY <2>2 DEF Next, Step, Execute, Check, Inspect, Acquire, Retrieve, Route, SyncIndex,
         FlushTelemetry, CallRaises, WriteArtifact, RecordArtifact, UpdateStage, Commit, CallAgent,
         Fail, Crash, storeVars
    <3> QED BY <3>1
  <2>3. CASE UNCHANGED vars
    BY <2>3
  <2> QED BY <1>1, <2>1, <2>2, <2>3
<1>2. Inv /\ [Next]_vars => [\A a \in Artifact : disk[a] # NoFile => disk'[a] = disk[a]]_vars
  BY <1>1
<1> QED BY <1>2, InvHolds, PTL DEF Spec, ArtifactsPreserved

-----------------------------------------------------------------------------
(* Refinement of RunContract.                                              *)

(* The row is terminal from the stage of the last node on, and not before. *)
RowOK ==
  /\ status \in Outcome => next \in {"flush_telemetry", "end"}
  /\ next = "end" \/ (pc = "commit" /\ next = "flush_telemetry") => status \in Outcome

(* Only Execute and UpdateStage write the row, only Commit moves the thread. *)
LEMMA RowMoves ==
  ASSUME [Next]_vars
  PROVE  \/ Execute \/ UpdateStage \/ Commit
         \/ /\ UNCHANGED <<status, stateVars>>
            /\ pc' = pc \/ pc' \in {"idle", "write", "stage", "record"}
               \/ (pc' = "commit" /\ pc = "record" /\ next \in Stageless)
<1>1. ASSUME Check \/ Inspect \/ Acquire \/ Retrieve \/ Route \/ SyncIndex \/ FlushTelemetry
             \/ \E n \in Agents : CallAgent(n)
      PROVE  UNCHANGED <<status, stateVars>> /\ pc' \in {"write", "stage"}
  BY <1>1 DEF Check, Inspect, Acquire, Retrieve, Route, SyncIndex, FlushTelemetry, CallAgent,
              Answered, storeVars
<1>2. ASSUME CallRaises \/ Fail \/ Crash
      PROVE  UNCHANGED <<status, stateVars>> /\ pc' = "idle"
  BY <1>2 DEF CallRaises, Fail, Crash, Raise, storeVars
<1>3. ASSUME WriteArtifact \/ RecordArtifact
      PROVE  /\ UNCHANGED <<status, stateVars>>
             /\ pc' \in {"idle", "record", "stage"}
                \/ (pc' = "commit" /\ pc = "record" /\ next \in Stageless)
  BY <1>3 DEF WriteArtifact, RecordArtifact, Raise
<1>4. ASSUME UNCHANGED vars PROVE UNCHANGED <<status, stateVars>> /\ pc' = pc
  BY <1>4 DEF vars, storeVars, nodeVars
<1> QED BY <1>1, <1>2, <1>3, <1>4 DEF Next, Step

(* A commit counts the node, unless the loop goes on; that of the last node *)
(* ends the thread, and only there the row is terminal.                    *)
LEMMA CommitMoves ==
  ASSUME Inv, RowOK, Commit
  PROVE  /\ UNCHANGED status /\ pc' # "commit"
         /\ next \in Node /\ next # "end" /\ next' \in Node
         /\ NodesDone[next'] \in {NodesDone[next], NodesDone[next] + 1}
         /\ next' = "end" <=> next = "flush_telemetry"
         /\ status \in Outcome <=> next = "flush_telemetry"
<1>1. /\ pc = "commit" /\ UNCHANGED status /\ pc' \in {"idle", "call"}
      /\ next' = IF result.route = "revise" THEN "agent_2" ELSE Successor(next)
  BY DEF Commit, storeVars
<1>2. next \in Node /\ next # "end" /\ (result.route = "revise" => next = "route_review")
  BY <1>1 DEF Inv, TypeOK, InHand, Working, UpdateOK
<1>3. /\ next' \in Node
      /\ next' = "end" <=> next = "flush_telemetry"
  BY <1>1, <1>2, Nodes, Successors
<1>4. status \in Outcome <=> next = "flush_telemetry"
  BY <1>1, <1>2 DEF RowOK
<1>5. NodesDone[next'] \in {NodesDone[next], NodesDone[next] + 1}
  BY <1>1, <1>2, Nodes, Successors DEF NodesDone
<1> QED BY <1>1, <1>2, <1>3, <1>4, <1>5

(* Nine nodes come before the last one.                                    *)
LEMMA NodesCounted ==
  ASSUME NEW n \in Node
  PROVE  /\ NodesDone[n] \in 0 .. 10
         /\ NodesDone[n] = 9 <=> n = "flush_telemetry"
         /\ NodesDone[n] = 10 <=> n = "end"
BY Nodes DEF NodesDone

(* update_stage closes the row in the last node only.                      *)
LEMMA StageMoves ==
  ASSUME Inv, UpdateStage
  PROVE  /\ UNCHANGED next /\ next # "end" /\ status \notin Outcome /\ pc' = "commit"
         /\ status' \in Outcome <=> next = "flush_telemetry"
<1>1. /\ pc = "stage" /\ UNCHANGED next /\ pc' = "commit"
      /\ status' = IF next = "flush_telemetry" THEN result.outcome ELSE "running"
  BY DEF UpdateStage, stateVars
<1>2. next # "end" /\ status \notin Outcome /\ UpdateOK
  BY <1>1 DEF Inv, InHand, Working, StatusOK
<1>3. next = "flush_telemetry" => result.outcome \in Outcome
  BY <1>2 DEF UpdateOK, Update
<1> QED BY <1>1, <1>2, <1>3 DEF Outcome

LEMMA RowStep ==
  ASSUME Inv, RowOK, [Next]_vars
  PROVE  RowOK'
<1>1. CASE Execute
  <2>1. UNCHANGED next /\ next # "end" /\ status' = "running" /\ pc' = "call"
    BY <1>1 DEF Execute, stateVars
  <2> QED BY <2>1 DEF RowOK, Outcome
<1>2. CASE UpdateStage
  BY <1>2, StageMoves DEF RowOK
<1>3. CASE Commit
  BY <1>3, CommitMoves DEF RowOK
<1>4. CASE /\ UNCHANGED <<status, stateVars>>
           /\ pc' = pc \/ pc' \in {"idle", "write", "stage", "record"}
              \/ (pc' = "commit" /\ pc = "record" /\ next \in Stageless)
  <2>1. UNCHANGED <<status, next>>
    BY <1>4 DEF stateVars
  <2>2. "flush_telemetry" \notin Stageless
    BY DEF Stageless
  <2> QED BY <1>4, <2>1, <2>2 DEF RowOK
<1> QED BY <1>1, <1>2, <1>3, <1>4, RowMoves

LEMMA RowInvariant == Spec => []RowOK
<1>1. Init => RowOK
  BY DEF Init, RowOK, Outcome
<1>2. Inv /\ RowOK /\ [Next]_vars => RowOK'
  BY RowStep
<1> QED BY <1>1, <1>2, InvHolds, PTL DEF Spec

(* Every step closes the row, completes a node, or does nothing to either. *)
LEMMA RunSimulation ==
  ASSUME Inv, RowOK, [Next]_vars
  PROVE  [Run!Next]_(Run!vars)
<1>1. CASE Execute
  <2>1. UNCHANGED next /\ status \notin Outcome /\ status' \notin Outcome
    BY <1>1 DEF Execute, stateVars, Outcome
  <2> QED BY <2>1 DEF Run!vars
<1>2. CASE UpdateStage
  <2>1. CASE next = "flush_telemetry"
    BY <1>2, <2>1, StageMoves DEF Run!Next, Run!Complete, NodesDone
  <2>2. CASE next # "flush_telemetry"
    BY <1>2, <2>2, StageMoves DEF Run!vars
  <2> QED BY <2>1, <2>2
<1>3. CASE Commit
  <2>1. /\ UNCHANGED status
        /\ NodesDone[next] \in 0 .. 10 /\ NodesDone[next'] \in 0 .. 10
        /\ NodesDone[next'] \in {NodesDone[next], NodesDone[next] + 1}
        /\ NodesDone[next'] = 10 <=> NodesDone[next] = 9
        /\ status \in Outcome <=> NodesDone[next] = 9
    BY <1>3, CommitMoves, NodesCounted
  <2>2. CASE NodesDone[next] = 9
    BY <2>1, <2>2 DEF Run!Next, Run!End
  <2>3. CASE NodesDone[next'] = NodesDone[next]
    BY <2>1, <2>3 DEF Run!vars
  <2>4. CASE NodesDone[next] # 9 /\ NodesDone[next'] = NodesDone[next] + 1
    BY <2>1, <2>4 DEF Run!Next, Run!Advance
  <2> QED BY <2>1, <2>2, <2>3, <2>4
<1>4. CASE UNCHANGED <<status, stateVars>>
  BY <1>4 DEF Run!vars, stateVars
<1> QED BY <1>1, <1>2, <1>3, <1>4, RowMoves

(* The nodes of the graph implement the contract of a run that Delivery     *)
(* implements with a chain of anonymous nodes: whatever fails and crashes,  *)
(* they are completed in order, none is skipped or taken back but by the    *)
(* loop, and the row becomes terminal in the last of them only.            *)
THEOREM GraphImplementsRun == Spec => ImplementsRun
<1>1. Init => Run!Init
  BY DEF Init, Run!Init, Outcome, NodesDone
<1>2. Inv /\ RowOK /\ [Next]_vars => [Run!Next]_(Run!vars)
  BY RunSimulation
<1> QED BY <1>1, <1>2, InvHolds, RowInvariant, PTL DEF Spec, ImplementsRun, Run!Spec

-----------------------------------------------------------------------------
(* Refinement of LoopContract.                                             *)

(* What route_review may be about to return: the review settles the run,    *)
(* asks for more in vain, or asks for a revision.                          *)
Settles ==
  /\ result.route = "next" /\ result.revisions = revisions
  /\ result.previous = NoFile
  /\ result.outcome \in {"completed", "enrichment_required", "rejected"}
GivesUp ==
  /\ result.route = "next" /\ result.revisions = revisions
  /\ result.previous \in Issue
  /\ revisions >= MaxRevisionCycles \/ result.previous = previous
  /\ result.outcome = "enrichment_required"
Revises ==
  /\ result.route = "revise" /\ result.revisions = revisions + 1
  /\ revisions < MaxRevisionCycles
  /\ result.previous \in Issue \ {previous}
  /\ result.outcome = NoFile

(* What every other node returns: nothing the loop is about.               *)
Passes ==
  /\ result.route = "next" /\ result.revisions = revisions
  /\ result.previous = previous
  /\ LoopOutcome(result.outcome) = LoopOutcome(outcome)

(* What a node is about to return stays so until it is committed, because   *)
(* nothing but a commit changes the state it was computed from.            *)
DecisionOK ==
  pc \in Working =>
    IF next = "route_review" THEN Settles \/ GivesUp \/ Revises ELSE Passes

(* ReviewPolicy.evaluate decides one of the three.                         *)
LEMMA DecisionDecides ==
  ASSUME TypeOK, NEW r \in Review, result' = Decision(r),
         UNCHANGED <<revisions, previous>>
  PROVE  Settles' \/ GivesUp' \/ Revises'
<1>1. ASSUME NEW o, NEW f, result' = Terminal(o, f)
      PROVE  /\ result'.route = "next" /\ result'.revisions = revisions'
             /\ result'.previous = f /\ result'.outcome = o
  BY <1>1 DEF Terminal, NoUpdate
<1>2. CASE r \in {"rejection", "enrichment", "clean"}
  <2>1. \E o \in {"rejected", "enrichment_required", "completed"} : Decision(r) = Terminal(o, NoFile)
    BY <1>2, AnswersAssumption DEF Decision
  <2> QED BY <1>1, <2>1 DEF Settles
<1>3. CASE r \in Issue
  <2>1. r \notin {"rejection", "enrichment", "clean"}
    BY <1>3, AnswersAssumption
  <2>2. CASE revisions >= MaxRevisionCycles \/ r = previous
    <3>1. Decision(r) = Terminal("enrichment_required", r)
      BY <1>3, <2>1, <2>2 DEF Decision
    <3> QED BY <1>1, <1>3, <2>2, <3>1 DEF GivesUp
  <2>3. CASE ~ (revisions >= MaxRevisionCycles \/ r = previous)
    <3>1. Decision(r) = [NoUpdate EXCEPT !.route = "revise", !.revisions = revisions + 1,
                                         !.previous = r, !.outcome = NoFile]
      BY <1>3, <2>1, <2>3 DEF Decision
    <3>2. /\ result'.route = "revise" /\ result'.revisions = revisions + 1
          /\ result'.previous = r /\ result'.outcome = NoFile
      BY <3>1 DEF NoUpdate
    <3>3. revisions < MaxRevisionCycles
      BY <2>3, GraphAssumption DEF TypeOK
    <3> QED BY <1>3, <2>3, <3>2, <3>3 DEF Revises
  <2> QED BY <2>2, <2>3
<1> QED BY <1>2, <1>3 DEF Review

(* A secondary service can only add to what a settled run ended with.      *)
LEMMA DowngradeKeepsOutcome ==
  ASSUME NEW o \in Outcome \cup {NoFile}
  PROVE  LoopOutcome(Downgrade(o)) = LoopOutcome(o)
BY AnswersAssumption DEF LoopOutcome, Downgrade, Outcome

LEMMA NoUpdatePasses ==
  ASSUME result' = NoUpdate, UNCHANGED <<revisions, previous, outcome>>
  PROVE  Passes'
BY DEF Passes, NoUpdate

LEMMA SecondaryPasses ==
  ASSUME Inv, NEW t, NEW u, Secondary(t, u), result' = u,
         UNCHANGED <<revisions, previous, outcome>>
  PROVE  Passes'
<1>1. CASE u = NoUpdate
  BY <1>1, NoUpdatePasses
<1>2. CASE u = [NoUpdate EXCEPT !.warnings = @ \cup {t}, !.outcome = Downgrade(@)]
  <2>1. /\ result'.route = "next" /\ result'.revisions = revisions
        /\ result'.previous = previous /\ result'.outcome = Downgrade(outcome)
    BY <1>2 DEF NoUpdate
  <2>2. outcome \in Outcome \cup {NoFile}
    BY DEF Inv, TypeOK
  <2> QED BY <2>1, <2>2, DowngradeKeepsOutcome DEF Passes
<1> QED BY <1>1, <1>2 DEF Secondary

(* Each call leaves such an update in hand.                                *)
LEMMA CallsDecide ==
  ASSUME Inv, Check \/ Inspect \/ Acquire \/ Retrieve \/ Route \/ SyncIndex \/ FlushTelemetry
              \/ \E n \in Agents : CallAgent(n)
  PROVE  DecisionOK'
<1>1. CASE Route
  <2> DEFINE r == refs["review"][2]
  <2>1. result' = Decision(r) /\ UNCHANGED stateVars /\ Calling("route_review")
    BY <1>1 DEF Route
  <2>2. "review" \in Kind
    BY Kinds, KindsOfNodes
  <2>3. r \in Review
    BY <2>1, <2>2, Contents DEF Calling, Inputs, Inv, TypeOK, Resolves
  <2>4. TypeOK /\ UNCHANGED <<next, revisions, previous>> /\ next = "route_review"
    BY <2>1 DEF Inv, stateVars, Calling
  <2>5. Settles' \/ GivesUp' \/ Revises'
    <3> HIDE DEF r
    <3> QED BY <2>1, <2>3, <2>4, DecisionDecides
  <2> QED BY <2>4, <2>5 DEF DecisionOK
<1>2. CASE SyncIndex \/ FlushTelemetry
  <2>1. PICK t \in Target, u \in Update : Secondary(t, u) /\ result' = u
    BY <1>2 DEF SyncIndex, FlushTelemetry, Answered, Target
  <2>2. UNCHANGED <<next, revisions, previous, outcome>> /\ next # "route_review"
    BY <1>2 DEF SyncIndex, FlushTelemetry, Calling, stateVars
  <2> QED BY <2>1, <2>2, SecondaryPasses DEF DecisionOK
<1>3. CASE Check \/ Inspect \/ Acquire \/ Retrieve \/ \E n \in Agents : CallAgent(n)
  <2>1. result' = NoUpdate /\ UNCHANGED <<next, revisions, previous, outcome>>
        /\ next # "route_review"
    BY <1>3 DEF Check, Inspect, Acquire, Retrieve, CallAgent, Agents, Answered, Calling, stateVars
  <2> QED BY <2>1, NoUpdatePasses DEF DecisionOK
<1> QED BY <1>1, <1>2, <1>3

LEMMA DecisionStep ==
  ASSUME Inv, DecisionOK, [Next]_vars
  PROVE  DecisionOK'
<1>1. CASE Check \/ Inspect \/ Acquire \/ Retrieve \/ Route \/ SyncIndex \/ FlushTelemetry
           \/ \E n \in Agents : CallAgent(n)
  BY <1>1, CallsDecide
<1>2. CASE pc' \notin Working
  BY <1>2 DEF DecisionOK
<1>3. CASE pc \in Working /\ UNCHANGED <<next, revisions, previous, outcome, result>>
  BY <1>3 DEF DecisionOK, Settles, GivesUp, Revises, Passes
<1>4. CASE WriteArtifact \/ RecordArtifact \/ UpdateStage
  BY <1>2, <1>3, <1>4 DEF WriteArtifact, RecordArtifact, UpdateStage, Raise, Working, stateVars
<1>5. CASE Execute \/ CallRaises \/ Commit \/ Fail \/ Crash
  BY <1>2, <1>5 DEF Execute, CallRaises, Commit, Fail, Crash, Raise, Working
<1>6. CASE UNCHANGED vars
  BY <1>2, <1>3, <1>6 DEF vars, stateVars, nodeVars
<1> QED BY <1>1, <1>4, <1>5, <1>6 DEF Next, Step

LEMMA DecisionInvariant == Spec => []DecisionOK
<1>1. Init => DecisionOK
  BY DEF Init, DecisionOK, Working
<1>2. Inv /\ DecisionOK /\ [Next]_vars => DecisionOK'
  BY DecisionStep
<1> QED BY <1>1, <1>2, InvHolds, PTL DEF Spec

(* Only a commit changes what the loop is about.                           *)
LEMMA OnlyCommits ==
  ASSUME [Next]_vars, ~ Commit
  PROVE  UNCHANGED stateVars
BY DEF Next, Step, Execute, Check, Inspect, Acquire, Retrieve, Route, SyncIndex, FlushTelemetry,
       CallRaises, WriteArtifact, RecordArtifact, UpdateStage, CallAgent, Fail, Crash, vars

(* The commit of route_review takes the decision of the contract.          *)
LEMMA RouteSimulation ==
  ASSUME Inv, DecisionOK, Commit, next = "route_review"
  PROVE  Loop!Next
<1>1. /\ pc = "commit"
      /\ next' = IF result.route = "revise" THEN "agent_2" ELSE Successor(next)
      /\ revisions' = result.revisions /\ previous' = result.previous
      /\ outcome' = result.outcome
  BY DEF Commit
<1>2. LoopStage = "route_review"
  BY DEF LoopStage
<1>3. NoFile \notin Outcome
  BY AnswersAssumption
<1>4. CASE Settles
  <2>1. next' = "persist_terminal"
    BY <1>1, <1>4, Successors DEF Settles
  <2>2. LoopOutcome(outcome)' \in {"completed", "enrichment_required", "rejected"}
    BY <1>1, <1>3, <1>4 DEF Settles, LoopOutcome, Outcome
  <2> QED BY <1>1, <1>2, <1>4, <2>1, <2>2 DEF Settles, LoopStage, Loop!Next, Loop!Settle
<1>5. CASE GivesUp
  <2>1. next' = "persist_terminal"
    BY <1>1, <1>5, Successors DEF GivesUp
  <2>2. LoopOutcome(outcome)' = "enrichment_required"
    BY <1>1, <1>3, <1>5 DEF GivesUp, LoopOutcome, Outcome
  <2> QED BY <1>1, <1>2, <1>5, <2>1, <2>2 DEF GivesUp, LoopStage, Loop!Next, Loop!GiveUp
<1>6. CASE Revises
  <2>1. next' = "agent_2"
    BY <1>1, <1>6 DEF Revises
  <2>2. LoopOutcome(outcome)' = "none"
    BY <1>1, <1>3, <1>6 DEF Revises, LoopOutcome, Outcome
  <2> QED BY <1>1, <1>2, <1>6, <2>1, <2>2 DEF Revises, LoopStage, Loop!Next, Loop!Revise
<1>7. Settles \/ GivesUp \/ Revises
  BY <1>1 DEF DecisionOK, Working
<1> QED BY <1>4, <1>5, <1>6, <1>7

(* Any other commit advances the round or is none of its business.         *)
LEMMA PassSimulation ==
  ASSUME Inv, DecisionOK, Commit, next # "route_review"
  PROVE  Loop!Advance \/ UNCHANGED Loop!vars
<1>1. /\ pc = "commit" /\ Passes
  BY DEF Commit, DecisionOK, Working
<1>2. /\ next' = Successor(next)
      /\ UNCHANGED <<revisions, previous>> /\ LoopOutcome(outcome)' = LoopOutcome(outcome)
  BY <1>1 DEF Commit, Passes, LoopOutcome
<1>3. next \in Node /\ next # "end"
  BY <1>1 DEF Inv, TypeOK, InHand
<1>4. CASE next \in {"agent_2", "validate_drafts", "agent_3"}
  BY <1>2, <1>4, Successors DEF LoopStage, Loop!Advance, Loop!After
<1>5. CASE next \notin {"agent_2", "validate_drafts", "agent_3"}
  <2>1. LoopStage' = LoopStage
    BY <1>2, <1>3, <1>5, Nodes, Successors DEF LoopStage
  <2> QED BY <1>2, <2>1 DEF Loop!vars
<1> QED BY <1>4, <1>5

LEMMA LoopSimulation ==
  ASSUME Inv, DecisionOK, [Next]_vars
  PROVE  [Loop!Next]_(Loop!vars)
<1>1. CASE Commit
  BY <1>1, RouteSimulation, PassSimulation DEF Loop!Next
<1>2. CASE ~ Commit
  <2>1. UNCHANGED <<next, revisions, previous, outcome>>
    BY <1>2, OnlyCommits DEF stateVars
  <2> QED BY <2>1 DEF Loop!vars, LoopStage, LoopOutcome
<1> QED BY <1>1, <1>2

(* The committed state goes through the editorial loop of LoopContract,     *)
(* for all answers and budgets: no failure, crash or repeated node costs a  *)
(* revision cycle, repeats a revision or ends the loop too early.          *)
THEOREM GraphImplementsLoop == Spec => ImplementsLoop
<1>1. Init => Loop!Init
  <2>1. NoFile # "completed_with_warnings"
    BY AnswersAssumption DEF Outcome
  <2> QED BY <2>1 DEF Init, Loop!Init, LoopStage, LoopOutcome
<1>2. Inv /\ DecisionOK /\ [Next]_vars => [Loop!Next]_(Loop!vars)
  BY LoopSimulation
<1> QED BY <1>1, <1>2, InvHolds, DecisionInvariant, PTL DEF Spec, ImplementsLoop, Loop!Spec

=============================================================================

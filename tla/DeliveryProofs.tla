--------------------------- MODULE DeliveryProofs ---------------------------
(***************************************************************************)
(* Proofs about Delivery, for any workers, messages, runs, time-outs and   *)
(* faults that satisfy DeliveryAssumption.                                 *)
(***************************************************************************)
EXTENDS Delivery, TLAPS

(* A worker that handles a message holds it, ...                           *)
FreePcs == {"idle"} \cup StoppedPcs

(* ... and past create_or_get_run its request is the run's own.            *)
AcceptedPcs == {"acquire", "ackEarly"} \cup HoldingPcs

JobsOK ==
  \A w \in Worker :
    /\ pc[w] \notin FreePcs => msg[w] \in Message
    /\ pc[w] \in AcceptedPcs =>
         Valid(msg[w]) /\ request[RunOf(msg[w])] = Body[msg[w]]

(* A valid message carries the envelope of some run.                       *)
LEMMA EnvelopeOfMessage ==
  ASSUME NEW m \in Message, Valid(m)
  PROVE  Body[m] \in Envelope /\ RunOf(m) \in RunId
BY DeliveryAssumption DEF Valid, RunOf, Envelope

(* What an accepted worker works on.                                       *)
LEMMA AcceptedJob ==
  ASSUME JobsOK, NEW w \in Worker, pc[w] \in AcceptedPcs
  PROVE  /\ msg[w] \in Message
         /\ Valid(msg[w])
         /\ RunOf(msg[w]) \in RunId
         /\ request[RunOf(msg[w])] = Body[msg[w]]
<1>1. pc[w] \notin FreePcs
  BY DEF AcceptedPcs, FreePcs, HoldingPcs, BeatingPcs, ExecutingPcs, StoppedPcs
<1>2. msg[w] \in Message /\ Valid(msg[w])
  BY <1>1 DEF JobsOK
<1> QED
  BY <1>2, EnvelopeOfMessage DEF JobsOK

(* Delivery starts well typed, with no worker holding a message.           *)
LEMMA TypeInit == Init => TypeOK /\ JobsOK
BY DeliveryAssumption
   DEF Init, TypeOK, JobsOK, Statuses, Places, Pcs, HoldingPcs, BeatingPcs,
       ExecutingPcs, StoppedPcs, FreePcs, AcceptedPcs

-----------------------------------------------------------------------------
(* Type correctness.                                                       *)

(* Every step keeps the types; one case per action.                        *)
LEMMA TypeStep == TypeOK /\ JobsOK /\ [Next]_vars => TypeOK'
<1> SUFFICES ASSUME TypeOK, JobsOK, [Next]_vars PROVE TypeOK'
  OBVIOUS
<1> USE DeliveryAssumption
    DEF TypeOK, Statuses, Places, Pcs, HoldingPcs, BeatingPcs, ExecutingPcs,
        StoppedPcs, Forget, queueVars, runVars, leaseVars, jobVars, execVars
<1>1. ASSUME NEW m \in Message, Submit(m) \/ Redrive(m) PROVE TypeOK'
  BY <1>1 DEF Submit, Redrive
<1>2. ASSUME NEW w \in Worker, NEW m \in Message, Receive(w, m) PROVE TypeOK'
  BY <1>2 DEF Receive
<1>3. ASSUME NEW w \in Worker, CreateOrGetRun(w) PROVE TypeOK'
  <2>1. msg[w] \in Message /\ Valid(msg[w])
    BY <1>3 DEF CreateOrGetRun, JobsOK, FreePcs
  <2> QED
    BY <1>3, <2>1, EnvelopeOfMessage DEF CreateOrGetRun, AfterCreate
<1>4. ASSUME NEW w \in Worker, Refuse(w) \/ LeaseBusy(w) PROVE TypeOK'
  BY <1>4 DEF Refuse, LeaseBusy
<1>5. ASSUME NEW w \in Worker, AcquireLease(w) PROVE TypeOK'
  BY <1>5 DEF AcquireLease
<1>6. ASSUME NEW w \in Worker, Execute(w) PROVE TypeOK'
  <2>1. RunOf(msg[w]) \in RunId
    BY <1>6, AcceptedJob
       DEF Execute, EnterExecution, ReadStage, WriteStage, CommitNode, AcceptedPcs
  <2>2. CASE EnterExecution(w)
    BY <2>1, <2>2 DEF EnterExecution, NothingLeft, ResumeNode
  <2>3. CASE ReadStage(w)
    BY <2>1, <2>3 DEF ReadStage
  <2>4. CASE WriteStage(w)
    BY <2>1, <2>4 DEF WriteStage, StageStatus
  <2>5. CASE CommitNode(w)
    BY <2>1, <2>5 DEF CommitNode
  <2> QED
    BY <1>6, <2>2, <2>3, <2>4, <2>5 DEF Execute
<1>7. ASSUME NEW w \in Worker, ExecutionFails(w) \/ VerifyRun(w) PROVE TypeOK'
  BY <1>7 DEF ExecutionFails, VerifyRun
<1>8. ASSUME NEW w \in Worker, Heartbeat(w) PROVE TypeOK'
  BY <1>8 DEF Heartbeat, Renew
<1>9. ASSUME NEW w \in Worker, LoseHeartbeat(w) PROVE TypeOK'
  BY <1>9 DEF LoseHeartbeat, Renew
<1>10. ASSUME NEW w \in Worker, Acknowledge(w) PROVE TypeOK'
  BY <1>10 DEF Acknowledge, AckPcs, Delete, Move, MoveOn
<1>11. ASSUME NEW w \in Worker, ReleaseMessage(w) PROVE TypeOK'
  BY <1>11 DEF ReleaseMessage, ReleasePcs, MakeVisible, Move, MoveOn
<1>12. ASSUME NEW w \in Worker, ReleaseLease(w) PROVE TypeOK'
  BY <1>12 DEF ReleaseLease
<1>13. ASSUME NEW w \in Worker, ReceiveFails(w) \/ Stop(w) \/ Restart(w)
       PROVE TypeOK'
  BY <1>13 DEF ReceiveFails, Stop, Restart
<1>14. ASSUME NEW w \in Worker, Crash(w) PROVE TypeOK'
  BY <1>14 DEF Crash
<1>15. CASE Tick
  <2>1. \A n \in Nat : Dec(n) \in Nat
    BY DEF Dec
  <2>2. ttl' \in [RunId -> Nat] /\ visibility' \in [Message -> Nat]
    BY <1>15, <2>1 DEF Tick
  <2>3. beat' \in [Worker -> Nat] /\ place' \in [Message -> Places]
    BY <1>15, <2>1 DEF Tick
  <2> QED
    BY <1>15, <2>2, <2>3 DEF Tick
<1>16. CASE UNCHANGED vars
  BY <1>16 DEF vars
<1> QED
  BY <1>1, <1>2, <1>3, <1>4, <1>5, <1>6, <1>7, <1>8, <1>9, <1>10, <1>11, <1>12,
     <1>13, <1>14, <1>15, <1>16
     DEF Next, Prepare, Beat, Conclude

-----------------------------------------------------------------------------
(* Jobs.                                                                   *)

(* The request of a run is never replaced.                                 *)
LEMMA RequestKept ==
  ASSUME TypeOK, JobsOK, [Next]_vars, NEW r \in RunId, request[r] # NoRequest
  PROVE  request'[r] = request[r]
<1>1. ASSUME NEW w \in Worker, CreateOrGetRun(w) PROVE request'[r] = request[r]
  BY <1>1 DEF TypeOK, CreateOrGetRun, Accepts
<1>2. ASSUME NEW w \in Worker, Execute(w) PROVE request' = request
  BY <1>2 DEF Execute, EnterExecution, ReadStage, WriteStage, CommitNode, runVars
<1>3. ASSUME NEW w \in Worker,
             Refuse(w) \/ AcquireLease(w) \/ LeaseBusy(w) \/ ExecutionFails(w)
               \/ Beat(w) \/ Conclude(w) \/ ReceiveFails(w) \/ Stop(w)
               \/ Crash(w) \/ Restart(w)
      PROVE  request' = request
  BY <1>3 DEF Refuse, AcquireLease, LeaseBusy, ExecutionFails, Beat, Heartbeat,
              LoseHeartbeat, Conclude, VerifyRun, Acknowledge, ReleaseMessage,
              ReleaseLease, ReceiveFails, Stop, Crash, Restart, runVars
<1>4. CASE UNCHANGED vars
  BY <1>4 DEF vars, runVars
<1> QED
  BY <1>1, <1>2, <1>3, <1>4
     DEF Next, Prepare, Submit, Redrive, Receive, Tick, runVars

(* Every worker that goes on with a message holds the message it held, and *)
(* no worker is past create_or_get_run that has not gone through it.       *)
LEMMA JobsStep == TypeOK /\ JobsOK /\ [Next]_vars => JobsOK'
<1> SUFFICES ASSUME TypeOK, JobsOK, [Next]_vars,
                    NEW v \in Worker
             PROVE  /\ pc'[v] \notin FreePcs => msg'[v] \in Message
                    /\ pc'[v] \in AcceptedPcs =>
                         Valid(msg'[v]) /\ request'[RunOf(msg'[v])] = Body[msg'[v]]
  BY DEF JobsOK, Valid, RunOf
<1> DEFINE Kept == /\ pc'[v] \notin FreePcs =>
                        pc[v] \notin FreePcs /\ msg'[v] = msg[v]
                   /\ pc'[v] \in AcceptedPcs => pc[v] \in AcceptedPcs
<1> USE DEF AcceptedPcs, FreePcs, HoldingPcs, BeatingPcs, ExecutingPcs, StoppedPcs
<1>1. CASE Kept
  <2>1. CASE pc'[v] \in AcceptedPcs
    <3>1. pc[v] \in AcceptedPcs /\ msg'[v] = msg[v]
      BY <1>1, <2>1
    <3>2. /\ msg[v] \in Message /\ Valid(msg[v]) /\ RunOf(msg[v]) \in RunId
          /\ request[RunOf(msg[v])] = Body[msg[v]]
      BY <3>1, AcceptedJob
    <3>3. Body[msg[v]] # NoRequest
      BY <3>2, EnvelopeOfMessage, DeliveryAssumption
    <3> QED
      BY <3>1, <3>2, <3>3, RequestKept
  <2> QED
    BY <1>1, <2>1 DEF JobsOK
<1>2. ASSUME NEW w \in Worker, NEW m \in Message, Receive(w, m)
      PROVE  Kept \/ (pc'[v] = "received" /\ msg'[v] \in Message)
  BY <1>2 DEF Receive, TypeOK
<1>3. ASSUME NEW w \in Worker, CreateOrGetRun(w)
      PROVE  Kept \/ /\ v = w /\ msg'[v] \in Message /\ Valid(msg'[v])
                     /\ request'[RunOf(msg'[v])] = Body[msg'[v]]
  <2>1. msg[w] \in Message /\ Valid(msg[w])
    BY <1>3 DEF CreateOrGetRun, JobsOK
  <2>2. RunOf(msg[w]) \in RunId
    BY <2>1, EnvelopeOfMessage
  <2> QED
    BY <1>3, <2>1, <2>2 DEF CreateOrGetRun, TypeOK, RunOf, jobVars
<1>4. ASSUME NEW w \in Worker,
             Refuse(w) \/ AcquireLease(w) \/ LeaseBusy(w) \/ ExecutionFails(w)
               \/ VerifyRun(w) \/ ReceiveFails(w) \/ Stop(w) \/ Restart(w)
      PROVE  Kept
  BY <1>4 DEF Refuse, AcquireLease, LeaseBusy, ExecutionFails, VerifyRun,
              ReceiveFails, Stop, Restart, TypeOK, jobVars
<1>5. ASSUME NEW w \in Worker, Execute(w) PROVE Kept
  BY <1>5 DEF Execute, EnterExecution, ReadStage, WriteStage, CommitNode, TypeOK, jobVars
<1>6. ASSUME NEW w \in Worker, Beat(w) PROVE Kept
  BY <1>6 DEF Beat, Heartbeat, LoseHeartbeat, TypeOK, jobVars
<1>7. ASSUME NEW w \in Worker, Acknowledge(w) \/ ReleaseMessage(w) PROVE Kept
  BY <1>7 DEF Acknowledge, ReleaseMessage, AckPcs, ReleasePcs, MoveOn, Forget,
              TypeOK, jobVars
<1>8. ASSUME NEW w \in Worker, ReleaseLease(w) \/ Crash(w) PROVE Kept
  BY <1>8 DEF ReleaseLease, Crash, Forget, TypeOK, jobVars
<1>9. ASSUME UNCHANGED vars \/ Tick \/ \E m \in Message : Submit(m) \/ Redrive(m)
      PROVE  Kept
  BY <1>9 DEF vars, Tick, Submit, Redrive, jobVars
<1> QED
  BY <1>1, <1>2, <1>3, <1>4, <1>5, <1>6, <1>7, <1>8, <1>9
     DEF Next, Prepare, Conclude

(* The types and the jobs together are inductive.                          *)
LEMMA JobsInvariant == Spec => [](TypeOK /\ JobsOK)
BY TypeInit, TypeStep, JobsStep, PTL DEF Spec

(* Every reachable state is well typed: no counter of the queue, lease     *)
(* timer, node or checkpoint ever leaves its range.                        *)
THEOREM TypeCorrect == Spec => []TypeOK
BY JobsInvariant, PTL

-----------------------------------------------------------------------------
(* Acknowledgements.                                                       *)

(* finished knows every run whose row is terminal or whose message is      *)
(* about to be deleted.                                                    *)
FinishedOK ==
  /\ \A r \in RunId : status[r] = "terminal" => r \in finished
  /\ \A w \in Worker : pc[w] \in AckPcs => RunOf(msg[w]) \in finished

(* What has finished stays finished.                                       *)
LEMMA FinishedGrows == TypeOK /\ JobsOK /\ [Next]_vars => finished \subseteq finished'
<1> SUFFICES ASSUME TypeOK, JobsOK, [Next]_vars PROVE finished \subseteq finished'
  OBVIOUS
<1>1. ASSUME NEW w \in Worker, Execute(w) PROVE finished \subseteq finished'
  BY <1>1 DEF Execute, EnterExecution, ReadStage, WriteStage, CommitNode, runVars
<1>2. ASSUME NEW w \in Worker,
             Prepare(w) \/ ExecutionFails(w) \/ Beat(w) \/ Conclude(w)
               \/ ReceiveFails(w) \/ Stop(w) \/ Crash(w) \/ Restart(w)
      PROVE  finished' = finished
  BY <1>2 DEF Prepare, CreateOrGetRun, Refuse, AcquireLease, LeaseBusy,
              ExecutionFails, Beat, Heartbeat, LoseHeartbeat, Conclude, VerifyRun,
              Acknowledge, ReleaseMessage, ReleaseLease, ReceiveFails, Stop, Crash,
              Restart, runVars
<1> QED
  BY <1>1, <1>2 DEF Next, Submit, Redrive, Receive, Tick, runVars, vars

(* The steps that make a row terminal or start an acknowledgement.         *)
LEMMA FinishedStep == TypeOK /\ JobsOK /\ FinishedOK /\ [Next]_vars => FinishedOK'
<1> SUFFICES ASSUME TypeOK, JobsOK, FinishedOK, [Next]_vars PROVE FinishedOK'
  OBVIOUS
<1> USE FinishedGrows DEF FinishedOK, TypeOK, AckPcs, runVars, jobVars, RunOf
<1>1. ASSUME NEW w \in Worker, CreateOrGetRun(w) PROVE FinishedOK'
  <2>1. RunOf(msg[w]) \in RunId
    BY <1>1, EnvelopeOfMessage
       DEF CreateOrGetRun, JobsOK, FreePcs, StoppedPcs
  <2> QED
    BY <1>1, <2>1 DEF CreateOrGetRun, AfterCreate
<1>2. ASSUME NEW w \in Worker, AcquireLease(w) PROVE FinishedOK'
  BY <1>2 DEF AcquireLease
<1>3. ASSUME NEW w \in Worker, Execute(w) PROVE FinishedOK'
  BY <1>3 DEF Execute, EnterExecution, ReadStage, WriteStage, CommitNode
<1>4. ASSUME NEW w \in Worker, VerifyRun(w) PROVE FinishedOK'
  <2>1. RunOf(msg[w]) \in RunId
    BY <1>4, AcceptedJob DEF VerifyRun, AcceptedPcs, HoldingPcs
  <2> QED
    BY <1>4, <2>1 DEF VerifyRun
<1>5. ASSUME NEW w \in Worker, Acknowledge(w) \/ ReleaseMessage(w) PROVE FinishedOK'
  BY <1>5 DEF Acknowledge, ReleaseMessage, MoveOn, Forget, ReleasePcs
<1>6. ASSUME NEW w \in Worker, ReleaseLease(w) \/ Crash(w) PROVE FinishedOK'
  BY <1>6 DEF ReleaseLease, Crash, Forget
<1>7. ASSUME NEW w \in Worker,
             Refuse(w) \/ LeaseBusy(w) \/ ExecutionFails(w) \/ Beat(w)
               \/ ReceiveFails(w) \/ Stop(w) \/ Restart(w)
      PROVE  FinishedOK'
  BY <1>7 DEF Refuse, LeaseBusy, ExecutionFails, Beat, Heartbeat, LoseHeartbeat,
              ReceiveFails, Stop, Restart
<1>8. ASSUME NEW w \in Worker, NEW m \in Message, Receive(w, m) PROVE FinishedOK'
  BY <1>8 DEF Receive
<1> QED
  BY <1>1, <1>2, <1>3, <1>4, <1>5, <1>6, <1>7, <1>8
     DEF Next, Prepare, Conclude, Submit, Redrive, Tick, vars

(* Only an acknowledgement deletes a message.                              *)
LEMMA OnlyAcknowledgeDeletes ==
  ASSUME TypeOK, [Next]_vars, NEW m \in Message,
         place[m] # "deleted", place'[m] = "deleted"
  PROVE  \E w \in Worker : Acknowledge(w) /\ msg[w] = m
<1> USE DEF TypeOK, queueVars
<1>1. ASSUME NEW w \in Worker, ReleaseMessage(w) PROVE FALSE
  BY <1>1 DEF ReleaseMessage, MakeVisible, Move
<1>2. ASSUME NEW w \in Worker, Acknowledge(w) PROVE msg[w] = m
  BY <1>2 DEF Acknowledge, Delete, Move
<1>3. ASSUME NEW w \in Worker, Execute(w) PROVE FALSE
  BY <1>3 DEF Execute, EnterExecution, ReadStage, WriteStage, CommitNode
<1>4. ASSUME NEW w \in Worker,
             Prepare(w) \/ ExecutionFails(w) \/ Beat(w) \/ VerifyRun(w)
               \/ ReleaseLease(w) \/ ReceiveFails(w) \/ Stop(w) \/ Crash(w)
               \/ Restart(w)
      PROVE  FALSE
  BY <1>4 DEF Prepare, CreateOrGetRun, Refuse, AcquireLease, LeaseBusy,
              ExecutionFails, Beat, Heartbeat, LoseHeartbeat, VerifyRun,
              ReleaseLease, ReceiveFails, Stop, Crash, Restart
<1> QED
  BY <1>1, <1>2, <1>3, <1>4
     DEF Next, Conclude, Submit, Redrive, Receive, Tick, vars

(* An acknowledgement of the worker deletes only a finished message, and   *)
(* no later step un-accepts or un-finishes it.                             *)
LEMMA DeletedStep ==
  TypeOK /\ JobsOK /\ FinishedOK /\ DeletedOnlyAfterTerminal /\ [Next]_vars
    => DeletedOnlyAfterTerminal'
<1> SUFFICES ASSUME TypeOK, JobsOK, FinishedOK, DeletedOnlyAfterTerminal, [Next]_vars,
                    NEW m \in Message, place'[m] = "deleted"
             PROVE  Valid(m) /\ request'[RunOf(m)] = Body[m] /\ RunOf(m) \in finished'
  BY DEF DeletedOnlyAfterTerminal, Valid, RunOf
<1>1. Valid(m) /\ request[RunOf(m)] = Body[m] /\ RunOf(m) \in finished
  <2>1. CASE place[m] = "deleted"
    BY <2>1 DEF DeletedOnlyAfterTerminal
  <2>2. CASE place[m] # "deleted"
    <3>1. PICK w \in Worker : Acknowledge(w) /\ msg[w] = m
      BY <2>2, OnlyAcknowledgeDeletes
    <3>2. pc[w] \in AckPcs /\ pc[w] \in AcceptedPcs
      BY <3>1 DEF Acknowledge, AckPcs, AcceptedPcs, HoldingPcs
    <3> QED
      BY <3>1, <3>2, AcceptedJob DEF FinishedOK
  <2> QED
    BY <2>1, <2>2
<1>2. RunOf(m) \in RunId /\ Body[m] # NoRequest
  BY <1>1, EnvelopeOfMessage, DeliveryAssumption
<1> QED
  BY <1>1, <1>2, RequestKept, FinishedGrows

(* Nothing is terminal, acknowledged or deleted initially.                 *)
LEMMA FinishedInit == Init => FinishedOK /\ DeletedOnlyAfterTerminal
BY DEF Init, FinishedOK, DeletedOnlyAfterTerminal, AckPcs

(* However messages are repeated, receipts expire and workers crash or     *)
(* stall, a message leaves the queue only when the very request it carries *)
(* was accepted and its run has finished.                                  *)
THEOREM NoWorkLost == Spec => []DeletedOnlyAfterTerminal
<1>1. TypeOK /\ JobsOK /\ FinishedOK /\ DeletedOnlyAfterTerminal /\ [Next]_vars
        => FinishedOK' /\ DeletedOnlyAfterTerminal'
  BY FinishedStep, DeletedStep
<1> QED
  BY <1>1, FinishedInit, JobsInvariant, PTL DEF Spec

-----------------------------------------------------------------------------
(* Idempotency keys.                                                       *)

(* A step leaves the requests alone or accepts the one of some message.    *)
LEMMA RequestStep ==
  ASSUME TypeOK, JobsOK, [Next]_vars
  PROVE  \/ request' = request
         \/ \E e \in Envelope : /\ Accepts(e)
                               /\ request' = [request EXCEPT ![e.run] = e]
<1>1. ASSUME NEW w \in Worker, CreateOrGetRun(w)
      PROVE  \E e \in Envelope : /\ Accepts(e)
                               /\ request' = [request EXCEPT ![e.run] = e]
  <2>1. Body[msg[w]] \in Envelope
    BY <1>1, EnvelopeOfMessage DEF CreateOrGetRun, JobsOK, FreePcs, StoppedPcs
  <2> QED
    BY <1>1, <2>1 DEF CreateOrGetRun
<1>2. ASSUME NEW w \in Worker, Execute(w) PROVE request' = request
  BY <1>2 DEF Execute, EnterExecution, ReadStage, WriteStage, CommitNode, runVars
<1>3. ASSUME NEW w \in Worker,
             Refuse(w) \/ AcquireLease(w) \/ LeaseBusy(w) \/ ExecutionFails(w)
               \/ Beat(w) \/ Conclude(w) \/ ReceiveFails(w) \/ Stop(w)
               \/ Crash(w) \/ Restart(w)
      PROVE  request' = request
  BY <1>3 DEF Refuse, AcquireLease, LeaseBusy, ExecutionFails, Beat, Heartbeat,
              LoseHeartbeat, Conclude, VerifyRun, Acknowledge, ReleaseMessage,
              ReleaseLease, ReceiveFails, Stop, Crash, Restart, runVars
<1> QED
  BY <1>1, <1>2, <1>3
     DEF Next, Prepare, Submit, Redrive, Receive, Tick, runVars, vars

(* Accepting a request never reuses the key of another run.                *)
LEMMA OneRunStep == TypeOK /\ JobsOK /\ OneRunPerKey /\ [Next]_vars => OneRunPerKey'
<1> SUFFICES ASSUME TypeOK, JobsOK, OneRunPerKey, [Next]_vars PROVE OneRunPerKey'
  OBVIOUS
<1>1. CASE request' = request
  BY <1>1 DEF OneRunPerKey
<1>2. ASSUME NEW e \in Envelope, Accepts(e),
             request' = [request EXCEPT ![e.run] = e]
      PROVE  OneRunPerKey'
  <2>1. CASE request[e.run] = e
    BY <1>2, <2>1 DEF OneRunPerKey, TypeOK
  <2>2. CASE request[e.run] = NoRequest
             /\ \A r \in RunId : request[r] # NoRequest => request[r].key # e.key
    BY <1>2, <2>2 DEF OneRunPerKey, TypeOK, Envelope
  <2> QED
    BY <1>2, <2>1, <2>2 DEF Accepts
<1> QED
  BY <1>1, <1>2, RequestStep

(* No sequence of repeated, conflicting or malformed requests ever gives   *)
(* one idempotency key two runs.                                           *)
THEOREM KeysIdentifyRuns == Spec => []OneRunPerKey
<1>1. Init => OneRunPerKey
  BY DEF Init, OneRunPerKey
<1> QED
  BY <1>1, OneRunStep, JobsInvariant, PTL DEF Spec

-----------------------------------------------------------------------------
(* The lease.                                                              *)

(* As long as no worker stalls past its heartbeat, a worker that beats     *)
(* holds the lease of its run, and the lease outlasts the next heartbeat   *)
(* by the time the previous renewal left over.                             *)
LeaseOK ==
  \A w \in Worker : pc[w] \in BeatingPcs =>
    /\ owner[RunOf(msg[w])] = w
    /\ ttl[RunOf(msg[w])] >= beat[w] + (LeaseTTL - HeartbeatPeriod)

(* Another worker cannot take, shorten or drop the lease of one that beats. *)
LEMMA LeaseStep ==
  ASSUME "lag" \notin Faults
  PROVE  TypeOK /\ JobsOK /\ LeaseOK /\ [Next]_vars => LeaseOK'
<1> SUFFICES ASSUME TypeOK, JobsOK, LeaseOK, [Next]_vars,
                    NEW v \in Worker, pc'[v] \in BeatingPcs
             PROVE  /\ owner'[RunOf(msg'[v])] = v
                    /\ ttl'[RunOf(msg'[v])] >= beat'[v] + (LeaseTTL - HeartbeatPeriod)
  BY DEF LeaseOK, RunOf
<1> DEFINE r == RunOf(msg[v])
           Same == /\ pc[v] \in BeatingPcs
                   /\ msg'[v] = msg[v] /\ beat'[v] = beat[v]
                   /\ owner'[r] = owner[r] /\ ttl'[r] >= ttl[r]
<1> USE DeliveryAssumption DEF BeatingPcs, ExecutingPcs
<1>0. pc[v] \in BeatingPcs => /\ r \in RunId
                             /\ owner[r] = v
                             /\ ttl[r] \in Nat /\ beat[v] \in Nat
                             /\ ttl[r] >= beat[v] + (LeaseTTL - HeartbeatPeriod)
                             /\ ttl[r] > 0
  BY AcceptedJob DEF LeaseOK, TypeOK, AcceptedPcs, HoldingPcs
<1>1. CASE Same
  <2>1. ttl'[r] \in Nat
    BY TypeStep, <1>1, <1>0 DEF TypeOK
  <2> QED
    BY <1>1, <1>0, <2>1 DEF RunOf
<1>2. ASSUME NEW w \in Worker, AcquireLease(w)
      PROVE  Same \/ /\ msg'[v] = msg[v] /\ owner'[r] = v
                     /\ ttl'[r] = LeaseTTL /\ beat'[v] = HeartbeatPeriod
  <2>1. RunOf(msg[w]) \in RunId
    BY <1>2, AcceptedJob DEF AcquireLease, AcceptedPcs
  <2>2. CASE v = w
    BY <1>2, <2>1, <2>2 DEF AcquireLease, TypeOK, jobVars
  <2>3. CASE v # w
    <3>1. pc[v] \in BeatingPcs /\ r # RunOf(msg[w])
      BY <1>2, <2>3, <1>0 DEF AcquireLease, LeaseAvailable, TypeOK
    <3> QED
      BY <1>2, <2>1, <2>3, <3>1, <1>0 DEF AcquireLease, TypeOK, jobVars
  <2> QED
    BY <2>2, <2>3
<1>3. ASSUME NEW w \in Worker, Heartbeat(w)
      PROVE  Same \/ /\ msg'[v] = msg[v] /\ owner'[r] = v
                     /\ ttl'[r] = LeaseTTL /\ beat'[v] = HeartbeatPeriod
  <2>1. pc[v] \in BeatingPcs /\ msg'[v] = msg[v] /\ owner'[r] = owner[r]
    BY <1>3 DEF Heartbeat, jobVars
  <2>2. CASE v = w
    BY <1>3, <1>0, <2>1, <2>2 DEF Heartbeat, Renew, TypeOK
  <2>3. CASE v # w
    BY <1>3, <1>0, <2>1, <2>3 DEF Heartbeat, Renew, HoldsLease, TypeOK
  <2> QED
    BY <2>2, <2>3
<1>4. ASSUME NEW w \in Worker, LoseHeartbeat(w) PROVE Same
  <2>1. v # w /\ pc[v] \in BeatingPcs
    BY <1>4 DEF LoseHeartbeat, TypeOK
  <2> QED
    BY <1>4, <1>0, <2>1 DEF LoseHeartbeat, Renew, HoldsLease, TypeOK, jobVars
<1>5. ASSUME NEW w \in Worker, ReleaseLease(w) PROVE Same
  <2>1. v # w /\ pc[v] \in BeatingPcs
    BY <1>5 DEF ReleaseLease, TypeOK
  <2> QED
    BY <1>5, <1>0, <2>1 DEF ReleaseLease, Forget, TypeOK, leaseVars
<1>6. ASSUME NEW w \in Worker, Execute(w) PROVE Same
  BY <1>6, <1>0 DEF Execute, EnterExecution, ReadStage, WriteStage, CommitNode,
                    TypeOK, leaseVars, jobVars
<1>7. ASSUME NEW w \in Worker,
             CreateOrGetRun(w) \/ Refuse(w) \/ LeaseBusy(w) \/ ExecutionFails(w)
               \/ VerifyRun(w) \/ ReceiveFails(w) \/ Stop(w) \/ Restart(w)
      PROVE  Same
  BY <1>7, <1>0 DEF CreateOrGetRun, AfterCreate, Refuse, LeaseBusy, ExecutionFails,
                    VerifyRun, ReceiveFails, Stop, Restart, TypeOK, leaseVars, jobVars
<1>8. ASSUME NEW w \in Worker, Acknowledge(w) \/ ReleaseMessage(w) \/ Crash(w)
      PROVE  Same
  <2>1. v # w /\ pc[v] \in BeatingPcs
    BY <1>8 DEF Acknowledge, AckPcs, ReleaseMessage, ReleasePcs, MoveOn, Crash, TypeOK
  <2> QED
    BY <1>8, <1>0, <2>1 DEF Acknowledge, ReleaseMessage, MoveOn, Forget, Crash, TypeOK,
                            leaseVars, jobVars
<1>9. ASSUME NEW w \in Worker, NEW m \in Message, Receive(w, m) PROVE Same
  BY <1>9, <1>0 DEF Receive, TypeOK, leaseVars
<1>10. ASSUME UNCHANGED vars \/ \E m \in Message : Submit(m) \/ Redrive(m)
       PROVE  Same
  BY <1>10, <1>0 DEF Submit, Redrive, vars, leaseVars, jobVars
<1>11. CASE Tick
  <2>1. pc[v] \in BeatingPcs /\ beat[v] > 0 /\ msg'[v] = msg[v] /\ owner'[r] = owner[r]
    BY <1>11 DEF Tick, jobVars
  <2>2. beat'[v] = beat[v] - 1 /\ ttl'[r] = ttl[r] - 1
    BY <1>11, <1>0, <2>1 DEF Tick, Dec
  <2> QED
    BY <1>0, <2>1, <2>2 DEF RunOf
<1>12. ASSUME msg'[v] = msg[v], owner'[r] = v, ttl'[r] = LeaseTTL,
              beat'[v] = HeartbeatPeriod
       PROVE  /\ owner'[RunOf(msg'[v])] = v
              /\ ttl'[RunOf(msg'[v])] >= beat'[v] + (LeaseTTL - HeartbeatPeriod)
  BY <1>12 DEF RunOf
<1> QED
  BY <1>1, <1>2, <1>3, <1>4, <1>5, <1>6, <1>7, <1>8, <1>9, <1>10, <1>11, <1>12
     DEF Next, Prepare, Beat, Conclude

(* If no worker stalls, a worker that beats owns a live lease.             *)
LEMMA LeaseInvariant == ASSUME "lag" \notin Faults PROVE Spec => []LeaseOK
<1>1. Init => LeaseOK
  BY DEF Init, LeaseOK, BeatingPcs, ExecutingPcs
<1> QED
  BY <1>1, LeaseStep, JobsInvariant, PTL DEF Spec

(* One owner per run means one executor per run.                           *)
LEMMA LeaseExcludes == LeaseOK => OneExecutorPerRun
BY DEF LeaseOK, OneExecutorPerRun, BeatingPcs

(* If workers keep to their heartbeat period, the lease alone excludes a   *)
(* second executor, for any time-outs with HeartbeatPeriod < LeaseTTL and  *)
(* whatever crashes, queue, store and node failures occur.                 *)
THEOREM LeaseIsExclusive ==
  ASSUME "lag" \notin Faults PROVE Spec => []OneExecutorPerRun
BY LeaseInvariant, LeaseExcludes, PTL

-----------------------------------------------------------------------------
(* The checkpoint.                                                         *)

(* A worker inside a node executes the one after the checkpoint, and has   *)
(* read a terminal status only near the end of the thread.                 *)
NodeOK ==
  \A w \in Worker : pc[w] \in {"read", "write", "commit"} =>
    /\ node[w] = checkpoint[RunOf(msg[w])] + 1
    /\ node[w] <= LastNode
    /\ pc[w] = "write" /\ seen[w] = "terminal" =>
         checkpoint[RunOf(msg[w])] >= LastNode - 1

(* The checkpoint of a run moves only when its worker commits a node.      *)
LEMMA CheckpointStep ==
  ASSUME TypeOK, JobsOK, [Next]_vars
  PROVE  \/ checkpoint' = checkpoint
         \/ \E w \in Worker : CommitNode(w)
<1>1. ASSUME NEW w \in Worker, EnterExecution(w) \/ ReadStage(w) \/ WriteStage(w)
      PROVE  checkpoint' = checkpoint
  BY <1>1 DEF EnterExecution, ReadStage, WriteStage
<1>2. ASSUME NEW w \in Worker,
             Prepare(w) \/ ExecutionFails(w) \/ Beat(w) \/ Conclude(w)
               \/ ReceiveFails(w) \/ Stop(w) \/ Crash(w) \/ Restart(w)
      PROVE  checkpoint' = checkpoint
  BY <1>2 DEF Prepare, CreateOrGetRun, Refuse, AcquireLease, LeaseBusy,
              ExecutionFails, Beat, Heartbeat, LoseHeartbeat, Conclude, VerifyRun,
              Acknowledge, ReleaseMessage, ReleaseLease, ReceiveFails, Stop, Crash,
              Restart
<1> QED
  BY <1>1, <1>2 DEF Next, Execute, Submit, Redrive, Receive, Tick, vars

(* A commit extends the checkpoint of its run by one node.                 *)
LEMMA CommitStep ==
  ASSUME TypeOK, JobsOK, NodeOK, NEW w \in Worker, CommitNode(w)
  PROVE  /\ RunOf(msg[w]) \in RunId
         /\ checkpoint' = [checkpoint EXCEPT ![RunOf(msg[w])] = @ + 1]
         /\ checkpoint[RunOf(msg[w])] < LastNode
<1>1. RunOf(msg[w]) \in RunId
  BY AcceptedJob DEF CommitNode, AcceptedPcs, HoldingPcs, BeatingPcs, ExecutingPcs
<1>2. node[w] = checkpoint[RunOf(msg[w])] + 1 /\ node[w] <= LastNode
  BY DEF CommitNode, NodeOK
<1>3. checkpoint' = [checkpoint EXCEPT ![RunOf(msg[w])] = node[w]]
  BY DEF CommitNode
<1> QED
  BY <1>1, <1>2, <1>3, DeliveryAssumption DEF TypeOK

(* The node in execution is always the one after the checkpoint.           *)
LEMMA NodeStep ==
  TypeOK /\ JobsOK /\ OneExecutorPerRun /\ TerminalNearEnd /\ NodeOK /\ [Next]_vars
    => NodeOK'
<1> SUFFICES ASSUME TypeOK, JobsOK, OneExecutorPerRun, TerminalNearEnd, NodeOK, [Next]_vars,
                    NEW v \in Worker, pc'[v] \in {"read", "write", "commit"}
             PROVE  /\ node'[v] = checkpoint'[RunOf(msg'[v])] + 1
                    /\ node'[v] <= LastNode
                    /\ pc'[v] = "write" /\ seen'[v] = "terminal" =>
                         checkpoint'[RunOf(msg'[v])] >= LastNode - 1
  BY DEF NodeOK, RunOf
<1> DEFINE r == RunOf(msg[v])
           Same == /\ pc'[v] = pc[v] /\ msg'[v] = msg[v]
                   /\ node'[v] = node[v] /\ seen'[v] = seen[v]
<1>0. pc[v] \in ExecutingPcs =>
        r \in RunId /\ checkpoint[r] \in 0 .. LastNode /\ status[r] \in Statuses
  BY AcceptedJob DEF TypeOK, AcceptedPcs, HoldingPcs, BeatingPcs
<1>1. ASSUME Same, checkpoint' = checkpoint \/ (\E w \in Worker : w # v /\ CommitNode(w))
      PROVE  /\ node'[v] = checkpoint'[RunOf(msg'[v])] + 1
             /\ node'[v] <= LastNode
             /\ pc'[v] = "write" /\ seen'[v] = "terminal" =>
                  checkpoint'[RunOf(msg'[v])] >= LastNode - 1
  <2>1. pc[v] \in ExecutingPcs /\ RunOf(msg'[v]) = r
    BY <1>1 DEF ExecutingPcs, RunOf
  <2>2. checkpoint'[r] = checkpoint[r]
    <3>1. ASSUME NEW w \in Worker, w # v, CommitNode(w)
          PROVE  checkpoint'[r] = checkpoint[r]
      <4>1. pc[w] \in ExecutingPcs
        BY <3>1 DEF CommitNode, ExecutingPcs
      <4>2. RunOf(msg[w]) # r
        BY <2>1, <3>1, <4>1 DEF OneExecutorPerRun
      <4> QED
        BY <3>1, <4>2, <1>0, <2>1, CommitStep DEF TypeOK
    <3> QED
      BY <1>1, <3>1
  <2> QED
    BY <1>1, <2>1, <2>2 DEF NodeOK
<1>2. CASE CommitNode(v)
  BY <1>2, <1>0, CommitStep, DeliveryAssumption
     DEF CommitNode, TypeOK, NodeOK, ExecutingPcs, jobVars, RunOf
<1>3. CASE EnterExecution(v)
  <2>1. ~ NothingLeft(r) /\ node'[v] = checkpoint[r] + 1 /\ pc'[v] = "read"
    BY <1>3 DEF EnterExecution, ResumeNode, TypeOK
  <2> QED
    BY <1>3, <1>0, <2>1, DeliveryAssumption
       DEF EnterExecution, NothingLeft, ExecutingPcs, jobVars, RunOf
<1>4. CASE ReadStage(v)
  BY <1>4, <1>0 DEF ReadStage, NodeOK, TypeOK, TerminalNearEnd, ExecutingPcs, jobVars, RunOf
<1>5. CASE WriteStage(v)
  BY <1>5, <1>0 DEF WriteStage, NodeOK, TypeOK, ExecutingPcs, jobVars, execVars, RunOf
<1>6. ASSUME NEW w \in Worker, w # v, Execute(w) PROVE Same
  BY <1>6 DEF Execute, EnterExecution, ReadStage, WriteStage, CommitNode, TypeOK,
              jobVars, execVars
<1>7. ASSUME NEW w \in Worker, Prepare(w) \/ ExecutionFails(w) \/ Beat(w) PROVE Same
  BY <1>7 DEF Prepare, CreateOrGetRun, AfterCreate, Refuse, AcquireLease, LeaseBusy,
              ExecutionFails, Beat, Heartbeat, LoseHeartbeat, TypeOK, jobVars, execVars
<1>8. ASSUME NEW w \in Worker, Conclude(w) PROVE Same
  BY <1>8 DEF Conclude, VerifyRun, Acknowledge, AckPcs, ReleaseMessage, ReleasePcs,
              ReleaseLease, MoveOn, Forget, TypeOK, jobVars, execVars
<1>9. ASSUME NEW w \in Worker,
             Crash(w) \/ ReceiveFails(w) \/ Stop(w) \/ Restart(w)
               \/ \E m \in Message : Receive(w, m)
      PROVE  Same
  BY <1>9 DEF Crash, Forget, ReceiveFails, Stop, Restart, Receive, TypeOK, jobVars, execVars
<1>10. ASSUME UNCHANGED vars \/ Tick \/ \E m \in Message : Submit(m) \/ Redrive(m)
       PROVE  Same
  BY <1>10 DEF vars, Tick, Submit, Redrive, jobVars, execVars
<1>11. CASE \E w \in Worker : CommitNode(w)
  BY <1>1, <1>2, <1>6, <1>11 DEF Execute
<1>12. CASE checkpoint' = checkpoint
  BY <1>1, <1>2, <1>3, <1>4, <1>5, <1>6, <1>7, <1>8, <1>9, <1>10, <1>12
     DEF Next, Execute
<1> QED
  BY <1>11, <1>12, CheckpointStep

(* The status becomes terminal only through update_stage.                  *)
LEMMA StatusStep ==
  ASSUME TypeOK, JobsOK, [Next]_vars, NEW r \in RunId, status'[r] = "terminal"
  PROVE  \/ status[r] = "terminal"
         \/ \E w \in Worker : WriteStage(w) /\ r = RunOf(msg[w]) /\ StageStatus(w) = "terminal"
<1>1. ASSUME NEW w \in Worker, CreateOrGetRun(w) \/ AcquireLease(w)
      PROVE  status[r] = "terminal"
  BY <1>1 DEF CreateOrGetRun, AcquireLease, TypeOK
<1>2. ASSUME NEW w \in Worker, WriteStage(w)
      PROVE  status[r] = "terminal" \/ (r = RunOf(msg[w]) /\ StageStatus(w) = "terminal")
  BY <1>2 DEF WriteStage, TypeOK
<1>3. ASSUME NEW w \in Worker, EnterExecution(w) \/ ReadStage(w) \/ CommitNode(w)
      PROVE  status' = status
  BY <1>3 DEF EnterExecution, ReadStage, CommitNode, runVars
<1>4. ASSUME NEW w \in Worker,
             Refuse(w) \/ LeaseBusy(w) \/ ExecutionFails(w) \/ Beat(w) \/ Conclude(w)
               \/ ReceiveFails(w) \/ Stop(w) \/ Crash(w) \/ Restart(w)
      PROVE  status' = status
  BY <1>4 DEF Refuse, LeaseBusy, ExecutionFails, Beat, Heartbeat, LoseHeartbeat,
              Conclude, VerifyRun, Acknowledge, ReleaseMessage, ReleaseLease,
              ReceiveFails, Stop, Crash, Restart, runVars
<1> QED
  BY <1>1, <1>2, <1>3, <1>4
     DEF Next, Prepare, Execute, Submit, Redrive, Receive, Tick, runVars, vars

(* A row becomes terminal only from the last node.                         *)
LEMMA NearEndStep ==
  TypeOK /\ JobsOK /\ NodeOK /\ TerminalNearEnd /\ [Next]_vars => TerminalNearEnd'
<1> SUFFICES ASSUME TypeOK, JobsOK, NodeOK, TerminalNearEnd, [Next]_vars,
                    NEW r \in RunId, status'[r] = "terminal"
             PROVE  checkpoint'[r] >= LastNode - 1
  BY DEF TerminalNearEnd
<1>1. checkpoint[r] >= LastNode - 1
  <2>1. ASSUME NEW w \in Worker, WriteStage(w), r = RunOf(msg[w]), StageStatus(w) = "terminal"
        PROVE  checkpoint[r] >= LastNode - 1
    <3>1. pc[w] = "write"
      BY <2>1 DEF WriteStage
    <3>2. node[w] = LastNode \/ seen[w] = "terminal"
      BY <2>1 DEF StageStatus
    <3> QED
      BY <2>1, <3>1, <3>2, DeliveryAssumption DEF NodeOK, TypeOK
  <2> QED
    BY <2>1, StatusStep DEF TerminalNearEnd
<1>2. checkpoint'[r] >= checkpoint[r]
  BY CheckpointStep, CommitStep DEF TypeOK
<1>3. checkpoint[r] \in Nat /\ checkpoint'[r] \in Nat
  BY TypeStep DEF TypeOK
<1> QED
  BY <1>1, <1>2, <1>3, DeliveryAssumption

(* If no worker stalls, the nodes and the checkpoints keep in step.        *)
LEMMA NodeInvariant ==
  ASSUME "lag" \notin Faults PROVE Spec => [](NodeOK /\ TerminalNearEnd)
<1>1. Init => NodeOK /\ TerminalNearEnd
  BY DEF Init, NodeOK, TerminalNearEnd
<1>2. TypeOK /\ JobsOK /\ LeaseOK /\ NodeOK /\ TerminalNearEnd /\ [Next]_vars
        => NodeOK' /\ TerminalNearEnd'
  BY LeaseExcludes, NodeStep, NearEndStep
<1> QED
  BY <1>1, <1>2, JobsInvariant, LeaseInvariant, PTL DEF Spec

(* Without stalls, a run is called terminal only when all nodes but the    *)
(* last are checkpointed: redelivery cannot cut a run short.               *)
THEOREM TerminalRunsAreComplete ==
  ASSUME "lag" \notin Faults PROVE Spec => []TerminalNearEnd
BY NodeInvariant, PTL

(* Without stalls, no redelivery, crash or failure makes a worker execute  *)
(* a checkpointed node again or skip one.                                  *)
THEOREM CompletedNodesStay ==
  ASSUME "lag" \notin Faults PROVE Spec => []NoNodeRepeated
<1>1. NodeOK => NoNodeRepeated
  BY DEF NodeOK, NoNodeRepeated
<1> QED
  BY <1>1, NodeInvariant, PTL

-----------------------------------------------------------------------------
(* The row of a run in execution.                                          *)

(* The row a worker acts on is not terminal before the last node has        *)
(* written it, and is terminal after that.                                 *)
RowFollowsNode ==
  \A w \in Worker :
    /\ pc[w] \in {"enter", "read", "write"} => status[RunOf(msg[w])] # "terminal"
    /\ pc[w] = "write" => seen[w] # "terminal"
    /\ pc[w] = "commit" => (status[RunOf(msg[w])] = "terminal" <=> node[w] = LastNode)

(* No worker can take the lease of a run in execution.                     *)
LeaseHeld ==
  \A v, w \in Worker :
    /\ pc[v] \in ExecutingPcs
    /\ pc[w] = "acquire"
    /\ RunOf(msg[w]) = RunOf(msg[v])
    => ~ LeaseAvailable(w, RunOf(msg[w]))

(* The status of a run is written before its lease, and by the stages of    *)
(* its execution.                                                          *)
LEMMA RowStep ==
  ASSUME TypeOK, JobsOK, [Next]_vars
  PROVE  \/ status' = status
         \/ \E w \in Worker : CreateOrGetRun(w) \/ AcquireLease(w) \/ WriteStage(w)
<1>1. ASSUME NEW w \in Worker,
             Refuse(w) \/ LeaseBusy(w) \/ EnterExecution(w) \/ ReadStage(w) \/ CommitNode(w)
               \/ ExecutionFails(w) \/ Beat(w) \/ Conclude(w)
               \/ ReceiveFails(w) \/ Stop(w) \/ Crash(w) \/ Restart(w)
      PROVE  status' = status
  BY <1>1 DEF Refuse, LeaseBusy, EnterExecution, ReadStage, CommitNode, ExecutionFails,
              Beat, Heartbeat, LoseHeartbeat, Conclude, VerifyRun, Acknowledge,
              ReleaseMessage, ReleaseLease, ReceiveFails, Stop, Crash, Restart, runVars
<1> QED
  BY <1>1 DEF Next, Prepare, Execute, Submit, Redrive, Receive, Tick, runVars, vars

(* What an executing worker executes.                                      *)
LEMMA ExecutingRun ==
  ASSUME JobsOK, NEW w \in Worker, pc[w] \in ExecutingPcs
  PROVE  RunOf(msg[w]) \in RunId
BY AcceptedJob DEF AcceptedPcs, HoldingPcs, BeatingPcs

(* While a run is in execution, only its worker decides whether its row is  *)
(* terminal.                                                               *)
LEMMA OwnRowStep ==
  ASSUME TypeOK, JobsOK, OneExecutorPerRun, LeaseHeld, [Next]_vars,
         NEW v \in Worker, pc[v] \in ExecutingPcs, ~ WriteStage(v)
  PROVE  status'[RunOf(msg[v])] = "terminal" <=> status[RunOf(msg[v])] = "terminal"
<1> DEFINE r == RunOf(msg[v])
<1>1. r \in RunId
  BY ExecutingRun
<1>2. ASSUME NEW w \in Worker, CreateOrGetRun(w)
      PROVE  status'[r] = "terminal" <=> status[r] = "terminal"
  BY <1>1, <1>2 DEF CreateOrGetRun, TypeOK
<1>3. ASSUME NEW w \in Worker, AcquireLease(w) PROVE status'[r] = status[r]
  <2>1. RunOf(msg[w]) # r
    BY <1>3 DEF AcquireLease, LeaseHeld
  <2> QED
    BY <1>1, <1>3, <2>1 DEF AcquireLease, TypeOK
<1>4. ASSUME NEW w \in Worker, WriteStage(w) PROVE status'[r] = status[r]
  <2>1. w # v /\ pc[w] \in ExecutingPcs
    BY <1>4 DEF WriteStage, ExecutingPcs
  <2>2. RunOf(msg[w]) # r
    BY <2>1 DEF OneExecutorPerRun
  <2> QED
    BY <1>1, <1>4, <2>2 DEF WriteStage, TypeOK
<1> QED
  BY <1>2, <1>3, <1>4, RowStep

(* The row and the worker that executes the run change together.           *)
LEMMA RowFollowsStep ==
  TypeOK /\ JobsOK /\ OneExecutorPerRun /\ LeaseHeld /\ RowFollowsNode /\ [Next]_vars
    => RowFollowsNode'
<1> DEFINE Row(v) ==
             /\ pc[v] \in {"enter", "read", "write"} => status[RunOf(msg[v])] # "terminal"
             /\ pc[v] = "write" => seen[v] # "terminal"
             /\ pc[v] = "commit" => (status[RunOf(msg[v])] = "terminal" <=> node[v] = LastNode)
<1> SUFFICES ASSUME TypeOK, JobsOK, OneExecutorPerRun, LeaseHeld, RowFollowsNode,
                    [Next]_vars, NEW v \in Worker
             PROVE  Row(v)'
  BY DEF RowFollowsNode
<1> DEFINE r == RunOf(msg[v])
           Same == /\ pc'[v] = pc[v] /\ msg'[v] = msg[v]
                   /\ node'[v] = node[v] /\ seen'[v] = seen[v]
<1>0. Row(v)
  BY DEF RowFollowsNode
<1>1. CASE AcquireLease(v)
  <2>1. r \in RunId
    BY <1>1, AcceptedJob DEF AcquireLease, AcceptedPcs
  <2> QED
    BY <1>1, <2>1 DEF AcquireLease, TypeOK, jobVars, RunOf
<1>2. CASE EnterExecution(v)
  BY <1>0, <1>2 DEF EnterExecution, TypeOK, runVars, jobVars, RunOf
<1>3. CASE ReadStage(v)
  BY <1>0, <1>3 DEF ReadStage, TypeOK, runVars, jobVars, RunOf
<1>4. CASE WriteStage(v)
  <2>1. r \in RunId
    BY <1>4, ExecutingRun DEF WriteStage, ExecutingPcs
  <2>2. /\ RunOf(msg'[v]) = r /\ node'[v] = node[v] /\ pc'[v] = "commit"
        /\ status'[r] = StageStatus(v)
    BY <1>4, <2>1 DEF WriteStage, TypeOK, jobVars, execVars, RunOf
  <2>3. StageStatus(v) = "terminal" <=> node[v] = LastNode
    BY <1>0, <1>4, DeliveryAssumption DEF WriteStage, StageStatus
  <2> QED
    BY <2>2, <2>3
<1>5. CASE CommitNode(v)
  BY <1>0, <1>5 DEF CommitNode, TypeOK, runVars, jobVars, RunOf
<1>6. ASSUME Same, ~ WriteStage(v) PROVE Row(v)'
  <2>1. RunOf(msg'[v]) = r
    BY <1>6 DEF RunOf
  <2>2. CASE pc[v] \in ExecutingPcs
    BY <1>0, <1>6, <2>1, <2>2, OwnRowStep DEF RunOf
  <2>3. CASE pc[v] \notin ExecutingPcs
    BY <1>6, <2>3 DEF ExecutingPcs
  <2> QED
    BY <2>2, <2>3
<1>7. CASE CreateOrGetRun(v) \/ Refuse(v) \/ LeaseBusy(v) \/ ExecutionFails(v)
             \/ ReceiveFails(v) \/ Stop(v) \/ Restart(v) \/ Crash(v) \/ VerifyRun(v)
             \/ LoseHeartbeat(v) \/ \E m \in Message : Receive(v, m)
  <2>1. pc'[v] \notin ExecutingPcs
    BY <1>7 DEF CreateOrGetRun, AfterCreate, Refuse, LeaseBusy, ExecutionFails, ReceiveFails,
                Stop, Restart, Crash, VerifyRun, LoseHeartbeat, Receive, TypeOK, ExecutingPcs
  <2> QED
    BY <2>1 DEF ExecutingPcs
<1>8. CASE Acknowledge(v) \/ ReleaseMessage(v) \/ ReleaseLease(v)
  BY <1>8 DEF Acknowledge, AckPcs, ReleaseMessage, ReleasePcs, ReleaseLease, MoveOn, TypeOK
<1>9. ASSUME NEW w \in Worker, w # v,
             Prepare(w) \/ Execute(w) \/ ExecutionFails(w) \/ LoseHeartbeat(w)
      PROVE  Same /\ (WriteStage(v) => pc'[v] = "write")
  BY <1>9 DEF Prepare, CreateOrGetRun, Refuse, AcquireLease, LeaseBusy, Execute,
              EnterExecution, ReadStage, WriteStage, CommitNode, ExecutionFails,
              LoseHeartbeat, TypeOK, jobVars, execVars
<1>10. ASSUME NEW w \in Worker, w # v,
              Conclude(w) \/ ReceiveFails(w) \/ Stop(w) \/ Crash(w) \/ Restart(w)
                \/ \E m \in Message : Receive(w, m)
       PROVE  Same
  BY <1>10 DEF Conclude, VerifyRun, Acknowledge, ReleaseMessage, ReleaseLease, MoveOn,
               Forget, ReceiveFails, Stop, Crash, Restart, Receive, TypeOK, jobVars, execVars
<1>11. ASSUME \/ UNCHANGED vars \/ Tick
              \/ \E w \in Worker : Heartbeat(w)
              \/ \E m \in Message : Submit(m) \/ Redrive(m)
       PROVE  Same
  BY <1>11 DEF Heartbeat, Tick, Submit, Redrive, vars, jobVars, execVars
<1>12. WriteStage(v) => pc'[v] = "commit"
  BY DEF WriteStage, TypeOK
<1>13. ASSUME Same PROVE Row(v)'
  <2>1. ~ WriteStage(v)
    BY <1>12, <1>13 DEF WriteStage
  <2> QED
    BY <1>6, <1>13, <2>1
<1> QED
  BY <1>1, <1>2, <1>3, <1>4, <1>5, <1>7, <1>8, <1>9, <1>10, <1>11, <1>13
     DEF Next, Prepare, Execute, Beat, Conclude

(* If no worker stalls, a row is terminal once the last node has written    *)
(* it and not before.                                                      *)
LEMMA RowInvariant == ASSUME "lag" \notin Faults PROVE Spec => []RowFollowsNode
<1>1. Init => RowFollowsNode
  BY DEF Init, RowFollowsNode
<1>2. TypeOK /\ JobsOK /\ LeaseOK => LeaseHeld
  <2> SUFFICES ASSUME TypeOK, JobsOK, LeaseOK, NEW v \in Worker, NEW w \in Worker,
                      pc[v] \in ExecutingPcs, pc[w] = "acquire",
                      RunOf(msg[w]) = RunOf(msg[v])
               PROVE  ~ LeaseAvailable(w, RunOf(msg[v]))
    BY DEF LeaseHeld
  <2>1. RunOf(msg[v]) \in RunId
    BY ExecutingRun
  <2>2. /\ owner[RunOf(msg[v])] = v
        /\ ttl[RunOf(msg[v])] >= beat[v] + (LeaseTTL - HeartbeatPeriod)
    BY DEF LeaseOK, BeatingPcs
  <2>3. ttl[RunOf(msg[v])] # 0
    BY <2>1, <2>2, DeliveryAssumption DEF TypeOK
  <2>4. v # w
    BY DEF ExecutingPcs
  <2> QED
    BY <2>2, <2>3, <2>4, DeliveryAssumption DEF LeaseAvailable
<1>3. TypeOK /\ JobsOK /\ LeaseOK /\ RowFollowsNode /\ [Next]_vars => RowFollowsNode'
  BY <1>2, LeaseExcludes, RowFollowsStep
<1> QED
  BY <1>1, <1>3, JobsInvariant, LeaseInvariant, PTL DEF Spec

(* Only a worker that takes the lease takes a terminal status back.        *)
LEMMA TerminalStep ==
  ASSUME TypeOK, JobsOK, RowFollowsNode, [Next]_vars,
         NEW r \in RunId, status[r] = "terminal"
  PROVE  \/ status'[r] = "terminal"
         \/ \E w \in Worker : AcquireLease(w) /\ RunOf(msg[w]) = r
<1>1. ASSUME NEW w \in Worker, CreateOrGetRun(w) PROVE status'[r] = "terminal"
  BY <1>1 DEF CreateOrGetRun, TypeOK
<1>2. ASSUME NEW w \in Worker, AcquireLease(w)
      PROVE  status'[r] = "terminal" \/ RunOf(msg[w]) = r
  BY <1>2 DEF AcquireLease, TypeOK
<1>3. ASSUME NEW w \in Worker, WriteStage(w) PROVE status'[r] = "terminal"
  <2>1. status[RunOf(msg[w])] # "terminal"
    BY <1>3 DEF WriteStage, RowFollowsNode
  <2> QED
    BY <1>3, <2>1 DEF WriteStage, TypeOK
<1> QED
  BY <1>1, <1>2, <1>3, RowStep

-----------------------------------------------------------------------------
(* The end of a run that has one worker.                                   *)

OneWorker == \A v, w \in Worker : v = w

(* The only worker never goes for the lease of a terminal run.             *)
AcquiresOpen ==
  \A w \in Worker : pc[w] = "acquire" => status[RunOf(msg[w])] # "terminal"

(* Alone, it acquires the run it has just found open.                      *)
LEMMA AcquiresOpenStep ==
  OneWorker /\ TypeOK /\ JobsOK /\ AcquiresOpen /\ [Next]_vars => AcquiresOpen'
<1> SUFFICES ASSUME OneWorker, TypeOK, JobsOK, AcquiresOpen, [Next]_vars,
                    NEW v \in Worker, pc'[v] = "acquire"
             PROVE  status'[RunOf(msg'[v])] # "terminal"
  BY DEF AcquiresOpen, RunOf
<1> USE \A w \in Worker : w = v DEF OneWorker
<1>1. CASE CreateOrGetRun(v)
  <2>1. RunOf(msg[v]) \in RunId /\ RunOf(msg[v]) = Body[msg[v]].run
    BY <1>1, EnvelopeOfMessage DEF CreateOrGetRun, JobsOK, FreePcs, StoppedPcs, RunOf
  <2>2. RunOf(msg'[v]) = RunOf(msg[v])
    BY <1>1 DEF CreateOrGetRun, jobVars, RunOf
  <2> QED
    BY <1>1, <2>1, <2>2 DEF CreateOrGetRun, AfterCreate, TypeOK
<1>2. CASE Refuse(v) \/ AcquireLease(v) \/ LeaseBusy(v) \/ Execute(v) \/ ExecutionFails(v)
             \/ LoseHeartbeat(v) \/ VerifyRun(v) \/ ReceiveFails(v) \/ Stop(v) \/ Crash(v)
             \/ Restart(v) \/ \E m \in Message : Receive(v, m)
  BY <1>2 DEF Refuse, AcquireLease, LeaseBusy, Execute, EnterExecution, ReadStage, WriteStage,
              CommitNode, ExecutionFails, LoseHeartbeat, VerifyRun, ReceiveFails, Stop, Crash,
              Restart, Receive, TypeOK
<1>3. CASE Acknowledge(v) \/ ReleaseMessage(v) \/ ReleaseLease(v)
  BY <1>3 DEF Acknowledge, AckPcs, ReleaseMessage, ReleasePcs, ReleaseLease, MoveOn, TypeOK
<1>4. CASE \/ Heartbeat(v) \/ Tick \/ UNCHANGED vars
           \/ \E m \in Message : Submit(m) \/ Redrive(m)
  BY <1>4 DEF AcquiresOpen, Heartbeat, Tick, Submit, Redrive, vars, runVars, jobVars, RunOf
<1> QED
  BY <1>1, <1>2, <1>3, <1>4 DEF Next, Prepare, Beat, Conclude

(* With one worker nothing but its own commits moves a checkpoint and       *)
(* nothing but its own stages ends a run, so worker, row and checkpoint     *)
(* keep in step even when the worker stalls.                               *)
LEMMA ThreadInvariant ==
  ASSUME OneWorker
  PROVE  Spec => [](NodeOK /\ TerminalNearEnd /\ RowFollowsNode /\ AcquiresOpen)
<1>1. Init => NodeOK /\ TerminalNearEnd /\ RowFollowsNode /\ AcquiresOpen
  BY DEF Init, NodeOK, TerminalNearEnd, RowFollowsNode, AcquiresOpen
<1>2. OneExecutorPerRun
  BY DEF OneWorker, OneExecutorPerRun
<1>3. LeaseHeld
  BY DEF OneWorker, LeaseHeld, ExecutingPcs
<1>4. TypeOK /\ JobsOK /\ NodeOK /\ TerminalNearEnd /\ RowFollowsNode /\ AcquiresOpen
        /\ [Next]_vars
        => NodeOK' /\ TerminalNearEnd' /\ RowFollowsNode' /\ AcquiresOpen'
  BY <1>2, <1>3, NodeStep, NearEndStep, RowFollowsStep, AcquiresOpenStep
<1> QED
  BY <1>1, <1>4, JobsInvariant, PTL DEF Spec

(* With one worker, no step takes a terminal status back.                  *)
LEMMA TerminalKept ==
  ASSUME TypeOK, JobsOK, RowFollowsNode, AcquiresOpen, [Next]_vars,
         NEW r \in RunId, status[r] = "terminal"
  PROVE  status'[r] = "terminal"
BY TerminalStep DEF AcquiresOpen, AcquireLease

(* A thread that ends has just had its row written.                        *)
LEMMA EndedStep ==
  TypeOK /\ JobsOK /\ EndedThreadIsTerminal /\ RowFollowsNode /\ AcquiresOpen /\ [Next]_vars
    => EndedThreadIsTerminal'
<1> SUFFICES ASSUME TypeOK, JobsOK, EndedThreadIsTerminal, RowFollowsNode, AcquiresOpen,
                    [Next]_vars, NEW r \in RunId, checkpoint'[r] = LastNode
             PROVE  status'[r] = "terminal"
  BY DEF EndedThreadIsTerminal
<1>1. CASE checkpoint[r] = LastNode
  BY <1>1, TerminalKept DEF EndedThreadIsTerminal
<1>2. ASSUME NEW w \in Worker, CommitNode(w), checkpoint[r] # LastNode
      PROVE  status'[r] = "terminal"
  <2>1. RunOf(msg[w]) = r /\ node[w] = LastNode
    BY <1>2 DEF CommitNode, TypeOK
  <2>2. pc[w] = "commit" /\ status' = status
    BY <1>2 DEF CommitNode, runVars
  <2> QED
    BY <2>1, <2>2 DEF RowFollowsNode
<1> QED
  BY <1>1, <1>2, CheckpointStep

(* Where one worker serves the queue, a run whose graph has ended has a    *)
(* terminal row, however often it died, failed or lagged on the way there. *)
THEOREM EndedRunsAreTerminal ==
  ASSUME OneWorker PROVE Spec => []EndedThreadIsTerminal
<1>1. Init => EndedThreadIsTerminal
  BY DeliveryAssumption DEF Init, EndedThreadIsTerminal
<1> QED
  BY <1>1, EndedStep, JobsInvariant, ThreadInvariant, PTL DEF Spec

(* One worker never takes a terminal status back: the reopening the run    *)
(* delivery_reopened shows needs a second one.                             *)
THEOREM TerminalStays ==
  ASSUME OneWorker PROVE Spec => TerminalIsFinal
<1>1. TypeOK /\ JobsOK /\ RowFollowsNode /\ AcquiresOpen /\ [Next]_vars
        => [\A r \in RunId : status[r] = "terminal" => status'[r] = "terminal"]_vars
  BY TerminalKept
<1> QED
  BY <1>1, JobsInvariant, ThreadInvariant, PTL DEF Spec, TerminalIsFinal

(* A run that has ever finished is still finished.                         *)
FinishedIsTerminal == \A r \in finished : status[r] = "terminal"

(* A run finishes in a step that makes its row terminal.                   *)
LEMMA FinishingStep ==
  ASSUME TypeOK, JobsOK, [Next]_vars, NEW r \in finished', r \notin finished
  PROVE  r \in RunId /\ status'[r] = "terminal"
<1>1. r \in RunId
  BY TypeStep DEF TypeOK
<1>2. finished' # finished
  OBVIOUS
<1>3. PICK w \in Worker : WriteStage(w)
  <2>1. ASSUME NEW w \in Worker,
               Prepare(w) \/ EnterExecution(w) \/ ReadStage(w) \/ CommitNode(w)
                 \/ ExecutionFails(w) \/ Beat(w) \/ Conclude(w)
                 \/ ReceiveFails(w) \/ Stop(w) \/ Crash(w) \/ Restart(w)
        PROVE  finished' = finished
    BY <2>1 DEF Prepare, CreateOrGetRun, Refuse, AcquireLease, LeaseBusy, EnterExecution,
                ReadStage, CommitNode, ExecutionFails, Beat, Heartbeat, LoseHeartbeat,
                Conclude, VerifyRun, Acknowledge, ReleaseMessage, ReleaseLease,
                ReceiveFails, Stop, Crash, Restart, runVars
  <2> QED
    BY <1>2, <2>1 DEF Next, Execute, Submit, Redrive, Receive, Tick, runVars, vars
<1>4. r = RunOf(msg[w]) /\ StageStatus(w) = "terminal"
  BY <1>3 DEF WriteStage
<1> QED
  BY <1>1, <1>3, <1>4 DEF WriteStage, TypeOK

LEMMA FinishedTerminalStep ==
  TypeOK /\ JobsOK /\ RowFollowsNode /\ AcquiresOpen /\ FinishedIsTerminal /\ [Next]_vars
    => FinishedIsTerminal'
<1> SUFFICES ASSUME TypeOK, JobsOK, RowFollowsNode, AcquiresOpen, FinishedIsTerminal,
                    [Next]_vars, NEW r \in finished'
             PROVE  status'[r] = "terminal"
  BY DEF FinishedIsTerminal
<1>1. CASE r \in finished
  BY <1>1, TerminalKept DEF FinishedIsTerminal, TypeOK
<1> QED
  BY <1>1, FinishingStep

(* Where one worker serves the queue, the run of a deleted message is and   *)
(* stays terminal, as the documents promise: what the run                  *)
(* delivery_reopened shows needs a second worker.                          *)
THEOREM AcknowledgedRunsStayTerminal ==
  ASSUME OneWorker PROVE Spec => []AcknowledgedRunIsTerminal
<1>1. Init => FinishedIsTerminal
  BY DEF Init, FinishedIsTerminal
<1>2. DeletedOnlyAfterTerminal /\ FinishedIsTerminal => AcknowledgedRunIsTerminal
  BY DEF DeletedOnlyAfterTerminal, FinishedIsTerminal, AcknowledgedRunIsTerminal
<1> QED
  BY <1>1, <1>2, FinishedTerminalStep, JobsInvariant, ThreadInvariant, NoWorkLost, PTL DEF Spec

-----------------------------------------------------------------------------
(* What an acknowledgement keeps when there are several workers.           *)

(* Whatever its row says, a run that has ever finished has the checkpoints  *)
(* of all its nodes but the last.                                          *)
FinishedIsComplete == \A r \in finished : checkpoint[r] >= LastNode - 1

LEMMA FinishedCompleteStep ==
  TypeOK /\ JobsOK /\ NodeOK /\ TerminalNearEnd /\ FinishedIsComplete /\ [Next]_vars
    => FinishedIsComplete'
<1> SUFFICES ASSUME TypeOK, JobsOK, NodeOK, TerminalNearEnd, FinishedIsComplete, [Next]_vars,
                    NEW r \in finished'
             PROVE  checkpoint'[r] >= LastNode - 1
  BY DEF FinishedIsComplete
<1>1. CASE r \in finished
  <2>1. r \in RunId /\ checkpoint[r] >= LastNode - 1
    BY <1>1 DEF FinishedIsComplete, TypeOK
  <2>2. checkpoint[r] \in Nat /\ checkpoint'[r] \in Nat
    BY <2>1, TypeStep DEF TypeOK
  <2>3. checkpoint'[r] >= checkpoint[r]
    BY <2>1, CheckpointStep, CommitStep DEF TypeOK
  <2> QED
    BY <2>1, <2>2, <2>3, DeliveryAssumption
<1>2. CASE r \notin finished
  BY <1>2, FinishingStep, NearEndStep DEF TerminalNearEnd
<1> QED
  BY <1>1, <1>2

(* Unless a worker stalls, a message leaves the queue only when all nodes   *)
(* of its run but the last are checkpointed, and no worker that works on a  *)
(* copy of the message ever takes one back.                                *)
THEOREM AcknowledgedRunsAreComplete ==
  ASSUME "lag" \notin Faults PROVE Spec => []AcknowledgedRunIsComplete
<1>1. Init => FinishedIsComplete
  BY DEF Init, FinishedIsComplete
<1>2. DeletedOnlyAfterTerminal /\ FinishedIsComplete => AcknowledgedRunIsComplete
  BY DEF DeletedOnlyAfterTerminal, FinishedIsComplete, AcknowledgedRunIsComplete
<1> QED
  BY <1>1, <1>2, FinishedCompleteStep, JobsInvariant, NodeInvariant, NoWorkLost, PTL DEF Spec

-----------------------------------------------------------------------------
(* Refinement of RunContract.                                              *)

(* Every run starts open, with none of its nodes done.                     *)
LEMMA RunInit == ASSUME Init, NEW r \in RunId PROVE Run(r)!Init
BY DEF Init, Run!Init

(* A stage that makes the row terminal is the one of the last node.        *)
LEMMA StageSimulation ==
  ASSUME TypeOK, JobsOK, NodeOK, RowFollowsNode,
         NEW r \in RunId, NEW w \in Worker, WriteStage(w)
  PROVE  Run(r)!Complete \/ UNCHANGED Run(r)!vars
<1>1. checkpoint' = checkpoint
  BY DEF WriteStage
<1>2. CASE RunOf(msg[w]) = r
  <2>1. status[r] # "terminal" /\ seen[w] # "terminal"
    BY <1>2 DEF WriteStage, RowFollowsNode
  <2>2. status'[r] = StageStatus(w)
    BY <1>2 DEF WriteStage, TypeOK
  <2>3. CASE node[w] = LastNode
    <3>1. checkpoint[r] + 1 = LastNode
      BY <1>2, <2>3 DEF WriteStage, NodeOK
    <3>2. status'[r] = "terminal"
      BY <2>2, <2>3, DeliveryAssumption DEF StageStatus
    <3> QED
      BY <1>1, <2>1, <3>1, <3>2 DEF Run!Complete
  <2>4. CASE node[w] # LastNode
    <3>1. status'[r] # "terminal"
      BY <2>1, <2>2, <2>4 DEF StageStatus
    <3> QED
      BY <1>1, <2>1, <3>1 DEF Run!vars
  <2> QED
    BY <2>3, <2>4
<1>3. CASE RunOf(msg[w]) # r
  <2>1. status'[r] = status[r]
    BY <1>3 DEF WriteStage, TypeOK
  <2> QED
    BY <1>1, <2>1 DEF Run!vars
<1> QED
  BY <1>2, <1>3

(* A commit completes one node of its run and leaves the others alone.     *)
LEMMA CommitSimulation ==
  ASSUME TypeOK, JobsOK, NodeOK, RowFollowsNode,
         NEW r \in RunId, NEW w \in Worker, CommitNode(w)
  PROVE  Run(r)!Advance \/ Run(r)!End \/ UNCHANGED Run(r)!vars
<1>1. status' = status
  BY DEF CommitNode, runVars
<1>2. CASE RunOf(msg[w]) # r
  <2>1. checkpoint'[r] = checkpoint[r]
    BY <1>2, CommitStep DEF TypeOK
  <2> QED
    BY <1>1, <2>1 DEF Run!vars
<1>3. CASE RunOf(msg[w]) = r
  <2>1. checkpoint'[r] = checkpoint[r] + 1 /\ checkpoint[r] \in Nat
    BY <1>3, CommitStep DEF TypeOK
  <2>2. /\ checkpoint[r] + 1 <= LastNode
        /\ status[r] = "terminal" <=> checkpoint[r] + 1 = LastNode
    BY <1>3 DEF CommitNode, NodeOK, RowFollowsNode
  <2>3. CASE checkpoint[r] + 1 = LastNode
    BY <1>1, <2>1, <2>2, <2>3 DEF Run!End
  <2>4. CASE checkpoint[r] + 1 < LastNode
    <3>1. status[r] # "terminal"
      BY <2>1, <2>2, <2>4, DeliveryAssumption
    <3> QED
      BY <1>1, <2>1, <2>4, <3>1 DEF Run!Advance
  <2> QED
    BY <2>1, <2>2, <2>3, <2>4, DeliveryAssumption
<1> QED
  BY <1>2, <1>3

(* Every step is a step of the contract of a run, leaves the run alone, or  *)
(* takes the lease of a run that is terminal and so reopens it.            *)
LEMMA RunSimulation ==
  ASSUME TypeOK, JobsOK, NodeOK, RowFollowsNode, [Next]_vars, NEW r \in RunId
  PROVE  \/ [Run(r)!Next]_(Run(r)!vars)
         \/ /\ Run(r)!Reopen
            /\ \E w \in Worker : AcquireLease(w) /\ RunOf(msg[w]) = r
            /\ status[r] = "terminal"
<1>1. CASE checkpoint' = checkpoint /\ status' = status
  BY <1>1 DEF Run!vars
<1>2. ASSUME NEW w \in Worker, CommitNode(w) PROVE [Run(r)!Next]_(Run(r)!vars)
  BY <1>2, CommitSimulation DEF Run!Next
<1>3. ASSUME NEW w \in Worker, WriteStage(w) PROVE [Run(r)!Next]_(Run(r)!vars)
  BY <1>3, StageSimulation DEF Run!Next
<1>4. ASSUME NEW w \in Worker, CreateOrGetRun(w) PROVE UNCHANGED Run(r)!vars
  <2>1. checkpoint' = checkpoint /\ (status'[r] = "terminal" <=> status[r] = "terminal")
    BY <1>4 DEF CreateOrGetRun, TypeOK
  <2> QED
    BY <2>1 DEF Run!vars
<1>5. ASSUME NEW w \in Worker, AcquireLease(w)
      PROVE  \/ UNCHANGED Run(r)!vars
             \/ Run(r)!Reopen /\ RunOf(msg[w]) = r /\ status[r] = "terminal"
  <2>1. checkpoint' = checkpoint
    BY <1>5 DEF AcquireLease
  <2>2. status'[r] = IF RunOf(msg[w]) = r THEN "running" ELSE status[r]
    BY <1>5 DEF AcquireLease, TypeOK
  <2>3. CASE RunOf(msg[w]) = r /\ status[r] = "terminal"
    BY <2>1, <2>2, <2>3 DEF Run!Reopen
  <2>4. CASE ~ (RunOf(msg[w]) = r /\ status[r] = "terminal")
    <3>1. status'[r] = "terminal" <=> status[r] = "terminal"
      BY <2>2, <2>4
    <3> QED
      BY <2>1, <3>1 DEF Run!vars
  <2> QED
    BY <2>3, <2>4
<1> QED
  BY <1>1, <1>2, <1>3, <1>4, <1>5, RowStep, CheckpointStep

(* Where one worker serves the queue, every run keeps its contract, for any *)
(* number of nodes and whatever crashes, failures, stalls and redeliveries  *)
(* occur: its nodes are completed one by one, the row becomes terminal in   *)
(* the last of them, and nothing is ever taken back.                       *)
THEOREM RunsImplementContract == ASSUME OneWorker PROVE Spec => RunsKeepContract
<1>1. Init => \A r \in RunId : Run(r)!Init
  BY RunInit
<1>2. TypeOK /\ JobsOK /\ NodeOK /\ RowFollowsNode /\ AcquiresOpen /\ [Next]_vars
        => [\A r \in RunId : [Run(r)!Next]_(Run(r)!vars)]_vars
  BY RunSimulation DEF AcquiresOpen, AcquireLease
<1> QED
  BY <1>1, <1>2, JobsInvariant, ThreadInvariant, PTL DEF Spec, RunsKeepContract

(* The same as a refinement of RunContract by each run.                    *)
COROLLARY EachRunImplementsContract ==
  ASSUME OneWorker PROVE Spec => \A r \in RunId : Run(r)!Spec
<1>1. ASSUME NEW r \in RunId PROVE Spec => Run(r)!Spec
  <2>1. Init => Run(r)!Init
    BY RunInit
  <2>2. TypeOK /\ JobsOK /\ NodeOK /\ RowFollowsNode /\ AcquiresOpen /\ [Next]_vars
          => [Run(r)!Next]_(Run(r)!vars)
    BY RunSimulation DEF AcquiresOpen, AcquireLease
  <2> QED
    BY <2>1, <2>2, JobsInvariant, ThreadInvariant, PTL DEF Spec, Run!Spec
<1> QED
  BY <1>1, Zenon

(* With any number of workers, if none stalls: copies of a message may make *)
(* a terminal run look open again, and that is all that can happen to a run *)
(* outside its contract.                                                   *)
THEOREM RunsOnlyReopen == ASSUME "lag" \notin Faults PROVE Spec => RunsReopenAtMost
<1>1. Init => \A r \in RunId : Run(r)!Init
  BY RunInit
<1>2. TypeOK /\ JobsOK /\ NodeOK /\ RowFollowsNode /\ [Next]_vars
        => [\A r \in RunId : [Run(r)!Next \/ Run(r)!Reopen]_(Run(r)!vars)]_vars
  BY RunSimulation
<1> QED
  BY <1>1, <1>2, JobsInvariant, NodeInvariant, RowInvariant, PTL DEF Spec, RunsReopenAtMost

(* The same as a refinement of the reopening contract by each run.         *)
COROLLARY EachRunOnlyReopens ==
  ASSUME "lag" \notin Faults PROVE Spec => \A r \in RunId : Run(r)!ReopeningSpec
<1>1. ASSUME NEW r \in RunId PROVE Spec => Run(r)!ReopeningSpec
  <2>1. Init => Run(r)!Init
    BY RunInit
  <2>2. TypeOK /\ JobsOK /\ NodeOK /\ RowFollowsNode /\ [Next]_vars
          => [Run(r)!Next \/ Run(r)!Reopen]_(Run(r)!vars)
    BY RunSimulation
  <2> QED
    BY <2>1, <2>2, JobsInvariant, NodeInvariant, RowInvariant, PTL DEF Spec, Run!ReopeningSpec
<1> QED
  BY <1>1, Zenon

-----------------------------------------------------------------------------
(* Refinement of DeliveryContract: every step of the workers, the store    *)
(* and the queue is one step of the contract or leaves its variables alone. *)

Stutters == UNCHANGED <<request, finished>>
              /\ \A m \in Message : OutcomeAt[place'[m]] = OutcomeAt[place[m]]

(* A step that keeps requests, finished runs and outcomes is a stutter of  *)
(* the contract.                                                           *)
LEMMA StutterStep == Stutters => UNCHANGED Contract!vars
BY DEF Stutters, Contract!vars

(* Receiving, releasing and timing out only move a pending message.        *)
LEMMA PendingStep ==
  ASSUME TypeOK, UNCHANGED <<request, finished>>,
         \A m \in Message :
           \/ place'[m] = place[m]
           \/ {place[m], place'[m]} \subseteq {"visible", "flight"}
  PROVE  Stutters
BY DEF Stutters, OutcomeAt

(* The outcome that stands for each place.                                 *)
LEMMA Outcomes ==
  /\ OutcomeAt["unsent"] = "unsent"
  /\ OutcomeAt["visible"] = "pending" /\ OutcomeAt["flight"] = "pending"
  /\ OutcomeAt["deleted"] = "acknowledged" /\ OutcomeAt["dead"] = "abandoned"
BY DEF OutcomeAt

(* Moving one message changes the outcome of that message only.            *)
LEMMA MoveOutcome ==
  ASSUME TypeOK, NEW m \in Message, NEW p \in Places,
         place' = [place EXCEPT ![m] = p]
  PROVE  [x \in Message |-> OutcomeAt[place[x]]]'
           = [[x \in Message |-> OutcomeAt[place[x]]] EXCEPT ![m] = OutcomeAt[p]]
<1>1. \A x \in Message : place'[x] = IF x = m THEN p ELSE place[x]
  BY DEF TypeOK
<1>2. [x \in Message |-> OutcomeAt[place[x]]]'
        = [x \in Message |-> IF x = m THEN OutcomeAt[p] ELSE OutcomeAt[place[x]]]
  BY <1>1
<1>3. [x \in Message |-> IF x = m THEN OutcomeAt[p] ELSE OutcomeAt[place[x]]]
        = [[x \in Message |-> OutcomeAt[place[x]]] EXCEPT ![m] = OutcomeAt[p]]
  OBVIOUS
<1> QED
  BY <1>2, <1>3

(* Every step is a step of the contract or a stutter; one case per action. *)
LEMMA Simulation ==
  TypeOK /\ JobsOK /\ FinishedOK /\ [Next]_vars => [Contract!Next]_(Contract!vars)
<1> SUFFICES ASSUME TypeOK, JobsOK, FinishedOK, [Next]_vars
             PROVE  Contract!Next \/ Stutters
  BY StutterStep
<1> USE DEF queueVars, runVars
<1>1. ASSUME NEW m \in Message, Submit(m) PROVE Contract!Submit(m)
  <2>1. [x \in Message |-> OutcomeAt[place[x]]]'
          = [[x \in Message |-> OutcomeAt[place[x]]] EXCEPT ![m] = "pending"]
    BY <1>1, MoveOutcome, Outcomes DEF Submit, Places
  <2> QED
    BY <1>1, <2>1, Outcomes DEF Submit, Contract!Submit
<1>2. ASSUME NEW m \in Message, Redrive(m) PROVE Contract!Abandon(m)
  <2>1. [x \in Message |-> OutcomeAt[place[x]]]'
          = [[x \in Message |-> OutcomeAt[place[x]]] EXCEPT ![m] = "abandoned"]
    BY <1>2, MoveOutcome, Outcomes DEF Redrive, Places
  <2> QED
    BY <1>2, <2>1, Outcomes DEF Redrive, Contract!Abandon
<1>3. ASSUME NEW w \in Worker, NEW m \in Message, Receive(w, m) PROVE Stutters
  BY <1>3, PendingStep DEF Receive, TypeOK
<1>4. ASSUME NEW w \in Worker, CreateOrGetRun(w)
      PROVE  Stutters \/ \E e \in Envelope : Contract!Accept(e)
  <2> DEFINE e == Body[msg[w]]
  <2>1. e \in Envelope
    BY <1>4, EnvelopeOfMessage DEF CreateOrGetRun, JobsOK, FreePcs, StoppedPcs
  <2>2. CASE request[e.run] = e
    <3>1. request' = request
      BY <1>4, <2>2 DEF CreateOrGetRun, TypeOK
    <3> QED
      BY <1>4, <3>1, PendingStep DEF CreateOrGetRun
  <2>3. CASE request[e.run] # e
    BY <1>4, <2>1, <2>3 DEF CreateOrGetRun, Accepts, Contract!Accept
  <2> QED
    BY <2>2, <2>3
<1>5. ASSUME NEW w \in Worker, WriteStage(w)
      PROVE  Stutters \/ \E r \in RunId : Contract!Complete(r)
  <2>1. RunOf(msg[w]) \in RunId /\ request[RunOf(msg[w])] # NoRequest
    BY <1>5, AcceptedJob, EnvelopeOfMessage, DeliveryAssumption
       DEF WriteStage, AcceptedPcs, HoldingPcs, BeatingPcs, ExecutingPcs
  <2>2. CASE StageStatus(w) = "terminal"
    BY <1>5, <2>1, <2>2 DEF WriteStage, Contract!Complete
  <2>3. CASE StageStatus(w) # "terminal"
    BY <1>5, <2>3, PendingStep DEF WriteStage
  <2> QED
    BY <2>2, <2>3
<1>6. ASSUME NEW w \in Worker, Acknowledge(w)
      PROVE  Stutters \/ \E m \in Message : Contract!Acknowledge(m)
  <2>1. pc[w] \in AckPcs /\ pc[w] \in AcceptedPcs
    BY <1>6 DEF Acknowledge, AckPcs, AcceptedPcs, HoldingPcs
  <2>2. /\ msg[w] \in Message /\ Valid(msg[w])
        /\ request[RunOf(msg[w])] = Body[msg[w]]
        /\ RunOf(msg[w]) \in finished
    BY <2>1, AcceptedJob DEF FinishedOK
  <2>3. CASE place[msg[w]] \in {"visible", "flight"} /\ Move(msg[w], "deleted")
    <3>1. [m \in Message |-> OutcomeAt[place[m]]]'
            = [[m \in Message |-> OutcomeAt[place[m]]] EXCEPT ![msg[w]] = "acknowledged"]
      BY <2>2, <2>3, MoveOutcome, Outcomes DEF Move, Places
    <3>2. UNCHANGED <<request, finished>>
      BY <1>6 DEF Acknowledge
    <3>3. OutcomeAt[place[msg[w]]] = "pending"
      BY <2>3, Outcomes
    <3> QED
      BY <2>2, <3>1, <3>2, <3>3 DEF Contract!Acknowledge, Valid, RunOf
  <2>4. CASE UNCHANGED place
    BY <1>6, <2>4, PendingStep DEF Acknowledge
  <2> QED
    BY <1>6, <2>3, <2>4 DEF Acknowledge, Delete
<1>7. ASSUME NEW w \in Worker, ReleaseMessage(w) PROVE Stutters
  BY <1>7, PendingStep DEF ReleaseMessage, MakeVisible, Move, TypeOK
<1>8. ASSUME NEW w \in Worker,
             EnterExecution(w) \/ ReadStage(w) \/ CommitNode(w) \/ ExecutionFails(w)
               \/ Beat(w) \/ VerifyRun(w)
      PROVE  Stutters
  BY <1>8, PendingStep DEF EnterExecution, ReadStage, CommitNode, ExecutionFails,
                           Beat, Heartbeat, LoseHeartbeat, VerifyRun
<1>9. ASSUME NEW w \in Worker,
             Refuse(w) \/ AcquireLease(w) \/ LeaseBusy(w) \/ ReleaseLease(w)
               \/ ReceiveFails(w) \/ Stop(w) \/ Crash(w) \/ Restart(w)
      PROVE  Stutters
  BY <1>9, PendingStep DEF Refuse, AcquireLease, LeaseBusy, ReleaseLease,
                           ReceiveFails, Stop, Crash, Restart
<1>10. CASE Tick
  BY <1>10, PendingStep DEF Tick
<1>11. CASE UNCHANGED vars
  BY <1>11, PendingStep DEF vars
<1> QED
  <2>1. Envelope = Contract!Envelope
    BY DEF Envelope, Contract!Envelope
  <2> QED
    BY <1>1, <1>2, <1>3, <1>4, <1>5, <1>6, <1>7, <1>8, <1>9, <1>10, <1>11, <2>1
       DEF Next, Prepare, Execute, Conclude, Contract!Next

(* Delivery implements its contract: every request is accepted at most     *)
(* once, and a message acknowledged only for its own completed request,    *)
(* for any workers, messages, time-outs and faults, stalls included.       *)
THEOREM DeliveryImplementsContract == Spec => ImplementsContract
<1>1. Init => Contract!Init
  BY DEF Init, Contract!Init, OutcomeAt
<1>2. Init => FinishedOK
  BY FinishedInit
<1> QED
  BY <1>1, <1>2, FinishedStep, Simulation, JobsInvariant, PTL
     DEF Spec, ImplementsContract, Contract!Spec

=============================================================================

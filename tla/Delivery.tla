------------------------------ MODULE Delivery ------------------------------
(***************************************************************************)
(* Delivery of acquisition requests: the SQS queue and its dead-letter     *)
(* queue, the workers of entrypoints/worker.py, the row that SqliteRunStore *)
(* keeps for each run (status and lease) and the LangGraph checkpoint the  *)
(* execution resumes from.                                                 *)
(*                                                                         *)
(* An execution is a chain of LastNode graph nodes.  What the nodes do is  *)
(* the subject of RunGraph and ReviewLoop; here a node is what it does to  *)
(* the run's row and to the checkpoint: update_stage reads the row and     *)
(* then writes it, in two transactions, and the checkpoint is committed    *)
(* after the node has returned.  Node 1 (prepare_run) writes the status    *)
(* running, node LastNode (flush_telemetry) a terminal one, the nodes in   *)
(* between write back the status they read.                                *)
(*                                                                         *)
(* Time passes in Ticks; leases, message visibility and heartbeats are     *)
(* countdown timers, 0 meaning expired or due.                             *)
(***************************************************************************)
EXTENDS Integers

CONSTANTS
  Worker,             \* worker ids (WorkerConfig.worker_id)
  NoWorker,           \* lease_owner IS NULL
  Message,            \* messages the trigger may put on the queue
  NoMessage,          \* a worker that is handling none
  RunId, Key, Url,    \* what an envelope is made of
  Malformed,          \* a body parse_queue_envelope refuses
  NoRequest,          \* no row for this run id
  Body,               \* Body[m]: the envelope in message m, or Malformed
  LastNode,           \* number of graph nodes
  MaxReceive,         \* maxReceiveCount of the redrive policy
  LeaseTTL,           \* lease_ttl_seconds, in ticks
  VisibilityTTL,      \* INITIAL_VISIBILITY_SECONDS, in ticks
  HeartbeatPeriod,    \* heartbeat_seconds, in ticks
  Faults,             \* the faults this instance admits
  MaxCrashes          \* bound on worker crashes

(* The request hash covers the run id, the key and the url, so an envelope *)
(* stands for its own hash.                                                *)
Envelope == [run : RunId, key : Key, url : Url]

FaultKinds == {"node",   \* a node of the graph raises
               "store",  \* a SQLite operation fails
               "queue",  \* an SQS call fails
               "lag",    \* a worker stalls past its heartbeat
               "stop"}   \* the operator stops workers

ASSUME DeliveryAssumption ==
  /\ NoWorker \notin Worker
  /\ NoMessage \notin Message
  /\ Malformed \notin Envelope
  /\ NoRequest \notin Envelope
  /\ Body \in [Message -> Envelope \cup {Malformed}]
  /\ LastNode \in Nat /\ LastNode >= 2
  /\ MaxReceive \in Nat \ {0}
  /\ LeaseTTL \in Nat
  /\ VisibilityTTL \in Nat \ {0}
  /\ HeartbeatPeriod \in Nat \ {0}
  /\ HeartbeatPeriod < LeaseTTL      \* WorkerConfig.__post_init__
  /\ Faults \subseteq FaultKinds
  /\ MaxCrashes \in Nat

VARIABLES
  \* the queue
  place,       \* where each message is
  receives,    \* ApproximateReceiveCount; its value at a receive is the receipt handle
  visibility,  \* ticks until a message in flight shows again
  \* runs.db and checkpoints.db
  request,     \* the request hash of each run, NoRequest if there is no row
  status,      \* runs.status
  owner, ttl,  \* runs.lease_owner and the ticks until lease_expires_at
  checkpoint,  \* the last node whose checkpoint was committed
  \* the workers
  pc, msg, receipt,
  node, seen,  \* the node being executed and the status update_stage read
  beat,        \* ticks until the next heartbeat
  crashes,
  \* history
  finished     \* runs whose row has ever held a terminal status

queueVars == <<place, receives, visibility>>
leaseVars == <<owner, ttl>>
runVars   == <<request, status, finished>>
jobVars   == <<msg, receipt>>
execVars  == <<node, seen>>
vars == <<queueVars, runVars, leaseVars, checkpoint, pc, jobVars, execVars,
          beat, crashes>>

-----------------------------------------------------------------------------
(* Control points of Worker.process.                                       *)

ExecutingPcs == {"enter", "read", "write", "commit"}  \* the execution task is live
BeatingPcs   == ExecutingPcs \cup {"backoff"}         \* the heartbeat task is live
HoldingPcs   == BeatingPcs \cup {"verify", "ack", "release", "unlock", "unlockRaising"}
ReleasePcs   == {"releaseEarly", "releaseStop", "release", "backoff"}
AckPcs       == {"ackEarly", "ack"}
StoppedPcs   == {"down", "raised"}
Pcs == {"idle", "received", "acquire", "ackEarly", "releaseEarly", "releaseStop"}
         \cup HoldingPcs \cup StoppedPcs

(* The locals of process and of the execution are gone.                    *)
Forget(w) ==
  /\ msg' = [msg EXCEPT ![w] = NoMessage]
  /\ receipt' = [receipt EXCEPT ![w] = 0]
  /\ node' = [node EXCEPT ![w] = 0]
  /\ seen' = [seen EXCEPT ![w] = "absent"]

(* Where a worker goes once it has acknowledged or released its message:   *)
(* through the finally block if it holds the lease, else back to polling.  *)
MoveOn(w) ==
  IF pc[w] \in HoldingPcs
  THEN pc' = [pc EXCEPT ![w] = "unlock"] /\ UNCHANGED <<jobVars, execVars>>
  ELSE pc' = [pc EXCEPT ![w] = IF @ = "releaseStop" THEN "down" ELSE "idle"] /\ Forget(w)

Statuses == {"absent", "received", "running", "terminal"}
Places   == {"unsent", "visible", "flight", "deleted", "dead"}

Valid(m) == Body[m] # Malformed
RunOf(m) == Body[m].run

TypeOK ==
  /\ place \in [Message -> Places]
  /\ receives \in [Message -> 0 .. MaxReceive]
  /\ visibility \in [Message -> Nat]
  /\ request \in [RunId -> Envelope \cup {NoRequest}]
  /\ status \in [RunId -> Statuses]
  /\ owner \in [RunId -> Worker \cup {NoWorker}]
  /\ ttl \in [RunId -> Nat]
  /\ checkpoint \in [RunId -> 0 .. LastNode]
  /\ pc \in [Worker -> Pcs]
  /\ msg \in [Worker -> Message \cup {NoMessage}]
  /\ receipt \in [Worker -> 0 .. MaxReceive]
  /\ node \in [Worker -> 0 .. LastNode]
  /\ seen \in [Worker -> Statuses]
  /\ beat \in [Worker -> Nat]
  /\ crashes \in 0 .. MaxCrashes
  /\ finished \subseteq RunId

Init ==
  /\ place = [m \in Message |-> "unsent"]
  /\ receives = [m \in Message |-> 0]
  /\ visibility = [m \in Message |-> 0]
  /\ request = [r \in RunId |-> NoRequest]
  /\ status = [r \in RunId |-> "absent"]
  /\ owner = [r \in RunId |-> NoWorker]
  /\ ttl = [r \in RunId |-> 0]
  /\ checkpoint = [r \in RunId |-> 0]
  /\ pc = [w \in Worker |-> "idle"]
  /\ msg = [w \in Worker |-> NoMessage]
  /\ receipt = [w \in Worker |-> 0]
  /\ node = [w \in Worker |-> 0]
  /\ seen = [w \in Worker |-> "absent"]
  /\ beat = [w \in Worker |-> 0]
  /\ crashes = 0
  /\ finished = {}

-----------------------------------------------------------------------------
(* Faulty variants of some definitions below, for mutation checks only.    *)

AckRunning(r) == IF status[r] \in {"running", "terminal"} THEN "ackEarly" ELSE "acquire"
AlwaysAcquire(r) == "acquire"
LeaseAvailableWhenDue(w, r) ==
  owner[r] \in {NoWorker, w} \/ ttl[r] <= LeaseTTL - HeartbeatPeriod
ResumeFromStart(r) == 1
TerminalTooEarly(w) == IF node[w] >= LastNode - 1 THEN "terminal" ELSE seen[w]
RetryInPlace(w) ==
  /\ pc[w] \in ExecutingPcs
  /\ {"node", "store"} \cap Faults # {}
  /\ pc' = [pc EXCEPT ![w] = "enter"]
  /\ UNCHANGED <<queueVars, runVars, leaseVars, checkpoint, jobVars, execVars,
                 beat, crashes>>

-----------------------------------------------------------------------------
(* The queue.                                                              *)

(* The trigger publishes a request; handing the same body to two messages  *)
(* is a client that repeats its request.                                   *)
Submit(m) ==
  /\ place[m] = "unsent"
  /\ place' = [place EXCEPT ![m] = "visible"]
  /\ UNCHANGED <<receives, visibility, runVars, leaseVars, checkpoint, pc,
                 jobVars, execVars, beat, crashes>>

(* A message that was received maxReceiveCount times is moved to the       *)
(* dead-letter queue instead of being received again.                      *)
Redrive(m) ==
  /\ place[m] = "visible"
  /\ receives[m] = MaxReceive
  /\ place' = [place EXCEPT ![m] = "dead"]
  /\ UNCHANGED <<receives, visibility, runVars, leaseVars, checkpoint, pc,
                 jobVars, execVars, beat, crashes>>

(* The handle a worker holds still names the latest receive of its message. *)
CurrentReceipt(w) == receipt[w] = receives[msg[w]]

Move(m, p) ==
  /\ place' = [place EXCEPT ![m] = p]
  /\ visibility' = [visibility EXCEPT ![m] = 0]

(* DeleteMessage with a handle that a later receive replaced may or may    *)
(* not delete the message; a failing call leaves it.                       *)
Delete(w) ==
  \/ /\ place[msg[w]] \in {"visible", "flight"}
     /\ Move(msg[w], "deleted")
  \/ /\ ~ CurrentReceipt(w) \/ place[msg[w]] \in {"deleted", "dead"} \/ "queue" \in Faults
     /\ UNCHANGED <<place, visibility>>

(* ChangeMessageVisibility to 0, likewise; an error is suppressed.         *)
MakeVisible(w) ==
  \/ /\ place[msg[w]] = "flight"
     /\ Move(msg[w], "visible")
  \/ /\ ~ CurrentReceipt(w) \/ place[msg[w]] # "flight" \/ "queue" \in Faults
     /\ UNCHANGED <<place, visibility>>

-----------------------------------------------------------------------------
(* Worker.run: poll, and end with the stop event.                          *)

Receive(w, m) ==
  /\ pc[w] = "idle"
  /\ place[m] = "visible"
  /\ receives[m] < MaxReceive
  /\ place' = [place EXCEPT ![m] = "flight"]
  /\ receives' = [receives EXCEPT ![m] = @ + 1]
  /\ visibility' = [visibility EXCEPT ![m] = VisibilityTTL]
  /\ pc' = [pc EXCEPT ![w] = "received"]
  /\ msg' = [msg EXCEPT ![w] = m]
  /\ receipt' = [receipt EXCEPT ![w] = receives[m] + 1]
  /\ UNCHANGED <<runVars, leaseVars, checkpoint, execVars, beat, crashes>>

(* queue.receive raises, and nothing in run catches it.                    *)
ReceiveFails(w) ==
  /\ pc[w] = "idle"
  /\ "queue" \in Faults
  /\ pc' = [pc EXCEPT ![w] = "raised"]
  /\ UNCHANGED <<queueVars, runVars, leaseVars, checkpoint, jobVars, execVars,
                 beat, crashes>>

Stop(w) ==
  /\ "stop" \in Faults
  /\ \/ pc[w] = "idle" /\ pc' = [pc EXCEPT ![w] = "down"]
     \/ pc[w] = "received" /\ pc' = [pc EXCEPT ![w] = "releaseStop"]
  /\ UNCHANGED <<queueVars, runVars, leaseVars, checkpoint, jobVars, execVars,
                 beat, crashes>>

(* The process dies at any point; its lease and its message stay behind.   *)
Crash(w) ==
  /\ pc[w] \notin StoppedPcs
  /\ crashes < MaxCrashes
  /\ crashes' = crashes + 1
  /\ pc' = [pc EXCEPT ![w] = "down"]
  /\ beat' = [beat EXCEPT ![w] = 0]
  /\ Forget(w)
  /\ UNCHANGED <<queueVars, runVars, leaseVars, checkpoint>>

(* A worker started again under the same configured worker_id.             *)
Restart(w) ==
  /\ pc[w] \in StoppedPcs
  /\ pc' = [pc EXCEPT ![w] = "idle"]
  /\ UNCHANGED <<queueVars, runVars, leaseVars, checkpoint, jobVars, execVars,
                 beat, crashes>>

-----------------------------------------------------------------------------
(* Worker.process before the lease.                                        *)

(* create_or_get_run accepts a request that is new in both its run id and  *)
(* its key, or that is the very request the run was created with.          *)
Accepts(e) ==
  \/ request[e.run] = e
  \/ /\ request[e.run] = NoRequest
     /\ \A r \in RunId : request[r] # NoRequest => request[r].key # e.key

(* A terminal run is acknowledged without executing it.                    *)
AfterCreate(r) == IF status[r] = "terminal" THEN "ackEarly" ELSE "acquire"

CreateOrGetRun(w) ==
  LET e == Body[msg[w]] IN
  /\ pc[w] = "received"
  /\ Valid(msg[w]) /\ Accepts(e)
  /\ request' = [request EXCEPT ![e.run] = e]
  /\ status' = [status EXCEPT ![e.run] = IF @ = "absent" THEN "received" ELSE @]
  /\ pc' = [pc EXCEPT ![w] = AfterCreate(e.run)]
  /\ UNCHANGED <<queueVars, leaseVars, checkpoint, jobVars, execVars, beat,
                 crashes, finished>>

(* A malformed body, an idempotency conflict or a failing store: the       *)
(* message is released.                                                    *)
Refuse(w) ==
  /\ \/ /\ pc[w] = "received"
        /\ ~ (Valid(msg[w]) /\ Accepts(Body[msg[w]])) \/ "store" \in Faults
     \/ pc[w] = "acquire" /\ "store" \in Faults
  /\ pc' = [pc EXCEPT ![w] = "releaseEarly"]
  /\ UNCHANGED <<queueVars, runVars, leaseVars, checkpoint, jobVars, execVars,
                 beat, crashes>>

(* The WHERE clause of acquire_lease.                                      *)
LeaseAvailable(w, r) == owner[r] \in {NoWorker, w} \/ ttl[r] = 0

AcquireLease(w) ==
  LET r == RunOf(msg[w]) IN
  /\ pc[w] = "acquire"
  /\ LeaseAvailable(w, r)
  /\ owner' = [owner EXCEPT ![r] = w]
  /\ ttl' = [ttl EXCEPT ![r] = LeaseTTL]
  /\ status' = [status EXCEPT ![r] = "running"]
  /\ pc' = [pc EXCEPT ![w] = "enter"]
  /\ beat' = [beat EXCEPT ![w] = HeartbeatPeriod]
  /\ UNCHANGED <<queueVars, request, finished, checkpoint, jobVars, execVars,
                 crashes>>

LeaseBusy(w) ==
  /\ pc[w] = "acquire"
  /\ ~ LeaseAvailable(w, RunOf(msg[w]))
  /\ pc' = [pc EXCEPT ![w] = "releaseEarly"]
  /\ UNCHANGED <<queueVars, runVars, leaseVars, checkpoint, jobVars, execVars,
                 beat, crashes>>

-----------------------------------------------------------------------------
(* The execution task: RunService.execute and the graph.                   *)

(* A thread that has reached its end, or a run already terminal, executes  *)
(* nothing; otherwise the graph resumes after the last checkpoint.         *)
NothingLeft(r) ==
  \/ checkpoint[r] = LastNode
  \/ checkpoint[r] > 0 /\ status[r] = "terminal"

ResumeNode(r) == checkpoint[r] + 1

EnterExecution(w) ==
  LET r == RunOf(msg[w]) IN
  /\ pc[w] = "enter"
  /\ IF NothingLeft(r)
     THEN /\ pc' = [pc EXCEPT ![w] = "verify"]
          /\ beat' = [beat EXCEPT ![w] = 0]
          /\ UNCHANGED node
     ELSE /\ pc' = [pc EXCEPT ![w] = "read"]
          /\ node' = [node EXCEPT ![w] = ResumeNode(r)]
          /\ UNCHANGED beat
  /\ UNCHANGED <<queueVars, runVars, leaseVars, checkpoint, jobVars, seen, crashes>>

(* update_stage, first transaction: get_run.                               *)
ReadStage(w) ==
  /\ pc[w] = "read"
  /\ seen' = [seen EXCEPT ![w] = status[RunOf(msg[w])]]
  /\ pc' = [pc EXCEPT ![w] = "write"]
  /\ UNCHANGED <<queueVars, runVars, leaseVars, checkpoint, jobVars, node, beat,
                 crashes>>

StageStatus(w) ==
  CASE node[w] = 1 -> "running"
    [] node[w] = LastNode -> "terminal"
    [] OTHER -> seen[w]

(* update_stage, second transaction: the UPDATE, which no lease guards.    *)
WriteStage(w) ==
  LET r == RunOf(msg[w]) IN
  /\ pc[w] = "write"
  /\ status' = [status EXCEPT ![r] = StageStatus(w)]
  /\ finished' = IF StageStatus(w) = "terminal" THEN finished \cup {r} ELSE finished
  /\ pc' = [pc EXCEPT ![w] = "commit"]
  /\ UNCHANGED <<queueVars, request, leaseVars, checkpoint, jobVars, execVars,
                 beat, crashes>>

(* The node returns and LangGraph saves the checkpoint: the newest one     *)
(* saved is the one a later resume starts from.                            *)
CommitNode(w) ==
  /\ pc[w] = "commit"
  /\ checkpoint' = [checkpoint EXCEPT ![RunOf(msg[w])] = node[w]]
  /\ IF node[w] = LastNode
     THEN /\ pc' = [pc EXCEPT ![w] = "verify"]
          /\ beat' = [beat EXCEPT ![w] = 0]
          /\ UNCHANGED node
     ELSE /\ pc' = [pc EXCEPT ![w] = "read"]
          /\ node' = [node EXCEPT ![w] = @ + 1]
          /\ UNCHANGED beat
  /\ UNCHANGED <<queueVars, runVars, leaseVars, jobVars, seen, crashes>>

(* The execution raises: the message is released with the heartbeat still  *)
(* running.                                                                *)
ExecutionFails(w) ==
  /\ pc[w] \in ExecutingPcs
  /\ {"node", "store"} \cap Faults # {}
  /\ pc' = [pc EXCEPT ![w] = "backoff"]
  /\ UNCHANGED <<queueVars, runVars, leaseVars, checkpoint, jobVars, execVars,
                 beat, crashes>>

-----------------------------------------------------------------------------
(* The heartbeat task.                                                     *)

(* The WHERE clause of renew_lease.                                        *)
HoldsLease(w, r) == owner[r] = w /\ ttl[r] > 0

Renew(w) == ttl' = [ttl EXCEPT ![RunOf(msg[w])] = LeaseTTL]

Heartbeat(w) ==
  /\ pc[w] \in BeatingPcs /\ beat[w] = 0
  /\ HoldsLease(w, RunOf(msg[w]))
  /\ place[msg[w]] = "flight"
  /\ Renew(w)
  /\ visibility' = [visibility EXCEPT ![msg[w]] = LeaseTTL]
  /\ beat' = [beat EXCEPT ![w] = HeartbeatPeriod]
  /\ UNCHANGED <<place, receives, runVars, owner, checkpoint, pc, jobVars,
                 execVars, crashes>>

(* The lease is gone, the store fails, or the message cannot be extended:  *)
(* the execution is cancelled and the message left to its visibility       *)
(* timeout.  If the execution had already failed, the heartbeat's error    *)
(* escapes process and ends Worker.run.                                    *)
LoseHeartbeat(w) ==
  /\ pc[w] \in BeatingPcs /\ beat[w] = 0
  /\ \/ /\ ~ HoldsLease(w, RunOf(msg[w])) \/ "store" \in Faults
        /\ UNCHANGED ttl
     \/ /\ HoldsLease(w, RunOf(msg[w]))
        /\ place[msg[w]] # "flight" \/ ~ CurrentReceipt(w) \/ "queue" \in Faults
        /\ Renew(w)
  /\ pc' = [pc EXCEPT ![w] = IF @ = "backoff" THEN "unlockRaising" ELSE "unlock"]
  /\ UNCHANGED <<queueVars, runVars, owner, checkpoint, jobVars, execVars,
                 beat, crashes>>

-----------------------------------------------------------------------------
(* Worker.process after the execution.                                     *)

VerifyRun(w) ==
  /\ pc[w] = "verify"
  /\ \/ pc' = [pc EXCEPT ![w] = IF status[RunOf(msg[w])] = "terminal"
                                THEN "ack" ELSE "release"]
     \/ "store" \in Faults /\ pc' = [pc EXCEPT ![w] = "unlock"]
  /\ UNCHANGED <<queueVars, runVars, leaseVars, checkpoint, jobVars, execVars,
                 beat, crashes>>

Acknowledge(w) ==
  /\ pc[w] \in AckPcs
  /\ Delete(w)
  /\ MoveOn(w)
  /\ UNCHANGED <<receives, runVars, leaseVars, checkpoint, beat, crashes>>

ReleaseMessage(w) ==
  /\ pc[w] \in ReleasePcs
  /\ MakeVisible(w)
  /\ MoveOn(w)
  /\ beat' = [beat EXCEPT ![w] = 0]
  /\ UNCHANGED <<receives, runVars, leaseVars, checkpoint, crashes>>

(* finally: release_lease, its errors suppressed.                          *)
ReleaseLease(w) ==
  LET r == RunOf(msg[w]) IN
  /\ pc[w] \in {"unlock", "unlockRaising"}
  /\ \/ /\ owner[r] = w
        /\ owner' = [owner EXCEPT ![r] = NoWorker]
        /\ ttl' = [ttl EXCEPT ![r] = 0]
     \/ /\ owner[r] # w \/ "store" \in Faults
        /\ UNCHANGED leaseVars
  /\ pc' = [pc EXCEPT ![w] = IF @ = "unlock" THEN "idle" ELSE "raised"]
  /\ beat' = [beat EXCEPT ![w] = 0]
  /\ Forget(w)
  /\ UNCHANGED <<queueVars, runVars, checkpoint, crashes>>

-----------------------------------------------------------------------------
(* Time.                                                                   *)

Dec(n) == IF n = 0 THEN 0 ELSE n - 1

(* Unless workers may stall, no tick passes over a heartbeat that is due.  *)
Tick ==
  /\ \/ \E r \in RunId : ttl[r] > 0
     \/ \E m \in Message : place[m] = "flight"
     \/ \E w \in Worker : beat[w] > 0
  /\ "lag" \in Faults \/ \A w \in Worker : pc[w] \in BeatingPcs => beat[w] > 0
  /\ ttl' = [r \in RunId |-> Dec(ttl[r])]
  /\ visibility' = [m \in Message |-> Dec(visibility[m])]
  /\ place' = [m \in Message |->
       IF place[m] = "flight" /\ visibility[m] <= 1 THEN "visible" ELSE place[m]]
  /\ beat' = [w \in Worker |-> Dec(beat[w])]
  /\ UNCHANGED <<receives, runVars, owner, checkpoint, pc, jobVars, execVars, crashes>>

-----------------------------------------------------------------------------

Prepare(w) == CreateOrGetRun(w) \/ Refuse(w) \/ AcquireLease(w) \/ LeaseBusy(w)
Execute(w) == EnterExecution(w) \/ ReadStage(w) \/ WriteStage(w) \/ CommitNode(w)
Beat(w)    == Heartbeat(w) \/ LoseHeartbeat(w)
Conclude(w) == VerifyRun(w) \/ Acknowledge(w) \/ ReleaseMessage(w) \/ ReleaseLease(w)

Next ==
  \/ \E m \in Message : Submit(m) \/ Redrive(m)
  \/ \E w \in Worker, m \in Message : Receive(w, m)
  \/ \E w \in Worker :
       \/ Prepare(w) \/ Execute(w) \/ ExecutionFails(w) \/ Beat(w) \/ Conclude(w)
       \/ ReceiveFails(w) \/ Stop(w) \/ Crash(w) \/ Restart(w)
  \/ Tick

Spec == Init /\ [][Next]_vars

(* Running workers poll, finish the node or the call they are in and beat  *)
(* in time, the queue redrives, time passes, and a worker that went down   *)
(* is started again.  The fair actions include the failing outcomes the    *)
(* instance admits; faults of their own (a crash, a raising node) are      *)
(* never fair.                                                             *)
Fairness ==
  /\ WF_vars(Tick)
  /\ \A m \in Message : WF_vars(Redrive(m))
  /\ \A w \in Worker :
       /\ WF_vars(\E m \in Message : Receive(w, m))
       /\ WF_vars(Prepare(w))
       /\ WF_vars(Execute(w))
       /\ WF_vars(Beat(w))
       /\ WF_vars(Conclude(w))
       /\ WF_vars(Restart(w))

FairSpec == Spec /\ Fairness

-----------------------------------------------------------------------------
(* The contract this module implements: in flight or visible, a message is *)
(* pending; dead-lettered, it is abandoned.                                *)

OutcomeAt ==
  [unsent |-> "unsent", visible |-> "pending", flight |-> "pending",
   deleted |-> "acknowledged", dead |-> "abandoned"]

Contract == INSTANCE DeliveryContract WITH
  completed <- finished,
  outcome <- [m \in Message |-> OutcomeAt[place[m]]]

(* The workers, the store and the queue implement the contract: whatever   *)
(* fails, no request is accepted twice and no message is acknowledged      *)
(* before its own request has completed.                                   *)
ImplementsContract == Contract!Spec

(* The contract of each run.                                               *)
Run(r) == INSTANCE RunContract WITH
  done <- checkpoint[r],
  status <- IF status[r] = "terminal" THEN "terminal" ELSE "open"

(* Where one worker serves the queue, every run implements RunContract:    *)
(* whatever is delivered again, its nodes are checkpointed one by one, none *)
(* is skipped or taken back, the row becomes terminal only in the last one, *)
(* the thread ends only after that, and the row stays terminal.            *)
(* This is \A r \in RunId : Run(r)!Spec in the form that TLC evaluates.     *)
RunsKeepContract ==
  /\ \A r \in RunId : Run(r)!Init
  /\ [][\A r \in RunId : [Run(r)!Next]_(Run(r)!vars)]_vars

(* With several workers, none of which stalls, reopening the row of a run   *)
(* that was called terminal is the only way in which copies of a message   *)
(* can leave the contract: no checkpoint is skipped or taken back.         *)
RunsReopenAtMost ==
  /\ \A r \in RunId : Run(r)!Init
  /\ [][\A r \in RunId : [Run(r)!Next \/ Run(r)!Reopen]_(Run(r)!vars)]_vars

-----------------------------------------------------------------------------
(* Properties.                                                             *)

(* A message is deleted only after the request it carries was accepted and *)
(* its run reached a terminal status: an acknowledgement never loses work. *)
DeletedOnlyAfterTerminal ==
  \A m \in Message : place[m] = "deleted" =>
    Valid(m) /\ request[RunOf(m)] = Body[m] /\ RunOf(m) \in finished

(* However often and by however many messages a request is repeated, no    *)
(* two runs are ever created under one idempotency key.                    *)
OneRunPerKey ==
  \A r, s \in RunId :
    /\ request[r] # NoRequest
    /\ request[s] # NoRequest
    /\ request[r].key = request[s].key
    => r = s

(* The lease keeps two workers from executing one run at the same time.    *)
OneExecutorPerRun ==
  \A w, v \in Worker :
    /\ pc[w] \in ExecutingPcs
    /\ pc[v] \in ExecutingPcs
    /\ RunOf(msg[w]) = RunOf(msg[v])
    => w = v

(* A redelivered run never executes a completed node again, nor skips one: *)
(* each node in execution is the first that is not checkpointed.           *)
NoNodeRepeated ==
  \A w \in Worker : pc[w] \in {"read", "write", "commit"} =>
    node[w] = checkpoint[RunOf(msg[w])] + 1

(* runs.db never calls a run terminal while checkpoints.db is missing a    *)
(* node before the last one.                                               *)
TerminalNearEnd ==
  \A r \in RunId : status[r] = "terminal" => checkpoint[r] >= LastNode - 1

(* A terminal run never goes back to running.                              *)
TerminalIsFinal ==
  [][\A r \in RunId : status[r] = "terminal" => status'[r] = "terminal"]_vars

(* When the message of a run was deleted, the run is terminal.             *)
AcknowledgedRunIsTerminal ==
  \A m \in Message : place[m] = "deleted" => status[RunOf(m)] = "terminal"

(* ... and, whatever its row says, all its nodes but the last one, which    *)
(* wrote the terminal status, are checkpointed.                            *)
AcknowledgedRunIsComplete ==
  \A m \in Message : place[m] = "deleted" => checkpoint[RunOf(m)] >= LastNode - 1

(* When the graph of a run has reached its end, the row says so.           *)
EndedThreadIsTerminal ==
  \A r \in RunId : checkpoint[r] = LastNode => status[r] = "terminal"

(* Every message on the queue is acknowledged or dead-lettered in the end. *)
EveryMessageSettles ==
  \A m \in Message : place[m] # "unsent" ~> place[m] \in {"deleted", "dead"}

(* A worker that fails before the last checkpoint leaves a message that    *)
(* will be delivered again: once no worker is busy, an accepted request    *)
(* whose message was dead-lettered has a finished run.  Stated by the       *)
(* documents, refuted by the code (README).                                *)
DeadLetteredRunIsFinished ==
  \A m \in Message :
    /\ place[m] = "dead"
    /\ Valid(m)
    /\ request[RunOf(m)] = Body[m]
    /\ \A w \in Worker : pc[w] \in {"idle"} \cup StoppedPcs
    => RunOf(m) \in finished

=============================================================================

----------------------------- MODULE Accounting -----------------------------
(***************************************************************************)
(* What a run spends on its agents and what it says of it: the budget check *)
(* before each call (ContextBudgetManager), the structured call with its    *)
(* one contract repair (OpenAIStructuredClient.parse), the usage ledger in  *)
(* the checkpoint, and the events made from the ledger by flush_telemetry   *)
(* and sent by LangfuseTelemetry.                                          *)
(*                                                                         *)
(* Every response is billed when it is generated.  It reaches the ledger    *)
(* only if parse counts it, the node accepts it and the checkpoint is       *)
(* saved; an execution that ends before that repeats the node and its call. *)
(***************************************************************************)
EXTENDS Integers, FiniteSets

CONSTANTS
  MaxRevisionCycles, \* ReviewPolicy.max_revision_cycles
  MaxMainCalls,      \* ContextBudget.max_main_calls
  MaxInputPerCall,   \* ContextBudget.max_input_tokens_per_call
  MaxInputPerRun,    \* ContextBudget.max_input_tokens_per_run
  MaxOutputPerRun,   \* ContextBudget.max_output_tokens_per_run
  OutputLimit,       \* ContextBudget.output_limit, also each call's max_output_tokens
  EstimatedInput,    \* the estimate of ensure_agent_budget for each agent's payload
  Input, Output,     \* tokens the model may count for a response of each agent
  MaxFailures        \* bound on executions that fail or die

Agents == {"agent_1", "agent_2", "agent_3"}

ASSUME AccountingAssumption ==
  /\ MaxRevisionCycles \in Nat
  /\ MaxMainCalls \in Nat
  /\ MaxInputPerCall \in Nat
  /\ MaxInputPerRun \in Nat
  /\ MaxOutputPerRun \in Nat
  /\ OutputLimit \in [Agents -> Nat]
  /\ EstimatedInput \in [Agents -> Nat]
  /\ Input \in [Agents -> SUBSET Nat]
  /\ Output \in [Agents -> SUBSET Nat]
  /\ \A a \in Agents : \A n \in Output[a] : n <= OutputLimit[a]
  /\ MaxFailures \in Nat

(* Usage: a number of responses and their tokens.                          *)
Usage == [n : Nat, in : Nat, out : Nat]
Zero == [n |-> 0, in |-> 0, out |-> 0]
Plus(t, u) == [n |-> t.n + u.n, in |-> t.in + u.in, out |-> t.out + u.out]
Most(S) == CHOOSE n \in S : \A m \in S : m <= n
LargestLimit == Most({OutputLimit[a] : a \in Agents})

VARIABLES
  \* the checkpoint: the next node, revision_count and the usage ledger
  node, revisions, entries, used,
  \* the execution of a node and the usage parse has collected
  pc, call,
  \* LangfuseTelemetry: _pending, batches in threads nobody waits for, and
  \* what Langfuse has received
  pending, late, exported,
  \* the run: the warning of the flush at work, and how the run ended
  warned, status, repaired,
  \* history and bound: what the provider has billed, responses that failed
  \* validation in the SDK, executions that failed
  billed, invalid, failures

stateVars == <<node, revisions, entries, used>>
callVars == <<pc, call>>
telemetryVars == <<pending, late, exported>>
runVars == <<warned, status, repaired>>
history == <<billed, invalid, failures>>
vars == <<stateVars, callVars, telemetryVars, runVars, history>>

(* The events of the run in the order of _telemetry_events: a generation    *)
(* for each ledger entry, the retrieval, the end of the run.               *)
Event == 1 .. MaxMainCalls + 2
Events == 1 .. entries + 2
UpTo(k, events) == {e \in events : e <= k}
RepairEvent == 0

InCall == {"first", "repair", "answered"}

TypeOK ==
  /\ node \in Agents \cup {"flush", "end"}
  /\ revisions \in 0 .. MaxRevisionCycles
  /\ entries \in 0 .. MaxMainCalls
  /\ used \in Usage
  /\ pc \in {"down", "node", "record", "export", "close"} \cup InCall
  /\ call \in Usage
  /\ pending \subseteq Event
  /\ late \subseteq Event
  /\ exported \subseteq Event \cup {RepairEvent}
  /\ warned \in BOOLEAN
  /\ status \in {"running", "ended", "ended_with_warning"}
  /\ repaired \in BOOLEAN
  /\ billed \in Usage
  /\ invalid \in Nat
  /\ failures \in 0 .. MaxFailures

Init ==
  /\ node = "agent_1"
  /\ revisions = 0
  /\ entries = 0
  /\ used = Zero
  /\ pc = "down"
  /\ call = Zero
  /\ pending = {}
  /\ late = {}
  /\ exported = {}
  /\ warned = FALSE
  /\ status = "running"
  /\ repaired = FALSE
  /\ billed = Zero
  /\ invalid = 0
  /\ failures = 0

-----------------------------------------------------------------------------
(* Faulty variants of some definitions below, for mutation checks only.    *)

ChecksWhatIsSpent(a) ==
  /\ EstimatedInput[a] <= MaxInputPerCall
  /\ entries + 1 <= MaxMainCalls
  /\ used.in <= MaxInputPerRun
  /\ used.out <= MaxOutputPerRun
LimitsCallsByCycles(a) ==
  /\ EstimatedInput[a] <= MaxInputPerCall
  /\ entries + 1 <= MaxRevisionCycles
  /\ used.in + EstimatedInput[a] <= MaxInputPerRun
  /\ used.out + OutputLimit[a] <= MaxOutputPerRun
CountsTwice(counted, response) ==
  [Plus(counted, response) EXCEPT !.out = @ + response.out]
FailureSwallowed ==
  /\ pc = "export"
  /\ \E k \in pending \cup {0} : exported' = exported \cup UpTo(k, pending)
  /\ pending' = {}
  /\ pc' = "close"
  /\ UNCHANGED <<stateVars, call, late, runVars, history>>

-----------------------------------------------------------------------------
(* Executing the run, up to the calls.                                     *)

(* An execution takes up the node after the checkpoint.                    *)
Execute ==
  /\ pc = "down"
  /\ node # "end"
  /\ pc' = IF node = "flush" THEN "record" ELSE "node"
  /\ warned' = FALSE
  /\ UNCHANGED <<stateVars, call, telemetryVars, status, repaired, history>>

(* ensure_can_call, in its order, for the reservation ensure_agent_budget   *)
(* makes: its output is the agent's limit, its cost and duration are 0.     *)
CanCall(a) ==
  /\ EstimatedInput[a] <= MaxInputPerCall
  /\ entries + 1 <= MaxMainCalls
  /\ used.in + EstimatedInput[a] <= MaxInputPerRun
  /\ used.out + OutputLimit[a] <= MaxOutputPerRun

(* The ledger changes with the checkpoint only, so a run that is refused    *)
(* once is refused on every redelivery.                                    *)
BudgetExceeded ==
  /\ pc = "node"
  /\ ~ CanCall(node)
  /\ pc' = "down"
  /\ UNCHANGED <<stateVars, call, telemetryVars, runVars, history>>

Reserve ==
  /\ pc = "node"
  /\ CanCall(node)
  /\ pc' = "first"
  /\ UNCHANGED <<stateVars, call, telemetryVars, runVars, history>>

-----------------------------------------------------------------------------
(* OpenAIStructuredClient.parse.                                           *)

(* A response of the model, in the terms parse tells apart: its output is   *)
(* of the output type; it is not, or is missing; the SDK raised a           *)
(* ValidationError instead of returning the response; the model refused.    *)
Answer == {"valid", "wrong", "invalid", "refusal"}

(* _aggregate_usage sums over the responses parse was handed.               *)
Aggregate(counted, response) == Plus(counted, response)

(* An exception leaves the node and the execution.                         *)
Raise ==
  /\ failures < MaxFailures
  /\ failures' = failures + 1
  /\ pc' = "down"
  /\ call' = Zero

FirstResponse(response, answer) ==
  /\ pc = "first"
  /\ billed' = Plus(billed, response)
  /\ \/ /\ answer \in {"valid", "wrong"}
        /\ pc' = IF answer = "valid" THEN "answered" ELSE "repair"
        /\ call' = Aggregate(call, response)
        /\ UNCHANGED <<invalid, failures>>
     \/ /\ answer = "invalid"
        /\ pc' = "repair"
        /\ invalid' = invalid + 1
        /\ UNCHANGED <<call, failures>>
     \/ answer = "refusal" /\ Raise /\ UNCHANGED invalid
  /\ UNCHANGED <<stateVars, telemetryVars, runVars>>

(* Exactly one contract repair; a second failure is final.  What the first  *)
(* response cost is lost with it.                                          *)
RepairResponse(response, answer) ==
  /\ pc = "repair"
  /\ billed' = Plus(billed, response)
  /\ \/ /\ answer = "valid"
        /\ pc' = "answered"
        /\ call' = Aggregate(call, response)
        /\ UNCHANGED failures
     \/ answer # "valid" /\ Raise
  /\ UNCHANGED <<stateVars, telemetryVars, runVars, invalid>>

Responses(a) == [n : {1}, in : Input[a], out : Output[a]]

Respond ==
  \E a \in Agents \cap {node}, answer \in Answer : \E response \in Responses(a) :
    FirstResponse(response, answer) \/ RepairResponse(response, answer)

(* The nodes and edges after an agent, as far as they lead to calls: the    *)
(* review may send the run back to agent 2.                                *)
Following ==
  CASE node = "agent_1" -> {[node |-> "agent_2", revisions |-> revisions]}
    [] node = "agent_2" -> {[node |-> "agent_3", revisions |-> revisions]}
    [] OTHER -> {[node |-> "flush", revisions |-> revisions]} \cup
         IF revisions < MaxRevisionCycles
         THEN {[node |-> "agent_2", revisions |-> revisions + 1]} ELSE {}

(* append_usage: the node returns, the checkpoint holds the new ledger.     *)
Commit ==
  /\ pc = "answered"
  /\ \E f \in Following :
       /\ node' = f.node
       /\ revisions' = f.revisions
       /\ pc' = IF f.node = "flush" THEN "record" ELSE "node"
  /\ entries' = entries + 1
  /\ used' = Plus(used, call)
  /\ call' = Zero
  /\ UNCHANGED <<telemetryVars, runVars, history>>

-----------------------------------------------------------------------------
(* flush_telemetry and LangfuseTelemetry.                                  *)

Record ==
  /\ pc = "record"
  /\ pending' = pending \cup Events
  /\ pc' = "export"
  /\ UNCHANGED <<stateVars, call, late, exported, runVars, history>>

(* flush holds the lock and exports all that is pending in a thread; only a *)
(* batch that was exported is taken off.  A failed export may have sent     *)
(* some of it; the failure becomes a warning with a repair task.            *)
Export ==
  /\ pc = "export"
  /\ \/ /\ exported' = exported \cup pending
        /\ pending' = {}
        /\ UNCHANGED warned
     \/ /\ \E k \in pending \cup {0} : exported' = exported \cup UpTo(k, pending)
        /\ warned' = TRUE
        /\ UNCHANGED pending
  /\ pc' = "close"
  /\ UNCHANGED <<stateVars, call, late, status, repaired, history>>

TerminalStatus(w) == IF w THEN "ended_with_warning" ELSE "ended"

(* Manifest, row and last checkpoint.                                      *)
EndRun ==
  /\ pc = "close"
  /\ node' = "end"
  /\ status' = TerminalStatus(warned)
  /\ pc' = "down"
  /\ UNCHANGED <<revisions, entries, used, call, telemetryVars, warned, repaired,
                 history>>

(* The flush of another run in the same process takes this run's events     *)
(* along, and a thread whose flush was cancelled comes to its end.          *)
LaterFlush ==
  /\ pc = "down"
  /\ pending # {}
  /\ exported' = exported \cup pending
  /\ pending' = {}
  /\ UNCHANGED <<stateVars, callVars, late, runVars, history>>

ThreadEnds ==
  /\ late # {}
  /\ exported' = exported \cup late
  /\ late' = {}
  /\ UNCHANGED <<stateVars, callVars, pending, runVars, history>>

(* repairs run, in a process of its own: repair_langfuse sends an event     *)
(* that says there was a repair.                                           *)
RepairTelemetry ==
  /\ status = "ended_with_warning"
  /\ ~ repaired
  /\ repaired' = TRUE
  /\ exported' = exported \cup {RepairEvent}
  /\ UNCHANGED <<stateVars, callVars, pending, late, warned, status, history>>

-----------------------------------------------------------------------------
(* The request a failure cuts off may have been answered, and billed.       *)
MayBill ==
  \/ UNCHANGED billed
  \/ /\ pc \in {"first", "repair"}
     /\ \E a \in Agents \cap {node} : \E response \in Responses(a) :
          billed' = Plus(billed, response)

(* A node may raise at any step, also by being cancelled: the thread of an  *)
(* export goes on, and LangfuseTelemetry keeps the batch.                  *)
Interrupt ==
  /\ pc # "down"
  /\ Raise
  /\ \/ UNCHANGED <<pending, late>>
     \/ /\ pc = "record"
        /\ \E k \in Events : pending' = pending \cup UpTo(k, Events)
        /\ UNCHANGED late
     \/ pc = "export" /\ late' = late \cup pending /\ UNCHANGED pending
  /\ MayBill
  /\ UNCHANGED <<stateVars, exported, runVars, invalid>>

(* The process dies.                                                       *)
Crash ==
  /\ Raise
  /\ pending' = {}
  /\ late' = {}
  /\ MayBill
  /\ UNCHANGED <<stateVars, exported, runVars, invalid>>

Next ==
  \/ Execute \/ BudgetExceeded \/ Reserve \/ Respond \/ Commit
  \/ Record \/ Export \/ EndRun \/ LaterFlush \/ ThreadEnds \/ RepairTelemetry
  \/ Interrupt \/ Crash

Spec == Init /\ [][Next]_vars

-----------------------------------------------------------------------------
(* Properties.                                                             *)

(* What a run costs beyond its ledger is bounded by what went wrong: at     *)
(* most the two responses of a call for each execution that failed, and     *)
(* one for each response that failed validation before parse could see it.  *)
(* No budget bounds it.                                                    *)
BillAccounted ==
  /\ used.out + call.out <= billed.out
  /\ billed.out <= used.out + call.out + LargestLimit * (2 * failures + invalid)

(* The reservation covers one response of a call and its repair is a        *)
(* second: the ledger may pass the output budget of the run by one          *)
(* response, and by no more, whatever the models answer.                   *)
OverspendBounded == used.out <= MaxOutputPerRun + LargestLimit

(* As long as no call needed its repair, the output budget and the number   *)
(* of calls refuse nothing in the first round: if the three reservations    *)
(* fit the budget they fit it next to what was spent before them.           *)
FirstRoundFits ==
  /\ OutputLimit["agent_1"] + OutputLimit["agent_2"] + OutputLimit["agent_3"]
       <= MaxOutputPerRun
  /\ MaxMainCalls >= 3
  /\ \A a \in Agents : EstimatedInput[a] <= MaxInputPerCall
  /\ pc = "node" /\ revisions = 0 /\ used.n = entries
  /\ used.in + EstimatedInput[node] <= MaxInputPerRun
  => CanCall(node)

(* A run that ends without a warning has all its events at Langfuse: a      *)
(* failed, cancelled or repeated flush loses none.                         *)
TelemetryDelivered == status = "ended" => Events \subseteq exported

=============================================================================

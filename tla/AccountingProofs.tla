--------------------------- MODULE AccountingProofs ---------------------------
(***************************************************************************)
(* Theorems about Accounting, for every budget, every limit of the agents   *)
(* and any number of failures.                                             *)
(***************************************************************************)
EXTENDS Accounting, TLAPS

(* Where an execution is and what it may hold there.                        *)
Control ==
  /\ pc \in {"node"} \cup InCall => node \in Agents
  /\ pc \in {"record", "export", "close"} => node = "flush"
  /\ pc \in InCall => CanCall(node)
  /\ pc \notin {"repair", "answered"} => call = Zero
  /\ pc = "answered" => call.n >= 1
  /\ status # "running" => node = "end" /\ pc = "down"

(* The tokens of the call at work: at most one response before the repair,  *)
(* two after it.                                                           *)
CallLimited ==
  /\ pc = "repair" => call.out <= OutputLimit[node]
  /\ pc = "answered" => call.out <= 2 * OutputLimit[node]
  /\ pc = "repair" => call.n <= 1
  /\ pc = "repair" /\ call.n = 0 => call.out = 0
  /\ pc = "answered" /\ call.n = 1 => call.out <= OutputLimit[node]

(* The first round of calls that needed no repair.                          *)
FirstRound ==
  /\ used.n >= entries
  /\ node = "agent_1" => entries = 0 /\ used.out = 0 /\ used.n = 0
  /\ revisions = 0 /\ node = "agent_2" =>
       entries = 1 /\ (used.n = 1 => used.out <= OutputLimit["agent_1"])
  /\ revisions = 0 /\ node = "agent_3" =>
       /\ entries = 2
       /\ used.n = 2 => used.out <= OutputLimit["agent_1"] + OutputLimit["agent_2"]

(* The events of the run on their way to Langfuse.                          *)
Underway ==
  /\ pc = "export" => Events \subseteq pending
  /\ pc = "close" /\ ~ warned => Events \subseteq exported

-----------------------------------------------------------------------------
LEMMA LimitsAreNumbers == \A a \in Agents : OutputLimit[a] \in Nat /\ EstimatedInput[a] \in Nat
  BY AccountingAssumption

LEMMA LargestLimitBounds ==
  LargestLimit \in Nat /\ \A a \in Agents : OutputLimit[a] <= LargestLimit
<1> DEFINE S == {OutputLimit[a] : a \in Agents}
<1>1. OutputLimit["agent_1"] \in Nat /\ OutputLimit["agent_2"] \in Nat
        /\ OutputLimit["agent_3"] \in Nat
  BY LimitsAreNumbers DEF Agents
<1>2. S = {OutputLimit["agent_1"], OutputLimit["agent_2"], OutputLimit["agent_3"]}
  BY DEF Agents
<1>3. \E n \in S : \A k \in S : k <= n
  <2>1. CASE /\ OutputLimit["agent_2"] <= OutputLimit["agent_1"]
             /\ OutputLimit["agent_3"] <= OutputLimit["agent_1"]
    BY <1>1, <1>2, <2>1
  <2>2. CASE /\ OutputLimit["agent_1"] <= OutputLimit["agent_2"]
             /\ OutputLimit["agent_3"] <= OutputLimit["agent_2"]
    BY <1>1, <1>2, <2>2
  <2>3. CASE /\ OutputLimit["agent_1"] <= OutputLimit["agent_3"]
             /\ OutputLimit["agent_2"] <= OutputLimit["agent_3"]
    BY <1>1, <1>2, <2>3
  <2> QED BY <1>1, <2>1, <2>2, <2>3
<1>4. LargestLimit \in S /\ \A k \in S : k <= LargestLimit
  BY <1>3 DEF LargestLimit, Most
<1> QED BY <1>1, <1>2, <1>4

(* A response is one response, and within the limit of its agent.           *)
LEMMA ResponseLimited ==
  ASSUME NEW a \in Agents, NEW response \in Responses(a)
  PROVE  response \in Usage /\ response.n = 1 /\ response.out <= OutputLimit[a]
  BY AccountingAssumption DEF Responses, Usage

LEMMA PlusAdds ==
  ASSUME NEW t \in Usage, NEW u \in Usage
  PROVE  /\ Plus(t, u) \in Usage
         /\ Plus(t, u).n = t.n + u.n
         /\ Plus(t, u).in = t.in + u.in
         /\ Plus(t, u).out = t.out + u.out
  BY DEF Plus, Usage

LEMMA ZeroIsUsage == Zero \in Usage /\ Zero.n = 0 /\ Zero.out = 0 /\ Zero.in = 0
  BY DEF Zero, Usage

(* What Following allows.                                                   *)
LEMMA FollowingCases ==
  ASSUME NEW f \in Following, node \in Agents, revisions \in 0 .. MaxRevisionCycles
  PROVE  \/ node = "agent_1" /\ f.node = "agent_2" /\ f.revisions = revisions
         \/ node = "agent_2" /\ f.node = "agent_3" /\ f.revisions = revisions
         \/ node = "agent_3" /\ f.node = "flush" /\ f.revisions = revisions
         \/ /\ node = "agent_3" /\ f.node = "agent_2"
            /\ f.revisions = revisions + 1 /\ f.revisions \in 0 .. MaxRevisionCycles
<1>1. CASE node = "agent_1" BY <1>1 DEF Following
<1>2. CASE node = "agent_2" BY <1>2 DEF Following
<1>3. CASE node = "agent_3"
  <2>1. f \in {[node |-> "flush", revisions |-> revisions]} \cup
              IF revisions < MaxRevisionCycles
              THEN {[node |-> "agent_2", revisions |-> revisions + 1]} ELSE {}
    BY <1>3 DEF Following
  <2>2. CASE f = [node |-> "flush", revisions |-> revisions] BY <1>3, <2>2
  <2>3. CASE f # [node |-> "flush", revisions |-> revisions]
    <3>1. revisions < MaxRevisionCycles /\ f = [node |-> "agent_2", revisions |-> revisions + 1]
      BY <2>1, <2>3
    <3> QED BY <1>3, <3>1, AccountingAssumption
  <2> QED BY <2>2, <2>3
<1> QED BY <1>1, <1>2, <1>3 DEF Agents

-----------------------------------------------------------------------------
(* Types and control.                                                      *)

Framed == TypeOK /\ Control

LEMMA InitFramed == Init => Framed
<1>1. Init => TypeOK
  <2>1. /\ 0 \in 0 .. MaxRevisionCycles /\ 0 \in 0 .. MaxMainCalls
        /\ 0 \in 0 .. MaxFailures /\ 0 \in Nat /\ Zero \in Usage
    BY AccountingAssumption, ZeroIsUsage
  <2> QED BY <2>1, Zenon DEF Init, TypeOK, Agents
<1>2. Init => Control
  BY DEF Init, Control, InCall, Agents
<1> QED BY <1>1, <1>2 DEF Framed

(* What a failing execution does to types and control.                      *)
LEMMA RaiseFramed ==
  ASSUME Framed, Raise, MayBill, UNCHANGED <<stateVars, exported, runVars, invalid>>,
         (pending \subseteq Event /\ late \subseteq Event)', status = "running" \/ pc = "down"
  PROVE  Framed'
<1>1. billed' \in Usage
  <2>1. CASE UNCHANGED billed BY <2>1 DEF Framed, TypeOK
  <2>2. CASE ~ UNCHANGED billed
    BY <2>2, ResponseLimited, PlusAdds DEF Framed, TypeOK, MayBill
  <2> QED BY <2>1, <2>2
<1>2. call' \in Usage /\ call' = Zero
  BY ZeroIsUsage DEF Raise
<1>3. failures' \in 0 .. MaxFailures
  BY AccountingAssumption DEF Raise, Framed, TypeOK
<1>4. pc' = "down"
  BY DEF Raise
<1>5. TypeOK'
  BY <1>1, <1>2, <1>3, <1>4 DEF Framed, TypeOK, stateVars, runVars, Event
<1>6. Control'
  BY <1>2, <1>4 DEF Framed, Control, stateVars, runVars, InCall
<1> QED BY <1>5, <1>6 DEF Framed

LEMMA EventsAreEvents ==
  ASSUME Framed PROVE Events \subseteq Event
  BY AccountingAssumption DEF Framed, TypeOK, Events, Event

LEMMA RespondFramed == ASSUME Framed, Respond PROVE Framed'
<1>1. PICK a \in Agents \cap {node}, answer \in Answer :
        \E response \in Responses(a) :
          FirstResponse(response, answer) \/ RepairResponse(response, answer)
  BY DEF Respond
<1>2. PICK response \in Responses(a) :
        FirstResponse(response, answer) \/ RepairResponse(response, answer)
  BY <1>1
<1>3. a = node /\ node \in Agents
  BY <1>1
<1>4. response \in Usage /\ response.n = 1
  BY <1>2, <1>3, ResponseLimited
<1>5. billed \in Usage /\ call \in Usage /\ call.n \in Nat
  BY DEF Framed, TypeOK, Usage
<1>6. Plus(billed, response) \in Usage /\ Plus(call, response) \in Usage
        /\ Plus(call, response).n >= 1
  BY <1>4, <1>5, PlusAdds
<1>7. status = "running" /\ CanCall(node) /\ pc \in {"first", "repair"}
  BY <1>2 DEF Framed, Control, FirstResponse, RepairResponse, InCall
<1>8. CASE pc' = "down"
  <2>1. Raise
    BY <1>2, <1>8 DEF FirstResponse, RepairResponse
  <2>2. /\ call' = Zero /\ failures' \in 0 .. MaxFailures
        /\ billed' \in Usage /\ invalid' \in Nat
    BY <1>2, <1>6, <1>8, <2>1, AccountingAssumption
    DEF Raise, FirstResponse, RepairResponse, Framed, TypeOK
  <2>3. UNCHANGED <<stateVars, telemetryVars, runVars>>
    BY <1>2 DEF FirstResponse, RepairResponse
  <2> QED
    BY <1>8, <2>2, <2>3, ZeroIsUsage
    DEF Framed, TypeOK, Control, stateVars, telemetryVars, runVars, InCall
<1>9. CASE pc' # "down"
  <2>1. /\ pc' \in {"answered", "repair"}
        /\ call' \in Usage
        /\ pc' = "answered" => call'.n >= 1
    BY <1>2, <1>5, <1>6, <1>9 DEF FirstResponse, RepairResponse, Aggregate, Raise
  <2>2. failures' = failures /\ billed' \in Usage /\ invalid' \in Nat
    BY <1>2, <1>6, <1>9 DEF Raise, FirstResponse, RepairResponse, Framed, TypeOK
  <2>3. UNCHANGED <<stateVars, telemetryVars, runVars>>
    BY <1>2 DEF FirstResponse, RepairResponse
  <2>4. TypeOK'
    BY <2>1, <2>2, <2>3 DEF Framed, TypeOK, stateVars, telemetryVars, runVars, InCall, Event
  <2>5. CanCall(node)'
    BY <1>7, <2>3 DEF CanCall, stateVars
  <2>6. Control'
    BY <1>3, <1>7, <2>1, <2>3, <2>5 DEF Framed, Control, stateVars, runVars, InCall
  <2> QED BY <2>4, <2>6 DEF Framed
<1> QED BY <1>8, <1>9

LEMMA CommitFramed == ASSUME Framed, Commit PROVE Framed'
<1>1. node \in Agents /\ CanCall(node) /\ status = "running"
  BY DEF Framed, Control, Commit, InCall
<1>2. PICK f \in Following :
        node' = f.node /\ revisions' = f.revisions
          /\ pc' = IF f.node = "flush" THEN "record" ELSE "node"
  BY DEF Commit
<1>3. /\ node' \in Agents \cup {"flush"}
      /\ revisions' \in 0 .. MaxRevisionCycles
      /\ pc' = IF node' = "flush" THEN "record" ELSE "node"
  BY <1>1, <1>2, FollowingCases DEF Framed, TypeOK, Agents
<1>4. entries' \in 0 .. MaxMainCalls
  BY <1>1, AccountingAssumption DEF Commit, CanCall, Framed, TypeOK
<1>5. used' \in Usage
  BY PlusAdds DEF Commit, Framed, TypeOK
<1>6. TypeOK'
  BY <1>3, <1>4, <1>5, ZeroIsUsage
  DEF Framed, TypeOK, Commit, telemetryVars, runVars, history, InCall, Event
<1>7. Control'
  BY <1>1, <1>3 DEF Control, Commit, runVars, InCall, Agents
<1> QED BY <1>6, <1>7 DEF Framed

LEMMA FramedStep == Framed /\ [Next]_vars => Framed'
<1> SUFFICES ASSUME Framed, [Next]_vars PROVE Framed'
  OBVIOUS
<1> USE DEF stateVars, callVars, telemetryVars, runVars, history
<1>0. pc # "down" => status = "running"
  BY DEF Framed, Control
<1>1. CASE Execute
  BY <1>1 DEF Execute, Framed, TypeOK, Control, InCall, Event
<1>2. CASE BudgetExceeded
  BY <1>2 DEF BudgetExceeded, Framed, TypeOK, Control, InCall, Event
<1>3. CASE Reserve
  BY <1>3 DEF Reserve, Framed, TypeOK, Control, InCall, Event, CanCall
<1>4. CASE Respond
  BY <1>4, RespondFramed
<1>5. CASE Commit
  BY <1>5, CommitFramed
<1>6. CASE Record
  BY <1>6, EventsAreEvents DEF Record, Framed, TypeOK, Control, InCall, Event
<1>7. CASE Export
  BY <1>7 DEF Export, UpTo, Framed, TypeOK, Control, InCall, Event
<1>8. CASE EndRun
  BY <1>8 DEF EndRun, TerminalStatus, Framed, TypeOK, Control, InCall, Event
<1>9. CASE LaterFlush
  BY <1>9 DEF LaterFlush, Framed, TypeOK, Control, InCall, Event
<1>10. CASE ThreadEnds
  BY <1>10 DEF ThreadEnds, Framed, TypeOK, Control, CanCall, InCall, Event
<1>11. CASE RepairTelemetry
  BY <1>11 DEF RepairTelemetry, Framed, TypeOK, Control, CanCall, InCall, Event
<1>12. CASE Interrupt
  <2>1. (pending \subseteq Event /\ late \subseteq Event)'
    BY <1>12, EventsAreEvents DEF Interrupt, UpTo, Framed, TypeOK, Event
  <2> QED BY <1>0, <1>12, <2>1, RaiseFramed DEF Interrupt
<1>13. CASE Crash
  <2>1. (pending \subseteq Event /\ late \subseteq Event)'
    BY <1>13 DEF Crash
  <2>2. status = "running" \/ pc = "down"
    BY <1>0
  <2> QED BY <1>13, <2>1, <2>2, RaiseFramed DEF Crash
<1>14. CASE UNCHANGED vars
  BY <1>14 DEF vars, Framed, TypeOK, Control, CanCall, InCall, Event
<1> QED
  BY <1>1, <1>2, <1>3, <1>4, <1>5, <1>6, <1>7, <1>8, <1>9, <1>10, <1>11, <1>12, <1>13,
     <1>14 DEF Next

(* A run makes no more calls and revisions than its budget and policy       *)
(* allow, for any budget and whatever fails.                               *)
THEOREM AccountingTypeCorrect == Spec => []TypeOK
<1>1. Framed => TypeOK BY DEF Framed
<1> QED BY <1>1, InitFramed, FramedStep, PTL DEF Spec

-----------------------------------------------------------------------------
(* Money.                                                                  *)

Money == CallLimited /\ FirstRound /\ OverspendBounded /\ BillAccounted

Ceiling == LargestLimit * (2 * failures + invalid)

LEMMA Product ==
  ASSUME NEW l \in Nat, NEW f \in Nat, NEW i \in Nat
  PROVE  /\ l * (2 * f + i) \in Nat
         /\ l * (2 * (f + 1) + i) = l * (2 * f + i) + 2 * l
         /\ l * (2 * f + (i + 1)) = l * (2 * f + i) + l
  OBVIOUS

LEMMA CeilingRises ==
  ASSUME Framed
  PROVE  /\ Ceiling \in Nat
         /\ failures' = failures + 1 /\ invalid' = invalid => Ceiling' = Ceiling + 2 * LargestLimit
         /\ failures' = failures /\ invalid' = invalid + 1 => Ceiling' = Ceiling + LargestLimit
         /\ failures' = failures /\ invalid' = invalid => Ceiling' = Ceiling
<1>1. failures \in Nat /\ invalid \in Nat
  BY AccountingAssumption DEF Framed, TypeOK
<1>2. LargestLimit \in Nat /\ LargestLimit' = LargestLimit
  BY LargestLimitBounds DEF LargestLimit, Most, Agents
<1> QED BY <1>1, <1>2, Product DEF Ceiling

LEMMA Numbers ==
  ASSUME Framed
  PROVE  /\ used.n \in Nat /\ used.out \in Nat /\ call.n \in Nat /\ call.out \in Nat
         /\ billed.out \in Nat /\ entries \in Nat /\ LargestLimit \in Nat
         /\ MaxOutputPerRun \in Nat
  BY AccountingAssumption, LargestLimitBounds DEF Framed, TypeOK, Usage

LEMMA InitMoney == Init => Money
<1> SUFFICES ASSUME Init PROVE Money
  OBVIOUS
<1>1. Framed /\ used = Zero /\ call = Zero /\ billed = Zero /\ pc = "down"
        /\ node = "agent_1" /\ entries = 0
  BY InitFramed DEF Init
<1>2. Ceiling \in Nat
  BY <1>1, CeilingRises
<1> QED
  BY <1>1, <1>2, Numbers, ZeroIsUsage
  DEF Money, CallLimited, FirstRound, OverspendBounded, BillAccounted, Ceiling

(* Steps that touch no account.                                            *)
LEMMA IdleMoney ==
  ASSUME Framed, Money, UNCHANGED <<used, entries, call, billed, failures, invalid>>,
         revisions' = revisions, node' = node \/ node' = "end",
         (pc' = pc /\ node' = node)
           \/ pc' \in {"down", "node", "first", "record", "export", "close"}
  PROVE  Money'
<1>1. CallLimited'
  BY DEF Money, CallLimited
<1>2. FirstRound'
  BY DEF Money, FirstRound
<1>3. OverspendBounded' /\ BillAccounted'
  BY DEF Money, OverspendBounded, BillAccounted, LargestLimit, Most, Agents
<1> QED BY <1>1, <1>2, <1>3 DEF Money

(* A failing execution loses at most the two responses of its call.         *)
LEMMA LossMoney ==
  ASSUME Framed, Money, Raise, UNCHANGED <<stateVars, invalid>>,
         NEW extra \in Nat, billed'.out = billed.out + extra,
         call.out + extra <= 2 * LargestLimit
  PROVE  Money'
<1>1. /\ pc' = "down" /\ call' = Zero /\ failures' = failures + 1
      /\ used' = used /\ entries' = entries /\ node' = node /\ revisions' = revisions
  BY DEF Raise, stateVars
<1>2. CallLimited' /\ FirstRound' /\ OverspendBounded'
  BY <1>1 DEF Money, CallLimited, FirstRound, OverspendBounded, LargestLimit, Most, Agents
<1>3. Ceiling' = Ceiling + 2 * LargestLimit /\ Ceiling \in Nat
  BY <1>1, CeilingRises
<1>4. used.out + call.out <= billed.out /\ billed.out <= used.out + call.out + Ceiling
  BY DEF Money, BillAccounted, Ceiling
<1>5. used'.out + call'.out <= billed'.out /\ billed'.out <= used'.out + call'.out + Ceiling'
  BY <1>1, <1>3, <1>4, Numbers, ZeroIsUsage
<1>6. BillAccounted'
  BY <1>5 DEF BillAccounted, Ceiling
<1> QED BY <1>2, <1>6 DEF Money

LEMMA CallFits ==
  ASSUME Framed, Money, node \in Agents
  PROVE  /\ OutputLimit[node] \in Nat /\ OutputLimit[node] <= LargestLimit
         /\ pc \in {"first", "repair"} => call.out <= OutputLimit[node]
         /\ call.out <= 2 * OutputLimit[node]
  BY LimitsAreNumbers, LargestLimitBounds, Numbers, ZeroIsUsage
  DEF Framed, Control, Money, CallLimited

LEMMA RespondMoney == ASSUME Framed, Money, Respond PROVE Money'
<1>1. PICK a \in Agents \cap {node}, answer \in Answer :
        \E response \in Responses(a) :
          FirstResponse(response, answer) \/ RepairResponse(response, answer)
  BY DEF Respond
<1>2. PICK response \in Responses(a) :
        FirstResponse(response, answer) \/ RepairResponse(response, answer)
  BY <1>1
<1>3. a = node /\ node \in Agents
  BY <1>1
<1>4. response \in Usage /\ response.n = 1 /\ response.out <= OutputLimit[node]
        /\ response.out \in Nat
  BY <1>2, <1>3, ResponseLimited DEF Usage
<1>5. billed \in Usage /\ call \in Usage
  BY DEF Framed, TypeOK
<1>6. /\ billed' = Plus(billed, response) /\ billed'.out = billed.out + response.out
      /\ Plus(call, response).out = call.out + response.out
      /\ Plus(call, response).n = call.n + 1
  BY <1>2, <1>4, <1>5, PlusAdds DEF FirstResponse, RepairResponse
<1>7. /\ pc \in {"first", "repair"} /\ call.out <= OutputLimit[node]
      /\ OutputLimit[node] \in Nat /\ OutputLimit[node] <= LargestLimit
      /\ pc = "first" => call.n = 0 /\ call.out = 0
      /\ pc = "repair" => call.n <= 1
      /\ pc = "repair" /\ call.n = 0 => call.out = 0
  BY <1>2, <1>3, CallFits, ZeroIsUsage
  DEF FirstResponse, RepairResponse, Framed, Control, Money, CallLimited
<1>8. UNCHANGED stateVars
  BY <1>2 DEF FirstResponse, RepairResponse
<1>9. used.out + call.out <= billed.out /\ billed.out <= used.out + call.out + Ceiling
  BY DEF Money, BillAccounted, Ceiling
<1>10. CASE pc' = "down"
  <2>1. Raise /\ invalid' = invalid
    BY <1>2, <1>10 DEF FirstResponse, RepairResponse
  <2>2. call.out + response.out <= 2 * LargestLimit
    BY <1>4, <1>7, Numbers
  <2> QED BY <1>4, <1>6, <1>8, <2>1, <2>2, LossMoney
<1>11. CASE pc' # "down"
  <2>1. /\ failures' = failures
        /\ \/ /\ call' = Plus(call, response) /\ invalid' = invalid
              /\ pc' = "answered" \/ (pc = "first" /\ pc' = "repair")
           \/ call' = call /\ invalid' = invalid + 1 /\ pc = "first" /\ pc' = "repair"
    BY <1>2, <1>11 DEF FirstResponse, RepairResponse, Raise, Aggregate
  <2>2. UNCHANGED <<node, revisions, entries, used>>
    BY <1>8 DEF stateVars
  <2>3. FirstRound' /\ OverspendBounded'
    BY <2>2 DEF Money, FirstRound, OverspendBounded, LargestLimit, Most, Agents
  <2>4. CallLimited'
    <3>1. CASE pc' = "answered"
      BY <1>4, <1>6, <1>7, <2>1, <2>2, <3>1, Numbers DEF CallLimited
    <3>2. CASE pc' = "repair"
      BY <1>4, <1>6, <1>7, <2>1, <2>2, <3>2, Numbers DEF CallLimited
    <3> QED BY <2>1, <3>1, <3>2
  <2>5. used'.out + call'.out <= billed'.out /\ billed'.out <= used'.out + call'.out + Ceiling'
    BY <1>4, <1>6, <1>7, <1>9, <2>1, <2>2, CeilingRises, Numbers
  <2> QED BY <2>3, <2>4, <2>5 DEF Money, BillAccounted, Ceiling
<1> QED BY <1>10, <1>11

LEMMA CommitMoney == ASSUME Framed, Money, Commit PROVE Money'
<1>1. node \in Agents /\ CanCall(node) /\ pc = "answered" /\ call.n >= 1
  BY DEF Framed, Control, Commit, InCall
<1>2. PICK f \in Following : node' = f.node /\ revisions' = f.revisions
          /\ pc' = IF f.node = "flush" THEN "record" ELSE "node"
  BY DEF Commit
<1>3. \/ node = "agent_1" /\ node' = "agent_2" /\ revisions' = revisions
      \/ node = "agent_2" /\ node' = "agent_3" /\ revisions' = revisions
      \/ node = "agent_3" /\ node' = "flush" /\ revisions' = revisions
      \/ node = "agent_3" /\ node' = "agent_2" /\ revisions' = revisions + 1
  BY <1>1, <1>2, FollowingCases DEF Framed, TypeOK
<1>4. /\ used'.n = used.n + call.n /\ used'.out = used.out + call.out
      /\ entries' = entries + 1 /\ call' = Zero /\ pc' \in {"node", "record"}
      /\ UNCHANGED <<billed, failures, invalid>>
  BY <1>2, PlusAdds DEF Commit, Framed, TypeOK, history
<1>5. /\ call.out <= 2 * OutputLimit[node] /\ OutputLimit[node] \in Nat
      /\ OutputLimit[node] <= LargestLimit
      /\ call.n = 1 => call.out <= OutputLimit[node]
      /\ used.out + OutputLimit[node] <= MaxOutputPerRun
  BY <1>1, CallFits DEF Money, CallLimited, CanCall
<1>6. revisions \in Nat
  BY AccountingAssumption DEF Framed, TypeOK
<1>7. CallLimited'
  BY <1>4 DEF CallLimited
<1>8. OverspendBounded'
  <2>1. used'.out <= MaxOutputPerRun + LargestLimit
    BY <1>4, <1>5, Numbers
  <2> QED BY <2>1 DEF OverspendBounded, LargestLimit, Most, Agents
<1>9. FirstRound'
  <2>1. OutputLimit["agent_1"] \in Nat /\ OutputLimit["agent_2"] \in Nat
    BY LimitsAreNumbers DEF Agents
  <2>2. used'.n >= entries'
    BY <1>1, <1>4, Numbers DEF Money, FirstRound
  <2>3. CASE node = "agent_1"
    BY <1>1, <1>3, <1>4, <1>5, <2>1, <2>2, <2>3, Numbers DEF Money, FirstRound
  <2>4. CASE node = "agent_2"
    <3>1. /\ revisions = 0 => entries = 1 /\ used.n >= 1
          /\ revisions = 0 /\ used.n = 1 => used.out <= OutputLimit["agent_1"]
      BY <2>4 DEF Money, FirstRound
    <3>2. node' = "agent_3" /\ revisions' = revisions
      BY <1>3, <2>4
    <3>3. revisions' = 0 => entries' = 2
      BY <1>4, <3>1, <3>2, Numbers
    <3>4. revisions' = 0 /\ used'.n = 2 =>
            used'.out <= OutputLimit["agent_1"] + OutputLimit["agent_2"]
      BY <1>1, <1>4, <1>5, <2>1, <2>4, <3>1, <3>2, Numbers
    <3> QED BY <2>2, <3>2, <3>3, <3>4 DEF FirstRound
  <2>5. CASE node = "agent_3"
    BY <1>3, <1>6, <2>2, <2>5 DEF FirstRound
  <2> QED BY <1>1, <2>3, <2>4, <2>5 DEF Agents
<1>10. BillAccounted'
  <2>1. used.out + call.out <= billed.out /\ billed.out <= used.out + call.out + Ceiling
    BY DEF Money, BillAccounted, Ceiling
  <2>2. used'.out + call'.out <= billed'.out /\ billed'.out <= used'.out + call'.out + Ceiling'
    BY <1>4, <2>1, CeilingRises, ZeroIsUsage, Numbers
  <2> QED BY <2>2 DEF BillAccounted, Ceiling
<1> QED BY <1>7, <1>8, <1>9, <1>10 DEF Money

(* A request cut off may have been billed, if one was under way.            *)
LEMMA CutOffMoney ==
  ASSUME Framed, Money, Raise, MayBill, UNCHANGED <<stateVars, invalid>>
  PROVE  Money'
<1>1. call.out <= 2 * LargestLimit
  <2>1. CASE pc \in InCall
    <3>1. node \in Agents BY <2>1 DEF Framed, Control
    <3> QED BY <3>1, CallFits, Numbers
  <2>2. CASE pc \notin InCall
    BY <2>2, Numbers, ZeroIsUsage DEF Framed, Control, InCall
  <2> QED BY <2>1, <2>2
<1>2. CASE UNCHANGED billed
  BY <1>1, <1>2, Numbers, LossMoney
<1>3. CASE ~ UNCHANGED billed
  <2>1. PICK a \in Agents \cap {node} : \E response \in Responses(a) :
          billed' = Plus(billed, response) /\ pc \in {"first", "repair"}
    BY <1>3 DEF MayBill
  <2>2. PICK response \in Responses(a) :
          billed' = Plus(billed, response) /\ pc \in {"first", "repair"}
    BY <2>1
  <2>3. node \in Agents /\ a = node
    BY <2>1
  <2>4. response \in Usage /\ response.out <= OutputLimit[node] /\ response.out \in Nat
    BY <2>2, <2>3, ResponseLimited DEF Usage
  <2>5. billed'.out = billed.out + response.out
    BY <2>2, <2>4, PlusAdds DEF Framed, TypeOK
  <2>6. call.out + response.out <= 2 * LargestLimit
    BY <2>2, <2>3, <2>4, CallFits, Numbers
  <2> QED BY <2>4, <2>5, <2>6, LossMoney
<1> QED BY <1>2, <1>3

LEMMA MoneyStep == Framed /\ Money /\ [Next]_vars => Money'
<1> SUFFICES ASSUME Framed, Money, [Next]_vars PROVE Money'
  OBVIOUS
<1> USE DEF stateVars, callVars, telemetryVars, runVars, history
<1>1. CASE Execute BY <1>1, IdleMoney DEF Execute
<1>2. CASE BudgetExceeded BY <1>2, IdleMoney DEF BudgetExceeded
<1>3. CASE Reserve BY <1>3, IdleMoney DEF Reserve
<1>4. CASE Respond BY <1>4, RespondMoney
<1>5. CASE Commit BY <1>5, CommitMoney
<1>6. CASE Record BY <1>6, IdleMoney DEF Record
<1>7. CASE Export BY <1>7, IdleMoney DEF Export
<1>8. CASE EndRun BY <1>8, IdleMoney DEF EndRun
<1>9. CASE LaterFlush BY <1>9, IdleMoney DEF LaterFlush
<1>10. CASE ThreadEnds BY <1>10, IdleMoney DEF ThreadEnds
<1>11. CASE RepairTelemetry BY <1>11, IdleMoney DEF RepairTelemetry
<1>12. CASE Interrupt BY <1>12, CutOffMoney DEF Interrupt
<1>13. CASE Crash BY <1>13, CutOffMoney DEF Crash
<1>14. CASE UNCHANGED vars BY <1>14, IdleMoney DEF vars
<1> QED
  BY <1>1, <1>2, <1>3, <1>4, <1>5, <1>6, <1>7, <1>8, <1>9, <1>10, <1>11, <1>12, <1>13,
     <1>14 DEF Next

LEMMA MoneyAlways == Spec => [](Framed /\ Money)
<1>1. Init => Framed /\ Money
  BY InitFramed, InitMoney
<1>2. (Framed /\ Money) /\ [Next]_vars => (Framed /\ Money)'
  BY FramedStep, MoneyStep
<1> QED BY <1>1, <1>2, PTL DEF Spec

(* For any limits, prices and failures: what a run costs and its ledger     *)
(* does not say is at most two responses for each execution that failed and *)
(* one for each response the SDK refused.                                  *)
THEOREM BillStaysAccounted == Spec => []BillAccounted
<1>1. Money => BillAccounted BY DEF Money
<1> QED BY <1>1, MoneyAlways, PTL

(* No run's ledger passes its output budget by more than one response.      *)
THEOREM OverspendStaysBounded == Spec => []OverspendBounded
<1>1. Money => OverspendBounded BY DEF Money
<1> QED BY <1>1, MoneyAlways, PTL

(* With budgets that fit the three agents once, the first round is never    *)
(* refused for its output or its number of calls unless a repair was paid.  *)
THEOREM FirstRoundAlwaysFits == Spec => []FirstRoundFits
<1>1. Framed /\ Money => FirstRoundFits
  <2> SUFFICES ASSUME Framed, Money,
               /\ OutputLimit["agent_1"] + OutputLimit["agent_2"] + OutputLimit["agent_3"]
                    <= MaxOutputPerRun
               /\ MaxMainCalls >= 3
               /\ \A a \in Agents : EstimatedInput[a] <= MaxInputPerCall,
               pc = "node", revisions = 0, used.n = entries,
               used.in + EstimatedInput[node] <= MaxInputPerRun
               PROVE CanCall(node)
    BY DEF FirstRoundFits
  <2>1. node \in Agents
    BY DEF Framed, Control
  <2>2. /\ OutputLimit["agent_1"] \in Nat /\ OutputLimit["agent_2"] \in Nat
        /\ OutputLimit["agent_3"] \in Nat
    BY LimitsAreNumbers DEF Agents
  <2>3. CASE node = "agent_1"
    BY <2>1, <2>2, <2>3, Numbers, AccountingAssumption DEF Money, FirstRound, CanCall
  <2>4. CASE node = "agent_2"
    BY <2>1, <2>2, <2>4, Numbers, AccountingAssumption DEF Money, FirstRound, CanCall
  <2>5. CASE node = "agent_3"
    BY <2>1, <2>2, <2>5, Numbers, AccountingAssumption DEF Money, FirstRound, CanCall
  <2> QED BY <2>1, <2>3, <2>4, <2>5 DEF Agents
<1> QED BY <1>1, MoneyAlways, PTL

-----------------------------------------------------------------------------
(* Telemetry.                                                              *)

LEMMA UnderwayStep ==
  Framed /\ Underway /\ TelemetryDelivered /\ [Next]_vars => (Underway /\ TelemetryDelivered)'
<1> SUFFICES ASSUME Framed, Underway, TelemetryDelivered, [Next]_vars
             PROVE  (Underway /\ TelemetryDelivered)'
  OBVIOUS
<1> USE DEF Framed, Control, Underway, TelemetryDelivered, Events, stateVars, callVars,
           telemetryVars, runVars, history, InCall
<1>1. CASE Execute BY <1>1 DEF Execute
<1>2. CASE BudgetExceeded BY <1>2 DEF BudgetExceeded
<1>3. CASE Reserve BY <1>3 DEF Reserve
<1>4. CASE Respond BY <1>4 DEF Respond, FirstResponse, RepairResponse, Raise
<1>5. CASE Commit BY <1>5 DEF Commit
<1>6. CASE Record BY <1>6 DEF Record
<1>7. CASE Export BY <1>7 DEF Export
<1>8. CASE EndRun BY <1>8 DEF EndRun, TerminalStatus
<1>9. CASE LaterFlush BY <1>9 DEF LaterFlush
<1>10. CASE ThreadEnds BY <1>10 DEF ThreadEnds
<1>11. CASE RepairTelemetry BY <1>11 DEF RepairTelemetry
<1>12. CASE Interrupt BY <1>12 DEF Interrupt, Raise
<1>13. CASE Crash BY <1>13 DEF Crash, Raise
<1>14. CASE UNCHANGED vars BY <1>14 DEF vars
<1> QED
  BY <1>1, <1>2, <1>3, <1>4, <1>5, <1>6, <1>7, <1>8, <1>9, <1>10, <1>11, <1>12, <1>13,
     <1>14 DEF Next

(* A run that ended without a warning has all its events at Langfuse,       *)
(* whatever was cancelled, repeated or lost with a process before.          *)
THEOREM TelemetryIsDelivered == Spec => []TelemetryDelivered
<1>1. Init => Underway /\ TelemetryDelivered
  BY DEF Init, Underway, TelemetryDelivered
<1> QED BY <1>1, InitFramed, FramedStep, UnderwayStep, PTL DEF Spec

=============================================================================

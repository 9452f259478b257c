-------------------------- MODULE DeliveryContract --------------------------
(***************************************************************************)
(* What the queue, the worker and the run store promise together to a      *)
(* client that submits acquisition requests, with no workers, leases,      *)
(* timers or checkpoints in sight:                                         *)
(*   - a request is accepted at most once, and under a key of its own;     *)
(*   - only an accepted request completes, and it stays completed;         *)
(*   - a message is acknowledged only when its own request has completed.  *)
(***************************************************************************)
CONSTANTS Message, RunId, Key, Url, Malformed, NoRequest, Body

Envelope == [run : RunId, key : Key, url : Url]

VARIABLES
  request,    \* the accepted request of each run id
  completed,  \* runs that have completed
  outcome     \* what became of each message

vars == <<request, completed, outcome>>

Outcomes == {"unsent", "pending", "acknowledged", "abandoned"}

Init ==
  /\ request = [r \in RunId |-> NoRequest]
  /\ completed = {}
  /\ outcome = [m \in Message |-> "unsent"]

Submit(m) ==
  /\ outcome[m] = "unsent"
  /\ outcome' = [outcome EXCEPT ![m] = "pending"]
  /\ UNCHANGED <<request, completed>>

Accept(e) ==
  /\ request[e.run] = NoRequest
  /\ \A r \in RunId : request[r] # NoRequest => request[r].key # e.key
  /\ request' = [request EXCEPT ![e.run] = e]
  /\ UNCHANGED <<completed, outcome>>

Complete(r) ==
  /\ request[r] # NoRequest
  /\ completed' = completed \cup {r}
  /\ UNCHANGED <<request, outcome>>

Acknowledge(m) ==
  /\ outcome[m] = "pending"
  /\ Body[m] # Malformed
  /\ request[Body[m].run] = Body[m]
  /\ Body[m].run \in completed
  /\ outcome' = [outcome EXCEPT ![m] = "acknowledged"]
  /\ UNCHANGED <<request, completed>>

Abandon(m) ==
  /\ outcome[m] = "pending"
  /\ outcome' = [outcome EXCEPT ![m] = "abandoned"]
  /\ UNCHANGED <<request, completed>>

Next ==
  \/ \E m \in Message : Submit(m) \/ Acknowledge(m) \/ Abandon(m)
  \/ \E e \in Envelope : Accept(e)
  \/ \E r \in RunId : Complete(r)

Spec == Init /\ [][Next]_vars
=============================================================================

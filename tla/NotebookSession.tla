--------------------------- MODULE NotebookSession ---------------------------
(***************************************************************************)
(* NotebookLMProvider over MCPStdioClient: one request at a time, written   *)
(* to a server process and answered on a pipe.  A request that times out or *)
(* is cancelled leaves its answer to come.                                  *)
(***************************************************************************)
EXTENDS SourcePort, Sequences

CONSTANTS
  NoHash, NoSource,
  MaxRetitles, \* bound on the changes of titles
  MaxId  \* bound on the requests in flight

ASSUME NotebookAssumption ==
  /\ NoHash \notin Hash
  /\ NoSource \notin Source
  /\ MaxRetitles \in Nat
  /\ MaxId \in Nat

Preflight == {"start", "initialize", "initialized", "tools/list", "server_health"}
ToolCalls == {"content_list", "notebook_ask"}
Requests == {"initialize", "tools/list", "server_health"} \cup ToolCalls

VARIABLES
  title,   \* what NotebookLM says of each notebook: the hash of title and kind
  \* NotebookLMProvider: _preflight is not None, _sources
  ready, sources,
  \* MCPStdioClient: the process
  server,
  \* the process: requests it has read, and what it wrote that is not read
  inbox, pipe,
  \* the call in progress
  call,
  checked  \* history: this process passed the preflight

clientVars == <<server, inbox, pipe>>
providerVars == <<ready, sources>>
notebookVars == <<title, providerVars, clientVars, call, checked>>

(* A call of inspect or acquire: its step, its notebook, the id of the      *)
(* request it waits for (0: not yet written), and for acquire the hash of   *)
(* the source it took.                                                     *)
Call == [step : {"idle"} \cup Preflight \cup ToolCalls, of : Source \cup {NoSource}, id : Nat,
         hash : Hash \cup {NoHash}]
Request == [id : Nat, step : Requests, of : Source \cup {NoSource}]

(* A message of the server: the answer to a request, with what it says of   *)
(* the notebook.  The client sees neither the step nor the notebook it was  *)
(* asked about.  bad stands for an error, a result the provider refuses and *)
(* a line that is no message; a notification has no id.                     *)
Message == [id : Nat, step : Requests \cup {"none"}, of : Source \cup {NoSource},
            hash : Hash \cup {NoHash}, kind : {"result", "bad", "notification"}]

NotebookTypeOK ==
  /\ title \in [Source -> Hash]
  /\ ready \in BOOLEAN
  /\ sources \in [Source -> Hash \cup {NoHash}]
  /\ server \in {"none", "up", "dead"}
  /\ inbox \in SUBSET Request
  /\ pipe \in Seq(Message)
  /\ call \in Call
  /\ checked \in BOOLEAN

Forgotten == [n \in Source |-> NoHash]
Idle == [step |-> "idle", of |-> NoSource, id |-> 0, hash |-> NoHash]

NotebookInit ==
  /\ title \in [Source -> Hash]
  /\ published = {<<n, title[n]>> : n \in Source}
  /\ ready = FALSE
  /\ sources = Forgotten
  /\ server = "none"
  /\ inbox = {}
  /\ pipe = <<>>
  /\ call = Idle
  /\ checked = FALSE

-----------------------------------------------------------------------------
(* Faulty variants of some definitions below, for mutation checks only.    *)

SkipsPreflightIfRunning(n) ==
  /\ call.step = "idle"
  /\ call' = [Idle EXCEPT !.step = IF server = "up" THEN "content_list" ELSE "start", !.of = n]
  /\ Answerless
  /\ UNCHANGED <<title, providerVars, clientVars, checked, environment, faults>>
SameIdAgain == 1
RefusesAndGoesOn ==
  /\ call.step \in Requests /\ call.id # 0 /\ server = "up" /\ pipe # <<>>
  /\ Head(pipe).kind # "notification"
  /\ Head(pipe).kind = "bad" \/ Head(pipe).id # call.id
  /\ call' = Idle
  /\ pipe' = Tail(pipe)
  /\ Answerless
  /\ UNCHANGED <<title, providerVars, server, inbox, checked, environment, faults>>

-----------------------------------------------------------------------------
(* Starting, failing and ending a call.                                    *)

(* close() of the client: stdin is closed, the process ended, the pipe gone. *)
CloseClient ==
  /\ server' = "none"
  /\ inbox' = {}
  /\ pipe' = <<>>

(* The call raises.  Only the preflight closes the client then; whatever    *)
(* fails later leaves the process, the pipe and the cached preflight as     *)
(* they are.                                                               *)
Raise ==
  /\ call' = Idle
  /\ IF call.step \in Preflight THEN CloseClient ELSE UNCHANGED <<server, inbox, pipe>>

InspectNotebook(n) ==
  /\ call.step = "idle"
  /\ call' = [Idle EXCEPT !.step = IF ready THEN "content_list" ELSE "start", !.of = n]
  /\ Answerless
  /\ UNCHANGED <<title, providerVars, clientVars, checked, environment, faults>>

(* acquire takes the source off the list before anything else, also when it *)
(* then fails.                                                             *)
AcquireNotebook(n, h) ==
  /\ call.step = "idle"
  /\ <<n, h>> \in described
  /\ sources' = [sources EXCEPT ![n] = NoHash]
  /\ call' = IF sources[n] = h
             THEN [Idle EXCEPT !.step = "notebook_ask", !.of = n, !.hash = h]
             ELSE call
  /\ Answerless
  /\ UNCHANGED <<title, ready, clientVars, checked, environment, faults>>

(* start() keeps a running process, and replaces one that ended.            *)
StartServer ==
  /\ call.step = "start"
  /\ call' = [call EXCEPT !.step = "initialize"]
  /\ IF server = "up" THEN UNCHANGED <<server, inbox, pipe, checked>>
     ELSE /\ server' = "up"
          /\ inbox' = {}
          /\ pipe' = <<>>
          /\ checked' = FALSE
  /\ Answerless
  /\ UNCHANGED <<title, providerVars, environment, faults>>

StartFails ==
  /\ call.step = "start"
  /\ server # "up"
  /\ Fault
  /\ Raise
  /\ Answerless
  /\ UNCHANGED <<title, providerVars, checked, environment>>

(* initialize ends with a notification of the client.                      *)
NotifyInitialized ==
  /\ call.step = "initialized"
  /\ IF server = "up"
     THEN call' = [call EXCEPT !.step = "tools/list"] /\ UNCHANGED <<server, inbox, pipe>>
     ELSE Raise
  /\ Answerless
  /\ UNCHANGED <<title, providerVars, checked, environment, faults>>

-----------------------------------------------------------------------------
(* request().                                                              *)

(* _next_id goes up with every request and never returns to an id that is   *)
(* in flight; ids are compared for equality only, so any free one stands    *)
(* for it.                                                                 *)
InFlight == {r.id : r \in inbox} \cup {pipe[k].id : k \in DOMAIN pipe}
Fresh == (1 .. MaxId) \ InFlight
NewId == CHOOSE i \in Fresh : \A j \in Fresh : i <= j

Sending == call.step \in Requests /\ call.id = 0 /\ Fresh # {}
Waiting == call.step \in Requests /\ call.id # 0

Written == inbox' = inbox \cup {[id |-> NewId, step |-> call.step, of |-> call.of]}

Send ==
  /\ Sending
  /\ IF server = "up"
     THEN call' = [call EXCEPT !.id = NewId] /\ Written /\ UNCHANGED <<server, pipe>>
     ELSE Raise
  /\ Answerless
  /\ UNCHANGED <<title, providerVars, checked, environment, faults>>

(* A write that fails may have reached the server.                         *)
SendFails ==
  /\ Sending
  /\ server = "up"
  /\ Fault
  /\ \/ Raise
     \/ /\ call.step \notin Preflight
        /\ call' = Idle
        /\ Written
        /\ UNCHANGED <<server, pipe>>
  /\ Answerless
  /\ UNCHANGED <<title, providerVars, checked, environment>>

(* The answer to the request in progress that the provider is content with. *)
Accepted(m) == m.kind = "result" /\ m.id = call.id

NextStep(step) ==
  CASE step = "initialize" -> "initialized"
    [] step = "tools/list" -> "server_health"
    [] step = "server_health" -> "content_list"

(* One round of the loop in request(), on the next message of the pipe: a   *)
(* notification is skipped, and what is not an accepted answer to this      *)
(* request raises - a late answer to an earlier one, too.                  *)
Skip ==
  /\ Waiting /\ server = "up" /\ pipe # <<>>
  /\ Head(pipe).kind = "notification"
  /\ pipe' = Tail(pipe)
  /\ Answerless
  /\ UNCHANGED <<title, providerVars, server, inbox, call, checked, environment,
                 faults>>

Refuse ==
  /\ Waiting /\ server = "up" /\ pipe # <<>>
  /\ Head(pipe).kind # "notification"
  /\ ~ Accepted(Head(pipe))
  /\ call' = Idle
  /\ IF call.step \in Preflight THEN CloseClient
     ELSE pipe' = Tail(pipe) /\ UNCHANGED <<server, inbox>>
  /\ Answerless
  /\ UNCHANGED <<title, providerVars, checked, environment, faults>>

Receiving(step) ==
  /\ Waiting /\ server = "up" /\ pipe # <<>>
  /\ call.step = step
  /\ Accepted(Head(pipe))
  /\ pipe' = Tail(pipe)
  /\ UNCHANGED <<title, server, inbox, environment, faults>>

ReceivePreflight ==
  \E step \in Requests \ ToolCalls :
    /\ Receiving(step)
    /\ call' = [call EXCEPT !.step = NextStep(step), !.id = 0]
    /\ ready' = (ready \/ step = "server_health")
    /\ checked' = (checked \/ step = "server_health")
    /\ Answerless
    /\ UNCHANGED sources

ReceiveContents ==
  LET h == Head(pipe).hash IN
  /\ Receiving("content_list")
  /\ sources' = [sources EXCEPT ![call.of] = h]
  /\ Describe(call.of, h)
  /\ call' = Idle
  /\ UNCHANGED <<ready, checked>>

ReceiveAnswer ==
  /\ Receiving("notebook_ask")
  /\ Deliver(Head(pipe).of, call.hash)
  /\ call' = Idle
  /\ UNCHANGED <<providerVars, checked>>

(* The process has ended: _require_process or the end of the pipe raises.   *)
LoseServer ==
  /\ Waiting /\ server # "up"
  /\ Raise
  /\ Answerless
  /\ UNCHANGED <<title, providerVars, checked, environment, faults>>

TimeOut ==
  /\ Waiting /\ server = "up"
  /\ Fault
  /\ Raise
  /\ Answerless
  /\ UNCHANGED <<title, providerVars, checked, environment>>

-----------------------------------------------------------------------------
(* What the server does.                                                   *)

Reply(r, kind) ==
  [id |-> r.id, step |-> r.step, of |-> r.of, kind |-> kind,
   hash |-> IF r.step = "content_list" THEN title[r.of] ELSE NoHash]
Notification ==
  [id |-> 0, step |-> "none", of |-> NoSource, hash |-> NoHash, kind |-> "notification"]

ServerAnswers ==
  /\ server = "up"
  /\ \E r \in inbox :
       /\ inbox' = inbox \ {r}
       /\ pipe' = Append(pipe, Reply(r, "result"))
  /\ Answerless
  /\ UNCHANGED <<title, providerVars, server, call, checked, environment, faults>>

ServerMisbehaves ==
  /\ server = "up"
  /\ Fault
  /\ \/ \E r \in inbox :
          /\ inbox' = inbox \ {r}
          /\ pipe' = Append(pipe, Reply(r, "bad"))
     \/ /\ pipe' = Append(pipe, Notification)
        /\ UNCHANGED inbox
  /\ Answerless
  /\ UNCHANGED <<title, providerVars, server, call, checked, environment>>

ServerDies ==
  /\ server = "up"
  /\ Fault
  /\ server' = "dead"
  /\ Answerless
  /\ UNCHANGED <<title, providerVars, inbox, pipe, call, checked, environment>>

Retitle(n, h) ==
  /\ title[n] # h
  /\ changes < MaxRetitles
  /\ Change
  /\ title' = [title EXCEPT ![n] = h]
  /\ Publish(n, h)
  /\ Answerless
  /\ UNCHANGED <<providerVars, clientVars, call, checked, faults>>

-----------------------------------------------------------------------------
(* What happens to the provider.                                           *)

(* The node is cancelled.  CancelledError is no Exception, so nothing is    *)
(* closed, not in the preflight either.                                    *)
CancelCall ==
  /\ call.step # "idle"
  /\ Fault
  /\ call' = Idle
  /\ Answerless
  /\ UNCHANGED <<title, providerVars, clientVars, checked, environment>>

CloseProvider ==
  /\ call.step = "idle"
  /\ Fault
  /\ ready' = FALSE
  /\ sources' = Forgotten
  /\ CloseClient
  /\ Answerless
  /\ UNCHANGED <<title, call, checked, environment>>

RestartProcess ==
  /\ Fault
  /\ ready' = FALSE
  /\ sources' = Forgotten
  /\ CloseClient
  /\ call' = Idle
  /\ Answerless
  /\ UNCHANGED <<title, checked, environment>>

NotebookProgress ==
  \/ (\E n \in Source : InspectNotebook(n))
  \/ StartServer \/ NotifyInitialized \/ Send \/ Skip \/ Refuse
  \/ ReceivePreflight \/ ReceiveContents \/ ReceiveAnswer \/ LoseServer

NotebookNext ==
  \/ NotebookProgress
  \/ \E n \in Source, h \in Hash : AcquireNotebook(n, h) \/ Retitle(n, h)
  \/ StartFails \/ SendFails \/ TimeOut
  \/ ServerAnswers \/ ServerMisbehaves \/ ServerDies
  \/ CancelCall \/ CloseProvider \/ RestartProcess


NotebookSpec ==
  PortInit /\ NotebookInit /\ [][NotebookNext]_<<notebookVars, portVars>>

-----------------------------------------------------------------------------
(* Properties.                                                             *)

(* A tool is called only on a process that passed the preflight itself: a   *)
(* cancelled preflight, a server that died or a provider that was closed    *)
(* does not lead to calls on an unchecked one.                             *)
CheckedServerOnly == call.step \in ToolCalls /\ server = "up" => checked

(* Whatever came late before, an answer with the id of the request in       *)
(* progress answers a request of the same kind for the same notebook: late  *)
(* tools are not taken for the health of the server, nor the contents of    *)
(* one notebook for those of another.                                      *)
AnswersInTurn ==
  \A k \in DOMAIN pipe : Waiting /\ pipe[k].id = call.id =>
    pipe[k].of = call.of /\ pipe[k].step = call.step

=============================================================================

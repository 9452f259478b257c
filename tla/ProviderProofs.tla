---------------------------- MODULE ProviderProofs ----------------------------
(***************************************************************************)
(* Proofs about Providers, for all sources, hashes and bounds: the type     *)
(* invariant, the session with the MCP server, and that both providers      *)
(* implement SourceContract.                                               *)
(***************************************************************************)
EXTENDS Providers, WellFoundedInduction, TLAPS

-----------------------------------------------------------------------------
(* Ids of requests.                                                        *)

LEMMA LeastNatural ==
  ASSUME NEW T \in SUBSET Nat, T # {}
  PROVE  \E n \in T : \A k \in T : n <= k
<1> DEFINE R == {p \in Nat \X Nat : p[1] < p[2]}
<1>1. IsWellFoundedOn(R, Nat)
  BY NatLessThanWellFounded DEF OpToRel
<1>2. PICK n \in T : \A k \in T : ~ (<<k, n>> \in R)
  <2> HIDE DEF R
  <2> QED BY <1>1, WFMin, Zenon
<1>3. ASSUME NEW k \in T PROVE n <= k
  <2>2. k < n => <<k, n>> \in R
    OBVIOUS
  <2> QED BY <1>2, <2>2
<1> QED BY <1>3

LEMMA NewIdIsFresh ==
  ASSUME Fresh # {}
  PROVE  /\ NewId \in Nat /\ NewId # 0
         /\ \A r \in inbox : r.id # NewId
         /\ \A k \in DOMAIN pipe : pipe[k].id # NewId
<1>1. Fresh \in SUBSET Nat /\ Fresh # {}
  BY DEF Fresh
<1>2. \E n \in Fresh : \A k \in Fresh : n <= k
  BY <1>1, LeastNatural
<1>3. NewId \in Fresh
  BY <1>2, Zenon DEF NewId
<1>4. NewId \in 1 .. MaxId /\ NewId \notin InFlight
  BY <1>3 DEF Fresh
<1> QED BY <1>4 DEF InFlight

-----------------------------------------------------------------------------
(* The inductive invariant of the notebook provider.                       *)

(* The call in progress: it names a source, waits for an id only when a     *)
(* request is written, and asks only about what was described.             *)
CallOK ==
  /\ call.step \notin Requests => call.id = 0
  /\ call.step # "idle" => call.of \in Source
  /\ call.step = "notebook_ask" => <<call.of, call.hash>> \in described

(* A request or an answer in flight with the id of the call belongs to it.  *)
RequestsOK ==
  \A r \in inbox :
    /\ r.of \in Source
    /\ r.id # 0
    /\ call.id # 0 /\ r.id = call.id => r.of = call.of /\ r.step = call.step
AnswersOK ==
  \A k \in DOMAIN pipe :
    call.id # 0 /\ pipe[k].id = call.id =>
      /\ pipe[k].of = call.of /\ pipe[k].step = call.step
      /\ call.step = "content_list" /\ pipe[k].kind = "result"
           => <<pipe[k].of, pipe[k].hash>> \in published

(* The cached preflight is that of the process that runs, and it is not     *)
(* repeated.                                                               *)
SessionOK ==
  /\ call.step \in ToolCalls => ready
  /\ call.step \in Preflight => ~ ready
  /\ ready /\ server = "up" => checked
  /\ \A n \in Source : sources[n] # NoHash => ready

TitlesOK == \A n \in Source : <<n, title[n]>> \in published

NotebookInv ==
  /\ PortTypeOK /\ NotebookTypeOK
  /\ CallOK /\ RequestsOK /\ AnswersOK /\ SessionOK /\ TitlesOK

(* What the provider's steps may do to the state the contract speaks of.    *)
Grows == published \subseteq published' /\ described \subseteq described'
ContractStep == [Contract!Next]_<<published, described, delivered>>

-----------------------------------------------------------------------------
(* Calls, requests and messages by their fields.                           *)

LEMMA CallFields ==
  ASSUME call \in Call
  PROVE  /\ call.step \in {"idle"} \cup Preflight \cup ToolCalls
         /\ call.of \in Source \cup {NoSource}
         /\ call.id \in Nat
         /\ call.hash \in Hash \cup {NoHash}
         /\ call = [step |-> call.step, of |-> call.of, id |-> call.id, hash |-> call.hash]
  BY DEF Call

LEMMA IdleIsACall == Idle \in Call
  BY DEF Idle, Call

LEMMA StepNames ==
  /\ Preflight = {"start", "initialize", "initialized", "tools/list", "server_health"}
  /\ ToolCalls = {"content_list", "notebook_ask"}
  /\ Requests = {"initialize", "tools/list", "server_health", "content_list", "notebook_ask"}
  BY DEF Preflight, ToolCalls, Requests

LEMMA EmptyPipe == <<>> \in Seq(Message) /\ DOMAIN <<>> = {}
  OBVIOUS

LEMMA HeadOfPipe ==
  ASSUME pipe \in Seq(Message), pipe # <<>>
  PROVE  /\ 1 \in DOMAIN pipe /\ Head(pipe) = pipe[1]
         /\ Head(pipe) \in Message
         /\ Tail(pipe) \in Seq(Message)
         /\ \A k \in DOMAIN Tail(pipe) : k + 1 \in DOMAIN pipe /\ Tail(pipe)[k] = pipe[k + 1]
  OBVIOUS

LEMMA NextSteps ==
  /\ NextStep("initialize") = "initialized"
  /\ NextStep("tools/list") = "server_health"
  /\ NextStep("server_health") = "content_list"
  BY DEF NextStep

LEMMA ReplyIsAMessage ==
  ASSUME NotebookTypeOK, NEW r \in inbox, r.of \in Source, NEW k \in {"result", "bad"}
  PROVE  /\ Reply(r, k) \in Message
         /\ Reply(r, k).id = r.id /\ Reply(r, k).of = r.of /\ Reply(r, k).step = r.step
         /\ r.step = "content_list" => Reply(r, k).hash = title[r.of]
<1>1. r.id \in Nat /\ title[r.of] \in Hash /\ r.step \in Requests
  BY DEF NotebookTypeOK, Request
<1>2. Reply(r, k) = [id |-> r.id, step |-> r.step, of |-> r.of, kind |-> k,
                     hash |-> IF r.step = "content_list" THEN title[r.of] ELSE NoHash]
  BY DEF Reply
<1> QED BY <1>1, <1>2 DEF Message

LEMMA NotificationIsAMessage == Notification \in Message /\ Notification.id = 0
  BY DEF Notification, Message

-----------------------------------------------------------------------------
(* Every step of the notebook provider keeps the invariant.                *)

LEMMA InspectNotebookKeeps ==
  ASSUME NotebookInv, NEW n \in Source, InspectNotebook(n)
  PROVE  NotebookInv'
<1>0. PortTypeOK /\ NotebookTypeOK /\ CallOK /\ RequestsOK /\ AnswersOK /\ SessionOK /\ TitlesOK
  BY DEF NotebookInv
<1>1. PortTypeOK'
  BY <1>0 DEF PortTypeOK, InspectNotebook, Answerless, environment
<1>2. call' \in Call
  BY IdleIsACall, StepNames DEF Call, InspectNotebook
<1>3. (title \in [Source -> Hash])' /\ (ready \in BOOLEAN)'
      /\ (sources \in [Source -> Hash \cup {NoHash}])'
      /\ (server \in {"none", "up", "dead"})' /\ (checked \in BOOLEAN)'
  BY <1>0 DEF NotebookTypeOK, InspectNotebook, providerVars, clientVars
<1>4. inbox' \in SUBSET Request
  BY <1>0 DEF NotebookTypeOK, InspectNotebook, clientVars
<1>5. pipe' \in Seq(Message)
  BY <1>0 DEF NotebookTypeOK, InspectNotebook, clientVars
<1>6. CallOK'
  BY DEF CallOK, InspectNotebook, Idle
<1>7. RequestsOK'
  BY <1>0 DEF RequestsOK, InspectNotebook, clientVars, Idle
<1>8. AnswersOK'
  BY DEF AnswersOK, InspectNotebook, Idle
<1>9. SessionOK'
  BY <1>0, StepNames DEF SessionOK, InspectNotebook, providerVars, clientVars
<1>10. TitlesOK'
  BY <1>0 DEF TitlesOK, InspectNotebook, environment
<1> QED
  BY <1>1, <1>2, <1>3, <1>4, <1>5, <1>6, <1>7, <1>8, <1>9, <1>10 DEF NotebookInv, NotebookTypeOK

LEMMA AcquireNotebookKeeps ==
  ASSUME NotebookInv, NEW n \in Source, NEW h \in Hash, AcquireNotebook(n, h)
  PROVE  NotebookInv'
<1>0. PortTypeOK /\ NotebookTypeOK /\ CallOK /\ RequestsOK /\ AnswersOK /\ SessionOK /\ TitlesOK
  BY DEF NotebookInv
<1>1. PortTypeOK'
  BY <1>0 DEF PortTypeOK, AcquireNotebook, Answerless, environment
<1>2. call' \in Call
  BY <1>0, IdleIsACall, StepNames DEF NotebookTypeOK, Call, AcquireNotebook
<1>3. (title \in [Source -> Hash])' /\ (ready \in BOOLEAN)'
      /\ (sources \in [Source -> Hash \cup {NoHash}])'
      /\ (server \in {"none", "up", "dead"})' /\ (checked \in BOOLEAN)'
  BY <1>0 DEF NotebookTypeOK, AcquireNotebook, clientVars
<1>4. inbox' \in SUBSET Request
  BY <1>0 DEF NotebookTypeOK, AcquireNotebook, clientVars
<1>5. pipe' \in Seq(Message)
  BY <1>0 DEF NotebookTypeOK, AcquireNotebook, clientVars
<1>6. CallOK'
  BY <1>0, StepNames DEF CallOK, AcquireNotebook, Answerless
<1>7. RequestsOK'
  BY <1>0 DEF RequestsOK, AcquireNotebook, clientVars, Idle
<1>8. AnswersOK'
  BY <1>0, StepNames DEF CallOK, AnswersOK, AcquireNotebook, Idle
<1>9. SessionOK'
  BY <1>0, StepNames, NotebookAssumption DEF SessionOK, AcquireNotebook, clientVars
<1>10. TitlesOK'
  BY <1>0 DEF TitlesOK, AcquireNotebook, environment
<1> QED
  BY <1>1, <1>2, <1>3, <1>4, <1>5, <1>6, <1>7, <1>8, <1>9, <1>10 DEF NotebookInv, NotebookTypeOK

LEMMA RetitleKeeps ==
  ASSUME NotebookInv, NEW n \in Source, NEW h \in Hash, Retitle(n, h)
  PROVE  NotebookInv'
<1>0. PortTypeOK /\ NotebookTypeOK /\ CallOK /\ RequestsOK /\ AnswersOK /\ SessionOK /\ TitlesOK
  BY DEF NotebookInv
<1>1. PortTypeOK'
  BY <1>0, PortAssumption DEF PortTypeOK, Retitle, Answerless, Change, Publish
<1>2. call' \in Call
  BY <1>0 DEF NotebookTypeOK, Retitle
<1>3. (title \in [Source -> Hash])' /\ (ready \in BOOLEAN)'
      /\ (sources \in [Source -> Hash \cup {NoHash}])'
      /\ (server \in {"none", "up", "dead"})' /\ (checked \in BOOLEAN)'
  BY <1>0 DEF NotebookTypeOK, Retitle, providerVars, clientVars
<1>4. inbox' \in SUBSET Request
  BY <1>0 DEF NotebookTypeOK, Retitle, clientVars
<1>5. pipe' \in Seq(Message)
  BY <1>0 DEF NotebookTypeOK, Retitle, clientVars
<1>6. CallOK'
  BY <1>0 DEF CallOK, Retitle, Answerless
<1>7. RequestsOK'
  BY <1>0 DEF RequestsOK, Retitle, clientVars
<1>8. AnswersOK'
  BY <1>0 DEF AnswersOK, Retitle, clientVars, Publish
<1>9. SessionOK'
  BY <1>0 DEF SessionOK, Retitle, providerVars, clientVars
<1>10. TitlesOK'
  BY <1>0 DEF TitlesOK, Retitle, Publish
<1> QED
  BY <1>1, <1>2, <1>3, <1>4, <1>5, <1>6, <1>7, <1>8, <1>9, <1>10 DEF NotebookInv, NotebookTypeOK

LEMMA StartServerKeeps ==
  ASSUME NotebookInv, StartServer
  PROVE  NotebookInv'
<1>0. PortTypeOK /\ NotebookTypeOK /\ CallOK /\ RequestsOK /\ AnswersOK /\ SessionOK /\ TitlesOK
  BY DEF NotebookInv
<1>1. PortTypeOK'
  BY <1>0 DEF PortTypeOK, StartServer, Answerless, environment
<1>2. call' \in Call
  BY <1>0, StepNames DEF NotebookTypeOK, Call, StartServer
<1>3. (title \in [Source -> Hash])' /\ (ready \in BOOLEAN)'
      /\ (sources \in [Source -> Hash \cup {NoHash}])'
      /\ (server \in {"none", "up", "dead"})' /\ (checked \in BOOLEAN)'
  BY <1>0 DEF NotebookTypeOK, StartServer, providerVars
<1>4. inbox' \in SUBSET Request
  BY <1>0 DEF NotebookTypeOK, StartServer
<1>5. pipe' \in Seq(Message)
  BY <1>0, EmptyPipe DEF NotebookTypeOK, StartServer
<1>6. CallOK'
  BY <1>0, StepNames DEF CallOK, StartServer
<1>7. RequestsOK'
  BY <1>0, StepNames DEF CallOK, RequestsOK, StartServer
<1>8. AnswersOK'
  BY <1>0, StepNames DEF CallOK, AnswersOK, StartServer
<1>9. SessionOK'
  BY <1>0, StepNames DEF SessionOK, StartServer, providerVars
<1>10. TitlesOK'
  BY <1>0 DEF TitlesOK, StartServer, environment
<1> QED
  BY <1>1, <1>2, <1>3, <1>4, <1>5, <1>6, <1>7, <1>8, <1>9, <1>10 DEF NotebookInv, NotebookTypeOK

LEMMA StartFailsKeeps ==
  ASSUME NotebookInv, StartFails
  PROVE  NotebookInv'
<1>0. PortTypeOK /\ NotebookTypeOK /\ CallOK /\ RequestsOK /\ AnswersOK /\ SessionOK /\ TitlesOK
  BY DEF NotebookInv
<1>1. PortTypeOK'
  BY <1>0, PortAssumption DEF PortTypeOK, StartFails, Answerless, environment, Fault
<1>2. call' \in Call
  BY IdleIsACall DEF StartFails, Raise
<1>3. (title \in [Source -> Hash])' /\ (ready \in BOOLEAN)'
      /\ (sources \in [Source -> Hash \cup {NoHash}])'
      /\ (server \in {"none", "up", "dead"})' /\ (checked \in BOOLEAN)'
  BY <1>0 DEF NotebookTypeOK, StartFails, providerVars, Raise, CloseClient
<1>4. inbox' \in SUBSET Request
  BY <1>0 DEF NotebookTypeOK, StartFails, Raise, CloseClient
<1>5. pipe' \in Seq(Message)
  BY <1>0, EmptyPipe DEF NotebookTypeOK, StartFails, Raise, CloseClient
<1>6. CallOK'
  BY DEF CallOK, StartFails, Raise, Idle
<1>7. RequestsOK'
  BY StepNames DEF RequestsOK, StartFails, Raise, CloseClient
<1>8. AnswersOK'
  BY StepNames DEF AnswersOK, StartFails, Raise, CloseClient
<1>9. SessionOK'
  BY <1>0, StepNames DEF SessionOK, StartFails, providerVars, Raise, Idle
<1>10. TitlesOK'
  BY <1>0 DEF TitlesOK, StartFails, environment
<1> QED
  BY <1>1, <1>2, <1>3, <1>4, <1>5, <1>6, <1>7, <1>8, <1>9, <1>10 DEF NotebookInv, NotebookTypeOK

LEMMA NotifyInitializedKeeps ==
  ASSUME NotebookInv, NotifyInitialized
  PROVE  NotebookInv'
<1>0. PortTypeOK /\ NotebookTypeOK /\ CallOK /\ RequestsOK /\ AnswersOK /\ SessionOK /\ TitlesOK
  BY DEF NotebookInv
<1>1. PortTypeOK'
  BY <1>0 DEF PortTypeOK, NotifyInitialized, Answerless, environment
<1>2. call' \in Call
  BY <1>0, IdleIsACall, StepNames DEF NotebookTypeOK, Call, NotifyInitialized, Raise
<1>3. (title \in [Source -> Hash])' /\ (ready \in BOOLEAN)'
      /\ (sources \in [Source -> Hash \cup {NoHash}])'
      /\ (server \in {"none", "up", "dead"})' /\ (checked \in BOOLEAN)'
  BY <1>0 DEF NotebookTypeOK, NotifyInitialized, providerVars, Raise, CloseClient
<1>4. inbox' \in SUBSET Request
  BY <1>0 DEF NotebookTypeOK, NotifyInitialized, Raise, CloseClient
<1>5. pipe' \in Seq(Message)
  BY <1>0, EmptyPipe DEF NotebookTypeOK, NotifyInitialized, Raise, CloseClient
<1>6. CallOK'
  BY <1>0, CallFields, StepNames DEF NotebookTypeOK, CallOK, NotifyInitialized, Raise, Idle
<1>7. RequestsOK'
  BY <1>0, CallFields, StepNames DEF NotebookTypeOK, CallOK, RequestsOK, NotifyInitialized,
     Raise, CloseClient
<1>8. AnswersOK'
  BY <1>0, CallFields, StepNames DEF NotebookTypeOK, CallOK, AnswersOK, NotifyInitialized, Raise,
     CloseClient
<1>9. SessionOK'
  BY <1>0, CallFields, StepNames DEF NotebookTypeOK, SessionOK, NotifyInitialized, providerVars,
     Raise, Idle
<1>10. TitlesOK'
  BY <1>0 DEF TitlesOK, NotifyInitialized, environment
<1> QED
  BY <1>1, <1>2, <1>3, <1>4, <1>5, <1>6, <1>7, <1>8, <1>9, <1>10 DEF NotebookInv, NotebookTypeOK

LEMMA SendKeeps ==
  ASSUME NotebookInv, Send
  PROVE  NotebookInv'
<1>0. PortTypeOK /\ NotebookTypeOK /\ CallOK /\ RequestsOK /\ AnswersOK /\ SessionOK /\ TitlesOK
  BY DEF NotebookInv
<1>a. Fresh # {}
  BY DEF Send, Sending
<1>b. /\ NewId \in Nat /\ NewId # 0
      /\ \A r \in inbox : r.id # NewId
      /\ \A k \in DOMAIN pipe : pipe[k].id # NewId
  BY <1>a, NewIdIsFresh
<1>c. [id |-> NewId, step |-> call.step, of |-> call.of] \in Request /\ call.of \in Source
  BY <1>0, <1>b, StepNames DEF Send, Sending, CallOK, Request
<1>1. PortTypeOK'
  BY <1>0 DEF PortTypeOK, Send, Answerless, environment
<1>2. call' \in Call
  BY <1>0, IdleIsACall, <1>b DEF NotebookTypeOK, Call, Send, Raise
<1>3. (title \in [Source -> Hash])' /\ (ready \in BOOLEAN)'
      /\ (sources \in [Source -> Hash \cup {NoHash}])'
      /\ (server \in {"none", "up", "dead"})' /\ (checked \in BOOLEAN)'
  BY <1>0 DEF NotebookTypeOK, Send, providerVars, Raise, CloseClient
<1>4. inbox' \in SUBSET Request
  BY <1>0, <1>c DEF NotebookTypeOK, Send, Raise, CloseClient, Written
<1>5. pipe' \in Seq(Message)
  BY <1>0, EmptyPipe DEF NotebookTypeOK, Send, Raise, CloseClient
<1>6. CallOK'
  BY <1>0, CallFields, <1>c DEF NotebookTypeOK, CallOK, Send, Answerless, Raise, Sending, Idle
<1>7. RequestsOK'
  BY <1>0, CallFields, <1>b, <1>c DEF NotebookTypeOK, RequestsOK, Send, Raise, CloseClient,
     Written, Idle
<1>8. AnswersOK'
  BY <1>0, CallFields, <1>b DEF NotebookTypeOK, AnswersOK, Send, Raise, Idle
<1>9. SessionOK'
  BY <1>0, CallFields, StepNames DEF NotebookTypeOK, SessionOK, Send, providerVars, Raise, Idle
<1>10. TitlesOK'
  BY <1>0 DEF TitlesOK, Send, environment
<1> QED
  BY <1>1, <1>2, <1>3, <1>4, <1>5, <1>6, <1>7, <1>8, <1>9, <1>10 DEF NotebookInv, NotebookTypeOK

LEMMA SendFailsKeeps ==
  ASSUME NotebookInv, SendFails
  PROVE  NotebookInv'
<1>0. PortTypeOK /\ NotebookTypeOK /\ CallOK /\ RequestsOK /\ AnswersOK /\ SessionOK /\ TitlesOK
  BY DEF NotebookInv
<1>a. Fresh # {}
  BY DEF SendFails, Sending
<1>b. /\ NewId \in Nat /\ NewId # 0
      /\ \A r \in inbox : r.id # NewId
      /\ \A k \in DOMAIN pipe : pipe[k].id # NewId
  BY <1>a, NewIdIsFresh
<1>c. [id |-> NewId, step |-> call.step, of |-> call.of] \in Request /\ call.of \in Source
  BY <1>0, <1>b, StepNames DEF SendFails, Sending, CallOK, Request
<1>1. PortTypeOK'
  BY <1>0, PortAssumption DEF PortTypeOK, SendFails, Answerless, environment, Fault
<1>2. call' \in Call
  BY IdleIsACall DEF SendFails, Raise
<1>3. (title \in [Source -> Hash])' /\ (ready \in BOOLEAN)'
      /\ (sources \in [Source -> Hash \cup {NoHash}])'
      /\ (server \in {"none", "up", "dead"})' /\ (checked \in BOOLEAN)'
  BY <1>0 DEF NotebookTypeOK, SendFails, providerVars, Raise, CloseClient
<1>4. inbox' \in SUBSET Request
  BY <1>0, <1>c DEF NotebookTypeOK, SendFails, Raise, CloseClient, Written
<1>5. pipe' \in Seq(Message)
  BY <1>0, EmptyPipe DEF NotebookTypeOK, SendFails, Raise, CloseClient
<1>6. CallOK'
  BY DEF CallOK, SendFails, Raise, Idle
<1>7. RequestsOK'
  BY <1>0, <1>b, <1>c DEF RequestsOK, SendFails, Raise, CloseClient, Written, Idle
<1>8. AnswersOK'
  BY DEF AnswersOK, SendFails, Raise, Idle
<1>9. SessionOK'
  BY <1>0, StepNames DEF SessionOK, SendFails, providerVars, Raise, Idle
<1>10. TitlesOK'
  BY <1>0 DEF TitlesOK, SendFails, environment
<1> QED
  BY <1>1, <1>2, <1>3, <1>4, <1>5, <1>6, <1>7, <1>8, <1>9, <1>10 DEF NotebookInv, NotebookTypeOK

LEMMA SkipKeeps ==
  ASSUME NotebookInv, Skip
  PROVE  NotebookInv'
<1>0. PortTypeOK /\ NotebookTypeOK /\ CallOK /\ RequestsOK /\ AnswersOK /\ SessionOK /\ TitlesOK
  BY DEF NotebookInv
<1>1. PortTypeOK'
  BY <1>0 DEF PortTypeOK, Skip, Answerless, environment
<1>2. call' \in Call
  BY <1>0 DEF NotebookTypeOK, Skip
<1>3. (title \in [Source -> Hash])' /\ (ready \in BOOLEAN)'
      /\ (sources \in [Source -> Hash \cup {NoHash}])'
      /\ (server \in {"none", "up", "dead"})' /\ (checked \in BOOLEAN)'
  BY <1>0 DEF NotebookTypeOK, Skip, providerVars
<1>4. inbox' \in SUBSET Request
  BY <1>0 DEF NotebookTypeOK, Skip
<1>5. pipe' \in Seq(Message)
  BY <1>0 DEF NotebookTypeOK, Skip
<1>6. CallOK'
  BY <1>0 DEF CallOK, Skip, Answerless
<1>7. RequestsOK'
  BY <1>0 DEF RequestsOK, Skip
<1>8. AnswersOK'
  <2>1. pipe # <<>> /\ pipe' = Tail(pipe) /\ call' = call /\ published' = published
    BY DEF Skip, environment
  <2>2. \A k \in DOMAIN Tail(pipe) : k + 1 \in DOMAIN pipe /\ Tail(pipe)[k] = pipe[k + 1]
    BY <1>0, <2>1, HeadOfPipe DEF NotebookTypeOK
  <2> QED BY <1>0, <2>1, <2>2 DEF AnswersOK
<1>9. SessionOK'
  BY <1>0 DEF SessionOK, Skip, providerVars
<1>10. TitlesOK'
  BY <1>0 DEF TitlesOK, Skip, environment
<1> QED
  BY <1>1, <1>2, <1>3, <1>4, <1>5, <1>6, <1>7, <1>8, <1>9, <1>10 DEF NotebookInv, NotebookTypeOK

LEMMA RefuseKeeps ==
  ASSUME NotebookInv, Refuse
  PROVE  NotebookInv'
<1>0. PortTypeOK /\ NotebookTypeOK /\ CallOK /\ RequestsOK /\ AnswersOK /\ SessionOK /\ TitlesOK
  BY DEF NotebookInv
<1>1. PortTypeOK'
  BY <1>0 DEF PortTypeOK, Refuse, Answerless, environment
<1>2. call' \in Call
  BY IdleIsACall DEF Refuse
<1>3. (title \in [Source -> Hash])' /\ (ready \in BOOLEAN)'
      /\ (sources \in [Source -> Hash \cup {NoHash}])'
      /\ (server \in {"none", "up", "dead"})' /\ (checked \in BOOLEAN)'
  BY <1>0 DEF NotebookTypeOK, Refuse, providerVars, CloseClient
<1>4. inbox' \in SUBSET Request
  BY <1>0 DEF NotebookTypeOK, Refuse, CloseClient
<1>5. pipe' \in Seq(Message)
  BY <1>0, EmptyPipe, HeadOfPipe DEF NotebookTypeOK, Refuse, CloseClient
<1>6. CallOK'
  BY DEF CallOK, Refuse, Idle
<1>7. RequestsOK'
  BY <1>0 DEF RequestsOK, Refuse, CloseClient, Idle
<1>8. AnswersOK'
  BY DEF AnswersOK, Refuse, Idle
<1>9. SessionOK'
  BY <1>0, StepNames DEF SessionOK, Refuse, providerVars, Idle
<1>10. TitlesOK'
  BY <1>0 DEF TitlesOK, Refuse, environment
<1> QED
  BY <1>1, <1>2, <1>3, <1>4, <1>5, <1>6, <1>7, <1>8, <1>9, <1>10 DEF NotebookInv, NotebookTypeOK

LEMMA ReceivePreflightKeeps ==
  ASSUME NotebookInv, ReceivePreflight
  PROVE  NotebookInv'
<1>0. PortTypeOK /\ NotebookTypeOK /\ CallOK /\ RequestsOK /\ AnswersOK /\ SessionOK /\ TitlesOK
  BY DEF NotebookInv
<1>a. PICK s \in {"initialize", "tools/list", "server_health"} :
        /\ call.step = s
        /\ call' = [call EXCEPT !.step = NextStep(s), !.id = 0]
        /\ ready' = (ready \/ s = "server_health")
        /\ checked' = (checked \/ s = "server_health")
        /\ pipe # <<>> /\ pipe' = Tail(pipe)
  BY StepNames DEF ReceivePreflight, Receiving
<1>1. PortTypeOK'
  BY <1>0 DEF PortTypeOK, ReceivePreflight, Answerless, environment, Receiving
<1>2. call' \in Call
  BY <1>0, StepNames, <1>a, NextSteps DEF NotebookTypeOK, Call
<1>3. (title \in [Source -> Hash])' /\ (ready \in BOOLEAN)'
      /\ (sources \in [Source -> Hash \cup {NoHash}])'
      /\ (server \in {"none", "up", "dead"})' /\ (checked \in BOOLEAN)'
  BY <1>0 DEF NotebookTypeOK, ReceivePreflight, Receiving
<1>4. inbox' \in SUBSET Request
  BY <1>0 DEF NotebookTypeOK, ReceivePreflight, Receiving
<1>5. pipe' \in Seq(Message)
  BY <1>0 DEF NotebookTypeOK, ReceivePreflight, Receiving
<1>6. CallOK'
  BY <1>0, <1>a, NextSteps DEF CallOK
<1>7. RequestsOK'
  BY <1>0 DEF RequestsOK, ReceivePreflight, Receiving
<1>8. AnswersOK'
  BY <1>a DEF AnswersOK
<1>9. SessionOK'
  BY <1>0, CallFields, StepNames, <1>a, NextSteps DEF NotebookTypeOK, SessionOK,
     ReceivePreflight
<1>10. TitlesOK'
  BY <1>0 DEF TitlesOK, ReceivePreflight, environment, Receiving
<1> QED
  BY <1>1, <1>2, <1>3, <1>4, <1>5, <1>6, <1>7, <1>8, <1>9, <1>10 DEF NotebookInv, NotebookTypeOK

LEMMA ReceiveContentsKeeps ==
  ASSUME NotebookInv, ReceiveContents
  PROVE  NotebookInv'
<1>0. PortTypeOK /\ NotebookTypeOK /\ CallOK /\ RequestsOK /\ AnswersOK /\ SessionOK /\ TitlesOK
  BY DEF NotebookInv
<1>a. pipe # <<>> /\ call.step = "content_list" /\ call.id # 0
      /\ Head(pipe).id = call.id /\ Head(pipe).kind = "result"
  BY DEF ReceiveContents, Receiving, Accepted, Waiting
<1>b. <<call.of, Head(pipe).hash>> \in published
  BY <1>0, <1>a, HeadOfPipe DEF NotebookTypeOK, AnswersOK
<1>c. call.of \in Source /\ Head(pipe).hash \in Hash
  BY <1>0, <1>b DEF PortTypeOK
<1>1. PortTypeOK'
  BY <1>0, <1>c DEF PortTypeOK, ReceiveContents, environment, Describe, Receiving
<1>2. call' \in Call
  BY IdleIsACall DEF ReceiveContents
<1>3. (title \in [Source -> Hash])' /\ (ready \in BOOLEAN)'
      /\ (sources \in [Source -> Hash \cup {NoHash}])'
      /\ (server \in {"none", "up", "dead"})' /\ (checked \in BOOLEAN)'
  BY <1>0, <1>c DEF NotebookTypeOK, ReceiveContents, Receiving
<1>4. inbox' \in SUBSET Request
  BY <1>0 DEF NotebookTypeOK, ReceiveContents, Receiving
<1>5. pipe' \in Seq(Message)
  BY <1>0 DEF NotebookTypeOK, ReceiveContents, Receiving
<1>6. CallOK'
  BY DEF CallOK, ReceiveContents, Idle
<1>7. RequestsOK'
  BY <1>0 DEF RequestsOK, ReceiveContents, Receiving, Idle
<1>8. AnswersOK'
  BY DEF AnswersOK, ReceiveContents, Idle
<1>9. SessionOK'
  BY <1>0, StepNames DEF SessionOK, ReceiveContents, Receiving, Idle
<1>10. TitlesOK'
  BY <1>0 DEF TitlesOK, ReceiveContents, environment, Receiving
<1> QED
  BY <1>1, <1>2, <1>3, <1>4, <1>5, <1>6, <1>7, <1>8, <1>9, <1>10 DEF NotebookInv, NotebookTypeOK

LEMMA ReceiveAnswerKeeps ==
  ASSUME NotebookInv, ReceiveAnswer
  PROVE  NotebookInv'
<1>0. PortTypeOK /\ NotebookTypeOK /\ CallOK /\ RequestsOK /\ AnswersOK /\ SessionOK /\ TitlesOK
  BY DEF NotebookInv
<1>1. PortTypeOK'
  <2>1. /\ pipe # <<>> /\ call.id # 0 /\ Head(pipe).id = call.id /\ call.step = "notebook_ask"
        /\ delivered' = delivered \cup {<<Head(pipe).of, call.hash>>}
        /\ published' = published /\ described' = described
        /\ changes' = changes /\ faults' = faults
    BY DEF ReceiveAnswer, Receiving, Accepted, Waiting, Deliver, environment
  <2>2. Head(pipe).of = call.of
    BY <1>0, <2>1, HeadOfPipe DEF NotebookTypeOK, AnswersOK
  <2>3. <<call.of, call.hash>> \in described
    BY <1>0, <2>1 DEF CallOK
  <2> QED BY <1>0, <2>1, <2>2, <2>3 DEF PortTypeOK
<1>2. call' \in Call
  BY IdleIsACall DEF ReceiveAnswer
<1>3. (title \in [Source -> Hash])' /\ (ready \in BOOLEAN)'
      /\ (sources \in [Source -> Hash \cup {NoHash}])'
      /\ (server \in {"none", "up", "dead"})' /\ (checked \in BOOLEAN)'
  BY <1>0 DEF NotebookTypeOK, ReceiveAnswer, providerVars, Receiving
<1>4. inbox' \in SUBSET Request
  BY <1>0 DEF NotebookTypeOK, ReceiveAnswer, Receiving
<1>5. pipe' \in Seq(Message)
  BY <1>0 DEF NotebookTypeOK, ReceiveAnswer, Receiving
<1>6. CallOK'
  BY DEF CallOK, ReceiveAnswer, Idle
<1>7. RequestsOK'
  BY <1>0 DEF RequestsOK, ReceiveAnswer, Receiving, Idle
<1>8. AnswersOK'
  BY DEF AnswersOK, ReceiveAnswer, Idle
<1>9. SessionOK'
  BY <1>0, StepNames DEF SessionOK, ReceiveAnswer, providerVars, Receiving, Idle
<1>10. TitlesOK'
  BY <1>0 DEF TitlesOK, ReceiveAnswer, environment, Receiving
<1> QED
  BY <1>1, <1>2, <1>3, <1>4, <1>5, <1>6, <1>7, <1>8, <1>9, <1>10 DEF NotebookInv, NotebookTypeOK

LEMMA LoseServerKeeps ==
  ASSUME NotebookInv, LoseServer
  PROVE  NotebookInv'
<1>0. PortTypeOK /\ NotebookTypeOK /\ CallOK /\ RequestsOK /\ AnswersOK /\ SessionOK /\ TitlesOK
  BY DEF NotebookInv
<1>1. PortTypeOK'
  BY <1>0 DEF PortTypeOK, LoseServer, Answerless, environment
<1>2. call' \in Call
  BY IdleIsACall DEF LoseServer, Raise
<1>3. (title \in [Source -> Hash])' /\ (ready \in BOOLEAN)'
      /\ (sources \in [Source -> Hash \cup {NoHash}])'
      /\ (server \in {"none", "up", "dead"})' /\ (checked \in BOOLEAN)'
  BY <1>0 DEF NotebookTypeOK, LoseServer, providerVars, Raise, CloseClient
<1>4. inbox' \in SUBSET Request
  BY <1>0 DEF NotebookTypeOK, LoseServer, Raise, CloseClient
<1>5. pipe' \in Seq(Message)
  BY <1>0, EmptyPipe DEF NotebookTypeOK, LoseServer, Raise, CloseClient
<1>6. CallOK'
  BY DEF CallOK, LoseServer, Raise, Idle
<1>7. RequestsOK'
  BY <1>0 DEF RequestsOK, LoseServer, Raise, CloseClient, Idle
<1>8. AnswersOK'
  BY DEF AnswersOK, LoseServer, Raise, Idle
<1>9. SessionOK'
  BY <1>0, StepNames DEF SessionOK, LoseServer, providerVars, Raise, Idle
<1>10. TitlesOK'
  BY <1>0 DEF TitlesOK, LoseServer, environment
<1> QED
  BY <1>1, <1>2, <1>3, <1>4, <1>5, <1>6, <1>7, <1>8, <1>9, <1>10 DEF NotebookInv, NotebookTypeOK

LEMMA TimeOutKeeps ==
  ASSUME NotebookInv, TimeOut
  PROVE  NotebookInv'
<1>0. PortTypeOK /\ NotebookTypeOK /\ CallOK /\ RequestsOK /\ AnswersOK /\ SessionOK /\ TitlesOK
  BY DEF NotebookInv
<1>1. PortTypeOK'
  BY <1>0, PortAssumption DEF PortTypeOK, TimeOut, Answerless, environment, Fault
<1>2. call' \in Call
  BY IdleIsACall DEF TimeOut, Raise
<1>3. (title \in [Source -> Hash])' /\ (ready \in BOOLEAN)'
      /\ (sources \in [Source -> Hash \cup {NoHash}])'
      /\ (server \in {"none", "up", "dead"})' /\ (checked \in BOOLEAN)'
  BY <1>0 DEF NotebookTypeOK, TimeOut, providerVars, Raise, CloseClient
<1>4. inbox' \in SUBSET Request
  BY <1>0 DEF NotebookTypeOK, TimeOut, Raise, CloseClient
<1>5. pipe' \in Seq(Message)
  BY <1>0, EmptyPipe DEF NotebookTypeOK, TimeOut, Raise, CloseClient
<1>6. CallOK'
  BY DEF CallOK, TimeOut, Raise, Idle
<1>7. RequestsOK'
  BY <1>0 DEF RequestsOK, TimeOut, Raise, CloseClient, Idle
<1>8. AnswersOK'
  BY DEF AnswersOK, TimeOut, Raise, Idle
<1>9. SessionOK'
  BY <1>0, StepNames DEF SessionOK, TimeOut, providerVars, Raise, Idle
<1>10. TitlesOK'
  BY <1>0 DEF TitlesOK, TimeOut, environment
<1> QED
  BY <1>1, <1>2, <1>3, <1>4, <1>5, <1>6, <1>7, <1>8, <1>9, <1>10 DEF NotebookInv, NotebookTypeOK

LEMMA ServerAnswersKeeps ==
  ASSUME NotebookInv, ServerAnswers
  PROVE  NotebookInv'
<1>0. PortTypeOK /\ NotebookTypeOK /\ CallOK /\ RequestsOK /\ AnswersOK /\ SessionOK /\ TitlesOK
  BY DEF NotebookInv
<1>a. PICK r \in inbox : inbox' = inbox \ {r} /\ pipe' = Append(pipe, Reply(r, "result"))
  BY DEF ServerAnswers
<1>b. r.of \in Source
  BY <1>0 DEF RequestsOK
<1>c. /\ Reply(r, "result") \in Message
      /\ Reply(r, "result").id = r.id /\ Reply(r, "result").of = r.of
      /\ Reply(r, "result").step = r.step
      /\ r.step = "content_list" => Reply(r, "result").hash = title[r.of]
  BY <1>0, <1>b, ReplyIsAMessage
<1>d. /\ pipe' \in Seq(Message)
      /\ \A k \in DOMAIN pipe' :
           (k \in DOMAIN pipe /\ pipe'[k] = pipe[k]) \/ pipe'[k] = Reply(r, "result")
  BY <1>0, <1>a, <1>c DEF NotebookTypeOK
<1>e. call.id # 0 /\ r.id = call.id => r.of = call.of /\ r.step = call.step
  BY <1>0 DEF RequestsOK
<1>f. <<r.of, title[r.of]>> \in published
  BY <1>0, <1>b DEF TitlesOK
<1>1. PortTypeOK'
  BY <1>0 DEF PortTypeOK, ServerAnswers, Answerless, environment
<1>2. call' \in Call
  BY <1>0 DEF NotebookTypeOK, ServerAnswers
<1>3. (title \in [Source -> Hash])' /\ (ready \in BOOLEAN)'
      /\ (sources \in [Source -> Hash \cup {NoHash}])'
      /\ (server \in {"none", "up", "dead"})' /\ (checked \in BOOLEAN)'
  BY <1>0 DEF NotebookTypeOK, ServerAnswers, providerVars
<1>4. inbox' \in SUBSET Request
  BY <1>0 DEF NotebookTypeOK, ServerAnswers
<1>5. pipe' \in Seq(Message)
  BY <1>d
<1>6. CallOK'
  BY <1>0 DEF CallOK, ServerAnswers, Answerless
<1>7. RequestsOK'
  BY <1>0 DEF RequestsOK, ServerAnswers
<1>8. AnswersOK'
  BY <1>0, <1>c, <1>d, <1>e, <1>f DEF AnswersOK, ServerAnswers, environment
<1>9. SessionOK'
  BY <1>0 DEF SessionOK, ServerAnswers, providerVars
<1>10. TitlesOK'
  BY <1>0 DEF TitlesOK, ServerAnswers, environment
<1> QED
  BY <1>1, <1>2, <1>3, <1>4, <1>5, <1>6, <1>7, <1>8, <1>9, <1>10 DEF NotebookInv, NotebookTypeOK

LEMMA ServerMisbehavesKeeps ==
  ASSUME NotebookInv, ServerMisbehaves
  PROVE  NotebookInv'
<1>0. PortTypeOK /\ NotebookTypeOK /\ CallOK /\ RequestsOK /\ AnswersOK /\ SessionOK /\ TitlesOK
  BY DEF NotebookInv
<1>a. PICK m \in Message :
        /\ pipe' = Append(pipe, m) /\ m.kind # "result"
        /\ call.id # 0 /\ m.id = call.id => m.of = call.of /\ m.step = call.step
  <2>1. CASE pipe' = Append(pipe, Notification)
    BY <2>1, NotificationIsAMessage DEF Notification
  <2>2. CASE \E r \in inbox : pipe' = Append(pipe, Reply(r, "bad"))
    <3>1. PICK r \in inbox : pipe' = Append(pipe, Reply(r, "bad"))
      BY <2>2
    <3>2. /\ r.of \in Source
          /\ call.id # 0 /\ r.id = call.id => r.of = call.of /\ r.step = call.step
      BY <1>0 DEF RequestsOK
    <3>3. /\ Reply(r, "bad") \in Message
          /\ Reply(r, "bad").id = r.id /\ Reply(r, "bad").of = r.of
          /\ Reply(r, "bad").step = r.step
      BY <1>0, <3>2, ReplyIsAMessage
    <3>4. Reply(r, "bad").kind = "bad"
      BY DEF Reply
    <3> QED BY <3>1, <3>2, <3>3, <3>4
  <2> QED BY <2>1, <2>2 DEF ServerMisbehaves
<1>b. /\ pipe' \in Seq(Message)
      /\ \A k \in DOMAIN pipe' : (k \in DOMAIN pipe /\ pipe'[k] = pipe[k]) \/ pipe'[k] = m
  BY <1>0, <1>a DEF NotebookTypeOK
<1>1. PortTypeOK'
  BY <1>0, PortAssumption DEF PortTypeOK, ServerMisbehaves, Answerless, environment, Fault
<1>2. call' \in Call
  BY <1>0 DEF NotebookTypeOK, ServerMisbehaves
<1>3. (title \in [Source -> Hash])' /\ (ready \in BOOLEAN)'
      /\ (sources \in [Source -> Hash \cup {NoHash}])'
      /\ (server \in {"none", "up", "dead"})' /\ (checked \in BOOLEAN)'
  BY <1>0 DEF NotebookTypeOK, ServerMisbehaves, providerVars
<1>4. inbox' \in SUBSET Request
  BY <1>0 DEF NotebookTypeOK, ServerMisbehaves
<1>5. pipe' \in Seq(Message)
  BY <1>b
<1>6. CallOK'
  BY <1>0 DEF CallOK, ServerMisbehaves, Answerless
<1>7. RequestsOK'
  BY <1>0 DEF RequestsOK, ServerMisbehaves
<1>8. AnswersOK'
  BY <1>0, <1>a DEF AnswersOK, ServerMisbehaves, environment
<1>9. SessionOK'
  BY <1>0 DEF SessionOK, ServerMisbehaves, providerVars
<1>10. TitlesOK'
  BY <1>0 DEF TitlesOK, ServerMisbehaves, environment
<1> QED
  BY <1>1, <1>2, <1>3, <1>4, <1>5, <1>6, <1>7, <1>8, <1>9, <1>10 DEF NotebookInv, NotebookTypeOK

LEMMA ServerDiesKeeps ==
  ASSUME NotebookInv, ServerDies
  PROVE  NotebookInv'
<1>0. PortTypeOK /\ NotebookTypeOK /\ CallOK /\ RequestsOK /\ AnswersOK /\ SessionOK /\ TitlesOK
  BY DEF NotebookInv
<1>1. PortTypeOK'
  BY <1>0, PortAssumption DEF PortTypeOK, ServerDies, Answerless, environment, Fault
<1>2. call' \in Call
  BY <1>0 DEF NotebookTypeOK, ServerDies
<1>3. (title \in [Source -> Hash])' /\ (ready \in BOOLEAN)'
      /\ (sources \in [Source -> Hash \cup {NoHash}])'
      /\ (server \in {"none", "up", "dead"})' /\ (checked \in BOOLEAN)'
  BY <1>0 DEF NotebookTypeOK, ServerDies, providerVars
<1>4. inbox' \in SUBSET Request
  BY <1>0 DEF NotebookTypeOK, ServerDies
<1>5. pipe' \in Seq(Message)
  BY <1>0 DEF NotebookTypeOK, ServerDies
<1>6. CallOK'
  BY <1>0 DEF CallOK, ServerDies, Answerless
<1>7. RequestsOK'
  BY <1>0 DEF RequestsOK, ServerDies
<1>8. AnswersOK'
  BY <1>0 DEF AnswersOK, ServerDies, environment
<1>9. SessionOK'
  BY <1>0 DEF SessionOK, ServerDies, providerVars
<1>10. TitlesOK'
  BY <1>0 DEF TitlesOK, ServerDies, environment
<1> QED
  BY <1>1, <1>2, <1>3, <1>4, <1>5, <1>6, <1>7, <1>8, <1>9, <1>10 DEF NotebookInv, NotebookTypeOK

LEMMA CancelCallKeeps ==
  ASSUME NotebookInv, CancelCall
  PROVE  NotebookInv'
<1>0. PortTypeOK /\ NotebookTypeOK /\ CallOK /\ RequestsOK /\ AnswersOK /\ SessionOK /\ TitlesOK
  BY DEF NotebookInv
<1>1. PortTypeOK'
  BY <1>0, PortAssumption DEF PortTypeOK, CancelCall, Answerless, environment, Fault
<1>2. call' \in Call
  BY IdleIsACall DEF CancelCall
<1>3. (title \in [Source -> Hash])' /\ (ready \in BOOLEAN)'
      /\ (sources \in [Source -> Hash \cup {NoHash}])'
      /\ (server \in {"none", "up", "dead"})' /\ (checked \in BOOLEAN)'
  BY <1>0 DEF NotebookTypeOK, CancelCall, providerVars, clientVars
<1>4. inbox' \in SUBSET Request
  BY <1>0 DEF NotebookTypeOK, CancelCall, clientVars
<1>5. pipe' \in Seq(Message)
  BY <1>0 DEF NotebookTypeOK, CancelCall, clientVars
<1>6. CallOK'
  BY DEF CallOK, CancelCall, Idle
<1>7. RequestsOK'
  BY <1>0 DEF RequestsOK, CancelCall, clientVars, Idle
<1>8. AnswersOK'
  BY DEF AnswersOK, CancelCall, Idle
<1>9. SessionOK'
  BY <1>0, StepNames DEF SessionOK, CancelCall, providerVars, clientVars, Idle
<1>10. TitlesOK'
  BY <1>0 DEF TitlesOK, CancelCall, environment
<1> QED
  BY <1>1, <1>2, <1>3, <1>4, <1>5, <1>6, <1>7, <1>8, <1>9, <1>10 DEF NotebookInv, NotebookTypeOK

LEMMA CloseProviderKeeps ==
  ASSUME NotebookInv, CloseProvider
  PROVE  NotebookInv'
<1>0. PortTypeOK /\ NotebookTypeOK /\ CallOK /\ RequestsOK /\ AnswersOK /\ SessionOK /\ TitlesOK
  BY DEF NotebookInv
<1>1. PortTypeOK'
  BY <1>0, PortAssumption DEF PortTypeOK, CloseProvider, Answerless, environment, Fault
<1>2. call' \in Call
  BY <1>0 DEF NotebookTypeOK, CloseProvider
<1>3. (title \in [Source -> Hash])' /\ (ready \in BOOLEAN)'
      /\ (sources \in [Source -> Hash \cup {NoHash}])'
      /\ (server \in {"none", "up", "dead"})' /\ (checked \in BOOLEAN)'
  BY <1>0 DEF NotebookTypeOK, CloseProvider, CloseClient, Forgotten
<1>4. inbox' \in SUBSET Request
  BY DEF CloseProvider, CloseClient
<1>5. pipe' \in Seq(Message)
  BY DEF CloseProvider, CloseClient
<1>6. CallOK'
  BY <1>0 DEF CallOK, CloseProvider
<1>7. RequestsOK'
  BY DEF RequestsOK, CloseProvider, CloseClient
<1>8. AnswersOK'
  BY <1>0, StepNames DEF CallOK, AnswersOK, CloseProvider
<1>9. SessionOK'
  BY StepNames DEF SessionOK, CloseProvider, Forgotten
<1>10. TitlesOK'
  BY <1>0 DEF TitlesOK, CloseProvider, environment
<1> QED
  BY <1>1, <1>2, <1>3, <1>4, <1>5, <1>6, <1>7, <1>8, <1>9, <1>10 DEF NotebookInv, NotebookTypeOK

LEMMA RestartProcessKeeps ==
  ASSUME NotebookInv, RestartProcess
  PROVE  NotebookInv'
<1>0. PortTypeOK /\ NotebookTypeOK /\ CallOK /\ RequestsOK /\ AnswersOK /\ SessionOK /\ TitlesOK
  BY DEF NotebookInv
<1>1. PortTypeOK'
  BY <1>0, PortAssumption DEF PortTypeOK, RestartProcess, Answerless, environment, Fault
<1>2. call' \in Call
  BY IdleIsACall DEF RestartProcess
<1>3. (title \in [Source -> Hash])' /\ (ready \in BOOLEAN)'
      /\ (sources \in [Source -> Hash \cup {NoHash}])'
      /\ (server \in {"none", "up", "dead"})' /\ (checked \in BOOLEAN)'
  BY <1>0 DEF NotebookTypeOK, RestartProcess, CloseClient, Forgotten
<1>4. inbox' \in SUBSET Request
  BY DEF RestartProcess, CloseClient
<1>5. pipe' \in Seq(Message)
  BY DEF RestartProcess, CloseClient
<1>6. CallOK'
  BY DEF CallOK, RestartProcess, Idle
<1>7. RequestsOK'
  BY DEF RequestsOK, RestartProcess, CloseClient
<1>8. AnswersOK'
  BY DEF AnswersOK, RestartProcess, CloseClient
<1>9. SessionOK'
  BY StepNames DEF SessionOK, RestartProcess, Forgotten, Idle
<1>10. TitlesOK'
  BY <1>0 DEF TitlesOK, RestartProcess, environment
<1> QED
  BY <1>1, <1>2, <1>3, <1>4, <1>5, <1>6, <1>7, <1>8, <1>9, <1>10 DEF NotebookInv, NotebookTypeOK

LEMMA NotebookKeeps ==
  ASSUME NotebookInv, NotebookNext
  PROVE  NotebookInv'
<1>1. CASE \E n \in Source : InspectNotebook(n)
  BY <1>1, InspectNotebookKeeps
<1>2. CASE \E n \in Source, h \in Hash : AcquireNotebook(n, h)
  BY <1>2, AcquireNotebookKeeps
<1>3. CASE \E n \in Source, h \in Hash : Retitle(n, h)
  BY <1>3, RetitleKeeps
<1>4. CASE StartServer \/ NotifyInitialized \/ Send \/ Skip \/ Refuse
           \/ ReceivePreflight \/ ReceiveContents \/ ReceiveAnswer \/ LoseServer
  BY <1>4, StartServerKeeps, NotifyInitializedKeeps, SendKeeps, SkipKeeps, RefuseKeeps,
     ReceivePreflightKeeps, ReceiveContentsKeeps, ReceiveAnswerKeeps, LoseServerKeeps
<1>5. CASE StartFails \/ SendFails \/ TimeOut \/ ServerAnswers \/ ServerMisbehaves
           \/ ServerDies \/ CancelCall \/ CloseProvider \/ RestartProcess
  BY <1>5, StartFailsKeeps, SendFailsKeeps, TimeOutKeeps, ServerAnswersKeeps,
     ServerMisbehavesKeeps, ServerDiesKeeps, CancelCallKeeps, CloseProviderKeeps,
     RestartProcessKeeps
<1> QED BY <1>1, <1>2, <1>3, <1>4, <1>5 DEF NotebookNext, NotebookProgress

-----------------------------------------------------------------------------
(* Every step of the notebook provider is one the contract allows.          *)

LEMMA RetitlePublishes ==
  ASSUME NotebookInv, NEW n \in Source, NEW h \in Hash, Retitle(n, h)
  PROVE  Contract!Publish
<1>1. <<n, h>> \in Source \X Hash /\ published' = published \cup {<<n, h>>}
      /\ UNCHANGED <<described, delivered>>
  BY DEF Retitle, Publish, Answerless
<1> QED BY <1>1 DEF Contract!Publish

LEMMA ContentsAreDescribed ==
  ASSUME NotebookInv, ReceiveContents
  PROVE  Contract!Describe
<1>1. pipe \in Seq(Message) /\ AnswersOK
  BY DEF NotebookInv, NotebookTypeOK
<1>2. pipe # <<>> /\ call.step = "content_list" /\ call.id # 0
      /\ Head(pipe).id = call.id /\ Head(pipe).kind = "result"
  BY DEF ReceiveContents, Receiving, Accepted, Waiting
<1>3. <<call.of, Head(pipe).hash>> \in published
  BY <1>1, <1>2, HeadOfPipe DEF AnswersOK
<1>4. described' = described \cup {<<call.of, Head(pipe).hash>>}
      /\ UNCHANGED <<published, delivered>>
  BY DEF ReceiveContents, Receiving, Describe, environment
<1> QED BY <1>3, <1>4 DEF Contract!Describe

LEMMA AnswersAreDelivered ==
  ASSUME NotebookInv, ReceiveAnswer
  PROVE  Contract!Deliver
<1>1. pipe \in Seq(Message) /\ AnswersOK /\ CallOK
  BY DEF NotebookInv, NotebookTypeOK
<1>2. pipe # <<>> /\ call.step = "notebook_ask" /\ call.id # 0 /\ Head(pipe).id = call.id
  BY DEF ReceiveAnswer, Receiving, Accepted, Waiting
<1>3. Head(pipe).of = call.of /\ <<call.of, call.hash>> \in described
  BY <1>1, <1>2 DEF AnswersOK, CallOK
<1>4. delivered' = delivered \cup {<<Head(pipe).of, call.hash>>}
      /\ UNCHANGED <<published, described>>
  BY DEF ReceiveAnswer, Receiving, Deliver, environment
<1> QED BY <1>3, <1>4 DEF Contract!Deliver

LEMMA NotebookPromises ==
  ASSUME NotebookInv, NotebookNext
  PROVE  ContractStep
<1> DEFINE Same == UNCHANGED <<published, described, delivered>>
<1>1. CASE \E n \in Source : InspectNotebook(n)
  BY <1>1 DEF ContractStep, InspectNotebook, Answerless, environment
<1>2. CASE \E n \in Source, h \in Hash : AcquireNotebook(n, h)
  BY <1>2 DEF ContractStep, AcquireNotebook, Answerless, environment
<1>3. CASE \E n \in Source, h \in Hash : Retitle(n, h)
  BY <1>3, RetitlePublishes DEF ContractStep, Contract!Next
<1>4. CASE ReceiveContents
  BY <1>4, ContentsAreDescribed DEF ContractStep, Contract!Next
<1>5. CASE ReceiveAnswer
  BY <1>5, AnswersAreDelivered DEF ContractStep, Contract!Next
<1>6. CASE StartServer \/ NotifyInitialized \/ Send \/ Skip \/ Refuse \/ LoseServer
  <2>1. Same
    BY <1>6 DEF StartServer, NotifyInitialized, Send, Skip, Refuse, LoseServer, Answerless,
       environment
  <2> QED BY <2>1 DEF ContractStep
<1>7. CASE ReceivePreflight
  <2>1. Same
    BY <1>7 DEF ReceivePreflight, Receiving, Answerless, environment
  <2> QED BY <2>1 DEF ContractStep
<1>8. CASE StartFails \/ SendFails \/ TimeOut \/ ServerAnswers \/ ServerMisbehaves
           \/ ServerDies \/ CancelCall \/ CloseProvider \/ RestartProcess
  <2>1. Same
    BY <1>8 DEF StartFails, SendFails, TimeOut, ServerAnswers, ServerMisbehaves, ServerDies,
       CancelCall, CloseProvider, RestartProcess, Answerless, environment
  <2> QED BY <2>1 DEF ContractStep
<1> QED BY <1>1, <1>2, <1>3, <1>4, <1>5, <1>6, <1>7, <1>8 DEF NotebookNext, NotebookProgress

-----------------------------------------------------------------------------
(* The inductive invariant of the web provider.                            *)

(* acquire fetches only what was described, and a page is published.        *)
FetchOK ==
  fetch # NoFetch /\ fetch.op = "acquire" => <<fetch.source, fetch.hash>> \in described
PagesOK == \A u \in Source : \A h \in Hash : pages[u] = Article(h) => <<u, h>> \in published

WebInv == PortTypeOK /\ WebTypeOK /\ DocumentsDescribed /\ FetchOK /\ PagesOK

LEMMA FetchFields ==
  ASSUME WebTypeOK, fetch # NoFetch
  PROVE  /\ fetch.op \in {"inspect", "acquire"}
         /\ fetch.url \in Source /\ fetch.source \in Source
         /\ fetch.redirects \in 0 .. MaxRedirects
         /\ fetch.hash \in Hash \cup {NoDocument}
         /\ fetch \in Loading
  BY DEF WebTypeOK, Loading

LEMMA Kinds ==
  /\ \A h, g : Article(h) = Article(g) => h = g
  /\ \A u, v : Redirect(u) = Redirect(v) => u = v
  /\ \A u, h : Redirect(u) # Article(h)
  /\ \A h : Broken # Article(h)
  BY DEF Article, Redirect, Broken

LEMMA InspectPageKeeps ==
  ASSUME WebInv, NEW u \in Source, InspectPage(u)
  PROVE  WebInv'
<1>0. PortTypeOK /\ WebTypeOK /\ DocumentsDescribed /\ FetchOK /\ PagesOK
  BY DEF WebInv
<1>1. PortTypeOK'
  BY <1>0 DEF PortTypeOK, InspectPage, Answerless, environment
<1>2. WebTypeOK'
  BY <1>0, WebAssumption DEF WebTypeOK, Loading, InspectPage, Load
<1>3. DocumentsDescribed'
  BY <1>0 DEF DocumentsDescribed, InspectPage, Answerless
<1>4. FetchOK'
  BY DEF FetchOK, InspectPage, Load
<1>5. PagesOK'
  BY <1>0 DEF PagesOK, InspectPage, environment
<1> QED BY <1>1, <1>2, <1>3, <1>4, <1>5 DEF WebInv

LEMMA AcquirePageKeeps ==
  ASSUME WebInv, NEW u \in Source, NEW h \in Hash, AcquirePage(u, h)
  PROVE  WebInv'
<1>0. PortTypeOK /\ WebTypeOK /\ DocumentsDescribed /\ FetchOK /\ PagesOK
  BY DEF WebInv
<1>1. PortTypeOK'
  BY <1>0 DEF PortTypeOK, WebTypeOK, AcquirePage, Answerless, environment, Deliver
<1>2. WebTypeOK'
  BY <1>0, WebAssumption DEF WebTypeOK, Loading, AcquirePage, Load
<1>3. DocumentsDescribed'
  BY <1>0 DEF DocumentsDescribed, AcquirePage, Answerless, Deliver
<1>4. FetchOK'
  BY DEF FetchOK, AcquirePage, Answerless, Load
<1>5. PagesOK'
  BY <1>0 DEF PagesOK, AcquirePage, environment
<1> QED BY <1>1, <1>2, <1>3, <1>4, <1>5 DEF WebInv

LEMMA FollowRedirectKeeps ==
  ASSUME WebInv, FollowRedirect
  PROVE  WebInv'
<1>0. PortTypeOK /\ WebTypeOK /\ DocumentsDescribed /\ FetchOK /\ PagesOK
  BY DEF WebInv
<1>a. PICK u \in Source :
        /\ fetch # NoFetch
        /\ fetch' = IF fetch.redirects < MaxRedirects
                    THEN [fetch EXCEPT !.url = u, !.redirects = @ + 1] ELSE NoFetch
        /\ Answerless
        /\ UNCHANGED <<pages, documents, environment, faults>>
  BY DEF FollowRedirect
<1>b. /\ fetch \in Loading /\ fetch.redirects \in 0 .. MaxRedirects
  BY <1>0, <1>a, FetchFields
<1>d. ASSUME fetch.redirects < MaxRedirects
      PROVE  fetch' \in Loading /\ fetch'.op = fetch.op /\ fetch'.source = fetch.source
             /\ fetch'.hash = fetch.hash
  <2>1. fetch.redirects + 1 \in 0 .. MaxRedirects
    BY <1>b, <1>d, WebAssumption
  <2>2. fetch' = [fetch EXCEPT !.url = u, !.redirects = fetch.redirects + 1]
    BY <1>a, <1>d
  <2>3. fetch' \in Loading /\ fetch'.op = fetch.op /\ fetch'.source = fetch.source
        /\ fetch'.hash = fetch.hash
    BY <1>b, <2>1, <2>2 DEF Loading
  <2> QED BY <2>3
<1>e. ASSUME ~ (fetch.redirects < MaxRedirects) PROVE fetch' = NoFetch
  BY <1>a, <1>e
<1>c. fetch' \in Loading \cup {NoFetch}
      /\ (fetch' # NoFetch => fetch'.op = fetch.op /\ fetch'.source = fetch.source
                             /\ fetch'.hash = fetch.hash)
  BY <1>d, <1>e
<1>1. PortTypeOK'
  BY <1>0, <1>a DEF PortTypeOK, Answerless, environment
<1>2. WebTypeOK'
  BY <1>0, <1>a, <1>c DEF WebTypeOK
<1>3. DocumentsDescribed'
  BY <1>0, <1>a DEF DocumentsDescribed, Answerless
<1>4. FetchOK'
  BY <1>0, <1>a DEF FetchOK, Answerless
<1>5. PagesOK'
  BY <1>0, <1>a DEF PagesOK, environment
<1> QED BY <1>1, <1>2, <1>3, <1>4, <1>5 DEF WebInv

LEMMA FetchRaisesKeeps ==
  ASSUME WebInv, FetchRaises
  PROVE  WebInv'
<1>0. PortTypeOK /\ WebTypeOK /\ DocumentsDescribed /\ FetchOK /\ PagesOK
  BY DEF WebInv
<1>1. PortTypeOK'
  BY <1>0 DEF PortTypeOK, FetchRaises, Answerless, environment
<1>2. WebTypeOK'
  BY <1>0 DEF WebTypeOK, FetchRaises
<1>3. DocumentsDescribed'
  BY <1>0 DEF DocumentsDescribed, FetchRaises, Answerless
<1>4. FetchOK'
  BY DEF FetchOK, FetchRaises
<1>5. PagesOK'
  BY <1>0 DEF PagesOK, FetchRaises, environment
<1> QED BY <1>1, <1>2, <1>3, <1>4, <1>5 DEF WebInv

LEMMA FetchArticleKeeps ==
  ASSUME WebInv, FetchArticle
  PROVE  WebInv'
<1>0. PortTypeOK /\ WebTypeOK /\ DocumentsDescribed /\ FetchOK /\ PagesOK
  BY DEF WebInv
<1>a. PICK h \in Hash :
        /\ fetch # NoFetch /\ pages[fetch.url] = Article(h)
        /\ \/ documents' = [documents EXCEPT ![fetch.url] = h] /\ Describe(fetch.url, h)
           \/ /\ IF Fits(h, fetch.hash) THEN Deliver(fetch.source, h) ELSE Answerless
              /\ UNCHANGED documents
        /\ fetch' = NoFetch
        /\ UNCHANGED <<pages, environment, faults>>
  BY DEF FetchArticle
<1>b. fetch.url \in Source /\ fetch.source \in Source
  BY <1>0, <1>a, FetchFields
<1>1. PortTypeOK'
  BY <1>0, <1>a, <1>b DEF PortTypeOK, Answerless, environment, Describe, Deliver
<1>2. WebTypeOK'
  BY <1>0, <1>a DEF WebTypeOK
<1>3. DocumentsDescribed'
  BY <1>0, <1>a DEF DocumentsDescribed, WebTypeOK, Answerless, Describe, Deliver
<1>4. FetchOK'
  BY <1>a DEF FetchOK
<1>5. PagesOK'
  BY <1>0, <1>a DEF PagesOK, environment
<1> QED BY <1>1, <1>2, <1>3, <1>4, <1>5 DEF WebInv

LEMMA ChangePageKeeps ==
  ASSUME WebInv, NEW u \in Source, NEW page \in Page, ChangePage(u, page)
  PROVE  WebInv'
<1>0. PortTypeOK /\ WebTypeOK /\ DocumentsDescribed /\ FetchOK /\ PagesOK
  BY DEF WebInv
<1>1. PortTypeOK'
  BY <1>0, PortAssumption DEF PortTypeOK, ChangePage, Answerless, Change, Publish
<1>2. WebTypeOK'
  BY <1>0 DEF WebTypeOK, ChangePage
<1>3. DocumentsDescribed'
  BY <1>0 DEF DocumentsDescribed, ChangePage, Answerless
<1>4. FetchOK'
  BY <1>0 DEF FetchOK, ChangePage, Answerless
<1>5. PagesOK'
  BY <1>0, Kinds DEF PagesOK, ChangePage, Publish
<1> QED BY <1>1, <1>2, <1>3, <1>4, <1>5 DEF WebInv

LEMMA FetchInterruptedKeeps ==
  ASSUME WebInv, FetchInterrupted
  PROVE  WebInv'
<1>0. PortTypeOK /\ WebTypeOK /\ DocumentsDescribed /\ FetchOK /\ PagesOK
  BY DEF WebInv
<1>1. PortTypeOK'
  BY <1>0, PortAssumption DEF PortTypeOK, FetchInterrupted, Answerless, environment, Fault
<1>2. WebTypeOK'
  BY <1>0 DEF WebTypeOK, FetchInterrupted
<1>3. DocumentsDescribed'
  BY <1>0 DEF DocumentsDescribed, FetchInterrupted, Answerless
<1>4. FetchOK'
  BY DEF FetchOK, FetchInterrupted
<1>5. PagesOK'
  BY <1>0 DEF PagesOK, FetchInterrupted, environment
<1> QED BY <1>1, <1>2, <1>3, <1>4, <1>5 DEF WebInv

LEMMA RestartWorkerKeeps ==
  ASSUME WebInv, RestartWorker
  PROVE  WebInv'
<1>0. PortTypeOK /\ WebTypeOK /\ DocumentsDescribed /\ FetchOK /\ PagesOK
  BY DEF WebInv
<1>1. PortTypeOK'
  BY <1>0, PortAssumption DEF PortTypeOK, RestartWorker, Answerless, environment, Fault
<1>2. WebTypeOK'
  BY <1>0 DEF WebTypeOK, RestartWorker
<1>3. DocumentsDescribed'
  BY DEF DocumentsDescribed, RestartWorker
<1>4. FetchOK'
  BY DEF FetchOK, RestartWorker
<1>5. PagesOK'
  BY <1>0 DEF PagesOK, RestartWorker, environment
<1> QED BY <1>1, <1>2, <1>3, <1>4, <1>5 DEF WebInv

LEMMA WebKeeps ==
  ASSUME WebInv, WebNext
  PROVE  WebInv'
  BY InspectPageKeeps, AcquirePageKeeps, FollowRedirectKeeps, FetchRaisesKeeps,
     FetchArticleKeeps, ChangePageKeeps, FetchInterruptedKeeps, RestartWorkerKeeps DEF WebNext,
     FetchStep

-----------------------------------------------------------------------------
(* Every step of the web provider is one the contract allows.               *)

LEMMA AcquirePageDelivers ==
  ASSUME WebInv, NEW u \in Source, NEW h \in Hash, AcquirePage(u, h)
  PROVE  ContractStep
<1>1. CASE Answerless
  BY <1>1 DEF ContractStep, AcquirePage, Answerless, environment
<1>2. CASE documents[u] = h /\ Deliver(u, documents[u])
  <2>1. <<u, h>> \in described /\ delivered' = delivered \cup {<<u, h>>}
        /\ UNCHANGED <<published, described>>
    BY <1>2 DEF AcquirePage, Deliver, environment
  <2> QED BY <2>1 DEF ContractStep, Contract!Next, Contract!Deliver
<1> QED BY <1>1, <1>2 DEF AcquirePage, Fits

LEMMA ArticlesAreDescribedOrDelivered ==
  ASSUME WebInv, FetchArticle
  PROVE  ContractStep
<1>1. PICK h \in Hash :
        /\ fetch # NoFetch /\ pages[fetch.url] = Article(h)
        /\ \/ Describe(fetch.url, h)
           \/ /\ fetch.op = "acquire"
              /\ IF Fits(h, fetch.hash) THEN Deliver(fetch.source, h) ELSE Answerless
        /\ UNCHANGED published
  BY DEF FetchArticle, environment
<1>2. fetch.url \in Source /\ <<fetch.url, h>> \in published
  BY <1>1, FetchFields DEF WebInv, PagesOK
<1>3. CASE Describe(fetch.url, h)
  <2>1. described' = described \cup {<<fetch.url, h>>} /\ UNCHANGED <<published, delivered>>
    BY <1>1, <1>3 DEF Describe
  <2> QED BY <1>2, <2>1 DEF ContractStep, Contract!Next, Contract!Describe
<1>4. CASE Answerless
  BY <1>1, <1>4 DEF ContractStep, Answerless
<1>5. CASE fetch.op = "acquire" /\ h = fetch.hash /\ Deliver(fetch.source, h)
  <2>1. <<fetch.source, h>> \in described
    BY <1>1, <1>5 DEF WebInv, FetchOK
  <2>2. delivered' = delivered \cup {<<fetch.source, h>>} /\ UNCHANGED <<published, described>>
    BY <1>1, <1>5 DEF Deliver
  <2> QED BY <2>1, <2>2 DEF ContractStep, Contract!Next, Contract!Deliver
<1> QED BY <1>1, <1>3, <1>4, <1>5 DEF Fits

LEMMA PagesArePublished ==
  ASSUME WebInv, NEW u \in Source, NEW page \in Page, ChangePage(u, page)
  PROVE  ContractStep
<1>1. UNCHANGED <<described, delivered>>
  BY DEF ChangePage, Answerless
<1>2. CASE UNCHANGED published
  BY <1>1, <1>2 DEF ContractStep
<1>3. CASE \E h \in Hash : Publish(u, h)
  BY <1>1, <1>3 DEF ContractStep, Contract!Next, Contract!Publish, Publish
<1> QED BY <1>2, <1>3 DEF ChangePage

LEMMA WebPromises ==
  ASSUME WebInv, WebNext
  PROVE  ContractStep
<1>1. CASE (\E u \in Source : InspectPage(u)) \/ FollowRedirect \/ FetchRaises
           \/ FetchInterrupted \/ RestartWorker
  BY <1>1 DEF ContractStep, InspectPage, FollowRedirect, FetchRaises, FetchInterrupted,
     RestartWorker, Answerless, environment
<1>2. CASE FetchArticle
  BY <1>2, ArticlesAreDescribedOrDelivered
<1>3. CASE \E u \in Source, h \in Hash : AcquirePage(u, h)
  BY <1>3, AcquirePageDelivers
<1>4. CASE \E u \in Source, page \in Page : ChangePage(u, page)
  BY <1>4, PagesArePublished
<1> QED BY <1>1, <1>2, <1>3, <1>4 DEF WebNext, FetchStep

-----------------------------------------------------------------------------
(* The deployment: one of the two works, the other is as it was.            *)

Inv ==
  /\ TypeOK
  /\ kind = "notebook" => NotebookInv
  /\ kind = "web" => WebInv /\ call = Idle /\ pipe = <<>>

LEMMA NotebookStarts ==
  ASSUME PortInit, NotebookInit
  PROVE  NotebookInv
<1>1. PortTypeOK
  BY PortAssumption DEF PortInit, NotebookInit, PortTypeOK
<1>2. NotebookTypeOK
  BY EmptyPipe, IdleIsACall DEF NotebookInit, NotebookTypeOK, Forgotten
<1>3. CallOK /\ RequestsOK /\ SessionOK
  BY StepNames DEF NotebookInit, CallOK, RequestsOK, SessionOK, Idle, Forgotten
<1>4. AnswersOK
  BY DEF NotebookInit, AnswersOK
<1>5. TitlesOK
  BY DEF NotebookInit, TitlesOK
<1> QED BY <1>1, <1>2, <1>3, <1>4, <1>5 DEF NotebookInv

LEMMA WebStarts ==
  ASSUME PortInit, WebInit
  PROVE  WebInv
<1>1. PortTypeOK
  BY PortAssumption DEF PortInit, WebInit, PortTypeOK
<1>2. WebTypeOK
  BY DEF WebInit, WebTypeOK
<1>3. DocumentsDescribed /\ FetchOK /\ PagesOK
  BY DEF WebInit, DocumentsDescribed, FetchOK, PagesOK
<1> QED BY <1>1, <1>2, <1>3 DEF WebInv

LEMMA InitInv ==
  ASSUME Init
  PROVE  Inv
<1>1. CASE kind = "notebook" /\ NotebookInit /\ NoWeb
  <2>1. NotebookInv
    BY <1>1, NotebookStarts DEF Init
  <2>2. WebTypeOK
    BY <1>1 DEF NoWeb, WebTypeOK, Page
  <2> QED BY <1>1, <2>1, <2>2 DEF Inv, TypeOK, NotebookInv
<1>2. CASE kind = "web" /\ WebInit /\ NoNotebook
  <2>1. WebInv
    BY <1>2, WebStarts DEF Init
  <2>2. NotebookTypeOK
    <3>1. (CHOOSE h \in Hash : TRUE) \in Hash
      BY HashAssumption
    <3>2. title \in [Source -> Hash]
      BY <1>2, <3>1 DEF NoNotebook
    <3> QED BY <1>2, <3>2, EmptyPipe, IdleIsACall DEF NoNotebook, NotebookTypeOK, Forgotten
  <2> QED BY <1>2, <2>1, <2>2 DEF Inv, TypeOK, WebInv, NoNotebook
<1> QED BY <1>1, <1>2 DEF Init

LEMMA NextInv ==
  ASSUME Inv, [Next]_vars
  PROVE  Inv' /\ ContractStep
<1>1. CASE NotebookStep
  <2>1. kind = "notebook" /\ NotebookNext /\ UNCHANGED <<kind, pages, documents, fetch>>
    BY <1>1 DEF NotebookStep, Notebook, webVars
  <2>2. NotebookInv' /\ ContractStep
    BY <2>1, NotebookKeeps, NotebookPromises DEF Inv
  <2>3. WebTypeOK'
    BY <2>1 DEF Inv, TypeOK, WebTypeOK
  <2> QED BY <2>1, <2>2, <2>3 DEF Inv, TypeOK, NotebookInv
<1>2. CASE WebStep
  <2>1. kind = "web" /\ WebNext
        /\ UNCHANGED <<kind, title, ready, sources, server, inbox, pipe, call, checked>>
    BY <1>2 DEF WebStep, Web, notebookVars, providerVars, clientVars
  <2>2. WebInv' /\ ContractStep
    BY <2>1, WebKeeps, WebPromises DEF Inv
  <2>3. NotebookTypeOK'
    BY <2>1 DEF Inv, TypeOK, NotebookTypeOK
  <2> QED BY <2>1, <2>2, <2>3 DEF Inv, TypeOK, WebInv
<1>3. CASE UNCHANGED vars
  <2>1. ContractStep
    BY <1>3 DEF ContractStep, vars, portVars, environment
  <2>2. TypeOK'
    BY <1>3 DEF Inv, TypeOK, PortTypeOK, NotebookTypeOK, WebTypeOK, vars, portVars, environment,
       notebookVars, providerVars, clientVars, webVars
  <2>3. NotebookInv => NotebookInv'
    BY <1>3 DEF NotebookInv, PortTypeOK, NotebookTypeOK, CallOK, RequestsOK, AnswersOK,
       SessionOK, TitlesOK, vars, portVars, environment, notebookVars, providerVars, clientVars
  <2>4. WebInv => WebInv'
    BY <1>3 DEF WebInv, PortTypeOK, WebTypeOK, DocumentsDescribed, FetchOK, PagesOK, vars,
       portVars, environment, webVars
  <2>5. UNCHANGED <<kind, call, pipe>>
    BY <1>3 DEF vars, notebookVars, clientVars
  <2> QED BY <2>1, <2>2, <2>3, <2>4, <2>5 DEF Inv
<1> QED BY <1>1, <1>2, <1>3 DEF Next

LEMMA InvHolds == Spec => [](Inv)
<1>1. Init => Inv
  BY InitInv
<1>2. Inv /\ [Next]_vars => Inv'
  BY NextInv
<1> QED BY <1>1, <1>2, PTL DEF Spec

-----------------------------------------------------------------------------
(* The theorems.                                                           *)

(* Both providers keep to their types, whatever the sources and the bounds. *)
THEOREM ProvidersTypeCorrect == Spec => []TypeOK
<1>1. Inv => TypeOK
  BY DEF Inv
<1> QED BY <1>1, InvHolds, PTL

(* inspect and acquire call a tool only on a process whose preflight ended  *)
(* (NotebookLMProvider.preflight), however often it died or was replaced.   *)
THEOREM OnlyCheckedServersAreCalled == Spec => []CheckedServerOnly
<1>1. Inv => CheckedServerOnly
  <2>1. Inv /\ kind = "notebook" => CheckedServerOnly
    BY DEF Inv, NotebookInv, SessionOK, CheckedServerOnly
  <2>2. Inv /\ kind = "web" => CheckedServerOnly
    BY StepNames DEF Inv, Idle, CheckedServerOnly
  <2> QED BY <2>1, <2>2 DEF Inv, TypeOK
<1> QED BY <1>1, InvHolds, PTL

(* An answer with the id of the request in progress has its step and its    *)
(* notebook, in spite of the answers that MCPStdioClient.request gave up    *)
(* waiting for.                                                            *)
THEOREM AnswersComeInTurn == Spec => []AnswersInTurn
<1>1. Inv => AnswersInTurn
  <2>1. Inv /\ kind = "notebook" => AnswersInTurn
    BY DEF Inv, NotebookInv, AnswersOK, AnswersInTurn, Waiting
  <2>2. Inv /\ kind = "web" => AnswersInTurn
    BY DEF Inv, AnswersInTurn
  <2> QED BY <2>1, <2>2 DEF Inv, TypeOK
<1> QED BY <1>1, InvHolds, PTL

(* Both providers implement SourceContract: every step is one of a          *)
(* KnowledgeSourceProvider that describes what a source said and delivers   *)
(* what it described.                                                      *)
THEOREM ProvidersImplementSource == Spec => ImplementsSource
<1>1. Init => Contract!Init
  <2>1. Init => published \subseteq Source \X Hash
    BY InitInv DEF Inv, TypeOK, PortTypeOK
  <2> QED BY <2>1 DEF Init, PortInit, Contract!Init
<1>2. Inv /\ [Next]_vars => [Contract!Next]_<<published, described, delivered>>
  BY NextInv DEF ContractStep
<1> QED BY <1>1, <1>2, InvHolds, PTL DEF Spec, ImplementsSource, Contract!Spec

=============================================================================

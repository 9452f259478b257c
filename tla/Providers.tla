------------------------------ MODULE Providers ------------------------------
(***************************************************************************)
(* GraphDependencies.provider: the one provider a worker's graph works      *)
(* with, called by one node at a time.                                     *)
(***************************************************************************)
EXTENDS NotebookSession, WebArticle

ASSUME HashAssumption == Hash # {}

VARIABLE kind \* the provider of this deployment

vars == <<kind, notebookVars, webVars, portVars>>

TypeOK ==
  /\ kind \in {"notebook", "web"}
  /\ PortTypeOK
  /\ NotebookTypeOK
  /\ WebTypeOK

NoNotebook ==
  /\ title = [n \in Source |-> CHOOSE h \in Hash : TRUE]
  /\ ready = FALSE /\ sources = Forgotten
  /\ server = "none" /\ inbox = {} /\ pipe = <<>>
  /\ call = Idle
  /\ checked = FALSE

NoWeb ==
  /\ pages = [u \in Source |-> Broken]
  /\ documents = [u \in Source |-> NoDocument]
  /\ fetch = NoFetch

Init ==
  /\ PortInit
  /\ \/ kind = "notebook" /\ NotebookInit /\ NoWeb
     \/ kind = "web" /\ WebInit /\ NoNotebook

Notebook(A) == kind = "notebook" /\ A /\ UNCHANGED <<kind, webVars>>
Web(A) == kind = "web" /\ A /\ UNCHANGED <<kind, notebookVars>>

NotebookStep == Notebook(NotebookNext)
WebStep == Web(WebNext)

Next == NotebookStep \/ WebStep

(* Nodes that failed are delivered again, so inspect and acquire are called *)
(* again and again; a server that is up answers.                           *)
Fairness ==
  /\ WF_vars(Notebook(NotebookProgress))
  /\ WF_vars(Notebook(ServerAnswers))
  /\ WF_vars(Web(FetchStep))
  /\ \A u \in Source, h \in Hash \ Oversized : SF_vars(Web(AcquirePage(u, h)))

Spec == Init /\ [][Next]_vars /\ Fairness

-----------------------------------------------------------------------------
(* Properties.                                                             *)

(* Until the notebook provider is ready nothing can go wrong for good: a    *)
(* failed preflight leaves no process and no late answer behind, so calls   *)
(* of inspect get it ready once the server answers.                        *)
PreflightRecovers ==
  kind = "notebook" /\ ~ ready ~> ready

(* A source whose page is again what it was described as is delivered,      *)
(* whatever restarts, failures and other calls for the same URL came in     *)
(* between: neither a lost document nor a wrong one stays in the way.       *)
WebRecovers ==
  \A u \in Source : \A h \in Hash \ Oversized :
    <>[](kind = "web" /\ <<u, h>> \in described /\ pages[u] = Article(h))
      => <>(<<u, h>> \in delivered)

=============================================================================

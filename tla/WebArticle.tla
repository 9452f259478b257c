------------------------------ MODULE WebArticle ------------------------------
(***************************************************************************)
(* WebArticleProvider: inspect follows redirects to the article and keeps   *)
(* it in memory under its canonical URL; acquire takes it from there, or    *)
(* fetches it again, while pages change.                                   *)
(***************************************************************************)
EXTENDS SourcePort

CONSTANTS
  NoDocument,
  MaxRedirects, \* WebArticleConfig.max_redirects
  Oversized     \* articles above ContextBudget.max_source_bytes

ASSUME WebAssumption ==
  /\ NoDocument \notin Hash
  /\ MaxRedirects \in Nat
  /\ Oversized \subseteq Hash

(* What a fetch of a URL meets: a redirect, an article by its hash, or      *)
(* something that raises - a target that is not public, a status, a content *)
(* type, a body above the limit, a page without an article.                *)
Redirect(u) == [kind |-> "redirect", to |-> u]
Article(h) == [kind |-> "article", hash |-> h]
Broken == [kind |-> "broken"]
Page == {Redirect(u) : u \in Source} \cup {Article(h) : h \in Hash} \cup {Broken}

VARIABLES
  pages,
  documents, \* _documents
  fetch      \* the call in progress: _load_document for inspect or acquire

webVars == <<pages, documents, fetch>>

NoFetch == [op |-> "idle"]
Loading == [op : {"inspect", "acquire"}, url : Source, redirects : 0 .. MaxRedirects,
            source : Source, hash : Hash \cup {NoDocument}]

WebTypeOK ==
  /\ pages \in [Source -> Page]
  /\ documents \in [Source -> Hash \cup {NoDocument}]
  /\ fetch \in Loading \cup {NoFetch}

WebInit ==
  /\ pages \in [Source -> Page]
  /\ published = {d \in Source \X Hash : pages[d[1]] = Article(d[2])}
  /\ documents = [u \in Source |-> NoDocument]
  /\ fetch = NoFetch

Load(op, url, hash) ==
  fetch' = [op |-> op, url |-> url, redirects |-> 0, source |-> url, hash |-> hash]

InspectPage(u) ==
  /\ fetch = NoFetch
  /\ Load("inspect", u, NoDocument)
  /\ Answerless
  /\ UNCHANGED <<pages, documents, environment, faults>>

(* Faulty variants of the two definitions below, for mutation checks only.  *)
KeepsWrongDocument(u, h) ==
  /\ fetch = NoFetch
  /\ <<u, h>> \in described
  /\ \/ /\ documents[u] = NoDocument
        /\ Load("acquire", u, h)
        /\ Answerless
     \/ /\ documents[u] # NoDocument
        /\ IF documents[u] = h THEN Deliver(u, h) ELSE Answerless
        /\ UNCHANGED fetch
  /\ UNCHANGED <<pages, documents, environment, faults>>
AnyDocument(found, h) == found \notin Oversized

(* The checks of acquire on the document it found.                         *)
Fits(found, h) == found = h /\ found \notin Oversized

(* acquire takes the document off the list also when it is not the one the  *)
(* source describes, or is too large.                                      *)
AcquirePage(u, h) ==
  /\ fetch = NoFetch
  /\ <<u, h>> \in described
  /\ documents' = [documents EXCEPT ![u] = NoDocument]
  /\ \/ /\ documents[u] = NoDocument
        /\ Load("acquire", u, h)
        /\ Answerless
     \/ /\ documents[u] # NoDocument
        /\ IF Fits(documents[u], h) THEN Deliver(u, documents[u]) ELSE Answerless
        /\ UNCHANGED fetch
  /\ UNCHANGED <<pages, environment, faults>>

-----------------------------------------------------------------------------
(* _load_document, one fetch at a time.                                    *)

FollowRedirect ==
  \E u \in Source :
    /\ fetch # NoFetch
    /\ pages[fetch.url] = Redirect(u)
    /\ fetch' = IF fetch.redirects < MaxRedirects
                THEN [fetch EXCEPT !.url = u, !.redirects = @ + 1] ELSE NoFetch
    /\ Answerless
    /\ UNCHANGED <<pages, documents, environment, faults>>

FetchRaises ==
  /\ fetch # NoFetch
  /\ pages[fetch.url] = Broken
  /\ fetch' = NoFetch
  /\ Answerless
  /\ UNCHANGED <<pages, documents, environment, faults>>

(* inspect keeps the article under the URL where it was found; acquire      *)
(* checks it and does not keep it.                                         *)
FetchArticle ==
  \E h \in Hash :
    /\ fetch # NoFetch
    /\ pages[fetch.url] = Article(h)
    /\ \/ /\ fetch.op = "inspect"
          /\ documents' = [documents EXCEPT ![fetch.url] = h]
          /\ Describe(fetch.url, h)
       \/ /\ fetch.op = "acquire"
          /\ IF Fits(h, fetch.hash) THEN Deliver(fetch.source, h) ELSE Answerless
          /\ UNCHANGED documents
    /\ fetch' = NoFetch
    /\ UNCHANGED <<pages, environment, faults>>

-----------------------------------------------------------------------------
(* The web, the network and the worker.                                    *)

ChangePage(u, page) ==
  /\ pages[u] # page
  /\ Change
  /\ pages' = [pages EXCEPT ![u] = page]
  /\ \/ \E h \in Hash : page = Article(h) /\ Publish(u, h)
     \/ (\A h \in Hash : page # Article(h)) /\ UNCHANGED published
  /\ Answerless
  /\ UNCHANGED <<documents, fetch, faults>>

(* The fetch fails, or the node is cancelled.                              *)
FetchInterrupted ==
  /\ fetch # NoFetch
  /\ Fault
  /\ fetch' = NoFetch
  /\ Answerless
  /\ UNCHANGED <<pages, documents, environment>>

RestartWorker ==
  /\ Fault
  /\ documents' = [u \in Source |-> NoDocument]
  /\ fetch' = NoFetch
  /\ Answerless
  /\ UNCHANGED <<pages, environment>>

FetchStep == FollowRedirect \/ FetchRaises \/ FetchArticle

WebNext ==
  \/ FetchStep
  \/ \E u \in Source : InspectPage(u)
  \/ \E u \in Source, h \in Hash : AcquirePage(u, h)
  \/ \E u \in Source, page \in Page : ChangePage(u, page)
  \/ FetchInterrupted \/ RestartWorker

-----------------------------------------------------------------------------
(* Properties.                                                             *)

(* A document in memory, and one that acquire is about to fetch, belong to  *)
(* a description: pages that change between inspect and acquire cannot      *)
(* leave a document nobody was told of.                                    *)
DocumentsDescribed ==
  \A u \in Source : documents[u] # NoDocument => <<u, documents[u]>> \in described

=============================================================================

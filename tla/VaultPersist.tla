---------------------------- MODULE VaultPersist ----------------------------
(***************************************************************************)
(* VaultWriter.persist: the drafts, the review summary and the manifest of *)
(* a run become files below 01-inbox/agent-runs/<run>, next to the notes   *)
(* the owner keeps.  It runs in a thread of its own; runs are persisted    *)
(* side by side, a run by one worker at a time (its lease).                *)
(*                                                                         *)
(* persist looks at the vault three times before it changes it: the scan   *)
(* for note ids, the preflight of all targets, and the existence test of   *)
(* each target just before it is written.  A crash may come between any    *)
(* two steps, and the call is repeated, with the same package or another.  *)
(***************************************************************************)
EXTENDS Naturals, FiniteSets

CONSTANTS
  Writers,  \* threads of persist
  Runs, Notes,
  Texts,    \* what documents say
  Edited,   \* what the owner makes of a file
  None,
  Packages, \* what persist is called with
  MaxEdits, MaxFailures \* bounds: steps of the owner, failures

(* The documents of a run: its drafts, the manifest, the review summary.   *)
Names == Notes \cup {"manifest", "summary"}
Files == Runs \X Names \cup {"knowledge"} \X Notes

(* A package, its documents rendered: the notes that are preserved and the *)
(* two reports.  stale: a review was given for another hash.               *)
ASSUME VaultAssumption ==
  /\ Notes \cap {"manifest", "summary"} = {}
  /\ "knowledge" \notin Runs
  /\ {None, Edited} \cap Texts = {} /\ None # Edited
  /\ \A k \in Packages :
       /\ k.run \in Runs
       /\ k.stale \in BOOLEAN
       /\ {"manifest", "summary"} \subseteq DOMAIN k.text /\ DOMAIN k.text \subseteq Names
       /\ \A n \in DOMAIN k.text : k.text[n] \in Texts
  /\ {None, Edited} \cap Packages = {} /\ None \notin Files
  /\ {MaxEdits, MaxFailures} \subseteq Nat

VARIABLES
  files,   \* the content of each file
  pc, package,
  seen,    \* the inventory: files with a note id at the scan
  todo,    \* targets to check, then targets to write
  target,  \* the target whose temporary file is being written
  outcome, \* what the last call of each writer came to
  edits, failures,
  \* history
  wrote,   \* files the call has written
  author   \* who last changed each file: the owner (Edited) or a package

writerVars == <<pc, package, seen, todo, target, outcome, wrote>>
vars == <<files, writerVars, edits, failures, author>>

Pcs == {"idle", "scan", "render", "preflight", "write", "replace"}
Outcomes == {"none", "written", "refused", "failed"}

TypeOK ==
  /\ files \in [Files -> Texts \cup {Edited, None}]
  /\ pc \in [Writers -> Pcs]
  /\ package \in [Writers -> Packages \cup {None}]
  /\ seen \in [Writers -> SUBSET Files]
  /\ todo \in [Writers -> SUBSET Files]
  /\ target \in [Writers -> Files \cup {None}]
  /\ \A w \in Writers : target[w] # None <=> pc[w] = "replace"
  /\ outcome \in [Writers -> Outcomes]
  /\ edits \in 0 .. MaxEdits /\ failures \in 0 .. MaxFailures
  /\ wrote \in [Writers -> SUBSET Files]
  /\ author \in [Files -> Packages \cup {Edited, None}]

Init ==
  /\ files = [f \in Files |-> None]
  /\ pc = [w \in Writers |-> "idle"]
  /\ package = [w \in Writers |-> None]
  /\ seen = [w \in Writers |-> {}]
  /\ todo = [w \in Writers |-> {}]
  /\ target = [w \in Writers |-> None]
  /\ outcome = [w \in Writers |-> "none"]
  /\ edits = 0 /\ failures = 0
  /\ wrote = [w \in Writers |-> {}]
  /\ author = [f \in Files |-> None]

Targets(k) == {k.run} \X DOMAIN k.text
Content(k, f) == k.text[f[2]]

(* The Markdown files that carry a note id, and those of one note.         *)
Inventory == {f \in Files : f[2] \in Notes /\ files[f] # None}
FilesOf(n) == {f \in Files : f[2] = n}

(* documents are written in the order of their paths: drafts/...,          *)
(* manifest.json, review-summary.md (drafts among themselves in any).      *)
Rank(f) == IF f[2] \in Notes THEN 0 ELSE IF f[2] = "manifest" THEN 1 ELSE 2
First(targets) == {f \in targets : \A g \in targets : Rank(f) <= Rank(g)}

Goto(w, where) == pc' = [pc EXCEPT ![w] = where]

(* persist returns or raises.                                              *)
Return(w, result) ==
  /\ Goto(w, "idle")
  /\ outcome' = [outcome EXCEPT ![w] = result]
  /\ seen' = [seen EXCEPT ![w] = {}]
  /\ todo' = [todo EXCEPT ![w] = {}]
  /\ target' = [target EXCEPT ![w] = None]

-----------------------------------------------------------------------------
(* Faulty variants of some definitions below, for mutation checks only.    *)

CollidesAnywhere(w) == \E n \in DOMAIN package[w].text : seen[w] \cap FilesOf(n) # {}
AcceptAnyFile(w) ==
  /\ pc[w] = "preflight"
  /\ \E f \in todo[w] : todo' = [todo EXCEPT ![w] = @ \ {f}]
  /\ UNCHANGED <<files, pc, package, seen, target, outcome, edits, failures, wrote, author>>
WriteAnyway(w) ==
  /\ pc[w] = "write"
  /\ \E f \in First(todo[w]) : /\ todo' = [todo EXCEPT ![w] = @ \ {f}]
                              /\ target' = [target EXCEPT ![w] = f]
  /\ Goto(w, "replace")
  /\ UNCHANGED <<files, package, seen, outcome, edits, failures, wrote, author>>

-----------------------------------------------------------------------------

(* The owner files a note, or changes or removes a file that is there.     *)
OwnerEdit(f) ==
  /\ edits < MaxEdits
  /\ edits' = edits + 1
  /\ files[f] = None => f[1] = "knowledge"
  /\ \E v \in {None, Edited} \ {files[f]} : files' = [files EXCEPT ![f] = v]
  /\ author' = [author EXCEPT ![f] = Edited]
  /\ UNCHANGED <<writerVars, failures>>

(* A run is persisted, for the first time or again.                        *)
Persist(w, k) ==
  /\ pc[w] = "idle"
  /\ \A v \in Writers : pc[v] # "idle" => package[v].run # k.run
  /\ Goto(w, "scan")
  /\ package' = [package EXCEPT ![w] = k]
  /\ outcome' = [outcome EXCEPT ![w] = "none"]
  /\ wrote' = [wrote EXCEPT ![w] = {}]
  /\ UNCHANGED <<files, seen, todo, target, edits, failures, author>>

Scan(w) ==
  /\ pc[w] = "scan"
  /\ seen' = [seen EXCEPT ![w] = Inventory]
  /\ Goto(w, "render")
  /\ UNCHANGED <<files, package, todo, target, outcome, edits, failures, wrote, author>>

(* A note id found anywhere but at its target refuses the package, as does *)
(* a review of another hash.                                               *)
Collides(w) ==
  \E n \in DOMAIN package[w].text : seen[w] \cap (FilesOf(n) \ Targets(package[w])) # {}

Render(w) ==
  /\ pc[w] = "render"
  /\ IF package[w].stale \/ Collides(w)
     THEN Return(w, "refused")
     ELSE /\ todo' = [todo EXCEPT ![w] = Targets(package[w])]
          /\ Goto(w, "preflight")
          /\ UNCHANGED <<seen, target, outcome>>
  /\ UNCHANGED <<files, package, edits, failures, wrote, author>>

(* Every target is absent or says what it is to say, before any is written. *)
Preflight(w) ==
  /\ pc[w] = "preflight"
  /\ \E f \in todo[w] :
       IF files[f] \in {None, Content(package[w], f)}
       THEN todo' = [todo EXCEPT ![w] = @ \ {f}] /\ UNCHANGED <<pc, seen, target, outcome>>
       ELSE Return(w, "refused")
  /\ UNCHANGED <<files, package, edits, failures, wrote, author>>

EndPreflight(w) ==
  /\ pc[w] = "preflight"
  /\ todo[w] = {}
  /\ todo' = [todo EXCEPT ![w] = Targets(package[w])]
  /\ Goto(w, "write")
  /\ UNCHANGED <<files, package, seen, target, outcome, edits, failures, wrote, author>>

(* _write_atomic: a target that exists is left alone, whatever it says.    *)
SkipExisting(w) ==
  /\ pc[w] = "write"
  /\ \E f \in First(todo[w]) :
       /\ files[f] # None
       /\ todo' = [todo EXCEPT ![w] = @ \ {f}]
  /\ UNCHANGED <<files, pc, package, seen, target, outcome, edits, failures, wrote, author>>

(* A new one is written to a temporary file, which then replaces it.  A    *)
(* temporary file a crash leaves is not Markdown and nobody looks at it.   *)
StartWrite(w) ==
  /\ pc[w] = "write"
  /\ \E f \in First(todo[w]) :
       /\ files[f] = None
       /\ todo' = [todo EXCEPT ![w] = @ \ {f}]
       /\ target' = [target EXCEPT ![w] = f]
  /\ Goto(w, "replace")
  /\ UNCHANGED <<files, package, seen, outcome, edits, failures, wrote, author>>

Replace(w) ==
  /\ pc[w] = "replace"
  /\ files' = [files EXCEPT ![target[w]] = Content(package[w], target[w])]
  /\ wrote' = [wrote EXCEPT ![w] = @ \cup {target[w]}]
  /\ author' = [author EXCEPT ![target[w]] = package[w]]
  /\ target' = [target EXCEPT ![w] = None]
  /\ Goto(w, "write")
  /\ UNCHANGED <<package, seen, todo, outcome, edits, failures>>

EndWrite(w) ==
  /\ pc[w] = "write"
  /\ todo[w] = {}
  /\ Return(w, "written")
  /\ UNCHANGED <<files, package, edits, failures, wrote, author>>

(* The file system fails at a step, or the process dies.                   *)
Fail(w) ==
  /\ pc[w] # "idle"
  /\ failures < MaxFailures
  /\ failures' = failures + 1
  /\ Return(w, "failed")
  /\ UNCHANGED <<files, package, edits, wrote, author>>

Step(w) == \/ Scan(w) \/ Render(w) \/ Preflight(w) \/ EndPreflight(w)
           \/ SkipExisting(w) \/ StartWrite(w) \/ Replace(w) \/ EndWrite(w)

Next == \/ \E f \in Files : OwnerEdit(f)
        \/ \E w \in Writers : Step(w) \/ Fail(w) \/ \E k \in Packages : Persist(w, k)

Spec == Init /\ [][Next]_vars

-----------------------------------------------------------------------------
(* Properties.                                                             *)

(* Only the owner changes a file that is there: between the existence test *)
(* and the replacement no file of the vault gets in between.               *)
NothingOverwritten ==
  [][\A f \in Files : files[f] # None /\ files'[f] # files[f] => author'[f] = Edited]_vars

(* What a call reports when it returns is on disk in full, each file with the   *)
(* content of its package unless the owner has changed it, although        *)
(* existing targets are skipped without being read again.                  *)
WrittenIsComplete ==
  [][\A w \in Writers : outcome[w] # "written" /\ outcome'[w] = "written" =>
       \A f \in Targets(package[w]) :
         files[f] = Content(package[w], f) \/ author[f] = Edited]_vars

(* A refused package has left nothing behind: all checks come before the   *)
(* first write, over all documents.                                        *)
RefusedWritesNothing == \A w \in Writers : outcome[w] = "refused" => wrote[w] = {}

(* A draft is never written beside a file of the same note that its call   *)
(* could see when it began, be it the owner's note or another run's draft. *)
NoSecondNote ==
  [][\A w \in Writers : wrote'[w] # wrote[w] =>
       \A f \in wrote'[w] \ wrote[w] : f[2] \in Notes =>
         seen[w] \cap FilesOf(f[2]) \subseteq {f}]_vars

(* A package is refused for a reason: a file of the owner's, a stale       *)
(* review, another package's content.  What an earlier, unfinished call    *)
(* for the same package left behind never refuses it, so that a persist    *)
(* repeated after a crash goes through.                                    *)
RepeatNotRefused ==
  [][\A w \in Writers : outcome[w] # "refused" /\ outcome'[w] = "refused" =>
       \/ package[w].stale
       \/ \E f \in Files : /\ f[2] \in DOMAIN package[w].text
                          /\ (f[2] \in Notes \/ f[1] = package[w].run)
                          /\ author[f] \notin {None, package[w]}]_vars

=============================================================================

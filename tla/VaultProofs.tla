---------------------------- MODULE VaultProofs ----------------------------
(***************************************************************************)
(* Proofs about VaultPersist, for any writers, runs, notes, packages and   *)
(* bounds that satisfy VaultAssumption.                                    *)
(***************************************************************************)
EXTENDS VaultPersist, TLAPS

(* A busy writer has a package, and what it has to do is part of it.       *)
JobsOK ==
  \A w \in Writers :
    /\ pc[w] # "idle" => package[w] \in Packages
    /\ pc[w] \in {"preflight", "write", "replace"} => todo[w] \subseteq Targets(package[w])
    /\ pc[w] = "replace" => target[w] \in Targets(package[w]) \ todo[w]

(* The documents of a package have their place, and a text.                *)
LEMMA PackageFiles ==
  ASSUME NEW k \in Packages
  PROVE  /\ Targets(k) \subseteq Files
         /\ \A f \in Targets(k) : /\ Content(k, f) \in Texts
                                  /\ f[1] = k.run /\ f[2] \in DOMAIN k.text
                                  /\ f # None
BY VaultAssumption DEF Targets, Content, Files

(* The vault is empty and every writer idle.                               *)
LEMMA InitJobs == Init => TypeOK /\ JobsOK
BY VaultAssumption DEF Init, TypeOK, JobsOK, Pcs, Outcomes

(* Every step keeps the types and the jobs; one case per action.           *)
LEMMA JobsStep == TypeOK /\ JobsOK /\ [Next]_vars => TypeOK' /\ JobsOK'
<1> SUFFICES ASSUME TypeOK, JobsOK, [Next]_vars PROVE TypeOK' /\ JobsOK'
  OBVIOUS
<1> USE VaultAssumption DEF TypeOK, JobsOK, Pcs, Outcomes, Goto
<1>1. ASSUME NEW f \in Files, OwnerEdit(f) PROVE TypeOK' /\ JobsOK'
  BY <1>1 DEF OwnerEdit, writerVars
<1>2. ASSUME NEW w \in Writers, NEW k \in Packages, Persist(w, k) PROVE TypeOK' /\ JobsOK'
  BY <1>2 DEF Persist
<1>3. ASSUME NEW w \in Writers, Scan(w) PROVE TypeOK' /\ JobsOK'
  BY <1>3 DEF Scan, Inventory
<1>4. ASSUME NEW w \in Writers, Render(w) PROVE TypeOK' /\ JobsOK'
  <2>1. package[w] \in Packages /\ Targets(package[w]) \subseteq Files
    BY <1>4, PackageFiles DEF Render
  <2> QED
    BY <1>4, <2>1 DEF Render, Return
<1>5. ASSUME NEW w \in Writers, Preflight(w) PROVE TypeOK' /\ JobsOK'
  BY <1>5 DEF Preflight, Return
<1>6. ASSUME NEW w \in Writers, EndPreflight(w) PROVE TypeOK' /\ JobsOK'
  <2>1. package[w] \in Packages /\ Targets(package[w]) \subseteq Files
    BY <1>6, PackageFiles DEF EndPreflight
  <2> QED
    BY <1>6, <2>1 DEF EndPreflight
<1>7. ASSUME NEW w \in Writers, SkipExisting(w) PROVE TypeOK' /\ JobsOK'
  BY <1>7 DEF SkipExisting
<1>8. ASSUME NEW w \in Writers, StartWrite(w) PROVE TypeOK' /\ JobsOK'
  <2>1. PICK f \in todo[w] : /\ todo' = [todo EXCEPT ![w] = @ \ {f}]
                             /\ target' = [target EXCEPT ![w] = f]
    BY <1>8 DEF StartWrite, First
  <2>2. f \in Files /\ f # None /\ f \in Targets(package[w])
    BY <1>8, <2>1, PackageFiles DEF StartWrite
  <2> QED
    BY <1>8, <2>1, <2>2 DEF StartWrite
<1>9. ASSUME NEW w \in Writers, Replace(w) PROVE TypeOK' /\ JobsOK'
  <2>1. target[w] \in Files /\ Content(package[w], target[w]) \in Texts
    BY <1>9, PackageFiles DEF Replace
  <2> QED
    BY <1>9, <2>1 DEF Replace
<1>10. ASSUME NEW w \in Writers, EndWrite(w) PROVE TypeOK' /\ JobsOK'
  BY <1>10 DEF EndWrite, Return
<1>11. ASSUME NEW w \in Writers, Fail(w) PROVE TypeOK' /\ JobsOK'
  BY <1>11 DEF Fail, Return
<1>12. CASE UNCHANGED vars
  BY <1>12 DEF vars, writerVars
<1> QED
  BY <1>1, <1>2, <1>3, <1>4, <1>5, <1>6, <1>7, <1>8, <1>9, <1>10, <1>11, <1>12
     DEF Next, Step

(* Every reachable state is well typed.                                    *)
THEOREM VaultTypeCorrect == Spec => []TypeOK
BY InitJobs, JobsStep, PTL DEF Spec

(* The types and the jobs together are inductive.                          *)
LEMMA JobsInvariant == Spec => [](TypeOK /\ JobsOK)
BY InitJobs, JobsStep, PTL DEF Spec

-----------------------------------------------------------------------------
(* Refusals.                                                               *)

(* Until the preflight is over a call has written nothing, and it is not   *)
(* refused later.                                                          *)
RefusalsOK ==
  \A w \in Writers :
    /\ pc[w] \in {"scan", "render", "preflight"} => wrote[w] = {}
    /\ pc[w] # "idle" => outcome[w] # "refused"
    /\ outcome[w] = "refused" => wrote[w] = {}

(* Only a call that has written nothing is refused.                        *)
LEMMA RefusalsStep == TypeOK /\ RefusalsOK /\ [Next]_vars => RefusalsOK'
<1> SUFFICES ASSUME TypeOK, RefusalsOK, [Next]_vars PROVE RefusalsOK'
  OBVIOUS
<1> USE DEF TypeOK, RefusalsOK, Goto
<1>1. ASSUME NEW f \in Files, OwnerEdit(f) PROVE RefusalsOK'
  BY <1>1 DEF OwnerEdit, writerVars
<1>2. ASSUME NEW w \in Writers, NEW k \in Packages, Persist(w, k) PROVE RefusalsOK'
  BY <1>2 DEF Persist
<1>3. ASSUME NEW w \in Writers, Scan(w) PROVE RefusalsOK'
  BY <1>3 DEF Scan
<1>4. ASSUME NEW w \in Writers, Render(w) PROVE RefusalsOK'
  BY <1>4 DEF Render, Return
<1>5. ASSUME NEW w \in Writers, Preflight(w) PROVE RefusalsOK'
  BY <1>5 DEF Preflight, Return
<1>6. ASSUME NEW w \in Writers, EndPreflight(w) PROVE RefusalsOK'
  BY <1>6 DEF EndPreflight
<1>7. ASSUME NEW w \in Writers, SkipExisting(w) PROVE RefusalsOK'
  BY <1>7 DEF SkipExisting
<1>8. ASSUME NEW w \in Writers, StartWrite(w) PROVE RefusalsOK'
  BY <1>8 DEF StartWrite
<1>9. ASSUME NEW w \in Writers, Replace(w) PROVE RefusalsOK'
  BY <1>9 DEF Replace
<1>10. ASSUME NEW w \in Writers, EndWrite(w) PROVE RefusalsOK'
  BY <1>10 DEF EndWrite, Return
<1>11. ASSUME NEW w \in Writers, Fail(w) PROVE RefusalsOK'
  BY <1>11 DEF Fail, Return
<1>12. CASE UNCHANGED vars
  BY <1>12 DEF vars, writerVars
<1> QED
  BY <1>1, <1>2, <1>3, <1>4, <1>5, <1>6, <1>7, <1>8, <1>9, <1>10, <1>11, <1>12
     DEF Next, Step

(* A refused package has left nothing behind, for any packages, however    *)
(* many notes they hold.                                                   *)
THEOREM RefusalsLeaveNothing == Spec => []RefusedWritesNothing
<1>1. Init => RefusalsOK
  BY DEF Init, RefusalsOK
<1>2. RefusalsOK => RefusedWritesNothing
  BY DEF RefusalsOK, RefusedWritesNothing
<1> QED
  BY <1>1, <1>2, JobsInvariant, RefusalsStep, PTL DEF Spec

-----------------------------------------------------------------------------
(* Nothing is overwritten.                                                 *)

(* Writers at work have different runs, and the target of a temporary file *)
(* is still free.                                                          *)
Exclusive ==
  \A v, w \in Writers :
    v # w /\ pc[v] # "idle" /\ pc[w] # "idle" => package[v].run # package[w].run

TargetFree == \A w \in Writers : pc[w] = "replace" => files[target[w]] = None

(* A run is persisted by one writer at a time.                             *)
LEMMA ExclusiveStep == TypeOK /\ Exclusive /\ [Next]_vars => Exclusive'
<1> SUFFICES ASSUME TypeOK, Exclusive, [Next]_vars PROVE Exclusive'
  OBVIOUS
<1> USE DEF TypeOK, Exclusive, Goto
<1>1. ASSUME NEW f \in Files, OwnerEdit(f) PROVE Exclusive'
  BY <1>1 DEF OwnerEdit, writerVars
<1>2. ASSUME NEW w \in Writers, NEW k \in Packages, Persist(w, k) PROVE Exclusive'
  BY <1>2 DEF Persist
<1>3. ASSUME NEW w \in Writers, Scan(w) PROVE Exclusive'
  BY <1>3 DEF Scan
<1>4. ASSUME NEW w \in Writers, Render(w) PROVE Exclusive'
  BY <1>4 DEF Render, Return
<1>5. ASSUME NEW w \in Writers, Preflight(w) PROVE Exclusive'
  BY <1>5 DEF Preflight, Return
<1>6. ASSUME NEW w \in Writers, EndPreflight(w) PROVE Exclusive'
  BY <1>6 DEF EndPreflight
<1>7. ASSUME NEW w \in Writers, SkipExisting(w) PROVE Exclusive'
  BY <1>7 DEF SkipExisting
<1>8. ASSUME NEW w \in Writers, StartWrite(w) PROVE Exclusive'
  BY <1>8 DEF StartWrite
<1>9. ASSUME NEW w \in Writers, Replace(w) PROVE Exclusive'
  BY <1>9 DEF Replace
<1>10. ASSUME NEW w \in Writers, EndWrite(w) PROVE Exclusive'
  BY <1>10 DEF EndWrite, Return
<1>11. ASSUME NEW w \in Writers, Fail(w) PROVE Exclusive'
  BY <1>11 DEF Fail, Return
<1>12. CASE UNCHANGED vars
  BY <1>12 DEF vars, writerVars
<1> QED
  BY <1>1, <1>2, <1>3, <1>4, <1>5, <1>6, <1>7, <1>8, <1>9, <1>10, <1>11, <1>12
     DEF Next, Step

(* Nobody creates a file of a run that another writer is persisting.       *)
LEMMA TargetFreeStep == TypeOK /\ JobsOK /\ Exclusive /\ TargetFree /\ [Next]_vars => TargetFree'
<1> SUFFICES ASSUME TypeOK, JobsOK, Exclusive, TargetFree, [Next]_vars PROVE TargetFree'
  OBVIOUS
<1> USE DEF TypeOK, TargetFree, Goto
<1>1. ASSUME NEW f \in Files, OwnerEdit(f) PROVE TargetFree'
  <2>1. ASSUME NEW w \in Writers, pc[w] = "replace" PROVE target[w] # f
    <3>1. target[w][1] \in Runs
      BY <2>1, PackageFiles, VaultAssumption DEF JobsOK
    <3> QED
      BY <1>1, <2>1, <3>1, VaultAssumption DEF OwnerEdit
  <2> QED
    BY <1>1, <2>1 DEF OwnerEdit, writerVars
<1>2. ASSUME NEW w \in Writers, NEW k \in Packages, Persist(w, k) PROVE TargetFree'
  BY <1>2 DEF Persist
<1>3. ASSUME NEW w \in Writers, Scan(w) PROVE TargetFree'
  BY <1>3 DEF Scan
<1>4. ASSUME NEW w \in Writers, Render(w) PROVE TargetFree'
  BY <1>4 DEF Render, Return
<1>5. ASSUME NEW w \in Writers, Preflight(w) PROVE TargetFree'
  BY <1>5 DEF Preflight, Return
<1>6. ASSUME NEW w \in Writers, EndPreflight(w) PROVE TargetFree'
  BY <1>6 DEF EndPreflight
<1>7. ASSUME NEW w \in Writers, SkipExisting(w) PROVE TargetFree'
  BY <1>7 DEF SkipExisting
<1>8. ASSUME NEW w \in Writers, StartWrite(w) PROVE TargetFree'
  <2>1. PICK f \in todo[w] : files[f] = None /\ target' = [target EXCEPT ![w] = f]
    BY <1>8 DEF StartWrite, First
  <2> QED
    BY <1>8, <2>1 DEF StartWrite
<1>9. ASSUME NEW w \in Writers, Replace(w) PROVE TargetFree'
  <2>1. ASSUME NEW v \in Writers, v # w, pc[v] = "replace" PROVE target[v] # target[w]
    BY <1>9, <2>1, PackageFiles DEF Replace, JobsOK, Exclusive
  <2> QED
    BY <1>9, <2>1 DEF Replace
<1>10. ASSUME NEW w \in Writers, EndWrite(w) PROVE TargetFree'
  BY <1>10 DEF EndWrite, Return
<1>11. ASSUME NEW w \in Writers, Fail(w) PROVE TargetFree'
  BY <1>11 DEF Fail, Return
<1>12. CASE UNCHANGED vars
  BY <1>12 DEF vars, writerVars
<1> QED
  BY <1>1, <1>2, <1>3, <1>4, <1>5, <1>6, <1>7, <1>8, <1>9, <1>10, <1>11, <1>12
     DEF Next, Step

LEMMA FreeInvariant == Spec => [](TypeOK /\ JobsOK /\ Exclusive /\ TargetFree)
<1>1. Init => Exclusive /\ TargetFree
  BY DEF Init, Exclusive, TargetFree
<1> QED
  BY <1>1, JobsInvariant, ExclusiveStep, TargetFreeStep, PTL DEF Spec

(* Only the owner changes a file that is there, for any number of writers. *)
THEOREM NoFileOverwritten == Spec => NothingOverwritten
<1>1. ASSUME TypeOK, TargetFree, [Next]_vars
      PROVE  [\A f \in Files :
                files[f] # None /\ files'[f] # files[f] => author'[f] = Edited]_vars
  <2>1. ASSUME NEW g \in Files, OwnerEdit(g), NEW f \in Files, files'[f] # files[f]
        PROVE  author'[f] = Edited
    BY <1>1, <2>1 DEF OwnerEdit, TypeOK
  <2>2. ASSUME NEW w \in Writers, Replace(w), NEW f \in Files, files'[f] # files[f]
        PROVE  files[f] = None
    BY <1>1, <2>2 DEF Replace, TargetFree, TypeOK
  <2>3. files' = files \/ (\E f \in Files : OwnerEdit(f)) \/ \E w \in Writers : Replace(w)
    BY <1>1 DEF Next, Step, Persist, Scan, Render, Preflight, EndPreflight, SkipExisting,
                StartWrite, EndWrite, Fail, vars
  <2> QED
    BY <2>1, <2>2, <2>3
<1> QED
  BY <1>1, FreeInvariant, PTL DEF Spec, NothingOverwritten

-----------------------------------------------------------------------------
(* One note, one file.                                                     *)

(* Past the renderer no file of the scan collides with the package.        *)
NoCollision ==
  \A w \in Writers : pc[w] \in {"preflight", "write", "replace"} => ~Collides(w)

(* The scan and the package stay as they were checked.                     *)
LEMMA NoCollisionStep == TypeOK /\ NoCollision /\ [Next]_vars => NoCollision'
<1> SUFFICES ASSUME TypeOK, NoCollision, [Next]_vars PROVE NoCollision'
  OBVIOUS
<1> USE DEF TypeOK, NoCollision, Collides, Goto
<1>1. ASSUME NEW f \in Files, OwnerEdit(f) PROVE NoCollision'
  BY <1>1 DEF OwnerEdit, writerVars
<1>2. ASSUME NEW w \in Writers, NEW k \in Packages, Persist(w, k) PROVE NoCollision'
  BY <1>2 DEF Persist
<1>3. ASSUME NEW w \in Writers, Scan(w) PROVE NoCollision'
  BY <1>3 DEF Scan
<1>4. ASSUME NEW w \in Writers, Render(w) PROVE NoCollision'
  BY <1>4 DEF Render, Return
<1>5. ASSUME NEW w \in Writers, Preflight(w) PROVE NoCollision'
  BY <1>5 DEF Preflight, Return
<1>6. ASSUME NEW w \in Writers, EndPreflight(w) PROVE NoCollision'
  BY <1>6 DEF EndPreflight
<1>7. ASSUME NEW w \in Writers, SkipExisting(w) PROVE NoCollision'
  BY <1>7 DEF SkipExisting
<1>8. ASSUME NEW w \in Writers, StartWrite(w) PROVE NoCollision'
  BY <1>8 DEF StartWrite
<1>9. ASSUME NEW w \in Writers, Replace(w) PROVE NoCollision'
  BY <1>9 DEF Replace
<1>10. ASSUME NEW w \in Writers, EndWrite(w) PROVE NoCollision'
  BY <1>10 DEF EndWrite, Return
<1>11. ASSUME NEW w \in Writers, Fail(w) PROVE NoCollision'
  BY <1>11 DEF Fail, Return
<1>12. CASE UNCHANGED vars
  BY <1>12 DEF vars, writerVars
<1> QED
  BY <1>1, <1>2, <1>3, <1>4, <1>5, <1>6, <1>7, <1>8, <1>9, <1>10, <1>11, <1>12
     DEF Next, Step

(* No call writes a draft beside a file of the same note that its scan     *)
(* found.                                                                  *)
THEOREM NotesStaySingle == Spec => NoSecondNote
<1>1. Init => NoCollision
  BY DEF Init, NoCollision
<1>2. ASSUME TypeOK, JobsOK, NoCollision, [Next]_vars
      PROVE  [\A w \in Writers : wrote'[w] # wrote[w] =>
                \A f \in wrote'[w] \ wrote[w] : f[2] \in Notes =>
                  seen[w] \cap FilesOf(f[2]) \subseteq {f}]_vars
  <2>1. ASSUME NEW v \in Writers, Replace(v), NEW w \in Writers,
               NEW f \in wrote'[w] \ wrote[w], f[2] \in Notes,
               NEW g \in seen[w] \cap FilesOf(f[2])
        PROVE  g = f
    <3>1. w = v /\ f = target[w] /\ pc[w] = "replace"
      BY <1>2, <2>1 DEF Replace, TypeOK
    <3>2. package[w] \in Packages /\ f \in Targets(package[w])
      BY <1>2, <3>1 DEF JobsOK
    <3>3. f[2] \in DOMAIN package[w].text
      BY <3>2, PackageFiles
    <3>4. g \in Targets(package[w]) /\ g[2] = f[2]
      BY <1>2, <3>1, <3>3, <2>1 DEF NoCollision, Collides, FilesOf
    <3> QED
      BY <3>2, <3>4 DEF Targets
  <2>2. \A w \in Writers : (\E v \in Writers : Replace(v)) \/ wrote'[w] \subseteq wrote[w]
    BY <1>2 DEF TypeOK, Next, Step, OwnerEdit, Persist, Scan, Render, Preflight,
                EndPreflight, SkipExisting, StartWrite, EndWrite, Fail, vars, writerVars
  <2> QED
    BY <2>1, <2>2
<1> QED
  BY <1>1, <1>2, JobsInvariant, NoCollisionStep, PTL DEF Spec, NoSecondNote

-----------------------------------------------------------------------------
(* What is written is complete.                                            *)

(* A target of w that is past the preflight is free, says what w wants, or *)
(* was changed by the owner, and it is not free once w is done with it.    *)
Fits(w, f)  == files[f] \in {None, Content(package[w], f)} \/ author[f] = Edited
Ready(w, f) == files[f] = Content(package[w], f) \/ author[f] = Edited

CheckedOK ==
  \A w \in Writers : \A f \in Files : f \in Targets(package[w]) =>
    /\ pc[w] = "preflight" => f \in todo[w] \/ Fits(w, f)
    /\ pc[w] \in {"write", "replace"} =>
         Fits(w, f) /\ (f \in todo[w] \/ f = target[w] \/ Ready(w, f))

(* A writer's targets are its own: others leave them as it found them.     *)
LEMMA CheckedStep == TypeOK /\ JobsOK /\ Exclusive /\ CheckedOK /\ [Next]_vars => CheckedOK'
<1> SUFFICES ASSUME TypeOK, JobsOK, Exclusive, CheckedOK, [Next]_vars PROVE CheckedOK'
  OBVIOUS
<1> USE DEF TypeOK, CheckedOK, Fits, Ready, Goto
<1>1. ASSUME NEW f \in Files, OwnerEdit(f) PROVE CheckedOK'
  BY <1>1 DEF OwnerEdit, writerVars
<1>2. ASSUME NEW w \in Writers, NEW k \in Packages, Persist(w, k) PROVE CheckedOK'
  BY <1>2 DEF Persist
<1>3. ASSUME NEW w \in Writers, Scan(w) PROVE CheckedOK'
  BY <1>3 DEF Scan
<1>4. ASSUME NEW w \in Writers, Render(w) PROVE CheckedOK'
  BY <1>4 DEF Render, Return
<1>5. ASSUME NEW w \in Writers, Preflight(w) PROVE CheckedOK'
  BY <1>5 DEF Preflight, Return
<1>6. ASSUME NEW w \in Writers, EndPreflight(w) PROVE CheckedOK'
  BY <1>6 DEF EndPreflight
<1>7. ASSUME NEW w \in Writers, SkipExisting(w) PROVE CheckedOK'
  BY <1>7 DEF SkipExisting
<1>8. ASSUME NEW w \in Writers, StartWrite(w) PROVE CheckedOK'
  <2>1. PICK g \in todo[w] : /\ todo' = [todo EXCEPT ![w] = @ \ {g}]
                             /\ target' = [target EXCEPT ![w] = g]
    BY <1>8 DEF StartWrite, First
  <2>2. \A f \in Files : f # target[w]
    BY <1>8, VaultAssumption DEF StartWrite
  <2> QED
    BY <1>8, <2>1, <2>2 DEF StartWrite
<1>9. ASSUME NEW w \in Writers, Replace(w) PROVE CheckedOK'
  <2>1. package[w] \in Packages /\ target[w] \in Targets(package[w])
    BY <1>9 DEF Replace, JobsOK
  <2>2. ASSUME NEW v \in Writers, v # w, pc[v] # "idle" PROVE target[w] \notin Targets(package[v])
    BY <1>9, <2>1, <2>2, PackageFiles DEF Replace, JobsOK, Exclusive
  <2>3. ASSUME NEW v \in Writers, v # w, pc[v] # "idle", NEW f \in Targets(package[v])
        PROVE  files'[f] = files[f] /\ author'[f] = author[f]
    BY <1>9, <2>2, <2>3 DEF Replace
  <2>4. package' = package /\ todo' = todo
    BY <1>9 DEF Replace
  <2>5. ASSUME NEW f \in Files, f \in Targets(package[w]), pc'[w] \in {"write", "replace"}
        PROVE  Fits(w, f)' /\ (f \in todo'[w] \/ Ready(w, f)')
    <3>1. CASE f = target[w]
      BY <1>9, <2>4, <2>5, <3>1 DEF Replace
    <3>2. CASE f # target[w]
      BY <1>9, <2>4, <2>5, <3>2 DEF Replace
    <3> QED
      BY <3>1, <3>2
  <2>6. pc'[w] # "preflight" /\ \A v \in Writers : v # w => pc'[v] = pc[v] /\ target'[v] = target[v]
    BY <1>9 DEF Replace
  <2>7. ASSUME NEW v \in Writers, v # w, NEW f \in Files, f \in Targets(package[v])
        PROVE  /\ pc'[v] = "preflight" => f \in todo'[v] \/ Fits(v, f)'
               /\ pc'[v] \in {"write", "replace"} =>
                    Fits(v, f)' /\ (f \in todo'[v] \/ f = target'[v] \/ Ready(v, f)')
    BY <2>3, <2>4, <2>6, <2>7
  <2> QED
    BY <2>4, <2>5, <2>6, <2>7
<1>10. ASSUME NEW w \in Writers, EndWrite(w) PROVE CheckedOK'
  BY <1>10 DEF EndWrite, Return
<1>11. ASSUME NEW w \in Writers, Fail(w) PROVE CheckedOK'
  BY <1>11 DEF Fail, Return
<1>12. CASE UNCHANGED vars
  BY <1>12 DEF vars, writerVars
<1> QED
  BY <1>1, <1>2, <1>3, <1>4, <1>5, <1>6, <1>7, <1>8, <1>9, <1>10, <1>11, <1>12
     DEF Next, Step

(* A call that returns has left every file of its package in place, for    *)
(* any number of documents, failures and repetitions.                      *)
THEOREM WritingCompletes == Spec => WrittenIsComplete
<1>1. Init => CheckedOK
  BY DEF Init, CheckedOK
<1>2. ASSUME TypeOK, JobsOK, CheckedOK, [Next]_vars
      PROVE  [\A w \in Writers : outcome[w] # "written" /\ outcome'[w] = "written" =>
                \A f \in Targets(package[w]) :
                  files[f] = Content(package[w], f) \/ author[f] = Edited]_vars
  <2>1. ASSUME NEW v \in Writers, EndWrite(v), NEW w \in Writers, outcome[w] # "written",
               outcome'[w] = "written", NEW f \in Targets(package[w])
        PROVE  Ready(w, f)
    <3>1. w = v /\ pc[w] = "write" /\ todo[w] = {}
      BY <1>2, <2>1 DEF EndWrite, Return, TypeOK
    <3>2. f \in Files /\ f # target[w]
      BY <1>2, <2>1, <3>1, PackageFiles DEF JobsOK, TypeOK
    <3> QED
      BY <1>2, <3>1, <3>2 DEF CheckedOK
  <2>2. \A w \in Writers : outcome[w] # "written" /\ outcome'[w] = "written" =>
          \E v \in Writers : EndWrite(v)
    BY <1>2 DEF TypeOK, Outcomes, Next, Step, OwnerEdit, Persist, Scan, Render, Preflight,
                EndPreflight, SkipExisting, StartWrite, Replace, Fail, Return, vars, writerVars
  <2> QED
    BY <2>1, <2>2 DEF Ready
<1> QED
  BY <1>1, <1>2, FreeInvariant, CheckedStep, PTL DEF Spec, WrittenIsComplete

-----------------------------------------------------------------------------
(* Refusals have a reason.                                                 *)

(* Every file has an author, and a package's file says what it said; what  *)
(* a scan has seen stays somebody's.                                       *)
AuthorsOK ==
  \A f \in Files :
    /\ files[f] # None => author[f] # None
    /\ author[f] \in Packages =>
         f \in Targets(author[f]) /\ files[f] = Content(author[f], f)

SeenOK == \A w \in Writers : \A f \in seen[w] : f[2] \in Notes /\ author[f] # None

(* Authors change with what they write.                                    *)
LEMMA AuthorsStep == TypeOK /\ JobsOK /\ AuthorsOK /\ SeenOK /\ [Next]_vars => (AuthorsOK /\ SeenOK)'
<1> SUFFICES ASSUME TypeOK, JobsOK, AuthorsOK, SeenOK, [Next]_vars PROVE (AuthorsOK /\ SeenOK)'
  OBVIOUS
<1> USE VaultAssumption DEF TypeOK, AuthorsOK, SeenOK, Goto
<1>1. ASSUME NEW f \in Files, OwnerEdit(f) PROVE (AuthorsOK /\ SeenOK)'
  BY <1>1 DEF OwnerEdit, writerVars
<1>2. ASSUME NEW w \in Writers, NEW k \in Packages, Persist(w, k) PROVE (AuthorsOK /\ SeenOK)'
  BY <1>2 DEF Persist
<1>3. ASSUME NEW w \in Writers, Scan(w) PROVE (AuthorsOK /\ SeenOK)'
  BY <1>3 DEF Scan, Inventory
<1>4. ASSUME NEW w \in Writers, Render(w) PROVE (AuthorsOK /\ SeenOK)'
  BY <1>4 DEF Render, Return
<1>5. ASSUME NEW w \in Writers, Preflight(w) PROVE (AuthorsOK /\ SeenOK)'
  BY <1>5 DEF Preflight, Return
<1>6. ASSUME NEW w \in Writers, EndPreflight(w) PROVE (AuthorsOK /\ SeenOK)'
  BY <1>6 DEF EndPreflight
<1>7. ASSUME NEW w \in Writers, SkipExisting(w) PROVE (AuthorsOK /\ SeenOK)'
  BY <1>7 DEF SkipExisting
<1>8. ASSUME NEW w \in Writers, StartWrite(w) PROVE (AuthorsOK /\ SeenOK)'
  BY <1>8 DEF StartWrite
<1>9. ASSUME NEW w \in Writers, Replace(w) PROVE (AuthorsOK /\ SeenOK)'
  <2>1. package[w] \in Packages /\ target[w] \in Targets(package[w]) /\ target[w] \in Files
    BY <1>9, PackageFiles DEF Replace, JobsOK
  <2> QED
    BY <1>9, <2>1 DEF Replace
<1>10. ASSUME NEW w \in Writers, EndWrite(w) PROVE (AuthorsOK /\ SeenOK)'
  BY <1>10 DEF EndWrite, Return
<1>11. ASSUME NEW w \in Writers, Fail(w) PROVE (AuthorsOK /\ SeenOK)'
  BY <1>11 DEF Fail, Return
<1>12. CASE UNCHANGED vars
  BY <1>12 DEF vars, writerVars
<1> QED
  BY <1>1, <1>2, <1>3, <1>4, <1>5, <1>6, <1>7, <1>8, <1>9, <1>10, <1>11, <1>12
     DEF Next, Step

(* What an unfinished call left behind never refuses the same package      *)
(* again, so a repeated persist goes through.                              *)
THEOREM RepetitionPasses == Spec => RepeatNotRefused
<1> DEFINE Reason(w) ==
      \/ package[w].stale
      \/ \E f \in Files : /\ f[2] \in DOMAIN package[w].text
                         /\ (f[2] \in Notes \/ f[1] = package[w].run)
                         /\ author[f] \notin {None, package[w]}
<1>1. Init => AuthorsOK /\ SeenOK
  BY VaultAssumption DEF Init, AuthorsOK, SeenOK
<1>2. ASSUME TypeOK, JobsOK, AuthorsOK, SeenOK, [Next]_vars
      PROVE  [\A w \in Writers :
                outcome[w] # "refused" /\ outcome'[w] = "refused" => Reason(w)]_vars
  <2>1. ASSUME NEW w \in Writers, Render(w), outcome[w] # "refused", outcome'[w] = "refused"
        PROVE  Reason(w)
    <3>1. package[w] \in Packages /\ (package[w].stale \/ Collides(w))
      BY <1>2, <2>1 DEF Render, JobsOK
    <3>2. ASSUME NEW n \in DOMAIN package[w].text,
                 NEW f \in seen[w] \cap (FilesOf(n) \ Targets(package[w]))
          PROVE  Reason(w)
      <4>1. f \in Files /\ f[2] = n /\ f[2] \in Notes /\ author[f] # None
        BY <1>2, <3>2 DEF FilesOf, SeenOK
      <4>2. author[f] # package[w]
        BY <1>2, <3>1, <3>2, <4>1 DEF AuthorsOK
      <4> QED
        BY <4>1, <4>2
    <3> QED
      BY <3>1, <3>2 DEF Collides
  <2>2. ASSUME NEW w \in Writers, Preflight(w), outcome[w] # "refused", outcome'[w] = "refused"
        PROVE  Reason(w)
    <3>1. PICK f \in todo[w] : files[f] \notin {None, Content(package[w], f)}
      BY <1>2, <2>2 DEF Preflight
    <3>2. package[w] \in Packages /\ f \in Targets(package[w]) /\ f \in Files
      BY <1>2, <2>2, <3>1, PackageFiles DEF Preflight, JobsOK
    <3>3. author[f] \notin {None, package[w]}
      BY <1>2, <3>1, <3>2 DEF AuthorsOK
    <3> QED
      BY <3>2, <3>3, PackageFiles
  <2>3. ASSUME NEW w \in Writers, outcome[w] # "refused", outcome'[w] = "refused"
        PROVE  Render(w) \/ Preflight(w)
    BY <1>2, <2>3 DEF TypeOK, Outcomes, Next, Step, OwnerEdit, Persist, Scan, Render, Preflight,
                EndPreflight, SkipExisting, StartWrite, Replace, EndWrite, Fail, Return, vars,
                writerVars
  <2> QED
    BY <2>1, <2>2, <2>3
<1> QED
  BY <1>1, <1>2, JobsInvariant, AuthorsStep, PTL DEF Spec, RepeatNotRefused

=============================================================================

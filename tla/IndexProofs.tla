---------------------------- MODULE IndexProofs ----------------------------
(***************************************************************************)
(* Proofs about IndexSync, for any notes, runs, commands, faults and       *)
(* bounds that satisfy IndexAssumption.  The types hold for any number of  *)
(* commands, the other properties for one command at a time: two commands  *)
(* refute them, see the README.                                            *)
(***************************************************************************)
EXTENDS IndexSync, TLAPS

(* The places from which a sync uses its scan, works through the notes,    *)
(* and has one of them in hand.                                            *)
Scanned  == {"recreate", "forget", "ensure", "next", "validate", "upsert", "check",
             "save", "discard", "cleanup"}
Working  == {"next", "validate", "upsert", "check", "save", "discard", "cleanup"}
Indexing == {"validate", "upsert", "check", "save", "discard", "cleanup"}

(* The task a command has in hand, and the attempts left for it.           *)
TaskOK(c) ==
  /\ pc[c] = "idle" => job[c] = NoJob
  /\ pc[c] = "pick" => job[c].current = None
  /\ pc[c] \notin {"idle", "pick"} => (job[c].kind = "repairs" <=> job[c].current # None)
  /\ pc[c] \in {"telemetry", "complete", "reschedule"} => job[c].current # None
  /\ \A s \in Snapshot : s \in job[c].queue \/ s = job[c].current => s.attempts < MaxAttempts

(* The paths it has still to do and the one in hand.                       *)
PathOK(c) ==
  /\ pc[c] \in Scanned => \A p \in Existing(job[c].hash) : job[c].text[p] # None
  /\ pc[c] \in Working => job[c].todo \subseteq Existing(job[c].hash)
  /\ pc[c] \in Indexing => job[c].path \in Existing(job[c].hash)
  /\ pc[c] = "validate" => job[c].known[job[c].path] = job[c].hash[job[c].path]
  /\ pc[c] = "cleanup" => job[c].known[job[c].path] \notin {None, job[c].hash[job[c].path]}
  /\ pc[c] \in {"prune", "unrecord"} => job[c].todo \subseteq Existing(job[c].known)
  /\ pc[c] = "unrecord" => job[c].path \in Existing(job[c].known)

PendingOK == \A t \in Tasks : tasks[t].status = "pending" => tasks[t].attempts < MaxAttempts
JobsOK == PendingOK /\ \A c \in Commands : TaskOK(c) /\ PathOK(c)

(* No command runs, nothing is indexed.                                    *)
LEMMA InitJobs == Init => TypeOK /\ JobsOK
BY IndexAssumption
   DEF Init, TypeOK, JobsOK, TaskOK, PathOK, PendingOK, NoNotes, NoJob, Notes, Job, Pcs,
       Versions, Scanned, Working, Indexing, Snapshot

(* The locals of a command are typed.                                      *)
LEMMA JobFields ==
  ASSUME NEW c \in Commands, TypeOK
  PROVE  /\ job[c] \in Job /\ NoJob \in Job /\ NoNotes \in Notes
         /\ {job[c].hash, job[c].text, job[c].known} \subseteq Notes
         /\ job[c].queue \subseteq Snapshot
         /\ job[c].current \in Snapshot \cup {None}
         /\ job[c].todo \subseteq Paths /\ job[c].path \in Paths \cup {None}
BY DEF TypeOK, Job, NoJob, NoNotes, Notes

(* ... and so are their updates.                                           *)
LEMMA JobUpdates ==
  ASSUME NEW c \in Commands, TypeOK
  PROVE  /\ \A j \in Job : [job EXCEPT ![c] = j] \in [Commands -> Job]
         /\ \A k \in {"sync", "rebuild"} : [job EXCEPT ![c].kind = k] \in [Commands -> Job]
         /\ \A n \in Notes : /\ [job EXCEPT ![c].hash = n] \in [Commands -> Job]
                              /\ [job EXCEPT ![c].text = n] \in [Commands -> Job]
         /\ \A ps \in SUBSET Paths : [job EXCEPT ![c].todo = ps] \in [Commands -> Job]
         /\ \A n \in Notes, ps \in SUBSET Paths :
              [job EXCEPT ![c].known = n, ![c].todo = ps] \in [Commands -> Job]
         /\ [job EXCEPT ![c].current = None] \in [Commands -> Job]
         /\ [job EXCEPT ![c].repair = TRUE] \in [Commands -> Job]
<1>0. job \in [Commands -> Job]
  BY DEF TypeOK
<1>1. \A k \in {"sync", "rebuild"} : [job EXCEPT ![c].kind = k] \in [Commands -> Job]
  BY <1>0 DEF Job
<1>2. ASSUME NEW n \in Notes
      PROVE  /\ [job EXCEPT ![c].hash = n] \in [Commands -> Job]
             /\ [job EXCEPT ![c].text = n] \in [Commands -> Job]
  BY <1>0 DEF Job
<1>3. \A ps \in SUBSET Paths : [job EXCEPT ![c].todo = ps] \in [Commands -> Job]
  BY <1>0 DEF Job
<1>4. ASSUME NEW n \in Notes, NEW ps \in SUBSET Paths
      PROVE  [job EXCEPT ![c].known = n, ![c].todo = ps] \in [Commands -> Job]
  <2>1. [job[c] EXCEPT !.known = n, !.todo = ps] \in Job
    BY <1>0 DEF Job
  <2> QED
    BY <1>0, <2>1
<1>5. [job EXCEPT ![c].current = None] \in [Commands -> Job]
  BY <1>0 DEF Job
<1>6. [job EXCEPT ![c].repair = TRUE] \in [Commands -> Job]
  BY <1>0 DEF Job
<1>7. \A j \in Job : [job EXCEPT ![c] = j] \in [Commands -> Job]
  BY <1>0
<1> QED
  BY <1>1, <1>2, <1>3, <1>4, <1>5, <1>6, <1>7

(* Every step keeps the locals typed; one case per action.                 *)
LEMMA JobStep ==
  TypeOK /\ JobsOK /\ [Next]_vars => job' \in [Commands -> Job]
<1> SUFFICES ASSUME TypeOK, JobsOK, [Next]_vars PROVE job' \in [Commands -> Job]
  OBVIOUS
<1>1. CASE (\E p \in Paths : Edit(p)) \/ LosePoints \/ (\E t \in Tasks : OpenTask(t)
          \/ BecomeDue(t))
  BY <1>1 DEF Edit, LosePoints, OpenTask, BecomeDue, TypeOK
<1>2. ASSUME NEW c \in Commands, StartSync(c) PROVE job' \in [Commands -> Job]
  BY <1>2, JobFields, JobUpdates DEF StartSync
<1>3. ASSUME NEW c \in Commands, StartRebuild(c) \/ EndRepairs(c)
       PROVE job' \in [Commands -> Job]
  BY <1>3, JobFields, JobUpdates DEF StartRebuild, EndRepairs, End
<1>4. ASSUME NEW c \in Commands, NEW r \in Runs, StartRepairs(c, r) PROVE job' \in [Commands -> Job]
  <2>1. {[task |-> t, attempts |-> tasks[t].attempts] :
             t \in {u \in Tasks : u[1] = r /\ tasks[u].status = "pending" /\ tasks[u].due}}
         \in SUBSET Snapshot
    BY DEF Snapshot, TypeOK
  <2>2. \A Q \in SUBSET Snapshot : [NoJob EXCEPT !.kind = "repairs", !.queue = Q] \in Job
    BY DEF NoJob, NoNotes, Notes, Job
  <2> QED
    BY <1>4, <2>1, <2>2, JobUpdates DEF StartRepairs
<1>5. ASSUME NEW c \in Commands, TakeTask(c) PROVE job' \in [Commands -> Job]
  <2>1. \A Q \in SUBSET Snapshot, s \in Snapshot :
          [NoJob EXCEPT !.kind = "repairs", !.queue = Q, !.current = s] \in Job
    BY DEF NoJob, NoNotes, Notes, Job
  <2>2. PICK s \in job[c].queue : job' = [job EXCEPT ![c] =
          [NoJob EXCEPT !.kind = "repairs", !.queue = job[c].queue \ {s}, !.current = s]]
    BY <1>5 DEF TakeTask
  <2>3. job[c].queue \ {s} \in SUBSET Snapshot /\ s \in Snapshot
    BY <2>2, JobFields
  <2> QED
    BY <2>1, <2>2, <2>3, JobUpdates
<1>6. ASSUME NEW c \in Commands, RepairTelemetry(c) \/ Upsert(c) \/ CheckNew(c) \/
             SaveRecord(c) \/ EndPrune(c)
       PROVE job' \in [Commands -> Job]
  BY <1>6 DEF RepairTelemetry, Upsert, CheckNew, SaveRecord, EndPrune, TypeOK
<1>7. ASSUME NEW c \in Commands, CompleteTask(c) PROVE job' \in [Commands -> Job]
  <2>1. \/ job' = [job EXCEPT ![c].current = None]
        \/ job' = [job EXCEPT ![c] = NoJob]
    BY <1>7 DEF CompleteTask, Store, Dies, End
  <2> QED
    BY <2>1, JobFields, JobUpdates
<1>8. ASSUME NEW c \in Commands, RescheduleTask(c) PROVE job' \in [Commands -> Job]
  <2>1. \/ job' = [job EXCEPT ![c].current = None]
        \/ job' = [job EXCEPT ![c] = NoJob]
    BY <1>8 DEF RescheduleTask, Store, Dies, End
  <2> QED
    BY <2>1, JobFields, JobUpdates
<1>9. ASSUME NEW c \in Commands, TakeInventory(c) PROVE job' \in [Commands -> Job]
  <2>1. vault \in Notes /\ NoNotes \in Notes
    BY JobFields DEF TypeOK
  <2>2. \/ job' = [job EXCEPT ![c].hash = vault]
        \/ job' = [job EXCEPT ![c].hash = NoNotes]
    BY <1>9 DEF TakeInventory
  <2>3. job \in [Commands -> Job]
    BY DEF TypeOK
  <2>4. [job EXCEPT ![c].hash = vault] \in [Commands -> Job]
    BY <2>1, <2>3 DEF Job
  <2>5. [job EXCEPT ![c].hash = NoNotes] \in [Commands -> Job]
    BY <2>1, <2>3 DEF Job
  <2> QED
    BY <2>2, <2>3, <2>4, <2>5
<1>10. ASSUME NEW c \in Commands, ReadNotes(c) PROVE job' \in [Commands -> Job]
  <2> DEFINE text == [p \in Paths |-> IF job[c].hash[p] = None THEN None ELSE vault[p]]
  <2>1. text \in Notes
    BY JobFields DEF Notes, TypeOK
  <2>2. \/ job' = [job EXCEPT ![c].text = text]
        \/ job' = job
        \/ job' = [job EXCEPT ![c] = NoJob]
    BY <1>10 DEF ReadNotes, SyncRaises, End
  <2> HIDE DEF text
  <2>3. job \in [Commands -> Job]
    BY DEF TypeOK
  <2>4. [job EXCEPT ![c].text = text] \in [Commands -> Job]
    BY <2>1, <2>3 DEF Job
  <2> QED
    BY <2>2, <2>3, <2>4, JobFields
<1>11. ASSUME NEW c \in Commands, Recreate(c) PROVE job' \in [Commands -> Job]
  <2>1. Existing(records) \in SUBSET Paths
    BY DEF Existing
  <2>2. \/ job' = [job EXCEPT ![c].todo = Existing(records)]
        \/ job' = [job EXCEPT ![c].repair = TRUE]
    BY <1>11 DEF Recreate, GiveUp
  <2>3. job \in [Commands -> Job]
    BY DEF TypeOK
  <2>4. [job EXCEPT ![c].todo = Existing(records)] \in [Commands -> Job]
    BY <2>1, <2>3 DEF Job
  <2>5. [job EXCEPT ![c].repair = TRUE] \in [Commands -> Job]
    BY <2>3 DEF Job
  <2> QED
    BY <2>2, <2>3, <2>4, <2>5
<1>12. ASSUME NEW c \in Commands, ForgetRecord(c) PROVE job' \in [Commands -> Job]
  <2>1. PICK p \in job[c].todo : \/ job' = [job EXCEPT ![c].todo = job[c].todo \ {p}]
                                 \/ job' = [job EXCEPT ![c].repair = TRUE]
    BY <1>12 DEF ForgetRecord, Store, GiveUp
  <2>2. p \in Paths /\ job[c].todo \ {p} \in SUBSET Paths
    BY JobFields
  <2>3. job \in [Commands -> Job]
    BY DEF TypeOK
  <2>4. [job EXCEPT ![c].todo = job[c].todo \ {p}] \in [Commands -> Job]
    BY <2>2, <2>3 DEF Job
  <2>5. [job EXCEPT ![c].repair = TRUE] \in [Commands -> Job]
    BY <2>3 DEF Job
  <2> QED
    BY <2>3, <2>4, <2>5, <2>1
<1>13. ASSUME NEW c \in Commands, Ensure(c) PROVE job' \in [Commands -> Job]
  <2>1. Existing(job[c].hash) \in SUBSET Paths
    BY DEF Existing
  <2>2. \/ job' = [job EXCEPT ![c].todo = Existing(job[c].hash)]
        \/ job' = [job EXCEPT ![c].repair = TRUE]
    BY <1>13 DEF Ensure, Qdrant, GiveUp
  <2>3. job \in [Commands -> Job]
    BY DEF TypeOK
  <2>4. [job EXCEPT ![c].todo = Existing(job[c].hash)] \in [Commands -> Job]
    BY <2>1, <2>3 DEF Job
  <2>5. [job EXCEPT ![c].repair = TRUE] \in [Commands -> Job]
    BY <2>3 DEF Job
  <2> QED
    BY <2>2, <2>3, <2>4, <2>5
<1>14. ASSUME NEW c \in Commands, GetRecord(c) PROVE job' \in [Commands -> Job]
  <2>0. records \in Notes /\ job \in [Commands -> Job]
    BY DEF TypeOK
  <2>1. \A p \in Paths : [job[c].known EXCEPT ![p] = records[p]] \in Notes
    BY <2>0, JobFields DEF Notes
  <2>2. ASSUME NEW p \in Paths,
               job' = [job EXCEPT ![c].todo = @ \ {p}, ![c].path = p, ![c].known[p] = records[p]]
        PROVE  job' \in [Commands -> Job]
    <3>1. [job[c] EXCEPT !.todo = @ \ {p}, !.path = p, !.known = [@ EXCEPT ![p] = records[p]]]
            \in Job
      BY <2>1, JobFields DEF Job
    <3> QED
      BY <2>0, <2>2, <3>1
  <2>3. \/ \E p \in Paths : job' = [job EXCEPT ![c].todo = @ \ {p}, ![c].path = p,
                                              ![c].known[p] = records[p]]
        \/ job' = job
        \/ job' = [job EXCEPT ![c] = NoJob]
    BY <1>14, JobFields DEF GetRecord, Store, SyncRaises, End
  <2>4. CASE \E p \in Paths : job' = [job EXCEPT ![c].todo = @ \ {p}, ![c].path = p,
                                                ![c].known[p] = records[p]]
    BY <2>2, <2>4
  <2>5. CASE job' = job \/ job' = [job EXCEPT ![c] = NoJob]
    BY <2>0, <2>5, JobFields
  <2> QED
    BY <2>3, <2>4, <2>5
<1>15. ASSUME NEW c \in Commands, ValidateExisting(c) PROVE job' \in [Commands -> Job]
  BY <1>15, JobFields, JobUpdates DEF ValidateExisting, SyncRaises, End, TypeOK
<1>16. ASSUME NEW c \in Commands, Discard(c) PROVE job' \in [Commands -> Job]
  BY <1>16, JobFields, JobUpdates DEF Discard
<1>17. ASSUME NEW c \in Commands, Cleanup(c) \/ DeleteRecord(c) \/ EnqueueRepair(c)
       PROVE job' \in [Commands -> Job]
  BY <1>17, JobFields, JobUpdates DEF Cleanup, DeleteRecord, EnqueueRepair, Qdrant,
     TypeOK, Store
<1>18. ASSUME NEW c \in Commands, ListRecords(c) PROVE job' \in [Commands -> Job]
  <2> DEFINE rest == Existing(records) \ Existing(job[c].hash)
  <2>1. records \in Notes /\ rest \in SUBSET Paths
    BY DEF Existing, TypeOK
  <2>2. \/ job' = [job EXCEPT ![c].known = records, ![c].todo = rest]
        \/ job' = job
        \/ job' = [job EXCEPT ![c] = NoJob]
    BY <1>18 DEF ListRecords, Store, SyncRaises, End
  <2> HIDE DEF rest
  <2>3. job \in [Commands -> Job]
    BY DEF TypeOK
  <2>4. [job[c] EXCEPT !.known = records, !.todo = rest] \in Job
    BY <2>1, <2>3 DEF Job
  <2>5. [job EXCEPT ![c].known = records, ![c].todo = rest] \in [Commands -> Job]
    BY <2>4, <2>3
  <2> QED
    BY <2>2, <2>3, <2>5, JobFields
<1>19. ASSUME NEW c \in Commands, Prune(c) PROVE job' \in [Commands -> Job]
  <2>1. \A p \in Paths : /\ [job[c] EXCEPT !.todo = @ \ {p}, !.path = p] \in Job
                           /\ [job[c] EXCEPT !.todo = @ \ {p}, !.path = p, !.repair = TRUE] \in Job
    BY JobFields DEF Job
  <2>2. PICK p \in job[c].todo :
          \/ job' = [job EXCEPT ![c] = [job[c] EXCEPT !.todo = @ \ {p}, !.path = p]]
          \/ job' = [job EXCEPT ![c] =
               [job[c] EXCEPT !.todo = @ \ {p}, !.path = p, !.repair = TRUE]]
    BY <1>19 DEF Prune, Qdrant
  <2>3. p \in Paths
    BY <2>2, JobFields
  <2> QED
    BY <2>1, <2>2, <2>3, JobUpdates
<1>20. ASSUME NEW c \in Commands, Report(c) \/ Crash(c)
       PROVE job' \in [Commands -> Job]
  BY <1>20, JobFields, JobUpdates DEF Report, Crash, End, TypeOK, Dies
<1>21. CASE UNCHANGED vars
  BY <1>21 DEF vars, TypeOK
<1> QED
  BY <1>1, <1>2, <1>3, <1>4, <1>5, <1>6, <1>7, <1>8, <1>9, <1>10, <1>11, <1>12, <1>13,
     <1>14, <1>15, <1>16, <1>17, <1>18, <1>19, <1>20, <1>21
     DEF Next, Start, RepairStep, ScanStep, SyncStep

(* The locals by name.                                                     *)
LEMMA JobDomain ==
  ASSUME NEW c \in Commands, TypeOK
  PROVE  DOMAIN job[c] = {"kind", "queue", "current", "hash", "text", "known", "todo",
                          "path", "repair"}
BY DEF TypeOK, Job

(* The parts of TypeOK.                                                    *)
Stores   == /\ vault \in Notes /\ records \in Notes
            /\ points \in [Ids -> Versions \cup {None}]
Counters == /\ pc \in [Commands -> Pcs]
            /\ edits \in 0 .. MaxEdits
            /\ failures \in 0 .. MaxFailures
            /\ opens \in 0 .. MaxOpens
Repairs  == /\ tasks \in [Tasks -> [status : {"none", "pending", "completed", "failed"},
                                    attempts : 0 .. MaxAttempts, due : BOOLEAN]]
            /\ tries \in [Tasks -> 0 .. MaxAttempts + 1]

(* Only notes and generations are stored.                                  *)
LEMMA StoresStep ==
  TypeOK /\ JobsOK /\ Stores /\ Counters /\ [Next]_vars => Stores'
<1> SUFFICES ASSUME TypeOK, JobsOK, Stores, Counters, [Next]_vars PROVE Stores'
  OBVIOUS
<1> USE DEF Stores, Notes
<1>1. ASSUME NEW p \in Paths, Edit(p) PROVE Stores'
  BY <1>1, IndexAssumption DEF Edit, Counters, bounds, history, Versions
<1>2. CASE LosePoints \/ (\E t \in Tasks : OpenTask(t) \/ BecomeDue(t))
  BY <1>2 DEF LosePoints, OpenTask, BecomeDue, Fault, bounds, history
<1>3. ASSUME NEW c \in Commands, StartSync(c) \/ StartRebuild(c) \/
             (\E r \in Runs : StartRepairs(c, r)) \/ TakeTask(c) \/ EndRepairs(c) \/
             RepairTelemetry(c)
       PROVE Stores'
  BY <1>3 DEF StartSync, StartRebuild, StartRepairs, TakeTask, EndRepairs,
     RepairTelemetry, Goto, End, Works, Fault, bounds, history
<1>4. ASSUME NEW c \in Commands, CompleteTask(c) \/ RescheduleTask(c) \/
             TakeInventory(c) \/ ReadNotes(c) \/ Recreate(c) \/ ForgetRecord(c)
       PROVE Stores'
  BY <1>4 DEF CompleteTask, RescheduleTask, TakeInventory, ReadNotes, Recreate,
     ForgetRecord, Goto, Works, Fault, Store, Dies, End, AfterFailure, SyncRaises,
     GiveUp, bounds, history
<1>5. ASSUME NEW c \in Commands, Ensure(c) \/ GetRecord(c) \/ ValidateExisting(c) \/
             CheckNew(c) \/ Discard(c) \/ Cleanup(c)
       PROVE Stores'
  BY <1>5 DEF Ensure, GetRecord, ValidateExisting, CheckNew, Discard, Cleanup, GiveUp,
     Goto, Works, Fault, Qdrant, Store, SyncRaises, End, Old, New, Without, bounds,
     history
<1>6. ASSUME NEW c \in Commands, Upsert(c) PROVE Stores'
  <2>1. job[c].text[job[c].path] \in Versions
    BY <1>6, JobFields DEF Upsert, JobsOK, PathOK, Indexing, Scanned, Existing, Notes
  <2> QED
    BY <1>6, <2>1 DEF Upsert, New, Qdrant, history, bounds
<1>7. ASSUME NEW c \in Commands, SaveRecord(c) PROVE Stores'
  <2>1. New(c)[2] \in Versions
    BY <1>7, JobFields DEF SaveRecord, New, JobsOK, PathOK, Indexing, Existing, Notes
  <2> QED
    BY <1>7, <2>1 DEF SaveRecord, Store, history, bounds
<1>8. ASSUME NEW c \in Commands, ListRecords(c) \/ Prune(c) \/ DeleteRecord(c) \/
             EndPrune(c) \/ EnqueueRepair(c) \/ Report(c)
       PROVE Stores'
  BY <1>8 DEF ListRecords, Prune, DeleteRecord, EndPrune, EnqueueRepair, Report, Goto,
     Works, Fault, Store, SyncRaises, End, Without, Qdrant, bounds, history
<1>9. ASSUME NEW c \in Commands, Crash(c) PROVE Stores'
  BY <1>9 DEF Crash, InHand, New, Old, Goto, Works, Fault, Dies, End, bounds, history
<1>10. CASE UNCHANGED vars
  BY <1>10 DEF vars, bounds, history
<1> QED
  BY <1>1, <1>2, <1>3, <1>4, <1>5, <1>6, <1>7, <1>8, <1>9, <1>10
     DEF Next, Start, RepairStep, ScanStep, SyncStep

(* The bounds hold.                                                        *)
LEMMA CountersStep ==
  Counters /\ [Next]_vars => Counters'
<1> SUFFICES ASSUME Counters, [Next]_vars PROVE Counters'
  OBVIOUS
<1> USE IndexAssumption DEF Counters, Pcs
<1>1. CASE (\E p \in Paths : Edit(p)) \/ LosePoints \/ (\E t \in Tasks : OpenTask(t)
          \/ BecomeDue(t))
  BY <1>1 DEF Edit, LosePoints, OpenTask, BecomeDue, Fault, bounds, history
<1>2. ASSUME NEW c \in Commands, StartSync(c) \/ StartRebuild(c) \/
             (\E r \in Runs : StartRepairs(c, r))
       PROVE Counters'
  BY <1>2 DEF StartSync, StartRebuild, StartRepairs, Goto, bounds, history
<1>3. ASSUME NEW c \in Commands, TakeTask(c) PROVE Counters'
  BY <1>3 DEF TakeTask, Goto, bounds, history
<1>4. ASSUME NEW c \in Commands, EndRepairs(c) \/ RepairTelemetry(c) PROVE Counters'
  BY <1>4 DEF EndRepairs, RepairTelemetry, Goto, End, Works, Fault, bounds, history
<1>5. ASSUME NEW c \in Commands, CompleteTask(c) \/ RescheduleTask(c) \/
             TakeInventory(c) \/ ReadNotes(c) \/ Recreate(c) \/ ForgetRecord(c)
       PROVE Counters'
  BY <1>5 DEF CompleteTask, RescheduleTask, TakeInventory, ReadNotes, Recreate,
     ForgetRecord, Goto, Works, Fault, Store, Dies, End, AfterFailure, SyncRaises,
     GiveUp, bounds, history
<1>6. ASSUME NEW c \in Commands, Ensure(c) PROVE Counters'
  BY <1>6 DEF Ensure, GiveUp, Goto, Works, Fault, Qdrant, bounds, history
<1>7. ASSUME NEW c \in Commands, GetRecord(c) PROVE Counters'
  BY <1>7 DEF GetRecord, Goto, Works, Fault, Store, SyncRaises, End, bounds, history
<1>8. ASSUME NEW c \in Commands, ValidateExisting(c) PROVE Counters'
  BY <1>8 DEF ValidateExisting, Old, Goto, Works, Fault, SyncRaises, End, bounds,
     history
<1>9. ASSUME NEW c \in Commands, Upsert(c) \/ CheckNew(c) \/ SaveRecord(c) \/
             Discard(c) \/ Cleanup(c) \/ ListRecords(c)
       PROVE Counters'
  BY <1>9 DEF Upsert, CheckNew, SaveRecord, Discard, Cleanup, ListRecords, New, Goto,
     Works, Fault, Qdrant, Old, Store, Without, SyncRaises, End, bounds, history
<1>10. ASSUME NEW c \in Commands, Prune(c) PROVE Counters'
  BY <1>10 DEF Prune, Without, Goto, Works, Fault, Qdrant, bounds, history
<1>11. ASSUME NEW c \in Commands, DeleteRecord(c) \/ EndPrune(c) PROVE Counters'
  BY <1>11 DEF DeleteRecord, EndPrune, Goto, Works, Fault, Store, bounds, history
<1>12. ASSUME NEW c \in Commands, EnqueueRepair(c) \/ Report(c) \/ Crash(c)
       PROVE Counters'
  BY <1>12 DEF EnqueueRepair, Report, Crash, Goto, Works, Fault, Store, SyncRaises,
     End, InHand, New, Old, Dies, bounds, history
<1>13. CASE UNCHANGED vars
  BY <1>13 DEF vars, bounds, history
<1> QED
  BY <1>1, <1>2, <1>3, <1>4, <1>5, <1>6, <1>7, <1>8, <1>9, <1>10, <1>11, <1>12, <1>13
     DEF Next, Start, RepairStep, ScanStep, SyncStep

(* A task is rescheduled below its limit.                                  *)
LEMMA RepairsStep ==
  TypeOK /\ JobsOK /\ Repairs /\ [Next]_vars => Repairs'
<1> SUFFICES ASSUME TypeOK, JobsOK, Repairs, [Next]_vars PROVE Repairs'
  OBVIOUS
<1> USE DEF Repairs
<1>1. ASSUME NEW p \in Paths, Edit(p) PROVE Repairs'
  BY <1>1 DEF Edit, bounds, history
<1>2. ASSUME LosePoints PROVE Repairs'
  BY <1>2 DEF LosePoints, Fault, bounds, history
<1>3. ASSUME NEW t \in Tasks, OpenTask(t) PROVE Repairs'
  BY <1>3, IndexAssumption DEF OpenTask
<1>4. ASSUME NEW t \in Tasks, BecomeDue(t) PROVE Repairs'
  BY <1>4 DEF BecomeDue, bounds, history
<1>5. ASSUME NEW c \in Commands, StartSync(c) \/ StartRebuild(c) \/
             (\E r \in Runs : StartRepairs(c, r)) \/ EndRepairs(c) \/
             RepairTelemetry(c) \/ TakeInventory(c)
       PROVE Repairs'
  BY <1>5 DEF StartSync, StartRebuild, StartRepairs, EndRepairs, RepairTelemetry,
     TakeInventory, Goto, End, Works, Fault, bounds, history
<1>6. ASSUME NEW c \in Commands, TakeTask(c) PROVE Repairs'
  <2>1. PICK s \in Snapshot :
          tries' = [tries EXCEPT ![s.task] = IF @ > MaxAttempts THEN @ ELSE @ + 1]
    BY <1>6, JobFields DEF TakeTask
  <2>2. tasks' = tasks
    BY <1>6 DEF TakeTask
  <2>3. tries[s.task] \in 0 .. MaxAttempts + 1
    BY DEF Snapshot
  <2>4. (IF tries[s.task] > MaxAttempts THEN tries[s.task] ELSE tries[s.task] + 1)
          \in 0 .. MaxAttempts + 1
    BY <2>3, IndexAssumption
  <2> QED
    BY <2>1, <2>2, <2>4
<1>7. ASSUME NEW c \in Commands, CompleteTask(c) PROVE Repairs'
  <2>1. /\ \/ tasks' = tasks
           \/ tasks' = [tasks EXCEPT ![job[c].current.task].status = "completed"]
        /\ \/ tries' = tries
           \/ tries' = [t \in Tasks |-> IF job[c].current # None /\ job[c].current.task = t
                                         THEN 0 ELSE tries[t]]
    BY <1>7 DEF CompleteTask, Store, Dies
  <2> QED
    BY <2>1, IndexAssumption
<1>8. ASSUME NEW c \in Commands, RescheduleTask(c) PROVE Repairs'
  <2>1. /\ job[c].current.task \in Tasks /\ job[c].current.attempts \in 0 .. MaxAttempts
        /\ job[c].current.attempts < MaxAttempts
    BY <1>8, JobFields DEF RescheduleTask, JobsOK, TaskOK, Snapshot
  <2>2. AfterFailure(job[c].current.task, job[c].current.attempts + 1)
          \in [status : {"none", "pending", "completed", "failed"},
              attempts : 0 .. MaxAttempts, due : BOOLEAN]
    <3>1. tasks[job[c].current.task] \in [status : {"none", "pending", "completed", "failed"},
                                         attempts : 0 .. MaxAttempts, due : BOOLEAN]
      BY <2>1
    <3>2. job[c].current.attempts + 1 \in 0 .. MaxAttempts
      BY <2>1, IndexAssumption
    <3> QED
      BY <3>1, <3>2 DEF AfterFailure
  <2> QED
    BY <1>8, <2>1, <2>2, IndexAssumption DEF RescheduleTask, Store, Dies, End, bounds
<1>9. ASSUME NEW c \in Commands, ReadNotes(c) \/ Recreate(c) \/ ForgetRecord(c) \/
             Ensure(c) \/ GetRecord(c) \/ ValidateExisting(c)
       PROVE Repairs'
  BY <1>9 DEF ReadNotes, Recreate, ForgetRecord, Ensure, GetRecord, ValidateExisting,
     Goto, SyncRaises, End, GiveUp, Works, Fault, Store, Qdrant, Old, bounds, history
<1>10. ASSUME NEW c \in Commands, Upsert(c) \/ CheckNew(c) \/ SaveRecord(c) \/
             Discard(c) \/ Cleanup(c) \/ ListRecords(c)
       PROVE Repairs'
  BY <1>10 DEF Upsert, CheckNew, SaveRecord, Discard, Cleanup, ListRecords, New, Goto,
     Works, Fault, Qdrant, Old, Store, Without, SyncRaises, End, bounds, history
<1>11. ASSUME NEW c \in Commands, Prune(c) \/ DeleteRecord(c) \/ EndPrune(c) \/
             Report(c)
       PROVE Repairs'
  BY <1>11 DEF Prune, DeleteRecord, EndPrune, Report, Without, Goto, Works, Fault,
     Qdrant, Store, End, bounds, history
<1>12. ASSUME NEW c \in Commands, EnqueueRepair(c) PROVE Repairs'
  <2>1. \/ tasks' = tasks
        \/ tasks' = [tasks EXCEPT ![job[c].current.task] =
                                   [status |-> "pending", attempts |-> 0, due |-> TRUE]]
    BY <1>12 DEF EnqueueRepair, Store
  <2>2. [status |-> "pending", attempts |-> 0, due |-> TRUE]
          \in [status : {"none", "pending", "completed", "failed"},
              attempts : 0 .. MaxAttempts, due : BOOLEAN]
    BY IndexAssumption
  <2>3. tasks' \in [Tasks -> [status : {"none", "pending", "completed", "failed"},
                             attempts : 0 .. MaxAttempts, due : BOOLEAN]]
    BY <2>1, <2>2
  <2>4. tries' = tries
    BY <1>12 DEF EnqueueRepair, history
  <2> QED
    BY <2>3, <2>4
<1>13. ASSUME NEW c \in Commands, Crash(c) PROVE Repairs'
  BY <1>13, IndexAssumption DEF Crash, Dies
<1>14. CASE UNCHANGED vars
  BY <1>14 DEF vars, bounds, history
<1> QED
  BY <1>1, <1>2, <1>3, <1>4, <1>5, <1>6, <1>7, <1>8, <1>9, <1>10, <1>11, <1>12, <1>13,
     <1>14
     DEF Next, Start, RepairStep, ScanStep, SyncStep

(* Only ids leak.                                                          *)
LEMMA LeakedStep ==
  TypeOK /\ JobsOK /\ leaked \subseteq Ids /\ [Next]_vars => leaked' \subseteq Ids
<1> SUFFICES ASSUME TypeOK, JobsOK, leaked \subseteq Ids, [Next]_vars PROVE leaked' \subseteq Ids
  OBVIOUS
<1>1. CASE (\E p \in Paths : Edit(p)) \/ LosePoints \/ (\E t \in Tasks : OpenTask(t)
          \/ BecomeDue(t))
  BY <1>1 DEF Edit, LosePoints, OpenTask, BecomeDue, Fault, bounds, history
<1>2. ASSUME NEW c \in Commands, StartSync(c) \/ StartRebuild(c) \/
             (\E r \in Runs : StartRepairs(c, r)) \/ TakeTask(c) \/ EndRepairs(c) \/
             RepairTelemetry(c)
       PROVE leaked' \subseteq Ids
  BY <1>2 DEF StartSync, StartRebuild, StartRepairs, TakeTask, EndRepairs,
     RepairTelemetry, Goto, End, Works, Fault, bounds, history
<1>3. ASSUME NEW c \in Commands, CompleteTask(c) \/ RescheduleTask(c) \/
             TakeInventory(c) \/ ReadNotes(c) \/ Recreate(c) \/ ForgetRecord(c)
       PROVE leaked' \subseteq Ids
  BY <1>3 DEF CompleteTask, RescheduleTask, TakeInventory, ReadNotes, Recreate,
     ForgetRecord, Goto, Works, Fault, Store, Dies, End, AfterFailure, SyncRaises,
     GiveUp, bounds, history
<1>4. ASSUME NEW c \in Commands, Ensure(c) \/ GetRecord(c) \/ ValidateExisting(c) \/
             Upsert(c) \/ CheckNew(c) \/ SaveRecord(c)
       PROVE leaked' \subseteq Ids
  BY <1>4 DEF Ensure, GetRecord, ValidateExisting, Upsert, CheckNew, SaveRecord,
     GiveUp, Goto, Works, Fault, Qdrant, Store, SyncRaises, End, Old, New, bounds,
     history
<1>5. ASSUME NEW c \in Commands, Discard(c) PROVE leaked' \subseteq Ids
  <2>1. New(c) \in Ids
    BY <1>5, JobFields DEF Discard, New, Ids, JobsOK, PathOK, Indexing, Existing, Notes
  <2> QED
    BY <1>5, <2>1 DEF Discard, Qdrant
<1>6. ASSUME NEW c \in Commands, Cleanup(c) PROVE leaked' \subseteq Ids
  <2>1. Old(c) \in Ids
    BY <1>6, JobFields DEF Cleanup, Old, Ids, JobsOK, PathOK, Indexing, Existing, Notes
  <2> QED
    BY <1>6, <2>1 DEF Cleanup, Qdrant
<1>7. ASSUME NEW c \in Commands, ListRecords(c) \/ Prune(c) \/ DeleteRecord(c) \/
             EndPrune(c) \/ EnqueueRepair(c) \/ Report(c)
       PROVE leaked' \subseteq Ids
  BY <1>7 DEF ListRecords, Prune, DeleteRecord, EndPrune, EnqueueRepair, Report, Goto,
     Works, Fault, Store, SyncRaises, End, Without, Qdrant, bounds, history
<1>8. ASSUME NEW c \in Commands, Crash(c) PROVE leaked' \subseteq Ids
  <2>1. InHand(c) \subseteq Ids
    BY <1>8, JobFields DEF InHand, New, Old, Ids, JobsOK, PathOK, Indexing, Existing, Notes
  <2> QED
    BY <1>8, <2>1 DEF Crash
<1>9. CASE UNCHANGED vars
  BY <1>9 DEF vars, bounds, history
<1> QED
  BY <1>1, <1>2, <1>3, <1>4, <1>5, <1>6, <1>7, <1>8, <1>9
     DEF Next, Start, RepairStep, ScanStep, SyncStep

(* Every step keeps the types.                                             *)
LEMMA TypeStep == TypeOK /\ JobsOK /\ [Next]_vars => TypeOK'
<1> SUFFICES ASSUME TypeOK, JobsOK, [Next]_vars PROVE TypeOK'
  OBVIOUS
<1>1. Stores /\ Counters /\ Repairs /\ leaked \subseteq Ids
  BY DEF TypeOK, Stores, Counters, Repairs
<1> QED
  BY <1>1, JobStep, StoresStep, CountersStep, RepairsStep, LeakedStep
     DEF TypeOK, Stores, Counters, Repairs

-----------------------------------------------------------------------------
(* What a command holds.                                                   *)

(* What TypeOK says, for provers that need not look into Job.              *)
LEMMA Typed ==
  TypeOK =>
    /\ job \in [Commands -> Job] /\ pc \in [Commands -> Pcs]
    /\ records \in [Paths -> Versions \cup {None}]
    /\ vault \in [Paths -> Versions \cup {None}]
    /\ \A c \in Commands :
         /\ DOMAIN job[c] = {"kind", "queue", "current", "hash", "text", "known", "todo",
                             "path", "repair"}
         /\ job[c].hash \in [Paths -> Versions \cup {None}]
         /\ job[c].text \in [Paths -> Versions \cup {None}]
         /\ job[c].known \in [Paths -> Versions \cup {None}]
         /\ job[c].queue \subseteq Snapshot
         /\ job[c].current \in Snapshot \cup {None}
         /\ job[c].todo \subseteq Paths /\ job[c].path \in Paths \cup {None}
BY JobFields, JobDomain DEF TypeOK, Notes

(* ... and for the points.                                                 *)
LEMMA TypedPoints == TypeOK => points \in [Ids -> Versions \cup {None}]
BY DEF TypeOK

(* A scan or a sync keeps the task it runs for, until it is over.          *)
Kept(c) == /\ job'[c].kind = job[c].kind
           /\ job'[c].queue = job[c].queue
           /\ job'[c].current = job[c].current

Syncing == {"inventory", "read", "recreate", "forget", "ensure", "next", "validate", "upsert",
            "check", "save", "discard", "cleanup", "prune", "unrecord", "enqueue", "report"}

TaskKept(c) ==
  /\ pc[c] \in Syncing
  /\ \A d \in Commands : d # c => pc'[d] = pc[d] /\ job'[d] = job[d]
  /\ \/ pc'[c] = "idle" /\ job'[c] = NoJob /\ job[c].kind # "repairs"
     \/ Kept(c) /\ pc'[c] \in Syncing
     \/ Kept(c) /\ pc'[c] \in {"complete", "reschedule"} /\ job[c].kind = "repairs"

(* Prune takes one path off the list and touches no other local but path   *)
(* and repair.                                                             *)
LEMMA PruneJob ==
  ASSUME TypeOK, NEW c \in Commands, Prune(c)
  PROVE  /\ pc[c] = "prune" /\ \A d \in Commands : d # c => pc'[d] = pc[d] /\ job'[d] = job[d]
         /\ Kept(c) /\ job'[c].hash = job[c].hash /\ job'[c].text = job[c].text
         /\ job'[c].known = job[c].known
         /\ job'[c].path \in job[c].todo /\ job'[c].todo = job[c].todo \ {job'[c].path}
         /\ \/ pc'[c] = "unrecord" /\ job'[c].repair = job[c].repair
                /\ points' = Without(<<job'[c].path, job[c].known[job'[c].path]>>)
            \/ pc'[c] = "prune" /\ job'[c].repair
                /\ points' \in {points, Without(<<job'[c].path, job[c].known[job'[c].path]>>)}
<1>1. PICK p \in job[c].todo :
        \/ /\ job' = [job EXCEPT ![c] = [job[c] EXCEPT !.todo = @ \ {p}, !.path = p]]
           /\ points' = Without(<<p, job[c].known[p]>>)
           /\ pc' = [pc EXCEPT ![c] = "unrecord"]
        \/ /\ job' = [job EXCEPT ![c] =
                [job[c] EXCEPT !.todo = @ \ {p}, !.path = p, !.repair = TRUE]]
           /\ points' \in {points, Without(<<p, job[c].known[p]>>)}
           /\ pc' = pc
  BY DEF Prune, Qdrant, Goto
<1>2. pc[c] = "prune"
  BY DEF Prune
<1>3. ASSUME NEW j, job' = [job EXCEPT ![c] = j]
      PROVE  job'[c] = j /\ \A d \in Commands : d # c => job'[d] = job[d]
  BY <1>3, Typed
<1>4. PICK q \in {job[c].repair, TRUE} :
        /\ job'[c] = [job[c] EXCEPT !.todo = job[c].todo \ {p}, !.path = p, !.repair = q]
        /\ \A d \in Commands : d # c => job'[d] = job[d]
        /\ \/ /\ q = job[c].repair /\ pc' = [pc EXCEPT ![c] = "unrecord"]
              /\ points' = Without(<<p, job[c].known[p]>>)
           \/ /\ q = TRUE /\ pc' = pc
              /\ points' \in {points, Without(<<p, job[c].known[p]>>)}
  <2>1. [job[c] EXCEPT !.todo = @ \ {p}, !.path = p]
          = [job[c] EXCEPT !.todo = job[c].todo \ {p}, !.path = p, !.repair = job[c].repair]
    BY Typed
  <2> QED
    BY <1>1, <1>3, <2>1
<1>5. /\ Kept(c) /\ job'[c].hash = job[c].hash /\ job'[c].text = job[c].text
      /\ job'[c].known = job[c].known /\ job'[c].path = p /\ job'[c].repair = q
      /\ job'[c].todo = job[c].todo \ {p}
  BY <1>4, Typed DEF Kept
<1> HIDE DEF Without
<1> QED
  BY <1>1, <1>2, <1>4, <1>5, Typed

(* One case per action.                                                    *)
LEMMA SyncKeepsTask ==
  ASSUME TypeOK, JobsOK, NEW c \in Commands, ScanStep(c) \/ SyncStep(c)
  PROVE  TaskKept(c)
<1> USE DEF TaskKept, Kept, Syncing
<1>1. CASE TakeInventory(c) \/ ReadNotes(c) \/ Recreate(c)
  BY <1>1, Typed DEF TakeInventory, ReadNotes, Recreate, Goto, Works, Fault,
     SyncRaises, End, GiveUp, bounds, history
<1>2. CASE ForgetRecord(c)
  BY <1>2, Typed DEF ForgetRecord, GiveUp, Goto, Works, Fault, Store, bounds, history
<1>3. CASE Ensure(c)
  BY <1>3, Typed DEF Ensure, GiveUp, Goto, Works, Fault, Qdrant, bounds, history
<1>4. CASE GetRecord(c)
  BY <1>4, Typed DEF GetRecord, Goto, Works, Fault, Store, SyncRaises, End, bounds,
     history
<1>5. CASE ValidateExisting(c) \/ Upsert(c) \/ CheckNew(c) \/ SaveRecord(c) \/
          Discard(c) \/ Cleanup(c)
  BY <1>5, Typed DEF ValidateExisting, Upsert, CheckNew, SaveRecord, Discard, Cleanup,
     Old, Goto, Works, Fault, SyncRaises, End, New, Qdrant, Store, Without, bounds,
     history
<1>6. CASE ListRecords(c) \/ DeleteRecord(c) \/ EndPrune(c) \/ EnqueueRepair(c) \/
          Report(c)
  BY <1>6, Typed DEF ListRecords, DeleteRecord, EndPrune, EnqueueRepair, Report, Goto,
     Works, Fault, Store, SyncRaises, End, bounds, history
<1>7. CASE Prune(c)
  BY <1>7, PruneJob
<1> QED
  BY <1>1, <1>2, <1>3, <1>4, <1>5, <1>6, <1>7
     DEF ScanStep, SyncStep

(* A command has a task in hand exactly when its kind says so.             *)
LEMMA TaskStep == TypeOK /\ JobsOK /\ [Next]_vars => \A d \in Commands : TaskOK(d)'
<1> SUFFICES ASSUME TypeOK, JobsOK, [Next]_vars PROVE \A d \in Commands : TaskOK(d)'
  OBVIOUS
<1> USE IndexAssumption DEF JobsOK, TaskOK, PendingOK, NoJob
<1>1. CASE (\E p \in Paths : Edit(p)) \/ LosePoints \/ (\E t \in Tasks : OpenTask(t)
          \/ BecomeDue(t))
  BY <1>1, Typed DEF Edit, LosePoints, OpenTask, BecomeDue, Fault, bounds, history
<1>2. ASSUME NEW c \in Commands, StartSync(c) PROVE \A d \in Commands : TaskOK(d)'
  BY <1>2, Typed DEF StartSync, Goto, bounds, history
<1>3. ASSUME NEW c \in Commands, StartRebuild(c) PROVE \A d \in Commands : TaskOK(d)'
  BY <1>3, Typed DEF StartRebuild, Goto, bounds, history
<1>4. ASSUME NEW c \in Commands, \E r \in Runs : StartRepairs(c, r)
       PROVE \A d \in Commands : TaskOK(d)'
  BY <1>4, Typed DEF StartRepairs, Goto, bounds, history
<1>5. ASSUME NEW c \in Commands, TakeTask(c) PROVE \A d \in Commands : TaskOK(d)'
  BY <1>5, Typed DEF TakeTask, Goto, bounds, history
<1>6. ASSUME NEW c \in Commands, EndRepairs(c) PROVE \A d \in Commands : TaskOK(d)'
  BY <1>6, Typed DEF EndRepairs, Goto, End, bounds, history
<1>7. ASSUME NEW c \in Commands, RepairTelemetry(c)
       PROVE \A d \in Commands : TaskOK(d)'
  BY <1>7, Typed DEF RepairTelemetry, Goto, Works, Fault, bounds, history
<1>8. ASSUME NEW c \in Commands, CompleteTask(c) PROVE \A d \in Commands : TaskOK(d)'
  <2>1. \/ Goto(c, "pick") /\ job' = [job EXCEPT ![c].current = None]
        \/ End(c)
    BY <1>8 DEF CompleteTask, Store, Dies
  <2>2. ASSUME NEW d \in Commands, d # c PROVE TaskOK(d)'
    <3>1. pc'[d] = pc[d] /\ job'[d] = job[d]
      BY <2>1, <2>2, Typed DEF Goto, End
    <3>2. TaskOK(d)
      OBVIOUS
    <3> QED
      BY <3>1, <3>2, Zenon
  <2>3. CASE End(c)
    BY <2>2, <2>3, Typed DEF End, Goto
  <2>4. CASE Goto(c, "pick") /\ job' = [job EXCEPT ![c].current = None]
    <3>1. /\ pc'[c] = "pick" /\ job'[c].current = None
          /\ job'[c].queue = job[c].queue
      BY <2>4, Typed DEF Goto
    <3>2. \A s \in job[c].queue : s.attempts < MaxAttempts
      BY Typed
    <3>3. TaskOK(c)'
      BY <3>1, <3>2
    <3> QED
      BY <2>2, <3>3
  <2> QED
    BY <2>1, <2>3, <2>4
<1>9. ASSUME NEW c \in Commands, RescheduleTask(c) PROVE \A d \in Commands : TaskOK(d)'
  <2>1. \/ Goto(c, "pick") /\ job' = [job EXCEPT ![c].current = None]
        \/ End(c)
    BY <1>9 DEF RescheduleTask, Store, Dies
  <2>2. ASSUME NEW d \in Commands, d # c PROVE TaskOK(d)'
    <3>1. pc'[d] = pc[d] /\ job'[d] = job[d]
      BY <2>1, <2>2, Typed DEF Goto, End
    <3>2. TaskOK(d)
      OBVIOUS
    <3> QED
      BY <3>1, <3>2, Zenon
  <2>3. CASE End(c)
    BY <2>2, <2>3, Typed DEF End, Goto
  <2>4. CASE Goto(c, "pick") /\ job' = [job EXCEPT ![c].current = None]
    <3>1. /\ pc'[c] = "pick" /\ job'[c].current = None
          /\ job'[c].queue = job[c].queue
      BY <2>4, Typed DEF Goto
    <3>2. \A s \in job[c].queue : s.attempts < MaxAttempts
      BY Typed
    <3>3. TaskOK(c)'
      BY <3>1, <3>2
    <3> QED
      BY <2>2, <3>3
  <2> QED
    BY <2>1, <2>3, <2>4
<1>10. ASSUME NEW c \in Commands, Crash(c) PROVE \A d \in Commands : TaskOK(d)'
  BY <1>10, Typed DEF Crash, InHand, New, Old, Goto, Works, Fault, Dies, End, bounds,
     history
<1>11. ASSUME NEW c \in Commands, ScanStep(c) \/ SyncStep(c) PROVE \A d \in Commands : TaskOK(d)'
  <2>1. TaskKept(c)
    BY <1>11, SyncKeepsTask
  <2>2. ASSUME NEW d \in Commands, d # c PROVE TaskOK(d)'
    BY <2>1, <2>2 DEF TaskKept
  <2>3. TaskOK(c)'
    BY <2>1, Typed DEF TaskKept, Kept, Syncing
  <2> QED
    BY <2>2, <2>3
<1>12. CASE UNCHANGED vars
  BY <1>12 DEF vars, bounds, history
<1> QED
  BY <1>1, <1>2, <1>3, <1>4, <1>5, <1>6, <1>7, <1>8, <1>9, <1>10, <1>11, <1>12
     DEF Next, Start, RepairStep

(* A command works on notes of its scan and on records it has read.        *)
LEMMA PathStep ==
  TypeOK /\ JobsOK /\ [Next]_vars => \A d \in Commands : PathOK(d)'
<1> SUFFICES ASSUME TypeOK, JobsOK, [Next]_vars PROVE \A d \in Commands : PathOK(d)'
  OBVIOUS
<1> USE DEF JobsOK, PathOK, Scanned, Working, Indexing, Existing, NoJob
<1>1. CASE (\E p \in Paths : Edit(p)) \/ LosePoints \/ (\E t \in Tasks : OpenTask(t)
          \/ BecomeDue(t))
  BY <1>1, Typed DEF Edit, LosePoints, OpenTask, BecomeDue, Fault, bounds, history
<1>2. ASSUME NEW c \in Commands, StartSync(c) PROVE \A d \in Commands : PathOK(d)'
  BY <1>2, Typed DEF StartSync, Goto, bounds, history
<1>3. ASSUME NEW c \in Commands, StartRebuild(c) PROVE \A d \in Commands : PathOK(d)'
  BY <1>3, Typed DEF StartRebuild, Goto, bounds, history
<1>4. ASSUME NEW c \in Commands, \E r \in Runs : StartRepairs(c, r)
       PROVE \A d \in Commands : PathOK(d)'
  BY <1>4, Typed DEF StartRepairs, Goto, bounds, history
<1>5. ASSUME NEW c \in Commands, TakeTask(c) PROVE \A d \in Commands : PathOK(d)'
  BY <1>5, Typed DEF TakeTask, Goto, bounds, history
<1>6. ASSUME NEW c \in Commands, EndRepairs(c) \/ RepairTelemetry(c)
       PROVE \A d \in Commands : PathOK(d)'
  BY <1>6, Typed DEF EndRepairs, RepairTelemetry, Goto, End, Works, Fault, bounds,
     history
<1>7. ASSUME NEW c \in Commands, CompleteTask(c) \/ RescheduleTask(c) \/
             TakeInventory(c)
       PROVE \A d \in Commands : PathOK(d)'
  BY <1>7, Typed DEF CompleteTask, RescheduleTask, TakeInventory, Goto, Works, Fault,
     Store, Dies, End, AfterFailure, bounds, history
<1>8. ASSUME NEW c \in Commands, ReadNotes(c) \/ Recreate(c) \/ Ensure(c)
       PROVE \A d \in Commands : PathOK(d)'
  BY <1>8, Typed DEF ReadNotes, Recreate, Ensure, Goto, SyncRaises, End, GiveUp,
     Works, Fault, Qdrant, bounds, history
<1>9. ASSUME NEW c \in Commands, ForgetRecord(c) PROVE \A d \in Commands : PathOK(d)'
  <2>1. \/ pc' = pc /\ \E p \in Paths : job' = [job EXCEPT ![c].todo = job[c].todo \ {p}]
        \/ pc' = [pc EXCEPT ![c] = "enqueue"] /\ job' = [job EXCEPT ![c].repair = TRUE]
    BY <1>9, Typed DEF ForgetRecord, Store, GiveUp, Goto
  <2> QED
    BY <1>9, <2>1, Typed DEF ForgetRecord
<1>10. ASSUME NEW c \in Commands, GetRecord(c) PROVE \A d \in Commands : PathOK(d)'
  BY <1>10, Typed DEF GetRecord, Goto, Works, Fault, Store, SyncRaises, End, bounds,
     history
<1>11. ASSUME NEW c \in Commands, ValidateExisting(c) \/ Upsert(c)
       PROVE \A d \in Commands : PathOK(d)'
  BY <1>11, Typed DEF ValidateExisting, Upsert, Old, Goto, Works, Fault, SyncRaises,
     End, New, Qdrant, bounds, history
<1>12. ASSUME NEW c \in Commands, CheckNew(c) PROVE \A d \in Commands : PathOK(d)'
  BY <1>12, Typed DEF CheckNew, New, Goto, Works, Fault, bounds, history
<1>13. ASSUME NEW c \in Commands, SaveRecord(c) \/ Discard(c)
       PROVE \A d \in Commands : PathOK(d)'
  BY <1>13, Typed DEF SaveRecord, Discard, New, Old, Goto, Works, Fault, Store,
     Without, Qdrant, bounds, history
<1>14. ASSUME NEW c \in Commands, Cleanup(c) PROVE \A d \in Commands : PathOK(d)'
  <2>1. pc' = [pc EXCEPT ![c] = "next"]
        /\ (job' = job \/ job' = [job EXCEPT ![c].repair = TRUE])
    BY <1>14 DEF Cleanup, Goto, Qdrant
  <2> QED
    BY <1>14, <2>1, Typed DEF Cleanup
<1>15. ASSUME NEW c \in Commands, ListRecords(c) \/ DeleteRecord(c) \/ EndPrune(c) \/
             EnqueueRepair(c) \/ Report(c) \/ Crash(c)
       PROVE \A d \in Commands : PathOK(d)'
  BY <1>15, Typed DEF ListRecords, DeleteRecord, EndPrune, EnqueueRepair, Report,
     Crash, Goto, Works, Fault, Store, SyncRaises, End, InHand, New, Old, Dies,
     bounds, history
<1>16. ASSUME NEW c \in Commands, Prune(c) PROVE \A d \in Commands : PathOK(d)'
  <2>1. ASSUME NEW d \in Commands, d # c PROVE PathOK(d)'
    <3>1. pc'[d] = pc[d] /\ job'[d] = job[d]
      BY <1>16, <2>1, PruneJob
    <3> QED
      BY <3>1
  <2>2. PathOK(c)'
    <3>1. /\ pc[c] = "prune" /\ pc'[c] \in {"prune", "unrecord"}
          /\ job'[c].known = job[c].known /\ job'[c].path \in job[c].todo
          /\ job'[c].todo \subseteq job[c].todo
      BY <1>16, PruneJob
    <3>2. job[c].todo \subseteq Existing(job[c].known)
      BY <3>1
    <3> QED
      BY <3>1, <3>2
  <2> QED
    BY <2>1, <2>2
<1>17. CASE UNCHANGED vars
  BY <1>17 DEF vars, bounds, history
<1> QED
  BY <1>1, <1>2, <1>3, <1>4, <1>5, <1>6, <1>7, <1>8, <1>9, <1>10, <1>11, <1>12, <1>13,
     <1>14, <1>15, <1>16, <1>17
     DEF Next, Start, RepairStep, ScanStep, SyncStep

(* A pending task has attempts left.                                       *)
LEMMA PendingStep ==
  TypeOK /\ JobsOK /\ [Next]_vars => PendingOK'
<1> SUFFICES ASSUME TypeOK, JobsOK, [Next]_vars PROVE PendingOK'
  OBVIOUS
<1> USE IndexAssumption DEF JobsOK, PendingOK, TaskOK
<1>1. CASE (\E p \in Paths : Edit(p)) \/ LosePoints
  BY <1>1, Typed DEF Edit, LosePoints, Fault, bounds, history
<1>2. ASSUME NEW t \in Tasks, OpenTask(t) PROVE PendingOK'
  BY <1>2, Typed DEF OpenTask, bounds, history
<1>3. ASSUME NEW t \in Tasks, BecomeDue(t) PROVE PendingOK'
  BY <1>3, Typed DEF BecomeDue, bounds, history
<1>4. ASSUME NEW c \in Commands, StartSync(c) \/ StartRebuild(c) \/
             (\E r \in Runs : StartRepairs(c, r)) \/ TakeTask(c) \/ EndRepairs(c) \/
             RepairTelemetry(c)
       PROVE PendingOK'
  BY <1>4, Typed DEF StartSync, StartRebuild, StartRepairs, TakeTask, EndRepairs,
     RepairTelemetry, Goto, End, Works, Fault, bounds, history
<1>5. ASSUME NEW c \in Commands, CompleteTask(c) PROVE PendingOK'
  <2>0. tasks \in [Tasks -> [status : {"none", "pending", "completed", "failed"},
                            attempts : 0 .. MaxAttempts, due : BOOLEAN]]
    BY DEF TypeOK
  <2>1. \/ tasks' = tasks
        \/ \E t : tasks' = [tasks EXCEPT ![t].status = "completed"]
    BY <1>5 DEF CompleteTask, Store
  <2> QED
    BY <2>0, <2>1
<1>6. ASSUME NEW c \in Commands, RescheduleTask(c) PROVE PendingOK'
  <2>0. tasks \in [Tasks -> [status : {"none", "pending", "completed", "failed"},
                            attempts : 0 .. MaxAttempts, due : BOOLEAN]]
    BY DEF TypeOK
  <2> DEFINE s == job[c].current
  <2>1. s \in Snapshot /\ s.attempts < MaxAttempts
    BY <1>6, Typed DEF RescheduleTask
  <2>2. s.task \in Tasks /\ s.attempts \in Nat
    BY <2>1, IndexAssumption DEF Snapshot
  <2>3. \/ tasks' = tasks
        \/ tasks' = [tasks EXCEPT ![s.task] = AfterFailure(s.task, s.attempts + 1)]
    BY <1>6 DEF RescheduleTask, Store
  <2>4. AfterFailure(s.task, s.attempts + 1).status = "pending"
          => AfterFailure(s.task, s.attempts + 1).attempts < MaxAttempts
    BY <2>0, <2>2 DEF AfterFailure
  <2> QED
    BY <2>0, <2>2, <2>3, <2>4
<1>7. ASSUME NEW c \in Commands, TakeInventory(c) \/ ReadNotes(c) \/ Recreate(c) \/
             ForgetRecord(c) \/ Ensure(c) \/ GetRecord(c)
       PROVE PendingOK'
  BY <1>7, Typed DEF TakeInventory, ReadNotes, Recreate, ForgetRecord, Ensure,
     GetRecord, Goto, Works, Fault, SyncRaises, End, GiveUp, Store, Qdrant, bounds,
     history
<1>8. ASSUME NEW c \in Commands, ValidateExisting(c) \/ Upsert(c) \/ CheckNew(c) \/
             SaveRecord(c) \/ Discard(c) \/ Cleanup(c)
       PROVE PendingOK'
  BY <1>8, Typed DEF ValidateExisting, Upsert, CheckNew, SaveRecord, Discard, Cleanup,
     Old, Goto, Works, Fault, SyncRaises, End, New, Qdrant, Store, Without, bounds,
     history
<1>9. ASSUME NEW c \in Commands, ListRecords(c) \/ Prune(c) \/ DeleteRecord(c) \/
             EndPrune(c) \/ Report(c) \/ Crash(c)
       PROVE PendingOK'
  BY <1>9, Typed DEF ListRecords, Prune, DeleteRecord, EndPrune, Report, Crash, Goto,
     Works, Fault, Store, SyncRaises, End, Without, Qdrant, InHand, New, Old, Dies,
     bounds, history
<1>10. ASSUME NEW c \in Commands, EnqueueRepair(c) PROVE PendingOK'
  <2>0. tasks \in [Tasks -> [status : {"none", "pending", "completed", "failed"},
                            attempts : 0 .. MaxAttempts, due : BOOLEAN]]
    BY DEF TypeOK
  <2>1. \/ tasks' = tasks
        \/ \E t : tasks' = [tasks EXCEPT ![t] =
                             [status |-> "pending", attempts |-> 0, due |-> TRUE]]
    BY <1>10 DEF EnqueueRepair, Store
  <2> QED
    BY <2>0, <2>1
<1>11. CASE UNCHANGED vars
  BY <1>11 DEF vars, bounds, history
<1> QED
  BY <1>1, <1>2, <1>3, <1>4, <1>5, <1>6, <1>7, <1>8, <1>9, <1>10, <1>11
     DEF Next, Start, RepairStep, ScanStep, SyncStep

(* The three parts together.                                               *)
LEMMA JobsStep == TypeOK /\ JobsOK /\ [Next]_vars => JobsOK'
BY TaskStep, PathStep, PendingStep DEF JobsOK

(* TypeOK, whatever is edited, fails or is retried, and however many       *)
(* commands run at a time: no generation without a note is stored, a task  *)
(* is never rescheduled at its limit.                                      *)
THEOREM IndexTypeCorrect == Spec => []TypeOK
<1>1. Init => TypeOK /\ JobsOK
  BY InitJobs
<1>2. TypeOK /\ JobsOK /\ [Next]_vars => (TypeOK /\ JobsOK)'
  BY TypeStep, JobsStep
<1> QED
  BY <1>1, <1>2, PTL DEF Spec

-----------------------------------------------------------------------------
(* One command at a time: there is one process, which may run any number   *)
(* of commands one after the other.                                        *)
OneCommand == \E c : Commands = {c}

(* What the command has read of the records is what they still are, and    *)
(* nothing is deleted on the strength of a generation that is not there.   *)
RecordsOwned(c) ==
  /\ pc[c] \in {"validate", "upsert", "check", "save", "discard"} =>
       job[c].known[job[c].path] = records[job[c].path]
  /\ pc[c] = "save" /\ Indexed(job[c].path) => points[New(c)] # None
  /\ pc[c] = "cleanup" => records[job[c].path] = job[c].hash[job[c].path]
  /\ pc[c] \in {"prune", "unrecord"} =>
       \A p \in job[c].todo : job[c].known[p] = records[p] /\ job[c].hash[p] = None
  /\ pc[c] = "unrecord" => /\ job[c].hash[job[c].path] = None
                           /\ job[c].path \notin job[c].todo
                           /\ job[c].known[job[c].path] = records[job[c].path]
                           /\ ~Indexed(job[c].path)
  /\ pc[c] = "forget" => \A id \in Ids : points[id] = None

(* Every step keeps RecordsOwned.                                          *)
LEMMA OwnedStep ==
  ASSUME NEW c \in Commands, OneCommand, TypeOK, JobsOK, RecordsOwned(c), [Next]_vars
  PROVE  RecordsOwned(c)'
<1> USE DEF RecordsOwned, Indexed, NoJob
<1>1. ASSUME NEW p \in Paths, Edit(p) PROVE RecordsOwned(c)'
  <2>1. pc' = pc /\ job' = job /\ records' = records /\ points' = points
    BY <1>1 DEF Edit, bounds, history
  <2> QED
    BY <2>1 DEF New
<1>2. CASE LosePoints
  <2>1. pc' = pc /\ job' = job /\ records' = records /\ points' = [id \in Ids |-> None]
    BY <1>2 DEF LosePoints
  <2>2. \A p \in Paths : ~Indexed(p)'
    BY <2>1, Typed DEF Ids
  <2>3. pc[c] \in {"save", "unrecord"} => job[c].path \in Paths
    BY DEF JobsOK, PathOK, Indexing, Existing
  <2> QED
    BY <2>1, <2>2, <2>3
<1>3. ASSUME NEW t \in Tasks, OpenTask(t) PROVE RecordsOwned(c)'
  <2>1. pc' = pc /\ job' = job /\ records' = records /\ points' = points
    BY <1>3 DEF OpenTask, bounds, history
  <2> QED
    BY <2>1 DEF New
<1>4. ASSUME NEW t \in Tasks, BecomeDue(t) PROVE RecordsOwned(c)'
  <2>1. pc' = pc /\ job' = job /\ records' = records /\ points' = points
    BY <1>4 DEF BecomeDue, bounds, history
  <2> QED
    BY <2>1 DEF New
<1>5. CASE StartSync(c) \/ StartRebuild(c) \/ (\E r \in Runs : StartRepairs(c, r)) \/
          TakeTask(c) \/ EndRepairs(c) \/ RepairTelemetry(c)
  BY <1>5, Typed, TypedPoints DEF StartSync, StartRebuild, StartRepairs, TakeTask,
     EndRepairs, RepairTelemetry, Goto, End, Works, Fault, bounds, history
<1>6. CASE CompleteTask(c) \/ RescheduleTask(c) \/ TakeInventory(c) \/ ReadNotes(c) \/
          Recreate(c) \/ ForgetRecord(c)
  BY <1>6, Typed, TypedPoints DEF CompleteTask, RescheduleTask, TakeInventory,
     ReadNotes, Recreate, ForgetRecord, Goto, Works, Fault, Store, Dies, End,
     AfterFailure, SyncRaises, GiveUp, bounds, history
<1>7. CASE Ensure(c)
  BY <1>7, Typed, TypedPoints DEF Ensure, GiveUp, Goto, Works, Fault, Qdrant, bounds,
     history
<1>8. CASE GetRecord(c)
  BY <1>8, Typed, TypedPoints DEF GetRecord, Goto, Works, Fault, Store, SyncRaises,
     End, bounds, history
<1>9. CASE ValidateExisting(c)
  BY <1>9, Typed, TypedPoints DEF ValidateExisting, Old, Goto, Works, Fault,
     SyncRaises, End, bounds, history
<1>10. CASE Upsert(c) \/ CheckNew(c) \/ Discard(c)
  BY <1>10, Typed, TypedPoints DEF Upsert, CheckNew, Discard, New, Goto, Works, Fault,
     Qdrant, Without, bounds, history
<1>11. CASE SaveRecord(c)
  <2>1. /\ pc[c] = "save" /\ job' = job
        /\ \/ /\ records' = [records EXCEPT ![job[c].path] = job[c].hash[job[c].path]]
              /\ pc' = [pc EXCEPT ![c] =
                   IF Old(c)[2] \in {None, New(c)[2]} THEN "next" ELSE "cleanup"]
           \/ records' = records /\ pc' = [pc EXCEPT ![c] = "discard"]
    BY <1>11 DEF SaveRecord, Store, Goto, New
  <2>2. job[c].path \in Paths
    BY <2>1 DEF JobsOK, PathOK, Indexing, Existing
  <2> QED
    BY <2>1, <2>2, Typed
<1>12. CASE Cleanup(c)
  BY <1>12, Typed, TypedPoints DEF Cleanup, Old, Without, Goto, Works, Fault, Qdrant,
     bounds, history
<1>13. CASE ListRecords(c)
  BY <1>13, Typed, TypedPoints DEF ListRecords, Goto, Works, Fault, Store, SyncRaises,
     End, bounds, history
<1>14. CASE Prune(c)
  <2>1. job'[c].path \in job[c].todo
    BY <1>14, PruneJob
  <2>2. PICK p \in Paths : p \in job[c].todo /\ job'[c].path = p
    BY <2>1, Typed
  <2>3. /\ pc[c] = "prune" /\ pc'[c] \in {"prune", "unrecord"} /\ records' = records
        /\ job'[c].known = job[c].known /\ job'[c].hash = job[c].hash
        /\ job'[c].todo = job[c].todo \ {p}
        /\ pc'[c] = "unrecord" => points' = Without(<<p, job[c].known[p]>>)
    BY <1>14, <2>2, PruneJob DEF Prune
  <2>4. job[c].known[p] = records[p] /\ job[c].hash[p] = None
    BY <2>2, <2>3
  <2>5. ASSUME pc'[c] = "unrecord", records[p] # None PROVE points'[<<p, records[p]>>] = None
    <3>1. <<p, records[p]>> \in Ids
      BY <2>5, Typed DEF Ids
    <3> QED
      BY <2>3, <2>4, <2>5, <3>1, TypedPoints DEF Without
  <2> QED
    BY <2>2, <2>3, <2>4, <2>5
<1>15. CASE DeleteRecord(c)
  BY <1>15, Typed, TypedPoints DEF DeleteRecord, Goto, Works, Fault, Store, bounds,
     history
<1>16. CASE EndPrune(c) \/ EnqueueRepair(c) \/ Report(c) \/ Crash(c)
  BY <1>16, Typed, TypedPoints DEF EndPrune, EnqueueRepair, Report, Crash, Goto,
     Works, Fault, Store, SyncRaises, End, InHand, New, Old, Dies, bounds, history
<1>17. CASE UNCHANGED vars
  BY <1>17 DEF vars, bounds, history, New, Old
<1> QED
  BY <1>1, <1>2, <1>3, <1>4, <1>5, <1>6, <1>7, <1>8, <1>9, <1>10, <1>11, <1>12, <1>13,
     <1>14, <1>15, <1>16, <1>17
     DEF OneCommand, Next, Start, RepairStep, ScanStep, SyncStep

(* A sync that has not asked for a repair has the record of every note it  *)
(* is done with, and no other but those it still prunes; and it is done    *)
(* with all when it completes a qdrant task.                               *)
Settled(c) ==
  /\ pc[c] \in Working /\ ~job[c].repair =>
       \A p \in Existing(job[c].hash) \ job[c].todo :
         \/ records[p] = job[c].hash[p]
         \/ p = job[c].path /\ pc[c] \in {"upsert", "check", "save", "discard"}
  /\ pc[c] \in {"prune", "unrecord"} /\ ~job[c].repair =>
       \A p \in Paths \ job[c].todo : \/ records[p] = job[c].hash[p]
                                      \/ p = job[c].path /\ pc[c] = "unrecord"
  /\ pc[c] = "report" => job[c].repair \/ records = job[c].hash
  /\ pc[c] = "enqueue" => job[c].repair
  /\ pc[c] = "telemetry" => job[c].current.task[2] # "qdrant"
  /\ pc[c] = "complete" /\ job[c].current.task[2] = "qdrant" => records = job[c].hash

(* OrphansAccounted for the one command.                                   *)
Accounted(c) ==
  \A id \in Ids : points[id] # None /\ records[id[1]] # id[2] => id \in leaked \cup InHand(c)

(* No task is attempted more often than its attempts say, but the one in   *)
(* hand once more.                                                         *)
TriesOK(c) ==
  /\ \A s \in job[c].queue : tries[s.task] <= s.attempts
  /\ \A s, u \in job[c].queue : s.task = u.task => s = u
  /\ job[c].current # None =>
       /\ tries[job[c].current.task] <= job[c].current.attempts + 1
       /\ \A s \in job[c].queue : s.task # job[c].current.task
  /\ \A t \in Tasks : tasks[t].status = "pending" =>
       \/ tries[t] <= tasks[t].attempts
       \/ job[c].current # None /\ job[c].current.task = t

(* Every step keeps Settled.                                               *)
LEMMA SettledStep ==
  ASSUME NEW c \in Commands, OneCommand, TypeOK, JobsOK, RecordsOwned(c), Settled(c), [Next]_vars
  PROVE  Settled(c)'
<1> USE DEF RecordsOwned, Settled, Working, Existing, NoJob
<1>1. CASE (\E p \in Paths : Edit(p)) \/ LosePoints \/ (\E t \in Tasks : OpenTask(t)
          \/ BecomeDue(t))
  BY <1>1, Typed, TypedPoints DEF Edit, LosePoints, OpenTask, BecomeDue, Fault,
     bounds, history
<1>2. CASE StartSync(c)
  BY <1>2, Typed, TypedPoints DEF StartSync, Goto, bounds, history
<1>3. CASE StartRebuild(c)
  BY <1>3, Typed, TypedPoints DEF StartRebuild, Goto, bounds, history
<1>4. CASE \E r \in Runs : StartRepairs(c, r)
  BY <1>4, Typed, TypedPoints DEF StartRepairs, Goto, bounds, history
<1>5. CASE TakeTask(c)
  BY <1>5, Typed, TypedPoints DEF TakeTask, Goto, bounds, history
<1>6. CASE EndRepairs(c) \/ RepairTelemetry(c)
  BY <1>6, Typed, TypedPoints DEF EndRepairs, RepairTelemetry, Goto, End, Works,
     Fault, bounds, history
<1>7. CASE CompleteTask(c) \/ RescheduleTask(c) \/ TakeInventory(c) \/ ReadNotes(c) \/
          Recreate(c) \/ ForgetRecord(c)
  BY <1>7, Typed, TypedPoints DEF CompleteTask, RescheduleTask, TakeInventory,
     ReadNotes, Recreate, ForgetRecord, Goto, Works, Fault, Store, Dies, End,
     AfterFailure, SyncRaises, GiveUp, bounds, history
<1>8. CASE Ensure(c)
  BY <1>8, Typed, TypedPoints DEF Ensure, GiveUp, Goto, Works, Fault, Qdrant, bounds,
     history
<1>9. CASE GetRecord(c)
  BY <1>9, Typed, TypedPoints DEF GetRecord, Goto, Works, Fault, Store, SyncRaises,
     End, bounds, history
<1>10. CASE ValidateExisting(c)
  BY <1>10, Typed, TypedPoints DEF ValidateExisting, Old, Goto, Works, Fault,
     SyncRaises, End, bounds, history
<1>11. CASE Upsert(c) \/ CheckNew(c) \/ SaveRecord(c) \/ Discard(c) \/ Cleanup(c) \/
          ListRecords(c)
  BY <1>11, Typed, TypedPoints DEF Upsert, CheckNew, SaveRecord, Discard, Cleanup,
     ListRecords, New, Goto, Works, Fault, Qdrant, Old, Store, Without, SyncRaises,
     End, bounds, history
<1>12. CASE Prune(c)
  <2>1. job'[c].path \in job[c].todo
    BY <1>12, PruneJob
  <2>2. PICK p \in Paths : p \in job[c].todo /\ job'[c].path = p
    BY <2>1, Typed
  <2>3. /\ pc[c] = "prune" /\ pc'[c] \in {"prune", "unrecord"} /\ records' = records
        /\ job'[c].hash = job[c].hash /\ job'[c].todo = job[c].todo \ {p}
        /\ job'[c].repair \/ (pc'[c] = "unrecord" /\ job'[c].repair = job[c].repair)
    BY <1>12, <2>2, PruneJob DEF Prune
  <2> QED
    BY <2>2, <2>3
<1>13. CASE DeleteRecord(c) \/ EndPrune(c) \/ EnqueueRepair(c) \/ Report(c) \/
          Crash(c)
  BY <1>13, Typed, TypedPoints DEF DeleteRecord, EndPrune, EnqueueRepair, Report,
     Crash, Goto, Works, Fault, Store, SyncRaises, End, InHand, New, Old, Dies,
     bounds, history
<1>14. CASE UNCHANGED vars
  BY <1>14 DEF vars, bounds, history, New, Old
<1> QED
  BY <1>1, <1>2, <1>3, <1>4, <1>5, <1>6, <1>7, <1>8, <1>9, <1>10, <1>11, <1>12, <1>13,
     <1>14
     DEF OneCommand, Next, Start, RepairStep, ScanStep, SyncStep

(* Every step keeps Accounted.                                             *)
LEMMA AccountedStep ==
  ASSUME NEW c \in Commands, OneCommand, TypeOK, JobsOK, RecordsOwned(c), Accounted(c), [Next]_vars
  PROVE  Accounted(c)'
<1> USE DEF RecordsOwned, Accounted, InHand, New, Old, Ids
<1>1. CASE (\E p \in Paths : Edit(p)) \/ LosePoints \/ (\E t \in Tasks : OpenTask(t)
          \/ BecomeDue(t))
  BY <1>1, Typed, TypedPoints DEF Edit, LosePoints, OpenTask, BecomeDue, Fault,
     bounds, history
<1>2. CASE StartSync(c) \/ StartRebuild(c) \/ (\E r \in Runs : StartRepairs(c, r)) \/
          TakeTask(c) \/ EndRepairs(c) \/ RepairTelemetry(c)
  BY <1>2, Typed, TypedPoints DEF StartSync, StartRebuild, StartRepairs, TakeTask,
     EndRepairs, RepairTelemetry, Goto, End, Works, Fault, bounds, history
<1>3. CASE CompleteTask(c) \/ RescheduleTask(c) \/ TakeInventory(c) \/ ReadNotes(c) \/
          Recreate(c) \/ ForgetRecord(c)
  BY <1>3, Typed, TypedPoints DEF CompleteTask, RescheduleTask, TakeInventory,
     ReadNotes, Recreate, ForgetRecord, Goto, Works, Fault, Store, Dies, End,
     AfterFailure, SyncRaises, GiveUp, bounds, history
<1>4. CASE Ensure(c) \/ GetRecord(c) \/ ValidateExisting(c)
  BY <1>4, Typed, TypedPoints DEF Ensure, GetRecord, ValidateExisting, GiveUp, Goto,
     Works, Fault, Qdrant, Store, SyncRaises, End, Old, bounds, history
<1>5. CASE Upsert(c)
  BY <1>5, Typed, TypedPoints DEF Upsert, New, Goto, Works, Fault, Qdrant, bounds,
     history
<1>6. CASE CheckNew(c) \/ Discard(c)
  BY <1>6, Typed, TypedPoints DEF CheckNew, Discard, New, Goto, Works, Fault, Without,
     Qdrant, bounds, history
<1>7. CASE SaveRecord(c)
  <2>1. /\ pc[c] = "save" /\ job' = job /\ points' = points /\ leaked' = leaked
        /\ \/ /\ records' = [records EXCEPT ![job[c].path] = job[c].hash[job[c].path]]
              /\ pc' = [pc EXCEPT ![c] =
                   IF Old(c)[2] \in {None, New(c)[2]} THEN "next" ELSE "cleanup"]
           \/ records' = records /\ pc' = [pc EXCEPT ![c] = "discard"]
    BY <1>7 DEF SaveRecord, Store, Goto, New, history
  <2>2. job[c].path \in Existing(job[c].hash)
    BY <2>1 DEF JobsOK, PathOK, Indexing
  <2>3. job[c].known[job[c].path] = records[job[c].path]
    BY <2>1
  <2>4. CASE records' = records /\ pc' = [pc EXCEPT ![c] = "discard"]
    BY <2>1, <2>4, Typed
  <2>5. ASSUME records' = [records EXCEPT ![job[c].path] = job[c].hash[job[c].path]],
               pc' = [pc EXCEPT ![c] =
                 IF Old(c)[2] \in {None, New(c)[2]} THEN "next" ELSE "cleanup"],
               NEW p \in Paths, NEW v \in Versions, points[<<p, v>>] # None, records'[p] # v
        PROVE  <<p, v>> \in leaked \cup InHand(c)'
    <3>1. pc'[c] = IF Old(c)[2] \in {None, New(c)[2]} THEN "next" ELSE "cleanup"
      BY <2>5, Typed
    <3>2. <<p, v>> \in Ids
      BY DEF Ids
    <3>3. CASE records[p] # v
      <4>1. <<p, v>> # New(c)
        BY <2>2, <2>5, Typed DEF Existing
      <4> QED
        BY <2>1, <2>5, <3>2, <3>3, <4>1
    <3>4. CASE records[p] = v
      <4>1. p = job[c].path /\ v # job[c].hash[p]
        BY <2>5, <3>4, Typed
      <4>2. Old(c) = <<p, v>> /\ Old(c)' = <<p, v>> /\ v # None
        BY <2>1, <2>3, <3>4, <4>1, IndexAssumption
      <4> QED
        BY <3>1, <4>1, <4>2
    <3> QED
      BY <3>3, <3>4
  <2> QED
    BY <2>1, <2>4, <2>5
<1>8. CASE Cleanup(c) \/ ListRecords(c) \/ Prune(c) \/ EndPrune(c) \/ EnqueueRepair(c)
          \/ Report(c)
  BY <1>8, Typed, TypedPoints DEF Cleanup, ListRecords, Prune, EndPrune,
     EnqueueRepair, Report, Old, Without, Goto, Works, Fault, Qdrant, Store,
     SyncRaises, End, bounds, history
<1>9. CASE DeleteRecord(c)
  <2>1. /\ pc[c] = "unrecord" /\ points' = points /\ leaked' = leaked
        /\ records' \in {records, [records EXCEPT ![job[c].path] = None]}
        /\ pc' = [pc EXCEPT ![c] = "prune"]
    BY <1>9 DEF DeleteRecord, Store, Goto, history
  <2>2. job[c].path \in Paths /\ ~Indexed(job[c].path)
    BY <2>1 DEF JobsOK, PathOK, Existing
  <2>3. ASSUME NEW id \in Ids, points[id] # None, records'[id[1]] # id[2]
        PROVE  id \in leaked
    <3>1. id = <<id[1], id[2]>> /\ id[1] \in Paths /\ id[2] \in Versions
      BY DEF Ids
    <3>2. records[id[1]] # id[2]
      <4>1. CASE id[1] = job[c].path
        BY <2>2, <2>3, <3>1, <4>1, IndexAssumption DEF Indexed
      <4>2. CASE id[1] # job[c].path
        BY <2>1, <2>3, <3>1, <4>2, Typed
      <4> QED
        BY <4>1, <4>2
    <3> QED
      BY <2>1, <2>3, <3>2
  <2> QED
    BY <2>1, <2>3, Typed
<1>10. CASE Crash(c)
  BY <1>10, Typed, TypedPoints DEF Crash, InHand, New, Old, Goto, Works, Fault, Dies,
     End, bounds, history
<1>11. CASE UNCHANGED vars
  BY <1>11 DEF vars, bounds, history, New, Old
<1> QED
  BY <1>1, <1>2, <1>3, <1>4, <1>5, <1>6, <1>7, <1>8, <1>9, <1>10, <1>11
     DEF OneCommand, Next, Start, RepairStep, ScanStep, SyncStep

(* The step of GenerationKept for the one command.                         *)
Keeps(c) ==
  \A p \in Paths : Indexed(p) /\ ~Indexed(p)' =>
    \/ \A id \in Ids : points'[id] = None
    \/ pc[c] \in {"recreate", "prune"}
    \/ pc[c] = "discard" /\ New(c) = Old(c)

(* No step takes a valid generation.                                       *)
LEMMA GenerationStep ==
  ASSUME NEW c \in Commands, OneCommand, TypeOK, JobsOK, RecordsOwned(c), [Next]_vars
  PROVE  Keeps(c)
<1> USE DEF RecordsOwned, Keeps, Indexed, New, Old, Ids
<1>1. CASE (\E p \in Paths : Edit(p)) \/ LosePoints \/ (\E t \in Tasks : OpenTask(t)
          \/ BecomeDue(t))
  BY <1>1, Typed, TypedPoints DEF Edit, LosePoints, OpenTask, BecomeDue, Fault,
     bounds, history
<1>2. CASE StartSync(c) \/ StartRebuild(c) \/ (\E r \in Runs : StartRepairs(c, r)) \/
          TakeTask(c) \/ EndRepairs(c) \/ RepairTelemetry(c)
  BY <1>2, Typed, TypedPoints DEF StartSync, StartRebuild, StartRepairs, TakeTask,
     EndRepairs, RepairTelemetry, Goto, End, Works, Fault, bounds, history
<1>3. CASE CompleteTask(c) \/ RescheduleTask(c) \/ TakeInventory(c) \/ ReadNotes(c) \/
          Recreate(c) \/ ForgetRecord(c)
  BY <1>3, Typed, TypedPoints DEF CompleteTask, RescheduleTask, TakeInventory,
     ReadNotes, Recreate, ForgetRecord, Goto, Works, Fault, Store, Dies, End,
     AfterFailure, SyncRaises, GiveUp, bounds, history
<1>4. CASE Ensure(c) \/ GetRecord(c) \/ ValidateExisting(c)
  BY <1>4, Typed, TypedPoints DEF Ensure, GetRecord, ValidateExisting, GiveUp, Goto,
     Works, Fault, Qdrant, Store, SyncRaises, End, Old, bounds, history
<1>5. CASE Upsert(c)
  <2>1. /\ points' \in {points, [points EXCEPT ![New(c)] = job[c].text[job[c].path]]}
        /\ records' = records /\ pc[c] = "upsert"
    BY <1>5 DEF Upsert, Qdrant
  <2>2. job[c].text[job[c].path] # None
    BY <2>1 DEF JobsOK, PathOK, Indexing, Scanned
  <2> QED
    BY <2>1, <2>2, Typed, TypedPoints
<1>6. CASE CheckNew(c) \/ Discard(c) \/ ListRecords(c)
  BY <1>6, Typed, TypedPoints DEF CheckNew, Discard, ListRecords, New, Goto, Works,
     Fault, Without, Qdrant, Store, SyncRaises, End, bounds, history
<1>7. CASE SaveRecord(c)
  <2>1. /\ pc[c] = "save" /\ job' = job /\ points' = points /\ leaked' = leaked
        /\ \/ /\ records' = [records EXCEPT ![job[c].path] = job[c].hash[job[c].path]]
              /\ pc' = [pc EXCEPT ![c] =
                   IF Old(c)[2] \in {None, New(c)[2]} THEN "next" ELSE "cleanup"]
           \/ records' = records /\ pc' = [pc EXCEPT ![c] = "discard"]
    BY <1>7 DEF SaveRecord, Store, Goto, New, history
  <2>2. job[c].path \in Existing(job[c].hash)
    BY <2>1 DEF JobsOK, PathOK, Indexing
  <2>3. ASSUME NEW p \in Paths, Indexed(p) PROVE Indexed(p)'
    <3>1. CASE p = job[c].path /\ records' # records
      <4>1. points[New(c)] # None
        BY <2>1, <2>3, <3>1 DEF RecordsOwned
      <4> QED
        BY <2>1, <2>2, <3>1, <4>1, Typed DEF Existing
    <3>2. CASE p # job[c].path \/ records' = records
      BY <2>1, <2>3, <3>2, Typed
    <3> QED
      BY <3>1, <3>2
  <2> QED
    BY <2>3
<1>8. CASE Cleanup(c)
  <2>1. /\ points' \in {points, Without(Old(c))} /\ records' = records /\ pc[c] = "cleanup"
    BY <1>8 DEF Cleanup, Qdrant
  <2>2. job[c].known[job[c].path] # records[job[c].path]
    BY <2>1 DEF JobsOK, PathOK
  <2>3. ASSUME NEW p \in Paths, Indexed(p) PROVE Indexed(p)'
    <3>1. <<p, records[p]>> # Old(c) /\ <<p, records[p]>> \in Ids
      BY <2>2, <2>3, Typed
    <3> QED
      BY <2>1, <2>3, <3>1, TypedPoints DEF Without
  <2> QED
    BY <2>3
<1>9. CASE Prune(c) \/ DeleteRecord(c) \/ EndPrune(c) \/ EnqueueRepair(c) \/ Report(c)
          \/ Crash(c)
  BY <1>9, Typed, TypedPoints DEF Prune, DeleteRecord, EndPrune, EnqueueRepair,
     Report, Crash, Without, Goto, Works, Fault, Qdrant, Store, SyncRaises, End,
     InHand, New, Old, Dies, bounds, history
<1>10. CASE UNCHANGED vars
  BY <1>10 DEF vars, bounds, history, New, Old
<1> HIDE DEF Keeps
<1> QED
  BY <1>1, <1>2, <1>3, <1>4, <1>5, <1>6, <1>7, <1>8, <1>9, <1>10
     DEF OneCommand, Next, Start, RepairStep, ScanStep, SyncStep

(* A scan or a sync writes no task but the one it runs for.                *)
TriesKept(c) ==
  /\ tries' = tries
  /\ \/ tasks' = tasks
     \/ /\ job[c].current # None
        /\ tasks' = [tasks EXCEPT ![job[c].current.task] =
                       [status |-> "pending", attempts |-> 0, due |-> TRUE]]

(* One case per action.                                                    *)
LEMMA SyncKeepsTries ==
  ASSUME TypeOK, JobsOK, NEW c \in Commands, ScanStep(c) \/ SyncStep(c)
  PROVE  TriesKept(c)
<1> USE DEF TriesKept
<1>1. CASE TakeInventory(c) \/ ReadNotes(c) \/ Recreate(c) \/ ForgetRecord(c) \/
          Ensure(c) \/ GetRecord(c)
  BY <1>1 DEF TakeInventory, ReadNotes, Recreate, ForgetRecord, Ensure, GetRecord,
     bounds, history
<1>2. CASE ValidateExisting(c) \/ Upsert(c) \/ CheckNew(c) \/ SaveRecord(c) \/
          Discard(c) \/ Cleanup(c)
  BY <1>2 DEF ValidateExisting, Upsert, CheckNew, SaveRecord, Discard, Cleanup,
     bounds, history
<1>3. CASE ListRecords(c) \/ Prune(c) \/ DeleteRecord(c) \/ EndPrune(c) \/ Report(c)
  BY <1>3 DEF ListRecords, Prune, DeleteRecord, EndPrune, Report, bounds, history
<1>4. CASE EnqueueRepair(c)
  <2>1. job[c].kind = "repairs" => job[c].current # None
    BY <1>4 DEF JobsOK, TaskOK, EnqueueRepair
  <2> QED
    BY <1>4, <2>1 DEF EnqueueRepair, Store, history
<1> QED
  BY <1>1, <1>2, <1>3, <1>4
     DEF ScanStep, SyncStep

(* Every step keeps TriesOK.                                               *)
LEMMA TriesStep ==
  ASSUME NEW c \in Commands, OneCommand, TypeOK, JobsOK, TriesOK(c), [Next]_vars
  PROVE  TriesOK(c)'
<1> USE IndexAssumption DEF TriesOK, NoJob
<1>0. /\ tasks \in [Tasks -> [status : {"none", "pending", "completed", "failed"},
                             attempts : 0 .. MaxAttempts, due : BOOLEAN]]
      /\ tries \in [Tasks -> 0 .. MaxAttempts + 1]
      /\ \A s \in Snapshot : s.task \in Tasks /\ s.attempts \in Nat
  BY DEF TypeOK, Snapshot
<1>1. CASE (\E p \in Paths : Edit(p)) \/ LosePoints
  BY <1>1, <1>0, Typed DEF Edit, LosePoints, Fault, bounds, history
<1>2. ASSUME NEW t \in Tasks, OpenTask(t) PROVE TriesOK(c)'
  BY <1>0, <1>2, Typed DEF OpenTask, bounds, history
<1>3. ASSUME NEW t \in Tasks, BecomeDue(t) PROVE TriesOK(c)'
  BY <1>0, <1>3, Typed DEF BecomeDue, bounds, history
<1>4. CASE StartSync(c) \/ StartRebuild(c)
  BY <1>4, <1>0, Typed DEF StartSync, StartRebuild, Goto, bounds, history
<1>5. ASSUME NEW r \in Runs, StartRepairs(c, r) PROVE TriesOK(c)'
  <2> DEFINE due == {t \in Tasks : t[1] = r /\ tasks[t].status = "pending" /\ tasks[t].due}
             Q == {[task |-> t, attempts |-> tasks[t].attempts] : t \in due}
  <2>1. job[c].current = None
    BY <1>5 DEF StartRepairs, JobsOK, TaskOK
  <2>2. job' = [job EXCEPT ![c] = [NoJob EXCEPT !.kind = "repairs", !.queue = Q]]
    BY <1>5 DEF StartRepairs
  <2>3. job'[c].queue = Q /\ job'[c].current = None
    BY <2>2, Typed
  <2>4. \A s \in Q : s.task \in due /\ s = [task |-> s.task, attempts |-> tasks[s.task].attempts]
    OBVIOUS
  <2>5. \A t \in Tasks : tasks[t].status = "pending" => tries[t] <= tasks[t].attempts
    BY <2>1
  <2>6. \A s \in Q : tries[s.task] <= s.attempts
    BY <2>4, <2>5
  <2>7. \A s, u \in Q : s.task = u.task => s = u
    BY <2>4
  <2>8. tasks' = tasks /\ tries' = tries
    BY <1>5 DEF StartRepairs, history
  <2> HIDE DEF Q
  <2> QED
    BY <2>3, <2>5, <2>6, <2>7, <2>8
<1>6. CASE TakeTask(c)
  <2>1. PICK s \in job[c].queue :
          /\ job' = [job EXCEPT ![c] = [NoJob EXCEPT !.kind = "repairs",
                                                    !.queue = job[c].queue \ {s}, !.current = s]]
          /\ tries' = [tries EXCEPT ![s.task] = IF @ > MaxAttempts THEN @ ELSE @ + 1]
          /\ tasks' = tasks
    BY <1>6 DEF TakeTask
  <2>2. s \in Snapshot /\ s.task \in Tasks /\ s.attempts \in Nat
    BY <1>0, <2>1, Typed
  <2>3. job'[c].queue = job[c].queue \ {s} /\ job'[c].current = s
    BY <2>1, Typed
  <2>4. job[c].current = None
    BY <1>6 DEF TakeTask, JobsOK, TaskOK
  <2>5. tries'[s.task] <= s.attempts + 1
    BY <1>0, <2>1, <2>2
  <2>6. \A t \in Tasks : t # s.task => tries'[t] = tries[t]
    BY <1>0, <2>1
  <2>7. \A u \in job'[c].queue : u.task # s.task /\ u.task \in Tasks
    BY <1>0, <2>1, <2>3, Typed
  <2>8. \A u \in job'[c].queue : tries'[u.task] <= u.attempts
    BY <2>3, <2>6, <2>7
  <2>9. \A t \in Tasks : tasks[t].status = "pending" => tries[t] <= tasks[t].attempts
    BY <2>4
  <2>10. \A t \in Tasks : tasks'[t].status = "pending" =>
           tries'[t] <= tasks'[t].attempts \/ t = s.task
    BY <2>1, <2>6, <2>9
  <2>11. s # None
    BY <2>2
  <2> QED
    BY <2>3, <2>5, <2>7, <2>8, <2>10, <2>11
<1>7. CASE EndRepairs(c)
  <2>1. job[c].current = None /\ job'[c] = NoJob
    BY <1>7, Typed DEF EndRepairs, End, JobsOK, TaskOK
  <2>2. tasks' = tasks /\ tries' = tries
    BY <1>7 DEF EndRepairs, history
  <2> QED
    BY <2>1, <2>2
<1>8. CASE RepairTelemetry(c) \/ Crash(c)
  BY <1>8, <1>0, Typed DEF RepairTelemetry, Crash, Goto, Works, Fault, InHand, New,
     Old, Dies, End, bounds, history
<1>9. CASE CompleteTask(c)
  <2>1. job[c].current # None /\ job[c].current \in Snapshot
    BY <1>9, Typed DEF CompleteTask, JobsOK, TaskOK
  <2> DEFINE u == job[c].current.task
  <2>2. CASE UNCHANGED tasks /\ Dies(c)
    <3>1. job'[c] = NoJob
      BY <2>2, Typed DEF Dies, End
    <3>2. \A t \in Tasks : tries'[t] = IF t = job[c].current.task THEN 0 ELSE tries[t]
      BY <2>1, <2>2 DEF Dies
    <3> QED
      BY <1>0, <2>2, <3>1, <3>2
  <2>3. CASE /\ tries' = tries /\ job' = [job EXCEPT ![c].current = None]
             /\ tasks' = IF tasks[u].status = "pending"
                         THEN [tasks EXCEPT ![u].status = "completed"] ELSE tasks
    <3>1. job'[c].queue = job[c].queue /\ job'[c].current = None
      BY <2>3, Typed
    <3>2. \A t \in Tasks : /\ tasks'[t].status = "pending" => t # u
                           /\ t # u => tasks'[t] = tasks[t]
      BY <1>0, <2>3
    <3> QED
      BY <2>1, <2>3, <3>1, <3>2
  <2> QED
    BY <1>9, <2>2, <2>3 DEF CompleteTask, Store
<1>10. CASE RescheduleTask(c)
  <2>1. job[c].current # None /\ job[c].current \in Snapshot
    BY <1>10, Typed DEF RescheduleTask, JobsOK, TaskOK
  <2> DEFINE s == job[c].current
  <2>2. CASE UNCHANGED tasks /\ Dies(c)
    <3>1. job'[c] = NoJob
      BY <2>2, Typed DEF Dies, End
    <3>2. \A t \in Tasks : tries'[t] = IF t = job[c].current.task THEN 0 ELSE tries[t]
      BY <2>1, <2>2 DEF Dies
    <3> QED
      BY <1>0, <2>2, <3>1, <3>2
  <2>3. CASE /\ tries' = tries /\ job' = [job EXCEPT ![c].current = None]
             /\ tasks' = [tasks EXCEPT ![s.task] = AfterFailure(s.task, s.attempts + 1)]
    <3>1. job'[c].queue = job[c].queue /\ job'[c].current = None
      BY <2>3, Typed
    <3>2. \A t \in Tasks : t # s.task => tasks'[t] = tasks[t]
      BY <1>0, <2>3
    <3>3. tasks'[s.task] = AfterFailure(s.task, s.attempts + 1) /\ s.task \in Tasks
      BY <1>0, <2>1, <2>3
    <3>4. tasks'[s.task].status = "pending" => tasks'[s.task].attempts = s.attempts + 1
      BY <1>0, <3>3 DEF AfterFailure
    <3>5. tries[s.task] <= s.attempts + 1
      BY <2>1
    <3>6. \A t \in Tasks : tasks'[t].status = "pending" => tries[t] <= tasks'[t].attempts
      BY <2>1, <3>2, <3>4, <3>5
    <3> QED
      BY <2>1, <2>3, <3>1, <3>6
  <2> QED
    BY <1>10, <2>2, <2>3 DEF RescheduleTask, Store
<1>11. CASE ScanStep(c) \/ SyncStep(c)
  <2>1. TriesKept(c) /\ TaskKept(c)
    BY <1>11, SyncKeepsTries, SyncKeepsTask
  <2>2. CASE Kept(c)
    BY <1>0, <2>1, <2>2, Typed DEF TriesKept, Kept
  <2>3. CASE job'[c] = NoJob /\ job[c].kind # "repairs"
    <3>1. job[c].current = None
      BY <2>1, <2>3 DEF JobsOK, TaskOK, TaskKept, Syncing
    <3> QED
      BY <1>0, <2>1, <2>3, <3>1 DEF TriesKept
  <2> QED
    BY <2>1, <2>2, <2>3 DEF TaskKept
<1>12. CASE UNCHANGED vars
  BY <1>12 DEF vars, history
<1> QED
  BY <1>1, <1>2, <1>3, <1>4, <1>5, <1>6, <1>7, <1>8, <1>9, <1>10, <1>11, <1>12
     DEF OneCommand, Next, Start, RepairStep

-----------------------------------------------------------------------------
(* The invariant of one command.                                           *)
SoloOK == /\ TypeOK /\ JobsOK
          /\ \A c \in Commands : RecordsOwned(c) /\ Settled(c) /\ Accounted(c) /\ TriesOK(c)
          /\ AttemptsLimited

(* Init establishes the invariant: nothing runs and nothing is indexed.    *)
LEMMA InitSolo == OneCommand /\ Init => SoloOK
<1> SUFFICES ASSUME OneCommand, Init PROVE SoloOK
  OBVIOUS
<1>1. TypeOK /\ JobsOK
  BY InitJobs
<1>2. ASSUME NEW c \in Commands
      PROVE  RecordsOwned(c) /\ Settled(c) /\ Accounted(c) /\ TriesOK(c)
  <2>1. pc[c] = "idle" /\ job[c] = NoJob
    BY DEF Init
  <2> QED
    BY <2>1 DEF Init, RecordsOwned, Settled, Working, Accounted, TriesOK, NoJob
<1>3. AttemptsLimited
  BY IndexAssumption DEF Init, AttemptsLimited
<1> QED
  BY <1>1, <1>2, <1>3 DEF SoloOK


(* Only TakeTask counts an attempt, and it finds attempts left.            *)
LEMMA LimitStep ==
  ASSUME NEW c \in Commands, OneCommand, TypeOK, JobsOK, TaskOK(c), TriesOK(c),
         AttemptsLimited, [Next]_vars
  PROVE  AttemptsLimited'
<1> USE IndexAssumption DEF AttemptsLimited
<1>0. /\ tasks \in [Tasks -> [status : {"none", "pending", "completed", "failed"},
                             attempts : 0 .. MaxAttempts, due : BOOLEAN]]
      /\ tries \in [Tasks -> 0 .. MaxAttempts + 1]
      /\ \A s \in Snapshot : s.task \in Tasks /\ s.attempts \in Nat
  BY DEF TypeOK, Snapshot
<1>1. CASE (\E p \in Paths : Edit(p)) \/ LosePoints \/ (\E t \in Tasks : OpenTask(t)
          \/ BecomeDue(t))
  BY <1>1, <1>0 DEF Edit, LosePoints, OpenTask, BecomeDue, Fault, bounds, history
<1>2. CASE StartSync(c) \/ StartRebuild(c) \/ (\E r \in Runs : StartRepairs(c, r)) \/
          EndRepairs(c) \/ RepairTelemetry(c)
  BY <1>2, <1>0 DEF StartSync, StartRebuild, StartRepairs, EndRepairs,
     RepairTelemetry, Goto, End, Works, Fault, bounds, history
<1>3. CASE TakeTask(c)
  <2>1. PICK s \in job[c].queue :
          tries' = [tries EXCEPT ![s.task] = IF @ > MaxAttempts THEN @ ELSE @ + 1]
    BY <1>3 DEF TakeTask
  <2>2. s \in Snapshot /\ s.task \in Tasks /\ s.attempts \in Nat
    BY <1>0, <2>1, Typed
  <2>3. tries[s.task] <= s.attempts /\ s.attempts < MaxAttempts
    BY <2>1, <2>2 DEF TriesOK, TaskOK
  <2> QED
    BY <1>0, <2>1, <2>2, <2>3
<1>4. CASE CompleteTask(c)
  <2>1. tries' = tries \/ Dies(c)
    BY <1>4 DEF CompleteTask, Store
  <2> QED
    BY <1>0, <2>1 DEF Dies
<1>5. CASE RescheduleTask(c)
  <2>1. tries' = tries \/ Dies(c)
    BY <1>5 DEF RescheduleTask, Store
  <2> QED
    BY <1>0, <2>1 DEF Dies
<1>6. CASE Crash(c)
  <2>1. tries' = tries \/ Dies(c)
    BY <1>6 DEF Crash, Store
  <2> QED
    BY <1>0, <2>1 DEF Dies
<1>7. CASE ScanStep(c) \/ SyncStep(c)
  BY <1>0, <1>7, SyncKeepsTries DEF TriesKept
<1>8. CASE UNCHANGED vars
  BY <1>0, <1>8 DEF vars, history
<1> QED
  BY <1>1, <1>2, <1>3, <1>4, <1>5, <1>6, <1>7, <1>8
     DEF OneCommand, Next, Start, RepairStep

(* The step of CompletedRepairSynced for the one command.                  *)
CompletesSynced(c) ==
  \A t \in Tasks : t[2] = "qdrant" /\ tasks[t].status # "completed"
                                    /\ tasks'[t].status = "completed" =>
     pc[c] = "complete" /\ job[c].current.task = t /\ records = job[c].hash

(* Only CompleteTask completes a task.                                     *)
LEMMA CompletionStep ==
  ASSUME NEW c \in Commands, OneCommand, TypeOK, JobsOK, Settled(c), [Next]_vars
  PROVE  CompletesSynced(c)
<1> USE DEF CompletesSynced
<1>0. /\ tasks \in [Tasks -> [status : {"none", "pending", "completed", "failed"},
                             attempts : 0 .. MaxAttempts, due : BOOLEAN]]
      /\ tries \in [Tasks -> 0 .. MaxAttempts + 1]
      /\ \A s \in Snapshot : s.task \in Tasks /\ s.attempts \in Nat
  BY DEF TypeOK, Snapshot
<1>1. CASE (\E p \in Paths : Edit(p)) \/ LosePoints \/ (\E t \in Tasks : OpenTask(t)
          \/ BecomeDue(t))
  BY <1>1, <1>0 DEF Edit, LosePoints, OpenTask, BecomeDue, Fault, bounds, history
<1>2. CASE StartSync(c) \/ StartRebuild(c) \/ (\E r \in Runs : StartRepairs(c, r)) \/
          TakeTask(c) \/ EndRepairs(c) \/ RepairTelemetry(c)
  BY <1>2, <1>0 DEF StartSync, StartRebuild, StartRepairs, TakeTask, EndRepairs,
     RepairTelemetry, Goto, End, Works, Fault, bounds, history
<1>3. CASE CompleteTask(c)
  <2>1. pc[c] = "complete"
        /\ \/ tasks' = tasks
           \/ tasks' = [tasks EXCEPT ![job[c].current.task].status = "completed"]
    BY <1>3 DEF CompleteTask, Store
  <2> QED
    BY <1>0, <2>1 DEF Settled
<1>4. CASE RescheduleTask(c)
  <2> DEFINE s == job[c].current
  <2>1. \/ tasks' = tasks
        \/ tasks' = [tasks EXCEPT ![s.task] = AfterFailure(s.task, s.attempts + 1)]
    BY <1>4 DEF RescheduleTask, Store
  <2>2. s.task \in Tasks /\ AfterFailure(s.task, s.attempts + 1).status = "completed"
          => tasks[s.task].status = "completed"
    BY <1>0 DEF AfterFailure
  <2> QED
    BY <1>0, <2>1, <2>2
<1>5. CASE Crash(c)
  BY <1>5, <1>0 DEF Crash, InHand, New, Old, Goto, Works, Fault, Dies, End, bounds,
     history
<1>6. CASE ScanStep(c) \/ SyncStep(c)
  BY <1>0, <1>6, SyncKeepsTries DEF TriesKept
<1>7. CASE UNCHANGED vars
  BY <1>0, <1>7 DEF vars, history
<1> HIDE DEF CompletesSynced
<1> QED
  BY <1>1, <1>2, <1>3, <1>4, <1>5, <1>6, <1>7
     DEF OneCommand, Next, Start, RepairStep

(* The invariant of one command is kept by every step.                     *)
LEMMA SoloStep == OneCommand /\ SoloOK /\ [Next]_vars => SoloOK'
<1> SUFFICES ASSUME OneCommand, SoloOK, [Next]_vars PROVE SoloOK'
  OBVIOUS
<1>1. TypeOK' /\ JobsOK'
  BY TypeStep, JobsStep DEF SoloOK
<1>2. ASSUME NEW c \in Commands
      PROVE  (RecordsOwned(c) /\ Settled(c) /\ Accounted(c) /\ TriesOK(c))'
  BY OwnedStep, SettledStep, AccountedStep, TriesStep DEF SoloOK
<1>3. AttemptsLimited'
  <2>1. PICK c : Commands = {c}
    BY DEF OneCommand
  <2> QED
    BY <2>1, LimitStep DEF SoloOK, JobsOK
<1> QED
  BY <1>1, <1>2, <1>3 DEF SoloOK

(* The invariant of one command holds throughout.                          *)
LEMMA SoloInvariant == OneCommand /\ Spec => []SoloOK
<1> SUFFICES ASSUME OneCommand PROVE Spec => []SoloOK
  OBVIOUS
<1>1. Init => SoloOK
  BY InitSolo
<1>2. SoloOK /\ [Next]_vars => SoloOK'
  BY SoloStep
<1> QED
  BY <1>1, <1>2, PTL DEF Spec

(* OrphansAccounted for one command at a time, any notes, edits and        *)
(* failures: sync never loses sight of points it could have deleted.       *)
THEOREM NoPointForgotten == OneCommand /\ Spec => []OrphansAccounted
<1> SUFFICES ASSUME OneCommand PROVE Spec => []OrphansAccounted
  OBVIOUS
<1>1. SoloOK => OrphansAccounted
  BY DEF SoloOK, Accounted, OrphansAccounted, OneCommand
<1> QED
  BY <1>1, SoloInvariant, PTL

(* AttemptsLimited: for one command at a time, the resets of the attempts  *)
(* that a failing sync makes never add up to one attempt too many.         *)
THEOREM AttemptsStayLimited == OneCommand /\ Spec => []AttemptsLimited
<1> SUFFICES ASSUME OneCommand PROVE Spec => []AttemptsLimited
  OBVIOUS
<1>1. SoloOK => AttemptsLimited
  BY DEF SoloOK
<1> QED
  BY <1>1, SoloInvariant, PTL

(* GenerationKept: a note that can be found stays so, whatever fails       *)
(* between upsert, record and cleanup.                                     *)
THEOREM GenerationsAreKept == OneCommand /\ Spec => GenerationKept
<1> SUFFICES ASSUME OneCommand PROVE Spec => GenerationKept
  OBVIOUS
<1> DEFINE kept == \A p \in Paths : Indexed(p) /\ ~Indexed(p)' =>
       \/ \A id \in Ids : points'[id] = None
       \/ \E c \in Commands : pc[c] \in {"recreate", "prune"}
       \/ \E c \in Commands : pc[c] = "discard" /\ New(c) = Old(c)
<1>1. SoloOK /\ [Next]_vars => kept
  <2> SUFFICES ASSUME SoloOK, [Next]_vars PROVE kept
    OBVIOUS
  <2>1. PICK c : Commands = {c}
    BY DEF OneCommand
  <2>2. Keeps(c)
    BY <2>1, GenerationStep DEF SoloOK
  <2> QED
    BY <2>1, <2>2 DEF Keeps
<1>2. SoloOK /\ [Next]_vars => [kept]_vars
  BY <1>1
<1> QED
  BY <1>2, SoloInvariant, PTL DEF Spec, GenerationKept

(* CompletedRepairSynced: a qdrant repair is completed only when the       *)
(* records are those of its scan, all of them and no other.                *)
THEOREM CompletionsAreSynced == OneCommand /\ Spec => CompletedRepairSynced
<1> SUFFICES ASSUME OneCommand PROVE Spec => CompletedRepairSynced
  OBVIOUS
<1> DEFINE synced == \A t \in Tasks :
       t[2] = "qdrant" /\ tasks[t].status # "completed"
                       /\ tasks'[t].status = "completed" =>
         \E c \in Commands : /\ pc[c] = "complete" /\ job[c].current.task = t
                             /\ records = job[c].hash
<1>1. SoloOK /\ [Next]_vars => synced
  <2> SUFFICES ASSUME SoloOK, [Next]_vars PROVE synced
    OBVIOUS
  <2>1. PICK c : Commands = {c}
    BY DEF OneCommand
  <2>2. CompletesSynced(c)
    BY <2>1, CompletionStep DEF SoloOK
  <2> QED
    BY <2>1, <2>2 DEF CompletesSynced
<1>2. SoloOK /\ [Next]_vars => [synced]_vars
  BY <1>1
<1> QED
  BY <1>2, SoloInvariant, PTL DEF Spec, CompletedRepairSynced

=============================================================================

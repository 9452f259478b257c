----------------------------- MODULE IndexSync -----------------------------
(***************************************************************************)
(* The derived vector index and its repairs: IndexService (sync, rebuild)  *)
(* over Qdrant and the index records of runs.db, and RepairService over    *)
(* the repair tasks of runs.db.  The two belong together: the handler of a *)
(* qdrant task is a sync, and a failed sync enqueues a qdrant task.        *)
(*                                                                         *)
(* The operator starts them as commands (index sync, index rebuild,        *)
(* repairs run <run>), each a process of its own; nothing excludes another *)
(* command, and the owner edits the notes meanwhile.                       *)
(*                                                                         *)
(* A version stands for a note's text and, with it, for content_hash and   *)
(* index_fingerprint, of which a generation's point ids are made.  All     *)
(* points of a generation are upserted, read and deleted by one call, so   *)
(* they are one id here.  The collection follows from the path.            *)
(***************************************************************************)
EXTENDS Naturals, FiniteSets

CONSTANTS
  Commands,    \* processes of the command line
  Paths,       \* notes of the vault
  Runs,        \* runs with repair tasks
  None,
  MaxAttempts, \* RepairService.max_attempts
  Faults,      \* what may fail
  Rewrites,    \* TRUE: a note may return to an earlier text
  MaxEdits, MaxFailures, MaxOpens \* bounds: edits, failures, tasks the graph opens

FaultKinds == {"qdrant", "store", "telemetry", "crash", "loss", "mount"}

Versions == 1 .. MaxEdits + 1
Target   == {"qdrant", "langfuse"}
Tasks    == Runs \X Target
Ids      == Paths \X Versions
Notes    == [Paths -> Versions \cup {None}]

(* A task as list_repairs returned it.                                     *)
Snapshot == [task : Tasks, attempts : 0 .. MaxAttempts]

ASSUME IndexAssumption ==
  /\ MaxAttempts \in Nat \ {0}
  /\ Faults \subseteq FaultKinds
  /\ Rewrites \in BOOLEAN
  /\ {MaxEdits, MaxFailures, MaxOpens} \subseteq Nat
  /\ None \notin Paths \cup Versions \cup Snapshot

VARIABLES
  vault,    \* the notes below the allowed paths
  points,   \* Qdrant: the text indexed under each id
  records,  \* runs.db: the generation of each path's index record
  tasks,    \* runs.db: status, attempts and next_attempt_at of each repair task
  pc, job,  \* each command and its locals
  edits, failures, opens,
  \* history
  tries,    \* handler calls for a task since it was opened or a command died with
            \* it, counted to one above MaxAttempts
  leaked    \* ids whose deletion failed or was cut off by a crash

bounds == <<edits, failures, opens>>
history == <<tries, leaked>>
vars == <<vault, points, records, tasks, pc, job, bounds, history>>

Pcs == {"idle", "pick", "telemetry", "inventory", "read", "recreate", "forget",
        "ensure", "next", "validate", "upsert", "check", "save", "discard",
        "cleanup", "prune", "unrecord", "enqueue", "report",
        "complete", "reschedule"}

(* The locals of a command: hash and text are the scan, todo the paths     *)
(* still to do, known what was read of the records, repair is              *)
(* repair_required.  A path fails only together with repair_required.      *)
Job == [kind : {"none", "sync", "rebuild", "repairs"},
        queue : SUBSET Snapshot, current : Snapshot \cup {None},
        hash : Notes, text : Notes, known : Notes,
        todo : SUBSET Paths, path : Paths \cup {None}, repair : BOOLEAN]

NoNotes == [p \in Paths |-> None]
NoJob == [kind |-> "none", queue |-> {}, current |-> None, hash |-> NoNotes,
          text |-> NoNotes, known |-> NoNotes, todo |-> {}, path |-> None,
          repair |-> FALSE]

TypeOK ==
  /\ vault \in Notes
  /\ points \in [Ids -> Versions \cup {None}]
  /\ records \in Notes
  /\ tasks \in [Tasks -> [status : {"none", "pending", "completed", "failed"},
                          attempts : 0 .. MaxAttempts, due : BOOLEAN]]
  /\ pc \in [Commands -> Pcs]
  /\ job \in [Commands -> Job]
  /\ edits \in 0 .. MaxEdits
  /\ failures \in 0 .. MaxFailures
  /\ opens \in 0 .. MaxOpens
  /\ tries \in [Tasks -> 0 .. MaxAttempts + 1]
  /\ leaked \subseteq Ids

Init ==
  /\ vault \in [Paths -> {1, None}]
  /\ points = [id \in Ids |-> None]
  /\ records = NoNotes
  /\ tasks = [t \in Tasks |-> [status |-> "none", attempts |-> 0, due |-> FALSE]]
  /\ pc = [c \in Commands |-> "idle"]
  /\ job = [c \in Commands |-> NoJob]
  /\ edits = 0 /\ failures = 0 /\ opens = 0
  /\ tries = [t \in Tasks |-> 0]
  /\ leaked = {}

Existing(notes) == {p \in Paths : notes[p] # None}

-----------------------------------------------------------------------------
(* Calls.  A failed Qdrant call may have had its effect; a failed SQLite   *)
(* operation has none.                                                     *)

Goto(c, where) == pc' = [pc EXCEPT ![c] = where]

Fault(kind) ==
  /\ kind \in Faults
  /\ failures < MaxFailures
  /\ failures' = failures + 1

Works == UNCHANGED failures

(* A call of Qdrant after which the points are one of effects.             *)
Qdrant(effects, ok, raised) ==
  \/ Works /\ points' \in effects /\ ok
  \/ Fault("qdrant") /\ points' \in effects \cup {points} /\ raised

Store(ok, raised) ==
  \/ Works /\ ok
  \/ Fault("store") /\ raised

(* The ids a command works on: the new generation of its path and the one  *)
(* its record named.                                                       *)
New(c) == <<job[c].path, job[c].hash[job[c].path]>>
Old(c) == <<job[c].path, job[c].known[job[c].path]>>
Without(id) == [points EXCEPT ![id] = None]

(* The command is over.  If it held a task, the task's outcome is unsaved. *)
End(c) ==
  /\ Goto(c, "idle")
  /\ job' = [job EXCEPT ![c] = NoJob]

Dies(c) ==
  /\ End(c)
  /\ tries' = [t \in Tasks |->
       IF job[c].current # None /\ job[c].current.task = t THEN 0 ELSE tries[t]]

(* An exception leaves sync: RepairService catches it, a plain command     *)
(* ends with it.                                                           *)
SyncRaises(c) ==
  IF job[c].kind = "repairs" THEN Goto(c, "reschedule") /\ UNCHANGED job ELSE End(c)

-----------------------------------------------------------------------------
(* Faulty variants of some definitions below, for mutation checks only.    *)

CountStored(t, attempts) ==
  IF tasks[t].attempts + 1 < MaxAttempts
  THEN [status |-> "pending", attempts |-> tasks[t].attempts + 1, due |-> FALSE]
  ELSE [tasks[t] EXCEPT !.status = "failed"]
FreshTasksOnly(c, r) ==
  /\ pc[c] = "idle"
  /\ LET due == {t \in Tasks : t[1] = r /\ tasks[t] = [status |-> "pending",
                                                     attempts |-> 0, due |-> TRUE]} IN
       /\ due # {}
       /\ job' = [job EXCEPT ![c] =
            [NoJob EXCEPT !.kind = "repairs",
                          !.queue = {[task |-> t, attempts |-> 0] : t \in due}]]
  /\ Goto(c, "pick")
  /\ UNCHANGED <<vault, points, records, tasks, bounds, history>>
TrustRecord(c) ==
  /\ pc[c] = "validate"
  /\ Goto(c, "next")
  /\ UNCHANGED <<vault, points, records, tasks, job, bounds, history>>
CleanupFirst(c) ==
  /\ pc[c] = "check"
  /\ points[New(c)] # None
  /\ points' = IF Old(c)[2] \in {None, New(c)[2]} THEN points ELSE Without(Old(c))
  /\ Goto(c, "save")
  /\ UNCHANGED <<vault, records, tasks, job, bounds, history>>
NoCleanup(c) ==
  /\ pc[c] = "save"
  /\ Store(/\ records' = [records EXCEPT ![job[c].path] = New(c)[2]]
           /\ Goto(c, "next"),
           UNCHANGED records /\ Goto(c, "discard"))
  /\ UNCHANGED <<vault, points, tasks, job, edits, opens, history>>
DiscardQuietly(c) ==
  /\ pc[c] = "discard"
  /\ Qdrant({Without(New(c))}, UNCHANGED leaked, leaked' = leaked \cup {New(c)})
  /\ Goto(c, "next")
  /\ UNCHANGED <<vault, records, tasks, job, edits, opens, tries>>

-----------------------------------------------------------------------------
(* The world around the commands.                                          *)

(* The owner, or VaultWriter, changes or removes a note.  Unless Rewrites, *)
(* a changed note has a text no note had before.                           *)
Edit(p) ==
  /\ edits < MaxEdits
  /\ edits' = edits + 1
  /\ \E v \in {edits + 2, None} \cup IF Rewrites THEN Versions ELSE {} :
       v # vault[p] /\ vault' = [vault EXCEPT ![p] = v]
  /\ UNCHANGED <<points, records, tasks, pc, job, failures, opens, history>>

(* Qdrant loses its volume.                                                *)
LosePoints ==
  /\ Fault("loss")
  /\ points' = [id \in Ids |-> None]
  /\ UNCHANGED <<vault, records, tasks, pc, job, edits, opens, history>>

(* A graph node whose secondary service failed enqueues the repair.        *)
OpenTask(t) ==
  /\ opens < MaxOpens
  /\ opens' = opens + 1
  /\ tasks' = [tasks EXCEPT ![t] = [status |-> "pending", attempts |-> 0, due |-> TRUE]]
  /\ tries' = [tries EXCEPT ![t] = 0]
  /\ UNCHANGED <<vault, points, records, pc, job, edits, failures, leaked>>

(* next_attempt_at passes.                                                 *)
BecomeDue(t) ==
  /\ tasks[t].status = "pending"
  /\ ~tasks[t].due
  /\ tasks' = [tasks EXCEPT ![t].due = TRUE]
  /\ UNCHANGED <<vault, points, records, pc, job, bounds, history>>

InHand(c) == CASE pc[c] \in {"check", "save", "discard"} -> {New(c)}
               [] pc[c] = "cleanup" -> {Old(c)}
               [] OTHER -> {}

Crash(c) ==
  /\ pc[c] # "idle"
  /\ Fault("crash")
  /\ Dies(c)
  /\ leaked' = leaked \cup InHand(c)
  /\ UNCHANGED <<vault, points, records, tasks, edits, opens>>

-----------------------------------------------------------------------------
(* RepairService.run.                                                      *)

(* repairs run lists the pending tasks of the run once, with their         *)
(* attempts, and passes over those that are not due.                       *)
StartRepairs(c, r) ==
  /\ pc[c] = "idle"
  /\ LET due == {t \in Tasks : t[1] = r /\ tasks[t].status = "pending" /\ tasks[t].due} IN
       /\ due # {}
       /\ job' = [job EXCEPT ![c] =
            [NoJob EXCEPT !.kind = "repairs",
                          !.queue = {[task |-> t, attempts |-> tasks[t].attempts] : t \in due}]]
  /\ Goto(c, "pick")
  /\ UNCHANGED <<vault, points, records, tasks, bounds, history>>

(* The next task; its handler is called.                                   *)
TakeTask(c) ==
  /\ pc[c] = "pick"
  /\ \E s \in job[c].queue :
       /\ job' = [job EXCEPT ![c] =
            [NoJob EXCEPT !.kind = "repairs", !.queue = job[c].queue \ {s}, !.current = s]]
       /\ tries' = [tries EXCEPT ![s.task] = IF @ > MaxAttempts THEN @ ELSE @ + 1]
       /\ Goto(c, IF s.task[2] = "qdrant" THEN "inventory" ELSE "telemetry")
  /\ UNCHANGED <<vault, points, records, tasks, bounds, leaked>>

EndRepairs(c) ==
  /\ pc[c] = "pick"
  /\ job[c].queue = {}
  /\ End(c)
  /\ UNCHANGED <<vault, points, records, tasks, bounds, history>>

(* repair_langfuse: record an event and flush.                             *)
RepairTelemetry(c) ==
  /\ pc[c] = "telemetry"
  /\ \/ Works /\ Goto(c, "complete")
     \/ Fault("telemetry") /\ Goto(c, "reschedule")
  /\ UNCHANGED <<vault, points, records, tasks, job, edits, opens, history>>

(* complete_repair and the two outcomes of a failed attempt.  An error of  *)
(* the store ends the command.                                             *)
CompleteTask(c) ==
  /\ pc[c] = "complete"
  /\ LET t == job[c].current.task IN
       Store(/\ tasks' = IF tasks[t].status = "pending"
                         THEN [tasks EXCEPT ![t].status = "completed"] ELSE tasks
             /\ Goto(c, "pick")
             /\ job' = [job EXCEPT ![c].current = None]
             /\ UNCHANGED tries,
             UNCHANGED tasks /\ Dies(c))
  /\ UNCHANGED <<vault, points, records, edits, opens, leaked>>

AfterFailure(t, attempts) ==
  IF attempts < MaxAttempts
  THEN [status |-> "pending", attempts |-> attempts, due |-> FALSE]
  ELSE IF tasks[t].status = "pending"
       THEN [tasks[t] EXCEPT !.status = "failed", !.attempts = attempts]
       ELSE tasks[t]

RescheduleTask(c) ==
  /\ pc[c] = "reschedule"
  /\ LET s == job[c].current IN
       Store(/\ tasks' = [tasks EXCEPT ![s.task] = AfterFailure(s.task, s.attempts + 1)]
             /\ Goto(c, "pick")
             /\ job' = [job EXCEPT ![c].current = None]
             /\ UNCHANGED tries,
             UNCHANGED tasks /\ Dies(c))
  /\ UNCHANGED <<vault, points, records, edits, opens, leaked>>

-----------------------------------------------------------------------------
(* The scan and the way into sync and rebuild.                             *)

StartSync(c) ==
  /\ pc[c] = "idle"
  /\ job' = [job EXCEPT ![c].kind = "sync"]
  /\ Goto(c, "inventory")
  /\ UNCHANGED <<vault, points, records, tasks, bounds, history>>

StartRebuild(c) ==
  /\ pc[c] = "idle"
  /\ job' = [job EXCEPT ![c].kind = "rebuild"]
  /\ Goto(c, "inventory")
  /\ UNCHANGED <<vault, points, records, tasks, bounds, history>>

(* VaultScanner.scan hashes the notes; a root that is not mounted counts   *)
(* as empty.  The scan is complete in either case.                         *)
TakeInventory(c) ==
  /\ pc[c] = "inventory"
  /\ \/ Works /\ job' = [job EXCEPT ![c].hash = vault]
     \/ Fault("mount") /\ job' = [job EXCEPT ![c].hash = NoNotes]
  /\ Goto(c, "read")
  /\ UNCHANGED <<vault, points, records, tasks, edits, opens, history>>

(* The notes of the inventory are read again for their text; one that is   *)
(* gone by now ends the scan.                                              *)
ReadNotes(c) ==
  /\ pc[c] = "read"
  /\ IF Existing(job[c].hash) \subseteq Existing(vault)
     THEN /\ job' = [job EXCEPT ![c].text = [p \in Paths |->
                       IF job[c].hash[p] = None THEN None ELSE vault[p]]]
          /\ Goto(c, IF job[c].kind = "rebuild" THEN "recreate" ELSE "ensure")
     ELSE SyncRaises(c)
  /\ UNCHANGED <<vault, points, records, tasks, bounds, history>>

(* The branches that give up before any note is looked at.                 *)
GiveUp(c) == Goto(c, "enqueue") /\ job' = [job EXCEPT ![c].repair = TRUE]

(* recreate_collections goes collection by collection.                     *)
Recreate(c) ==
  /\ pc[c] = "recreate"
  /\ \/ /\ Works
        /\ points' = [id \in Ids |-> None]
        /\ job' = [job EXCEPT ![c].todo = Existing(records)]
        /\ Goto(c, "forget")
     \/ /\ Fault("qdrant")
        /\ \E gone \in SUBSET Paths :
             points' = [id \in Ids |-> IF id[1] \in gone THEN None ELSE points[id]]
        /\ GiveUp(c)
  /\ UNCHANGED <<vault, records, tasks, edits, opens, history>>

ForgetRecord(c) ==
  /\ pc[c] = "forget"
  /\ \E p \in job[c].todo :
       Store(/\ records' = [records EXCEPT ![p] = None]
             /\ job' = [job EXCEPT ![c].todo = @ \ {p}]
             /\ UNCHANGED pc,
             UNCHANGED records /\ GiveUp(c))
  /\ UNCHANGED <<vault, points, tasks, edits, opens, history>>

Ensure(c) ==
  /\ \/ pc[c] = "ensure"
     \/ pc[c] = "forget" /\ job[c].todo = {}
  /\ Qdrant({points},
            /\ job' = [job EXCEPT ![c].todo = Existing(job[c].hash)]
            /\ Goto(c, "next"),
            GiveUp(c))
  /\ UNCHANGED <<vault, records, tasks, edits, opens, history>>

-----------------------------------------------------------------------------
(* IndexService.sync, note by note; in what order no property can tell.    *)

(* _is_unchanged: the record first, then its points if it fits the note.   *)
GetRecord(c) ==
  /\ pc[c] = "next"
  /\ \E p \in job[c].todo :
       Store(/\ job' = [job EXCEPT ![c].todo = @ \ {p}, ![c].path = p,
                                  ![c].known[p] = records[p]]
             /\ Goto(c, IF records[p] = job[c].hash[p] THEN "validate" ELSE "upsert"),
             SyncRaises(c))
  /\ UNCHANGED <<vault, points, records, tasks, edits, opens, history>>

ValidateExisting(c) ==
  /\ pc[c] = "validate"
  /\ \/ Works /\ Goto(c, IF points[Old(c)] = None THEN "upsert" ELSE "next") /\ UNCHANGED job
     \/ Fault("qdrant") /\ SyncRaises(c)
  /\ UNCHANGED <<vault, points, records, tasks, edits, opens, history>>

(* _replace_generation: upsert, validate, save, delete the stale points.   *)
Upsert(c) ==
  /\ pc[c] = "upsert"
  /\ Qdrant({[points EXCEPT ![New(c)] = job[c].text[job[c].path]]},
            Goto(c, "check"), Goto(c, "discard"))
  /\ UNCHANGED <<vault, records, tasks, job, edits, opens, history>>

CheckNew(c) ==
  /\ pc[c] = "check"
  /\ \/ Works /\ Goto(c, IF points[New(c)] = None THEN "discard" ELSE "save")
     \/ Fault("qdrant") /\ Goto(c, "discard")
  /\ UNCHANGED <<vault, points, records, tasks, job, edits, opens, history>>

SaveRecord(c) ==
  /\ pc[c] = "save"
  /\ Store(/\ records' = [records EXCEPT ![job[c].path] = New(c)[2]]
           /\ Goto(c, IF Old(c)[2] \in {None, New(c)[2]} THEN "next" ELSE "cleanup"),
           UNCHANGED records /\ Goto(c, "discard"))
  /\ UNCHANGED <<vault, points, tasks, job, edits, opens, history>>

(* The update has failed: its points are deleted if Qdrant lets it.        *)
Discard(c) ==
  /\ pc[c] = "discard"
  /\ Qdrant({Without(New(c))}, UNCHANGED leaked, leaked' = leaked \cup {New(c)})
  /\ job' = [job EXCEPT ![c].repair = TRUE]
  /\ Goto(c, "next")
  /\ UNCHANGED <<vault, records, tasks, edits, opens, tries>>

Cleanup(c) ==
  /\ pc[c] = "cleanup"
  /\ Qdrant({Without(Old(c))},
            UNCHANGED <<job, leaked>>,
            job' = [job EXCEPT ![c].repair = TRUE] /\ leaked' = leaked \cup {Old(c)})
  /\ Goto(c, "next")
  /\ UNCHANGED <<vault, records, tasks, edits, opens, tries>>

(* The scan is complete: the records of other paths go, points first.      *)
ListRecords(c) ==
  /\ pc[c] = "next"
  /\ job[c].todo = {}
  /\ Store(/\ job' = [job EXCEPT ![c].known = records,
                                ![c].todo = Existing(records) \ Existing(job[c].hash)]
           /\ Goto(c, "prune"),
           SyncRaises(c))
  /\ UNCHANGED <<vault, points, records, tasks, edits, opens, history>>

Prune(c) ==
  /\ pc[c] = "prune"
  /\ \E p \in job[c].todo :
       LET rest == [job[c] EXCEPT !.todo = @ \ {p}, !.path = p] IN
         Qdrant({Without(<<p, job[c].known[p]>>)},
                job' = [job EXCEPT ![c] = rest] /\ Goto(c, "unrecord"),
                job' = [job EXCEPT ![c] = [rest EXCEPT !.repair = TRUE]] /\ UNCHANGED pc)
  /\ UNCHANGED <<vault, records, tasks, edits, opens, history>>

DeleteRecord(c) ==
  /\ pc[c] = "unrecord"
  /\ Store(records' = [records EXCEPT ![job[c].path] = None] /\ UNCHANGED job,
           UNCHANGED records /\ job' = [job EXCEPT ![c].repair = TRUE])
  /\ Goto(c, "prune")
  /\ UNCHANGED <<vault, points, tasks, edits, opens, history>>

EndPrune(c) ==
  /\ pc[c] = "prune"
  /\ job[c].todo = {}
  /\ Goto(c, IF job[c].repair THEN "enqueue" ELSE "report")
  /\ UNCHANGED <<vault, points, records, tasks, job, bounds, history>>

(* _repair: a sync on behalf of a run enqueues the run's task anew.        *)
EnqueueRepair(c) ==
  /\ pc[c] = "enqueue"
  /\ IF job[c].kind # "repairs"
     THEN Goto(c, "report") /\ UNCHANGED <<tasks, job, failures>>
     ELSE Store(/\ tasks' = [tasks EXCEPT ![job[c].current.task] =
                        [status |-> "pending", attempts |-> 0, due |-> TRUE]]
                /\ Goto(c, "report")
                /\ UNCHANGED job,
                UNCHANGED <<tasks, job>> /\ Goto(c, "reschedule"))
  /\ UNCHANGED <<vault, points, records, edits, opens, history>>

(* repair_qdrant raises if the sync asks for a repair; a plain command     *)
(* prints its result.                                                      *)
Report(c) ==
  /\ pc[c] = "report"
  /\ IF job[c].kind = "repairs"
     THEN Goto(c, IF job[c].repair THEN "reschedule" ELSE "complete") /\ UNCHANGED job
     ELSE End(c)
  /\ UNCHANGED <<vault, points, records, tasks, bounds, history>>

-----------------------------------------------------------------------------

RepairStep(c) ==
  \/ TakeTask(c) \/ EndRepairs(c) \/ RepairTelemetry(c) \/ CompleteTask(c)
  \/ RescheduleTask(c)

ScanStep(c) ==
  \/ TakeInventory(c) \/ ReadNotes(c) \/ Recreate(c) \/ ForgetRecord(c) \/ Ensure(c)

SyncStep(c) ==
  \/ GetRecord(c) \/ ValidateExisting(c) \/ Upsert(c) \/ CheckNew(c)
  \/ SaveRecord(c) \/ Discard(c) \/ Cleanup(c) \/ ListRecords(c) \/ Prune(c)
  \/ DeleteRecord(c) \/ EndPrune(c) \/ EnqueueRepair(c) \/ Report(c)

Start(c) == StartSync(c) \/ StartRebuild(c) \/ \E r \in Runs : StartRepairs(c, r)

Next ==
  \/ \E p \in Paths : Edit(p)
  \/ LosePoints
  \/ \E t \in Tasks : OpenTask(t) \/ BecomeDue(t)
  \/ \E c \in Commands : Start(c) \/ RepairStep(c) \/ ScanStep(c) \/ SyncStep(c) \/ Crash(c)

Spec == Init /\ [][Next]_vars

(* Commands run to their end, and the operator goes on calling index sync  *)
(* and repairs run.                                                        *)
FairSpec ==
  /\ Spec
  /\ \A t \in Tasks : WF_vars(BecomeDue(t))
  /\ \A c \in Commands :
       /\ WF_vars(RepairStep(c) \/ ScanStep(c) \/ SyncStep(c))
       /\ SF_vars(StartSync(c))
       /\ \A r \in Runs : SF_vars(StartRepairs(c, r))

-----------------------------------------------------------------------------
(* Properties.                                                             *)

Indexed(p) == records[p] # None /\ points[<<p, records[p]>>] # None

(* "A new generation is validated before the previous one is removed"      *)
(* (RF-010): whatever fails between upsert, record and cleanup, a note     *)
(* that can be found by its record stays so, unless Qdrant lost it, the    *)
(* index is being rebuilt, the note is being pruned, or the sync that      *)
(* fails was indexing the very generation the record names.                *)
GenerationKept ==
  [][\A p \in Paths : Indexed(p) /\ ~Indexed(p)' =>
       \/ \A id \in Ids : points'[id] = None
       \/ \E c \in Commands : pc[c] \in {"recreate", "prune"}
       \/ \E c \in Commands : pc[c] = "discard" /\ New(c) = Old(c)]_vars

(* A point no record names is the business of a command in progress, or    *)
(* its deletion failed or was cut off by a crash: sync never forgets       *)
(* points it could have deleted, over any sequence of edits, failures,     *)
(* removals and rebuilds.  (No later sync deletes the leaked ones.)        *)
OrphansAccounted ==
  \A id \in Ids : points[id] # None /\ records[id[1]] # id[2] =>
    id \in leaked \cup UNION {InHand(c) : c \in Commands}

(* A qdrant repair is completed only when every note of its scan has the   *)
(* record of its generation and every other record is gone: one failed     *)
(* path anywhere in the sync keeps the task open.                          *)
CompletedRepairSynced ==
  [][\A t \in Tasks : t[2] = "qdrant" /\ tasks[t].status # "completed"
                                      /\ tasks'[t].status = "completed" =>
       \E c \in Commands : /\ pc[c] = "complete" /\ job[c].current.task = t
                           /\ records = job[c].hash]_vars

(* A task is attempted at most max_attempts times, although each failed    *)
(* sync resets its attempts, unless a command dies with the task in hand.  *)
AttemptsLimited == \A t \in Tasks : tries[t] <= MaxAttempts

(* Once the owner stops editing, the index comes to agree with the vault:  *)
(* a record for each note, its points there with the note's text.          *)
InSync == \A p \in Paths :
  /\ records[p] = vault[p]
  /\ vault[p] # None => points[<<p, vault[p]>>] = vault[p]
IndexHeals == []<>InSync

(* No repair stays open for ever: it is completed or it has failed.        *)
RepairsSettle == \A t \in Tasks : tasks[t].status = "pending" ~> tasks[t].status # "pending"

=============================================================================

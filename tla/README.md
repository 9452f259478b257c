# Verification of the agentic knowledge pipeline

TLA+ models of the pipeline in `src/knowledge_agents`, the TLC runs that check
them and the theorems TLAPS proves about them. The models are translated from
the code; the documents under `.Codex/sdd/features` (DEFINE, DESIGN) are quoted
only where the code does something else.

Contents: [the system](#the-system), [the modules](#the-modules),
[the runs](#the-runs), [the proofs](#the-proofs),
[what the code does against its documents](#where-code-and-documents-disagree),
[what is left out](#what-is-left-out), [the plan](#the-plan).

## The system

A request to acquire knowledge from a notebook or an article enters through a
Lambda function, travels over SQS to a local worker and is executed there as a
LangGraph pipeline of thirteen nodes with three language-model agents. Three
stores outlive a worker: `runs.db` (the run store), `checkpoints.db`
(LangGraph's checkpoints) and the artifact directory.

    client -> LambdaTrigger -> SQS (+ DLQ) -> Worker -> RunService -> graph
                                               |            |           |
                                               +-- runs.db -+-----------+-- artifacts
                                                   (lease)  checkpoints.db  providers, models,
                                                                            Qdrant, Langfuse

| Component | State | Operations | Correct when |
|---|---|---|---|
| Queue: `adapters/sqs_queue.py`, `queues.tf` | messages, receive counts, visibility | receive, extend, acknowledge, release, redrive | a message is not lost before its work is done |
| Worker: `entrypoints/worker.py` | the message in hand, an execution task, a heartbeat task | run, process, heartbeat | it acknowledges finished runs only, executes under the lease, releases what it cannot do |
| Run store: `adapters/sqlite_run_store.py` | runs with status and lease, artifacts, index records, repair tasks | create_or_get_run, leases, update_stage, record_artifact, repairs, index records | a key is one run, a lease one owner, a terminal status final |
| Run service: `services/run_service.py` | none of its own | execute, resume, state | a run continues after its last checkpoint |
| Graph: `application/graph` | RunState in the checkpoint | thirteen nodes, routing | artifacts, checkpoint and row agree after any failure |
| Agents: `application/agents` | none | one model call each, checks of the answer, the revision package | only blocked notes are revised, only reviewed notes leave the loop |
| Budgets, contracts: `domain` | usage ledger | ensure_can_call, validators | no run starves, no run overspends |
| Artifact store: `filesystem_artifacts.py` | files | write_json, read_json | a file never changes |
| Providers: `notebooklm_provider.py`, `web_article_provider.py`, `mcp_stdio_client.py` | inspected sources in memory, a child process | inspect, acquire, JSON-RPC requests | the evidence belongs to the inspected source |
| Repairs: `services/repair_service.py` | repair tasks in `runs.db` | run, list | a failed secondary service is made up for |
| Index: `services/index_service.py`, `qdrant_index.py` | points, index records | sync, rebuild | the points of each note are those of its record |
| Vault: `vault_writer.py`, `vault_scanner.py` | notes below the staging root | persist, scan | all or nothing, nothing overwritten |
| Model client: `openai_client.py` | none | parse, with one contract repair | what was billed is in the usage |
| Telemetry: `langfuse_telemetry.py` | pending events, exporting threads | record, flush | no event is lost |
| Chunker: `chunker.py` | none | chunk | the chunks are the note and fit their limit |
| Embeddings, redaction, Lambda trigger, evaluation, doctor, command line | little or none | | |

The hard behaviours, each at its line in `PROJECT.json` under *hazards*:

- **Two workers, one run.** Messages are delivered again when their visibility
  runs out, and a client may send a request twice. The SQLite lease is the only
  exclusion; `update_stage` itself reads and writes in two transactions and
  checks no lease.
- **Crashes between stores.** A node writes a file, a row and, through
  LangGraph, a checkpoint. Each may be the last thing that happened.
- **Repetition with other results.** A node that is executed again asks a model
  or a provider that may answer differently, while files are write-once.
- **The editorial loop.** Approvals are remembered by hash over several rounds
  while models rewrite the notes around them.
- **Secondary failures.** Index and telemetry may fail without failing the run;
  a repair task stands for them, and its handler is a sync that may enqueue the
  very task it runs for.
- **Three records of one note.** The vault, the points in Qdrant and the index
  records in `runs.db` change one after another, by commands that may fail or die
  at each call while the owner edits.
- **One pipe, many askers.** The MCP client writes a request and reads lines until
  one has its id. A request that times out or is cancelled leaves its answer behind;
  a preflight that is cancelled leaves a server half checked.
- **Two fetches, one article.** The provider describes an article at one node and
  hands it out at the next; in between the page changes, the worker restarts or
  another run asks for the same URL.
- **Money and failures.** A response costs when it is generated, not when its node
  commits; a repaired call is two responses under one reservation.
- **Boundaries of chunks.** Targets, maxima, sections, split blocks and overlaps meet
  at the same places.
- **Several files, one promise.** `persist` checks all targets and then writes
  them one by one; whatever it leaves must not stand in the way of its repetition.

## The modules

`Delivery` models the queue, the workers, the row of each run and the
checkpoint, with the graph as a chain of `LastNode` nodes. `RunGraph` models
what the nodes of that chain do to the stores; `ReviewLoop` models the notes
the nodes of the editorial loop carry, which `RunGraph` sees as single values.
`IndexSync` models the maintenance commands that make up for what a run could
not do, and `VaultPersist` the writing of a run's notes into the vault. Below the
graph are `Providers` (`NotebookSession` and `WebArticle` over `SourcePort`), which
`RunGraph` sees as calls that answer or raise, `Accounting`, which follows the money
and the telemetry of a run through the same nodes, and `Chunker`, an algorithm.

Modules that look at the same thing from two sides are held together by contracts
both implement, so that what one of them abstracts is what the other one does:

| Contract | says | implemented by |
|---|---|---|
| `DeliveryContract` | a request is accepted once, completed before it is acknowledged | `Delivery` |
| `RunContract` | the nodes of a run are completed one by one, the last one makes the row terminal | each run of `Delivery`, whose nodes are anonymous; `RunGraph`, whose nodes are the code's |
| `LoopContract` | rounds of the editorial loop end in a verdict, in another revision, or in giving up for one of two reasons | `ReviewLoop`, which knows notes but no failures; `RunGraph`, which knows failures but no notes |
| `SourceContract` | evidence is delivered only for what was described | `NotebookSession` and `WebArticle` |

### Delivery

| Variables | Code |
|---|---|
| `place`, `receives`, `visibility` | an SQS message: where it is, ApproximateReceiveCount, visibility timeout |
| `request`, `status`, `owner`, `ttl` | a row of `runs`: request_hash, status, lease_owner, lease_expires_at |
| `checkpoint` | the last committed node of a thread in `checkpoints.db` |
| `pc`, `msg`, `receipt` | where `Worker.process` is, its message and receipt handle |
| `node`, `seen` | the node in execution and the status `update_stage` read |
| `beat` | time until the heartbeat task acts |
| `finished` | history: rows that have held a terminal status |

| Actions | Code |
|---|---|
| `Submit`, `Redrive` | LambdaTrigger's send, the queue's redrive policy |
| `Receive`, `ReceiveFails`, `Stop` | `Worker.run`: receive, its exception, the stop event before and after it |
| `CreateOrGetRun`, `Refuse` | `process` up to the lease: parse, create_or_get_run, the terminal test; every early return that releases |
| `AcquireLease`, `LeaseBusy` | acquire_lease with its WHERE clause |
| `EnterExecution`, `ReadStage`, `WriteStage`, `CommitNode`, `ExecutionFails` | `RunService.execute` and the graph, with the two transactions of update_stage apart |
| `Heartbeat`, `LoseHeartbeat` | `_heartbeat` and what `_execute_with_heartbeat` makes of its error |
| `VerifyRun`, `Acknowledge`, `ReleaseMessage`, `ReleaseLease` | the way out of `process`, finally blocks included |
| `Crash`, `Restart`, `Tick` | the process dies, is started again under the same worker_id; time |

Time is counted in ticks and the timers count down. `Faults` names the faults
an instance admits: a node raises, a SQLite operation fails, an SQS call fails,
a worker *lags* (lets a tick pass over a heartbeat that is due), workers are
stopped. A receipt handle is the receive count it was issued at; an operation
with an old handle may or may not work, as SQS says of standard queues.

`DeliveryContract` is the abstract specification: requests accepted, runs
completed, messages pending, acknowledged or abandoned. `Delivery` implements
it with `completed <- finished` and the outcome of a message read off its place.

`RunContract` is the abstract specification of one run: how many nodes are done,
whether the row is terminal. Its step `Reopen` is the one step of the code that
takes a terminal row back, and belongs to `ReopeningSpec` only. `Run(r)` maps the
checkpoint and the row of a run to it: with one worker every run implements `Spec`
(`RunsKeepContract`), with several that beat in time `ReopeningSpec`
(`RunsReopenAtMost`).

### RunGraph

| Variables | Code |
|---|---|
| `next`, `refs`, `revisions`, `previous`, `ledger`, `warnings`, `outcome` | the checkpointed `RunState` (`state.py`): the `*_ref` fields, revision_count, previous_issue_fingerprint, usage_entries, ... |
| `disk` | the artifact directory: the content of each artifact type and revision |
| `recorded`, `status`, `repairs` | the tables artifacts, runs and repair tasks |
| `pc`, `answer`, `result` | the node in execution: between its call, its artifact, the record, the row, the checkpoint |
| `inspected` | `NotebookLMProvider._sources` |
| `lost`, `failures` | history: repair tasks the store refused; the bound |

There is one action per kind of call (`Inspect`, `Acquire`, `CallAgent`,
`Retrieve`, `Check`, `Route`, `SyncIndex`, `FlushTelemetry`), then `WriteArtifact`,
`RecordArtifact`, `UpdateStage` and `Commit` in the order of the code. `Fail` and
`Crash` may come between any two of them; `Execute` continues from the
checkpoint. `CallRaises` stands for the calls that cannot succeed. `Answers` is
what a call may return: `OpenAnswers` lets sources, drafts and reviews come out
differently each time, `ScriptedAnswers` is a deterministic double like those
of the tests.

`Run` counts the nodes behind `next` for `RunContract` (the editorial loop is one
node there). `Loop` maps the part of the state the loop is about to `LoopContract`:
the nodes before the loop have not begun its first round, the nodes after it leave
its outcome alone except for warnings.

### ReviewLoop

A step is a node that commits: `Curate`, `Revise`, `ValidateDrafts`,
`ReviewDrafts`, and `route_review` as `Conclude` or `RequestRevision`. An answer
a node refuses leaves the checkpoint alone and the node is repeated, so a
refusal is the absence of a step. A draft is its `content_hash`, which the agent
supplies; nothing in the code computes it from the text, hence an agent may also
return a changed note under the old hash or keep the hash of a note it changed.
`LoopContract` is what is left of it without the notes.
`lastReviewed`, `pending`, `contested` and `fixed` are history.

### IndexSync

| Variables | Code |
|---|---|
| `vault` | the notes below the allowed paths, as versions of their text |
| `points` | Qdrant: the text stored under each point id; an id is a path and the version its content_hash names, as `_point_id` derives it |
| `records` | `index_records`: the version (content_hash, point_ids) of each path |
| `tasks` | `repair_tasks`: status, attempts, whether next_attempt_at has passed |
| `pc`, `job` | a command and its locals: the task list and the task in hand, the scan (`hash` from the inventory, `text` from the second read), the records it read, the paths to do, repair_required |
| `tries`, `leaked` | history: handler calls of a task; points whose deletion failed or was cut off |

| Actions | Code |
|---|---|
| `StartRepairs`, `TakeTask`, `EndRepairs`, `RepairTelemetry`, `CompleteTask`, `RescheduleTask` | `RepairService.run` and the langfuse handler of cli.py |
| `StartSync`, `StartRebuild`, `TakeInventory`, `ReadNotes` | `index sync`, `index rebuild`, `_vault_index_scan` |
| `Recreate`, `ForgetRecord`, `Ensure` | `rebuild`, and `sync` up to its loop |
| `GetRecord`, `ValidateExisting` | `_is_unchanged` |
| `Upsert`, `CheckNew`, `SaveRecord`, `Discard`, `Cleanup` | `_replace_generation`, one action per call |
| `ListRecords`, `Prune`, `DeleteRecord`, `EndPrune` | the pruning of a complete scan |
| `EnqueueRepair`, `Report` | `_repair`, and what the qdrant handler makes of the result |
| `Edit`, `LosePoints`, `OpenTask`, `BecomeDue`, `Crash` | the owner, Qdrant's volume, a graph node that enqueues, time, the process |

A Qdrant call that fails may have had its effect, a SQLite operation that fails
has none. An unmounted root is a scan that finds nothing. With `Rewrites` a note
may return to an earlier text.

### VaultPersist

| Variables | Code |
|---|---|
| `files` | the content of each file: a run's drafts, manifest and summary, the owner's notes |
| `pc`, `package`, `seen`, `todo`, `target` | a call of `_persist`: its package (rendered), the scan, targets to check or write, the file being replaced |
| `outcome` | what the call came to: written, refused (a DomainError), failed |
| `wrote`, `author` | history: files a call wrote, who last changed a file |

| Actions | Code |
|---|---|
| `Persist`, `Scan`, `Render` | the call, the scan for note ids, the loop over the drafts with its two refusals |
| `Preflight`, `EndPreflight` | `_preflight_target` for every document |
| `SkipExisting`, `StartWrite`, `Replace`, `EndWrite` | `_write_atomic` for every document in the order of the paths |
| `Fail`, `OwnerEdit` | an I/O error or the death of the process; the owner |

`persist` does not exclude a second call for the same run; `Persist` starts none
while one is at work, because a run is executed under its lease. Nothing in the
graph calls `persist` at this commit, so this is an assumption on its caller.

### Providers

`SourceContract` says what a `KnowledgeSourceProvider` promises the graph: it
describes a source by a hash of something the source has said, and delivers
evidence of a source only for a description made before. `SourcePort` holds the
state the contract speaks of and the bounds; both providers implement it.

| Variables | Code |
|---|---|
| `title`, `pages`, `published` | NotebookLM and the web: what a notebook is called, what a URL answers, all they have said |
| `ready`, `sources` | `NotebookLMProvider._preflight` (is it cached?), `_sources` |
| `server`, `inbox`, `pipe` | the child process; requests it has read; lines of its stdout not yet read |
| `call` | the call in progress: its step of the preflight or its tool, its notebook, the id of its request |
| `documents`, `fetch` | `WebArticleProvider._documents`; `_load_document` in progress, for inspect or acquire |
| `described`, `delivered` | the SourceDescriptors and EvidenceBatches handed to nodes (they are in checkpoints, so a restart keeps them) |
| `checked` | history: this process passed the preflight |

| Actions of `NotebookSession` | Code |
|---|---|
| `InspectNotebook`, `AcquireNotebook` | the entry of inspect and acquire: the cached preflight; the source taken off the list before anything can fail |
| `StartServer`, `StartFails`, `NotifyInitialized` | `start`, `initialize` up to its notification |
| `Send`, `SendFails` | `request` up to its loop, `_write` |
| `Skip`, `Refuse`, `ReceivePreflight`, `ReceiveContents`, `ReceiveAnswer` | one line read by the loop of `request`: a notification; an error, a wrong id or a refused result; an answer |
| `TimeOut`, `LoseServer`, `CancelCall` | `_read`'s time-out, a process that has ended, cancellation (no `Exception`, so the preflight's handler does not run) |
| `ServerAnswers`, `ServerMisbehaves`, `ServerDies`, `Retitle` | the server, in any order of its answers |
| `CloseProvider`, `RestartProcess` | `close`; a new worker process |

| Actions of `WebArticle` | Code |
|---|---|
| `InspectPage`, `AcquirePage` | the entry of inspect and acquire; a kept document is taken, checked and gone |
| `FollowRedirect`, `FetchRaises`, `FetchArticle` | one round of `_load_document`; its end for inspect (keep and describe) and for acquire (check, do not keep) |
| `ChangePage`, `FetchInterrupted`, `RestartWorker` | the web, a failing fetch or cancelled node, a new process |

`Providers` lets a deployment have one of the two. Request ids are compared for
equality only, so an id that is not in flight stands for the next one. That
`_next_id` never returns to one that is in flight is thereby part of the model;
`AnswersInTurn` is about what the calls, failures and late answers make of it. A
message carries the step and notebook of the request it answers, which the client
does not see: `AnswersInTurn` compares both. What a fetch
may meet is a redirect, an article or *broken*: a refused address, a status, a
content type, a body or a page without an article, which all raise.

### Accounting

| Variables | Code |
|---|---|
| `node`, `revisions`, `entries`, `used` | the checkpoint: next node, revision_count, usage_entries with their sums |
| `pc`, `call` | the node in execution, the usage of the responses `parse` holds |
| `pending`, `late`, `exported` | `LangfuseTelemetry._pending`; batches in threads whose flush was cancelled; what Langfuse has |
| `warned`, `status`, `repaired` | flush_telemetry's warning, the row, `repairs run` |
| `billed`, `invalid`, `failures` | history: what OpenAI charges; responses the SDK could not validate; the bound |

| Actions | Code |
|---|---|
| `Execute`, `Reserve`, `BudgetExceeded` | an execution takes up the node after the checkpoint; `ensure_agent_budget` with `ensure_can_call` |
| `Respond` (`FirstResponse`, `RepairResponse`) | `parse`: the response, its one contract repair, refusals |
| `Commit` | `append_usage`, the checkpoint, the edges as far as they lead to calls |
| `Record`, `Export`, `EndRun` | flush_telemetry: record, flush, manifest and status |
| `LaterFlush`, `ThreadEnds`, `RepairTelemetry` | another run's flush in the same process, a thread nobody waits for, `repair_langfuse` |
| `Interrupt`, `Crash` | an exception or cancellation at any step; the process dies |

A request cut off by a failure may have been answered and billed.

### Chunker

A note is a sequence of lines, each with what the patterns match on it and how many
tokens the note has up to its end; a token is its position. Bars are apart from the
kind of a line: a list item or an indented line may open a table, and inside one
every line with a bar is a row. `SkipBlank`, `ParseBlock`
and `EndBlocks` are `_markdown_blocks`; `AddPiece` is one round of the loop over
`_split_oversized_blocks`, with the piece cut lazily; `EndGroups` appends the last
group; `EmitChunk` adds the overlap.

### The rest

The `MC` modules instantiate the models for TLC. The theorems are in the eight
modules named `...Proofs`. Each model has a section of faulty variants of its
definitions: every property was seen to fail under one of them (the pairs are
listed in `PROJECT.json`).

## The runs

`tlc -config <run>.cfg <module>`; all of them end within three minutes
on two idle cores.

| Run | Instance | States | Shows |
|---|---|---|---|
| `delivery_faults` | 2 workers, 2 copies of a request, 2 receives each, 1 crash, node, store and queue faults, stops | 1.23 M | one executor per run; the contract of the messages; runs leave theirs only by being reopened |
| `delivery_single` | 1 worker, a request, one that reuses its run id and a malformed body, 3 nodes, 1 crash, node and store faults | 179 k | every run keeps its contract: nodes done one by one, a row that becomes terminal in the last one and stays so; every message settles |
| `delivery_reopened` | 2 workers, 2 copies, no fault at all | | *violated*: an acknowledged run is terminal |
| `graph_any` | open answers, both secondary services flaky, 2 failures | 144 k | artifacts are preserved; references resolve on disk and in `runs.db`; row and manifest agree; warnings have repairs; the budget suffices; the contracts of a run and of the loop |
| `graph_scripted` | scripted answers, 3 failures, flaky index | 849 | the run finishes |
| `graph_wedged` | open answers, 1 failure | | *violated*: the run finishes |
| `review_any` | 2 notes, 2 hashes, 2 issues, 2 cycles | 129 k | uncontested notes are frozen, drafts are reviewed as they leave, completed means answered, the contract of the loop, the loop ends |
| `index_sync` | 1 command, 2 notes, the 2 tasks of a run, 2 attempts, 1 edit, 1 enqueueing, 2 failures of any kind | 354 k | a generation is not lost on the way to the next; no deletable point is forgotten; a completed repair has synchronised everything; attempts are limited; repairs settle; the index heals |
| `vault_persist` | 2 writers, 5 packages of 2 runs that share notes, 1 step of the owner, 1 failure | 1.44 M | nothing overwritten; returned means everything written; a repeat goes through |
| `accounting` | 2 revision cycles, the default limits in units of 2000 tokens, short and full responses, 1 failure | 3.29 M | the bill beyond the ledger, the spending beyond the budget, the first round, the events |
| `providers` | either provider, 2 sources, 2 hashes (one of them too large), 2 changes, 1 redirect, 1 fault | 324 k | calls on checked servers only; answers in turn; the contract; recovery of the preflight and of acquire |
| `chunker` | all notes of up to 4 lines of 14 shapes, 3 configurations | 1.60 M | the limit; nothing lost; blocks whole; sections named |

The type invariants, and some properties that a contract implies, are theorems
(below) and are not checked again by a run: a run has the properties TLC has
something to add to. `RunsKeepContract` implies `TerminalIsFinal`, `TerminalNearEnd`
and `EndedThreadIsTerminal`; with three nodes it also fails when a node is repeated.

**Bounds.** Two workers are the least that interleave, and a property of two
workers and a run is violated by two if by any; two messages are the least that
repeat or contradict a request, and two receives the least that redeliver it.
Two nodes suffice for `delivery_faults`, the first and the last being the ones
that write a status of their own; `delivery_single` has a node in between that
writes back what it read. `LeaseTTL = VisibilityTTL = 2` and
`HeartbeatPeriod = 1` keep the code's 180/180/60 in order: a heartbeat is due
before either runs out, a stall of two ticks outlives both. `MaxMainCalls = 7`
and `MaxRevisionCycles = 2` are the code's own defaults. One failure reaches
each state between two stores; the second one strikes the repetition, and the
third one the repetition of that.

`index_sync` has one command: two of them break its safety properties (below), and
one is what an operator starts. Its two failures strike a sync and the sync that
repairs it; one edit is enough for a generation to have a predecessor, for a
scan to be torn and for a note to go; the safety properties were also checked
with two edits. Two attempts are the least with a retry. In `vault_persist` the
packages are the ones that differ in what they do: the same again, a later
manifest, fewer notes, another run's draft of the same note, a stale review.

`accounting` has the proportions of `ContextBudget`: 4, 6 and 5 units of output for
the agents and 25 for the run, so that a third round does not fit after two full
ones and a repaired call passes the budget. One failure repeats a call or a flush;
the bound of `BillAccounted` is linear in the failures and proved for any number.
In `providers` one fault is enough for a time-out whose answer comes later, for a
cancelled preflight, for a server that dies between two calls and for a restart
between inspect and acquire; the proofs are for any number. Two sources tell the
answers apart. `MaxId = 4` is above the requests that one call, one late answer and
one half-written request can have in flight: no behaviour is cut off there. Four
lines of a note are enough for a block that ends, a block it runs into and a
section around them; the configurations have a target below the maximum, a target
equal to it and no overlap, and one text is longer than every maximum.

The models may stop (all messages settled, the run terminal), so deadlock is
not an error and is not checked.

**Fairness.** `Delivery!FairSpec`: time passes, the queue redrives, a worker that
went down is started again, and a running worker goes on polling, executing,
beating and concluding; asyncio runs its tasks and SQS delivers. No fault is
fair, except as one possible outcome of a call that is. `RunGraph!FairSpec`: an
unfinished run is executed again and its steps go on. This is redelivery, which
`maxReceiveCount` bounds in truth, so `RunFinishes` says what redelivery can
reach while it lasts; `EveryMessageSettles` says what happens when it ends.
`ReviewLoop!FairSpec`: a node whose answer was refused is repeated until an
acceptable one arrives. Again what redelivery gives, under the assumption that
a model gives an acceptable answer in the end. The premise of `LoopEnds` names the two
states for which no answer helps: a committed package without a decision for
each draft (`validate_drafts` refuses it after agent 2 has committed it) and a
contested note (below). `IndexSync!FairSpec`: a command runs to its end, a task's
time comes, and the operator goes on calling `index sync` and `repairs run`,
strongly fair because other commands come in between. `rebuild` is never owed.
`Providers!Fairness`: a worker goes on inspecting and its calls go on, because failed
nodes are delivered again; a server that is up answers what it read; and a described
source is acquired again and again (strongly, since other calls of the one provider
come in between). Pages, titles and faults are not fair. `PreflightRecovers` needs
no more than that. `WebRecovers` has the premise that the page stays what it was
described as: when it has changed for good, nothing recovers.

## The proofs

The proof modules are checked from nothing by `tlapm`. They hold for every
number of workers, messages, runs, notes, issues and packages, for every time-out with
`HeartbeatPeriod < LeaseTTL` (which `WorkerConfig` enforces), every number of
nodes above one and every number of revision cycles. They hold for every budget,
response, note and chunker configuration, for any number of sources and faults.
The only assumptions are the named ASSUMEs of the modules, which TLC evaluates in
the runs, and, where a theorem says so, that no worker lags or that there is one worker (`DeliveryProofs`), that
one command runs at a time (`IndexProofs`) or that the budget has two calls for each
round and three more (`RunGraphProofs`).

**DeliveryProofs.** The inductive invariants, each proved with one step per
action and resting on those before it:

- `JobsOK`: a worker past `received` has a message, and past create_or_get_run a
  valid one whose request is the accepted one. It is needed to speak of
  `RunOf(msg[w])` at all, and gives `TypeCorrect`; with the lemma that a request
  is never replaced it gives `KeysIdentifyRuns`.
- `FinishedOK`: a terminal row is in `finished`, and so is the run of a worker
  about to acknowledge. The status alone is not inductive, since
  `AcquireLease` takes it back. Gives `NoWorkLost`, with lag and all.
- `LeaseOK`: an executing worker owns its run's lease, and
  `ttl >= beat + (LeaseTTL - HeartbeatPeriod)`: the lease outlives the next
  heartbeat. `ttl > 0` alone is not inductive under `Tick`. Gives
  `LeaseIsExclusive`.
- `NodeOK`: the node in execution is the one after the checkpoint, which only its
  own executor moves (`OneExecutorPerRun`). Gives `TerminalRunsAreComplete` and
  `CompletedNodesStay`.
- `RowFollowsNode`: before its last node has written, the row a worker acts on is
  not terminal, and afterwards it is. Besides `OneExecutorPerRun` its step needs
  `LeaseHeld`, that nobody can take the lease of a run in execution.
- `AcquiresOpen`, with one worker only: a worker about to take the lease found the
  row open, and it still is. It is what `delivery_reopened` breaks.

Each theorem has one of two premises. *No worker lags* (`"lag" \notin Faults`), for
any number of workers: `LeaseOK` gives `OneExecutorPerRun` and `LeaseHeld`. *One
worker* (`OneWorker`), which may lag: both hold trivially, and `AcquiresOpen` comes
on top. Neither premise can be dropped: two workers, one of which lags, violate
`OneExecutorPerRun`, and two that do not lag violate `AcknowledgedRunIsTerminal`.

| | no worker lags | one worker |
|---|---|---|
| a run implements | `ReopeningSpec`: `RunsOnlyReopen`, `EachRunOnlyReopens` | `Spec`: `RunsImplementContract`, `EachRunImplementsContract` |
| a terminal row | may be reopened (`delivery_reopened`) | stays terminal: `TerminalStays` |
| an acknowledged run | has its nodes done: `AcknowledgedRunsAreComplete` | is terminal: `AcknowledgedRunsStayTerminal` |

The simulation is one lemma for both: `RunSimulation` maps `CommitNode` to `Advance`
or `End`, `WriteStage` of the last node to `Complete`, `AcquireLease` of a terminal
run to `Reopen`, and every other step to a stutter; `AcquiresOpen` excludes `Reopen`.
So the finding of `delivery_reopened` has a bound: a copy of a message can make a
finished run look unfinished, but neither repeat nor undo any of its nodes.

`DeliveryImplementsContract` maps every step to a contract step or a stutter:
`CreateOrGetRun` to `Accept`, `WriteStage` of the last node to `Complete`, a
deletion to `Acknowledge`, `Redrive` to `Abandon`. It needs neither premise.

**ReviewProofs.** `Rounds` says what each node hands the next, in the first round
and in later ones: which notes are under review, that the others were last
reviewed at the hash they have, that pending notes are among the open ones. It
gives `FinalHashesReviewed`, `ReviewsRoute`, `CompletedRunsAnswered` and
`RevisionsAreScoped`. `Progress` relates `previous` to the last entry of `fixed`
and gives `RepetitionEnds`. `Frozen` adds that a note that is approved and to
be revised is contested, and gives `ApprovedNotesKeepTheirHash`.
`ReviewImplementsLoop` maps `Curate` and `Revise`, `ValidateDrafts` and
`ReviewDrafts` to `Advance`, `RequestRevision` to `Revise` and `Conclude` to
`Settle` or `GiveUp`.

**VaultProofs.** `JobsOK` ties a writer's targets to its package. `TargetFree`, that
the target of a temporary file is still free, needs `Exclusive` (writers have
different runs) and that the owner creates no files below a run's directory; it
gives `NoFileOverwritten`. `CheckedOK` follows each target from the preflight to
its file: it is free, says what it should, or the owner changed it. It is what
makes skipping existing files safe, and gives `WritingCompletes`. `AuthorsOK`,
that a package's file says what the package said, gives `RepetitionPasses`.

**IndexProofs.** `JobsOK` says what a command holds at each place (a task below its
limit, paths of its scan, records it read) and gives `IndexTypeCorrect`, for any
number of commands. The rest is proved for one command at a time (`OneCommand`);
with two it is false. `RecordsOwned`, that what the command has read of the
records is what they still are, is where that premise enters, and everything
rests on it:

- `Accounted`, `OrphansAccounted` for the one command, is inductive with it: the
  generation a new record replaces is the one cleanup goes on to delete. Gives
  `NoPointForgotten`.
- A step that takes a note's valid generation is a loss, a rebuild, a prune, or
  the discard of the generation the record names: `GenerationsAreKept`.
- `Settled`: unless repair_required is set, every note the sync is done with has
  its record, and after the pruning no other path has one. Gives
  `CompletionsAreSynced`.
- `TriesOK`: handler calls are bounded by the attempts of the row or, for a task in
  hand, of the snapshot. The bound by the row alone is not inductive: a failing
  sync resets the row. With it `TakeTask` finds attempts left, which gives
  `AttemptsStayLimited`.

**RunGraphProofs.** `UpdateOK` and `AnswerOK` say what a node holds between its call and
its checkpoint: an update of the kind its node may make, an answer of the kind its
artifact has. Every call, of a provider, an agent or a secondary service, is proved
to end in the one predicate `Called`, so that the invariant is preserved by all of
them at once. `Stored` follows the answer onto the disk and into the table, in the
order of the steps; with it a checkpointed reference resolves, and since
`Compatible` refuses other content for the same artifact it keeps resolving.
`LedgerOK` counts the calls of the path the checkpoint took, `OutcomeOK` and
`StatusOK` say which nodes may have an outcome and when a row may be terminal,
`WarningsOK` that a warning in hand has its task.

Its refinements need two more. `RowOK`: the row is terminal from the stage of
flush_telemetry on and not before; `GraphImplementsRun` follows with the count of
`NodesDone`. `DecisionOK`: what route_review has in hand until its checkpoint is one
of the three decisions of `ReviewPolicy`, and what any other node has in hand does
not touch the loop; `GraphImplementsLoop` maps the commits of the loop's nodes to
its steps and everything else, failures and crashes included, to a stutter.

**AccountingProofs.** `BillStaysAccounted` needs to know where a call stands: `call`
is empty unless `parse` holds a response, one response is owed when the first one was
invalid. `OverspendStaysBounded` uses the reservation made at `CanCall`: between the
check and the checkpoint the budget has room for one full response, and a repair
adds one more. Multiplication by `LargestLimit` is kept in lemmas of its own.
`TelemetryIsDelivered`: before the flush every event is pending or exported, and a
step takes events off `pending` only into `exported`.

**ProviderProofs.** For the notebook: `RequestsOK` and `AnswersOK` say that a request or
answer in flight with the id of the call in progress has the call's step and
notebook; `CallOK` and `SessionOK` tie the step of a call to the
cached preflight and to the process it checked; `TitlesOK`, that every hash in a late answer
was once published, is what makes a description of it one the contract allows. For
the web: `DocumentsDescribed`, `FetchOK`, `PagesOK`. The refinement maps `ReceiveContents`
and an inspecting `FetchArticle` to `Describe`, `ReceiveAnswer`, an acquiring
`FetchArticle` and `AcquirePage` to `Deliver`, `Retitle` and `ChangePage` to
`Publish`, and everything else to a stutter.

**ChunkerProofs.** The invariants say of each loop how far it has come: the blocks cover the
lines before `index` and their tokens in order, the groups and the current group cover
the tokens before `next`, the chunks repeat the groups. The case analysis of a line is made
once, in lemmas about `Before` and `After`: the place a block ends is the least of a
set of lines (`LeastNatural`), whose existence is proved from a least counterexample
and the well-foundedness of `<` on Nat, which the library states without an
operator parameter. `BlocksStayWhole` adds that a piece is a whole block unless the block is
longer than the maximum, and that a group is closed between pieces.

`SectionsAreKept` has an invariant of its own, `SectInv`, in three parts: the blocks
follow one another; while no heading skips a level the open headings have the levels
1, 2, ..., so that cutting their path by its length cuts it by level, and they are
the ones above the line at work; a group is a run of blocks none of which but the
first is a heading, so that what stands above its first line stands above all of
them. The middle part is conditional because it is false otherwise, which is the
disagreement about skipped levels below. What it says of the headings above a line
is stated for any set of headings (`Over`) and proved in lemmas of their own:
what a line without a heading, an earlier line and a new heading make of it.

**Only model-checked:** `EveryMessageSettles`, `RunFinishes`, `LoopEnds`,
`IndexHeals`, `RepairsSettle`, `PreflightRecovers` and `WebRecovers`: liveness under
fairness, which TLAPS does not reach. Every invariant, action property and
refinement of a passing run is a theorem as well. Several theorems state what no run
checks: `NoWorkLost`, `KeysIdentifyRuns`, `CompletedNodesStay`,
`TerminalRunsAreComplete`, `EndedRunsAreTerminal`, `TerminalStays`,
`AcknowledgedRunsStayTerminal`, `AcknowledgedRunsAreComplete`, `ReviewsRoute`,
`RevisionsAreScoped`, `RepetitionEnds`, `RefusalsLeaveNothing`, `NotesStaySingle`
and the type invariants; TLC was used on each before it was proved.

## Where code and documents disagree

The runs marked *violated* show:

- `delivery_reopened`: worker.py:155 tests for a terminal status, then
  acquire_lease sets `running` unconditionally. A second copy of the request
  between the two reopens a run that was finished and acknowledged. The second
  worker, finding status running and an ended thread, releases its message
  without restoring the status.
- `graph_wedged`: an artifact whose checkpoint was lost can only be written again
  with the same content; a model does not give the same answer twice.

The models show more of this kind without a run of their own:

- `DeadLetteredRunIsFinished` (`Delivery`) fails with two workers, one message, five
  receives (the deployed maxReceiveCount) and one crash: a busy lease releases the
  message with visibility 0 (worker.py:166), so the lease of a dead worker uses up
  the receives within moments. DEFINE:132 says that a failure before the checkpoint
  permits redelivery.
- `ApprovedNotesFrozen` (`ReviewLoop`, constants of `review_any`) fails:
  ReviewPackage (contracts.py:228) lets a note be both approved and blocked;
  route_review freezes its hash and sends it to revision, its draft is replaced, and
  from the next revision on `_combine_revision` refuses the package for ever.
  DEFINE:186 says approved notes stay frozen by hash.
- With `"lag"` in `Faults`, `OneExecutorPerRun` fails: a stalled execution goes on
  beside the new owner until its next heartbeat. DESIGN:220 promises
  exclusion by the lease; no write is fenced by it.
- `pc = "raised"` is reached when `receive` fails, and when a heartbeat fails
  while a failed execution's message is being released: `Worker.run` ends with
  the exception. Its docstring says it polls until stopped.
- With `Refetchable = FALSE`, `RunFinishes` fails after one crash even with
  scripted answers: the notebook source is kept in memory only.
- The ledger is not the bill. A response the SDK cannot validate never reaches
  `parse` (openai_client.py:122), so a repaired call may report the usage of its
  repair only, and a call whose node fails is in no ledger at all; the budget of
  seven calls (DESIGN:497) is that of the checkpointed path.
  TASKS_AGENTIC_KNOWLEDGE_ACQUISITION.md:661 counts on the usage of both attempts.
  `BillAccounted` is what is left.
- The reservation is for one response, so a repaired call may take the run above
  max_output_tokens_per_run, by one response in the ledger (`OverspendBounded`);
  what is billed and not in the ledger comes on top.
- An exceeded budget raises and is redelivered; it does not end the run as
  `enrichment_required`. From the second round on, reservations that do not fit
  refuse a run whose tokens would have fitted, on every delivery.
- The cost of a call is estimated as 0 and its prices default to 0: the cost limit
  is never what stops a run.
- `repairs run` answers a failed flush with one event that says so
  (cli.py:311); the events themselves stay in the memory of the worker and are
  sent by its next flush or lost with it. A cancelled flush may send events twice.
- Once the preflight of NotebookLM is cached, a server that died, or whose answers come
  one request late after a time-out, makes every call fail until the provider is
  closed: nothing resets the preflight (notebooklm_provider.py:141).
  `PreflightRecovers` therefore starts from a provider that is not ready.
- An acquire of a notebook takes the source off the list before it asks; when the
  question fails, the node can only fail from then on, as after a restart.
- Under a skipped heading level, or in a note whose first heading is a second-level
  one, siblings become each other's ancestors: `headings[: level - 1]` counts
  positions, not levels (chunker.py:123). DESIGN:527 asks for chunks with their
  heading path; `SectionsKept` is about notes that skip no level.
- A heading or a fence with a bar in it that follows a table without a blank line
  is a row of the table (chunker.py:145): it opens no section and no code block.
- `lost`: the failure of enqueue_repair is swallowed, so a run may end with a
  warning and no repair task (DEFINE:369 promises one).
- With two commands `OrphansAccounted`, `GenerationKept`, `CompletedRepairSynced` and
  `AttemptsLimited` fail: nothing keeps an `index sync` from a `repairs run`. Two
  syncs may both report success and leave a record whose points one of them
  discarded; two `repairs run` count from the same list.
- With `Rewrites` and two edits `IndexHeals` fails: content_hash is taken in the
  inventory, the text is read again later (cli.py:234). A note that is edited in
  between and then edited back keeps the wrong text in the index, and every later
  sync finds it unchanged.
- `leaked`: a failed cleanup asks for a repair (index_service.py:288), but the
  repair finds the note unchanged and deletes nothing.
- An allowed path that does not exist is passed over and the scan still counts as
  complete (cli.py:258): a sync without the mounted vault removes the whole index,
  and a repair does so and completes. DEFINE:226 says an incomplete scan never
  confirms deletions.
- A failed sync resets the attempts of its own task to 0 before `RepairService`
  counts the attempt; a crash in between starts the count anew.
- Without `Persist`'s one call per run, `NothingOverwritten` fails: `_write_atomic`
  tests and replaces in two steps. And a smaller package after a failure in the
  middle leaves the files of both; `WrittenIsComplete` speaks of the documents of
  the last package only.
- No node writes the status `failed`; a run whose node can never succeed stays
  `running` when its message is dead-lettered.

## What is left out

- Batches: a worker receives one message at a time (the default of
  `WorkerConfig.max_messages`).
- The text of anything: prompts, notes, evidence, manifests are values.
- The cost and time of calls: their reservations are 0, so they stop a run only
  when already overspent.
- HTML kept of pages that could not be read (`FailureHTMLStore`), address checks,
  text extraction, redaction: they do not feed back into the run.
- The retries of the OpenAI SDK; the words of a line: what the chunker's patterns
  match on it is an input.
- `RunService.resume` and `state`, `Worker.run_once`: the first repeats the second
  half of `execute`, the last is a step of `run`.
- A cancelled execution is over at once. SQLite operations are over when their
  connection is closed; a file being written in a thread may be finished later,
  see the hazards.
- The chunks of a generation are one point id; vectors, filters and the notes
  without a note id play no part. Incomplete scans (`IndexScan.complete = False`)
  are made by tests only. The handler of a langfuse task is a call that works or not.
- Path and symbolic-link checks of the vault, file permissions, temporary files.
- Evaluation, doctor, configuration, scripts, deployment and the other commands:
  they keep no state that these components share. The commands that would start a
  worker are not wired at this commit.

## The plan

Done: `Delivery` with contract and proofs, `RunGraph`, `ReviewLoop`, `IndexSync`,
`VaultPersist`, `Accounting`, `Providers` with contract, `Chunker`, all with proofs;
`RunContract` and `LoopContract`, which hold `Delivery`, `RunGraph` and `ReviewLoop`
together.

Open, in the order of what they would add:

1. Composition: `RunGraph` as the execution of `Delivery`, with two executors and
   late writes of cancelled threads. The contracts relate the two for one executor;
   their product is beyond a run of minutes, so the rest is a matter of further
   abstractions, and of proof.
2. `IndexSync`: an abstract specification of the index (each note is searchable by
   its last completed sync) that it implements; the same for `persist`.
3. Batches of more than one message in `Delivery`, the back-off of repairs.

# A verification project for Mneme and Memoria

The repository holds two programs. **Mneme** (`src/app/mneme`) is the application:
documents, chat, agent runs, an outbox, channels to external chats. **Memoria**
(`src/app/mneme/memoria/server`) is the memory server: it receives events over HTTP, keeps
document projections for retrieval and long-term memories with their evidence, and deletes
them again when their source is deleted. Both are Python asyncio programs over Postgres
with Celery workers and a beat; what can go wrong lies in the order of their transactions.

Run everything from this directory: `tlc -config Outbox.cfg MCOutbox`, `tlapm OutboxProofs.tla`.

## Inventory

For each part: the state it keeps, its operations, what is hard, what makes it correct.

**Memoria event inbox** (`server/api/events.py`, `repositories/inbox.py`,
`services/event_dispatcher.py`, `tasks/events.py`). *State*: inbox rows (pending, succeeded,
failed), Celery tasks, Postgres advisory locks on an event and on a memory scope.
*Operations*: receive, redispatch by the beat, claim, lock the scope, dispatch to a handler,
write the verdict. *Hard*: events arrive late, twice and in any order; the task may be lost;
workers race; a handler runs for seconds over several transactions and may die between any
two. *Correct when* verdicts are final, every event gets one, locks exclude.

**Deletion fences and deletions** (`services/deletion_fences.py`, `services/deletion.py`).
*State*: one fence per scope and source, the order of its newest deletion. *Operations*: ask
whether an event is covered, raise fences and delete what sources produced. *Hard*: evidence
extracted before the deletion but stored after it, equal times ordered by event id.
*Correct when* deleted data never comes back.

**Document projections** (`services/projections.py`, `repositories/projections.py`).
*State*: a projection's status (staging, active, superseded, failed), its batches.
*Operations*: store a batch, check completeness, embed, activate and retire the predecessor.
*Hard*: the embedding runs outside transactions; two versions interleave; a crash between
storing the last batch and activating. *Correct when* retrieval sees one complete projection
per document.

**Memory events and settings** (`services/memory_events.py`). *State*: the owner's switches,
each with the order of the event that set it; evidence of memories. *Operations*: apply
settings, extract and reconcile memories of conversations, messages and documents. *Hard*:
settings and conversations out of order; a conversation finishes settings rows that another
worker is processing. *Correct when* switches follow event order and an opt-out is respected.

**Mneme producers** (`domains/documents/pipeline.py`, `resources.py`, `domains/chat/service.py`,
`memoria/projections/documents.py`). *State*: documents with `updated_at`, sessions,
messages. *Operations*: index, delete, complete a turn, remember, delete a session; each emits
events. *Hard*: the stamps decide what a deletion covers, and a document's are read before they
are used. *Correct when* a deletion is ordered after what it deletes.

**Document index tasks** (`tasks/index_tasks.py`, `domains/tasks/state.py`, `admin.py`,
`domains/documents/router.py`, `service.py`, `folders.py`, `pipeline.py`, `crud/document.py`).
*State*: the document row with its status and `updated_at`, a record per task, Celery messages.
*Operations*: submit, retry, cancel, move, delete; the task marks the row at its start and end
and reports to its record. *Hard*: every mark reads the row and writes it later without a lock;
`updated_at` is the time a transaction began; a task is delivered again after its record has its
verdict. *Correct when* a document shown as indexed was published, and an active one has a task.

**Transactional outbox** (`domains/tasks/outbox.py`, `crud/outbox_event.py`,
`tasks/outbox_tasks.py`). *State*: rows with status, attempts and next attempt. *Operations*:
enqueue, list due rows, mark running, call the target, mark succeeded or failed. *Hard*: every
mark is a transaction of its own that overwrites the row from a snapshot; crashes and lost
answers. *Correct when* it keeps the contract of `docs/runtime-contracts.md` ("Outbox contract").

**Channel deliveries** (`channels/delivery.py`, `crud/channel.py`). *State*: a row with its
parts, the cursor `parts_sent`, a claim time. *Operations*: enqueue, claim, send part by part,
complete or fail, recover stale claims, retry for the user. *Hard*: one part of several fails;
a verdict arrives after the row has been taken over. *Correct when* no part is skipped, parts
repeat only for faults, the delivery ends.

**Channel inbound and links** (`channels/inbound.py`, `crud/channel.py`). *State*: inbound
messages, link codes, identities (which user an external account speaks for), conversations
(which user and chat session a group belongs to). *Operations*: accept a webhook, process the
message, consume a code, submit a question, give a conversation another session. *Hard*: the
webhook and the broker repeat; accounts race for codes and conversations; the message is bound
to a run id before the run exists. *Correct when* an account speaks only for a user who gave
it a code, and a question runs in a session of its sender's user.

**Agent runs** (`memoria/run_submission.py`, `memoria/run_service.py`,
`memoria/persistence/runs.py`, `runtime_events.py`, `memoria/tasks/runs.py`). *State*: a durable
row and events in Postgres, a copy with queue and lease in Redis. *Operations*: submit, start,
execute, abort, steer, finish, recover. *Hard*: two stores written one after the other, a lease
that expires during execution, aborts racing completion. *Correct when* terminal runs stay
terminal, one run per session executes, sequences are monotonic (`docs/runtime-contracts.md:15-37`).

**Memory reconciliation and commands** (`server/memory`, `services/memory_commands.py`,
`repositories/memories.py`, the repair in `services/deletion.py`). *State*: memories with their
revisions, candidates for review, evidence and what it supports; advisory locks of slots.
*Operations*: reconcile an observation, confirm or reject a candidate, revise, invalidate or
erase a memory, delete evidence and repair what stood on it. *Hard*: commands take slot locks
only, events the scope lock; slots are read before they are locked; deletions lock evidence
first. *Correct when* nothing is remembered without a source, one memory holds a slot,
a confirmation replaces what the user saw, and locks do not deadlock.

**Answer runs** (`server/repositories/runs.py`, `runtime/orchestrator.py`, `api/answers.py`).
*State*: a row with status and phase. *Operations*: create or replay, the phases, completion,
failure, the sweep of stale runs. *Hard*: stream, fallback call and retry of one request;
clients that leave; a slow attempt the sweep has failed. *Correct when* a request has one
answer, verdicts are final and no request stays in progress.

**Generation loop, tools and grounding** (`providers/llm.py`, `runtime/agentic.py`, `tools.py`,
`grounding.py`, `citations.py`). *State*: one generation: route, attempt, step, budgets, known
evidence, requirements. *Operations*: call a model, fail over, review a response, search,
filter. *Hard*: budgets shared by retries, steps and routes; requirements stated many calls
before the answer; citations filtered last. *Correct when* an answer cites support for
everything it was required to, within the budgets (`docs/runtime-contracts.md:150-178`).

**Automation and subscribers** (`memoria/automation`, `tasks/heartbeats.py`,
`memoria/subscribers`). *State*: heartbeat jobs, executions, receipts. *Operations*: claim due
jobs, dispatch, run now, toggle. *Hard*: a dispatch that looks stuck is taken up again.
*Correct when* one claim starts one run.

**Maintenance tasks** (`tasks/maintenance_tasks.py`): rebuilds of read models, with stale recovery.

**Infrastructure** (`infra/circuit_breaker.py`, `retry`, `rate_limit`), **retrieval, prompts,
clients, read-model domains, frontend, migrations**: no protocol between actors.

How they interact: a business transaction of Mneme inserts an outbox row; the outbox
dispatcher posts it to Memoria's `POST /events`, or hands it to Neo4j, a notification or an
internal hook; Memoria's inbox stores it and queues a task; a worker processes it. A finished
agent run inserts an answer and a channel delivery; the channel worker sends it. Chat requests,
channel messages and heartbeats submit agent runs; an agent run's worker calls the server's
answer endpoint, whose row and loop produce the answer; the server's inbox reconciles and
deletes the memories that users command beside it.

`PROJECT.json` lists every hazard at its line with the properties that look at it.

## What is modelled

| module | models | checked by |
|---|---|---|
| `MemoryInbox` | the whole inbox of one owner with every handler | `MCMemoryInbox`, three runs |
| `MemoryInboxProofs` | proofs about `MemoryInbox` | tlapm |
| `DocumentIndexing` | a document row, its index tasks, requests, moves and deletion | `MCSourceLifecycle` |
| `SourceLifecycle` | `DocumentIndexing` and a conversation composed with `MemoryInbox`: where event orders come from | `MCSourceLifecycle`, two runs |
| `SourceLifecycleProofs` | proofs about `SourceLifecycle` and its `DocumentIndexing`, and that it implements `MemoryInbox` | tlapm |
| `MemorySlots` | memories of one owner: reconciliation, commands, deletions, locks | `MCMemorySlots` |
| `MemorySlotsProofs` | proofs about `MemorySlots` | tlapm |
| `DeliveryContract` | what the outbox promises: accept, attempt, settle, give up | refined by `Outbox` |
| `Outbox` | the outbox, its dispatchers and targets | `MCOutbox` |
| `OutboxProofs` | proofs about `Outbox` | tlapm |
| `ChannelDelivery` | one delivery in parts | `MCChannelDelivery` |
| `ChannelDeliveryProofs` | proofs about `ChannelDelivery` | tlapm |
| `AgentRun` | the runs of one chat session, in PostgreSQL and Redis | `MCAgentRun`, two runs |
| `AgentRunProofs` | proofs about `AgentRun` | tlapm |
| `RunSources` | channel messages, link codes and heartbeat jobs that start runs | `MCRunSources` |
| `RunSourcesProofs` | proofs about `RunSources` | tlapm |
| `AnswerRun` | the answer run of one request: its row, phases and attempts | `AnswerLoop` |
| `AnswerLoop` | `AnswerRun` composed with what happens while it generates | `MCAnswerLoop` |
| `AnswerRunProofs` | proofs about `AnswerRun` and `AnswerLoop`, which implements it | tlapm |

### MemoryInbox

An event is a record: its type, its order (the rank of `(occurred_at, event_id)`), its scope,
and the fence sources its handler names. Everything else of the payload is abstracted to
`valid`, to the settings it changes, or to the batch of a projection. One owner is enough:
every lock, fence and query is keyed by owner.

A worker walks through phases, one per transaction or await of `_dispatch_inbox_event` and
the handler: `Take` (event lock, row still pending), `EnterScope` (scope lock), `Guard`
(payload check and fences), then the handler's own steps, then `Mark`. Locks are not
variables: a worker in a scoped phase holds its scope (`HoldsScope`), a worker with a job its
event (`HoldsEvent`), as session locks do. A crash drops both and puts the task back, because
tasks are acknowledged late. A transient error (`Fail`) leaves the row pending and no task;
only the beat (`Redispatch`) brings it back. `Receive` may lose its task, because enqueueing
is best effort after the commit. Extraction returns any subset of `Candidates` on any attempt,
since it asks a model. `Delete` is one transaction that raises fences and removes evidence
and projections.

`ProducersAssumption` states what producers put into events and what the proofs need: a
deletion names its own fence, a conversation's deletion names the messages remembered before
it, sources of documents and conversations are distinct.

### DocumentIndexing

`doc` is the row: its status and `updated_at`, and as history when the status was written
(`marked`) and which versions were in the outbox when the last change began (`past`). Whoever
changes the row first reads it (`Begin`, an entry of `marking`) and commits later (`CommitMark`,
`CommitRequest`, `CommitMove`), because `update_document_status` and the routers read without a
lock; `updated_at` is `func.now()`, the time the transaction began, so a change may even set it
back. A status that was read is not written again, since SQLAlchemy then emits no UPDATE. The
deletion likewise reads the row (`ReadForDeletion`, which refuses an active status) and commits
later, stamped with what it read (`CommitDeletion`); both of its callers do so.

A task goes through the steps `start`, `stage`, `finish`, `settle`, `ack`, or `skip` when its record
says cancelled; an error leads to `fail`, unless the record refuses the failure. `LoseWorker`
undoes the transaction at hand and sends the task again. The version that is published is named by
the `updated_at` of the refreshed row.

Abstractions: the user makes one request at a time, except deletions; one stage stands for the
five; a second delivery of a task waits for its first execution to end; once the row is gone an
execution ends (`MissDocument`); UPDATE and COMMIT are one step, because the UPDATE locks the row; a
message that could not be sent after the commit is one that no worker takes; revoking a message may
come too late. The deletion of a knowledge base deletes its documents with the same reads and stamps.

### SourceLifecycle

Composes `DocumentIndexing` and one conversation with `MemoryInbox`. Orders are no longer given:
`OrderOf` combines the time the producer stamps with the rank of the event id's prefix, so ties
are broken as in the code. `emitted` says what is in the outbox: each version's projection and
observations, the deletions with the stamps they read, the conversation's events.
`EmittedAssumption` says that the events of the inbox are those the producers can stamp.

### Outbox and DeliveryContract

A row is status, creation rank, attempts, due. A dispatcher lists up to `Limit` due rows
(oldest first), loads a snapshot of each (`seen`), marks it running, calls the target (`Apply`:
acts and answers, acts and the answer is lost, or fails for now or, for Memoria, for good),
and writes a verdict from the snapshot. `DatabaseError` loses a status change, `Crash` the
process. `DeliveryContract` forgets rows, batches and snapshots: an operation waits, is
attempted at most `MaxAttempts` times, and is settled or given up for good.
`Contract` is the refinement mapping: `Phase` of the status, the same `tries` and `applied`.

### ChannelDelivery

One row: status, attempts, cursor, claim lock. A worker claims it, sends the parts after the
cursor, and adds to the cursor what the adapter reports. A part may be refused
(`SendRefused`), or delivered with the answer lost, or fail with an error that counts nothing
(`SendDoubtful`). Verdicts are written unconditionally, as in the code. `Retry` is the user's.
`due` stands for `next_attempt_at`, `lock` for the age of `locked_at`.

### AgentRun

A run is `row` (PostgreSQL) and `cache` (Redis), each a record of status, attempts and whether
it started; beside them the session's `queue`, its `lease` and the `aborts` keys. Every
handler is cut where the code awaits: `submit_agent_run` into row, enqueue and send;
`execute_agent_run` into the steps of `Wait`, `Begin`, `BeginRow`, the chat's own transactions
(`ReadMessages`, `Ask`, `Answer`) and the four steps of its end; the lease monitor into
`BeatRead` and `BeatSave`; recovery into its transaction and one publication per run; the
abort request into read, transition, save, read again and row. Each writes back what it read.
`asked` and `answered` are the runs that have a user and an assistant message: the constraint
`uq_chat_messages_agent_run_role` refuses a second one (`Write`), and the attempt fails.
`MarkRead` saves the record it re-reads, as `_mark_aborted` does, whose status is not aborted.
A stalled worker (`Pause`) loses its lease and does not know it; a crash leaves the lease to
expire (`Dead`).

Left out: the expiry of Redis records, run events beyond the record `append_event` saves (its
save is merged with the neighbouring step), a worker shutdown's own cancellation. The Redis
read and its durable fallback are one read. One bound, `MaxTroubles`, limits aborts,
recoveries, crashes and stalls together.

### MemorySlots

A fact is a slot and a value. A memory has a status, a fact, its active revision and its
revisions, each with its evidence; a candidate a status, a fact, evidence and the revision it
conflicts with. An operation is a transaction `tx[a]` of an actor: it begins by reading which
slots it needs (`BeginRevise`, `TracedSlots`, ...), takes their advisory locks in its order
(`LockSlot`), then works under them. A reconciliation and a confirmation decide and apply in
two steps and keep the memory or candidate they read locked (`RowHeldBy`, `CandidateHeldBy`).
Deletions lock evidence rows first (`LockEvidence`), and so does a reconciliation of known
evidence. `Repaired` is the repair
after a deletion. `Commit` rolls back what the unique fingerprint index refuses. A circle of
waiting transactions is ended by `DeadlockVictim`, as PostgreSQL does.

One owner, one knowledge base, one memory type (the fingerprint leaves the type out). The
confidence of an observation and of a policy decision is its kind: promoted unless in
conflict, held, or explicit. The audit trail and a purge's confirmation token are left out.
A revision whose text is not normalized (`normalized` FALSE) locks the slot it moves to last,
because `revise` sorts the slot of the text as typed and `revise_memory` locks the normalized
one afterwards.

### RunSources

A thread is a Celery task or request; it reads (`ProcessRead`, `DispatchRead`, `RunNow`) and
commits later what it computed (`Bind`, `Question`, `SubmitQuestion`, `DispatchSubmit`,
`DispatchMark`). Senders share one conversation, where the owner conflict can arise. A due job
is claimed (`Claim`), together with jobs still marked dispatching whose claim looks old; the
occurrence number stands for `last_run_at`, from which the occurrence key is made. `Submitted`
is the unique constraint on user, session and request that `AgentRun` starts from. `Abandon`
loses a worker (its message comes back) or raises (its message is acknowledged).

### AnswerRun and AnswerLoop

`AnswerRun` is the row of one request and the attempts that call for it. `Executes` decides who
runs it; every phase begins and ends with a transaction that requires the row where the
attempt left it (`RequireRunning`). `Cancel` is a client that leaves, `Lost` a process that
dies, `FailStale` the beat's sweep. `AnswerLoop` composes it with the generation: `gen` is the
executing attempt's loop in `providers/llm.py` (route, attempt, step, calls, tokens, tool
calls, known evidence, requirements, draft), and `Delivered` what grounding and citations make
of its draft. Each action is a step of `AnswerRun` or leaves it alone, which
`LoopImplementsRun` proves.

One token budget stands for prompt and completion tokens; a citation is an evidence id with a
quote that checks; what fits the prompt is any subset of the known evidence; the provider
health registry is the number of routes available; a prompt that does not fit, an exhausted
budget and a last route that fails end through `DependencyFails`. In mode `multi` only what
differs here is modelled: no tools, no requirements.

## Runs

| run | question | bounds | result |
|---|---|---|---|
| `sources` | do deletion, projection and observation events of one document commute safely? | 2 workers, 5 events in any order, 2 versions (one of two batches), 1 fault | holds, 546 K states |
| `conversations` | do settings, conversations and their deletion? | 2 workers, 5 events, 2 switches, 1 fault | holds, 1.26 M states |
| `progress` | does every event end? | 2 workers, 3 events (one waiting, one corrupt projection), lost tasks, 1 fault | holds, 11 K states |
| `lifecycle` | do overlapping index tasks, requests and moves leave row, record and outbox consistent, and what do the stamps make deletions cover? | 2 index tasks, 4 clock ticks, 1 deletion, 1 lost index worker; or a conversation of 2 ticks; 1 inbox worker, no inbox faults | holds, 516 K states |
| `documents` | does a deletion cover every version known when it was asked for? | 1 index task, 4 clock ticks, 1 deletion | **violated** |
| `outbox` | does the outbox keep its contract, and serve every row? | 1 dispatcher, 3 operations, lists of 2, 2 attempts, 1 fault | holds, 149 K states |
| `delivery` | does a delivery in parts arrive whole? | 1 worker, 3 parts, 3 attempts, 2 retries, 2 faults | holds, 22 K states |
| `runs` | do runs of a session execute one at a time, and once? | 2 runs, 2 workers, 2 attempts, 2 troubles | holds, 2.33 M states |
| `runs_terminal` | is a terminal run left alone? | 1 run, 2 workers, 1 trouble | **violated** |
| `memories` | do commands, observations and deletions keep memories consistent? | 2 users and the worker, 2 slots, 3 values, 2 observations, 4 transactions | holds, 498 K states |
| `requests` | do repeated and racing messages and dispatches start the right runs? | 2 threads, 2 senders, 4 messages, 2 codes, 1 job, 6 steps | holds, 1.28 M states |
| `answers` | does a request get one supported answer within its budgets? | 2 attempts, 2 routes, 2 requirements, 2 pieces of evidence, 1 search, 4 calls, 3 tokens, 1 fault | holds, 767 K states |

Why the bounds are enough for the cases that matter: two workers and one document or
conversation meet in every pair of handlers, and a third worker would only wait for the same
scope lock; one fault lets each step be interrupted once and retried beside a racing worker;
a projection of two batches separates "stored" from "complete"; three operations with lists
of two leave one row behind the limit; three parts leave one before, at and after a failure.
In `lifecycle` the inbox's faults and lost tasks are left to `sources` and `conversations`, since
the question there is the stamps, and `OneSource` explores the document or the conversation, which
have no source in common. Every change of the document takes a tick: three publish a version, and
the fourth changes the row once more or marks it again after a redelivery; two ticks let a
conversation be asked, remembered and deleted.
In `runs` two runs make a
queue, and two troubles let a fault or an abort meet a recovery pass, or a pass find both
runs stale (`recoveries` counts stale rows). In `memories` three values
are needed for a value that is neither the one shown nor the one confirmed, and four
transactions for two commands to interleave after two observations have made something to
command. In `requests` the four messages bind both accounts, repeat a code that is used, and
ask a question. In `answers` one of two pieces of evidence is inadmissible, so that filtering
can take a requirement's support; four calls cover two routes of two attempts.
Runs without liveness use symmetry of interchangeable constants. Deadlock is not checked: all programs
stop when every event has a verdict and no input is left.

### What the runs show

*Holds.* `NoResurrection` (no evidence and no batch outlives a newer deletion of its
source), `ActiveProjectionSound`, `AcceptedBatchesActivate`, `DeletionLeavesFence`,
`SettingsFollowOrder`, `TerminalStays`, `OptOutNotOvertaken`, `EventuallyProcessed`;
`DeletedConversationStaysDeleted` with the real stamps, and `SupersededVersionsStayDeleted`: of a
document the deletion covers at least the versions published before the last change of the row it
has read began, however stale that read is when it commits; `IndexedIsPublished` and
`RunningIsExecuted` for overlapping index tasks;
`KeepsContract` and `NoRowNeglected` for one dispatcher; `NoPartSkipped`,
`DuplicatesNeedFaults`, `ExtraAttemptsNeedFaults`, `EventuallySettled` for one channel worker.
`OneAtATime`, `CollisionsNeedStalls`, `CompletedIsAnswered` and `AgentRun`'s
`ExtraAttemptsNeedFaults`: through aborts, recovery, redelivery and crashes a run executes alone
and once, and finds the messages it has already written, except when a live worker stalls for longer
than its lease; then its attempt may run into the unique constraint and fail.
`EverythingHasASource`, `OneMemoryPerSlot`, `DecidedOnce`, `ConfirmReplacesReviewed`, and `DeadlockNeedsDisorder`: lock circles close only
through transactions that hold evidence while they ask for slots, or moves with text that is
not normalized. `IdentityProven`, `QuestionsStayWithTheirUser`, `RepeatsNeedASessionChange`.
`OneStoredAnswer`, `VerdictIsFinal`, `RunsEnd`, `AnswersSupported`, `WithinBudgets`.

*Does not hold*, against what the documentation says (quoted under "findings"):

1. `DeletedDocumentStaysDeleted`: a document that is indexed and then deleted is deleted with
   the time of its last change, which its newest projection bears too, and on that tie
   `document-deleted` sorts before `projection`: a projection delivered late is accepted and
   activated. A deletion that read the row before it changed, or after a move that set
   `updated_at` back, bears an even earlier time.
2. `TerminalStays` (of `AgentRun`): an abort request that saw a run before it started writes it
   aborted; the worker that has just begun it writes the durable row back to running.

*Does not hold, and no run is kept for it.* These are defined in their modules; adding the name
to the cfg shows the counterexample.

| property | cfg | what happens |
|---|---|---|
| `SuccessorIsNewer` | `PROPERTIES` of `MemoryInbox_sources.cfg` | activation compares no versions; the late last batch of an older version replaces the newer one |
| `ActiveIsTended` | `INVARIANTS` of `SourceLifecycle.cfg` | an index task that succeeded is redelivered before it was acknowledged and marks the document indexing; its record refuses to run and to fail, so the mark of failure is not reached. Deleting asks to "cancel or wait for index tasks" (`router.py:393`), and there is none |
| `SucceededIsFinal` | `Outbox.cfg`, in place of its properties, with `Dispatchers = {d1, d2}` | the slower dispatcher marks a succeeded row running again |
| `EffectIsAcknowledged` | `PROPERTIES` of `Outbox.cfg` | nothing looks at running rows, so a crash leaves one for good |
| `RetryIsHonoured` | `PROPERTIES` of `ChannelDelivery.cfg` | the verdict of an attempt in flight overwrites the user's retry |
| `CorrectionsKept` | `PROPERTIES` of `MemorySlots.cfg` | the repair after a deletion keeps revisions with evidence only; a correction by hand has none |
| `SubmittedNamesItsRun` | `INVARIANTS` of `RunSources.cfg` | a crash between binding a message to a run id and submitting the run leaves a message that looks handled; its redelivery is a duplicate |
| `OneRunPerRequest` | `INVARIANTS` of `RunSources.cfg` | two dispatches of a job without a session make two sessions and two runs |

`NoPartSkipped` needs the single channel worker: stale recovery may hand a delivery that is
still being sent to a second worker, and both then add to `parts_sent`. The hazard list
records it; no document promises otherwise.

## Fairness

- *Inbox*: the beat task runs every 30 s, so weak fairness of `Redispatch`. The broker is a
  FIFO queue and workers keep consuming: an event whose task is put back again and again is
  taken in the end, strong fairness of `Take` (by some worker). Postgres grants a blocked
  advisory lock in FIFO order: strong fairness of `EnterScope`. A worker that does not crash
  keeps running, and its model and database calls have timeouts: weak fairness of `Handle`.
- *Outbox*: the beat runs every 15 s and targets answer or time out (`Dispatch`); delays are
  finite (`BecomeDue`).
- *Channel*: the beat runs every 10 s and the HTTP client times out (`Work`); time passes
  (`BecomeDue`, `LockExpires`).

- *Answer runs*: the beat sweeps stale runs (`FailStale`); nothing else is fair, so that
  `RunsEnd` holds although every attempt may stop anywhere.

Nothing is fair about faults, user actions or producers. `EventuallyProcessed` leaves
observations out: one whose projection never arrives is retried for ever. `NoRowNeglected`
leaves out rows that a fault orphaned in `running`, which is `EffectIsAcknowledged`.

Number of processes: `docker/Dockerfile` and the environment examples set
`CELERY_WORKER_CONCURRENCY=1`, so there is one outbox dispatcher and one channel worker
(`docker/start-worker.sh` falls back to 2 when it is unset, hence `SucceededIsFinal`). The Memoria
worker's production example runs two, so the inbox is checked with two and proved for any
number.

## Proofs

Checked by tlapm for every value of the constants that satisfies the named assumptions. Every
safety property of the passing runs is a theorem; each was checked by TLC first. The type
invariants of `DocumentIndexing`, `ChannelDelivery` and `RunSources` are proved and no longer
kept in a run. A property is
seldom inductive, so each module proves `Spec => []Inv` for a conjunction that holds more, one
lemma per conjunct or per kind of step. `Inv` names below are in the proof modules.

The assumptions on constants are three kinds of facts: bounds are numbers; nulls (`None`,
`Dead`, `Gone`) are not among the values they stand beside; and what producers put into events
(`EventsAssumption`, `NewestAssumption`, `ProducersAssumption`, `EmittedAssumption`). TLC
evaluates all of them in the runs. Two theorem hypotheses come from the deployment:
`OneWorker` in `ChannelDeliveryProofs` and `OneDispatcher` of `ContractKept` (see "Number of
processes" above).

**MemoryInboxProofs**, for any events, workers, scopes, projections and faults:

- `TypeCorrect`: inductive as it stands, once `TypeOK` says that a worker is idle exactly when
  it has no job.
- `LocksExclude`: no event and no scope has two workers. Only `Take` and `EnterScope` acquire,
  each under its guard; every other step keeps or drops.
- `NothingResurrected`: `NoResurrection` alone is not inductive: a worker about to store
  evidence must still be unblocked. The strengthening (`Guarded`) adds that a worker
  in a writing phase (`WritingPhases`) has an event no fence covers. That survives other
  workers' deletions only because fences of a scope are raised by the worker that holds the
  scope's lock (`LocksExclude`), and it survives the same deletion's fences for stored data
  because the deletion removes what its sources produced: there `ProducersAssumption` is
  used, to show that whatever a newly raised fence covers is among `CoveredEvidence` or
  `CoveredProjections`.
- `DeletionsAreFenced`: a worker that is about to report a deletion, and one that has, has its
  fence in place (`DeletionsDone`); fences only rise.
- `VerdictsStay`: an action property, from `RowSteps`, the lemma that lists who may write which
  row from which status.
- `SettingsInOrder`: every switch has a source (`SettingsHaveSource`) and settings events are
  reported only when the switches are as new as they are (`SettingsDone`). A conversation that
  finishes settings rows of another worker applies them in order and is the case that
  needs both.
- `OptOutRespected`: an action property of the step that begins extraction
  (`ConversationSettings`), from the invariants of `SettingsInOrder`: the step applies every
  earlier settings event that is still pending, and the others have been applied.
- `ActiveProjectionsSound`: a worker about to activate saw the projection whole and still has it
  so (`ActivateReady`), because only its scope's holder changes batches.
- `AcceptedBatchesAreActive`: `OnItsWay` says of each projection that was not deleted: the batches
  of events that have passed are stored, and as long as it is staging, the event of some batch has
  not passed. Whoever stores the last batch activates; a crash leaves that worker's event
  pending (`JobsPending`).

**SourceLifecycleProofs**, for any clock, workers, candidates and faults:

- `LifecycleIsInbox`: `LifecycleSpec => Spec`. The composition is the inbox fed with stamped
  events, so the theorems above hold of it.
- `ConversationsStayDeleted`: `Produced` says that a conversation's deletion is stamped after all
  the conversation said; then its fence covers it, and `NothingResurrected` does the rest. The
  message's fence is never ahead of its session's (`TalkFenced`), since only that deletion raises it.
- `IndexedArePublished`, `RunningAreExecuted`: parts of `IndexSafe`, the invariant of
  `DocumentIndexing`. A mark that finds the status it writes leaves the row and its time alone, and
  one that does not publishes the time it gives the row; a move changes neither status nor `marked`.
  A record says running only while its task has not come to its end or is sent again, and
  only the record's own task makes it so (`RunningHasExecution`).
- `SupersededVersionsStayGone`: the same invariant says that what was published before a
  transaction began bears an earlier time than the transaction (`OpenMarks`, `Dated`), so that a
  deletion, whose stamp is the time some transaction began, is ordered after all of `past`
  (`Sourced`), however stale; its fence and `NothingResurrected` do the rest. Of the versions published
  since, nothing follows, which is finding 1.

**OutboxProofs**:

- `TypeCorrect`: no counter passes its limit for any number of dispatchers. The strengthening
  relates each snapshot to the limit: a row at hand was loaded in a dispatchable state, and the
  states that are dispatchable have attempts to spare.
- `ContractKept`: with at most one dispatcher, `Spec => KeepsContract`. The inductive invariant
  `Ownership` says that the row at hand is as the dispatcher left it: its status and attempts
  agree with the step and the snapshot, the calls of its target are the attempts recorded plus
  the one in progress, and it has taken effect before it is about to be marked succeeded. Each
  step then maps to a step of the contract or to a stutter.

**ChannelDeliveryProofs**, for any parts, attempts, retries and faults, under `OneWorker`:

- `TypeCorrect`, `NothingSkipped`: a worker that sends continues from the row's cursor
  (`CursorKept`) and what it counts was delivered (`SentDelivered`).
- `RepeatsAreFaults`: parts beyond the cursor were delivered by faults only (`UnsentNeedFaults`).
- `ExtraAttemptsAreFaults`: an attempt that can still be made is within the limit (`AttemptsLeft`).

**AgentRunProofs**, for any runs, workers, submissions, crashes, stalls, aborts and recoveries. A
record has copies in two stores and in everyone who is about to save one; the invariants speak
of all copies (`CopiesWithin`), since any may be the next to be written.

- `TypeCorrect`: with `Sound`; includes that a run is never queued twice.
- `TurnsExclude`: tasks that execute without the lease (`Lost`) are no more than the counted
  stalls (`LostCounted`), so all but one of those executing have stalled.
- `CollisionsAreStalls`: a task that has read that a message is missing still finds it missing when it
  writes, unless it executes without the lease; such tasks are no more than the stalls (`ChatSound`).
- `CompletedHasAnswer`: every completed copy belongs to an answered run (`CompletedSound`).
- `ExtraAttemptsAreFaults`: a queued run that no holder of the lease executes has had one attempt
  less than the faults allow (`AttemptsSound`).

**MemorySlotsProofs**, for any users, slots, values and observations. `IInv` has the tables
(`TablesSound`), what each open transaction relies on (`TxSound`: it owns its slot, and what it
decided still describes the slot), the locks (`LocksSound`) and room for new ids (`Counted`). A
commit keeps for every other transaction what that one relies on (`KeptFor`), because it writes
in a slot nobody else owns or a row nobody else has locked.

- `TypeCorrect`, `NothingWithoutSource`, `SlotsAreNotShared`: parts of `TablesSound`.
- `DecidedOnlyOnce`, `OnlyTheReviewedIsReplaced`: action properties from `TxSound`.
- `DeadlocksNeedDisorder`: whoever waits for a slot in order has locked lower ones only
  (`Ordered`); the greatest slot owned in a circle would be owned by one who waits above it.

**AnswerRunProofs**, for any attempts, answers, limits and faults:

- `TypeCorrect`, `StoredAnswerIsTheAnswer`, `VerdictsAreFinal`: `TypeOK`, `OneStoredAnswer` and
  `VerdictIsFinal` of `AnswerRun`. The strengthening says that whoever works on the row created
  it, that an attempt about to return holds the stored answer, and that only the creator has
  generated. A verdict is final because every write is under `RequireRunning` or a test of the
  status.
- `LoopImplementsRun`: `LoopSpec => Spec`, its fairness included. Every action of `AnswerLoop` is
  an action of `AnswerRun` with more said about `gen`, or leaves `vars` alone.
- `BudgetsHold`, `AnswersHaveSupport`: `LoopInv` says that the generation at hand is sound
  (`Sound`: within its budgets; what it cites is known, in scope, and meets the requirements stated
  so far) and that a completed row holds what the finished draft delivers.

**RunSourcesProofs**, for any accounts, codes, messages, jobs and threads:

- `IdentitiesAreProven`: by induction over `Bind`: a code is used once, and an identity is set only
  by the code that is used in the same step.
- `QuestionsStay`: the strengthening follows a question from its decision (the thread holds the
  user its sender was bound to, and the conversation is this user's) to its run (`Remembered`,
  `Owned`); identities and the owner of the conversation never change once set.
- `TypeCorrect`: with `Rows` and `Dispatches`.
- `RepeatsNeedSessions`: for messages, threads and runs have the conversation's session until it
  is remapped (`SeesSession`). For jobs, while at most one thread has read the job without a
  session, that thread alone can give it one (`Settled`); then runs of an occurrence agree on the
  session, are one row by `Unique`, and map one to one into the occurrences, whose
  number bounds their cardinality.

Proving changed the models where they could not be reasoned about or said less than the code:
`MemorySlots` gained the row lock a confirmation holds on its candidate
(`load_candidate_for_update` in `repositories/memories.py`) and a set of transactions; `AgentRun`,
`MemorySlots` and `RunSources` name their nulls; `RunSources` bounds the sessions of jobs.

Only model-checked: liveness (`EventuallyProcessed`, `NoRowNeglected`, `EventuallySettled`,
`RunsEnd`) is out of the prover's reach, because it rests on fairness and ENABLED. Nothing in the
modules is recursive.

## Not modelled

Within the modelled parts: the embedding and chunk content (a projection is intact or
`corrupt`), the batch limit of the inbox's beat, knowledge bases and settings commands in
`SourceLifecycle`, hashing of duplicate payloads, action proposals, event heartbeats and
notifications, the multi-agent planner and executor, and what the sections above name. One
disagreement was met that is no property here: `_mark_aborted` (`run_service.py:224-232`)
saves the record it re-reads, whose status is not aborted, so a run aborted in the queue may
stay `aborting` until recovery settles it. In `AnswerLoop` the estimate a call without a usage
report is charged is an upper bound of what it used, as `llm.py:202-203` intends. In `RunSources`
the heartbeat's status is written by every dispatch, also where nothing would change, and not
again when its run ends. In `AgentRun` the request key is taken to expire with its record.

The larger part of the repository is CRUD over one table, read models, text (prompts, parsing,
ranking), evaluation scripts, migrations and a web frontend: single transactions or pure
functions without a protocol between actors, which tests reach well. Other parts are listed
under "components" with their reasons.

## Plan

The modules were written in this order: the inbox, its producers and the outbox, because the
promise of deletion is the system's most delicate one; deliveries; agent runs; memory slots;
what starts runs; answers. What is left, in order of worth:

1. Proofs: what each property that does not hold needs. `EffectIsAcknowledged` without crashes is
   liveness and stays with TLC; `SucceededIsFinal` for one dispatcher follows from `ContractKept`
   and can be stated as its corollary; `TerminalStays` of `AgentRun` for runs nobody aborts and
   `SuccessorIsNewer` for versions stored in order would say exactly what the missing checks cost.
2. Knowledge bases and settings commands in `SourceLifecycle`; the beat's limit in `MemoryInbox`.
3. Event heartbeats and action proposals, beside `RunSources`.
4. Maintenance tasks and knowledge-base deletion, beside `DocumentIndexing`.

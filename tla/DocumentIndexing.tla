---------------------------- MODULE DocumentIndexing ----------------------------
(***************************************************************************)
(* A document row of Mneme and what marks it: its index tasks on Celery    *)
(* (mneme/tasks/index_tasks.py, domains/documents/pipeline.py), the user's *)
(* requests to index, cancel, retry and move, and its deletion. Each of    *)
(* these reads the row in a transaction of its own and writes it later in  *)
(* it, without a lock in between; updated_at is the time it began.         *)
(* An index task that ends well publishes a version of the document, named *)
(* by updated_at, and a deletion bears the updated_at it has read.         *)
(***************************************************************************)
EXTENDS Naturals, FiniteSets

CONSTANTS
    IndexTasks,     \* ids of index tasks
    User,           \* the user's requests, made one at a time
    MaxTime,        \* bound on the clock
    MaxDeletions,   \* bound on requests to delete the document
    MaxLosses       \* bound on workers lost in the middle of a task

ASSUME IndexingAssumption ==
    /\ User \notin IndexTasks
    /\ MaxTime \in Nat \ {0} /\ MaxDeletions \in Nat /\ MaxLosses \in Nat

VARIABLES
    now,            \* the clock of the database
    doc,            \* the row, and as history when its status was written, and what was
                    \* published before its last change began
    record,         \* the task records' statuses
    sent,           \* tasks with a message on the queue
    step,           \* where the execution of a task is
    marking,        \* transactions that have read the row and will mark or move it
    deleting,       \* deletions that have read the row and not yet committed
    deletions,      \* deletions in the outbox
    versions,       \* versions in the outbox
    losses          \* workers lost

rowVars == <<doc, record, sent, step, marking, deleting, deletions, versions, losses>>
indexVars == <<now, rowVars>>

Statuses == {"uploaded", "queued", "indexing", "indexed", "failed"}
Gone == doc.status = "deleted"

\* The statuses for which a deletion is refused (the others named there are stages of the
\* task record and never a document's).
ActiveStatuses == {"queued", "indexing"}

\* What the execution marks the document with, and where it goes on.
MarkOf == [skip |-> "uploaded", start |-> "indexing", finish |-> "indexed", fail |-> "failed"]
After == [skip |-> "ack", start |-> "stage", finish |-> "settle", fail |-> "ack"]
Steps == {"idle", "skip", "start", "stage", "finish", "settle", "fail", "ack"}

\* ALLOWED_TASK_TRANSITIONS; retrying lasts only within the transaction of a retry.
AllowedTransitions ==
    [pending |-> {"running", "failed", "cancelled"},
     running |-> {"succeeded", "failed", "cancelled"},
     failed |-> {"pending"}, cancelled |-> {"pending"}, succeeded |-> {}]

\* The deletion of a document takes its records; a transition of none does nothing.
CanTransition(i, status) ==
    record[i] # "none" => status \in {record[i]} \cup AllowedTransitions[record[i]]

Transition(i, status) ==
    record' = IF record[i] = "none" THEN record ELSE [record EXCEPT ![i] = status]

MoveTo(i, s) == step' = [step EXCEPT ![i] = s]

IndexInit ==
    /\ now = 0
    /\ doc = [status |-> "uploaded", marked |-> 0, updated_at |-> 0, past |-> {}]
    /\ record = [i \in IndexTasks |-> "none"]
    /\ sent = {} /\ step = [i \in IndexTasks |-> "idle"]
    /\ marking = {} /\ deleting = {} /\ deletions = {} /\ versions = {}
    /\ losses = 0

Tick == now < MaxTime /\ now' = now + 1

-----------------------------------------------------------------------------
\* A transaction to mark or to move the document begins, and reads the row.
Begin(by, task, status) ==
    /\ ~Gone
    /\ \A m \in marking : m.by # by
    /\ Tick
    /\ marking' = marking \cup
          {[by |-> by, task |-> task, status |-> status, read |-> doc.status, at |-> now',
            past |-> versions]}

\* Mutant: updated_at moves only when the document is indexed.
MarkedWhenIndexed(m) ==
    IF m.status = m.read THEN doc
    ELSE [status |-> m.status, marked |-> m.at, past |-> m.past,
          updated_at |-> IF m.status = "indexed" THEN m.at ELSE doc.updated_at]

\* The row it leaves: a status that was read is not written again, nor updated_at.
Marked(m) ==
    IF m.status = m.read THEN doc
    ELSE [status |-> m.status, marked |-> m.at, updated_at |-> m.at, past |-> m.past]

\* A move leaves the status alone, and its updated_at may be earlier than the row's.
Moved(m) == [doc EXCEPT !.updated_at = m.at, !.past = m.past]

-----------------------------------------------------------------------------
\* POST /{document_id}/index: a new task, unless the document is indexing or indexed.
SubmitIndex(i) ==
    /\ record[i] = "none"
    /\ doc.status \notin {"indexing", "indexed"}
    /\ Begin(User, i, "queued")
    /\ UNCHANGED <<doc, record, sent, step, deleting, deletions, versions, losses>>

\* retry_document_index_task, whatever the document's status.
RetryIndex(i) ==
    /\ record[i] \in {"failed", "cancelled"}
    /\ Begin(User, i, "queued")
    /\ UNCHANGED <<doc, record, sent, step, deleting, deletions, versions, losses>>

\* cancel_document_index_task revokes the message first, which may come too late.
CancelIndex(i) ==
    /\ record[i] = "pending"
    /\ Begin(User, i, "uploaded")
    /\ sent' \in {sent, sent \ {i}}
    /\ UNCHANGED <<doc, record, step, deleting, deletions, versions, losses>>

\* move_document_api, to another folder.
MoveDocument ==
    /\ Begin(User, User, "moved")
    /\ UNCHANGED <<doc, record, sent, step, deleting, deletions, versions, losses>>

CommitMove ==
    /\ ~Gone
    /\ \E m \in marking :
         /\ m.status = "moved"
         /\ marking' = marking \ {m}
         /\ doc' = Moved(m)
    /\ UNCHANGED <<now, record, sent, step, deleting, deletions, versions, losses>>

\* A request about a task commits, and after that sends the task's message.
CommitRequest ==
    /\ ~Gone
    /\ \E m \in marking :
         /\ m.by = User /\ m.status # "moved"
         /\ marking' = marking \ {m}
         /\ doc' = Marked(m)
         /\ record' = [record EXCEPT ![m.task] =
                          IF m.status = "queued" THEN "pending" ELSE "cancelled"]
         /\ sent' = IF m.status = "queued" THEN sent \cup {m.task} ELSE sent
    /\ UNCHANGED <<now, step, deleting, deletions, versions, losses>>

\* The request fails: a limit is reached, or its row is gone.
AbandonRequest ==
    /\ \E m \in marking : m.by = User /\ marking' = marking \ {m}
    /\ UNCHANGED <<now, doc, record, sent, step, deleting, deletions, versions, losses>>

-----------------------------------------------------------------------------
\* A worker takes the task and reads the document and the record.
StartTask(i) ==
    /\ i \in sent /\ step[i] = "idle"
    /\ sent' = sent \ {i}
    /\ MoveTo(i, IF Gone THEN "ack" ELSE IF record[i] = "cancelled" THEN "skip" ELSE "start")
    /\ UNCHANGED <<now, doc, record, marking, deleting, deletions, versions, losses>>

\* update_document_status begins.
BeginMark(i) ==
    /\ step[i] \in DOMAIN MarkOf
    /\ Begin(i, i, MarkOf[step[i]])
    /\ UNCHANGED <<doc, record, sent, step, deleting, deletions, versions, losses>>

\* Mutant: what is enqueued is built from the row as it was before the mark.
CommitMarkUnrefreshed(i) ==
    /\ ~Gone
    /\ \E m \in marking :
         /\ m.by = i
         /\ marking' = marking \ {m}
         /\ doc' = Marked(m)
         /\ versions' = IF step[i] = "finish" THEN versions \cup {doc.updated_at} ELSE versions
    /\ MoveTo(i, After[step[i]])
    /\ UNCHANGED <<now, record, sent, deleting, deletions, losses>>

\* Its transaction commits; the one that marks the document indexed has built the projection
\* and the observations of the row as it now is, and enqueues them.
CommitMark(i) ==
    /\ ~Gone
    /\ \E m \in marking :
         /\ m.by = i
         /\ marking' = marking \ {m}
         /\ doc' = Marked(m)
         /\ versions' = IF step[i] = "finish" THEN versions \cup {doc'.updated_at} ELSE versions
    /\ MoveTo(i, After[step[i]])
    /\ UNCHANGED <<now, record, sent, deleting, deletions, losses>>

\* Once the row is gone no mark commits: the task fails, and so does the mark of its failure.
MissDocument(i) ==
    /\ Gone
    /\ step[i] \in DOMAIN MarkOf
    /\ marking' = {m \in marking : m.by # i}
    /\ MoveTo(i, "ack")
    /\ UNCHANGED <<now, doc, record, sent, deleting, deletions, versions, losses>>

\* The first stage is reported, which makes the task running; the later ones find it so.
ReportStage(i) ==
    /\ step[i] = "stage"
    /\ CanTransition(i, "running")
    /\ Transition(i, "running")
    /\ MoveTo(i, "finish")
    /\ UNCHANGED <<now, doc, sent, marking, deleting, deletions, versions, losses>>

\* The task is recorded as succeeded. Its domain events follow.
SettleTask(i) ==
    /\ step[i] = "settle"
    /\ CanTransition(i, "succeeded")
    /\ Transition(i, "succeeded")
    /\ MoveTo(i, "ack")
    /\ UNCHANGED <<now, doc, sent, marking, deleting, deletions, versions, losses>>

\* Anything raised in the task is recorded as its failure, and then the document is marked.
\* The record of a task that succeeded or was cancelled refuses that, which ends the handler.
RaiseError(i) ==
    /\ step[i] \in {"skip", "start", "stage", "finish", "settle"}
    /\ marking' = {m \in marking : m.by # i}
    /\ IF CanTransition(i, "failed")
       THEN Transition(i, "failed") /\ MoveTo(i, "fail")
       ELSE UNCHANGED record /\ MoveTo(i, "ack")
    /\ UNCHANGED <<now, doc, sent, deleting, deletions, versions, losses>>

\* Celery acknowledges a task when it has ended, whatever its end (acks_late).
Acknowledge(i) ==
    /\ step[i] = "ack"
    /\ MoveTo(i, "idle")
    /\ UNCHANGED <<now, doc, record, sent, marking, deleting, deletions, versions, losses>>

\* Mutant: the task was acknowledged when it was taken.
LoseWorkerAcknowledged(i) ==
    /\ step[i] # "idle" /\ losses < MaxLosses
    /\ losses' = losses + 1
    /\ marking' = {m \in marking : m.by # i}
    /\ MoveTo(i, "idle")
    /\ UNCHANGED <<now, doc, record, sent, deleting, deletions, versions>>

\* A worker that is lost has its transaction undone and its task sent again.
LoseWorker(i) ==
    /\ step[i] # "idle" /\ losses < MaxLosses
    /\ losses' = losses + 1
    /\ sent' = sent \cup {i}
    /\ marking' = {m \in marking : m.by # i}
    /\ MoveTo(i, "idle")
    /\ UNCHANGED <<now, doc, record, deleting, deletions, versions>>

-----------------------------------------------------------------------------
\* DELETE /{document_id}, or of its knowledge base, reads the row and refuses an active one.
\* past and known are history: published before its last change began, and by now.
ReadForDeletion ==
    /\ ~Gone /\ doc.status \notin ActiveStatuses
    /\ Cardinality(deleting \cup deletions) < MaxDeletions
    /\ deleting' = deleting \cup
          {[at |-> doc.updated_at, past |-> doc.past, known |-> versions]}
    /\ UNCHANGED <<now, doc, record, sent, step, marking, deletions, versions, losses>>

\* delete_document_resources stamps the deletion with the updated_at that was read, and
\* deletes the row, whatever it is by now, and its task records.
CommitDeletion ==
    /\ \E d \in deleting :
         /\ deleting' = deleting \ {d}
         /\ deletions' = deletions \cup {d}
    /\ doc' = [doc EXCEPT !.status = "deleted"]
    /\ record' = [i \in IndexTasks |-> "none"]
    /\ UNCHANGED <<now, sent, step, marking, versions, losses>>

IndexNext ==
    \/ \E i \in IndexTasks :
          \/ SubmitIndex(i) \/ RetryIndex(i) \/ CancelIndex(i)
          \/ StartTask(i) \/ BeginMark(i) \/ CommitMark(i) \/ MissDocument(i)
          \/ ReportStage(i) \/ SettleTask(i) \/ RaiseError(i) \/ Acknowledge(i) \/ LoseWorker(i)
    \/ MoveDocument \/ CommitMove \/ CommitRequest \/ AbandonRequest
    \/ ReadForDeletion \/ CommitDeletion

-----------------------------------------------------------------------------
Times == 0 .. MaxTime

\* The state's shape.
IndexTypeOK ==
    /\ now \in Times
    /\ doc \in [status : Statuses \cup {"deleted"}, marked : Times, updated_at : Times,
                past : SUBSET Times]
    /\ record \in [IndexTasks -> {"none"} \cup DOMAIN AllowedTransitions]
    /\ sent \subseteq IndexTasks /\ step \in [IndexTasks -> Steps]
    /\ marking \subseteq [by : IndexTasks \cup {User}, task : IndexTasks \cup {User},
                          status : Statuses \cup {"moved"}, read : Statuses,
                          at : Times, past : SUBSET Times]
    /\ deleting \cup deletions \subseteq [at : Times, past : SUBSET Times, known : SUBSET Times]
    /\ versions \subseteq Times /\ losses \in 0 .. MaxLosses

\* A document shown as indexed is in the outbox in the version that its status was written
\* with: whatever tasks and requests overlap, the row and the outbox change in one transaction.
IndexedIsPublished == doc.status = "indexed" => doc.marked \in versions

\* Someone can still bring the document out of an active status: a task that runs or will, or
\* the user by cancelling or retrying one.
Tended(i) ==
    \/ i \in sent \/ step[i] # "idle" \/ record[i] \in {"pending", "failed", "cancelled"}

\* A document whose deletion is refused ("cancel or wait for index tasks before deleting the
\* document") has an index task to cancel or to wait for.
ActiveIsTended == doc.status \in ActiveStatuses => \E i \in IndexTasks : Tended(i)

\* A task recorded as running is executed, or will be.
RunningIsExecuted ==
    \A i \in IndexTasks : record[i] = "running" => i \in sent \/ step[i] # "idle"
=================================================================================

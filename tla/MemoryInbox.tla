----------------------------- MODULE MemoryInbox -----------------------------
(***************************************************************************)
(* The Memoria server's event inbox: events of one owner are received over *)
(* HTTP, queued on Celery, and processed by workers that serialise on      *)
(* Postgres advisory locks (memoria/server/services/event_dispatcher.py).  *)
(* The handlers stage and activate document projections, extract memories, *)
(* apply memory settings, and delete sources behind deletion fences.       *)
(*                                                                         *)
(* Events may arrive in any order and be delivered any number of times.    *)
(* A worker may crash between any two transactions: its session locks go   *)
(* with its connection, and Celery (acks_late) redelivers its task.        *)
(***************************************************************************)
EXTENDS Integers, FiniteSets

CONSTANTS
    Events,         \* the events the producers emit (records, see EventRecord)
    Workers,        \* Celery worker processes
    Scopes,         \* knowledge bases of the owner, and Global
    Global,         \* the scope of an event with no knowledge base
    Sources,        \* fenced sources: documents, conversations, messages, KnowledgeBase
    KnowledgeBase,  \* the fence source that stands for a whole knowledge base
    Projections,    \* document projections
    Projection,     \* what every batch of a projection says of it
    Candidates,     \* memories the extraction may propose for one event
    SettingNames,   \* the owner's memory switches
    Automatic,      \* the switch conversations read: automatic_conversation_memory
    InitialSettings,\* the switches as the owner's earlier events left them
    None,           \* the job of an idle worker
    MaxFaults       \* bound on crashes and transient errors

DeletionTypes == {"document.deleted", "conversation.deleted", "knowledge_base.deleted"}
EvidenceTypes == {"conversation.completed", "user.memory_requested",
                  "document.memory.observed"}
EventTypes == DeletionTypes \cup EvidenceTypes
                \cup {"document.projection.upserted", "user.memory_settings.changed"}

\* order is the rank of (occurred_at, event_id); origin is the source the evidence or
\* the primary fence belongs to; sources are the fence sources the handler names;
\* valid says that the payload passes the handler's checks.
EventRecord ==
    [type : EventTypes, order : Nat \ {0}, scope : Scopes, origin : Sources,
     sources : SUBSET Sources, projection : Projections, batch : Nat,
     changes : UNION {[names -> BOOLEAN] : names \in SUBSET SettingNames},
     valid : BOOLEAN]

ASSUME EventsAssumption ==
    /\ Events \subseteq EventRecord
    /\ \A e, f \in Events : e.order = f.order => e = f

ASSUME ConstantsAssumption ==
    /\ Global \in Scopes
    /\ KnowledgeBase \in Sources
    /\ Automatic \in SettingNames
    /\ InitialSettings \in [SettingNames -> BOOLEAN]
    /\ MaxFaults \in Nat
    /\ None \notin Events
    /\ Projection \in [Projections -> [scope : Scopes, document : Sources, version : Nat,
                                       batches : SUBSET Nat, corrupt : BOOLEAN]]

\* The keys event_is_blocked_by_deletion looks up.
FenceSources(e) ==
    e.sources \cup (IF e.scope = Global THEN {} ELSE {KnowledgeBase})

\* Events are numbered, so any set of them that matters has a newest one.
ASSUME NewestAssumption ==
    \A S \in SUBSET Events : S # {} => \E e \in S : \A f \in S : f.order <= e.order

\* What the producers put in an event. A deletion is fenced by its origin, evidence and
\* projections are checked against theirs; a conversation's deletion names every
\* message that asked to be remembered before it.
ASSUME ProducersAssumption ==
    /\ \A e \in Events :
          /\ e.type \in DeletionTypes \cup EvidenceTypes => e.origin \in e.sources
          /\ e.type = "document.projection.upserted" =>
                /\ e.scope = Projection[e.projection].scope
                /\ e.origin = Projection[e.projection].document
                /\ e.sources = {e.origin}
          /\ e.type = "document.deleted" => e.sources = {e.origin}
          /\ e.type = "knowledge_base.deleted" =>
                e.origin = KnowledgeBase /\ e.sources = {KnowledgeBase}
          /\ e.type \in {"document.deleted", "conversation.deleted"} =>
                KnowledgeBase \notin e.sources
    /\ \A d, e \in Events : d.type = "conversation.deleted" /\ d.scope = e.scope =>
          /\ e.type = "document.projection.upserted" => e.origin \notin d.sources
          /\ e.type \in EvidenceTypes /\ e.order < d.order =>
                e.sources \cap d.sources = {} \/ e.origin \in d.sources
    /\ \A d, e \in Events :
          /\ d.type = "document.deleted" /\ e.type \in EvidenceTypes
          /\ d.origin \in e.sources
          => e.origin = d.origin

VARIABLES
    inbox,          \* [Events -> status of the inbox row]
    tasks,          \* events with a task waiting in the broker
    pc, job, todo,  \* per worker: phase, event, candidates left to reconcile
    fence,          \* [Scopes -> [Sources -> order of the newest deletion]]
    evidence,       \* <<event, candidate>> pairs stored as evidence
    projStatus,     \* [Projections -> status of the projection row]
    staged,         \* [Projections -> events whose batch row is stored]
    settings,       \* [SettingNames -> BOOLEAN]
    settingsOrder,  \* [SettingNames -> order of the event that set it]
    faults          \* crashes and transient errors so far

workerVars   == <<pc, job, todo>>
storeVars    == <<fence, evidence, projStatus, staged>>
settingsVars == <<settings, settingsOrder>>
vars == <<inbox, tasks, workerVars, storeVars, settingsVars, faults>>

-----------------------------------------------------------------------------
\* The phases of a worker. From "guard" to "delete" it holds its scope lock; from
\* "scope" to "retry" it holds its event lock.
WritingPhases == {"settings", "extract", "reconcile", "observe", "stage",
                  "finalize", "activate"}
ScopedPhases == WritingPhases \cup {"guard", "apply", "delete"}
Phases == ScopedPhases \cup {"idle", "scope", "succeed", "reject", "retry"}

HoldsEvent(w, e) == job[w] = e
HoldsScope(w, s) == pc[w] \in ScopedPhases /\ job[w].scope = s

Blocked(e) == \E s \in FenceSources(e) : fence[e.scope][s] >= e.order

\* The handler EVENT_HANDLERS names, by its first phase after its guard.
Handler(type) ==
    CASE type = "document.projection.upserted" -> "stage"
      [] type = "document.memory.observed"     -> "observe"
      [] type = "conversation.completed"       -> "settings"
      [] type = "user.memory_requested"        -> "extract"
      [] type = "user.memory_settings.changed" -> "apply"
      [] OTHER                                 -> "delete"

\* Mutant: only the evidence handlers ask for fences.
ChecksFencesOfEvidence(e) == e.type \in EvidenceTypes

\* handle_memory_settings_changed and handle_knowledge_base_deleted ask no fence.
ChecksFences(e) ==
    e.type \notin {"user.memory_settings.changed", "knowledge_base.deleted"}

Latest(S) == CHOOSE e \in S : \A f \in S : f.order <= e.order

\* Mutant: the last writer wins, whatever its order.
NewerUnordered(S, n) == {e \in S : n \in DOMAIN e.changes}

\* The events of S that _apply_settings lets change switch n.
Newer(S, n) == {e \in S : n \in DOMAIN e.changes /\ e.order > settingsOrder[n]}

\* _apply_settings on every event of S in event order.
ApplyInOrder(S) ==
    /\ settings' = [n \in SettingNames |->
          IF Newer(S, n) = {} THEN settings[n] ELSE Latest(Newer(S, n)).changes[n]]
    /\ settingsOrder' = [n \in SettingNames |->
          IF Newer(S, n) = {} THEN settingsOrder[n] ELSE Latest(Newer(S, n)).order]

Goto(w, phase) == pc' = [pc EXCEPT ![w] = phase]

-----------------------------------------------------------------------------
Init ==
    /\ inbox = [e \in Events |-> "absent"]
    /\ tasks = {}
    /\ pc = [w \in Workers |-> "idle"]
    /\ job = [w \in Workers |-> None]
    /\ todo = [w \in Workers |-> {}]
    /\ fence = [s \in Scopes |-> [x \in Sources |-> 0]]
    /\ evidence = {}
    /\ projStatus = [p \in Projections |-> "absent"]
    /\ staged = [p \in Projections |-> {}]
    /\ settings = InitialSettings
    /\ settingsOrder = [n \in SettingNames |-> 0]
    /\ faults = 0

\* POST /events: insert the row, then enqueue; enqueueing may fail unnoticed. A
\* duplicate delivery finds the row and changes nothing.
Receive(e) ==
    /\ inbox[e] = "absent"
    /\ inbox' = [inbox EXCEPT ![e] = "pending"]
    /\ tasks' \in {tasks, tasks \cup {e}}
    /\ UNCHANGED <<workerVars, storeVars, settingsVars, faults>>

\* Mutant: the beat task looks at rejected events instead of pending ones.
RedispatchRejected(e) ==
    /\ inbox[e] = "failed"
    /\ tasks' = tasks \cup {e}
    /\ UNCHANGED <<inbox, workerVars, storeVars, settingsVars, faults>>

\* The beat task enqueues an event that has been pending for 30 seconds, whether or
\* not a worker is busy with it. One waiting task per event is enough: a second one
\* would only be skipped or repeat the first.
Redispatch(e) ==
    /\ inbox[e] = "pending"
    /\ tasks' = tasks \cup {e}
    /\ UNCHANGED <<inbox, workerVars, storeVars, settingsVars, faults>>

\* A worker takes a task. It keeps it only if it gets the event lock at once and the
\* row is still pending.
Take(w, e) ==
    /\ pc[w] = "idle"
    /\ e \in tasks
    /\ tasks' = tasks \ {e}
    /\ \/ /\ \A v \in Workers : ~HoldsEvent(v, e)
          /\ inbox[e] = "pending"
          /\ Goto(w, "scope")
          /\ job' = [job EXCEPT ![w] = e]
          /\ UNCHANGED todo
       \/ /\ (\E v \in Workers : HoldsEvent(v, e)) \/ inbox[e] # "pending"
          /\ UNCHANGED workerVars
    /\ UNCHANGED <<inbox, storeVars, settingsVars, faults>>

\* Mutant: the memory scope is not locked.
EnterScopeUnlocked(w) ==
    /\ pc[w] = "scope"
    /\ Goto(w, "guard")
    /\ UNCHANGED <<inbox, tasks, job, todo, storeVars, settingsVars, faults>>

\* pg_advisory_lock on the memory scope blocks until no other worker is in it.
EnterScope(w) ==
    /\ pc[w] = "scope"
    /\ \A v \in Workers : ~HoldsScope(v, job[w].scope)
    /\ Goto(w, "guard")
    /\ UNCHANGED <<inbox, tasks, job, todo, storeVars, settingsVars, faults>>

\* The head of every handler: reject an invalid payload, succeed without effect on an
\* event a fence covers, go on otherwise.
Guard(w) ==
    LET e == job[w] IN
    /\ pc[w] = "guard"
    /\ \/ ~e.valid /\ Goto(w, "reject")
       \/ e.valid /\ ChecksFences(e) /\ Blocked(e) /\ Goto(w, "succeed")
       \/ /\ e.valid
          /\ ChecksFences(e) => ~Blocked(e)
          /\ Goto(w, Handler(e.type))
    /\ UNCHANGED <<inbox, tasks, job, todo, storeVars, settingsVars, faults>>

-----------------------------------------------------------------------------
\* Memory settings.

ApplySettings(w) ==
    /\ pc[w] = "apply"
    /\ ApplyInOrder({job[w]})
    /\ Goto(w, "succeed")
    /\ UNCHANGED <<inbox, tasks, job, todo, storeVars, faults>>

\* Mutant: a conversation reads the switch without looking at the inbox.
NoPendingSettings(e) == {}

\* The settings events a conversation must not overtake.
EarlierPendingSettings(e) ==
    {f \in Events : /\ f.type = "user.memory_settings.changed"
                    /\ inbox[f] = "pending"
                    /\ f.order < e.order}

\* A conversation first applies, in one transaction, every earlier settings event
\* still pending, finishes their rows, and goes on only if the owner lets it.
ConversationSettings(w) ==
    LET earlier == EarlierPendingSettings(job[w])
    IN  /\ pc[w] = "settings"
        /\ ApplyInOrder({f \in earlier : f.valid})
        /\ inbox' = [f \in Events |->
              IF f \notin earlier THEN inbox[f]
              ELSE IF f.valid THEN "succeeded" ELSE "failed"]
        /\ Goto(w, IF settings'[Automatic] THEN "extract" ELSE "succeed")
        /\ UNCHANGED <<tasks, job, todo, storeVars, faults>>

-----------------------------------------------------------------------------
\* Memories.

\* A document observation needs its projection to be active.
Observe(w) ==
    LET status == projStatus[job[w].projection] IN
    /\ pc[w] = "observe"
    /\ Goto(w, CASE status \in {"absent", "staging"} -> "retry"
                 [] status = "active"                -> "extract"
                 [] OTHER                            -> "reject")
    /\ UNCHANGED <<inbox, tasks, job, todo, storeVars, settingsVars, faults>>

\* The model proposes memories, anew on every attempt, or fails for good.
Extract(w) ==
    /\ pc[w] = "extract"
    /\ \/ Goto(w, "reject") /\ UNCHANGED todo
       \/ \E found \in SUBSET Candidates :
             /\ todo' = [todo EXCEPT ![w] = found]
             /\ Goto(w, IF found = {} THEN "succeed" ELSE "reconcile")
    /\ UNCHANGED <<inbox, tasks, job, storeVars, settingsVars, faults>>

\* One transaction per memory. Evidence stored by an earlier attempt is found again.
Reconcile(w) ==
    /\ pc[w] = "reconcile"
    /\ \E c \in todo[w] :
          /\ evidence' = evidence \cup {<<job[w], c>>}
          /\ todo' = [todo EXCEPT ![w] = @ \ {c}]
          /\ Goto(w, IF todo[w] = {c} THEN "succeed" ELSE "reconcile")
    /\ UNCHANGED <<inbox, tasks, job, fence, projStatus, staged, settingsVars, faults>>

-----------------------------------------------------------------------------
\* Document projections.

Document(p) == Projection[p].document
StagedBatches(p) == {f.batch : f \in staged[p]}
Complete(p) == StagedBatches(p) = Projection[p].batches
SameDocument(p, q) ==
    Document(p) = Document(q) /\ Projection[p].scope = Projection[q].scope

\* store_projection_batch rejects a second projection of one document version, a
\* failed projection, a batch sent before with other content, and a new batch for a
\* projection that has left staging.
Storable(e) ==
    LET p == e.projection IN
    /\ \A q \in Projections \ {p} :
          ~ /\ projStatus[q] # "absent"
            /\ SameDocument(p, q)
            /\ Projection[q].version = Projection[p].version
    /\ projStatus[p] # "failed"
    /\ e \in staged[p] \/ /\ e.batch \notin StagedBatches(p)
                          /\ projStatus[p] \in {"absent", "staging"}

\* Mutant: a batch stored by an earlier attempt counts as done.
StageSkippingReplay(w) ==
    LET e == job[w]
        p == e.projection
    IN  /\ pc[w] = "stage"
        /\ staged' = [staged EXCEPT ![p] = @ \cup {e}]
        /\ projStatus' = [projStatus EXCEPT ![p] = IF @ = "absent" THEN "staging" ELSE @]
        /\ Goto(w, IF e \in staged[p] THEN "succeed" ELSE "finalize")
        /\ UNCHANGED <<inbox, tasks, job, todo, fence, evidence, settingsVars, faults>>

Stage(w) ==
    LET e == job[w]
        p == e.projection
    IN  /\ pc[w] = "stage"
        /\ \/ /\ Storable(e)
              /\ staged' = [staged EXCEPT ![p] = @ \cup {e}]
              /\ projStatus' = [projStatus EXCEPT ![p] = IF @ = "absent" THEN "staging" ELSE @]
              /\ Goto(w, "finalize")
           \/ ~Storable(e) /\ Goto(w, "reject") /\ UNCHANGED <<staged, projStatus>>
        /\ UNCHANGED <<inbox, tasks, job, todo, fence, evidence, settingsVars, faults>>

\* finalize_projection up to the embedding call, which runs outside any transaction.
Finalize(w) ==
    LET p == job[w].projection IN
    /\ pc[w] = "finalize"
    /\ \/ /\ projStatus[p] # "staging" \/ ~Complete(p)
          /\ Goto(w, "succeed")
          /\ UNCHANGED projStatus
       \/ /\ projStatus[p] = "staging" /\ Complete(p) /\ Projection[p].corrupt
          /\ projStatus' = [projStatus EXCEPT ![p] = "failed"]
          /\ Goto(w, "reject")
       \/ /\ projStatus[p] = "staging" /\ Complete(p) /\ ~Projection[p].corrupt
          /\ Goto(w, "activate")
          /\ UNCHANGED projStatus
    /\ UNCHANGED <<inbox, tasks, job, todo, fence, evidence, staged, settingsVars, faults>>

\* Mutant: the old projection is not retired.
ActivateBesideOld(w) ==
    LET p == job[w].projection IN
    /\ pc[w] = "activate"
    /\ projStatus' = [projStatus EXCEPT ![p] = "active"]
    /\ Goto(w, "succeed")
    /\ UNCHANGED <<inbox, tasks, job, todo, fence, evidence, staged, settingsVars, faults>>

\* _activate_projection looks at the row again, retires the document's active
\* projection and activates p; a row that is gone is a transient error.
Activate(w) ==
    LET p == job[w].projection
        others == {q \in Projections \ {p} : SameDocument(p, q)}
    IN  /\ pc[w] = "activate"
        /\ projStatus' = [q \in Projections |->
              IF projStatus[p] # "staging" THEN projStatus[q]
              ELSE IF q = p THEN "active"
              ELSE IF q \in others /\ projStatus[q] = "active" THEN "superseded"
              ELSE projStatus[q]]
        /\ Goto(w, CASE projStatus[p] = "absent" -> "retry"
                     [] projStatus[p] = "failed" -> "reject"
                     [] OTHER                    -> "succeed")
        /\ UNCHANGED <<inbox, tasks, job, todo, fence, evidence, staged, settingsVars, faults>>

-----------------------------------------------------------------------------
\* Deletions.

DeletesAll(e) == e.type = "knowledge_base.deleted"

\* Mutant: the messages of a conversation are fenced but their evidence stays.
CoveredByOrigin(e) ==
    {x \in evidence : /\ x[1].scope = e.scope
                      /\ DeletesAll(e) \/ x[1].origin = e.origin}

\* The evidence delete_source_evidence finds for deletion e.
CoveredEvidence(e) ==
    {x \in evidence : /\ x[1].scope = e.scope
                      /\ DeletesAll(e) \/ x[1].origin \in e.sources}

\* The projections delete_document_projection or the scope deletion removes.
CoveredProjections(e) ==
    {p \in Projections : /\ Projection[p].scope = e.scope
                         /\ \/ DeletesAll(e)
                            \/ e.type = "document.deleted" /\ Document(p) = e.origin}

\* One transaction: unless the primary fence is at least as new, raise the fences of
\* every named source (never lower one) and delete what the sources produced,
\* whatever its order.
Delete(w) ==
    LET e == job[w] IN
    /\ pc[w] = "delete"
    /\ \/ /\ fence[e.scope][e.origin] >= e.order
          /\ UNCHANGED storeVars
       \/ /\ fence[e.scope][e.origin] < e.order
          /\ fence' = [fence EXCEPT ![e.scope] = [x \in Sources |->
                IF x \in e.sources /\ @[x] < e.order THEN e.order ELSE @[x]]]
          /\ evidence' = evidence \ CoveredEvidence(e)
          /\ staged' = [p \in Projections |->
                IF p \in CoveredProjections(e) THEN {} ELSE staged[p]]
          /\ projStatus' = [p \in Projections |->
                IF p \in CoveredProjections(e) THEN "absent" ELSE projStatus[p]]
    /\ Goto(w, "succeed")
    /\ UNCHANGED <<inbox, tasks, job, todo, settingsVars, faults>>

-----------------------------------------------------------------------------
\* The end of a task.

\* Mutant: a transient error ends the event.
OutcomeSwallowingErrors(phase) == IF phase = "reject" THEN "failed" ELSE "succeeded"

\* Mutant: a transient error leaves a status the table does not know.
OutcomeRetrying(phase) ==
    CASE phase = "succeed" -> "succeeded"
      [] phase = "reject"  -> "failed"
      [] OTHER             -> "retrying"

Outcome(phase) ==
    CASE phase = "succeed" -> "succeeded"
      [] phase = "reject"  -> "failed"
      [] OTHER             -> "pending"

\* Mutant: the verdict is written over whatever the row says.
MarkUnchecked(w) ==
    /\ pc[w] \in {"succeed", "reject", "retry"}
    /\ inbox' = [inbox EXCEPT ![job[w]] = Outcome(pc[w])]
    /\ Goto(w, "idle")
    /\ job' = [job EXCEPT ![w] = None]
    /\ UNCHANGED <<tasks, todo, storeVars, settingsVars, faults>>

\* The last transaction of _dispatch_inbox_event; the task is then acknowledged,
\* also when it failed, and the event lock released.
Mark(w) ==
    LET e == job[w] IN
    /\ pc[w] \in {"succeed", "reject", "retry"}
    /\ inbox' = [inbox EXCEPT ![e] = IF @ = "pending" THEN Outcome(pc[w]) ELSE @]
    /\ Goto(w, "idle")
    /\ job' = [job EXCEPT ![w] = None]
    /\ UNCHANGED <<tasks, todo, storeVars, settingsVars, faults>>

\* Any other exception in the handler: the open transaction rolls back, the row stays
\* pending and only the beat task will bring the event back.
Fail(w) ==
    /\ pc[w] \in ScopedPhases \cup {"scope"}
    /\ faults < MaxFaults
    /\ faults' = faults + 1
    /\ Goto(w, "retry")
    /\ todo' = [todo EXCEPT ![w] = {}]
    /\ UNCHANGED <<inbox, tasks, job, storeVars, settingsVars>>

\* The worker process dies between two transactions.
Crash(w) ==
    /\ pc[w] # "idle"
    /\ faults < MaxFaults
    /\ faults' = faults + 1
    /\ Goto(w, "idle")
    /\ tasks' = tasks \cup {job[w]}
    /\ job' = [job EXCEPT ![w] = None]
    /\ todo' = [todo EXCEPT ![w] = {}]
    /\ UNCHANGED <<inbox, storeVars, settingsVars>>

Handle(w) ==
    \/ Guard(w) \/ ApplySettings(w) \/ ConversationSettings(w)
    \/ Observe(w) \/ Extract(w) \/ Reconcile(w)
    \/ Stage(w) \/ Finalize(w) \/ Activate(w) \/ Delete(w) \/ Mark(w)

Next ==
    \/ \E e \in Events : Receive(e) \/ Redispatch(e) \/ \E w \in Workers : Take(w, e)
    \/ \E w \in Workers : EnterScope(w) \/ Handle(w) \/ Fail(w) \/ Crash(w)

Spec == Init /\ [][Next]_vars

\* The beat fires forever, the broker is a FIFO queue, Postgres grants a blocked
\* advisory lock in FIFO order, and a running worker keeps running.
Fairness ==
    /\ \A e \in Events :
          /\ WF_vars(Redispatch(e))
          /\ SF_vars(\E w \in Workers : Take(w, e))
    /\ \A w \in Workers : SF_vars(EnterScope(w)) /\ WF_vars(Handle(w))

FairSpec == Spec /\ Fairness

-----------------------------------------------------------------------------
\* Every variable keeps the values its column or role allows.
TypeOK ==
    /\ inbox \in [Events -> {"absent", "pending", "succeeded", "failed"}]
    /\ tasks \subseteq Events
    /\ pc \in [Workers -> Phases]
    /\ job \in [Workers -> Events \cup {None}]
    /\ \A w \in Workers : pc[w] = "idle" <=> job[w] = None
    /\ todo \in [Workers -> SUBSET Candidates]
    /\ fence \in [Scopes -> [Sources -> Nat]]
    /\ evidence \subseteq Events \X Candidates
    /\ projStatus \in [Projections -> {"absent", "staging", "active", "superseded", "failed"}]
    /\ staged \in [Projections -> SUBSET Events]
    /\ settings \in [SettingNames -> BOOLEAN]
    /\ settingsOrder \in [SettingNames -> Nat]
    /\ faults \in 0 .. MaxFaults

\* No evidence and no projection batch outlives a deletion that is newer than the
\* event it came from: neither a worker that read the fences before the deletion, nor
\* a late, repeated or retried event brings deleted data back.
NoResurrection ==
    /\ \A x \in evidence : ~Blocked(x[1])
    /\ \A p \in Projections : \A e \in staged[p] : ~Blocked(e)

\* What retrieval reads: a document has at most one active projection, and it holds
\* every batch and passed the integrity checks.
ActiveProjectionSound ==
    \A p \in Projections : projStatus[p] = "active" =>
        /\ Complete(p) /\ ~Projection[p].corrupt
        /\ \A q \in Projections \ {p} : SameDocument(p, q) => projStatus[q] # "active"

EventsOf(p) == {e \in Events : e.type = "document.projection.upserted" /\ e.projection = p}

\* Once every batch event of an intact projection has succeeded, the projection has
\* been activated, unless its document or knowledge base was deleted: whichever worker
\* stores the last batch must be the one that activates.
AcceptedBatchesActivate ==
    \A p \in Projections :
        /\ EventsOf(p) # {} /\ {e.batch : e \in EventsOf(p)} = Projection[p].batches
        /\ \A e \in EventsOf(p) : inbox[e] = "succeeded"
        /\ \A x \in {Document(p), KnowledgeBase} : fence[Projection[p].scope][x] = 0
        => projStatus[p] \in {"active", "superseded"}

\* A deletion reported as succeeded is on record: it, or a newer one, is what later
\* events of its source are compared with.
DeletionLeavesFence ==
    \A e \in Events : e.type \in DeletionTypes /\ inbox[e] = "succeeded" => Blocked(e)

\* A finished event is never reopened or given the other verdict, even when a
\* conversation finishes a settings event that another worker is processing.
TerminalStays ==
    [][\A e \in Events : inbox[e] \in {"succeeded", "failed"} => inbox'[e] = inbox[e]]_vars

\* Each switch holds what the newest settings event processed so far says, in
\* whatever order the events arrived and however often they were applied.
SettingsFollowOrder ==
    \A n \in SettingNames :
        LET applied == {e \in Events : /\ e.type = "user.memory_settings.changed"
                                       /\ inbox[e] = "succeeded" /\ n \in DOMAIN e.changes}
        IN  /\ \A e \in applied : e.order <= settingsOrder[n]
            /\ \A e \in applied : e.order = settingsOrder[n] => settings[n] = e.changes[n]

\* A conversation is never mined for memories against a switch-off the server had
\* received and that precedes the conversation.
OptOutNotOvertaken ==
    [][\A w \in Workers : pc[w] = "settings" /\ pc'[w] = "extract" =>
         \A f \in Events :
            /\ f.type = "user.memory_settings.changed" /\ f.valid
            /\ inbox[f] # "absent" /\ f.order < job[w].order
            /\ Automatic \in DOMAIN f.changes /\ ~f.changes[Automatic]
            => \E g \in Events : /\ g.type = "user.memory_settings.changed"
                                 /\ inbox[g] # "absent" /\ g.order > f.order
                                 /\ Automatic \in DOMAIN g.changes /\ g.changes[Automatic]]_vars

\* Every received event is finished in the end. Observations are left out: one whose
\* projection never arrives is retried forever.
EventuallyProcessed ==
    \A e \in Events : e.type # "document.memory.observed" =>
        (inbox[e] = "pending" ~> inbox[e] \in {"succeeded", "failed"})

\* Does not hold, and no run checks it: activation retires the predecessor of the projection
\* it activates, a document never goes back to an older version.  The last batch of an older
\* version may arrive after the newer version is active.
SuccessorIsNewer ==
    [][\A p, q \in Projections :
         /\ SameDocument(p, q)
         /\ projStatus[p] = "active" /\ projStatus'[p] = "superseded"
         /\ projStatus[q] # "active" /\ projStatus'[q] = "active"
         => Projection[p].version < Projection[q].version]_vars
=============================================================================

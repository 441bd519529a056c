---------------------------- MODULE MCMemoryInbox ----------------------------
(***************************************************************************)
(* Instances of MemoryInbox for TLC: one knowledge base with a document,   *)
(* a conversation and its messages. Orders follow the producers' rule that *)
(* a deletion comes after what it deletes.                                 *)
(***************************************************************************)
EXTENDS MemoryInbox, TLC

CONSTANTS kb, doc, session, message, p1, p2, c1

NoChanges == [n \in {} |-> FALSE]

Event(type, order, origin, sources) ==
    [type |-> type, order |-> order, scope |-> kb, origin |-> origin,
     sources |-> sources, projection |-> p1, batch |-> 0,
     changes |-> NoChanges, valid |-> TRUE]

Batch(order, p, b) ==
    [Event("document.projection.upserted", order, doc, {doc})
        EXCEPT !.projection = p, !.batch = b]

Observed(order, p) ==
    [Event("document.memory.observed", order, doc, {doc}) EXCEPT !.projection = p]

Setting(order, changes) ==
    [Event("user.memory_settings.changed", order, session, {})
        EXCEPT !.scope = Global, !.changes = changes]

MCScopes == {kb, Global}
MCSources == {doc, session, message, KnowledgeBase}
MCProjections == {p1, p2}

ProjectionOf(version, batches, corrupt) ==
    [scope |-> kb, document |-> doc, version |-> version,
     batches |-> batches, corrupt |-> corrupt]

SwitchedOff == [n \in SettingNames |-> FALSE]
SwitchedOn == [n \in SettingNames |-> TRUE]

\* A document indexed twice (the first time in two batches), observed, and deleted.
SourceEvents ==
    {Batch(1, p1, 0), Batch(2, p1, 1), Batch(3, p2, 0), Observed(4, p2),
     Event("document.deleted", 5, doc, {doc})}

SourceProjection ==
    [p \in MCProjections |->
        IF p = p1 THEN ProjectionOf(1, {0, 1}, FALSE) ELSE ProjectionOf(2, {0}, FALSE)]

\* A switch-off of every memory, a conversation, a switch-on of the automatic memory, a
\* request to remember, then the deletion of the conversation.
ConversationEvents ==
    {Setting(1, [n \in SettingNames |-> FALSE]),
     Event("conversation.completed", 2, session, {session}),
     Setting(3, [n \in {Automatic} |-> TRUE]),
     Event("user.memory_requested", 4, message, {session, message}),
     Event("conversation.deleted", 5, session, {session, message})}

\* A corrupt projection, an observation that waits for it, and the deletion of the
\* knowledge base.
ProgressEvents ==
    {Batch(2, p2, 0), Observed(3, p2),
     Event("knowledge_base.deleted", 4, KnowledgeBase, {KnowledgeBase})}

ProgressProjection == [SourceProjection EXCEPT ![p2].corrupt = TRUE]

WorkerSymmetry == Permutations(Workers)
=============================================================================

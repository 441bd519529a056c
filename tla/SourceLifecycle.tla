---------------------------- MODULE SourceLifecycle ----------------------------
(***************************************************************************)
(* Mneme's producers composed with the Memoria inbox: the document of      *)
(* DocumentIndexing, and one conversation that is asked, remembered and    *)
(* deleted. It adds to MemoryInbox where events come from and how they are *)
(* stamped: an event's order is its (occurred_at, event_id), and an event  *)
(* id starts with a prefix for its kind.                                   *)
(***************************************************************************)
EXTENDS MemoryInbox, DocumentIndexing

CONSTANTS
    Document1, Session, Message,   \* the sources
    KB,                            \* the knowledge base both belong to
    MaxTalk                        \* bound on the clock while the conversation is used

ASSUME LifecycleAssumption ==
    /\ {Document1, Session, Message} \subseteq Sources /\ KB \in Scopes
    /\ Document1 \notin {Session, Message}
    /\ MaxTalk \in 0 .. MaxTime

VARIABLES
    chat,       \* the Mneme session: its messages' times, or deleted
    said        \* the session's events in the outbox

producerVars == <<indexVars, chat, said>>
lifecycleVars == <<vars, producerVars>>

-----------------------------------------------------------------------------
\* Event ids compare by their prefixes: conversation-completed, conversation-deleted,
\* document-deleted, document-memory, memory-requested, projection.
PrefixRank(type) ==
    CASE type = "conversation.completed"       -> 1
      [] type = "conversation.deleted"         -> 2
      [] type = "document.deleted"             -> 3
      [] type = "document.memory.observed"     -> 4
      [] type = "user.memory_requested"        -> 5
      [] OTHER                                 -> 6

\* (occurred_at, event_id) as one number.
OrderOf(type, occurredAt) == 7 * occurredAt + PrefixRank(type)

EventAt(type, occurredAt, origin, sources) ==
    [type |-> type, order |-> OrderOf(type, occurredAt), scope |-> KB,
     origin |-> origin, sources |-> sources, projection |-> occurredAt, batch |-> 0,
     changes |-> [n \in {} |-> TRUE], valid |-> TRUE]

\* enqueue_document_agent_projection and enqueue_document_memory_observed stamp with
\* the document's updated_at, as enqueue_document_deleted does.
ProjectionEvent(t) == EventAt("document.projection.upserted", t, Document1, {Document1})
ObservedEvent(t) == EventAt("document.memory.observed", t, Document1, {Document1})
DocumentDeletedEvent(t) == EventAt("document.deleted", t, Document1, {Document1})

\* conversation.completed bears the answer's time, user.memory_requested the message's,
\* conversation.deleted the time of the request.
CompletedEvent(t) == EventAt("conversation.completed", t, Session, {Session})
RequestedEvent(t) == EventAt("user.memory_requested", t, Message, {Session, Message})
SessionDeletedEvent(t) == EventAt("conversation.deleted", t, Session, {Session, Message})

\* The times the document may bear, and those of the conversation.
DocumentTimes == IF IndexTasks = {} /\ MaxDeletions = 0 THEN {} ELSE Times
TalkTimes == 1 .. MaxTalk

AllEvents ==
    (UNION {{ProjectionEvent(t), ObservedEvent(t), DocumentDeletedEvent(t)} :
                t \in DocumentTimes})
        \cup (UNION {{CompletedEvent(t), RequestedEvent(t), SessionDeletedEvent(t)} :
                       t \in TalkTimes})

\* The inbox gets these and no others.
ASSUME EmittedAssumption == Events = AllEvents

VersionProjection ==
    [t \in Times |-> [scope |-> KB, document |-> Document1, version |-> t,
                      batches |-> {0}, corrupt |-> FALSE]]

\* The events in the outbox: each version of the document with its projection and
\* observations, its deletions, and the conversation's.
emitted ==
    (UNION {{ProjectionEvent(t), ObservedEvent(t)} : t \in versions})
        \cup {DocumentDeletedEvent(d.at) : d \in deletions} \cup said

LifecycleInit ==
    /\ Init
    /\ IndexInit
    /\ chat = [status |-> "open", asked |-> 0]
    /\ said = {}

ChangeDocument == IndexNext /\ UNCHANGED <<vars, chat, said>>

\* A turn of the conversation, and the user's wish to remember the question.
CompleteConversation ==
    /\ chat.status = "open"
    /\ now < MaxTalk /\ Tick
    /\ chat' = [chat EXCEPT !.asked = now']
    /\ said' = said \cup {CompletedEvent(now')}
    /\ UNCHANGED <<vars, rowVars>>

RememberMessage ==
    /\ chat.status = "open"
    /\ chat.asked > 0
    /\ said' = said \cup {RequestedEvent(chat.asked)}
    /\ UNCHANGED <<vars, indexVars, chat>>

\* Mutant: the deletion is stamped like the conversation's last message.
DeleteConversationAsOfMessage ==
    /\ chat.status = "open" /\ chat.asked > 0
    /\ said' = said \cup {SessionDeletedEvent(chat.asked)}
    /\ chat' = [chat EXCEPT !.status = "deleted"]
    /\ UNCHANGED <<vars, indexVars>>

\* delete_chat_session stamps with the current time.
DeleteConversation ==
    /\ chat.status = "open"
    /\ now < MaxTalk /\ Tick
    /\ said' = said \cup {SessionDeletedEvent(now')}
    /\ chat' = [chat EXCEPT !.status = "deleted"]
    /\ UNCHANGED <<vars, rowVars>>

\* The outbox delivers what was emitted, in any order. (MemoryInbox's runs cover tasks
\* that are lost or repeated; here an event has one task until it is finished.)
Deliver ==
    /\ \E e \in emitted : Receive(e) /\ e \in tasks'
    /\ UNCHANGED producerVars

Work ==
    /\ \/ \E e \in emitted : Redispatch(e) /\ \A w \in Workers : ~HoldsEvent(w, e)
       \/ \E e \in emitted, w \in Workers : Take(w, e)
       \/ \E w \in Workers : EnterScope(w) \/ Handle(w) \/ Fail(w) \/ Crash(w)
    /\ UNCHANGED producerVars

LifecycleNext ==
    \/ ChangeDocument
    \/ CompleteConversation \/ RememberMessage \/ DeleteConversation
    \/ Deliver \/ Work

LifecycleSpec == LifecycleInit /\ [][LifecycleNext]_lifecycleVars

-----------------------------------------------------------------------------
\* Once Memoria has reported the deletion of a conversation done, it holds nothing of
\* that conversation or its messages, whatever is delivered late or again.
DeletedConversationStaysDeleted ==
    (\E e \in Events : e.type = "conversation.deleted" /\ inbox[e] = "succeeded") =>
        \A x \in evidence : x[1].origin \notin {Session, Message}

\* Memoria holds neither chunks nor memories of a version of the document.
Vanished(t) ==
    /\ \A x \in evidence : x[1] # ObservedEvent(t)
    /\ \A p \in Projections : ProjectionEvent(t) \notin staged[p]

\* The same for a document: once its deletion is reported done, no version that was
\* published when the deletion was asked for comes back.
DeletedDocumentStaysDeleted ==
    \A d \in deletions : inbox[DocumentDeletedEvent(d.at)] = "succeeded" =>
        \A t \in d.known : Vanished(t)

\* At least the versions stay deleted that were published before the last change of the row
\* that the deletion has seen began, whatever tasks and requests overlap with one another and
\* with the deletion.
SupersededVersionsStayDeleted ==
    \A d \in deletions : inbox[DocumentDeletedEvent(d.at)] = "succeeded" =>
        \A t \in d.past : Vanished(t)
=============================================================================

----------------------------- MODULE RunSources -----------------------------
(***************************************************************************)
(* What starts agent runs while no user waits for them: messages of an      *)
(* external channel (channels/inbound.py, channels/tasks.py, the binding of *)
(* external accounts through link codes) and heartbeat jobs                 *)
(* (memoria/tasks/heartbeats.py, memoria/automation).  Both end in          *)
(* submit_agent_run, whose row is unique per user, session and request.     *)
(*                                                                          *)
(* A thread is a Celery task or an API request.  It reads a row without a   *)
(* lock, and later commits what it computed from it, in the transactions of *)
(* the code: the row read may have changed in between.  A task whose worker *)
(* is lost is delivered again (task_acks_late); one that raises is not.     *)
(* The clock is abstract: a job may fall due, a code expire and a dispatch  *)
(* look stale at any moment.                                                *)
(***************************************************************************)
EXTENDS Naturals, FiniteSets

CONSTANTS
    Threads,
    Messages,      \* deliveries of a channel, each with its message id
    Senders,       \* external accounts, all of them in one conversation of the channel
    SenderOf,      \* SenderOf[m]: who sent m
    CodeIn,        \* CodeIn[m]: the link code a binding command carries, None for a question
    Codes,         \* link codes
    CodeUser,      \* CodeUser[k]: the user who generated it
    Users,
    Jobs,          \* heartbeat jobs
    JobUser,
    WebSession,    \* WebSession[u]: a chat session the user made in the web application
    MaxSteps,      \* bound: threads started, and events from outside, together
    None

\* Chat sessions made for a channel are numbered.
Sessions == ({"chat"} \X Nat) \cup {WebSession[u] : u \in Users}
Conversations == [user : Users, session : Sessions]
JobSessions == {"heartbeat"} \X Nat

ASSUME RunSourcesAssumption ==
    /\ SenderOf \in [Messages -> Senders]
    /\ CodeIn \in [Messages -> Codes \cup {None}]
    /\ CodeUser \in [Codes -> Users]
    /\ {"pending", "expired"} \cap Senders = {}
    /\ None \notin Users \cup Codes \cup Conversations \cup JobSessions \cup {"dispatching"}
    /\ MaxSteps \in Nat

VARIABLES
    inbound,       \* channel_inbound_messages
    published,     \* process_channel_inbound_task messages in the broker
    code,          \* channel_link_codes: "pending", the sender that used it, or "expired"
    identity,      \* channel_identities: the user of a sender
    conversation,  \* channel_conversations: its user and its chat session
    job,           \* heartbeat_jobs
    runs,          \* agent_runs
    thread,        \* what each thread does
    steps,         \* threads and outside events so far
    remapped,      \* history: the conversation was given another session
    sessionless    \* history: dispatches that read the job before it had a session

channelVars   == <<inbound, published, code, identity, conversation, remapped>>
heartbeatVars == <<job, sessionless>>
vars == <<channelVars, heartbeatVars, runs, thread, steps>>

NewInbound == [status |-> "received", run |-> None]

Init ==
    /\ inbound = [m \in Messages |-> None]
    /\ published = [m \in Messages |-> 0]
    /\ code = [k \in Codes |-> "pending"]
    /\ identity = [s \in Senders |-> None]
    /\ conversation = None
    /\ job = [j \in Jobs |-> [enabled |-> TRUE, due |-> FALSE, occurrence |-> 0,
                              status |-> None, session |-> None]]
    /\ runs = {}
    /\ thread = [t \in Threads |-> None]
    /\ steps = 0
    /\ remapped = FALSE
    /\ sessionless = [j \in Jobs |-> 0]

-----------------------------------------------------------------------------
(* Runs.                                                                   *)

\* create_or_get_durable_run: the row of this user, session and request, or a new one.
SameRequest(r, q) == r.user = q.user /\ r.session = q.session /\ r.request = q.request

Submitted(q) == IF \E r \in runs : SameRequest(r, q)
                THEN CHOOSE r \in runs : SameRequest(r, q) ELSE q

\* Ids are new: a number per thread started.
Fresh == steps + 1

Step == steps < MaxSteps /\ steps' = steps + 1

Start(t, work) ==
    /\ thread[t] = None
    /\ Step
    /\ thread' = [thread EXCEPT ![t] = work]

Goto(t, work) == thread' = [thread EXCEPT ![t] = work] /\ UNCHANGED steps
End(t) == Goto(t, None)

In(t, at) == thread[t] # None /\ thread[t].at = at

-----------------------------------------------------------------------------
(* Channel messages.                                                       *)

\* accept_inbound_message: the webhook, also when the channel repeats it.  The row is
\* committed before the task is published.
Accept(m) ==
    /\ Step
    /\ inbound[m] \in {None, NewInbound}
    /\ inbound' = [inbound EXCEPT ![m] = NewInbound]
    /\ published' = [published EXCEPT ![m] = @ + 1]
    /\ UNCHANGED <<code, identity, conversation, remapped, heartbeatVars, runs, thread>>

\* process_inbound_message reads the row without a lock.
ProcessRead(t, m) ==
    /\ published[m] > 0
    /\ published' = [published EXCEPT ![m] = @ - 1]
    /\ Start(t, IF inbound[m].status = "received"
                THEN [at |-> "decide", message |-> m, id |-> Fresh] ELSE None)
    /\ UNCHANGED <<inbound, code, identity, conversation, remapped, heartbeatVars,
                   runs>>

Reject(t, m) ==
    /\ inbound' = [inbound EXCEPT ![m] = [status |-> "rejected", run |-> None]]
    /\ End(t)
    /\ UNCHANGED <<code, identity, conversation>>

\* Mutant: a code that was used is accepted again.
UsableAgain(k) == code[k] # "expired"

\* consume_channel_link_code, under FOR UPDATE.
Usable(k) == code[k] = "pending"

\* _ensure_channel_conversation, under the advisory lock of its scope; a new chat session is
\* numbered like the thread that makes it.
Ensured(t, user) ==
    IF conversation # None THEN conversation
    ELSE [user |-> user, session |-> <<"chat", thread[t].id>>]

\* _bind_external_identity.
Bind(t) ==
    /\ In(t, "decide") /\ CodeIn[thread[t].message] # None
    /\ LET m == thread[t].message
           k == CodeIn[m]
           s == SenderOf[m]
       IN  \/ /\ ~Usable(k)
              /\ Reject(t, m)
           \/ /\ Usable(k) /\ identity[s] \notin {None, CodeUser[k]}
              /\ code' = [code EXCEPT ![k] = s]
              /\ inbound' = [inbound EXCEPT ![m] = [status |-> "rejected", run |-> None]]
              /\ End(t)
              /\ UNCHANGED <<identity, conversation>>
           \/ /\ Usable(k) /\ identity[s] \in {None, CodeUser[k]}
              /\ code' = [code EXCEPT ![k] = s]
              /\ identity' = [identity EXCEPT ![s] = CodeUser[k]]
              /\ conversation' = Ensured(t, CodeUser[k])
              /\ inbound' = [inbound EXCEPT ![m] = [status |-> "bound", run |-> None]]
              /\ End(t)
    /\ UNCHANGED <<published, remapped, heartbeatVars, runs>>

\* Mutant: the conversation may be another user's.
AnyOwner(user, c) == TRUE
OwnConversation(user, c) == c.user = user

\* A question: the message is bound to a new run id, committed before the run is submitted.
Question(t) ==
    /\ In(t, "decide") /\ CodeIn[thread[t].message] = None
    /\ LET m == thread[t].message
           user == identity[SenderOf[m]]
           c == Ensured(t, user)
       IN  \/ user = None /\ Reject(t, m)
           \/ /\ user # None /\ ~OwnConversation(user, c)
              /\ Reject(t, m)
           \/ /\ user # None /\ OwnConversation(user, c)   \* an attachment it cannot read
              /\ conversation' = c
              /\ inbound' = [inbound EXCEPT ![m] = [status |-> "rejected", run |-> None]]
              /\ End(t)
              /\ UNCHANGED <<code, identity>>
           \/ /\ user # None /\ OwnConversation(user, c)
              /\ conversation' = c
              /\ inbound' = [inbound EXCEPT ![m] =
                                [status |-> "submitted", run |-> thread[t].id]]
              /\ Goto(t, [at |-> "submit", message |-> m, id |-> thread[t].id,
                          user |-> user, session |-> c.session])
              /\ UNCHANGED <<code, identity>>
    /\ UNCHANGED <<published, remapped, heartbeatVars, runs>>

\* submit_agent_run with the session the conversation had then; the request is the message.
SubmitQuestion(t) ==
    /\ In(t, "submit")
    /\ runs' = runs \cup {Submitted([id |-> thread[t].id, user |-> thread[t].user,
                                     session |-> thread[t].session,
                                     request |-> <<"channel", thread[t].message>>])}
    /\ End(t)
    /\ UNCHANGED <<channelVars, heartbeatVars>>

CodeExpires(k) ==
    /\ Step
    /\ code[k] = "pending"
    /\ code' = [code EXCEPT ![k] = "expired"]
    /\ UNCHANGED <<inbound, published, identity, conversation, remapped,
                   heartbeatVars, runs, thread>>

\* configure_channel_conversation: its user gives it another of his chat sessions.
Configure ==
    /\ Step
    /\ conversation # None
    /\ conversation.session # WebSession[conversation.user]
    /\ conversation' = [conversation EXCEPT !.session = WebSession[conversation.user]]
    /\ remapped' = TRUE
    /\ UNCHANGED <<inbound, published, code, identity, heartbeatVars, runs, thread>>

-----------------------------------------------------------------------------
(* Heartbeat jobs.                                                         *)

FallDue(j) ==
    /\ Step
    /\ ~job[j].due
    /\ job' = [job EXCEPT ![j].due = TRUE]
    /\ UNCHANGED <<channelVars, sessionless, runs, thread>>

\* dispatch_due_heartbeat_jobs: the due jobs are claimed; of those still marked dispatching
\* the ones whose claim looks old are taken up again.
Claim(t, stuck) ==
    LET due == {j \in Jobs : job[j].enabled /\ job[j].due}
    IN  /\ stuck \subseteq {j \in Jobs : job[j].enabled /\ job[j].status = "dispatching"}
        /\ due \cup stuck # {}
        /\ job' = [j \in Jobs |-> IF j \in due
                                  THEN [job[j] EXCEPT !.due = FALSE, !.status = "dispatching",
                                                      !.occurrence = @ + 1]
                                  ELSE job[j]]
        /\ Start(t, [at |-> "dispatch", jobs |-> due \cup stuck, id |-> Fresh])
        /\ UNCHANGED <<channelVars, sessionless, runs>>

\* dispatch_heartbeat_job reads the job in a transaction of its own; the occurrence is the
\* claim the row now shows.
Dispatching(t, j, request) ==
    [at |-> "dispatched", jobs |-> IF thread[t] = None THEN {} ELSE thread[t].jobs \ {j},
     id |-> IF thread[t] = None THEN Fresh ELSE thread[t].id,
     job |-> j, enabled |-> job[j].enabled, session |-> job[j].session, request |-> request]

CountSessionless(j) ==
    sessionless' = [sessionless EXCEPT ![j] = IF job[j].session = None THEN @ + 1 ELSE @]

\* Mutant: every dispatch is an occurrence of its own.
OccurrenceByThread(t, j) == <<"scheduled", j, thread[t].id>>
Occurrence(t, j) == <<"scheduled", j, job[j].occurrence>>

DispatchRead(t, j) ==
    /\ In(t, "dispatch") /\ j \in thread[t].jobs
    /\ Goto(t, Dispatching(t, j, Occurrence(t, j)))
    /\ CountSessionless(j)
    /\ UNCHANGED <<channelVars, job, runs>>

\* run_heartbeat_now: a request of its own each time.
RunNow(t, j) ==
    /\ Start(t, Dispatching(t, j, <<"manual", j, Fresh>>))
    /\ CountSessionless(j)
    /\ UNCHANGED <<channelVars, job, runs>>

Continue(t, jobs) == IF jobs = {} THEN None
                     ELSE [at |-> "dispatch", jobs |-> jobs, id |-> thread[t].id]

\* Disabled when it was read, or outside its hours: only the status is written.
DispatchSkip(t) ==
    /\ In(t, "dispatched")
    /\ ~thread[t].enabled \/ thread[t].request[1] = "scheduled"
    /\ job' = [job EXCEPT ![thread[t].job].status = "skipped"]
    /\ Goto(t, Continue(t, thread[t].jobs))
    /\ UNCHANGED <<channelVars, sessionless, runs>>

\* ensure_heartbeat_session and the run's row, in one transaction: a job read without a
\* session gets a new one whatever it has by now.
DispatchSubmit(t) ==
    /\ In(t, "dispatched") /\ thread[t].enabled
    /\ LET j == thread[t].job
           session == IF thread[t].session = None THEN <<"heartbeat", thread[t].id>>
                      ELSE thread[t].session
           run == Submitted([id |-> thread[t].id, user |-> JobUser[j], session |-> session,
                             request |-> thread[t].request])
       IN  /\ job' = [job EXCEPT ![j].session = IF thread[t].session = None
                                                THEN session ELSE @]
           /\ runs' = runs \cup {run}
           /\ Goto(t, [at |-> "mark", jobs |-> thread[t].jobs, id |-> thread[t].id, job |-> j])
    /\ UNCHANGED <<channelVars, sessionless>>

\* last_status, after submit_agent_run committed. (A manual run that loaded the status as queued
\* writes nothing, and finish_heartbeat_run writes it once more when the run ends: both are left
\* out, since a status other than dispatching only keeps the job from being claimed as stuck.)
DispatchMark(t) ==
    /\ In(t, "mark")
    /\ job' = [job EXCEPT ![thread[t].job].status = "queued"]
    /\ Goto(t, Continue(t, thread[t].jobs))
    /\ UNCHANGED <<channelVars, sessionless, runs>>

\* update_heartbeat: the user turns the job on or off.
Toggle(j) ==
    /\ Step
    /\ job' = [job EXCEPT ![j].enabled = ~@]
    /\ UNCHANGED <<channelVars, sessionless, runs, thread>>

-----------------------------------------------------------------------------

\* A worker is lost and its message delivered again, or the task raises and is acknowledged;
\* a scheduled dispatch is not repeated, the next beat looks for what is stuck.
Abandon(t, again) ==
    /\ thread[t] # None
    /\ Step
    /\ published' = IF again /\ thread[t].at \in {"decide", "submit"}
                    THEN [published EXCEPT ![thread[t].message] = @ + 1] ELSE published
    /\ thread' = [thread EXCEPT ![t] = None]
    /\ UNCHANGED <<inbound, code, identity, conversation, remapped, heartbeatVars, runs>>

Working(t) ==
    \/ \E m \in Messages : ProcessRead(t, m)
    \/ Bind(t)
    \/ Question(t)
    \/ SubmitQuestion(t)
    \/ \E stuck \in SUBSET Jobs : Claim(t, stuck)
    \/ \E j \in Jobs : DispatchRead(t, j)
    \/ DispatchSkip(t)
    \/ DispatchSubmit(t)
    \/ DispatchMark(t)

Next ==
    \/ \E t \in Threads : Working(t)
    \/ \E t \in Threads, again \in BOOLEAN : Abandon(t, again)
    \/ \E t \in Threads, j \in Jobs : RunNow(t, j)
    \/ \E m \in Messages : Accept(m)
    \/ \E k \in Codes : CodeExpires(k)
    \/ Configure
    \/ \E j \in Jobs : FallDue(j) \/ Toggle(j)

Spec == Init /\ [][Next]_vars

-----------------------------------------------------------------------------
(* Properties.                                                             *)

\* The shapes of the rows; and agent_runs has one row per user, session and request (its
\* unique constraint).
TypeOK ==
    /\ \A m \in Messages : inbound[m] # None =>
          inbound[m].status \in {"received", "rejected", "bound", "submitted"}
    /\ code \in [Codes -> {"pending", "expired"} \cup Senders]
    /\ identity \in [Senders -> Users \cup {None}]
    /\ conversation \in Conversations \cup {None}
    /\ \A j \in Jobs : /\ job[j].status \in {None, "dispatching", "queued", "skipped"}
                       /\ job[j].occurrence \in 0..MaxSteps
    /\ \A r, q \in runs :
          (r.user = q.user /\ r.session = q.session /\ r.request = q.request) => r = q

\* An external account speaks for a user only if that user handed it a code of his own, and a
\* code proves one account (consume_channel_link_code): whatever messages race.
IdentityProven ==
    \A s \in Senders : identity[s] # None =>
        \E k \in Codes : code[k] = s /\ CodeUser[k] = identity[s]

\* A channel question runs for the user its sender is bound to, in a session that is this
\* user's: one sender's question never lands in the chat of another in the same group.
QuestionsStayWithTheirUser ==
    \A r \in runs : r.request[1] = "channel" =>
        /\ r.user = identity[SenderOf[r.request[2]]]
        /\ conversation.user = r.user

\* One message starts one run and one claim of a job starts one run, however often the
\* webhook, the broker or a scheduler repeats it; the only exceptions need the session to
\* change under two threads at once: the conversation was remapped between them, or both
\* read a job that had no session yet.
RepeatsNeedASessionChange ==
    /\ \A r, q \in runs : (r # q /\ r.request = q.request /\ r.request[1] = "channel") => remapped
    /\ \A j \in Jobs :
          Cardinality({r \in runs : r.request[1] = "scheduled" /\ r.request[2] = j})
              > job[j].occurrence => sessionless[j] > 1

\* Does not hold, and no run checks it: a message that counts as submitted names the run that
\* answers it, once no task works on it (roadmap: the channel reliably gets the result, a
\* restarted worker recovers).  The message is bound to a run id before the run is submitted.
SubmittedNamesItsRun ==
    \A m \in Messages :
        (/\ inbound[m] # None /\ inbound[m].status = "submitted"
         /\ published[m] = 0
         /\ \A t \in Threads : thread[t] = None \/ thread[t].at \notin {"decide", "submit"}
                                \/ thread[t].message # m)
            => \E r \in runs : r.id = inbound[m].run

\* Does not hold, and no run checks it: a repeated delivery of the same occurrence or message
\* starts no second run (automation service: queue and outbox delivery may be retried without
\* duplicating effects).  The session belongs to the key, see RepeatsNeedASessionChange.
OneRunPerRequest == \A r, q \in runs : r.request = q.request => r = q
=============================================================================

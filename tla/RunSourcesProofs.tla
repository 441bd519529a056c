--------------------------- MODULE RunSourcesProofs ---------------------------
(***************************************************************************)
(* Proofs about RunSources for any messages, senders, codes, users, jobs    *)
(* and threads: an account speaks only for who gave it a code, its          *)
(* questions run for that user, in that user's conversation, and an         *)
(* occurrence of a job is submitted once unless its session changes.        *)
(***************************************************************************)
EXTENDS RunSources, TLAPS, FiniteSetTheorems

Types ==
    /\ code \in [Codes -> {"pending", "expired"} \cup Senders]
    /\ identity \in [Senders -> Users \cup {None}]
    /\ conversation \in Conversations \cup {None}
    /\ published \in [Messages -> Nat]
    /\ steps \in Nat

\* What a thread remembers of the message it works on is still so: a sender's user and the
\* conversation's user never change once they are set.
Remembered ==
    \A t \in Threads :
        /\ In(t, "decide") => thread[t].message \in Messages /\ thread[t].id \in Nat
        /\ In(t, "submit") =>
              /\ thread[t].message \in Messages
              /\ thread[t].user \in Users
              /\ thread[t].user = identity[SenderOf[thread[t].message]]
              /\ conversation # None /\ conversation.user = thread[t].user
        /\ In(t, "dispatched") => thread[t].request[1] \in {"scheduled", "manual"}

\* Every run asked through a channel belongs to the user its sender is bound to.
Owned ==
    \A r \in runs : r.request[1] = "channel" =>
        /\ r.request[2] \in Messages
        /\ r.user \in Users
        /\ r.user = identity[SenderOf[r.request[2]]]
        /\ conversation # None /\ conversation.user = r.user

IInv == Types /\ IdentityProven /\ Remembered /\ Owned

LEMMA InvInit == Init => IInv
  BY RunSourcesAssumption, SMT
  DEF Init, IInv, Types, IdentityProven, Remembered, Owned, In

\* A row that is found again, or the new one.
LEMMA SubmittedIsARun == ASSUME NEW q PROVE Submitted(q) \in runs \cup {q}
  BY DEF Submitted

\* A user bound to a sender, and the conversation's user, stay.
Stable ==
    /\ \A s \in Senders : identity[s] # None => identity'[s] = identity[s]
    /\ conversation # None => conversation' # None /\ conversation'.user = conversation.user

LEMMA StableStep == Types /\ Remembered /\ [Next]_vars => Stable
<1> SUFFICES ASSUME Types, Remembered, [Next]_vars PROVE Stable
  OBVIOUS
<1> USE RunSourcesAssumption DEF Types, Stable
<1>1. ASSUME NEW t \in Threads, Bind(t) PROVE Stable
  <2>1. thread[t].message \in Messages
    BY <1>1 DEF Bind, Remembered
  <2>2. SenderOf[thread[t].message] \in Senders
    BY <2>1
  <2> QED BY <1>1, <2>1, <2>2, SMT DEF Bind, Reject, Ensured
<1>2. ASSUME NEW t \in Threads, Question(t) PROVE Stable
  BY <1>2, SMT DEF Question, Reject, Ensured
<1>3. ASSUME Configure PROVE Stable
  <2>1. conversation \in Conversations /\ WebSession[conversation.user] \in Sessions
    BY <1>3 DEF Configure, Conversations, Sessions
  <2>2. conversation' \in Conversations /\ conversation'.user = conversation.user
    BY <1>3, <2>1 DEF Configure, Conversations
  <2> QED BY <1>3, <2>2 DEF Configure
<1>4. ASSUME UNCHANGED <<identity, conversation>> PROVE Stable
  BY <1>4
<1>5. ASSUME NEW t \in Threads, Working(t) PROVE Stable
  BY <1>1, <1>2, <1>4, <1>5
  DEF Working, ProcessRead, SubmitQuestion, Claim, DispatchRead, DispatchSkip, DispatchSubmit,
      DispatchMark, channelVars
<1> QED BY <1>3, <1>4, <1>5
  DEF Next, Abandon, RunNow, Accept, CodeExpires, FallDue, Toggle, vars, channelVars

LEMMA InvStep == IInv /\ [Next]_vars => IInv'
<1> SUFFICES ASSUME IInv, [Next]_vars PROVE IInv'
  OBVIOUS
<1> USE RunSourcesAssumption DEF IInv
<1>s. Stable
  BY StableStep
\* Steps that leave the channel's tables, the runs and the other threads alone.
<1>q. ASSUME UNCHANGED <<code, identity, conversation, runs>>,
             published' \in [Messages -> Nat], steps' \in Nat, Remembered'
      PROVE  IInv'
  BY <1>q DEF Types, IdentityProven, Owned
<1>1. ASSUME NEW t \in Threads, NEW m \in Messages, ProcessRead(t, m) PROVE IInv'
  <2>1. Remembered'
    BY <1>1, SMT DEF ProcessRead, Start, Step, Fresh, Remembered, In, Types
  <2>2. published' \in [Messages -> Nat] /\ steps' \in Nat
    BY <1>1, SMT DEF ProcessRead, Start, Step, Types
  <2> QED BY <1>1, <1>q, <2>1, <2>2 DEF ProcessRead
<1>2. ASSUME NEW t \in Threads, Bind(t) PROVE IInv'
  <2> DEFINE m == thread[t].message
             k == CodeIn[m]
             s == SenderOf[m]
  <2>1. m \in Messages /\ k \in Codes /\ s \in Senders /\ thread[t].id \in Nat
    BY <1>2 DEF Bind, Remembered
  <2>2. thread' = [thread EXCEPT ![t] = None] /\ UNCHANGED <<published, runs, steps>>
    BY <1>2 DEF Bind, Reject, End, Goto
  <2>3. Remembered'
    BY <2>2, <1>s, SMT DEF Remembered, In, Stable, Types
  <2>4. Owned'
    BY <2>2, <1>s DEF Owned, Stable
  <2>5. Types'
    <3>1. Ensured(t, CodeUser[k]) \in Conversations
      BY <2>1 DEF Ensured, Conversations, Sessions, Types
    <3> QED BY <1>2, <2>1, <2>2, <3>1 DEF Bind, Reject, Types
  <2>6. IdentityProven'
    <3>1. CASE code' = code /\ identity' = identity
      BY <3>1 DEF IdentityProven
    <3>2. CASE ~(code' = code /\ identity' = identity)
      <4>1. Usable(k) /\ code' = [code EXCEPT ![k] = s]
        BY <1>2, <3>2 DEF Bind, Reject
      <4>2. \/ identity' = identity
            \/ identity' = [identity EXCEPT ![s] = CodeUser[k]]
        BY <1>2, <3>2 DEF Bind, Reject
      <4> QED BY <2>1, <4>1, <4>2 DEF IdentityProven, Usable, Types
    <3> QED BY <3>1, <3>2
  <2> QED BY <2>3, <2>4, <2>5, <2>6
<1>3. ASSUME NEW t \in Threads, Question(t) PROVE IInv'
  <2> DEFINE m == thread[t].message
             user == identity[SenderOf[m]]
             c == Ensured(t, user)
  <2>1. m \in Messages /\ SenderOf[m] \in Senders /\ thread[t].id \in Nat
    BY <1>3 DEF Question, Remembered
  <2>2. UNCHANGED <<published, runs, steps, code, identity>>
    BY <1>3 DEF Question, Reject, End, Goto
  <2>3. \/ thread' = [thread EXCEPT ![t] = None] /\ conversation' = conversation
        \/ thread' = [thread EXCEPT ![t] = None] /\ user # None /\ conversation' = c
        \/ /\ user # None /\ c.user = user /\ conversation' = c
           /\ thread' = [thread EXCEPT ![t] = [at |-> "submit", message |-> m,
                             id |-> thread[t].id, user |-> user, session |-> c.session]]
    BY <1>3 DEF Question, Reject, End, Goto, OwnConversation
  <2>4. user # None => user \in Users /\ c \in Conversations
    BY <2>1 DEF Types, Ensured, Conversations, Sessions
  <2>5. Types'
    BY <2>2, <2>3, <2>4 DEF Types
  <2>6. Remembered'
    <3>1. CASE thread' = [thread EXCEPT ![t] = None]
      BY <2>2, <3>1, <1>s, SMT DEF Remembered, In, Stable, Types
    <3>2. CASE ~(thread' = [thread EXCEPT ![t] = None])
      <4>1. user \in Users /\ conversation' = c /\ c # None /\ c.user = user
        BY <2>3, <2>4, <3>2
      <4>2. thread' = [thread EXCEPT ![t] = [at |-> "submit", message |-> m,
                             id |-> thread[t].id, user |-> user, session |-> c.session]]
        BY <2>3, <3>2
      <4> QED BY <2>1, <2>2, <4>1, <4>2, <1>s, SMT DEF Remembered, In, Stable, Types
    <3> QED BY <3>1, <3>2
  <2>7. Owned'
    BY <2>2, <1>s DEF Owned, Stable
  <2>8. IdentityProven'
    BY <2>2 DEF IdentityProven
  <2> QED BY <2>5, <2>6, <2>7, <2>8
<1>4. ASSUME NEW t \in Threads, SubmitQuestion(t) PROVE IInv'
  <2> DEFINE q == [id |-> thread[t].id, user |-> thread[t].user, session |-> thread[t].session,
                   request |-> <<"channel", thread[t].message>>]
  <2>1. runs' \subseteq runs \cup {q}
    BY <1>4, SubmittedIsARun DEF SubmitQuestion
  <2>2. thread' = [thread EXCEPT ![t] = None] /\ UNCHANGED <<channelVars, steps>>
    BY <1>4 DEF SubmitQuestion, End, Goto
  <2>3. Owned'
    BY <1>4, <2>1, <2>2, SMT DEF SubmitQuestion, Owned, Remembered, channelVars
  <2>4. Remembered'
    BY <2>2, SMT DEF Remembered, In, channelVars
  <2> QED BY <2>2, <2>3, <2>4 DEF Types, IdentityProven, channelVars
<1>5. ASSUME NEW t \in Threads, NEW stuck \in SUBSET Jobs, Claim(t, stuck) PROVE IInv'
  <2>1. Remembered'
    <3> DEFINE work == [at |-> "dispatch", id |-> Fresh,
                        jobs |-> {j \in Jobs : job[j].enabled /\ job[j].due} \cup stuck]
    <3>1. thread' = [thread EXCEPT ![t] = work]
      BY <1>5, Zenon DEF Claim, Start
    <3>2. UNCHANGED channelVars
      BY <1>5 DEF Claim
    <3> QED BY <3>1, <3>2, SMT DEF Remembered, In, channelVars
  <2>2. UNCHANGED <<channelVars, runs>> /\ steps' = steps + 1
    BY <1>5, Zenon DEF Claim, Start, Step
  <2> QED BY <1>q, <2>1, <2>2, SMT DEF channelVars, Types
<1>6. ASSUME NEW t \in Threads, NEW j \in Jobs, DispatchRead(t, j) PROVE IInv'
  <2>1. Remembered'
    BY <1>6, SMT DEF DispatchRead, Dispatching, Occurrence, Goto, Remembered, In, channelVars
  <2> QED BY <1>6, <1>q, <2>1 DEF DispatchRead, Goto, channelVars, Types
<1>7. ASSUME NEW t \in Threads, DispatchSkip(t) \/ DispatchMark(t) PROVE IInv'
  <2>1. Remembered'
    <3>1. \E work : /\ thread' = [thread EXCEPT ![t] = work]
                    /\ work = None \/ work.at = "dispatch"
      BY <1>7 DEF DispatchSkip, DispatchMark, Continue, Goto
    <3>2. UNCHANGED channelVars
      BY <1>7 DEF DispatchSkip, DispatchMark
    <3> QED BY <3>1, <3>2, SMT DEF Remembered, In, channelVars
  <2> QED BY <1>7, <1>q, <2>1 DEF DispatchSkip, DispatchMark, Goto, channelVars, Types
<1>8. ASSUME NEW t \in Threads, DispatchSubmit(t) PROVE IInv'
  <2>1. PICK q : runs' = runs \cup {Submitted(q)} /\ q.request = thread[t].request
    BY <1>8 DEF DispatchSubmit
  <2>2. runs' \subseteq runs \cup {q} /\ q.request[1] \in {"scheduled", "manual"}
    BY <1>8, <2>1, SubmittedIsARun DEF DispatchSubmit, Remembered
  <2>3. UNCHANGED <<channelVars, steps>>
    BY <1>8 DEF DispatchSubmit, Goto
  <2>4. Remembered'
    BY <1>8, <2>3, SMT DEF DispatchSubmit, Goto, Remembered, In, channelVars
  <2>5. Owned'
    BY <2>2, <2>3, SMT DEF Owned, channelVars
  <2> QED BY <2>3, <2>4, <2>5 DEF Types, IdentityProven, channelVars
<1>9. ASSUME NEW t \in Threads, NEW again \in BOOLEAN, Abandon(t, again) PROVE IInv'
  <2>1. Remembered'
    BY <1>9, SMT DEF Abandon, Step, Remembered, In
  <2>2. published' \in [Messages -> Nat] /\ steps' \in Nat
    BY <1>9, SMT DEF Abandon, Step, Types, Remembered, In
  <2> QED BY <1>9, <1>q, <2>1, <2>2 DEF Abandon, heartbeatVars
<1>10. ASSUME NEW t \in Threads, NEW j \in Jobs, RunNow(t, j) PROVE IInv'
  <2>1. Remembered'
    BY <1>10, SMT DEF RunNow, Dispatching, Start, Step, Remembered, In, channelVars
  <2> QED BY <1>10, <1>q, <2>1, SMT DEF RunNow, Start, Step, channelVars, Types
<1>11. ASSUME NEW m \in Messages, Accept(m) PROVE IInv'
  <2>1. Remembered'
    BY <1>11 DEF Accept, Remembered, In
  <2> QED BY <1>11, <1>q, <2>1, SMT DEF Accept, Step, Types
<1>12. ASSUME NEW k \in Codes, CodeExpires(k) PROVE IInv'
  <2>1. Types'
    BY <1>12, SMT DEF CodeExpires, Step, Types
  <2>2. Remembered' /\ Owned'
    BY <1>12 DEF CodeExpires, Remembered, Owned, In
  <2>3. IdentityProven'
    BY <1>12 DEF CodeExpires, IdentityProven, Types
  <2> QED BY <2>1, <2>2, <2>3
<1>13. ASSUME Configure PROVE IInv'
  <2>1. UNCHANGED <<code, identity, published, runs, thread>> /\ steps' \in Nat
    BY <1>13, SMT DEF Configure, Step, Types
  <2>2. conversation' \in Conversations
    BY <1>13 DEF Configure, Conversations, Sessions, Types
  <2>3. Remembered' /\ Owned'
    BY <2>1, <1>s, SMT DEF Remembered, Owned, In, Stable
  <2> QED BY <2>1, <2>2, <2>3 DEF Types, IdentityProven
<1>14. ASSUME NEW j \in Jobs, FallDue(j) \/ Toggle(j) PROVE IInv'
  <2>1. Remembered'
    BY <1>14 DEF FallDue, Toggle, Remembered, In, channelVars
  <2> QED BY <1>14, <1>q, <2>1, SMT DEF FallDue, Toggle, Step, channelVars, Types
<1>15. CASE UNCHANGED vars
  BY <1>15 DEF vars, channelVars, Types, IdentityProven, Remembered, Owned, In
<1> QED BY <1>1, <1>2, <1>3, <1>4, <1>5, <1>6, <1>7, <1>8, <1>9, <1>10, <1>11, <1>12, <1>13,
           <1>14, <1>15 DEF Next, Working

LEMMA Invariance == Spec => []IInv
<1> QED BY InvInit, InvStep, PTL DEF Spec

\* No account is ever bound to a user without a code of that user which it, and no other
\* account, has used.
THEOREM IdentitiesAreProven == Spec => []IdentityProven
<1> QED BY Invariance, PTL DEF IInv

\* No question of a channel ever runs for, or in the conversation of, another user than the
\* one its sender is bound to.
THEOREM QuestionsStay == Spec => []QuestionsStayWithTheirUser
<1>1. IInv => QuestionsStayWithTheirUser
  BY DEF IInv, Owned, QuestionsStayWithTheirUser
<1> QED BY <1>1, Invariance, PTL

-----------------------------------------------------------------------------
(* The rows and the threads of the heartbeat.                              *)

JobRow == [enabled : BOOLEAN, due : BOOLEAN, occurrence : Nat,
           status : {None, "dispatching", "queued", "skipped"},
           session : JobSessions \cup {None}]

InboundRow == [status : {"received", "rejected", "bound", "submitted"}, run : Nat \cup {None}]

\* A claim is a step, so occurrences are within the steps.
Rows ==
    /\ inbound \in [Messages -> InboundRow \cup {None}]
    /\ job \in [Jobs -> JobRow]
    /\ sessionless \in [Jobs -> Nat]
    /\ thread = [t \in Threads |-> thread[t]]
    /\ steps \in 0 .. MaxSteps
    /\ \A j \in Jobs : job[j].occurrence <= steps

\* A job that is dispatched from the list was claimed once, and a request is that of an
\* occurrence that was claimed, or a manual one.
Claimed(jobs) == \A j \in jobs : j \in Jobs /\ job[j].occurrence > 0
Requested(q, j) ==
    \/ \E n \in 1 .. job[j].occurrence : q = <<"scheduled", j, n>>
    \/ \E n \in Nat : q = <<"manual", j, n>>

DispatchSound(work) ==
    /\ work.at \in {"dispatch", "dispatched", "mark"} => work.id \in Nat /\ Claimed(work.jobs)
    /\ work.at \in {"dispatched", "mark"} => work.job \in Jobs
    /\ work.at = "dispatched" => /\ work.session \in JobSessions \cup {None}
                                 /\ Requested(work.request, work.job)

Dispatches ==
    /\ \A j \in Jobs : job[j].status = "dispatching" => job[j].occurrence > 0
    /\ \A t \in Threads : thread[t] # None => DispatchSound(thread[t])

\* Every run that no channel asked for is one of a job.
JobRuns ==
    \A r \in runs : r.request[1] # "channel" =>
        \E j \in Jobs : r.user = JobUser[j] /\ Requested(r.request, j)

Unique == \A r, q \in runs : SameRequest(r, q) => r = q

\* Steps that neither claim nor dispatch: at most one thread goes on, with a channel's work.
Elsewhere ==
    /\ UNCHANGED job
    /\ \/ thread' = thread
       \/ \E t \in Threads : \E work :
             /\ thread' = [thread EXCEPT ![t] = work]
             /\ work = None \/ work.at \in {"decide", "submit"}

\* What the heartbeat remembers is kept by what others do.
LEMMA DispatchesElsewhere ==
  ASSUME Rows, Dispatches, Elsewhere PROVE Dispatches'
<1>1. ASSUME NEW t \in Threads, NEW work, work = thread'[t], work # None
      PROVE  DispatchSound(work)'
  <2>1. CASE work = thread[t]
    BY <1>1, <2>1 DEF Dispatches, DispatchSound, Claimed, Requested, Elsewhere
  <2>2. CASE work # thread[t]
    <3>1. work.at \in {"decide", "submit"}
      BY <1>1, <2>2 DEF Rows, Elsewhere
    <3> QED BY <3>1 DEF DispatchSound
  <2> QED BY <2>1, <2>2
<1> QED BY <1>1 DEF Dispatches, Elsewhere

\* The steps of the channel, and the loss of a worker, are such.
LEMMA ElsewhereSteps ==
  ASSUME NEW t \in Threads,
         \/ \E m \in Messages : ProcessRead(t, m) \/ Accept(m)
         \/ Bind(t) \/ Question(t) \/ SubmitQuestion(t)
         \/ \E again \in BOOLEAN : Abandon(t, again)
         \/ \E k \in Codes : CodeExpires(k)
         \/ Configure
  PROVE  Elsewhere /\ UNCHANGED heartbeatVars
<1>1. ASSUME NEW m \in Messages, ProcessRead(t, m) PROVE Elsewhere /\ UNCHANGED heartbeatVars
  <2>1. \E work : /\ thread' = [thread EXCEPT ![t] = work]
                  /\ work = None \/ work.at = "decide"
    <3> DEFINE decide == [at |-> "decide", message |-> m, id |-> Fresh]
    <3>1. \/ thread' = [thread EXCEPT ![t] = decide]
          \/ thread' = [thread EXCEPT ![t] = None]
      BY <1>1 DEF ProcessRead, Start
    <3>2. decide.at = "decide"
      OBVIOUS
    <3> QED BY <3>1, <3>2
  <2> QED BY <1>1, <2>1 DEF ProcessRead, Elsewhere, heartbeatVars
<1>2. CASE Bind(t)
  BY <1>2 DEF Bind, Reject, End, Goto, Elsewhere, heartbeatVars
<1>3. CASE Question(t)
  <2>1. UNCHANGED heartbeatVars
    BY <1>3 DEF Question
  <2>2. \/ thread' = [thread EXCEPT ![t] = None]
        \/ \E work : thread' = [thread EXCEPT ![t] = work] /\ work.at = "submit"
    BY <1>3 DEF Question, Reject, End, Goto
  <2> QED BY <2>1, <2>2 DEF Elsewhere, heartbeatVars
<1>4. CASE SubmitQuestion(t)
  BY <1>4 DEF SubmitQuestion, End, Goto, Elsewhere, heartbeatVars
<1>5. ASSUME NEW again \in BOOLEAN, Abandon(t, again)
      PROVE  Elsewhere /\ UNCHANGED heartbeatVars
  BY <1>5 DEF Abandon, Elsewhere, heartbeatVars
<1>6. ASSUME \/ \E m \in Messages : Accept(m)
             \/ \E k \in Codes : CodeExpires(k)
             \/ Configure
      PROVE  Elsewhere /\ UNCHANGED heartbeatVars
  BY <1>6 DEF Accept, CodeExpires, Configure, Elsewhere, heartbeatVars
<1> QED BY <1>1, <1>2, <1>3, <1>4, <1>5, <1>6

\* Occurrences only grow.
Grows == \A j \in Jobs : job'[j].occurrence >= job[j].occurrence

\* What was claimed stays claimed, and a request that was one stays one.
LEMMA ClaimsStay ==
  ASSUME Rows, Rows', Grows
  PROVE  /\ \A jobs : Claimed(jobs) => Claimed(jobs)'
         /\ \A q : \A j \in Jobs : Requested(q, j) => Requested(q, j)'
         /\ \A work : DispatchSound(work) => DispatchSound(work)'
<1>1. \A j \in Jobs : /\ job[j].occurrence \in Nat /\ job'[j].occurrence \in Nat
                      /\ job[j].occurrence <= job'[j].occurrence
  BY DEF Rows, JobRow, Grows
<1>2. ASSUME NEW jobs, Claimed(jobs) PROVE Claimed(jobs)'
  BY <1>1, <1>2 DEF Claimed
<1>3. ASSUME NEW q, NEW j \in Jobs, Requested(q, j) PROVE Requested(q, j)'
  <2>1. 1 .. job[j].occurrence \subseteq 1 .. job'[j].occurrence
    BY <1>1
  <2> QED BY <1>3, <2>1 DEF Requested
<1> QED BY <1>2, <1>3 DEF DispatchSound

\* The rows of messages keep their shape.
LEMMA InboundNext ==
  ASSUME Rows, Remembered, [Next]_vars PROVE inbound' \in [Messages -> InboundRow \cup {None}]
<1>1. ASSUME NEW t \in Threads, Bind(t)
      PROVE  inbound' \in [Messages -> InboundRow \cup {None}]
  <2>1. \E status \in {"rejected", "bound"} :
           inbound' = [inbound EXCEPT ![thread[t].message] = [status |-> status, run |-> None]]
    BY <1>1 DEF Bind, Reject
  <2> PICK status \in {"rejected", "bound"} :
           inbound' = [inbound EXCEPT ![thread[t].message] = [status |-> status, run |-> None]]
    BY <2>1
  <2>2. [status |-> status, run |-> None] \in InboundRow
    BY DEF InboundRow
  <2> QED BY <2>2 DEF Rows
<1>2. ASSUME NEW t \in Threads, Question(t)
      PROVE  inbound' \in [Messages -> InboundRow \cup {None}]
  <2>1. thread[t].id \in Nat
    BY <1>2 DEF Question, Remembered
  <2>2. \E row \in InboundRow : inbound' = [inbound EXCEPT ![thread[t].message] = row]
    BY <1>2, <2>1 DEF Question, Reject, InboundRow
  <2> QED BY <2>2 DEF Rows
<1>3. ASSUME NEW m \in Messages, Accept(m)
      PROVE  inbound' \in [Messages -> InboundRow \cup {None}]
  BY <1>3 DEF Accept, Rows, InboundRow, NewInbound
<1>4. CASE UNCHANGED inbound
  BY <1>4 DEF Rows
<1> QED BY <1>1, <1>2, <1>3, <1>4
  DEF Next, Working, ProcessRead, SubmitQuestion, Claim, DispatchRead, DispatchSkip,
      DispatchSubmit, DispatchMark, Abandon, RunNow, CodeExpires, Configure, FallDue, Toggle,
      vars, channelVars

\* The threads, and the steps taken.
LEMMA ThreadsNext ==
  ASSUME Rows, [Next]_vars
  PROVE  /\ thread' = [t \in Threads |-> thread'[t]]
         /\ UNCHANGED steps \/ Step
<1>1. ASSUME NEW t \in Threads, NEW work, thread' = [thread EXCEPT ![t] = work]
      PROVE  thread' = [v \in Threads |-> thread'[v]]
  BY <1>1 DEF Rows
<1>2. ASSUME NEW t \in Threads, Working(t)
      PROVE  /\ \E work : thread' = [thread EXCEPT ![t] = work]
             /\ UNCHANGED steps \/ Step
  BY <1>2
  DEF Working, ProcessRead, Bind, Question, Reject, SubmitQuestion, Claim, DispatchRead,
      DispatchSkip, DispatchSubmit, DispatchMark, Start, End, Goto
<1>3. ASSUME NEW t \in Threads, \/ \E again \in BOOLEAN : Abandon(t, again)
                                \/ \E j \in Jobs : RunNow(t, j)
      PROVE  /\ \E work : thread' = [thread EXCEPT ![t] = work]
             /\ Step
  BY <1>3 DEF Abandon, RunNow, Start
<1>4. ASSUME \/ \E m \in Messages : Accept(m)
             \/ \E k \in Codes : CodeExpires(k)
             \/ Configure
             \/ \E j \in Jobs : FallDue(j) \/ Toggle(j)
             \/ UNCHANGED vars
      PROVE  thread' = thread /\ (UNCHANGED steps \/ Step)
  BY <1>4 DEF Accept, CodeExpires, Configure, FallDue, Toggle, vars
<1> QED BY <1>1, <1>2, <1>3, <1>4 DEF Next, Rows

\* What the updates of a job's row make of it.
LEMMA JobChanged ==
  ASSUME NEW row \in JobRow
  PROVE  /\ [row EXCEPT !.due = TRUE] \in JobRow
         /\ [row EXCEPT !.due = TRUE].occurrence = row.occurrence
         /\ [row EXCEPT !.due = TRUE].status = row.status
         /\ [row EXCEPT !.enabled = ~@] \in JobRow
         /\ [row EXCEPT !.enabled = ~@].occurrence = row.occurrence
         /\ [row EXCEPT !.enabled = ~@].status = row.status
         /\ \A status \in {"queued", "skipped"} : [row EXCEPT !.status = status] \in JobRow
         /\ \A session \in JobSessions :
               /\ [row EXCEPT !.session = session] \in JobRow
               /\ [row EXCEPT !.session = session].occurrence = row.occurrence
               /\ [row EXCEPT !.session = session].status = row.status
         /\ [row EXCEPT !.session = @] = row
         /\ [row EXCEPT !.due = FALSE, !.status = "dispatching", !.occurrence = @ + 1] \in JobRow
<1>1. row = [enabled |-> row.enabled, due |-> row.due, occurrence |-> row.occurrence,
             status |-> row.status, session |-> row.session]
  BY DEF JobRow
<1>2. /\ row.enabled \in BOOLEAN /\ row.due \in BOOLEAN
      /\ row.occurrence \in Nat /\ row.occurrence + 1 \in Nat
      /\ row.status \in {None, "dispatching", "queued", "skipped"}
      /\ row.session \in JobSessions \cup {None}
  BY DEF JobRow
<1> QED BY <1>1, <1>2 DEF JobRow

\* The rows of jobs.
LEMMA JobsNext ==
  ASSUME Rows, Dispatches, [Next]_vars
  PROVE  /\ job' \in [Jobs -> JobRow]
         /\ \A j \in Jobs : \/ job'[j].occurrence = job[j].occurrence
                            \/ job'[j].occurrence = job[j].occurrence + 1 /\ Step
         /\ \A j \in Jobs : job'[j].status = "dispatching" =>
               \/ job[j].status = "dispatching" /\ job'[j].occurrence = job[j].occurrence
               \/ job'[j].occurrence = job[j].occurrence + 1
<1> DEFINE Kept == /\ job' \in [Jobs -> JobRow]
                   /\ \A j \in Jobs : /\ job'[j].occurrence = job[j].occurrence
                                      /\ job'[j].status = "dispatching" =>
                                            job[j].status = "dispatching"
<1>1. CASE UNCHANGED job
  BY <1>1 DEF Rows
<1>2. ASSUME NEW t \in Threads, NEW stuck \in SUBSET Jobs, Claim(t, stuck)
      PROVE  /\ job' \in [Jobs -> JobRow] /\ Step
             /\ \A j \in Jobs :
                  \/ job'[j] = job[j]
                  \/ job'[j].occurrence = job[j].occurrence + 1
  <2>1. \A j \in Jobs :
           \/ job'[j] = job[j]
           \/ job'[j] = [job[j] EXCEPT !.due = FALSE, !.status = "dispatching",
                                        !.occurrence = @ + 1]
    BY <1>2 DEF Claim
  <2>2. job' = [j \in Jobs |-> job'[j]] /\ Step
    BY <1>2 DEF Claim, Start
  <2>3. ASSUME NEW j \in Jobs
        PROVE  /\ job'[j] \in JobRow
               /\ \/ job'[j] = job[j]
                  \/ job'[j].occurrence = job[j].occurrence + 1
    <3>1. job[j] \in JobRow
      BY DEF Rows
    <3>2. [job[j] EXCEPT !.due = FALSE, !.status = "dispatching", !.occurrence = @ + 1]
             .occurrence = job[j].occurrence + 1
      BY <3>1 DEF JobRow
    <3> QED BY <2>1, <3>1, <3>2, JobChanged
  <2> QED BY <2>2, <2>3
<1>3. ASSUME NEW t \in Threads, DispatchSkip(t) \/ DispatchMark(t) PROVE Kept
  <2>1. \E status \in {"skipped", "queued"} :
           job' = [job EXCEPT ![thread[t].job].status = status]
    BY <1>3 DEF DispatchSkip, DispatchMark
  <2> PICK status \in {"skipped", "queued"} :
           job' = [job EXCEPT ![thread[t].job].status = status]
    BY <2>1
  <2>2. ASSUME NEW j \in Jobs
        PROVE  /\ job'[j] \in JobRow
               /\ job'[j].occurrence = job[j].occurrence
               /\ job'[j].status = "dispatching" => job[j].status = "dispatching"
    <3>1. job[j] \in JobRow
      BY DEF Rows
    <3>2. job'[j] = job[j] \/ job'[j] = [job[j] EXCEPT !.status = status]
      BY DEF Rows
    <3>3. [job[j] EXCEPT !.status = status] \in JobRow
      BY <3>1, JobChanged
    <3> QED BY <3>1, <3>2, <3>3 DEF JobRow
  <2>3. job' = [j \in Jobs |-> job'[j]]
    BY DEF Rows
  <2> QED BY <2>2, <2>3
<1>4. ASSUME NEW t \in Threads, DispatchSubmit(t) PROVE Kept
  <2>1. In(t, "dispatched") /\ thread[t].id \in Nat
    BY <1>4 DEF DispatchSubmit, Dispatches, DispatchSound, In
  <2>2. \/ job' = [job EXCEPT ![thread[t].job].session = <<"heartbeat", thread[t].id>>]
        \/ job' = [job EXCEPT ![thread[t].job].session = @]
    BY <1>4 DEF DispatchSubmit
  <2>3. ASSUME NEW j \in Jobs
        PROVE  /\ job'[j] \in JobRow
               /\ job'[j].occurrence = job[j].occurrence
               /\ job'[j].status = job[j].status
    <3> DEFINE new == <<"heartbeat", thread[t].id>>
    <3>1. job[j] \in JobRow /\ new \in JobSessions
      BY <2>1 DEF Rows, JobSessions
    <3>2. \/ job'[j] = job[j]
          \/ job'[j] = [job[j] EXCEPT !.session = new]
          \/ job'[j] = [job[j] EXCEPT !.session = @]
      BY <2>2 DEF Rows
    <3>3. /\ [job[j] EXCEPT !.session = new] \in JobRow
          /\ [job[j] EXCEPT !.session = new].occurrence = job[j].occurrence
          /\ [job[j] EXCEPT !.session = new].status = job[j].status
          /\ [job[j] EXCEPT !.session = @] = job[j]
      BY <3>1, JobChanged
    <3> HIDE DEF new
    <3> QED BY <3>1, <3>2, <3>3
  <2>4. job' = [j \in Jobs |-> job'[j]]
    BY <2>2 DEF Rows
  <2> QED BY <2>3, <2>4
<1>5. ASSUME NEW j \in Jobs, FallDue(j) \/ Toggle(j) PROVE Kept
  <2>1. \/ job' = [job EXCEPT ![j].due = TRUE]
        \/ job' = [job EXCEPT ![j].enabled = ~@]
    BY <1>5 DEF FallDue, Toggle
  <2>2. ASSUME NEW i \in Jobs
        PROVE  /\ job'[i] \in JobRow
               /\ job'[i].occurrence = job[i].occurrence
               /\ job'[i].status = job[i].status
    <3>1. job[i] \in JobRow
      BY DEF Rows
    <3>2. \/ job'[i] = job[i]
          \/ job'[i] = [job[i] EXCEPT !.due = TRUE]
          \/ job'[i] = [job[i] EXCEPT !.enabled = ~@]
      BY <2>1 DEF Rows
    <3> QED BY <3>1, <3>2, JobChanged
  <2>3. job' = [i \in Jobs |-> job'[i]]
    BY <2>1 DEF Rows
  <2> QED BY <2>2, <2>3
<1> QED BY <1>1, <1>2, <1>3, <1>4, <1>5
  DEF Next, Working, ProcessRead, Bind, Question, SubmitQuestion, DispatchRead, Abandon, RunNow,
      Accept, CodeExpires, Configure, heartbeatVars, vars

\* Rows is inductive, with what the threads remember.
LEMMA RowsNext ==
  ASSUME Rows, Dispatches, Remembered, [Next]_vars PROVE Rows' /\ Grows
<1>1. sessionless' \in [Jobs -> Nat]
  <2>1. ASSUME NEW j \in Jobs, CountSessionless(j) PROVE sessionless' \in [Jobs -> Nat]
    BY <2>1 DEF CountSessionless, Rows
  <2> QED BY <2>1
      DEF Next, Working, ProcessRead, Bind, Question, SubmitQuestion, Claim, DispatchRead,
         DispatchSkip, DispatchSubmit, DispatchMark, Abandon, RunNow, Accept, CodeExpires,
         Configure, FallDue, Toggle, heartbeatVars, vars, Rows
<1>2. steps' \in 0 .. MaxSteps /\ (steps' = steps \/ (Step /\ steps' = steps + 1))
  BY ThreadsNext, RunSourcesAssumption DEF Step, Rows
<1>3. \A j \in Jobs : job[j].occurrence \in Nat /\ job[j].occurrence <= steps
  BY DEF Rows, JobRow
<1>4. \A j \in Jobs : job'[j].occurrence <= steps' /\ job'[j].occurrence >= job[j].occurrence
  BY <1>2, <1>3, JobsNext DEF Step, Rows
<1> QED BY <1>1, <1>2, <1>4, InboundNext, ThreadsNext, JobsNext DEF Rows, Grows

\* A thread that goes on remembers what is so.
LEMMA DispatchesGoOn ==
  ASSUME Rows, Rows', Grows, Dispatches, [Next]_vars, NEW t \in Threads, NEW work,
         thread' = [thread EXCEPT ![t] = work], work = None \/ DispatchSound(work)'
  PROVE  Dispatches'
<1>1. \A j \in Jobs : job'[j].status = "dispatching" => job'[j].occurrence > 0
  <2>1. \A j \in Jobs : job[j].occurrence \in Nat
    BY DEF Rows, JobRow
  <2> QED BY <2>1, JobsNext DEF Dispatches
<1>2. ASSUME NEW v \in Threads, NEW new, new = thread'[v], new # None
      PROVE  DispatchSound(new)'
  <2>1. CASE v = t
    BY <1>2, <2>1 DEF Rows
  <2>2. CASE v # t
    <3>1. new = thread[v]
      BY <1>2, <2>2 DEF Rows
    <3>2. DispatchSound(new)
      BY <1>2, <3>1 DEF Dispatches
    <3> QED BY <3>2, ClaimsStay
  <2> QED BY <2>1, <2>2
<1> QED BY <1>1, <1>2 DEF Dispatches

\* Dispatches is inductive.
LEMMA DispatchesNext ==
  ASSUME Rows, Dispatches, Remembered, [Next]_vars PROVE Dispatches'
<1>r. Rows' /\ Grows
  BY RowsNext
<1>1. \A j \in Jobs : job[j].occurrence \in Nat /\ job'[j].occurrence \in Nat
  BY <1>r DEF Rows, JobRow
<1>2. ASSUME NEW t \in Threads, NEW stuck \in SUBSET Jobs, Claim(t, stuck) PROVE Dispatches'
  <2> PICK jobs, id :
         /\ jobs = {j \in Jobs : job[j].enabled /\ job[j].due} \cup stuck
         /\ id = Fresh
    OBVIOUS
  <2>1. /\ thread' = [thread EXCEPT ![t] = [at |-> "dispatch", jobs |-> jobs, id |-> id]]
        /\ stuck \subseteq {j \in Jobs : job[j].enabled /\ job[j].status = "dispatching"}
        /\ id \in Nat
    <3>1. id \in Nat
      BY DEF Fresh, Rows
    <3> QED BY <1>2, <3>1, Zenon DEF Claim, Start
  <2>2. ASSUME NEW j \in jobs PROVE j \in Jobs /\ job'[j].occurrence > 0
    <3>1. j \in Jobs
      OBVIOUS
    <3>2. CASE job[j].enabled /\ job[j].due
      <4>1. job'[j] = [job[j] EXCEPT !.due = FALSE, !.status = "dispatching",
                                     !.occurrence = @ + 1]
        BY <1>2, <3>1, <3>2 DEF Claim
      <4>2. job[j] \in JobRow
        BY <3>1 DEF Rows
      <4>3. job'[j].occurrence = job[j].occurrence + 1
        BY <4>1, <4>2 DEF JobRow
      <4> QED BY <1>1, <3>1, <4>3
    <3>3. CASE ~(job[j].enabled /\ job[j].due)
      <4>1. job[j].status = "dispatching"
        BY <2>1, <3>3
      <4> QED BY <1>1, <1>r, <3>1, <4>1 DEF Dispatches, Grows
    <3> QED BY <3>1, <3>2, <3>3
  <2>3. DispatchSound([at |-> "dispatch", jobs |-> jobs, id |-> id])'
    BY <2>1, <2>2 DEF DispatchSound, Claimed
  <2> QED BY <1>r, <2>1, <2>3, DispatchesGoOn
<1>3. ASSUME NEW t \in Threads, NEW j \in Jobs, DispatchRead(t, j) PROVE Dispatches'
  <2> PICK work : work = Dispatching(t, j, Occurrence(t, j))
    OBVIOUS
  <2>1. thread' = [thread EXCEPT ![t] = work]
    BY <1>3 DEF DispatchRead, Goto
  <2>2. DispatchSound(work)
    <3>1. thread[t] # None /\ thread[t].at = "dispatch" /\ j \in thread[t].jobs
      BY <1>3 DEF DispatchRead, In
    <3>2. thread[t].id \in Nat /\ Claimed(thread[t].jobs)
      BY <3>1 DEF Dispatches, DispatchSound
    <3>3. work = [at |-> "dispatched", jobs |-> thread[t].jobs \ {j}, id |-> thread[t].id,
                  job |-> j, enabled |-> job[j].enabled, session |-> job[j].session,
                  request |-> <<"scheduled", j, job[j].occurrence>>]
      BY <3>1 DEF Dispatching, Occurrence
    <3>4. job[j].session \in JobSessions \cup {None}
      BY DEF Rows, JobRow
    <3>5. Requested(work.request, j)
      BY <1>1, <3>1, <3>2, <3>3 DEF Requested, Claimed
    <3> QED BY <3>2, <3>3, <3>4, <3>5 DEF DispatchSound, Claimed
  <2>3. DispatchSound(work)'
    BY <1>r, <2>2, ClaimsStay
  <2> QED BY <1>r, <2>1, <2>3, DispatchesGoOn
<1>4. ASSUME NEW t \in Threads, NEW j \in Jobs, RunNow(t, j) PROVE Dispatches'
  <2> PICK work : work = Dispatching(t, j, <<"manual", j, Fresh>>)
    OBVIOUS
  <2>1. thread' = [thread EXCEPT ![t] = work] /\ thread[t] = None
    BY <1>4 DEF RunNow, Start
  <2>2. DispatchSound(work)
    <3>1. work = [at |-> "dispatched", jobs |-> {}, id |-> Fresh,
                  job |-> j, enabled |-> job[j].enabled, session |-> job[j].session,
                  request |-> <<"manual", j, Fresh>>]
      BY <2>1 DEF Dispatching
    <3>2. job[j].session \in JobSessions \cup {None} /\ Fresh \in Nat
      BY DEF Rows, JobRow, Fresh
    <3> QED BY <3>1, <3>2 DEF DispatchSound, Claimed, Requested
  <2>3. DispatchSound(work)'
    BY <1>r, <2>2, ClaimsStay
  <2> QED BY <1>r, <2>1, <2>3, DispatchesGoOn
<1>5. ASSUME NEW t \in Threads, DispatchSkip(t) \/ DispatchSubmit(t) \/ DispatchMark(t)
      PROVE  Dispatches'
  <2>1. /\ thread[t] # None /\ thread[t].at \in {"dispatched", "mark"}
        /\ \/ thread' = [thread EXCEPT ![t] = None]
           \/ thread' = [thread EXCEPT ![t] = [at |-> "dispatch", jobs |-> thread[t].jobs,
                                               id |-> thread[t].id]]
           \/ thread' = [thread EXCEPT ![t] = [at |-> "mark", jobs |-> thread[t].jobs,
                                               id |-> thread[t].id, job |-> thread[t].job]]
    BY <1>5 DEF DispatchSkip, DispatchSubmit, DispatchMark, Continue, Goto, In
  <2> PICK jobs, id, j : jobs = thread[t].jobs /\ id = thread[t].id /\ j = thread[t].job
    OBVIOUS
  <2>2. id \in Nat /\ Claimed(jobs) /\ j \in Jobs
    BY <2>1 DEF Dispatches, DispatchSound
  <2>3. /\ DispatchSound([at |-> "dispatch", jobs |-> jobs, id |-> id])
        /\ DispatchSound([at |-> "mark", jobs |-> jobs, id |-> id, job |-> j])
    BY <2>2 DEF DispatchSound
  <2>4. /\ DispatchSound([at |-> "dispatch", jobs |-> jobs, id |-> id])'
        /\ DispatchSound([at |-> "mark", jobs |-> jobs, id |-> id, job |-> j])'
    BY <1>r, <2>3, ClaimsStay
  <2>5. \E work : /\ thread' = [thread EXCEPT ![t] = work]
                  /\ \/ work = None
                     \/ work = [at |-> "dispatch", jobs |-> jobs, id |-> id]
                     \/ work = [at |-> "mark", jobs |-> jobs, id |-> id, job |-> j]
    BY <2>1
  <2> QED BY <1>r, <2>4, <2>5, DispatchesGoOn
<1>6. ASSUME thread' = thread PROVE Dispatches'
  <2>1. \A j \in Jobs : job'[j].status = "dispatching" => job'[j].occurrence > 0
    BY <1>1, JobsNext DEF Dispatches
  <2> QED BY <1>r, <1>6, <2>1, ClaimsStay DEF Dispatches
<1>7. CASE Elsewhere
  BY <1>7, DispatchesElsewhere
<1> QED BY <1>2, <1>3, <1>4, <1>5, <1>6, <1>7, ElsewhereSteps
  DEF Next, Working, Accept, CodeExpires, Configure, FallDue, Toggle, vars

\* The runs that are asked for, and for whom.
AsksQuestion(t, q) ==
    /\ SubmitQuestion(t)
    /\ q.user = thread[t].user /\ q.session = thread[t].session
    /\ q.request = <<"channel", thread[t].message>>

AsksJob(t, q) ==
    /\ DispatchSubmit(t)
    /\ q.user = JobUser[thread[t].job]
    /\ q.session = IF thread[t].session = None THEN <<"heartbeat", thread[t].id>>
                   ELSE thread[t].session
    /\ q.request = thread[t].request

\* No other step adds a run.
LEMMA RunsNext ==
  ASSUME [Next]_vars
  PROVE  \/ runs' = runs
         \/ \E t \in Threads : \E q : /\ runs' = runs \cup {Submitted(q)}
                                     /\ (AsksQuestion(t, q) \/ AsksJob(t, q))
<1>1. ASSUME NEW t \in Threads, SubmitQuestion(t)
      PROVE  \E q : runs' = runs \cup {Submitted(q)} /\ AsksQuestion(t, q)
  <2> DEFINE q == [id |-> thread[t].id, user |-> thread[t].user, session |-> thread[t].session,
                   request |-> <<"channel", thread[t].message>>]
  <2>1. runs' = runs \cup {Submitted(q)}
    BY <1>1 DEF SubmitQuestion
  <2>2. AsksQuestion(t, q)
    BY <1>1 DEF AsksQuestion
  <2> QED BY <2>1, <2>2
<1>2. ASSUME NEW t \in Threads, DispatchSubmit(t)
      PROVE  \E q : runs' = runs \cup {Submitted(q)} /\ AsksJob(t, q)
  <2> DEFINE session == IF thread[t].session = None THEN <<"heartbeat", thread[t].id>>
                        ELSE thread[t].session
             q == [id |-> thread[t].id, user |-> JobUser[thread[t].job], session |-> session,
                   request |-> thread[t].request]
  <2>1. runs' = runs \cup {Submitted(q)}
    BY <1>2, Zenon DEF DispatchSubmit
  <2>2. AsksJob(t, q)
    BY <1>2 DEF AsksJob
  <2> QED BY <2>1, <2>2
<1>3. ASSUME NEW t \in Threads, Working(t), ~SubmitQuestion(t), ~DispatchSubmit(t)
      PROVE  runs' = runs
  BY <1>3 DEF Working, ProcessRead, Bind, Question, Claim, DispatchRead, DispatchSkip,
              DispatchMark
<1>4. CASE ~\E t \in Threads : Working(t)
  BY <1>4 DEF Next, Abandon, RunNow, Accept, CodeExpires, Configure, FallDue, Toggle, vars
<1>5. CASE \E t \in Threads : Working(t)
  <2> PICK t \in Threads : Working(t)
    BY <1>5
  <2>1. CASE SubmitQuestion(t)
    BY <1>1, <2>1
  <2>2. CASE DispatchSubmit(t)
    BY <1>2, <2>2
  <2>3. CASE ~SubmitQuestion(t) /\ ~DispatchSubmit(t)
    BY <1>3, <2>3
  <2> QED BY <2>1, <2>2, <2>3
<1> QED BY <1>4, <1>5

\* create_or_get_durable_run keeps the key of agent_runs unique.
LEMMA UniqueNext ==
  ASSUME Unique, [Next]_vars PROVE Unique'
<1>1. ASSUME NEW q, runs' = runs \cup {Submitted(q)} PROVE Unique'
  <2>1. CASE \E r \in runs : SameRequest(r, q)
    BY <1>1, <2>1 DEF Submitted, Unique, SameRequest
  <2>2. CASE ~\E r \in runs : SameRequest(r, q)
    BY <1>1, <2>2 DEF Submitted, Unique, SameRequest
  <2> QED BY <2>1, <2>2
<1>2. CASE runs' = runs
  BY <1>2 DEF Unique, SameRequest
<1>3. runs' = runs \/ \E q : runs' = runs \cup {Submitted(q)}
  BY RunsNext
<1> QED BY <1>1, <1>2, <1>3

\* The runs of jobs.
LEMMA JobRunsNext ==
  ASSUME Rows, Dispatches, Remembered, JobRuns, [Next]_vars PROVE JobRuns'
<1>r. Rows' /\ Grows
  BY RowsNext
<1>1. ASSUME NEW r \in runs', r.request[1] # "channel"
      PROVE  \E j \in Jobs : r.user = JobUser[j] /\ Requested(r.request, j)
  <2>1. CASE r \in runs
    BY <1>1, <2>1 DEF JobRuns
  <2>2. CASE r \notin runs
    <3> PICK t \in Threads : \E q : /\ runs' = runs \cup {Submitted(q)}
                                     /\ (AsksQuestion(t, q) \/ AsksJob(t, q))
      BY <1>1, <2>2, RunsNext
    <3> PICK q : runs' = runs \cup {Submitted(q)} /\ (AsksQuestion(t, q) \/ AsksJob(t, q))
      OBVIOUS
    <3>1. r = q
      BY <1>1, <2>2, SubmittedIsARun
    <3>2. DispatchSubmit(t) /\ r.user = JobUser[thread[t].job] /\ r.request = thread[t].request
      BY <1>1, <3>1 DEF AsksQuestion, AsksJob
    <3>3. thread[t] # None /\ thread[t].at = "dispatched"
      BY <3>2 DEF DispatchSubmit, In
    <3> QED BY <3>3, <3>2 DEF Dispatches, DispatchSound
  <2> QED BY <2>1, <2>2
<1> QED BY <1>r, <1>1, ClaimsStay DEF JobRuns

-----------------------------------------------------------------------------
(* The sessions of jobs and of the conversation.                           *)

Reads(t, j) == In(t, "dispatched") /\ thread[t].job = j
RunOf(r, j) == r.request[1] \in {"scheduled", "manual"} /\ r.request[2] = j

\* While at most one thread has read the job without a session, that thread alone can give
\* it one, and every run of the job and every thread that read it has the job's session.
Settled(j) == sessionless[j] <= 1 =>
    /\ \A t \in Threads : Reads(t, j) => thread[t].session = job[j].session
    /\ \A r \in runs : RunOf(r, j) => r.session = job[j].session /\ job[j].session # None
    /\ job[j].session = None =>
          /\ \A t, v \in Threads : Reads(t, j) /\ Reads(v, j) => t = v
          /\ sessionless[j] = 0 => \A t \in Threads : ~Reads(t, j)

\* A step that reads or submits nothing of the job leaves this alone.
LEMMA SettledElsewhere ==
  ASSUME NEW j \in Jobs, Settled(j), UNCHANGED sessionless[j], job'[j].session = job[j].session,
         \A t \in Threads : Reads(t, j)' => Reads(t, j) /\ thread'[t] = thread[t],
         \A r \in runs' : RunOf(r, j) => r \in runs
  PROVE  Settled(j)'
<1> SUFFICES ASSUME sessionless'[j] <= 1 PROVE
        /\ \A t \in Threads : Reads(t, j)' => thread'[t].session = job'[j].session
        /\ \A r \in runs' : RunOf(r, j) => r.session = job'[j].session /\ job'[j].session # None
        /\ job'[j].session = None =>
              /\ \A t, v \in Threads : Reads(t, j)' /\ Reads(v, j)' => t = v
              /\ sessionless'[j] = 0 => \A t \in Threads : ~Reads(t, j)'
  BY DEF Settled, RunOf
<1> QED BY DEF Settled

\* A thread that reads the job.
LEMMA SettledRead ==
  ASSUME NEW j \in Jobs, NEW t \in Threads, Rows, Settled(j), NEW work,
         work.at = "dispatched", work.job = j, work.session = job[j].session,
         thread' = [thread EXCEPT ![t] = work], UNCHANGED <<job, runs>>, CountSessionless(j)
  PROVE  Settled(j)'
<1>1. /\ thread'[t] = work
      /\ \A v \in Threads \ {t} : thread'[v] = thread[v]
  BY DEF Rows
<1>2. sessionless[j] \in Nat
  BY DEF Rows
<1>3. \/ job[j].session # None /\ sessionless'[j] = sessionless[j]
      \/ job[j].session = None /\ sessionless'[j] = sessionless[j] + 1
  BY DEF CountSessionless, Rows
<1>4. \A v \in Threads \ {t} : Reads(v, j)' = Reads(v, j)
  BY <1>1 DEF Reads, In
<1> SUFFICES ASSUME sessionless'[j] <= 1 PROVE
        /\ \A v \in Threads : Reads(v, j)' => thread'[v].session = job'[j].session
        /\ \A r \in runs' : RunOf(r, j) => r.session = job'[j].session /\ job'[j].session # None
        /\ job'[j].session = None =>
              /\ \A u, v \in Threads : Reads(u, j)' /\ Reads(v, j)' => u = v
              /\ sessionless'[j] = 0 => \A v \in Threads : ~Reads(v, j)'
  BY DEF Settled, RunOf
<1>5. CASE job[j].session # None
  BY <1>1, <1>2, <1>3, <1>4, <1>5 DEF Settled
<1>6. CASE job[j].session = None
  <2>1. sessionless[j] = 0 /\ sessionless'[j] = 1
    BY <1>2, <1>3, <1>6
  <2>2. \A v \in Threads : ~Reads(v, j)
    BY <1>6, <2>1 DEF Settled
  <2> QED BY <1>1, <1>4, <1>6, <2>1, <2>2 DEF Settled
<1> QED BY <1>5, <1>6

\* A thread that submits the run.
LEMMA SettledSubmit ==
  ASSUME NEW j \in Jobs, NEW t \in Threads, Rows, Dispatches, Settled(j), DispatchSubmit(t),
         thread[t].job = j
  PROVE  Settled(j)'
<1> DEFINE session == IF thread[t].session = None THEN <<"heartbeat", thread[t].id>>
                      ELSE thread[t].session
<1>1. /\ Reads(t, j) /\ UNCHANGED sessionless
      /\ \A v \in Threads : Reads(v, j)' => v # t /\ Reads(v, j) /\ thread'[v] = thread[v]
  BY DEF DispatchSubmit, Reads, In, Goto, Rows
<1>2. session # None
  <2>1. thread[t].id \in Nat
    BY <1>1 DEF Dispatches, DispatchSound, Reads, In
  <2> QED BY <2>1, RunSourcesAssumption DEF JobSessions
<1>3. job'[j].session = IF thread[t].session = None THEN session ELSE job[j].session
  BY DEF DispatchSubmit, Rows, JobRow
<1>4. ASSUME NEW r \in runs' PROVE r \in runs \/ r.session = session
  <2> DEFINE q == [id |-> thread[t].id, user |-> JobUser[j], session |-> session,
                   request |-> thread[t].request]
  <2>1. runs' = runs \cup {Submitted(q)}
    BY Zenon DEF DispatchSubmit
  <2>2. Submitted(q) \in runs \cup {q}
    BY SubmittedIsARun
  <2> QED BY <1>4, <2>1, <2>2
<1> SUFFICES ASSUME sessionless'[j] <= 1 PROVE
        /\ \A v \in Threads : Reads(v, j)' => thread'[v].session = job'[j].session
        /\ \A r \in runs' : RunOf(r, j) => r.session = job'[j].session /\ job'[j].session # None
        /\ job'[j].session = None =>
              /\ \A u, v \in Threads : Reads(u, j)' /\ Reads(v, j)' => u = v
              /\ sessionless'[j] = 0 => \A v \in Threads : ~Reads(v, j)'
  BY DEF Settled, RunOf
<1>5. thread[t].session = job[j].session
  BY <1>1 DEF Settled
<1>6. job'[j].session = session
  BY <1>3, <1>5
<1> HIDE DEF session
<1>7. CASE job[j].session = None
  <2>1. \A v \in Threads : ~Reads(v, j)'
    BY <1>1, <1>7 DEF Settled
  <2>2. \A r \in runs : ~RunOf(r, j)
    BY <1>1, <1>7 DEF Settled
  <2> QED BY <1>2, <1>4, <1>6, <2>1, <2>2
<1>8. CASE job[j].session # None
  <2>1. session = job[j].session
    BY <1>5, <1>8 DEF session
  <2> QED BY <1>1, <1>2, <1>4, <1>6, <2>1 DEF Settled
<1> QED BY <1>7, <1>8

\* Settled is inductive.
LEMMA SettledNext ==
  ASSUME Rows, Dispatches, Remembered, [Next]_vars, NEW j \in Jobs, Settled(j)
  PROVE  Settled(j)'
<1>e. ASSUME UNCHANGED sessionless[j], job'[j].session = job[j].session,
             runs' = runs, NEW t \in Threads, NEW work, thread' = [thread EXCEPT ![t] = work],
             work = None \/ work.at # "dispatched" \/ work.job # j
      PROVE  Settled(j)'
  <2>1. \A v \in Threads : Reads(v, j)' => Reads(v, j) /\ thread'[v] = thread[v]
    BY <1>e DEF Reads, In, Rows
  <2> QED BY <1>e, <2>1, SettledElsewhere
<1>1. ASSUME NEW t \in Threads, NEW stuck \in SUBSET Jobs, Claim(t, stuck) PROVE Settled(j)'
  <2>1. job'[j].session = job[j].session
    <3>1. \/ job'[j] = job[j]
          \/ job'[j] = [job[j] EXCEPT !.due = FALSE, !.status = "dispatching",
                                       !.occurrence = @ + 1]
      BY <1>1 DEF Claim
    <3>2. job[j] \in JobRow
      BY DEF Rows
    <3> QED BY <3>1, <3>2 DEF JobRow
  <2>2. \E jobs, id : thread' = [thread EXCEPT ![t] = [at |-> "dispatch", jobs |-> jobs,
                                                       id |-> id]]
    BY <1>1, Zenon DEF Claim, Start
  <2>3. UNCHANGED <<sessionless, runs>>
    BY <1>1 DEF Claim
  <2> QED BY <1>e, <2>1, <2>2, <2>3
<1>2. ASSUME NEW t \in Threads, NEW i \in Jobs, NEW request,
             thread' = [thread EXCEPT ![t] = Dispatching(t, i, request)],
             CountSessionless(i), UNCHANGED <<job, runs>>
      PROVE  Settled(j)'
  <2> PICK work : work = Dispatching(t, i, request)
    OBVIOUS
  <2>1. work.at = "dispatched" /\ work.job = i /\ work.session = job[i].session
    BY DEF Dispatching
  <2>2. thread' = [thread EXCEPT ![t] = work]
    BY <1>2
  <2>3. CASE i = j
    BY <1>2, <2>1, <2>2, <2>3, SettledRead
  <2>4. CASE i # j
    <3>1. sessionless'[j] = sessionless[j]
      BY <1>2, <2>4 DEF CountSessionless, Rows
    <3> QED BY <1>e, <1>2, <2>1, <2>2, <2>4, <3>1
  <2> QED BY <2>3, <2>4
<1>3. ASSUME NEW t \in Threads, DispatchSkip(t) \/ DispatchMark(t) PROVE Settled(j)'
  <2>1. job'[j].session = job[j].session
    <3>1. \E status : job' = [job EXCEPT ![thread[t].job].status = status]
      BY <1>3 DEF DispatchSkip, DispatchMark
    <3> QED BY <3>1 DEF Rows, JobRow
  <2>2. \E work : /\ thread' = [thread EXCEPT ![t] = work]
                  /\ work = None \/ work.at = "dispatch"
    BY <1>3 DEF DispatchSkip, DispatchMark, Continue, Goto
  <2>3. UNCHANGED <<sessionless, runs>>
    BY <1>3 DEF DispatchSkip, DispatchMark
  <2> QED BY <1>e, <2>1, <2>2, <2>3
<1>4. ASSUME NEW t \in Threads, DispatchSubmit(t) PROVE Settled(j)'
  <2>1. CASE thread[t].job = j
    BY <1>4, <2>1, SettledSubmit
  <2>2. CASE thread[t].job # j
    <3>1. job'[j].session = job[j].session /\ UNCHANGED sessionless
      BY <1>4, <2>2 DEF DispatchSubmit, Rows
    <3>2. \A v \in Threads : Reads(v, j)' => Reads(v, j) /\ thread'[v] = thread[v]
      BY <1>4 DEF DispatchSubmit, Goto, Reads, In, Rows
    <3>3. ASSUME NEW r \in runs', RunOf(r, j) PROVE r \in runs
      <4>1. \E q : runs' = runs \cup {Submitted(q)} /\ q.request = thread[t].request
        BY <1>4 DEF DispatchSubmit
      <4>2. thread[t].request[2] # j
        <5>1. Requested(thread[t].request, thread[t].job)
          BY <1>4 DEF DispatchSubmit, In, Dispatches, DispatchSound
        <5> QED BY <2>2, <5>1 DEF Requested
      <4> QED BY <3>3, <4>1, <4>2, SubmittedIsARun DEF RunOf
    <3> QED BY <3>1, <3>2, <3>3, SettledElsewhere
  <2> QED BY <2>1, <2>2
<1>5. ASSUME Elsewhere, UNCHANGED heartbeatVars, \A r \in runs' : RunOf(r, j) => r \in runs
      PROVE  Settled(j)'
  <2>1. \A v \in Threads : Reads(v, j)' => Reads(v, j) /\ thread'[v] = thread[v]
    BY <1>5 DEF Elsewhere, Reads, In, Rows
  <2> QED BY <1>5, <2>1, SettledElsewhere DEF Elsewhere, heartbeatVars
<1>6. ASSUME UNCHANGED <<thread, sessionless, runs>>, job'[j].session = job[j].session
      PROVE  Settled(j)'
  <2>1. \A v \in Threads : Reads(v, j)' = Reads(v, j)
    BY <1>6 DEF Reads, In
  <2> QED BY <1>6, <2>1, SettledElsewhere
<1>7. ASSUME NEW t \in Threads, SubmitQuestion(t) PROVE Settled(j)'
  <2>1. \E q : runs' = runs \cup {Submitted(q)} /\ q.request = <<"channel", thread[t].message>>
    BY <1>7 DEF SubmitQuestion
  <2>2. \A r \in runs' : RunOf(r, j) => r \in runs
    BY <2>1, SubmittedIsARun DEF RunOf
  <2> QED BY <1>5, <1>7, <2>2, ElsewhereSteps
<1>8. ASSUME NEW t \in Threads, \/ \E m \in Messages : ProcessRead(t, m)
                                \/ Bind(t) \/ Question(t)
                                \/ \E again \in BOOLEAN : Abandon(t, again)
      PROVE  Settled(j)'
  <2>1. runs' = runs
    BY <1>8 DEF ProcessRead, Bind, Question, Abandon
  <2> QED BY <1>5, <1>8, <2>1, ElsewhereSteps
<1>9. ASSUME NEW i \in Jobs, FallDue(i) \/ Toggle(i) PROVE Settled(j)'
  <2>1. /\ UNCHANGED <<thread, sessionless, runs>>
        /\ \/ job' = [job EXCEPT ![i].due = TRUE]
           \/ job' = [job EXCEPT ![i].enabled = ~@]
    BY <1>9 DEF FallDue, Toggle
  <2>2. job'[j].session = job[j].session
    BY <2>1 DEF Rows, JobRow
  <2> QED BY <1>6, <2>1, <2>2
<1>10. ASSUME \/ \E m \in Messages : Accept(m)
              \/ \E k \in Codes : CodeExpires(k)
              \/ Configure
              \/ UNCHANGED vars
       PROVE  Settled(j)'
  BY <1>6, <1>10 DEF Accept, CodeExpires, Configure, heartbeatVars, vars
<1>11. ASSUME NEW t \in Threads, Working(t) PROVE Settled(j)'
  <2>1. ASSUME NEW i \in Jobs, DispatchRead(t, i) PROVE Settled(j)'
    BY <1>2, <2>1, Zenon DEF DispatchRead, Goto
  <2> QED BY <1>1, <1>3, <1>4, <1>7, <1>8, <1>11, <2>1, Zenon DEF Working
<1>12. ASSUME NEW t \in Threads, NEW i \in Jobs, RunNow(t, i) PROVE Settled(j)'
  BY <1>2, <1>12, Zenon DEF RunNow, Start
<1> QED BY <1>8, <1>9, <1>10, <1>11, <1>12, Zenon DEF Next

\* Until the conversation is remapped, its threads and its runs have its session.
SeesSession == ~remapped =>
    /\ \A t \in Threads : In(t, "submit") => thread[t].session = conversation.session
    /\ \A r \in runs : r.request[1] = "channel" => r.session = conversation.session

\* SeesSession is inductive.
LEMMA SeesNext ==
  ASSUME Rows, Types, Dispatches, Remembered, Owned, SeesSession, [Next]_vars PROVE SeesSession'
<1>1. /\ conversation # None => remapped' \/ UNCHANGED conversation
      /\ remapped => remapped'
  <2>1. ASSUME NEW t \in Threads, Bind(t) \/ Question(t)
        PROVE  /\ conversation # None => UNCHANGED conversation
               /\ UNCHANGED remapped
    BY <2>1 DEF Bind, Question, Reject, Ensured
  <2>2. CASE Configure
    BY <2>2 DEF Configure
  <2>3. CASE UNCHANGED <<conversation, remapped>>
    BY <2>3
  <2> QED BY <2>1, <2>2, <2>3
    DEF Next, Working, ProcessRead, SubmitQuestion, Claim, DispatchRead, DispatchSkip,
        DispatchSubmit, DispatchMark, Abandon, RunNow, Accept, CodeExpires, FallDue, Toggle,
        vars, channelVars
<1>2. ASSUME NEW t \in Threads, thread'[t] # thread[t], In(t, "submit")'
      PROVE  thread'[t].session = conversation'.session
  <2>1. ASSUME NEW v \in Threads, NEW work, thread' = [thread EXCEPT ![v] = work]
        PROVE  v = t /\ work = thread'[t]
    BY <1>2, <2>1 DEF Rows
  <2>2. ASSUME NEW v \in Threads, Question(v) PROVE thread'[t].session = conversation'.session
    <3>1. \/ thread' = [thread EXCEPT ![v] = None]
          \/ \E work : /\ thread' = [thread EXCEPT ![v] = work]
                       /\ work.session = conversation'.session
      BY <2>2 DEF Question, Reject, End, Goto
    <3> QED BY <1>2, <2>1, <3>1 DEF In
  <2>3. ASSUME NEW v \in Threads, NEW work, thread' = [thread EXCEPT ![v] = work],
               work = None \/ work.at # "submit"
        PROVE  FALSE
    BY <1>2, <2>1, <2>3 DEF In
  <2>4. ASSUME NEW v \in Threads, Working(v), ~Question(v) PROVE FALSE
    <3>1. ASSUME NEW m \in Messages, ProcessRead(v, m) PROVE FALSE
      <4>1. \/ thread' = [thread EXCEPT ![v] = None]
            \/ thread' = [thread EXCEPT ![v] = [at |-> "decide", message |-> m, id |-> Fresh]]
        BY <3>1 DEF ProcessRead, Start
      <4> QED BY <2>3, <4>1
    <3>2. ASSUME NEW stuck \in SUBSET Jobs, Claim(v, stuck) PROVE FALSE
      <4>1. \E jobs, id : thread' = [thread EXCEPT ![v] = [at |-> "dispatch", jobs |-> jobs,
                                                           id |-> id]]
        BY <3>2, Zenon DEF Claim, Start
      <4> QED BY <2>3, <4>1
    <3>3. ASSUME \E j \in Jobs : DispatchRead(v, j) PROVE FALSE
      BY <2>3, <3>3 DEF DispatchRead, Dispatching, Goto
    <3>4. ASSUME DispatchSkip(v) \/ DispatchMark(v) \/ DispatchSubmit(v) PROVE FALSE
      BY <2>3, <3>4 DEF DispatchSkip, DispatchMark, DispatchSubmit, Continue, Goto
    <3>5. ASSUME Bind(v) \/ SubmitQuestion(v) PROVE FALSE
      BY <2>3, <3>5 DEF Bind, SubmitQuestion, Reject, End, Goto
    <3> QED BY <2>4, <3>1, <3>2, <3>3, <3>4, <3>5, Zenon DEF Working
  <2>5. ASSUME NEW v \in Threads, \/ \E again \in BOOLEAN : Abandon(v, again)
                                  \/ \E j \in Jobs : RunNow(v, j)
        PROVE  FALSE
    BY <2>3, <2>5 DEF Abandon, RunNow, Start, Dispatching
  <2> QED BY <1>2, <2>2, <2>4, <2>5
    DEF Next, Accept, CodeExpires, Configure, FallDue, Toggle, vars
<1>3. ASSUME NEW r \in runs', r \notin runs, r.request[1] = "channel", ~remapped
      PROVE  r.session = conversation.session /\ UNCHANGED conversation
  <2> PICK t \in Threads : \E q : /\ runs' = runs \cup {Submitted(q)}
                                   /\ (AsksQuestion(t, q) \/ AsksJob(t, q))
    BY <1>3, RunsNext
  <2> PICK q : runs' = runs \cup {Submitted(q)} /\ (AsksQuestion(t, q) \/ AsksJob(t, q))
    OBVIOUS
  <2>1. r = q
    BY <1>3, SubmittedIsARun
  <2>2. ~AsksJob(t, q)
    <3>1. ASSUME DispatchSubmit(t) PROVE thread[t].request[1] # "channel"
      BY <3>1 DEF DispatchSubmit, Remembered
    <3> QED BY <1>3, <2>1, <3>1 DEF AsksJob
  <2>3. SubmitQuestion(t) /\ r.session = thread[t].session
    BY <2>1, <2>2 DEF AsksQuestion
  <2> QED BY <1>3, <2>3 DEF SubmitQuestion, SeesSession, channelVars
<1>4. CASE conversation = None
  <2>1. \A t \in Threads : ~In(t, "submit")
    BY <1>4 DEF Remembered
  <2>2. \A r \in runs : r.request[1] # "channel"
    BY <1>4 DEF Owned
  <2>3. \A t \in Threads : In(t, "submit")' => thread'[t] # thread[t]
    BY <2>1 DEF In
  <2> QED BY <1>1, <1>2, <1>3, <2>2, <2>3 DEF SeesSession
<1>5. CASE conversation # None
  <2>1. \A t \in Threads : In(t, "submit")' =>
           \/ thread'[t].session = conversation'.session
           \/ In(t, "submit") /\ thread'[t] = thread[t]
    BY <1>2 DEF In
  <2> QED BY <1>1, <1>3, <1>5, <2>1 DEF SeesSession
<1> QED BY <1>4, <1>5

-----------------------------------------------------------------------------
(* The theorems.                                                           *)

Inv == /\ IInv /\ Rows /\ Dispatches /\ JobRuns /\ Unique /\ SeesSession
       /\ \A j \in Jobs : Settled(j)

\* The invariant holds throughout.
LEMMA InvHolds == Spec => []Inv
<1>1. Init => Inv
  <2> SUFFICES ASSUME Init PROVE Rows /\ Dispatches /\ JobRuns /\ Unique /\ SeesSession
                                 /\ \A j \in Jobs : Settled(j)
    BY InvInit DEF Inv
  <2>1. Rows
    BY RunSourcesAssumption DEF Init, Rows, JobRow
  <2>2. Dispatches
    BY RunSourcesAssumption DEF Init, Dispatches
  <2> QED BY <2>1, <2>2 DEF Init, JobRuns, Unique, SeesSession, Settled, Reads, RunOf, In
<1>2. Inv /\ [Next]_vars => Inv'
  <2> SUFFICES ASSUME Inv, [Next]_vars PROVE Inv'
    OBVIOUS
  <2>1. IInv'
    BY InvStep DEF Inv
  <2>2. Rows /\ Dispatches /\ Remembered /\ JobRuns /\ Unique /\ SeesSession /\ Types /\ Owned
    BY DEF Inv, IInv
  <2>3. \A j \in Jobs : Settled(j)'
    BY <2>2, SettledNext DEF Inv
  <2> QED BY <2>1, <2>2, <2>3, RowsNext, DispatchesNext, JobRunsNext, UniqueNext, SeesNext DEF Inv
<1> QED BY <1>1, <1>2, PTL DEF Spec

\* TypeOK: in particular, agent_runs has one row per user, session and request, whoever
\* submits it again, and no job counts more claims than the beat made.
THEOREM TypeCorrect == Spec => []TypeOK
<1>1. Inv => TypeOK
  <2> SUFFICES ASSUME Inv PROVE TypeOK
    OBVIOUS
  <2>1. \A m \in Messages : inbound[m] # None =>
           inbound[m].status \in {"received", "rejected", "bound", "submitted"}
    BY DEF Inv, Rows, InboundRow
  <2>2. \A j \in Jobs : /\ job[j].status \in {None, "dispatching", "queued", "skipped"}
                        /\ job[j].occurrence \in 0 .. MaxSteps
    BY RunSourcesAssumption DEF Inv, Rows, JobRow
  <2> QED BY <2>1, <2>2 DEF Inv, IInv, Types, Unique, SameRequest, TypeOK
<1> QED BY <1>1, InvHolds, PTL

\* The scheduled runs of a job that at most one thread read without a session: one per claim.
LEMMA OneRunPerClaim ==
  ASSUME Inv, NEW j \in Jobs, sessionless[j] <= 1
  PROVE  Cardinality({r \in runs : r.request[1] = "scheduled" /\ r.request[2] = j})
            \in 0 .. job[j].occurrence
<1> DEFINE S == {r \in runs : r.request[1] = "scheduled" /\ r.request[2] = j}
           T == 1 .. job[j].occurrence
           f == [r \in S |-> r.request[3]]
<1>1. job[j].occurrence \in Nat
  BY DEF Inv, Rows, JobRow
<1>2. ASSUME NEW r \in S
      PROVE  /\ r.user = JobUser[j] /\ r.session = job[j].session
             /\ \E n \in T : r.request = <<"scheduled", j, n>>
  <2>1. PICK i \in Jobs : r.user = JobUser[i] /\ Requested(r.request, i)
    BY DEF Inv, JobRuns
  <2>2. i = j /\ \E n \in T : r.request = <<"scheduled", j, n>>
    BY <2>1 DEF Requested
  <2>3. RunOf(r, j)
    BY DEF RunOf
  <2> QED BY <2>1, <2>2, <2>3 DEF Inv, Settled
<1>3. f \in Injection(S, T)
  <2>1. f \in [S -> T]
    BY <1>2
  <2>2. ASSUME NEW r \in S, NEW q \in S, f[r] = f[q] PROVE r = q
    BY <1>2, <2>2 DEF Inv, Unique, SameRequest
  <2> QED BY <2>1, <2>2 DEF Injection, IsInjective
<1>4. IsFiniteSet(T) /\ Cardinality(T) = job[j].occurrence
  <2> PICK n \in Nat : n = job[j].occurrence
    BY <1>1
  <2>1. IsFiniteSet(1 .. n) /\ Cardinality(1 .. n) = IF 1 > n THEN 0 ELSE n - 1 + 1
    BY FS_Interval, 1 \in Int, n \in Int
  <2> QED BY <2>1
<1>5. Cardinality(S) \in Nat /\ Cardinality(S) <= Cardinality(T)
  <2> HIDE DEF S, T, f
  <2> QED BY <1>3, <1>4, FS_Injection, FS_CardinalityType
<1> QED BY <1>1, <1>4, <1>5

\* RepeatsNeedASessionChange: the key of agent_runs and the occurrence make every repetition
\* find the first one's row, unless the session, a part of the key, changed in between.
THEOREM RepeatsNeedSessions == Spec => []RepeatsNeedASessionChange
<1>1. Inv => RepeatsNeedASessionChange
  <2> SUFFICES ASSUME Inv PROVE RepeatsNeedASessionChange
    OBVIOUS
  <2>1. ASSUME NEW r \in runs, NEW q \in runs, r.request = q.request,
               r.request[1] = "channel", ~remapped
        PROVE  r = q
    BY <2>1 DEF Inv, IInv, Owned, SeesSession, Unique, SameRequest
  <2>2. ASSUME NEW j \in Jobs, sessionless[j] <= 1
        PROVE  ~(Cardinality({r \in runs : r.request[1] = "scheduled" /\ r.request[2] = j})
                    > job[j].occurrence)
    <3>1. Cardinality({r \in runs : r.request[1] = "scheduled" /\ r.request[2] = j})
             \in 0 .. job[j].occurrence
      BY <2>2, OneRunPerClaim
    <3>2. job[j].occurrence \in Nat
      BY DEF Inv, Rows, JobRow
    <3> QED BY <3>1, <3>2
  <2>3. \A j \in Jobs : sessionless[j] \in Nat
    BY DEF Inv, Rows
  <2> QED BY <2>1, <2>2, <2>3 DEF RepeatsNeedASessionChange
<1> QED BY <1>1, InvHolds, PTL
=============================================================================

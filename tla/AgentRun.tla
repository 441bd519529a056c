------------------------------- MODULE AgentRun -------------------------------
(***************************************************************************)
(* The runs of one chat session (memoria/run_submission.py,                *)
(* memoria/run_service.py, memoria/persistence/runs.py,                    *)
(* memoria/tasks/runs.py, memoria/api/runs.py).                            *)
(*                                                                         *)
(* A run lives twice: as a durable row in PostgreSQL and as a record in    *)
(* Redis, beside the session's queue, its lease and the abort keys. The    *)
(* submitting request, the workers that execute tasks, the abort request   *)
(* and the recovery task all read one copy, work, and write both copies    *)
(* back in separate steps, without asking what the copies say by then.     *)
(***************************************************************************)
EXTENDS Integers, FiniteSets, SequencesExt

CONSTANTS
    Runs,           \* runs of the session
    Workers,        \* worker processes
    MaxAttempts,    \* max_attempts of a run
    MaxSubmits,     \* bound on the submissions of a request
    MaxTroubles,    \* bound on aborts, recoveries, crashes and stalls together
    None,           \* no record, no run, no lease
    Dead            \* the holder of a lease that has died

ASSUME ConstantsAssumption ==
    /\ MaxAttempts \in Nat \ {0}
    /\ {MaxSubmits, MaxTroubles} \subseteq Nat

Terminal == {"completed", "failed", "aborted"}
Statuses == {"queued", "running", "aborting"} \cup Terminal

Record == [status : Statuses, attempts : Nat, started : BOOLEAN]

ASSUME NullsAssumption ==
    /\ None \notin Record \cup Runs \cup Workers
    /\ Dead \notin Workers \cup {None}

Fresh == [status |-> "queued", attempts |-> 0, started |-> FALSE]

VARIABLES
    row,            \* [Runs -> durable row or None]
    cache,          \* [Runs -> Redis record or None]
    queue,          \* the session's FIFO in Redis
    lease,          \* holder of the session's lease: a worker, Dead or None
    aborts,         \* runs with an abort key
    broker,         \* [Runs -> undelivered execute_agent_run tasks]
    submit,         \* [Runs -> "idle", "commit" or "send": step of submit_agent_run]
    pc,             \* [Workers -> step of the task the worker executes]
    run,            \* [Workers -> run of that task]
    held,           \* [Workers -> record the task holds]
    beat,           \* [Workers -> record read for a heartbeat, still to be saved]
    todo,           \* [Workers -> records the recovery task has still to publish]
    api,            \* abort request in progress: its step, run, record, or None
    asked,          \* runs with a user message in chat_messages
    answered,       \* runs with an assistant message
    submits,        \* [Runs -> submissions of its request]
    abortCount,     \* abort requests
    recoveries,     \* stale rows that passes of the recovery task found
    crashes,        \* crashes of workers and of submitting requests
    pauses          \* workers stalled for longer than a lease

storeVars  == <<row, cache, queue, lease, aborts>>
taskVars   == <<run, held, beat>>
workerVars == <<pc, taskVars, todo>>
chatVars   == <<asked, answered>>
countVars  == <<submits, abortCount, recoveries, crashes, pauses>>
otherVars  == <<broker, submit, todo, api, countVars>>
vars == <<storeVars, broker, submit, workerVars, api, chatVars, countVars>>

Troubles == abortCount + recoveries + crashes + pauses

Init ==
    /\ row = [r \in Runs |-> None]
    /\ cache = [r \in Runs |-> None]
    /\ queue = <<>>
    /\ lease = None
    /\ aborts = {}
    /\ broker = [r \in Runs |-> 0]
    /\ submit = [r \in Runs |-> "idle"]
    /\ pc = [w \in Workers |-> "idle"]
    /\ run = [w \in Workers |-> None]
    /\ held = [w \in Workers |-> None]
    /\ beat = [w \in Workers |-> None]
    /\ todo = [w \in Workers |-> {}]
    /\ api = None
    /\ asked = {}
    /\ answered = {}
    /\ submits = [r \in Runs |-> 0]
    /\ abortCount = 0 /\ recoveries = 0 /\ crashes = 0 /\ pauses = 0

-----------------------------------------------------------------------------
(* Shared operations of the stores.                                        *)

\* Mutant: the request key is not looked at.
CreateAndEnqueue(r, rec) ==
    /\ cache' = [cache EXCEPT ![r] = rec]
    /\ queue' = Append(queue, r)

\* _CREATE_AND_ENQUEUE_SCRIPT: the request key is written with the record, and stands for it
\* here.  (The abort of a run whose record expired meanwhile, and the repetition of a terminal
\* request whose record expired, write a record without a key; Redis expiry is left out.)
CreateOrGetAndEnqueue(r, rec) ==
    IF cache[r] = None
    THEN /\ cache' = [cache EXCEPT ![r] = rec]
         /\ queue' = Append(queue, r)
    ELSE UNCHANGED <<cache, queue>>

\* Mutant: a turn is claimed without looking at the lease.
ClaimableAnyLease(w, r) == queue # <<>> /\ Head(queue) = r

\* _CLAIM_SESSION_SCRIPT.
Claimable(w, r) == queue # <<>> /\ Head(queue) = r /\ lease \in {None, w}

\* Mutant: a release that leaves the run at the head of the queue.
ReleaseLease(w, r) ==
    /\ lease' = IF lease = w THEN None ELSE lease
    /\ UNCHANGED queue

\* _RELEASE_SESSION_SCRIPT: nothing happens when the lease has another owner.
Release(w, r) ==
    IF lease \in {None, w}
    THEN /\ lease' = None
         /\ queue' = RemoveFirst(queue, r)
    ELSE UNCHANGED <<lease, queue>>

\* save_durable_run: the row takes the record's status whatever it is by now.
SaveRow(r, rec) == row' = [row EXCEPT ![r] = rec]

-----------------------------------------------------------------------------
(* submit_agent_run, in the API process.                                   *)

\* The row is inserted, or found, and committed; a repetition of a terminal request ends here.
SubmitRow(r) ==
    /\ submit[r] = "idle" /\ submits[r] < MaxSubmits
    /\ submits' = [submits EXCEPT ![r] = @ + 1]
    /\ row' = IF row[r] = None THEN [row EXCEPT ![r] = Fresh] ELSE row
    /\ IF row'[r].status \in Terminal
       THEN /\ cache' = IF cache[r] = None THEN [cache EXCEPT ![r] = row[r]] ELSE cache
            /\ UNCHANGED submit
       ELSE submit' = [submit EXCEPT ![r] = "commit"] /\ UNCHANGED cache
    /\ UNCHANGED <<workerVars, chatVars, queue, lease, aborts, broker, api,
                   abortCount, recoveries, crashes, pauses>>

SubmitEnqueue(r) ==
    /\ submit[r] = "commit"
    /\ CreateOrGetAndEnqueue(r, row[r])
    /\ submit' = [submit EXCEPT ![r] = IF cache'[r].status = "queued" THEN "send" ELSE "idle"]
    /\ UNCHANGED <<workerVars, chatVars, countVars, row, lease, aborts, broker, api>>

SubmitSend(r) ==
    /\ submit[r] = "send"
    /\ broker' = [broker EXCEPT ![r] = @ + 1]
    /\ submit' = [submit EXCEPT ![r] = "idle"]
    /\ UNCHANGED <<storeVars, workerVars, chatVars, countVars, api>>

\* The API process dies, or Redis or the broker refuses.
SubmitFails(r) ==
    /\ submit[r] # "idle" /\ Troubles < MaxTroubles
    /\ crashes' = crashes + 1
    /\ submit' = [submit EXCEPT ![r] = "idle"]
    /\ UNCHANGED <<storeVars, workerVars, chatVars, broker, api, submits, abortCount,
                   recoveries, pauses>>

-----------------------------------------------------------------------------
(* execute_agent_run, in a worker.                                         *)

Step(w, next) == pc' = [pc EXCEPT ![w] = next]

\* A task begins: the Redis record, or else the durable row, decides how.
Take(w, r) ==
    LET durable == row[r]
        rec == IF cache[r] # None THEN cache[r] ELSE durable
    IN  /\ pc[w] = "idle" /\ broker[r] > 0
        /\ broker' = [broker EXCEPT ![r] = @ - 1]
        /\ IF rec.status \in Terminal
           THEN UNCHANGED <<cache, queue, pc, run, held>>
           ELSE /\ CreateOrGetAndEnqueue(r, durable)
                /\ Step(w, IF rec.status = "aborting" THEN "mark" ELSE "wait")
                /\ run' = [run EXCEPT ![w] = r]
                /\ held' = [held EXCEPT ![w] = rec]
        /\ UNCHANGED <<chatVars, countVars, row, lease, aborts, submit, beat, todo, api>>

\* The task returns and is acknowledged.
Return(w) ==
    /\ Step(w, "idle")
    /\ run' = [run EXCEPT ![w] = None]
    /\ held' = [held EXCEPT ![w] = None]
    /\ beat' = [beat EXCEPT ![w] = None]

\* _wait_for_session_turn, one turn of its loop that gets somewhere.
Wait(w) ==
    LET r == run[w]
        latest == cache[r]
    IN  /\ pc[w] = "wait"
        /\ \/ /\ r \in aborts
              /\ IF latest.started
                 THEN Return(w)
                 ELSE Step(w, "mark") /\ UNCHANGED taskVars
              /\ UNCHANGED <<queue, lease>>
           \/ /\ r \notin aborts /\ Claimable(w, r)
              /\ lease' = w
              /\ Step(w, "claimed")
              /\ UNCHANGED <<queue, taskVars>>
           \/ /\ r \notin aborts /\ ~Claimable(w, r)
              /\ latest.status \in Terminal
              /\ queue' = RemoveFirst(queue, r)
              /\ Return(w)
              /\ UNCHANGED lease
        /\ UNCHANGED <<otherVars, chatVars, row, cache, aborts>>

\* _mark_aborted sets the status of the record it was given, but saves the record it then
\* reads from Redis.  It marks a run that waits, or revokes the turn it has claimed.
MarkRead(w) ==
    /\ pc[w] \in {"mark", "revoke"}
    /\ held' = [held EXCEPT ![w] = cache[run[w]]]
    /\ Step(w, IF pc[w] = "mark" THEN "markSave" ELSE "revokeSave")
    /\ UNCHANGED <<storeVars, otherVars, chatVars, run, beat>>

MarkSave(w) ==
    /\ pc[w] \in {"markSave", "revokeSave"}
    /\ cache' = [cache EXCEPT ![run[w]] = held[w]]
    /\ Step(w, IF pc[w] = "markSave" THEN "markRow" ELSE "revokeRow")
    /\ UNCHANGED <<otherVars, taskVars, chatVars, row, queue, lease, aborts>>

\* The row is saved, then a run that waited leaves the queue, and a turn is released.
MarkRow(w) ==
    /\ pc[w] \in {"markRow", "revokeRow"}
    /\ SaveRow(run[w], held[w])
    /\ IF pc[w] = "revokeRow" THEN Release(w, run[w])
                              ELSE queue' = RemoveFirst(queue, run[w]) /\ UNCHANGED lease
    /\ Return(w)
    /\ UNCHANGED <<otherVars, chatVars, cache, aborts>>

\* The turn is claimed: a last look at the abort key, then the run is running in Redis ...
Begin(w) ==
    LET r == run[w]
        begun == [status |-> "running", attempts |-> held[w].attempts + 1, started |-> TRUE]
    IN  /\ pc[w] = "claimed"
        /\ IF r \in aborts
           THEN Step(w, "revoke") /\ UNCHANGED <<cache, held>>
           ELSE /\ cache' = [cache EXCEPT ![r] = begun]
                /\ held' = [held EXCEPT ![w] = begun]
                /\ Step(w, "begin")
        /\ UNCHANGED <<otherVars, chatVars, row, queue, lease, aborts, run, beat>>

\* ... and in PostgreSQL.
BeginRow(w) ==
    /\ pc[w] = "begin"
    /\ SaveRow(run[w], held[w])
    /\ Step(w, "read")
    /\ UNCHANGED <<otherVars, taskVars, chatVars, cache, queue, lease, aborts>>

\* Mutant: the messages of an earlier attempt are not looked for.
ForgetMessages(w) ==
    /\ pc[w] = "read"
    /\ Step(w, "ask")
    /\ UNCHANGED <<storeVars, otherVars, taskVars, chatVars>>

\* ask_in_chat_session looks for the messages of an earlier attempt.  It may refuse before:
\* the session is archived, say.
ReadMessages(w) ==
    /\ pc[w] = "read"
    /\ \/ Step(w, CASE run[w] \in answered -> "completed"
                    [] run[w] \in asked \ answered -> "answer"
                    [] OTHER -> "ask")
       \/ Step(w, "failed")
    /\ UNCHANGED <<storeVars, otherVars, taskVars, chatVars>>

\* A message of run r is written.  uq_chat_messages_agent_run_role: a run has one message of
\* each role, so a second one is refused, and the attempt fails.
Write(messages, r) == r \notin messages /\ messages' = messages \cup {r}

\* The user message is committed before the Memory Agent is asked.
Ask(w) ==
    /\ pc[w] = "ask"
    /\ \/ Write(asked, run[w]) /\ Step(w, "answer")
       \/ Step(w, "failed") /\ UNCHANGED asked
    /\ UNCHANGED <<storeVars, otherVars, taskVars, answered>>

\* The answer is committed with the transaction that ends the stream.  The Memory Agent may
\* also refuse, and an abort may be seen only after the answer.
Answer(w) ==
    /\ pc[w] = "answer"
    /\ \/ /\ Write(answered, run[w])
          /\ \/ Step(w, "completed")
             \/ run[w] \in aborts /\ Step(w, "aborted")
       \/ Step(w, "failed") /\ UNCHANGED answered
    /\ UNCHANGED <<storeVars, otherVars, taskVars, asked>>

Executing(w) == pc[w] \in {"begin", "read", "ask", "answer"} \cup Terminal

\* Mutant: a task whose lease is gone ends as if it had answered.
CancelledCompleted(w) ==
    /\ pc[w] \in {"read", "ask", "answer"}
    /\ lease # w /\ Step(w, "completed")
    /\ UNCHANGED <<storeVars, otherVars, taskVars, chatVars>>

\* The monitors cancel the task: the user has asked for an abort, or the lease is gone.
Cancelled(w) ==
    /\ pc[w] \in {"read", "ask", "answer"}
    /\ \/ run[w] \in aborts /\ Step(w, "aborted")
       \/ lease # w /\ Step(w, "failed")
    /\ UNCHANGED <<storeVars, otherVars, taskVars, chatVars>>

\* The lease monitor renews the lease and reads the Redis record, as append_event does ...
BeatRead(w) ==
    /\ pc[w] \in {"read", "ask", "answer"}
    /\ lease = w /\ beat[w] = None
    /\ beat' = [beat EXCEPT ![w] = cache[run[w]]]
    /\ UNCHANGED <<storeVars, otherVars, chatVars, pc, run, held>>

\* ... and saves it in both stores, whatever they hold by then.
BeatSave(w) ==
    /\ beat[w] # None
    /\ cache' = [cache EXCEPT ![run[w]] = beat[w]]
    /\ SaveRow(run[w], beat[w])
    /\ beat' = [beat EXCEPT ![w] = None]
    /\ UNCHANGED <<otherVars, chatVars, queue, lease, aborts, pc, run, held>>

\* The end of a task: the monitors are cancelled, then the turn is released ...
Finish(w) ==
    /\ pc[w] \in Terminal
    /\ Release(w, run[w])
    /\ beat' = [beat EXCEPT ![w] = None]
    /\ held' = [held EXCEPT ![w] = [@ EXCEPT !.status = pc[w]]]
    /\ Step(w, "latest")
    /\ UNCHANGED <<otherVars, chatVars, row, cache, aborts, run>>

\* ... the record is read again and takes the final status ...
FinishRead(w) ==
    /\ pc[w] = "latest"
    /\ held' = [held EXCEPT ![w] = [cache[run[w]] EXCEPT !.status = held[w].status]]
    /\ Step(w, "save")
    /\ UNCHANGED <<storeVars, otherVars, chatVars, run, beat>>

\* ... is saved in Redis ...
FinishSave(w) ==
    /\ pc[w] = "save"
    /\ cache' = [cache EXCEPT ![run[w]] = held[w]]
    /\ Step(w, "final")
    /\ UNCHANGED <<otherVars, taskVars, chatVars, row, queue, lease, aborts>>

\* ... and in PostgreSQL, with the agent.run.failed event and the heartbeat's outcome.
FinishRow(w) ==
    /\ pc[w] = "final"
    /\ SaveRow(run[w], held[w])
    /\ Return(w)
    /\ UNCHANGED <<otherVars, chatVars, cache, queue, lease, aborts>>

-----------------------------------------------------------------------------
(* recover_agent_runs, which a worker executes for the beat.               *)

\* list_exhausted_runs gives a stale row its verdict, list_recoverable_runs puts it back.
Recovered(r) ==
    IF row[r].attempts >= MaxAttempts
    THEN [row[r] EXCEPT !.status = IF @ = "aborting" THEN "aborted" ELSE "failed"]
    ELSE [row[r] EXCEPT !.status = IF @ = "aborting" THEN @ ELSE "queued",
                        !.started = @ /\ row[r].status = "aborting"]

\* A row may be older than AGENT_RUN_STALE_SECONDS when nobody has reason to touch it: it
\* waits, or no worker that keeps its lease executes it.
MayBeStale(r) ==
    /\ row[r] # None /\ row[r].status \notin Terminal
    /\ row[r].status = "running" => \A w \in Workers : run[w] = r /\ Executing(w) => lease # w

\* One transaction settles or queues the stale rows.
RecoverRows(w) ==
    \E stale \in (SUBSET {r \in Runs : MayBeStale(r)}) \ {{}} :
        /\ pc[w] = "idle"
        /\ Troubles + Cardinality(stale) <= MaxTroubles
        /\ recoveries' = recoveries + Cardinality(stale)
        /\ row' = [r \in Runs |-> IF r \in stale THEN Recovered(r) ELSE row[r]]
        /\ todo' = [todo EXCEPT ![w] = {[run |-> r, record |-> Recovered(r)] : r \in stale}]
        /\ Step(w, "recover")
    /\ UNCHANGED <<chatVars, cache, queue, lease, aborts, broker, submit, taskVars, api, submits,
                   abortCount, crashes, pauses>>

\* Then Redis is made to follow, run by run.
RecoverPublish(w) ==
    \E published \in todo[w] :
        LET r == published.run
            rec == published.record
            kept == IF rec.status \in Terminal THEN cache[r].started ELSE FALSE
        IN  /\ pc[w] = "recover"
            /\ IF cache[r] # None
               THEN /\ cache' = [cache EXCEPT ![r] = [rec EXCEPT !.started = kept]]
                    /\ queue' = IF rec.status \in Terminal THEN RemoveFirst(queue, r) ELSE queue
               ELSE /\ IF rec.status \in Terminal
                       THEN UNCHANGED cache /\ queue' = RemoveFirst(queue, r)
                       ELSE CreateOrGetAndEnqueue(r, rec)
            /\ broker' = IF rec.status \in Terminal THEN broker
                         ELSE [broker EXCEPT ![r] = @ + 1]
            /\ todo' = [todo EXCEPT ![w] = @ \ {published}]
            /\ IF todo[w] = {published} THEN Return(w) ELSE UNCHANGED <<pc, taskVars>>
            /\ UNCHANGED <<chatVars, countVars, row, lease, aborts, submit, api>>

-----------------------------------------------------------------------------
(* abort_agent_run_api, and the interrupt and steer modes of               *)
(* control_agent_run_api.                                                  *)

\* The request reads the record and goes on only when it is not terminal.
AbortRead(r) ==
    LET seen == IF cache[r] # None THEN cache[r] ELSE row[r]
    IN  /\ api = None /\ Troubles < MaxTroubles
        /\ row[r] # None
        /\ seen.status \notin Terminal
        /\ abortCount' = abortCount + 1
        /\ api' = [step |-> "transition", run |-> r, record |-> seen]
        /\ UNCHANGED <<storeVars, workerVars, chatVars, broker, submit, submits, recoveries,
                       crashes, pauses>>

\* transition_to_aborting: the script never regresses a terminal record, and sets the abort
\* key only when there is a record to abort.
AbortTransition ==
    LET r == api.run
        wasQueued == ~api.record.started
        intent == IF cache[r] = None THEN [api.record EXCEPT !.status = "aborting"]
                  ELSE IF cache[r].status \in Terminal THEN cache[r]
                  ELSE [cache[r] EXCEPT !.status = "aborting"]
    IN  /\ api # None /\ api.step = "transition"
        /\ IF cache[r] # None /\ cache[r].status \notin Terminal
           THEN /\ cache' = [cache EXCEPT ![r] = intent]
                /\ aborts' = aborts \cup {r}
           ELSE UNCHANGED <<cache, aborts>>
        /\ api' = [api EXCEPT !.step = IF wasQueued THEN "save" ELSE "row", !.record = intent]
        /\ UNCHANGED <<workerVars, chatVars, countVars, row, queue, lease, broker, submit>>

\* A run that had not started when it was read is aborted by the request itself.
AbortSave ==
    LET aborted == [api.record EXCEPT !.status = "aborted"]
    IN  /\ api # None /\ api.step = "save"
        /\ cache' = [cache EXCEPT ![api.run] = aborted]
        /\ queue' = RemoveFirst(queue, api.run)
        /\ api' = [api EXCEPT !.step = "get"]
        /\ UNCHANGED <<workerVars, chatVars, countVars, row, lease, aborts, broker, submit>>

AbortGet ==
    /\ api # None /\ api.step = "get"
    /\ api' = [api EXCEPT !.step = "row", !.record = cache[api.run]]
    /\ UNCHANGED <<storeVars, workerVars, chatVars, countVars, broker, submit>>

\* The request's transaction writes what the request last read.
AbortRow ==
    /\ api # None /\ api.step = "row"
    /\ SaveRow(api.run, api.record)
    /\ api' = None
    /\ UNCHANGED <<workerVars, chatVars, countVars, cache, queue, lease, aborts, broker, submit>>

-----------------------------------------------------------------------------
(* Time and failures.                                                      *)

\* The lease of a dead worker runs out.
LeaseExpires ==
    /\ lease = Dead
    /\ lease' = None
    /\ UNCHANGED <<otherVars, taskVars, chatVars, row, cache, queue, aborts, pc>>

\* A live worker stalls for longer than its lease.
Pause(w) ==
    /\ lease = w /\ Troubles < MaxTroubles
    /\ pauses' = pauses + 1
    /\ lease' = None
    /\ UNCHANGED <<workerVars, chatVars, row, cache, queue, aborts, broker, submit, api, submits,
                   abortCount, recoveries, crashes>>

\* A worker process dies; task_acks_late and task_reject_on_worker_lost put its task back.
Crash(w) ==
    /\ pc[w] # "idle" /\ Troubles < MaxTroubles
    /\ crashes' = crashes + 1
    /\ broker' = IF pc[w] = "recover" THEN broker ELSE [broker EXCEPT ![run[w]] = @ + 1]
    /\ lease' = IF lease = w THEN Dead ELSE lease
    /\ todo' = [todo EXCEPT ![w] = {}]
    /\ Return(w)
    /\ UNCHANGED <<chatVars, row, cache, queue, aborts, submit, api, submits, abortCount,
                   recoveries, pauses>>

Work(w) ==
    \/ \E r \in Runs : Take(w, r)
    \/ Wait(w) \/ MarkRead(w) \/ MarkSave(w) \/ MarkRow(w)
    \/ Begin(w) \/ BeginRow(w) \/ ReadMessages(w) \/ Ask(w) \/ Answer(w)
    \/ BeatSave(w)
    \/ Finish(w) \/ FinishRead(w) \/ FinishSave(w) \/ FinishRow(w)
    \/ RecoverPublish(w)

Abort == AbortTransition \/ AbortSave \/ AbortGet \/ AbortRow

Next ==
    \/ \E r \in Runs :
          \/ SubmitRow(r) \/ SubmitEnqueue(r) \/ SubmitSend(r) \/ SubmitFails(r)
          \/ AbortRead(r)
    \/ \E w \in Workers :
          Work(w) \/ Cancelled(w) \/ BeatRead(w) \/ RecoverRows(w) \/ Pause(w) \/ Crash(w)
    \/ Abort \/ LeaseExpires

Spec == Init /\ [][Next]_vars

-----------------------------------------------------------------------------
\* Every variable keeps the values its row, key or role allows; in particular the queue
\* holds a run at most once.
TypeOK ==
    /\ row \in [Runs -> Record \cup {None}]
    /\ cache \in [Runs -> Record \cup {None}]
    /\ queue \in Seq(Runs) /\ IsInjective(queue)
    /\ lease \in Workers \cup {None, Dead}
    /\ aborts \subseteq Runs
    /\ \A r \in Runs : submit[r] \in {"idle", "commit", "send"}
    /\ \A w \in Workers : run[w] \in Runs \cup {None}
    /\ \A w \in Workers : (pc[w] \in {"idle", "recover"}) = (run[w] = None)
    /\ \A w \in Workers : todo[w] \subseteq [run : Runs, record : Record]
    /\ \A w \in Workers : (todo[w] # {}) = (pc[w] = "recover")

\* Runs of a session execute one at a time, through crashes, recovery and repeated tasks,
\* unless a worker stalls for longer than its lease.
OneAtATime == Cardinality({w \in Workers : Executing(w)}) <= 1 + pauses

\* Tasks about to write a message of run r.
Asking(r) == {w \in Workers : run[w] = r /\ pc[w] = "ask"}
Answering(r) == {w \in Workers : run[w] = r /\ pc[w] = "answer"}

\* However often a run is executed, a task finds the messages of earlier attempts.  One that
\* is about to write a message the run has, which the constraint would refuse and so make a
\* failure of the run, costs a stall of a worker for longer than its lease.
CollisionsNeedStalls ==
    \A r \in Runs :
        /\ r \in asked => Cardinality(Asking(r)) <= pauses
        /\ r \in answered => Cardinality(Answering(r)) <= pauses

\* A run reported completed, in either store, has its answer among the chat's messages.
CompletedIsAnswered ==
    \A r \in Runs : \A copy \in {row[r], cache[r]} :
        copy # None /\ copy.status = "completed" => r \in answered

\* An attempt beyond the first needs a crash or a stalled worker: neither recovery of a run
\* that only waits for its turn nor a repeated submission executes it again.
ExtraAttemptsNeedFaults ==
    \A r \in Runs : row[r] # None => row[r].attempts <= 1 + crashes + pauses

\* A terminal run is never returned to a non-terminal state (docs/runtime-contracts.md).
TerminalStays ==
    [][\A r \in Runs :
          row[r] # None /\ row[r].status \in Terminal => row'[r].status \in Terminal]_vars
=============================================================================

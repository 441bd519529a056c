-------------------------------- MODULE Outbox --------------------------------
(***************************************************************************)
(* Mneme's transactional outbox (domains/tasks/outbox.py): business        *)
(* transactions insert rows, a beat task lists the rows that are due and   *)
(* hands them to their targets one after another.                          *)
(*                                                                         *)
(* Every status change is a transaction of its own that overwrites the     *)
(* row; what a dispatcher knows of the row is the snapshot it loaded.      *)
(* The image runs one dispatcher (CELERY_WORKER_CONCURRENCY=1); nothing in *)
(* the code keeps a second one away.                                       *)
(***************************************************************************)
EXTENDS Integers, FiniteSets

CONSTANTS
    Operations,     \* the idempotency keys operations are enqueued with
    MemoryAgent,    \* the operations whose target is the Memoria server
    Dispatchers,    \* processes that run dispatch_pending_outbox_events
    Limit,          \* rows listed at once
    MaxAttempts,    \* max_attempts of a row
    None,           \* the event of a dispatcher that has none at hand
    MaxFaults       \* bound on crashes and database errors

ASSUME ConstantsAssumption ==
    /\ MemoryAgent \subseteq Operations
    /\ Limit \in Nat \ {0}
    /\ MaxAttempts \in Nat \ {0}
    /\ MaxFaults \in Nat
    /\ IsFiniteSet(Operations)
    /\ None \notin Operations

VARIABLES
    status,         \* [Operations -> status of its row, or "absent"]
    created,        \* [Operations -> rank of its row by creation time, 0 if absent]
    attempts,       \* [Operations -> attempt_count of its row]
    due,            \* rows whose next_attempt_at has passed or is null
    batch,          \* [Dispatchers -> listed events not yet processed]
    current,        \* [Dispatchers -> event being processed]
    seen,           \* [Dispatchers -> attempt_count in the snapshot of it]
    pc,             \* [Dispatchers -> step of process_outbox_event_by_id]
    tries,          \* [Operations -> calls of its target so far]
    applied,        \* operations that have taken effect
    faults          \* crashes and database errors so far

rowVars        == <<status, created, attempts, due>>
dispatcherVars == <<batch, current, seen, pc>>
targetVars     == <<tries, applied>>
vars == <<rowVars, dispatcherVars, targetVars, faults>>

-----------------------------------------------------------------------------
\* Mutant: a failed row is not listed again.
PendingOnly == {"pending"}

DispatchableStatuses == {"pending", "failed"}

\* Mutant: one attempt too many.
ShouldDeadLetterLate(n) == n > MaxAttempts

ShouldDeadLetter(n) == n >= MaxAttempts

\* The status mark_outbox_failed gives a row after its n-th attempt.
StatusAfterFailure(o, retryable, n) ==
    IF ShouldDeadLetter(n) \/ (o \in MemoryAgent /\ ~retryable)
    THEN "dead_letter" ELSE "failed"

Listable == {o \in due : status[o] \in DispatchableStatuses}

\* The Limit oldest of the rows in S.
Oldest(S) == {o \in S : Cardinality({p \in S : created[p] <= created[o]}) <= Limit}

\* A dispatcher turns to the rest of its batch, or is done with it.
GoOn(d) ==
    /\ current' = [current EXCEPT ![d] = None]
    /\ pc' = [pc EXCEPT ![d] = IF batch[d] = {} THEN "idle" ELSE "load"]

-----------------------------------------------------------------------------
Init ==
    /\ status = [o \in Operations |-> "absent"]
    /\ created = [o \in Operations |-> 0]
    /\ attempts = [o \in Operations |-> 0]
    /\ due = {}
    /\ batch = [d \in Dispatchers |-> {}]
    /\ current = [d \in Dispatchers |-> None]
    /\ seen = [d \in Dispatchers |-> 0]
    /\ pc = [d \in Dispatchers |-> "idle"]
    /\ tries = [o \in Operations |-> 0]
    /\ applied = {}
    /\ faults = 0

Enqueued == {o \in Operations : status[o] # "absent"}

\* ON CONFLICT DO NOTHING: enqueueing a key again finds its row and changes nothing.
Enqueue(o) ==
    /\ status[o] = "absent"
    /\ status' = [status EXCEPT ![o] = "pending"]
    /\ created' = [created EXCEPT ![o] = Cardinality(Enqueued) + 1]
    /\ due' = due \cup {o}
    /\ UNCHANGED <<attempts, dispatcherVars, targetVars, faults>>

\* The delay calculate_next_attempt_at set runs out.
BecomeDue(o) ==
    /\ status[o] = "failed"
    /\ o \notin due
    /\ due' = due \cup {o}
    /\ UNCHANGED <<status, created, attempts, dispatcherVars, targetVars, faults>>

\* The beat task lists rows; the read takes no lock.
List(d) ==
    /\ pc[d] = "idle"
    /\ Listable # {}
    /\ batch' = [batch EXCEPT ![d] = Oldest(Listable)]
    /\ pc' = [pc EXCEPT ![d] = "load"]
    /\ UNCHANGED <<rowVars, current, seen, targetVars, faults>>

\* load_outbox_event_snapshot of the oldest event left, again without a lock, and the
\* early return on a row another dispatcher has changed meanwhile.
Load(d) ==
    /\ pc[d] = "load"
    /\ \E o \in batch[d] :
          /\ \A p \in batch[d] : created[o] <= created[p]
          /\ batch' = [batch EXCEPT ![d] = @ \ {o}]
          /\ \/ /\ status[o] \in {"pending", "failed"}
                /\ current' = [current EXCEPT ![d] = o]
                /\ seen' = [seen EXCEPT ![d] = attempts[o]]
                /\ pc' = [pc EXCEPT ![d] = "mark"]
             \/ /\ status[o] \notin {"pending", "failed"}
                /\ pc' = [pc EXCEPT ![d] = IF batch[d] = {o} THEN "idle" ELSE "load"]
                /\ UNCHANGED <<current, seen>>
    /\ UNCHANGED <<rowVars, targetVars, faults>>

\* mark_outbox_running overwrites the row from the snapshot.
MarkRunning(d) ==
    LET o == current[d] IN
    /\ pc[d] = "mark"
    /\ status' = [status EXCEPT ![o] = "running"]
    /\ attempts' = [attempts EXCEPT ![o] = seen[d] + 1]
    /\ due' = due \cup {o}
    /\ pc' = [pc EXCEPT ![d] = "apply"]
    /\ UNCHANGED <<created, batch, current, seen, targetVars, faults>>

\* Mutant: the call counts as a success whatever the target says.
ApplyIgnoringErrors(d) ==
    LET o == current[d] IN
    /\ pc[d] = "apply"
    /\ tries' = [tries EXCEPT ![o] = @ + 1]
    /\ applied' \in {applied, applied \cup {o}}
    /\ pc' = [pc EXCEPT ![d] = "succeed"]
    /\ UNCHANGED <<rowVars, batch, current, seen, faults>>

\* apply_outbox_event. An error may come after the target has acted (a lost answer).
Apply(d) ==
    LET o == current[d] IN
    /\ pc[d] = "apply"
    /\ tries' = [tries EXCEPT ![o] = @ + 1]
    /\ \/ applied' = applied \cup {o} /\ pc' = [pc EXCEPT ![d] = "succeed"]
       \/ /\ applied' \in {applied, applied \cup {o}}
          /\ \E error \in {"retryable", "permanent"} : pc' = [pc EXCEPT ![d] = error]
    /\ UNCHANGED <<rowVars, batch, current, seen, faults>>

MarkSucceeded(d) ==
    LET o == current[d] IN
    /\ pc[d] = "succeed"
    /\ status' = [status EXCEPT ![o] = "succeeded"]
    /\ due' = due \cup {o}
    /\ GoOn(d)
    /\ UNCHANGED <<created, attempts, batch, seen, targetVars, faults>>

MarkFailed(d) ==
    LET o == current[d]
        verdict == StatusAfterFailure(o, pc[d] = "retryable", seen[d] + 1)
    IN  /\ pc[d] \in {"retryable", "permanent"}
        /\ status' = [status EXCEPT ![o] = verdict]
        /\ attempts' = [attempts EXCEPT ![o] = seen[d] + 1]
        /\ due' = IF verdict = "failed" THEN due \ {o} ELSE due \cup {o}
        /\ GoOn(d)
        /\ UNCHANGED <<created, batch, seen, targetVars, faults>>

\* A status change fails: process_outbox_event_by_id raises, the loop goes on with the
\* next event and leaves the row as it is.
DatabaseError(d) ==
    /\ pc[d] \in {"mark", "succeed", "retryable", "permanent"}
    /\ faults < MaxFaults
    /\ faults' = faults + 1
    /\ GoOn(d)
    /\ UNCHANGED <<rowVars, batch, seen, targetVars>>

\* The process dies. Celery redelivers the beat task, which lists anew.
Crash(d) ==
    /\ pc[d] # "idle"
    /\ faults < MaxFaults
    /\ faults' = faults + 1
    /\ batch' = [batch EXCEPT ![d] = {}]
    /\ current' = [current EXCEPT ![d] = None]
    /\ pc' = [pc EXCEPT ![d] = "idle"]
    /\ UNCHANGED <<rowVars, seen, targetVars>>

Dispatch(d) ==
    List(d) \/ Load(d) \/ MarkRunning(d) \/ Apply(d) \/ MarkSucceeded(d) \/ MarkFailed(d)

Next ==
    \/ \E o \in Operations : Enqueue(o) \/ BecomeDue(o)
    \/ \E d \in Dispatchers : Dispatch(d) \/ DatabaseError(d) \/ Crash(d)

Spec == Init /\ [][Next]_vars

\* The beat fires every 15 seconds, targets answer or time out, delays are finite.
Fairness ==
    /\ \A o \in Operations : WF_vars(BecomeDue(o))
    /\ \A d \in Dispatchers : WF_vars(Dispatch(d))

FairSpec == Spec /\ Fairness

-----------------------------------------------------------------------------
Statuses == {"absent", "pending", "running", "failed", "succeeded", "dead_letter"}

\* Every variable keeps the values its column or role allows; no attempt counter
\* passes its limit.
TypeOK ==
    /\ status \in [Operations -> Statuses]
    /\ created \in [Operations -> Nat]
    /\ attempts \in [Operations -> 0 .. MaxAttempts]
    /\ due \subseteq Operations
    /\ batch \in [Dispatchers -> SUBSET Operations]
    /\ current \in [Dispatchers -> Operations \cup {None}]
    /\ seen \in [Dispatchers -> Nat]
    /\ pc \in [Dispatchers -> {"idle", "load", "mark", "apply", "succeed",
                               "retryable", "permanent"}]
    /\ tries \in [Operations -> Nat]
    /\ applied \subseteq Operations
    /\ faults \in 0 .. MaxFaults

\* What a caller sees of a row.
Phase(s) ==
    IF s \in {"pending", "running", "failed"} THEN "waiting"
    ELSE IF s = "succeeded" THEN "done"
    ELSE IF s = "dead_letter" THEN "dead"
    ELSE "absent"

Contract == INSTANCE DeliveryContract WITH
    Refusable <- MemoryAgent,
    phase <- [o \in Operations |-> Phase(status[o])]

\* With one dispatcher the outbox keeps its contract: what callers see of a row, the
\* calls of its target and its effects move as DeliveryContract says. An operation is
\* reported succeeded only after it took effect, dead only when its attempts are used up
\* or Memoria refused it, no target is called too often, and no verdict is taken back.
KeepsContract == Contract!Spec

\* A row nobody works on and nobody will look at again.
Orphaned(o) == status[o] = "running" /\ \A d \in Dispatchers : current[d] # o

\* Every row is brought to a verdict, however often its target fails and whatever
\* older rows are retried before it, unless a fault struck while it was marked running.
NoRowNeglected ==
    \A o \in Operations :
        status[o] \in {"pending", "failed"}
            ~> status[o] \in {"succeeded", "dead_letter"} \/ Orphaned(o)

\* Does not hold with two dispatchers, and no run checks it: a row that has succeeded is not
\* dispatched again.  The slower dispatcher marks running what the faster one has finished.
SucceededIsFinal ==
    [][\A o \in Operations : status[o] = "succeeded" => status'[o] = "succeeded"]_vars

\* Does not hold when a dispatcher dies, and no run checks it: a successful side effect is
\* followed by a durable succeeded transition, or by a retry that is not lost.  Nothing looks
\* at running rows again.
EffectIsAcknowledged ==
    \A o \in Operations : o \in applied ~> status[o] \in {"succeeded", "dead_letter"}
=============================================================================

---------------------------- MODULE ChannelDelivery ----------------------------
(***************************************************************************)
(* One delivery of an answer to an external chat (channels/delivery.py,    *)
(* crud/channel.py): a message in several parts, sent in order, with a     *)
(* cursor that lets a later attempt resume after the parts already sent.   *)
(*                                                                         *)
(* A worker claims the row under a row lock, but the verdict it writes     *)
(* after sending asks nobody: meanwhile the claim may have been declared   *)
(* stale, or the user may have asked for a retry.                          *)
(***************************************************************************)
EXTENDS Integers

CONSTANTS
    Workers,        \* worker processes of the channel queue
    PartCount,      \* number of parts of the message
    MaxAttempts,    \* max_attempts of the row
    MaxRetries,     \* bound on the user's retries
    MaxFaults       \* bound on crashes and lost answers

ASSUME ConstantsAssumption ==
    /\ PartCount \in Nat \ {0}
    /\ MaxAttempts \in Nat \ {0}
    /\ MaxRetries \in Nat
    /\ MaxFaults \in Nat

Parts == 0 .. PartCount - 1

VARIABLES
    status,         \* status of the row, or "absent"
    attempts,       \* its attempt_count
    cursor,         \* its parts_sent
    due,            \* its next_attempt_at is null or has passed
    lock,           \* its locked_at: "none", "fresh" or "stale"
    pc,             \* [Workers -> step of process_channel_delivery]
    claimed,        \* [Workers -> parts_sent and attempt_count as claimed]
    sent,           \* [Workers -> parts sent in this attempt]
    delivered,      \* [Parts -> how often the chat has got it]
    retries,        \* retries the user asked for
    owed,           \* a retry was promised and no attempt has begun since
    faults          \* crashes and lost answers so far

rowVars    == <<status, attempts, cursor, due, lock>>
workerVars == <<pc, claimed, sent>>
userVars   == <<retries, owed>>
vars == <<rowVars, workerVars, delivered, userVars, faults>>

-----------------------------------------------------------------------------
Init ==
    /\ status = "absent"
    /\ attempts = 0
    /\ cursor = 0
    /\ due = TRUE
    /\ lock = "none"
    /\ pc = [w \in Workers |-> "idle"]
    /\ claimed = [w \in Workers |-> [cursor |-> 0, attempt |-> 0]]
    /\ sent = [w \in Workers |-> 0]
    /\ delivered = [i \in Parts |-> 0]
    /\ retries = 0
    /\ owed = FALSE
    /\ faults = 0

\* enqueue_answer_channel_delivery; the idempotency key makes a repetition find the row.
Enqueue ==
    /\ status = "absent"
    /\ status' = "pending"
    /\ UNCHANGED <<attempts, cursor, due, lock, workerVars, delivered, userVars, faults>>

\* claim_channel_delivery, which checks again what the listing saw.
Claim(w) ==
    /\ pc[w] = "idle"
    /\ status \in {"pending", "failed"} /\ due
    /\ status' = "running"
    /\ attempts' = attempts + 1
    /\ lock' = "fresh"
    /\ pc' = [pc EXCEPT ![w] = "send"]
    /\ claimed' = [claimed EXCEPT ![w] = [cursor |-> cursor, attempt |-> attempts + 1]]
    /\ sent' = [sent EXCEPT ![w] = 0]
    /\ owed' = FALSE
    /\ UNCHANGED <<cursor, due, delivered, retries, faults>>

\* The adapter sends the parts after the cursor one by one.
SendPart(w) ==
    LET part == claimed[w].cursor + sent[w] IN
    /\ pc[w] = "send"
    /\ \/ /\ part < PartCount
          /\ delivered' = [delivered EXCEPT ![part] = @ + 1]
          /\ sent' = [sent EXCEPT ![w] = @ + 1]
          /\ UNCHANGED pc
       \/ /\ part >= PartCount
          /\ pc' = [pc EXCEPT ![w] = "complete"]
          /\ UNCHANGED <<delivered, sent>>
    /\ UNCHANGED <<rowVars, claimed, userVars, faults>>

\* A part is refused, for now or for good; the adapter reports the parts sent so far.
SendRefused(w) ==
    /\ pc[w] = "send"
    /\ claimed[w].cursor + sent[w] < PartCount
    /\ \E verdict \in {"retryable", "permanent"} : pc' = [pc EXCEPT ![w] = verdict]
    /\ UNCHANGED <<rowVars, claimed, sent, delivered, userVars, faults>>

\* The chat gets a part and the answer is lost, or an error the adapter does not know
\* makes process_channel_delivery count no part at all.
SendDoubtful(w) ==
    LET part == claimed[w].cursor + sent[w] IN
    /\ pc[w] = "send"
    /\ faults < MaxFaults
    /\ faults' = faults + 1
    /\ part < PartCount
    /\ pc' = [pc EXCEPT ![w] = "retryable"]
    /\ \/ delivered' = [delivered EXCEPT ![part] = @ + 1] /\ UNCHANGED sent
       \/ sent' = [sent EXCEPT ![w] = 0] /\ UNCHANGED delivered
    /\ UNCHANGED <<rowVars, claimed, userVars>>

\* Mutants: the parts sent before an error are not recorded; the part that raised the
\* error is counted.
ReportedNone(w) == 0
ReportedWithCurrent(w) == sent[w] + 1

\* The sent_count of the adapter's result or error.
Reported(w) == sent[w]

\* Mutant: one attempt too many.
ExhaustedLate(w) == claimed[w].attempt > MaxAttempts

Exhausted(w) == claimed[w].attempt >= MaxAttempts

\* complete_channel_delivery, whatever the row says by now.
Complete(w) ==
    /\ pc[w] = "complete"
    /\ status' = "succeeded"
    /\ cursor' = cursor + Reported(w)
    /\ due' = TRUE
    /\ lock' = "none"
    /\ pc' = [pc EXCEPT ![w] = "idle"]
    /\ UNCHANGED <<attempts, claimed, sent, delivered, userVars, faults>>

\* _mark_delivery_failure decides on the attempt it claimed; fail_channel_delivery
\* writes the verdict whatever the row says by now.
Fail(w) ==
    LET verdict == IF pc[w] = "retryable" /\ ~Exhausted(w) THEN "failed" ELSE "dead_letter"
    IN  /\ pc[w] \in {"retryable", "permanent"}
        /\ status' = verdict
        /\ cursor' = cursor + Reported(w)
        /\ due' = (verdict = "dead_letter")
        /\ lock' = "none"
        /\ pc' = [pc EXCEPT ![w] = "idle"]
        /\ UNCHANGED <<attempts, claimed, sent, delivered, userVars, faults>>

\* The retry delay runs out.
BecomeDue ==
    /\ status = "failed" /\ ~due
    /\ due' = TRUE
    /\ UNCHANGED <<status, attempts, cursor, lock, workerVars, delivered, userVars, faults>>

\* CHANNEL_DELIVERY_STALE_SECONDS pass after a claim.
LockExpires ==
    /\ status = "running" /\ lock = "fresh"
    /\ lock' = "stale"
    /\ UNCHANGED <<status, attempts, cursor, due, workerVars, delivered, userVars, faults>>

\* Mutant: stale recovery looks for rows that are already failed.
RecoverStaleFailed(w) ==
    /\ pc[w] = "idle"
    /\ status = "failed" /\ lock = "stale"
    /\ due' = TRUE
    /\ lock' = "none"
    /\ UNCHANGED <<status, attempts, cursor, workerVars, delivered, userVars, faults>>

\* A dispatching worker begins by failing the stale claims.
RecoverStale(w) ==
    /\ pc[w] = "idle"
    /\ status = "running" /\ lock = "stale"
    /\ status' = "failed"
    /\ due' = TRUE
    /\ lock' = "none"
    /\ UNCHANGED <<attempts, cursor, workerVars, delivered, userVars, faults>>

\* retry_channel_delivery: the user puts any unfinished delivery back to the start of
\* its attempts, also one that is being sent, and is told it is queued.
Retry ==
    /\ retries < MaxRetries
    /\ status \notin {"absent", "succeeded"}
    /\ status' = "pending"
    /\ attempts' = 0
    /\ due' = TRUE
    /\ lock' = "none"
    /\ retries' = retries + 1
    /\ owed' = TRUE
    /\ UNCHANGED <<cursor, workerVars, delivered, faults>>

\* The process dies, or its last transaction fails.
Crash(w) ==
    /\ pc[w] # "idle"
    /\ faults < MaxFaults
    /\ faults' = faults + 1
    /\ pc' = [pc EXCEPT ![w] = "idle"]
    /\ UNCHANGED <<rowVars, claimed, sent, delivered, userVars>>

Work(w) ==
    \/ Claim(w) \/ RecoverStale(w)
    \/ SendPart(w) \/ SendRefused(w) \/ Complete(w) \/ Fail(w)

Next ==
    \/ Enqueue \/ BecomeDue \/ LockExpires \/ Retry
    \/ \E w \in Workers : Work(w) \/ SendDoubtful(w) \/ Crash(w)

Spec == Init /\ [][Next]_vars

\* The beat fires every 10 seconds, the adapter answers or times out, time passes.
Fairness ==
    /\ WF_vars(BecomeDue) /\ WF_vars(LockExpires)
    /\ \A w \in Workers : WF_vars(Work(w))

FairSpec == Spec /\ Fairness

-----------------------------------------------------------------------------
\* Every variable keeps the values its column or role allows; in particular the cursor
\* stays within the message.
TypeOK ==
    /\ status \in {"absent", "pending", "running", "failed", "succeeded", "dead_letter"}
    /\ attempts \in Nat
    /\ cursor \in 0 .. PartCount
    /\ due \in BOOLEAN
    /\ lock \in {"none", "fresh", "stale"}
    /\ pc \in [Workers -> {"idle", "send", "complete", "retryable", "permanent"}]
    /\ claimed \in [Workers -> [cursor : 0 .. PartCount, attempt : Nat]]
    /\ sent \in [Workers -> 0 .. PartCount]
    /\ delivered \in [Parts -> Nat]
    /\ retries \in 0 .. MaxRetries
    /\ owed \in BOOLEAN
    /\ faults \in 0 .. MaxFaults

\* No part is skipped: a part the cursor has passed was really delivered, parts arrive
\* in order, and a delivery reported succeeded is complete, through partial failures,
\* crashes and the user's retries.
NoPartSkipped ==
    /\ \A i \in Parts : i < cursor => delivered[i] > 0
    /\ \A i \in Parts \ {0} : delivered[i] > 0 => delivered[i - 1] > 0
    /\ status = "succeeded" => \A i \in Parts : delivered[i] > 0

\* The chat gets a part again only for a crash or a lost answer, never for a refusal of
\* a later part or a retry of the user.
DuplicatesNeedFaults == \A i \in Parts : delivered[i] <= 1 + faults

\* An attempt beyond max_attempts needs a crash: stale recovery puts a row back without
\* looking at its attempts, every verdict looks at them.
ExtraAttemptsNeedFaults == attempts <= MaxAttempts + faults

\* A delivery does not hang: whatever crashes, it is delivered or given up.
EventuallySettled ==
    status = "pending" ~> status \in {"succeeded", "dead_letter"}

\* Does not hold, and no run checks it: a retry the user was promised ("channel delivery
\* queued for retry") is carried out.  The verdict of an attempt in flight overwrites it.
RetryIsHonoured == owed ~> ~owed \/ status = "succeeded"
=============================================================================

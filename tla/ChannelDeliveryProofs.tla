------------------------- MODULE ChannelDeliveryProofs -------------------------
(***************************************************************************)
(* TLAPS proofs about ChannelDelivery, for any number of parts, attempts,  *)
(* retries and faults, and the one worker the image runs: with a second    *)
(* one, two verdicts could add their counts to one cursor.                 *)
(***************************************************************************)
EXTENDS ChannelDelivery, TLAPS

\* The channel queue has one worker process.
OneWorker == \A v, w \in Workers : v = w

\* Where the attempt of worker w has got to.
Reached(w) == claimed[w].cursor + sent[w]

\* A worker that is sending continues from the cursor of the row: nobody else moves it.
CursorKept ==
    \A w \in Workers : pc[w] # "idle" =>
        /\ claimed[w].cursor = cursor
        /\ Reached(w) <= PartCount
        /\ pc[w] = "complete" => Reached(w) = PartCount

\* The parts of the attempt in progress were delivered, too.
SentDelivered ==
    \A w \in Workers : pc[w] # "idle" =>
        \A i \in Parts : i < Reached(w) => delivered[i] > 0

\* Parts that are still to be sent were delivered by faults only.
UnsentNeedFaults ==
    /\ \A w \in Workers : pc[w] # "idle" =>
          \A i \in Parts : i >= Reached(w) => delivered[i] <= faults
    /\ (\A w \in Workers : pc[w] = "idle") =>
          \A i \in Parts : i >= cursor => delivered[i] <= faults

\* An attempt that can still be made, or made again, is within the limit.
AttemptsLeft ==
    /\ status \in {"absent", "pending", "failed"} => attempts < MaxAttempts + faults
    /\ \A w \in Workers : pc[w] # "idle" =>
          /\ attempts \in {0, claimed[w].attempt}
          /\ claimed[w].attempt <= MaxAttempts + faults
    /\ status = "running" /\ (\A w \in Workers : pc[w] = "idle") =>
          attempts < MaxAttempts + faults

\* Every variable keeps its type; in particular the cursor stays within the message.
LEMMA TypeStep == TypeOK /\ CursorKept /\ [Next]_vars => TypeOK'
<1> SUFFICES ASSUME TypeOK, CursorKept, [Next]_vars PROVE TypeOK'
    OBVIOUS
<1> USE ConstantsAssumption DEF TypeOK, rowVars, workerVars, userVars
<1>1. CASE Enqueue
    BY <1>1 DEF Enqueue
<1>2. CASE BecomeDue
    BY <1>2 DEF BecomeDue
<1>3. CASE LockExpires
    BY <1>3 DEF LockExpires
<1>4. CASE Retry
    BY <1>4 DEF Retry
<1>5. ASSUME NEW w \in Workers, Claim(w) PROVE TypeOK'
  <2>1. [cursor |-> cursor, attempt |-> attempts + 1] \in [cursor : 0 .. PartCount, attempt : Nat]
      OBVIOUS
  <2>2. claimed' \in [Workers -> [cursor : 0 .. PartCount, attempt : Nat]]
      BY <1>5, <2>1 DEF Claim
  <2>3. /\ sent' \in [Workers -> 0 .. PartCount] /\ attempts' \in Nat
        /\ pc' \in [Workers -> {"idle", "send", "complete", "retryable", "permanent"}]
      BY <1>5 DEF Claim
  <2> QED BY <1>5, <2>2, <2>3 DEF Claim
<1>6. ASSUME NEW w \in Workers, RecoverStale(w) PROVE TypeOK'
    BY <1>6 DEF RecoverStale
<1>7. ASSUME NEW w \in Workers, SendPart(w) PROVE TypeOK'
  <2>1. sent' \in [Workers -> 0 .. PartCount]
      BY <1>7 DEF SendPart
  <2>2. delivered' \in [Parts -> Nat]
      BY <1>7 DEF SendPart
  <2>3. pc' \in [Workers -> {"idle", "send", "complete", "retryable", "permanent"}]
      BY <1>7 DEF SendPart
  <2> QED BY <1>7, <2>1, <2>2, <2>3 DEF SendPart
<1>8. ASSUME NEW w \in Workers, SendRefused(w) PROVE TypeOK'
    BY <1>8 DEF SendRefused
<1>9. ASSUME NEW w \in Workers, SendDoubtful(w) PROVE TypeOK'
  <2>1. sent' \in [Workers -> 0 .. PartCount]
      BY <1>9 DEF SendDoubtful
  <2>2. delivered' \in [Parts -> Nat]
      BY <1>9 DEF SendDoubtful
  <2>3. pc' \in [Workers -> {"idle", "send", "complete", "retryable", "permanent"}]
      BY <1>9 DEF SendDoubtful
  <2> QED BY <1>9, <2>1, <2>2, <2>3 DEF SendDoubtful
<1>10. ASSUME NEW w \in Workers, Crash(w) PROVE TypeOK'
    BY <1>10 DEF Crash
<1>11. ASSUME NEW w \in Workers, Complete(w) \/ Fail(w) PROVE cursor + sent[w] \in 0 .. PartCount
  <2>1. pc[w] # "idle"
      BY <1>11 DEF Complete, Fail
  <2>2. Reached(w) <= PartCount /\ claimed[w].cursor = cursor
      BY <2>1 DEF CursorKept
  <2> QED BY <2>2 DEF Reached
<1>12. ASSUME NEW w \in Workers, Complete(w) PROVE TypeOK'
    BY <1>11, <1>12 DEF Complete, Reported
<1>13. ASSUME NEW w \in Workers, Fail(w) PROVE TypeOK'
    BY <1>11, <1>13 DEF Fail, Reported
<1>14. CASE UNCHANGED vars
    BY <1>14 DEF vars
<1> QED BY <1>1, <1>2, <1>3, <1>4, <1>5, <1>6, <1>7, <1>8, <1>9, <1>10, <1>12, <1>13, <1>14
        DEF Next, Work

\* Who moves neither the cursor nor a worker nor the chat disturbs nothing.
LEMMA Unmoved ==
    ASSUME CursorKept, SentDelivered, UnsentNeedFaults, NoPartSkipped, DuplicatesNeedFaults,
           UNCHANGED <<cursor, workerVars, delivered, faults>>,
           status' = "succeeded" => status = "succeeded"
    PROVE  CursorKept' /\ SentDelivered' /\ UnsentNeedFaults' /\ NoPartSkipped'
             /\ DuplicatesNeedFaults'
BY DEF CursorKept, SentDelivered, UnsentNeedFaults, NoPartSkipped, DuplicatesNeedFaults,
   Reached, workerVars

\* The cursor, and what has been delivered.
LEMMA DeliveredStep ==
    OneWorker /\ TypeOK /\ TypeOK' /\ CursorKept /\ SentDelivered /\ UnsentNeedFaults
      /\ NoPartSkipped /\ DuplicatesNeedFaults /\ [Next]_vars
    => CursorKept' /\ SentDelivered' /\ UnsentNeedFaults' /\ NoPartSkipped'
         /\ DuplicatesNeedFaults'
<1> DEFINE Inv == CursorKept /\ SentDelivered /\ UnsentNeedFaults /\ NoPartSkipped
                    /\ DuplicatesNeedFaults
<1> SUFFICES ASSUME OneWorker, TypeOK, TypeOK', Inv, [Next]_vars PROVE Inv'
    OBVIOUS
<1> USE ConstantsAssumption
<1>1. CASE Enqueue \/ BecomeDue \/ LockExpires \/ Retry
  <2>1. UNCHANGED <<cursor, workerVars, delivered, faults>>
        /\ (status' = "succeeded" => status = "succeeded")
      BY <1>1 DEF Enqueue, BecomeDue, LockExpires, Retry
  <2> QED BY <2>1, Unmoved
<1>2. ASSUME NEW w \in Workers, Claim(w) PROVE Inv'
  <2>1. /\ UNCHANGED <<cursor, delivered, faults>> /\ status' = "running"
        /\ pc[w] = "idle" /\ pc'[w] = "send" /\ claimed'[w].cursor = cursor /\ sent'[w] = 0
      BY <1>2 DEF Claim, TypeOK
  <2>2. \A v \in Workers : v = w
      BY DEF OneWorker
  <2>3. Reached(w)' = cursor /\ cursor \in 0 .. PartCount
      BY <2>1 DEF Reached, TypeOK
  <2> QED BY <2>1, <2>2, <2>3 DEF CursorKept, SentDelivered, UnsentNeedFaults, NoPartSkipped,
             DuplicatesNeedFaults, Reached
<1>3. ASSUME NEW w \in Workers, RecoverStale(w) PROVE Inv'
  <2>1. UNCHANGED <<cursor, workerVars, delivered, faults>> /\ status' = "failed"
      BY <1>3 DEF RecoverStale
  <2> QED BY <2>1, Unmoved
<1>4. ASSUME NEW w \in Workers, Crash(w) PROVE Inv'
  <2>1. /\ UNCHANGED <<status, cursor, delivered>> /\ faults' = faults + 1 /\ pc'[w] = "idle"
      BY <1>4 DEF Crash, rowVars, TypeOK
  <2>2. \A v \in Workers : v = w
      BY DEF OneWorker
  <2>3. faults \in Nat /\ \A i \in Parts : delivered[i] \in Nat
      BY DEF TypeOK
  <2> QED BY <2>1, <2>2, <2>3 DEF CursorKept, SentDelivered, UnsentNeedFaults, NoPartSkipped,
             DuplicatesNeedFaults
<1>5. ASSUME NEW w \in Workers, SendPart(w) \/ SendRefused(w) \/ SendDoubtful(w) PROVE Inv'
  <2>1. /\ UNCHANGED <<status, cursor, claimed>> /\ pc[w] = "send" /\ pc'[w] # "idle"
      BY <1>5 DEF SendPart, SendRefused, SendDoubtful, rowVars, TypeOK
  <2>2. \A v \in Workers : v = w
      BY DEF OneWorker
  <2>3. /\ faults \in Nat /\ \A i \in Parts : delivered[i] \in Nat
        /\ cursor \in 0 .. PartCount /\ sent[w] \in 0 .. PartCount
        /\ claimed[w].cursor = cursor /\ Reached(w) <= PartCount /\ Reached(w) = cursor + sent[w]
      BY <2>1 DEF TypeOK, CursorKept, Reached
  <2>4. /\ \A i \in Parts : i < Reached(w) => delivered[i] > 0
        /\ \A i \in Parts : i >= Reached(w) => delivered[i] <= faults
      BY <2>1 DEF SentDelivered, UnsentNeedFaults
  <2>5. CASE /\ UNCHANGED <<sent, delivered, faults>>
             /\ pc'[w] = "complete" => Reached(w) >= PartCount
      BY <2>1, <2>2, <2>3, <2>4, <2>5 DEF CursorKept, SentDelivered, UnsentNeedFaults,
         NoPartSkipped, DuplicatesNeedFaults, Reached
  <2>6. CASE /\ Reached(w) < PartCount /\ delivered' = [delivered EXCEPT ![Reached(w)] = @ + 1]
             /\ pc'[w] # "complete"
             /\ \/ sent'[w] = sent[w] + 1 /\ faults' = faults
                \/ sent' = sent /\ faults' = faults + 1
    <3>1. Reached(w) \in Parts
        BY <2>3, <2>6 DEF Parts
    <3>2. /\ \A i \in Parts \ {Reached(w)} : delivered'[i] = delivered[i]
          /\ delivered'[Reached(w)] = delivered[Reached(w)] + 1
        BY <2>6, <3>1 DEF TypeOK
    <3>3. Reached(w)' \in {Reached(w), Reached(w) + 1} /\ claimed'[w].cursor = cursor
        BY <2>1, <2>3, <2>6 DEF Reached
    <3>4. Reached(w)' = Reached(w) => faults' = faults + 1
        BY <2>1, <2>3, <2>6 DEF Reached
    <3>5. faults' \in {faults, faults + 1}
        BY <2>6
    <3>6. CursorKept'
        BY <2>1, <2>2, <2>3, <2>6, <3>3 DEF CursorKept
    <3>7. SentDelivered' /\ UnsentNeedFaults'
        BY <2>1, <2>2, <2>3, <2>4, <3>1, <3>2, <3>3, <3>4, <3>5
           DEF SentDelivered, UnsentNeedFaults, Parts
    <3>8. NoPartSkipped' /\ DuplicatesNeedFaults'
        BY <2>1, <2>3, <2>4, <3>1, <3>2, <3>5 DEF NoPartSkipped, DuplicatesNeedFaults, Parts
    <3> QED BY <3>6, <3>7, <3>8
  <2>7. CASE sent'[w] = 0 /\ UNCHANGED delivered /\ faults' = faults + 1 /\ pc'[w] # "complete"
    <3>1. Reached(w)' = cursor /\ claimed'[w].cursor = cursor
        BY <2>1, <2>3, <2>7 DEF Reached
    <3> QED BY <2>1, <2>2, <2>3, <2>4, <2>7, <3>1 DEF CursorKept, SentDelivered,
               UnsentNeedFaults, NoPartSkipped, DuplicatesNeedFaults
  <2>8. CASE SendPart(w)
      BY <2>3, <2>5, <2>6, <2>8 DEF SendPart, Reached, TypeOK, rowVars, userVars
  <2>9. CASE SendRefused(w)
      BY <2>5, <2>9 DEF SendRefused, TypeOK
  <2>10. CASE SendDoubtful(w)
      BY <2>6, <2>7, <2>10 DEF SendDoubtful, Reached, TypeOK
  <2> QED BY <1>5, <2>8, <2>9, <2>10
<1>6. ASSUME NEW w \in Workers, Complete(w) \/ Fail(w) PROVE Inv'
  <2>1. /\ UNCHANGED <<delivered, faults>> /\ cursor' = cursor + sent[w]
        /\ pc[w] # "idle" /\ pc'[w] = "idle"
        /\ status' = "succeeded" => pc[w] = "complete"
      BY <1>6 DEF Complete, Fail, Reported, TypeOK
  <2>2. \A v \in Workers : v = w
      BY DEF OneWorker
  <2>3. cursor' = Reached(w)
      BY <2>1 DEF CursorKept, Reached
  <2>4. status' = "succeeded" => \A i \in Parts : i < Reached(w)
      BY <2>1 DEF CursorKept, Parts
  <2>5. CursorKept' /\ SentDelivered' /\ UnsentNeedFaults'
      BY <2>1, <2>2, <2>3 DEF CursorKept, SentDelivered, UnsentNeedFaults
  <2>6. NoPartSkipped' /\ DuplicatesNeedFaults'
      BY <2>1, <2>3, <2>4 DEF SentDelivered, NoPartSkipped, DuplicatesNeedFaults
  <2> QED BY <2>5, <2>6
<1>7. CASE UNCHANGED vars
    BY <1>7, Unmoved DEF vars, rowVars
<1> QED BY <1>1, <1>2, <1>3, <1>4, <1>5, <1>6, <1>7 DEF Next, Work

LEMMA AttemptsStep ==
    OneWorker /\ TypeOK /\ AttemptsLeft /\ ExtraAttemptsNeedFaults /\ [Next]_vars
    => AttemptsLeft' /\ ExtraAttemptsNeedFaults'
<1> SUFFICES ASSUME OneWorker, TypeOK, AttemptsLeft, ExtraAttemptsNeedFaults, [Next]_vars
             PROVE  AttemptsLeft' /\ ExtraAttemptsNeedFaults'
    OBVIOUS
<1> USE ConstantsAssumption DEF TypeOK, rowVars, workerVars, userVars, OneWorker, AttemptsLeft,
        ExtraAttemptsNeedFaults
<1>1. CASE Enqueue \/ BecomeDue \/ LockExpires \/ Retry
  <2>1. CASE Enqueue
      BY <2>1 DEF Enqueue
  <2>2. CASE BecomeDue
      BY <2>2 DEF BecomeDue
  <2>3. CASE LockExpires
      BY <2>3 DEF LockExpires
  <2>4. CASE Retry
      BY <2>4 DEF Retry
  <2> QED BY <1>1, <2>1, <2>2, <2>3, <2>4
<1>2. ASSUME NEW w \in Workers, Claim(w) PROVE AttemptsLeft' /\ ExtraAttemptsNeedFaults'
    BY <1>2 DEF Claim
<1>3. ASSUME NEW w \in Workers, RecoverStale(w) \/ Crash(w)
      PROVE  AttemptsLeft' /\ ExtraAttemptsNeedFaults'
    BY <1>3 DEF RecoverStale, Crash
<1>4. ASSUME NEW w \in Workers, SendPart(w) \/ SendRefused(w) \/ SendDoubtful(w)
      PROVE  AttemptsLeft' /\ ExtraAttemptsNeedFaults'
    BY <1>4 DEF SendPart, SendRefused, SendDoubtful
<1>5. ASSUME NEW w \in Workers, Complete(w) \/ Fail(w)
      PROVE  AttemptsLeft' /\ ExtraAttemptsNeedFaults'
    BY <1>5 DEF Complete, Fail, Exhausted
<1>6. CASE UNCHANGED vars
    BY <1>6 DEF vars
<1> QED BY <1>1, <1>2, <1>3, <1>4, <1>5, <1>6 DEF Next, Work

\* Everything about the parts, in one invariant.
LEMMA PartsSound ==
    ASSUME OneWorker
    PROVE  Spec => [](TypeOK /\ CursorKept /\ NoPartSkipped /\ DuplicatesNeedFaults)
<1>1. Init => TypeOK /\ CursorKept /\ SentDelivered /\ UnsentNeedFaults /\ NoPartSkipped
                /\ DuplicatesNeedFaults
  <2>1. Init => TypeOK
    <3>1. [cursor |-> 0, attempt |-> 0] \in [cursor : 0 .. PartCount, attempt : Nat]
        BY ConstantsAssumption
    <3>2. Init => /\ claimed \in [Workers -> [cursor : 0 .. PartCount, attempt : Nat]]
                  /\ sent \in [Workers -> 0 .. PartCount]
        BY <3>1, ConstantsAssumption DEF Init
    <3>3. Init => delivered \in [Parts -> Nat] /\ cursor \in 0 .. PartCount
        BY ConstantsAssumption DEF Init
    <3>4. Init => retries \in 0 .. MaxRetries /\ faults \in 0 .. MaxFaults /\ attempts \in Nat
        BY ConstantsAssumption DEF Init
    <3>5. Init => /\ status = "absent" /\ due \in BOOLEAN /\ lock = "none" /\ owed \in BOOLEAN
                  /\ pc \in [Workers -> {"idle", "send", "complete", "retryable", "permanent"}]
        BY DEF Init
    <3> QED BY <3>2, <3>3, <3>4, <3>5 DEF TypeOK
  <2>2. Init => CursorKept /\ SentDelivered /\ UnsentNeedFaults /\ NoPartSkipped
                  /\ DuplicatesNeedFaults
    <3> SUFFICES ASSUME Init
                 PROVE  CursorKept /\ SentDelivered /\ UnsentNeedFaults /\ NoPartSkipped
                          /\ DuplicatesNeedFaults
        OBVIOUS
    <3>1. CursorKept /\ SentDelivered
        BY DEF Init, CursorKept, SentDelivered
    <3>2. UnsentNeedFaults /\ DuplicatesNeedFaults
        BY DEF Init, UnsentNeedFaults, DuplicatesNeedFaults
    <3>3. NoPartSkipped
        BY DEF Init, NoPartSkipped, Parts
    <3> QED BY <3>1, <3>2, <3>3
  <2> QED BY <2>1, <2>2
<1>2. TypeOK /\ CursorKept /\ SentDelivered /\ UnsentNeedFaults /\ NoPartSkipped
        /\ DuplicatesNeedFaults /\ [Next]_vars
      => (TypeOK /\ CursorKept /\ SentDelivered /\ UnsentNeedFaults /\ NoPartSkipped
           /\ DuplicatesNeedFaults)'
    BY TypeStep, DeliveredStep
<1> QED BY <1>1, <1>2, PTL DEF Spec

\* The row keeps its types; in particular the cursor never leaves the message.
THEOREM TypeCorrect == ASSUME OneWorker PROVE Spec => []TypeOK
BY PartsSound, PTL

\* No part is skipped, through refusals, crashes, stale claims and the user's retries.
THEOREM NothingSkipped == ASSUME OneWorker PROVE Spec => []NoPartSkipped
BY PartsSound, PTL

\* Each time a part arrives again costs a crash or a lost answer.
THEOREM RepeatsAreFaults == ASSUME OneWorker PROVE Spec => []DuplicatesNeedFaults
BY PartsSound, PTL

\* Each attempt beyond max_attempts costs a crash.
THEOREM ExtraAttemptsAreFaults == ASSUME OneWorker PROVE Spec => []ExtraAttemptsNeedFaults
<1>1. Init => AttemptsLeft /\ ExtraAttemptsNeedFaults
    BY ConstantsAssumption DEF Init, AttemptsLeft, ExtraAttemptsNeedFaults
<1>2. TypeOK /\ AttemptsLeft /\ ExtraAttemptsNeedFaults /\ [Next]_vars
      => (AttemptsLeft /\ ExtraAttemptsNeedFaults)'
    BY AttemptsStep
<1> QED BY <1>1, <1>2, TypeCorrect, PTL DEF Spec
=============================================================================

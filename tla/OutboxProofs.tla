----------------------------- MODULE OutboxProofs -----------------------------
(***************************************************************************)
(* Proofs about Outbox: its types for any number of dispatchers, and that  *)
(* it implements DeliveryContract when there is only one.                  *)
(***************************************************************************)
EXTENDS Outbox, FiniteSetTheorems, TLAPS

Busy == {"mark", "apply", "succeed", "retryable", "permanent"}

\* What a dispatcher's snapshot is worth, whoever else is at work.
Snapshots ==
    /\ \A o \in Operations :
          /\ status[o] \in {"absent", "pending"} => attempts[o] = 0
          /\ status[o] = "failed" => attempts[o] < MaxAttempts
    /\ \A d \in Dispatchers : pc[d] \in Busy =>
          current[d] \in Operations /\ seen[d] < MaxAttempts

TypeInv == TypeOK /\ Snapshots

LEMMA TypeInit == Init => TypeInv
  BY ConstantsAssumption, SMT DEF Init, TypeInv, TypeOK, Snapshots, Statuses, Busy

LEMMA TypeStep == TypeInv /\ [Next]_vars => TypeInv'
<1> SUFFICES ASSUME TypeInv, [Next]_vars PROVE TypeInv'
  OBVIOUS
<1> USE ConstantsAssumption
<1>1. ASSUME NEW o \in Operations, Enqueue(o) PROVE TypeInv'
  <2>1. Cardinality(Enqueued) \in Nat
    BY FS_Subset, FS_CardinalityType DEF Enqueued
  <2> QED BY <1>1, <2>1, SMT
        DEF TypeInv, TypeOK, Snapshots, Statuses, Busy, Enqueue, dispatcherVars, targetVars
<1>2. ASSUME NEW o \in Operations, BecomeDue(o) PROVE TypeInv'
  BY <1>2, SMT DEF TypeInv, TypeOK, Snapshots, Statuses, Busy, BecomeDue,
                   dispatcherVars, targetVars
<1>3. ASSUME NEW d \in Dispatchers, List(d) PROVE TypeInv'
  <2>1. Oldest(Listable) \in SUBSET Operations
    BY DEF Oldest, Listable, TypeInv, TypeOK
  <2> QED BY <1>3, <2>1, SMT DEF TypeInv, TypeOK, Snapshots, Statuses, Busy, List,
                                 rowVars, targetVars
<1>4. ASSUME NEW d \in Dispatchers, Load(d) PROVE TypeInv'
  BY <1>4, SMT DEF TypeInv, TypeOK, Snapshots, Statuses, Busy, Load, rowVars, targetVars
<1>5. ASSUME NEW d \in Dispatchers, MarkRunning(d) PROVE TypeInv'
  BY <1>5, SMT DEF TypeInv, TypeOK, Snapshots, Statuses, Busy, MarkRunning, targetVars
<1>6. ASSUME NEW d \in Dispatchers, Apply(d) PROVE TypeInv'
  BY <1>6, SMT DEF TypeInv, TypeOK, Snapshots, Statuses, Busy, Apply, rowVars
<1>7. ASSUME NEW d \in Dispatchers, MarkSucceeded(d) PROVE TypeInv'
  BY <1>7, SMT DEF TypeInv, TypeOK, Snapshots, Statuses, Busy, MarkSucceeded, GoOn,
                   targetVars
<1>8. ASSUME NEW d \in Dispatchers, MarkFailed(d) PROVE TypeInv'
  BY <1>8, SMT DEF TypeInv, TypeOK, Snapshots, Statuses, Busy, MarkFailed, GoOn,
                   StatusAfterFailure, ShouldDeadLetter, targetVars
<1>9. ASSUME NEW d \in Dispatchers, DatabaseError(d) \/ Crash(d) PROVE TypeInv'
  BY <1>9, SMT DEF TypeInv, TypeOK, Snapshots, Statuses, Busy, DatabaseError, Crash, GoOn,
                   rowVars, targetVars
<1>10. CASE UNCHANGED vars
  BY <1>10, SMT DEF TypeInv, TypeOK, Snapshots, Statuses, Busy, vars, rowVars,
                    dispatcherVars, targetVars
<1> QED BY <1>1, <1>2, <1>3, <1>4, <1>5, <1>6, <1>7, <1>8, <1>9, <1>10
        DEF Next, Dispatch

\* Every variable keeps its type, and no attempt counter passes max_attempts, however
\* many dispatchers overwrite each other's rows.
THEOREM TypeCorrect == Spec => []TypeOK
<1>1. TypeInv => TypeOK
  BY DEF TypeInv
<1> QED BY <1>1, TypeInit, TypeStep, PTL DEF Spec

-----------------------------------------------------------------------------
\* What the only dispatcher knows: the row it works on is as its snapshot says, and the
\* row's counter is the number of calls.
Ownership ==
    /\ \A o \in Operations :
          status[o] \in {"absent", "pending", "failed"} => tries[o] = attempts[o]
    /\ \A d \in Dispatchers :
          LET o == current[d] IN
          /\ pc[d] = "mark" => status[o] \in {"pending", "failed"} /\ attempts[o] = seen[d]
          /\ pc[d] = "apply" => status[o] = "running" /\ tries[o] = seen[d]
          /\ pc[d] \in {"succeed", "retryable", "permanent"} =>
                status[o] = "running" /\ tries[o] = seen[d] + 1
          /\ pc[d] = "succeed" => o \in applied

OneDispatcher == \A c, d \in Dispatchers : c = d

LEMMA OwnershipInit == Init => Ownership
  BY SMT DEF Init, Ownership

LEMMA OwnershipStep ==
  ASSUME OneDispatcher
  PROVE  TypeInv /\ Ownership /\ [Next]_vars => Ownership'
<1> SUFFICES ASSUME TypeInv, Ownership, [Next]_vars PROVE Ownership'
  OBVIOUS
<1> USE OneDispatcher, ConstantsAssumption
    DEF OneDispatcher, TypeInv, TypeOK, Snapshots, Statuses, Busy, Ownership
<1>1. ASSUME NEW o \in Operations, Enqueue(o) PROVE Ownership'
  BY <1>1, SMT DEF Enqueue, dispatcherVars, targetVars
<1>2. ASSUME NEW o \in Operations, BecomeDue(o) PROVE Ownership'
  BY <1>2, SMT DEF BecomeDue, dispatcherVars, targetVars
<1>3. ASSUME NEW d \in Dispatchers, List(d) PROVE Ownership'
  BY <1>3, SMT DEF List, rowVars, targetVars
<1>4. ASSUME NEW d \in Dispatchers, Load(d) PROVE Ownership'
  BY <1>4, SMT DEF Load, rowVars, targetVars
<1>5. ASSUME NEW d \in Dispatchers, MarkRunning(d) PROVE Ownership'
  BY <1>5, SMT DEF MarkRunning, targetVars
<1>6. ASSUME NEW d \in Dispatchers, Apply(d) PROVE Ownership'
  BY <1>6, SMT DEF Apply, rowVars
<1>7. ASSUME NEW d \in Dispatchers, MarkSucceeded(d) PROVE Ownership'
  BY <1>7, SMT DEF MarkSucceeded, GoOn, targetVars
<1>8. ASSUME NEW d \in Dispatchers, MarkFailed(d) PROVE Ownership'
  BY <1>8, SMT DEF MarkFailed, GoOn, StatusAfterFailure, ShouldDeadLetter, targetVars
<1>9. ASSUME NEW d \in Dispatchers, DatabaseError(d) \/ Crash(d) PROVE Ownership'
  BY <1>9, SMT DEF DatabaseError, Crash, GoOn, rowVars, targetVars
<1>10. CASE UNCHANGED vars
  BY <1>10, SMT DEF vars, rowVars, dispatcherVars, targetVars
<1> QED BY <1>1, <1>2, <1>3, <1>4, <1>5, <1>6, <1>7, <1>8, <1>9, <1>10
        DEF Next, Dispatch

LEMMA ContractInit == Init => Contract!Init
  BY DEF Init, Contract!Init, Phase

\* Every step of the outbox is one step of the contract, or none.
LEMMA ContractStep ==
  ASSUME OneDispatcher
  PROVE  TypeInv /\ Ownership /\ [Next]_vars => [Contract!Next]_(Contract!vars)
<1> SUFFICES ASSUME TypeInv, Ownership, [Next]_vars
             PROVE  Contract!Next \/ UNCHANGED Contract!vars
  BY DEF Contract!vars
<1> DEFINE phase == [o \in Operations |-> Phase(status[o])]
<1>0. /\ status \in [Operations -> Statuses] /\ tries \in [Operations -> Nat]
      /\ \A d \in Dispatchers : pc[d] \in Busy => current[d] \in Operations
  BY DEF TypeInv, TypeOK, Snapshots
<1>a. ASSUME UNCHANGED <<status, targetVars>> PROVE UNCHANGED Contract!vars
  BY <1>a DEF Contract!vars, targetVars
<1>1. ASSUME NEW o \in Operations, Enqueue(o) PROVE Contract!Accept(o)
  <2>1. phase[o] = "absent"
    BY <1>1 DEF Enqueue, Phase
  <2>2. phase' = [phase EXCEPT ![o] = "waiting"]
    BY <1>0, <1>1, Zenon DEF Enqueue, Phase
  <2> QED BY <1>1, <2>1, <2>2 DEF Contract!Accept, Enqueue, targetVars
<1>2. ASSUME NEW o \in Operations, BecomeDue(o) PROVE UNCHANGED Contract!vars
  BY <1>2, <1>a DEF BecomeDue
<1>3. ASSUME NEW d \in Dispatchers, List(d) \/ Load(d) \/ DatabaseError(d) \/ Crash(d)
      PROVE  UNCHANGED Contract!vars
  BY <1>3, <1>a DEF List, Load, DatabaseError, Crash, rowVars
<1>5. ASSUME NEW d \in Dispatchers, MarkRunning(d) PROVE UNCHANGED Contract!vars
  <2>1. status[current[d]] \in {"pending", "failed"} /\ current[d] \in Operations
    BY <1>0, <1>5 DEF MarkRunning, Ownership, Busy
  <2>2. phase' = phase
    BY <1>0, <1>5, <2>1 DEF MarkRunning, Phase
  <2> QED BY <1>5, <2>2 DEF MarkRunning, Contract!vars, targetVars
<1>6. ASSUME NEW d \in Dispatchers, Apply(d) PROVE Contract!Attempt(current[d])
  <2>1. /\ current[d] \in Operations /\ status[current[d]] = "running"
        /\ tries[current[d]] < MaxAttempts
    BY <1>0, <1>6 DEF Apply, Ownership, TypeInv, Snapshots, Busy
  <2>2. phase[current[d]] = "waiting"
    BY <2>1 DEF Phase
  <2> QED BY <1>6, <2>1, <2>2 DEF Contract!Attempt, Apply, rowVars
<1>7. ASSUME NEW d \in Dispatchers, MarkSucceeded(d) PROVE Contract!Settle(current[d])
  <2>1. /\ current[d] \in Operations /\ status[current[d]] = "running"
        /\ current[d] \in applied
    BY <1>0, <1>7 DEF MarkSucceeded, Ownership, Busy
  <2>2. phase[current[d]] = "waiting"
    BY <2>1 DEF Phase
  <2>3. phase' = [phase EXCEPT ![current[d]] = "done"]
    BY <1>0, <1>7, <2>1, Zenon DEF MarkSucceeded, Phase
  <2> QED BY <1>7, <2>1, <2>2, <2>3 DEF Contract!Settle, MarkSucceeded, targetVars
<1>8. ASSUME NEW d \in Dispatchers, MarkFailed(d)
      PROVE  Contract!GiveUp(current[d]) \/ UNCHANGED Contract!vars
  <2> DEFINE o == current[d]
             verdict == StatusAfterFailure(o, pc[d] = "retryable", seen[d] + 1)
  <2>1. /\ o \in Operations /\ status[o] = "running" /\ tries[o] = seen[d] + 1
        /\ seen[d] \in Nat /\ seen[d] < MaxAttempts
    BY <1>0, <1>8 DEF MarkFailed, Ownership, Busy, TypeInv, TypeOK, Snapshots
  <2>2. status' = [status EXCEPT ![o] = verdict] /\ UNCHANGED targetVars
    BY <1>8 DEF MarkFailed
  <2>3. phase[o] = "waiting"
    BY <2>1 DEF Phase
  <2>4. CASE ShouldDeadLetter(seen[d] + 1) \/ (o \in MemoryAgent /\ ~(pc[d] = "retryable"))
    <3>1. verdict = "dead_letter"
      BY <2>4, Zenon DEF StatusAfterFailure
    <3>2. tries[o] = MaxAttempts \/ (o \in MemoryAgent /\ tries[o] > 0)
      BY <2>1, <2>4, ConstantsAssumption DEF ShouldDeadLetter
    <3>3. phase' = [phase EXCEPT ![o] = "dead"]
      BY <1>0, <2>1, <2>2, <3>1, Zenon DEF Phase
    <3> QED BY <2>1, <2>2, <2>3, <3>2, <3>3 DEF Contract!GiveUp, targetVars
  <2>5. CASE ~(ShouldDeadLetter(seen[d] + 1) \/ (o \in MemoryAgent /\ ~(pc[d] = "retryable")))
    <3>1. verdict = "failed"
      BY <2>5, Zenon DEF StatusAfterFailure
    <3>2. phase' = phase
      BY <1>0, <2>1, <2>2, <3>1 DEF Phase
    <3> QED BY <2>2, <3>2 DEF Contract!vars, targetVars
  <2> QED BY <2>4, <2>5
<1>10. CASE UNCHANGED vars
  BY <1>10, <1>a DEF vars, rowVars
<1> QED
  <2>1. ASSUME NEW d \in Dispatchers, Dispatch(d) \/ DatabaseError(d) \/ Crash(d)
        PROVE  Contract!Next \/ UNCHANGED Contract!vars
    <3>1. CASE List(d) \/ Load(d) \/ MarkRunning(d) \/ DatabaseError(d) \/ Crash(d)
      BY <3>1, <1>3, <1>5
    <3>2. CASE Apply(d)
      BY <3>2, <1>0, <1>6 DEF Contract!Next, Apply, Busy
    <3>3. CASE MarkSucceeded(d)
      BY <3>3, <1>0, <1>7 DEF Contract!Next, MarkSucceeded, Busy
    <3>4. CASE MarkFailed(d)
      BY <3>4, <1>0, <1>8 DEF Contract!Next, MarkFailed, Busy
    <3> QED BY <2>1, <3>1, <3>2, <3>3, <3>4 DEF Dispatch
  <2> QED BY <1>1, <1>2, <1>10, <2>1 DEF Next, Contract!Next

\* The outbox with one dispatcher implements its contract: no verdict before its reason,
\* none taken back, no target called more than MaxAttempts times, whatever crashes.
THEOREM ContractKept ==
  ASSUME OneDispatcher
  PROVE  Spec => KeepsContract
<1>1. Spec => [](TypeInv /\ Ownership)
  <2>1. Init => TypeInv /\ Ownership
    BY TypeInit, OwnershipInit
  <2>2. TypeInv /\ Ownership /\ [Next]_vars => (TypeInv /\ Ownership)'
    BY TypeStep, OwnershipStep
  <2> QED BY <2>1, <2>2, PTL DEF Spec
<1>2. TypeInv /\ Ownership /\ [Next]_vars => [Contract!Next]_(Contract!vars)
  BY ContractStep
<1> QED BY <1>1, <1>2, ContractInit, PTL DEF Spec, KeepsContract, Contract!Spec
=============================================================================

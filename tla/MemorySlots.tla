---------------------------- MODULE MemorySlots ----------------------------
(***************************************************************************)
(* The canonical memories of one owner and knowledge base: the inbox worker *)
(* that reconciles extracted candidates and deletes sources, beside the     *)
(* memory API through which users confirm, reject, revise, invalidate, hard *)
(* delete and purge (memory/reconciliation.py, services/memory_commands.py, *)
(* services/deletion.py, repositories/memories.py).                         *)
(*                                                                          *)
(* Every operation is one transaction: it reads what identifies its slots   *)
(* without a lock, takes the slots' advisory locks one at a time, and then  *)
(* reads and writes.  A reconciliation and a confirmation read the slot     *)
(* (Decide) and write it (Apply) in two steps, keeping the row locks of     *)
(* what they read; the other bodies are one step.  An exception rolls the   *)
(* transaction back, and so does PostgreSQL for a victim of a deadlock.     *)
(*                                                                          *)
(* A fact is <<slot, value>>, what memory_fingerprint identifies; the slot  *)
(* is a subject and predicate, of one memory type (the fingerprint leaves   *)
(* the type out).  The revisions of a memory are numbered in the order of   *)
(* valid_from; the open one is the active one.  Confidence is abstracted    *)
(* into the kind of an observation.                                         *)
(***************************************************************************)
EXTENDS Naturals, FiniteSetsExt, Functions

CONSTANTS Slots,         \* advisory-lock slots, ordered numbers
          Values,        \* values a slot may take
          Observations,  \* identities of evidence rows
          Worker,        \* the inbox worker: one at a time under the scope lock
          Users,         \* requests of the memory API
          MaxStarts,     \* bound: transactions begun, of all actors together
          None, Gone

ASSUME SlotsAssumption == Slots \subseteq Nat
ASSUME StartsAssumption == MaxStarts \in Nat
ASSUME ActorsAssumption == Worker \notin Users /\ None \notin Users \cup {Worker}

Facts  == Slots \X Values
Ids    == 1..MaxStarts          \* a transaction creates one memory and one candidate at most

RevisionTables ==
    UNION {[numbers -> [fact : Facts, ev : SUBSET Observations]] : numbers \in SUBSET Ids}

MemoryRows ==
    [status : {"active", "invalidated"}, fact : Facts, active : Ids, byHand : BOOLEAN,
     revisions : RevisionTables]

CandidateRows ==
    [status : {"pending", "promoted", "rejected"}, fact : Facts, ev : SUBSET Observations,
     conflict : (Ids \X Ids) \cup {None}, reviewed : Facts \cup {None}]

Deletions == {"delete", "hardDelete", "purge"}
Kinds     == {"auto", "unsure", "explicit"}

Transactions ==
    [op : {"reconcile", "confirm", "reject", "revise", "invalidate"} \cup Deletions,
     phase : {"evidence", "slots", "apply"},
     slots : SUBSET Slots, after : SUBSET Slots, late : BOOLEAN,
     id : Ids \cup {None}, fact : Facts \cup {None}, kind : Kinds \cup {None},
     ev : SUBSET Observations, plan : {"attach", "hold", "promote", None},
     target : Ids \cup {None}]

\* None is nothing yet, or nobody; Gone is a row that was deleted.
ASSUME NullsAssumption ==
    /\ None # Gone
    /\ \A null \in {None, Gone} :
          null \notin Nat \cup (Ids \X Ids) \cup MemoryRows \cup CandidateRows \cup Transactions

VARIABLES
    memories,    \* canonical_memories with their memory_revisions
    candidates,  \* memory_candidates
    evidence,    \* memory_evidence
    slotOwner,   \* pg_advisory_xact_lock per slot
    evidenceOwner, \* SELECT ... FOR UPDATE on an evidence row
    tx,          \* the open transaction of an actor
    starts       \* transactions begun so far

rows  == <<memories, candidates, evidence>>
locks == <<slotOwner, evidenceOwner>>
vars  == <<rows, locks, tx, starts>>

Actors == Users \cup {Worker}

Live(table) == {i \in DOMAIN table : table[i] \notin {None, Gone}}
Active == {m \in Live(memories) : memories[m].status = "active"}
SlotOf(fact) == fact[1]

Init ==
    /\ memories = [m \in Ids |-> None]
    /\ candidates = [c \in Ids |-> None]
    /\ evidence = {}
    /\ slotOwner = [s \in Slots |-> None]
    /\ evidenceOwner = [e \in Observations |-> None]
    /\ tx = [a \in Actors |-> None]
    /\ starts = 0

-----------------------------------------------------------------------------
(* Transactions and their locks.                                           *)

Opened(op, slots) ==
    [op |-> op, phase |-> IF op \in Deletions THEN "evidence" ELSE "slots",
     slots |-> slots, after |-> {}, late |-> FALSE, id |-> None, fact |-> None, kind |-> None,
     ev |-> {}, plan |-> None, target |-> None]

Open(a, t) ==
    /\ tx[a] = None /\ starts < MaxStarts
    /\ starts' = starts + 1
    /\ tx' = [tx EXCEPT ![a] = t]

At(a, op, phase) == tx[a] # None /\ tx[a].op = op /\ tx[a].phase = phase

\* Commit and rollback alike free the transaction's locks.
Close(a) ==
    /\ tx' = [tx EXCEPT ![a] = None]
    /\ slotOwner' = [s \in Slots |-> IF slotOwner[s] = a THEN None ELSE slotOwner[s]]
    /\ evidenceOwner' = [e \in Observations |->
                            IF evidenceOwner[e] = a THEN None ELSE evidenceOwner[e]]
    /\ UNCHANGED starts

Rollback(a) == Close(a) /\ UNCHANGED rows

\* Mutant: the slot moved to is locked before the slot moved from.
DestinationFirst(a) ==
    IF tx[a].op = "revise" /\ SlotOf(tx[a].fact) \in tx[a].slots
    THEN SlotOf(tx[a].fact) ELSE Min(tx[a].slots)

\* sorted(slots): the lowest slot not yet locked.
NextSlot(a) == Min(tx[a].slots)

\* Evidence rows another transaction holds FOR UPDATE: whoever reads them FOR UPDATE, or adds
\* a join row that refers to one, waits.
HeldBy(a, E) == {evidenceOwner[e] : e \in E \cap evidence} \ {None, a}

\* The row of a memory that a Decide step locked stays locked until that transaction ends.
RowHeldBy(a, M) == {b \in Actors \ {a} : tx[b] # None /\ tx[b].target \in M \ {None}}

\* So does the row of the candidate that a confirmation decides (load_candidate_for_update).
CandidateHeldBy(a, C) == {b \in Actors \ {a} : At(b, "confirm", "apply") /\ tx[b].id \in C}

LockSlot(a) ==
    /\ tx[a] # None /\ tx[a].phase = "slots" /\ tx[a].slots # {}
    /\ slotOwner[NextSlot(a)] = None
    /\ slotOwner' = [slotOwner EXCEPT ![NextSlot(a)] = a]
    /\ LET rest == tx[a].slots \ {NextSlot(a)}
       IN  tx' = [tx EXCEPT ![a].slots = IF rest = {} THEN tx[a].after ELSE rest,
                            ![a].after = IF rest = {} THEN {} ELSE @]
    /\ UNCHANGED <<rows, evidenceOwner, starts>>

Locked(a, op) == At(a, op, "slots") /\ tx[a].slots = {}

-----------------------------------------------------------------------------
(* What the operations do to a memory.                                     *)

\* _create_memory.
Created(fact, E) ==
    [status |-> "active", fact |-> fact, active |-> 1, byHand |-> FALSE,
     revisions |-> [r \in {1} |-> [fact |-> fact, ev |-> E]]]

\* attach_revision_evidence on the active revision.
Reinforced(m, E) == [m EXCEPT !.revisions[m.active].ev = @ \cup E]

NextRevision(m) == Max(DOMAIN m.revisions) + 1

\* revise_memory: the open revision is closed and the new one takes the memory.
Revised(m, fact, E) ==
    LET r == NextRevision(m)
    IN  [m EXCEPT !.status = "active", !.fact = fact, !.active = r,
                  !.revisions = [i \in DOMAIN @ \cup {r} |->
                                    IF i = r THEN [fact |-> fact, ev |-> E] ELSE @[i]]]

Stripped(m, E) == [r \in DOMAIN m.revisions |->
                      [m.revisions[r] EXCEPT !.ev = @ \ E]]

\* Mutant: the memory is kept as long as it has a revision at all.
RepairedKeepingAll(m, E) == [m EXCEPT !.revisions = Stripped(m, E)]

\* Mutant: an older revision is reopened, the memory's own columns are forgotten.
RepairedSameFact(m, E) ==
    LET revisions == Stripped(m, E)
        supported == {r \in DOMAIN revisions : revisions[r].ev # {}}
    IN  IF supported = {} THEN Gone
        ELSE [m EXCEPT !.active = Max(supported), !.revisions = Restrict(revisions, supported)]

\* The repair of delete_source_evidence: what is left of a memory without the evidence E.
Repaired(m, E) ==
    LET revisions == Stripped(m, E)
        supported == {r \in DOMAIN revisions : revisions[r].ev # {}}
        selected  == Max(supported)
    IN  IF supported = {} THEN Gone
        ELSE IF selected = m.active
        THEN [m EXCEPT !.revisions = Restrict(revisions, supported)]
        ELSE [status |-> "active", fact |-> revisions[selected].fact, active |-> selected,
              byHand |-> TRUE, revisions |-> Restrict(revisions, supported)]

\* The unique index on the fingerprint of active memories.
UniqueFacts(table) ==
    \A m, n \in Live(table) :
        (table[m].fact = table[n].fact /\ table[m].status = "active"
           /\ table[n].status = "active") => m = n

\* Candidates after their evidence E is gone and the memories are `table`: without evidence
\* they are deleted, and their reference to a revision that is gone is set to NULL.
Remaining(E, table) ==
    [c \in Ids |->
        IF c \notin Live(candidates) THEN candidates[c]
        ELSE LET old == candidates[c]
                 dangles == /\ old.conflict # None
                            /\ \/ old.conflict[1] \notin Live(table)
                               \/ old.conflict[2] \notin DOMAIN table[old.conflict[1]].revisions
             IN  IF old.ev \subseteq E THEN Gone
                 ELSE [old EXCEPT !.ev = @ \ E,
                                  !.conflict = IF dangles THEN None ELSE @]]

FreeId(table) == Min({i \in Ids : table[i] = None})

\* The unique index refuses the transaction, or all its writes are committed.
Commit(a, newMemories, newCandidates, newEvidence) ==
    IF UniqueFacts(newMemories)
    THEN /\ memories' = newMemories
         /\ candidates' = newCandidates
         /\ evidence' = newEvidence
         /\ Close(a)
    ELSE Rollback(a)

-----------------------------------------------------------------------------
(* reconcile_candidate, run by the inbox worker for one observation.       *)

\* _already_reconciled: this evidence was used for this fact before.
AlreadyReconciled(fact, e) ==
    \/ \E c \in Live(candidates) : candidates[c].fact = fact /\ e \in candidates[c].ev
    \/ \E m \in Live(memories) : \E r \in DOMAIN memories[m].revisions :
           memories[m].revisions[r].fact = fact /\ e \in memories[m].revisions[r].ev

\* An evidence row that is there already is read FOR UPDATE, before the slot is locked.
BeginReconcile(fact, kind, e) ==
    /\ HeldBy(Worker, {e}) = {}
    /\ ~AlreadyReconciled(fact, e)
    /\ Open(Worker, [Opened("reconcile", {SlotOf(fact)}) EXCEPT
                        !.fact = fact, !.kind = kind, !.ev = {e}])
    /\ evidenceOwner' = [evidenceOwner EXCEPT ![e] = IF e \in evidence THEN Worker ELSE @]
    /\ UNCHANGED <<rows, slotOwner>>

\* classify_candidate; a secret is rejected before any transaction.
Decision(kind, conflicting) ==
    IF kind = "explicit" \/ (kind = "auto" /\ ~conflicting) THEN "promote" ELSE "pending"

Compatible(fact) == {m \in Active : memories[m].fact = fact}
Conflicting(fact) == {m \in Active : SlotOf(memories[m].fact) = SlotOf(fact)
                                     /\ memories[m].fact # fact}

\* Mutant: only the exact fact is looked for.
SlotReadsExact(fact) == IF Compatible(fact) # {} THEN Compatible(fact) ELSE {None}

\* The memory find_active_memory or else find_conflicting_memory returns, locked.
SlotReads(fact) ==
    IF Compatible(fact) # {} THEN Compatible(fact)
    ELSE IF Conflicting(fact) # {} THEN Conflicting(fact) ELSE {None}

ReconcileDecide(a) ==
    /\ Locked(a, "reconcile")
    /\ \E m \in SlotReads(tx[a].fact) :
         /\ RowHeldBy(a, {m}) = {}
         /\ LET compatible == m # None /\ memories[m].fact = tx[a].fact
                decision == Decision(tx[a].kind, m # None /\ ~compatible)
            IN  tx' = [tx EXCEPT ![a].phase = "apply", ![a].target = m, ![a].kind = None,
                         ![a].plan = CASE decision = "pending" -> "hold"
                                       [] decision = "promote" /\ compatible -> "attach"
                                       [] decision = "promote" /\ ~compatible -> "promote"]
    /\ UNCHANGED <<rows, locks, starts>>

\* Of an observation held for review, what it conflicts with; `reviewed` is the fact shown.
CandidateOf(t, status) ==
    LET conflicts == t.target # None /\ memories[t.target].fact # t.fact
    IN  [status |-> status, fact |-> t.fact, ev |-> t.ev,
         conflict |-> IF conflicts THEN <<t.target, memories[t.target].active>> ELSE None,
         reviewed |-> IF conflicts THEN memories[t.target].fact ELSE None]

\* revise_memory of the memory that was read, or else _create_memory.
Written(target, fact, E) ==
    IF target # None
    THEN [memories EXCEPT ![target] = Revised(@, fact, E)]
    ELSE [memories EXCEPT ![FreeId(memories)] = Created(fact, E)]

\* _persist_evidence and what follows the decision.
ReconcileApply(a) ==
    /\ At(a, "reconcile", "apply")
    /\ LET t == tx[a]
           recorded(status) ==
               [candidates EXCEPT ![FreeId(candidates)] = CandidateOf(t, status)]
       IN  CASE t.plan = "attach"  ->
                  Commit(a, [memories EXCEPT ![t.target] = Reinforced(@, t.ev)],
                         candidates, evidence \cup t.ev)
             [] t.plan = "hold"    ->
                  Commit(a, memories, recorded("pending"), evidence \cup t.ev)
             [] t.plan = "promote" ->
                  Commit(a, Written(t.target, t.fact, t.ev), recorded("promoted"),
                         evidence \cup t.ev)

-----------------------------------------------------------------------------
(* The memory API: confirm, reject, revise, invalidate.                    *)

\* The slot is read without a lock; a candidate never changes its slot.
BeginCandidate(a, op, c) ==
    /\ c \in Live(candidates)
    /\ Open(a, [Opened(op, {SlotOf(candidates[c].fact)}) EXCEPT !.id = c])
    /\ UNCHANGED <<rows, locks>>

\* Mutant: the status is not looked at again under the lock.
StillThere(c) == c \in Live(candidates)

\* load_candidate_for_update, and only a pending candidate can be decided.
Decidable(c) == c \in Live(candidates) /\ candidates[c].status = "pending"

\* Mutant: the conflicting memory is compared, its revision is not.
UpToDateMemory(c, m) == candidates[c].conflict # None /\ candidates[c].conflict[1] = m

\* The revision in conflict is the one the candidate was recorded against.
UpToDate(c, m) == candidates[c].conflict = <<m, memories[m].active>>

ConfirmDecide(a) ==
    /\ Locked(a, "confirm")
    /\ LET c == tx[a].id IN
       IF ~Decidable(c) THEN Rollback(a)
       ELSE \E m \in SlotReads(candidates[c].fact) :
              /\ RowHeldBy(a, {m}) = {}
              /\ LET compatible == m # None /\ memories[m].fact = candidates[c].fact
                 IN  IF m # None /\ ~compatible /\ ~UpToDate(c, m)
                     THEN Rollback(a)
                     ELSE /\ tx' = [tx EXCEPT ![a].phase = "apply", ![a].target = m,
                                       ![a].plan = IF compatible THEN "attach" ELSE "promote"]
                          /\ UNCHANGED <<rows, locks, starts>>

ConfirmApply(a) ==
    /\ At(a, "confirm", "apply")
    /\ LET t == tx[a]
           candidate == candidates[t.id]
           decided == [candidates EXCEPT ![t.id].status = "promoted"]
       IN  /\ HeldBy(a, candidate.ev) = {}
           /\ IF t.plan = "attach"
              THEN Commit(a, [memories EXCEPT ![t.target] = Reinforced(@, candidate.ev)],
                          decided, evidence)
              ELSE Commit(a, Written(t.target, candidate.fact, candidate.ev), decided, evidence)

Reject(a) ==
    /\ Locked(a, "reject")
    /\ IF Decidable(tx[a].id)
       THEN Commit(a, memories, [candidates EXCEPT ![tx[a].id].status = "rejected"], evidence)
       ELSE Rollback(a)

\* The memory's slot is read without a lock and may be another one once it is locked.  The
\* slot moved to is sorted in as the user spelled it; if that is not the normalized spelling,
\* revise_memory locks the slot itself only after the others (the lock of the spelling as it
\* is, which nobody else takes, is left out).
BeginRevise(a, m, fact, normalized) ==
    LET old == SlotOf(memories[m].fact)
        new == SlotOf(fact)
    IN  /\ m \in Live(memories)
        /\ Open(a, [Opened("revise", {old} \cup (IF normalized THEN {new} ELSE {})) EXCEPT
                       !.after = IF normalized THEN {} ELSE {new} \ {old},
                       !.late = ~normalized /\ new # old,
                       !.id = m, !.fact = fact])
        /\ UNCHANGED <<rows, locks>>

\* A revision by hand has no evidence, and brings back a memory that was invalidated.
Revise(a) ==
    /\ Locked(a, "revise")
    /\ RowHeldBy(a, {tx[a].id}) = {}
    /\ IF tx[a].id \in Live(memories)
       THEN Commit(a, [memories EXCEPT ![tx[a].id] =
                          [Revised(@, tx[a].fact, {}) EXCEPT !.byHand = TRUE]],
                   candidates, evidence)
       ELSE Rollback(a)

BeginInvalidate(a, m) ==
    /\ m \in Live(memories)
    /\ Open(a, [Opened("invalidate", {SlotOf(memories[m].fact)}) EXCEPT !.id = m])
    /\ UNCHANGED <<rows, locks>>

Invalidate(a) ==
    /\ Locked(a, "invalidate")
    /\ RowHeldBy(a, {tx[a].id}) = {}
    /\ IF tx[a].id \in Active
       THEN Commit(a, [memories EXCEPT ![tx[a].id].status = "invalidated"],
                   candidates, evidence)
       ELSE Rollback(a)

-----------------------------------------------------------------------------
(* Deletions: of a source by the inbox worker or a user, of a memory or of  *)
(* the whole scope by a user, all through delete_source_evidence.           *)

EvidenceOf(m) == UNION {memories[m].revisions[r].ev : r \in DOMAIN memories[m].revisions}

BeginDelete(a, e) ==
    /\ e \in evidence
    /\ Open(a, [Opened("delete", {}) EXCEPT !.ev = {e}])
    /\ UNCHANGED <<rows, locks>>

\* hard_delete reads the memory's evidence before it locks any of it.
BeginHardDelete(a, m) ==
    /\ m \in Live(memories)
    /\ Open(a, [Opened("hardDelete", {}) EXCEPT !.id = m, !.ev = EvidenceOf(m)])
    /\ UNCHANGED <<rows, locks>>

BeginPurge(a) ==
    /\ Live(memories) \cup Live(candidates) # {}
    /\ Open(a, Opened("purge", {}))
    /\ UNCHANGED <<rows, locks>>

Selected(a) == IF tx[a].op = "purge" THEN evidence ELSE tx[a].ev \cap evidence

\* What the deletion of E touches, as traced before its slots are locked.
TracedMemories(E) == {m \in Live(memories) : EvidenceOf(m) \cap E # {}}
TracedCandidates(E) == {c \in Live(candidates) : candidates[c].ev \cap E # {}}

TracedSlots(E) == {SlotOf(memories[m].fact) : m \in TracedMemories(E)}
                    \cup {SlotOf(candidates[c].fact) : c \in TracedCandidates(E)}

\* The memory rows a deletion locks; hard_delete_memory locks its own even without evidence.
TouchedRows(a) == TracedMemories(tx[a].ev)
                    \cup (IF tx[a].op = "hardDelete" THEN {tx[a].id} ELSE {})

\* The evidence rows are locked first; the slots that depend on them are read and locked after.
LockEvidence(a) ==
    /\ tx[a] # None /\ tx[a].phase = "evidence"
    /\ HeldBy(a, Selected(a)) = {}
    /\ evidenceOwner' = [e \in Observations |->
                            IF e \in Selected(a) THEN a ELSE evidenceOwner[e]]
    /\ tx' = [tx EXCEPT ![a].phase = "slots", ![a].ev = Selected(a),
                        ![a].slots = TracedSlots(Selected(a))]
    /\ UNCHANGED <<rows, slotOwner, starts>>

\* What the deletion leaves of the memories, and for hard_delete_memory what it still erases.
RepairedBy(a) ==
    [m \in Ids |-> IF m \in TracedMemories(tx[a].ev)
                  THEN Repaired(memories[m], tx[a].ev) ELSE memories[m]]

ErasedBy(a) ==
    IF tx[a].op = "hardDelete" THEN {tx[a].id} \cap Live(RepairedBy(a)) ELSE {}

MemoriesLeft(a) == [m \in Ids |-> IF m \in ErasedBy(a) THEN Gone ELSE RepairedBy(a)[m]]

FactsOf(mem) == {mem.revisions[r].fact : r \in DOMAIN mem.revisions}

\* The candidates without the evidence, without those of an erased memory's facts.
CandidatesLeft(a) ==
    LET rest == Remaining(tx[a].ev, RepairedBy(a))
        fallsWith(c, m) == \/ rest[c].fact \in FactsOf(RepairedBy(a)[m])
                           \/ rest[c].conflict # None /\ rest[c].conflict[1] = m
    IN  [c \in Ids |-> IF c \in Live(rest) /\ \E m \in ErasedBy(a) : fallsWith(c, m)
                      THEN Gone ELSE rest[c]]

\* The candidate rows a deletion locks, deletes or updates.
TouchedCandidates(a) ==
    TracedCandidates(tx[a].ev)
        \cup {c \in Live(candidates) : CandidatesLeft(a)[c] # candidates[c]}

DeleteEvidence(a) ==
    /\ tx[a] # None /\ tx[a].op \in Deletions /\ tx[a].phase = "slots" /\ tx[a].slots = {}
    /\ RowHeldBy(a, TouchedRows(a)) = {}
    /\ CandidateHeldBy(a, TouchedCandidates(a)) = {}
    /\ Commit(a, MemoriesLeft(a), CandidatesLeft(a), evidence \ tx[a].ev)

-----------------------------------------------------------------------------
(* Deadlocks.                                                              *)

\* The transactions an actor's next statement waits for.
WaitsFor(a) ==
    IF tx[a] = None THEN {}
    ELSE CASE tx[a].phase = "evidence" -> HeldBy(a, Selected(a))
           [] tx[a].phase = "slots" /\ tx[a].slots # {} -> {slotOwner[NextSlot(a)]} \ {None}
           [] tx[a].phase = "slots" /\ tx[a].slots = {} ->
                  CASE tx[a].op \in Deletions ->
                          RowHeldBy(a, TouchedRows(a)) \cup CandidateHeldBy(a, TouchedCandidates(a))
                    [] tx[a].op \in {"revise", "invalidate"} -> RowHeldBy(a, {tx[a].id})
                    [] OTHER -> {}
           [] tx[a].phase = "apply" ->
                  IF tx[a].op = "confirm" THEN HeldBy(a, candidates[tx[a].id].ev) ELSE {}

Deadlocked(S) == S # {} /\ \A a \in S : WaitsFor(a) \cap S # {}

\* PostgreSQL rolls one of them back; an inbox event stays pending, a request fails.
DeadlockVictim(a) ==
    /\ \E S \in SUBSET Actors : a \in S /\ Deadlocked(S)
    /\ Rollback(a)

-----------------------------------------------------------------------------

WorkerNext ==
    \/ \E fact \in Facts, kind \in Kinds, e \in Observations : BeginReconcile(fact, kind, e)
    \/ ReconcileDecide(Worker)
    \/ ReconcileApply(Worker)

UserNext(a) ==
    \/ \E c \in Ids, op \in {"confirm", "reject"} : BeginCandidate(a, op, c)
    \/ \E m \in Ids, fact \in Facts, normalized \in BOOLEAN : BeginRevise(a, m, fact, normalized)
    \/ \E m \in Ids : BeginInvalidate(a, m)
    \/ \E m \in Ids : BeginHardDelete(a, m)
    \/ BeginPurge(a)
    \/ ConfirmDecide(a)
    \/ ConfirmApply(a)
    \/ Reject(a)
    \/ Revise(a)
    \/ Invalidate(a)

Next ==
    \/ WorkerNext
    \/ \E a \in Users : UserNext(a)
    \/ \E a \in Actors, e \in Observations : BeginDelete(a, e)
    \/ \E a \in Actors : LockEvidence(a) \/ LockSlot(a) \/ DeleteEvidence(a) \/ DeadlockVictim(a)

Spec == Init /\ [][Next]_vars

-----------------------------------------------------------------------------
(* Properties.                                                             *)

\* The rows are consistent: a memory's fields are those of its active revision
\* (canonical_memories.active_revision_id), what a candidate refers to exists, and a memory or
\* a candidate refers only to evidence that is stored.
TypeOK ==
    /\ \A m \in Live(memories) :
         LET mem == memories[m] IN
         /\ mem \in MemoryRows
         /\ mem.active \in DOMAIN mem.revisions
         /\ mem.revisions[mem.active].fact = mem.fact
         /\ EvidenceOf(m) \subseteq evidence
    /\ \A c \in Live(candidates) :
         LET cand == candidates[c] IN
         /\ cand \in CandidateRows
         /\ cand.ev \subseteq evidence
         /\ cand.conflict # None => /\ cand.conflict[1] \in Live(memories)
                                    /\ cand.conflict[2] \in
                                          DOMAIN memories[cand.conflict[1]].revisions
    /\ evidence \subseteq Observations
    /\ tx \in [Actors -> Transactions \cup {None}]
    /\ slotOwner \in [Slots -> Actors \cup {None}]
    /\ evidenceOwner \in [Observations -> Actors \cup {None}]

\* Nothing is remembered without a source: whatever users do to a memory and whichever
\* sources are deleted meanwhile, a memory has a revision with evidence and a candidate has
\* evidence (server design 6.4: memories supported only by the deleted evidence are deleted).
EverythingHasASource ==
    /\ \A m \in Live(memories) : EvidenceOf(m) # {}
    /\ \A c \in Live(candidates) : candidates[c].ev # {}

\* Two memories compete for a slot only after a revision by hand, or the repair after a
\* deletion, brought one of them there (the slot lock of reconcile_candidate).
OneMemoryPerSlot ==
    \A m, n \in Active :
        (m # n /\ SlotOf(memories[m].fact) = SlotOf(memories[n].fact))
            => memories[m].byHand \/ memories[n].byHand

\* A candidate is decided once, however its confirmations and rejections interleave.
DecidedOnce ==
    [][\A c \in Live(candidates) :
          candidates[c].status # "pending" =>
              candidates'[c] = Gone \/ candidates'[c].status = candidates[c].status]_vars

\* Confirming a candidate replaces the value the user was shown beside it and no other
\* (confirm_candidate: a delayed confirmation cannot overwrite newer decisions).
ConfirmReplacesReviewed ==
    [][\A c \in Live(candidates), m \in Live(memories) :
          (/\ candidates'[c] # Gone
           /\ candidates[c].status = "pending" /\ candidates'[c].status = "promoted"
           /\ memories'[m] # Gone /\ memories'[m].fact # memories[m].fact)
              => memories[m].fact = candidates[c].reviewed]_vars

\* The locks close a circle only through a transaction that holds evidence while it asks for
\* slots (a deletion, an observation that is already known), or a move that is spelled
\* differently from its slot; confirmations, invalidations and the other moves in opposite
\* directions never do (revise: sorted order).
DeadlockNeedsDisorder ==
    \A S \in SUBSET Actors :
        Deadlocked(S) =>
            \E a \in S : (\E e \in Observations : evidenceOwner[e] = a) \/ tx[a].late

\* Does not hold, and no run checks it: a correction made by hand outlives the deletion of a
\* source as long as the memory does (server design 5.4: every correction creates a revision,
\* old values remain inspectable unless the user requests hard deletion).  The repair keeps
\* the revisions that have evidence, and a correction has none.
CorrectionsKept ==
    [][\A m \in Live(memories) :
          (/\ memories'[m] # Gone
           /\ \E a \in Actors : At(a, "delete", "slots") /\ tx'[a] = None)
              => {r \in DOMAIN memories[m].revisions : memories[m].revisions[r].ev = {}}
                   \subseteq DOMAIN memories'[m].revisions]_vars
=============================================================================

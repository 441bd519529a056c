------------------------- MODULE MemorySlotsProofs -------------------------
(***************************************************************************)
(* What the slot and row locks of the memories promise, for any number of   *)
(* users, slots, values and observations.                                   *)
(*                                                                          *)
(* The tables are sound (TablesSound): the rows have their fields, every    *)
(* memory and candidate has evidence that is stored, a candidate's conflict *)
(* names a revision that is what the user was shown, and two active         *)
(* memories of one slot are not both the reconciler's.  That is inductive   *)
(* only with what every open transaction still relies on (TxSound): it owns *)
(* its slot from the time it locked it (Holds), and what it decided still   *)
(* describes the slot when it writes (Decided).  A commit of one            *)
(* transaction keeps that for all others (KeptFor): it writes in a slot     *)
(* nobody else owns, or a row no other has locked.  Counted says that a     *)
(* transaction finds a number for what it creates, which the bound          *)
(* MaxStarts of the model would otherwise leave open.                       *)
(*                                                                          *)
(* Deadlocks need the order in which locks are taken (Ordered): whoever     *)
(* waits for a slot has locked lower ones only.  Transactions that all wait *)
(* for one another would each want a slot above all it owns, and so there   *)
(* would be a greatest slot that somebody above it owns (NoGreatest).       *)
(***************************************************************************)
EXTENDS MemorySlots, FiniteSetTheorems, WellFoundedInduction, TLAPS

\* Less(x, y): the order of the numbers as a relation, for WFMin.
Less == {ss \in Nat \X Nat : ss[1] < ss[2]}

LEMMA LeastNat ==
  ASSUME NEW S \in SUBSET Nat, S # {}
  PROVE  Min(S) \in S /\ \A y \in S : Min(S) <= y
<1>1. IsWellFoundedOn(Less, Nat)
  BY NatLessThanWellFounded DEF OpToRel, Less
<1>2. PICK x \in S : \A y \in S : ~ (<<y, x>> \in Less)
  BY <1>1, WFMin
<1>3. ASSUME NEW y \in S PROVE x <= y
  <2>1. x \in Nat /\ y \in Nat /\ <<y, x>> \notin Less
    BY <1>2
  <2>2. ~(y < x)
    BY <2>1 DEF Less
  <2> QED BY <2>1, <2>2
<1> QED BY <1>3 DEF Min

LEMMA GreatestNat ==
  ASSUME NEW S \in SUBSET Nat, S # {}, NEW n \in Nat, \A i \in S : i <= n
  PROVE  Max(S) \in S /\ \A i \in S : i <= Max(S)
<1> DEFINE T == {n - i : i \in S}
<1>1. T \in SUBSET Nat /\ T # {}
  <2>1. \A i \in S : i \in Nat /\ n - i \in Nat
    OBVIOUS
  <2> QED BY <2>1
<1>2. Min(T) \in T /\ \A t \in T : Min(T) <= t
  BY <1>1, LeastNat
<1>3. PICK x \in S : Min(T) = n - x
  BY <1>2
<1>4. ASSUME NEW i \in S PROVE i <= x
  <2>1. n - i \in T
    OBVIOUS
  <2>2. n - x <= n - i
    BY <1>2, <1>3, <2>1
  <2> QED BY <2>2
<1>5. \E y \in S : \A i \in S : y >= i
  BY <1>4
<1>6. ASSUME NEW y \in S, \A i \in S : y >= i PROVE y \in S /\ \A i \in S : i <= y
  BY <1>6
<1> QED BY <1>5, <1>6 DEF Max

-----------------------------------------------------------------------------
(* The inductive invariant.                                                 *)

Revision == [fact : Facts, ev : SUBSET Observations]

\* A memory is a row whose fields are those of its active revision.
Shape(mem) ==
    /\ mem \in MemoryRows
    /\ mem.active \in DOMAIN mem.revisions
    /\ mem.revisions[mem.active].fact = mem.fact

SupportOf(mem) == UNION {mem.revisions[r].ev : r \in DOMAIN mem.revisions}

\* The revision a candidate was recorded beside is there, and is what it was.
ConflictShown(cand, M) ==
    cand.conflict # None =>
        /\ cand.conflict[1] \in Live(M)
        /\ cand.conflict[2] \in DOMAIN M[cand.conflict[1]].revisions
        /\ M[cand.conflict[1]].revisions[cand.conflict[2]].fact = cand.reviewed

Slotted(M, slot) == {m \in Live(M) : M[m].status = "active" /\ SlotOf(M[m].fact) = slot}

OnePerSlot(M) ==
    \A m, n \in Live(M) :
        (/\ m # n /\ M[m].status = "active" /\ M[n].status = "active"
         /\ SlotOf(M[m].fact) = SlotOf(M[n].fact)) => M[m].byHand \/ M[n].byHand

MemoriesSound(M, E) ==
    /\ DOMAIN M = Ids
    /\ \A m \in Live(M) : Shape(M[m]) /\ SupportOf(M[m]) \subseteq E /\ SupportOf(M[m]) # {}

CandidatesSound(C, M, E) ==
    /\ DOMAIN C = Ids
    /\ \A c \in Live(C) : /\ C[c] \in CandidateRows /\ ConflictShown(C[c], M)
                          /\ C[c].ev \subseteq E /\ C[c].ev # {}

\* A transaction's record.
TxShape(t) ==
    /\ DOMAIN t = {"op", "phase", "slots", "after", "late", "id", "fact", "kind", "ev", "plan",
                   "target"}
    /\ t.op \in {"reconcile", "confirm", "reject", "revise", "invalidate"} \cup Deletions
    /\ t.phase \in {"evidence", "slots", "apply"}
    /\ t.phase = "apply" => t.op \in {"reconcile", "confirm"} /\ t.slots = {}
    /\ t.phase # "apply" => t.target = None
    /\ t.phase = "evidence" => t.op \in Deletions
    /\ t.slots \in SUBSET Slots /\ t.after \in SUBSET Slots
    /\ t.op \in {"reconcile", "revise"} => t.fact \in Facts
    /\ t.op = "reconcile" => t.ev \in SUBSET Observations /\ t.ev # {}
    /\ t.op \in {"confirm", "reject", "revise", "invalidate", "hardDelete"} => t.id \in Ids

\* It has its slot, or will have locked it before it reads.
Holds(a, t, C, own) ==
    /\ t.op = "reconcile" => SlotOf(t.fact) \in t.slots \/ own[SlotOf(t.fact)] = a
    /\ t.op \in {"confirm", "reject"} =>
          /\ C[t.id] # None
          /\ t.id \in Live(C) => SlotOf(C[t.id].fact) \in t.slots \/ own[SlotOf(C[t.id].fact)] = a

FactOf(t, C) == IF t.op = "confirm" THEN C[t.id].fact ELSE t.fact

\* What was decided still describes the slot when it is written.
Decided(t, M, C) ==
    t.phase = "apply" =>
        /\ t.plan \in {"attach", "promote", "hold"}
        /\ t.op = "confirm" => /\ t.id \in Live(C) /\ C[t.id].status = "pending"
                               /\ t.plan # "hold"
        /\ t.plan = "attach" => t.target # None /\ M[t.target].fact = FactOf(t, C)
        /\ t.target # None =>
              /\ t.target \in Live(M) /\ M[t.target].status = "active"
              /\ SlotOf(M[t.target].fact) = SlotOf(FactOf(t, C))
              /\ t.op = "confirm" /\ t.plan = "promote" =>
                    C[t.id].conflict = <<t.target, M[t.target].active>>
        /\ t.target = None =>
              \A m \in Slotted(M, SlotOf(FactOf(t, C))) : M[m].byHand

OpenTx == {a \in Actors : tx[a] # None}
Used(table) == {i \in Ids : table[i] # None}

\* A transaction numbers at most one memory, one candidate and one revision of a memory.
Counted ==
    /\ IsFiniteSet(OpenTx) /\ starts \in 0..MaxStarts
    /\ Cardinality(Used(memories)) + Cardinality(OpenTx) <= starts
    /\ Cardinality(Used(candidates)) + Cardinality(OpenTx) <= starts
    /\ \A m \in Live(memories) : \A r \in DOMAIN memories[m].revisions :
          r + Cardinality(OpenTx) <= starts

TablesSound ==
    /\ MemoriesSound(memories, evidence)
    /\ CandidatesSound(candidates, memories, evidence)
    /\ OnePerSlot(memories)

TxSound ==
    \A a \in Actors : tx[a] # None =>
        /\ TxShape(tx[a])
        /\ Holds(a, tx[a], candidates, slotOwner)
        /\ Decided(tx[a], memories, candidates)

LocksSound ==
    /\ DOMAIN tx = Actors
    /\ slotOwner \in [Slots -> Actors \cup {None}]
    /\ evidenceOwner \in [Observations -> Actors \cup {None}]

IInv == TablesSound /\ TxSound /\ LocksSound /\ Counted

-----------------------------------------------------------------------------
(* What the operations make of a memory.                                    *)

\* The revisions of a memory stay what they are, and new ones may join them.
Continues(new, old) ==
    /\ DOMAIN old.revisions \subseteq DOMAIN new.revisions
    /\ \A r \in DOMAIN old.revisions : new.revisions[r].fact = old.revisions[r].fact

LEMMA TableFields ==
  ASSUME NEW t \in RevisionTables
  PROVE  /\ DOMAIN t \in SUBSET Ids /\ t \in [DOMAIN t -> Revision]
         /\ \A r \in DOMAIN t : t[r] \in Revision
BY DEF RevisionTables, Revision

LEMMA TableOf ==
  ASSUME NEW D \in SUBSET Ids, NEW t \in [D -> Revision]
  PROVE  t \in RevisionTables
BY DEF RevisionTables, Revision

LEMMA RowsAreNotNull ==
  /\ \A mem : Shape(mem) => mem \notin {None, Gone}
  /\ \A cand \in CandidateRows : cand \notin {None, Gone}
BY NullsAssumption DEF Shape

LEMMA CreatedShape ==
  ASSUME NEW fact \in Facts, NEW E \in SUBSET Observations, 1 \in Ids
  PROVE  LET new == Created(fact, E) IN
         /\ Shape(new) /\ SupportOf(new) = E
         /\ new.fact = fact /\ DOMAIN new.revisions = {1}
<1> DEFINE new == Created(fact, E)
           table == [r \in {1} |-> [fact |-> fact, ev |-> E]]
<1>1. new = [status |-> "active", fact |-> fact, active |-> 1, byHand |-> FALSE,
             revisions |-> table]
  BY DEF Created
<1>2. table \in [{1} -> Revision] /\ {1} \in SUBSET Ids
  BY DEF Revision
<1>3. table \in RevisionTables
  BY <1>2, TableOf
<1>4. DOMAIN table = {1} /\ table[1].fact = fact /\ table[1].ev = E
  OBVIOUS
<1> HIDE DEF table
<1>5. new \in MemoryRows
  BY <1>1, <1>3 DEF MemoryRows
<1> HIDE DEF new
<1>6. new.active = 1 /\ new.fact = fact /\ new.revisions = table
  BY <1>1
<1>7. Shape(new) /\ SupportOf(new) = E
  BY <1>4, <1>5, <1>6 DEF Shape, SupportOf
<1> QED BY <1>4, <1>6, <1>7 DEF new

LEMMA ReinforcedShape ==
  ASSUME NEW mem, Shape(mem), NEW E \in SUBSET Observations
  PROVE  LET new == Reinforced(mem, E) IN
         /\ Shape(new) /\ SupportOf(new) = SupportOf(mem) \cup E
         /\ Continues(new, mem) /\ DOMAIN new.revisions = DOMAIN mem.revisions
         /\ new.status = mem.status /\ new.fact = mem.fact /\ new.active = mem.active
         /\ new.byHand = mem.byHand
<1> DEFINE new == Reinforced(mem, E)
           old == mem.revisions
           table == [old EXCEPT ![mem.active].ev = @ \cup E]
<1>1. /\ mem \in MemoryRows /\ mem.active \in DOMAIN old /\ old[mem.active].fact = mem.fact
      /\ old \in RevisionTables
  BY DEF Shape, MemoryRows
<1>2. new = [mem EXCEPT !.revisions = table]
  BY DEF Reinforced
<1>3. old \in [DOMAIN old -> Revision] /\ DOMAIN old \in SUBSET Ids
  BY <1>1, TableFields
<1>4. /\ DOMAIN table = DOMAIN old
      /\ \A r \in DOMAIN old \ {mem.active} : table[r] = old[r]
      /\ table[mem.active] = [old[mem.active] EXCEPT !.ev = old[mem.active].ev \cup E]
  BY <1>1, <1>3
<1>5. /\ table[mem.active].fact = old[mem.active].fact
      /\ table[mem.active].ev = old[mem.active].ev \cup E
      /\ table[mem.active] \in Revision
  BY <1>1, <1>3, <1>4 DEF Revision
<1>6. table \in [DOMAIN old -> Revision]
  BY <1>3, <1>4, <1>5
<1>7. table \in RevisionTables
  BY <1>3, <1>6, TableOf
<1> HIDE DEF table
<1>8. new \in MemoryRows
  BY <1>1, <1>2, <1>7 DEF MemoryRows
<1>9. /\ new.status = mem.status /\ new.fact = mem.fact /\ new.active = mem.active
      /\ new.byHand = mem.byHand /\ new.revisions = table
  BY <1>1, <1>2 DEF MemoryRows
<1> HIDE DEF new
<1>10. Shape(new)
  BY <1>1, <1>4, <1>5, <1>8, <1>9 DEF Shape
<1>11. Continues(new, mem)
  BY <1>4, <1>5, <1>9 DEF Continues
<1>12. SupportOf(new) = SupportOf(mem) \cup E
  <2>1. SupportOf(new) \subseteq SupportOf(mem) \cup E
    <3>1. \A r \in DOMAIN table : table[r].ev \subseteq old[r].ev \cup E
      BY <1>4, <1>5
    <3> QED BY <1>4, <1>9, <3>1 DEF SupportOf
  <2>2. SupportOf(mem) \subseteq SupportOf(new)
    <3>1. \A r \in DOMAIN old : r \in DOMAIN table /\ old[r].ev \subseteq table[r].ev
      BY <1>4, <1>5
    <3> QED BY <1>9, <3>1 DEF SupportOf
  <2>3. E \subseteq SupportOf(new)
    BY <1>1, <1>4, <1>5, <1>9 DEF SupportOf
  <2> QED BY <2>1, <2>2, <2>3
<1> QED BY <1>4, <1>9, <1>10, <1>11, <1>12 DEF new

LEMMA RevisedShape ==
  ASSUME NEW mem, Shape(mem), NEW fact \in Facts, NEW E \in SUBSET Observations,
         NEW n \in Nat, n < MaxStarts, \A r \in DOMAIN mem.revisions : r <= n
  PROVE  LET new == Revised(mem, fact, E) IN
         /\ Shape(new) /\ SupportOf(new) = SupportOf(mem) \cup E
         /\ Continues(new, mem) /\ \A r \in DOMAIN new.revisions : r <= n + 1
         /\ new.status = "active" /\ new.fact = fact /\ new.byHand = mem.byHand
<1> DEFINE new == Revised(mem, fact, E)
           old == mem.revisions
           next == NextRevision(mem)
           table == [i \in DOMAIN old \cup {next} |->
                        IF i = next THEN [fact |-> fact, ev |-> E] ELSE old[i]]
<1>1. mem \in MemoryRows /\ mem.active \in DOMAIN old /\ old \in RevisionTables
  BY DEF Shape, MemoryRows
<1>2. old \in [DOMAIN old -> Revision] /\ DOMAIN old \in SUBSET Ids
  BY <1>1, TableFields
<1>3. next \in Ids /\ next <= n + 1 /\ next \notin DOMAIN old
  <2>1. DOMAIN old \in SUBSET Nat /\ DOMAIN old # {}
    BY <1>1, <1>2 DEF Ids
  <2>2. /\ Max(DOMAIN old) \in DOMAIN old
        /\ \A i \in DOMAIN old : i <= Max(DOMAIN old)
    BY <2>1, GreatestNat
  <2>3. Max(DOMAIN old) \in Ids /\ Max(DOMAIN old) <= n
    BY <1>2, <2>2
  <2> QED BY <1>2, <2>2, <2>3, StartsAssumption DEF NextRevision, Ids
<1> HIDE DEF next
<1>4. /\ DOMAIN table = DOMAIN old \cup {next}
      /\ \A r \in DOMAIN old : table[r] = old[r]
      /\ table[next] = [fact |-> fact, ev |-> E]
  BY <1>3
<1>5. table \in [DOMAIN old \cup {next} -> Revision]
  BY <1>2 DEF Revision
<1>6. table \in RevisionTables
  BY <1>2, <1>3, <1>5, TableOf
<1>7. new = [mem EXCEPT !.status = "active", !.fact = fact, !.active = next,
                        !.revisions = table]
  BY DEF Revised, next
<1> HIDE DEF table
<1>8. new \in MemoryRows
  BY <1>1, <1>3, <1>6, <1>7 DEF MemoryRows
<1>9. /\ new.status = "active" /\ new.fact = fact /\ new.active = next
      /\ new.byHand = mem.byHand /\ new.revisions = table
  BY <1>1, <1>7 DEF MemoryRows
<1> HIDE DEF new
<1>10. Shape(new)
  BY <1>4, <1>8, <1>9 DEF Shape
<1>11. Continues(new, mem)
  BY <1>4, <1>9 DEF Continues
<1>12. SupportOf(new) = SupportOf(mem) \cup E
  BY <1>4, <1>9 DEF SupportOf
<1>13. \A r \in DOMAIN new.revisions : r <= n + 1
  BY <1>2, <1>3, <1>4, <1>9 DEF Ids
<1> QED BY <1>9, <1>10, <1>11, <1>12, <1>13 DEF new

\* Of a memory whose evidence is deleted, the revisions with other evidence remain.
LEMMA RepairedShape ==
  ASSUME NEW mem, Shape(mem), NEW E
  PROVE  LET new == Repaired(mem, E) IN
         \/ new = Gone
         \/ /\ Shape(new) /\ SupportOf(new) = SupportOf(mem) \ E /\ SupportOf(new) # {}
            /\ DOMAIN new.revisions \subseteq DOMAIN mem.revisions
            /\ \A r \in DOMAIN new.revisions : new.revisions[r].fact = mem.revisions[r].fact
            /\ \/ new.status = mem.status /\ new.fact = mem.fact /\ new.byHand = mem.byHand
               \/ new.byHand = TRUE
<1> DEFINE new == Repaired(mem, E)
           old == mem.revisions
           stripped == Stripped(mem, E)
           supported == {r \in DOMAIN stripped : stripped[r].ev # {}}
           kept == Restrict(stripped, supported)
           last == Max(supported)
<1>1. mem \in MemoryRows /\ mem.active \in DOMAIN old /\ old \in RevisionTables
      /\ old[mem.active].fact = mem.fact
  BY DEF Shape, MemoryRows
<1>2. old \in [DOMAIN old -> Revision] /\ DOMAIN old \in SUBSET Ids
  BY <1>1, TableFields
<1>3. /\ DOMAIN stripped = DOMAIN old
      /\ \A r \in DOMAIN old :
            /\ stripped[r] \in Revision
            /\ stripped[r].fact = old[r].fact /\ stripped[r].ev = old[r].ev \ E
  <2>1. ASSUME NEW r \in DOMAIN old
        PROVE  /\ [old[r] EXCEPT !.ev = @ \ E] \in Revision
               /\ [old[r] EXCEPT !.ev = @ \ E].fact = old[r].fact
               /\ [old[r] EXCEPT !.ev = @ \ E].ev = old[r].ev \ E
    BY <1>2, <2>1 DEF Revision
  <2> QED BY <2>1 DEF Stripped
<1>4. CASE supported = {}
  BY <1>4 DEF Repaired
<1>5. CASE supported # {}
  <2> HIDE DEF stripped
  <2>1. last \in supported
    <3>1. supported \in SUBSET Nat /\ \A i \in supported : i <= MaxStarts
      BY <1>2, <1>3, StartsAssumption DEF Ids
    <3> QED BY <1>5, <3>1, GreatestNat, StartsAssumption
  <2>2. DOMAIN kept = supported /\ \A r \in supported : kept[r] = stripped[r]
    BY DEF Restrict
  <2>3. kept \in [supported -> Revision] /\ supported \in SUBSET Ids
    BY <1>2, <1>3 DEF Restrict
  <2>4. kept \in RevisionTables
    BY <2>3, TableOf
  <2>5. new = IF last = mem.active THEN [mem EXCEPT !.revisions = kept]
              ELSE [status |-> "active", fact |-> stripped[last].fact, active |-> last,
                    byHand |-> TRUE, revisions |-> kept]
    BY <1>5 DEF Repaired, stripped
  <2> HIDE DEF kept, last, new
  <2>6. stripped[last].fact = old[last].fact /\ old[last].fact \in Facts /\ last \in Ids
    BY <1>2, <1>3, <2>1 DEF Revision
  <2>7. /\ new \in MemoryRows
        /\ new.active = last /\ new.fact = stripped[last].fact /\ new.revisions = kept
        /\ \/ new.status = mem.status /\ new.fact = mem.fact /\ new.byHand = mem.byHand
           \/ new.byHand = TRUE
    <3>1. CASE last = mem.active
      BY <1>1, <1>3, <2>4, <2>5, <2>6, <3>1 DEF MemoryRows
    <3>2. CASE last # mem.active
      BY <1>1, <2>4, <2>5, <2>6, <3>2 DEF MemoryRows
    <3> QED BY <3>1, <3>2
  <2>8. Shape(new)
    BY <2>1, <2>2, <2>7 DEF Shape
  <2>9. SupportOf(new) = SupportOf(mem) \ E /\ SupportOf(new) # {}
    <3>1. SupportOf(new) = UNION {stripped[r].ev : r \in supported}
      BY <2>2, <2>7 DEF SupportOf
    <3>2. UNION {stripped[r].ev : r \in supported} = SupportOf(mem) \ E
      BY <1>3 DEF SupportOf
    <3>3. UNION {stripped[r].ev : r \in supported} # {}
      BY <1>5
    <3> QED BY <3>1, <3>2, <3>3
  <2>10. DOMAIN new.revisions \subseteq DOMAIN old
        /\ \A r \in DOMAIN new.revisions : new.revisions[r].fact = old[r].fact
    BY <1>3, <2>2, <2>7
  <2> QED BY <2>7, <2>8, <2>9, <2>10 DEF new
<1> QED BY <1>4, <1>5

-----------------------------------------------------------------------------
(* The tables.                                                              *)

LEMMA MemoryFields ==
  ASSUME NEW mem, Shape(mem)
  PROVE  /\ mem.status \in {"active", "invalidated"} /\ mem.fact \in Facts
         /\ mem.active \in Ids /\ mem.byHand \in BOOLEAN
         /\ mem.active \in DOMAIN mem.revisions /\ DOMAIN mem.revisions \in SUBSET Ids
         /\ mem.revisions[mem.active].fact = mem.fact
<1>1. mem.revisions \in RevisionTables
  BY DEF Shape, MemoryRows
<1>2. mem.status \in {"active", "invalidated"} /\ mem.fact \in Facts /\ mem.active \in Ids
      /\ mem.byHand \in BOOLEAN
  BY DEF Shape, MemoryRows
<1> QED BY <1>1, <1>2, TableFields DEF Shape

\* One memory is created or rewritten.
LEMMA MemoryWritten ==
  ASSUME NEW M, NEW E, NEW F, MemoriesSound(M, E), E \subseteq F, NEW i \in Ids,
         NEW mem, Shape(mem), SupportOf(mem) \subseteq F, SupportOf(mem) # {}
  PROVE  LET N == [M EXCEPT ![i] = mem] IN
         /\ MemoriesSound(N, F)
         /\ DOMAIN N = Ids /\ N[i] = mem /\ \A j \in Ids \ {i} : N[j] = M[j]
         /\ Live(N) = Live(M) \cup {i}
<1> DEFINE N == [M EXCEPT ![i] = mem]
<1>1. DOMAIN N = Ids /\ N[i] = mem /\ \A j \in Ids \ {i} : N[j] = M[j]
  BY DEF MemoriesSound
<1> HIDE DEF N
<1>2. mem \notin {None, Gone}
  BY RowsAreNotNull
<1>3. Live(N) = Live(M) \cup {i}
  BY <1>1, <1>2 DEF Live, MemoriesSound
<1>4. MemoriesSound(N, F)
  <2>1. ASSUME NEW m \in Live(N)
        PROVE  Shape(N[m]) /\ SupportOf(N[m]) \subseteq F /\ SupportOf(N[m]) # {}
    <3>1. CASE m = i
      BY <1>1, <3>1
    <3>2. CASE m # i
      <4>1. m \in Live(M) /\ N[m] = M[m]
        BY <1>1, <1>3, <3>2 DEF Live, MemoriesSound
      <4> QED BY <4>1 DEF MemoriesSound
    <3> QED BY <3>1, <3>2
  <2> QED BY <1>1, <2>1 DEF MemoriesSound
<1> QED BY <1>1, <1>3, <1>4 DEF N

\* Every memory is still there with its revisions.
Follows(N, M) == \A m \in Live(M) : m \in Live(N) /\ Continues(N[m], M[m])

LEMMA FollowsWritten ==
  ASSUME NEW M, NEW E, MemoriesSound(M, E), NEW i \in Ids, NEW mem, NEW N,
         N[i] = mem, \A j \in Ids \ {i} : N[j] = M[j], Live(N) = Live(M) \cup {i},
         i \in Live(M) => Continues(mem, M[i])
  PROVE  Follows(N, M)
<1>1. ASSUME NEW m \in Live(M) PROVE Continues(N[m], M[m])
  <2>1. CASE m = i
    BY <2>1
  <2>2. CASE m # i
    <3>1. N[m] = M[m]
      BY <2>2 DEF Live, MemoriesSound
    <3> QED BY <3>1 DEF Continues
  <2> QED BY <2>1, <2>2
<1> QED BY <1>1 DEF Follows

LEMMA ConflictKept ==
  ASSUME NEW cand, NEW M, NEW N, ConflictShown(cand, M), Follows(N, M)
  PROVE  ConflictShown(cand, N)
BY DEF ConflictShown, Follows, Continues

\* One candidate is recorded or rewritten, beside memories that stay.
LEMMA CandidateWritten ==
  ASSUME NEW C, NEW M, NEW E, NEW N, NEW F, CandidatesSound(C, M, E), Follows(N, M),
         E \subseteq F, NEW i \in Ids, NEW cand \in CandidateRows, ConflictShown(cand, N),
         cand.ev \subseteq F, cand.ev # {}
  PROVE  LET D == [C EXCEPT ![i] = cand] IN
         /\ CandidatesSound(D, N, F)
         /\ D[i] = cand /\ \A j \in Ids \ {i} : D[j] = C[j]
         /\ Live(D) = Live(C) \cup {i}
<1> DEFINE D == [C EXCEPT ![i] = cand]
<1>1. DOMAIN D = Ids /\ D[i] = cand /\ \A j \in Ids \ {i} : D[j] = C[j]
  BY DEF CandidatesSound
<1> HIDE DEF D
<1>2. cand \notin {None, Gone}
  BY RowsAreNotNull
<1>3. Live(D) = Live(C) \cup {i}
  BY <1>1, <1>2 DEF Live, CandidatesSound
<1>4. CandidatesSound(D, N, F)
  <2>1. ASSUME NEW c \in Live(D)
        PROVE  /\ D[c] \in CandidateRows /\ ConflictShown(D[c], N)
               /\ D[c].ev \subseteq F /\ D[c].ev # {}
    <3>1. CASE c = i
      BY <1>1, <3>1
    <3>2. CASE c # i
      <4>1. c \in Live(C) /\ D[c] = C[c]
        BY <1>1, <1>3, <3>2 DEF Live, CandidatesSound
      <4>2. ConflictShown(C[c], N)
        BY <4>1, ConflictKept DEF CandidatesSound
      <4> QED BY <4>1, <4>2 DEF CandidatesSound
    <3> QED BY <3>1, <3>2
  <2> QED BY <1>1, <2>1 DEF CandidatesSound
<1> QED BY <1>1, <1>3, <1>4 DEF D

LEMMA CandidatesKept ==
  ASSUME NEW C, NEW M, NEW E, NEW N, NEW F, CandidatesSound(C, M, E), Follows(N, M),
         E \subseteq F
  PROVE  CandidatesSound(C, N, F)
<1>1. \A c \in Live(C) : ConflictShown(C[c], N)
  BY ConflictKept DEF CandidatesSound
<1> QED BY <1>1 DEF CandidatesSound

\* A slot gets no second memory from a write that is by hand, that ends a memory, that keeps one
\* where it was, or that is the slot's only one beside those revised by hand.
LEMMA SlotsWritten ==
  ASSUME NEW M, NEW E, MemoriesSound(M, E), OnePerSlot(M), NEW i \in Ids, NEW mem, Shape(mem),
         NEW N, N[i] = mem, \A j \in Ids \ {i} : N[j] = M[j], Live(N) = Live(M) \cup {i},
         \/ mem.byHand
         \/ mem.status # "active"
         \/ /\ i \in Live(M) /\ M[i].status = "active" /\ mem.byHand = M[i].byHand
            /\ SlotOf(mem.fact) = SlotOf(M[i].fact)
         \/ \A m \in Slotted(M, SlotOf(mem.fact)) : M[m].byHand
  PROVE  OnePerSlot(N)
<1> SUFFICES ASSUME NEW m \in Live(N), NEW n \in Live(N), m # n,
                    N[m].status = "active", N[n].status = "active",
                    SlotOf(N[m].fact) = SlotOf(N[n].fact)
             PROVE  N[m].byHand \/ N[n].byHand
  BY DEF OnePerSlot
<1>1. \A j \in Live(M) : j \in Ids
  BY DEF Live, MemoriesSound
<1>2. CASE m # i /\ n # i
  BY <1>1, <1>2 DEF OnePerSlot
<1>3. ASSUME NEW j \in Live(M), j # i, M[j].status = "active",
             mem.status = "active", SlotOf(M[j].fact) = SlotOf(mem.fact)
      PROVE  mem.byHand \/ M[j].byHand
  BY <1>3 DEF OnePerSlot, Slotted
<1>4. CASE m = i
  BY <1>1, <1>3, <1>4
<1>5. CASE n = i
  BY <1>1, <1>3, <1>5
<1> QED BY <1>2, <1>4, <1>5

-----------------------------------------------------------------------------
(* Transactions.                                                            *)

LEMMA IdsFinite == IsFiniteSet(Ids) /\ \A S \in SUBSET Ids : IsFiniteSet(S)
<1>1. IsFiniteSet(Ids)
  BY FS_Interval, StartsAssumption DEF Ids
<1> QED BY <1>1, FS_Subset

LEMMA SlotOfFact == ASSUME NEW fact \in Facts PROVE SlotOf(fact) \in Slots
BY DEF Facts, SlotOf

\* An open transaction takes a number, and with it all it will create.
LEMMA OpenKeeps ==
  ASSUME IInv, NEW a \in Actors, NEW t, TxShape(t), t.phase # "apply",
         Holds(a, t, candidates, slotOwner),
         Open(a, t), UNCHANGED <<rows, slotOwner>>,
         evidenceOwner' \in [Observations -> Actors \cup {None}]
  PROVE  IInv'
<1>1. /\ tx' = [tx EXCEPT ![a] = t] /\ starts' = starts + 1 /\ starts < MaxStarts
      /\ tx[a] = None /\ UNCHANGED <<memories, candidates, evidence, slotOwner>>
  BY DEF Open, rows
<1>2. TablesSound'
  BY <1>1 DEF IInv, TablesSound
<1>3. LocksSound'
  BY <1>1 DEF IInv, LocksSound
<1>4. TxSound'
  <2> SUFFICES ASSUME NEW b \in Actors, tx'[b] # None
               PROVE  /\ TxShape(tx'[b])
                      /\ Holds(b, tx'[b], candidates, slotOwner)
                      /\ Decided(tx'[b], memories, candidates)
    BY <1>1 DEF TxSound
  <2>1. CASE b = a
    BY <1>1, <2>1 DEF IInv, LocksSound, Decided
  <2>2. CASE b # a
    BY <1>1, <2>2 DEF IInv, LocksSound, TxSound
  <2> QED BY <2>1, <2>2
<1>5. Counted'
  <2>1. OpenTx' \subseteq OpenTx \cup {a} /\ IsFiniteSet(OpenTx)
    BY <1>1 DEF OpenTx, IInv, LocksSound, Counted
  <2>2. IsFiniteSet(OpenTx \cup {a}) /\ Cardinality(OpenTx \cup {a}) <= Cardinality(OpenTx) + 1
        /\ Cardinality(OpenTx) \in Nat
    <3>1. Cardinality(OpenTx) \in Nat
      BY <2>1, FS_CardinalityType
    <3>2. /\ IsFiniteSet(OpenTx \cup {a})
          /\ Cardinality(OpenTx \cup {a})
                = IF a \in OpenTx THEN Cardinality(OpenTx) ELSE Cardinality(OpenTx) + 1
      BY <2>1, FS_AddElement
    <3> QED BY <3>1, <3>2
  <2>3. IsFiniteSet(OpenTx') /\ Cardinality(OpenTx') <= Cardinality(OpenTx \cup {a})
        /\ Cardinality(OpenTx') \in Nat /\ Cardinality(OpenTx \cup {a}) \in Nat
    BY <2>1, <2>2, FS_Subset, FS_CardinalityType
  <2>4. Used(memories)' = Used(memories) /\ Used(candidates)' = Used(candidates)
        /\ Live(memories)' = Live(memories)
    BY <1>1 DEF Used, Live
  <2>5. /\ Cardinality(Used(memories)) \in Nat /\ Cardinality(Used(candidates)) \in Nat
    BY IdsFinite, FS_CardinalityType DEF Used
  <2>6. \A m \in Live(memories) : \A r \in DOMAIN memories[m].revisions : r \in Nat
    <3>1. ASSUME NEW m \in Live(memories) PROVE DOMAIN memories[m].revisions \in SUBSET Ids
      BY MemoryFields DEF IInv, TablesSound, MemoriesSound
    <3> QED BY <3>1 DEF Ids
  <2>7. starts \in Nat /\ starts' <= MaxStarts
    BY <1>1, StartsAssumption DEF IInv, Counted
  <2>8. /\ Cardinality(Used(memories)) + Cardinality(OpenTx') <= starts'
        /\ Cardinality(Used(candidates)) + Cardinality(OpenTx') <= starts'
    BY <1>1, <2>2, <2>3, <2>5, <2>7 DEF IInv, Counted
  <2>9. \A m \in Live(memories) : \A r \in DOMAIN memories[m].revisions :
           r + Cardinality(OpenTx') <= starts'
    BY <1>1, <2>2, <2>3, <2>6, <2>7 DEF IInv, Counted
  <2> QED BY <1>1, <2>3, <2>4, <2>7, <2>8, <2>9, StartsAssumption DEF Counted
<1> QED BY <1>2, <1>3, <1>4, <1>5 DEF IInv

\* A transaction goes on without writing.
LEMMA StepKeeps ==
  ASSUME IInv, NEW a \in Actors, tx[a] # None, NEW t, TxShape(t),
         tx' = [tx EXCEPT ![a] = t], UNCHANGED <<rows, starts>>,
         slotOwner' \in [Slots -> Actors \cup {None}],
         \A s \in Slots : slotOwner[s] # None => slotOwner'[s] = slotOwner[s],
         evidenceOwner' \in [Observations -> Actors \cup {None}],
         Holds(a, t, candidates, slotOwner'),
         Decided(t, memories, candidates)
  PROVE  IInv'
<1>1. UNCHANGED <<memories, candidates, evidence>>
  BY DEF rows
<1>2. TablesSound'
  BY <1>1 DEF IInv, TablesSound
<1>3. LocksSound'
  BY <1>1 DEF IInv, LocksSound
<1>4. TxSound'
  <2> SUFFICES ASSUME NEW b \in Actors, tx'[b] # None
               PROVE  /\ TxShape(tx'[b])
                      /\ Holds(b, tx'[b], candidates, slotOwner')
                      /\ Decided(tx'[b], memories, candidates)
    BY <1>1 DEF TxSound
  <2>1. CASE b = a
    BY <1>1, <2>1 DEF IInv, LocksSound
  <2>2. CASE b # a
    <3>1. tx'[b] = tx[b] /\ TxShape(tx[b]) /\ Holds(b, tx[b], candidates, slotOwner)
          /\ Decided(tx[b], memories, candidates)
      BY <2>2 DEF IInv, LocksSound, TxSound
    <3>2. Holds(b, tx[b], candidates, slotOwner')
      <4>1. ASSUME NEW fact \in Facts, slotOwner[SlotOf(fact)] = b
            PROVE  slotOwner'[SlotOf(fact)] = b
        <5>1. b # None
          BY ActorsAssumption DEF Actors
        <5> QED BY <4>1, <5>1, SlotOfFact
      <4>2. tx[b].op = "reconcile" => tx[b].fact \in Facts
        BY <3>1 DEF TxShape
      <4>3. tx[b].id \in Live(candidates) => candidates[tx[b].id].fact \in Facts
        BY DEF IInv, TablesSound, CandidatesSound, CandidateRows
      <4> QED BY <3>1, <4>1, <4>2, <4>3 DEF Holds
    <3> QED BY <3>1, <3>2
  <2> QED BY <2>1, <2>2
<1>5. Counted'
  <2>1. OpenTx' \subseteq OpenTx /\ IsFiniteSet(OpenTx)
    BY DEF OpenTx, IInv, LocksSound, Counted
  <2>2. IsFiniteSet(OpenTx') /\ Cardinality(OpenTx') <= Cardinality(OpenTx)
        /\ Cardinality(OpenTx') \in Nat /\ Cardinality(OpenTx) \in Nat
    BY <2>1, FS_Subset, FS_CardinalityType
  <2>3. Used(memories)' = Used(memories) /\ Used(candidates)' = Used(candidates)
        /\ Live(memories)' = Live(memories) /\ memories' = memories /\ starts' = starts
    BY <1>1 DEF Used, Live
  <2>4. /\ Cardinality(Used(memories)) \in Nat /\ Cardinality(Used(candidates)) \in Nat
    BY IdsFinite, FS_CardinalityType DEF Used
  <2>5. \A m \in Live(memories) : \A r \in DOMAIN memories[m].revisions : r \in Nat
    <3>1. ASSUME NEW m \in Live(memories) PROVE DOMAIN memories[m].revisions \in SUBSET Ids
      BY MemoryFields DEF IInv, TablesSound, MemoriesSound
    <3> QED BY <3>1 DEF Ids
  <2>6. starts \in Nat
    BY StartsAssumption DEF IInv, Counted
  <2>7. /\ Cardinality(Used(memories)) + Cardinality(OpenTx') <= starts
        /\ Cardinality(Used(candidates)) + Cardinality(OpenTx') <= starts
    BY <2>2, <2>4, <2>6 DEF IInv, Counted
  <2>8. \A m \in Live(memories) : \A r \in DOMAIN memories[m].revisions :
           r + Cardinality(OpenTx') <= starts
    BY <2>2, <2>5, <2>6 DEF IInv, Counted
  <2> QED BY <2>2, <2>3, <2>7, <2>8 DEF IInv, Counted
<1> QED BY <1>2, <1>3, <1>4, <1>5 DEF IInv

\* What other transactions rely on while one of them commits.
MemoriesKeptFor(b, N) ==
    tx[b].phase = "apply" =>
        /\ tx[b].target # None =>
              tx[b].target \in Live(N) /\ N[tx[b].target] = memories[tx[b].target]
        /\ tx[b].target = None =>
              \A m \in Slotted(N, SlotOf(FactOf(tx[b], candidates))) : N[m].byHand

CandidatesKeptFor(b, D) ==
    /\ tx[b].op \in {"confirm", "reject"} =>
          /\ D[tx[b].id] # None
          /\ tx[b].id \in Live(D) => /\ tx[b].id \in Live(candidates)
                                     /\ D[tx[b].id].fact = candidates[tx[b].id].fact
    /\ tx[b].op = "confirm" /\ tx[b].phase = "apply" =>
          tx[b].id \in Live(D) /\ D[tx[b].id] = candidates[tx[b].id]

KeptFor(b, N, D) == MemoriesKeptFor(b, N) /\ CandidatesKeptFor(b, D)

LEMMA KeptSound ==
  ASSUME IInv, NEW b \in Actors, tx[b] # None, NEW N, NEW D, KeptFor(b, N, D)
  PROVE  Holds(b, tx[b], D, slotOwner) /\ Decided(tx[b], N, D)
<1>1. TxShape(tx[b]) /\ Holds(b, tx[b], candidates, slotOwner)
      /\ Decided(tx[b], memories, candidates)
  BY DEF IInv, TxSound
<1>2. Holds(b, tx[b], D, slotOwner)
  BY <1>1 DEF KeptFor, CandidatesKeptFor, Holds
<1>3. tx[b].phase = "apply" => FactOf(tx[b], D) = FactOf(tx[b], candidates)
  BY DEF KeptFor, CandidatesKeptFor, FactOf
<1>4. Decided(tx[b], N, D)
  BY <1>1, <1>3 DEF KeptFor, CandidatesKeptFor, MemoriesKeptFor, Decided
<1> QED BY <1>2, <1>4

LEMMA OneMore ==
  ASSUME NEW S \in SUBSET Ids, NEW T \in SUBSET Ids, NEW i, T \subseteq S \cup {i}
  PROVE  /\ Cardinality(S) \in Nat /\ Cardinality(T) \in Nat
         /\ Cardinality(T) <= Cardinality(S) + 1
<1>1. IsFiniteSet(S) /\ IsFiniteSet(T)
  BY IdsFinite
<1>2. Cardinality(S) \in Nat /\ Cardinality(T) \in Nat
  BY <1>1, FS_CardinalityType
<1>3. IsFiniteSet(S \cup {i})
      /\ Cardinality(S \cup {i}) = IF i \in S THEN Cardinality(S) ELSE Cardinality(S) + 1
  BY <1>1, FS_AddElement
<1>4. Cardinality(T) <= Cardinality(S \cup {i})
  BY <1>3, FS_Subset
<1> QED BY <1>2, <1>3, <1>4

\* The end of a transaction gives back its locks, and its number if it did not need it.
LEMMA CloseKeeps ==
  ASSUME IInv, NEW a \in Actors, tx[a] # None, Close(a), TablesSound',
         \A b \in Actors \ {a} : tx[b] # None => KeptFor(b, memories', candidates'),
         NEW i, Used(memories)' \subseteq Used(memories) \cup {i},
         NEW j, Used(candidates)' \subseteq Used(candidates) \cup {j},
         \A m \in Live(memories') : \A r \in DOMAIN memories'[m].revisions :
            r \in Nat /\ r + Cardinality(OpenTx) <= starts + 1
  PROVE  IInv'
<1>1. /\ tx' = [tx EXCEPT ![a] = None] /\ starts' = starts
      /\ slotOwner' = [s \in Slots |-> IF slotOwner[s] = a THEN None ELSE slotOwner[s]]
      /\ evidenceOwner' = [e \in Observations |->
                              IF evidenceOwner[e] = a THEN None ELSE evidenceOwner[e]]
  BY DEF Close
<1>2. LocksSound'
  BY <1>1 DEF IInv, LocksSound
<1>3. TxSound'
  <2> SUFFICES ASSUME NEW b \in Actors, tx'[b] # None
               PROVE  /\ TxShape(tx'[b])
                      /\ Holds(b, tx'[b], candidates', slotOwner')
                      /\ Decided(tx'[b], memories', candidates')
    BY DEF TxSound
  <2>1. b # a /\ tx'[b] = tx[b]
    BY <1>1 DEF IInv, LocksSound
  <2>2. TxShape(tx[b]) /\ Holds(b, tx[b], candidates', slotOwner)
        /\ Decided(tx[b], memories', candidates')
    BY <2>1, KeptSound DEF IInv, TxSound
  <2>3. Holds(b, tx[b], candidates', slotOwner')
    <3>1. ASSUME NEW fact \in Facts, slotOwner[SlotOf(fact)] = b
          PROVE  slotOwner'[SlotOf(fact)] = b
      BY <1>1, <2>1, <3>1, SlotOfFact
    <3>2. tx[b].op = "reconcile" => tx[b].fact \in Facts
      BY <2>2 DEF TxShape
    <3>3. tx[b].id \in Live(candidates') => candidates'[tx[b].id].fact \in Facts
      BY DEF TablesSound, CandidatesSound, CandidateRows
    <3> QED BY <2>2, <3>1, <3>2, <3>3 DEF Holds
  <2> QED BY <2>1, <2>2, <2>3
<1>4. Counted'
  <2>1. OpenTx' = OpenTx \ {a} /\ a \in OpenTx /\ IsFiniteSet(OpenTx)
    BY <1>1 DEF OpenTx, IInv, LocksSound, Counted
  <2>2. /\ IsFiniteSet(OpenTx') /\ Cardinality(OpenTx) \in Nat
        /\ Cardinality(OpenTx') = Cardinality(OpenTx) - 1 /\ Cardinality(OpenTx') \in Nat
    <3>1. /\ IsFiniteSet(OpenTx \ {a})
          /\ Cardinality(OpenTx \ {a})
                = IF a \in OpenTx THEN Cardinality(OpenTx) - 1 ELSE Cardinality(OpenTx)
      BY <2>1, FS_RemoveElement
    <3>2. Cardinality(OpenTx) \in Nat /\ Cardinality(OpenTx \ {a}) \in Nat
      BY <2>1, <3>1, FS_CardinalityType
    <3> QED BY <2>1, <3>1, <3>2
  <2>3. /\ Cardinality(Used(memories)) \in Nat /\ Cardinality(Used(memories)') \in Nat
        /\ Cardinality(Used(memories)') <= Cardinality(Used(memories)) + 1
        /\ Cardinality(Used(candidates)) \in Nat /\ Cardinality(Used(candidates)') \in Nat
        /\ Cardinality(Used(candidates)') <= Cardinality(Used(candidates)) + 1
    BY OneMore DEF Used
  <2>4. starts \in Nat
    BY StartsAssumption DEF IInv, Counted
  <2>5. /\ Cardinality(Used(memories)') + Cardinality(OpenTx') <= starts
        /\ Cardinality(Used(candidates)') + Cardinality(OpenTx') <= starts
    BY <2>2, <2>3, <2>4 DEF IInv, Counted
  <2>6. \A m \in Live(memories') : \A r \in DOMAIN memories'[m].revisions :
           r + Cardinality(OpenTx') <= starts
    BY <2>2, <2>4
  <2> QED BY <1>1, <2>2, <2>5, <2>6 DEF IInv, Counted, Used, Live
<1> QED BY <1>2, <1>3, <1>4 DEF IInv

\* There is a number left for what an open transaction creates.
LEMMA FreeNumbers ==
  ASSUME IInv, NEW a \in Actors, tx[a] # None
  PROVE  /\ 1 \in Ids /\ starts \in Nat /\ starts <= MaxStarts
         /\ Cardinality(OpenTx) \in Nat /\ Cardinality(OpenTx) >= 1
         /\ FreeId(memories) \in Ids /\ memories[FreeId(memories)] = None
         /\ FreeId(candidates) \in Ids /\ candidates[FreeId(candidates)] = None
<1>1. a \in OpenTx /\ IsFiniteSet(OpenTx)
  BY DEF OpenTx, IInv, Counted
<1>2. Cardinality(OpenTx) \in Nat /\ Cardinality(OpenTx) # 0
  BY <1>1, FS_CardinalityType, FS_EmptySet
<1>3. starts \in Nat /\ starts <= MaxStarts
  BY StartsAssumption DEF IInv, Counted
<1>4. Cardinality(Ids) = MaxStarts
  BY FS_Interval, StartsAssumption DEF Ids
<1>5. ASSUME NEW T, Cardinality(Used(T)) + Cardinality(OpenTx) <= starts
      PROVE  FreeId(T) \in Ids /\ T[FreeId(T)] = None
  <2>1. Cardinality(Used(T)) \in Nat /\ Used(T) \in SUBSET Ids
    BY OneMore DEF Used
  <2>2. Used(T) # Ids
    BY <1>2, <1>3, <1>4, <1>5, <2>1, StartsAssumption
  <2>3. {i \in Ids : T[i] = None} # {} /\ {i \in Ids : T[i] = None} \in SUBSET Nat
    BY <2>1, <2>2 DEF Used, Ids
  <2>4. FreeId(T) \in {i \in Ids : T[i] = None}
    BY <2>3, LeastNat DEF FreeId
  <2> QED BY <2>4
<1>6. 1 \in Ids
  BY <1>5, StartsAssumption DEF IInv, Counted, Ids
<1> QED BY <1>2, <1>3, <1>5, <1>6 DEF IInv, Counted

\* A transaction that applies its decision owns the slot it decided about.
LEMMA OwnsSlot ==
  ASSUME IInv, NEW a \in Actors, tx[a] # None, tx[a].phase = "apply"
  PROVE  /\ TxShape(tx[a]) /\ Decided(tx[a], memories, candidates)
         /\ FactOf(tx[a], candidates) \in Facts
         /\ slotOwner[SlotOf(FactOf(tx[a], candidates))] = a
<1>1. TxShape(tx[a]) /\ Holds(a, tx[a], candidates, slotOwner)
      /\ Decided(tx[a], memories, candidates)
  BY DEF IInv, TxSound
<1>2. tx[a].op \in {"reconcile", "confirm"} /\ tx[a].slots = {}
  BY <1>1 DEF TxShape
<1>3. CASE tx[a].op = "reconcile"
  BY <1>1, <1>2, <1>3 DEF TxShape, Holds, FactOf
<1>4. CASE tx[a].op = "confirm"
  <2>1. tx[a].id \in Live(candidates)
    BY <1>1, <1>4 DEF Decided
  <2>2. candidates[tx[a].id].fact \in Facts
    BY <2>1 DEF IInv, TablesSound, CandidatesSound, CandidateRows
  <2> QED BY <1>1, <1>2, <1>4, <2>1, <2>2 DEF Holds, FactOf
<1> QED BY <1>2, <1>3, <1>4

\* What a write to one memory leaves to the others.
LEMMA OthersKeepMemory ==
  ASSUME IInv, NEW b \in Actors, tx[b] # None, NEW i \in Ids, NEW mem, NEW N,
         N[i] = mem, \A j \in Ids \ {i} : N[j] = memories[j], Live(N) = Live(memories) \cup {i},
         tx[b].phase = "apply" =>
            /\ i # tx[b].target
            /\ \/ mem.byHand \/ mem.status # "active"
               \/ SlotOf(mem.fact) # SlotOf(FactOf(tx[b], candidates))
  PROVE  MemoriesKeptFor(b, N)
<1> SUFFICES ASSUME tx[b].phase = "apply"
             PROVE  /\ tx[b].target # None =>
                          tx[b].target \in Live(N) /\ N[tx[b].target] = memories[tx[b].target]
                    /\ tx[b].target = None =>
                          \A m \in Slotted(N, SlotOf(FactOf(tx[b], candidates))) : N[m].byHand
  BY DEF MemoriesKeptFor
<1>1. Decided(tx[b], memories, candidates)
  BY OwnsSlot
<1>2. \A m \in Live(memories) : m \in Ids
  BY DEF Live, IInv, TablesSound, MemoriesSound
<1>3. ASSUME tx[b].target # None
      PROVE  tx[b].target \in Live(N) /\ N[tx[b].target] = memories[tx[b].target]
  BY <1>1, <1>2, <1>3 DEF Decided
<1>4. ASSUME tx[b].target = None, NEW m \in Slotted(N, SlotOf(FactOf(tx[b], candidates)))
      PROVE  N[m].byHand
  <2>1. CASE m = i
    BY <2>1 DEF Slotted
  <2>2. CASE m # i
    <3>1. m \in Slotted(memories, SlotOf(FactOf(tx[b], candidates))) /\ N[m] = memories[m]
      BY <1>2, <2>2 DEF Slotted
    <3> QED BY <1>1, <1>4, <3>1 DEF Decided
  <2> QED BY <2>1, <2>2
<1> QED BY <1>3, <1>4

\* What a write to one candidate leaves to the others.
LEMMA OthersKeepCandidate ==
  ASSUME IInv, NEW b \in Actors, tx[b] # None, NEW i \in Ids, NEW cand, NEW D,
         D[i] = cand, \A j \in Ids \ {i} : D[j] = candidates[j],
         Live(D) = Live(candidates) \cup {i}, cand # None,
         \/ candidates[i] = None
         \/ /\ i \in Live(candidates) /\ cand.fact = candidates[i].fact
            /\ slotOwner[SlotOf(candidates[i].fact)] # b
  PROVE  CandidatesKeptFor(b, D)
<1>1. TxShape(tx[b]) /\ Holds(b, tx[b], candidates, slotOwner)
      /\ Decided(tx[b], memories, candidates)
  BY DEF IInv, TxSound
<1>2. ASSUME tx[b].op \in {"confirm", "reject"}
      PROVE  /\ D[tx[b].id] # None
             /\ tx[b].id \in Live(D) => /\ tx[b].id \in Live(candidates)
                                        /\ D[tx[b].id].fact = candidates[tx[b].id].fact
  <2>1. tx[b].id \in Ids /\ candidates[tx[b].id] # None
    BY <1>1, <1>2 DEF TxShape, Holds
  <2> QED BY <2>1
<1>3. ASSUME tx[b].op = "confirm", tx[b].phase = "apply"
      PROVE  tx[b].id \in Live(D) /\ D[tx[b].id] = candidates[tx[b].id]
  <2>1. tx[b].id \in Ids /\ tx[b].id \in Live(candidates) /\ candidates[tx[b].id] # None
    BY <1>1, <1>3 DEF TxShape, Decided, Holds
  <2>2. slotOwner[SlotOf(candidates[tx[b].id].fact)] = b
    BY <1>3, OwnsSlot DEF FactOf
  <2> QED BY <2>1, <2>2
<1> QED BY <1>2, <1>3 DEF CandidatesKeptFor

LEMMA CandidatesUntouched ==
  ASSUME IInv, NEW b \in Actors, tx[b] # None
  PROVE  CandidatesKeptFor(b, candidates)
BY DEF IInv, TxSound, Holds, Decided, CandidatesKeptFor

LEMMA MemoriesUntouched ==
  ASSUME IInv, NEW b \in Actors, tx[b] # None
  PROVE  MemoriesKeptFor(b, memories)
BY DEF IInv, TxSound, Decided, MemoriesKeptFor

LEMMA MemoryIds ==
  ASSUME IInv
  PROVE  /\ Live(memories) \subseteq Ids /\ Live(candidates) \subseteq Ids
         /\ \A m \in Live(memories) :
               /\ Shape(memories[m]) /\ DOMAIN memories[m].revisions \in SUBSET Ids
               /\ \A r \in DOMAIN memories[m].revisions :
                     r \in Nat /\ r + Cardinality(OpenTx) <= starts
<1>1. Live(memories) \subseteq Ids /\ Live(candidates) \subseteq Ids
  BY DEF IInv, TablesSound, MemoriesSound, CandidatesSound, Live
<1>2. ASSUME NEW m \in Live(memories)
      PROVE  Shape(memories[m]) /\ DOMAIN memories[m].revisions \in SUBSET Ids
  BY MemoryFields DEF IInv, TablesSound, MemoriesSound
<1> QED BY <1>1, <1>2 DEF IInv, Counted, Ids

\* A transaction that changes no memory ends.
LEMMA MemoriesUnwritten ==
  ASSUME IInv, NEW a \in Actors, tx[a] # None, Close(a), UNCHANGED memories,
         evidence \subseteq evidence',
         CandidatesSound(candidates', memories', evidence'),
         \A b \in Actors \ {a} : tx[b] # None => CandidatesKeptFor(b, candidates'),
         NEW j, Used(candidates)' \subseteq Used(candidates) \cup {j}
  PROVE  IInv'
<1>1. MemoriesSound(memories', evidence')
  BY DEF IInv, TablesSound, MemoriesSound
<1>2. TablesSound'
  BY <1>1 DEF IInv, TablesSound
<1>3. \A b \in Actors \ {a} : tx[b] # None => KeptFor(b, memories', candidates')
  BY MemoriesUntouched DEF KeptFor
<1>4. Used(memories)' \subseteq Used(memories) \cup {j}
  BY DEF Used
<1>5. \A m \in Live(memories') : \A r \in DOMAIN memories'[m].revisions :
            r \in Nat /\ r + Cardinality(OpenTx) <= starts + 1
  BY MemoryIds, FreeNumbers
<1> QED BY <1>2, <1>3, <1>4, <1>5, CloseKeeps

LEMMA RollbackKeeps ==
  ASSUME IInv, NEW a \in Actors, tx[a] # None, Rollback(a)
  PROVE  IInv'
<1>1. Close(a) /\ UNCHANGED <<memories, candidates, evidence>>
  BY DEF Rollback, rows
<1>2. CandidatesSound(candidates', memories', evidence')
  BY <1>1 DEF IInv, TablesSound
<1>3. \A b \in Actors \ {a} : tx[b] # None => CandidatesKeptFor(b, candidates')
  BY <1>1, CandidatesUntouched
<1>4. Used(candidates)' \subseteq Used(candidates) \cup {1}
  BY <1>1 DEF Used
<1> QED BY <1>1, <1>2, <1>3, <1>4, MemoriesUnwritten

\* A row that a transaction may write without the others noticing.
Writable(a, i, mem) ==
    /\ Shape(mem) /\ SupportOf(mem) # {}
    /\ i \in Live(memories) => Continues(mem, memories[i])
    /\ \/ mem.byHand
       \/ mem.status # "active"
       \/ /\ i \in Live(memories) /\ memories[i].status = "active"
          /\ mem.byHand = memories[i].byHand /\ SlotOf(mem.fact) = SlotOf(memories[i].fact)
       \/ \A m \in Slotted(memories, SlotOf(mem.fact)) : memories[m].byHand
    /\ \A r \in DOMAIN mem.revisions : r \in Nat /\ r + Cardinality(OpenTx) <= starts + 1
    /\ \A b \in Actors \ {a} : tx[b] # None /\ tx[b].phase = "apply" =>
          /\ i # tx[b].target
          /\ \/ mem.byHand \/ mem.status # "active"
             \/ SlotOf(mem.fact) # SlotOf(FactOf(tx[b], candidates))

\* A transaction that creates or rewrites one memory ends.
LEMMA OneMemoryWritten ==
  ASSUME IInv, NEW a \in Actors, tx[a] # None, Close(a), evidence \subseteq evidence',
         NEW i \in Ids, NEW mem, Writable(a, i, mem), SupportOf(mem) \subseteq evidence',
         memories' = [memories EXCEPT ![i] = mem],
         Follows(memories', memories) => CandidatesSound(candidates', memories', evidence'),
         \A b \in Actors \ {a} : tx[b] # None => CandidatesKeptFor(b, candidates'),
         NEW j, Used(candidates)' \subseteq Used(candidates) \cup {j}
  PROVE  IInv'
<1>1. /\ Shape(mem) /\ SupportOf(mem) # {}
      /\ i \in Live(memories) => Continues(mem, memories[i])
      /\ \/ mem.byHand
         \/ mem.status # "active"
         \/ /\ i \in Live(memories) /\ memories[i].status = "active"
            /\ mem.byHand = memories[i].byHand /\ SlotOf(mem.fact) = SlotOf(memories[i].fact)
         \/ \A m \in Slotted(memories, SlotOf(mem.fact)) : memories[m].byHand
      /\ \A r \in DOMAIN mem.revisions : r \in Nat /\ r + Cardinality(OpenTx) <= starts + 1
      /\ \A b \in Actors \ {a} : tx[b] # None /\ tx[b].phase = "apply" =>
            /\ i # tx[b].target
            /\ \/ mem.byHand \/ mem.status # "active"
               \/ SlotOf(mem.fact) # SlotOf(FactOf(tx[b], candidates))
  BY DEF Writable
<1>2. MemoriesSound(memories, evidence) /\ OnePerSlot(memories)
  BY DEF IInv, TablesSound
<1> DEFINE N == [memories EXCEPT ![i] = mem]
<1>3. /\ MemoriesSound(N, evidence')
      /\ DOMAIN N = Ids /\ N[i] = mem /\ \A m \in Ids \ {i} : N[m] = memories[m]
      /\ Live(N) = Live(memories) \cup {i}
  <2>1. PICK F : F = evidence'
    OBVIOUS
  <2>2. /\ evidence \subseteq F /\ SupportOf(mem) \subseteq F /\ SupportOf(mem) # {}
        /\ Shape(mem) /\ MemoriesSound(memories, evidence)
    BY <1>1, <1>2, <2>1
  <2>3. /\ MemoriesSound(N, F)
        /\ DOMAIN N = Ids /\ N[i] = mem /\ \A m \in Ids \ {i} : N[m] = memories[m]
        /\ Live(N) = Live(memories) \cup {i}
    BY ONLY <2>2, i \in Ids, MemoryWritten
  <2> QED BY <2>1, <2>3
<1>4. N = memories'
  OBVIOUS
<1> HIDE DEF N
<1>5. Follows(N, memories)
  BY <1>1, <1>2, <1>3, FollowsWritten
<1>6. OnePerSlot(N)
  BY <1>1, <1>2, <1>3, SlotsWritten
<1>7. TablesSound'
  BY <1>4, <1>3, <1>5, <1>6 DEF TablesSound
<1>8. ASSUME NEW b \in Actors \ {a}, tx[b] # None PROVE KeptFor(b, memories', candidates')
  <2>1. MemoriesKeptFor(b, N)
    BY <1>1, <1>3, <1>8, OthersKeepMemory
  <2> QED BY <1>4, <1>8, <2>1 DEF KeptFor
<1>9. Used(memories)' \subseteq Used(memories) \cup {i}
  BY <1>4, <1>3 DEF Used
<1>10. ASSUME NEW m \in Live(memories'), NEW r \in DOMAIN memories'[m].revisions
      PROVE  r \in Nat /\ r + Cardinality(OpenTx) <= starts + 1
  <2>1. CASE m = i
    BY <1>1, <1>4, <1>3, <2>1
  <2>2. CASE m # i
    <3>1. m \in Live(memories) /\ memories'[m] = memories[m]
      BY <1>4, <1>3, <2>2, MemoryIds
    <3> QED BY <3>1, MemoryIds, FreeNumbers
  <2> QED BY <2>1, <2>2
<1> QED BY <1>7, <1>8, <1>9, <1>10, CloseKeeps

-----------------------------------------------------------------------------
(* What is written after a decision.                                        *)

\* A decided transaction writes the memory it decided on, or a new one for its slot.
DecidedWrite(a, i, mem) ==
    /\ Shape(mem) /\ SupportOf(mem) # {}
    /\ i \in Live(memories) => Continues(mem, memories[i])
    /\ \A r \in DOMAIN mem.revisions : r \in Nat /\ r + Cardinality(OpenTx) <= starts + 1
    /\ SlotOf(mem.fact) = SlotOf(FactOf(tx[a], candidates))
    /\ \/ tx[a].target # None /\ i = tx[a].target /\ mem.byHand = memories[i].byHand
       \/ tx[a].target = None /\ memories[i] = None

LEMMA DecidedWriteIsolated ==
  ASSUME IInv, NEW a \in Actors, tx[a] # None, tx[a].phase = "apply",
         NEW i \in Ids, NEW mem, DecidedWrite(a, i, mem)
  PROVE  /\ \/ /\ i \in Live(memories) /\ memories[i].status = "active"
               /\ mem.byHand = memories[i].byHand /\ SlotOf(mem.fact) = SlotOf(memories[i].fact)
            \/ \A m \in Slotted(memories, SlotOf(mem.fact)) : memories[m].byHand
         /\ \A b \in Actors \ {a} : tx[b] # None /\ tx[b].phase = "apply" =>
               i # tx[b].target /\ SlotOf(mem.fact) # SlotOf(FactOf(tx[b], candidates))
<1>1. /\ Decided(tx[a], memories, candidates)
      /\ slotOwner[SlotOf(FactOf(tx[a], candidates))] = a
  BY OwnsSlot
<1>2. SlotOf(mem.fact) = SlotOf(FactOf(tx[a], candidates))
  BY DEF DecidedWrite
<1>3. CASE tx[a].target # None
  <2>1. /\ i \in Live(memories) /\ memories[i].status = "active"
        /\ mem.byHand = memories[i].byHand /\ SlotOf(mem.fact) = SlotOf(memories[i].fact)
    BY <1>1, <1>2, <1>3 DEF Decided, DecidedWrite
  <2>2. ASSUME NEW b \in Actors \ {a}, tx[b] # None, tx[b].phase = "apply"
        PROVE  i # tx[b].target /\ SlotOf(mem.fact) # SlotOf(FactOf(tx[b], candidates))
    <3>1. /\ Decided(tx[b], memories, candidates)
          /\ slotOwner[SlotOf(FactOf(tx[b], candidates))] = b
      BY <2>2, OwnsSlot
    <3>2. tx[b].target # None =>
             SlotOf(memories[tx[b].target].fact) = SlotOf(FactOf(tx[b], candidates))
      BY <2>2, <3>1 DEF Decided
    <3>3. i # None
      BY <1>3 DEF DecidedWrite
    <3> QED BY <1>1, <1>2, <2>1, <3>1, <3>2, <3>3
  <2> QED BY <2>1, <2>2
<1>4. CASE tx[a].target = None
  <2>1. memories[i] = None
    BY <1>4 DEF DecidedWrite
  <2>2. \A m \in Slotted(memories, SlotOf(mem.fact)) : memories[m].byHand
    <3>1. tx[a].target = None =>
             \A m \in Slotted(memories, SlotOf(FactOf(tx[a], candidates))) : memories[m].byHand
      BY <1>1 DEF Decided
    <3> QED BY <1>2, <1>4, <3>1
  <2>3. ASSUME NEW b \in Actors \ {a}, tx[b] # None, tx[b].phase = "apply"
        PROVE  i # tx[b].target /\ SlotOf(mem.fact) # SlotOf(FactOf(tx[b], candidates))
    <3>1. /\ Decided(tx[b], memories, candidates)
          /\ slotOwner[SlotOf(FactOf(tx[b], candidates))] = b
      BY <2>3, OwnsSlot
    <3>2. tx[b].target # None => tx[b].target \in Live(memories)
      BY <2>3, <3>1 DEF Decided
    <3>3. i # None
      BY NullsAssumption DEF Ids
    <3>4. i \notin Live(memories)
      BY <2>1 DEF Live
    <3> QED BY <1>1, <1>2, <3>1, <3>2, <3>3, <3>4
  <2> QED BY <2>2, <2>3
<1> QED BY <1>3, <1>4

LEMMA DecidedWriteKeeps ==
  ASSUME IInv, NEW a \in Actors, tx[a] # None, tx[a].phase = "apply", Close(a),
         evidence \subseteq evidence',
         NEW i \in Ids, NEW mem, DecidedWrite(a, i, mem), SupportOf(mem) \subseteq evidence',
         memories' = [memories EXCEPT ![i] = mem],
         Follows(memories', memories) => CandidatesSound(candidates', memories', evidence'),
         \A b \in Actors \ {a} : tx[b] # None => CandidatesKeptFor(b, candidates'),
         NEW j, Used(candidates)' \subseteq Used(candidates) \cup {j}
  PROVE  IInv'
<1>1. /\ Shape(mem) /\ SupportOf(mem) # {}
      /\ i \in Live(memories) => Continues(mem, memories[i])
      /\ \A r \in DOMAIN mem.revisions : r \in Nat /\ r + Cardinality(OpenTx) <= starts + 1
  BY DEF DecidedWrite
<1>2. /\ \/ mem.byHand
         \/ mem.status # "active"
         \/ /\ i \in Live(memories) /\ memories[i].status = "active"
            /\ mem.byHand = memories[i].byHand /\ SlotOf(mem.fact) = SlotOf(memories[i].fact)
         \/ \A m \in Slotted(memories, SlotOf(mem.fact)) : memories[m].byHand
      /\ \A b \in Actors \ {a} : tx[b] # None /\ tx[b].phase = "apply" =>
            /\ i # tx[b].target
            /\ \/ mem.byHand \/ mem.status # "active"
               \/ SlotOf(mem.fact) # SlotOf(FactOf(tx[b], candidates))
  BY DecidedWriteIsolated
<1>3. Writable(a, i, mem)
  BY <1>1, <1>2 DEF Writable
<1> QED BY <1>3, OneMemoryWritten

\* attach_revision_evidence after find_active_memory.
LEMMA AttachIsDecided ==
  ASSUME IInv, NEW a \in Actors, tx[a] # None, tx[a].phase = "apply", tx[a].plan = "attach",
         NEW E \in SUBSET Observations
  PROVE  /\ tx[a].target \in Ids
         /\ DecidedWrite(a, tx[a].target, Reinforced(memories[tx[a].target], E))
         /\ SupportOf(Reinforced(memories[tx[a].target], E)) \subseteq evidence \cup E
<1> DEFINE m == tx[a].target
           new == Reinforced(memories[m], E)
<1>1. Decided(tx[a], memories, candidates)
  BY OwnsSlot
<1>2. m # None /\ m \in Live(memories) /\ memories[m].fact = FactOf(tx[a], candidates)
  BY <1>1 DEF Decided
<1>3. m \in Ids /\ Shape(memories[m])
      /\ \A r \in DOMAIN memories[m].revisions : r \in Nat /\ r + Cardinality(OpenTx) <= starts
  BY <1>2, MemoryIds
<1>4. SupportOf(memories[m]) \subseteq evidence /\ SupportOf(memories[m]) # {}
  BY <1>2 DEF IInv, TablesSound, MemoriesSound
<1>5. /\ Shape(new) /\ SupportOf(new) = SupportOf(memories[m]) \cup E
      /\ Continues(new, memories[m]) /\ DOMAIN new.revisions = DOMAIN memories[m].revisions
      /\ new.fact = memories[m].fact /\ new.byHand = memories[m].byHand
  BY <1>3, ReinforcedShape
<1> HIDE DEF new
<1>6. \A r \in DOMAIN new.revisions : r \in Nat /\ r + Cardinality(OpenTx) <= starts + 1
  BY <1>3, <1>5, FreeNumbers
<1>7. DecidedWrite(a, m, new)
  BY <1>2, <1>4, <1>5, <1>6 DEF DecidedWrite
<1> QED BY <1>3, <1>4, <1>5, <1>7 DEF new

\* revise_memory or _create_memory.
LEMMA WrittenIsDecided ==
  ASSUME IInv, NEW a \in Actors, tx[a] # None, tx[a].phase = "apply",
         NEW E \in SUBSET Observations, E # {}
  PROVE  \E i, mem :
            /\ i \in Ids
            /\ Written(tx[a].target, FactOf(tx[a], candidates), E)
                  = [memories EXCEPT ![i] = mem]
            /\ DecidedWrite(a, i, mem) /\ SupportOf(mem) \subseteq evidence \cup E
            /\ mem.fact = FactOf(tx[a], candidates)
<1> DEFINE m == tx[a].target
           fact == FactOf(tx[a], candidates)
<1>1. Decided(tx[a], memories, candidates) /\ fact \in Facts
  BY OwnsSlot
<1>2. CASE m # None
  <2> DEFINE new == Revised(memories[m], fact, E)
             n == starts - Cardinality(OpenTx)
  <2>1. m \in Live(memories)
    BY <1>1, <1>2 DEF Decided
  <2>2. m \in Ids /\ Shape(memories[m])
        /\ \A r \in DOMAIN memories[m].revisions : r \in Nat /\ r + Cardinality(OpenTx) <= starts
    BY <2>1, MemoryIds
  <2>3. SupportOf(memories[m]) \subseteq evidence
    BY <2>1 DEF IInv, TablesSound, MemoriesSound
  <2>4. /\ starts \in Nat /\ starts <= MaxStarts /\ Cardinality(OpenTx) \in Nat
        /\ Cardinality(OpenTx) >= 1
    BY FreeNumbers
  <2>5. \A r \in DOMAIN memories[m].revisions : r <= n
    BY <2>2, <2>4
  <2>6. n \in Nat /\ n < MaxStarts
    <3>1. memories[m].active \in DOMAIN memories[m].revisions
      BY <2>2, MemoryFields
    <3> QED BY <2>2, <2>4, <3>1, StartsAssumption
  <2> HIDE DEF n
  <2>7. /\ Shape(new) /\ SupportOf(new) = SupportOf(memories[m]) \cup E
        /\ Continues(new, memories[m]) /\ \A r \in DOMAIN new.revisions : r <= n + 1
        /\ new.fact = fact /\ new.byHand = memories[m].byHand
    BY <1>1, <2>2, <2>5, <2>6, RevisedShape
  <2> HIDE DEF new, fact
  <2>8. \A r \in DOMAIN new.revisions : r \in Nat /\ r + Cardinality(OpenTx) <= starts + 1
    <3>1. \A r \in DOMAIN new.revisions : r \in Nat
      BY <2>7, MemoryFields DEF Ids
    <3> QED BY <2>4, <2>7, <3>1 DEF n
  <2>9. DecidedWrite(a, m, new)
    BY <1>2, <2>7, <2>8 DEF DecidedWrite, fact
  <2>10. Written(m, fact, E) = [memories EXCEPT ![m] = new]
    BY <1>2 DEF Written, new
  <2>11. SupportOf(new) \subseteq evidence \cup E
    BY <2>3, <2>7
  <2> QED BY <2>2, <2>7, <2>9, <2>10, <2>11 DEF fact
<1>3. CASE m = None
  <2> DEFINE new == Created(fact, E)
             i == FreeId(memories)
  <2>1. i \in Ids /\ memories[i] = None /\ 1 \in Ids
    BY FreeNumbers
  <2> HIDE DEF i
  <2>2. Shape(new) /\ SupportOf(new) = E /\ new.fact = fact /\ DOMAIN new.revisions = {1}
    BY <1>1, <2>1, CreatedShape
  <2> HIDE DEF new, fact
  <2>3. 1 + Cardinality(OpenTx) <= starts + 1
    <3>1. Cardinality(Used(memories)) + Cardinality(OpenTx) <= starts
          /\ Cardinality(Used(memories)) \in Nat
      BY OneMore DEF IInv, Counted, Used
    <3> QED BY <3>1, FreeNumbers
  <2>4. DecidedWrite(a, i, new)
    BY <1>3, <2>1, <2>2, <2>3 DEF DecidedWrite, fact, Live
  <2>5. Written(m, fact, E) = [memories EXCEPT ![i] = new]
    BY <1>3 DEF Written, new, i
  <2> QED BY <2>1, <2>2, <2>4, <2>5 DEF fact
<1> QED BY <1>2, <1>3

\* What CandidatesSound, the other transactions and the numbers ask of the candidates left by a.
CandidatesFollow(a, D, F) ==
    /\ \A N : Follows(N, memories) => CandidatesSound(D, N, F)
    /\ \A b \in Actors \ {a} : tx[b] # None => CandidatesKeptFor(b, D)
    /\ \E j : {c \in Ids : D[c] # None} \subseteq Used(candidates) \cup {j}

LEMMA FollowsItself == Follows(memories, memories)
BY DEF Follows, Continues

LEMMA CandidatesStay ==
  ASSUME IInv, NEW a \in Actors, NEW F, evidence \subseteq F
  PROVE  CandidatesFollow(a, candidates, F)
<1>1. \A N : Follows(N, memories) => CandidatesSound(candidates, N, F)
  BY CandidatesKept DEF IInv, TablesSound
<1>2. \A b \in Actors \ {a} : tx[b] # None => CandidatesKeptFor(b, candidates)
  BY CandidatesUntouched
<1> QED BY <1>1, <1>2 DEF CandidatesFollow, Used

LEMMA CandidateRecorded ==
  ASSUME IInv, NEW a \in Actors, tx[a] # None, NEW cand \in CandidateRows,
         NEW F, evidence \subseteq F, cand.ev \subseteq F, cand.ev # {},
         ConflictShown(cand, memories)
  PROVE  CandidatesFollow(a, [candidates EXCEPT ![FreeId(candidates)] = cand], F)
<1> DEFINE i == FreeId(candidates)
           D == [candidates EXCEPT ![i] = cand]
<1>1. i \in Ids /\ candidates[i] = None
  BY FreeNumbers
<1> HIDE DEF i
<1>2. CandidatesSound(candidates, memories, evidence)
  BY DEF IInv, TablesSound
<1>3. ASSUME NEW N, Follows(N, memories)
      PROVE  CandidatesSound(D, N, F)
  <2>1. ConflictShown(cand, N)
    BY <1>3, ConflictKept
  <2>2. evidence \subseteq F /\ cand.ev \subseteq F /\ cand.ev # {} /\ cand \in CandidateRows
    OBVIOUS
  <2> QED BY ONLY <1>1, <1>2, <1>3, <2>1, <2>2, CandidateWritten
<1>4. /\ D[i] = cand /\ (\A j \in Ids \ {i} : D[j] = candidates[j])
      /\ Live(D) = Live(candidates) \cup {i}
  <2>1. DOMAIN candidates = Ids /\ cand \notin {None, Gone}
    BY <1>2, RowsAreNotNull DEF CandidatesSound
  <2>2. DOMAIN D = Ids /\ D[i] = cand /\ \A j \in Ids \ {i} : D[j] = candidates[j]
    BY <1>1, <2>1
  <2> HIDE DEF D
  <2> QED BY <1>1, <2>1, <2>2 DEF Live
<1> HIDE DEF D
<1>5. cand # None
  BY RowsAreNotNull
<1>6. \A b \in Actors \ {a} : tx[b] # None => CandidatesKeptFor(b, D)
  BY <1>1, <1>4, <1>5, OthersKeepCandidate
<1>7. {c \in Ids : D[c] # None} \subseteq Used(candidates) \cup {i}
  BY <1>4 DEF Used
<1> QED BY <1>3, <1>6, <1>7 DEF CandidatesFollow, D, i

LEMMA CandidateDecided ==
  ASSUME IInv, NEW a \in Actors, NEW c \in Live(candidates),
         slotOwner[SlotOf(candidates[c].fact)] = a,
         NEW status \in {"pending", "promoted", "rejected"}, NEW F, evidence \subseteq F
  PROVE  CandidatesFollow(a, [candidates EXCEPT ![c].status = status], F)
<1> DEFINE cand == [candidates[c] EXCEPT !.status = status]
           D == [candidates EXCEPT ![c] = cand]
<1>1. CandidatesSound(candidates, memories, evidence) /\ c \in Ids
  BY MemoryIds DEF IInv, TablesSound
<1>2. candidates[c] \in CandidateRows /\ ConflictShown(candidates[c], memories)
      /\ candidates[c].ev \subseteq evidence /\ candidates[c].ev # {}
  BY <1>1 DEF CandidatesSound
<1>3. cand \in CandidateRows /\ cand.fact = candidates[c].fact /\ cand.ev = candidates[c].ev
      /\ cand.conflict = candidates[c].conflict /\ cand.reviewed = candidates[c].reviewed
  BY <1>2 DEF CandidateRows
<1>4. [candidates EXCEPT ![c].status = status] = D
  OBVIOUS
<1> HIDE DEF cand
<1>5. ASSUME NEW N, Follows(N, memories)
      PROVE  CandidatesSound(D, N, F)
  <2>1. ConflictShown(candidates[c], N)
    BY <1>2, <1>5, ConflictKept
  <2>2. ConflictShown(cand, N)
    BY <1>3, <2>1 DEF ConflictShown
  <2>3. evidence \subseteq F /\ cand.ev \subseteq F /\ cand.ev # {} /\ cand \in CandidateRows
    BY <1>2, <1>3
  <2> QED BY ONLY <1>1, <1>5, <2>2, <2>3, CandidateWritten
<1>6. /\ D[c] = cand /\ (\A j \in Ids \ {c} : D[j] = candidates[j])
      /\ Live(D) = Live(candidates) \cup {c}
  <2>1. DOMAIN candidates = Ids /\ cand \notin {None, Gone}
    BY <1>1, <1>3, RowsAreNotNull DEF CandidatesSound
  <2>2. DOMAIN D = Ids /\ D[c] = cand /\ \A j \in Ids \ {c} : D[j] = candidates[j]
    BY <1>1, <2>1
  <2> HIDE DEF D
  <2> QED BY <1>1, <2>1, <2>2 DEF Live
<1> HIDE DEF D
<1>7. cand # None
  BY <1>3, RowsAreNotNull
<1>8. \A b \in Actors \ {a} : tx[b] # None => CandidatesKeptFor(b, D)
  BY <1>1, <1>3, <1>6, <1>7, OthersKeepCandidate
<1>9. {j \in Ids : D[j] # None} \subseteq Used(candidates) \cup {c}
  BY <1>6 DEF Used
<1>10. CandidatesFollow(a, D, F)
  BY <1>5, <1>8, <1>9 DEF CandidatesFollow
<1> QED BY <1>4, <1>10

LEMMA DecidedCommitKeeps ==
  ASSUME IInv, NEW a \in Actors, tx[a] # None, tx[a].phase = "apply",
         NEW i \in Ids, NEW mem, DecidedWrite(a, i, mem), NEW F, SupportOf(mem) \subseteq F,
         evidence \subseteq F, NEW D, CandidatesFollow(a, D, F),
         Commit(a, [memories EXCEPT ![i] = mem], D, F)
  PROVE  IInv'
<1>1. CASE Rollback(a)
  BY <1>1, RollbackKeeps
<1>2. CASE /\ memories' = [memories EXCEPT ![i] = mem] /\ candidates' = D /\ evidence' = F
           /\ Close(a)
  <2>1. PICK j : {c \in Ids : D[c] # None} \subseteq Used(candidates) \cup {j}
    BY DEF CandidatesFollow
  <2>2. Used(candidates)' \subseteq Used(candidates) \cup {j}
    BY <1>2, <2>1 DEF Used
  <2>3. Follows(memories', memories) => CandidatesSound(candidates', memories', evidence')
    BY <1>2 DEF CandidatesFollow
  <2>4. \A b \in Actors \ {a} : tx[b] # None => CandidatesKeptFor(b, candidates')
    BY <1>2 DEF CandidatesFollow
  <2>5. evidence \subseteq evidence' /\ SupportOf(mem) \subseteq evidence'
    BY <1>2
  <2> QED BY <1>2, <2>2, <2>3, <2>4, <2>5, DecidedWriteKeeps
<1> QED BY <1>1, <1>2 DEF Commit

LEMMA CandidatesCommitKeeps ==
  ASSUME IInv, NEW a \in Actors, tx[a] # None, NEW F, evidence \subseteq F,
         NEW D, CandidatesFollow(a, D, F), Commit(a, memories, D, F)
  PROVE  IInv'
<1>1. CASE Rollback(a)
  BY <1>1, RollbackKeeps
<1>2. CASE memories' = memories /\ candidates' = D /\ evidence' = F /\ Close(a)
  <2>1. PICK j : {c \in Ids : D[c] # None} \subseteq Used(candidates) \cup {j}
    BY DEF CandidatesFollow
  <2>2. Used(candidates)' \subseteq Used(candidates) \cup {j}
    BY <1>2, <2>1 DEF Used
  <2>3. CandidatesSound(candidates', memories', evidence')
    BY <1>2, FollowsItself DEF CandidatesFollow
  <2>4. \A b \in Actors \ {a} : tx[b] # None => CandidatesKeptFor(b, candidates')
    BY <1>2 DEF CandidatesFollow
  <2> QED BY <1>2, <2>2, <2>3, <2>4, MemoriesUnwritten
<1> QED BY <1>1, <1>2 DEF Commit

LEMMA CandidateOfRow ==
  ASSUME IInv, NEW a \in Actors, tx[a] # None, tx[a].op = "reconcile", tx[a].phase = "apply",
         NEW status \in {"pending", "promoted"}
  PROVE  LET cand == CandidateOf(tx[a], status) IN
         /\ cand \in CandidateRows /\ ConflictShown(cand, memories)
         /\ cand.ev = tx[a].ev
<1> DEFINE t == tx[a]
           cand == CandidateOf(t, status)
           conflicts == t.target # None /\ memories[t.target].fact # t.fact
<1>1. TxShape(t) /\ Decided(t, memories, candidates)
  BY OwnsSlot
<1>2. t.fact \in Facts /\ t.ev \in SUBSET Observations
  BY <1>1 DEF TxShape
<1>3. cand = [status |-> status, fact |-> t.fact, ev |-> t.ev,
              conflict |-> IF conflicts THEN <<t.target, memories[t.target].active>> ELSE None,
              reviewed |-> IF conflicts THEN memories[t.target].fact ELSE None]
  BY DEF CandidateOf
<1> HIDE DEF cand, conflicts
<1>4. CASE conflicts
  <2>1. t.target \in Live(memories)
    BY <1>1, <1>4 DEF conflicts, Decided
  <2>2. t.target \in Ids /\ Shape(memories[t.target])
    BY <2>1, MemoryIds
  <2>3. /\ memories[t.target].active \in Ids /\ memories[t.target].fact \in Facts
        /\ memories[t.target].active \in DOMAIN memories[t.target].revisions
        /\ memories[t.target].revisions[memories[t.target].active].fact = memories[t.target].fact
    BY <2>2, MemoryFields
  <2>4. /\ cand.conflict = <<t.target, memories[t.target].active>>
        /\ cand.reviewed = memories[t.target].fact /\ cand.ev = t.ev
    BY <1>3, <1>4
  <2>5. ConflictShown(cand, memories)
    BY <2>1, <2>3, <2>4 DEF ConflictShown
  <2>6. cand \in CandidateRows
    BY <1>2, <1>3, <1>4, <2>2, <2>3 DEF CandidateRows
  <2> QED BY <2>4, <2>5, <2>6 DEF cand
<1>5. CASE ~conflicts
  <2>1. cand.conflict = None /\ cand.ev = t.ev
    BY <1>3, <1>5
  <2>2. cand \in CandidateRows
    BY <1>2, <1>3, <1>5 DEF CandidateRows
  <2> QED BY <2>1, <2>2 DEF cand, ConflictShown
<1> QED BY <1>4, <1>5

LEMMA ReconcileApplyKeeps ==
  ASSUME IInv, NEW a \in Actors, ReconcileApply(a)
  PROVE  IInv'
<1> DEFINE t == tx[a]
           F == evidence \cup t.ev
           recorded(status) == [candidates EXCEPT ![FreeId(candidates)] = CandidateOf(t, status)]
<1>1. tx[a] # None /\ t.op = "reconcile" /\ t.phase = "apply"
  BY DEF ReconcileApply, At
<1>2. TxShape(t) /\ Decided(t, memories, candidates)
  BY <1>1, OwnsSlot
<1>3. t.ev \in SUBSET Observations /\ t.ev # {} /\ t.plan \in {"attach", "promote", "hold"}
      /\ FactOf(t, candidates) = t.fact
  BY <1>1, <1>2 DEF TxShape, Decided, FactOf
<1>4. ASSUME NEW status \in {"pending", "promoted"}
      PROVE  CandidatesFollow(a, recorded(status), F)
  BY <1>1, <1>3, CandidateOfRow, CandidateRecorded
<1>5. CASE t.plan = "attach"
  <2>1. Commit(a, [memories EXCEPT ![t.target] = Reinforced(memories[t.target], t.ev)],
               candidates, F)
    BY <1>5 DEF ReconcileApply
  <2>2. CandidatesFollow(a, candidates, F)
    BY CandidatesStay
  <2>3. /\ t.target \in Ids
        /\ DecidedWrite(a, t.target, Reinforced(memories[t.target], t.ev))
        /\ SupportOf(Reinforced(memories[t.target], t.ev)) \subseteq F
    BY <1>1, <1>3, <1>5, AttachIsDecided
  <2> QED BY <1>1, <2>1, <2>2, <2>3, DecidedCommitKeeps
<1>6. CASE t.plan = "hold"
  <2>1. Commit(a, memories, recorded("pending"), F)
    BY <1>6 DEF ReconcileApply
  <2>2. CandidatesFollow(a, recorded("pending"), F)
    BY <1>4
  <2> HIDE DEF recorded
  <2> QED BY <1>1, <2>1, <2>2, CandidatesCommitKeeps
<1>7. CASE t.plan = "promote"
  <2>1. Commit(a, Written(t.target, t.fact, t.ev), recorded("promoted"), F)
    BY <1>7 DEF ReconcileApply
  <2>2. CandidatesFollow(a, recorded("promoted"), F)
    BY <1>4
  <2>3. PICK i, mem :
            /\ i \in Ids
            /\ Written(t.target, FactOf(t, candidates), t.ev) = [memories EXCEPT ![i] = mem]
            /\ DecidedWrite(a, i, mem) /\ SupportOf(mem) \subseteq F
    BY <1>1, <1>3, WrittenIsDecided
  <2> HIDE DEF recorded
  <2>4. Commit(a, [memories EXCEPT ![i] = mem], recorded("promoted"), F)
    BY <1>3, <2>1, <2>3
  <2> QED BY <1>1, <2>2, <2>3, <2>4, DecidedCommitKeeps
<1> QED BY <1>3, <1>5, <1>6, <1>7

LEMMA ConfirmApplyKeeps ==
  ASSUME IInv, NEW a \in Actors, ConfirmApply(a)
  PROVE  IInv'
<1> DEFINE t == tx[a]
           cand == candidates[t.id]
           D == [candidates EXCEPT ![t.id].status = "promoted"]
<1>1. tx[a] # None /\ t.op = "confirm" /\ t.phase = "apply"
  BY DEF ConfirmApply, At
<1>2. TxShape(t) /\ Decided(t, memories, candidates)
      /\ slotOwner[SlotOf(FactOf(t, candidates))] = a
  BY <1>1, OwnsSlot
<1>3. t.id \in Live(candidates) /\ t.plan \in {"attach", "promote"}
      /\ FactOf(t, candidates) = cand.fact
  BY <1>1, <1>2 DEF Decided, FactOf
<1>4. cand.ev \in SUBSET Observations /\ cand.ev # {} /\ cand.ev \subseteq evidence
  BY <1>3 DEF IInv, TablesSound, CandidatesSound, CandidateRows
<1>5. CandidatesFollow(a, D, evidence)
  BY <1>2, <1>3, CandidateDecided
<1> HIDE DEF D
<1>6. CASE t.plan = "attach"
  <2>1. Commit(a, [memories EXCEPT ![t.target] = Reinforced(memories[t.target], cand.ev)],
               D, evidence)
    BY <1>6 DEF ConfirmApply, D
  <2>2. /\ t.target \in Ids
        /\ DecidedWrite(a, t.target, Reinforced(memories[t.target], cand.ev))
        /\ SupportOf(Reinforced(memories[t.target], cand.ev)) \subseteq evidence
    BY <1>1, <1>4, <1>6, AttachIsDecided
  <2> QED BY <1>1, <1>5, <2>1, <2>2, DecidedCommitKeeps
<1>7. CASE t.plan = "promote"
  <2>1. Commit(a, Written(t.target, cand.fact, cand.ev), D, evidence)
    BY <1>7 DEF ConfirmApply, D
  <2>2. PICK i, mem :
            /\ i \in Ids
            /\ Written(t.target, FactOf(t, candidates), cand.ev) = [memories EXCEPT ![i] = mem]
            /\ DecidedWrite(a, i, mem) /\ SupportOf(mem) \subseteq evidence \cup cand.ev
    <3> HIDE DEF cand
    <3> DEFINE E == cand.ev
    <3>1. E \in SUBSET Observations /\ E # {}
      BY <1>4
    <3> HIDE DEF E
    <3>2. \E i, mem :
            /\ i \in Ids
            /\ Written(t.target, FactOf(t, candidates), E) = [memories EXCEPT ![i] = mem]
            /\ DecidedWrite(a, i, mem) /\ SupportOf(mem) \subseteq evidence \cup E
      BY <1>1, <3>1, WrittenIsDecided
    <3> QED BY <3>2 DEF E
  <2>3. Commit(a, [memories EXCEPT ![i] = mem], D, evidence)
    BY <1>3, <2>1, <2>2
  <2>4. SupportOf(mem) \subseteq evidence
    BY <1>4, <2>2
  <2> QED BY <1>1, <1>5, <2>2, <2>3, <2>4, DecidedCommitKeeps
<1> QED BY <1>3, <1>6, <1>7

-----------------------------------------------------------------------------
(* The memory API and the decisions.                                        *)

LEMMA RejectKeeps ==
  ASSUME IInv, NEW a \in Actors, Reject(a)
  PROVE  IInv'
<1> DEFINE c == tx[a].id
           D == [candidates EXCEPT ![c].status = "rejected"]
<1>1. tx[a] # None /\ tx[a].op = "reject" /\ tx[a].slots = {}
  BY DEF Reject, Locked, At
<1>2. Holds(a, tx[a], candidates, slotOwner)
  BY <1>1 DEF IInv, TxSound
<1>3. CASE Decidable(c)
  <2>1. c \in Live(candidates) /\ slotOwner[SlotOf(candidates[c].fact)] = a
    BY <1>1, <1>2, <1>3 DEF Decidable, Holds
  <2>2. CandidatesFollow(a, D, evidence)
    BY <2>1, CandidateDecided
  <2>3. Commit(a, memories, D, evidence)
    BY <1>3 DEF Reject
  <2> HIDE DEF D
  <2> QED BY <1>1, <2>2, <2>3, CandidatesCommitKeeps
<1>4. CASE ~Decidable(c)
  <2>1. Rollback(a)
    BY <1>4 DEF Reject
  <2> QED BY <1>1, <2>1, RollbackKeeps
<1> QED BY <1>3, <1>4

\* A row that nobody else has decided on is written.
LEMMA UnheldCommitKeeps ==
  ASSUME IInv, NEW a \in Actors, tx[a] # None, NEW i \in Live(memories),
         RowHeldBy(a, {i}) = {}, NEW mem, Shape(mem), SupportOf(mem) = SupportOf(memories[i]),
         Continues(mem, memories[i]), mem.byHand \/ mem.status # "active",
         \A r \in DOMAIN mem.revisions : r \in Nat /\ r + Cardinality(OpenTx) <= starts + 1,
         Commit(a, [memories EXCEPT ![i] = mem], candidates, evidence)
  PROVE  IInv'
<1>1. CASE Rollback(a)
  BY <1>1, RollbackKeeps
<1>2. CASE memories' = [memories EXCEPT ![i] = mem] /\ candidates' = candidates
           /\ evidence' = evidence /\ Close(a)
  <2>1. i \in Ids /\ i # None
    BY MemoryIds, NullsAssumption DEF Ids
  <2>2. ASSUME NEW b \in Actors \ {a}, tx[b] # None, tx[b].phase = "apply"
        PROVE  i # tx[b].target
    BY <2>1, <2>2 DEF RowHeldBy
  <2>3. SupportOf(mem) \subseteq evidence /\ SupportOf(mem) # {}
    BY DEF IInv, TablesSound, MemoriesSound
  <2>4. CandidatesFollow(a, candidates, evidence)
    BY CandidatesStay
  <2>5. /\ Follows(memories', memories) => CandidatesSound(candidates', memories', evidence')
        /\ \A b \in Actors \ {a} : tx[b] # None => CandidatesKeptFor(b, candidates')
    BY <1>2, <2>4 DEF CandidatesFollow
  <2>6. Used(candidates)' \subseteq Used(candidates) \cup {1}
    BY <1>2 DEF Used
  <2>7. evidence \subseteq evidence' /\ SupportOf(mem) \subseteq evidence' /\ Close(a)
        /\ memories' = [memories EXCEPT ![i] = mem]
    BY <1>2, <2>3
  <2>8. Writable(a, i, mem)
    BY <2>2, <2>3 DEF Writable
  <2> QED BY <2>1, <2>5, <2>6, <2>7, <2>8, OneMemoryWritten
<1> QED BY <1>1, <1>2 DEF Commit

LEMMA ReviseKeeps ==
  ASSUME IInv, NEW a \in Actors, Revise(a)
  PROVE  IInv'
<1> DEFINE m == tx[a].id
           E == {}
           fact == tx[a].fact
           rev == Revised(memories[m], fact, E)
           new == [rev EXCEPT !.byHand = TRUE]
           n == starts - Cardinality(OpenTx)
<1>1. tx[a] # None /\ tx[a].op = "revise" /\ RowHeldBy(a, {m}) = {}
  BY DEF Revise, Locked, At
<1>2. fact \in Facts
  BY <1>1 DEF IInv, TxSound, TxShape
<1>3. CASE m \in Live(memories)
  <2>1. Commit(a, [memories EXCEPT ![m] = new], candidates, evidence)
    BY <1>3 DEF Revise
  <2>2. m \in Ids /\ Shape(memories[m])
        /\ \A r \in DOMAIN memories[m].revisions : r \in Nat /\ r + Cardinality(OpenTx) <= starts
    BY <1>3, MemoryIds
  <2>3. /\ starts \in Nat /\ starts <= MaxStarts /\ Cardinality(OpenTx) \in Nat
        /\ Cardinality(OpenTx) >= 1
    BY <1>1, FreeNumbers
  <2>4. \A r \in DOMAIN memories[m].revisions : r <= n
    BY <2>2, <2>3
  <2>5. n \in Nat /\ n < MaxStarts
    <3>1. memories[m].active \in DOMAIN memories[m].revisions
      BY <2>2, MemoryFields
    <3> QED BY <2>2, <2>3, <3>1, StartsAssumption
  <2>6. E \in SUBSET Observations /\ SupportOf(memories[m]) \cup E = SupportOf(memories[m])
    OBVIOUS
  <2> HIDE DEF n, E, fact
  <2>7. /\ Shape(rev) /\ SupportOf(rev) = SupportOf(memories[m])
        /\ Continues(rev, memories[m]) /\ \A r \in DOMAIN rev.revisions : r <= n + 1
    <3>1. LET next == Revised(memories[m], fact, E) IN
            /\ Shape(next) /\ SupportOf(next) = SupportOf(memories[m]) \cup E
            /\ Continues(next, memories[m]) /\ \A r \in DOMAIN next.revisions : r <= n + 1
      BY <2>6, <1>2, <2>2, <2>4, <2>5, RevisedShape
    <3> QED BY <2>6, <3>1
  <2> HIDE DEF rev
  <2>8. rev \in MemoryRows /\ rev.active \in DOMAIN rev.revisions
        /\ rev.revisions[rev.active].fact = rev.fact
    BY <2>7 DEF Shape
  <2>9. /\ new \in MemoryRows /\ new.active = rev.active /\ new.fact = rev.fact
        /\ new.revisions = rev.revisions /\ new.byHand = TRUE
    BY <2>8 DEF MemoryRows
  <2> HIDE DEF new
  <2>10. Shape(new)
    BY <2>8, <2>9 DEF Shape
  <2>11. SupportOf(new) = SupportOf(memories[m]) /\ Continues(new, memories[m])
    BY <2>7, <2>9 DEF SupportOf, Continues
  <2>12. \A r \in DOMAIN new.revisions : r \in Nat /\ r + Cardinality(OpenTx) <= starts + 1
    <3>1. \A r \in DOMAIN rev.revisions : r \in Nat
      BY <2>7, MemoryFields DEF Ids
    <3> QED BY <2>3, <2>7, <2>9, <3>1 DEF n
  <2> QED BY <1>1, <1>3, <2>1, <2>9, <2>10, <2>11, <2>12, UnheldCommitKeeps
<1>4. CASE m \notin Live(memories)
  <2>1. Rollback(a)
    BY <1>4 DEF Revise
  <2> QED BY <1>1, <2>1, RollbackKeeps
<1> QED BY <1>3, <1>4

LEMMA InvalidateKeeps ==
  ASSUME IInv, NEW a \in Actors, Invalidate(a)
  PROVE  IInv'
<1> DEFINE m == tx[a].id
           new == [memories[m] EXCEPT !.status = "invalidated"]
<1>1. tx[a] # None /\ RowHeldBy(a, {m}) = {}
  BY DEF Invalidate, Locked, At
<1>2. CASE m \in Active
  <2>1. Commit(a, [memories EXCEPT ![m] = new], candidates, evidence)
    BY <1>2 DEF Invalidate
  <2>2. m \in Live(memories)
    BY <1>2 DEF Active
  <2>3. m \in Ids /\ Shape(memories[m])
        /\ \A r \in DOMAIN memories[m].revisions : r \in Nat /\ r + Cardinality(OpenTx) <= starts
    BY <2>2, MemoryIds
  <2>4. memories[m] \in MemoryRows
    BY <2>3 DEF Shape
  <2>5. /\ new \in MemoryRows /\ new.active = memories[m].active /\ new.fact = memories[m].fact
        /\ new.revisions = memories[m].revisions /\ new.status = "invalidated"
    BY <2>4 DEF MemoryRows
  <2> HIDE DEF new
  <2>6. Shape(new)
    BY <2>3, <2>5 DEF Shape
  <2>7. SupportOf(new) = SupportOf(memories[m]) /\ Continues(new, memories[m])
    BY <2>5 DEF SupportOf, Continues
  <2>8. \A r \in DOMAIN new.revisions : r \in Nat /\ r + Cardinality(OpenTx) <= starts + 1
    BY <1>1, <2>3, <2>5, FreeNumbers
  <2> QED BY <1>1, <2>1, <2>2, <2>5, <2>6, <2>7, <2>8, UnheldCommitKeeps
<1>3. CASE m \notin Active
  <2>1. Rollback(a)
    BY <1>3 DEF Invalidate
  <2> QED BY <1>1, <2>1, RollbackKeeps
<1> QED BY <1>2, <1>3

\* What is read of a slot is the slot's active memory, or there is none.
LEMMA SlotReadsSlot ==
  ASSUME NEW fact, NEW m \in SlotReads(fact)
  PROVE  /\ m # None => /\ m \in Live(memories) /\ memories[m].status = "active"
                        /\ SlotOf(memories[m].fact) = SlotOf(fact)
         /\ m = None => Slotted(memories, SlotOf(fact)) = {} \/ None \in Live(memories)
BY DEF SlotReads, Compatible, Conflicting, Slotted, Active

LEMMA ReconcileDecideKeeps ==
  ASSUME IInv, NEW a \in Actors, ReconcileDecide(a)
  PROVE  IInv'
<1>1. tx[a] # None /\ tx[a].op = "reconcile" /\ tx[a].phase = "slots" /\ tx[a].slots = {}
      /\ UNCHANGED <<rows, locks, starts>>
  BY DEF ReconcileDecide, Locked, At
<1>2. TxShape(tx[a]) /\ Holds(a, tx[a], candidates, slotOwner)
  BY <1>1 DEF IInv, TxSound
<1>3. PICK m \in SlotReads(tx[a].fact) :
         LET compatible == m # None /\ memories[m].fact = tx[a].fact
             decision == Decision(tx[a].kind, m # None /\ ~compatible)
         IN  tx' = [tx EXCEPT ![a].phase = "apply", ![a].target = m, ![a].kind = None,
                      ![a].plan = CASE decision = "pending" -> "hold"
                                    [] decision = "promote" /\ compatible -> "attach"
                                    [] decision = "promote" /\ ~compatible -> "promote"]
  BY DEF ReconcileDecide
<1> DEFINE compatible == m # None /\ memories[m].fact = tx[a].fact
           decision == Decision(tx[a].kind, m # None /\ ~compatible)
           plan == CASE decision = "pending" -> "hold"
                     [] decision = "promote" /\ compatible -> "attach"
                     [] decision = "promote" /\ ~compatible -> "promote"
           t == [tx[a] EXCEPT !.phase = "apply", !.target = m, !.kind = None, !.plan = plan]
<1>4. plan \in {"hold", "attach", "promote"} /\ (plan = "attach" => compatible)
  <2>1. decision \in {"pending", "promote"}
    BY DEF Decision
  <2> QED BY <2>1
<1> HIDE DEF decision
<1>5. tx' = [tx EXCEPT ![a].phase = "apply", ![a].target = m, ![a].kind = None, ![a].plan = plan]
  BY <1>3 DEF decision
<1> HIDE DEF plan
<1>6. tx' = [tx EXCEPT ![a] = t]
  BY <1>5 DEF IInv, LocksSound
<1>7. /\ DOMAIN t = DOMAIN tx[a] /\ t.op = tx[a].op /\ t.phase = "apply" /\ t.target = m
      /\ t.slots = tx[a].slots /\ t.after = tx[a].after /\ t.fact = tx[a].fact
      /\ t.ev = tx[a].ev /\ t.id = tx[a].id /\ t.plan = plan
  BY <1>2 DEF TxShape
<1> HIDE DEF t
<1>8. TxShape(t)
  BY <1>1, <1>2, <1>7 DEF TxShape
<1>9. Holds(a, t, candidates, slotOwner)
  BY <1>2, <1>7 DEF Holds
<1>10. Decided(t, memories, candidates)
  <2>1. FactOf(t, candidates) = tx[a].fact
    BY <1>1, <1>7 DEF FactOf
  <2>2. None \notin Live(memories)
    BY MemoryIds, NullsAssumption DEF Ids
  <2>3. /\ m # None => /\ m \in Live(memories) /\ memories[m].status = "active"
                       /\ SlotOf(memories[m].fact) = SlotOf(tx[a].fact)
        /\ m = None => Slotted(memories, SlotOf(tx[a].fact)) = {}
    BY <2>2, SlotReadsSlot
  <2> QED BY <1>1, <1>4, <1>7, <2>1, <2>3 DEF Decided
<1>11. UNCHANGED <<rows, starts>> /\ slotOwner' = slotOwner /\ evidenceOwner' = evidenceOwner
       /\ slotOwner \in [Slots -> Actors \cup {None}]
       /\ evidenceOwner \in [Observations -> Actors \cup {None}]
  BY <1>1 DEF locks, IInv, LocksSound
<1> QED BY <1>1, <1>6, <1>8, <1>9, <1>10, <1>11, StepKeeps

LEMMA ConfirmDecideKeeps ==
  ASSUME IInv, NEW a \in Actors, ConfirmDecide(a)
  PROVE  IInv'
<1> DEFINE c == tx[a].id
<1>1. tx[a] # None /\ tx[a].op = "confirm" /\ tx[a].phase = "slots" /\ tx[a].slots = {}
  BY DEF ConfirmDecide, Locked, At
<1>2. TxShape(tx[a]) /\ Holds(a, tx[a], candidates, slotOwner)
  BY <1>1 DEF IInv, TxSound
<1>3. CASE Rollback(a)
  BY <1>1, <1>3, RollbackKeeps
<1>4. ASSUME ~Rollback(a) PROVE IInv'
  <2>1. Decidable(c)
    BY <1>4 DEF ConfirmDecide
  <2> DEFINE Compat(m) == m # None /\ memories[m].fact = candidates[c].fact
             Plan(m) == IF Compat(m) THEN "attach" ELSE "promote"
  <2>2. PICK m \in SlotReads(candidates[c].fact) :
           /\ ~(m # None /\ ~Compat(m) /\ ~UpToDate(c, m))
           /\ tx' = [tx EXCEPT ![a].phase = "apply", ![a].target = m, ![a].plan = Plan(m)]
           /\ UNCHANGED <<rows, locks, starts>>
    BY <1>4, <2>1 DEF ConfirmDecide
  <2> DEFINE plan == Plan(m)
             t == [tx[a] EXCEPT !.phase = "apply", !.target = m, !.plan = plan]
  <2>3. tx' = [tx EXCEPT ![a] = t]
    BY <2>2 DEF IInv, LocksSound
  <2>4. /\ plan \in {"attach", "promote"} /\ (plan = "attach" => Compat(m))
        /\ (plan = "promote" => ~Compat(m))
    OBVIOUS
  <2> HIDE DEF plan
  <2>5. /\ DOMAIN t = DOMAIN tx[a] /\ t.op = tx[a].op /\ t.phase = "apply" /\ t.target = m
        /\ t.slots = tx[a].slots /\ t.after = tx[a].after /\ t.fact = tx[a].fact
        /\ t.ev = tx[a].ev /\ t.id = c /\ t.plan = plan
    BY <1>2 DEF TxShape
  <2> HIDE DEF t
  <2>6. TxShape(t)
    BY <1>1, <1>2, <2>5 DEF TxShape
  <2>7. Holds(a, t, candidates, slotOwner)
    BY <1>2, <2>5 DEF Holds
  <2>8. Decided(t, memories, candidates)
    <3>1. FactOf(t, candidates) = candidates[c].fact
      BY <1>1, <2>5 DEF FactOf
    <3>2. None \notin Live(memories)
      BY MemoryIds, NullsAssumption DEF Ids
    <3>3. /\ m # None => /\ m \in Live(memories) /\ memories[m].status = "active"
                         /\ SlotOf(memories[m].fact) = SlotOf(candidates[c].fact)
          /\ m = None => Slotted(memories, SlotOf(candidates[c].fact)) = {}
      BY <3>2, SlotReadsSlot
    <3>4. m # None /\ plan = "promote" => candidates[c].conflict = <<m, memories[m].active>>
      BY <2>2, <2>4 DEF UpToDate
    <3>5. c \in Live(candidates) /\ candidates[c].status = "pending"
      BY <2>1 DEF Decidable
    <3> QED BY <1>1, <2>4, <2>5, <3>1, <3>3, <3>4, <3>5 DEF Decided
  <2>9. UNCHANGED <<rows, starts>> /\ slotOwner' = slotOwner /\ evidenceOwner' = evidenceOwner
        /\ slotOwner \in [Slots -> Actors \cup {None}]
        /\ evidenceOwner \in [Observations -> Actors \cup {None}]
    BY <2>2 DEF locks, IInv, LocksSound
  <2> QED BY <1>1, <2>3, <2>6, <2>7, <2>8, <2>9, StepKeeps
<1> QED BY <1>3, <1>4

-----------------------------------------------------------------------------
(* Transactions begin and lock.                                             *)

LEMMA OpenedShape ==
  ASSUME NEW op, NEW slots
  PROVE  /\ DOMAIN Opened(op, slots) = {"op", "phase", "slots", "after", "late", "id", "fact",
                                        "kind", "ev", "plan", "target"}
         /\ Opened(op, slots).op = op /\ Opened(op, slots).slots = slots
         /\ Opened(op, slots).after = {} /\ Opened(op, slots).target = None
         /\ Opened(op, slots).phase = IF op \in Deletions THEN "evidence" ELSE "slots"
BY DEF Opened

LEMMA BeginReconcileKeeps ==
  ASSUME IInv, NEW fact \in Facts, NEW kind, NEW e \in Observations,
         BeginReconcile(fact, kind, e)
  PROVE  IInv'
<1> DEFINE o == Opened("reconcile", {SlotOf(fact)})
           t == [o EXCEPT !.fact = fact, !.kind = kind, !.ev = {e}]
<1>1. /\ DOMAIN t = DOMAIN o /\ t.op = o.op /\ t.phase = o.phase /\ t.slots = o.slots
      /\ t.after = o.after /\ t.target = o.target /\ t.fact = fact /\ t.ev = {e}
  BY OpenedShape
<1>2. Open(Worker, t)
  BY DEF BeginReconcile
<1> HIDE DEF t
<1>3. o.op = "reconcile" /\ o.phase = "slots" /\ o.slots = {SlotOf(fact)} /\ o.after = {}
      /\ o.target = None
  BY OpenedShape DEF Deletions
<1>4. TxShape(t)
  BY <1>1, <1>3, OpenedShape, SlotOfFact DEF TxShape
<1>5. Holds(Worker, t, candidates, slotOwner)
  BY <1>1, <1>3 DEF Holds
<1>6. UNCHANGED <<rows, slotOwner>> /\ Worker \in Actors
      /\ evidenceOwner' \in [Observations -> Actors \cup {None}]
  BY DEF BeginReconcile, IInv, LocksSound, Actors
<1> QED BY <1>1, <1>2, <1>3, <1>4, <1>5, <1>6, OpenKeeps

LEMMA BeginCandidateKeeps ==
  ASSUME IInv, NEW a \in Actors, NEW op \in {"confirm", "reject"}, NEW c \in Ids,
         BeginCandidate(a, op, c)
  PROVE  IInv'
<1> DEFINE slot == SlotOf(candidates[c].fact)
           o == Opened(op, {slot})
           t == [o EXCEPT !.id = c]
<1>1. /\ DOMAIN t = DOMAIN o /\ t.op = o.op /\ t.phase = o.phase /\ t.slots = o.slots
      /\ t.after = o.after /\ t.target = o.target /\ t.id = c
  BY OpenedShape
<1>2. Open(a, t) /\ c \in Live(candidates)
  BY DEF BeginCandidate
<1>3. o.op = op /\ o.phase = "slots" /\ o.slots = {slot} /\ o.after = {} /\ o.target = None
  BY OpenedShape DEF Deletions
<1>4. slot \in Slots
  BY <1>2, SlotOfFact DEF IInv, TablesSound, CandidatesSound, CandidateRows
<1> HIDE DEF t
<1>5. TxShape(t)
  BY <1>1, <1>3, <1>4, OpenedShape DEF TxShape
<1>6. Holds(a, t, candidates, slotOwner)
  BY <1>1, <1>2, <1>3 DEF Holds, Live
<1>7. UNCHANGED <<rows, slotOwner>>
      /\ evidenceOwner' \in [Observations -> Actors \cup {None}]
  BY DEF BeginCandidate, IInv, LocksSound, locks
<1> QED BY <1>1, <1>2, <1>3, <1>5, <1>6, <1>7, OpenKeeps

\* A transaction of another kind relies on nothing it read before.
LEMMA OpenOtherKeeps ==
  ASSUME IInv, NEW a \in Actors, NEW t, TxShape(t), t.phase # "apply",
         t.op \in {"revise", "invalidate"} \cup Deletions,
         Open(a, t), UNCHANGED <<rows, locks>>
  PROVE  IInv'
<1>1. Holds(a, t, candidates, slotOwner)
  BY DEF Holds, Deletions
<1>2. UNCHANGED <<rows, slotOwner>>
      /\ evidenceOwner' \in [Observations -> Actors \cup {None}]
  BY DEF IInv, LocksSound, locks
<1> QED BY <1>1, <1>2, OpenKeeps

LEMMA MemorySlot ==
  ASSUME IInv, NEW m \in Live(memories)
  PROVE  SlotOf(memories[m].fact) \in Slots
BY MemoryIds, MemoryFields, SlotOfFact

LEMMA BeginReviseKeeps ==
  ASSUME IInv, NEW a \in Actors, NEW m \in Ids, NEW fact \in Facts, NEW normalized \in BOOLEAN,
         BeginRevise(a, m, fact, normalized)
  PROVE  IInv'
<1> DEFINE old == SlotOf(memories[m].fact)
           new == SlotOf(fact)
           first == {old} \cup (IF normalized THEN {new} ELSE {})
           after == IF normalized THEN {} ELSE {new} \ {old}
           o == Opened("revise", first)
           t == [o EXCEPT !.after = after, !.late = ~normalized /\ new # old,
                          !.id = m, !.fact = fact]
<1>1. m \in Live(memories) /\ Open(a, t) /\ UNCHANGED <<rows, locks>>
  BY DEF BeginRevise
<1>2. old \in Slots /\ new \in Slots
  BY <1>1, MemorySlot, SlotOfFact
<1>3. first \in SUBSET Slots /\ after \in SUBSET Slots
  BY <1>2
<1> HIDE DEF first, after
<1>4. /\ DOMAIN t = DOMAIN o /\ t.op = o.op /\ t.phase = o.phase /\ t.slots = o.slots
      /\ t.after = after /\ t.target = o.target /\ t.id = m /\ t.fact = fact
  BY OpenedShape
<1>5. o.op = "revise" /\ o.phase = "slots" /\ o.slots = first /\ o.target = None
  BY OpenedShape DEF Deletions
<1> HIDE DEF t
<1>6. TxShape(t)
  BY <1>3, <1>4, <1>5, OpenedShape DEF TxShape
<1> QED BY <1>1, <1>4, <1>5, <1>6, OpenOtherKeeps

LEMMA BeginInvalidateKeeps ==
  ASSUME IInv, NEW a \in Actors, NEW m \in Ids, BeginInvalidate(a, m)
  PROVE  IInv'
<1> DEFINE slot == SlotOf(memories[m].fact)
           o == Opened("invalidate", {slot})
           t == [o EXCEPT !.id = m]
<1>1. m \in Live(memories) /\ Open(a, t) /\ UNCHANGED <<rows, locks>>
  BY DEF BeginInvalidate
<1>2. slot \in Slots
  BY <1>1, MemorySlot
<1>3. /\ DOMAIN t = DOMAIN o /\ t.op = o.op /\ t.phase = o.phase /\ t.slots = o.slots
      /\ t.after = o.after /\ t.target = o.target /\ t.id = m
  BY OpenedShape
<1>4. o.op = "invalidate" /\ o.phase = "slots" /\ o.slots = {slot} /\ o.after = {}
      /\ o.target = None
  BY OpenedShape DEF Deletions
<1> HIDE DEF t
<1>5. TxShape(t)
  BY <1>2, <1>3, <1>4, OpenedShape DEF TxShape
<1> QED BY <1>1, <1>3, <1>4, <1>5, OpenOtherKeeps

LEMMA BeginDeletionKeeps ==
  ASSUME IInv, NEW a \in Actors, NEW op \in Deletions, NEW t,
         DOMAIN t = DOMAIN Opened(op, {}), t.op = op, t.phase = Opened(op, {}).phase,
         t.slots = {}, t.after = {}, t.target = None, op = "hardDelete" => t.id \in Ids,
         Open(a, t), UNCHANGED <<rows, locks>>
  PROVE  IInv'
<1>1. t.phase = "evidence"
  BY OpenedShape
<1>2. TxShape(t)
  BY <1>1, OpenedShape DEF TxShape, Deletions
<1> QED BY <1>1, <1>2, OpenOtherKeeps

LEMMA BeginDeleteKeeps ==
  ASSUME IInv, NEW a \in Actors,
         \/ \E e \in Observations : BeginDelete(a, e)
         \/ \E m \in Ids : BeginHardDelete(a, m)
         \/ BeginPurge(a)
  PROVE  IInv'
<1>1. ASSUME NEW e \in Observations, BeginDelete(a, e) PROVE IInv'
  <2> DEFINE t == [Opened("delete", {}) EXCEPT !.ev = {e}]
  <2>1. Open(a, t) /\ UNCHANGED <<rows, locks>>
    BY <1>1 DEF BeginDelete
  <2>2. /\ DOMAIN t = DOMAIN Opened("delete", {}) /\ t.op = "delete" /\ t.slots = {}
        /\ t.phase = Opened("delete", {}).phase /\ t.after = {} /\ t.target = None
    BY OpenedShape
  <2> HIDE DEF t
  <2> QED BY <2>1, <2>2, BeginDeletionKeeps DEF Deletions
<1>2. ASSUME NEW m \in Ids, BeginHardDelete(a, m) PROVE IInv'
  <2> DEFINE t == [Opened("hardDelete", {}) EXCEPT !.id = m, !.ev = EvidenceOf(m)]
  <2>1. Open(a, t) /\ UNCHANGED <<rows, locks>>
    BY <1>2 DEF BeginHardDelete
  <2>2. /\ DOMAIN t = DOMAIN Opened("hardDelete", {}) /\ t.op = "hardDelete" /\ t.slots = {}
        /\ t.phase = Opened("hardDelete", {}).phase /\ t.after = {} /\ t.target = None
        /\ t.id = m
    BY OpenedShape
  <2> HIDE DEF t
  <2> QED BY <2>1, <2>2, BeginDeletionKeeps DEF Deletions
<1>3. ASSUME BeginPurge(a) PROVE IInv'
  <2> DEFINE t == Opened("purge", {})
  <2>1. Open(a, t) /\ UNCHANGED <<rows, locks>>
    BY <1>3 DEF BeginPurge
  <2>2. /\ DOMAIN t = DOMAIN Opened("purge", {}) /\ t.op = "purge" /\ t.slots = {}
        /\ t.phase = Opened("purge", {}).phase /\ t.after = {} /\ t.target = None
    BY OpenedShape
  <2> HIDE DEF t
  <2> QED BY <2>1, <2>2, BeginDeletionKeeps DEF Deletions
<1> QED BY <1>1, <1>2, <1>3

LEMMA LockSlotKeeps ==
  ASSUME IInv, NEW a \in Actors, LockSlot(a)
  PROVE  IInv'
<1> DEFINE next == NextSlot(a)
           rest == tx[a].slots \ {next}
           slots == IF rest = {} THEN tx[a].after ELSE rest
           after == IF rest = {} THEN {} ELSE tx[a].after
           t == [tx[a] EXCEPT !.slots = slots, !.after = after]
<1>1. /\ tx[a] # None /\ tx[a].phase = "slots" /\ tx[a].slots # {}
      /\ slotOwner[next] = None /\ slotOwner' = [slotOwner EXCEPT ![next] = a]
      /\ UNCHANGED <<rows, evidenceOwner, starts>>
  BY DEF LockSlot
<1>2. TxShape(tx[a]) /\ Holds(a, tx[a], candidates, slotOwner)
  BY <1>1 DEF IInv, TxSound
<1>3. next \in tx[a].slots /\ tx[a].slots \in SUBSET Slots
  <2>1. tx[a].slots \in SUBSET Slots
    BY <1>2 DEF TxShape
  <2>2. tx[a].slots \in SUBSET Nat
    BY <2>1, SlotsAssumption
  <2> QED BY <1>1, <2>1, <2>2, LeastNat DEF NextSlot
<1>4. tx' = [tx EXCEPT ![a] = t]
  BY DEF LockSlot, IInv, LocksSound
<1> HIDE DEF next
<1>5. slots \in SUBSET Slots /\ after \in SUBSET Slots /\ tx[a].slots \subseteq slots \cup {next}
  BY <1>2, <1>3 DEF TxShape
<1> HIDE DEF slots, after
<1>6. /\ DOMAIN t = DOMAIN tx[a] /\ t.op = tx[a].op /\ t.phase = "slots"
      /\ t.target = tx[a].target /\ t.slots = slots /\ t.after = after /\ t.fact = tx[a].fact
      /\ t.ev = tx[a].ev /\ t.id = tx[a].id
  BY <1>1, <1>2 DEF TxShape
<1> HIDE DEF t
<1>7. TxShape(t)
  BY <1>1, <1>2, <1>5, <1>6 DEF TxShape
<1>8. /\ slotOwner' \in [Slots -> Actors \cup {None}]
      /\ \A s \in Slots : slotOwner[s] # None => slotOwner'[s] = slotOwner[s]
      /\ slotOwner'[next] = a
      /\ evidenceOwner' \in [Observations -> Actors \cup {None}]
  BY <1>1, <1>3 DEF IInv, LocksSound
<1>9. \A s \in Slots : s \in tx[a].slots \/ slotOwner[s] = a => s \in t.slots \/ slotOwner'[s] = a
  <2>1. a # None
    BY ActorsAssumption DEF Actors
  <2> QED BY <1>5, <1>6, <1>8, <2>1
<1>10. Holds(a, t, candidates, slotOwner')
  <2>1. tx[a].op = "reconcile" => SlotOf(tx[a].fact) \in Slots
    BY <1>2, SlotOfFact DEF TxShape
  <2>2. tx[a].id \in Live(candidates) => SlotOf(candidates[tx[a].id].fact) \in Slots
    BY SlotOfFact DEF IInv, TablesSound, CandidatesSound, CandidateRows
  <2> QED BY <1>2, <1>6, <1>9, <2>1, <2>2 DEF Holds
<1>11. Decided(t, memories, candidates)
  BY <1>6 DEF Decided
<1> QED BY <1>1, <1>4, <1>7, <1>8, <1>10, <1>11, StepKeeps

LEMMA LockEvidenceKeeps ==
  ASSUME IInv, NEW a \in Actors, LockEvidence(a)
  PROVE  IInv'
<1> DEFINE E == Selected(a)
           slots == TracedSlots(E)
           t == [tx[a] EXCEPT !.phase = "slots", !.ev = E, !.slots = slots]
<1>1. /\ tx[a] # None /\ tx[a].phase = "evidence"
      /\ evidenceOwner' = [e \in Observations |-> IF e \in E THEN a ELSE evidenceOwner[e]]
      /\ UNCHANGED <<rows, slotOwner, starts>>
  BY DEF LockEvidence
<1>2. TxShape(tx[a]) /\ Holds(a, tx[a], candidates, slotOwner)
  BY <1>1 DEF IInv, TxSound
<1>3. tx' = [tx EXCEPT ![a] = t]
  BY DEF LockEvidence, IInv, LocksSound
<1>4. slots \in SUBSET Slots
  <2>1. \A m \in TracedMemories(E) : SlotOf(memories[m].fact) \in Slots
    BY MemorySlot DEF TracedMemories
  <2>2. \A c \in Live(candidates) : SlotOf(candidates[c].fact) \in Slots
    BY SlotOfFact DEF IInv, TablesSound, CandidatesSound, CandidateRows
  <2> QED BY <2>1, <2>2 DEF TracedSlots, TracedCandidates
<1> HIDE DEF slots, E
<1>5. /\ DOMAIN t = DOMAIN tx[a] /\ t.op = tx[a].op /\ t.phase = "slots"
      /\ t.target = tx[a].target /\ t.slots = slots /\ t.after = tx[a].after
      /\ t.fact = tx[a].fact /\ t.ev = E /\ t.id = tx[a].id
  BY <1>1, <1>2 DEF TxShape
<1> HIDE DEF t
<1>6. tx[a].op \in Deletions
  BY <1>1, <1>2 DEF TxShape
<1>7. TxShape(t)
  BY <1>1, <1>2, <1>4, <1>5, <1>6 DEF TxShape, Deletions
<1>8. Holds(a, t, candidates, slotOwner')
  BY <1>5, <1>6 DEF Holds, Deletions
<1>9. Decided(t, memories, candidates)
  BY <1>5 DEF Decided
<1>10. /\ slotOwner' \in [Slots -> Actors \cup {None}]
       /\ \A s \in Slots : slotOwner[s] # None => slotOwner'[s] = slotOwner[s]
       /\ evidenceOwner' \in [Observations -> Actors \cup {None}]
       /\ UNCHANGED <<rows, starts>>
  BY <1>1 DEF IInv, LocksSound
<1> QED BY <1>1, <1>3, <1>7, <1>8, <1>9, <1>10, StepKeeps

-----------------------------------------------------------------------------
(* The deletion of evidence.                                                *)

\* A memory as a deletion leaves it: with its other evidence, in its slot or by hand elsewhere.
Cleared(new, old, E) ==
    /\ Shape(new) /\ SupportOf(new) = SupportOf(old) \ E /\ SupportOf(new) # {}
    /\ DOMAIN new.revisions \subseteq DOMAIN old.revisions
    /\ \A r \in DOMAIN new.revisions : new.revisions[r].fact = old.revisions[r].fact
    /\ \/ new.status = old.status /\ new.fact = old.fact /\ new.byHand = old.byHand
       \/ new.byHand = TRUE

LEMMA RepairedMemories ==
  ASSUME IInv, NEW a \in Actors
  PROVE  LET M == RepairedBy(a) IN
         /\ DOMAIN M = Ids /\ Live(M) \subseteq Live(memories)
         /\ \A m \in Ids : M[m] = None <=> memories[m] = None
         /\ \A m \in Live(M) : Cleared(M[m], memories[m], tx[a].ev)
         /\ \A m \in Live(memories) \ TracedMemories(tx[a].ev) : M[m] = memories[m]
<1> DEFINE M == RepairedBy(a)
           E == tx[a].ev
<1>1. DOMAIN M = Ids
      /\ \A m \in Ids : M[m] = IF m \in TracedMemories(E) THEN Repaired(memories[m], E)
                               ELSE memories[m]
  BY DEF RepairedBy
<1> HIDE DEF M, E
<1>2. \A m \in Live(memories) : SupportOf(memories[m]) = EvidenceOf(m)
  BY DEF SupportOf, EvidenceOf
<1>3. TracedMemories(E) \subseteq Live(memories) /\ Live(memories) \subseteq Ids
  BY MemoryIds DEF TracedMemories
<1>4. ASSUME NEW m \in TracedMemories(E)
      PROVE  M[m] = Gone \/ Cleared(M[m], memories[m], E)
  <2>1. Shape(memories[m]) /\ m \in Ids
    BY <1>3, MemoryIds
  <2>2. M[m] = Repaired(memories[m], E)
    BY <1>1, <2>1
  <2> DEFINE new == Repaired(memories[m], E)
  <2>3. \/ new = Gone
        \/ /\ Shape(new) /\ SupportOf(new) = SupportOf(memories[m]) \ E /\ SupportOf(new) # {}
           /\ DOMAIN new.revisions \subseteq DOMAIN memories[m].revisions
           /\ \A r \in DOMAIN new.revisions :
                 new.revisions[r].fact = memories[m].revisions[r].fact
           /\ \/ /\ new.status = memories[m].status /\ new.fact = memories[m].fact
                 /\ new.byHand = memories[m].byHand
              \/ new.byHand = TRUE
    BY <2>1, RepairedShape
  <2> HIDE DEF new
  <2> QED BY <2>2, <2>3 DEF Cleared, new
<1>5. ASSUME NEW m \in Live(memories) \ TracedMemories(E)
      PROVE  M[m] = memories[m] /\ Cleared(M[m], memories[m], E)
  <2>1. M[m] = memories[m] /\ Shape(memories[m])
    BY <1>1, <1>3, MemoryIds
  <2>2. EvidenceOf(m) \cap E = {}
    BY DEF TracedMemories
  <2>3. SupportOf(memories[m]) \ E = SupportOf(memories[m]) /\ SupportOf(memories[m]) # {}
    BY <1>2, <2>2 DEF IInv, TablesSound, MemoriesSound
  <2> QED BY <2>1, <2>3 DEF Cleared
<1>6. \A m \in Ids \ Live(memories) : M[m] = memories[m] /\ memories[m] \in {None, Gone}
  BY <1>1, <1>3 DEF Live, IInv, TablesSound, MemoriesSound
<1>7. Live(M) \subseteq Live(memories)
  BY <1>1, <1>6 DEF Live
<1>8. ASSUME NEW m \in Ids PROVE M[m] = None <=> memories[m] = None
  <2>1. CASE m \in Live(memories)
    <3>1. memories[m] # None
      BY <2>1 DEF Live
    <3>2. M[m] = Gone \/ Shape(M[m])
      BY <1>4, <1>5, <2>1 DEF Cleared
    <3> QED BY <3>1, <3>2, RowsAreNotNull, NullsAssumption
  <2> QED BY <1>6, <2>1
<1>9. \A m \in Live(M) : Cleared(M[m], memories[m], E)
  <2>1. \A m \in Live(M) : M[m] # Gone
    BY DEF Live
  <2> QED BY <1>4, <1>5, <1>7, <2>1
<1> QED BY <1>1, <1>5, <1>7, <1>8, <1>9 DEF M, E

LEMMA LeftMemories ==
  ASSUME IInv, NEW a \in Actors
  PROVE  LET L == MemoriesLeft(a) IN
         /\ DOMAIN L = Ids /\ Live(L) = Live(RepairedBy(a)) \ ErasedBy(a)
         /\ Live(L) \subseteq Live(memories) /\ \A m \in Live(L) : L[m] = RepairedBy(a)[m]
         /\ \A m \in Ids : L[m] = None <=> memories[m] = None
         /\ \A m \in Live(L) : Cleared(L[m], memories[m], tx[a].ev)
         /\ \A m \in Live(memories) \ TouchedRows(a) : L[m] = memories[m]
<1> DEFINE L == MemoriesLeft(a)
           M == RepairedBy(a)
<1>1. DOMAIN L = Ids /\ \A m \in Ids : L[m] = IF m \in ErasedBy(a) THEN Gone ELSE M[m]
  BY DEF MemoriesLeft
<1>2. /\ DOMAIN M = Ids /\ Live(M) \subseteq Live(memories)
      /\ \A m \in Ids : M[m] = None <=> memories[m] = None
      /\ \A m \in Live(M) : Cleared(M[m], memories[m], tx[a].ev)
      /\ \A m \in Live(memories) \ TracedMemories(tx[a].ev) : M[m] = memories[m]
  BY RepairedMemories
<1>3. ErasedBy(a) \subseteq Live(M) /\ ErasedBy(a) \subseteq TouchedRows(a)
      /\ TracedMemories(tx[a].ev) \subseteq TouchedRows(a)
  BY DEF ErasedBy, TouchedRows
<1> HIDE DEF L, M
<1>4. Live(L) = Live(M) \ ErasedBy(a)
  BY <1>1, <1>2 DEF Live
<1>5. \A m \in Live(L) : m \in Live(M) /\ L[m] = M[m]
  BY <1>1, <1>2, <1>4 DEF Live
<1>6. \A m \in ErasedBy(a) : memories[m] # None
  BY <1>2, <1>3 DEF Live
<1>7. \A m \in Ids : L[m] = None <=> memories[m] = None
  BY <1>1, <1>2, <1>6, NullsAssumption
<1>8. \A m \in Live(memories) \ TouchedRows(a) : L[m] = memories[m]
  BY <1>1, <1>2, <1>3, MemoryIds
<1> QED BY <1>1, <1>2, <1>4, <1>5, <1>7, <1>8 DEF L, M

LEMMA LeftMemoriesSound ==
  ASSUME IInv, NEW a \in Actors
  PROVE  /\ MemoriesSound(MemoriesLeft(a), evidence \ tx[a].ev)
         /\ OnePerSlot(MemoriesLeft(a))
<1> DEFINE L == MemoriesLeft(a)
           E == tx[a].ev
<1>1. /\ DOMAIN L = Ids /\ Live(L) \subseteq Live(memories)
      /\ \A m \in Live(L) : Cleared(L[m], memories[m], E)
  BY LeftMemories
<1> HIDE DEF L, E
<1>2. \A m \in Live(memories) : SupportOf(memories[m]) \subseteq evidence
  BY DEF IInv, TablesSound, MemoriesSound
<1>3. MemoriesSound(L, evidence \ E)
  BY <1>1, <1>2 DEF MemoriesSound, Cleared
<1>4. OnePerSlot(L)
  <2> SUFFICES ASSUME NEW m \in Live(L), NEW n \in Live(L), m # n,
                      L[m].status = "active", L[n].status = "active",
                      SlotOf(L[m].fact) = SlotOf(L[n].fact)
               PROVE  L[m].byHand \/ L[n].byHand
    BY DEF OnePerSlot
  <2>1. CASE L[m].byHand = TRUE \/ L[n].byHand = TRUE
    BY <2>1
  <2>2. CASE ~(L[m].byHand = TRUE \/ L[n].byHand = TRUE)
    <3>1. \A i \in {m, n} : /\ L[i].status = memories[i].status /\ L[i].fact = memories[i].fact
                            /\ L[i].byHand = memories[i].byHand /\ i \in Live(memories)
      BY <1>1, <2>2 DEF Cleared
    <3>2. OnePerSlot(memories)
      BY DEF IInv, TablesSound
    <3> QED BY <3>1, <3>2 DEF OnePerSlot
  <2> QED BY <2>1, <2>2
<1> QED BY <1>3, <1>4 DEF L, E

\* What is left of a candidate.
LEMMA RemainingCandidates ==
  ASSUME IInv, NEW a \in Actors
  PROVE  LET R == Remaining(tx[a].ev, RepairedBy(a)) IN
         /\ DOMAIN R = Ids /\ Live(R) \subseteq Live(candidates)
         /\ \A c \in Ids : R[c] = None <=> candidates[c] = None
         /\ \A c \in Live(R) :
               /\ R[c] \in CandidateRows /\ R[c].fact = candidates[c].fact
               /\ R[c].status = candidates[c].status
               /\ ConflictShown(R[c], RepairedBy(a))
               /\ R[c].ev = candidates[c].ev \ tx[a].ev /\ R[c].ev # {}
<1> DEFINE M == RepairedBy(a)
           E == tx[a].ev
           R == Remaining(E, M)
           dangles(c) == /\ candidates[c].conflict # None
                         /\ \/ candidates[c].conflict[1] \notin Live(M)
                            \/ candidates[c].conflict[2]
                                  \notin DOMAIN M[candidates[c].conflict[1]].revisions
           rest(c) == [candidates[c] EXCEPT !.ev = @ \ E,
                                            !.conflict = IF dangles(c) THEN None ELSE @]
           bare == {c \in Live(candidates) : candidates[c].ev \subseteq E}
<1>1. Live(candidates) \subseteq Ids
  BY MemoryIds
<1>2. /\ DOMAIN R = Ids
      /\ \A c \in Ids \ Live(candidates) : R[c] = candidates[c]
      /\ \A c \in bare : R[c] = Gone
      /\ \A c \in Live(candidates) \ bare : R[c] = rest(c)
  BY <1>1 DEF Remaining
<1>3. \A m \in Live(M) : m \in Live(memories) /\ Cleared(M[m], memories[m], E)
  BY RepairedMemories
<1> HIDE DEF M, E, R, rest, dangles, bare
<1>4. ASSUME NEW c \in Live(candidates) \ bare
      PROVE  /\ R[c] \in CandidateRows /\ R[c].fact = candidates[c].fact
             /\ R[c].status = candidates[c].status
             /\ ConflictShown(R[c], M)
             /\ R[c].ev = candidates[c].ev \ E /\ R[c].ev # {}
  <2> DEFINE old == candidates[c]
             conflict == IF dangles(c) THEN None ELSE old.conflict
  <2>1. old \in CandidateRows /\ ConflictShown(old, memories)
    BY DEF IInv, TablesSound, CandidatesSound
  <2>2. R[c] = rest(c)
    BY <1>2, <1>1, <1>4
  <2>3. rest(c) = [old EXCEPT !.ev = old.ev \ E, !.conflict = conflict]
    BY <2>1 DEF CandidateRows, rest
  <2>4. conflict # None =>
           /\ conflict = old.conflict /\ conflict[1] \in Live(M)
           /\ conflict[2] \in DOMAIN M[conflict[1]].revisions
    BY DEF dangles
  <2>5. conflict \in (Ids \X Ids) \cup {None}
    BY <2>1 DEF CandidateRows
  <2> HIDE DEF conflict, old
  <2>6. /\ R[c] \in CandidateRows /\ R[c].fact = old.fact /\ R[c].ev = old.ev \ E
        /\ R[c].conflict = conflict /\ R[c].reviewed = old.reviewed
        /\ R[c].status = old.status
    BY <2>1, <2>2, <2>3, <2>5 DEF CandidateRows
  <2>7. ConflictShown(R[c], M)
    <3> SUFFICES ASSUME conflict # None
                 PROVE  /\ conflict[1] \in Live(M)
                        /\ conflict[2] \in DOMAIN M[conflict[1]].revisions
                        /\ M[conflict[1]].revisions[conflict[2]].fact = old.reviewed
      BY <2>6 DEF ConflictShown
    <3>1. M[conflict[1]].revisions[conflict[2]].fact
             = memories[conflict[1]].revisions[conflict[2]].fact
      BY <1>3, <2>4 DEF Cleared
    <3>2. memories[conflict[1]].revisions[conflict[2]].fact = old.reviewed
      BY <2>1, <2>4 DEF ConflictShown
    <3> QED BY <2>4, <3>1, <3>2
  <2>8. R[c].ev # {}
    BY <2>6 DEF old, bare
  <2> QED BY <2>6, <2>7, <2>8 DEF old
<1>5. \A c \in Ids \ Live(candidates) : R[c] = candidates[c] /\ candidates[c] \in {None, Gone}
  BY <1>2 DEF Live, IInv, TablesSound, CandidatesSound
<1>6. Live(R) \subseteq Live(candidates)
  BY <1>2, <1>5 DEF Live
<1>7. ASSUME NEW c \in Ids PROVE R[c] = None <=> candidates[c] = None
  <2>1. CASE c \in Live(candidates)
    <3>1. candidates[c] # None
      BY <2>1 DEF Live
    <3>2. R[c] = Gone \/ R[c] \in CandidateRows
      BY <1>2, <1>4, <2>1
    <3> QED BY <3>1, <3>2, NullsAssumption
  <2> QED BY <1>5, <2>1
<1>8. \A c \in Live(R) : c \notin bare
  <2>1. \A c \in Live(R) : R[c] # Gone
    BY DEF Live
  <2> QED BY <1>2, <2>1
<1> QED BY <1>2, <1>4, <1>6, <1>7, <1>8 DEF M, E, R

LEMMA LeftCandidates ==
  ASSUME IInv, NEW a \in Actors
  PROVE  LET D == CandidatesLeft(a) IN
         /\ CandidatesSound(D, MemoriesLeft(a), evidence \ tx[a].ev)
         /\ Live(D) \subseteq Live(candidates)
         /\ \A c \in Ids : D[c] = None <=> candidates[c] = None
         /\ \A c \in Live(D) : /\ D[c].fact = candidates[c].fact
                               /\ D[c].status = candidates[c].status
<1> DEFINE D == CandidatesLeft(a)
           M == RepairedBy(a)
           L == MemoriesLeft(a)
           E == tx[a].ev
           R == Remaining(E, M)
           falls(c) == \E m \in ErasedBy(a) :
                          \/ R[c].fact \in FactsOf(M[m])
                          \/ R[c].conflict # None /\ R[c].conflict[1] = m
<1>1. DOMAIN D = Ids /\ \A c \in Ids : D[c] = IF c \in Live(R) /\ falls(c) THEN Gone ELSE R[c]
  BY DEF CandidatesLeft
<1>2. /\ DOMAIN R = Ids /\ Live(R) \subseteq Live(candidates)
      /\ \A c \in Ids : R[c] = None <=> candidates[c] = None
      /\ \A c \in Live(R) :
            /\ R[c] \in CandidateRows /\ R[c].fact = candidates[c].fact
            /\ R[c].status = candidates[c].status
            /\ ConflictShown(R[c], M)
            /\ R[c].ev = candidates[c].ev \ E /\ R[c].ev # {}
  BY RemainingCandidates
<1>3. Live(L) = Live(M) \ ErasedBy(a) /\ \A m \in Live(L) : L[m] = M[m]
  BY LeftMemories
<1>4. \A c \in Live(R) : candidates[c].ev \subseteq evidence /\ c \in Ids
  BY <1>2, MemoryIds DEF IInv, TablesSound, CandidatesSound
<1>5. \A c \in Live(R) : ~falls(c) /\ R[c].conflict # None => R[c].conflict[1] \notin ErasedBy(a)
  OBVIOUS
<1> HIDE DEF D, M, L, E, R, falls
<1>6. ASSUME NEW c \in Live(D) PROVE c \in Live(R) /\ ~falls(c) /\ D[c] = R[c]
  <2>1. c \in Ids /\ D[c] \notin {None, Gone}
    BY <1>1 DEF Live
  <2>2. D[c] = R[c]
    BY <1>1, <2>1
  <2>3. c \in Live(R)
    BY <1>2, <2>1, <2>2 DEF Live
  <2> QED BY <1>1, <2>1, <2>2, <2>3
<1>7. ASSUME NEW c \in Live(D) PROVE ConflictShown(D[c], L)
  <2>1. ConflictShown(D[c], M)
    BY <1>2, <1>6
  <2>2. D[c].conflict # None => D[c].conflict[1] \in Live(L)
    BY <1>3, <1>6, <1>5, <2>1 DEF ConflictShown
  <2> QED BY <1>3, <2>1, <2>2 DEF ConflictShown
<1>8. CandidatesSound(D, L, evidence \ E)
  BY <1>1, <1>2, <1>4, <1>6, <1>7 DEF CandidatesSound
<1>9. ASSUME NEW c \in Ids PROVE D[c] = None <=> candidates[c] = None
  <2>1. CASE c \in Live(R) /\ falls(c)
    <3>1. R[c] # None
      BY <2>1 DEF Live
    <3> QED BY <1>1, <1>2, <2>1, <3>1, NullsAssumption
  <2>2. CASE ~(c \in Live(R) /\ falls(c))
    BY <1>1, <1>2, <2>2
  <2> QED BY <2>1, <2>2
<1> QED BY <1>2, <1>6, <1>8, <1>9 DEF D, L, E

LEMMA OthersUndeleted ==
  ASSUME IInv, NEW a \in Actors, RowHeldBy(a, TouchedRows(a)) = {},
         CandidateHeldBy(a, TouchedCandidates(a)) = {}, NEW b \in Actors \ {a}, tx[b] # None
  PROVE  KeptFor(b, MemoriesLeft(a), CandidatesLeft(a))
<1> DEFINE L == MemoriesLeft(a)
           D == CandidatesLeft(a)
<1>1. /\ DOMAIN L = Ids /\ Live(L) \subseteq Live(memories)
      /\ \A m \in Ids : L[m] = None <=> memories[m] = None
      /\ \A m \in Live(L) : Cleared(L[m], memories[m], tx[a].ev)
      /\ \A m \in Live(memories) \ TouchedRows(a) : L[m] = memories[m]
  BY LeftMemories
<1>2. /\ DOMAIN D = Ids /\ Live(D) \subseteq Live(candidates)
      /\ \A c \in Ids : D[c] = None <=> candidates[c] = None
      /\ \A c \in Live(D) : D[c].fact = candidates[c].fact
  BY LeftCandidates DEF CandidatesSound
<1>3. \A c \in Live(candidates) : c \notin TouchedCandidates(a) => D[c] = candidates[c]
  BY DEF TouchedCandidates
<1> HIDE DEF L, D
<1>4. TxShape(tx[b]) /\ Holds(b, tx[b], candidates, slotOwner)
      /\ Decided(tx[b], memories, candidates)
  BY DEF IInv, TxSound
<1>5. MemoriesKeptFor(b, L)
  <2> SUFFICES ASSUME tx[b].phase = "apply"
               PROVE  /\ tx[b].target # None =>
                            tx[b].target \in Live(L) /\ L[tx[b].target] = memories[tx[b].target]
                      /\ tx[b].target = None =>
                            \A m \in Slotted(L, SlotOf(FactOf(tx[b], candidates))) : L[m].byHand
    BY DEF MemoriesKeptFor
  <2>1. ASSUME tx[b].target # None
        PROVE  tx[b].target \in Live(L) /\ L[tx[b].target] = memories[tx[b].target]
    <3>1. tx[b].target \in Live(memories)
      BY <1>4, <2>1 DEF Decided
    <3>2. tx[b].target \notin TouchedRows(a)
      BY <2>1 DEF RowHeldBy
    <3>3. L[tx[b].target] = memories[tx[b].target]
      BY <1>1, <3>1, <3>2
    <3> QED BY <1>1, <3>1, <3>3, MemoryIds DEF Live
  <2>2. ASSUME tx[b].target = None,
               NEW m \in Slotted(L, SlotOf(FactOf(tx[b], candidates)))
        PROVE  L[m].byHand
    <3>1. m \in Live(L) /\ m \in Live(memories) /\ Cleared(L[m], memories[m], tx[a].ev)
          /\ L[m].status = "active" /\ SlotOf(L[m].fact) = SlotOf(FactOf(tx[b], candidates))
      BY <1>1 DEF Slotted
    <3>2. CASE L[m].byHand = TRUE
      BY <3>2
    <3>3. CASE L[m].byHand # TRUE
      <4>1. /\ L[m].status = memories[m].status /\ L[m].fact = memories[m].fact
            /\ L[m].byHand = memories[m].byHand
        BY <3>1, <3>3 DEF Cleared
      <4>2. m \in Slotted(memories, SlotOf(FactOf(tx[b], candidates)))
        BY <3>1, <4>1 DEF Slotted
      <4> QED BY <1>4, <2>2, <4>1, <4>2 DEF Decided
    <3> QED BY <3>2, <3>3
  <2> QED BY <2>1, <2>2
<1>6. ASSUME tx[b].op \in {"confirm", "reject"}
      PROVE  /\ D[tx[b].id] # None
             /\ tx[b].id \in Live(D) => /\ tx[b].id \in Live(candidates)
                                        /\ D[tx[b].id].fact = candidates[tx[b].id].fact
  <2>1. tx[b].id \in Ids /\ candidates[tx[b].id] # None
    BY <1>4, <1>6 DEF TxShape, Holds
  <2> QED BY <1>2, <2>1
<1>7. ASSUME tx[b].op = "confirm", tx[b].phase = "apply"
      PROVE  tx[b].id \in Live(D) /\ D[tx[b].id] = candidates[tx[b].id]
  <2>1. tx[b].id \in Live(candidates) /\ tx[b].id \in Ids
    BY <1>4, <1>7 DEF Decided, TxShape
  <2>2. tx[b].id \notin TouchedCandidates(a)
    BY <1>7 DEF CandidateHeldBy, At
  <2>3. D[tx[b].id] = candidates[tx[b].id]
    BY <1>3, <2>1, <2>2
  <2> QED BY <1>2, <2>1, <2>3 DEF Live
<1>8. CandidatesKeptFor(b, D)
  BY <1>6, <1>7 DEF CandidatesKeptFor
<1> QED BY <1>5, <1>8 DEF KeptFor, L, D

LEMMA DeleteEvidenceKeeps ==
  ASSUME IInv, NEW a \in Actors, DeleteEvidence(a)
  PROVE  IInv'
<1> DEFINE L == MemoriesLeft(a)
           D == CandidatesLeft(a)
           F == evidence \ tx[a].ev
<1>1. /\ tx[a] # None /\ Commit(a, L, D, F)
      /\ RowHeldBy(a, TouchedRows(a)) = {} /\ CandidateHeldBy(a, TouchedCandidates(a)) = {}
  BY DEF DeleteEvidence
<1>2. CASE Rollback(a)
  BY <1>1, <1>2, RollbackKeeps
<1>3. CASE memories' = L /\ candidates' = D /\ evidence' = F /\ Close(a)
  <2>1. MemoriesSound(L, F) /\ OnePerSlot(L) /\ CandidatesSound(D, L, F)
    BY LeftMemoriesSound, LeftCandidates
  <2>2. /\ DOMAIN L = Ids /\ Live(L) \subseteq Live(memories)
        /\ \A m \in Ids : L[m] = None <=> memories[m] = None
        /\ \A m \in Live(L) : Cleared(L[m], memories[m], tx[a].ev)
    BY LeftMemories
  <2>3. \A c \in Ids : D[c] = None <=> candidates[c] = None
    BY LeftCandidates
  <2>4. \A b \in Actors \ {a} : tx[b] # None => KeptFor(b, L, D)
    BY <1>1, OthersUndeleted
  <2> HIDE DEF L, D, F
  <2>5. TablesSound'
    BY <1>3, <2>1 DEF TablesSound
  <2>6. Used(memories)' \subseteq Used(memories) \cup {1}
    BY <1>3, <2>2 DEF Used
  <2>7. Used(candidates)' \subseteq Used(candidates) \cup {1}
    BY <1>3, <2>3 DEF Used
  <2>8. ASSUME NEW m \in Live(memories'), NEW r \in DOMAIN memories'[m].revisions
        PROVE  r \in Nat /\ r + Cardinality(OpenTx) <= starts + 1
    <3>1. m \in Live(memories) /\ r \in DOMAIN memories[m].revisions
      BY <1>3, <2>2 DEF Cleared
    <3> QED BY <1>1, <3>1, MemoryIds, FreeNumbers
  <2>9. \A b \in Actors \ {a} : tx[b] # None => KeptFor(b, memories', candidates')
    BY <1>3, <2>4
  <2> QED BY <1>1, <1>3, <2>5, <2>6, <2>7, <2>8, <2>9, CloseKeeps
<1> QED BY <1>1, <1>2, <1>3 DEF Commit

-----------------------------------------------------------------------------
(* The invariant and what follows from it.                                  *)

LEMMA InvInit == Init => IInv
<1> SUFFICES ASSUME Init PROVE IInv
  OBVIOUS
<1>1. /\ Live(memories) = {} /\ Live(candidates) = {}
      /\ DOMAIN memories = Ids /\ DOMAIN candidates = Ids
  BY DEF Init, Live
<1>2. TablesSound
  BY <1>1 DEF TablesSound, MemoriesSound, CandidatesSound, OnePerSlot
<1>3. LocksSound /\ TxSound
  BY DEF Init, LocksSound, TxSound
<1>4. Counted
  <2>1. OpenTx = {} /\ Used(memories) = {} /\ Used(candidates) = {}
    BY DEF Init, OpenTx, Used
  <2>2. IsFiniteSet({}) /\ Cardinality({}) = 0
    BY FS_EmptySet
  <2>3. starts = 0 /\ 0 \in 0..MaxStarts
    BY StartsAssumption DEF Init
  <2> QED BY <1>1, <2>1, <2>2, <2>3 DEF Counted
<1> QED BY <1>2, <1>3, <1>4 DEF IInv

LEMMA InvStutters == ASSUME IInv, UNCHANGED vars PROVE IInv'
<1>1. UNCHANGED <<memories, candidates, evidence, slotOwner, evidenceOwner, tx, starts>>
  BY DEF vars, rows, locks
<1> QED BY <1>1 DEF IInv, TablesSound, TxSound, LocksSound, Counted, OpenTx, Used, Live

LEMMA InvNext == ASSUME IInv, [Next]_vars PROVE IInv'
<1>1. ASSUME NEW a \in Users, UserNext(a) PROVE IInv'
  <2> a \in Actors
    BY DEF Actors
  <2>1. ASSUME NEW c \in Ids, NEW op \in {"confirm", "reject"}, BeginCandidate(a, op, c)
        PROVE  IInv'
    BY <2>1, BeginCandidateKeeps
  <2>2. ASSUME NEW m \in Ids, NEW fact \in Facts, NEW normalized \in BOOLEAN,
               BeginRevise(a, m, fact, normalized)
        PROVE  IInv'
    BY <2>2, BeginReviseKeeps
  <2>3. ASSUME NEW m \in Ids, BeginInvalidate(a, m) PROVE IInv'
    BY <2>3, BeginInvalidateKeeps
  <2>4. ASSUME NEW m \in Ids, BeginHardDelete(a, m) PROVE IInv'
    BY <2>4, BeginDeleteKeeps
  <2>5. CASE BeginPurge(a)
    BY <2>5, BeginDeleteKeeps
  <2>6. CASE ConfirmDecide(a)
    BY <2>6, ConfirmDecideKeeps
  <2>7. CASE ConfirmApply(a)
    BY <2>7, ConfirmApplyKeeps
  <2>8. CASE Reject(a)
    BY <2>8, RejectKeeps
  <2>9. CASE Revise(a)
    BY <2>9, ReviseKeeps
  <2>10. CASE Invalidate(a)
    BY <2>10, InvalidateKeeps
  <2> QED BY <1>1, <2>1, <2>2, <2>3, <2>4, <2>5, <2>6, <2>7, <2>8, <2>9, <2>10 DEF UserNext
<1>2. CASE WorkerNext
  <2> Worker \in Actors
    BY DEF Actors
  <2>1. ASSUME NEW fact \in Facts, NEW kind \in Kinds, NEW e \in Observations,
               BeginReconcile(fact, kind, e)
        PROVE  IInv'
    BY <2>1, BeginReconcileKeeps
  <2>2. CASE ReconcileDecide(Worker)
    BY <2>2, ReconcileDecideKeeps
  <2>3. CASE ReconcileApply(Worker)
    BY <2>3, ReconcileApplyKeeps
  <2> QED BY <1>2, <2>1, <2>2, <2>3 DEF WorkerNext
<1>3. ASSUME NEW a \in Actors, NEW e \in Observations, BeginDelete(a, e) PROVE IInv'
  BY <1>3, BeginDeleteKeeps
<1>4. ASSUME NEW a \in Actors, LockEvidence(a) PROVE IInv'
  BY <1>4, LockEvidenceKeeps
<1>5. ASSUME NEW a \in Actors, LockSlot(a) PROVE IInv'
  BY <1>5, LockSlotKeeps
<1>6. ASSUME NEW a \in Actors, DeleteEvidence(a) PROVE IInv'
  BY <1>6, DeleteEvidenceKeeps
<1>7. ASSUME NEW a \in Actors, DeadlockVictim(a) PROVE IInv'
  <2>1. PICK S \in SUBSET Actors : a \in S /\ Deadlocked(S)
    BY <1>7 DEF DeadlockVictim
  <2>2. tx[a] # None
    BY <2>1 DEF Deadlocked, WaitsFor
  <2> QED BY <1>7, <2>2, RollbackKeeps DEF DeadlockVictim
<1>8. CASE UNCHANGED vars
  BY <1>8, InvStutters
<1> QED BY <1>1, <1>2, <1>3, <1>4, <1>5, <1>6, <1>7, <1>8 DEF Next

-----------------------------------------------------------------------------
(* The kinds of steps.                                                      *)

Typed ==
    /\ evidence \in SUBSET Observations
    /\ tx \in [Actors -> Transactions \cup {None}]
    /\ \A a \in Actors : tx[a] # None => tx[a] \in Transactions

\* Nobody takes an evidence row from its holder.
EvidenceKept(a) ==
    \A e \in Observations, b \in Actors \ {a} : evidenceOwner[e] = b => evidenceOwner'[e] = b

\* A transaction begins.
Begins(a, t) ==
    /\ Open(a, t) /\ t \in Transactions /\ UNCHANGED <<rows, slotOwner>> /\ EvidenceKept(a)
    /\ t.phase = "evidence" \/ t.late \/ t.after = {}

\* A transaction decides, and keeps its locks.
Decides(a, t) ==
    /\ tx[a] # None /\ UNCHANGED <<rows, locks, starts>>
    /\ tx' = [tx EXCEPT ![a] = t] /\ t \in Transactions /\ t.phase = "apply"

\* A transaction ends.
Ends(a) == Close(a) /\ evidence' \in SUBSET Observations

LEMMA OpenedTyped ==
  ASSUME NEW op \in {"reconcile", "confirm", "reject", "revise", "invalidate"} \cup Deletions,
         NEW slots \in SUBSET Slots
  PROVE  Opened(op, slots) \in Transactions /\ Opened(op, slots).after = {}
BY DEF Opened, Transactions

LEMMA RollbackEnds ==
  ASSUME Typed, NEW a \in Actors, Rollback(a)
  PROVE  Ends(a)
BY DEF Typed, Rollback, rows, Ends

LEMMA CommitEnds ==
  ASSUME Typed, NEW a \in Actors, NEW M, NEW C, NEW F \in SUBSET Observations, Commit(a, M, C, F)
  PROVE  Ends(a)
BY RollbackEnds DEF Commit, Ends

LEMMA UserSteps ==
  ASSUME IInv, Typed, NEW a \in Actors, UserNext(a)
  PROVE  (\E t : Begins(a, t) \/ Decides(a, t)) \/ Ends(a)
<1>1. evidence \in SUBSET Observations /\ (UNCHANGED evidenceOwner => EvidenceKept(a))
  BY DEF Typed, EvidenceKept
<1>2. ASSUME NEW c \in Ids, NEW op \in {"confirm", "reject"}, BeginCandidate(a, op, c)
      PROVE  \E t : Begins(a, t)
  <2> DEFINE slot == SlotOf(candidates[c].fact)
             o == Opened(op, {slot})
             t == [o EXCEPT !.id = c]
  <2>1. c \in Live(candidates) /\ Open(a, t) /\ UNCHANGED <<rows, locks>>
    BY <1>2 DEF BeginCandidate
  <2>2. slot \in Slots
    BY <2>1, SlotOfFact DEF IInv, TablesSound, CandidatesSound, CandidateRows
  <2>3. o \in Transactions /\ o.after = {}
    BY <2>2, OpenedTyped
  <2> HIDE DEF o
  <2>4. t \in Transactions /\ t.after = {}
    BY <2>3 DEF Transactions
  <2> HIDE DEF t
  <2> QED BY <1>1, <2>1, <2>4 DEF Begins, locks
<1>3. ASSUME NEW m \in Ids, NEW fact \in Facts, NEW normalized \in BOOLEAN,
             BeginRevise(a, m, fact, normalized)
      PROVE  \E t : Begins(a, t)
  <2> DEFINE old == SlotOf(memories[m].fact)
             new == SlotOf(fact)
             first == {old} \cup (IF normalized THEN {new} ELSE {})
             after == IF normalized THEN {} ELSE {new} \ {old}
             late == ~normalized /\ new # old
             o == Opened("revise", first)
             t == [o EXCEPT !.after = after, !.late = late, !.id = m, !.fact = fact]
  <2>1. m \in Live(memories) /\ Open(a, t) /\ UNCHANGED <<rows, locks>>
    BY <1>3 DEF BeginRevise
  <2>2. old \in Slots /\ new \in Slots
    BY <2>1, MemorySlot, SlotOfFact
  <2>3. /\ first \in SUBSET Slots /\ after \in SUBSET Slots /\ late \in BOOLEAN
        /\ late \/ after = {}
    BY <2>2
  <2> HIDE DEF first, after, late
  <2>4. o \in Transactions
    BY <2>3, OpenedTyped
  <2> HIDE DEF o
  <2>5. t \in Transactions /\ t.after = after /\ t.late = late
    BY <2>3, <2>4 DEF Transactions
  <2> HIDE DEF t
  <2> QED BY <1>1, <2>1, <2>3, <2>5 DEF Begins, locks
<1>4. ASSUME NEW m \in Ids, BeginInvalidate(a, m) PROVE \E t : Begins(a, t)
  <2> DEFINE slot == SlotOf(memories[m].fact)
             o == Opened("invalidate", {slot})
             t == [o EXCEPT !.id = m]
  <2>1. m \in Live(memories) /\ Open(a, t) /\ UNCHANGED <<rows, locks>>
    BY <1>4 DEF BeginInvalidate
  <2>2. slot \in Slots
    BY <2>1, MemorySlot
  <2>3. o \in Transactions /\ o.after = {}
    BY <2>2, OpenedTyped
  <2> HIDE DEF o
  <2>4. t \in Transactions /\ t.after = {}
    BY <2>3 DEF Transactions
  <2> HIDE DEF t
  <2> QED BY <1>1, <2>1, <2>4 DEF Begins, locks
<1>5. ASSUME NEW m \in Ids, BeginHardDelete(a, m) PROVE \E t : Begins(a, t)
  <2> DEFINE o == Opened("hardDelete", {})
             E == EvidenceOf(m)
             t == [o EXCEPT !.id = m, !.ev = E]
  <2>1. m \in Live(memories) /\ Open(a, t) /\ UNCHANGED <<rows, locks>>
    BY <1>5 DEF BeginHardDelete
  <2>2. SupportOf(memories[m]) \subseteq evidence /\ SupportOf(memories[m]) = E
    BY <2>1 DEF IInv, TablesSound, MemoriesSound, SupportOf, EvidenceOf
  <2>3. E \in SUBSET Observations
    BY <1>1, <2>2
  <2>4. o \in Transactions /\ o.after = {}
    BY OpenedTyped DEF Deletions
  <2> HIDE DEF o, E
  <2>5. t \in Transactions /\ t.after = {}
    BY <2>3, <2>4 DEF Transactions
  <2> HIDE DEF t
  <2> QED BY <1>1, <2>1, <2>5 DEF Begins, locks
<1>6. ASSUME BeginPurge(a) PROVE \E t : Begins(a, t)
  <2> DEFINE t == Opened("purge", {})
  <2>1. Open(a, t) /\ UNCHANGED <<rows, locks>>
    BY <1>6 DEF BeginPurge
  <2>2. t \in Transactions /\ t.after = {}
    BY OpenedTyped DEF Deletions
  <2> HIDE DEF t
  <2> QED BY <1>1, <2>1, <2>2 DEF Begins, locks
<1>7. ASSUME ConfirmDecide(a) PROVE (\E t : Decides(a, t)) \/ Ends(a)
  <2>1. CASE Rollback(a)
    BY <2>1, RollbackEnds
  <2>2. CASE ~Rollback(a)
    <3> DEFINE c == tx[a].id
               Plan(m) == IF m # None /\ memories[m].fact = candidates[c].fact
                          THEN "attach" ELSE "promote"
    <3>1. PICK m \in SlotReads(candidates[c].fact) :
             /\ tx' = [tx EXCEPT ![a].phase = "apply", ![a].target = m, ![a].plan = Plan(m)]
             /\ UNCHANGED <<rows, locks, starts>>
      BY <1>7, <2>2 DEF ConfirmDecide
    <3> DEFINE plan == Plan(m)
               t == [tx[a] EXCEPT !.phase = "apply", !.target = m, !.plan = plan]
    <3>2. tx' = [tx EXCEPT ![a] = t]
      BY <3>1 DEF IInv, LocksSound
    <3>3. plan \in {"attach", "promote"}
      OBVIOUS
    <3> HIDE DEF plan
    <3>4. m \in Ids \cup {None} /\ tx[a] # None /\ tx[a] \in Transactions
      BY <1>7, SlotReadsSlot, MemoryIds DEF ConfirmDecide, Locked, At, Typed
    <3>5. t \in Transactions /\ t.phase = "apply"
      BY <3>3, <3>4 DEF Transactions
    <3> HIDE DEF t
    <3> QED BY <3>1, <3>2, <3>4, <3>5 DEF Decides
  <2> QED BY <2>1, <2>2
<1>8. ASSUME Revise(a) \/ Invalidate(a) \/ Reject(a) \/ ConfirmApply(a) PROVE Ends(a)
  <2>1. \A M, C : Commit(a, M, C, evidence) => Ends(a)
    BY <1>1, CommitEnds
  <2>2. Rollback(a) => Ends(a)
    BY RollbackEnds
  <2>3. CASE Revise(a)
    BY <2>1, <2>2, <2>3 DEF Revise
  <2>4. CASE Invalidate(a)
    BY <2>1, <2>2, <2>4 DEF Invalidate
  <2>5. CASE Reject(a)
    BY <2>1, <2>2, <2>5 DEF Reject
  <2>6. CASE ConfirmApply(a)
    BY <2>1, <2>2, <2>6 DEF ConfirmApply
  <2> QED BY <1>8, <2>3, <2>4, <2>5, <2>6
<1> QED BY <1>2, <1>3, <1>4, <1>5, <1>6, <1>7, <1>8 DEF UserNext

LEMMA WorkerSteps ==
  ASSUME IInv, Typed, WorkerNext
  PROVE  (\E t : Begins(Worker, t) \/ Decides(Worker, t)) \/ Ends(Worker)
<1> DEFINE a == Worker
<1>1. a \in Actors /\ evidence \in SUBSET Observations /\ DOMAIN tx = Actors
      /\ DOMAIN evidenceOwner = Observations
  BY DEF Typed, Actors, IInv, LocksSound
<1>2. ASSUME NEW fact \in Facts, NEW kind \in Kinds, NEW e \in Observations,
             BeginReconcile(fact, kind, e)
      PROVE  \E t : Begins(a, t)
  <2> DEFINE o == Opened("reconcile", {SlotOf(fact)})
             t == [o EXCEPT !.fact = fact, !.kind = kind, !.ev = {e}]
  <2>1. /\ Open(a, t) /\ UNCHANGED <<rows, slotOwner>> /\ HeldBy(a, {e}) = {}
        /\ evidenceOwner' = [evidenceOwner EXCEPT ![e] =
                                IF e \in evidence THEN Worker ELSE evidenceOwner[e]]
    BY <1>2 DEF BeginReconcile
  <2>2. o \in Transactions /\ o.after = {}
    BY OpenedTyped, SlotOfFact
  <2> HIDE DEF o
  <2>3. t \in Transactions /\ t.after = {}
    BY <2>2 DEF Transactions
  <2> HIDE DEF t
  <2>4. EvidenceKept(a)
    <3> SUFFICES ASSUME NEW d \in Observations, NEW b \in Actors \ {a}, evidenceOwner[d] = b
                 PROVE  evidenceOwner'[d] = b
      BY DEF EvidenceKept
    <3>1. b # None
      BY ActorsAssumption DEF Actors
    <3>2. d = e => e \notin evidence
      BY <2>1, <3>1 DEF HeldBy
    <3> QED BY <1>1, <2>1, <3>2
  <2> QED BY <2>1, <2>3, <2>4 DEF Begins
<1>3. ASSUME ReconcileDecide(a) PROVE \E t : Decides(a, t)
  <2> DEFINE Compat(m) == m # None /\ memories[m].fact = tx[a].fact
             Plan(m) == LET decision == Decision(tx[a].kind, m # None /\ ~Compat(m))
                        IN  CASE decision = "pending" -> "hold"
                              [] decision = "promote" /\ Compat(m) -> "attach"
                              [] decision = "promote" /\ ~Compat(m) -> "promote"
  <2>1. PICK m \in SlotReads(tx[a].fact) :
           /\ tx' = [tx EXCEPT ![a].phase = "apply", ![a].target = m, ![a].kind = None,
                               ![a].plan = Plan(m)]
           /\ UNCHANGED <<rows, locks, starts>>
    BY <1>3 DEF ReconcileDecide
  <2>2. Plan(m) \in {"attach", "hold", "promote"}
    <3>1. Decision(tx[a].kind, m # None /\ ~Compat(m)) \in {"promote", "pending"}
      BY DEF Decision
    <3> QED BY <3>1
  <2> DEFINE plan == Plan(m)
             t == [tx[a] EXCEPT !.phase = "apply", !.target = m, !.kind = None, !.plan = plan]
  <2> HIDE DEF Plan
  <2>3. tx' = [tx EXCEPT ![a] = t]
    BY <1>1, <2>1
  <2> HIDE DEF plan
  <2>4. m \in Ids \cup {None} /\ tx[a] # None /\ tx[a] \in Transactions
    BY <1>1, <1>3, SlotReadsSlot, MemoryIds DEF ReconcileDecide, Locked, At, Typed
  <2>5. t \in Transactions /\ t.phase = "apply"
    BY <2>2, <2>4 DEF Transactions, plan
  <2> HIDE DEF t
  <2> QED BY <2>1, <2>3, <2>4, <2>5 DEF Decides
<1>4. ASSUME ReconcileApply(a) PROVE Ends(a)
  <2>1. tx[a] # None /\ tx[a].phase = "apply"
    BY <1>4 DEF ReconcileApply, At
  <2>2. tx[a].plan \in {"attach", "promote", "hold"} /\ tx[a].ev \in SUBSET Observations
    BY <1>1, <2>1, OwnsSlot DEF Decided, Typed, Transactions
  <2>3. evidence \cup tx[a].ev \in SUBSET Observations
    BY <1>1, <2>2
  <2>4. \A M, C : Commit(a, M, C, evidence \cup tx[a].ev) => Ends(a)
    BY <1>1, <2>3, CommitEnds
  <2> HIDE DEF a
  <2> QED BY <1>4, <2>2, <2>4 DEF ReconcileApply
<1> QED BY <1>2, <1>3, <1>4 DEF WorkerNext

LEMMA OtherSteps ==
  ASSUME IInv, Typed, NEW a \in Actors,
         \/ \E e \in Observations : BeginDelete(a, e)
         \/ DeleteEvidence(a) \/ DeadlockVictim(a)
  PROVE  (\E t : Begins(a, t)) \/ Ends(a)
<1>1. evidence \in SUBSET Observations /\ (UNCHANGED evidenceOwner => EvidenceKept(a))
  BY DEF Typed, EvidenceKept
<1>2. ASSUME NEW e \in Observations, BeginDelete(a, e) PROVE \E t : Begins(a, t)
  <2> DEFINE o == Opened("delete", {})
             t == [o EXCEPT !.ev = {e}]
  <2>1. Open(a, t) /\ UNCHANGED <<rows, locks>>
    BY <1>2 DEF BeginDelete
  <2>2. o \in Transactions /\ o.after = {}
    BY OpenedTyped DEF Deletions
  <2> HIDE DEF o
  <2>3. t \in Transactions /\ t.after = {}
    BY <2>2 DEF Transactions
  <2> HIDE DEF t
  <2> QED BY <1>1, <2>1, <2>3 DEF Begins, locks
<1>3. ASSUME DeleteEvidence(a) PROVE Ends(a)
  BY <1>1, <1>3, CommitEnds DEF DeleteEvidence
<1>4. ASSUME DeadlockVictim(a) PROVE Ends(a)
  BY <1>4, RollbackEnds DEF DeadlockVictim
<1> QED BY <1>2, <1>3, <1>4

\* Every step begins, locks, decides or ends one transaction.
LEMMA Steps ==
  ASSUME IInv, Typed, [Next]_vars
  PROVE  \/ \E a \in Actors : \/ \E t : Begins(a, t) \/ Decides(a, t)
                              \/ LockSlot(a) \/ LockEvidence(a) \/ Ends(a)
         \/ UNCHANGED vars
<1>1. \A a \in Users : UserNext(a) => (\E t : Begins(a, t) \/ Decides(a, t)) \/ Ends(a)
  BY UserSteps DEF Actors
<1>2. WorkerNext => (\E t : Begins(Worker, t) \/ Decides(Worker, t)) \/ Ends(Worker)
  BY WorkerSteps
<1>3. \A a \in Actors :
         (\/ \E e \in Observations : BeginDelete(a, e)
          \/ DeleteEvidence(a) \/ DeadlockVictim(a)) => (\E t : Begins(a, t)) \/ Ends(a)
  BY OtherSteps
<1>4. Worker \in Actors /\ Users \subseteq Actors
  BY DEF Actors
<1> QED BY <1>1, <1>2, <1>3, <1>4 DEF Next

LEMMA LockSlotTyped ==
  ASSUME IInv, Typed, NEW a \in Actors, LockSlot(a)
  PROVE  UNCHANGED rows /\ \E t \in Transactions : tx' = [tx EXCEPT ![a] = t]
<1> DEFINE rest == tx[a].slots \ {NextSlot(a)}
           slots == IF rest = {} THEN tx[a].after ELSE rest
           after == IF rest = {} THEN {} ELSE tx[a].after
           t == [tx[a] EXCEPT !.slots = slots, !.after = after]
<1>1. tx' = [tx EXCEPT ![a] = t] /\ UNCHANGED rows /\ tx[a] \in Transactions
  BY DEF LockSlot, IInv, LocksSound, Typed
<1>2. slots \in SUBSET Slots /\ after \in SUBSET Slots
  BY <1>1 DEF Transactions
<1> HIDE DEF slots, after
<1>3. t \in Transactions
  BY <1>1, <1>2 DEF Transactions
<1> QED BY <1>1, <1>3

LEMMA SelectedTyped ==
  ASSUME IInv, Typed, NEW a \in Actors
  PROVE  /\ Selected(a) \in SUBSET Observations /\ Selected(a) \subseteq evidence
         /\ TracedSlots(Selected(a)) \in SUBSET Slots
<1> DEFINE E == Selected(a)
<1>1. E \subseteq evidence /\ evidence \in SUBSET Observations
  BY DEF Selected, Typed
<1> HIDE DEF E
<1>2. \A m \in TracedMemories(E) : SlotOf(memories[m].fact) \in Slots
  BY MemorySlot DEF TracedMemories
<1>3. \A c \in Live(candidates) : SlotOf(candidates[c].fact) \in Slots
  BY SlotOfFact DEF IInv, TablesSound, CandidatesSound, CandidateRows
<1>4. TracedSlots(E) \in SUBSET Slots
  BY <1>2, <1>3 DEF TracedSlots, TracedCandidates
<1> QED BY <1>1, <1>4 DEF E

LEMMA LockEvidenceTyped ==
  ASSUME IInv, Typed, NEW a \in Actors, LockEvidence(a)
  PROVE  UNCHANGED rows /\ \E t \in Transactions : tx' = [tx EXCEPT ![a] = t]
<1> DEFINE E == Selected(a)
           slots == TracedSlots(E)
           t == [tx[a] EXCEPT !.phase = "slots", !.ev = E, !.slots = slots]
<1>1. tx' = [tx EXCEPT ![a] = t] /\ UNCHANGED rows /\ tx[a] \in Transactions
  BY DEF LockEvidence, IInv, LocksSound, Typed
<1>2. slots \in SUBSET Slots /\ E \in SUBSET Observations
  BY SelectedTyped
<1> HIDE DEF slots, E
<1>3. t \in Transactions
  BY <1>1, <1>2 DEF Transactions
<1> QED BY <1>1, <1>3

LEMMA TypedNext == ASSUME IInv, Typed, [Next]_vars PROVE Typed'
<1>1. DOMAIN tx = Actors /\ evidence \in SUBSET Observations
  BY DEF IInv, LocksSound, Typed
<1>2. ASSUME NEW a \in Actors, NEW t \in Transactions, tx' = [tx EXCEPT ![a] = t], UNCHANGED rows
      PROVE  Typed'
  BY <1>1, <1>2 DEF Typed, rows
<1>3. ASSUME NEW a \in Actors, Ends(a) PROVE Typed'
  BY <1>1, <1>3 DEF Typed, Ends, Close
<1>4. ASSUME NEW a \in Actors, NEW t, Begins(a, t) \/ Decides(a, t) PROVE Typed'
  BY <1>2, <1>4 DEF Begins, Decides, Open
<1>5. ASSUME NEW a \in Actors, LockSlot(a) \/ LockEvidence(a) PROVE Typed'
  BY <1>2, <1>5, LockSlotTyped, LockEvidenceTyped
<1>6. CASE UNCHANGED vars
  BY <1>6 DEF vars, rows, Typed
<1> QED BY <1>3, <1>4, <1>5, <1>6, Steps

-----------------------------------------------------------------------------
(* Deadlocks.                                                               *)

\* A transaction that waits for a slot has locked lower ones only, unless it is out of order.
Ordered ==
    /\ \A a \in Actors, s \in Slots : tx[a] = None => slotOwner[s] # a
    /\ \A a \in Actors :
          tx[a] # None /\ tx[a].phase = "slots" /\ tx[a].slots # {} =>
             \/ tx[a].late
             \/ \E e \in Observations : evidenceOwner[e] = a
             \/ /\ tx[a].after = {}
                /\ \A s \in Slots : slotOwner[s] = a => \A r \in tx[a].slots : s < r

LEMMA OrderedOpen ==
  ASSUME IInv, Ordered, NEW a \in Actors, NEW t, Begins(a, t)
  PROVE  Ordered'
<1>1. /\ tx' = [tx EXCEPT ![a] = t] /\ tx[a] = None /\ DOMAIN tx = Actors
      /\ UNCHANGED slotOwner /\ EvidenceKept(a)
      /\ t.phase = "evidence" \/ t.late \/ t.after = {}
  BY DEF Begins, Open, IInv, LocksSound
<1>2. ASSUME NEW b \in Actors, NEW s \in Slots, tx'[b] = None PROVE slotOwner'[s] # b
  BY <1>1, <1>2 DEF Ordered
<1>3. ASSUME NEW b \in Actors, tx'[b] # None, tx'[b].phase = "slots", tx'[b].slots # {}
      PROVE  \/ tx'[b].late
             \/ \E e \in Observations : evidenceOwner'[e] = b
             \/ /\ tx'[b].after = {}
                /\ \A s \in Slots : slotOwner'[s] = b => \A r \in tx'[b].slots : s < r
  <2>1. CASE b = a
    BY <1>1, <1>3, <2>1 DEF Ordered
  <2>2. CASE b # a
    BY <1>1, <1>3, <2>2 DEF Ordered, EvidenceKept
  <2> QED BY <2>1, <2>2
<1> QED BY <1>2, <1>3 DEF Ordered

LEMMA OrderedDecide ==
  ASSUME IInv, Ordered, NEW a \in Actors, NEW t, Decides(a, t)
  PROVE  Ordered'
<1>1. /\ UNCHANGED <<slotOwner, evidenceOwner>> /\ DOMAIN tx = Actors
      /\ tx' = [tx EXCEPT ![a] = t] /\ t.phase = "apply" /\ t # None
  BY NullsAssumption DEF Decides, locks, IInv, LocksSound
<1>2. ASSUME NEW b \in Actors, NEW s \in Slots, tx'[b] = None PROVE slotOwner'[s] # b
  <2>1. CASE b = a
    BY <1>1, <1>2, <2>1
  <2>2. CASE b # a
    BY <1>1, <1>2, <2>2 DEF Ordered
  <2> QED BY <2>1, <2>2
<1>3. ASSUME NEW b \in Actors, tx'[b] # None, tx'[b].phase = "slots", tx'[b].slots # {}
      PROVE  \/ tx'[b].late
             \/ \E e \in Observations : evidenceOwner'[e] = b
             \/ /\ tx'[b].after = {}
                /\ \A s \in Slots : slotOwner'[s] = b => \A r \in tx'[b].slots : s < r
  <2>1. b # a
    BY <1>1, <1>3
  <2> QED BY <1>1, <1>3, <2>1 DEF Ordered
<1> QED BY <1>2, <1>3 DEF Ordered

LEMMA OrderedClose ==
  ASSUME IInv, Ordered, NEW a \in Actors, Close(a)
  PROVE  Ordered'
<1>1. /\ tx' = [tx EXCEPT ![a] = None] /\ DOMAIN tx = Actors
      /\ slotOwner' = [s \in Slots |-> IF slotOwner[s] = a THEN None ELSE slotOwner[s]]
      /\ evidenceOwner' = [e \in Observations |->
                              IF evidenceOwner[e] = a THEN None ELSE evidenceOwner[e]]
      /\ a # None /\ \A b \in Actors : b # None
  BY ActorsAssumption DEF Close, IInv, LocksSound, Actors
<1>2. ASSUME NEW b \in Actors, NEW s \in Slots, tx'[b] = None PROVE slotOwner'[s] # b
  <2>1. CASE b = a
    BY <1>1, <2>1
  <2>2. CASE b # a
    BY <1>1, <1>2, <2>2 DEF Ordered
  <2> QED BY <2>1, <2>2
<1>3. ASSUME NEW b \in Actors, tx'[b] # None, tx'[b].phase = "slots", tx'[b].slots # {}
      PROVE  \/ tx'[b].late
             \/ \E e \in Observations : evidenceOwner'[e] = b
             \/ /\ tx'[b].after = {}
                /\ \A s \in Slots : slotOwner'[s] = b => \A r \in tx'[b].slots : s < r
  <2>1. b # a /\ tx'[b] = tx[b]
    BY <1>1, <1>3
  <2>2. /\ \A s \in Slots : slotOwner'[s] = b => slotOwner[s] = b
        /\ \A e \in Observations : evidenceOwner[e] = b => evidenceOwner'[e] = b
    BY <1>1, <2>1
  <2> QED BY <1>3, <2>1, <2>2 DEF Ordered
<1> QED BY <1>2, <1>3 DEF Ordered

LEMMA OrderedLockSlot ==
  ASSUME IInv, Typed, Ordered, NEW a \in Actors, LockSlot(a)
  PROVE  Ordered'
<1> DEFINE next == NextSlot(a)
           rest == tx[a].slots \ {next}
           slots == IF rest = {} THEN tx[a].after ELSE rest
           after == IF rest = {} THEN {} ELSE tx[a].after
           t == [tx[a] EXCEPT !.slots = slots, !.after = after]
<1>1. /\ tx[a] # None /\ tx[a].phase = "slots" /\ tx[a].slots # {}
      /\ slotOwner[next] = None /\ slotOwner' = [slotOwner EXCEPT ![next] = a]
      /\ evidenceOwner' = evidenceOwner /\ TxShape(tx[a])
      /\ DOMAIN tx = Actors /\ DOMAIN slotOwner = Slots
  BY DEF LockSlot, IInv, LocksSound, TxSound
<1>2. next \in tx[a].slots /\ tx[a].slots \in SUBSET Nat /\ tx[a].slots \in SUBSET Slots
      /\ \A r \in tx[a].slots : next <= r
  <2>1. tx[a].slots \in SUBSET Slots
    BY <1>1 DEF TxShape
  <2>2. tx[a].slots \in SUBSET Nat
    BY <2>1, SlotsAssumption
  <2> QED BY <1>1, <2>1, <2>2, LeastNat DEF NextSlot
<1>3. tx' = [tx EXCEPT ![a] = t]
  BY DEF LockSlot, IInv, LocksSound
<1> HIDE DEF next
<1>4. tx[a].after = {} => /\ slots \subseteq tx[a].slots /\ after = {}
                          /\ \A r \in slots : next < r
  BY <1>2
<1> HIDE DEF slots, after
<1>5. /\ t.phase = "slots" /\ t.slots = slots /\ t.after = after /\ t.late = tx[a].late
      /\ DOMAIN t = DOMAIN tx[a]
  BY <1>1 DEF TxShape
<1>6. t # None
  <2>1. tx[a] \in Transactions
    BY <1>1 DEF Typed
  <2>2. after \in SUBSET Slots /\ slots \in SUBSET Slots
    BY <1>1, <1>2, <2>1 DEF Transactions, slots, after
  <2>3. t \in Transactions
    BY <2>1, <2>2 DEF Transactions
  <2> QED BY <2>3, NullsAssumption
<1> HIDE DEF t
<1>7. ASSUME NEW b \in Actors, NEW s \in Slots, tx'[b] = None PROVE slotOwner'[s] # b
  <2>1. CASE b = a
    BY <1>1, <1>3, <1>7, <1>6, <2>1
  <2>2. CASE b # a
    <3>1. tx[b] = None
      BY <1>1, <1>3, <1>7, <2>2
    <3> QED BY <1>1, <1>2, <2>2, <3>1 DEF Ordered
  <2> QED BY <2>1, <2>2
<1>8. ASSUME NEW b \in Actors, tx'[b] # None, tx'[b].phase = "slots", tx'[b].slots # {}
      PROVE  \/ tx'[b].late
             \/ \E e \in Observations : evidenceOwner'[e] = b
             \/ /\ tx'[b].after = {}
                /\ \A s \in Slots : slotOwner'[s] = b => \A r \in tx'[b].slots : s < r
  <2>1. CASE b = a
    BY <1>1, <1>2, <1>3, <1>4, <1>5, <2>1 DEF Ordered
  <2>2. CASE b # a
    <3>1. tx'[b] = tx[b] /\ \A s \in Slots : slotOwner'[s] = b => slotOwner[s] = b
      BY <1>1, <1>2, <1>3, <2>2
    <3> QED BY <1>1, <1>8, <3>1 DEF Ordered
  <2> QED BY <2>1, <2>2
<1> QED BY <1>7, <1>8 DEF Ordered

LEMMA OrderedLockEvidence ==
  ASSUME IInv, Typed, Ordered, NEW a \in Actors, LockEvidence(a)
  PROVE  Ordered'
<1> DEFINE E == Selected(a)
           slots == TracedSlots(E)
           t == [tx[a] EXCEPT !.phase = "slots", !.ev = E, !.slots = slots]
<1>1. /\ tx[a] # None /\ HeldBy(a, E) = {} /\ slotOwner' = slotOwner
      /\ evidenceOwner' = [e \in Observations |-> IF e \in E THEN a ELSE evidenceOwner[e]]
      /\ DOMAIN tx = Actors /\ tx[a] \in Transactions
  BY DEF LockEvidence, IInv, LocksSound, Typed
<1>2. tx' = [tx EXCEPT ![a] = t]
  BY DEF LockEvidence, IInv, LocksSound
<1>3. E \in SUBSET Observations /\ E \subseteq evidence
  BY SelectedTyped
<1>4. E = {} => slots = {}
  BY DEF TracedSlots, TracedMemories, TracedCandidates
<1> HIDE DEF E, slots
<1>5. t.slots = slots
  BY <1>1 DEF Transactions
<1> HIDE DEF t
<1>6. ASSUME NEW e \in Observations, NEW b \in Actors \ {a}, evidenceOwner[e] = b
      PROVE  evidenceOwner'[e] = b
  <2>1. b # None
    BY ActorsAssumption DEF Actors
  <2>2. e \notin E
    BY <1>1, <1>3, <1>6, <2>1 DEF HeldBy
  <2> QED BY <1>1, <1>6, <2>2
<1>7. ASSUME NEW b \in Actors, NEW s \in Slots, tx'[b] = None PROVE slotOwner'[s] # b
  <2>1. CASE b = a
    <3>1. \E u \in Transactions : tx' = [tx EXCEPT ![a] = u]
      BY LockEvidenceTyped
    <3>2. tx'[a] # None
      BY <1>1, <3>1, NullsAssumption
    <3> QED BY <1>7, <2>1, <3>2
  <2>2. CASE b # a
    BY <1>1, <1>2, <1>7, <2>2 DEF Ordered
  <2> QED BY <2>1, <2>2
<1>8. ASSUME NEW b \in Actors, tx'[b] # None, tx'[b].phase = "slots", tx'[b].slots # {}
      PROVE  \/ tx'[b].late
             \/ \E e \in Observations : evidenceOwner'[e] = b
             \/ /\ tx'[b].after = {}
                /\ \A s \in Slots : slotOwner'[s] = b => \A r \in tx'[b].slots : s < r
  <2>1. CASE b = a
    <3>1. E # {}
      BY <1>1, <1>2, <1>4, <1>5, <1>8, <2>1
    <3> QED BY <1>1, <1>3, <2>1, <3>1
  <2>2. CASE b # a
    BY <1>1, <1>2, <1>6, <1>8, <2>2 DEF Ordered
  <2> QED BY <2>1, <2>2
<1> QED BY <1>7, <1>8 DEF Ordered

LEMMA OrderedNext == ASSUME IInv, Typed, Ordered, [Next]_vars PROVE Ordered'
<1>1. CASE UNCHANGED vars
  BY <1>1 DEF vars, locks, Ordered
<1> QED BY <1>1, Steps, OrderedOpen, OrderedDecide, OrderedLockSlot, OrderedLockEvidence,
           OrderedClose DEF Ends

\* Among finitely many numbers that each have a greater one there is none.
LEMMA NoGreatest ==
  ASSUME NEW S, IsFiniteSet(S), NEW f, \A a \in S : f[a] \in Nat,
         \A a \in S : \E b \in S : f[a] < f[b]
  PROVE  S = {}
<1> SUFFICES ASSUME S # {} PROVE FALSE
  OBVIOUS
<1> DEFINE Above(k) == {a \in S : f[a] >= k}
           counts == {n \in Nat : \E k \in Nat : Above(k) # {} /\ n = Cardinality(Above(k))}
<1>1. \A k : IsFiniteSet(Above(k)) /\ Cardinality(Above(k)) \in Nat
  BY FS_Subset, FS_CardinalityType
<1>2. Above(0) # {}
  OBVIOUS
<1>3. counts # {} /\ counts \in SUBSET Nat
  BY <1>1, <1>2
<1>4. Min(counts) \in counts /\ \A n \in counts : Min(counts) <= n
  BY <1>3, LeastNat
<1>5. PICK k \in Nat : Above(k) # {} /\ Min(counts) = Cardinality(Above(k))
  BY <1>4
<1>6. PICK a \in S : f[a] >= k
  BY <1>5
<1> DEFINE j == f[a] + 1
<1>7. j \in Nat /\ j > k /\ Above(j) # {} /\ Above(j) \subseteq Above(k) \ {a} /\ a \in Above(k)
  BY <1>6
<1> HIDE DEF Above, j
<1>8. /\ IsFiniteSet(Above(k) \ {a})
      /\ Cardinality(Above(k) \ {a})
            = IF a \in Above(k) THEN Cardinality(Above(k)) - 1 ELSE Cardinality(Above(k))
  BY <1>1, FS_RemoveElement
<1>9. Cardinality(Above(j)) <= Cardinality(Above(k) \ {a})
  BY <1>7, <1>8, FS_Subset
<1>10. Cardinality(Above(j)) \in counts
  BY <1>1, <1>7
<1> QED BY <1>1, <1>4, <1>5, <1>7, <1>8, <1>9, <1>10

LEMMA OrderedSuffices ==
  ASSUME IInv, Typed, Ordered
  PROVE  DeadlockNeedsDisorder
<1> SUFFICES ASSUME NEW S \in SUBSET Actors, Deadlocked(S),
                    \A a \in S : (\A e \in Observations : evidenceOwner[e] # a) /\ ~tx[a].late
             PROVE  FALSE
  BY DEF DeadlockNeedsDisorder
<1>1. S # {} /\ \A a \in S : tx[a] # None /\ WaitsFor(a) \cap S # {}
  BY DEF Deadlocked, WaitsFor
<1>2. ASSUME NEW a \in S, NEW E PROVE HeldBy(a, E) \cap S = {}
  <2>1. evidence \in SUBSET Observations
    BY DEF Typed
  <2> QED BY <2>1 DEF HeldBy
<1>3. ASSUME NEW a \in S PROVE tx[a].phase # "apply"
  <2>1. tx[a].phase = "apply" => WaitsFor(a) = IF tx[a].op = "confirm"
                                               THEN HeldBy(a, candidates[tx[a].id].ev) ELSE {}
    BY <1>1 DEF WaitsFor
  <2> QED BY <1>1, <1>2, <2>1
<1>4. ASSUME NEW a \in S, NEW M PROVE RowHeldBy(a, M) \cap S = {}
  BY <1>3 DEF RowHeldBy, IInv, TxSound, TxShape
<1>5. ASSUME NEW a \in S, NEW C PROVE CandidateHeldBy(a, C) \cap S = {}
  BY <1>3 DEF CandidateHeldBy, At
<1>6. ASSUME NEW a \in S
      PROVE  /\ tx[a].phase = "slots" /\ tx[a].slots # {}
             /\ WaitsFor(a) = {slotOwner[NextSlot(a)]} \ {None}
  <2>1. tx[a].phase \in {"evidence", "slots"}
    BY <1>1, <1>3 DEF IInv, TxSound, TxShape
  <2>2. CASE tx[a].phase = "evidence"
    <3>1. WaitsFor(a) = HeldBy(a, Selected(a))
      BY <1>1, <2>2 DEF WaitsFor
    <3> QED BY <1>1, <1>2, <3>1
  <2>3. CASE tx[a].phase = "slots" /\ tx[a].slots = {}
    <3>1. WaitsFor(a) = CASE tx[a].op \in Deletions ->
                               RowHeldBy(a, TouchedRows(a))
                                  \cup CandidateHeldBy(a, TouchedCandidates(a))
                          [] tx[a].op \in {"revise", "invalidate"} -> RowHeldBy(a, {tx[a].id})
                          [] OTHER -> {}
      BY <1>1, <2>3 DEF WaitsFor
    <3>2. tx[a].op \in Deletions => tx[a].op \notin {"revise", "invalidate"}
      BY DEF Deletions
    <3>3. \/ WaitsFor(a) = RowHeldBy(a, TouchedRows(a))
                              \cup CandidateHeldBy(a, TouchedCandidates(a))
          \/ WaitsFor(a) = RowHeldBy(a, {tx[a].id})
          \/ WaitsFor(a) = {}
      BY <3>1, <3>2
    <3> QED BY <1>1, <1>4, <1>5, <3>3
  <2>4. CASE tx[a].phase = "slots" /\ tx[a].slots # {}
    BY <1>1, <2>4 DEF WaitsFor
  <2> QED BY <2>1, <2>2, <2>3, <2>4
<1> DEFINE f == [a \in S |-> NextSlot(a)]
<1>7. ASSUME NEW a \in S
      PROVE  /\ NextSlot(a) \in tx[a].slots /\ NextSlot(a) \in Nat
             /\ slotOwner[NextSlot(a)] \in S /\ NextSlot(a) \in Slots
  <2>1. tx[a].slots \in SUBSET Slots
    BY <1>1 DEF IInv, TxSound, TxShape
  <2>2. tx[a].slots \in SUBSET Nat /\ tx[a].slots # {}
    BY <1>6, <2>1, SlotsAssumption
  <2>3. NextSlot(a) \in tx[a].slots
    BY <2>2, LeastNat DEF NextSlot
  <2> QED BY <1>1, <1>6, <2>1, <2>2, <2>3
<1>8. ASSUME NEW a \in S PROVE \E b \in S : f[a] < f[b]
  <2> DEFINE b == slotOwner[NextSlot(a)]
  <2>1. b \in S /\ NextSlot(a) \in Slots
    BY <1>7
  <2>2. \A s \in Slots : slotOwner[s] = b => \A r \in tx[b].slots : s < r
    BY <1>1, <1>6, <2>1 DEF Ordered
  <2>3. NextSlot(a) < NextSlot(b)
    BY <1>7, <2>1, <2>2
  <2> QED BY <2>1, <2>3
<1>9. IsFiniteSet(S)
  <2>1. IsFiniteSet(OpenTx)
    BY DEF IInv, Counted
  <2>2. S \subseteq OpenTx
    BY <1>1 DEF OpenTx
  <2> QED BY <2>1, <2>2, FS_Subset
<1>10. \A a \in S : f[a] \in Nat
  BY <1>7
<1> HIDE DEF f
<1>11. S = {}
  BY <1>8, <1>9, <1>10, NoGreatest
<1> QED BY <1>1, <1>11

-----------------------------------------------------------------------------
(* What follows.                                                            *)

LEMMA TypedInit == Init => Typed /\ Ordered
<1> SUFFICES ASSUME Init PROVE Typed /\ Ordered
  OBVIOUS
<1>1. Typed
  BY DEF Init, Typed
<1>2. \A a \in Actors : a # None
  BY ActorsAssumption DEF Actors
<1>3. Ordered
  BY <1>2 DEF Init, Ordered
<1> QED BY <1>1, <1>3

LEMMA Invariance == Spec => [](IInv /\ Typed /\ Ordered)
<1>1. Init => IInv /\ Typed /\ Ordered
  BY InvInit, TypedInit
<1>2. IInv /\ Typed /\ Ordered /\ [Next]_vars => (IInv /\ Typed /\ Ordered)'
  BY InvNext, TypedNext, OrderedNext
<1> QED BY <1>1, <1>2, PTL DEF Spec

LEMMA InvImplies == IInv /\ Typed => TypeOK /\ EverythingHasASource /\ OneMemoryPerSlot
<1> SUFFICES ASSUME IInv, Typed PROVE TypeOK /\ EverythingHasASource /\ OneMemoryPerSlot
  OBVIOUS
<1>1. \A m \in Live(memories) : SupportOf(memories[m]) = EvidenceOf(m)
  BY DEF SupportOf, EvidenceOf
<1>2. ASSUME NEW m \in Live(memories)
      PROVE  /\ memories[m] \in MemoryRows
             /\ memories[m].active \in DOMAIN memories[m].revisions
             /\ memories[m].revisions[memories[m].active].fact = memories[m].fact
             /\ EvidenceOf(m) \subseteq evidence /\ EvidenceOf(m) # {}
  BY <1>1 DEF IInv, TablesSound, MemoriesSound, Shape
<1>3. ASSUME NEW c \in Live(candidates)
      PROVE  /\ candidates[c] \in CandidateRows
             /\ candidates[c].ev \subseteq evidence /\ candidates[c].ev # {}
             /\ candidates[c].conflict # None =>
                   /\ candidates[c].conflict[1] \in Live(memories)
                   /\ candidates[c].conflict[2] \in
                         DOMAIN memories[candidates[c].conflict[1]].revisions
  BY DEF IInv, TablesSound, CandidatesSound, ConflictShown
<1>4. TypeOK
  BY <1>2, <1>3 DEF TypeOK, IInv, LocksSound, Typed
<1>5. EverythingHasASource
  BY <1>2, <1>3 DEF EverythingHasASource
<1>6. OneMemoryPerSlot
  BY DEF IInv, TablesSound, OnePerSlot, OneMemoryPerSlot, Active
<1> QED BY <1>4, <1>5, <1>6

\* TypeOK: the rows refer only to rows that exist, and a memory's fields are those of its
\* active revision, through every revision, repair and deletion.
THEOREM TypeCorrect == Spec => []TypeOK
BY Invariance, InvImplies, PTL

\* EverythingHasASource: no order of confirmations, corrections and deletions leaves a memory
\* or a candidate without evidence (delete_source_evidence).
THEOREM NothingWithoutSource == Spec => []EverythingHasASource
BY Invariance, InvImplies, PTL

\* OneMemoryPerSlot: the reconciler and the confirmations never give a slot a second memory
\* (lock_slots, find_active_memory, find_conflicting_memory).
THEOREM SlotsAreNotShared == Spec => []OneMemoryPerSlot
BY Invariance, InvImplies, PTL

\* DeadlockNeedsDisorder: however many transactions wait for one another, one of them holds
\* evidence while it asks for slots, or asks for a slot out of order (revise, lock_slots).
THEOREM DeadlocksNeedDisorder == Spec => []DeadlockNeedsDisorder
<1>1. IInv /\ Typed /\ Ordered => DeadlockNeedsDisorder
  BY OrderedSuffices
<1> QED BY <1>1, Invariance, PTL

\* The status of a candidate changes only by a rejection or a confirmation of a pending one.
LEMMA StatusSteps ==
  ASSUME IInv, [Next]_vars, NEW c \in Live(candidates), candidates'[c] # Gone,
         candidates'[c].status # candidates[c].status
  PROVE  /\ candidates[c].status = "pending"
         /\ \/ candidates'[c].status = "rejected"
            \/ \E a \in Actors : ConfirmApply(a) /\ c = tx[a].id
<1>1. candidates' # candidates
  OBVIOUS
<1>2. ASSUME NEW a \in Actors, NEW M, NEW F, Commit(a, M, candidates, F) PROVE FALSE
  BY <1>1, <1>2 DEF Commit, Rollback, rows
<1>3. ASSUME NEW a \in Actors, Rollback(a) PROVE FALSE
  BY <1>1, <1>3 DEF Rollback, rows
<1>4. ASSUME NEW a \in Actors, ReconcileApply(a) PROVE FALSE
  <2>1. tx[a].plan \in {"attach", "promote", "hold"} /\ tx[a] # None
    BY <1>4, OwnsSlot DEF ReconcileApply, At, Decided
  <2> DEFINE i == FreeId(candidates)
  <2>2. \A status : [candidates EXCEPT ![i] = CandidateOf(tx[a], status)][c] = candidates[c]
    <3>1. candidates[i] = None /\ candidates[c] # None
      BY <2>1, FreeNumbers DEF Live
    <3> HIDE DEF i
    <3> QED BY <3>1
  <2>3. candidates'[c] = candidates[c]
    BY <1>3, <1>4, <2>1, <2>2 DEF ReconcileApply, Commit
  <2> QED BY <2>3
<1>5. ASSUME NEW a \in Actors, ConfirmApply(a)
      PROVE  c = tx[a].id /\ candidates[c].status = "pending"
  <2>1. /\ tx[a] # None /\ tx[a].op = "confirm" /\ tx[a].phase = "apply"
        /\ candidates' = [candidates EXCEPT ![tx[a].id].status = "promoted"]
    BY <1>3, <1>5 DEF ConfirmApply, At, Commit
  <2>2. candidates[tx[a].id].status = "pending"
    BY <2>1, OwnsSlot DEF Decided
  <2>3. c = tx[a].id
    BY <2>1
  <2> QED BY <2>2, <2>3
<1>6. ASSUME NEW a \in Actors, Reject(a)
      PROVE  candidates[c].status = "pending" /\ candidates'[c].status = "rejected"
  <2>1. /\ Decidable(tx[a].id)
        /\ candidates' = [candidates EXCEPT ![tx[a].id].status = "rejected"]
    BY <1>3, <1>6 DEF Reject, Commit
  <2>2. c = tx[a].id
    BY <2>1
  <2>3. candidates[c] \in CandidateRows
    BY DEF IInv, TablesSound, CandidatesSound
  <2> QED BY <2>1, <2>2, <2>3 DEF Decidable, CandidateRows
<1>7. ASSUME NEW a \in Actors, DeleteEvidence(a) PROVE FALSE
  <2>1. candidates' = CandidatesLeft(a)
    BY <1>3, <1>7 DEF DeleteEvidence, Commit
  <2>2. c \in Ids /\ candidates[c] # None
    BY MemoryIds DEF Live
  <2>3. c \in Live(CandidatesLeft(a))
    BY <2>1, <2>2, LeftCandidates DEF Live, CandidatesSound
  <2> QED BY <2>1, <2>3, LeftCandidates
<1>8. CASE WorkerNext
  BY <1>1, <1>4, <1>8 DEF WorkerNext, BeginReconcile, ReconcileDecide, rows, Actors
<1>9. ASSUME NEW a \in Users, UserNext(a)
      PROVE  ConfirmApply(a) \/ Reject(a)
  <2>1. a \in Actors
    BY DEF Actors
  <2>2. ~BeginPurge(a) /\ ~Revise(a) /\ ~Invalidate(a)
    BY <1>1, <1>2, <1>3, <2>1 DEF BeginPurge, Revise, Invalidate, rows
  <2>3. ~ConfirmDecide(a)
    BY <1>1, <1>3, <2>1 DEF ConfirmDecide, rows
  <2>4. /\ ~ \E d \in Ids, op \in {"confirm", "reject"} : BeginCandidate(a, op, d)
        /\ ~ \E m \in Ids, fact \in Facts, normalized \in BOOLEAN :
                BeginRevise(a, m, fact, normalized)
        /\ ~ \E m \in Ids : BeginInvalidate(a, m) \/ BeginHardDelete(a, m)
    BY <1>1 DEF BeginCandidate, BeginRevise, BeginInvalidate, BeginHardDelete, rows
  <2> QED BY <1>9, <2>2, <2>3, <2>4 DEF UserNext
<1>10. ASSUME NEW a \in Actors, LockEvidence(a) \/ LockSlot(a) \/ DeadlockVictim(a) PROVE FALSE
  BY <1>1, <1>3, <1>10 DEF LockEvidence, LockSlot, DeadlockVictim, rows
<1>11. ASSUME NEW a \in Actors, NEW e \in Observations, BeginDelete(a, e) PROVE FALSE
  BY <1>1, <1>11 DEF BeginDelete, rows
<1>12. ~ UNCHANGED vars
  BY <1>1 DEF vars, rows
<1>13. ~WorkerNext
  BY <1>1, <1>4 DEF WorkerNext, BeginReconcile, ReconcileDecide, rows, Actors
<1>14. PICK a \in Users : UserNext(a)
  BY <1>7, <1>10, <1>11, <1>12, <1>13 DEF Next
<1> QED BY <1>5, <1>6, <1>9, <1>14 DEF Actors

\* DecidedOnce: a promoted or rejected candidate stays so until it is deleted, whatever other
\* requests decide about it at the same time (load_candidate_for_update under the slot lock).
THEOREM DecidedOnlyOnce == Spec => DecidedOnce
<1>1. IInv /\ [Next]_vars =>
        [\A c \in Live(candidates) :
            candidates[c].status # "pending" =>
                candidates'[c] = Gone \/ candidates'[c].status = candidates[c].status]_vars
  BY StatusSteps
<1> QED BY <1>1, Invariance, PTL DEF Spec, DecidedOnce

\* What a confirmation replaces is what the candidate was recorded beside.
LEMMA ConfirmReplaces ==
  ASSUME IInv, NEW a \in Actors, ConfirmApply(a), NEW m \in Live(memories),
         memories'[m].fact # memories[m].fact
  PROVE  memories[m].fact = candidates[tx[a].id].reviewed
<1> DEFINE t == tx[a]
           cand == candidates[t.id]
<1>1. tx[a] # None /\ t.op = "confirm" /\ t.phase = "apply"
  BY DEF ConfirmApply, At
<1>2. Decided(t, memories, candidates) /\ TxShape(t)
  BY <1>1, OwnsSlot
<1>3. t.plan \in {"attach", "promote"} /\ FactOf(t, candidates) = cand.fact
      /\ t.id \in Live(candidates)
  BY <1>1, <1>2 DEF Decided, FactOf
<1>4. ~Rollback(a)
  BY DEF Rollback, rows
<1>5. cand.ev \in SUBSET Observations
  BY <1>3 DEF IInv, TablesSound, CandidatesSound, CandidateRows
<1>6. CASE t.plan = "attach"
  <2>1. memories' = [memories EXCEPT ![t.target] = Reinforced(memories[t.target], cand.ev)]
    BY <1>4, <1>6 DEF ConfirmApply, Commit
  <2>2. t.target \in Live(memories)
    BY <1>1, <1>2, <1>6 DEF Decided
  <2>3. Reinforced(memories[t.target], cand.ev).fact = memories[t.target].fact
    <3> DEFINE E == cand.ev
    <3>1. E \in SUBSET Observations /\ Shape(memories[t.target])
      BY <1>5, <2>2, MemoryIds
    <3> HIDE DEF E
    <3>2. Reinforced(memories[t.target], E).fact = memories[t.target].fact
      BY <3>1, ReinforcedShape
    <3> QED BY <3>2 DEF E
  <2>4. m \in DOMAIN memories
    BY DEF Live
  <2> QED BY <2>1, <2>3, <2>4
<1>7. CASE t.plan = "promote"
  <2>1. memories' = Written(t.target, cand.fact, cand.ev)
    BY <1>4, <1>7 DEF ConfirmApply, Commit
  <2>2. CASE t.target = None
    <3>1. memories' = [memories EXCEPT ![FreeId(memories)] = Created(cand.fact, cand.ev)]
      BY <2>1, <2>2 DEF Written
    <3>2. memories[FreeId(memories)] = None /\ memories[m] # None
      BY <1>1, FreeNumbers DEF Live
    <3>3. memories'[m] = memories[m]
      BY <3>1, <3>2
    <3> QED BY <3>3
  <2>3. CASE t.target # None
    <3>1. memories' = [memories EXCEPT ![t.target] =
                          Revised(memories[t.target], cand.fact, cand.ev)]
      BY <2>1, <2>3 DEF Written
    <3>2. m = t.target
      BY <3>1
    <3>3. cand.conflict = <<m, memories[m].active>>
      BY <1>1, <1>2, <1>7, <2>3, <3>2 DEF Decided
    <3>4. ConflictShown(cand, memories)
      BY <1>3 DEF IInv, TablesSound, CandidatesSound
    <3>5. cand.conflict # None
      <4>1. m \in Ids /\ memories[m].active \in Ids
        BY MemoryIds, MemoryFields
      <4> QED BY <3>3, <4>1, NullsAssumption
    <3>6. memories[m].revisions[memories[m].active].fact = cand.reviewed
      BY <3>3, <3>4, <3>5 DEF ConflictShown
    <3>7. memories[m].revisions[memories[m].active].fact = memories[m].fact
      BY MemoryIds, MemoryFields
    <3> QED BY <3>6, <3>7
  <2> QED BY <2>2, <2>3
<1> QED BY <1>3, <1>6, <1>7

\* ConfirmReplacesReviewed: a confirmation overwrites only the fact that was shown beside the
\* candidate (the check of conflicting_revision_id in confirm_candidate).
THEOREM OnlyTheReviewedIsReplaced == Spec => ConfirmReplacesReviewed
<1>1. ASSUME IInv, [Next]_vars, NEW c \in Live(candidates), NEW m \in Live(memories),
             candidates'[c] # Gone, candidates[c].status = "pending",
             candidates'[c].status = "promoted", memories'[m].fact # memories[m].fact
      PROVE  memories[m].fact = candidates[c].reviewed
  <2>1. PICK a \in Actors : ConfirmApply(a) /\ c = tx[a].id
    BY <1>1, StatusSteps
  <2> QED BY <1>1, <2>1, ConfirmReplaces
<1>2. IInv /\ [Next]_vars =>
        [\A c \in Live(candidates), m \in Live(memories) :
          (/\ candidates'[c] # Gone
           /\ candidates[c].status = "pending" /\ candidates'[c].status = "promoted"
           /\ memories'[m] # Gone /\ memories'[m].fact # memories[m].fact)
              => memories[m].fact = candidates[c].reviewed]_vars
  BY <1>1
<1> QED BY <1>2, Invariance, PTL DEF Spec, ConfirmReplacesReviewed
=============================================================================

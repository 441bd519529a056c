----------------------------- MODULE AgentRunProofs -----------------------------
(***************************************************************************)
(* What the turns of a session promise, for any number of runs and workers, *)
(* of submissions, crashes, stalls, aborts and recoveries.                  *)
(*                                                                          *)
(* A run's record has many copies: the rows of the two stores, what tasks   *)
(* hold and are about to save, and what the recovery task and the abort     *)
(* request have read.  Any of them may be the next to be written, so the    *)
(* invariants speak of all of them (CopiesWithin).                          *)
(*                                                                          *)
(* Sound: the stores, the tasks and the queue have their types, a queued    *)
(* run has a record in Redis, and a record in Redis a row.                  *)
(* LostCounted: every task that executes without the lease (Lost) has       *)
(* stalled for longer than a lease, and that stall is counted.              *)
(* ChatSound: a run is answered only once it is asked, and a task about to  *)
(* write a message the run has is one of those that stalls let execute.     *)
(* AttemptsSound: a queued run that no holder of the lease executes has had *)
(* an attempt less than the faults allow, which is what a task that claims  *)
(* its turn needs: an attempt that ends without a fault takes the run out   *)
(* of the queue (HolderStops), and only a run without a record in Redis,    *)
(* which nobody has tried yet, is queued again (Enters).                    *)
(* CompletedSound: a copy is completed only for a run that is answered.     *)
(***************************************************************************)
EXTENDS AgentRun, FiniteSetTheorems, SequenceTheorems, WellFoundedInduction, TLAPS

-----------------------------------------------------------------------------
(* The queue.                                                               *)

\* Less(x, y): the order of the numbers as a relation, for WFMin.
Less == {ss \in Nat \X Nat : ss[1] < ss[2]}

\* Every set of numbers has a least one.
LEMMA LeastNat ==
  ASSUME NEW S \in SUBSET Nat, S # {}
  PROVE  Min(S) \in S
<1>1. IsWellFoundedOn(Less, Nat)
  BY NatLessThanWellFounded DEF OpToRel, Less
<1>2. PICK x \in S : \A y \in S : ~ (<<y, x>> \in Less)
  BY <1>1, WFMin
<1>3. ASSUME NEW y \in S PROVE x <= y
  <2>1. x \in Nat /\ y \in Nat /\ <<y, x>> \notin Less
    BY <1>2
  <2>2. ~(y < x)
    BY <2>1 DEF Less
  <2> QED BY <2>1, <2>2
<1> QED BY <1>3 DEF Min

Queued(q, r) == \E i \in DOMAIN q : q[i] = r

\* A part of the queue is a queue.
LEMMA SubSeqSound ==
  ASSUME NEW q \in Seq(Runs), NEW m \in Nat, NEW n \in Nat, 1 <= m, m <= n + 1, n <= Len(q),
         NEW l, l = n - m + 1
  PROVE  /\ SubSeq(q, m, n) \in Seq(Runs) /\ Len(SubSeq(q, m, n)) = l
         /\ \A i \in 1..l : SubSeq(q, m, n)[i] = q[m + i - 1]
<1>1. \A i \in m..n : q[i] \in Runs
  BY LenProperties, ElementOfSeq
<1>2. m \in Int /\ n \in Int
  OBVIOUS
<1>3. /\ SubSeq(q, m, n) \in Seq(Runs)
      /\ Len(SubSeq(q, m, n)) = IF m <= n THEN n - m + 1 ELSE 0
      /\ \A i \in 1..(n - m + 1) : SubSeq(q, m, n)[i] = q[m + i - 1]
  BY <1>1, <1>2, SubSeqProperties
<1>4. Len(SubSeq(q, m, n)) = l
  BY <1>3
<1> QED BY <1>3, <1>4

\* LREM takes the run out of a queue that holds it once, and nothing else.
LEMMA RemoveFirstSound ==
  ASSUME NEW q \in Seq(Runs), IsInjective(q), NEW r
  PROVE  /\ RemoveFirst(q, r) \in Seq(Runs) /\ IsInjective(RemoveFirst(q, r))
         /\ \A s : Queued(RemoveFirst(q, r), s) => Queued(q, s) /\ s # r
<1>1. Len(q) \in Nat /\ DOMAIN q = 1..Len(q) /\ \A i \in 1..Len(q) : q[i] \in Runs
  BY LenProperties, ElementOfSeq
<1>2. CASE ~ \E i \in 1..Len(q) : q[i] = r
  BY <1>1, <1>2 DEF RemoveFirst, Queued
<1>3. CASE \E i \in 1..Len(q) : q[i] = r
  <2> DEFINE I == {i \in 1..Len(q) : q[i] = r}
             k == Min(I)
             front == SubSeq(q, 1, k - 1)
             back == SubSeq(q, k + 1, Len(q))
             rest == front \o back
  <2>1. RemoveFirst(q, r) = rest
    BY <1>3 DEF RemoveFirst, RemoveAt, SelectInSeq
  <2>2. k \in 1..Len(q) /\ q[k] = r
    <3>1. I \in SUBSET Nat /\ I # {}
      BY <1>1, <1>3
    <3> HIDE DEF I
    <3>2. k \in I
      BY <3>1, LeastNat
    <3> QED BY <3>2 DEF I
  <2> HIDE DEF k
  <2>3. /\ front \in Seq(Runs) /\ Len(front) = k - 1
        /\ \A i \in 1..(k - 1) : front[i] = q[i]
    <3>1. /\ 1 \in Nat /\ k - 1 \in Nat /\ 1 <= (k - 1) + 1 /\ k - 1 <= Len(q)
          /\ k - 1 = (k - 1) - 1 + 1
      BY <1>1, <2>2
    <3> DEFINE n == k - 1
    <3> HIDE DEF n
    <3>2. /\ SubSeq(q, 1, n) \in Seq(Runs) /\ Len(SubSeq(q, 1, n)) = n
          /\ \A i \in 1..n : SubSeq(q, 1, n)[i] = q[1 + i - 1]
      BY <3>1, SubSeqSound DEF n
    <3>3. \A i \in 1..n : 1 + i - 1 = i
      OBVIOUS
    <3> QED BY <3>2, <3>3 DEF n
  <2>4. /\ back \in Seq(Runs) /\ Len(back) = Len(q) - k
        /\ \A i \in 1..(Len(q) - k) : back[i] = q[k + i]
    <3> DEFINE m == k + 1
               l == Len(q) - k
    <3>1. /\ m \in Nat /\ Len(q) \in Nat /\ 1 <= m /\ m <= Len(q) + 1
          /\ Len(q) <= Len(q) /\ l = Len(q) - m + 1
      BY <1>1, <2>2
    <3> DEFINE n == Len(q)
    <3> HIDE DEF m, l, n
    <3>2. /\ SubSeq(q, m, n) \in Seq(Runs) /\ Len(SubSeq(q, m, n)) = l
          /\ \A i \in 1..l : SubSeq(q, m, n)[i] = q[m + i - 1]
      BY <3>1, SubSeqSound DEF n
    <3>3. \A i \in 1..l : m + i - 1 = k + i
      BY <2>2 DEF m
    <3> QED BY <3>2, <3>3 DEF m, l, n
  <2> HIDE DEF front, back
  <2>5. /\ rest \in Seq(Runs) /\ DOMAIN rest = 1..(Len(q) - 1)
        /\ \A i \in 1..(Len(q) - 1) : rest[i] = IF i < k THEN q[i] ELSE q[i + 1]
    <3>1. /\ rest \in Seq(Runs) /\ Len(rest) = (k - 1) + (Len(q) - k)
          /\ \A i \in 1..((k - 1) + (Len(q) - k)) :
                rest[i] = IF i <= k - 1 THEN front[i] ELSE back[i - (k - 1)]
      <4>1. front \in Seq(Runs) /\ back \in Seq(Runs)
        BY <2>3, <2>4
      <4>2. /\ rest \in Seq(Runs) /\ Len(rest) = Len(front) + Len(back)
            /\ \A i \in 1..(Len(front) + Len(back)) :
                  rest[i] = IF i <= Len(front) THEN front[i] ELSE back[i - Len(front)]
        BY <4>1, ConcatProperties
      <4> QED BY <2>3, <2>4, <4>2
    <3>2. (k - 1) + (Len(q) - k) = Len(q) - 1
      BY <1>1, <2>2
    <3> HIDE DEF rest
    <3>3. DOMAIN rest = 1..(Len(q) - 1)
      BY <3>1, <3>2, LenProperties
    <3>4. ASSUME NEW i \in 1..(Len(q) - 1) PROVE rest[i] = IF i < k THEN q[i] ELSE q[i + 1]
      <4>1. rest[i] = IF i <= k - 1 THEN front[i] ELSE back[i - (k - 1)]
        BY <3>1, <3>2, <3>4
      <4>2. CASE i < k
        BY <1>1, <2>2, <2>3, <4>1, <4>2
      <4>3. CASE ~(i < k)
        <5>1. i - (k - 1) \in 1..(Len(q) - k) /\ k + (i - (k - 1)) = i + 1
          BY <1>1, <2>2, <4>3
        <5>2. back[i - (k - 1)] = q[i + 1]
          BY <2>4, <5>1
        <5>3. ~(i <= k - 1)
          BY <1>1, <2>2, <4>3
        <5> QED BY <4>1, <4>3, <5>2, <5>3
      <4> QED BY <4>2, <4>3
    <3> QED BY <3>1, <3>3, <3>4
  <2> HIDE DEF rest
  <2> DEFINE place(i) == IF i < k THEN i ELSE i + 1
  <2>6. \A i \in 1..(Len(q) - 1) :
           place(i) \in 1..Len(q) /\ place(i) # k /\ rest[i] = q[place(i)]
    BY <1>1, <2>2, <2>5
  <2>7. \A i, j \in 1..(Len(q) - 1) : place(i) = place(j) => i = j
    BY <1>1, <2>2
  <2> HIDE DEF place
  <2>8. IsInjective(rest)
    BY <1>1, <2>5, <2>6, <2>7 DEF IsInjective
  <2>9. ASSUME NEW s, Queued(rest, s) PROVE Queued(q, s) /\ s # r
    BY <1>1, <2>2, <2>5, <2>6, <2>9 DEF IsInjective, Queued
  <2> QED BY <2>1, <2>5, <2>8, <2>9
<1> QED BY <1>2, <1>3

\* RPUSH puts the run behind the others.
LEMMA AppendSound ==
  ASSUME NEW q \in Seq(Runs), IsInjective(q), NEW r \in Runs, ~Queued(q, r)
  PROVE  /\ Append(q, r) \in Seq(Runs) /\ IsInjective(Append(q, r))
         /\ \A s : Queued(Append(q, r), s) => Queued(q, s) \/ s = r
BY AppendProperties, LenProperties DEF IsInjective, Queued

-----------------------------------------------------------------------------
(* Types.                                                                   *)

Marking == {"mark", "markSave", "markRow", "revoke", "revokeSave", "revokeRow"}

Steps == {"idle", "recover", "wait", "claimed", "begin", "read", "ask", "answer", "latest", "save",
          "final"} \cup Marking \cup Terminal

Requests == [step : {"transition", "save", "get", "row"}, run : Runs, record : Record]

StoresSound ==
    /\ row \in [Runs -> Record \cup {None}]
    /\ cache \in [Runs -> Record \cup {None}]
    /\ \A r \in Runs : cache[r] # None => row[r] # None
    /\ lease \in Workers \cup {None, Dead}
    /\ aborts \in SUBSET Runs
    /\ broker \in [Runs -> Nat]
    /\ submit \in [Runs -> {"idle", "commit", "send"}]
    /\ \A r \in Runs : row[r] = None => broker[r] = 0 /\ submit[r] = "idle"
    /\ api # None => /\ api \in Requests /\ row[api.run] # None
                     /\ api.step = "get" => cache[api.run] # None

\* A task at step p that executes run r, with the records h and b and those of t to publish.
TaskSound(p, r, h, b, t) ==
    /\ p \in Steps /\ r \in Runs \cup {None}
    /\ h \in Record \cup {None} /\ b \in Record \cup {None}
    /\ p \in {"idle", "recover"} => r = None /\ h = None
    /\ p \notin {"idle", "recover"} => r \in Runs /\ cache[r] # None /\ h # None
    /\ b # None => p \in {"read", "ask", "answer"} \cup Terminal
    /\ (t # {}) = (p = "recover")
    /\ t \in SUBSET [run : Runs, record : Record]
    /\ \A published \in t : row[published.run] # None

TasksSound ==
    /\ pc = [w \in Workers |-> pc[w]] /\ run = [w \in Workers |-> run[w]]
    /\ held = [w \in Workers |-> held[w]] /\ beat = [w \in Workers |-> beat[w]]
    /\ todo = [w \in Workers |-> todo[w]]
    /\ \A w \in Workers : TaskSound(pc[w], run[w], held[w], beat[w], todo[w])

\* Records never disappear from the stores.
Kept == \A r \in Runs : /\ cache[r] # None => cache'[r] # None
                        /\ row[r] # None => row'[r] # None

QueueSound ==
    /\ queue \in Seq(Runs) /\ IsInjective(queue)
    /\ \A r : Queued(queue, r) => cache[r] # None

Sound == StoresSound /\ TasksSound /\ QueueSound

\* A record stays one whatever status it is given.
LEMMA Records ==
  /\ Fresh \in Record
  /\ \A rec \in Record : /\ rec.status \in Statuses
                         /\ rec.attempts \in Nat /\ rec.started \in BOOLEAN
                         /\ \A s \in Statuses : [rec EXCEPT !.status = s] \in Record
                         /\ \A b \in BOOLEAN : [rec EXCEPT !.started = b] \in Record
                         /\ \A s \in Statuses, b \in BOOLEAN :
                               [rec EXCEPT !.status = s, !.started = b] \in Record
BY DEF Fresh, Record, Statuses

\* None is no record, no run and no worker.
LEMMA Nobody == None \notin Record /\ None \notin Runs /\ None \notin Workers /\ Dead \notin Workers
BY NullsAssumption

\* What enqueueing and taking from the queue do.
LEMMA Enqueued ==
  ASSUME StoresSound, QueueSound, NEW r \in Runs, row[r] # None, NEW rec \in Record,
         CreateOrGetAndEnqueue(r, rec)
  PROVE  /\ queue' \in Seq(Runs) /\ IsInjective(queue')
         /\ \A s : Queued(queue', s) => cache'[s] # None
         /\ cache' \in [Runs -> Record \cup {None}] /\ cache'[r] # None
         /\ \A s \in Runs : cache[s] # None => cache'[s] # None
         /\ \A s \in Runs \ {r} : cache'[s] = cache[s]
         /\ cache[r] # None => cache'[r] = cache[r]
<1>1. CASE cache[r] = None
  <2>1. cache' = [cache EXCEPT ![r] = rec] /\ queue' = Append(queue, r)
    BY <1>1 DEF CreateOrGetAndEnqueue
  <2>2. ~Queued(queue, r) /\ queue \in Seq(Runs) /\ IsInjective(queue)
    BY <1>1 DEF QueueSound
  <2>3. /\ queue' \in Seq(Runs) /\ IsInjective(queue')
        /\ \A s : Queued(queue', s) => Queued(queue, s) \/ s = r
    BY <2>1, <2>2, AppendSound
  <2>4. \A s : Queued(queue, s) => s \in Runs
    BY <2>2, LenProperties, ElementOfSeq DEF Queued
  <2> QED BY <1>1, <2>1, <2>3, <2>4, Nobody DEF StoresSound, QueueSound
<1>2. CASE cache[r] # None
  BY <1>2 DEF CreateOrGetAndEnqueue, StoresSound, QueueSound
<1> QED BY <1>1, <1>2

\* Taking a run from the queue keeps the queue sound.
LEMMA Dequeued ==
  ASSUME QueueSound, NEW r, queue' = RemoveFirst(queue, r),
         \A s \in Runs : cache[s] # None => cache'[s] # None
  PROVE  QueueSound' /\ ~Queued(queue', r)
<1>1. /\ queue' \in Seq(Runs) /\ IsInjective(queue')
      /\ \A s : Queued(queue', s) => Queued(queue, s) /\ s # r
  BY RemoveFirstSound DEF QueueSound
<1>2. \A s : Queued(queue, s) => s \in Runs
  BY LenProperties, ElementOfSeq DEF Queued, QueueSound
<1> QED BY <1>1, <1>2 DEF QueueSound

\* So does leaving the queue alone.
LEMMA QueueStays ==
  ASSUME QueueSound, UNCHANGED queue, \A s \in Runs : cache[s] # None => cache'[s] # None
  PROVE  QueueSound'
<1>1. \A s : Queued(queue, s) => s \in Runs
  BY LenProperties, ElementOfSeq DEF Queued, QueueSound
<1> QED BY <1>1 DEF QueueSound

\* A task stays sound while the stores keep their records.
LEMMA TaskKept ==
  ASSUME Kept, NEW p, NEW r, NEW h, NEW b, NEW t, TaskSound(p, r, h, b, t)
  PROVE  TaskSound(p, r, h, b, t)'
<1>1. \A published \in t : published.run \in Runs
  BY DEF TaskSound
<1> QED BY <1>1 DEF TaskSound, Kept

\* A step that leaves the tasks alone.
LEMMA TasksStay ==
  ASSUME TasksSound, Kept, UNCHANGED <<pc, run, held, beat, todo>>
  PROVE  TasksSound'
<1>1. \A w \in Workers : TaskSound(pc[w], run[w], held[w], beat[w], todo[w])'
  BY TaskKept DEF TasksSound
<1> QED BY <1>1 DEF TasksSound

\* A step of w's task changes nothing of the other tasks.
LEMMA TaskStep ==
  ASSUME TasksSound, Kept, NEW w \in Workers, NEW p, NEW r, NEW h, NEW b, NEW t,
         pc' = [pc EXCEPT ![w] = p], run' = [run EXCEPT ![w] = r],
         held' = [held EXCEPT ![w] = h], beat' = [beat EXCEPT ![w] = b],
         todo' = [todo EXCEPT ![w] = t], TaskSound(p, r, h, b, t)'
  PROVE  TasksSound'
<1>1. /\ pc' = [v \in Workers |-> pc'[v]] /\ run' = [v \in Workers |-> run'[v]]
      /\ held' = [v \in Workers |-> held'[v]] /\ beat' = [v \in Workers |-> beat'[v]]
      /\ todo' = [v \in Workers |-> todo'[v]]
  BY DEF TasksSound
<1>2. ASSUME NEW v \in Workers
      PROVE  TaskSound(pc[v], run[v], held[v], beat[v], todo[v])'
  <2>1. CASE v = w
    BY <2>1 DEF TasksSound
  <2>2. CASE v # w
    <3>1. TaskSound(pc[v], run[v], held[v], beat[v], todo[v])
      BY DEF TasksSound
    <3>2. /\ pc'[v] = pc[v] /\ run'[v] = run[v] /\ held'[v] = held[v] /\ beat'[v] = beat[v]
          /\ todo'[v] = todo[v]
      BY <2>2 DEF TasksSound
    <3> QED BY <3>1, <3>2, TaskKept
  <2> QED BY <2>1, <2>2
<1> QED BY <1>1, <1>2 DEF TasksSound

\* The next step of a task that goes on with the records h and b.
LEMMA StepSound ==
  ASSUME TasksSound, Kept, NEW w \in Workers, NEW p \in Steps \ {"idle", "recover"},
         pc[w] \notin {"idle", "recover"}, Step(w, p),
         NEW h \in Record, NEW b \in Record \cup {None},
         held' = [held EXCEPT ![w] = h], beat' = [beat EXCEPT ![w] = b], UNCHANGED <<run, todo>>,
         b # None => p \in {"read", "ask", "answer"} \cup Terminal
  PROVE  TasksSound'
<1>1. TaskSound(pc[w], run[w], held[w], beat[w], todo[w])
  BY DEF TasksSound
<1>2. /\ run' = [run EXCEPT ![w] = run[w]] /\ todo' = [todo EXCEPT ![w] = todo[w]]
      /\ pc' = [pc EXCEPT ![w] = p]
  BY DEF TasksSound, Step
<1>3. TaskSound(p, run[w], h, b, todo[w])
  BY <1>1, Nobody DEF TaskSound
<1> DEFINE r == run[w]
           t == todo[w]
<1>4. TaskSound(p, r, h, b, t)'
  BY <1>3, TaskKept
<1> QED BY <1>2, <1>4, TaskStep

\* A task that returns.
LEMMA ReturnSound ==
  ASSUME TasksSound, Kept, NEW w \in Workers, Return(w), todo' = [todo EXCEPT ![w] = {}]
  PROVE  TasksSound'
<1>1. TaskSound("idle", None, None, None, {})'
  BY DEF TaskSound, Steps
<1> QED BY <1>1, TaskStep DEF Return, Step

\* What a task at work has.
LEMMA AtWork ==
  ASSUME Sound, NEW w \in Workers, pc[w] \notin {"idle", "recover"}
  PROVE  /\ run[w] \in Runs /\ cache[run[w]] \in Record /\ row[run[w]] \in Record
         /\ held[w] \in Record /\ beat[w] \in Record \cup {None} /\ todo[w] = {}
         /\ cache[run[w]] # None /\ row[run[w]] # None
         /\ held = [held EXCEPT ![w] = held[w]] /\ beat = [beat EXCEPT ![w] = beat[w]]
         /\ todo = [todo EXCEPT ![w] = {}]
<1>1. TaskSound(pc[w], run[w], held[w], beat[w], todo[w])
  BY DEF Sound, TasksSound
<1>2. /\ held = [held EXCEPT ![w] = held[w]] /\ beat = [beat EXCEPT ![w] = beat[w]]
      /\ todo = [todo EXCEPT ![w] = todo[w]]
  BY DEF Sound, TasksSound
<1> QED BY <1>1, <1>2, Nobody DEF TaskSound, Sound, StoresSound

\* A step that writes neither rows, records nor requests.
LEMMA StoresStay ==
  ASSUME StoresSound, UNCHANGED <<row, cache, broker, submit, api>>,
         lease' \in Workers \cup {None, Dead}, aborts' \in SUBSET Runs
  PROVE  StoresSound' /\ Kept
BY DEF StoresSound, Kept

\* One that saves records.
LEMMA StoresWritten ==
  ASSUME StoresSound, UNCHANGED <<broker, submit, api>>,
         lease' \in Workers \cup {None, Dead}, aborts' \in SUBSET Runs,
         NEW r \in Runs, row[r] # None, NEW rec \in Record,
         row' \in {row, [row EXCEPT ![r] = rec]}, cache' \in {cache, [cache EXCEPT ![r] = rec]}
  PROVE  StoresSound' /\ Kept
BY Nobody DEF StoresSound, Kept, Requests

\* Sound is inductive: the submitting request ...
LEMMA SubmitSound ==
  ASSUME Sound, NEW r \in Runs,
         SubmitRow(r) \/ SubmitEnqueue(r) \/ SubmitSend(r) \/ SubmitFails(r)
  PROVE  Sound' /\ Kept
<1> USE DEF storeVars, taskVars, workerVars
<1>1. CASE SubmitRow(r)
  <2>1. StoresSound' /\ Kept
    BY <1>1, Records, Nobody DEF Sound, StoresSound, SubmitRow, Kept, Requests
  <2>2. UNCHANGED <<pc, run, held, beat, todo, queue>>
    BY <1>1 DEF SubmitRow
  <2> QED BY <2>1, <2>2, TasksStay, QueueStays DEF Sound, Kept
<1>2. CASE SubmitEnqueue(r)
  <2>1. row[r] \in Record /\ row[r] # None
    BY <1>2, Nobody DEF Sound, StoresSound, SubmitEnqueue
  <2>2. CreateOrGetAndEnqueue(r, row[r])
    BY <1>2 DEF SubmitEnqueue
  <2>3. /\ queue' \in Seq(Runs) /\ IsInjective(queue')
        /\ \A s : Queued(queue', s) => cache'[s] # None
        /\ cache' \in [Runs -> Record \cup {None}]
        /\ cache'[r] # None
        /\ \A s \in Runs : cache[s] # None => cache'[s] # None
        /\ \A s \in Runs \ {r} : cache'[s] = cache[s]
    BY <2>1, <2>2, Enqueued DEF Sound
  <2>4. StoresSound' /\ Kept
    BY <1>2, <2>1, <2>3 DEF Sound, StoresSound, SubmitEnqueue, Kept, Requests
  <2>5. UNCHANGED <<pc, run, held, beat, todo>>
    BY <1>2 DEF SubmitEnqueue
  <2> QED BY <2>3, <2>4, <2>5, TasksStay DEF Sound, QueueSound
<1>3. CASE SubmitSend(r)
  <2>1. StoresSound' /\ Kept
    BY <1>3 DEF Sound, StoresSound, SubmitSend, Kept, Requests
  <2>2. UNCHANGED <<pc, run, held, beat, todo, queue>>
    BY <1>3 DEF SubmitSend
  <2> QED BY <2>1, <2>2, TasksStay, QueueStays DEF Sound, Kept
<1>4. CASE SubmitFails(r)
  <2>1. StoresSound' /\ Kept
    BY <1>4 DEF Sound, StoresSound, SubmitFails, Kept, Requests
  <2>2. UNCHANGED <<pc, run, held, beat, todo, queue>>
    BY <1>4 DEF SubmitFails
  <2> QED BY <2>1, <2>2, TasksStay, QueueStays DEF Sound, Kept
<1> QED BY <1>1, <1>2, <1>3, <1>4

\* ... the task that is taken ...
LEMMA TakeSound ==
  ASSUME Sound, NEW w \in Workers, NEW r \in Runs, Take(w, r)
  PROVE  Sound' /\ Kept
<1> USE DEF countVars, chatVars
<1> DEFINE rec == IF cache[r] # None THEN cache[r] ELSE row[r]
           p == IF rec.status = "aborting" THEN "mark" ELSE "wait"
<1>1. /\ row[r] \in Record /\ row[r] # None /\ pc[w] = "idle"
      /\ broker' = [broker EXCEPT ![r] = @ - 1] /\ broker[r] \in Nat \ {0}
      /\ rec \in Record
  BY Nobody DEF Sound, StoresSound, Take
<1>2. UNCHANGED <<beat, todo, submit, api, row, lease, aborts>>
  BY DEF Take
<1>3. CASE rec.status \in Terminal
  <2>1. UNCHANGED <<cache, queue, pc, run, held>>
    BY <1>3 DEF Take
  <2>2. StoresSound' /\ Kept
    BY <1>1, <1>2, <2>1 DEF Sound, StoresSound, Kept, Requests
  <2> QED BY <1>2, <2>1, <2>2, TasksStay, QueueStays DEF Sound, Kept
<1>4. CASE rec.status \notin Terminal
  <2>1. /\ CreateOrGetAndEnqueue(r, row[r]) /\ pc' = [pc EXCEPT ![w] = p]
        /\ run' = [run EXCEPT ![w] = r] /\ held' = [held EXCEPT ![w] = rec]
    BY <1>4 DEF Take, Step
  <2>2. /\ queue' \in Seq(Runs) /\ IsInjective(queue')
        /\ \A s : Queued(queue', s) => cache'[s] # None
        /\ cache' \in [Runs -> Record \cup {None}]
        /\ cache'[r] # None
        /\ \A s \in Runs : cache[s] # None => cache'[s] # None
        /\ \A s \in Runs \ {r} : cache'[s] = cache[s]
    BY <1>1, <2>1, Enqueued DEF Sound
  <2>3. StoresSound' /\ Kept
    <3>1. broker' \in [Runs -> Nat] /\ \A s \in Runs : row[s] = None => broker'[s] = 0
      BY <1>1 DEF Sound, StoresSound
    <3>2. Kept
      BY <1>2, <2>2 DEF Kept
    <3>3. \A s \in Runs : cache'[s] # None => row'[s] # None
      BY <1>1, <1>2, <2>2 DEF Sound, StoresSound
    <3> HIDE DEF rec
    <3> QED BY <1>2, <2>2, <3>1, <3>2, <3>3 DEF Sound, StoresSound, Requests, Kept
  <2>4. p \in {"mark", "wait"}
    OBVIOUS
  <2> PICK h, q : h = rec /\ q = p
    OBVIOUS
  <2> HIDE DEF rec, p
  <2>5. TaskSound(pc[w], run[w], held[w], beat[w], todo[w])
    BY DEF Sound, TasksSound
  <2>6. TaskSound(q, r, h, None, {})'
    BY <1>1, <2>2, <2>4, Nobody DEF TaskSound, Steps, Marking, Terminal
  <2>7. beat' = [beat EXCEPT ![w] = None] /\ todo' = [todo EXCEPT ![w] = {}]
    BY <1>1, <1>2, <2>5 DEF Sound, TasksSound, TaskSound, Terminal
  <2>8. TasksSound'
    BY <2>1, <2>3, <2>6, <2>7, TaskStep DEF Sound
  <2> QED BY <2>2, <2>3, <2>8 DEF Sound, QueueSound
<1> QED BY <1>3, <1>4

\* ... its wait for the turn ...
LEMMA WaitSound ==
  ASSUME Sound, NEW w \in Workers, Wait(w)
  PROVE  Sound' /\ Kept
<1> USE DEF otherVars, taskVars
<1>1. pc[w] = "wait" /\ UNCHANGED <<row, cache, broker, submit, api, todo, aborts>>
  BY DEF Wait
<1>2. /\ held[w] \in Record /\ beat[w] = None /\ todo = [todo EXCEPT ![w] = {}]
      /\ held = [held EXCEPT ![w] = held[w]] /\ beat = [beat EXCEPT ![w] = None]
  BY <1>1, AtWork DEF Sound, TasksSound, TaskSound, Terminal
<1>3. lease' \in Workers \cup {None, Dead}
  BY DEF Wait, Sound, StoresSound
<1>4. StoresSound' /\ Kept
  BY <1>1, <1>3, StoresStay DEF Sound, StoresSound
<1>5. QueueSound'
  BY <1>4, Dequeued, QueueStays DEF Wait, Sound, Kept
<1>6. CASE Return(w)
  BY <1>1, <1>2, <1>4, <1>5, <1>6, ReturnSound DEF Sound
<1>7. CASE (Step(w, "mark") \/ Step(w, "claimed")) /\ UNCHANGED taskVars
  <2> PICK h : h = held[w]
    OBVIOUS
  <2>1. \A p \in {"mark", "claimed"} : Step(w, p) => TasksSound'
    <3> SUFFICES ASSUME NEW p \in {"mark", "claimed"}, Step(w, p) PROVE TasksSound'
      OBVIOUS
    <3>1. p \in Steps \ {"idle", "recover"}
      BY DEF Steps, Marking
    <3>2. held' = [held EXCEPT ![w] = h] /\ beat' = [beat EXCEPT ![w] = None] /\ UNCHANGED run
      BY <1>2, <1>7
    <3> QED BY <1>1, <1>2, <1>4, <3>1, <3>2, StepSound DEF Sound
  <2> QED BY <1>4, <1>5, <1>7, <2>1 DEF Sound
<1> QED BY <1>6, <1>7 DEF Wait

\* A step of a task at work: what is left of TasksSound.
LEMMA WorkSound ==
  ASSUME Sound, Kept, NEW w \in Workers, pc[w] \notin {"idle", "recover"},
         NEW p \in Steps \ {"idle", "recover"}, Step(w, p), UNCHANGED <<run, todo>>,
         \/ UNCHANGED held
         \/ \E h \in Record : held' = [held EXCEPT ![w] = h],
         \/ UNCHANGED beat /\ (p \in {"read", "ask", "answer"} \cup Terminal \/ beat[w] = None)
         \/ beat' = [beat EXCEPT ![w] = None]
  PROVE  TasksSound'
<1>1. /\ held[w] \in Record /\ beat[w] \in Record \cup {None}
      /\ held = [held EXCEPT ![w] = held[w]] /\ beat = [beat EXCEPT ![w] = beat[w]]
  BY AtWork
<1>2. PICK h \in Record : held' = [held EXCEPT ![w] = h]
  BY <1>1
<1>3. PICK b \in Record \cup {None} :
         /\ beat' = [beat EXCEPT ![w] = b]
         /\ b # None => p \in {"read", "ask", "answer"} \cup Terminal
  BY <1>1
<1> QED BY <1>2, <1>3, StepSound DEF Sound

\* ... the marking of an aborted run ...
LEMMA MarkSound ==
  ASSUME Sound, NEW w \in Workers, MarkRead(w) \/ MarkSave(w) \/ MarkRow(w)
  PROVE  Sound' /\ Kept
<1> USE DEF otherVars, taskVars, storeVars
<1>1. pc[w] \in Marking
  BY DEF MarkRead, MarkSave, MarkRow, Marking
<1>2. /\ run[w] \in Runs /\ cache[run[w]] \in Record /\ held[w] \in Record /\ beat[w] = None
      /\ todo = [todo EXCEPT ![w] = {}] /\ row[run[w]] # None
  BY <1>1, AtWork DEF Sound, TasksSound, TaskSound, Terminal, Marking
<1>3. /\ Marking \subseteq Steps \ {"idle", "recover"}
      /\ {"markSave", "revokeSave", "markRow", "revokeRow"} \subseteq Marking
  BY DEF Steps, Marking
<1>4. lease \in Workers \cup {None, Dead} /\ aborts \in SUBSET Runs
  BY DEF Sound, StoresSound
<1>5. CASE MarkRead(w)
  <2>1. StoresSound' /\ Kept
    BY <1>4, <1>5, StoresStay DEF MarkRead, Sound
  <2>2. QueueSound'
    BY <1>5, <2>1, QueueStays DEF MarkRead, Sound, Kept
  <2>3. TasksSound'
    <3>1. PICK p \in Marking : Step(w, p) /\ pc[w] \notin {"idle", "recover"}
      BY <1>1, <1>3, <1>5 DEF MarkRead, Marking
    <3> QED BY <1>2, <1>3, <1>5, <2>1, <3>1, WorkSound DEF MarkRead
  <2> QED BY <2>1, <2>2, <2>3 DEF Sound
<1>6. CASE MarkSave(w)
  <2>1. StoresSound' /\ Kept
    BY <1>2, <1>4, <1>6, StoresWritten DEF MarkSave, Sound
  <2>2. QueueSound'
    BY <1>6, <2>1, QueueStays DEF MarkSave, Sound, Kept
  <2>3. TasksSound'
    <3>1. PICK p \in Marking : Step(w, p) /\ pc[w] \notin {"idle", "recover"}
      BY <1>1, <1>3, <1>6 DEF MarkSave, Marking
    <3> QED BY <1>2, <1>3, <1>6, <2>1, <3>1, WorkSound DEF MarkSave
  <2> QED BY <2>1, <2>2, <2>3 DEF Sound
<1>7. CASE MarkRow(w)
  <2>1. UNCHANGED <<cache, broker, submit, api, todo, aborts>> /\ Return(w)
    BY <1>7 DEF MarkRow
  <2>2. lease' \in Workers \cup {None, Dead} /\ row' = [row EXCEPT ![run[w]] = held[w]]
    BY <1>4, <1>7 DEF MarkRow, Release, SaveRow
  <2>3. StoresSound' /\ Kept
    BY <1>2, <1>4, <2>1, <2>2, StoresWritten DEF Sound
  <2>4. queue' \in {queue, RemoveFirst(queue, run[w])}
    BY <1>7 DEF MarkRow, Release
  <2>5. QueueSound'
    BY <2>3, <2>4, Dequeued, QueueStays DEF Sound, Kept
  <2>6. TasksSound'
    BY <1>2, <2>1, <2>3, ReturnSound DEF Sound
  <2> QED BY <2>3, <2>5, <2>6 DEF Sound
<1> QED BY <1>5, <1>6, <1>7

\* ... the beginning of an attempt ...
LEMMA BeginSound ==
  ASSUME Sound, NEW w \in Workers, Begin(w) \/ BeginRow(w)
  PROVE  Sound' /\ Kept
<1> USE DEF otherVars, taskVars, storeVars, chatVars
<1>1. pc[w] \in {"claimed", "begin"}
  BY DEF Begin, BeginRow
<1>2. /\ run[w] \in Runs /\ cache[run[w]] \in Record /\ held[w] \in Record /\ beat[w] = None
      /\ row[run[w]] # None
  BY <1>1, AtWork DEF Sound, TasksSound, TaskSound, Terminal
<1>3. {"revoke", "begin", "read"} \subseteq Steps \ {"idle", "recover"}
  BY DEF Steps, Marking
<1>4. lease \in Workers \cup {None, Dead} /\ aborts \in SUBSET Runs
  BY DEF Sound, StoresSound
<1>5. UNCHANGED <<broker, submit, api, lease, aborts, queue, run, todo, beat>>
  BY DEF Begin, BeginRow
<1>6. CASE Begin(w)
  <2> DEFINE begun == [status |-> "running", attempts |-> held[w].attempts + 1, started |-> TRUE]
  <2>1. begun \in Record
    BY <1>2 DEF Record, Statuses
  <2>2. /\ \/ Step(w, "revoke") /\ UNCHANGED <<cache, held>>
           \/ /\ Step(w, "begin") /\ cache' = [cache EXCEPT ![run[w]] = begun]
              /\ held' = [held EXCEPT ![w] = begun]
        /\ UNCHANGED row
    BY <1>6 DEF Begin
  <2> HIDE DEF begun
  <2>3. StoresSound' /\ Kept
    BY <1>2, <1>4, <1>5, <2>1, <2>2, StoresWritten DEF Sound
  <2>4. QueueSound'
    BY <1>5, <2>3, QueueStays DEF Sound, Kept
  <2>5. TasksSound'
    BY <1>1, <1>2, <1>3, <1>5, <2>1, <2>2, <2>3, WorkSound
  <2> QED BY <2>3, <2>4, <2>5 DEF Sound
<1>7. CASE BeginRow(w)
  <2>1. StoresSound' /\ Kept
    BY <1>2, <1>4, <1>7, StoresWritten DEF BeginRow, SaveRow, Sound
  <2>2. QueueSound'
    BY <1>5, <2>1, QueueStays DEF Sound, Kept
  <2>3. TasksSound'
    BY <1>1, <1>2, <1>3, <1>5, <1>7, <2>1, WorkSound DEF BeginRow
  <2> QED BY <2>1, <2>2, <2>3 DEF Sound
<1> QED BY <1>6, <1>7

\* ... the question and the answer ...
LEMMA TalkSound ==
  ASSUME Sound, NEW w \in Workers, ReadMessages(w) \/ Ask(w) \/ Answer(w) \/ Cancelled(w)
  PROVE  Sound' /\ Kept
<1> USE DEF otherVars, taskVars, storeVars, chatVars
<1>1. pc[w] \in {"read", "ask", "answer"} /\ UNCHANGED <<row, cache, queue, lease, aborts>>
  BY DEF ReadMessages, Ask, Answer, Cancelled
<1>2. UNCHANGED <<broker, submit, api, run, held, beat, todo>>
  BY DEF ReadMessages, Ask, Answer, Cancelled
<1>3. \E p \in {"ask", "answer"} \cup Terminal : Step(w, p)
  BY DEF ReadMessages, Ask, Answer, Cancelled, Terminal
<1>4. \A p \in {"ask", "answer"} \cup Terminal : p \in Steps \ {"idle", "recover"}
  BY DEF Steps, Terminal
<1>5. StoresSound' /\ Kept
  BY <1>1, <1>2, StoresStay DEF Sound, StoresSound
<1>6. QueueSound'
  BY <1>1, <1>5, QueueStays DEF Sound, Kept
<1>7. TasksSound'
  BY <1>1, <1>2, <1>3, <1>4, <1>5, WorkSound
<1> QED BY <1>5, <1>6, <1>7 DEF Sound

\* ... the end of the attempt ...
LEMMA FinishSound ==
  ASSUME Sound, NEW w \in Workers,
         Finish(w) \/ FinishRead(w) \/ FinishSave(w) \/ FinishRow(w)
  PROVE  Sound' /\ Kept
<1> USE DEF otherVars, taskVars, storeVars, chatVars
<1>1. pc[w] \in {"latest", "save", "final"} \cup Terminal
  BY DEF Finish, FinishRead, FinishSave, FinishRow
<1>2. /\ run[w] \in Runs /\ cache[run[w]] \in Record /\ held[w] \in Record /\ row[run[w]] # None
      /\ todo = [todo EXCEPT ![w] = {}] /\ (pc[w] \notin Terminal => beat[w] = None)
  BY <1>1, AtWork DEF Sound, TasksSound, TaskSound, Terminal
<1>3. /\ {"latest", "save", "final"} \subseteq Steps \ {"idle", "recover"}
      /\ Terminal \subseteq Statuses
      /\ Terminal \cap {"latest", "save", "final", "idle", "recover"} = {}
  BY DEF Steps, Statuses, Terminal
<1>4. lease \in Workers \cup {None, Dead} /\ aborts \in SUBSET Runs
  BY DEF Sound, StoresSound
<1>5. CASE Finish(w)
  <2> DEFINE h == [held[w] EXCEPT !.status = pc[w]]
  <2>1. h \in Record
    BY <1>2, <1>3, <1>5, Records DEF Finish
  <2>2. /\ held' = [held EXCEPT ![w] = h] /\ Step(w, "latest")
        /\ beat' = [beat EXCEPT ![w] = None] /\ pc[w] \in Terminal
        /\ UNCHANGED <<row, cache, aborts, run, broker, submit, todo, api>>
    BY <1>5 DEF Finish
  <2>3. lease' \in Workers \cup {None, Dead} /\ queue' \in {queue, RemoveFirst(queue, run[w])}
    BY <1>4, <1>5 DEF Finish, Release
  <2> HIDE DEF h
  <2>4. StoresSound' /\ Kept
    BY <1>4, <2>2, <2>3, StoresStay DEF Sound
  <2>5. QueueSound'
    BY <2>3, <2>4, Dequeued, QueueStays DEF Sound, Kept
  <2>6. TasksSound'
    BY <1>1, <1>3, <2>1, <2>2, <2>4, WorkSound
  <2> QED BY <2>4, <2>5, <2>6 DEF Sound
<1>6. CASE FinishRead(w)
  <2> DEFINE final == [cache[run[w]] EXCEPT !.status = held[w].status]
  <2>1. final \in Record
    BY <1>2, Records
  <2>2. /\ held' = [held EXCEPT ![w] = final]
        /\ Step(w, "save") /\ pc[w] = "latest"
        /\ UNCHANGED <<row, cache, queue, lease, aborts, run, beat, broker, submit, todo, api>>
    BY <1>6 DEF FinishRead
  <2> HIDE DEF final
  <2>3. StoresSound' /\ Kept
    BY <1>4, <2>2, StoresStay DEF Sound
  <2>4. QueueSound'
    BY <2>2, <2>3, QueueStays DEF Sound, Kept
  <2>5. TasksSound'
    BY <1>2, <1>3, <2>1, <2>2, <2>3, WorkSound
  <2> QED BY <2>3, <2>4, <2>5 DEF Sound
<1>7. CASE FinishSave(w)
  <2>1. /\ cache' = [cache EXCEPT ![run[w]] = held[w]] /\ Step(w, "final") /\ pc[w] = "save"
        /\ UNCHANGED <<row, queue, lease, aborts, run, held, beat, broker, submit, todo, api>>
    BY <1>7 DEF FinishSave
  <2>2. StoresSound' /\ Kept
    BY <1>2, <1>4, <2>1, StoresWritten DEF Sound
  <2>3. QueueSound'
    BY <2>1, <2>2, QueueStays DEF Sound, Kept
  <2>4. TasksSound'
    BY <1>2, <1>3, <2>1, <2>2, WorkSound
  <2> QED BY <2>2, <2>3, <2>4 DEF Sound
<1>8. CASE FinishRow(w)
  <2>1. /\ row' = [row EXCEPT ![run[w]] = held[w]] /\ Return(w)
        /\ UNCHANGED <<cache, queue, lease, aborts, broker, submit, todo, api>>
    BY <1>8 DEF FinishRow, SaveRow
  <2>2. StoresSound' /\ Kept
    BY <1>2, <1>4, <2>1, StoresWritten DEF Sound
  <2>3. QueueSound'
    BY <2>1, <2>2, QueueStays DEF Sound, Kept
  <2>4. TasksSound'
    BY <1>2, <2>1, <2>2, ReturnSound DEF Sound
  <2> QED BY <2>2, <2>3, <2>4 DEF Sound
<1> QED BY <1>5, <1>6, <1>7, <1>8

\* ... the heartbeats ...
LEMMA BeatSound ==
  ASSUME Sound, NEW w \in Workers, BeatRead(w) \/ BeatSave(w)
  PROVE  Sound' /\ Kept
<1> USE DEF otherVars, storeVars, chatVars
<1>1. TaskSound(pc[w], run[w], held[w], beat[w], todo[w])
  BY DEF Sound, TasksSound
<1>2. pc[w] \in {"read", "ask", "answer"} \cup Terminal
  BY <1>1 DEF BeatRead, BeatSave, TaskSound
<1>3. pc[w] \in Steps \ {"idle", "recover"} /\ Step(w, pc[w]) <=> pc' = pc
  BY <1>1, <1>2 DEF Sound, TasksSound, TaskSound, Terminal, Step
<1>4. UNCHANGED <<broker, submit, api, lease, aborts, queue, pc, run, held, todo>>
  BY DEF BeatRead, BeatSave
<1>5. /\ run[w] \in Runs /\ cache[run[w]] \in Record /\ row[run[w]] # None
      /\ held[w] \in Record /\ held = [held EXCEPT ![w] = held[w]]
  BY <1>1, <1>2, AtWork DEF Terminal
<1>6. lease \in Workers \cup {None, Dead} /\ aborts \in SUBSET Runs
  BY DEF Sound, StoresSound
<1> DEFINE b == IF beat[w] = None THEN cache[run[w]] ELSE None
<1>7. b \in Record \cup {None} /\ beat' = [beat EXCEPT ![w] = b]
  BY <1>5 DEF BeatRead, BeatSave
<1> HIDE DEF b
<1>8. /\ row' = row \/ (row' = [row EXCEPT ![run[w]] = beat[w]] /\ beat[w] # None)
      /\ cache' = cache \/ (cache' = [cache EXCEPT ![run[w]] = beat[w]] /\ beat[w] # None)
  BY DEF BeatRead, BeatSave, SaveRow
<1>9. StoresSound' /\ Kept
  <2>1. PICK rec \in Record :
           /\ row' \in {row, [row EXCEPT ![run[w]] = rec]}
           /\ cache' \in {cache, [cache EXCEPT ![run[w]] = rec]}
    <3>1. CASE beat[w] = None
      BY <1>5, <1>8, <3>1
    <3>2. CASE beat[w] # None
      BY <1>1, <1>8, <3>2 DEF TaskSound
    <3> QED BY <3>1, <3>2
  <2> QED BY <1>4, <1>5, <1>6, <2>1, StoresWritten DEF Sound
<1>10. QueueSound'
  BY <1>4, <1>9, QueueStays DEF Sound, Kept
<1>11. TasksSound'
  <2> PICK h, c, p : h = held[w] /\ c = b /\ p = pc[w]
    OBVIOUS
  <2>1. pc' = [pc EXCEPT ![w] = p] /\ p \in Steps \ {"idle", "recover"}
    BY <1>3, <1>4 DEF Step
  <2> QED BY <1>2, <1>4, <1>5, <1>7, <1>9, <2>1, StepSound DEF Sound, Terminal, Step
<1> QED BY <1>9, <1>10, <1>11 DEF Sound

\* ... the recovery task: a stale row keeps its attempts and is never completed ...
LEMMA RecoveredSound ==
  ASSUME Sound, NEW r \in Runs, row[r] # None
  PROVE  Recovered(r) \in Record /\ Recovered(r).attempts = row[r].attempts
         /\ (Recovered(r).status # "completed" \/ row[r].status = "completed")
BY Nobody DEF Recovered, Sound, StoresSound, Record, Statuses, Terminal

\* ... whether it settles the rows ...
LEMMA RecoverRowsSound ==
  ASSUME Sound, NEW w \in Workers, RecoverRows(w)
  PROVE  Sound' /\ Kept
<1> USE DEF otherVars, taskVars, chatVars
<1>1. PICK stale \in SUBSET {r \in Runs : MayBeStale(r)} :
         /\ stale # {} /\ pc[w] = "idle" /\ pc' = [pc EXCEPT ![w] = "recover"]
         /\ row' = [r \in Runs |-> IF r \in stale THEN Recovered(r) ELSE row[r]]
         /\ todo' = [todo EXCEPT ![w] = {[run |-> r, record |-> Recovered(r)] : r \in stale}]
  BY DEF RecoverRows, Step
<1>2. UNCHANGED <<cache, queue, lease, aborts, broker, submit, run, held, beat, api>>
  BY DEF RecoverRows
<1>3. \A r \in stale : r \in Runs /\ row[r] # None /\ Recovered(r) \in Record /\ Recovered(r) # None
  BY RecoveredSound, Nobody DEF MayBeStale
<1>4. Kept
  BY <1>1, <1>2, <1>3 DEF Kept
<1>5. StoresSound'
  BY <1>1, <1>2, <1>3 DEF Sound, StoresSound, Requests
<1>6. QueueSound'
  BY <1>2, <1>4, QueueStays DEF Sound, Kept
<1>7. TaskSound(pc[w], run[w], held[w], beat[w], todo[w])
  BY DEF Sound, TasksSound
<1> PICK t : t = {[run |-> r, record |-> Recovered(r)] : r \in stale}
  OBVIOUS
<1>a. t # {}
  BY <1>1
<1>b. ASSUME NEW p \in t PROVE p \in [run : Runs, record : Record] /\ row'[p.run] # None
  <2>1. PICK r \in stale : p = [run |-> r, record |-> Recovered(r)]
    OBVIOUS
  <2>2. r \in Runs /\ Recovered(r) \in Record /\ row'[r] # None
    BY <1>1, <1>3
  <2> HIDE DEF Recovered
  <2> QED BY <2>1, <2>2
<1>8. t # {} /\ t \in SUBSET [run : Runs, record : Record] /\ \A p \in t : row'[p.run] # None
  BY <1>a, <1>b
<1>9. TaskSound("recover", None, None, None, t)'
  BY <1>8 DEF TaskSound, Steps
<1>10. /\ run' = [run EXCEPT ![w] = None] /\ held' = [held EXCEPT ![w] = None]
       /\ beat' = [beat EXCEPT ![w] = None]
  BY <1>1, <1>2, <1>7 DEF Sound, TasksSound, TaskSound, Terminal
<1>11. TasksSound'
  BY <1>1, <1>4, <1>9, <1>10, TaskStep DEF Sound
<1> QED BY <1>4, <1>5, <1>6, <1>11 DEF Sound

\* ... or makes Redis follow ...
LEMMA RecoverPublishSound ==
  ASSUME Sound, NEW w \in Workers, RecoverPublish(w)
  PROVE  Sound' /\ Kept
<1> USE DEF taskVars, chatVars, countVars
<1>1. TaskSound(pc[w], run[w], held[w], beat[w], todo[w])
  BY DEF Sound, TasksSound
<1>2. PICK published \in todo[w] :
        LET r == published.run
            rec == published.record
            kept == IF rec.status \in Terminal THEN cache[r].started ELSE FALSE
        IN  /\ pc[w] = "recover"
            /\ IF cache[r] # None
               THEN /\ cache' = [cache EXCEPT ![r] = [rec EXCEPT !.started = kept]]
                    /\ queue' = IF rec.status \in Terminal THEN RemoveFirst(queue, r) ELSE queue
               ELSE /\ IF rec.status \in Terminal
                       THEN UNCHANGED cache /\ queue' = RemoveFirst(queue, r)
                       ELSE CreateOrGetAndEnqueue(r, rec)
            /\ broker' = IF rec.status \in Terminal THEN broker
                         ELSE [broker EXCEPT ![r] = @ + 1]
            /\ todo' = [todo EXCEPT ![w] = @ \ {published}]
            /\ IF todo[w] = {published} THEN Return(w) ELSE UNCHANGED <<pc, taskVars>>
            /\ UNCHANGED <<chatVars, countVars, row, lease, aborts, submit, api>>
  BY DEF RecoverPublish
<1> DEFINE r == published.run
           rec == published.record
           kept == IF rec.status \in Terminal THEN cache[r].started ELSE FALSE
           saved == [rec EXCEPT !.started = kept]
<1>3. r \in Runs /\ rec \in Record /\ row[r] # None /\ run[w] = None
  BY <1>1, <1>2 DEF TaskSound
<1>4. /\ UNCHANGED <<row, lease, aborts, submit, api>>
      /\ broker' \in {broker, [broker EXCEPT ![r] = @ + 1]}
  BY <1>2
<1>5. saved \in Record \/ cache[r] = None
  <2>1. cache[r] # None => kept \in BOOLEAN
    BY <1>3, Records DEF Sound, StoresSound
  <2> QED BY <1>3, <2>1, Records
<1> HIDE DEF saved
<1>6. \/ /\ cache' = [cache EXCEPT ![r] = saved] /\ cache[r] # None
         /\ queue' \in {queue, RemoveFirst(queue, r)}
      \/ UNCHANGED cache /\ queue' \in {queue, RemoveFirst(queue, r)}
      \/ CreateOrGetAndEnqueue(r, rec)
  BY <1>2 DEF saved
<1>7. broker' \in [Runs -> Nat] /\ \A s \in Runs : row[s] = None => broker'[s] = 0
  BY <1>3, <1>4 DEF Sound, StoresSound
<1>8. ASSUME CreateOrGetAndEnqueue(r, rec) PROVE StoresSound' /\ QueueSound' /\ Kept
  <2>1. /\ queue' \in Seq(Runs) /\ IsInjective(queue')
        /\ \A s : Queued(queue', s) => cache'[s] # None
        /\ cache' \in [Runs -> Record \cup {None}]
        /\ cache'[r] # None
        /\ \A s \in Runs : cache[s] # None => cache'[s] # None
        /\ \A s \in Runs \ {r} : cache'[s] = cache[s]
    BY <1>3, <1>8, Enqueued DEF Sound
  <2> HIDE DEF r, rec
  <2>2. Kept
    BY <1>4, <2>1 DEF Kept
  <2>3. \A s \in Runs : cache'[s] # None => row'[s] # None
    BY <1>3, <1>4, <2>1 DEF Sound, StoresSound
  <2>4. StoresSound'
    BY <1>4, <1>7, <2>1, <2>3 DEF Sound, StoresSound, Requests
  <2>5. QueueSound'
    BY <2>1 DEF QueueSound
  <2> QED BY <2>2, <2>4, <2>5
<1>9. ASSUME ~CreateOrGetAndEnqueue(r, rec) PROVE StoresSound' /\ QueueSound' /\ Kept
  <2> HIDE DEF r, rec
  <2>1. Kept
    BY <1>3, <1>4, <1>5, <1>6, <1>9, Nobody DEF Kept, Sound, StoresSound
  <2>2. /\ cache' \in [Runs -> Record \cup {None}]
        /\ \A s \in Runs : cache'[s] # None => row'[s] # None
    BY <1>3, <1>4, <1>5, <1>6, <1>9 DEF Sound, StoresSound
  <2>3. StoresSound'
    BY <1>4, <1>7, <2>1, <2>2 DEF Sound, StoresSound, Requests, Kept
  <2>4. QueueSound'
    <3>1. QueueSound /\ \A s \in Runs : cache[s] # None => cache'[s] # None
      BY <2>1 DEF Sound, Kept
    <3>2. CASE UNCHANGED queue
      BY <3>1, <3>2, QueueStays
    <3>3. CASE queue' = RemoveFirst(queue, r)
      BY <3>1, <3>3, Dequeued
    <3> QED BY <1>6, <1>9, <3>2, <3>3
  <2> QED BY <2>1, <2>3, <2>4
<1>10. StoresSound' /\ QueueSound' /\ Kept
  BY <1>8, <1>9
<1>11. TasksSound'
  <2>1. CASE todo[w] = {published}
    <3>1. Return(w) /\ todo' = [todo EXCEPT ![w] = {}]
      BY <1>2, <2>1
    <3> QED BY <1>10, <3>1, ReturnSound DEF Sound
  <2>2. CASE todo[w] # {published}
    <3> PICK t : t = todo[w] \ {published}
      OBVIOUS
    <3>1. TaskSound("recover", None, None, None, t)'
      <4>1. t # {} /\ t \in SUBSET [run : Runs, record : Record] /\ \A p \in t : row[p.run] # None
        BY <1>1, <2>2 DEF TaskSound
      <4> QED BY <1>4, <4>1 DEF TaskSound, Steps
    <3>2. /\ UNCHANGED <<pc, run, held, beat>> /\ pc[w] = "recover"
          /\ todo' = [todo EXCEPT ![w] = t]
      BY <1>2, <2>2
    <3>3. run[w] = None /\ held[w] = None /\ beat[w] = None
      BY <1>1, <3>2 DEF TaskSound, Terminal
    <3>4. /\ pc' = [pc EXCEPT ![w] = "recover"] /\ run' = [run EXCEPT ![w] = None]
          /\ held' = [held EXCEPT ![w] = None] /\ beat' = [beat EXCEPT ![w] = None]
      BY <3>2, <3>3 DEF Sound, TasksSound
    <3>5. TasksSound
      BY DEF Sound
    <3>6. todo' = [todo EXCEPT ![w] = t]
      BY <3>2
    <3> QED BY <1>10, <3>1, <3>4, <3>5, <3>6, TaskStep
  <2> QED BY <2>1, <2>2
<1> QED BY <1>10, <1>11 DEF Sound

\* ... the abort request ...
LEMMA AbortSound ==
  ASSUME Sound, (\E r \in Runs : AbortRead(r)) \/ Abort
  PROVE  Sound' /\ Kept
<1> USE DEF storeVars, workerVars, taskVars
<1>1. UNCHANGED <<pc, run, held, beat, todo, lease, broker, submit>>
  BY DEF AbortRead, Abort, AbortTransition, AbortSave, AbortGet, AbortRow
<1>2. ASSUME NEW r \in Runs, AbortRead(r) PROVE StoresSound' /\ Kept /\ queue' = queue
  BY <1>2, Nobody DEF AbortRead, Sound, StoresSound, Kept, Requests
<1>3. ASSUME AbortTransition PROVE StoresSound' /\ Kept /\ queue' = queue
  <2> DEFINE r == api.run
             intent == IF cache[r] = None THEN [api.record EXCEPT !.status = "aborting"]
                       ELSE IF cache[r].status \in Terminal THEN cache[r]
                       ELSE [cache[r] EXCEPT !.status = "aborting"]
  <2>1. api \in Requests /\ r \in Runs /\ row[r] # None /\ api.record \in Record
    BY <1>3 DEF AbortTransition, Sound, StoresSound, Requests
  <2>2. intent \in Record /\ intent # None
    <3>1. cache[r] \in Record \cup {None} /\ "aborting" \in Statuses
      BY <2>1 DEF Sound, StoresSound, Statuses
    <3>2. \A rec \in Record : [rec EXCEPT !.status = "aborting"] \in Record
      BY <3>1, Records
    <3> HIDE DEF r
    <3>3. intent \in Record
      BY <2>1, <3>1, <3>2
    <3> HIDE DEF intent
    <3> QED BY <3>3, Nobody
  <2>3. /\ cache' \in {cache, [cache EXCEPT ![r] = intent]} /\ aborts' \in {aborts, aborts \cup {r}}
        /\ \E s \in {"save", "row"} : api' = [api EXCEPT !.step = s, !.record = intent]
        /\ UNCHANGED <<row, queue>>
    BY <1>3 DEF AbortTransition
  <2> HIDE DEF intent
  <2>4. api' \in Requests /\ api'.run = r /\ api'.step # "get"
    BY <2>1, <2>2, <2>3 DEF Requests
  <2> HIDE DEF r
  <2>5. StoresSound' /\ Kept
    BY <1>1, <2>1, <2>2, <2>3, <2>4 DEF Sound, StoresSound, Kept
  <2> QED BY <2>3, <2>5
<1>4. ASSUME AbortSave PROVE StoresSound' /\ Kept /\ QueueSound'
  <2> DEFINE r == api.run
             aborted == [api.record EXCEPT !.status = "aborted"]
  <2>1. api \in Requests /\ r \in Runs /\ row[r] # None /\ api.record \in Record
    BY <1>4 DEF AbortSave, Sound, StoresSound, Requests
  <2>2. aborted \in Record /\ aborted # None
    <3>1. aborted \in Record
      BY <2>1, Records DEF Statuses, Terminal
    <3> HIDE DEF aborted
    <3> QED BY <3>1, Nobody
  <2>3. /\ cache' = [cache EXCEPT ![r] = aborted] /\ api' = [api EXCEPT !.step = "get"]
        /\ UNCHANGED <<row, aborts>> /\ queue' = RemoveFirst(queue, r)
    BY <1>4 DEF AbortSave
  <2> HIDE DEF aborted
  <2>4. api' \in Requests /\ api'.run = r
    BY <2>1, <2>3 DEF Requests
  <2> HIDE DEF r
  <2>5. StoresSound' /\ Kept
    BY <1>1, <2>1, <2>2, <2>3, <2>4 DEF Sound, StoresSound, Kept
  <2>6. QueueSound' 
    BY <2>3, <2>5, Dequeued DEF Sound, Kept
  <2> QED BY <2>5, <2>6
<1>5. ASSUME AbortGet PROVE StoresSound' /\ Kept /\ queue' = queue
  <2>1. api \in Requests /\ api.run \in Runs /\ row[api.run] # None /\ cache[api.run] \in Record
    BY <1>5, Nobody DEF AbortGet, Sound, StoresSound, Requests
  <2>2. /\ api' = [api EXCEPT !.step = "row", !.record = cache[api.run]]
        /\ UNCHANGED <<row, cache, queue, aborts>>
    BY <1>5 DEF AbortGet
  <2>3. api' \in Requests /\ api'.run = api.run /\ api'.step # "get"
    BY <2>1, <2>2 DEF Requests
  <2> QED BY <1>1, <2>1, <2>2, <2>3 DEF Sound, StoresSound, Kept
<1>6. ASSUME AbortRow PROVE StoresSound' /\ Kept /\ queue' = queue
  <2>1. api \in Requests /\ api.run \in Runs /\ api.record \in Record /\ api.record # None
    BY <1>6, Nobody DEF AbortRow, Sound, StoresSound, Requests
  <2>2. /\ row' = [row EXCEPT ![api.run] = api.record] /\ api' = None
        /\ UNCHANGED <<cache, queue, aborts>>
    BY <1>6 DEF AbortRow, SaveRow
  <2> QED BY <1>1, <2>1, <2>2 DEF Sound, StoresSound, Kept
<1>7. StoresSound' /\ Kept /\ (queue' = queue \/ QueueSound')
  BY <1>2, <1>3, <1>4, <1>5, <1>6 DEF Abort
<1>8. QueueSound'
  BY <1>7, QueueStays DEF Sound, Kept
<1> QED BY <1>1, <1>7, <1>8, TasksStay DEF Sound

\* ... and time.
LEMMA TimeSound ==
  ASSUME Sound, LeaseExpires \/ \E w \in Workers : Pause(w) \/ Crash(w)
  PROVE  Sound' /\ Kept
<1> USE DEF otherVars, workerVars, taskVars, chatVars
<1>1. CASE LeaseExpires \/ \E w \in Workers : Pause(w)
  <2>1. UNCHANGED <<row, cache, queue, aborts, broker, submit, api, pc, run, held, beat, todo>>
        /\ lease' = None
    BY <1>1 DEF LeaseExpires, Pause
  <2>2. StoresSound' /\ Kept
    BY <2>1, StoresStay DEF Sound, StoresSound
  <2> QED BY <2>1, <2>2, QueueStays, TasksStay DEF Sound, Kept
<1>2. ASSUME NEW w \in Workers, Crash(w) PROVE Sound' /\ Kept
  <2>1. /\ UNCHANGED <<row, cache, queue, aborts, submit, api>> /\ lease' \in {lease, Dead}
        /\ Return(w) /\ todo' = [todo EXCEPT ![w] = {}] /\ pc[w] # "idle"
        /\ pc[w] # "recover" => broker' = [broker EXCEPT ![run[w]] = @ + 1]
        /\ pc[w] = "recover" => broker' = broker
    BY <1>2 DEF Crash
  <2>2. pc[w] # "recover" => run[w] \in Runs /\ row[run[w]] # None
    BY <2>1, AtWork
  <2>3. StoresSound' /\ Kept
    BY <2>1, <2>2 DEF Sound, StoresSound, Kept, Requests
  <2>4. TasksSound' /\ QueueSound'
    BY <2>1, <2>3, ReturnSound, QueueStays DEF Sound, Kept
  <2> QED BY <2>3, <2>4 DEF Sound
<1> QED BY <1>1, <1>2

\* No step takes a record from a store, and every step keeps Sound.
LEMMA SoundNext == ASSUME Sound, [Next]_vars PROVE Sound' /\ Kept
<1>1. CASE UNCHANGED vars
  <2>1. UNCHANGED <<row, cache, queue, lease, aborts, broker, submit, api, pc, run, held, beat,
                    todo>>
    BY <1>1 DEF vars, storeVars, workerVars, taskVars
  <2>2. StoresSound' /\ Kept
    BY <2>1, StoresStay DEF Sound, StoresSound
  <2> QED BY <2>1, <2>2, QueueStays, TasksStay DEF Sound, Kept
<1>2. ASSUME NEW w \in Workers, Work(w) \/ Cancelled(w) \/ BeatRead(w) \/ RecoverRows(w)
      PROVE  Sound' /\ Kept
  BY <1>2, TakeSound, WaitSound, MarkSound, BeginSound, TalkSound, BeatSound, FinishSound,
     RecoverRowsSound, RecoverPublishSound DEF Work
<1> QED BY <1>1, <1>2, SubmitSound, AbortSound, TimeSound DEF Next

\* Nothing is stored at first.
LEMMA SoundInit == Init => Sound
<1> SUFFICES ASSUME Init PROVE Sound
  OBVIOUS
<1>1. StoresSound /\ QueueSound
  BY DEF Init, StoresSound, QueueSound, Queued, IsInjective
<1>2. TasksSound
  BY DEF Init, TasksSound, TaskSound, Steps
<1> QED BY <1>1, <1>2 DEF Sound

-----------------------------------------------------------------------------
(* Turns.                                                                   *)

Turn(w) == pc[w] = "claimed" \/ Executing(w)

\* At most the task of w moves.
Moves(w) == \A v \in Workers \ {w} : pc'[v] = pc[v] /\ run'[v] = run[v] /\ held'[v] = held[v]

\* What a step of w's task does to the turns.
TurnMoves(w) ==
    \/ lease' = lease /\ ~Turn(w)' /\ (Executing(w) => lease # w)
    \/ lease' = lease /\ Turn(w) /\ Executing(w)' /\ run'[w] = run[w]
    \/ /\ pc[w] = "wait" /\ pc'[w] = "claimed" /\ UNCHANGED <<run, held>>
       /\ lease \in {None, w} /\ lease' = w /\ queue # <<>> /\ Head(queue) = run[w]
    \/ lease \in {None, w} /\ lease' \notin Workers /\ ~Turn(w)'
       /\ (Executing(w) => Finish(w) \/ Crash(w))

\* A step of a task moves the turns as TurnMoves says.
LEMMA TaskMoves ==
  ASSUME Sound, NEW w \in Workers, Work(w) \/ Cancelled(w) \/ RecoverRows(w) \/ BeatRead(w)
  PROVE  \/ UNCHANGED <<pc, run, held, lease, pauses>>
         \/ Moves(w) /\ UNCHANGED pauses /\ TurnMoves(w)
<1> USE DEF otherVars, countVars, storeVars, taskVars, chatVars, workerVars
<1>1. /\ pc = [v \in Workers |-> pc[v]] /\ run = [v \in Workers |-> run[v]]
      /\ held = [v \in Workers |-> held[v]]
  BY DEF Sound, TasksSound
<1>2. ASSUME NEW r \in Runs, Take(w, r) PROVE Moves(w) /\ UNCHANGED pauses /\ TurnMoves(w)
  BY <1>1, <1>2 DEF Take, Moves, TurnMoves, Turn, Executing, Terminal, Step
<1>3. CASE Wait(w)
  BY <1>1, <1>3 DEF Wait, Moves, TurnMoves, Turn, Executing, Terminal, Step, Return, Claimable
<1>4. CASE MarkRead(w) \/ MarkSave(w)
  BY <1>1, <1>4 DEF MarkRead, MarkSave, Moves, TurnMoves, Turn, Executing, Terminal, Step
<1>5. CASE MarkRow(w)
  BY <1>1, <1>5, Nobody DEF MarkRow, Moves, TurnMoves, Turn, Executing, Terminal, Step, Return,
     Release
<1>6. CASE Begin(w) \/ BeginRow(w)
  BY <1>1, <1>6 DEF Begin, BeginRow, Moves, TurnMoves, Turn, Executing, Terminal, Step
<1>7. CASE ReadMessages(w) \/ Ask(w) \/ Answer(w) \/ Cancelled(w)
  BY <1>1, <1>7 DEF ReadMessages, Ask, Answer, Cancelled, Moves, TurnMoves, Turn, Executing,
     Terminal, Step
<1>8. CASE BeatSave(w) \/ BeatRead(w)
  BY <1>8 DEF BeatRead, BeatSave
<1>9. CASE Finish(w)
  BY <1>1, <1>9, Nobody DEF Finish, Moves, TurnMoves, Turn, Executing, Terminal, Step, Release
<1>10. CASE FinishRead(w) \/ FinishSave(w)
  BY <1>1, <1>10 DEF FinishRead, FinishSave, Moves, TurnMoves, Turn, Executing, Terminal, Step
<1>11. CASE FinishRow(w)
  BY <1>1, <1>11 DEF FinishRow, Moves, TurnMoves, Turn, Executing, Terminal, Step, Return
<1>12. CASE RecoverPublish(w)
  <2>1. /\ UNCHANGED <<lease, pauses>> /\ pc[w] = "recover"
        /\ Return(w) \/ UNCHANGED <<pc, run, held>>
    BY <1>12 DEF RecoverPublish
  <2> QED BY <1>1, <2>1 DEF Moves, TurnMoves, Turn, Executing, Terminal, Step, Return
<1>13. CASE RecoverRows(w)
  <2>1. UNCHANGED <<lease, pauses, run, held>> /\ Step(w, "recover") /\ pc[w] = "idle"
    BY <1>13 DEF RecoverRows
  <2> QED BY <1>1, <2>1 DEF Moves, TurnMoves, Turn, Executing, Terminal, Step
<1> QED BY <1>2, <1>3, <1>4, <1>5, <1>6, <1>7, <1>8, <1>9, <1>10, <1>11, <1>12, <1>13 DEF Work

\* Every step: the turns stay, or a worker stalls, or one task moves.
LEMMA Turns ==
  ASSUME Sound, [Next]_vars
  PROVE  \/ /\ UNCHANGED <<pc, run, held, pauses>>
            /\ lease' = lease \/ (lease = Dead /\ lease' = None)
         \/ \E w \in Workers : Pause(w)
         \/ \E w \in Workers : Moves(w) /\ UNCHANGED pauses /\ TurnMoves(w)
<1> USE DEF otherVars, countVars, storeVars, taskVars, chatVars, workerVars
<1>1. /\ pc = [v \in Workers |-> pc[v]] /\ run = [v \in Workers |-> run[v]]
      /\ held = [v \in Workers |-> held[v]]
  BY DEF Sound, TasksSound
<1>2. CASE UNCHANGED vars
  BY <1>2 DEF vars
<1>3. ASSUME NEW r \in Runs,
             SubmitRow(r) \/ SubmitEnqueue(r) \/ SubmitSend(r) \/ SubmitFails(r) \/ AbortRead(r)
      PROVE UNCHANGED <<pc, run, held, pauses, lease>>
  BY <1>3 DEF SubmitRow, SubmitEnqueue, SubmitSend, SubmitFails, AbortRead
<1>4. CASE Abort
  BY <1>4 DEF Abort, AbortTransition, AbortSave, AbortGet, AbortRow
<1>5. CASE LeaseExpires
  BY <1>5 DEF LeaseExpires
<1>6. ASSUME NEW w \in Workers, Crash(w) PROVE Moves(w) /\ UNCHANGED pauses /\ TurnMoves(w)
  BY <1>1, <1>6, Nobody DEF Crash, Moves, TurnMoves, Turn, Executing, Terminal, Step, Return
<1> QED BY <1>2, <1>3, <1>4, <1>5, <1>6, TaskMoves DEF Next

\* Tasks that go on as if they had the lease they have lost.
Lost == {w \in Workers : Turn(w) /\ lease # w}

LostCounted == pauses \in Nat /\ IsFiniteSet(Lost) /\ Cardinality(Lost) <= pauses

\* Only a stall makes a task go on without its lease.
LEMMA LostNext == ASSUME Sound, LostCounted, [Next]_vars PROVE LostCounted'
<1>1. CASE \E w \in Workers : Pause(w)
  <2>1. PICK w \in Workers : lease = w /\ UNCHANGED pc /\ pauses' = pauses + 1
    BY <1>1 DEF Pause, workerVars
  <2>2. Lost' \subseteq Lost \cup {w}
    BY <2>1 DEF Lost, Turn, Executing
  <2>3. IsFiniteSet(Lost \cup {w}) /\ Cardinality(Lost \cup {w}) <= Cardinality(Lost) + 1
        /\ Cardinality(Lost) \in Nat
    BY FS_AddElement, FS_CardinalityType DEF LostCounted
  <2>4. IsFiniteSet(Lost') /\ Cardinality(Lost') <= Cardinality(Lost \cup {w})
    BY <2>2, <2>3, FS_Subset
  <2>5. Cardinality(Lost') \in Nat /\ Cardinality(Lost \cup {w}) \in Nat
    BY <2>3, <2>4, FS_CardinalityType
  <2> QED BY <2>1, <2>3, <2>4, <2>5 DEF LostCounted
<1>2. CASE ~\E w \in Workers : Pause(w)
  <2>1. UNCHANGED pauses /\ Lost' \subseteq Lost
    <3>1. CASE /\ UNCHANGED <<pc, run, held, pauses>>
               /\ lease' = lease \/ (lease = Dead /\ lease' = None)
      BY <3>1, Nobody DEF Lost, Turn, Executing
    <3>2. ASSUME NEW w \in Workers, Moves(w), UNCHANGED pauses, TurnMoves(w)
          PROVE  Lost' \subseteq Lost
      <4> SUFFICES ASSUME NEW v \in Workers, Turn(v)', lease' # v PROVE Turn(v) /\ lease # v
        BY DEF Lost
      <4>1. CASE v = w
        BY <3>2, <4>1, Nobody DEF TurnMoves
      <4>2. CASE v # w
        BY <3>2, <4>2, Nobody DEF TurnMoves, Moves, Turn, Executing
      <4> QED BY <4>1, <4>2
    <3> QED BY <1>2, <3>1, <3>2, Turns
  <2>2. IsFiniteSet(Lost') /\ Cardinality(Lost') <= Cardinality(Lost)
    BY <2>1, FS_Subset DEF LostCounted
  <2>3. Cardinality(Lost') \in Nat /\ Cardinality(Lost) \in Nat
    BY <2>2, FS_CardinalityType DEF LostCounted
  <2> QED BY <2>1, <2>2, <2>3 DEF LostCounted
<1> QED BY <1>1, <1>2

\* No task has a turn at first.
LEMMA LostInit == Init => LostCounted
<1> SUFFICES ASSUME Init PROVE LostCounted
  OBVIOUS
<1>1. Lost = {}
  BY DEF Init, Lost, Turn, Executing, Terminal
<1> QED BY <1>1, FS_EmptySet DEF Init, LostCounted

\* The tasks that execute are those without their lease and at most one other.
LEMMA OneWorks == LostCounted => OneAtATime /\ IsFiniteSet({w \in Workers : Executing(w)})
<1> SUFFICES ASSUME LostCounted PROVE OneAtATime /\ IsFiniteSet({w \in Workers : Executing(w)})
  OBVIOUS
<1> DEFINE E == {w \in Workers : Executing(w)}
<1>1. E \subseteq Lost \cup {lease}
  BY DEF Lost, Turn
<1>2. IsFiniteSet(Lost \cup {lease}) /\ Cardinality(Lost \cup {lease}) <= Cardinality(Lost) + 1
      /\ Cardinality(Lost) \in Nat
  BY FS_AddElement, FS_CardinalityType DEF LostCounted
<1>3. IsFiniteSet(E) /\ Cardinality(E) <= Cardinality(Lost \cup {lease})
  BY <1>1, <1>2, FS_Subset
<1>4. Cardinality(E) \in Nat /\ Cardinality(Lost \cup {lease}) \in Nat
  BY <1>2, <1>3, FS_CardinalityType
<1> QED BY <1>2, <1>3, <1>4 DEF LostCounted, OneAtATime

-----------------------------------------------------------------------------
(* Questions and answers.                                                   *)

ChatSound ==
    /\ asked \in SUBSET Runs /\ answered \in SUBSET asked
    /\ \A w \in Workers : pc[w] = "answer" => run[w] \in asked
    /\ CollisionsNeedStalls

\* A task that talks to the chat stays where it is.
StaysTalking(w) ==
    pc'[w] \in {"ask", "answer", "completed"} => pc'[w] = pc[w] /\ run'[w] = run[w]

\* Steps of a worker that do not touch the chat.
LEMMA Silent ==
  ASSUME Sound, NEW w \in Workers,
         (Work(w) /\ ~ReadMessages(w) /\ ~Ask(w) /\ ~Answer(w))
         \/ Cancelled(w) \/ RecoverRows(w) \/ BeatRead(w) \/ Pause(w) \/ Crash(w)
  PROVE  UNCHANGED <<asked, answered>> /\ \A v \in Workers : StaysTalking(v)
<1> USE DEF otherVars, countVars, storeVars, taskVars, chatVars, workerVars
<1>1. pc = [v \in Workers |-> pc[v]] /\ run = [v \in Workers |-> run[v]]
  BY DEF Sound, TasksSound
<1>2. ASSUME NEW r \in Runs, Take(w, r)
      PROVE  UNCHANGED <<asked, answered>> /\ \A v \in Workers : StaysTalking(v)
  BY <1>1, <1>2 DEF Take, StaysTalking, Step
<1>3. CASE Wait(w)
  BY <1>1, <1>3 DEF Wait, StaysTalking, Step, Return
<1>4. CASE MarkRead(w) \/ MarkSave(w) \/ MarkRow(w)
  BY <1>1, <1>4 DEF MarkRead, MarkSave, MarkRow, StaysTalking, Step, Return
<1>5. CASE Begin(w) \/ BeginRow(w)
  BY <1>1, <1>5 DEF Begin, BeginRow, StaysTalking, Step
<1>6. CASE Cancelled(w)
  BY <1>1, <1>6 DEF Cancelled, StaysTalking, Step
<1>7. CASE BeatSave(w) \/ BeatRead(w)
  BY <1>7 DEF BeatRead, BeatSave, StaysTalking
<1>8. CASE Finish(w) \/ FinishRead(w) \/ FinishSave(w) \/ FinishRow(w)
  BY <1>1, <1>8 DEF Finish, FinishRead, FinishSave, FinishRow, StaysTalking, Step, Return
<1>9. CASE RecoverPublish(w)
  <2>1. UNCHANGED <<asked, answered>> /\ (Return(w) \/ UNCHANGED <<pc, run>>)
    BY <1>9 DEF RecoverPublish
  <2> QED BY <1>1, <2>1 DEF StaysTalking, Step, Return
<1>10. CASE RecoverRows(w)
  <2>1. UNCHANGED <<asked, answered, run>> /\ Step(w, "recover")
    BY <1>10 DEF RecoverRows
  <2> QED BY <1>1, <2>1 DEF StaysTalking, Step
<1>11. CASE Pause(w)
  BY <1>11 DEF Pause, StaysTalking
<1>12. CASE Crash(w)
  BY <1>1, <1>12 DEF Crash, StaysTalking, Step, Return
<1> QED BY <1>2, <1>3, <1>4, <1>5, <1>6, <1>7, <1>8, <1>9, <1>10, <1>11, <1>12 DEF Work

\* What a step does to the messages of the chat.
LEMMA Talks ==
  ASSUME Sound, [Next]_vars
  PROVE  \/ \E w \in Workers : ReadMessages(w) \/ Ask(w) \/ Answer(w)
         \/ UNCHANGED <<asked, answered>> /\ \A v \in Workers : StaysTalking(v)
<1> USE DEF otherVars, countVars, storeVars, taskVars, chatVars, workerVars
<1>1. CASE UNCHANGED vars
  BY <1>1 DEF vars, StaysTalking
<1>2. ASSUME NEW r \in Runs,
             SubmitRow(r) \/ SubmitEnqueue(r) \/ SubmitSend(r) \/ SubmitFails(r) \/ AbortRead(r)
      PROVE  UNCHANGED <<asked, answered>> /\ \A v \in Workers : StaysTalking(v)
  BY <1>2 DEF SubmitRow, SubmitEnqueue, SubmitSend, SubmitFails, AbortRead, StaysTalking
<1>3. CASE Abort
  BY <1>3 DEF Abort, AbortTransition, AbortSave, AbortGet, AbortRow, StaysTalking
<1>4. CASE LeaseExpires
  BY <1>4 DEF LeaseExpires, StaysTalking
<1> QED BY <1>1, <1>2, <1>3, <1>4, Silent DEF Next

\* Stalls are only ever added.
LEMMA PausesGrow == LostCounted /\ [Next]_vars => pauses' \in Nat /\ pauses' >= pauses
<1> SUFFICES ASSUME LostCounted, [Next]_vars PROVE pauses' = pauses \/ pauses' = pauses + 1
  BY DEF LostCounted
<1> USE DEF otherVars, countVars, storeVars, taskVars, chatVars, workerVars
<1>1. ASSUME NEW w \in Workers,
               Work(w) \/ Cancelled(w) \/ BeatRead(w) \/ RecoverRows(w) \/ Pause(w)
                                \/ Crash(w)
      PROVE  pauses' = pauses \/ pauses' = pauses + 1
  BY <1>1 DEF Work, Cancelled, BeatRead, RecoverRows, Pause, Crash, Take, Wait, MarkRead,
       MarkSave,
     MarkRow, Begin, BeginRow, ReadMessages, Ask, Answer, BeatSave, Finish,
     FinishRead, FinishSave, FinishRow, RecoverPublish
<1> QED BY <1>1 DEF Next, vars, SubmitRow, SubmitEnqueue, SubmitSend, SubmitFails, AbortRead,
     Abort, AbortTransition, AbortSave, AbortGet, AbortRow, LeaseExpires

\* Tasks that execute, without one of them: as many as the stalls.
LEMMA OthersWork ==
  ASSUME LostCounted, NEW w \in Workers, NEW T, T \subseteq {v \in Workers : Executing(v)} \ {w},
         Executing(w)
  PROVE  Cardinality(T) <= pauses
<1> DEFINE E == {v \in Workers : Executing(v)}
<1>1. IsFiniteSet(E) /\ Cardinality(E) <= 1 + pauses /\ w \in E
  BY OneWorks DEF OneAtATime
<1>2. IsFiniteSet(E \ {w}) /\ Cardinality(E \ {w}) = Cardinality(E) - 1 /\ Cardinality(E) \in Nat
  BY <1>1, FS_RemoveElement, FS_CardinalityType
<1>3. Cardinality(T) \in Nat /\ Cardinality(T) <= Cardinality(E \ {w})
  BY <1>2, FS_Subset, FS_CardinalityType
<1> QED BY <1>1, <1>2, <1>3 DEF LostCounted

\* Fewer tasks, more stalls.
LEMMA FewerWork ==
  ASSUME LostCounted, NEW S, S \subseteq {v \in Workers : Executing(v)}, Cardinality(S) <= pauses,
         NEW T, T \subseteq S, NEW p \in Nat, p >= pauses
  PROVE  Cardinality(T) <= p
<1>1. IsFiniteSet(S)
  BY OneWorks, FS_Subset
<1>2. Cardinality(S) \in Nat /\ Cardinality(T) \in Nat /\ Cardinality(T) <= Cardinality(S)
  BY <1>1, FS_Subset, FS_CardinalityType
<1> QED BY <1>2 DEF LostCounted

\* Of the tasks about to write a message the run has, a step adds none, or leaves only those
\* beside another that executes: as many as the stalls.
LEMMA Collisions ==
  ASSUME LostCounted, ChatSound, pauses' \in Nat, pauses' >= pauses,
         \A r \in asked' :
            \/ r \in asked /\ Asking(r)' \subseteq Asking(r)
            \/ \E w \in Workers : Executing(w) /\ Asking(r)' \subseteq Asking(r) \ {w},
         \A r \in answered' :
            \/ r \in answered /\ Answering(r)' \subseteq Answering(r)
            \/ \E w \in Workers : Executing(w) /\ Answering(r)' \subseteq Answering(r) \ {w}
  PROVE  CollisionsNeedStalls'
<1>1. ASSUME NEW r \in Runs
      PROVE  /\ Asking(r) \subseteq {v \in Workers : Executing(v)}
             /\ Answering(r) \subseteq {v \in Workers : Executing(v)}
  BY DEF Asking, Answering, Executing
<1>2. ASSUME NEW r \in Runs, r \in asked' PROVE Cardinality(Asking(r)') <= pauses'
  <2>1. CASE r \in asked /\ Asking(r)' \subseteq Asking(r)
    <3>1. Cardinality(Asking(r)) <= pauses
      BY <2>1 DEF ChatSound, CollisionsNeedStalls
    <3> QED BY <1>1, <2>1, <3>1, FewerWork
  <2>2. ASSUME NEW w \in Workers, Executing(w), Asking(r)' \subseteq Asking(r) \ {w}
        PROVE  Cardinality(Asking(r)') <= pauses'
    <3>1. Asking(r)' \subseteq {v \in Workers : Executing(v)} \ {w}
      BY <1>1, <2>2
    <3>2. Cardinality(Asking(r)') <= pauses
      BY <2>2, <3>1, OthersWork
    <3> QED BY <2>2, <3>1, <3>2, FewerWork
  <2> QED BY <1>2, <2>1, <2>2
<1>3. ASSUME NEW r \in Runs, r \in answered' PROVE Cardinality(Answering(r)') <= pauses'
  <2>1. CASE r \in answered /\ Answering(r)' \subseteq Answering(r)
    <3>1. Cardinality(Answering(r)) <= pauses
      BY <2>1 DEF ChatSound, CollisionsNeedStalls
    <3> QED BY <1>1, <2>1, <3>1, FewerWork
  <2>2. ASSUME NEW w \in Workers, Executing(w), Answering(r)' \subseteq Answering(r) \ {w}
        PROVE  Cardinality(Answering(r)') <= pauses'
    <3>1. Answering(r)' \subseteq {v \in Workers : Executing(v)} \ {w}
      BY <1>1, <2>2
    <3>2. Cardinality(Answering(r)') <= pauses
      BY <2>2, <3>1, OthersWork
    <3> QED BY <2>2, <3>1, <3>2, FewerWork
  <2> QED BY <1>3, <2>1, <2>2
<1> QED BY <1>2, <1>3 DEF CollisionsNeedStalls

\* A task that looks for messages goes where those it finds send it.
LEMMA ReadChat ==
  ASSUME Sound, ChatSound, LostCounted, NEW w \in Workers, ReadMessages(w)
  PROVE  ChatSound'
<1> USE DEF otherVars, countVars, storeVars, taskVars, chatVars
<1>1. /\ pc[w] = "read" /\ UNCHANGED <<asked, answered, run, pauses>>
      /\ \E p : Step(w, p) /\ (p = "ask" => run[w] \notin asked)
                           /\ (p = "answer" => run[w] \in asked \ answered)
  <2>1. answered \subseteq asked
    BY DEF ChatSound
  <2> QED BY <2>1 DEF ReadMessages
<1>2. pc = [v \in Workers |-> pc[v]]
  BY DEF Sound, TasksSound
<1>3. /\ \A v \in Workers \ {w} : pc'[v] = pc[v]
      /\ pc'[w] = "ask" => run[w] \notin asked
      /\ pc'[w] = "answer" => run[w] \in asked \ answered
  BY <1>1, <1>2 DEF Step
<1>4. /\ \A r \in asked : Asking(r)' \subseteq Asking(r)
      /\ \A r \in answered : Answering(r)' \subseteq Answering(r)
  BY <1>1, <1>3 DEF Asking, Answering
<1>5. CollisionsNeedStalls'
  BY <1>1, <1>4, Collisions DEF LostCounted
<1> QED BY <1>1, <1>3, <1>5 DEF ChatSound

\* The task that asks is one of those that execute, and no longer asks.
LEMMA AskChat ==
  ASSUME Sound, ChatSound, LostCounted, NEW w \in Workers, Ask(w)
  PROVE  ChatSound'
<1> USE DEF otherVars, countVars, storeVars, taskVars, chatVars
<1>1. /\ pc[w] = "ask" /\ UNCHANGED <<answered, run, pauses>>
      /\ \/ run[w] \notin asked /\ asked' = asked \cup {run[w]} /\ Step(w, "answer")
         \/ Step(w, "failed") /\ UNCHANGED asked
  BY DEF Ask, Write
<1>2. pc = [v \in Workers |-> pc[v]] /\ run[w] \in Runs /\ Executing(w)
  BY <1>1, AtWork DEF Sound, TasksSound, Executing
<1>3. /\ \A v \in Workers \ {w} : pc'[v] = pc[v]
      /\ pc'[w] = "failed" \/ (pc'[w] = "answer" /\ run[w] \in asked' \ answered)
  BY <1>1, <1>2 DEF Step, ChatSound
<1>4. /\ \A r \in Runs : /\ Asking(r)' \subseteq Asking(r)
                         /\ r \notin asked /\ r \in asked' => w \notin Asking(r)'
      /\ \A r \in answered : Answering(r)' \subseteq Answering(r)
  BY <1>1, <1>3 DEF Asking, Answering
<1>5. asked' \in SUBSET Runs /\ answered' \in SUBSET asked' /\ asked \subseteq asked'
  BY <1>1, <1>2 DEF ChatSound
<1>6. CollisionsNeedStalls'
  <2>1. pauses' \in Nat /\ pauses' >= pauses
    BY <1>1 DEF LostCounted
  <2>2. \A r \in asked' :
           \/ r \in asked /\ Asking(r)' \subseteq Asking(r)
           \/ Executing(w) /\ Asking(r)' \subseteq Asking(r) \ {w}
    BY <1>2, <1>4, <1>5
  <2>3. \A r \in answered' : r \in answered /\ Answering(r)' \subseteq Answering(r)
    BY <1>1, <1>4
  <2> QED BY <2>1, <2>2, <2>3, Collisions
<1>7. \A v \in Workers : pc'[v] = "answer" => run'[v] \in asked'
  BY <1>1, <1>3, <1>5 DEF ChatSound
<1> QED BY <1>5, <1>6, <1>7 DEF ChatSound

\* The task that answers is one of those that execute, and no longer answers.
LEMMA AnswerChat ==
  ASSUME Sound, ChatSound, LostCounted, NEW w \in Workers, Answer(w)
  PROVE  ChatSound'
<1> USE DEF otherVars, countVars, storeVars, taskVars, chatVars
<1>1. /\ pc[w] = "answer" /\ UNCHANGED <<asked, run, pauses>>
      /\ answered' \in {answered, answered \cup {run[w]}}
      /\ \E p \in Terminal : Step(w, p)
  BY DEF Answer, Write, Terminal
<1>2. pc = [v \in Workers |-> pc[v]] /\ Executing(w) /\ run[w] \in asked
  BY <1>1 DEF Sound, TasksSound, Executing, ChatSound
<1>3. /\ \A v \in Workers \ {w} : pc'[v] = pc[v]
      /\ pc'[w] \in Terminal
  BY <1>1, <1>2 DEF Step
<1>4. \A r \in Runs : Asking(r)' \subseteq Asking(r) /\ Answering(r)' \subseteq Answering(r) \ {w}
  BY <1>1, <1>3 DEF Asking, Answering, Terminal
<1>5. answered' \in SUBSET asked' /\ asked' \in SUBSET Runs
  BY <1>1, <1>2 DEF ChatSound
<1>6. CollisionsNeedStalls'
  BY <1>1, <1>2, <1>4, <1>5, Collisions DEF LostCounted
<1>7. \A v \in Workers : pc'[v] = "answer" => run'[v] \in asked'
  BY <1>1, <1>3 DEF ChatSound, Terminal
<1> QED BY <1>5, <1>6, <1>7 DEF ChatSound

\* ChatSound is inductive.
LEMMA ChatNext ==
  ASSUME Sound, ChatSound, LostCounted, [Next]_vars
  PROVE  ChatSound'
<1>1. CASE UNCHANGED <<asked, answered>> /\ \A v \in Workers : StaysTalking(v)
  <2>1. \A r : Asking(r)' \subseteq Asking(r) /\ Answering(r)' \subseteq Answering(r)
    BY <1>1 DEF StaysTalking, Asking, Answering
  <2>2. CollisionsNeedStalls'
    BY <1>1, <2>1, PausesGrow, Collisions
  <2>3. \A v \in Workers : pc'[v] = "answer" => run'[v] \in asked'
    BY <1>1 DEF StaysTalking, ChatSound
  <2> QED BY <1>1, <2>2, <2>3 DEF ChatSound
<1> QED BY <1>1, Talks, ReadChat, AskChat, AnswerChat

\* Nothing is asked at first.
LEMMA ChatInit == Init => ChatSound
BY DEF Init, ChatSound, CollisionsNeedStalls

-----------------------------------------------------------------------------
(* The copies of a run's record.                                            *)

\* A copy has at most n attempts, and is completed only when done.
Within(rec, n, done) ==
    rec # None => rec.attempts <= n /\ (rec.status = "completed" => done)

\* Every copy of the record of r: the rows of the stores, those that tasks hold, and those
\* that the recovery and the abort request are about to write.
CopiesWithin(r, n, done) ==
    /\ Within(row[r], n, done) /\ Within(cache[r], n, done)
    /\ \A w \in Workers : run[w] = r => Within(held[w], n, done) /\ Within(beat[w], n, done)
    /\ \A w \in Workers : \A published \in todo[w] :
          published.run = r => Within(published.record, n, done)
    /\ api # None /\ api.run = r => Within(api.record, n, done)

\* A bound may be raised.
LEMMA WithinMore ==
  ASSUME NEW r, NEW n \in Nat, NEW m \in Nat, n <= m, NEW done, NEW more, done => more,
         Sound, r \in Runs, CopiesWithin(r, n, done)
  PROVE  CopiesWithin(r, m, more)
<1>1. ASSUME NEW rec \in Record \cup {None}, Within(rec, n, done) PROVE Within(rec, m, more)
  BY <1>1 DEF Within, Record
<1>2. row[r] \in Record \cup {None} /\ cache[r] \in Record \cup {None}
  BY DEF Sound, StoresSound
<1>3. \A w \in Workers : /\ held[w] \in Record \cup {None} /\ beat[w] \in Record \cup {None}
                         /\ \A published \in todo[w] : published.record \in Record
  BY DEF Sound, TasksSound, TaskSound
<1>4. api # None => api.record \in Record
  BY DEF Sound, StoresSound, Requests
<1> QED BY <1>1, <1>2, <1>3, <1>4 DEF CopiesWithin

\* A change of status or start keeps the bound, unless it completes the run.
LEMMA WithinKept ==
  ASSUME NEW n \in Nat, NEW done, NEW rec \in Record, Within(rec, n, done)
  PROVE  /\ \A b : Within([rec EXCEPT !.started = b], n, done)
         /\ \A s : (s = "completed" => done) => Within([rec EXCEPT !.status = s], n, done)
         /\ \A s, b : (s = "completed" => done) =>
               Within([rec EXCEPT !.status = s, !.started = b], n, done)
BY Nobody DEF Within, Record

\* Recovery keeps it.
LEMMA WithinRecovered ==
  ASSUME Sound, NEW r \in Runs, row[r] # None, NEW n \in Nat, NEW done, Within(row[r], n, done)
  PROVE  Within(Recovered(r), n, done)
<1>1. row[r] \in Record
  BY DEF Sound, StoresSound
<1>2. (row[r].status = "completed" => done) /\ row[r].attempts <= n
  BY DEF Within
<1> QED BY <1>1, <1>2 DEF Recovered, Within, Record

\* A step of one worker leaves the copies of the others alone.
LEMMA CopiesStep ==
  ASSUME NEW r \in Runs, NEW n, NEW done, CopiesWithin(r, n, done), NEW w \in Workers,
         \A v \in Workers \ {w} : /\ run'[v] = run[v] /\ held'[v] = held[v]
                                  /\ beat'[v] = beat[v] /\ todo'[v] = todo[v],
         Within(row[r], n, done)', Within(cache[r], n, done)',
         run'[w] = r => (Within(held[w], n, done) /\ Within(beat[w], n, done))',
         \A published \in todo'[w] :
            published.run = r => Within(published.record, n, done), 
         UNCHANGED api
  PROVE  CopiesWithin(r, n, done)'
<1>1. ASSUME NEW v \in Workers
      PROVE  /\ run'[v] = r => Within(held'[v], n, done) /\ Within(beat'[v], n, done)
             /\ \A published \in todo'[v] :
                   published.run = r => Within(published.record, n, done)
  <2>1. CASE v = w
    BY <2>1
  <2>2. CASE v # w
    BY <2>2 DEF CopiesWithin
  <2> QED BY <2>1, <2>2
<1> QED BY <1>1 DEF CopiesWithin

\* CopiesWithin is kept by the steps before an attempt ...
LEMMA StartCopies ==
  ASSUME Sound, NEW r \in Runs, NEW n \in Nat, NEW done, CopiesWithin(r, n, done),
         NEW w \in Workers, \/ \E s \in Runs : Take(w, s)
                            \/ Wait(w) \/ MarkRead(w) \/ MarkSave(w) \/ MarkRow(w)
  PROVE  CopiesWithin(r, n, done)'
<1> USE DEF otherVars, countVars, storeVars, taskVars, chatVars, workerVars
<1>1. /\ run = [v \in Workers |-> run[v]] /\ held = [v \in Workers |-> held[v]]
      /\ beat = [v \in Workers |-> beat[v]] /\ todo = [v \in Workers |-> todo[v]]
      /\ row \in [Runs -> Record \cup {None}] /\ cache \in [Runs -> Record \cup {None}]
  BY DEF Sound, TasksSound, StoresSound
<1>2. /\ Within(row[r], n, done) /\ Within(cache[r], n, done)
      /\ run[w] = r => Within(held[w], n, done) /\ Within(beat[w], n, done)
      /\ \A published \in todo[w] : published.run = r => Within(published.record, n, done)
  BY DEF CopiesWithin
<1>3. Within(None, n, done) 
  BY DEF Within
<1>4. ASSUME NEW s \in Runs, Take(w, s) PROVE CopiesWithin(r, n, done)'
  <2>1. UNCHANGED <<row, beat, todo, api>> /\ pc[w] = "idle"
    BY <1>4 DEF Take
  <2>2. beat[w] = None
    BY <2>1 DEF Sound, TasksSound, TaskSound, Terminal
  <2>3. cache'[r] \in {cache[r], row[r]}
    BY <1>1, <1>4 DEF Take, CreateOrGetAndEnqueue
  <2>4. \/ UNCHANGED <<run, held>>
        \/ /\ run' = [run EXCEPT ![w] = s]
           /\ held' \in {[held EXCEPT ![w] = cache[s]], [held EXCEPT ![w] = row[s]]}
    BY <1>4 DEF Take
  <2>5. run'[w] = r => Within(held'[w], n, done) /\ Within(beat'[w], n, done)
    BY <1>1, <1>2, <1>3, <2>1, <2>2, <2>4
  <2>6. \A v \in Workers \ {w} : /\ run'[v] = run[v] /\ held'[v] = held[v]
                                 /\ beat'[v] = beat[v] /\ todo'[v] = todo[v]
    BY <1>1, <2>1, <2>4
  <2>7. Within(row'[r], n, done) /\ Within(cache'[r], n, done)
    BY <1>2, <2>1, <2>3
  <2> QED BY <1>2, <2>1, <2>5, <2>6, <2>7, CopiesStep
<1>5. CASE Wait(w) \/ MarkRead(w) \/ MarkSave(w) \/ MarkRow(w)
  <2>1. UNCHANGED <<todo, api>>
    BY <1>5 DEF Wait, MarkRead, MarkSave, MarkRow
  <2>2. run[w] \in Runs
    BY <1>5, AtWork DEF Wait, MarkRead, MarkSave, MarkRow
  <2>3. Within(row'[r], n, done) /\ Within(cache'[r], n, done)
    BY <1>1, <1>2, <1>5, <2>2 DEF Wait, MarkRead, MarkSave, MarkRow, SaveRow
  <2>4. /\ run'[w] \in {run[w], None} /\ held'[w] \in {held[w], None, cache[run[w]]}
        /\ beat'[w] \in {beat[w], None}
        /\ \A v \in Workers \ {w} : run'[v] = run[v] /\ held'[v] = held[v] /\ beat'[v] = beat[v]
    BY <1>1, <1>5 DEF Wait, MarkRead, MarkSave, MarkRow, Return
  <2>5. run'[w] = r => Within(held'[w], n, done) /\ Within(beat'[w], n, done)
    BY <1>2, <1>3, <2>4, Nobody
  <2> QED BY <1>2, <2>1, <2>3, <2>4, <2>5, CopiesStep
<1> QED BY <1>4, <1>5

\* ... by the attempt, when it begins below the bound and ends completed only when done ...
LEMMA WorkCopies ==
  ASSUME Sound, NEW r \in Runs, NEW n \in Nat, NEW done, CopiesWithin(r, n, done),
         NEW w \in Workers,
         Begin(w) /\ run[w] = r => held[w].attempts + 1 <= n \/ run[w] \in aborts,
         Finish(w) /\ run[w] = r => (pc[w] = "completed" => done),
         \/ Begin(w) \/ BeginRow(w) \/ ReadMessages(w) \/ Ask(w) \/ Answer(w) \/ Cancelled(w)
         \/ BeatRead(w) \/ BeatSave(w)
         \/ Finish(w) \/ FinishRead(w) \/ FinishSave(w) \/ FinishRow(w)
  PROVE  CopiesWithin(r, n, done)'
<1> USE DEF otherVars, countVars, storeVars, taskVars, chatVars, workerVars
<1>1. /\ run = [v \in Workers |-> run[v]] /\ held = [v \in Workers |-> held[v]]
      /\ beat = [v \in Workers |-> beat[v]] /\ todo = [v \in Workers |-> todo[v]]
      /\ row \in [Runs -> Record \cup {None}] /\ cache \in [Runs -> Record \cup {None}]
  BY DEF Sound, TasksSound, StoresSound
<1>2. /\ Within(row[r], n, done) /\ Within(cache[r], n, done)
      /\ run[w] = r => Within(held[w], n, done) /\ Within(beat[w], n, done)
      /\ \A published \in todo[w] : published.run = r => Within(published.record, n, done)
  BY DEF CopiesWithin
<1>3. Within(None, n, done) 
  BY DEF Within
<1>4. CASE Begin(w)
  <2> DEFINE begun == [status |-> "running", attempts |-> held[w].attempts + 1, started |-> TRUE]
  <2>1. UNCHANGED <<row, run, beat, todo, api>> /\ run[w] \in Runs
        /\ \/ UNCHANGED <<cache, held>>
           \/ /\ run[w] \notin aborts /\ cache' = [cache EXCEPT ![run[w]] = begun]
              /\ held' = [held EXCEPT ![w] = begun]
    BY <1>4, AtWork DEF Begin
  <2>2. run[w] = r /\ r \notin aborts => Within(begun, n, done)
    BY <1>4 DEF Within
  <2> HIDE DEF begun
  <2>3. Within(row'[r], n, done) /\ Within(cache'[r], n, done)
    BY <1>1, <1>2, <2>1, <2>2
  <2>4. run'[w] = r => Within(held'[w], n, done) /\ Within(beat'[w], n, done)
    BY <1>1, <1>2, <2>1, <2>2
  <2>5. \A v \in Workers \ {w} : held'[v] = held[v]
    BY <1>1, <2>1
  <2> QED BY <1>2, <2>1, <2>3, <2>4, <2>5, CopiesStep
<1>5. CASE BeginRow(w) \/ BeatRead(w) \/ BeatSave(w)
  <2>1. UNCHANGED <<run, held, todo, api>> /\ run[w] \in Runs
    <3>1. pc[w] \notin {"idle", "recover"}
      <4>1. TaskSound(pc[w], run[w], held[w], beat[w], todo[w])
        BY DEF Sound, TasksSound
      <4> QED BY <1>5, <4>1 DEF BeginRow, BeatRead, BeatSave, TaskSound, Terminal
    <3> QED BY <1>5, <3>1, AtWork DEF BeginRow, BeatRead, BeatSave
  <2>2. Within(row'[r], n, done) /\ Within(cache'[r], n, done)
    BY <1>1, <1>2, <1>5, <2>1 DEF BeginRow, BeatRead, BeatSave, SaveRow
  <2>3. /\ beat'[w] \in {beat[w], None, cache[run[w]]}
        /\ \A v \in Workers \ {w} : beat'[v] = beat[v]
    BY <1>1, <1>5 DEF BeginRow, BeatRead, BeatSave
  <2>4. run'[w] = r => Within(held'[w], n, done) /\ Within(beat'[w], n, done)
    BY <1>2, <1>3, <2>1, <2>3
  <2> QED BY <1>2, <2>1, <2>2, <2>3, <2>4, CopiesStep
<1>6. CASE ReadMessages(w) \/ Ask(w) \/ Answer(w) \/ Cancelled(w)
  <2>1. UNCHANGED <<row, cache, run, held, beat, todo, api>>
    BY <1>6 DEF ReadMessages, Ask, Answer, Cancelled
  <2> QED BY <2>1 DEF CopiesWithin
<1>7. CASE Finish(w)
  <2>1. /\ UNCHANGED <<row, cache, run, todo, api>> /\ pc[w] \in Terminal
        /\ beat' = [beat EXCEPT ![w] = None]
        /\ held' = [held EXCEPT ![w] = [held[w] EXCEPT !.status = pc[w]]]
    BY <1>1, <1>7 DEF Finish
  <2>2. held[w] \in Record
    BY <2>1, AtWork DEF Terminal
  <2>3. run[w] = r => Within([held[w] EXCEPT !.status = pc[w]], n, done)
    BY <1>2, <1>7, <2>2, WithinKept
  <2>4. /\ run'[w] = r => Within(held'[w], n, done) /\ Within(beat'[w], n, done)
        /\ \A v \in Workers \ {w} : held'[v] = held[v] /\ beat'[v] = beat[v]
    BY <1>1, <1>3, <2>1, <2>3
  <2> QED BY <1>2, <2>1, <2>4, CopiesStep
<1>8. CASE FinishRead(w)
  <2>1. pc[w] = "latest" /\ run[w] \in Runs /\ cache[run[w]] \in Record /\ held[w] \in Record
    BY <1>8, AtWork DEF FinishRead
  <2> PICK final : final = [cache[run[w]] EXCEPT !.status = held[w].status]
    OBVIOUS
  <2>2. /\ UNCHANGED <<row, cache, run, beat, todo, api>>
        /\ held' = [held EXCEPT ![w] = final]
    BY <1>8 DEF FinishRead
  <2>3. run[w] = r => (held[w].status = "completed" => done)
    BY <1>2, <2>1, Nobody DEF Within
  <2>4. run[w] = r => Within(final, n, done)
    BY <1>2, <2>1, <2>3, WithinKept
  <2>5. /\ run'[w] = r => Within(held'[w], n, done) /\ Within(beat'[w], n, done)
        /\ \A v \in Workers \ {w} : held'[v] = held[v]
    BY <1>1, <1>2, <2>1, <2>2, <2>4
  <2> QED BY <1>2, <2>2, <2>5, CopiesStep
<1>9. CASE FinishSave(w)
  <2>1. /\ UNCHANGED <<row, run, held, beat, todo, api>> /\ run[w] \in Runs
        /\ cache' = [cache EXCEPT ![run[w]] = held[w]]
    BY <1>9, AtWork DEF FinishSave
  <2>2. /\ Within(row'[r], n, done) /\ Within(cache'[r], n, done)
        /\ run'[w] = r => Within(held'[w], n, done) /\ Within(beat'[w], n, done)
    BY <1>1, <1>2, <2>1
  <2> QED BY <1>2, <2>1, <2>2, CopiesStep
<1>10. CASE FinishRow(w)
  <2>1. /\ UNCHANGED <<cache, todo, api>> /\ run[w] \in Runs
        /\ row' = [row EXCEPT ![run[w]] = held[w]]
        /\ run' = [run EXCEPT ![w] = None] /\ held' = [held EXCEPT ![w] = None]
        /\ beat' = [beat EXCEPT ![w] = None]
    BY <1>10, AtWork DEF FinishRow, Return, SaveRow
  <2>2. /\ Within(row'[r], n, done) /\ Within(cache'[r], n, done)
        /\ run'[w] = r => Within(held'[w], n, done) /\ Within(beat'[w], n, done)
        /\ \A v \in Workers \ {w} : run'[v] = run[v] /\ held'[v] = held[v] /\ beat'[v] = beat[v]
    BY <1>1, <1>2, <1>3, <2>1
  <2> QED BY <1>2, <2>1, <2>2, CopiesStep
<1> QED BY <1>4, <1>5, <1>6, <1>7, <1>8, <1>9, <1>10

\* ... by recovery, stalls and crashes ...
LEMMA RecoverCopies ==
  ASSUME Sound, NEW r \in Runs, NEW n \in Nat, NEW done, CopiesWithin(r, n, done),
         NEW w \in Workers, RecoverRows(w) \/ RecoverPublish(w) \/ Pause(w) \/ Crash(w)
  PROVE  CopiesWithin(r, n, done)'
<1> USE DEF otherVars, countVars, storeVars, taskVars, chatVars, workerVars
<1>1. /\ run = [v \in Workers |-> run[v]] /\ held = [v \in Workers |-> held[v]]
      /\ beat = [v \in Workers |-> beat[v]] /\ todo = [v \in Workers |-> todo[v]]
      /\ row \in [Runs -> Record \cup {None}] /\ cache \in [Runs -> Record \cup {None}]
  BY DEF Sound, TasksSound, StoresSound
<1>2. /\ Within(row[r], n, done) /\ Within(cache[r], n, done)
      /\ run[w] = r => Within(held[w], n, done) /\ Within(beat[w], n, done)
      /\ \A published \in todo[w] : published.run = r => Within(published.record, n, done)
  BY DEF CopiesWithin
<1>3. Within(None, n, done) 
  BY DEF Within
<1>4. CASE RecoverRows(w)
  <2>1. PICK stale \in SUBSET {s \in Runs : MayBeStale(s)} :
           /\ row' = [s \in Runs |-> IF s \in stale THEN Recovered(s) ELSE row[s]]
           /\ todo' = [todo EXCEPT ![w] = {[run |-> s, record |-> Recovered(s)] : s \in stale}]
    BY <1>4 DEF RecoverRows
  <2>2. UNCHANGED <<cache, run, held, beat, api>>
    BY <1>4 DEF RecoverRows
  <2>3. r \in stale => Within(Recovered(r), n, done)
    BY <1>2, WithinRecovered DEF MayBeStale
  <2>4. Within(row'[r], n, done)
    <3> HIDE DEF Recovered
    <3> QED BY <1>2, <2>1, <2>3
  <2>5. ASSUME NEW published \in todo'[w], published.run = r PROVE Within(published.record, n, done)
    <3>1. published \in {[run |-> s, record |-> Recovered(s)] : s \in stale}
      BY <1>1, <2>1
    <3>2. PICK s \in stale : published = [run |-> s, record |-> Recovered(s)]
      BY <3>1
    <3>3. s = r /\ published.record = Recovered(s)
      BY <2>5, <3>2
    <3> QED BY <2>3, <3>3
  <2>6. \A v \in Workers \ {w} : todo'[v] = todo[v]
    BY <1>1, <2>1
  <2> QED BY <1>2, <2>2, <2>4, <2>5, <2>6, CopiesStep
<1>5. CASE RecoverPublish(w)
  <2>1. PICK published \in todo[w] :
          LET s == published.run
              rec == published.record
              kept == IF rec.status \in Terminal THEN cache[s].started ELSE FALSE
          IN  /\ IF cache[s] # None
                 THEN /\ cache' = [cache EXCEPT ![s] = [rec EXCEPT !.started = kept]]
                      /\ queue' = IF rec.status \in Terminal THEN RemoveFirst(queue, s) ELSE queue
                 ELSE /\ IF rec.status \in Terminal
                         THEN UNCHANGED cache /\ queue' = RemoveFirst(queue, s)
                         ELSE CreateOrGetAndEnqueue(s, rec)
              /\ todo' = [todo EXCEPT ![w] = @ \ {published}]
              /\ IF todo[w] = {published} THEN Return(w) ELSE UNCHANGED <<pc, taskVars>>
              /\ UNCHANGED <<row, api>>
    BY <1>5 DEF RecoverPublish
  <2> DEFINE s == published.run
             rec == published.record
             kept == IF rec.status \in Terminal THEN cache[s].started ELSE FALSE
             saved == [rec EXCEPT !.started = kept]
  <2>2. s \in Runs /\ rec \in Record
    BY DEF Sound, TasksSound, TaskSound
  <2>3. s = r => Within(rec, n, done)
    BY <1>2
  <2>4. s = r => Within(saved, n, done)
    BY <2>2, <2>3, WithinKept
  <2>5. cache' \in {cache, [cache EXCEPT ![s] = saved], [cache EXCEPT ![s] = rec]}
    BY <2>1 DEF CreateOrGetAndEnqueue
  <2>6. Within(cache'[r], n, done)
    <3> HIDE DEF s, saved, rec
    <3> QED BY <1>1, <1>2, <2>2, <2>3, <2>4, <2>5
  <2>7. /\ \A v \in Workers \ {w} : /\ run'[v] = run[v] /\ held'[v] = held[v]
                                    /\ beat'[v] = beat[v] /\ todo'[v] = todo[v]
        /\ run'[w] = r => run[w] = r /\ held'[w] = held[w] /\ beat'[w] = beat[w]
        /\ todo'[w] \subseteq todo[w] /\ UNCHANGED <<row, api>>
    BY <1>1, <2>1, Nobody DEF Return
  <2> QED BY <1>2, <2>6, <2>7, CopiesStep
<1>6. CASE Pause(w)
  <2>1. UNCHANGED <<row, cache, run, held, beat, todo, api>>
    BY <1>6 DEF Pause
  <2> QED BY <2>1 DEF CopiesWithin
<1>7. CASE Crash(w)
  <2>1. /\ UNCHANGED <<row, cache, api>> /\ Return(w) /\ todo' = [todo EXCEPT ![w] = {}]
    BY <1>7 DEF Crash
  <2>2. /\ \A v \in Workers \ {w} : /\ run'[v] = run[v] /\ held'[v] = held[v]
                                    /\ beat'[v] = beat[v] /\ todo'[v] = todo[v]
        /\ run'[w] = None /\ todo'[w] = {}
    BY <1>1, <2>1 DEF Return
  <2> QED BY <1>2, <2>1, <2>2, Nobody, CopiesStep
<1> QED BY <1>4, <1>5, <1>6, <1>7

\* ... and by the requests.
LEMMA RequestCopies ==
  ASSUME Sound, NEW r \in Runs, NEW n \in Nat, NEW done, CopiesWithin(r, n, done),
         \/ UNCHANGED vars \/ LeaseExpires \/ Abort
         \/ \E s \in Runs : \/ SubmitRow(s) \/ SubmitEnqueue(s) \/ SubmitSend(s) \/ SubmitFails(s)
                            \/ AbortRead(s)
  PROVE  CopiesWithin(r, n, done)'
<1> USE DEF otherVars, countVars, storeVars, taskVars, chatVars, workerVars
<1>1. row \in [Runs -> Record \cup {None}] /\ cache \in [Runs -> Record \cup {None}]
  BY DEF Sound, StoresSound
<1>2. /\ Within(row[r], n, done) /\ Within(cache[r], n, done)
      /\ api # None /\ api.run = r => Within(api.record, n, done)
  BY DEF CopiesWithin
<1>3. Within(Fresh, n, done) 
  BY DEF Within, Fresh
<1>4. UNCHANGED <<run, held, beat, todo>>
  BY DEF vars, LeaseExpires, Abort, AbortTransition, AbortSave, AbortGet, AbortRow, SubmitRow,
     SubmitEnqueue, SubmitSend, SubmitFails, AbortRead
<1>5. SUFFICES /\ Within(row'[r], n, done) /\ Within(cache'[r], n, done)
               /\ api' # None /\ api'.run = r => Within(api'.record, n, done)
  BY <1>4 DEF CopiesWithin
<1>6. CASE UNCHANGED vars \/ LeaseExpires \/ \E s \in Runs : SubmitSend(s) \/ SubmitFails(s)
  <2>1. UNCHANGED <<row, cache, api>>
    BY <1>6 DEF vars, LeaseExpires, SubmitSend, SubmitFails
  <2> QED BY <1>2, <2>1
<1>7. ASSUME NEW s \in Runs, SubmitRow(s) \/ SubmitEnqueue(s)
      PROVE  /\ Within(row'[r], n, done) /\ Within(cache'[r], n, done) /\ UNCHANGED api
  <2>1. row'[r] \in {row[r], Fresh} /\ cache'[r] \in {cache[r], row[r]} /\ UNCHANGED api
    <3>1. CASE SubmitRow(s)
      <4> HIDE DEF Fresh
      <4>1. /\ row' \in {row, [row EXCEPT ![s] = Fresh]}
            /\ cache' \in {cache, [cache EXCEPT ![s] = row[s]]} /\ UNCHANGED api
        BY <3>1 DEF SubmitRow
      <4> QED BY <1>1, <4>1
    <3>2. CASE SubmitEnqueue(s)
      BY <1>1, <3>2 DEF SubmitEnqueue, CreateOrGetAndEnqueue
    <3> QED BY <1>7, <3>1, <3>2
  <2> HIDE DEF Fresh
  <2> QED BY <1>2, <1>3, <2>1
<1>8. ASSUME NEW s \in Runs, AbortRead(s)
      PROVE  /\ row' = row /\ cache' = cache
             /\ api'.run = r => Within(api'.record, n, done)
  BY <1>2, <1>8 DEF AbortRead
<1>9. CASE AbortTransition
  <2> DEFINE s == api.run
             intent == IF cache[s] = None THEN [api.record EXCEPT !.status = "aborting"]
                       ELSE IF cache[s].status \in Terminal THEN cache[s]
                       ELSE [cache[s] EXCEPT !.status = "aborting"]
  <2>1. s \in Runs /\ api.record \in Record /\ api # None /\ cache[s] \in Record \cup {None}
    BY <1>9 DEF AbortTransition, Sound, StoresSound, Requests
  <2>2. s = r => Within(intent, n, done)
    <3> SUFFICES ASSUME s = r PROVE Within(intent, n, done)
      OBVIOUS
    <3>1. Within(api.record, n, done) /\ Within(cache[s], n, done)
      BY <1>2, <2>1
    <3>2. \A rec \in Record : Within(rec, n, done) =>
             Within([rec EXCEPT !.status = "aborting"], n, done)
      BY WithinKept
    <3>3. cache[s] = None \/ cache[s] \in Record
      BY <2>1
    <3>4. Within([api.record EXCEPT !.status = "aborting"], n, done)
      BY <2>1, <3>1, <3>2
    <3>5. cache[s] # None => Within([cache[s] EXCEPT !.status = "aborting"], n, done)
      BY <3>1, <3>2, <3>3
    <3> HIDE DEF s
    <3> QED BY <3>1, <3>4, <3>5
  <2>3. /\ cache' \in {cache, [cache EXCEPT ![s] = intent]} /\ UNCHANGED row
        /\ \E p : api' = [api EXCEPT !.step = p, !.record = intent]
    BY <1>9 DEF AbortTransition
  <2>4. api \in Requests
    BY <2>1 DEF Sound, StoresSound
  <2> HIDE DEF intent
  <2>5. api'.run = s /\ api'.record = intent
    BY <2>3, <2>4 DEF Requests
  <2> HIDE DEF s
  <2> QED BY <1>1, <1>2, <2>1, <2>2, <2>3, <2>5
<1>10. CASE AbortSave
  <2> DEFINE s == api.run
             aborted == [api.record EXCEPT !.status = "aborted"]
  <2>1. s \in Runs /\ api.record \in Record /\ api # None /\ api \in Requests
    BY <1>10 DEF AbortSave, Sound, StoresSound, Requests
  <2>2. s = r => Within(aborted, n, done)
    BY <1>2, <2>1, WithinKept
  <2>3. /\ cache' = [cache EXCEPT ![s] = aborted] /\ UNCHANGED row
        /\ api' = [api EXCEPT !.step = "get"]
    BY <1>10 DEF AbortSave
  <2> HIDE DEF aborted
  <2>4. api'.run = s /\ api'.record = api.record
    BY <2>1, <2>3 DEF Requests
  <2> HIDE DEF s
  <2> QED BY <1>1, <1>2, <2>1, <2>2, <2>3, <2>4 DEF s
<1>11. CASE AbortGet
  <2>1. /\ api' = [api EXCEPT !.step = "row", !.record = cache[api.run]] /\ UNCHANGED <<row, cache>>
        /\ api \in Requests
    BY <1>11 DEF AbortGet, Sound, StoresSound
  <2>2. api'.run = api.run /\ api'.record = cache[api.run]
    BY <2>1 DEF Requests
  <2> QED BY <1>2, <2>1, <2>2
<1>12. CASE AbortRow
  <2>1. /\ row' = [row EXCEPT ![api.run] = api.record] /\ api' = None /\ UNCHANGED cache
        /\ api # None
    BY <1>12 DEF AbortRow, SaveRow
  <2> QED BY <1>1, <1>2, <2>1
<1>13. CASE \E s \in Runs : SubmitRow(s) \/ SubmitEnqueue(s)
  BY <1>2, <1>7, <1>13
<1>14. CASE \E s \in Runs : AbortRead(s)
  BY <1>2, <1>8, <1>14
<1>15. CASE Abort
  BY <1>9, <1>10, <1>11, <1>12, <1>15 DEF Abort
<1> QED BY <1>6, <1>13, <1>14, <1>15

\* Only the beginning of an attempt raises the attempts of a copy, and only an answer
\* completes one.
LEMMA CopiesNext ==
  ASSUME Sound, [Next]_vars, NEW r \in Runs, NEW n \in Nat, NEW done, CopiesWithin(r, n, done),
         \A w \in Workers :
            Begin(w) /\ run[w] = r => held[w].attempts + 1 <= n \/ run[w] \in aborts,
         \A w \in Workers : pc[w] = "completed" /\ run[w] = r => done
  PROVE  CopiesWithin(r, n, done)'
<1>1. ASSUME NEW w \in Workers, Work(w) PROVE CopiesWithin(r, n, done)'
  <2>1. CASE (\E s \in Runs : Take(w, s)) \/ Wait(w) \/ MarkRead(w) \/ MarkSave(w) \/ MarkRow(w)
    BY <2>1, StartCopies
  <2>2. CASE \/ Begin(w) \/ BeginRow(w) \/ ReadMessages(w) \/ Ask(w) \/ Answer(w)
             \/ BeatSave(w) \/ Finish(w) \/ FinishRead(w) \/ FinishSave(w) \/ FinishRow(w)
    BY <2>2, WorkCopies
  <2>3. CASE RecoverPublish(w)
    BY <2>3, RecoverCopies
  <2> QED BY <1>1, <2>1, <2>2, <2>3 DEF Work
<1>2. ASSUME NEW w \in Workers, Cancelled(w) \/ BeatRead(w) PROVE CopiesWithin(r, n, done)'
  BY <1>2, WorkCopies
<1>3. ASSUME NEW w \in Workers, RecoverRows(w) \/ Pause(w) \/ Crash(w)
      PROVE  CopiesWithin(r, n, done)'
  BY <1>3, RecoverCopies
<1> QED BY <1>1, <1>2, <1>3, RequestCopies DEF Next

-----------------------------------------------------------------------------
(* Attempts.                                                                *)

Faults == crashes + pauses

\* The run is executed by the holder of the lease.
Held(r) == \E w \in Workers : lease = w /\ run[w] = r /\ Executing(w)

AttemptsSound ==
    /\ crashes \in Nat
    /\ \A r \in Runs :
          /\ CopiesWithin(r, Faults + 1, TRUE)
          /\ cache[r] = None => CopiesWithin(r, 0, TRUE)
          /\ Queued(queue, r) /\ ~Held(r) => CopiesWithin(r, Faults, TRUE)
    /\ \A w \in Workers :
          pc[w] = "claimed" => held[w].attempts + (IF lease = w THEN 0 ELSE 1) <= Faults

\* Faults are only ever added, and a stall or a crash of a worker is one.
LEMMA Faulty ==
  ASSUME LostCounted, crashes \in Nat, [Next]_vars
  PROVE  /\ crashes' \in Nat /\ crashes' >= crashes
         /\ Faults \in Nat /\ Faults' \in Nat /\ Faults' >= Faults
         /\ (\E w \in Workers : Pause(w) \/ Crash(w)) => Faults' = Faults + 1
<1> USE DEF otherVars, countVars, storeVars, taskVars, chatVars, workerVars
<1>1. crashes' = crashes \/ crashes' = crashes + 1
  <2>1. ASSUME NEW w \in Workers, Work(w) \/ Cancelled(w) \/ BeatRead(w) \/ RecoverRows(w)
                                  \/ Pause(w) \/ Crash(w)
        PROVE  crashes' = crashes \/ crashes' = crashes + 1
    BY <2>1 DEF Work, Cancelled, BeatRead, RecoverRows, Pause, Crash, Take, Wait, MarkRead,
       MarkSave,
       MarkRow, Begin, BeginRow, ReadMessages, Ask, Answer, BeatSave, Finish,
       FinishRead, FinishSave, FinishRow, RecoverPublish
  <2> QED BY <2>1 DEF Next, vars, SubmitRow, SubmitEnqueue, SubmitSend, SubmitFails, AbortRead,
       Abort, AbortTransition, AbortSave, AbortGet, AbortRow, LeaseExpires
<1>2. pauses \in Nat /\ pauses' \in Nat /\ pauses' >= pauses
  BY PausesGrow DEF LostCounted
<1>3. ASSUME NEW w \in Workers, Pause(w) \/ Crash(w)
      PROVE  \/ crashes' = crashes /\ pauses' = pauses + 1
             \/ crashes' = crashes + 1 /\ pauses' = pauses
  BY <1>3 DEF Pause, Crash
<1> QED BY <1>1, <1>2, <1>3 DEF Faults

\* A run enters the queue with its record in Redis.
LEMMA Enters ==
  ASSUME Sound, [Next]_vars, NEW r \in Runs, Queued(queue', r), ~Queued(queue, r)
  PROVE  cache[r] = None
<1> USE DEF otherVars, countVars, storeVars, taskVars, chatVars, workerVars
<1>1. queue' # queue /\ \A s : queue' # RemoveFirst(queue, s)
  BY RemoveFirstSound DEF Sound, QueueSound
<1>2. \E s \in Runs : \E rec : CreateOrGetAndEnqueue(s, rec)
  <2>1. ASSUME NEW w \in Workers, Work(w) \/ Cancelled(w) \/ BeatRead(w) \/ RecoverRows(w)
                                  \/ Pause(w) \/ Crash(w)
        PROVE  \E s \in Runs : \E rec : CreateOrGetAndEnqueue(s, rec)
    <3>1. CASE \E s \in Runs : Take(w, s)
      BY <1>1, <3>1 DEF Take
    <3>2. CASE RecoverPublish(w)
      <4>1. \A published \in todo[w] : published.run \in Runs
        BY DEF Sound, TasksSound, TaskSound
      <4> QED BY <1>1, <3>2, <4>1 DEF RecoverPublish
    <3> QED BY <1>1, <2>1, <3>1, <3>2 DEF Work, Cancelled, BeatRead, RecoverRows, Pause, Crash,
         Wait,
         MarkRead, MarkSave, MarkRow, Begin, BeginRow, ReadMessages, Ask, Answer, BeatSave, Finish,
         FinishRead, FinishSave, FinishRow, Release
  <2>2. ASSUME NEW s \in Runs, SubmitEnqueue(s)
        PROVE  \E t \in Runs : \E rec : CreateOrGetAndEnqueue(t, rec)
    BY <2>2 DEF SubmitEnqueue
  <2> QED BY <1>1, <2>1, <2>2 DEF Next, vars, SubmitRow, SubmitSend, SubmitFails, AbortRead,
       Abort, AbortTransition, AbortSave, AbortGet, AbortRow, LeaseExpires
<1>3. PICK s \in Runs : \E rec : CreateOrGetAndEnqueue(s, rec)
  BY <1>2
<1>4. cache[s] = None /\ queue' = Append(queue, s)
  BY <1>1, <1>3 DEF CreateOrGetAndEnqueue
<1>5. ~Queued(queue, s)
  BY <1>4 DEF Sound, QueueSound
<1>6. r = s
  BY <1>4, AppendSound DEF Sound, QueueSound
<1> QED BY <1>4, <1>6

\* An attempt that the holder of the lease makes ends with the run out of the queue, unless
\* there is a fault.
LEMMA HolderStops ==
  ASSUME Sound, LostCounted, crashes \in Nat, [Next]_vars, NEW r \in Runs, Held(r), ~Held(r)'
  PROVE  Faults' = Faults + 1 \/ ~Queued(queue', r)
<1>1. PICK w \in Workers : lease = w /\ run[w] = r /\ Executing(w)
  BY DEF Held
<1>2. CASE \E v \in Workers : Pause(v) \/ Crash(v)
  BY <1>2, Faulty
<1>3. CASE Finish(w)
  <2>1. queue' = RemoveFirst(queue, r)
    BY <1>1, <1>3 DEF Finish, Release
  <2> QED BY <2>1, RemoveFirstSound DEF Sound, QueueSound
<1>4. ASSUME ~(\E v \in Workers : Pause(v) \/ Crash(v)), ~Finish(w) PROVE FALSE
  <2>1. CASE UNCHANGED <<pc, run>> /\ (lease' = lease \/ (lease = Dead /\ lease' = None))
    BY <1>1, <2>1, Nobody DEF Held, Executing
  <2>2. ASSUME NEW v \in Workers, Moves(v), TurnMoves(v) PROVE FALSE
    <3>1. CASE v = w
      BY <1>1, <1>4, <2>2, <3>1, Nobody DEF Held, TurnMoves, Executing, Terminal
    <3>2. CASE v # w
      <4>1. lease' = lease
        BY <1>1, <2>2, <3>2, Nobody DEF TurnMoves
      <4>2. pc'[w] = pc[w] /\ run'[w] = run[w]
        BY <2>2, <3>2 DEF Moves
      <4> QED BY <1>1, <4>1, <4>2 DEF Held, Executing
    <3> QED BY <3>1, <3>2
  <2> QED BY <1>4, <2>1, <2>2, Turns
<1> QED BY <1>2, <1>3, <1>4

\* A task claims its turn with few attempts behind it.
LEMMA ClaimsFew ==
  ASSUME Sound, LostCounted, AttemptsSound, [Next]_vars, NEW w \in Workers, pc'[w] = "claimed"
  PROVE  held'[w].attempts + (IF lease' = w THEN 0 ELSE 1) <= Faults'
<1>1. /\ Faults \in Nat /\ Faults' \in Nat /\ Faults' >= Faults
      /\ (\E v \in Workers : Pause(v)) => Faults' = Faults + 1
  BY Faulty DEF AttemptsSound
<1>2. ASSUME pc[w] = "claimed", held'[w] = held[w], lease' = w \/ lease # w \/ Faults' = Faults + 1
      PROVE  held'[w].attempts + (IF lease' = w THEN 0 ELSE 1) <= Faults'
  <2>1. held[w].attempts \in Nat
    BY <1>2, AtWork DEF Record
  <2>2. held[w].attempts + (IF lease = w THEN 0 ELSE 1) <= Faults
    BY <1>2 DEF AttemptsSound
  <2> QED BY <1>1, <1>2, <2>1, <2>2
<1>3. CASE UNCHANGED <<pc, held>> /\ (lease' = lease \/ (lease = Dead /\ lease' = None))
  BY <1>2, <1>3, Nobody
<1>4. CASE \E v \in Workers : Pause(v)
  <2>1. UNCHANGED <<pc, held>>
    BY <1>4 DEF Pause, workerVars, taskVars
  <2> QED BY <1>1, <1>2, <1>4, <2>1
<1>5. ASSUME NEW v \in Workers, Moves(v), TurnMoves(v)
      PROVE  held'[w].attempts + (IF lease' = w THEN 0 ELSE 1) <= Faults'
  <2>1. CASE v # w
    <3>1. pc[w] = "claimed" /\ held'[w] = held[w] /\ (lease' = w \/ lease # w)
      BY <1>5, <2>1, Nobody DEF Moves, TurnMoves
    <3> QED BY <1>2, <3>1
  <2>2. CASE v = w
    <3>1. /\ pc[w] = "wait" /\ UNCHANGED held /\ lease \in {None, w} /\ lease' = w
          /\ queue # <<>> /\ Head(queue) = run[w]
      BY <1>5, <2>2 DEF TurnMoves, Turn, Executing, Terminal
    <3>2. run[w] \in Runs /\ held[w] \in Record
      BY <3>1, AtWork
    <3>3. Queued(queue, run[w])
      BY <3>1 DEF Queued, Sound, QueueSound
    <3>4. ~Held(run[w])
      BY <3>1, Nobody DEF Held, Executing, Terminal
    <3>5. CopiesWithin(run[w], Faults, TRUE)
      BY <3>2, <3>3, <3>4 DEF AttemptsSound
    <3>6. held[w].attempts <= Faults /\ held[w].attempts \in Nat
      BY <3>2, <3>5, Nobody DEF CopiesWithin, Within, Record
    <3> QED BY <1>1, <3>1, <3>6
  <2> QED BY <2>1, <2>2
<1> QED BY <1>3, <1>4, <1>5, Turns

\* An attempt begins.
LEMMA BeginsHeld ==
  ASSUME Sound, NEW w \in Workers, Begin(w), run[w] \notin aborts
  PROVE  /\ pc[w] = "claimed" /\ UNCHANGED <<lease, queue, run>> /\ Executing(w)'
         /\ \A v \in Workers : Executing(v) => Executing(v)'
<1>1. pc = [v \in Workers |-> pc[v]]
  BY DEF Sound, TasksSound
<1> QED BY <1>1 DEF Begin, Step, Executing, otherVars, taskVars

\* Arithmetic of the bounds.
LEMMA Bounds ==
  ASSUME NEW f \in Nat, NEW g \in Nat, f <= g
  PROVE  f + 1 \in Nat /\ g + 1 \in Nat /\ f + 1 <= g + 1 /\ 0 <= g /\ 0 \in Nat
OBVIOUS

\* AttemptsSound is inductive.
LEMMA AttemptsNext ==
  ASSUME Sound, LostCounted, AttemptsSound, [Next]_vars
  PROVE  AttemptsSound'
<1>1. /\ crashes' \in Nat /\ Faults \in Nat /\ Faults' \in Nat /\ Faults' >= Faults
  BY Faulty DEF AttemptsSound
<1> PICK f \in Nat, g \in Nat : f = Faults /\ g = Faults'
  BY <1>1
<1>2. f <= g /\ f + 1 \in Nat /\ g + 1 \in Nat /\ f + 1 <= g + 1 /\ 0 <= g /\ 0 \in Nat
  <2>1. f <= g
    BY <1>1
  <2> QED BY <2>1, Bounds
<1>3. ASSUME NEW w \in Workers, Begin(w)
      PROVE  /\ run[w] \in Runs /\ cache[run[w]] # None
             /\ held[w].attempts \in Nat /\ held[w].attempts <= f
             /\ lease # w => held[w].attempts + 1 <= f
  <2>1. pc[w] = "claimed"
    BY <1>3 DEF Begin
  <2>2. held[w].attempts + (IF lease = w THEN 0 ELSE 1) <= f
    BY <2>1 DEF AttemptsSound
  <2>3. run[w] \in Runs /\ cache[run[w]] # None /\ held[w].attempts \in Nat
    BY <2>1, AtWork DEF Record
  <2> QED BY <1>2, <2>2, <2>3
<1>4. ASSUME NEW r \in Runs PROVE CopiesWithin(r, g + 1, TRUE)'
  <2>1. CopiesWithin(r, f + 1, TRUE)
    BY DEF AttemptsSound
  <2>2. CopiesWithin(r, g + 1, TRUE)
    BY <1>2, <2>1, WithinMore
  <2>3. \A w \in Workers : Begin(w) => held[w].attempts + 1 <= g + 1
    BY <1>2, <1>3
  <2> QED BY <1>2, <2>2, <2>3, CopiesNext
<1>5. ASSUME NEW r \in Runs, cache'[r] = None PROVE CopiesWithin(r, 0, TRUE)'
  <2>1. cache[r] = None
    <3>1. Kept
      BY SoundNext
    <3> QED BY <1>5, <3>1 DEF Kept
  <2>2. CopiesWithin(r, 0, TRUE)
    BY <2>1 DEF AttemptsSound
  <2> QED BY <1>3, <2>1, <2>2, CopiesNext
<1>6. ASSUME NEW r \in Runs, Queued(queue', r), ~Held(r)' PROVE CopiesWithin(r, g, TRUE)'
  <2>1. CopiesWithin(r, g, TRUE)
    <3>1. CASE Queued(queue, r) /\ ~Held(r)
      <4>1. CopiesWithin(r, f, TRUE)
        BY <3>1 DEF AttemptsSound
      <4> QED BY <1>2, <4>1, WithinMore
    <3>2. CASE ~Queued(queue, r)
      <4>1. cache[r] = None
        BY <1>6, <3>2, Enters
      <4>2. CopiesWithin(r, 0, TRUE)
        BY <4>1 DEF AttemptsSound
      <4> QED BY <1>2, <4>2, WithinMore
    <3>3. CASE Held(r)
      <4>1. g = f + 1
        BY <1>6, <3>3, HolderStops DEF AttemptsSound
      <4> QED BY <4>1 DEF AttemptsSound
    <3> QED BY <3>1, <3>2, <3>3
  <2>2. ASSUME NEW w \in Workers, Begin(w), run[w] = r, r \notin aborts
        PROVE  held[w].attempts + 1 <= g
    <3>1. lease # w
      BY <1>6, <2>2, BeginsHeld DEF Held
    <3> QED BY <1>2, <1>3, <2>2, <3>1
  <2> QED BY <1>2, <2>1, <2>2, CopiesNext
<1>7. \A w \in Workers :
         pc'[w] = "claimed" => held'[w].attempts + (IF lease' = w THEN 0 ELSE 1) <= Faults'
  BY ClaimsFew
<1> QED BY <1>1, <1>4, <1>5, <1>6, <1>7 DEF AttemptsSound

\* Nothing is tried at first.
LEMMA AttemptsInit == Init => AttemptsSound
BY DEF Init, AttemptsSound, CopiesWithin, Within, Queued, Faults

-----------------------------------------------------------------------------
(* Completed runs.                                                          *)

CompletedSound ==
    /\ \A r \in Runs : CopiesWithin(r, Faults + 1, r \in answered)
    /\ \A w \in Workers : pc[w] = "completed" => run[w] \in answered

\* Answers are kept, and a task that is completed has one.
LEMMA AnswersGrow ==
  ASSUME Sound, ChatSound, CompletedSound, [Next]_vars
  PROVE  /\ \A r \in Runs : r \in answered => r \in answered'
         /\ \A w \in Workers : pc'[w] = "completed" => run'[w] \in answered'
<1> USE DEF otherVars, storeVars, chatVars, taskVars
<1>1. pc = [w \in Workers |-> pc[w]] /\ \A w \in Workers : pc[w] = "completed" => run[w] \in Runs
  BY AtWork DEF Sound, TasksSound
<1>2. CASE UNCHANGED <<asked, answered>> /\ \A v \in Workers : StaysTalking(v)
  BY <1>2 DEF StaysTalking, CompletedSound
<1>3. ASSUME NEW w \in Workers, ReadMessages(w) \/ Ask(w)
      PROVE  /\ UNCHANGED <<answered, run>>
             /\ \A v \in Workers : pc'[v] = "completed" =>
                   pc[v] = "completed" \/ run[v] \in answered
  BY <1>1, <1>3 DEF ReadMessages, Ask, Step
<1>4. ASSUME NEW w \in Workers, Answer(w)
      PROVE  /\ \A r \in Runs : r \in answered => r \in answered'
             /\ \A v \in Workers : pc'[v] = "completed" => run'[v] \in answered'
  <2>1. pc[w] = "answer" /\ UNCHANGED run
    BY <1>4 DEF Answer
  <2>2. run[w] \in Runs
    BY <2>1, AtWork
  <2>3. \A v \in Workers \ {w} : pc'[v] = pc[v]
    BY <1>1, <1>4 DEF Answer, Step
  <2>4. \A r \in Runs : r \in answered => r \in answered'
    BY <1>4 DEF Answer, Write
  <2>5. pc'[w] = "completed" => run[w] \in answered'
    BY <1>1, <1>4 DEF Answer, Write, Step
  <2> QED BY <1>1, <2>1, <2>3, <2>4, <2>5 DEF CompletedSound
<1> QED BY <1>2, <1>3, <1>4, Talks DEF CompletedSound

\* CompletedSound is inductive.
LEMMA CompletedNext ==
  ASSUME Sound, LostCounted, ChatSound, AttemptsSound, CompletedSound, [Next]_vars
  PROVE  CompletedSound'
<1>1. ASSUME NEW r \in Runs PROVE CopiesWithin(r, Faults + 1, r \in answered)'
  <2>1. Faults \in Nat /\ Faults' \in Nat /\ Faults <= Faults'
    BY Faulty DEF AttemptsSound
  <2> PICK f \in Nat, g \in Nat : f = Faults + 1 /\ g = Faults' + 1 /\ f <= g
    BY <2>1, Bounds
  <2> PICK done, more : done = (r \in answered) /\ more = (r \in answered')
    OBVIOUS
  <2>2. done => more
    BY AnswersGrow
  <2>3. CopiesWithin(r, g, more)
    <3>1. CopiesWithin(r, f, done)
      BY DEF CompletedSound
    <3> QED BY <2>2, <3>1, WithinMore
  <2>4. \A w \in Workers : Begin(w) => held[w].attempts + 1 <= g
    <3> SUFFICES ASSUME NEW w \in Workers, Begin(w) PROVE held[w].attempts + 1 <= g
      OBVIOUS
    <3>1. pc[w] = "claimed"
      BY DEF Begin
    <3>2. held[w].attempts \in Nat /\ held[w].attempts + (IF lease = w THEN 0 ELSE 1) <= Faults
      BY <3>1, AtWork DEF AttemptsSound, Record
    <3> QED BY <2>1, <3>2
  <2>5. \A w \in Workers : pc[w] = "completed" /\ run[w] = r => more
    BY <2>2 DEF CompletedSound
  <2>6. CopiesWithin(r, g, more)'
    BY <2>3, <2>4, <2>5, CopiesNext
  <2> QED BY <2>6
<1> QED BY <1>1, AnswersGrow DEF CompletedSound

\* Nothing is completed at first.
LEMMA CompletedInit == Init => CompletedSound
BY DEF Init, CompletedSound, CopiesWithin, Within

-----------------------------------------------------------------------------
(* The theorems.                                                            *)

IInv == Sound /\ LostCounted /\ ChatSound /\ AttemptsSound /\ CompletedSound

\* The invariant holds throughout.
LEMMA Inductive == Spec => []IInv
<1>1. Init => IInv
  BY SoundInit, LostInit, ChatInit, AttemptsInit, CompletedInit DEF IInv
<1>2. IInv /\ [Next]_vars => IInv'
  BY SoundNext, LostNext, ChatNext, AttemptsNext, CompletedNext DEF IInv
<1> QED BY <1>1, <1>2, PTL DEF Spec

\* TypeOK: in particular, a run is never queued twice, however often it is submitted, taken
\* or recovered, and a task has a run exactly while it executes one.
THEOREM TypeCorrect == Spec => []TypeOK
<1>1. Sound => TypeOK
  <2> SUFFICES ASSUME Sound PROVE TypeOK
    OBVIOUS
  <2>1. \A w \in Workers : TaskSound(pc[w], run[w], held[w], beat[w], todo[w])
    BY DEF Sound, TasksSound
  <2>2. \A w \in Workers : /\ run[w] \in Runs \cup {None}
                           /\ (pc[w] \in {"idle", "recover"}) = (run[w] = None)
                           /\ todo[w] \subseteq [run : Runs, record : Record]
                           /\ (todo[w] # {}) = (pc[w] = "recover")
    BY <2>1, Nobody DEF TaskSound
  <2>3. \A r \in Runs : submit[r] \in {"idle", "commit", "send"}
    BY DEF Sound, StoresSound
  <2> QED BY <2>2, <2>3 DEF Sound, StoresSound, QueueSound, TypeOK
<1> QED BY <1>1, Inductive, PTL DEF IInv

\* OneAtATime: the claim script, the release script and the queue give one task at a time its
\* turn; every task that executes without the lease has stalled for longer than it.
THEOREM TurnsExclude == Spec => []OneAtATime
BY OneWorks, Inductive, PTL DEF IInv

\* CollisionsNeedStalls: retries, recovery and redelivery find the messages of earlier attempts;
\* only a task that stalled beside another runs into the unique constraint.
THEOREM CollisionsAreStalls == Spec => []CollisionsNeedStalls
BY Inductive, PTL DEF IInv, ChatSound

\* CompletedIsAnswered: no copy of a record, however stale, is saved as completed for a run
\* without an answer.
THEOREM CompletedHasAnswer == Spec => []CompletedIsAnswered
<1>1. IInv => CompletedIsAnswered
  BY DEF IInv, CompletedSound, CopiesWithin, Within, CompletedIsAnswered
<1> QED BY <1>1, Inductive, PTL

\* ExtraAttemptsNeedFaults: the attempts of a row count the crashes and the stalls.
THEOREM ExtraAttemptsAreFaults == Spec => []ExtraAttemptsNeedFaults
<1>1. ASSUME IInv, NEW r \in Runs, row[r] # None PROVE row[r].attempts <= 1 + crashes + pauses
  <2>1. row[r].attempts <= Faults + 1 /\ crashes \in Nat /\ pauses \in Nat
    BY <1>1 DEF IInv, AttemptsSound, LostCounted, CopiesWithin, Within
  <2>2. row[r].attempts \in Nat
    BY <1>1, Nobody DEF IInv, Sound, StoresSound, Record
  <2> QED BY <2>1, <2>2 DEF Faults
<1>2. IInv => ExtraAttemptsNeedFaults
  BY <1>1 DEF ExtraAttemptsNeedFaults
<1> QED BY <1>2, Inductive, PTL
=============================================================================

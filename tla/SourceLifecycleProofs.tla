------------------------ MODULE SourceLifecycleProofs ------------------------
(***************************************************************************)
(* Proofs about DocumentIndexing for any tasks, clock, deletions and lost   *)
(* workers, and about SourceLifecycle for any clock, workers, candidates    *)
(* and faults: what was deleted stays deleted, from the producers' stamps   *)
(* to the stores.                                                           *)
(*                                                                          *)
(* IndexSafe is the document's invariant: an open transaction marks what    *)
(* its task or request has come to (OpenMarks), and what was published      *)
(* before a mark began bears an earlier time than the mark (Dated), however *)
(* the transactions overlap.  Every step of the composition is one of the   *)
(* inbox or leaves the inbox alone, so the theorems of MemoryInboxProofs    *)
(* hold of it; what is left to prove is that a deletion is stamped after    *)
(* what it deletes.                                                         *)
(***************************************************************************)
EXTENDS SourceLifecycle, MemoryInboxProofs, FiniteSetTheorems

-----------------------------------------------------------------------------
(* The document and its index tasks.                                       *)

\* An open transaction marks with what its execution or its request has begun.
OpenMarks ==
    \A m \in marking :
        /\ m.by \in IndexTasks => step[m.by] \in DOMAIN MarkOf /\ m.status = MarkOf[step[m.by]]
        /\ m.by = User => m.status \in {"queued", "uploaded", "moved"}
        /\ m.status # "moved" => m.task \in IndexTasks
        /\ \A n \in marking : n.by = m.by => n = m

\* A running record has an execution under way that has not come to its end, or a message.
RunningHasExecution ==
    /\ \A i \in IndexTasks : record[i] = "running" =>
          i \in sent \/ step[i] \in {"start", "stage", "finish", "settle"}
    /\ Gone => \A i \in IndexTasks : record[i] = "none"

\* What was published before a mark began bears an earlier time than the mark.
Dated ==
    /\ \A t \in versions : t <= now
    /\ \A m \in marking : m.at <= now /\ \A t \in m.past : t < m.at
    /\ doc.updated_at <= now /\ \A t \in doc.past : t < doc.updated_at
    /\ \A d \in deleting \cup deletions : \A t \in d.past : t < d.at

\* Only index tasks publish versions, and only requests to delete make deletions.
Sourced ==
    /\ IndexTasks = {} => versions = {}
    /\ MaxDeletions = 0 => deleting = {} /\ deletions = {}

IndexSafe ==
    /\ IndexTypeOK /\ OpenMarks /\ IndexedIsPublished /\ RunningHasExecution
    /\ Dated /\ Sourced

\* The steps of the document, and of the clock without it.
IndexStep == IndexNext \/ (UNCHANGED rowVars /\ now' \in Times /\ now <= now')

\* The invariant holds at first.
LEMMA IndexSafeInit == IndexInit => IndexSafe
BY IndexingAssumption
DEF IndexInit, IndexSafe, IndexTypeOK, OpenMarks, IndexedIsPublished, RunningHasExecution, Dated,
    Sourced, Times, Statuses, Steps, Gone

\* The row a mark leaves.
LEMMA MarkedRow ==
  ASSUME IndexTypeOK, NEW m \in marking, m.status # "moved"
  PROVE  /\ Marked(m) \in [status : Statuses \cup {"deleted"}, marked : Times,
                           updated_at : Times, past : SUBSET Times]
         /\ Marked(m) = doc \/ /\ Marked(m).status = m.status /\ Marked(m).marked = m.at
                               /\ Marked(m).updated_at = m.at /\ Marked(m).past = m.past
BY DEF IndexTypeOK, Marked

\* The row a move leaves.
LEMMA MovedRow ==
  ASSUME IndexTypeOK, NEW m \in marking
  PROVE  /\ Moved(m) \in [status : Statuses \cup {"deleted"}, marked : Times,
                          updated_at : Times, past : SUBSET Times]
         /\ Moved(m).status = doc.status /\ Moved(m).marked = doc.marked
         /\ Moved(m).updated_at = m.at /\ Moved(m).past = m.past
BY DEF IndexTypeOK, Moved

\* A transaction that begins, and its mark.
LEMMA BeginStep ==
  ASSUME IndexTypeOK, NEW by, NEW task, NEW status, Begin(by, task, status)
  PROVE  \E m : /\ marking' = marking \cup {m}
                /\ \A n \in marking : n.by # by
                /\ m.by = by /\ m.task = task /\ m.status = status /\ m.read = doc.status
                /\ m.at = now' /\ m.past = versions
                /\ now' = now + 1 /\ now' \in Times /\ ~Gone
                /\ m \in [by : {by}, task : {task}, status : {status}, read : Statuses,
                          at : Times, past : SUBSET Times]
<1> PICK m : m = [by |-> by, task |-> task, status |-> status, read |-> doc.status,
                  at |-> now', past |-> versions]
  OBVIOUS
<1>1. now' = now + 1 /\ now' \in Times
  BY IndexingAssumption DEF Begin, Tick, Times, IndexTypeOK
<1>2. doc.status \in Statuses
  BY DEF Begin, Gone, IndexTypeOK
<1>3. versions \in SUBSET Times
  BY DEF IndexTypeOK
<1>4. /\ m.by = by /\ m.task = task /\ m.status = status /\ m.read = doc.status
      /\ m.at = now' /\ m.past = versions
  OBVIOUS
<1>5. m \in [by : {by}, task : {task}, status : {status}, read : Statuses,
            at : Times, past : SUBSET Times]
  BY <1>1, <1>2, <1>3
<1>6. marking' = marking \cup {m} /\ ~Gone /\ \A n \in marking : n.by # by
  BY DEF Begin
<1> HIDE DEF Begin
<1> QED BY <1>1, <1>4, <1>5, <1>6

\* IndexTypeOK is inductive, with OpenMarks.
LEMMA IndexTypeStep ==
  ASSUME IndexTypeOK, OpenMarks, IndexStep PROVE IndexTypeOK'
<1>1. ASSUME NEW i \in IndexTasks, SubmitIndex(i) \/ RetryIndex(i) \/ CancelIndex(i)
      PROVE  IndexTypeOK'
  <2>1. PICK s \in Statuses : Begin(User, i, s)
    BY <1>1 DEF SubmitIndex, RetryIndex, CancelIndex, Statuses
  <2>2. sent' \subseteq IndexTasks
    BY <1>1 DEF SubmitIndex, RetryIndex, CancelIndex, IndexTypeOK
  <2> QED BY <1>1, <2>1, <2>2, BeginStep DEF SubmitIndex, RetryIndex, CancelIndex, IndexTypeOK
<1>2. CASE CommitRequest
  <2> PICK m \in marking : /\ m.status # "moved" /\ marking' = marking \ {m}
                           /\ doc' = Marked(m) /\ sent' \subseteq sent \cup {m.task}
                           /\ m.status # "queued" => sent' = sent
                           /\ record' = [record EXCEPT ![m.task] =
                                 IF m.status = "queued" THEN "pending" ELSE "cancelled"]
    BY <1>2 DEF CommitRequest
  <2>1. record' \in [IndexTasks -> {"none"} \cup DOMAIN AllowedTransitions]
    BY DEF IndexTypeOK, AllowedTransitions
  <2>2. sent' \subseteq IndexTasks
    BY DEF IndexTypeOK, OpenMarks
  <2> QED BY <1>2, <2>1, <2>2, MarkedRow DEF CommitRequest, IndexTypeOK
<1>3. CASE AbandonRequest
  BY <1>3 DEF AbandonRequest, IndexTypeOK
<1>4. CASE MoveDocument
  BY <1>4, BeginStep DEF MoveDocument, IndexTypeOK
<1>5. CASE CommitMove
  BY <1>5, MovedRow DEF CommitMove, IndexTypeOK
<1>6. ASSUME NEW i \in IndexTasks, BeginMark(i) PROVE IndexTypeOK'
  <2>1. MarkOf[step[i]] \in Statuses
    BY <1>6 DEF BeginMark, MarkOf, Statuses
  <2> QED BY <1>6, <2>1, BeginStep DEF BeginMark, IndexTypeOK
<1>7. ASSUME NEW i \in IndexTasks, CommitMark(i) PROVE IndexTypeOK'
  <2> PICK m \in marking : m.by = i /\ marking' = marking \ {m} /\ doc' = Marked(m)
                           /\ versions' \subseteq versions \cup {Marked(m).updated_at}
    BY <1>7 DEF CommitMark
  <2>1. After[step[i]] \in Steps /\ m.status # "moved"
    BY DEF OpenMarks, MarkOf, After, Steps
  <2> QED BY <1>7, <2>1, MarkedRow DEF CommitMark, MoveTo, IndexTypeOK
<1>8. ASSUME NEW i \in IndexTasks,
             \/ StartTask(i) \/ MissDocument(i) \/ ReportStage(i) \/ SettleTask(i)
             \/ RaiseError(i) \/ Acknowledge(i)
      PROVE  IndexTypeOK'
  <2>1. step' \in [IndexTasks -> Steps]
    BY <1>8 DEF StartTask, MissDocument, ReportStage, SettleTask, RaiseError, Acknowledge, MoveTo,
                Steps, IndexTypeOK
  <2>2. record' \in [IndexTasks -> {"none"} \cup DOMAIN AllowedTransitions]
    BY <1>8 DEF StartTask, MissDocument, ReportStage, SettleTask, RaiseError, Acknowledge,
                Transition, AllowedTransitions, IndexTypeOK
  <2>3. marking' \subseteq marking /\ sent' \subseteq sent
        /\ UNCHANGED <<now, doc, deleting, deletions, versions, losses>>
    BY <1>8 DEF StartTask, MissDocument, ReportStage, SettleTask, RaiseError, Acknowledge
  <2> QED BY <2>1, <2>2, <2>3 DEF IndexTypeOK
<1>9. ASSUME NEW i \in IndexTasks, LoseWorker(i) PROVE IndexTypeOK'
  BY <1>9, IndexingAssumption DEF LoseWorker, MoveTo, Steps, IndexTypeOK
<1>10. CASE ReadForDeletion
  BY <1>10 DEF ReadForDeletion, IndexTypeOK
<1>11. CASE CommitDeletion
  BY <1>11 DEF CommitDeletion, IndexTypeOK
<1>12. CASE UNCHANGED rowVars /\ now' \in Times
  BY <1>12 DEF rowVars, IndexTypeOK
<1> QED BY <1>1, <1>2, <1>6, <1>7, <1>8, <1>9, <1>10, <1>11, <1>12, <1>4, <1>5, <1>3
  DEF IndexStep, IndexNext

\* OpenMarks is inductive.
LEMMA OpenMarksStep ==
  ASSUME IndexTypeOK, OpenMarks, IndexStep PROVE OpenMarks'
<1>1. CASE (\E i \in IndexTasks : SubmitIndex(i) \/ RetryIndex(i) \/ CancelIndex(i)) \/ MoveDocument
  <2>1. PICK s \in {"queued", "uploaded", "moved"} :
           \E task : Begin(User, task, s) /\ (s # "moved" => task \in IndexTasks)
    BY <1>1 DEF SubmitIndex, RetryIndex, CancelIndex, MoveDocument
  <2>2. PICK m : marking' = marking \cup {m} /\ m.by = User /\ m.status = s
                 /\ (s # "moved" => m.task \in IndexTasks) /\ \A n \in marking : n.by # User
    BY <2>1, BeginStep
  <2>3. step' = step
    BY <1>1 DEF SubmitIndex, RetryIndex, CancelIndex, MoveDocument
  <2> QED BY <2>2, <2>3, IndexingAssumption DEF OpenMarks
<1>2. ASSUME NEW i \in IndexTasks, BeginMark(i) PROVE OpenMarks'
  <2>1. PICK m : marking' = marking \cup {m} /\ m.by = i /\ m.status = MarkOf[step[i]]
                 /\ m.task = i /\ \A n \in marking : n.by # i
    BY <1>2, BeginStep DEF BeginMark
  <2> QED BY <1>2, <2>1, IndexingAssumption DEF BeginMark, OpenMarks
<1>3. ASSUME NEW i \in IndexTasks, NEW s, MoveTo(i, s), marking' \subseteq marking,
             \A m \in marking' : m.by # i
      PROVE  OpenMarks'
  BY <1>3 DEF OpenMarks, MoveTo, IndexTypeOK
<1>4. ASSUME NEW i \in IndexTasks, CommitMark(i) PROVE OpenMarks'
  BY <1>3, <1>4 DEF CommitMark, OpenMarks
<1>5. ASSUME NEW i \in IndexTasks, MissDocument(i) \/ RaiseError(i) \/ LoseWorker(i)
      PROVE  OpenMarks'
  BY <1>3, <1>5 DEF MissDocument, RaiseError, LoseWorker
<1>6. ASSUME NEW i \in IndexTasks,
             StartTask(i) \/ ReportStage(i) \/ SettleTask(i) \/ Acknowledge(i)
      PROVE  OpenMarks'
  <2>1. step[i] \notin DOMAIN MarkOf
    BY <1>6 DEF StartTask, ReportStage, SettleTask, Acknowledge, MarkOf
  <2>2. marking' = marking /\ \E s : MoveTo(i, s)
    BY <1>6 DEF StartTask, ReportStage, SettleTask, Acknowledge
  <2> QED BY <1>3, <2>1, <2>2 DEF OpenMarks
<1>7. CASE CommitMove \/ CommitRequest \/ AbandonRequest
  BY <1>7 DEF CommitMove, CommitRequest, AbandonRequest, OpenMarks
<1>8. CASE ReadForDeletion \/ CommitDeletion \/ UNCHANGED rowVars
  BY <1>8 DEF ReadForDeletion, CommitDeletion, rowVars, OpenMarks
<1> QED BY <1>1, <1>2, <1>4, <1>5, <1>6, <1>7, <1>8 DEF IndexStep, IndexNext

\* What a mark that commits does to the row and the versions.
MarkCommits(m) ==
    /\ doc' = Marked(m) /\ m.status # "moved" /\ marking' \subseteq marking
    /\ \/ versions' = versions /\ m.status # "indexed"
       \/ versions' = versions \cup {Marked(m).updated_at} /\ IndexTasks # {}
    /\ UNCHANGED <<now, deleting, deletions>>

MoveCommits(m) ==
    /\ doc' = Moved(m) /\ marking' \subseteq marking
    /\ UNCHANGED <<now, versions, deleting, deletions>>

MarkBegins(m) ==
    /\ marking' = marking \cup {m}
    /\ m.at = now' /\ m.past = versions /\ now' = now + 1
    /\ UNCHANGED <<doc, versions, deleting, deletions>>

\* What a step does to the row, the versions and the deletions: a mark or a move begins or is
\* committed, one deletion is read or committed, or nothing happens to them.
LEMMA RowStep ==
  ASSUME IndexTypeOK, OpenMarks, IndexStep
  PROVE  \/ \E m \in marking : MarkCommits(m) \/ MoveCommits(m)
         \/ \E m : MarkBegins(m)
         \/ /\ Cardinality(deleting \cup deletions) < MaxDeletions
            /\ deleting' = deleting \cup
                  {[at |-> doc.updated_at, past |-> doc.past, known |-> versions]}
            /\ UNCHANGED <<now, doc, marking, versions, deletions>>
         \/ /\ doc'.status = "deleted" /\ doc'.updated_at = doc.updated_at
            /\ doc'.past = doc.past
            /\ deleting' \cup deletions' = deleting \cup deletions
            /\ UNCHANGED <<now, marking, versions>>
         \/ /\ marking' \subseteq marking /\ now <= now'
            /\ UNCHANGED <<doc, versions, deleting, deletions>>
<1>1. CASE \/ MoveDocument
           \/ \E i \in IndexTasks :
                 SubmitIndex(i) \/ RetryIndex(i) \/ CancelIndex(i) \/ BeginMark(i)
  <2>1. PICK by, task, s : Begin(by, task, s)
    BY <1>1 DEF SubmitIndex, RetryIndex, CancelIndex, BeginMark, MoveDocument
  <2>2. UNCHANGED <<doc, versions, deleting, deletions>>
    BY <1>1 DEF SubmitIndex, RetryIndex, CancelIndex, BeginMark, MoveDocument
  <2> QED BY <2>1, <2>2, BeginStep DEF MarkBegins
<1>2. ASSUME CommitRequest PROVE \E m \in marking : MarkCommits(m)
  <2> PICK m \in marking : /\ m.by = User /\ m.status # "moved" /\ marking' = marking \ {m}
                           /\ doc' = Marked(m)
    BY <1>2 DEF CommitRequest
  <2>1. m.status # "indexed"
    BY DEF OpenMarks
  <2> QED BY <1>2, <2>1 DEF CommitRequest, MarkCommits
<1>3. ASSUME NEW i \in IndexTasks, CommitMark(i) PROVE \E m \in marking : MarkCommits(m)
  <2> PICK m \in marking : /\ m.by = i /\ marking' = marking \ {m} /\ doc' = Marked(m)
                           /\ versions' = IF step[i] = "finish"
                                          THEN versions \cup {doc'.updated_at} ELSE versions
    BY <1>3 DEF CommitMark
  <2>1. step[i] \in DOMAIN MarkOf /\ m.status = MarkOf[step[i]]
    BY DEF OpenMarks
  <2>2. m.status # "moved" /\ (m.status = "indexed" => step[i] = "finish")
    BY <2>1 DEF MarkOf
  <2> QED BY <1>3, <2>2 DEF CommitMark, MarkCommits
<1>4. CASE ReadForDeletion
  BY <1>4 DEF ReadForDeletion
<1>5. CASE CommitDeletion
  <2>1. doc'.status = "deleted" /\ doc'.updated_at = doc.updated_at /\ doc'.past = doc.past
    BY <1>5 DEF CommitDeletion, IndexTypeOK
  <2> QED BY <1>5, <2>1 DEF CommitDeletion
<1>6. now <= now
  BY IndexingAssumption DEF IndexTypeOK, Times
<1>7. ASSUME NEW i \in IndexTasks,
             \/ StartTask(i) \/ MissDocument(i) \/ ReportStage(i) \/ SettleTask(i)
             \/ RaiseError(i) \/ Acknowledge(i) \/ LoseWorker(i)
      PROVE  marking' \subseteq marking /\ UNCHANGED <<now, doc, versions, deleting, deletions>>
  BY <1>7 DEF StartTask, MissDocument, ReportStage, SettleTask, RaiseError, Acknowledge, LoseWorker
<1>8. CASE AbandonRequest
  BY <1>6, <1>8 DEF AbandonRequest
<1>9. CASE UNCHANGED rowVars /\ now <= now'
  BY <1>9 DEF rowVars
<1>10. ASSUME CommitMove PROVE \E m \in marking : MoveCommits(m)
  BY <1>10 DEF CommitMove, MoveCommits
<1> QED BY <1>1, <1>2, <1>3, <1>4, <1>5, <1>6, <1>7, <1>8, <1>9, <1>10 DEF IndexStep, IndexNext

\* Dated, Sourced and IndexedIsPublished are inductive.
LEMMA DatedStep ==
  ASSUME IndexSafe, IndexStep PROVE Dated' /\ Sourced' /\ IndexedIsPublished'
<1> USE DEF IndexSafe
<1>1. ASSUME NEW m \in marking, MarkCommits(m)
      PROVE  Dated' /\ Sourced' /\ IndexedIsPublished'
  <2>1. Marked(m).updated_at <= now /\ \A t \in Marked(m).past : t < Marked(m).updated_at
    BY <1>1, MarkedRow DEF MarkCommits, Dated
  <2>2. Dated'
    BY <1>1, <2>1 DEF MarkCommits, Dated
  <2>3. IndexedIsPublished'
    BY <1>1, MarkedRow DEF MarkCommits, IndexedIsPublished
  <2> QED BY <1>1, <2>2, <2>3 DEF MarkCommits, Sourced
<1>2. ASSUME NEW m \in marking, MoveCommits(m)
      PROVE  Dated' /\ Sourced' /\ IndexedIsPublished'
  BY <1>2, MovedRow DEF MoveCommits, Dated, Sourced, IndexedIsPublished
<1>3. ASSUME NEW m, MarkBegins(m)
      PROVE  Dated' /\ Sourced' /\ IndexedIsPublished'
  <2> USE DEF MarkBegins
  <2>1. now \in Nat /\ versions \subseteq Nat /\ doc.updated_at \in Nat
        /\ \A n \in marking : n.at \in Nat
    BY IndexingAssumption DEF IndexTypeOK, Times
  <2>2. \A t \in Nat : t <= now => t <= now' /\ t < now'
    BY <1>3, <2>1
  <2>3. now' <= now'
    BY <1>3, <2>1
  <2>4. Dated'
    BY <1>3, <2>1, <2>2, <2>3 DEF Dated
  <2> QED BY <1>3, <2>4 DEF Sourced, IndexedIsPublished
<1>4. ASSUME Cardinality(deleting \cup deletions) < MaxDeletions,
             deleting' = deleting \cup
                {[at |-> doc.updated_at, past |-> doc.past, known |-> versions]},
             UNCHANGED <<now, doc, marking, versions, deletions>>
      PROVE  Dated' /\ Sourced' /\ IndexedIsPublished'
  <2>1. MaxDeletions = 0 => Cardinality({}) < 0
    BY <1>4 DEF Sourced
  <2>2. MaxDeletions # 0
    BY <2>1, FS_EmptySet
  <2> QED BY <1>4, <2>2 DEF Dated, Sourced, IndexedIsPublished
<1>5. ASSUME doc'.status = "deleted", doc'.updated_at = doc.updated_at, doc'.past = doc.past,
             deleting' \cup deletions' = deleting \cup deletions,
             UNCHANGED <<now, marking, versions>>
      PROVE  Dated' /\ Sourced' /\ IndexedIsPublished'
  BY <1>5 DEF Dated, Sourced, IndexedIsPublished
<1>6. ASSUME marking' \subseteq marking, now <= now',
             UNCHANGED <<doc, versions, deleting, deletions>>
      PROVE  Dated' /\ Sourced' /\ IndexedIsPublished'
  <2>1. now \in Nat /\ now' \in Nat /\ versions \subseteq Nat /\ doc.updated_at \in Nat
        /\ \A n \in marking : n.at \in Nat
    BY IndexTypeStep, IndexingAssumption DEF IndexTypeOK, Times
  <2>2. \A t \in Nat : t <= now => t <= now'
    BY <1>6, <2>1
  <2>3. Dated'
    BY <1>6, <2>1, <2>2 DEF Dated
  <2> QED BY <1>6, <2>3 DEF Sourced, IndexedIsPublished
<1> QED BY <1>1, <1>3, <1>4, <1>5, <1>6, <1>2, RowStep

\* RunningHasExecution is inductive.
LEMMA RunningStep ==
  ASSUME IndexTypeOK, OpenMarks, RunningHasExecution, IndexStep PROVE RunningHasExecution'
<1>1. CASE \/ MoveDocument
           \/ \E i \in IndexTasks :
                 SubmitIndex(i) \/ RetryIndex(i) \/ CancelIndex(i) \/ BeginMark(i)
  BY <1>1 DEF SubmitIndex, RetryIndex, CancelIndex, BeginMark, MoveDocument, RunningHasExecution,
              Gone, IndexTypeOK
<1>2. CASE CommitRequest
  <2> PICK m \in marking : record' = [record EXCEPT ![m.task] =
                                         IF m.status = "queued" THEN "pending" ELSE "cancelled"]
                            /\ doc' = Marked(m) /\ m.status # "moved"
    BY <1>2 DEF CommitRequest
  <2>1. ~Gone'
    BY <1>2, MarkedRow DEF CommitRequest, Gone, IndexTypeOK, Statuses
  <2>2. sent \subseteq sent' /\ step' = step
    BY <1>2 DEF CommitRequest
  <2> QED BY <2>1, <2>2 DEF RunningHasExecution, IndexTypeOK
<1>3. ASSUME NEW i \in IndexTasks,
             \/ StartTask(i) \/ ReportStage(i) \/ SettleTask(i) \/ RaiseError(i)
             \/ Acknowledge(i) \/ LoseWorker(i) \/ MissDocument(i)
      PROVE  RunningHasExecution'
  <2>1. doc' = doc /\ DOMAIN record = IndexTasks
    BY <1>3 DEF StartTask, ReportStage, SettleTask, RaiseError, Acknowledge, LoseWorker,
                MissDocument, IndexTypeOK
  <2>2. \A j \in IndexTasks : record[j] = "none" => record'[j] = "none"
    BY <1>3 DEF StartTask, ReportStage, SettleTask, RaiseError, Acknowledge, LoseWorker,
                MissDocument, Transition, IndexTypeOK
  <2>3. ASSUME NEW j \in IndexTasks, j # i
        PROVE  record'[j] = record[j] /\ step'[j] = step[j] /\ (j \in sent <=> j \in sent')
    BY <1>3, <2>3 DEF StartTask, ReportStage, SettleTask, RaiseError, Acknowledge, LoseWorker,
                MissDocument, MoveTo, Transition, IndexTypeOK
  <2>4. ASSUME record'[i] = "running"
        PROVE  i \in sent' \/ step'[i] \in {"start", "stage", "finish", "settle"}
    <3>1. CASE StartTask(i)
      BY <2>4, <3>1 DEF StartTask, MoveTo, IndexTypeOK, RunningHasExecution
    <3>2. CASE ReportStage(i)
      BY <2>4, <3>2 DEF ReportStage, MoveTo, Transition, IndexTypeOK, RunningHasExecution
    <3>3. CASE SettleTask(i)
      BY <2>4, <3>3 DEF SettleTask, Transition, IndexTypeOK
    <3>4. CASE RaiseError(i)
      <4>1. record[i] \in {"none"} \cup DOMAIN AllowedTransitions
        BY DEF IndexTypeOK
      <4>2. record[i] = "running" => CanTransition(i, "failed")
        BY DEF CanTransition, AllowedTransitions
      <4> QED BY <2>4, <3>4, <4>1, <4>2 DEF RaiseError, Transition, IndexTypeOK
    <3>5. CASE Acknowledge(i) \/ LoseWorker(i) \/ MissDocument(i)
      BY <2>4, <3>5 DEF Acknowledge, LoseWorker, MissDocument, MoveTo, IndexTypeOK,
                        RunningHasExecution
    <3> QED BY <1>3, <3>1, <3>2, <3>3, <3>5, <3>4
  <2> QED BY <2>1, <2>2, <2>3, <2>4 DEF RunningHasExecution, Gone
<1>4. ASSUME NEW i \in IndexTasks, CommitMark(i) PROVE RunningHasExecution'
  <2>1. step[i] \in DOMAIN MarkOf
    BY <1>4 DEF CommitMark, OpenMarks
  <2>2. \E m \in marking : doc' = Marked(m) /\ m.status # "moved"
    BY <1>4, <2>1 DEF CommitMark, OpenMarks, MarkOf
  <2>3. record' = record /\ sent' = sent /\ ~Gone'
    BY <1>4, <2>2, MarkedRow DEF CommitMark, Gone, IndexTypeOK, Statuses
  <2>4. step[i] \in {"start", "finish"} => step'[i] \in {"stage", "settle"}
    BY <1>4 DEF CommitMark, MoveTo, After, IndexTypeOK
  <2>5. \A j \in IndexTasks : j # i => step'[j] = step[j]
    BY <1>4 DEF CommitMark, MoveTo, IndexTypeOK
  <2>6. step[i] \in {"skip", "start", "finish", "fail"}
    BY <2>1 DEF MarkOf
  <2> QED BY <2>3, <2>4, <2>5, <2>6 DEF RunningHasExecution
<1>5. CASE CommitDeletion
  BY <1>5 DEF CommitDeletion, RunningHasExecution
<1>6. CASE CommitMove
  BY <1>6, MovedRow DEF CommitMove, RunningHasExecution, Gone
<1>7. CASE AbandonRequest \/ ReadForDeletion \/ UNCHANGED rowVars
  BY <1>7 DEF AbandonRequest, ReadForDeletion, rowVars, RunningHasExecution, Gone
<1> QED BY <1>1, <1>2, <1>3, <1>4, <1>5, <1>7, <1>6 DEF IndexStep, IndexNext

\* IndexSafe is inductive.
LEMMA IndexSafeStep ==
  ASSUME IndexSafe, IndexStep PROVE IndexSafe'
BY IndexTypeStep, OpenMarksStep, DatedStep, RunningStep DEF IndexSafe

-----------------------------------------------------------------------------
(* The events.                                                              *)

Talk == {"conversation.completed", "user.memory_requested"}

\* The six kinds of events, and their stamps.
LEMMA Kinds ==
  ASSUME NEW e \in Events
  PROVE  \E t \in Times :
            \/ e = ProjectionEvent(t) \/ e = ObservedEvent(t) \/ e = DocumentDeletedEvent(t)
            \/ e = CompletedEvent(t) \/ e = RequestedEvent(t) \/ e = SessionDeletedEvent(t)
<1>1. DocumentTimes \subseteq Times /\ TalkTimes \subseteq Times
  BY IndexingAssumption, LifecycleAssumption DEF DocumentTimes, TalkTimes, Times
<1>2. \/ e \in UNION {{ProjectionEvent(t), ObservedEvent(t), DocumentDeletedEvent(t)} :
                      t \in DocumentTimes}
      \/ e \in UNION {{CompletedEvent(t), RequestedEvent(t), SessionDeletedEvent(t)} :
                      t \in TalkTimes}
  BY EmittedAssumption DEF AllEvents
<1> QED BY <1>1, <1>2

\* What an event says.
Says(e, type, order, origin, sources) ==
    /\ e.type = type /\ e.order = order
    /\ e.scope = KB /\ e.origin = origin /\ e.sources = sources

\* What each kind of event says.
LEMMA Stamps ==
  ASSUME NEW t \in Nat
  PROVE  /\ Says(ProjectionEvent(t), "document.projection.upserted", 7 * t + 6,
                 Document1, {Document1})
         /\ Says(ObservedEvent(t), "document.memory.observed", 7 * t + 4, Document1, {Document1})
         /\ Says(DocumentDeletedEvent(t), "document.deleted", 7 * t + 3, Document1, {Document1})
         /\ Says(CompletedEvent(t), "conversation.completed", 7 * t + 1, Session, {Session})
         /\ Says(RequestedEvent(t), "user.memory_requested", 7 * t + 5,
                 Message, {Session, Message})
         /\ Says(SessionDeletedEvent(t), "conversation.deleted", 7 * t + 2,
                 Session, {Session, Message})
BY DEF ProjectionEvent, ObservedEvent, DocumentDeletedEvent, CompletedEvent, RequestedEvent,
       SessionDeletedEvent, EventAt, OrderOf, PrefixRank, Says

-----------------------------------------------------------------------------
(* The producers.                                                          *)

\* The clock is not behind what the conversation was asked, nor that beyond its bound.
Clocked ==
    /\ now \in Nat /\ DOMAIN chat = {"status", "asked"}
    /\ chat.asked \in Nat /\ chat.asked <= now
    /\ chat.asked <= MaxTalk

\* The inbox knows only what was emitted.
Emitted ==
    /\ said \subseteq {e \in Events : e.type \in Talk \cup {"conversation.deleted"}}
    /\ DOMAIN inbox = Events
    /\ \A e \in Events : inbox[e] # "absent" => e \in emitted

\* A conversation's deletion comes after all it said.
ConversationStamped ==
    /\ \A e \in said : e.type \in Talk => e.order <= 7 * now + 5
    /\ chat.status = "open" => \A d \in said : d.type # "conversation.deleted"
    /\ \A d, e \in said :
          d.type = "conversation.deleted" /\ e.type \in Talk => e.order < d.order

Produced == IndexSafe /\ Clocked /\ Emitted /\ ConversationStamped

\* What is emitted is among the events, and what is not said is of the document.
LEMMA EmittedEvents ==
  ASSUME IndexSafe, Emitted
  PROVE  /\ emitted \subseteq Events
         /\ \A e \in emitted : e.type \in Talk \cup {"conversation.deleted"} => e \in said
<1>1. IndexTasks # {} \/ MaxDeletions # 0 => DocumentTimes = Times
  BY DEF DocumentTimes
<1>2. versions \subseteq DocumentTimes
  BY <1>1 DEF IndexSafe, IndexTypeOK, Sourced
<1>3. \A d \in deletions : d.at \in DocumentTimes
  BY <1>1 DEF IndexSafe, IndexTypeOK, Sourced
<1>4. ASSUME NEW t \in DocumentTimes
      PROVE  /\ ProjectionEvent(t) \in Events /\ ObservedEvent(t) \in Events
             /\ DocumentDeletedEvent(t) \in Events
  <2> DEFINE E == {ProjectionEvent(t), ObservedEvent(t), DocumentDeletedEvent(t)}
  <2>1. E \subseteq Events
    BY EmittedAssumption DEF AllEvents
  <2> QED BY <2>1
<1>5. ASSUME NEW e \in emitted
      PROVE  \/ e \in said
             \/ \E t \in versions : e = ProjectionEvent(t) \/ e = ObservedEvent(t)
             \/ \E d \in deletions : e = DocumentDeletedEvent(d.at)
  BY <1>5 DEF emitted
<1>6. ASSUME NEW e \in emitted PROVE e \in Events
  BY <1>2, <1>3, <1>4, <1>5 DEF Emitted
<1>7. ASSUME NEW e \in emitted, e \notin said
      PROVE  e.type \notin Talk \cup {"conversation.deleted"}
  <2> PICK t \in Times :
         e = ProjectionEvent(t) \/ e = ObservedEvent(t) \/ e = DocumentDeletedEvent(t)
    BY <1>5, <1>7 DEF IndexSafe, IndexTypeOK
  <2>1. t \in Nat
    BY DEF Times
  <2> QED BY <2>1, Stamps DEF Says, Talk
<1> QED BY <1>6, <1>7

\* Every step is one of the inbox, or none of its variables change.
LEMMA InboxStep ==
  ASSUME IndexSafe, Emitted, [LifecycleNext]_lifecycleVars PROVE [Next]_vars
<1>1. CASE Deliver \/ Work
  BY <1>1, EmittedEvents DEF Deliver, Work, Next
<1>2. CASE ~(Deliver \/ Work)
  BY <1>2 DEF LifecycleNext, ChangeDocument, CompleteConversation, RememberMessage,
              DeleteConversation, lifecycleVars
<1> QED BY <1>1, <1>2

\* The producers' invariant holds at first.
LEMMA ProducedInit == LifecycleInit => Produced
<1> SUFFICES ASSUME LifecycleInit PROVE Produced
  OBVIOUS
<1>1. IndexSafe
  BY IndexSafeInit DEF LifecycleInit
<1>2. Clocked
  BY IndexingAssumption, LifecycleAssumption DEF LifecycleInit, IndexInit, Clocked
<1>3. Emitted /\ ConversationStamped
  BY DEF LifecycleInit, Init, Emitted, ConversationStamped
<1> QED BY <1>1, <1>2, <1>3 DEF Produced

\* The document and the clock go on as DocumentIndexing says.
LEMMA IndexSafeNext ==
  ASSUME IndexSafe, [LifecycleNext]_lifecycleVars PROVE IndexSafe'
<1>1. CASE ChangeDocument
  BY <1>1, IndexSafeStep DEF ChangeDocument, IndexStep
<1>2. now \in Nat /\ now \in Times /\ now <= now
  BY IndexingAssumption DEF IndexSafe, IndexTypeOK, Times
<1>3. ASSUME Tick PROVE now' \in Times /\ now <= now'
  BY <1>2, <1>3, IndexingAssumption DEF Tick, Times
<1>4. CASE ~ChangeDocument
  <2>1. UNCHANGED rowVars /\ (now' = now \/ Tick)
    BY <1>4 DEF LifecycleNext, CompleteConversation, RememberMessage, DeleteConversation,
                Deliver, Work, producerVars, lifecycleVars, indexVars
  <2> QED BY <1>2, <1>3, <2>1, IndexSafeStep DEF IndexStep
<1> QED BY <1>1, <1>4

\* What is in the outbox stays there.
LEMMA OutboxGrows ==
  ASSUME [LifecycleNext]_lifecycleVars
  PROVE  versions \subseteq versions' /\ deletions \subseteq deletions' /\ said \subseteq said'
         /\ emitted \subseteq emitted'
<1>1. ASSUME IndexNext PROVE versions \subseteq versions' /\ deletions \subseteq deletions'
  BY <1>1 DEF IndexNext, SubmitIndex, RetryIndex, CancelIndex, StartTask, BeginMark, CommitMark,
     MissDocument, ReportStage, SettleTask, RaiseError, Acknowledge, LoseWorker, MoveDocument,
     CommitMove, CommitRequest, AbandonRequest, ReadForDeletion, CommitDeletion
<1>2. versions \subseteq versions' /\ deletions \subseteq deletions' /\ said \subseteq said'
  BY <1>1 DEF LifecycleNext, ChangeDocument, CompleteConversation, RememberMessage,
     DeleteConversation, Deliver, Work, producerVars, lifecycleVars, indexVars, rowVars
<1> QED BY <1>2 DEF emitted

\* The clock at a turn of the conversation.
LEMMA ClockTurn ==
  ASSUME IndexSafe, Clocked, Tick
  PROVE  /\ now \in Nat /\ now' = now + 1 /\ now' \in Nat /\ now' \in 1 .. MaxTime
         /\ chat.asked <= now' /\ now' <= now'
BY IndexingAssumption DEF IndexSafe, IndexTypeOK, Clocked, Tick, Times

\* The inbox takes in only what was emitted.
LEMMA EmittedNext ==
  ASSUME IndexSafe, Clocked, Emitted, [LifecycleNext]_lifecycleVars PROVE Emitted'
<1>1. emitted \subseteq emitted'
  BY OutboxGrows
<1>2. CASE Deliver
  BY <1>2, <1>1 DEF Deliver, Receive, producerVars, Emitted
<1>3. CASE Work
  <2>1. ASSUME NEW e \in Events, inbox[e] = "absent" PROVE inbox'[e] = "absent"
    <3>1. \/ UNCHANGED inbox
          \/ \E w \in Workers : Mark(w) \/ ConversationSettings(w)
      BY <1>3
      DEF Work, Redispatch, Take, EnterScope, Handle, Guard, ApplySettings, Observe, Extract,
          Reconcile, Stage, Finalize, Activate, Delete, Fail, Crash
    <3> QED BY <2>1, <3>1 DEF Mark, ConversationSettings, EarlierPendingSettings, Emitted
  <2>2. DOMAIN inbox' = Events
    BY <1>3
    DEF Work, Redispatch, Take, EnterScope, Handle, Guard, ApplySettings, Observe, Extract,
        Reconcile, Stage, Finalize, Activate, Delete, Fail, Crash, Mark, ConversationSettings,
        Emitted
  <2>3. said' = said
    BY <1>3 DEF Work, producerVars
  <2> QED BY <1>1, <2>1, <2>2, <2>3 DEF Emitted
<1>4. ASSUME UNCHANGED inbox, NEW t \in 1 .. MaxTalk,
             \E e \in {CompletedEvent(t), RequestedEvent(t), SessionDeletedEvent(t)} :
                said' \subseteq said \cup {e}
      PROVE  Emitted'
  <2> PICK e \in {CompletedEvent(t), RequestedEvent(t), SessionDeletedEvent(t)} :
         said' \subseteq said \cup {e}
    BY <1>4
  <2>1. e \in Events
    BY <1>4, EmittedAssumption DEF AllEvents, TalkTimes
  <2>2. t \in Nat
    BY IndexingAssumption, LifecycleAssumption
  <2>3. e.type \in Talk \cup {"conversation.deleted"}
    BY <2>2, Stamps DEF Says, Talk
  <2> QED BY <1>1, <1>4, <2>1, <2>3 DEF Emitted
<1>5. CASE CompleteConversation \/ DeleteConversation
  <2>1. Tick /\ now < MaxTalk /\ UNCHANGED inbox
    BY <1>5 DEF CompleteConversation, DeleteConversation, vars
  <2>2. now' \in 1 .. MaxTalk
    BY <2>1, ClockTurn, IndexingAssumption, LifecycleAssumption
  <2> PICK t \in 1 .. MaxTalk : t = now'
    BY <2>2
  <2> QED BY <1>4, <1>5, <2>1 DEF CompleteConversation, DeleteConversation
<1>6. CASE RememberMessage
  <2>1. chat.asked \in 1 .. MaxTalk
    BY <1>6, IndexingAssumption, LifecycleAssumption DEF RememberMessage, Clocked
  <2> PICK t \in 1 .. MaxTalk : t = chat.asked
    BY <2>1
  <2>2. UNCHANGED inbox
    BY <1>6 DEF RememberMessage, vars
  <2> QED BY <1>4, <1>6, <2>2 DEF RememberMessage
<1>7. CASE UNCHANGED <<inbox, said>>
  BY <1>1, <1>7 DEF Emitted
<1> QED BY <1>2, <1>3, <1>5, <1>6, <1>7
  DEF LifecycleNext, ChangeDocument, lifecycleVars, producerVars, vars

\* A step of the document moves the clock by one, if at all.
LEMMA DocumentClock == ASSUME IndexNext PROVE now' = now \/ now' = now + 1
<1>1. ASSUME NEW i \in IndexTasks,
             SubmitIndex(i) \/ RetryIndex(i) \/ CancelIndex(i) \/ BeginMark(i)
      PROVE  now' = now + 1
  BY <1>1 DEF SubmitIndex, RetryIndex, CancelIndex, BeginMark, Begin, Tick
<1>2. MoveDocument => now' = now + 1
  BY DEF MoveDocument, Begin, Tick
<1> QED BY <1>1, <1>2 DEF IndexNext, StartTask, CommitMark, MissDocument, ReportStage, SettleTask,
     RaiseError, Acknowledge, LoseWorker, CommitMove, CommitRequest, AbandonRequest,
     ReadForDeletion, CommitDeletion

\* Clocked is inductive.
LEMMA ClockedNext ==
  ASSUME IndexSafe, Clocked, [LifecycleNext]_lifecycleVars PROVE Clocked'
<1>1. CASE CompleteConversation \/ DeleteConversation
  <2>1. Tick /\ chat'.asked \in {now', chat.asked} /\ DOMAIN chat' = {"status", "asked"}
        /\ now < MaxTalk
    BY <1>1 DEF CompleteConversation, DeleteConversation, Clocked
  <2>2. now' \in Nat /\ chat.asked <= now' /\ now' <= now' /\ chat.asked \in Nat
    BY <2>1, ClockTurn DEF Clocked
  <2>3. now' <= MaxTalk
    BY <2>1, ClockTurn, IndexingAssumption, LifecycleAssumption
  <2> QED BY <2>1, <2>2, <2>3 DEF Clocked
<1>2. CASE chat' = chat
  <2>1. now \in Nat /\ (now' = now \/ now' = now + 1)
    BY DocumentClock DEF LifecycleNext, ChangeDocument, CompleteConversation, RememberMessage,
       DeleteConversation, Deliver, Work, producerVars, lifecycleVars, indexVars, Tick, Clocked
  <2> QED BY <1>2, <2>1 DEF Clocked
<1> QED BY <1>1, <1>2
  DEF LifecycleNext, ChangeDocument, RememberMessage, Deliver, Work, producerVars, lifecycleVars

\* Stamps of later times are later, whatever the kind.
LEMMA Later ==
  ASSUME NEW n \in Nat, NEW k \in Nat, NEW t \in Nat
  PROVE  /\ k <= 7 * n + 5 => k <= 7 * (n + 1) + 5 /\ k < 7 * (n + 1) + 2
         /\ t <= n => 7 * t + 5 <= 7 * n + 5 /\ 7 * t + 1 <= 7 * n + 5
         /\ t < n => 7 * t + 4 < 7 * n + 3 /\ 7 * t + 6 < 7 * n + 3
OBVIOUS

\* ConversationStamped is inductive.
LEMMA ConversationStampedNext ==
  ASSUME IndexSafe, Clocked, Emitted, ConversationStamped, [LifecycleNext]_lifecycleVars
  PROVE  ConversationStamped'
<1> PICK n \in Nat : n = now
  BY Zenon DEF Clocked
<1>1. \A e \in said : e \in Events /\ e.order \in Nat
  BY EventFields DEF Emitted
\* Steps in which nothing is said.
<1>2. ASSUME UNCHANGED <<chat, said>>, now' = n \/ now' = n + 1 PROVE ConversationStamped'
  <2>1. ASSUME NEW e \in said, e.type \in Talk PROVE e.order <= 7 * now' + 5
    <3>1. e.order \in Nat /\ e.order <= 7 * n + 5
      BY <1>1, <2>1 DEF ConversationStamped
    <3>2. e.order <= 7 * (n + 1) + 5
      BY <3>1, Later
    <3> QED BY <1>2, <3>1, <3>2
  <2> QED BY <1>2, <2>1 DEF ConversationStamped
<1>3. CASE CompleteConversation
  <2> PICK t \in Nat : t = n + 1
    OBVIOUS
  <2> PICK e : e = CompletedEvent(t)
    OBVIOUS
  <2>1. said' = said \cup {e} /\ now' = t /\ chat'.status = "open" /\ chat.status = "open"
    BY <1>3 DEF CompleteConversation, Tick, Clocked
  <2>2. e.type = "conversation.completed" /\ e.order = 7 * t + 1
    BY Stamps DEF Says
  <2>3. e.order <= 7 * t + 5
    BY <2>2, Later
  <2>4. ASSUME NEW f \in said, f.type \in Talk PROVE f.order <= 7 * t + 5
    BY <1>1, <2>4, Later DEF ConversationStamped
  <2> QED BY <2>1, <2>2, <2>3, <2>4 DEF ConversationStamped
<1>4. CASE RememberMessage
  <2> PICK t, e : t = chat.asked /\ e = RequestedEvent(t)
    OBVIOUS
  <2>1. said' = said \cup {e} /\ now' = now /\ chat' = chat /\ chat.status = "open"
    BY <1>4 DEF RememberMessage, indexVars
  <2>2. t \in Nat /\ t <= n
    BY DEF Clocked
  <2>3. e.type = "user.memory_requested" /\ e.order = 7 * t + 5
    BY <2>2, Stamps DEF Says
  <2>4. e.order <= 7 * n + 5
    BY <2>2, <2>3, Later
  <2> QED BY <2>1, <2>3, <2>4 DEF ConversationStamped
<1>5. CASE DeleteConversation
  <2> PICK t \in Nat : t = n + 1
    OBVIOUS
  <2> PICK e : e = SessionDeletedEvent(t)
    OBVIOUS
  <2>1. said' = said \cup {e} /\ now' = t /\ chat'.status # "open" /\ chat.status = "open"
    BY <1>5 DEF DeleteConversation, Tick, Clocked
  <2>2. e.type = "conversation.deleted" /\ e.order = 7 * t + 2
    BY Stamps DEF Says
  <2>3. ASSUME NEW f \in said, f.type \in Talk PROVE f.order <= 7 * t + 5 /\ f.order < e.order
    BY <1>1, <2>2, <2>3, Later DEF ConversationStamped
  <2>4. e.type \notin Talk
    BY <2>2 DEF Talk
  <2> QED BY <2>1, <2>2, <2>3, <2>4 DEF ConversationStamped
<1>6. CASE ChangeDocument
  <2>1. UNCHANGED <<chat, said>>
    BY <1>6 DEF ChangeDocument
  <2>2. now' = n \/ now' = n + 1
    BY <1>6, DocumentClock DEF ChangeDocument
  <2> QED BY <1>2, <2>1, <2>2
<1>7. CASE UNCHANGED <<now, chat, said>>
  BY <1>2, <1>7
<1> QED BY <1>3, <1>4, <1>5, <1>6, <1>7
  DEF LifecycleNext, Deliver, Work, lifecycleVars, producerVars, indexVars

-----------------------------------------------------------------------------
(* The stores.                                                             *)

\* What is stored was received.
StoredReceived ==
    /\ \A x \in evidence : x[1] \in Events /\ inbox[x[1]] # "absent"
    /\ \A p \in Projections : \A e \in staged[p] : e \in Events /\ inbox[e] # "absent"

\* StoredReceived is inductive.
LEMMA StoredReceivedNext ==
  ASSUME TypeOK, Received, StoredReceived, [Next]_vars PROVE StoredReceived'
<1>1. \A e \in Events : inbox[e] # "absent" => inbox'[e] # "absent"
  BY RowSteps DEF Outcome
<1>2. ASSUME NEW w \in Workers, Reconcile(w) \/ Stage(w) PROVE StoredReceived'
  <2>1. job[w] \in Events /\ inbox[job[w]] # "absent" /\ inbox' = inbox
    BY <1>2 DEF Reconcile, Stage, Received, TypeOK
  <2>2. \A x \in evidence' : x \in evidence \/ x[1] = job[w]
    BY <1>2 DEF Reconcile, Stage
  <2>3. \A p \in Projections : staged'[p] \subseteq staged[p] \cup {job[w]}
    BY <1>2 DEF Reconcile, Stage, TypeOK
  <2> QED BY <2>1, <2>2, <2>3 DEF StoredReceived
<1>3. ASSUME evidence' \subseteq evidence, \A p \in Projections : staged'[p] \subseteq staged[p]
      PROVE  StoredReceived'
  BY <1>1, <1>3 DEF StoredReceived
<1>4. ASSUME NEW w \in Workers, Delete(w) PROVE StoredReceived'
  BY <1>3, <1>4 DEF Delete, storeVars
<1> QED BY <1>2, <1>3, <1>4
  DEF Next, Handle, Receive, Redispatch, Take, EnterScope, Guard, ApplySettings,
      ConversationSettings, Observe, Extract, Finalize, Activate, Mark, Fail, Crash, vars,
      storeVars

\* Whatever fences the messages of the conversation fences the conversation.
TalkFenced == fence[KB][Message] <= fence[KB][Session]

\* TalkFenced is inductive: the only deletion that names the message names both.
LEMMA TalkFencedNext ==
  ASSUME TypeOK, HandlerFits, TalkFenced, [Next]_vars PROVE TalkFenced'
<1>1. KB \in Scopes /\ Session \in Sources /\ Message \in Sources
  BY LifecycleAssumption
<1>2. fence[KB][Message] \in Nat /\ fence[KB][Session] \in Nat
  BY <1>1 DEF TypeOK
<1>3. ASSUME NEW w \in Workers, Delete(w), fence' # fence PROVE TalkFenced'
  <2> PICK e : e = job[w]
    OBVIOUS
  <2>1. e \in Events /\ e.type \in DeletionTypes
    BY <1>3, ConstantsAssumption DEF Delete, HandlerFits, TypeOK
  <2>2. e.order \in Nat /\ e.scope = KB /\ e.sources \in {{Document1}, {Session, Message}}
    <3> PICK t \in Times :
            \/ e = ProjectionEvent(t) \/ e = ObservedEvent(t) \/ e = DocumentDeletedEvent(t)
            \/ e = CompletedEvent(t) \/ e = RequestedEvent(t) \/ e = SessionDeletedEvent(t)
      BY <2>1, Kinds
    <3>1. t \in Nat
      BY DEF Times
    <3>2. e = DocumentDeletedEvent(t) \/ e = SessionDeletedEvent(t)
      BY <2>1, <3>1, Stamps DEF Says, DeletionTypes
    <3>3. e.order \in Nat
      BY <2>1, EventFields
    <3>4. \/ Says(e, "document.deleted", 7 * t + 3, Document1, {Document1})
          \/ Says(e, "conversation.deleted", 7 * t + 2, Session, {Session, Message})
      BY <3>1, <3>2, Stamps
    <3> QED BY <3>3, <3>4 DEF Says
  <2>3. \A x \in Sources : fence'[KB][x] = IF x \in e.sources /\ fence[KB][x] < e.order
                                           THEN e.order ELSE fence[KB][x]
    BY <1>1, <1>3, <2>2 DEF Delete, storeVars, TypeOK
  <2>4. CASE e.sources = {Document1}
    BY <1>1, <2>3, <2>4, LifecycleAssumption DEF TalkFenced
  <2>5. CASE e.sources = {Session, Message}
    BY <1>1, <1>2, <2>2, <2>3, <2>5 DEF TalkFenced
  <2> QED BY <2>2, <2>4, <2>5
<1>4. CASE fence' = fence
  BY <1>4 DEF TalkFenced
<1> QED BY <1>3, <1>4
  DEF Next, Handle, vars, storeVars, Receive, Redispatch, Take, EnterScope, Guard, ApplySettings,
      ConversationSettings, Observe, Extract, Reconcile, Stage, Finalize, Activate, Mark, Fail,
      Crash

-----------------------------------------------------------------------------
(* The theorems.                                                           *)

\* The producers' invariant holds throughout.
LEMMA ProducedHolds == LifecycleSpec => []Produced
<1>1. Produced /\ [LifecycleNext]_lifecycleVars => Produced'
  BY IndexSafeNext, ClockedNext, EmittedNext, ConversationStampedNext DEF Produced
<1> QED BY <1>1, ProducedInit, PTL DEF LifecycleSpec

\* The composition is the inbox, fed by the producers: all that is proved of the inbox for any
\* events holds of it.
THEOREM LifecycleIsInbox == LifecycleSpec => Spec
<1>1. LifecycleInit => Init
  BY DEF LifecycleInit
<1>2. Produced /\ [LifecycleNext]_lifecycleVars => [Next]_vars
  BY InboxStep DEF Produced
<1> QED BY <1>1, <1>2, ProducedHolds, PTL DEF LifecycleSpec, Spec

\* What the inbox holds, throughout.
LEMMA StoresHold ==
  Spec => [](TypeOK /\ HandlerFits /\ Received /\ StoredReceived /\ TalkFenced
             /\ StoresFit /\ NoResurrection /\ DeletionLeavesFence)
<1>1. Init => Received /\ StoredReceived /\ TalkFenced
  BY LifecycleAssumption DEF Init, Received, StoredReceived, TalkFenced
<1>2. Init => HandlerFits /\ Guarded /\ StoresFit /\ NoResurrection
  BY DEF Init, HandlerFits, Guarded, StoresFit, NoResurrection, WritingPhases
<1> QED BY <1>1, <1>2, ReceivedStep, StoredReceivedNext, TalkFencedNext, HandlerFitsStep, SafeStep,
           TypeCorrect, LocksExclude, DeletionsAreFenced, PTL DEF Spec

Stored == TypeOK /\ StoredReceived /\ TalkFenced /\ StoresFit /\ NoResurrection
          /\ DeletionLeavesFence

\* A deletion that succeeded covers what names one of its sources and is older.
LEMMA Covered ==
  ASSUME Stored, NEW d \in Events, d.type \in DeletionTypes, inbox[d] = "succeeded",
         NEW e \in Events, e.scope = d.scope, e.order < d.order,
         \/ d.sources \subseteq e.sources
         \/ d.sources = {Session, Message} /\ Session \in e.sources /\ d.scope = KB
  PROVE  Blocked(e)
<1>1. PICK s \in FenceSources(d) : fence[d.scope][s] >= d.order
  BY DEF Stored, DeletionLeavesFence, Blocked
<1>2. /\ d.scope \in Scopes /\ s \in Sources /\ d.order \in Nat /\ e.order \in Nat
      /\ {Session, Message} \subseteq Sources /\ KB \in Scopes
  BY <1>1, EventFields, ConstantsAssumption, LifecycleAssumption DEF FenceSources
<1>3. fence[d.scope][s] \in Nat
  BY <1>2 DEF Stored, TypeOK
<1>4. CASE s \in FenceSources(e)
  BY <1>1, <1>2, <1>3, <1>4 DEF Blocked
<1>5. CASE s \notin FenceSources(e)
  <2>1. s = Message /\ d.scope = KB /\ Session \in FenceSources(e)
    BY <1>1, <1>5 DEF FenceSources
  <2>2. fence[KB][Message] \in Nat /\ fence[KB][Session] \in Nat
    BY <1>2 DEF Stored, TypeOK
  <2>3. fence[KB][Session] >= e.order
    BY <1>1, <1>2, <2>1, <2>2 DEF Stored, TalkFenced
  <2> QED BY <2>1, <2>3 DEF Blocked
<1> QED BY <1>4, <1>5

\* The kinds of events, by their types.
LEMMA ByType ==
  ASSUME NEW e \in Events
  PROVE  /\ e.scope = KB /\ e.order \in Nat
         /\ e.type = "conversation.deleted" => e.sources = {Session, Message}
         /\ e.type = "document.deleted" => e.sources = {Document1}
         /\ e.type \in Talk => Session \in e.sources /\ e.origin \in {Session, Message}
         /\ e.type \in EvidenceTypes \ Talk => e.origin = Document1
<1> PICK t \in Times :
        \/ e = ProjectionEvent(t) \/ e = ObservedEvent(t) \/ e = DocumentDeletedEvent(t)
        \/ e = CompletedEvent(t) \/ e = RequestedEvent(t) \/ e = SessionDeletedEvent(t)
  BY Kinds
<1>1. t \in Nat /\ e.order \in Nat
  BY EventFields DEF Times
<1>2. \/ Says(e, "document.projection.upserted", 7 * t + 6, Document1, {Document1})
      \/ Says(e, "document.memory.observed", 7 * t + 4, Document1, {Document1})
      \/ Says(e, "document.deleted", 7 * t + 3, Document1, {Document1})
      \/ Says(e, "conversation.completed", 7 * t + 1, Session, {Session})
      \/ Says(e, "user.memory_requested", 7 * t + 5, Message, {Session, Message})
      \/ Says(e, "conversation.deleted", 7 * t + 2, Session, {Session, Message})
  BY <1>1, Stamps
<1> QED BY <1>1, <1>2 DEF Says, Talk, EvidenceTypes

\* DeletedConversationStaysDeleted: the deletion's stamp is after all the conversation said,
\* so its fence covers it.
THEOREM ConversationsStayDeleted == LifecycleSpec => []DeletedConversationStaysDeleted
<1>1. ASSUME Stored, Produced, NEW d \in Events, d.type = "conversation.deleted",
             inbox[d] = "succeeded", NEW x \in evidence, x[1].origin \in {Session, Message}
      PROVE  FALSE
  <2> PICK e : e = x[1]
    OBVIOUS
  <2>1. e \in Events /\ e \in emitted /\ d \in emitted /\ e.type \in EvidenceTypes
    BY <1>1 DEF Stored, StoredReceived, StoresFit, Produced, Emitted
  <2>2. e.type \in Talk
    BY <1>1, <2>1, ByType, LifecycleAssumption
  <2>3. e \in said /\ d \in said
    BY <1>1, <2>1, <2>2, EmittedEvents DEF Produced
  <2>4. e.order < d.order
    BY <1>1, <2>2, <2>3 DEF Produced, ConversationStamped
  <2>5. Blocked(e)
    BY <1>1, <2>1, <2>2, <2>4, ByType, Covered DEF DeletionTypes
  <2> QED BY <1>1, <2>5 DEF Stored, NoResurrection
<1>2. Stored /\ Produced => DeletedConversationStaysDeleted
  BY <1>1 DEF DeletedConversationStaysDeleted
<1> QED BY <1>2, ProducedHolds, StoresHold, LifecycleIsInbox, PTL DEF Stored

\* SupersededVersionsStayDeleted: what the deletion has read was marked after these versions were
\* published, so its stamp, stale as it may be, is after theirs, and its fence covers them.
THEOREM SupersededVersionsStayGone == LifecycleSpec => []SupersededVersionsStayDeleted
<1>1. ASSUME Stored, Produced, NEW d \in deletions,
             inbox[DocumentDeletedEvent(d.at)] = "succeeded", NEW t \in d.past,
             NEW e \in {ObservedEvent(t), ProjectionEvent(t)}, e \in Events
      PROVE  Blocked(e)
  <2>1. d.at \in Nat /\ t \in Nat /\ t < d.at
    BY <1>1 DEF Produced, IndexSafe, IndexTypeOK, Dated, Times
  <2> PICK f : f = DocumentDeletedEvent(d.at)
    OBVIOUS
  <2>2. f \in Events
    BY <1>1, EmittedEvents DEF Produced, emitted
  <2>3. f.type = "document.deleted" /\ f.order = 7 * d.at + 3 /\ f.scope = KB
        /\ f.sources = {Document1}
    BY <2>1, Stamps DEF Says
  <2>4. /\ e.order = 7 * t + 4 \/ e.order = 7 * t + 6
        /\ e.scope = KB /\ e.sources = {Document1}
    <3>1. e = ObservedEvent(t) \/ e = ProjectionEvent(t)
      BY <1>1
    <3>2. \/ Says(e, "document.memory.observed", 7 * t + 4, Document1, {Document1})
          \/ Says(e, "document.projection.upserted", 7 * t + 6, Document1, {Document1})
      BY <2>1, <3>1, Stamps
    <3> QED BY <3>2 DEF Says
  <2>5. e.order < f.order
    BY <2>1, <2>3, <2>4, Later
  <2> QED BY <1>1, <2>2, <2>3, <2>4, <2>5, Covered DEF DeletionTypes
<1>2. ASSUME Stored, Produced, NEW d \in deletions,
             inbox[DocumentDeletedEvent(d.at)] = "succeeded", NEW t \in d.past
      PROVE  Vanished(t)
  <2>1. \A x \in evidence : x[1] \in Events /\ ~Blocked(x[1])
    BY <1>2 DEF Stored, StoredReceived, NoResurrection
  <2>2. \A p \in Projections : \A e \in staged[p] : e \in Events /\ ~Blocked(e)
    BY <1>2 DEF Stored, StoredReceived, NoResurrection
  <2> QED BY <1>1, <1>2, <2>1, <2>2 DEF Vanished
<1>3. Stored /\ Produced => SupersededVersionsStayDeleted
  BY <1>2 DEF SupersededVersionsStayDeleted
<1> QED BY <1>3, ProducedHolds, StoresHold, LifecycleIsInbox, PTL DEF Stored

\* IndexedIsPublished: however marks overlap, the row and the outbox are written together, from
\* the row as it then is.
THEOREM IndexedArePublished == LifecycleSpec => []IndexedIsPublished
BY ProducedHolds, PTL DEF Produced, IndexSafe

\* RunningIsExecuted: a task is acknowledged only when its record has left running, or is gone.
THEOREM RunningAreExecuted == LifecycleSpec => []RunningIsExecuted
<1>1. Produced => RunningIsExecuted
  BY DEF Produced, IndexSafe, RunningHasExecution, RunningIsExecuted
<1> QED BY <1>1, ProducedHolds, PTL
=============================================================================

--------------------------- MODULE MemoryInboxProofs ---------------------------
(***************************************************************************)
(* TLAPS proofs about MemoryInbox, for any number of workers, scopes,      *)
(* events and faults: type correctness, exclusion by the event and scope   *)
(* locks, NoResurrection, final verdicts, the order of the settings, the   *)
(* opt-out, the fences of deletions, and the activation of projections.    *)
(***************************************************************************)
EXTENDS MemoryInbox, TLAPS

\* The newest event of a nonempty set is one of its members.
LEMMA LatestIn ==
    ASSUME NEW S \in SUBSET Events, S # {}
    PROVE  Latest(S) \in S
BY NewestAssumption DEF Latest

\* What an event record holds.
LEMMA EventFields ==
    ASSUME NEW e \in Events
    PROVE  /\ e.type \in EventTypes /\ e.order \in Nat \ {0} /\ e.scope \in Scopes
           /\ e.origin \in Sources /\ e.sources \subseteq Sources
           /\ e.projection \in Projections
BY EventsAssumption DEF EventRecord

\* Applying settings keeps the switches and their orders well typed.
LEMMA ApplyInOrderType ==
    ASSUME TypeOK, NEW S \in SUBSET Events, ApplyInOrder(S)
    PROVE  /\ settings' \in [SettingNames -> BOOLEAN]
           /\ settingsOrder' \in [SettingNames -> Nat]
<1> DEFINE N(n) == Newer(S, n)
<1>1. ASSUME NEW n \in SettingNames, N(n) # {}
      PROVE  Latest(N(n)) \in Events /\ n \in DOMAIN Latest(N(n)).changes
    BY <1>1, LatestIn DEF Newer
<1>2. ASSUME NEW e \in Events, NEW n \in DOMAIN e.changes
      PROVE  e.changes[n] \in BOOLEAN
    <2>1. PICK names \in SUBSET SettingNames : e.changes \in [names -> BOOLEAN]
        BY EventsAssumption DEF EventRecord
    <2> QED BY <2>1
<1>3. \A e \in Events : e.order \in Nat
    BY EventsAssumption DEF EventRecord
<1> QED BY <1>1, <1>2, <1>3 DEF ApplyInOrder, TypeOK

\* Type correctness: every variable keeps the values its column or role allows.
THEOREM TypeCorrect == Spec => []TypeOK
<1>1. Init => TypeOK
    BY ConstantsAssumption DEF Init, TypeOK, Phases, ScopedPhases, WritingPhases
<1>2. TypeOK /\ [Next]_vars => TypeOK'
  <2> SUFFICES ASSUME TypeOK, [Next]_vars PROVE TypeOK'
      OBVIOUS
  <2> USE ConstantsAssumption DEF TypeOK, Goto, storeVars, settingsVars, workerVars
  <2>1. ASSUME NEW e \in Events, Receive(e) PROVE TypeOK'
      BY <2>1 DEF Receive
  <2>2. ASSUME NEW e \in Events, Redispatch(e) PROVE TypeOK'
      BY <2>2 DEF Redispatch
  <2>3. ASSUME NEW e \in Events, NEW w \in Workers, Take(w, e) PROVE TypeOK'
    <3>1. CASE inbox[e] = "pending" /\ Goto(w, "scope") /\ job' = [job EXCEPT ![w] = e]
                /\ UNCHANGED todo
        BY <2>3, <3>1 DEF Take, Phases
    <3>2. CASE UNCHANGED workerVars
        BY <2>3, <3>2 DEF Take
    <3> QED BY <2>3, <3>1, <3>2 DEF Take
  <2>4. ASSUME NEW w \in Workers, EnterScope(w) PROVE TypeOK'
      BY <2>4 DEF EnterScope, Phases, ScopedPhases
  <2>5. ASSUME NEW w \in Workers, Guard(w) PROVE TypeOK'
    <3>1. Handler(job[w].type) \in Phases \ {"idle"}
        BY DEF Handler, Phases, ScopedPhases, WritingPhases
    <3>2. \E q \in Phases \ {"idle"} : pc' = [pc EXCEPT ![w] = q]
        BY <2>5, <3>1 DEF Guard, Phases
    <3>3. pc[w] # "idle"
        BY <2>5 DEF Guard
    <3> QED BY <2>5, <3>2, <3>3 DEF Guard
  <2>6. ASSUME NEW w \in Workers, ApplySettings(w) PROVE TypeOK'
    <3>1. job[w] \in Events
        BY <2>6 DEF ApplySettings
    <3>2. ApplyInOrder({job[w]})
        BY <2>6 DEF ApplySettings
    <3>3. settings' \in [SettingNames -> BOOLEAN] /\ settingsOrder' \in [SettingNames -> Nat]
        BY <3>1, <3>2, ApplyInOrderType
    <3> QED BY <2>6, <3>3 DEF ApplySettings, Phases
  <2>7. ASSUME NEW w \in Workers, ConversationSettings(w) PROVE TypeOK'
    <3> DEFINE S == {f \in EarlierPendingSettings(job[w]) : f.valid}
    <3>1. S \in SUBSET Events
        BY DEF EarlierPendingSettings
    <3>2. ApplyInOrder(S)
        BY <2>7 DEF ConversationSettings
    <3>3. settings' \in [SettingNames -> BOOLEAN] /\ settingsOrder' \in [SettingNames -> Nat]
        BY <3>1, <3>2, ApplyInOrderType
    <3> QED BY <2>7, <3>3 DEF ConversationSettings, Phases, ScopedPhases, WritingPhases
  <2>8. ASSUME NEW w \in Workers, Observe(w) PROVE TypeOK'
      BY <2>8 DEF Observe, Phases, ScopedPhases, WritingPhases
  <2>9. ASSUME NEW w \in Workers, Extract(w) PROVE TypeOK'
    <3>1. \E q \in {"reject", "succeed", "reconcile"} : pc' = [pc EXCEPT ![w] = q]
        BY <2>9 DEF Extract
    <3>2. todo' \in [Workers -> SUBSET Candidates]
        BY <2>9 DEF Extract
    <3>3. pc[w] # "idle"
        BY <2>9 DEF Extract
    <3> QED BY <2>9, <3>1, <3>2, <3>3 DEF Extract, Phases, ScopedPhases, WritingPhases
  <2>10. ASSUME NEW w \in Workers, Reconcile(w) PROVE TypeOK'
      BY <2>10 DEF Reconcile, Phases, ScopedPhases, WritingPhases
  <2>11. ASSUME NEW w \in Workers, Stage(w) PROVE TypeOK'
    <3>1. job[w] \in Events /\ job[w].projection \in Projections
        BY <2>11, EventFields DEF Stage
    <3>2. staged' \in [Projections -> SUBSET Events]
        <4> DEFINE e == job[w]
                   p == job[w].projection
        <4>1. staged' = [staged EXCEPT ![p] = @ \cup {e}] \/ staged' = staged
            BY <2>11 DEF Stage
        <4>2. staged[p] \cup {e} \in SUBSET Events
            BY <3>1
        <4> HIDE DEF e, p
        <4> QED BY <4>1, <4>2
    <3>3. projStatus' \in [Projections -> {"absent", "staging", "active", "superseded", "failed"}]
        BY <2>11, <3>1 DEF Stage
    <3>4. \E q \in {"finalize", "reject"} : pc' = [pc EXCEPT ![w] = q]
        BY <2>11 DEF Stage
    <3>5. pc[w] # "idle"
        BY <2>11 DEF Stage
    <3> QED BY <2>11, <3>2, <3>3, <3>4, <3>5 DEF Stage, Phases, ScopedPhases, WritingPhases
  <2>12. ASSUME NEW w \in Workers, Finalize(w) PROVE TypeOK'
    <3>1. projStatus' \in [Projections -> {"absent", "staging", "active", "superseded", "failed"}]
        BY <2>12 DEF Finalize
    <3>2. \E q \in {"reject", "succeed", "activate"} : pc' = [pc EXCEPT ![w] = q]
        BY <2>12 DEF Finalize
    <3>3. pc[w] # "idle"
        BY <2>12 DEF Finalize
    <3> QED BY <2>12, <3>1, <3>2, <3>3 DEF Finalize, Phases, ScopedPhases, WritingPhases
  <2>13. ASSUME NEW w \in Workers, Activate(w) PROVE TypeOK'
      BY <2>13 DEF Activate, Phases
  <2>14. ASSUME NEW w \in Workers, Delete(w) PROVE TypeOK'
    <3>1. job[w] \in Events /\ job[w].scope \in Scopes /\ job[w].order \in Nat
        BY <2>14, EventFields DEF Delete
    <3>2. fence' \in [Scopes -> [Sources -> Nat]]
        <4>1. CASE UNCHANGED storeVars
            BY <4>1
        <4>2. CASE fence' = [fence EXCEPT ![job[w].scope] = [x \in Sources |->
                  IF x \in job[w].sources /\ @[x] < job[w].order THEN job[w].order ELSE @[x]]]
            BY <4>2, <3>1
        <4> QED BY <2>14, <4>1, <4>2 DEF Delete
    <3>3. evidence' \subseteq Events \X Candidates
        BY <2>14 DEF Delete
    <3>4. staged' \in [Projections -> SUBSET Events]
        BY <2>14 DEF Delete
    <3>5. projStatus' \in [Projections -> {"absent", "staging", "active", "superseded", "failed"}]
        BY <2>14 DEF Delete
    <3> QED BY <2>14, <3>2, <3>3, <3>4, <3>5 DEF Delete, Phases
  <2>15. ASSUME NEW w \in Workers, Mark(w) PROVE TypeOK'
      BY <2>15 DEF Mark, Outcome, Phases
  <2>16. ASSUME NEW w \in Workers, Fail(w) PROVE TypeOK'
      BY <2>16 DEF Fail, Phases, ScopedPhases, WritingPhases
  <2>17. ASSUME NEW w \in Workers, Crash(w) PROVE TypeOK'
      BY <2>17 DEF Crash, Phases
  <2>18. CASE UNCHANGED vars
      BY <2>18 DEF vars
  <2> QED BY <2>1, <2>2, <2>3, <2>4, <2>5, <2>6, <2>7, <2>8, <2>9, <2>10, <2>11, <2>12,
             <2>13, <2>14, <2>15, <2>16, <2>17, <2>18 DEF Next, Handle
<1> QED BY <1>1, <1>2, PTL DEF Spec

-----------------------------------------------------------------------------
\* The two kinds of advisory locks do their work: no two workers process one event,
\* and no two are inside one memory scope.
Exclusion ==
    /\ \A v, w \in Workers : job[v] = job[w] /\ job[v] # None => v = w
    /\ \A v, w \in Workers :
          /\ pc[v] \in ScopedPhases /\ pc[w] \in ScopedPhases
          /\ job[v].scope = job[w].scope
          => v = w

\* A handler step moves its own worker only, and never into a scope.
LEMMA HandleShape ==
    ASSUME TypeOK, NEW w \in Workers, Handle(w) \/ Fail(w) \/ Crash(w)
    PROVE  /\ \A v \in Workers \ {w} : pc'[v] = pc[v] /\ job'[v] = job[v]
           /\ pc'[w] \in ScopedPhases => pc[w] \in ScopedPhases
           /\ \/ job'[w] = job[w]
              \/ job'[w] = None /\ pc'[w] = "idle"
<1> USE DEF TypeOK, Goto, Phases, ScopedPhases, WritingPhases, Handler
<1>1. CASE Guard(w)
    BY <1>1 DEF Guard
<1>2. CASE ApplySettings(w)
    BY <1>2 DEF ApplySettings
<1>3. CASE ConversationSettings(w)
    BY <1>3 DEF ConversationSettings
<1>4. CASE Observe(w)
    BY <1>4 DEF Observe
<1>5. CASE Extract(w)
    BY <1>5 DEF Extract
<1>6. CASE Reconcile(w)
    BY <1>6 DEF Reconcile
<1>7. CASE Stage(w)
    BY <1>7 DEF Stage
<1>8. CASE Finalize(w)
    BY <1>8 DEF Finalize
<1>9. CASE Activate(w)
    BY <1>9 DEF Activate
<1>10. CASE Delete(w)
    BY <1>10 DEF Delete
<1>11. CASE Mark(w)
    BY <1>11 DEF Mark
<1>12. CASE Fail(w)
    BY <1>12 DEF Fail
<1>13. CASE Crash(w)
    BY <1>13 DEF Crash
<1> QED BY <1>1, <1>2, <1>3, <1>4, <1>5, <1>6, <1>7, <1>8, <1>9, <1>10, <1>11, <1>12,
           <1>13 DEF Handle

LEMMA ExclusionStep == TypeOK /\ Exclusion /\ [Next]_vars => Exclusion'
<1> SUFFICES ASSUME TypeOK, Exclusion, [Next]_vars PROVE Exclusion'
    OBVIOUS
<1> USE DEF TypeOK, Exclusion
<1>1. ASSUME NEW e \in Events, Receive(e) \/ Redispatch(e) PROVE Exclusion'
    BY <1>1 DEF Receive, Redispatch, workerVars
<1>2. ASSUME NEW e \in Events, NEW w \in Workers, Take(w, e) PROVE Exclusion'
  <2>1. CASE UNCHANGED workerVars
      BY <2>1 DEF workerVars
  <2>2. CASE /\ \A v \in Workers : job[v] # e
             /\ pc' = [pc EXCEPT ![w] = "scope"]
             /\ job' = [job EXCEPT ![w] = e]
      BY <2>2, ConstantsAssumption DEF ScopedPhases, WritingPhases
  <2> QED BY <1>2, <2>1, <2>2 DEF Take, Goto, HoldsEvent
<1>3. ASSUME NEW w \in Workers, EnterScope(w) PROVE Exclusion'
    BY <1>3 DEF EnterScope, HoldsScope, Goto
<1>4. ASSUME NEW w \in Workers, Handle(w) \/ Fail(w) \/ Crash(w) PROVE Exclusion'
  <2>1. /\ \A v \in Workers \ {w} : pc'[v] = pc[v] /\ job'[v] = job[v]
        /\ pc'[w] \in ScopedPhases => pc[w] \in ScopedPhases
        /\ \/ job'[w] = job[w]
           \/ job'[w] = None /\ pc'[w] = "idle"
      BY <1>4, HandleShape
  <2>2. "idle" \notin ScopedPhases
      BY DEF ScopedPhases, WritingPhases
  <2> QED BY <2>1, <2>2
<1>5. CASE UNCHANGED vars
    BY <1>5 DEF vars, workerVars
<1> QED BY <1>1, <1>2, <1>3, <1>4, <1>5 DEF Next

\* The advisory locks exclude, for any number of workers, crashes and faults.
THEOREM LocksExclude == Spec => []Exclusion
<1>1. Init => Exclusion
    BY ConstantsAssumption DEF Init, Exclusion, ScopedPhases, WritingPhases
<1> QED BY <1>1, ExclusionStep, TypeCorrect, PTL DEF Spec

-----------------------------------------------------------------------------
\* A worker is in the phases of its event's own handler.
HandlerFits ==
    \A w \in Workers :
        /\ pc[w] \in {"stage", "finalize", "activate"} =>
              job[w].type = "document.projection.upserted"
        /\ pc[w] \in {"settings", "observe", "extract", "reconcile"} =>
              job[w].type \in EvidenceTypes
        /\ pc[w] = "delete" => job[w].type \in DeletionTypes
        /\ pc[w] = "apply" => job[w].type = "user.memory_settings.changed"

\* What the guard found stays true while the handler holds its scope.
Guarded == \A w \in Workers : pc[w] \in WritingPhases => ~Blocked(job[w])

\* Evidence comes from evidence events, batches from the events of their projection.
StoresFit ==
    /\ \A x \in evidence : x[1].type \in EvidenceTypes
    /\ \A p \in Projections : \A e \in staged[p] :
          e.type = "document.projection.upserted" /\ e.projection = p

LEMMA HandlerFitsStep == TypeOK /\ HandlerFits /\ [Next]_vars => HandlerFits'
<1> SUFFICES ASSUME TypeOK, HandlerFits, [Next]_vars PROVE HandlerFits'
    OBVIOUS
<1> USE DEF TypeOK, HandlerFits, Goto, workerVars
<1>1. ASSUME NEW e \in Events, Receive(e) \/ Redispatch(e) PROVE HandlerFits'
    BY <1>1 DEF Receive, Redispatch
<1>2. ASSUME NEW e \in Events, NEW w \in Workers, Take(w, e) PROVE HandlerFits'
    BY <1>2 DEF Take
<1>3. ASSUME NEW w \in Workers, EnterScope(w) PROVE HandlerFits'
    BY <1>3 DEF EnterScope
<1>4. ASSUME NEW w \in Workers, Guard(w) PROVE HandlerFits'
  <2>1. job[w].type \in EventTypes
      BY <1>4, EventFields DEF Guard
  <2>2. CASE pc' = [pc EXCEPT ![w] = Handler(job[w].type)]
      BY <1>4, <2>1, <2>2 DEF Guard, Handler, EventTypes, EvidenceTypes, DeletionTypes
  <2>3. CASE pc' = [pc EXCEPT ![w] = "reject"] \/ pc' = [pc EXCEPT ![w] = "succeed"]
      BY <1>4, <2>3 DEF Guard
  <2> QED BY <1>4, <2>2, <2>3 DEF Guard
<1>5. ASSUME NEW w \in Workers, ApplySettings(w) PROVE HandlerFits'
    BY <1>5 DEF ApplySettings
<1>6. ASSUME NEW w \in Workers, ConversationSettings(w) PROVE HandlerFits'
    BY <1>6 DEF ConversationSettings
<1>7. ASSUME NEW w \in Workers, Observe(w) PROVE HandlerFits'
    BY <1>7 DEF Observe
<1>8. ASSUME NEW w \in Workers, Extract(w) PROVE HandlerFits'
    BY <1>8 DEF Extract
<1>9. ASSUME NEW w \in Workers, Reconcile(w) PROVE HandlerFits'
    BY <1>9 DEF Reconcile
<1>10. ASSUME NEW w \in Workers, Stage(w) PROVE HandlerFits'
    BY <1>10 DEF Stage
<1>11. ASSUME NEW w \in Workers, Finalize(w) PROVE HandlerFits'
    BY <1>11 DEF Finalize
<1>12. ASSUME NEW w \in Workers, Activate(w) PROVE HandlerFits'
    BY <1>12 DEF Activate
<1>13. ASSUME NEW w \in Workers, Delete(w) PROVE HandlerFits'
    BY <1>13 DEF Delete
<1>14. ASSUME NEW w \in Workers, Mark(w) PROVE HandlerFits'
    BY <1>14 DEF Mark
<1>15. ASSUME NEW w \in Workers, Fail(w) PROVE HandlerFits'
    BY <1>15 DEF Fail
<1>16. ASSUME NEW w \in Workers, Crash(w) PROVE HandlerFits'
    BY <1>16 DEF Crash
<1>17. CASE UNCHANGED vars
    BY <1>17 DEF vars
<1> QED BY <1>1, <1>2, <1>3, <1>4, <1>5, <1>6, <1>7, <1>8, <1>9, <1>10, <1>11, <1>12,
           <1>13, <1>14, <1>15, <1>16, <1>17 DEF Next, Handle

\* What is in the stores stays sound as long as no deletion and no write happens.
LEMMA StoresUntouched ==
    ASSUME StoresFit, NoResurrection, UNCHANGED <<fence, evidence, staged>>
    PROVE  StoresFit' /\ NoResurrection'
BY DEF StoresFit, NoResurrection, Blocked

\* A worker that moves on leaves the others guarded.
LEMMA GuardedMove ==
    ASSUME TypeOK, Guarded, UNCHANGED fence, NEW w \in Workers,
           \A v \in Workers \ {w} : pc'[v] = pc[v] /\ job'[v] = job[v],
           pc'[w] \in WritingPhases => ~Blocked(job'[w])
    PROVE  Guarded'
BY DEF Guarded, Blocked

\* A deletion raises fences in its own scope, for its own sources, to its own order.
LEMMA DeleteFence ==
    ASSUME TypeOK, NEW w \in Workers, Delete(w), fence' # fence,
           NEW s \in Scopes, NEW x \in Sources, fence'[s][x] # fence[s][x]
    PROVE  /\ s = job[w].scope /\ x \in job[w].sources
           /\ fence'[s][x] = job[w].order
           /\ evidence' = evidence \ CoveredEvidence(job[w])
           /\ staged' = [p \in Projections |->
                 IF p \in CoveredProjections(job[w]) THEN {} ELSE staged[p]]
<1>1. job[w] \in Events /\ job[w].scope \in Scopes
    BY EventFields DEF Delete, TypeOK
<1> QED BY <1>1 DEF Delete, TypeOK, storeVars

\* A deletion leaves no evidence it should have deleted.
LEMMA DeleteEvidence ==
    ASSUME TypeOK, HandlerFits, StoresFit, NoResurrection,
           NEW w \in Workers, Delete(w), NEW x \in evidence'
    PROVE  ~Blocked(x[1])'
<1> DEFINE e == x[1]
          d == job[w]
<1>1. x \in evidence /\ e \in Events /\ e.type \in EvidenceTypes /\ ~Blocked(e)
    BY DEF Delete, storeVars, TypeOK, StoresFit, NoResurrection
<1>2. d \in Events /\ d.type \in DeletionTypes
    BY DEF Delete, TypeOK, HandlerFits
<1>3. SUFFICES ASSUME NEW s \in FenceSources(e), fence'[e.scope][s] >= e.order
               PROVE  FALSE
    BY DEF Blocked
<1>4. e.scope \in Scopes /\ s \in Sources /\ e.order \in Nat /\ d.order \in Nat
    BY <1>1, <1>2, EventFields, ConstantsAssumption DEF FenceSources
<1>5. fence[e.scope][s] \in Nat /\ fence[e.scope][s] < e.order
    BY <1>1, <1>4 DEF Blocked, TypeOK
<1>6. fence'[e.scope][s] # fence[e.scope][s]
    BY <1>3, <1>4, <1>5
<1>7. /\ e.scope = d.scope /\ s \in d.sources /\ e.order <= d.order
      /\ x \notin CoveredEvidence(d)
    BY <1>3, <1>4, <1>6, DeleteFence
<1>8. ~DeletesAll(d) /\ e.origin \notin d.sources
    BY <1>1, <1>7 DEF CoveredEvidence
<1>9. d.type \in {"document.deleted", "conversation.deleted"}
    BY <1>2, <1>8 DEF DeletesAll, DeletionTypes
<1>10. s \in e.sources
    BY <1>2, <1>7, <1>9, ProducersAssumption DEF FenceSources
<1>11. CASE d.type = "document.deleted"
    BY <1>1, <1>2, <1>7, <1>8, <1>10, <1>11, ProducersAssumption
<1>12. CASE d.type = "conversation.deleted"
  <2>1. e.order # d.order
      BY <1>1, <1>2, <1>12, EventsAssumption DEF EvidenceTypes
  <2> QED BY <1>1, <1>2, <1>4, <1>7, <1>8, <1>10, <1>12, <2>1, ProducersAssumption
<1> QED BY <1>9, <1>11, <1>12

\* A deletion leaves no projection batch it should have deleted.
LEMMA DeleteBatches ==
    ASSUME TypeOK, HandlerFits, StoresFit, NoResurrection,
           NEW w \in Workers, Delete(w), NEW p \in Projections, NEW e \in staged'[p]
    PROVE  ~Blocked(e)'
<1> DEFINE d == job[w]
<1>1. /\ e \in staged[p] /\ e \in Events /\ ~Blocked(e)
      /\ e.type = "document.projection.upserted" /\ e.projection = p
    BY DEF Delete, storeVars, TypeOK, StoresFit, NoResurrection
<1>2. d \in Events /\ d.type \in DeletionTypes
    BY DEF Delete, TypeOK, HandlerFits
<1>3. SUFFICES ASSUME NEW s \in FenceSources(e), fence'[e.scope][s] >= e.order
               PROVE  FALSE
    BY DEF Blocked
<1>4. e.scope \in Scopes /\ s \in Sources /\ e.order \in Nat
    BY <1>1, EventFields, ConstantsAssumption DEF FenceSources
<1>5. fence[e.scope][s] \in Nat /\ fence[e.scope][s] < e.order
    BY <1>1, <1>4 DEF Blocked, TypeOK
<1>6. fence'[e.scope][s] # fence[e.scope][s]
    BY <1>3, <1>4, <1>5
<1>7. e.scope = d.scope /\ s \in d.sources /\ p \notin CoveredProjections(d)
    BY <1>4, <1>6, DeleteFence
<1>8. /\ Projection[p].scope = d.scope /\ Document(p) = e.origin /\ e.sources = {e.origin}
    BY <1>1, <1>7, ProducersAssumption DEF Document
<1>9. /\ ~DeletesAll(d)
      /\ ~(d.type = "document.deleted" /\ e.origin = d.origin)
    BY <1>7, <1>8 DEF CoveredProjections
<1>10. d.type \in {"document.deleted", "conversation.deleted"}
    BY <1>2, <1>9 DEF DeletesAll, DeletionTypes
<1>11. s = e.origin
    BY <1>2, <1>7, <1>8, <1>10, ProducersAssumption DEF FenceSources
<1>12. CASE d.type = "document.deleted"
    BY <1>2, <1>7, <1>9, <1>11, <1>12, ProducersAssumption
<1>13. CASE d.type = "conversation.deleted"
    BY <1>1, <1>2, <1>7, <1>11, <1>13, ProducersAssumption
<1> QED BY <1>10, <1>12, <1>13

\* A deletion moves no fence another worker relies on: it is alone in its scope.
LEMMA DeleteKeepsGuard ==
    ASSUME TypeOK, Exclusion, HandlerFits, Guarded, NEW w \in Workers, Delete(w)
    PROVE  Guarded'
<1>1. SUFFICES ASSUME NEW v \in Workers, pc'[v] \in WritingPhases, Blocked(job[v])'
               PROVE  FALSE
    BY DEF Guarded
<1>2. v # w /\ pc[v] = pc'[v] /\ job'[v] = job[v]
    BY <1>1 DEF Delete, Goto, TypeOK, WritingPhases
<1>3. job[v] \in Events /\ ~Blocked(job[v]) /\ job[v].scope # job[w].scope
    BY <1>1, <1>2 DEF Delete, Guarded, Exclusion, ScopedPhases, WritingPhases, TypeOK
<1>4. PICK s \in FenceSources(job[v]) : fence'[job[v].scope][s] >= job[v].order
    BY <1>1, <1>2 DEF Blocked
<1>5. job[v].scope \in Scopes /\ s \in Sources
    BY <1>3, <1>4, EventFields, ConstantsAssumption DEF FenceSources
<1>6. fence'[job[v].scope][s] = fence[job[v].scope][s]
    BY <1>3, <1>5, DeleteFence
<1> QED BY <1>3, <1>4, <1>6 DEF Blocked

LEMMA SafeStep == TypeOK /\ Exclusion /\ HandlerFits /\ Guarded /\ StoresFit
                    /\ NoResurrection /\ [Next]_vars
                  => Guarded' /\ StoresFit' /\ NoResurrection'
<1> SUFFICES ASSUME TypeOK, Exclusion, HandlerFits, Guarded, StoresFit, NoResurrection,
                    [Next]_vars
             PROVE  Guarded' /\ StoresFit' /\ NoResurrection'
    OBVIOUS
<1> USE DEF Goto, storeVars, workerVars
<1>1. ASSUME NEW e \in Events, Receive(e) \/ Redispatch(e)
      PROVE  Guarded' /\ StoresFit' /\ NoResurrection'
    BY <1>1, StoresUntouched DEF Receive, Redispatch, Guarded, Blocked
<1>2. ASSUME NEW e \in Events, NEW w \in Workers, Take(w, e)
      PROVE  Guarded' /\ StoresFit' /\ NoResurrection'
  <2>1. StoresFit' /\ NoResurrection' /\ UNCHANGED fence
      BY <1>2, StoresUntouched DEF Take
  <2>2. /\ \A v \in Workers \ {w} : pc'[v] = pc[v] /\ job'[v] = job[v]
        /\ pc'[w] \notin WritingPhases
      BY <1>2 DEF Take, TypeOK, WritingPhases
  <2> QED BY <2>1, <2>2, GuardedMove
<1>3. ASSUME NEW w \in Workers, EnterScope(w)
      PROVE  Guarded' /\ StoresFit' /\ NoResurrection'
  <2>1. StoresFit' /\ NoResurrection' /\ UNCHANGED fence
      BY <1>3, StoresUntouched DEF EnterScope
  <2>2. /\ \A v \in Workers \ {w} : pc'[v] = pc[v] /\ job'[v] = job[v]
        /\ pc'[w] \notin WritingPhases
      BY <1>3 DEF EnterScope, TypeOK, WritingPhases
  <2> QED BY <2>1, <2>2, GuardedMove
<1>4. ASSUME NEW w \in Workers, Guard(w)
      PROVE  Guarded' /\ StoresFit' /\ NoResurrection'
  <2>1. StoresFit' /\ NoResurrection' /\ UNCHANGED fence
      BY <1>4, StoresUntouched DEF Guard
  <2>2. \A v \in Workers \ {w} : pc'[v] = pc[v] /\ job'[v] = job[v]
      BY <1>4 DEF Guard, TypeOK
  <2>3. ASSUME pc'[w] \in WritingPhases PROVE ~Blocked(job'[w])
    <3>1. pc'[w] = Handler(job[w].type) /\ job'[w] = job[w]
        BY <1>4, <2>3 DEF Guard, TypeOK, WritingPhases
    <3>2. ChecksFences(job[w])
        BY <2>3, <3>1 DEF Handler, ChecksFences, WritingPhases
    <3> QED BY <1>4, <2>3, <3>1, <3>2 DEF Guard, TypeOK, WritingPhases
  <2> QED BY <2>1, <2>2, <2>3, GuardedMove
<1>5. ASSUME NEW w \in Workers,
             \/ ApplySettings(w) \/ ConversationSettings(w) \/ Observe(w) \/ Extract(w)
             \/ Finalize(w) \/ Activate(w) \/ Mark(w) \/ Fail(w) \/ Crash(w)
      PROVE  Guarded' /\ StoresFit' /\ NoResurrection'
  <2>1. StoresFit' /\ NoResurrection' /\ UNCHANGED fence
      BY <1>5, StoresUntouched DEF ApplySettings, ConversationSettings, Observe, Extract,
         Finalize, Activate, Mark, Fail, Crash
  <2>2. \A v \in Workers \ {w} : pc'[v] = pc[v] /\ job'[v] = job[v]
      BY <1>5, HandleShape DEF Handle
  <2>3. ASSUME pc'[w] \in WritingPhases PROVE pc[w] \in WritingPhases /\ job'[w] = job[w]
      BY <1>5, <2>3 DEF ApplySettings, ConversationSettings, Observe, Extract, Finalize,
         Activate, Mark, Fail, Crash, TypeOK, WritingPhases
  <2> QED BY <2>1, <2>2, <2>3, GuardedMove DEF Guarded
<1>6. ASSUME NEW w \in Workers, Reconcile(w)
      PROVE  Guarded' /\ StoresFit' /\ NoResurrection'
  <2>1. /\ UNCHANGED <<fence, staged>>
        /\ \A v \in Workers \ {w} : pc'[v] = pc[v] /\ job'[v] = job[v]
        /\ job'[w] = job[w] /\ pc[w] = "reconcile"
      BY <1>6 DEF Reconcile, TypeOK
  <2>2. ~Blocked(job[w]) /\ job[w].type \in EvidenceTypes
      BY <2>1 DEF Guarded, HandlerFits, WritingPhases
  <2>3. \A x \in evidence' : x \in evidence \/ x[1] = job[w]
      BY <1>6 DEF Reconcile
  <2>4. NoResurrection' /\ StoresFit'
      BY <2>1, <2>2, <2>3 DEF NoResurrection, StoresFit, Blocked
  <2> QED BY <2>1, <2>2, <2>4, GuardedMove
<1>7. ASSUME NEW w \in Workers, Stage(w)
      PROVE  Guarded' /\ StoresFit' /\ NoResurrection'
  <2>1. /\ UNCHANGED <<fence, evidence>>
        /\ \A v \in Workers \ {w} : pc'[v] = pc[v] /\ job'[v] = job[v]
        /\ job'[w] = job[w] /\ pc[w] = "stage"
      BY <1>7 DEF Stage, TypeOK
  <2>2. ~Blocked(job[w]) /\ job[w].type = "document.projection.upserted"
      BY <2>1 DEF Guarded, HandlerFits, WritingPhases
  <2>3. \A p \in Projections : \A e \in staged'[p] :
            e \in staged[p] \/ (e = job[w] /\ p = job[w].projection)
      BY <1>7 DEF Stage, TypeOK
  <2>4. NoResurrection' /\ StoresFit'
      BY <2>1, <2>2, <2>3 DEF NoResurrection, StoresFit, Blocked
  <2> QED BY <2>1, <2>2, <2>4, GuardedMove
<1>8. ASSUME NEW w \in Workers, Delete(w)
      PROVE  Guarded' /\ StoresFit' /\ NoResurrection'
  <2>1. NoResurrection'
      BY <1>8, DeleteEvidence, DeleteBatches DEF NoResurrection
  <2>2. StoresFit'
      BY <1>8 DEF Delete, StoresFit, TypeOK
  <2> QED BY <1>8, <2>1, <2>2, DeleteKeepsGuard
<1>9. CASE UNCHANGED vars
    BY <1>9, StoresUntouched DEF vars, Guarded, Blocked
<1> QED BY <1>1, <1>2, <1>3, <1>4, <1>5, <1>6, <1>7, <1>8, <1>9 DEF Next, Handle

\* Nothing deleted comes back: no evidence and no projection batch in the stores is
\* older than a deletion of its source, whatever the order, repetition, crashes and
\* concurrency of the events' processing.
THEOREM NothingResurrected == Spec => []NoResurrection
<1>1. Init => HandlerFits /\ Guarded /\ StoresFit /\ NoResurrection
    BY DEF Init, HandlerFits, Guarded, StoresFit, NoResurrection, WritingPhases
<1> QED BY <1>1, HandlerFitsStep, SafeStep, TypeCorrect, LocksExclude, PTL DEF Spec

-----------------------------------------------------------------------------
\* The rows and workers of received events.
Received ==
    /\ \A e \in tasks : inbox[e] # "absent"
    /\ \A w \in Workers : job[w] # None => inbox[job[w]] # "absent"

\* What each step does to the rows: a verdict is written on a pending row only, by the worker
\* of the event, or by a conversation on a settings event before it.
LEMMA RowSteps ==
    ASSUME TypeOK, [Next]_vars, NEW e \in Events, inbox'[e] # inbox[e]
    PROVE  \/ inbox[e] = "absent" /\ inbox'[e] = "pending"
           \/ /\ inbox[e] = "pending"
              /\ \/ \E w \in Workers : /\ Mark(w) /\ job[w] = e
                                       /\ inbox'[e] = Outcome(pc[w])
                 \/ \E w \in Workers : /\ ConversationSettings(w)
                                       /\ e \in EarlierPendingSettings(job[w])
                                       /\ inbox'[e] = IF e.valid THEN "succeeded" ELSE "failed"
<1> USE DEF TypeOK
<1>1. ASSUME NEW f \in Events, Receive(f) \/ Redispatch(f) PROVE inbox[e] = "absent" /\ inbox'[e] = "pending"
    BY <1>1 DEF Receive, Redispatch
<1>2. ASSUME NEW f \in Events, NEW w \in Workers, Take(w, f) PROVE FALSE
    BY <1>2 DEF Take
<1>3. ASSUME NEW w \in Workers,
             \/ EnterScope(w) \/ Guard(w) \/ ApplySettings(w) \/ Observe(w) \/ Extract(w)
             \/ Reconcile(w) \/ Stage(w) \/ Finalize(w) \/ Activate(w) \/ Delete(w)
             \/ Fail(w) \/ Crash(w)
      PROVE  FALSE
    BY <1>3 DEF EnterScope, Guard, ApplySettings, Observe, Extract, Reconcile, Stage, Finalize,
                Activate, Delete, Fail, Crash
<1>4. ASSUME NEW w \in Workers, ConversationSettings(w)
      PROVE  /\ e \in EarlierPendingSettings(job[w]) /\ inbox[e] = "pending"
             /\ inbox'[e] = IF e.valid THEN "succeeded" ELSE "failed"
    BY <1>4 DEF ConversationSettings, EarlierPendingSettings
<1>5. ASSUME NEW w \in Workers, Mark(w)
      PROVE  job[w] = e /\ inbox[e] = "pending" /\ inbox'[e] = Outcome(pc[w])
    BY <1>5 DEF Mark
<1>6. ~UNCHANGED vars
    BY DEF vars
<1> QED BY <1>1, <1>2, <1>3, <1>4, <1>5, <1>6 DEF Next, Handle

\* Verdicts are final, even when a conversation finishes a settings event another worker has.
THEOREM VerdictsStay == Spec => TerminalStays
<1>1. TypeOK /\ [Next]_vars
        => [\A e \in Events : inbox[e] \in {"succeeded", "failed"} => inbox'[e] = inbox[e]]_vars
  <2> SUFFICES ASSUME TypeOK, [Next]_vars, NEW e \in Events,
                      inbox[e] \in {"succeeded", "failed"}, inbox'[e] # inbox[e]
               PROVE  FALSE
      OBVIOUS
  <2> QED BY RowSteps
<1> QED BY <1>1, TypeCorrect, PTL DEF Spec, TerminalStays

-----------------------------------------------------------------------------
\* The fields of a switch change.
LEMMA ChangeFields ==
    ASSUME NEW e \in Events, NEW n \in DOMAIN e.changes
    PROVE  n \in SettingNames /\ e.changes[n] \in BOOLEAN
<1>1. PICK names \in SUBSET SettingNames : e.changes \in [names -> BOOLEAN]
    BY EventsAssumption DEF EventRecord
<1> QED BY <1>1

\* Who the newest event of a set is.
LEMMA LatestNewest ==
    ASSUME NEW S \in SUBSET Events, NEW e \in S
    PROVE  Latest(S) \in S /\ e.order <= Latest(S).order
BY NewestAssumption DEF Latest

\* Received events stay received, and only received events have tasks and workers.
LEMMA ReceivedStep == TypeOK /\ Received /\ [Next]_vars => Received'
<1> SUFFICES ASSUME TypeOK, Received, [Next]_vars PROVE Received'
    OBVIOUS
<1>1. ASSUME NEW e \in Events, inbox[e] # "absent" PROVE inbox'[e] # "absent"
    BY <1>1, RowSteps DEF Outcome
<1> USE <1>1 DEF TypeOK, Received, Goto, workerVars
<1>2. ASSUME NEW e \in Events, Receive(e) \/ Redispatch(e) PROVE Received'
    BY <1>2 DEF Receive, Redispatch
<1>3. ASSUME NEW e \in Events, NEW w \in Workers, Take(w, e) PROVE Received'
    BY <1>3 DEF Take
<1>4. ASSUME NEW w \in Workers, Crash(w) PROVE Received'
    BY <1>4 DEF Crash
<1>5. ASSUME NEW w \in Workers, EnterScope(w) \/ Handle(w) \/ Fail(w) PROVE Received'
  <2>1. UNCHANGED tasks
      BY <1>5 DEF EnterScope, Handle, Fail, Guard, ApplySettings, ConversationSettings, Observe,
                  Extract, Reconcile, Stage, Finalize, Activate, Delete, Mark
  <2>2. \A v \in Workers : job'[v] \in {job[v], None}
      BY <1>5, HandleShape DEF EnterScope
  <2> QED BY <2>1, <2>2
<1>6. CASE UNCHANGED vars
    BY <1>6 DEF vars
<1> QED BY <1>2, <1>3, <1>4, <1>5, <1>6 DEF Next

-----------------------------------------------------------------------------
IsSettings(e) == e.type = "user.memory_settings.changed"

\* A switch remembers an event that was received, and says what that event says.
SettingsHaveSource ==
    /\ \A n \in SettingNames : settingsOrder[n] # 0 =>
          \E g \in Events : /\ IsSettings(g) /\ inbox[g] # "absent"
                            /\ n \in DOMAIN g.changes /\ g.order = settingsOrder[n]
    /\ \A g \in Events : \A n \in DOMAIN g.changes :
          g.order = settingsOrder[n] => settings[n] = g.changes[n]

\* The switches are at least as new as the event.
Applied(e) == \A n \in DOMAIN e.changes : e.order <= settingsOrder[n]

\* A settings event is on its way to a verdict only once it is applied, or invalid.
SettingsDone ==
    /\ \A e \in Events : IsSettings(e) /\ inbox[e] = "succeeded" => Applied(e)
    /\ \A e \in Events : IsSettings(e) /\ inbox[e] = "failed" => ~e.valid
    /\ \A w \in Workers : pc[w] = "succeed" /\ IsSettings(job[w]) => Applied(job[w])
    /\ \A w \in Workers : pc[w] = "reject" /\ IsSettings(job[w]) => ~job[w].valid

\* Applying received settings events leaves a source for every switch, sets no switch back,
\* and makes the switches as new as the events.
LEMMA ApplyInOrderEffect ==
    ASSUME TypeOK, SettingsHaveSource, NEW S \in SUBSET Events, ApplyInOrder(S),
           \A e \in S : IsSettings(e) /\ inbox[e] # "absent",
           \A e \in Events : inbox[e] # "absent" => inbox'[e] # "absent"
    PROVE  /\ SettingsHaveSource'
           /\ \A n \in SettingNames : settingsOrder[n] <= settingsOrder'[n]
           /\ \A e \in S : Applied(e)'
<1>1. /\ \A e \in Events : e.order \in Nat \ {0}
      /\ \A n \in SettingNames : settingsOrder[n] \in Nat
    BY EventFields DEF TypeOK
<1>2. ASSUME NEW n \in SettingNames, Newer(S, n) = {}
      PROVE  /\ settingsOrder'[n] = settingsOrder[n] /\ settings'[n] = settings[n]
             /\ \A e \in S : n \in DOMAIN e.changes => e.order <= settingsOrder[n]
    BY <1>1, <1>2 DEF ApplyInOrder, Newer
<1>3. ASSUME NEW n \in SettingNames, Newer(S, n) # {}
      PROVE  \E g \in S : /\ n \in DOMAIN g.changes
                          /\ settingsOrder'[n] = g.order /\ settings'[n] = g.changes[n]
                          /\ settingsOrder[n] < g.order
                          /\ \A e \in S : n \in DOMAIN e.changes => e.order <= g.order
  <2> DEFINE g == Latest(Newer(S, n))
  <2>1. g \in Newer(S, n) /\ \A e \in Newer(S, n) : e.order <= g.order
      BY <1>3, LatestNewest DEF Newer
  <2>2. settingsOrder'[n] = g.order /\ settings'[n] = g.changes[n]
      BY <1>3 DEF ApplyInOrder
  <2> HIDE DEF g
  <2>3. g \in S /\ n \in DOMAIN g.changes /\ settingsOrder[n] < g.order
      BY <1>1, <2>1 DEF Newer
  <2>4. ASSUME NEW e \in S, n \in DOMAIN e.changes PROVE e.order <= g.order
      BY <1>1, <2>1, <2>3, <2>4 DEF Newer
  <2> QED BY <2>2, <2>3, <2>4
<1>4. \A n \in SettingNames : settingsOrder[n] <= settingsOrder'[n]
    BY <1>1, <1>2, <1>3
<1>5. \A e \in S : Applied(e)'
    BY <1>2, <1>3, ChangeFields DEF Applied
<1>6. ASSUME NEW n \in SettingNames, settingsOrder'[n] # 0
      PROVE  \E g \in Events : /\ IsSettings(g) /\ inbox'[g] # "absent"
                               /\ n \in DOMAIN g.changes /\ g.order = settingsOrder'[n]
    BY <1>2, <1>3, <1>6 DEF SettingsHaveSource
<1>7. ASSUME NEW g \in Events, NEW n \in DOMAIN g.changes, g.order = settingsOrder'[n]
      PROVE  settings'[n] = g.changes[n]
  <2>1. n \in SettingNames
      BY ChangeFields
  <2>2. CASE Newer(S, n) = {}
      BY <1>2, <1>7, <2>1, <2>2 DEF SettingsHaveSource
  <2>3. CASE Newer(S, n) # {}
      BY <1>3, <1>7, <2>1, <2>3, EventsAssumption
  <2> QED BY <2>2, <2>3
<1> QED BY <1>4, <1>5, <1>6, <1>7 DEF SettingsHaveSource, IsSettings

\* A step that leaves the switches alone, and lets no settings event get ahead.
LEMMA SettingsUntouched ==
    ASSUME TypeOK, SettingsHaveSource, SettingsDone, UNCHANGED settingsVars,
           \A e \in Events : inbox[e] # "absent" => inbox'[e] # "absent",
           \A e \in Events : IsSettings(e) /\ inbox'[e] \in {"succeeded", "failed"} =>
              inbox'[e] = inbox[e],
           \A w \in Workers : pc'[w] \in {"succeed", "reject"} =>
              \/ job'[w] = job[w] /\ pc'[w] = pc[w]
              \/ ~IsSettings(job'[w])
              \/ pc'[w] = "reject" /\ ~job'[w].valid
    PROVE  SettingsHaveSource' /\ SettingsDone'
BY DEF SettingsHaveSource, SettingsDone, Applied, settingsVars, IsSettings

\* What is applied stays applied.
LEMMA AppliedStays ==
    ASSUME TypeOK, NEW e \in Events, Applied(e),
           \A n \in SettingNames : /\ settingsOrder'[n] \in Nat
                                   /\ settingsOrder[n] <= settingsOrder'[n]
    PROVE  Applied(e)'
BY EventFields, ChangeFields DEF Applied, TypeOK

LEMMA SettingsStep ==
    TypeOK /\ TypeOK' /\ HandlerFits /\ Received /\ SettingsHaveSource /\ SettingsDone
      /\ [Next]_vars => SettingsHaveSource' /\ SettingsDone'
<1> SUFFICES ASSUME TypeOK, TypeOK', HandlerFits, Received, SettingsHaveSource, SettingsDone,
                    [Next]_vars
             PROVE  SettingsHaveSource' /\ SettingsDone'
    OBVIOUS
<1>1. \A e \in Events : inbox[e] # "absent" => inbox'[e] # "absent"
    BY RowSteps DEF Outcome
<1> USE DEF Goto, workerVars
<1>2. ASSUME NEW e \in Events, Receive(e) \/ Redispatch(e)
      PROVE  SettingsHaveSource' /\ SettingsDone'
  <2>1. UNCHANGED <<settingsVars, workerVars>>
      BY <1>2 DEF Receive, Redispatch
  <2>2. \A f \in Events : inbox'[f] \in {"succeeded", "failed"} => inbox'[f] = inbox[f]
      BY <1>2 DEF Receive, Redispatch, TypeOK
  <2> QED BY <1>1, <2>1, <2>2, SettingsUntouched
<1>3. ASSUME NEW e \in Events, NEW w \in Workers, Take(w, e)
      PROVE  SettingsHaveSource' /\ SettingsDone'
  <2>1. UNCHANGED <<settingsVars, inbox>>
      BY <1>3 DEF Take
  <2>2. \A v \in Workers : pc'[v] \in {"succeed", "reject"} => job'[v] = job[v] /\ pc'[v] = pc[v]
      BY <1>3 DEF Take, TypeOK
  <2> QED BY <2>1, <2>2, SettingsUntouched
<1>4. ASSUME NEW w \in Workers,
             \/ EnterScope(w) \/ Guard(w) \/ Observe(w) \/ Extract(w) \/ Reconcile(w)
             \/ Stage(w) \/ Finalize(w) \/ Activate(w) \/ Delete(w) \/ Fail(w) \/ Crash(w)
      PROVE  SettingsHaveSource' /\ SettingsDone'
  <2>1. UNCHANGED <<settingsVars, inbox>>
      BY <1>4 DEF EnterScope, Guard, Observe, Extract, Reconcile, Stage, Finalize, Activate,
                  Delete, Fail, Crash
  <2>2. \A v \in Workers \ {w} : job'[v] = job[v] /\ pc'[v] = pc[v]
      BY <1>4, HandleShape DEF Handle, EnterScope, TypeOK
  <2>3. ASSUME pc'[w] \in {"succeed", "reject"}
        PROVE  ~IsSettings(job'[w]) \/ (pc'[w] = "reject" /\ ~job'[w].valid)
    <3>1. CASE Guard(w)
        BY <3>1, <2>3 DEF Guard, Handler, ChecksFences, IsSettings, TypeOK
    <3>2. CASE \/ Observe(w) \/ Extract(w) \/ Reconcile(w) \/ Stage(w) \/ Finalize(w)
               \/ Activate(w) \/ Delete(w)
      <4>1. job'[w] = job[w]
          BY <3>2 DEF Observe, Extract, Reconcile, Stage, Finalize, Activate, Delete
      <4>2. pc[w] \in {"observe", "extract", "reconcile", "stage", "finalize", "activate",
                       "delete"}
          BY <3>2 DEF Observe, Extract, Reconcile, Stage, Finalize, Activate, Delete
      <4> QED BY <4>1, <4>2 DEF HandlerFits, EvidenceTypes, DeletionTypes, IsSettings
    <3>3. CASE EnterScope(w) \/ Fail(w) \/ Crash(w)
        BY <3>3, <2>3 DEF EnterScope, Fail, Crash, TypeOK
    <3> QED BY <1>4, <3>1, <3>2, <3>3
  <2> QED BY <2>1, <2>2, <2>3, SettingsUntouched
<1>5. ASSUME NEW w \in Workers, ApplySettings(w)
      PROVE  SettingsHaveSource' /\ SettingsDone'
  <2>1. /\ job[w] \in Events /\ IsSettings(job[w]) /\ inbox[job[w]] # "absent"
        /\ inbox' = inbox /\ job' = job /\ pc' = [pc EXCEPT ![w] = "succeed"]
      BY <1>5 DEF ApplySettings, TypeOK, HandlerFits, Received, IsSettings
  <2>2. ApplyInOrder({job[w]})
      BY <1>5 DEF ApplySettings
  <2>3. /\ SettingsHaveSource' /\ Applied(job[w])'
        /\ \A n \in SettingNames : settingsOrder[n] <= settingsOrder'[n]
    <3>1. {job[w]} \in SUBSET Events
        BY <2>1
    <3>2. /\ SettingsHaveSource' /\ \A e \in {job[w]} : Applied(e)'
          /\ \A n \in SettingNames : settingsOrder[n] <= settingsOrder'[n]
        BY <1>1, <2>1, <2>2, <3>1, ApplyInOrderEffect
    <3> QED BY <2>1, <3>2 DEF Applied
  <2>4. \A e \in Events : Applied(e) => Applied(e)'
      BY <2>3, AppliedStays DEF TypeOK
  <2>5. SettingsDone'
      BY <2>1, <2>3, <2>4 DEF SettingsDone, TypeOK, IsSettings
  <2> QED BY <2>3, <2>5
<1>6. ASSUME NEW w \in Workers, ConversationSettings(w)
      PROVE  SettingsHaveSource' /\ SettingsDone'
  <2> DEFINE earlier == EarlierPendingSettings(job[w])
             S == {f \in earlier : f.valid}
  <2>1. /\ earlier \subseteq Events
        /\ \A e \in earlier : IsSettings(e) /\ inbox[e] # "absent"
      BY DEF EarlierPendingSettings, IsSettings
  <2>2. /\ ApplyInOrder(S)
        /\ inbox' = [f \in Events |-> IF f \notin earlier THEN inbox[f]
                                      ELSE IF f.valid THEN "succeeded" ELSE "failed"]
        /\ job' = job /\ pc[w] = "settings"
        /\ \E q \in {"extract", "succeed"} : pc' = [pc EXCEPT ![w] = q]
      BY <1>6 DEF ConversationSettings
  <2>3. ~IsSettings(job[w])
      BY <2>2 DEF HandlerFits, EvidenceTypes, IsSettings
  <2> HIDE DEF earlier
  <2>4. S \in SUBSET Events
      BY <2>1
  <2>5. /\ SettingsHaveSource' /\ \A e \in S : Applied(e)'
        /\ \A n \in SettingNames : settingsOrder[n] <= settingsOrder'[n]
      BY <1>1, <2>1, <2>2, <2>4, ApplyInOrderEffect
  <2>6. \A e \in Events : Applied(e) => Applied(e)'
      BY <2>5, AppliedStays DEF TypeOK
  <2>7. SettingsDone'
      BY <2>2, <2>3, <2>5, <2>6 DEF SettingsDone, TypeOK, IsSettings
  <2> QED BY <2>5, <2>7
<1>7. ASSUME NEW w \in Workers, Mark(w)
      PROVE  SettingsHaveSource' /\ SettingsDone'
  <2>1. /\ job[w] \in Events /\ UNCHANGED settingsVars
        /\ pc' = [pc EXCEPT ![w] = "idle"] /\ job' = [job EXCEPT ![w] = None]
        /\ pc[w] \in {"succeed", "reject", "retry"}
        /\ inbox' = [inbox EXCEPT ![job[w]] = IF @ = "pending" THEN Outcome(pc[w]) ELSE @]
      BY <1>7 DEF Mark, TypeOK
  <2>2. SettingsHaveSource'
      BY <1>1, <2>1 DEF SettingsHaveSource, settingsVars
  <2>3. \A e \in Events : Applied(e)' <=> Applied(e)
      BY <2>1 DEF Applied, settingsVars
  <2>4. \A v \in Workers : pc'[v] \in {"succeed", "reject"} => v # w
      BY <2>1 DEF TypeOK
  <2>5. ASSUME NEW e \in Events, IsSettings(e), inbox'[e] = "succeeded" PROVE Applied(e)
      BY <2>1, <2>5 DEF SettingsDone, Outcome, TypeOK
  <2>6. ASSUME NEW e \in Events, IsSettings(e), inbox'[e] = "failed" PROVE ~e.valid
      BY <2>1, <2>6 DEF SettingsDone, Outcome, TypeOK
  <2>7. SettingsDone'
    <3>1. \A v \in Workers : pc'[v] \in {"succeed", "reject"} =>
              pc'[v] = pc[v] /\ job'[v] = job[v] /\ job[v] \in Events
        BY <2>1, <2>4 DEF TypeOK
    <3> QED BY <2>3, <2>5, <2>6, <3>1 DEF SettingsDone, IsSettings
  <2> QED BY <2>2, <2>7
<1>8. CASE UNCHANGED vars
    BY <1>8 DEF vars, settingsVars, SettingsHaveSource, SettingsDone, Applied, IsSettings
<1> QED BY <1>2, <1>3, <1>4, <1>5, <1>6, <1>7, <1>8 DEF Next, Handle

\* Received, and everything about the switches, holds always.
LEMMA SettingsSound == Spec => [](Received /\ SettingsHaveSource /\ SettingsDone)
<1>1. Init => HandlerFits /\ Received /\ SettingsHaveSource /\ SettingsDone
  <2> SUFFICES ASSUME Init PROVE HandlerFits /\ Received /\ SettingsHaveSource /\ SettingsDone
      OBVIOUS
  <2>1. HandlerFits /\ Received
      BY DEF Init, HandlerFits, Received
  <2>2. SettingsHaveSource
      BY EventFields, ChangeFields DEF Init, SettingsHaveSource
  <2>3. SettingsDone
      BY DEF Init, SettingsDone
  <2> QED BY <2>1, <2>2, <2>3
<1> QED BY <1>1, HandlerFitsStep, ReceivedStep, SettingsStep, TypeCorrect, PTL DEF Spec

\* Each switch holds what the newest settings event processed so far says, however often and
\* in whatever order the events were applied, by their own worker or by a conversation's.
THEOREM SettingsInOrder == Spec => []SettingsFollowOrder
<1>1. SettingsHaveSource /\ SettingsDone => SettingsFollowOrder
    BY DEF SettingsHaveSource, SettingsDone, SettingsFollowOrder, Applied, IsSettings
<1> QED BY <1>1, SettingsSound, PTL

\* A conversation is not mined against a switch-off that was received and precedes it: a
\* switch that is on although the switch-off was applied was set by a newer event.
THEOREM OptOutRespected == Spec => OptOutNotOvertaken
<1>1. TypeOK /\ TypeOK' /\ Received /\ SettingsHaveSource /\ SettingsDone /\ [Next]_vars
        => [\A w \in Workers : pc[w] = "settings" /\ pc'[w] = "extract" =>
              \A f \in Events :
                 /\ f.type = "user.memory_settings.changed" /\ f.valid
                 /\ inbox[f] # "absent" /\ f.order < job[w].order
                 /\ Automatic \in DOMAIN f.changes /\ ~f.changes[Automatic]
                 => \E g \in Events :
                       /\ g.type = "user.memory_settings.changed"
                       /\ inbox[g] # "absent" /\ g.order > f.order
                       /\ Automatic \in DOMAIN g.changes /\ g.changes[Automatic]]_vars
  <2> SUFFICES ASSUME TypeOK, TypeOK', Received, SettingsHaveSource, SettingsDone, [Next]_vars,
                      NEW w \in Workers, pc[w] = "settings", pc'[w] = "extract",
                      NEW f \in Events,
                      IsSettings(f) /\ f.valid /\ inbox[f] # "absent" /\ f.order < job[w].order,
                      Automatic \in DOMAIN f.changes, ~f.changes[Automatic]
               PROVE  \E g \in Events : /\ IsSettings(g)
                                        /\ inbox[g] # "absent" /\ g.order > f.order
                                        /\ Automatic \in DOMAIN g.changes /\ g.changes[Automatic]
      BY DEF IsSettings
  <2> DEFINE earlier == EarlierPendingSettings(job[w])
             S == {e \in earlier : e.valid}
  <2>1. ConversationSettings(w)
    <3>1. ASSUME NEW v \in Workers, Handle(v) \/ Fail(v) \/ Crash(v) PROVE v = w
        BY <3>1, HandleShape
    <3>2. ASSUME NEW e \in Events, NEW v \in Workers, Take(v, e) PROVE FALSE
        BY <3>2 DEF Take, TypeOK, Goto, workerVars
    <3>3. ASSUME NEW v \in Workers, EnterScope(v) PROVE FALSE
        BY <3>3 DEF EnterScope, TypeOK, Goto
    <3>4. ASSUME NEW e \in Events, Receive(e) \/ Redispatch(e) PROVE FALSE
        BY <3>4 DEF Receive, Redispatch, workerVars
    <3>5. ~UNCHANGED vars
        BY DEF vars, workerVars
    <3>6. Handle(w)
        BY <3>1, <3>2, <3>3, <3>4, <3>5 DEF Next, Fail, Crash, TypeOK, Goto
    <3> QED BY <3>6 DEF Handle, Guard, ApplySettings, Observe, Extract, Reconcile, Stage,
                        Finalize, Activate, Delete, Mark
  <2>2. ApplyInOrder(S) /\ settings'[Automatic]
      BY <2>1, ConstantsAssumption DEF ConversationSettings, TypeOK, Goto
  <2>3. /\ S \in SUBSET Events
        /\ \A e \in S : IsSettings(e) /\ inbox[e] # "absent"
      BY DEF EarlierPendingSettings, IsSettings
  <2>4. /\ SettingsHaveSource' /\ \A e \in S : Applied(e)'
        /\ \A n \in SettingNames : settingsOrder[n] <= settingsOrder'[n]
    <3>1. \A e \in Events : inbox[e] # "absent" => inbox'[e] # "absent"
        BY RowSteps DEF Outcome
    <3> QED BY <2>2, <2>3, <3>1, ApplyInOrderEffect
  <2>5. Applied(f)'
    <3>1. CASE f \in S
        BY <2>4, <3>1
    <3>2. CASE f \notin S
      <4>1. inbox[f] = "succeeded"
          BY <3>2 DEF EarlierPendingSettings, IsSettings, SettingsDone, TypeOK
      <4>2. Applied(f)
          BY <4>1 DEF SettingsDone
      <4> QED BY <2>4, <4>2, AppliedStays DEF TypeOK
    <3> QED BY <3>1, <3>2
  <2>6. /\ f.order \in Nat \ {0} /\ settingsOrder'[Automatic] \in Nat
        /\ f.order <= settingsOrder'[Automatic] /\ f.order # settingsOrder'[Automatic]
      BY <2>2, <2>4, <2>5, EventFields, ConstantsAssumption
         DEF Applied, SettingsHaveSource, TypeOK
  <2>7. PICK g \in Events : /\ IsSettings(g) /\ inbox'[g] # "absent"
                            /\ Automatic \in DOMAIN g.changes
                            /\ g.order = settingsOrder'[Automatic]
      BY <2>4, <2>6, ConstantsAssumption DEF SettingsHaveSource, IsSettings
  <2>8. g.changes[Automatic]
      BY <2>2, <2>4, <2>7 DEF SettingsHaveSource
  <2>9. inbox[g] # "absent"
      BY <2>1, <2>7 DEF ConversationSettings, EarlierPendingSettings, TypeOK
  <2> QED BY <2>6, <2>7, <2>8, <2>9
<1> QED BY <1>1, TypeCorrect, SettingsSound, PTL DEF Spec, OptOutNotOvertaken

-----------------------------------------------------------------------------
\* No step lowers a fence.
LEMMA FencesRise ==
    ASSUME TypeOK, [Next]_vars, NEW s \in Scopes, NEW x \in Sources
    PROVE  fence[s][x] <= fence'[s][x]
<1> USE DEF TypeOK
<1>1. ASSUME NEW w \in Workers, Delete(w) PROVE fence[s][x] <= fence'[s][x]
  <2>1. job[w] \in Events /\ job[w].order \in Nat
      BY <1>1, EventFields DEF Delete
  <2> QED BY <1>1, <2>1, DeleteFence DEF Delete, storeVars
<1>2. CASE UNCHANGED fence
    BY <1>2
<1> QED BY <1>1, <1>2 DEF Next, Handle, vars, storeVars, Receive, Redispatch, Take, EnterScope,
           Guard, ApplySettings, ConversationSettings, Observe, Extract, Reconcile, Stage,
           Finalize, Activate, Mark, Fail, Crash

\* What a fence covers stays covered.
LEMMA BlockedStays ==
    ASSUME TypeOK, TypeOK', [Next]_vars, NEW e \in Events, Blocked(e)
    PROVE  Blocked(e)'
<1>1. PICK s \in FenceSources(e) : fence[e.scope][s] >= e.order
    BY DEF Blocked
<1>2. e.scope \in Scopes /\ s \in Sources /\ e.order \in Nat
    BY <1>1, EventFields, ConstantsAssumption DEF FenceSources
<1>3. fence'[e.scope][s] >= e.order
    BY <1>1, <1>2, FencesRise DEF TypeOK
<1> QED BY <1>1, <1>3 DEF Blocked

\* A deletion is about to be reported, or was, only with its fence in place.
DeletionsDone ==
    /\ \A e \in Events : e.type \in DeletionTypes /\ inbox[e] = "succeeded" => Blocked(e)
    /\ \A w \in Workers : pc[w] = "succeed" /\ job[w].type \in DeletionTypes => Blocked(job[w])

\* Who enters the phase "succeed" with a deletion has found or raised its fence.
LEMMA DeletionFenced ==
    ASSUME TypeOK, TypeOK', HandlerFits, [Next]_vars, NEW w \in Workers,
           pc'[w] = "succeed", pc[w] # "succeed",
           NEW e \in Events, job'[w] = e, e.type \in DeletionTypes
    PROVE  Blocked(e)'
<1> USE DEF TypeOK, Goto, workerVars
<1>1. ASSUME NEW f \in Events, Receive(f) \/ Redispatch(f) PROVE FALSE
    BY <1>1 DEF Receive, Redispatch
<1>2. ASSUME NEW f \in Events, NEW v \in Workers, Take(v, f) PROVE FALSE
    BY <1>2 DEF Take
<1>3. ASSUME NEW v \in Workers, EnterScope(v) PROVE FALSE
    BY <1>3 DEF EnterScope
<1>4. ASSUME NEW v \in Workers, Handle(v) \/ Fail(v) \/ Crash(v)
      PROVE  v = w /\ job[w] = e /\ Handle(w)
  <2>1. v = w
      BY <1>4, HandleShape
  <2>2. ~Fail(v) /\ ~Crash(v)
      BY <2>1 DEF Fail, Crash
  <2> QED BY <1>4, <2>1, <2>2, HandleShape
<1>5. ~UNCHANGED vars
    BY DEF vars
<1>6. Handle(w) /\ job[w] = e
    BY <1>1, <1>2, <1>3, <1>4, <1>5 DEF Next
<1>7. CASE Guard(w)
  <2>1. Blocked(e)
      BY <1>6, <1>7 DEF Guard, Handler
  <2> QED BY <1>6, <2>1, BlockedStays
<1>8. CASE Delete(w)
  <2>1. /\ e.scope \in Scopes /\ e.origin \in Sources /\ e.order \in Nat /\ e.origin \in e.sources
        /\ fence[e.scope][e.origin] \in Nat
      BY <1>6, <1>8, EventFields, ProducersAssumption DEF Delete, HandlerFits
  <2>2. fence'[e.scope][e.origin] >= e.order
      BY <1>6, <1>8, <2>1 DEF Delete, storeVars
  <2> QED BY <1>6, <2>1, <2>2 DEF Blocked, FenceSources
<1>9. CASE \/ ApplySettings(w) \/ ConversationSettings(w) \/ Observe(w) \/ Extract(w)
           \/ Reconcile(w) \/ Stage(w) \/ Finalize(w) \/ Activate(w)
  <2>1. pc[w] \in {"apply", "settings", "observe", "extract", "reconcile", "stage", "finalize",
                   "activate"}
      BY <1>9 DEF ApplySettings, ConversationSettings, Observe, Extract, Reconcile, Stage,
                  Finalize, Activate
  <2> QED BY <1>6, <2>1 DEF HandlerFits, EvidenceTypes, DeletionTypes
<1>10. ~Mark(w)
    BY DEF Mark
<1> QED BY <1>6, <1>7, <1>8, <1>9, <1>10 DEF Handle

\* The job of a worker about to report success does not change.
LEMMA SucceedKeepsJob ==
    ASSUME TypeOK, [Next]_vars, NEW w \in Workers, pc'[w] = "succeed"
    PROVE  job'[w] = job[w] /\ job[w] \in Events
<1> USE DEF TypeOK, Goto, workerVars
<1>1. ASSUME NEW e \in Events, Receive(e) \/ Redispatch(e) PROVE job'[w] = job[w] /\ pc'[w] = pc[w]
    BY <1>1 DEF Receive, Redispatch
<1>2. ASSUME NEW e \in Events, NEW v \in Workers, Take(v, e) PROVE job'[w] = job[w] /\ pc'[w] = pc[w]
    BY <1>2 DEF Take
<1>3. ASSUME NEW v \in Workers, EnterScope(v) PROVE job'[w] = job[w] /\ pc'[w] = pc[w]
    BY <1>3 DEF EnterScope
<1>4. ASSUME NEW v \in Workers, Handle(v) \/ Fail(v) \/ Crash(v)
      PROVE  job'[w] = job[w] /\ (pc'[w] = pc[w] \/ pc[w] # "idle")
  <2>1. CASE v # w
      BY <1>4, <2>1, HandleShape
  <2>2. CASE v = w
    <3>1. pc[w] # "idle"
        BY <1>4, <2>2 DEF Handle, Guard, ApplySettings, ConversationSettings, Observe, Extract,
              Reconcile, Stage, Finalize, Activate, Delete, Mark, Fail, Crash, ScopedPhases,
              WritingPhases
    <3> QED BY <1>4, <2>2, <3>1, HandleShape
  <2> QED BY <2>1, <2>2
<1>5. CASE UNCHANGED vars
    BY <1>5 DEF vars
<1> QED BY <1>1, <1>2, <1>3, <1>4, <1>5 DEF Next

LEMMA DeletionsDoneStep ==
    TypeOK /\ TypeOK' /\ HandlerFits /\ DeletionsDone /\ [Next]_vars => DeletionsDone'
<1> SUFFICES ASSUME TypeOK, TypeOK', HandlerFits, DeletionsDone, [Next]_vars
             PROVE  DeletionsDone'
    OBVIOUS
<1>1. ASSUME NEW e \in Events, e.type \in DeletionTypes, inbox'[e] = "succeeded"
      PROVE  Blocked(e)'
  <2>1. CASE inbox[e] = "succeeded"
      BY <1>1, <2>1, BlockedStays DEF DeletionsDone
  <2>2. CASE inbox[e] # "succeeded"
    <3>1. PICK w \in Workers : Mark(w) /\ job[w] = e /\ Outcome(pc[w]) = "succeeded"
      <4>1. inbox'[e] # inbox[e]
          BY <1>1, <2>2
      <4>2. e.type # "user.memory_settings.changed"
          BY <1>1 DEF DeletionTypes
      <4> QED BY <1>1, <4>1, <4>2, RowSteps DEF EarlierPendingSettings
    <3>2. pc[w] = "succeed"
        BY <3>1 DEF Outcome, Mark
    <3> QED BY <1>1, <3>1, <3>2, BlockedStays DEF DeletionsDone
  <2> QED BY <2>1, <2>2
<1>2. ASSUME NEW w \in Workers, pc'[w] = "succeed", NEW e \in Events, job'[w] = e,
             e.type \in DeletionTypes
      PROVE  Blocked(e)'
  <2>1. CASE pc[w] = "succeed"
    <3>1. Blocked(e)
        BY <1>2, <2>1, SucceedKeepsJob DEF DeletionsDone
    <3> QED BY <3>1, BlockedStays
  <2>2. CASE pc[w] # "succeed"
      BY <1>2, <2>2, DeletionFenced
  <2> QED BY <2>1, <2>2
<1>3. \A w \in Workers : pc'[w] = "succeed" => job'[w] \in Events
    BY DEF TypeOK
<1> QED BY <1>1, <1>2, <1>3 DEF DeletionsDone

\* A deletion reported as succeeded is on record.
THEOREM DeletionsAreFenced == Spec => []DeletionLeavesFence
<1>1. Init => HandlerFits /\ DeletionsDone
    BY DEF Init, HandlerFits, DeletionsDone
<1>2. DeletionsDone => DeletionLeavesFence
    BY DEF DeletionsDone, DeletionLeavesFence
<1> QED BY <1>1, <1>2, HandlerFitsStep, DeletionsDoneStep, TypeCorrect, PTL DEF Spec

-----------------------------------------------------------------------------
\* A worker about to activate a projection has seen it whole and intact, and still has it so.
ActivateReady ==
    \A w \in Workers : pc[w] = "activate" =>
        Complete(job[w].projection) /\ ~Projection[job[w].projection].corrupt

\* The row of an event that is being processed is pending, but for the settings events a
\* conversation finishes.
JobsPending ==
    \A w \in Workers : job[w] # None /\ job[w].type # "user.memory_settings.changed" =>
        inbox[job[w]] = "pending"

\* Neither the document of the projection nor its knowledge base was ever deleted.
Live(p) == \A x \in {Document(p), KnowledgeBase} : fence[Projection[p].scope][x] = 0

\* The event has succeeded, or only its row says otherwise.
Passed(e) ==
    \/ inbox[e] = "succeeded"
    \/ \E w \in Workers : pc[w] = "succeed" /\ job[w] = e

Finishing(e) == \E w \in Workers : pc[w] \in {"finalize", "activate"} /\ job[w] = e

\* What holds of a projection on its way to activation, while nobody deletes it: what has
\* passed is stored; as long as the projection is staging, an event is missing; and the event
\* that found it corrupt never passes.
OnItsWay(p) ==
    /\ projStatus[p] = "absent" => staged[p] = {}
    /\ Live(p) =>
        /\ \A e \in EventsOf(p) : Passed(e) \/ Finishing(e) => e \in staged[p]
        /\ {e.batch : e \in EventsOf(p)} = Projection[p].batches /\ projStatus[p] = "staging" =>
              \E e \in EventsOf(p) : ~Passed(e)
        /\ projStatus[p] = "failed" =>
              \E e \in EventsOf(p) : ~Passed(e) /\ ~Finishing(e)

\* A projection's batches come and go, and its status changes, only under the lock of its scope.
LEMMA ProjectionStep ==
    ASSUME TypeOK, HandlerFits, [Next]_vars, NEW p \in Projections,
           staged'[p] # staged[p] \/ projStatus'[p] # projStatus[p]
    PROVE  \E w \in Workers :
              /\ Stage(w) \/ Finalize(w) \/ Activate(w) \/ Delete(w)
              /\ job[w] \in Events /\ job[w].scope = Projection[p].scope
              /\ pc[w] \in ScopedPhases
<1> USE DEF TypeOK, ScopedPhases, WritingPhases
<1>1. ASSUME NEW w \in Workers, Stage(w)
      PROVE  job[w] \in Events /\ job[w].scope = Projection[p].scope /\ pc[w] \in ScopedPhases
  <2>1. job[w] \in Events /\ job[w].type = "document.projection.upserted" /\ pc[w] = "stage"
      BY <1>1 DEF Stage, HandlerFits
  <2>2. p = job[w].projection
      BY <1>1, <2>1, EventFields DEF Stage
  <2> QED BY <2>1, <2>2, ProducersAssumption
<1>2. ASSUME NEW w \in Workers, Finalize(w)
      PROVE  job[w] \in Events /\ job[w].scope = Projection[p].scope /\ pc[w] \in ScopedPhases
  <2>1. job[w] \in Events /\ job[w].type = "document.projection.upserted" /\ pc[w] = "finalize"
      BY <1>2 DEF Finalize, HandlerFits
  <2>2. p = job[w].projection
      BY <1>2, <2>1, EventFields DEF Finalize
  <2> QED BY <2>1, <2>2, ProducersAssumption
<1>3. ASSUME NEW w \in Workers, Activate(w)
      PROVE  job[w] \in Events /\ job[w].scope = Projection[p].scope /\ pc[w] \in ScopedPhases
  <2>1. job[w] \in Events /\ job[w].type = "document.projection.upserted" /\ pc[w] = "activate"
      BY <1>3 DEF Activate, HandlerFits
  <2>2. p = job[w].projection \/ SameDocument(job[w].projection, p)
      BY <1>3, <2>1, EventFields DEF Activate
  <2> QED BY <2>1, <2>2, ProducersAssumption DEF SameDocument
<1>4. ASSUME NEW w \in Workers, Delete(w)
      PROVE  job[w] \in Events /\ job[w].scope = Projection[p].scope /\ pc[w] \in ScopedPhases
    BY <1>4 DEF Delete, storeVars, CoveredProjections
<1>5. ASSUME NEW e \in Events, Receive(e) \/ Redispatch(e) PROVE FALSE
    BY <1>5 DEF Receive, Redispatch, storeVars
<1>6. ASSUME NEW e \in Events, NEW w \in Workers, Take(w, e) PROVE FALSE
    BY <1>6 DEF Take, storeVars
<1>7. ASSUME NEW w \in Workers,
             \/ EnterScope(w) \/ Guard(w) \/ ApplySettings(w) \/ ConversationSettings(w)
             \/ Observe(w) \/ Extract(w) \/ Reconcile(w) \/ Mark(w) \/ Fail(w) \/ Crash(w)
      PROVE  FALSE
    BY <1>7 DEF EnterScope, Guard, ApplySettings, ConversationSettings, Observe, Extract,
                Reconcile, Mark, Fail, Crash, storeVars
<1>8. ~UNCHANGED vars
    BY DEF vars, storeVars
<1> QED BY <1>1, <1>2, <1>3, <1>4, <1>5, <1>6, <1>7, <1>8 DEF Next, Handle

\* A worker in the middle of a projection is in the scope of that projection.
LEMMA ProjectionScope ==
    ASSUME TypeOK, HandlerFits, NEW w \in Workers, pc[w] \in {"stage", "finalize", "activate"}
    PROVE  /\ job[w] \in Events /\ job[w].type = "document.projection.upserted"
           /\ job[w].projection \in Projections
           /\ Projection[job[w].projection].scope = job[w].scope
           /\ Document(job[w].projection) = job[w].origin
           /\ pc[w] \in ScopedPhases
BY EventFields, ProducersAssumption DEF TypeOK, HandlerFits, ScopedPhases, WritingPhases, Document

\* How a worker comes to activate a projection.
LEMMA ActivateFrom ==
    ASSUME TypeOK, [Next]_vars, NEW w \in Workers, pc'[w] = "activate"
    PROVE  /\ job'[w] = job[w]
           /\ pc[w] = "activate" \/ Finalize(w)
<1> USE DEF TypeOK, Goto, workerVars
<1>1. ASSUME NEW e \in Events, Receive(e) \/ Redispatch(e) PROVE job'[w] = job[w] /\ pc[w] = "activate"
    BY <1>1 DEF Receive, Redispatch
<1>2. ASSUME NEW e \in Events, NEW v \in Workers, Take(v, e) PROVE job'[w] = job[w] /\ pc[w] = "activate"
    BY <1>2 DEF Take
<1>3. ASSUME NEW v \in Workers, EnterScope(v) PROVE job'[w] = job[w] /\ pc[w] = "activate"
    BY <1>3 DEF EnterScope
<1>4. ASSUME NEW v \in Workers, v # w, Handle(v) \/ Fail(v) \/ Crash(v)
      PROVE  job'[w] = job[w] /\ pc[w] = "activate"
    BY <1>4, HandleShape
<1>5. ASSUME Handle(w) \/ Fail(w) \/ Crash(w)
      PROVE  job'[w] = job[w] /\ Finalize(w)
  <2>1. job'[w] = job[w]
      BY <1>5, HandleShape
  <2>2. ~Guard(w)
      BY DEF Guard, Handler
  <2>3. ~(\/ ApplySettings(w) \/ ConversationSettings(w) \/ Observe(w) \/ Extract(w) \/ Reconcile(w)
          \/ Stage(w) \/ Activate(w) \/ Delete(w) \/ Mark(w) \/ Fail(w) \/ Crash(w))
      BY DEF ApplySettings, ConversationSettings, Observe, Extract, Reconcile, Stage, Activate,
             Delete, Mark, Fail, Crash
  <2> QED BY <1>5, <2>1, <2>2, <2>3 DEF Handle
<1>6. CASE UNCHANGED vars
    BY <1>6 DEF vars
<1> QED BY <1>1, <1>2, <1>3, <1>4, <1>5, <1>6 DEF Next

LEMMA ActivateReadyStep ==
    TypeOK /\ TypeOK' /\ Exclusion /\ HandlerFits /\ ActivateReady /\ [Next]_vars => ActivateReady'
<1> SUFFICES ASSUME TypeOK, TypeOK', Exclusion, HandlerFits, ActivateReady, [Next]_vars,
                    NEW w \in Workers, pc'[w] = "activate"
             PROVE  Complete(job[w].projection)' /\ ~Projection[job'[w].projection].corrupt
    BY DEF ActivateReady
<1>0. PICK p \in Projections : p = job'[w].projection
    BY EventFields DEF TypeOK
<1> SUFFICES Complete(p)' /\ ~Projection[p].corrupt
    BY <1>0 DEF Complete, StagedBatches
<1>1. job'[w] = job[w] /\ (pc[w] = "activate" \/ Finalize(w))
    BY ActivateFrom
<1>2. CASE Finalize(w)
    BY <1>0, <1>1, <1>2 DEF Finalize, Goto, TypeOK, Complete, StagedBatches
<1>3. CASE pc[w] = "activate"
  <2>1. Complete(p) /\ ~Projection[p].corrupt
      BY <1>0, <1>1, <1>3 DEF ActivateReady
  <2>2. staged'[p] = staged[p]
    <3> SUFFICES ASSUME staged'[p] # staged[p] PROVE FALSE
        OBVIOUS
    <3>1. PICK v \in Workers : /\ Stage(v) \/ Finalize(v) \/ Activate(v) \/ Delete(v)
                               /\ job[v] \in Events /\ job[v].scope = Projection[p].scope
                               /\ pc[v] \in ScopedPhases
        BY ProjectionStep
    <3>2. v = w
        BY <1>0, <1>1, <1>3, <3>1, ProjectionScope DEF Exclusion
    <3> QED BY <1>3, <3>1, <3>2 DEF Stage, Finalize, Activate, Delete, Goto, TypeOK
  <2> QED BY <2>1, <2>2 DEF Complete, StagedBatches
<1> QED BY <1>1, <1>2, <1>3

LEMMA ActiveStep ==
    TypeOK /\ TypeOK' /\ Exclusion /\ HandlerFits /\ ActivateReady /\ ActiveProjectionSound
      /\ [Next]_vars => ActiveProjectionSound'
<1> SUFFICES ASSUME TypeOK, TypeOK', Exclusion, HandlerFits, ActivateReady,
                    ActiveProjectionSound, [Next]_vars,
                    NEW p \in Projections, projStatus'[p] = "active"
             PROVE  /\ Complete(p)' /\ ~Projection[p].corrupt
                    /\ \A q \in Projections \ {p} : SameDocument(p, q) => projStatus'[q] # "active"
    BY DEF ActiveProjectionSound, SameDocument, Document, Complete, StagedBatches
<1>1. ASSUME NEW q \in Projections, projStatus'[q] = "active", projStatus[q] # "active"
      PROVE  \E w \in Workers : Activate(w) /\ job[w].projection = q /\ projStatus[q] = "staging"
  <2>1. PICK w \in Workers : Stage(w) \/ Finalize(w) \/ Activate(w) \/ Delete(w)
      BY <1>1, ProjectionStep
  <2> QED BY <1>1, <2>1 DEF Stage, Finalize, Activate, Delete, TypeOK, storeVars
<1>2. CASE projStatus[p] = "active"
  <2>1. staged'[p] = staged[p]
    <3> SUFFICES ASSUME staged'[p] # staged[p] PROVE FALSE
        OBVIOUS
    <3>1. PICK w \in Workers : Stage(w) \/ Finalize(w) \/ Activate(w) \/ Delete(w)
        BY ProjectionStep
    <3>2. Stage(w) \/ Delete(w)
        BY <3>1 DEF Finalize, Activate
    <3>3. ASSUME Stage(w) PROVE FALSE
      <4>1. Storable(job[w]) /\ p = job[w].projection /\ staged'[p] = staged[p] \cup {job[w]}
          BY <3>3 DEF Stage, TypeOK
      <4>2. job[w] \notin staged[p]
          BY <4>1
      <4> QED BY <1>2, <4>1, <4>2 DEF Storable
    <3>4. ~Delete(w)
        BY DEF Delete, TypeOK, storeVars
    <3> QED BY <3>2, <3>3, <3>4
  <2>2. ASSUME NEW q \in Projections \ {p}, SameDocument(p, q), projStatus'[q] = "active"
        PROVE  FALSE
    <3>1. projStatus[q] # "active"
        BY <1>2, <2>2 DEF ActiveProjectionSound
    <3>2. PICK w \in Workers : /\ Activate(w) /\ job[w].projection = q /\ projStatus[q] = "staging"
        BY <1>1, <2>2, <3>1
    <3>3. SameDocument(q, p)
        BY <2>2 DEF SameDocument
    <3> QED BY <1>2, <2>2, <3>2, <3>3 DEF Activate
  <2> QED BY <1>2, <2>1, <2>2 DEF ActiveProjectionSound, Complete, StagedBatches
<1>3. CASE projStatus[p] # "active"
  <2>1. PICK w \in Workers : Activate(w) /\ job[w].projection = p /\ projStatus[p] = "staging"
      BY <1>1, <1>3
  <2>2. Complete(p)' /\ ~Projection[p].corrupt
      BY <2>1 DEF Activate, ActivateReady, Complete, StagedBatches
  <2>3. ASSUME NEW q \in Projections \ {p}, SameDocument(p, q)
        PROVE  projStatus'[q] # "active"
      BY <2>1, <2>3 DEF Activate
  <2> QED BY <2>2, <2>3
<1> QED BY <1>2, <1>3

\* What retrieval reads is whole and alone: an active projection holds every batch, passed its
\* checks, and is the only one of its document.
THEOREM ActiveProjectionsSound == Spec => []ActiveProjectionSound
<1>1. Init => HandlerFits /\ ActivateReady /\ ActiveProjectionSound
    BY DEF Init, HandlerFits, ActivateReady, ActiveProjectionSound
<1> QED BY <1>1, HandlerFitsStep, ActivateReadyStep, ActiveStep, TypeCorrect, LocksExclude, PTL
        DEF Spec

-----------------------------------------------------------------------------
\* Handlers do not finish events: only Mark does, for the job of its own worker.
LEMMA JobsPendingStep == TypeOK /\ Exclusion /\ JobsPending /\ [Next]_vars => JobsPending'
<1> SUFFICES ASSUME TypeOK, Exclusion, JobsPending, [Next]_vars, NEW w \in Workers,
                    job'[w] # None, job'[w].type # "user.memory_settings.changed",
                    inbox'[job'[w]] # "pending"
             PROVE  FALSE
    BY DEF JobsPending
<1> USE DEF TypeOK, Goto, workerVars
<1>1. CASE job'[w] = job[w]
  <2>1. job[w] \in Events /\ inbox[job[w]] = "pending"
      BY <1>1 DEF JobsPending
  <2>2. PICK v \in Workers : Mark(v) /\ job[v] = job[w]
      BY <1>1, <2>1, RowSteps DEF EarlierPendingSettings
  <2>3. v = w
      BY <2>1, <2>2, ConstantsAssumption DEF Exclusion
  <2> QED BY <1>1, <2>1, <2>2, <2>3, ConstantsAssumption DEF Mark
<1>2. CASE job'[w] # job[w]
  <2>1. ASSUME NEW e \in Events, NEW v \in Workers, Take(v, e) PROVE FALSE
      BY <1>2, <2>1 DEF Take
  <2>2. ASSUME NEW e \in Events, Receive(e) \/ Redispatch(e) PROVE FALSE
      BY <1>2, <2>2 DEF Receive, Redispatch
  <2>3. ASSUME NEW v \in Workers, EnterScope(v) PROVE FALSE
      BY <1>2, <2>3 DEF EnterScope
  <2>4. ASSUME NEW v \in Workers, Handle(v) \/ Fail(v) \/ Crash(v) PROVE FALSE
      BY <1>2, <2>4, HandleShape
  <2> QED BY <1>2, <2>1, <2>2, <2>3, <2>4 DEF Next, vars
<1> QED BY <1>1, <1>2

\* Fences are raised for ever: what is not deleted never was.
LEMMA LiveBefore ==
    ASSUME TypeOK, TypeOK', [Next]_vars, NEW p \in Projections, Live(p)'
    PROVE  Live(p)
<1>1. /\ Projection[p].scope \in Scopes /\ Document(p) \in Sources /\ KnowledgeBase \in Sources
    BY ConstantsAssumption DEF Document
<1>2. ASSUME NEW x \in {Document(p), KnowledgeBase} PROVE fence[Projection[p].scope][x] = 0
  <2>1. x \in Sources /\ fence'[Projection[p].scope][x] = 0
      BY <1>1, <1>2 DEF Live, Document
  <2> QED BY <1>1, <2>1, FencesRise DEF TypeOK
<1> QED BY <1>2 DEF Live

\* No fence covers the events of such a projection.
LEMMA LiveUnblocked ==
    ASSUME NEW p \in Projections, Live(p), NEW e \in EventsOf(p)
    PROVE  ~Blocked(e)
<1>1. /\ e \in Events /\ e.scope = Projection[p].scope /\ e.sources = {Document(p)}
      /\ e.order \in Nat \ {0}
    BY EventFields, ProducersAssumption DEF EventsOf, Document
<1> QED BY <1>1 DEF Blocked, FenceSources, Live

\* A deletion that touches a projection leaves a fence on it.
LEMMA DeleteKeepsLive ==
    ASSUME TypeOK, HandlerFits, NEW w \in Workers, Delete(w), NEW p \in Projections, Live(p)'
    PROVE  staged'[p] = staged[p] /\ projStatus'[p] = projStatus[p]
<1>1. job[w] \in Events /\ job[w].type \in DeletionTypes
    BY DEF Delete, HandlerFits, TypeOK
<1>2. PICK d \in Events : d = job[w]
    BY <1>1
<1>3. /\ d.scope \in Scopes /\ d.order \in Nat \ {0} /\ d.origin \in Sources
      /\ d.origin \in d.sources
    BY <1>1, <1>2, EventFields, ProducersAssumption
<1>4. CASE UNCHANGED storeVars
    BY <1>4 DEF storeVars
<1>5. CASE fence[d.scope][d.origin] < d.order /\ p \in CoveredProjections(d)
  <2>1. fence'[d.scope][d.origin] = d.order
      BY <1>2, <1>3, <1>5 DEF Delete, TypeOK
  <2>2. d.scope = Projection[p].scope /\ d.origin \in {Document(p), KnowledgeBase}
      BY <1>5, ProducersAssumption DEF CoveredProjections, DeletesAll
  <2> QED BY <1>3, <2>1, <2>2 DEF Live, Document
<1>6. CASE p \notin CoveredProjections(d)
    BY <1>2, <1>6 DEF Delete, storeVars, TypeOK
<1> QED BY <1>2, <1>4, <1>5, <1>6 DEF Delete

\* An event of such a projection passes by the last steps of its handler only.
LEMMA PassedFrom ==
    ASSUME TypeOK, HandlerFits, [Next]_vars, NEW p \in Projections, Live(p),
           NEW e \in EventsOf(p), Passed(e)', ~Passed(e)
    PROVE  \E w \in Workers : /\ job[w] = e /\ pc'[w] = "succeed"
                              /\ Finalize(w) \/ Activate(w)
<1> USE DEF TypeOK, Goto, workerVars
<1>1. e \in Events /\ e.type = "document.projection.upserted"
    BY DEF EventsOf
<1>2. inbox[e] # "succeeded" /\ \A w \in Workers : job[w] = e => pc[w] # "succeed"
    BY DEF Passed
<1>3. inbox'[e] # "succeeded"
  <2> SUFFICES ASSUME inbox'[e] = "succeeded" PROVE FALSE
      OBVIOUS
  <2>1. PICK w \in Workers : Mark(w) /\ job[w] = e /\ Outcome(pc[w]) = "succeeded"
      BY <1>1, <1>2, RowSteps DEF EarlierPendingSettings
  <2> QED BY <1>2, <2>1 DEF Outcome, Mark
<1>4. PICK w \in Workers : pc'[w] = "succeed" /\ job'[w] = e
    BY <1>3 DEF Passed
<1>5. job[w] = e /\ pc[w] # "succeed"
    BY <1>2, <1>4, SucceedKeepsJob
<1>6. ASSUME NEW f \in Events, Receive(f) \/ Redispatch(f) PROVE FALSE
    BY <1>4, <1>5, <1>6 DEF Receive, Redispatch
<1>7. ASSUME NEW f \in Events, NEW v \in Workers, Take(v, f) PROVE FALSE
    BY <1>4, <1>5, <1>7 DEF Take
<1>8. ASSUME NEW v \in Workers, EnterScope(v) PROVE FALSE
    BY <1>4, <1>5, <1>8 DEF EnterScope
<1>9. ASSUME NEW v \in Workers, Handle(v) \/ Fail(v) \/ Crash(v) PROVE v = w
    BY <1>4, <1>5, <1>9, HandleShape
<1>10. ~UNCHANGED vars
    BY <1>4, <1>5 DEF vars
<1>11. Handle(w)
    BY <1>4, <1>6, <1>7, <1>8, <1>9, <1>10 DEF Next, Fail, Crash
<1>12. ~Guard(w)
    BY <1>4, <1>5, LiveUnblocked DEF Guard, Handler
<1>13. ~(\/ ApplySettings(w) \/ ConversationSettings(w) \/ Observe(w) \/ Extract(w)
         \/ Reconcile(w) \/ Delete(w))
  <2>1. pc[w] \notin {"apply", "settings", "observe", "extract", "reconcile", "delete"}
      BY <1>1, <1>5 DEF HandlerFits, EvidenceTypes, DeletionTypes
  <2> QED BY <2>1 DEF ApplySettings, ConversationSettings, Observe, Extract, Reconcile, Delete
<1>14. ~Stage(w) /\ ~Mark(w)
    BY <1>4 DEF Stage, Mark
<1> QED BY <1>4, <1>5, <1>11, <1>12, <1>13, <1>14 DEF Handle

\* ... and is finishing from the moment it is stored.
LEMMA FinishingFrom ==
    ASSUME TypeOK, [Next]_vars, NEW e \in Events, Finishing(e)', ~Finishing(e)
    PROVE  \E w \in Workers : job[w] = e /\ Stage(w) /\ Storable(e)
<1> USE DEF TypeOK, Goto, workerVars
<1>1. PICK w \in Workers : pc'[w] \in {"finalize", "activate"} /\ job'[w] = e
    BY DEF Finishing
<1>2. ~(pc[w] \in {"finalize", "activate"} /\ job[w] = e)
    BY DEF Finishing
<1>3. ASSUME NEW f \in Events, Receive(f) \/ Redispatch(f) PROVE FALSE
    BY <1>1, <1>2, <1>3 DEF Receive, Redispatch
<1>4. ASSUME NEW f \in Events, NEW v \in Workers, Take(v, f) PROVE FALSE
    BY <1>1, <1>2, <1>4 DEF Take
<1>5. ASSUME NEW v \in Workers, EnterScope(v) PROVE FALSE
    BY <1>1, <1>2, <1>5 DEF EnterScope
<1>6. ASSUME NEW v \in Workers, Handle(v) \/ Fail(v) \/ Crash(v) PROVE v = w
    BY <1>1, <1>2, <1>6, HandleShape
<1>7. ~UNCHANGED vars
    BY <1>1, <1>2 DEF vars
<1>8. Handle(w)
    BY <1>1, <1>3, <1>4, <1>5, <1>6, <1>7 DEF Next, Fail, Crash
<1>9. job[w] = e
    BY <1>1, <1>8, HandleShape
<1>10. ~Guard(w)
    BY <1>1 DEF Guard, Handler
<1>11. ~(\/ ApplySettings(w) \/ ConversationSettings(w) \/ Observe(w) \/ Extract(w)
         \/ Reconcile(w) \/ Delete(w) \/ Mark(w) \/ Finalize(w) \/ Activate(w))
    BY <1>1, <1>2, <1>9 DEF ApplySettings, ConversationSettings, Observe, Extract, Reconcile,
          Delete, Mark, Finalize, Activate
<1>12. Stage(w)
    BY <1>8, <1>10, <1>11 DEF Handle
<1>13. Storable(e)
    BY <1>1, <1>9, <1>12 DEF Stage
<1> QED BY <1>9, <1>12, <1>13

\* What a step of one worker can do to the status of a projection.
LEMMA StatusStep ==
    ASSUME TypeOK, HandlerFits, [Next]_vars, NEW p \in Projections,
           projStatus'[p] # projStatus[p]
    PROVE  \E w \in Workers :
              \/ /\ Stage(w) /\ job[w].projection = p /\ Storable(job[w])
                 /\ projStatus[p] = "absent" /\ projStatus'[p] = "staging"
              \/ /\ Finalize(w) /\ job[w].projection = p /\ pc'[w] = "reject"
                 /\ projStatus[p] = "staging" /\ projStatus'[p] = "failed"
              \/ /\ Activate(w) /\ job[w].projection = p
                 /\ projStatus[p] = "staging" /\ projStatus'[p] = "active"
              \/ /\ Activate(w) /\ projStatus[p] = "active" /\ projStatus'[p] = "superseded"
              \/ /\ Delete(w) /\ projStatus'[p] = "absent" /\ staged'[p] = {}
<1>1. PICK w \in Workers : Stage(w) \/ Finalize(w) \/ Activate(w) \/ Delete(w)
    BY ProjectionStep
<1>2. CASE Stage(w)
    BY <1>2 DEF Stage, TypeOK
<1>3. CASE Finalize(w)
    BY <1>3 DEF Finalize, TypeOK, Goto
<1>4. CASE Activate(w)
    BY <1>4 DEF Activate, TypeOK
<1>5. CASE Delete(w)
    BY <1>5 DEF Delete, TypeOK, storeVars
<1> QED BY <1>1, <1>2, <1>3, <1>4, <1>5

LEMMA OnItsWayStep ==
    ASSUME TypeOK, TypeOK', Exclusion, HandlerFits, JobsPending, StoresFit,
           NEW p \in Projections, OnItsWay(p), [Next]_vars
    PROVE  OnItsWay(p)'
<1>1. ASSUME projStatus'[p] = "absent" PROVE staged'[p] = {}
  <2>1. CASE projStatus[p] = "absent"
    <3> SUFFICES ASSUME staged'[p] # staged[p] PROVE FALSE
        BY <2>1 DEF OnItsWay
    <3>1. PICK w \in Workers : Stage(w) \/ Finalize(w) \/ Activate(w) \/ Delete(w)
        BY ProjectionStep
    <3>2. ~Finalize(w) /\ ~Activate(w)
        BY DEF Finalize, Activate
    <3>3. ~Stage(w)
        BY <1>1, <2>1 DEF Stage, TypeOK
    <3>4. ASSUME Delete(w) PROVE FALSE
      <4>1. staged[p] = {}
          BY <2>1 DEF OnItsWay
      <4>2. staged'[p] = {} \/ staged'[p] = staged[p]
          BY <3>4 DEF Delete, TypeOK, storeVars
      <4> QED BY <4>1, <4>2
    <3> QED BY <3>1, <3>2, <3>3, <3>4
  <2>2. CASE projStatus[p] # "absent"
      BY <1>1, <2>2, StatusStep
  <2> QED BY <2>1, <2>2
<1> SUFFICES ASSUME Live(p)'
             PROVE
        /\ \A e \in EventsOf(p) : Passed(e)' \/ Finishing(e)' => e \in staged'[p]
        /\ {e.batch : e \in EventsOf(p)} = Projection[p].batches /\ projStatus'[p] = "staging" =>
              \E e \in EventsOf(p) : ~Passed(e)'
        /\ projStatus'[p] = "failed" =>
              \E e \in EventsOf(p) : ~Passed(e)' /\ ~Finishing(e)'
    BY <1>1 DEF OnItsWay, EventsOf
<1>2. Live(p)
    BY LiveBefore
<1>3. /\ \A e \in EventsOf(p) : Passed(e) \/ Finishing(e) => e \in staged[p]
      /\ {e.batch : e \in EventsOf(p)} = Projection[p].batches /\ projStatus[p] = "staging" =>
            \E e \in EventsOf(p) : ~Passed(e)
      /\ projStatus[p] = "failed" =>
            \E e \in EventsOf(p) : ~Passed(e) /\ ~Finishing(e)
    BY <1>2 DEF OnItsWay
<1>4. /\ EventsOf(p) \subseteq Events /\ staged[p] \subseteq EventsOf(p)
      /\ \A e \in EventsOf(p) : e.projection = p
    BY DEF EventsOf, StoresFit, TypeOK
<1>5. ASSUME NEW e \in EventsOf(p), Passed(e)' PROVE Passed(e) \/ Finishing(e)
  <2>1. CASE Passed(e)
      BY <2>1
  <2>2. CASE ~Passed(e)
    <3>1. PICK w \in Workers : job[w] = e /\ (Finalize(w) \/ Activate(w))
        BY <1>2, <1>5, <2>2, PassedFrom
    <3> QED BY <3>1 DEF Finishing, Finalize, Activate
  <2> QED BY <2>1, <2>2
<1>6. staged[p] \subseteq staged'[p]
  <2> SUFFICES ASSUME staged'[p] # staged[p] PROVE staged[p] \subseteq staged'[p]
      OBVIOUS
  <2>1. PICK w \in Workers : Stage(w) \/ Finalize(w) \/ Activate(w) \/ Delete(w)
      BY ProjectionStep
  <2>2. ~Finalize(w) /\ ~Activate(w)
      BY DEF Finalize, Activate
  <2>3. ~Delete(w)
      BY DeleteKeepsLive
  <2> QED BY <2>1, <2>2, <2>3 DEF Stage, TypeOK
<1>7. ASSUME NEW e \in EventsOf(p), Passed(e)' \/ Finishing(e)' PROVE e \in staged'[p]
  <2>1. CASE Passed(e) \/ Finishing(e)
      BY <1>3, <1>6, <2>1
  <2>2. CASE ~Passed(e) /\ ~Finishing(e)
    <3>1. PICK w \in Workers : job[w] = e /\ Stage(w) /\ Storable(e)
        BY <1>4, <1>5, <1>7, <2>2, FinishingFrom
    <3> QED BY <1>4, <3>1 DEF Stage, TypeOK
  <2> QED BY <2>1, <2>2
<1>8. ASSUME {e.batch : e \in EventsOf(p)} = Projection[p].batches, projStatus'[p] = "staging"
      PROVE  \E e \in EventsOf(p) : ~Passed(e)'
  <2>1. CASE projStatus[p] = "staging"
    <3>1. PICK e \in EventsOf(p) : ~Passed(e)
        BY <1>3, <1>8, <2>1
    <3> SUFFICES ASSUME Passed(e)' PROVE \E f \in EventsOf(p) : ~Passed(f)'
        OBVIOUS
    <3>2. PICK w \in Workers : job[w] = e /\ pc'[w] = "succeed" /\ (Finalize(w) \/ Activate(w))
        BY <1>2, <3>1, PassedFrom
    <3>3. ~Activate(w)
        BY <1>4, <1>8, <2>1, <3>2 DEF Activate
    <3>4. StagedBatches(p) # Projection[p].batches
        BY <1>4, <2>1, <3>2, <3>3 DEF Finalize, Goto, TypeOK, Complete
    <3>5. PICK f \in EventsOf(p) : f \notin staged[p]
        BY <1>4, <1>8, <3>4 DEF StagedBatches
    <3> QED BY <1>3, <1>5, <3>5
  <2>2. CASE projStatus[p] # "staging"
    <3>1. PICK w \in Workers : Stage(w) /\ job[w].projection = p /\ projStatus[p] = "absent"
        BY <1>8, <2>2, StatusStep
    <3>2. job[w] \in EventsOf(p) /\ staged[p] = {}
        BY <3>1, ProjectionScope DEF Stage, EventsOf, OnItsWay
    <3> QED BY <1>3, <1>5, <3>2
  <2> QED BY <2>1, <2>2
<1>9. ASSUME projStatus'[p] = "failed"
      PROVE  \E e \in EventsOf(p) : ~Passed(e)' /\ ~Finishing(e)'
  <2>1. CASE projStatus[p] = "failed"
    <3>1. PICK e \in EventsOf(p) : ~Passed(e) /\ ~Finishing(e)
        BY <1>3, <2>1
    <3>2. ~Storable(e)
        BY <1>4, <2>1 DEF Storable
    <3>3. ~Finishing(e)'
        BY <1>4, <3>1, <3>2, FinishingFrom
    <3> QED BY <1>5, <3>1, <3>3
  <2>2. CASE projStatus[p] # "failed"
    <3>1. PICK w \in Workers : Finalize(w) /\ job[w].projection = p /\ pc'[w] = "reject"
        BY <1>9, <2>2, StatusStep
    <3>2. PICK e \in EventsOf(p) : e = job[w]
        BY <3>1, ProjectionScope DEF Finalize, EventsOf
    <3>3. /\ inbox'[e] = "pending"
          /\ \A v \in Workers : job'[v] = e => v = w
      <4>1. inbox[e] = "pending" /\ e # None
          BY <1>4, <3>2, ConstantsAssumption DEF JobsPending, EventsOf
      <4> QED BY <3>1, <3>2, <4>1 DEF Finalize, Exclusion
    <3> QED BY <3>1, <3>3 DEF Passed, Finishing
  <2> QED BY <2>1, <2>2
<1> QED BY <1>7, <1>8, <1>9

AllOnTheirWay == \A p \in Projections : OnItsWay(p)

LEMMA AllOnTheirWayStep ==
    TypeOK /\ TypeOK' /\ Exclusion /\ HandlerFits /\ JobsPending /\ StoresFit /\ AllOnTheirWay
      /\ [Next]_vars => AllOnTheirWay'
BY OnItsWayStep DEF AllOnTheirWay

\* A projection all of whose events have passed is active, or was: the worker that stores the
\* last batch is the one that activates, whoever stored the others and however often.
THEOREM AcceptedBatchesAreActive == Spec => []AcceptedBatchesActivate
<1>1. Init => HandlerFits /\ Guarded /\ StoresFit /\ NoResurrection /\ JobsPending /\ AllOnTheirWay
  <2> SUFFICES ASSUME Init
               PROVE  /\ HandlerFits /\ Guarded /\ StoresFit /\ NoResurrection /\ JobsPending
                      /\ AllOnTheirWay
      OBVIOUS
  <2>1. HandlerFits /\ Guarded /\ StoresFit /\ NoResurrection /\ JobsPending
      BY DEF Init, HandlerFits, Guarded, StoresFit, NoResurrection, WritingPhases, JobsPending
  <2>2. AllOnTheirWay
      BY DEF Init, AllOnTheirWay, OnItsWay, EventsOf, Passed, Finishing
  <2> QED BY <2>1, <2>2
<1>2. TypeOK /\ AllOnTheirWay => AcceptedBatchesActivate
  <2> SUFFICES ASSUME TypeOK, AllOnTheirWay, NEW p \in Projections, EventsOf(p) # {},
                      {e.batch : e \in EventsOf(p)} = Projection[p].batches,
                      \A e \in EventsOf(p) : inbox[e] = "succeeded",
                      \A x \in {Document(p), KnowledgeBase} : fence[Projection[p].scope][x] = 0
               PROVE  projStatus[p] \in {"active", "superseded"}
      BY DEF AcceptedBatchesActivate
  <2>1. Live(p) /\ OnItsWay(p) /\ \A e \in EventsOf(p) : Passed(e)
      BY DEF Live, AllOnTheirWay, Passed
  <2>2. projStatus[p] \notin {"absent", "staging", "failed"}
      BY <2>1 DEF OnItsWay
  <2> QED BY <2>2 DEF TypeOK
<1> QED BY <1>1, <1>2, HandlerFitsStep, SafeStep, JobsPendingStep, AllOnTheirWayStep, TypeCorrect,
           LocksExclude, PTL DEF Spec
=============================================================================

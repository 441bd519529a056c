--------------------------- MODULE AnswerRunProofs ---------------------------
(***************************************************************************)
(* Proofs about AnswerRun for any number of attempts, faults and answers,   *)
(* and that AnswerLoop, which says what generation does, implements it.     *)
(***************************************************************************)
EXTENDS AnswerLoop, TLAPS

Active == {"begin", "work", "fail", "return"}

Place == [step : Active \cup {"idle", "over"}, phase : Phases \cup {"complete", None},
          response : Answers \cup {None}]

Outcome ==
    {None} \cup [kind : {"answer"}, content : Answers]
           \cup [kind : {"error"}, code : {None, "failed", "stale", "lost", "internal",
                                           "in_progress"}]

Types ==
    /\ row \in Rows \cup {None}
    /\ pc \in [Attempts -> Place]
    /\ outcome \in [Attempts -> Outcome]
    /\ generated \in SUBSET Attempts
    /\ faults \in 0..MaxFaults

\* Status, phase, answer and error of the row go together.
RowConsistent ==
    row # None =>
        /\ (row.status = "completed") <=> (row.phase = "complete")
        /\ (row.status = "completed") <=> (row.answer # None)
        /\ (row.status = "failed") <=> (row.error # None)

\* Only the attempt that created the row is past its first step; before a phase it is at one,
\* and what it is about to return is stored.
OwnerActs ==
    \A a \in Attempts :
        /\ pc[a].step \in Active => row # None /\ row.run = a
        /\ pc[a].step \in {"begin", "work"} => pc[a].phase \in Phases
        /\ pc[a].step = "fail" =>
              /\ pc[a].phase \in Phases \cup {"complete"}
              /\ pc[a].phase = "complete" => row.status = "completed"
        /\ pc[a].step = "return" =>
              /\ pc[a].phase = "complete" /\ pc[a].response \in Answers
              /\ row.status = "completed" /\ row.answer = pc[a].response

Shown ==
    \A a \in Attempts : outcome[a] # None /\ outcome[a].kind = "answer" =>
        row # None /\ row.status = "completed" /\ row.answer = outcome[a].content

Asked == \A a \in generated : row # None /\ row.run = a

IInv == Types /\ RowConsistent /\ OwnerActs /\ Shown /\ Asked

LEMMA InvInit == Init => IInv
  BY AnswerRunAssumption, SMT
  DEF Init, IInv, Types, RowConsistent, OwnerActs, Shown, Asked, Idle, At, Place, Outcome,
      Active

LEMMA RowsAreNotNone == ASSUME NEW r \in Rows PROVE r # None
  BY AnswerRunAssumption

\* The updates of a row lead to rows again.
LEMMA PhasedRows ==
  ASSUME NEW r \in Rows, NEW phase \in Phases
  PROVE  [r EXCEPT !.phase = phase] \in Rows /\ [r EXCEPT !.phase = phase] # None
<1>1. [r EXCEPT !.phase = phase] \in Rows
  BY DEF Rows
<1> QED BY <1>1, RowsAreNotNone

LEMMA CompletedRows ==
  ASSUME NEW r \in Rows, NEW content \in Answers
  PROVE  CompletedRow(r, content) \in Rows /\ CompletedRow(r, content) # None
<1>1. CompletedRow(r, content) \in Rows
  BY DEF Rows, CompletedRow
<1> QED BY <1>1, RowsAreNotNone

LEMMA FailedRows ==
  ASSUME NEW r \in Rows, NEW phase \in Phases \cup {"validate", "complete"},
         NEW code \in {"failed", "stale"}
  PROVE  FailedRow(r, phase, code) \in Rows /\ FailedRow(r, phase, code) # None
<1>1. FailedRow(r, phase, code) \in Rows
  BY DEF Rows, FailedRow
<1> QED BY <1>1, RowsAreNotNone

LEMMA InvStep == IInv /\ [Next]_vars => IInv'
<1> SUFFICES ASSUME IInv, [Next]_vars PROVE IInv'
  OBVIOUS
<1> USE AnswerRunAssumption
<1> USE DEF IInv, Types, Place, Outcome, RowConsistent, OwnerActs, Shown, Asked, Active,
            Phases, At, Over, Idle, Goto, End, Error, Answered
<1>1. ASSUME NEW a \in Attempts, Create(a) PROVE IInv'
  <2>1. NewRow(a) \in Rows
    BY DEF NewRow, Rows
  <2>2. NewRow(a) # None
    BY <2>1, RowsAreNotNone
  <2> QED BY <1>1, <2>1, <2>2, SMT DEF Create, Executes, NewRow, Replay, Rows
<1>2. ASSUME NEW a \in Attempts, BeginPhase(a) PROVE IInv'
  <2> DEFINE begun == [row EXCEPT !.phase = pc[a].phase]
  <2>1. row \in Rows /\ pc[a].phase \in Phases
    BY <1>2 DEF BeginPhase
  <2>2. begun \in Rows /\ begun # None
    BY <2>1, PhasedRows
  <2>3. CASE Superseded(a)
    BY <1>2, <2>3, SMT DEF BeginPhase, Superseded
  <2>4. CASE /\ row.status = "running" /\ row' = begun
             /\ Goto(a, At("work", pc[a].phase))
             /\ generated' \in {generated, generated \cup {a}} /\ UNCHANGED <<outcome, faults>>
    <3>1. /\ begun.run = row.run /\ begun.status = "running" /\ begun.phase \in Phases
          /\ begun.answer = row.answer /\ begun.error = row.error
      BY <2>1, <2>4 DEF Rows
    <3> HIDE DEF begun
    <3>2. pc[a].step = "begin" /\ row.run = a
      BY <1>2 DEF BeginPhase
    <3> QED BY <2>1, <2>2, <2>4, <3>1, <3>2, SMT
  <2> QED BY <1>2, <2>3, <2>4, Zenon DEF BeginPhase, RequireRunning
<1>3. ASSUME NEW a \in Attempts, Record(a) PROVE IInv'
  BY <1>3, SMT DEF Record, RequireRunning, Superseded, Following
<1>4. ASSUME NEW a \in Attempts, Complete(a) PROVE IInv'
  <2>1. row \in Rows
    BY <1>4 DEF Complete
  <2>2. \A content \in Answers :
           CompletedRow(row, content) \in Rows /\ CompletedRow(row, content) # None
    BY <2>1, CompletedRows
  <2>3. ASSUME RequireRunning("citations") PROVE IInv'
    <3>1. PICK content \in Answers :
             /\ row' = CompletedRow(row, content)
             /\ Goto(a, [At("return", "complete") EXCEPT !.response = content])
             /\ UNCHANGED <<outcome, generated, faults>>
      BY <1>4, <2>3 DEF Complete
    <3>2. [At("return", "complete") EXCEPT !.response = content] \in Place
      OBVIOUS
    <3>3. /\ row' \in Rows /\ row' # None
          /\ row'.run = row.run /\ row'.status = "completed" /\ row'.phase = "complete"
          /\ row'.answer = content /\ row'.error = row.error
      BY <2>1, <2>2, <3>1 DEF CompletedRow, Rows
    <3>4. row # None /\ row.run = a /\ row.status = "running"
      BY <1>4, <2>3 DEF Complete, RequireRunning
    <3> QED BY <2>1, <3>1, <3>2, <3>3, <3>4, SMT
  <2>4. ASSUME ~RequireRunning("citations") PROVE IInv'
    <3>1. Superseded(a)
      BY <1>4, <2>4 DEF Complete
    <3>2. Error("internal") \in Outcome
      OBVIOUS
    <3> QED BY <3>1, <3>2, SMT DEF Superseded
  <2> QED BY <2>3, <2>4
<1>5. ASSUME NEW a \in Attempts, Return(a) PROVE IInv'
  BY <1>5, SMT DEF Return
<1>6. ASSUME NEW a \in Attempts, DependencyFails(a) \/ Cancel(a) PROVE IInv'
  <2>1. pc[a].phase \in Phases \cup {"complete"}
    BY <1>6 DEF DependencyFails, Cancel
  <2>2. At("fail", pc[a].phase) \in Place
    BY <2>1
  <2>3. pc' = [pc EXCEPT ![a] = At("fail", pc[a].phase)] /\ UNCHANGED <<row, outcome, generated,
                                                                          faults>>
    BY <1>6 DEF DependencyFails, Cancel
  <2>4. pc[a].phase = "complete" => row.status = "completed"
    BY <1>6 DEF DependencyFails, Cancel
  <2>5. pc[a].step \in Active
    BY <1>6 DEF DependencyFails, Cancel
  <2> QED BY <2>1, <2>2, <2>3, <2>4, <2>5, SMT
<1>7. ASSUME NEW a \in Attempts, RecordFailure(a) PROVE IInv'
  <2>1. row \in Rows /\ pc[a].phase \in Phases \cup {"complete"}
    BY <1>7 DEF RecordFailure
  <2>2. FailedRow(row, pc[a].phase, "failed") \in Rows
        /\ FailedRow(row, pc[a].phase, "failed") # None
    BY <2>1, FailedRows
  <2> QED BY <1>7, <2>1, <2>2, SMT DEF RecordFailure, FailedRow, Rows
<1>8. ASSUME NEW a \in Attempts, Lost(a) PROVE IInv'
  BY <1>8, SMT DEF Lost, Fault
<1>9. CASE FailStale
  <2>1. row \in Rows
    BY <1>9 DEF FailStale
  <2>2. FailedRow(row, row.phase, "stale") \in Rows /\ FailedRow(row, row.phase, "stale") # None
    BY <2>1, FailedRows DEF Rows
  <2> QED BY <1>9, <2>1, <2>2, SMT DEF FailStale, IsStale, FailedRow, Rows
<1>10. CASE UNCHANGED vars
  BY <1>10, SMT DEF vars
<1> QED BY <1>1, <1>2, <1>3, <1>4, <1>5, <1>6, <1>7, <1>8, <1>9, <1>10 DEF Next

LEMMA Invariance == Spec => []IInv
<1> QED BY InvInit, InvStep, PTL DEF Spec

\* The row and the attempts keep their types, and the row's status agrees with its answer and
\* its error, however attempts, cancellations, crashes and the stale sweep interleave.
THEOREM TypeCorrect == Spec => []TypeOK
<1>1. IInv => TypeOK
  BY SMT DEF IInv, Types, Rows, RowConsistent, OwnerActs, Active, TypeOK
<1> QED BY <1>1, Invariance, PTL

\* All callers of a request that see an answer see the stored one, and at most one attempt has
\* the model asked.
THEOREM StoredAnswerIsTheAnswer == Spec => []OneStoredAnswer
<1>1. IInv => OneStoredAnswer
  BY SMT DEF IInv, Types, Shown, Asked, OneStoredAnswer
<1> QED BY <1>1, Invariance, PTL

\* Nothing changes a row that has completed or failed.
THEOREM VerdictsAreFinal == Spec => VerdictIsFinal
<1>1. Next => (row # None /\ row.status \in {"completed", "failed"} => row' = row)
  BY SMT DEF Next, Create, Executes, BeginPhase, RequireRunning, Superseded, Record, Complete,
             Return, DependencyFails, Cancel, RecordFailure, Lost, FailStale, IsStale
<1> QED BY <1>1, PTL DEF Spec, VerdictIsFinal

-----------------------------------------------------------------------------
(* The generation of AnswerLoop: every step of it keeps the record sound.   *)

\* Every step of a generation keeps it a record of these fields.
Fields == {"at", "route", "attempt", "steps", "calls", "charged", "consumed", "tools",
           "known", "done", "plan", "stated", "pending", "draft"}

\* Nothing was used that was not charged, every limit is kept, a generation that goes on has a
\* step left, and a draft was paid for.
Budgeted(g) ==
    /\ g.calls \in 0..MaxCalls /\ g.steps \in 0..MaxSteps /\ g.tools \in 0..MaxToolCalls
    /\ g.charged \in Nat /\ g.consumed \in Nat /\ g.consumed <= g.charged
    /\ g.at \in {"route", "call", "tools", "done", "failed"}
    /\ g.at \in {"route", "call", "tools"} => g.steps < MaxSteps
    /\ g.at # "done" => g.draft = None
    /\ g.at = "done" => g.consumed <= MaxTokens

\* The plan holds all that was ever stated, and a draft's groups are its plan's support.
Planned(g) ==
    Agentic =>
        /\ g.stated \subseteq DOMAIN g.plan
        /\ g.at = "done" /\ ~g.draft.abstains => g.draft.groups = Range(g.plan)

Sound(g) == DOMAIN g = Fields /\ Budgeted(g) /\ Planned(g)

LEMMA MinOfTwo ==
  ASSUME NEW m \in Nat, NEW n \in Nat
  PROVE  Min({m, n}) \in {m, n} /\ Min({m, n}) <= m /\ Min({m, n}) <= n
<1>1. \E x \in {m, n} : \A y \in {m, n} : x <= y
  OBVIOUS
<1> QED BY <1>1 DEF Min

LEMMA ReserveIsNat == ASSUME NEW g, g.charged \in Nat PROVE Reserve(g) \in Nat
<1>1. Left(g) \in Nat
  BY LoopAssumption, MinOfTwo DEF Left
<1> QED BY <1>1, LoopAssumption, MinOfTwo DEF Reserve

\* A call is charged at least what it used.
LEMMA CostsCover ==
  ASSUME NEW g, g.charged \in Nat, NEW cost \in Costs(g) \cup {Refusal}
  PROVE  cost.charge \in Nat /\ cost.used \in Nat /\ cost.used <= cost.charge
BY ReserveIsNat DEF Costs, Reported, Unreported, UnknownCharge, Refusal

LEMMA StartSound == ASSUME NEW known PROVE Sound(Start(known))
BY LoopAssumption DEF Sound, Start, Fields, Budgeted, Planned, NoPlan

LEMMA PaidSound ==
  ASSUME NEW g, Sound(g), g.at = "call", Affordable(g), NEW cost \in Costs(g) \cup {Refusal}
  PROVE  Sound(Paid(g, cost)) /\ Paid(g, cost).at = "call"
<1>1. cost.charge \in Nat /\ cost.used \in Nat /\ cost.used <= cost.charge
  BY CostsCover DEF Sound, Budgeted
<1>2. DOMAIN Paid(g, cost) = Fields
  BY DEF Paid, Sound
<1>3. /\ Paid(g, cost).calls = g.calls + 1 /\ Paid(g, cost).charged = g.charged + cost.charge
      /\ Paid(g, cost).consumed = g.consumed + cost.used
      /\ \A f \in Fields \ {"calls", "charged", "consumed"} : Paid(g, cost)[f] = g[f]
  BY DEF Paid, Sound, Fields
<1>4. Budgeted(Paid(g, cost))
  BY <1>1, <1>3, LoopAssumption DEF Sound, Budgeted, Affordable, Fields
<1> QED BY <1>2, <1>3, <1>4 DEF Sound, Planned, Fields

LEMMA FailureSound ==
  ASSUME NEW g, Sound(g), g.at = "call", NEW cost, NEW retryable
  PROVE  Sound(AfterFailure(g, cost, retryable))
<1> DEFINE h == AfterFailure(g, cost, retryable)
<1>1. DOMAIN h = Fields
  BY DEF AfterFailure, NextRoute, Stuck, Sound
<1>2. /\ h.at \in {"call", "route", "failed"}
      /\ \A f \in Fields \ {"at", "route", "attempt"} : h[f] = g[f]
  BY DEF AfterFailure, NextRoute, Stuck, Sound, Fields
<1> HIDE DEF h
<1>3. Sound(h)
  BY <1>1, <1>2 DEF Sound, Budgeted, Planned, Fields
<1> QED BY <1>3 DEF h

LEMMA RouteSound ==
  ASSUME NEW g, Sound(g), g.at = "route", NEW h \in OpenRoute(g)
  PROVE  Sound(h)
<1>1. DOMAIN h = Fields
  BY DEF OpenRoute, NextRoute, Stuck, Sound
<1>2. /\ h.at \in {"call", "route", "failed"}
      /\ \A f \in Fields \ {"at", "route", "attempt"} : h[f] = g[f]
  BY DEF OpenRoute, NextRoute, Stuck, Sound, Fields
<1> QED BY <1>1, <1>2 DEF Sound, Budgeted, Planned, Fields

LEMMA ResponseSound ==
  ASSUME NEW g, Sound(g), g.at = "call", NEW p, NEW visible
  PROVE  Sound(AfterResponse(g, p, visible))
<1> DEFINE plan == IF Agentic THEN Reconcile(g.plan, p.proposal, visible) ELSE NoPlan
           covered == ~Agentic \/ CoveredBy(plan, p.cited \cap visible)
           next == [g EXCEPT !.steps = @ + 1, !.attempt = 1, !.plan = plan,
                             !.stated = @ \cup DOMAIN p.proposal]
           h == Reviewed(g, p, plan, covered)
<1>1. CASE g.charged > MaxTokens
  <2> DEFINE s == Stuck(g)
  <2>1. DOMAIN s = Fields /\ s.at = "failed" /\ \A f \in Fields \ {"at"} : s[f] = g[f]
    BY DEF Stuck, Sound, Fields
  <2> HIDE DEF s
  <2>2. Sound(s)
    BY <1>1, <2>1 DEF Sound, Budgeted, Planned, Fields
  <2> QED BY <1>1, <2>2 DEF AfterResponse, s
<1>2. CASE ~(g.charged > MaxTokens)
  <2> SUFFICES Sound(h)
    BY <1>2 DEF AfterResponse
  <2>1. Agentic => DOMAIN plan = DOMAIN p.proposal \cup DOMAIN g.plan
    BY DEF Reconcile
  <2>2. /\ DOMAIN next = Fields
        /\ next.steps = g.steps + 1 /\ next.plan = plan
        /\ next.stated = g.stated \cup DOMAIN p.proposal
        /\ \A f \in Fields \ {"steps", "attempt", "plan", "stated"} : next[f] = g[f]
    BY DEF Sound, Fields
  <2>3. Agentic => next.stated \subseteq DOMAIN next.plan
    BY <2>1, <2>2 DEF Sound, Planned
  <2>4. \/ /\ GoesOn(g, p, plan, covered)
           /\ h = [next EXCEPT !.at = IF p.decision = "tool" THEN "tools" ELSE "call",
                               !.pending = p.searches]
        \/ h = Stuck(next)
        \/ h = [next EXCEPT !.at = "done", !.draft = Drafted(p, plan, covered)]
    BY DEF Reviewed
  <2> HIDE DEF next, covered, plan, h
  <2>5. /\ next.at = "call" /\ next.draft = None /\ next.steps \in 1..MaxSteps
        /\ next.calls \in 0..MaxCalls /\ next.tools \in 0..MaxToolCalls
        /\ next.charged \in Nat /\ next.consumed \in Nat /\ next.consumed <= next.charged
        /\ next.charged <= MaxTokens
    BY <1>2, <2>2, LoopAssumption DEF Sound, Budgeted, Fields
  <2>6. CASE /\ GoesOn(g, p, plan, covered)
             /\ h = [next EXCEPT !.at = IF p.decision = "tool" THEN "tools" ELSE "call",
                                 !.pending = p.searches]
    <3>1. DOMAIN h = Fields /\ h.at \in {"tools", "call"}
          /\ \A f \in Fields \ {"at", "pending"} : h[f] = next[f]
      BY <2>2, <2>6 DEF Fields
    <3>2. next.steps < MaxSteps
      BY <2>2, <2>6 DEF GoesOn
    <3> QED BY <2>3, <2>5, <3>1, <3>2 DEF Sound, Budgeted, Planned, Fields
  <2>7. CASE h = Stuck(next)
    <3>1. DOMAIN h = Fields /\ h.at = "failed" /\ \A f \in Fields \ {"at"} : h[f] = next[f]
      BY <2>2, <2>7 DEF Stuck, Fields
    <3> QED BY <2>3, <2>5, <3>1, LoopAssumption DEF Sound, Budgeted, Planned, Fields
  <2>8. CASE h = [next EXCEPT !.at = "done", !.draft = Drafted(p, plan, covered)]
    <3>1. DOMAIN h = Fields /\ h.at = "done" /\ h.draft = Drafted(p, plan, covered)
          /\ \A f \in Fields \ {"at", "draft"} : h[f] = next[f]
      BY <2>2, <2>8 DEF Fields
    <3>2. Agentic /\ ~h.draft.abstains => h.draft.groups = Range(plan)
      BY <3>1 DEF Drafted
    <3>3. Budgeted(h)
      BY <2>5, <3>1, LoopAssumption DEF Budgeted, Fields
    <3>4. Planned(h)
      BY <2>2, <2>3, <3>1, <3>2 DEF Planned, Fields
    <3> QED BY <3>1, <3>3, <3>4 DEF Sound
  <2> QED BY <2>4, <2>6, <2>7, <2>8
<1> QED BY <1>1, <1>2

LEMMA ToolSound ==
  ASSUME NEW g, Sound(g), g.at = "tools", NEW h \in AfterTool(g)
  PROVE  Sound(h)
<1>1. CASE g.tools >= MaxToolCalls
  <2>1. DOMAIN h = Fields /\ h.at = "call" /\ \A f \in Fields \ {"at", "pending"} : h[f] = g[f]
    BY <1>1 DEF AfterTool, Sound, Fields
  <2> QED BY <2>1 DEF Sound, Budgeted, Planned, Fields
<1>2. CASE ~(g.tools >= MaxToolCalls)
  <2>1. PICK k \in ToolResults(g, Head(g.pending)) :
           h = [k EXCEPT !.tools = @ + 1, !.pending = Tail(@),
                         !.at = IF Len(g.pending) = 1 THEN "call" ELSE "tools"]
    BY <1>2 DEF AfterTool
  <2>2. DOMAIN k = Fields /\ \A f \in Fields \ {"known", "done"} : k[f] = g[f]
    BY DEF ToolResults, Unsearched, Searched, Sound, Fields
  <2>3. /\ DOMAIN h = Fields /\ h.at \in {"call", "tools"} /\ h.tools = g.tools + 1
        /\ \A f \in Fields \ {"known", "done", "tools", "pending", "at"} : h[f] = g[f]
    BY <2>1, <2>2 DEF Fields
  <2> QED BY <1>2, <2>3, LoopAssumption DEF Sound, Budgeted, Planned, Fields
<1> QED BY <1>1, <1>2

-----------------------------------------------------------------------------
(* The run with its generation.                                             *)

GenSound == Sound(gen)
Stored == Delivered(gen)

\* What is generated is sound; from the citations on it is a draft; and a completed row holds
\* what that draft delivers, with nobody left to generate again.
LoopInv ==
    /\ gen # None => GenSound
    /\ \A a \in Attempts :
          /\ pc[a].step = "work" /\ pc[a].phase = "generate" => GenSound
          /\ pc[a].step \in {"begin", "work"} /\ pc[a].phase = "citations" =>
                GenSound /\ gen.at = "done"
    /\ row # None /\ row.status = "completed" =>
          /\ GenSound /\ gen.at = "done"
          /\ row.answer = Stored
          /\ \A a \in Attempts : pc[a].step \notin {"begin", "work"}

LEMMA SameGeneration ==
  ASSUME UNCHANGED <<gen, request>>
  PROVE  (GenSound' <=> GenSound) /\ Stored' = Stored
<1>1. GenSound' <=> GenSound
  BY DEF GenSound, Sound, Budgeted, Planned, Agentic
<1>2. Stored' = Stored
  BY DEF Stored, Delivered, Grounded, Private, Insufficient
<1> QED BY <1>1, <1>2

\* The next generation is sound if every way the record can go is.
LEMMA NextGeneration ==
  ASSUME request' = request, NEW g, gen' = g, Sound(g)
  PROVE  GenSound'
BY DEF GenSound, Sound, Budgeted, Planned, Agentic

LEMMA LoopStep ==
  ASSUME IInv, IInv', LoopInv, [LoopNext]_allVars
  PROVE  LoopInv'
<1> USE DEF IInv, Types, Place, OwnerActs, LoopInv, Active, Phases, At, Over, Idle, Goto, End
<1>1. ASSUME NEW a \in Attempts, Create(a), UNCHANGED loopVars PROVE LoopInv'
  <2>1. (GenSound' <=> GenSound) /\ Stored' = Stored /\ gen' = gen
    BY <1>1, SameGeneration DEF loopVars
  <2> QED BY <1>1, <2>1, AnswerRunAssumption, SMT DEF Create, Executes, NewRow, Replay
<1>2. ASSUME NEW a \in Attempts, Return(a), UNCHANGED loopVars PROVE LoopInv'
  <2>1. (GenSound' <=> GenSound) /\ Stored' = Stored /\ gen' = gen
    BY <1>2, SameGeneration DEF loopVars
  <2> QED BY <1>2, <2>1, SMT DEF Return
<1>3. ASSUME NEW a \in Attempts, DependencyFails(a) \/ Cancel(a), UNCHANGED loopVars
      PROVE  LoopInv'
  <2>1. (GenSound' <=> GenSound) /\ Stored' = Stored /\ gen' = gen
    BY <1>3, SameGeneration DEF loopVars
  <2> QED BY <1>3, <2>1, SMT DEF DependencyFails, Cancel
<1>4. ASSUME NEW a \in Attempts, RecordFailure(a), UNCHANGED loopVars PROVE LoopInv'
  <2>1. (GenSound' <=> GenSound) /\ Stored' = Stored /\ gen' = gen
    BY <1>4, SameGeneration DEF loopVars
  <2>2. pc' = [pc EXCEPT ![a] = Over]
    BY <1>4 DEF RecordFailure
  <2>3. row' = row \/ row'.status = "failed"
    BY <1>4 DEF RecordFailure, FailedRow, Rows
  <2> QED BY <1>4, <2>1, <2>2, <2>3, SMT DEF RecordFailure
<1>5. ASSUME NEW a \in Attempts, Lost(a), UNCHANGED loopVars PROVE LoopInv'
  <2>1. (GenSound' <=> GenSound) /\ Stored' = Stored /\ gen' = gen
    BY <1>5, SameGeneration DEF loopVars
  <2> QED BY <1>5, <2>1, SMT DEF Lost
<1>6. ASSUME NEW a \in Attempts, Record(a), UNCHANGED loopVars,
             pc[a].phase = "retrieve" \/ (pc[a] = At("work", "generate") /\ gen.at = "done")
      PROVE  LoopInv'
  <2>1. (GenSound' <=> GenSound) /\ Stored' = Stored /\ gen' = gen
    BY <1>6, SameGeneration DEF loopVars
  <2> QED BY <1>6, <2>1, SMT DEF Record, Following, RequireRunning, Superseded
<1>7. ASSUME NEW a \in Attempts, BeginPhase(a), pc'[a] # At("work", "generate"),
             UNCHANGED loopVars
      PROVE  LoopInv'
  <2>1. (GenSound' <=> GenSound) /\ Stored' = Stored /\ gen' = gen
    BY <1>7, SameGeneration DEF loopVars
  <2>2. CASE Superseded(a)
    BY <1>7, <2>1, <2>2, SMT DEF Superseded, BeginPhase
  <2>3. CASE /\ row.status = "running"
             /\ row' = [row EXCEPT !.phase = pc[a].phase]
             /\ pc' = [pc EXCEPT ![a] = At("work", pc[a].phase)]
    <3>1. row \in Rows
      BY <1>7 DEF BeginPhase
    <3>2. row'.status = "running"
      BY <2>3, <3>1 DEF Rows
    <3>3. pc'[a] = At("work", pc[a].phase) /\ pc[a].phase # "generate"
          /\ pc[a].step = "begin" /\ \A b \in Attempts \ {a} : pc'[b] = pc[b]
      BY <1>7, <2>3 DEF BeginPhase
    <3> QED BY <2>1, <3>2, <3>3, SMT
  <2> QED BY <1>7, <2>2, <2>3 DEF BeginPhase, RequireRunning
<1>8. ASSUME NEW a \in Attempts, StartGeneration(a) PROVE LoopInv'
  <2>1. PICK known : gen' = Start(known)
    BY <1>8 DEF StartGeneration
  <2>2. GenSound'
    BY <1>8, <2>1, StartSound, NextGeneration DEF StartGeneration
  <2>3. /\ pc[a].step = "begin" /\ row \in Rows /\ row.status = "running"
        /\ row' = [row EXCEPT !.phase = pc[a].phase]
        /\ pc' = [pc EXCEPT ![a] = At("work", "generate")]
    BY <1>8, SMT DEF StartGeneration, BeginPhase, RequireRunning, Superseded
  <2>4. row'.status = "running"
    BY <2>3 DEF Rows
  <2> QED BY <2>2, <2>3, <2>4, SMT
<1>9. ASSUME NEW a \in Attempts, NEW at, Generating(a, at), GenSound' PROVE LoopInv'
  <2>1. pc[a].step = "work" /\ pc[a].phase = "generate" /\ UNCHANGED <<row, pc>>
    BY <1>9 DEF Generating, vars
  <2> QED BY <1>9, <2>1, SMT
<1>10. ASSUME NEW a \in Attempts, NEW at, Generating(a, at)
       PROVE  Sound(gen) /\ gen.at = at /\ request' = request
  BY <1>10 DEF Generating, GenSound
<1>11. ASSUME NEW a \in Attempts, Connect(a) PROVE LoopInv'
  <2>1. Generating(a, "route") /\ gen' \in OpenRoute(gen)
    BY <1>11 DEF Connect
  <2> QED BY <1>9, <1>10, <2>1, RouteSound, NextGeneration
<1>12. ASSUME NEW a \in Attempts, CallFails(a) PROVE LoopInv'
  <2>1. Generating(a, "call") /\ Affordable(gen) /\ gen' \in FailedCalls(gen)
    BY <1>12 DEF CallFails
  <2>2. PICK cost \in Costs(gen) \cup {Refusal}, retryable \in BOOLEAN :
           gen' = AfterFailure(Paid(gen, cost), cost, retryable)
    BY <2>1 DEF FailedCalls
  <2>3. Sound(Paid(gen, cost)) /\ Paid(gen, cost).at = "call"
    BY <1>10, <2>1, PaidSound
  <2> QED BY <1>9, <1>10, <2>1, <2>2, <2>3, FailureSound, NextGeneration
<1>13. ASSUME NEW a \in Attempts, CallAnswers(a) PROVE LoopInv'
  <2>1. Generating(a, "call") /\ Affordable(gen)
    BY <1>13 DEF CallAnswers
  <2>2. PICK visible \in Visible(gen), cost \in Costs(gen) :
           \E p \in ValidResponses(visible) : gen' = AfterResponse(Paid(gen, cost), p, visible)
    BY <1>13 DEF CallAnswers
  <2>3. PICK p \in ValidResponses(visible) : gen' = AfterResponse(Paid(gen, cost), p, visible)
    BY <2>2
  <2>4. Sound(Paid(gen, cost)) /\ Paid(gen, cost).at = "call"
    BY <1>10, <2>1, PaidSound
  <2> QED BY <1>9, <1>10, <2>1, <2>3, <2>4, ResponseSound, NextGeneration
<1>14. ASSUME NEW a \in Attempts, UseTool(a) PROVE LoopInv'
  <2>1. Generating(a, "tools") /\ gen' \in AfterTool(gen)
    BY <1>14 DEF UseTool
  <2> QED BY <1>9, <1>10, <2>1, ToolSound, NextGeneration
<1>15. ASSUME NEW a \in Attempts, CompleteDelivered(a) PROVE LoopInv'
  <2>1. (GenSound' <=> GenSound) /\ Stored' = Stored /\ gen' = gen
    BY <1>15, SameGeneration DEF CompleteDelivered, loopVars
  <2>2. CASE Superseded(a)
    BY <1>15, <2>1, <2>2, SMT DEF Superseded
  <2>3. CASE RequireRunning("citations") /\ \E content \in Answers :
                /\ row' = CompletedRow(row, content)
                /\ Goto(a, [At("return", "complete") EXCEPT !.response = content])
    <3>1. pc[a] = At("work", "citations") /\ row \in Rows /\ row.status = "running"
      BY <1>15, <2>3 DEF CompleteDelivered, Complete, RequireRunning
    <3>2. PICK content \in Answers :
             /\ row' = CompletedRow(row, content)
             /\ pc' = [pc EXCEPT ![a] = [At("return", "complete") EXCEPT !.response = content]]
      BY <2>3
    <3>3. row'.status = "completed" /\ row' # row
      BY <3>1, <3>2 DEF CompletedRow, Rows
    <3>4. row'.answer = Stored
      BY <1>15, <3>3 DEF CompleteDelivered, Stored
    <3>5. /\ pc'[a].step = "return"
          /\ \A b \in Attempts \ {a} : pc'[b] = pc[b] /\ pc[b].step \notin Active
      BY <3>1, <3>2
    <3> QED BY <2>1, <3>1, <3>3, <3>4, <3>5, SMT
  <2> QED BY <1>15, <2>2, <2>3 DEF CompleteDelivered, Complete
<1>16. ASSUME FailStale, UNCHANGED loopVars PROVE LoopInv'
  <2>1. (GenSound' <=> GenSound) /\ Stored' = Stored /\ gen' = gen
    BY <1>16, SameGeneration DEF loopVars
  <2>2. row'.status = "failed" /\ pc' = pc
    BY <1>16 DEF FailStale, FailedRow, Rows
  <2> QED BY <2>1, <2>2, SMT
<1>17. CASE UNCHANGED allVars
  <2>1. (GenSound' <=> GenSound) /\ Stored' = Stored /\ gen' = gen
    BY <1>17, SameGeneration DEF allVars, loopVars
  <2> QED BY <1>17, <2>1, SMT DEF allVars, vars
<1>18. ASSUME NEW a \in Attempts, RunStep(a) PROVE LoopInv'
  BY <1>1, <1>2, <1>3, <1>4, <1>5, <1>6, <1>7, <1>18 DEF RunStep
<1>19. ASSUME NEW a \in Attempts, RecordGeneration(a) PROVE LoopInv'
  BY <1>6, <1>19 DEF RecordGeneration
<1> QED BY <1>8, <1>11, <1>12, <1>13, <1>14, <1>15, <1>16, <1>17, <1>18, <1>19 DEF LoopNext

LEMMA LoopStarts == LoopInit => LoopInv
BY SMT DEF LoopInit, Init, LoopInv, Idle, At

\* The run whose generation is spelled out implements the run whose answers are arbitrary,
\* the fairness of the sweep included: what is proved of Spec holds of LoopSpec.
THEOREM LoopImplementsRun == LoopSpec => Spec
<1>1. LoopInit => Init
  BY DEF LoopInit
<1>2. [LoopNext]_allVars => [Next]_vars
  <2>1. ASSUME NEW a \in Attempts,
               \/ RunStep(a) \/ StartGeneration(a) \/ RecordGeneration(a)
               \/ CompleteDelivered(a)
        PROVE  Next
    BY <2>1 DEF RunStep, StartGeneration, RecordGeneration, CompleteDelivered, Next
  <2>2. ASSUME NEW a \in Attempts,
               Connect(a) \/ CallFails(a) \/ CallAnswers(a) \/ UseTool(a)
        PROVE  UNCHANGED vars
    BY <2>2 DEF Connect, CallFails, CallAnswers, UseTool, Generating
  <2>3. FailStale => Next
    BY DEF Next
  <2> QED BY <2>1, <2>2, <2>3 DEF LoopNext, allVars
<1> QED BY <1>1, <1>2, PTL DEF LoopSpec, Spec

LEMMA LoopInvariance == LoopSpec => [](IInv /\ LoopInv)
<1>1. LoopSpec => []IInv
  BY LoopImplementsRun, Invariance, PTL
<1>2. LoopInit => LoopInv
  BY LoopStarts
<1>3. IInv /\ IInv' /\ LoopInv /\ [LoopNext]_allVars => LoopInv'
  BY LoopStep
<1> QED BY <1>1, <1>2, <1>3, PTL DEF LoopSpec

\* Calls, steps and tool calls of a generation stay within their limits over routes, retries
\* and repairs, and a draft never cost more tokens than the run has: what a call is charged
\* covers what it used, reported or not, and a generation that overdrew ends without a draft.
THEOREM BudgetsHold == LoopSpec => []WithinBudgets
<1>1. LoopInv => WithinBudgets
  BY DEF LoopInv, GenSound, Sound, Budgeted, WithinBudgets
<1> QED BY <1>1, LoopInvariance, PTL

\* A stored answer cites evidence in scope that the run found, a private one at least some, and
\* a private single-agent one supports every requirement that was ever stated: no step can
\* lose a requirement from the plan the draft is held against.
THEOREM AnswersHaveSupport == LoopSpec => []AnswersSupported
<1>1. IInv /\ LoopInv => AnswersSupported
  <2> SUFFICES ASSUME IInv, LoopInv, row # None, row.answer # None, row.answer.kind = "answer"
               PROVE  /\ row.answer.cited \subseteq gen.known \cap Admissible
                      /\ (row.answer.cited # {}) <=> Private
                      /\ Agentic => \A r \in gen.stated :
                            r \in DOMAIN gen.plan /\ gen.plan[r] \cap row.answer.cited # {}
    BY DEF AnswersSupported
  <2> DEFINE cited == IF Grounded(gen) THEN gen.draft.cited \cap gen.known \cap Admissible
                      ELSE {}
  <2>1. Sound(gen) /\ gen.at = "done" /\ row.answer = Delivered(gen)
    BY DEF IInv, RowConsistent, LoopInv, GenSound, Stored
  <2>2. /\ row.answer = [kind |-> "answer", cited |-> cited]
        /\ Grounded(gen) /\ ~gen.draft.abstains /\ (Private => cited # {})
        /\ \A group \in gen.draft.groups : group \cap cited # {}
    BY <2>1 DEF Delivered, Insufficient
  <2>3. row.answer.cited = cited /\ cited = gen.draft.cited \cap gen.known \cap Admissible
    BY <2>2
  <2>4. ~Private => gen.draft.cited = {}
    BY <2>2 DEF Grounded
  <2>5. ASSUME Agentic, NEW r \in gen.stated
        PROVE  r \in DOMAIN gen.plan /\ gen.plan[r] \cap row.answer.cited # {}
    <3>1. r \in DOMAIN gen.plan /\ gen.draft.groups = Range(gen.plan)
      BY <2>1, <2>2, <2>5 DEF Sound, Planned
    <3>2. gen.plan[r] \in gen.draft.groups
      BY <3>1 DEF Range
    <3> QED BY <2>2, <2>3, <3>1, <3>2
  <2> QED BY <2>2, <2>3, <2>4, <2>5
<1> QED BY <1>1, LoopInvariance, PTL
=============================================================================

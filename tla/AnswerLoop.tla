------------------------------ MODULE AnswerLoop ------------------------------
(***************************************************************************)
(* An answer run with what happens in its phases generate and citations:    *)
(* the bounded loop of providers/llm.py over model routes, attempts and     *)
(* reasoning steps, the evidence requirements of runtime/agentic.py, the    *)
(* searches of runtime/tools.py, and the last filter of                     *)
(* runtime/grounding.py and runtime/citations.py.                           *)
(*                                                                         *)
(* A requirement is a subquestion the model states; a plan maps those that  *)
(* have been stated to the evidence the model says supports them, {} while  *)
(* support is missing or in conflict.  A citation is an evidence id whose   *)
(* quote checks; the others are dropped wherever they are looked at.        *)
(* Prompt and completion tokens have budgets of their own that are kept     *)
(* alike; there is one budget here.                                         *)
(***************************************************************************)
EXTENDS AnswerRun, Sequences, FiniteSetsExt, SequencesExt

CONSTANTS
    Evidence,        \* what retrieval and searches may find
    Admissible,      \* the evidence in scope and of a type the mode requires
    Requirements,    \* requirement ids
    Searches,        \* distinct searches (tool, query and size)
    MaxRoutes,       \* bound: model routes, the primary and the fallback
    MaxSteps,        \* ANSWER_REASONING_MAX_STEPS
    MaxAttempts,     \* ANSWER_LLM_MAX_ATTEMPTS
    MaxCalls,        \* max_model_calls
    MaxToolCalls,    \* ANSWER_TOOL_MAX_CALLS
    MaxTokens,       \* the run's token budget
    PerCall          \* what one call may produce

\* The limits of config.py and of the request (contracts.py).
ASSUME LoopAssumption ==
    /\ MaxRoutes \in Nat \ {0} /\ MaxSteps \in Nat \ {0} /\ MaxAttempts \in Nat \ {0}
    /\ MaxCalls \in Nat \ {0} /\ MaxToolCalls \in Nat
    /\ MaxTokens \in Nat \ {0} /\ PerCall \in Nat \ {0}

VARIABLES
    request,         \* the request's mode and the routes that are available to it
    gen              \* the generation of the executing attempt, None before it starts

loopVars == <<request, gen>>
allVars == <<vars, loopVars>>

Modes == {"general", "single", "multi"}
Private == request.mode # "general"
Agentic == request.mode = "single"

\* What a request may be answered: Answers of AnswerRun.
Responses == [kind : {"answer", "insufficient"}, cited : SUBSET Evidence]

LoopInit ==
    /\ Init
    /\ request \in [mode : Modes, routes : 1..MaxRoutes]
    /\ gen = None

NoPlan == [r \in {} |-> {}]

\* A generation that has made no call yet; stated, consumed: history, see the properties.
Start(known) ==
    [at |-> "route", route |-> 1, attempt |-> 1, steps |-> 0, calls |-> 0, charged |-> 0,
     consumed |-> 0, tools |-> 0, known |-> known, done |-> {}, plan |-> NoPlan,
     stated |-> {}, pending |-> <<>>, draft |-> None]

-----------------------------------------------------------------------------
(* Evidence requirements.                                                  *)

\* What a response may propose: something stated, with evidence it could see.
Proposals(visible) ==
    IF Agentic
    THEN UNION {[stated -> SUBSET visible] : stated \in (SUBSET Requirements) \ {{}}}
    ELSE {NoPlan}

\* Mutant: a requirement that is not stated again is forgotten.
ReconcileForgetting(previous, proposal, visible) == proposal

\* RetrievalAssessment.reconcile.
Reconcile(previous, proposal, visible) ==
    LET support(r) == IF r \in DOMAIN proposal THEN proposal[r] ELSE previous[r]
    IN  [r \in DOMAIN proposal \cup DOMAIN previous |->
            IF support(r) \subseteq visible THEN support(r) ELSE {}]

Sufficient(plan) == \A r \in DOMAIN plan : plan[r] # {}

CoveredBy(plan, cited) == \A r \in DOMAIN plan : plan[r] \cap cited # {}

-----------------------------------------------------------------------------
(* The budget.                                                             *)

Left(g) == MaxTokens - Min({g.charged, MaxTokens})

\* max_tokens of the next call.
Reserve(g) == Min({Left(g), PerCall})

\* Mutant: a call without a usage report is free.
UnmeteredCall(g) == 0

\* What a call is charged whose usage is not known.
UnknownCharge(g) == Reserve(g)

\* A call whose usage is reported is charged what it used, the others an estimate, taken to be
\* an upper bound: "byte counts are a conservative estimate" (llm.py:202-203).
Reported(used) == [charge |-> used, used |-> used, settled |-> TRUE]
Unreported(g) == [charge |-> UnknownCharge(g), used |-> Reserve(g), settled |-> FALSE]
Refusal == [charge |-> 0, used |-> 0, settled |-> TRUE]

\* The estimate of a prompt may be exceeded by one.
Costs(g) == {Reported(used) : used \in 1..Reserve(g) + 1} \cup {Unreported(g)}

Paid(g, cost) ==
    [g EXCEPT !.calls = @ + 1, !.charged = @ + cost.charge, !.consumed = @ + cost.used]

Affordable(g) == g.calls < MaxCalls /\ Left(g) > 0

Stuck(g) == [g EXCEPT !.at = "failed"]

-----------------------------------------------------------------------------
(* Routes and attempts.                                                    *)

HasFallback(g) == g.route < request.routes

NextRoute(g) ==
    IF HasFallback(g) THEN [g EXCEPT !.at = "route", !.route = @ + 1, !.attempt = 1]
    ELSE Stuck(g)

\* The client of a route is created, or cannot be.
OpenRoute(g) == {[g EXCEPT !.at = "call"], NextRoute(g)}

\* The last call, or a budget that the failing route would use up, is left to the fallback.
LeavesToFallback(g, cost) ==
    HasFallback(g) /\ (MaxCalls - g.calls <= 1 \/ ~cost.settled \/ Left(g) <= cost.charge)

AfterFailure(g, cost, retryable) ==
    IF g.charged > MaxTokens THEN Stuck(g)
    ELSE IF ~retryable \/ g.attempt = MaxAttempts \/ LeavesToFallback(g, cost) THEN NextRoute(g)
    ELSE [g EXCEPT !.attempt = @ + 1]

\* An HTTP rejection, a failed transport, a response that breaks its contract or an error in
\* reading one whose usage was read: worth a retry or not.
FailedCalls(g) ==
    {AfterFailure(Paid(g, cost), cost, retryable) :
        cost \in {Refusal} \cup Costs(g), retryable \in BOOLEAN}

-----------------------------------------------------------------------------
(* A step: the review of a valid response p, g being charged for it.       *)

ToolsOffered(g) ==
    /\ request.mode # "multi"
    /\ g.tools < MaxToolCalls
    /\ g.steps + 1 < MaxSteps
    /\ g.calls < MaxCalls

\* A final answer with a gap gets another round, if the gap can still be closed.
NeedsRepair(g, plan, covered) == Agentic /\ ~covered /\ (ToolsOffered(g) \/ Sufficient(plan))

GoesOn(g, p, plan, covered) ==
    /\ p.decision # "final" \/ NeedsRepair(g, plan, covered)
    /\ Affordable(g)
    /\ g.steps + 1 < MaxSteps

Drafted(p, plan, covered) ==
    IF Agentic /\ (~covered \/ p.abstains)
    THEN [abstains |-> TRUE, cited |-> {}, groups |-> {}]
    ELSE [abstains |-> p.abstains, cited |-> p.cited,
          groups |-> Range(plan)]

Reviewed(g, p, plan, covered) ==
    LET next == [g EXCEPT !.steps = @ + 1, !.attempt = 1, !.plan = plan,
                          !.stated = @ \cup DOMAIN p.proposal]
    IN  IF GoesOn(g, p, plan, covered)
        THEN [next EXCEPT !.at = IF p.decision = "tool" THEN "tools" ELSE "call",
                          !.pending = p.searches]
        ELSE IF p.decision # "final" THEN Stuck(next)
        ELSE [next EXCEPT !.at = "done", !.draft = Drafted(p, plan, covered)]

AfterResponse(g, p, visible) ==
    LET plan == IF Agentic THEN Reconcile(g.plan, p.proposal, visible) ELSE NoPlan
    IN  IF g.charged > MaxTokens THEN Stuck(g)
        ELSE Reviewed(g, p, plan, ~Agentic \/ CoveredBy(plan, p.cited \cap visible))

\* Calls of a response that wants tools: searches, and None for a proposal or an unknown tool.
ToolRequests == {s \in BoundedSeq(Searches \cup {None}, 2) : s # <<>>}

Responded(decision, proposal, cited, abstains, searches) ==
    [decision |-> decision, proposal |-> proposal, cited |-> cited, abstains |-> abstains,
     searches |-> searches]

ValidResponses(visible) ==
    {Responded("final", proposal, cited, abstains, <<>>) :
        proposal \in Proposals(visible), cited \in SUBSET Evidence, abstains \in BOOLEAN}
    \cup {Responded("continue", proposal, {}, FALSE, <<>>) : proposal \in Proposals(visible)}
    \cup IF request.mode = "multi" THEN {}
         ELSE {Responded("tool", proposal, {}, FALSE, searches) :
                  proposal \in Proposals(visible), searches \in ToolRequests}

\* The part of the known evidence that fits the prompt.
Visible(g) == SUBSET g.known

-----------------------------------------------------------------------------
(* Tools.                                                                  *)

Searched(g, search, found) ==
    [g EXCEPT !.known = @ \cup found, !.done = @ \cup {search}]

\* A call that finds nothing new: refused, failed, timed out, repeated, or only proposed.
Unsearched(g) == g

ToolResults(g, call) ==
    {Unsearched(g)}
    \cup IF call = None \/ call \in g.done \/ ~Private THEN {}
         ELSE {Searched(g, call, found) : found \in SUBSET Evidence}

\* The first pending call, or the end of the round once the budget of tool calls is used up.
AfterTool(g) ==
    IF g.tools >= MaxToolCalls THEN {[g EXCEPT !.at = "call", !.pending = <<>>]}
    ELSE {[h EXCEPT !.tools = @ + 1, !.pending = Tail(@),
                    !.at = IF Len(g.pending) = 1 THEN "call" ELSE "tools"] :
            h \in ToolResults(g, Head(g.pending))}

-----------------------------------------------------------------------------
(* Delivery.                                                               *)

Insufficient(cited) == [kind |-> "insufficient", cited |-> cited]

\* evaluate_grounding: private answers need admissible evidence, others may not even claim any.
Grounded(g) == IF Private THEN g.known \cap Admissible # {} ELSE g.draft.cited = {}

\* The response that is stored: citations that lost their evidence are dropped, and with the
\* last citation of a requirement the answer.
Delivered(g) ==
    LET cited == IF Grounded(g) THEN g.draft.cited \cap g.known \cap Admissible ELSE {}
    IN  IF \E group \in g.draft.groups : group \cap cited = {} THEN Insufficient({})
        ELSE IF ~Grounded(g) \/ g.draft.abstains \/ (Private /\ cited = {})
             THEN Insufficient(cited)
        ELSE [kind |-> "answer", cited |-> cited]

-----------------------------------------------------------------------------
(* Actions.                                                                *)

\* The steps of a run outside its generation.
RunStep(a) ==
    /\ \/ Create(a) \/ Return(a) \/ DependencyFails(a) \/ Cancel(a) \/ RecordFailure(a)
       \/ Lost(a)
       \/ Record(a) /\ pc[a].phase = "retrieve"
       \/ BeginPhase(a) /\ pc'[a] # At("work", "generate")
    /\ UNCHANGED loopVars

\* Generation starts with the admissible part of what retrieval found.
StartGeneration(a) ==
    /\ BeginPhase(a) /\ pc'[a] = At("work", "generate")
    /\ \E known \in IF Private THEN SUBSET Admissible ELSE {{}} : gen' = Start(known)
    /\ UNCHANGED request

\* The generation is awaiting something; a budget that is used up, and the last route's
\* failure, leave it to DependencyFails, which a timeout takes at any moment.
Generating(a, at) ==
    /\ pc[a] = At("work", "generate") /\ gen.at = at
    /\ UNCHANGED <<vars, request>>

Connect(a) == Generating(a, "route") /\ gen' \in OpenRoute(gen)

CallFails(a) == Generating(a, "call") /\ Affordable(gen) /\ gen' \in FailedCalls(gen)

CallAnswers(a) ==
    /\ Generating(a, "call") /\ Affordable(gen)
    /\ \E visible \in Visible(gen), cost \in Costs(gen) :
          \E p \in ValidResponses(visible) : gen' = AfterResponse(Paid(gen, cost), p, visible)

UseTool(a) == Generating(a, "tools") /\ gen' \in AfterTool(gen)

\* The phase generate ends with a draft, the phase citations with what is stored.
RecordGeneration(a) ==
    /\ pc[a] = At("work", "generate") /\ gen.at = "done"
    /\ Record(a)
    /\ UNCHANGED loopVars

CompleteDelivered(a) ==
    /\ Complete(a)
    /\ row' # row => row'.answer = Delivered(gen)
    /\ UNCHANGED loopVars

LoopNext ==
    \/ \E a \in Attempts :
          \/ RunStep(a)
          \/ StartGeneration(a)
          \/ Connect(a)
          \/ CallFails(a)
          \/ CallAnswers(a)
          \/ UseTool(a)
          \/ RecordGeneration(a)
          \/ CompleteDelivered(a)
    \/ FailStale /\ UNCHANGED loopVars

LoopSpec == LoopInit /\ [][LoopNext]_allVars /\ WF_vars(FailStale)

-----------------------------------------------------------------------------
(* Properties.                                                             *)

\* An answer that is stored and shown as an answer cites only evidence in scope that the run
\* really found; a private one cites some, a general one none; and a private single-agent one
\* cites support for every requirement the model ever stated, however many steps, routes and
\* failed calls ago ("Missing requirements cannot disappear across steps").
AnswersSupported ==
    row # None /\ row.answer # None /\ row.answer.kind = "answer" =>
        /\ row.answer.cited \subseteq gen.known \cap Admissible
        /\ (row.answer.cited # {}) <=> Private
        /\ Agentic => \A r \in gen.stated :
              r \in DOMAIN gen.plan /\ gen.plan[r] \cap row.answer.cited # {}

\* Retries, steps and the fallback share one budget: whatever they did, calls, steps and tool
\* calls stay within their limits, and a draft never cost the providers more tokens than the
\* run may use, although some of its calls never told what they used.
WithinBudgets ==
    gen # None =>
        /\ gen.calls <= MaxCalls /\ gen.steps <= MaxSteps /\ gen.tools <= MaxToolCalls
        /\ gen.draft # None => gen.consumed <= MaxTokens
=============================================================================

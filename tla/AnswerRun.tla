------------------------------ MODULE AnswerRun ------------------------------
(***************************************************************************)
(* The answer run of one request of the Memoria server                      *)
(* (memoria/server/api/answers.py, runtime/orchestrator.py,                 *)
(* repositories/runs.py, the stale sweep of tasks/events.py).               *)
(*                                                                         *)
(* A request is identified by its owner and request id, and its row by a    *)
(* unique constraint on both.  An attempt is one HTTP call with that        *)
(* identity: the backend's stream, the plain call it falls back to when the *)
(* stream breaks, a retry of the durable run.  The attempt that inserts the *)
(* row executes it, phase by phase, each phase with transactions of its own *)
(* that lock the row and require it to be where the attempt left it; every  *)
(* other attempt only reads the row.  Meanwhile the client may go away, the *)
(* process die, and the beat fail whatever has been running for too long.   *)
(***************************************************************************)
EXTENDS Naturals

CONSTANTS
    Attempts,      \* calls of POST /answers or /answers/stream for the request
    Answers,       \* what generation and validation may come to
    MaxFaults,     \* bound: attempts lost with their process, failures that are not saved
    None

VARIABLES
    row,           \* the row of answer_runs, None before an attempt creates it
    pc,            \* where each attempt is: a step and the phase it belongs to
    outcome,       \* what the caller of each attempt got
    generated,     \* history: the attempts that called the model
    faults

vars == <<row, pc, outcome, generated, faults>>

Phases == {"retrieve", "generate", "citations"}

Rows == [run : Attempts, status : {"running", "completed", "failed"},
         phase : Phases \cup {"validate", "complete"},
         answer : Answers \cup {None}, error : {None, "failed", "stale"}]

\* None is no row, and no value a row holds; the bound is a number.
ASSUME AnswerRunAssumption ==
    /\ MaxFaults \in Nat
    /\ None \notin Rows \cup Answers \cup {"failed", "stale"}

\* The phase the row must be in when a phase begins, and the one that follows it.
Previous == [retrieve |-> "validate", generate |-> "retrieve", citations |-> "generate"]
Following == [retrieve |-> "generate", generate |-> "citations"]

At(step, phase) == [step |-> step, phase |-> phase, response |-> None]

Idle == At("idle", None)
Over == At("over", None)

Error(code) == [kind |-> "error", code |-> code]
Answered(content) == [kind |-> "answer", content |-> content]

Init ==
    /\ row = None
    /\ pc = [a \in Attempts |-> Idle]
    /\ outcome = [a \in Attempts |-> None]
    /\ generated = {}
    /\ faults = 0

Fault == faults < MaxFaults /\ faults' = faults + 1

Goto(a, at) == pc' = [pc EXCEPT ![a] = at]

End(a, result) ==
    /\ Goto(a, Over)
    /\ outcome' = [outcome EXCEPT ![a] = result]

-----------------------------------------------------------------------------

NewRow(a) == [run |-> a, status |-> "running", phase |-> "validate", answer |-> None,
              error |-> None]

\* Mutant: an attempt after a failed one runs the request again.
ExecutedAgain(r) == r = None \/ r.status = "failed"

\* AnswerRunRepository.create: only the attempt that inserts the row executes the request.
Executes(r) == r = None

\* What an attempt that finds the row answers: the stored response, or an error.
Replay(r) ==
    IF r.status = "completed" /\ r.answer # None THEN Answered(r.answer)
    ELSE IF r.status = "failed" THEN Error(r.error) ELSE Error("in_progress")

Create(a) ==
    /\ pc[a] = Idle
    /\ IF Executes(row)
       THEN /\ row' = NewRow(a)
            /\ Goto(a, At("begin", "retrieve"))
            /\ UNCHANGED outcome
       ELSE /\ End(a, Replay(row))
            /\ UNCHANGED row
    /\ UNCHANGED <<generated, faults>>

\* Mutant: the row is written whatever became of it.
AnyStatus(phase) == TRUE

\* _require_running, under the row's lock.
RequireRunning(phase) == row.status = "running" /\ row.phase = phase

\* InvalidRunTransition: the row is left as it is.
Superseded(a) == End(a, Error("internal")) /\ UNCHANGED <<row, generated, faults>>

BeginPhase(a) ==
    /\ pc[a].step = "begin"
    /\ LET phase == pc[a].phase
       IN  \/ /\ RequireRunning(Previous[phase])
              /\ row' = [row EXCEPT !.phase = phase]
              /\ Goto(a, At("work", phase))
              /\ generated' = IF phase = "generate" THEN generated \cup {a} ELSE generated
              /\ UNCHANGED <<outcome, faults>>
           \/ /\ ~RequireRunning(Previous[phase])
              /\ Superseded(a)

\* Retrieval or generation ended well and is recorded (record_retrieval, record_generation);
\* what they recorded besides the phase is not read again.
Record(a) ==
    /\ pc[a].step = "work" /\ pc[a].phase \in DOMAIN Following
    /\ LET phase == pc[a].phase
       IN  \/ /\ RequireRunning(phase)
              /\ Goto(a, At("begin", Following[phase]))
              /\ UNCHANGED <<row, outcome, generated, faults>>
           \/ /\ ~RequireRunning(phase)
              /\ Superseded(a)

CompletedRow(r, content) ==
    [r EXCEPT !.status = "completed", !.phase = "complete", !.answer = content]

\* The validated response is stored before any of it is shown.
Complete(a) ==
    /\ pc[a] = At("work", "citations")
    /\ \/ /\ RequireRunning("citations")
          /\ \E content \in Answers :
                /\ row' = CompletedRow(row, content)
                /\ Goto(a, [At("return", "complete") EXCEPT !.response = content])
          /\ UNCHANGED <<outcome, generated, faults>>
       \/ /\ ~RequireRunning("citations")
          /\ Superseded(a)

\* The callers of the stream get the answer's chunks now, the others the response.
Return(a) ==
    /\ pc[a].step = "return"
    /\ End(a, Answered(pc[a].response))
    /\ UNCHANGED <<row, generated, faults>>

-----------------------------------------------------------------------------

\* A dependency fails or times out, or a generation exceeds its budget.
DependencyFails(a) ==
    /\ pc[a].step = "work"
    /\ Goto(a, At("fail", pc[a].phase))
    /\ UNCHANGED <<row, outcome, generated, faults>>

\* The client of a stream is gone: its task is cancelled wherever it is; what it had already
\* completed stays completed.
Cancel(a) ==
    /\ pc[a].step \in {"begin", "work", "return"}
    /\ Goto(a, At("fail", pc[a].phase))
    /\ UNCHANGED <<row, outcome, generated, faults>>

FailedRow(r, phase, code) == [r EXCEPT !.status = "failed", !.phase = phase, !.error = code]

\* _record_failure: shielded, and best effort.
RecordFailure(a) ==
    /\ pc[a].step = "fail"
    /\ row' = IF row.status = "running" THEN FailedRow(row, pc[a].phase, "failed") ELSE row
    /\ End(a, Error("failed"))
    /\ UNCHANGED <<generated, faults>>

\* The process dies, or a statement fails outside the phases: nothing is recorded.  A client
\* that goes away before the first phase leaves the row the same way.
Lost(a) ==
    /\ pc[a].step \in {"begin", "work", "fail", "return"}
    /\ Fault
    /\ End(a, Error("lost"))
    /\ UNCHANGED <<row, generated>>

\* Mutant: only a run that reached generation can be stale.
GeneratingOnly(r) == r.status = "running" /\ r.phase = "generate"

IsStale(r) == r.status = "running"

\* fail_stale, run by the beat, once the row is old enough.
FailStale ==
    /\ row # None /\ IsStale(row)
    /\ row' = FailedRow(row, row.phase, "stale")
    /\ UNCHANGED <<pc, outcome, generated, faults>>

Next ==
    \/ \E a \in Attempts :
          \/ Create(a)
          \/ BeginPhase(a)
          \/ Record(a)
          \/ Complete(a)
          \/ Return(a)
          \/ DependencyFails(a)
          \/ Cancel(a)
          \/ RecordFailure(a)
          \/ Lost(a)
    \/ FailStale

\* The beat runs for ever; no attempt has to go on.
Spec == Init /\ [][Next]_vars /\ WF_vars(FailStale)

-----------------------------------------------------------------------------
(* Properties.                                                             *)

\* The shapes of the row and of the attempts, and what ties status, phase, answer and error
\* together: a row is completed exactly if it has an answer, failed exactly if it has an error.
TypeOK ==
    /\ row \in Rows \cup {None}
    /\ row # None =>
          /\ (row.status = "completed") <=> (row.phase = "complete")
          /\ (row.status = "completed") <=> (row.answer # None)
          /\ (row.status = "failed") <=> (row.error # None)
    /\ \A a \in Attempts : pc[a].step \in {"begin", "work", "fail", "return"} =>
          row # None /\ row.run = a
    /\ faults \in 0..MaxFaults

\* Whatever mixture of stream, fallback and retry a request is called with, its callers see
\* one answer, the stored one (idempotency by owner and request id; stream_answer shows
\* nothing that is not stored), and at most one of them has the model asked.
OneStoredAnswer ==
    /\ \A a \in Attempts : outcome[a] # None /\ outcome[a].kind = "answer" =>
          row.status = "completed" /\ row.answer = outcome[a].content
    /\ \A a, b \in generated : a = b

\* A verdict is final: a run that completed or failed is never changed again, neither by the
\* sweep nor by the attempt that still works on it, late as it may be.
VerdictIsFinal ==
    [][row # None /\ row.status \in {"completed", "failed"} => row' = row]_vars

\* A request whose process died is not "in progress" for ever (fail_stale_answer_runs).
RunsEnd == (row # None) ~> (row # None /\ row.status # "running")
=============================================================================

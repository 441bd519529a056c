--------------------------- MODULE DeliveryContract ---------------------------
(***************************************************************************)
(* What Mneme's outbox promises the code that enqueues an operation: the   *)
(* operation is handed to its target a bounded number of times, until it   *)
(* has taken effect or is given up for good, and the verdict is final      *)
(* (docs/runtime-contracts.md, "Outbox contract").                         *)
(***************************************************************************)
EXTENDS Integers

CONSTANTS
    Operations,     \* what is to be delivered, one member per idempotency key
    Refusable,      \* the operations whose target may refuse them for good
    MaxAttempts     \* bound on the attempts at one operation

VARIABLES
    phase,          \* [Operations -> "absent", "waiting", "done" or "dead"]
    tries,          \* [Operations -> how often it was handed to its target]
    applied         \* operations that have taken effect

vars == <<phase, tries, applied>>

Init ==
    /\ phase = [o \in Operations |-> "absent"]
    /\ tries = [o \in Operations |-> 0]
    /\ applied = {}

Accept(o) ==
    /\ phase[o] = "absent"
    /\ phase' = [phase EXCEPT ![o] = "waiting"]
    /\ UNCHANGED <<tries, applied>>

\* The target may act on the operation even when the attempt is reported as failed.
Attempt(o) ==
    /\ phase[o] = "waiting"
    /\ tries[o] < MaxAttempts
    /\ tries' = [tries EXCEPT ![o] = @ + 1]
    /\ applied' \in {applied, applied \cup {o}}
    /\ UNCHANGED phase

Settle(o) ==
    /\ phase[o] = "waiting"
    /\ o \in applied
    /\ phase' = [phase EXCEPT ![o] = "done"]
    /\ UNCHANGED <<tries, applied>>

GiveUp(o) ==
    /\ phase[o] = "waiting"
    /\ tries[o] = MaxAttempts \/ (o \in Refusable /\ tries[o] > 0)
    /\ phase' = [phase EXCEPT ![o] = "dead"]
    /\ UNCHANGED <<tries, applied>>

Next == \E o \in Operations : Accept(o) \/ Attempt(o) \/ Settle(o) \/ GiveUp(o)

Spec == Init /\ [][Next]_vars
=============================================================================

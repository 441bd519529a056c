------------------------------ MODULE MCAgentRun ------------------------------
(***************************************************************************)
(* AgentRun for TLC: two runs of a session, two workers as the image's     *)
(* default concurrency has them.                                           *)
(***************************************************************************)
EXTENDS AgentRun, TLC

\* Runs and workers are interchangeable.
Symmetry == Permutations(Runs) \cup Permutations(Workers)
=============================================================================

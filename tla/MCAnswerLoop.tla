----------------------------- MODULE MCAnswerLoop -----------------------------
(* An instance of AnswerLoop for TLC: two calls of one request, a primary and a fallback    *)
(* route, two requirements, and one piece of evidence that turns out inadmissible.          *)
EXTENDS AnswerLoop
=============================================================================

--------------------------- MODULE MCSourceLifecycle ---------------------------
(***************************************************************************)
(* SourceLifecycle for TLC: the events of a bounded clock, one worker.     *)
(***************************************************************************)
EXTENDS SourceLifecycle

MCScopes == {KB, Global}
MCSources == {Document1, Session, Message, KnowledgeBase}
SwitchedOn == [n \in SettingNames |-> TRUE]

\* The bounds on what is explored: one of the two sources is left alone.
OneSource ==
    \/ chat.asked = 0 /\ said = {}
    \/ marking = {} /\ deleting = {} /\ deletions = {} /\ doc.updated_at = 0
=============================================================================

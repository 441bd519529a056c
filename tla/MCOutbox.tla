------------------------------- MODULE MCOutbox -------------------------------
(***************************************************************************)
(* Instances of Outbox for TLC: events for Memoria and for another target. *)
(***************************************************************************)
EXTENDS Outbox, TLC

CONSTANTS deletion, observation, graphSync

MCOperations == {deletion, observation, graphSync}
ToMemoria == {deletion, observation}
=============================================================================

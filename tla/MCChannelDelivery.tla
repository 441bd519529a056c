--------------------------- MODULE MCChannelDelivery ---------------------------
(***************************************************************************)
(* ChannelDelivery for TLC: one worker, as the image runs it.              *)
(***************************************************************************)
EXTENDS ChannelDelivery
=============================================================================

------------------------- MODULE MCScheduledSend -------------------------
(* Instances of ScheduledSend for TLC.                                     *)
EXTENDS ScheduledSend, TLC

CONSTANTS c1, c2
=============================================================================

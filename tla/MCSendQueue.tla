--------------------------- MODULE MCSendQueue ---------------------------
(* Instances of SendQueue for TLC.                                         *)
EXTENDS SendQueue, TLC

CONSTANTS ticker, flush, r1, r2

(* The two processors run the same code, and so do the recipients.         *)
QueueSymmetry == Permutations(Processor) \cup Permutations(Rcpt)
=============================================================================

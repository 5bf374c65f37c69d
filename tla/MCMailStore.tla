--------------------------- MODULE MCMailStore ---------------------------
(* Instances of MailStore for TLC.                                         *)
EXTENDS MailStore, TLC

CONSTANTS w1, w2, Trash, Work

(* Two names stand for the six system folders: INBOX, which is       *)
(* special everywhere, and one that is not.                                 *)
MCSysNames   == << Inbox, Trash >>
MCInboxOnly  == << Inbox >>

WorkerSymmetry == Permutations(Worker)
=============================================================================

----------------------------- MODULE UidSpace -----------------------------
(***************************************************************************)
(* What the store promises an IMAP or POP3 client about UIDs (the UIDL of  *)
(* POP3 is the same number): a folder counts upwards, every message that   *)
(* enters it gets the next number, and no number is given twice, whatever  *)
(* is removed in between and even when the folder itself is removed.       *)
(***************************************************************************)
EXTENDS Naturals

CONSTANTS Folder, Message

VARIABLES
  next,     \* the live folders, each with the number it gives next
  taken     \* every [folder, uid, msg] ever given

Init == next = << >> /\ taken = {}

(* A new folder starts at 1; it must be one that never gave a number.      *)
Open(f) ==
  /\ f \notin DOMAIN next
  /\ \A x \in taken : x.folder # f
  /\ next' = [g \in DOMAIN next \cup {f} |-> IF g = f THEN 1 ELSE next[g]]
  /\ UNCHANGED taken

Give(f, m) ==
  /\ f \in DOMAIN next
  /\ taken' = taken \cup {[folder |-> f, uid |-> next[f], msg |-> m]}
  /\ next'  = [next EXCEPT ![f] = @ + 1]

Close(fs) ==
  /\ next' = [f \in DOMAIN next \ fs |-> next[f]]
  /\ UNCHANGED taken

Next ==
  \/ \E f \in Folder : Open(f)
  \/ \E f \in Folder, m \in Message : Give(f, m)
  \/ \E fs \in SUBSET Folder : Close(fs)

Spec == Init /\ [][Next]_<< next, taken >>

(* No two messages share a number of a folder, now or ever.                *)
NoReuse ==
  \A x, y \in taken : x.folder = y.folder /\ x.uid = y.uid => x.msg = y.msg
=============================================================================

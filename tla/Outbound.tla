----------------------------- MODULE Outbound -----------------------------
(***************************************************************************)
(* What the outbound queue promises the one who hands it a message: every  *)
(* recipient is tried until the message is reported sent or failed, nobody *)
(* gets a copy after the report, and "sent" means that everybody got one.  *)
(***************************************************************************)
EXTENDS Functions

CONSTANTS Mail, Rcpt

VARIABLES
  mail,   \* accepted messages: id -> [rcpts, status]
  got     \* id -> the recipients whose server took a copy

Init == mail = << >> /\ got = [m \in Mail |-> {}]

Accept(m, rcpts) ==
  /\ m \notin DOMAIN mail
  /\ mail' = [n \in DOMAIN mail \cup {m} |->
                IF n = m THEN [rcpts |-> rcpts, status |-> "pending"] ELSE mail[n]]
  /\ UNCHANGED got

Pending(m) == m \in DOMAIN mail /\ mail[m].status = "pending"

Hand(m, r) ==
  /\ Pending(m) /\ r \in mail[m].rcpts
  /\ got' = [got EXCEPT ![m] = @ \cup {r}]
  /\ UNCHANGED mail

Report(m, status) ==
  /\ Pending(m)
  /\ status = "sent" => got[m] = mail[m].rcpts
  /\ mail' = [mail EXCEPT ![m].status = status]
  /\ UNCHANGED got

Next ==
  \/ \E m \in Mail, rcpts \in SUBSET Rcpt : Accept(m, rcpts)
  \/ \E m \in Mail, r \in Rcpt : Hand(m, r)
  \/ \E m \in Mail, status \in {"sent", "failed"} : Report(m, status)

Spec == Init /\ [][Next]_<< mail, got >>
=============================================================================

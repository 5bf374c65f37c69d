--------------------------- MODULE MCMailSessions --------------------------
(* Instances of MailSessions for TLC: what two connections speak, which     *)
(* accounts there are, and how many commands each gives.                    *)
EXTENDS MailSessions

CONSTANTS c1, c2, alice, bob

Case(p, q, m, n, us, names) ==
  [proto |-> [c \in {c1, c2} |-> IF c = c1 THEN p ELSE q],
   left  |-> [c \in {c1, c2} |-> IF c = c1 THEN m ELSE n],
   users |-> us, names |-> names]

(* Login and SELECT come before what matters over IMAP, USER and PASS over  *)
(* POP3; a message by SMTP is AUTH, MAIL, RCPT, RCPT, DATA.                 *)
MCScenario ==
  {Case("imap", "imap", 4, 3, {alice}, {"INBOX"}),
   Case("imap", "pop3", 4, 4, {alice}, {"INBOX"}),
   Case("imap", "smtp", 4, 5, {alice}, {"INBOX"}),
   Case("imap", "web", 4, 1, {alice}, {"INBOX"}),
   Case("imap", "web", 5, 0, {alice}, {"INBOX", "Trash"}),
   Case("pop3", "pop3", 4, 4, {alice}, {"INBOX"}),
   Case("pop3", "web", 6, 0, {alice, bob}, {"INBOX"}),
   Case("pop3", "web", 4, 1, {alice}, {"INBOX"}),
   Case("pop3", "smtp", 4, 5, {alice}, {"INBOX", "Trash"}),
   Case("smtp", "web", 9, 0, {alice, bob}, {"INBOX"}),
   Case("smtp", "web", 5, 1, {alice}, {"INBOX", "Sent"}),
   Case("web", "web", 1, 1, {alice}, {"INBOX", "Sent"}),
   Case("web", "smtp", 1, 0, {alice, bob}, {"INBOX", "Sent"})}

(* The client takes the numbers as they come, one EXPUNGE at a time; the    *)
(* session's loop over its copy keeps what is not reported.                 *)
HeardOneByOne(view, ks) ==
  FoldLeft(LAMBDA v, n : IF n <= Len(v) THEN RemoveAt(v, n) ELSE v, view,
           SetToSortSeq(ks, LAMBDA j, k : j < k))
KeptInLoop(list, ids) == SelectSeq(list, LAMBDA e : e.id \notin ids)

ASSUME LeaveIsRight ==
  \A n \in 0 .. 5, numbers \in SUBSET (1 .. 5) :
     LET view == [k \in 1 .. n |-> 10 * k]
         list == [k \in 1 .. n |-> [id |-> (2 * k) % 3]]
     IN /\ Heard(view, numbers) = HeardOneByOne(view, numbers)
        /\ Leave(list, {k \in 1 .. n : list[k].id \in numbers}) = KeptInLoop(list, numbers)
=============================================================================

---------------------------- MODULE SmtpSession ----------------------------
(***************************************************************************)
(* The SMTP server, internal/smtpd: RCPT resolves a local recipient to the *)
(* ids of its account and INBOX, DATA delivers to them one after the other *)
(* (each delivery followed by the recipient's filters), hands the others   *)
(* to the queue, and leaves a copy in the sender's Sent folder.            *)
(***************************************************************************)
EXTENDS Mailbox

CONSTANTS MaxRcpts      \* recipients of a message (the server allows 50)

VARIABLES
  smtp,       \* Conn -> the state of the session
  given,      \* history: the recipients the client had accepted since MAIL or RSET
  copied,     \* history: whom DATA made a copy for; Nobody stands for the queue
  dropped,    \* history: recipients with an INBOX whose delivery the store failed
  answer      \* history: the answer to the last DATA

svars == << smtp, given, copied, dropped, answer >>

NoSmtp == [pc |-> "ready", user |-> Nobody, from |-> FALSE, rcpts |-> << >>,
           todo |-> {}, fresh |-> 0, anyOK |-> FALSE]

(* The library answers MAIL, RCPT and DATA out of order itself, and AUTH a  *)
(* second time.                                                             *)
Auth(c) ==
  /\ smtp[c].pc = "ready" /\ smtp[c].user = Nobody
  /\ \E u \in users : smtp' = [smtp EXCEPT ![c].user = u]
  /\ UNCHANGED << mvars, given, copied, dropped, answer >>

Mail(c) ==
  /\ smtp[c].pc = "ready" /\ smtp[c].user # Nobody /\ ~smtp[c].from
  /\ smtp'    = [smtp EXCEPT ![c].from = TRUE]
  /\ answer'  = [answer EXCEPT ![c] = "none"]
  /\ copied'  = [copied EXCEPT ![c] = {}]
  /\ dropped' = [dropped EXCEPT ![c] = {}]
  /\ given'   = [given EXCEPT ![c] = {}]
  /\ UNCHANGED mvars

(* RCPT: 550 for an unknown local address, 451 without an INBOX.  A remote  *)
(* address is Nobody in box 0.                                              *)
Rcpt(c) ==
  /\ smtp[c].pc = "ready" /\ smtp[c].from /\ Len(smtp[c].rcpts) < MaxRcpts
  /\ \E rc \in [user : users, box : DOMAIN boxes] \cup {[user |-> Nobody, box |-> 0]} :
       /\ rc.user # Nobody => rc.box \in FolderByName(rc.user, "INBOX")
       /\ smtp'  = [smtp EXCEPT ![c].rcpts = Append(@, rc)]
       /\ given' = [given EXCEPT ![c] = @ \cup {rc.user}]
  /\ UNCHANGED << mvars, copied, dropped, answer >>

(* Reset: RSET, and the library after every DATA.                           *)
ForgottenFaulty(s) == [s EXCEPT !.from = FALSE]
Forgotten(s)       == [s EXCEPT !.from = FALSE, !.rcpts = << >>]

Reset(c) ==
  /\ smtp[c].pc = "ready" /\ smtp[c].from
  /\ smtp'  = [smtp EXCEPT ![c] = Forgotten(@)]
  /\ given' = [given EXCEPT ![c] = {}]
  /\ UNCHANGED << mvars, copied, dropped, answer >>

Data(c) ==
  /\ smtp[c].pc = "ready" /\ smtp[c].from /\ given[c] # {}
  /\ smtp' = [smtp EXCEPT ![c].pc = "data", ![c].anyOK = FALSE,
                          ![c].todo = {k \in DOMAIN smtp[c].rcpts : smtp[c].rcpts[k].box # 0}]
  /\ UNCHANGED << mvars, given, copied, dropped, answer >>

(* One local recipient after the other, in the order they were given.  A    *)
(* delivery that fails is logged and the next recipient taken: one into an  *)
(* INBOX that is gone does, and any may, for the disk or the database.      *)
Current(c) == Min(smtp[c].todo)
DeliverLocal(c) ==
  /\ smtp[c].pc = "data" /\ smtp[c].todo # {}
  /\ LET rc == smtp[c].rcpts[Current(c)] IN
     \/ /\ Exists(rc.user, rc.box) /\ Room /\ boxes[rc.box].next <= MaxUid
        /\ \E date \in Date : Deliver(rc.user, rc.box, date, {})
        /\ smtp'   = [smtp EXCEPT ![c].pc = "filter", ![c].fresh = nextRow, ![c].anyOK = TRUE]
        /\ copied' = [copied EXCEPT ![c] = @ \cup {rc.user}]
        /\ UNCHANGED dropped
     \/ /\ smtp' = [smtp EXCEPT ![c].todo = @ \ {Current(c)}]
        /\ dropped' = [dropped EXCEPT ![c] = IF Exists(rc.user, rc.box) THEN @ \cup {rc.user} ELSE @]
        /\ UNCHANGED << rows, boxes, nextRow, copied >>
  /\ UNCHANGED << users, nextBox, asked, given, answer >>

(* Apply: at most one rule, the first enabled one that matches, acts; which *)
(* one is left open.  The message may be gone or elsewhere by now: other    *)
(* connections see it since its delivery.  move_account is in MailStore.    *)
ApplyRule(u, m) ==
  \/ UNCHANGED << rows, boxes, nextBox, nextRow, asked >>
  \/ /\ SetFlags(u, {m}, "add", {"Seen"})             \* markread, star
     /\ UNCHANGED << boxes, nextBox, nextRow, asked >>
  \/ /\ MoveToFolderName(u, m, "Trash")               \* move, trash
     /\ UNCHANGED << nextRow, asked >>
  \/ /\ DeleteMessages(u, {m})                        \* discard
     /\ asked' = asked \cup {m}
     /\ UNCHANGED << boxes, nextBox, nextRow >>

Filter(c) ==
  /\ smtp[c].pc = "filter"
  /\ ApplyRule(smtp[c].rcpts[Current(c)].user, smtp[c].fresh)
  /\ smtp' = [smtp EXCEPT ![c].pc = "data", ![c].todo = @ \ {Current(c)}, ![c].fresh = 0]
  /\ UNCHANGED << users, given, copied, dropped, answer >>

(* After the local recipients the remote ones, all in one queue item; the   *)
(* Enqueue may fail.  With nobody served the answer is 451.                 *)
RemoteOK(s, ok) == s.anyOK \/ ok

Queue(c) ==
  /\ smtp[c].pc = "data" /\ smtp[c].todo = {}
  /\ \E ok \in BOOLEAN :
       /\ ok => \E k \in DOMAIN smtp[c].rcpts : smtp[c].rcpts[k].box = 0
       /\ copied' = [copied EXCEPT ![c] = IF ok THEN @ \cup {Nobody} ELSE @]
       /\ IF RemoteOK(smtp[c], ok)
          THEN /\ smtp' = [smtp EXCEPT ![c].pc = "sent"]
               /\ UNCHANGED << given, answer >>
          ELSE /\ smtp'   = [smtp EXCEPT ![c] = [Forgotten(@) EXCEPT !.pc = "ready"]]
               /\ answer' = [answer EXCEPT ![c] = "451"]
               /\ UNCHANGED given
  /\ UNCHANGED << mvars, dropped >>

(* The Sent copy; without the folder there is none, and when it fails that  *)
(* is logged only.                                                          *)
SentCopy(c) ==
  /\ smtp[c].pc = "sent"
  /\ \/ /\ Room
        /\ \E f \in FolderByName(smtp[c].user, "Sent"), date \in Date :
             boxes[f].next <= MaxUid /\ Deliver(smtp[c].user, f, date, {})
     \/ UNCHANGED << rows, boxes, nextRow >>
  /\ smtp'   = [smtp EXCEPT ![c] = [Forgotten(@) EXCEPT !.pc = "ready"]]
  /\ answer' = [answer EXCEPT ![c] = "250"]
  /\ UNCHANGED << users, nextBox, asked, given, copied, dropped >>

SmtpStep(c) ==
  \/ Auth(c)
  \/ Mail(c)
  \/ Rcpt(c)
  \/ Reset(c)
  \/ Data(c)
  \/ DeliverLocal(c)
  \/ Filter(c)
  \/ Queue(c)
  \/ SentCopy(c)
-----------------------------------------------------------------------------

(* What DATA answers: the message went to nobody the client did not name in *)
(* this transaction; after 250 somebody got it, and every local recipient   *)
(* did unless its account was deleted since RCPT or the store failed just   *)
(* this delivery (dropped); after 451 nobody did, so the client may try     *)
(* again without doubles.  (A 250 does not say that the remote recipients   *)
(* were queued.)                                                            *)
SmtpAnswerHolds ==
  \A c \in Conn :
     /\ copied[c] \subseteq given[c]
     /\ answer[c] = "250" =>
          copied[c] # {} /\ ((given[c] \ (copied[c] \cup dropped[c])) \ {Nobody}) \cap users = {}
     /\ answer[c] = "451" => copied[c] = {}
=============================================================================

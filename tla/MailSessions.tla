---------------------------- MODULE MailSessions ---------------------------
(***************************************************************************)
(* Connections of all kinds on the same mailboxes: IMAP, POP3 and SMTP     *)
(* sessions and webmail requests interleave call by call, mail arrives,    *)
(* and accounts are deleted under them.                                    *)
(***************************************************************************)
EXTENDS ImapSession, Pop3Session, SmtpSession, WebMail

CONSTANTS
  Scenario,      \* [proto, users, left, names]: what each connection speaks, which
                 \* accounts exist, the system folders they have, and how many
                 \* commands each connection gives (bounds of the model)
  Names          \* folder names IMAP clients create and rename to

(* There are finitely many accounts, and each has the system folders.       *)
ASSUME SessionsAssumption ==
  \A s \in Scenario : /\ s.users \subseteq User /\ IsFiniteSet(s.users)
                      /\ IsFiniteSet(s.names) /\ "INBOX" \in s.names

VARIABLE left    \* commands the connections may still give

vars == << mvars, proto, ivars, pop, svars, wvars, left >>

(* The folders accounts are created with.                                   *)
FirstBoxes(us, names) == SetToSeq([user : us, name : names, next : {1}])

TypeOK ==
  /\ users \subseteq User
  /\ DOMAIN boxes \subseteq 1 .. nextBox - 1
  /\ \A f \in DOMAIN boxes : boxes[f].user \in User /\ boxes[f].next \in 1 .. MaxUid + 1
  /\ DOMAIN rows \subseteq 1 .. nextRow - 1
  /\ \A m \in DOMAIN rows : /\ rows[m].box \in DOMAIN boxes
                            /\ rows[m].user = boxes[rows[m].box].user
                            /\ rows[m].uid < boxes[rows[m].box].next
                            /\ rows[m].flags \subseteq Flag \cup {"Seen"}
  /\ asked \cup revived \subseteq 1 .. nextRow - 1

Init ==
  /\ \E s \in Scenario : /\ proto = s.proto /\ users = s.users /\ left = s.left
                           /\ boxes = FirstBoxes(s.users, s.names)
  /\ nextBox = Len(boxes) + 1
  /\ rows = << >> /\ nextRow = 1
  /\ asked = {} /\ revived = {}
  /\ imap   = [c \in Conn |-> NoImap]
  /\ client = [c \in Conn |-> NoClient]
  /\ pop    = [c \in Conn |-> NoPop]
  /\ smtp   = [c \in Conn |-> NoSmtp]
  /\ given  = [c \in Conn |-> {}] /\ copied = given /\ dropped = given
  /\ answer = [c \in Conn |-> "none"]
  /\ web    = [c \in Conn |-> NoWeb]
  /\ reached = [c \in Conn |-> {}] /\ missed = reached

others == << ivars, pop, svars, wvars, proto, left >>

(* Mail from elsewhere: the fetcher.                                        *)
Arrive ==
  /\ Room
  /\ \E u \in users, date \in Date : \E f \in FolderByName(u, "INBOX") :
       boxes[f].next <= MaxUid /\ Deliver(u, f, date, {})
  /\ UNCHANGED << users, nextBox, asked, others >>

(* The administrator deletes an account; its sessions go on.               *)
AccountDeleted ==
  /\ \E u \in users : DeleteAccount(u)
  /\ UNCHANGED << nextBox, nextRow, others >>

(* A connection gives its next command, or the server goes on with the one  *)
(* it has.                                                                  *)
AtRest(c) ==
  CASE proto[c] = "imap" -> imap[c].pc = "ready"
    [] proto[c] = "pop3" -> pop[c].pc = "auth"
    [] proto[c] = "smtp" -> smtp[c].pc = "ready"
    [] proto[c] = "web"  -> web[c].pc = "idle"
Turn(c) ==
  /\ AtRest(c) => left[c] > 0
  /\ left' = IF AtRest(c) THEN [left EXCEPT ![c] = @ - 1] ELSE left
  /\ UNCHANGED proto

Imap(c) == proto[c] = "imap" /\ Turn(c) /\ ImapStep(c, Names) /\ UNCHANGED << pop, svars, wvars >>
Pop3(c) == proto[c] = "pop3" /\ Turn(c) /\ Pop3Step(c) /\ UNCHANGED << ivars, svars, wvars >>
Smtp(c) == proto[c] = "smtp" /\ Turn(c) /\ SmtpStep(c) /\ UNCHANGED << ivars, pop, wvars >>
Web(c)  == proto[c] = "web"  /\ Turn(c) /\ WebStep(c)  /\ UNCHANGED << ivars, pop, svars >>

Next ==
  \/ Arrive
  \/ AccountDeleted
  \/ \E c \in Conn : Imap(c) \/ Pop3(c) \/ Smtp(c) \/ Web(c)

Spec == Init /\ [][Next]_vars
-----------------------------------------------------------------------------

(* A message disappears only when somebody asked for it and nobody took it  *)
(* back: flagged it \Deleted, moved it, discarded it by a rule, deleted it  *)
(* by POP3, or deleted its folder or account.  The one exception the code   *)
(* has: an IMAP session that acts on an old copy of the flags (revived).    *)
LostOnlyIfAsked ==
  [][DOMAIN rows \ DOMAIN rows' \subseteq asked \cup asked' \cup revived]_vars
=============================================================================

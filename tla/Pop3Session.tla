---------------------------- MODULE Pop3Session ----------------------------
(***************************************************************************)
(* The POP3 server, internal/pop3d.  PASS copies the newest page of INBOX, *)
(* without what is flagged \Deleted, into the connection; DELE marks in    *)
(* the copy; QUIT flags the marked messages one after the other and        *)
(* expunges INBOX.  STAT, LIST, UIDL, RETR and TOP read the copy.          *)
(***************************************************************************)
EXTENDS Mailbox

VARIABLES
  pop         \* Conn -> the state of the connection

NoPop == [pc |-> "auth", last |-> Nobody, user |-> Nobody, msgs |-> << >>,
          dirty |-> FALSE, box |-> 0, todo |-> {}, wanted |-> {}]

(* parseIdx: the numbers a command may name.                                *)
Numbers(c) == {k \in DOMAIN pop[c].msgs : ~pop[c].msgs[k].deleted}

(* USER forgets the account, not the copy of its mailbox.                   *)
UserCmd(c) ==
  /\ pop[c].pc = "auth"
  /\ \E u \in User : pop' = [pop EXCEPT ![c].user = Nobody, ![c].last = u]
  /\ UNCHANGED mvars

(* PASS: VerifyLocalLogin, then loadMailbox.                                *)
Pass(c) ==
  /\ pop[c].pc = "auth" /\ pop[c].last \in users
  /\ pop' = [pop EXCEPT ![c].user = pop[c].last, ![c].pc = "load"]
  /\ UNCHANGED mvars

(* loadMailbox: without INBOX the old copy stays, and the session is open   *)
(* all the same.                                                            *)
LoadLimit == 10000
LoadMailbox(c) ==
  /\ pop[c].pc = "load"
  /\ \/ /\ FolderByName(pop[c].user, "INBOX") = {}
        /\ pop' = [pop EXCEPT ![c].pc = "auth"]
     \/ \E f \in FolderByName(pop[c].user, "INBOX") : \E page \in Pages(f, LoadLimit, FALSE) :
          pop' = [pop EXCEPT ![c].pc = "auth", ![c].wanted = {},
                    ![c].msgs = [k \in DOMAIN page |-> [id |-> page[k], deleted |-> FALSE]]]
  /\ UNCHANGED mvars

Dele(c) ==
  /\ pop[c].pc = "auth" /\ pop[c].user # Nobody
  /\ \E k \in Numbers(c) :
       pop' = [pop EXCEPT ![c].msgs[k].deleted = TRUE, ![c].dirty = TRUE,
                          ![c].wanted = @ \cup {pop[c].msgs[k].id}]
  /\ UNCHANGED mvars

Restored(msgs) == [k \in DOMAIN msgs |-> [msgs[k] EXCEPT !.deleted = FALSE]]

Rset(c) ==
  /\ pop[c].pc = "auth" /\ pop[c].dirty
  /\ pop' = [pop EXCEPT ![c].msgs = Restored(@), ![c].dirty = FALSE, ![c].wanted = {}]
  /\ UNCHANGED mvars

(* QUIT of a session with deletions looks INBOX up first.  The client's     *)
(* request counts from here: without QUIT nothing is deleted.               *)
Quit(c) ==
  /\ pop[c].pc = "auth"
  /\ IF /\ pop[c].user # Nobody /\ pop[c].dirty
        /\ FolderByName(pop[c].user, "INBOX") # {}
     THEN \E f \in FolderByName(pop[c].user, "INBOX") :
            pop' = [pop EXCEPT ![c].pc = "quit", ![c].box = f,
                      ![c].todo = DOMAIN pop[c].msgs \ Numbers(c)]
     ELSE pop' = [pop EXCEPT ![c] = NoPop]
  /\ UNCHANGED mvars

FlagMarked(c) ==
  /\ pop[c].pc = "quit" /\ pop[c].todo # {}
  /\ LET id == pop[c].msgs[Min(pop[c].todo)].id
     IN /\ SetFlags(pop[c].user, {id}, "add", {"Deleted"})
        /\ asked' = asked \cup (Mine(pop[c].user, {id}) \cap pop[c].wanted)
  /\ pop' = [pop EXCEPT ![c].todo = @ \ {Min(@)}]
  /\ UNCHANGED << users, boxes, nextBox, nextRow >>

ExpungeInbox(c) ==
  /\ pop[c].pc = "quit" /\ pop[c].todo = {}
  /\ ExpungeFolder(pop[c].box)
  /\ pop' = [pop EXCEPT ![c] = NoPop]
  /\ UNCHANGED << users, boxes, nextBox, nextRow, asked >>

(* The connection breaks, or the ten minutes are over: nothing is deleted.  *)
HangUp(c) ==
  /\ pop[c].pc = "auth" /\ pop[c].last # Nobody
  /\ pop' = [pop EXCEPT ![c] = NoPop]
  /\ UNCHANGED mvars

Pop3Step(c) ==
  \/ UserCmd(c)
  \/ Pass(c)
  \/ LoadMailbox(c)
  \/ Dele(c)
  \/ Rset(c)
  \/ Quit(c)
  \/ FlagMarked(c)
  \/ ExpungeInbox(c)
  \/ HangUp(c)
=============================================================================

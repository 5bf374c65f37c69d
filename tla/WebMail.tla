------------------------------ MODULE WebMail ------------------------------
(***************************************************************************)
(* Webmail, internal/web: the requests of the page, where the router sends *)
(* them, and the handlers that make several calls of the store.            *)
(***************************************************************************)
EXTENDS Mailbox

VARIABLES
  web,        \* Conn -> the request being handled
  reached,    \* history: whom the message being composed has reached; Nobody stands for the queue
  missed      \* history: its recipients with an INBOX whom the store failed

wvars == << web, reached, missed >>

NoWeb == [pc |-> "idle", user |-> Nobody, to |-> {}, todo |-> {}, remote |-> FALSE,
          ids |-> {}, reply |-> "none"]

(* What the page asks for after /api/mail/folders/, as handleMail splits    *)
(* it: "id" stands for a number.                                            *)
UiRequest ==
  {[method |-> "GET",  segs |-> << "id", "messages" >>],
   [method |-> "POST", segs |-> << "id", "messages" >>],
   [method |-> "GET",  segs |-> << "id", "messages", "id" >>],
   [method |-> "GET",  segs |-> << "id", "messages", "id", "raw" >>],
   [method |-> "GET",  segs |-> << "id", "messages", "id", "attachments", "id" >>],
   [method |-> "POST", segs |-> << "id", "readall" >>]} \cup
  {[method |-> "POST", segs |-> << "id", "messages", "id", action >>] :
      action \in {"flags", "move", "delete"}}

(* handleMail: the cases of the switch, in order.                           *)
Handler(r) ==
  LET n == Len(r.segs) IN
  CASE n = 1 /\ r.method = "GET"                                          -> "list"
    [] n = 2 /\ r.segs[2] = "messages" /\ r.method = "GET"                -> "list"
    [] n = 2 /\ r.segs[2] = "messages" /\ r.method = "POST"               -> "search"
    [] n = 5 /\ r.segs[2] = "messages" /\ r.segs[4] \in {"attachments", "cid"} -> "part"
    [] n = 4 /\ r.segs[2] = "messages" /\ r.segs[4] = "raw"               -> "raw"
    [] n = 3 /\ r.segs[2] = "messages"                                    -> "message"
    [] n = 2 /\ r.segs[2] = "expunge" /\ r.method = "POST"                -> "expunge"
    [] n = 2 /\ r.segs[2] = "readall" /\ r.method = "POST"                -> "readall"
    [] OTHER                                                              -> "not found"

Mailboxes(u) == {f \in DOMAIN boxes : boxes[f].user = u}
Idle(c)      == web[c].pc = "idle"
Reply(c, r)  == web' = [web EXCEPT ![c] = [NoWeb EXCEPT !.reply = r]]
Routed(c, h) == Idle(c) /\ \E r \in UiRequest : Handler(r) = h

(* list, search, raw and part only read; what the switch does not know is   *)
(* answered 404.                                                            *)
ReadOnly(c) ==
  /\ \E h \in {"list", "search", "raw", "part"} : Routed(c, h)
  /\ Reply(c, "ok")
  /\ UNCHANGED << mvars, reached, missed >>

NotFound(c) ==
  /\ Routed(c, "not found")
  /\ Reply(c, "not found")
  /\ UNCHANGED << mvars, reached, missed >>

(* mailMessage without an action: MarkSeen after the message was read.      *)
Message(c) ==
  /\ Routed(c, "message")
  /\ \E u \in users : \E m \in OfUser(u) : SetFlags(u, {m}, "add", {"Seen"})
  /\ Reply(c, "ok")
  /\ UNCHANGED << users, boxes, nextBox, nextRow, asked, reached, missed >>

(* mailReadAll: the unseen messages of the newest page are looked up, then  *)
(* flagged.                                                                 *)
ReadAllLimit == 100000
ReadAll(c) ==
  /\ Routed(c, "readall")
  /\ \E u \in users : \E f \in Mailboxes(u) : \E page \in Pages(f, ReadAllLimit, FALSE) :
       web' = [web EXCEPT ![c] = [NoWeb EXCEPT !.pc = "readall", !.user = u,
                 !.ids = {m \in Range(page) : "Seen" \notin rows[m].flags}]]
  /\ UNCHANGED << mvars, reached, missed >>

MarkAll(c) ==
  /\ web[c].pc = "readall"
  /\ SetFlags(web[c].user, web[c].ids, "add", {"Seen"})
  /\ Reply(c, "ok")
  /\ UNCHANGED << users, boxes, nextBox, nextRow, asked, reached, missed >>

(* The expunge handler; the page does not use it, other clients may.        *)
ExpungeRequest(c) ==
  /\ Idle(c)
  /\ Handler([method |-> "POST", segs |-> << "id", "expunge" >>]) = "expunge"
  /\ \E u \in users : \E f \in Mailboxes(u) : ExpungeFolder(f)
  /\ Reply(c, "ok")
  /\ UNCHANGED << users, boxes, nextBox, nextRow, asked, reached, missed >>

(* deliverBuilt: who has no account here is remote, a local account deleted *)
(* before included, and so is one whose lookup fails.  Then one local       *)
(* recipient after the other, in the order the client chose, is looked up   *)
(* again and gets a copy; when the lookup or the delivery fails, the next   *)
(* one is taken.                                                            *)
Compose(c) ==
  /\ Idle(c)
  /\ \E u \in users, to \in (SUBSET (User \cup {Nobody})) \ {{}} :
     \E local \in SUBSET (to \cap users) :
       /\ web' = [web EXCEPT ![c] =
            [NoWeb EXCEPT !.pc = "compose", !.user = u, !.to = to,
                          !.todo = local, !.remote = to \ local # {}]]
       /\ missed' = [missed EXCEPT ![c] = (to \cap users) \ local]
  /\ reached' = [reached EXCEPT ![c] = {}]
  /\ UNCHANGED mvars

SkippedFaulty(todo, u) == {}
Skipped(todo, u)       == todo \ {u}

ComposeDeliver(c) ==
  /\ web[c].pc = "compose"
  /\ \E u \in web[c].todo :
     \/ /\ Room
        /\ \E f \in FolderByName(u, "INBOX"), date \in Date :
             boxes[f].next <= MaxUid /\ Deliver(u, f, date, {})
        /\ web' = [web EXCEPT ![c].todo = @ \ {u}]
        /\ reached' = [reached EXCEPT ![c] = @ \cup {u}]
        /\ UNCHANGED missed
     \/ /\ web' = [web EXCEPT ![c].todo = Skipped(@, u)]
        /\ missed' = [missed EXCEPT ![c] = IF FolderByName(u, "INBOX") # {} THEN @ \cup {u} ELSE @]
        /\ UNCHANGED << rows, boxes, nextRow, reached >>
  /\ UNCHANGED << users, nextBox, asked >>

(* The Sent copy comes before the Enqueue of the remote recipients; nobody  *)
(* hears of its failure.                                                    *)
ComposeSent(c) ==
  /\ web[c].pc = "compose" /\ web[c].todo = {}
  /\ \/ /\ Room
        /\ \E f \in FolderByName(web[c].user, "Sent"), date \in Date :
             boxes[f].next <= MaxUid /\ Deliver(web[c].user, f, date, {})
     \/ UNCHANGED << rows, boxes, nextRow >>
  /\ web' = [web EXCEPT ![c].pc = "enqueue"]
  /\ UNCHANGED << users, nextBox, asked, reached, missed >>

ComposeEnqueue(c) ==
  /\ web[c].pc = "enqueue"
  /\ \E ok \in BOOLEAN :
       /\ web[c].remote \/ ok
       /\ web' = [web EXCEPT ![c].pc = "idle", ![c].reply = IF ok THEN "sent" ELSE "error"]
       /\ reached' = [reached EXCEPT ![c] = IF ok /\ web[c].remote THEN @ \cup {Nobody} ELSE @]
  /\ UNCHANGED << mvars, missed >>

WebStep(c) ==
  \/ ReadOnly(c)
  \/ NotFound(c)
  \/ Message(c)
  \/ ReadAll(c)
  \/ MarkAll(c)
  \/ ExpungeRequest(c)
  \/ Compose(c)
  \/ ComposeDeliver(c)
  \/ ComposeSent(c)
  \/ ComposeEnqueue(c)
-----------------------------------------------------------------------------

(* A message webmail reports as sent was delivered to each local recipient, *)
(* those excepted whose account was deleted while it was sent or for whom   *)
(* just this lookup or delivery failed (missed), and queued when a          *)
(* recipient was remote or was not found at first.                          *)
ComposeAnswerHolds ==
  \A c \in Conn : web[c].reply = "sent" =>
     /\ (web[c].to \ (reached[c] \cup missed[c])) \cap users = {}
     /\ web[c].remote \/ Nobody \in web[c].to => Nobody \in reached[c]
=============================================================================

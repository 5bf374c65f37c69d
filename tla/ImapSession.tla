---------------------------- MODULE ImapSession ----------------------------
(***************************************************************************)
(* The IMAP server, internal/imapd.  SELECT copies a page of the folder    *)
(* into the session; every later command of the session works on that      *)
(* copy, on its ids, uids and flags, and what other connections do to the  *)
(* folder is not noticed until the next SELECT (Poll reports nothing).     *)
(* The client has its own copy: it knows the mailbox from EXISTS and       *)
(* EXPUNGE only, and counts along as RFC 3501 tells it to.                 *)
(***************************************************************************)
EXTENDS Mailbox

VARIABLES
  proto,      \* what each connection speaks
  imap,       \* Conn -> the session of the server
  client,     \* Conn -> the messages the client counts, and whether it was misled
  revived     \* history: ids that got \Deleted only from an old copy of the flags

ivars == << imap, client, revived >>

NoImap   == [pc |-> "ready", user |-> Nobody, box |-> 0, list |-> << >>, todo |-> {},
             mode |-> "add", flags |-> {}, dest |-> 0, moved |-> {}, kept |-> {}]
NoClient == [view |-> << >>, misled |-> FALSE]

Ready(c)     == proto[c] = "imap" /\ imap[c].pc = "ready" /\ imap[c].user # Nobody
Selected(c)  == Ready(c) /\ imap[c].box # 0
Positions(c) == DOMAIN imap[c].list
IdsAt(c, ks) == {imap[c].list[k].id : k \in ks}
Ids(list)    == [k \in DOMAIN list |-> list[k].id]

(* What stays of a sequence, in its order, when the positions ks go.        *)
Before(ks, k) == {j \in ks : j < k}
Leave(s, ks) ==
  LET stay == DOMAIN s \ ks
  IN [i \in 1 .. Cardinality(stay) |->
        s[CHOOSE k \in stay : Cardinality(Before(stay, k)) = i - 1]]

(* The client hears EXPUNGE n for every n of ks, lowest first, and counts   *)
(* along: each makes the numbers of those behind it one less.               *)
Heard(view, ks) == Leave(view, {k + Cardinality(Before(ks, k)) : k \in ks})

(* What remains of the session's copy when the messages ids are reported.   *)
KeptFaulty(list, ids) == list
Kept(list, ids)       == Leave(list, {k \in DOMAIN list : list[k].id \in ids})

Login(c, u) ==
  /\ proto[c] = "imap" /\ imap[c].user = Nobody /\ u \in users
  /\ imap' = [imap EXCEPT ![c].user = u]
  /\ UNCHANGED << mvars, client, revived >>

Logout(c) ==
  /\ Ready(c)
  /\ imap'   = [imap EXCEPT ![c] = NoImap]
  /\ client' = [client EXCEPT ![c] = NoClient]
  /\ UNCHANGED << mvars, revived >>

(* ListMessages gives the newest first; the copy has them the other way.    *)
CopyOf(page) == [k \in DOMAIN page |-> LET m == Reverse(page)[k]
                                       IN [id |-> m, uid |-> rows[m].uid, flags |-> rows[m].flags]]
SelectLimit == 100000
Opened(s, f, list) == [s EXCEPT !.box = f, !.list = list]

Select(c) ==
  /\ Ready(c)
  /\ \E f \in DOMAIN boxes : \E page \in Pages(f, SelectLimit, TRUE) :
       /\ boxes[f].user = imap[c].user
       /\ imap'   = [imap EXCEPT ![c] = Opened(@, f, CopyOf(page))]
       /\ client' = [client EXCEPT ![c] = [view |-> Ids(CopyOf(page)), misled |-> FALSE]]
  /\ UNCHANGED << mvars, revived >>

(* UNSELECT; the library also unselects before a SELECT that then fails.    *)
Unselect(c) ==
  /\ Selected(c)
  /\ imap'   = [imap EXCEPT ![c] = Opened(@, 0, << >>)]
  /\ client' = [client EXCEPT ![c] = NoClient]
  /\ UNCHANGED << mvars, revived >>

Create(c, name) ==
  /\ Ready(c)
  /\ EnsureFolder(imap[c].user, name)
  /\ UNCHANGED << users, rows, nextRow, asked, ivars >>

Delete(c) ==
  /\ Ready(c)
  /\ \E f \in DOMAIN boxes :
       /\ boxes[f].user = imap[c].user /\ boxes[f].name # "INBOX"
       /\ DeleteFolder(f)
  /\ UNCHANGED << users, nextBox, nextRow, ivars >>

(* RENAME: the UPDATE spares INBOX, and the name must be free.              *)
Rename(c, name) ==
  /\ Ready(c)
  /\ \E f \in DOMAIN boxes :
       /\ boxes[f].user = imap[c].user /\ boxes[f].name # "INBOX" /\ name # "INBOX"
       /\ FolderByName(imap[c].user, name) = {}
       /\ boxes' = [boxes EXCEPT ![f].name = name]
  /\ UNCHANGED << users, nextBox, rows, nextRow, asked, ivars >>

(* APPEND puts the message at the end of the copy, without its flags, when  *)
(* its folder is selected.  The client is told no EXISTS.                   *)
WithAppended(list, entry) == Append(list, entry)

AppendMessage(c) ==
  /\ Ready(c) /\ Room
  /\ \E f \in DOMAIN boxes, date \in Date, fl \in SUBSET Flag :
       /\ boxes[f].user = imap[c].user /\ Exists(imap[c].user, f) /\ boxes[f].next <= MaxUid
       /\ Deliver(imap[c].user, f, date, fl)
       /\ asked' = IF "Deleted" \in fl THEN asked \cup {nextRow} ELSE asked
       /\ imap'  = IF f = imap[c].box
                   THEN [imap EXCEPT ![c].list = WithAppended(@,
                           [id |-> nextRow, uid |-> boxes[f].next, flags |-> {}])]
                   ELSE imap
  /\ UNCHANGED << users, nextBox, client, revived >>

(* A command on messages of the copy, by number or by uid, takes them one   *)
(* by one in ascending order.                                               *)
Begin(c, pc, ks) == imap' = [imap EXCEPT ![c].pc = pc, ![c].todo = ks]
At(c, pc)   == proto[c] = "imap" /\ imap[c].pc = pc
This(c)     == Min(imap[c].todo)
Entry(c)    == imap[c].list[This(c)]
Done(s)     == [s EXCEPT !.pc = "ready", !.todo = {}, !.mode = "add", !.flags = {},
                         !.dest = 0, !.moved = {}, !.kept = {}]
Reflagged(s, k, fl) == [s EXCEPT !.list[k].flags = fl]
Rest(s)     == s.todo \ {Min(s.todo)}
OneDone(s)  == IF Rest(s) = {} THEN Done(s) ELSE [s EXCEPT !.todo = Rest(s)]

StartFetch(c) ==
  /\ Selected(c)
  /\ \E ks \in (SUBSET Positions(c)) \ {{}} : Begin(c, "fetch", ks)
  /\ UNCHANGED << mvars, client, revived >>

(* FETCH of a body that does not peek: a message that is gone comes empty,  *)
(* and \Seen is set in the table and in the copy.                           *)
FetchOne(c) ==
  /\ At(c, "fetch")
  /\ SetFlags(imap[c].user, {Entry(c).id}, "add", {"Seen"})
  /\ imap' = [imap EXCEPT ![c] =
                OneDone(Reflagged(@, This(c), Entry(c).flags \cup {"Seen"}))]
  /\ UNCHANGED << users, boxes, nextBox, nextRow, asked, client, revived >>

StartStore(c) ==
  /\ Selected(c)
  /\ \E ks \in (SUBSET Positions(c)) \ {{}}, mode \in {"set", "add", "remove"}, fl \in SUBSET Flag :
       imap' = [imap EXCEPT ![c].pc = "store", ![c].todo = ks,
                            ![c].mode = mode, ![c].flags = fl]
  /\ UNCHANGED << mvars, client, revived >>

(* STORE sets the flags of a message, then reads them back into the copy;   *)
(* when the message is gone it gives up.                                    *)
StoreOne(c) ==
  /\ At(c, "store")
  /\ LET s == imap[c]
     IN /\ SetFlags(s.user, {Entry(c).id}, s.mode, s.flags)
        /\ asked' = AskedAfter(Mine(s.user, {Entry(c).id}), s.mode, s.flags)
  /\ imap' = [imap EXCEPT ![c].pc = "read back"]
  /\ UNCHANGED << users, boxes, nextBox, nextRow, client, revived >>

ReadBack(c) ==
  /\ At(c, "read back")
  /\ LET s  == imap[c]
         id == Entry(c).id
     IN imap' = [imap EXCEPT ![c] =
          IF id \in Mine(s.user, {id})
          THEN OneDone(Reflagged([s EXCEPT !.pc = "store"], This(c), rows[id].flags))
          ELSE Done(s)]
  /\ UNCHANGED << mvars, client, revived >>

(* COPY and MOVE: the target is looked up by name first.                    *)
StartTransfer(c, pc) ==
  /\ Selected(c)
  /\ \E ks \in (SUBSET Positions(c)) \ {{}}, f \in DOMAIN boxes :
       /\ boxes[f].user = imap[c].user
       /\ imap' = [imap EXCEPT ![c].pc = pc, ![c].todo = ks, ![c].dest = f]
  /\ UNCHANGED << mvars, client, revived >>

(* One message is read and delivered into the target, with the flags of the *)
(* copy; when it or the target is gone the next one is taken.               *)
Transferable(c) ==
  /\ Entry(c).id \in Mine(imap[c].user, {Entry(c).id})
  /\ Exists(imap[c].user, imap[c].dest)
CopyRow(c) ==
  IF Transferable(c)
  THEN /\ Room /\ boxes[imap[c].dest].next <= MaxUid
       /\ Deliver(imap[c].user, imap[c].dest, rows[Entry(c).id].date, Entry(c).flags)
       /\ LET copy == IF "Deleted" \in Entry(c).flags THEN {nextRow} ELSE {}
              \* somebody may have taken the flag back that the copy repeats
              mine == "Deleted" \in rows[Entry(c).id].flags
          IN /\ asked'   = asked \cup (IF mine THEN copy ELSE {})
             /\ revived' = revived \cup (IF mine THEN {} ELSE copy)
  ELSE UNCHANGED << rows, boxes, nextRow, asked, revived >>

CopyOne(c) ==
  /\ At(c, "copy")
  /\ CopyRow(c)
  /\ imap' = [imap EXCEPT ![c] = OneDone(@)]
  /\ UNCHANGED << users, nextBox, client >>

(* After the last message of a MOVE those that were copied are deleted;     *)
(* kept is history: the messages that live on as a copy.                    *)
Moved(c) == IF Transferable(c) THEN imap[c].moved \cup {Entry(c).id} ELSE imap[c].moved

Noted(c) == [imap[c] EXCEPT !.moved = Moved(c),
                            !.kept = IF Transferable(c) THEN @ \cup {Entry(c).id} ELSE @]

MoveOne(c) ==
  /\ At(c, "move")
  /\ CopyRow(c)
  /\ LET s == Noted(c) IN imap' = [imap EXCEPT ![c] =
       IF Rest(s) # {}      THEN [s EXCEPT !.todo = Rest(s)]
       ELSE IF s.moved # {} THEN [s EXCEPT !.pc = "delete", !.todo = {}]
       ELSE Done(s)]
  /\ UNCHANGED << users, nextBox, client >>

(* The end of EXPUNGE and MOVE: the client is told the numbers, counted     *)
(* before any of the messages went, lowest first.                           *)
NumbersOf(c, ids) == {k \in Positions(c) : imap[c].list[k].id \in ids}
Reported(s, ids) == Done([s EXCEPT !.list = Kept(@, ids)])
Report(c, ids) ==
  /\ imap'   = [imap EXCEPT ![c] = Reported(@, ids)]
  /\ client' = [client EXCEPT ![c] =
       [view   |-> Heard(@.view, NumbersOf(c, ids)),
        misled |-> @.misled \/ Cardinality(NumbersOf(c, ids)) > 1]]

DeleteMoved(c) ==
  /\ At(c, "delete")
  /\ DeleteMessages(imap[c].user, imap[c].moved)
  /\ asked' = asked \cup imap[c].kept
  /\ Report(c, imap[c].moved)
  /\ UNCHANGED << users, boxes, nextBox, nextRow, revived >>

(* EXPUNGE, or UID EXPUNGE of some: what the COPY shows as \Deleted is      *)
(* flagged so in the table, then the folder is expunged, and the messages   *)
(* of the first step are reported.                                          *)
DoomedFaulty(c, ks) == ks
Doomed(c, ks)       == {k \in ks : "Deleted" \in imap[c].list[k].flags}

StartExpunge(c) ==
  /\ Selected(c)
  /\ \E ks \in SUBSET Positions(c) :
       LET doomed == Doomed(c, ks)
           mine   == Mine(imap[c].user, IdsAt(c, doomed))
       IN /\ doomed # {}
          /\ Begin(c, "expunge", doomed)
          /\ SetFlags(imap[c].user, IdsAt(c, doomed), "add", {"Deleted"})
          /\ revived' = revived \cup {m \in mine : "Deleted" \notin rows[m].flags
                                        /\ \E k \in Positions(c) : /\ imap[c].list[k].id = m
                                                                   /\ "Deleted" \in imap[c].list[k].flags}
  /\ UNCHANGED << users, boxes, nextBox, nextRow, asked, client >>

Expunge(c) ==
  /\ At(c, "expunge")
  /\ ExpungeFolder(imap[c].box)
  /\ Report(c, IdsAt(c, imap[c].todo))
  /\ UNCHANGED << users, boxes, nextBox, nextRow, asked, revived >>

ImapStep(c, Name) ==
  \/ \E u \in User : Login(c, u)
  \/ Logout(c)
  \/ Select(c)
  \/ Unselect(c)
  \/ \E name \in Name : Create(c, name)
  \/ Delete(c)
  \/ \E name \in Name : Rename(c, name)
  \/ AppendMessage(c)
  \/ StartFetch(c)
  \/ FetchOne(c)
  \/ StartStore(c)
  \/ StoreOne(c)
  \/ ReadBack(c)
  \/ \E pc \in {"copy", "move"} : StartTransfer(c, pc)
  \/ CopyOne(c)
  \/ MoveOne(c)
  \/ DeleteMoved(c)
  \/ StartExpunge(c)
  \/ Expunge(c)
-----------------------------------------------------------------------------

(* Message numbers: until an EXPUNGE or MOVE reports two messages at once,  *)
(* the client and the session count the same messages, so a command by      *)
(* number (imapd resolves it in its copy) is about the message the client   *)
(* means, whatever other connections did to the folder.                     *)
SameNumbers ==
  \A c \in Conn : proto[c] = "imap" /\ ~client[c].misled =>
     IsPrefix(client[c].view, Ids(imap[c].list))
=============================================================================

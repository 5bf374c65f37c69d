------------------------------ MODULE Mailbox ------------------------------
(***************************************************************************)
(* The mailboxes as the servers see them: folders and message rows, and    *)
(* the calls of internal/mailstore that IMAP, POP3, SMTP, the filters and  *)
(* webmail make.  A call is one step here; what happens inside the calls,  *)
(* and the files, are the subject of MailStore.  A handler is several      *)
(* calls, and those of other connections fall between them.  A folder is   *)
(* looked up by name in one step with the call it is looked up for, except *)
(* where the handler keeps its id for later calls: COPY and MOVE, RCPT,    *)
(* POP3's QUIT.                                                            *)
(***************************************************************************)
EXTENDS Integers, Sequences, SequencesExt, FiniteSets, Functions

CONSTANTS
  Conn,          \* connections to the servers, and web clients
  User,          \* addresses of local accounts
  Nobody,
  Flag,          \* flags that matter in the model; others behave like them
  Date,          \* values of a message's Date header (sent_at)
  DefaultPage,   \* ListMessages: the page size for a limit out of 1..200 (50)
  MaxRows, MaxFolders, MaxUid   \* bounds of the model

ASSUME MailboxNobody == Nobody \notin User /\ "Deleted" \in Flag
ASSUME MailboxBounds == {DefaultPage, MaxRows, MaxFolders, MaxUid} \subseteq Nat /\ Date \subseteq Int

VARIABLES
  users,      \* addresses whose account exists
  boxes,      \* table folders: id -> [user, name, next]
  nextBox,    \* its AUTOINCREMENT
  rows,       \* table messages: id -> [user, box, uid, date, flags]
  nextRow,    \* its AUTOINCREMENT
  asked       \* history: ids whose removal somebody asked for and nobody took back

mvars == << users, boxes, nextBox, rows, nextRow, asked >>

Put(table, id, row) ==
  [i \in DOMAIN table \cup {id} |-> IF i = id THEN row ELSE table[i]]
Without(table, ids) == Restrict(table, DOMAIN table \ ids)

(* FolderByName, GetAccountByAddress.                                      *)
FolderByName(u, name) == {f \in DOMAIN boxes : boxes[f].user = u /\ boxes[f].name = name}

In(f)      == {m \in DOMAIN rows : rows[m].box = f}
Deleted(f) == {m \in In(f) : "Deleted" \in rows[m].flags}

(* Rows by id, as far as they belong to account u: every statement on       *)
(* single messages says "account_id=? AND id=?".                            *)
Mine(u, ids) == {m \in ids \cap DOMAIN rows : rows[m].user = u}

(* ListMessages(folder, 0, limit, includeDeleted): the newest page, newest  *)
(* first.  There is one, as no two messages of a folder have the same uid.  *)
PageSize(limit) == IF limit \in 1 .. 200 THEN limit ELSE DefaultPage

Newer(x, y) ==
  \/ rows[x].date > rows[y].date
  \/ rows[x].date = rows[y].date /\ rows[x].uid > rows[y].uid
Pages(f, limit, includeDeleted) ==
  LET ids == IF includeDeleted THEN In(f) ELSE In(f) \ Deleted(f)
      n   == Min({Cardinality(ids), PageSize(limit)})
  IN {p \in [1 .. n -> ids] :
        /\ \A i, j \in 1 .. n : i < j => Newer(p[i], p[j])
        /\ \A i \in 1 .. n, m \in ids \ Range(p) : Newer(p[i], m)}

(* Deliver into folder f of u: the foreign keys make it fail when either    *)
(* is gone.  MaxRows and MaxUid bound the model.                            *)
Exists(u, f)   == u \in users /\ f \in DOMAIN boxes
Room           == nextRow <= MaxRows
Deliver(u, f, date, flags) ==
  /\ rows'    = Put(rows, nextRow, [user |-> u, box |-> f, uid |-> boxes[f].next,
                                    date |-> date, flags |-> flags])
  /\ boxes'   = [boxes EXCEPT ![f].next = @ + 1]
  /\ nextRow' = nextRow + 1

(* SetFlags.  Without flags it does nothing, whatever the mode.             *)
NewFlags(old, mode, fl) ==
  CASE mode = "set"    -> IF fl = {} THEN old ELSE fl
    [] mode = "add"    -> old \cup fl
    [] mode = "remove" -> old \ fl
Flagged(table, ids, mode, fl) ==
  [m \in DOMAIN table |-> IF m \in ids THEN [table[m] EXCEPT !.flags = NewFlags(@, mode, fl)]
                                       ELSE table[m]]
SetFlags(u, ids, mode, fl) == rows' = Flagged(rows, Mine(u, ids), mode, fl)

(* What setting flags says about the removal of messages.                   *)
AskedAfter(ids, mode, fl) ==
  IF "Deleted" \in fl /\ mode # "remove"               THEN asked \cup ids
  ELSE IF "Deleted" \in fl \/ (mode = "set" /\ fl # {}) THEN asked \ ids
  ELSE asked

ExpungeFolder(f) == rows' = Without(rows, Deleted(f))
DeleteMessages(u, ids) == rows' = Without(rows, Mine(u, ids))

(* EnsureFolder: CREATE of a folder that exists does nothing.              *)
EnsureFolder(u, name) ==
  IF FolderByName(u, name) = {} /\ u \in users
  THEN /\ nextBox <= MaxFolders
       /\ boxes'   = Put(boxes, nextBox, [user |-> u, name |-> name, next |-> 1])
       /\ nextBox' = nextBox + 1
  ELSE UNCHANGED << boxes, nextBox >>

(* MoveToFolderName of one message: the folder is made if need be, and the  *)
(* message, when it is still there and not in it, gets a new uid in it.     *)
MovedInto(m, f, folders) ==
  /\ folders[f].next <= MaxUid
  /\ rows'  = [rows EXCEPT ![m].box = f, ![m].uid = folders[f].next]
  /\ boxes' = [folders EXCEPT ![f].next = @ + 1]
MoveToFolderName(u, m, name) ==
  LET found == FolderByName(u, name)
  IN \/ /\ found = {} /\ u \in users /\ nextBox <= MaxFolders
        /\ nextBox' = nextBox + 1
        /\ LET made == Put(boxes, nextBox, [user |-> u, name |-> name, next |-> 1])
           IN IF Mine(u, {m}) = {} THEN boxes' = made /\ UNCHANGED rows ELSE MovedInto(m, nextBox, made)
     \/ /\ found # {} \/ u \notin users
        /\ IF \E f \in found : m \in Mine(u, {m}) /\ rows[m].box # f
           THEN \E f \in found : MovedInto(m, f, boxes)
           ELSE UNCHANGED << rows, boxes >>
        /\ UNCHANGED nextBox

(* DeleteFolder, DeleteAccount: the rows cascade.                           *)
DeleteFolder(f) ==
  /\ boxes' = Without(boxes, {f})
  /\ rows'  = Without(rows, In(f))
  /\ asked' = asked \cup In(f)

OfUserFaulty(u) == {}
OfUser(u) == {m \in DOMAIN rows : rows[m].user = u}
DeleteAccount(u) ==
  /\ users' = users \ {u}
  /\ boxes' = Without(boxes, {f \in DOMAIN boxes : boxes[f].user = u})
  /\ rows'  = Without(rows, OfUser(u))
  /\ asked' = asked \cup OfUser(u)
=============================================================================

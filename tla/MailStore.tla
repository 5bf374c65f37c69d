---------------------------- MODULE MailStore ----------------------------
(***************************************************************************)
(* The mail store of internal/mailstore: accounts, folders and message     *)
(* rows in SQLite, raw messages as blob files on disk.                     *)
(*                                                                         *)
(* The pool holds ONE connection (db.go, SetMaxOpenConns(1)) and every     *)
(* query is read to its end before the next statement, so a statement or   *)
(* a transaction is one step; a transaction that also touches the disk     *)
(* (DeleteMessages) is two steps and holds the connection, tx, in between. *)
(* Everything else interleaves: what a goroutine read from the database    *)
(* may be stale when it acts on it, and the process may die anywhere.      *)
(*                                                                         *)
(* raw_path is drawn at random for each delivery and never updated, so a   *)
(* message row is named by its blob.  Row ids are AUTOINCREMENT and are    *)
(* never used twice.  Of the flags only \Deleted matters here.             *)
(***************************************************************************)
EXTENDS Naturals, Sequences, FiniteSets, Functions

CONSTANTS
  Worker,       \* goroutines inside a store call (connections, handlers, pollers)
  None,         \* no goroutine holds the connection
  Name,         \* folder names
  Inbox,        \* "INBOX"
  SysNames,     \* the folders every new account gets, in creation order
  MaxAccounts, MaxFolders, MaxBlobs, MaxUid, MaxCrashes   \* bounds of the model

ASSUME WorkerAssumption == None \notin Worker
ASSUME NameAssumption   == Inbox \in Name /\ SysNames \in Seq(Name) /\ SysNames # << >>
ASSUME InboxFirst       == Head(SysNames) = Inbox
ASSUME BoundAssumption  == {MaxAccounts, MaxFolders, MaxBlobs, MaxUid, MaxCrashes} \subseteq Nat

VARIABLES
  accounts,     \* ids of the live rows of table accounts
  nextAcct,     \* its AUTOINCREMENT
  folders,      \* table folders: id -> [acct, name, next]
  nextFolder,   \* its AUTOINCREMENT
  messages,     \* table messages: blob -> [acct, folder, uid, deleted]
  disk,         \* blob files that exist
  nextBlob,     \* names drawn so far
  tx,           \* the goroutine whose open transaction holds the connection
  job,          \* Worker -> what its call still has to do
  crashes,      \* bound on restarts
  issued,       \* history: every (folder, uid) a message was ever given
  origin,       \* history: whose content a blob was copied from
  condemned     \* history: blobs whose removal somebody asked for

db   == << accounts, nextAcct, folders, nextFolder, messages >>
hist == << issued, origin, condemned >>
vars == << db, disk, nextBlob, tx, job, crashes, hist >>

Acct   == 1 .. MaxAccounts
Folder == 1 .. MaxFolders
Blob   == 1 .. MaxBlobs

FolderRow  == [acct : Acct, name : Name, next : Nat]
MessageRow == [acct : Acct, folder : Folder, uid : Nat, deleted : BOOLEAN]

PC == {"idle", "insert", "read", "delete", "commit", "unlink", "rows",
       "dropFolder", "dropAccount", "lookup", "mkdir", "move"}

Job == [pc : PC, then : PC, acct : Acct \cup {0}, folder : Folder \cup {0},
        src : Blob \cup {0}, blob : Blob \cup {0}, flag : BOOLEAN,
        want : Seq(Name), files : SUBSET Blob, ids : SUBSET Blob]

NoJob == [pc |-> "idle", then |-> "idle", acct |-> 0, folder |-> 0,
          src |-> 0, blob |-> 0, flag |-> FALSE,
          want |-> << >>, files |-> {}, ids |-> {}]

At(w, label) == job[w].pc = label
Finish(w)    == job' = [job EXCEPT ![w] = NoJob]
Free         == tx = None

Put(table, id, row) ==
  [i \in DOMAIN table \cup {id} |-> IF i = id THEN row ELSE table[i]]
Without(table, ids) == Restrict(table, DOMAIN table \ ids)

(* An operator named ...Faulty is the one after it with a plausible bug: it  *)
(* is used by nothing here and shows that a property notices the bug.        *)

(* The uid a message gets in folder f, and the id of the next folder: read   *)
(* from next_uid and AUTOINCREMENT, not from the rows that are left.         *)
NextUidFaulty(f) == 1 + Cardinality({m \in DOMAIN messages : messages[m].folder = f})
NextUid(f)       == folders[f].next

ReleaseFaulty(w) == tx' = tx
Release(w)       == tx' = None

NamedFaulty(a, n) == {f \in DOMAIN folders : folders[f].name = n}
Named(a, n)   == {f \in DOMAIN folders : folders[f].acct = a /\ folders[f].name = n}
InFolders(fs) == {b \in DOMAIN messages : messages[b].folder \in fs}
Flagged(f)    == {b \in InFolders({f}) : messages[b].deleted}
OfAccount(a)  == {b \in DOMAIN messages : messages[b].acct = a}

(* ON DELETE CASCADE of messages.folder_id: off unless foreign_keys is ON.   *)
CascadeFaulty(fs) == messages
Cascade(fs)       == Without(messages, InFolders(fs))

(***************************************************************************)
(* Accounts.  The account row is inserted first, then each system folder.  *)
(***************************************************************************)
CreateAccount(w) ==
  /\ At(w, "idle") /\ Free
  /\ nextAcct <= MaxAccounts
  /\ accounts' = accounts \cup {nextAcct}
  /\ nextAcct' = nextAcct + 1
  /\ job' = [job EXCEPT ![w] = [NoJob EXCEPT !.pc = "lookup", !.acct = nextAcct,
                                             !.want = SysNames]]
  /\ UNCHANGED << folders, nextFolder, messages, disk, nextBlob, tx, crashes, hist >>

(* DeleteAccount: the paths are listed, the files removed, and only then   *)
(* is the account row deleted; its folders and messages cascade.           *)
StartDeleteAccount(w) ==
  /\ At(w, "idle") /\ Free
  /\ \E a \in accounts :
       LET doomed == OfAccount(a) IN
       /\ job' = [job EXCEPT ![w] =
            [NoJob EXCEPT !.pc    = IF doomed = {} THEN "dropAccount" ELSE "unlink",
                          !.then  = "dropAccount",
                          !.acct  = a,
                          !.files = doomed]]
       /\ condemned' = condemned \cup doomed
  /\ UNCHANGED << db, disk, nextBlob, tx, crashes, issued, origin >>

DropAccount(w) ==
  /\ At(w, "dropAccount") /\ Free
  /\ LET a    == job[w].acct
         fs   == {f \in DOMAIN folders : folders[f].acct = a}
     IN /\ accounts'  = accounts \ {a}
        /\ folders'   = Without(folders, fs)
        /\ messages'  = Restrict(Cascade(fs), DOMAIN Cascade(fs) \ OfAccount(a))
        /\ condemned' = condemned \cup OfAccount(a) \cup InFolders(fs)
  /\ Finish(w)
  /\ UNCHANGED << nextAcct, nextFolder, disk, nextBlob, tx, crashes, issued, origin >>

(***************************************************************************)
(* Folders.                                                                *)
(***************************************************************************)

(* What follows a successful EnsureFolder: the next system folder, the     *)
(* move of MoveToFolderName, or the end of the call.                       *)
Ensured(w, f) ==
  LET rest == Tail(job[w].want) IN
  job' = [job EXCEPT ![w] =
            IF rest # << >>            THEN [@ EXCEPT !.pc = "lookup", !.want = rest]
            ELSE IF @.then = "move"    THEN [@ EXCEPT !.pc = "move", !.folder = f, !.want = rest]
            ELSE NoJob]

(* IMAP CREATE, the console's "new folder", or a filter's move/trash action *)
(* on message m: EnsureFolder, then MoveMessages for the filter.            *)
StartEnsureFolder(w) ==
  /\ At(w, "idle")
  /\ \E a \in accounts, n \in Name :
       job' = [job EXCEPT ![w] = [NoJob EXCEPT !.pc = "lookup", !.acct = a, !.want = << n >>]]
  /\ UNCHANGED << db, disk, nextBlob, tx, crashes, hist >>

StartMoveToFolderName(w) ==
  /\ At(w, "idle")
  /\ \E m \in DOMAIN messages, n \in Name :
       job' = [job EXCEPT ![w] = [NoJob EXCEPT !.pc = "lookup", !.then = "move",
                                  !.acct = messages[m].acct, !.src = m, !.want = << n >>]]
  /\ UNCHANGED << db, disk, nextBlob, tx, crashes, hist >>

EnsureFolderSelect(w) ==
  /\ At(w, "lookup") /\ Free
  /\ LET found == Named(job[w].acct, Head(job[w].want)) IN
     \/ \E f \in found : Ensured(w, f)
     \/ found = {} /\ job' = [job EXCEPT ![w].pc = "mkdir"]
  /\ UNCHANGED << db, disk, nextBlob, tx, crashes, hist >>

(* The INSERT fails on UNIQUE(account_id, name), on the foreign key when    *)
(* the account is gone, and at the bound; the caller gets the error.        *)
CanInsertFolderFaulty(a, n) == a \in accounts
CanInsertFolder(a, n) == a \in accounts /\ Named(a, n) = {} /\ nextFolder <= MaxFolders

EnsureFolderInsert(w) ==
  /\ At(w, "mkdir") /\ Free
  /\ LET a == job[w].acct
         n == Head(job[w].want)
     IN IF CanInsertFolder(a, n)
        THEN /\ folders'    = Put(folders, nextFolder, [acct |-> a, name |-> n, next |-> 1])
             /\ nextFolder' = nextFolder + 1
             /\ Ensured(w, nextFolder)
        ELSE /\ Finish(w)
             /\ UNCHANGED << folders, nextFolder >>
  /\ UNCHANGED << accounts, nextAcct, messages, disk, nextBlob, tx, crashes, hist >>

(* MoveMessages for one id: a new uid from the target folder; nothing      *)
(* happens when the message or the folder is gone or it is there already.  *)
(* MaxUid bounds moving to and fro.                                         *)
MoveMessage(w) ==
  /\ At(w, "move") /\ Free
  /\ LET m == job[w].src
         f == job[w].folder
     IN IF /\ m \in DOMAIN messages /\ f \in DOMAIN folders
           /\ messages[m].folder # f /\ folders[f].next <= MaxUid
        THEN /\ messages' = [messages EXCEPT ![m].folder = f, ![m].uid = NextUid(f)]
             /\ folders'  = [folders EXCEPT ![f].next = @ + 1]
             /\ issued'   = issued \cup {[folder |-> f, uid |-> NextUid(f), msg |-> m]}
        ELSE UNCHANGED << messages, folders, issued >>
  /\ Finish(w)
  /\ UNCHANGED << accounts, nextAcct, nextFolder, disk, nextBlob, tx, crashes, origin, condemned >>

(* The UPDATE leaves INBOX alone; its new name may not be INBOX and must be *)
(* unique in the account.                                                   *)
RenamableFaulty(f) == TRUE
Renamable(f)       == folders[f].name # Inbox

RenameFolder ==
  /\ Free
  /\ \E f \in DOMAIN folders, n \in Name \ {Inbox} :
       /\ Renamable(f)
       /\ Named(folders[f].acct, n) = {}
       /\ folders' = [folders EXCEPT ![f].name = n]
  /\ UNCHANGED << accounts, nextAcct, nextFolder, messages, disk, nextBlob, tx, job, crashes, hist >>

(* DeleteFolder: only INBOX is refused.  The name check and the listing of  *)
(* the paths are two queries; no folder becomes or stops being INBOX in     *)
(* between, so they are one step here.                                      *)
StartDeleteFolder(w) ==
  /\ At(w, "idle") /\ Free
  /\ \E f \in DOMAIN folders :
       LET doomed == InFolders({f}) IN
       /\ folders[f].name # Inbox
       /\ job' = [job EXCEPT ![w] =
            [NoJob EXCEPT !.pc     = IF doomed = {} THEN "dropFolder" ELSE "unlink",
                          !.then   = "dropFolder",
                          !.folder = f,
                          !.files  = doomed]]
       /\ condemned' = condemned \cup doomed
  /\ UNCHANGED << db, disk, nextBlob, tx, crashes, issued, origin >>

DropFolder(w) ==
  /\ At(w, "dropFolder") /\ Free
  /\ LET f == job[w].folder IN
     /\ folders'   = Without(folders, {f})
     /\ messages'  = Cascade({f})
     /\ condemned' = condemned \cup InFolders({f})
  /\ Finish(w)
  /\ UNCHANGED << accounts, nextAcct, nextFolder, disk, nextBlob, tx, crashes, issued, origin >>

(***************************************************************************)
(* Delivery.                                                               *)
(***************************************************************************)

(* The caller resolved the folder (RCPT, FolderByName) and Deliver wrote    *)
(* the blob.  The file's name is fresh, so writing it commutes with every   *)
(* step of the others and is joined to the lookup before it.                *)
StartDeliver(w) ==
  /\ At(w, "idle") /\ Free
  /\ nextBlob <= MaxBlobs
  /\ \E f \in DOMAIN folders :
       job' = [job EXCEPT ![w] = [NoJob EXCEPT !.pc = "insert", !.acct = folders[f].acct,
                                               !.folder = f, !.blob = nextBlob]]
  /\ nextBlob' = nextBlob + 1
  /\ disk'     = disk \cup {nextBlob}
  /\ UNCHANGED << db, tx, crashes, hist >>

(* IMAP COPY and MOVE, and the filter's move_account: the target folder and *)
(* the row of message m are looked up, the blob is read and delivered again,*)
(* and for a move the original is then deleted.  The copy has the flags of  *)
(* the original (IMAP) or none (the filter).  The bound on names is charged *)
(* when the copy begins.                                                    *)
StartTransfer(w, then) ==
  /\ At(w, "idle") /\ Free
  /\ nextBlob <= MaxBlobs
  /\ \E f \in DOMAIN folders, m \in DOMAIN messages :
       \E flag \in {messages[m].deleted, FALSE} :
         job' = [job EXCEPT ![w] = [NoJob EXCEPT !.pc = "read", !.then = then,
                                    !.acct = folders[f].acct, !.folder = f, !.src = m,
                                    !.blob = nextBlob, !.flag = flag]]
  /\ nextBlob' = nextBlob + 1
  /\ UNCHANGED << db, disk, tx, crashes, hist >>

ReadBlob(w) ==
  /\ At(w, "read")
  /\ IF job[w].src \in disk
     THEN /\ disk'   = disk \cup {job[w].blob}
          /\ origin' = [origin EXCEPT ![job[w].blob] = origin[job[w].src]]
          /\ job'    = [job EXCEPT ![w].pc = "insert"]
     ELSE Finish(w) /\ UNCHANGED << disk, origin >>
  /\ UNCHANGED << db, nextBlob, tx, crashes, issued, condemned >>

(* A move deletes the original only after its copy was delivered.          *)
AfterFailedInsertFaulty(w) ==
  IF job[w].then = "delete" THEN job' = [job EXCEPT ![w].pc = "delete"] ELSE Finish(w)
AfterFailedInsert(w) == Finish(w)

(* The transaction of Deliver: next_uid, its increment and the row, or an   *)
(* error when the folder is gone.  The error leaves the blob behind.        *)
InsertMessage(w) ==
  /\ At(w, "insert") /\ Free
  /\ LET f == job[w].folder
         b == job[w].blob
     IN IF f \in DOMAIN folders
        THEN /\ messages'  = Put(messages, b, [acct |-> job[w].acct, folder |-> f,
                                 uid |-> NextUid(f), deleted |-> job[w].flag])
             /\ folders'   = [folders EXCEPT ![f].next = @ + 1]
             /\ issued'    = issued \cup {[folder |-> f, uid |-> NextUid(f), msg |-> b]}
             /\ condemned' = IF job[w].flag THEN condemned \cup {b} ELSE condemned
             /\ IF job[w].then = "delete"
                THEN job' = [job EXCEPT ![w].pc = "delete"]
                ELSE Finish(w)
        ELSE /\ AfterFailedInsert(w)
             /\ UNCHANGED << messages, folders, issued, condemned >>
  /\ UNCHANGED << accounts, nextAcct, nextFolder, disk, nextBlob, tx, crashes, origin >>

(***************************************************************************)
(* Removal.                                                                *)
(***************************************************************************)

(* A filter's discard, the console's delete: the message id is known, its   *)
(* row may be gone by the time DeleteMessages runs.                         *)
StartDelete(w) ==
  /\ At(w, "idle")
  /\ \E m \in DOMAIN messages :
       /\ job' = [job EXCEPT ![w] = [NoJob EXCEPT !.pc = "delete", !.src = m]]
       /\ condemned' = condemned \cup {m}
  /\ UNCHANGED << db, disk, nextBlob, tx, crashes, issued, origin >>

(* DeleteMessages: inside the transaction the file goes first.             *)
FilesAfterDeleteFaulty(w) == disk
FilesAfterDelete(w) == IF job[w].src \in DOMAIN messages THEN disk \ {job[w].src} ELSE disk

DeleteBegin(w) ==
  /\ At(w, "delete") /\ Free
  /\ tx'   = w
  /\ disk' = FilesAfterDelete(w)
  /\ job'  = [job EXCEPT ![w].pc = "commit"]
  /\ UNCHANGED << db, nextBlob, crashes, hist >>

DeleteCommit(w) ==
  /\ At(w, "commit") /\ tx = w
  /\ Release(w)
  /\ messages' = Without(messages, {job[w].src})
  /\ Finish(w)
  /\ UNCHANGED << accounts, nextAcct, folders, nextFolder, disk, nextBlob, crashes, hist >>

SetDeleted(m) ==
  /\ Free
  /\ messages'  = [messages EXCEPT ![m].deleted = TRUE]
  /\ condemned' = condemned \cup {m}
  /\ UNCHANGED << accounts, nextAcct, folders, nextFolder, disk, nextBlob, tx, job, crashes,
                  issued, origin >>

ClearDeleted(m) ==
  /\ Free
  /\ messages' = [messages EXCEPT ![m].deleted = FALSE]
  /\ UNCHANGED << accounts, nextAcct, folders, nextFolder, disk, nextBlob, tx, job, crashes, hist >>

(* ExpungeFolder (IMAP EXPUNGE, POP3 QUIT, the web): one query lists the    *)
(* flagged messages, then the files go, then the rows, one statement each.  *)
StartExpunge(w) ==
  /\ At(w, "idle") /\ Free
  /\ \E f \in DOMAIN folders :
       /\ Flagged(f) # {}
       /\ job' = [job EXCEPT ![w] = [NoJob EXCEPT !.pc = "unlink", !.then = "rows",
                                     !.folder = f, !.files = Flagged(f), !.ids = Flagged(f)]]
  /\ UNCHANGED << db, disk, nextBlob, tx, crashes, hist >>

RemoveFile(w) ==
  /\ At(w, "unlink")
  /\ \E b \in job[w].files :
       /\ disk' = disk \ {b}
       /\ job'  = [job EXCEPT ![w].files = @ \ {b},
                              ![w].pc = IF job[w].files = {b} THEN job[w].then ELSE @]
  /\ UNCHANGED << db, nextBlob, tx, crashes, hist >>

DeleteRow(w) ==
  /\ At(w, "rows") /\ Free
  /\ \E b \in job[w].ids :
       /\ messages' = Without(messages, {b})
       /\ IF job[w].ids = {b} THEN Finish(w)
                              ELSE job' = [job EXCEPT ![w].ids = @ \ {b}]
  /\ UNCHANGED << accounts, nextAcct, folders, nextFolder, disk, nextBlob, tx, crashes, hist >>

(* The process dies: the open transaction is rolled back, every call is     *)
(* gone, the tables and the files stay as they are.                         *)
Crash ==
  /\ crashes < MaxCrashes
  /\ crashes' = crashes + 1
  /\ tx'      = None
  /\ job'     = [w \in Worker |-> NoJob]
  /\ UNCHANGED << db, disk, nextBlob, hist >>

Init ==
  /\ accounts = {} /\ nextAcct = 1
  /\ folders = << >> /\ nextFolder = 1
  /\ messages = << >>
  /\ disk = {} /\ nextBlob = 1
  /\ tx = None
  /\ job = [w \in Worker |-> NoJob]
  /\ crashes = 0
  /\ issued = {}
  /\ origin = [b \in Blob |-> b]
  /\ condemned = {}

Start(w) ==
  \/ CreateAccount(w)
  \/ StartDeleteAccount(w)
  \/ StartEnsureFolder(w)
  \/ StartMoveToFolderName(w)
  \/ StartDeleteFolder(w)
  \/ StartDeliver(w)
  \/ \E then \in {"idle", "delete"} : StartTransfer(w, then)
  \/ StartDelete(w)
  \/ StartExpunge(w)

Step(w) ==
  \/ DropAccount(w)
  \/ EnsureFolderSelect(w)
  \/ EnsureFolderInsert(w)
  \/ MoveMessage(w)
  \/ DropFolder(w)
  \/ ReadBlob(w)
  \/ InsertMessage(w)
  \/ DeleteBegin(w)
  \/ DeleteCommit(w)
  \/ RemoveFile(w)
  \/ DeleteRow(w)

Next ==
  \/ \E w \in Worker : Start(w) \/ Step(w)
  \/ RenameFolder
  \/ \E m \in DOMAIN messages : SetDeleted(m) \/ ClearDeleted(m)
  \/ Crash

Spec == Init /\ [][Next]_vars

(* A call runs to its end: the goroutine is scheduled and database/sql     *)
(* hands the connection to waiters in order.                               *)
FairSpec == Spec /\ \A w \in Worker : WF_vars(Step(w))

-----------------------------------------------------------------------------

(* What a call knows at each of its steps.                                 *)
Coherent(j) ==
  /\ j.pc \in {"lookup", "mkdir"} => j.acct \in Acct /\ j.want # << >>
  /\ j.pc \in {"read", "insert"} => j.acct \in Acct /\ j.folder \in Folder /\ j.blob \in Blob
  /\ j.pc = "unlink" => j.then \in {"rows", "dropFolder", "dropAccount"}

TablesOK ==
  /\ accounts \subseteq Acct /\ nextAcct \in 1 .. MaxAccounts + 1
  /\ DOMAIN folders \subseteq Folder /\ nextFolder \in 1 .. MaxFolders + 1
  /\ \A f \in DOMAIN folders : folders[f] \in FolderRow
  /\ DOMAIN messages \subseteq Blob
  /\ \A m \in DOMAIN messages : messages[m] \in MessageRow
FilesOK == disk \subseteq Blob /\ nextBlob \in 1 .. MaxBlobs + 1
CallsOK ==
  /\ tx \in Worker \cup {None}
  /\ job \in [Worker -> {j \in Job : Coherent(j)}]
  /\ crashes \in 0 .. MaxCrashes
HistoryOK ==
  /\ issued \subseteq [folder : Folder, uid : Nat, msg : Blob]
  /\ origin \in [Blob -> Blob]
  /\ condemned \subseteq Blob

(* The types of the tables, the files, the calls and the history.          *)
TypeOK == TablesOK /\ FilesOK /\ CallsOK /\ HistoryOK

(* No uid of a folder is ever given to two messages, removed ones and      *)
(* removed folders included: clients key their caches by it (store.go,      *)
(* next_uid in Deliver and MoveMessages, AUTOINCREMENT of folders).         *)
UidNeverReused ==
  \A x, y \in issued : x.folder = y.folder /\ x.uid = y.uid => x.msg = y.msg

(* Why: the ids of the folders and the uids of each folder stay below their *)
(* counters.  Together with UidNeverReused it is inductive.                 *)
UidInv ==
  /\ \A f \in DOMAIN folders : f < nextFolder
  /\ \A x \in issued :
       /\ x.folder < nextFolder
       /\ x.folder \in DOMAIN folders => x.uid < folders[x.folder].next
  /\ UidNeverReused

(* A message is always in a folder of its own account: Deliver and          *)
(* MoveMessages take the folder id on trust, from a lookup that may be old. *)
OwnFolder ==
  \A m \in DOMAIN messages :
    /\ messages[m].acct \in accounts
    /\ messages[m].folder \in DOMAIN folders
    /\ folders[messages[m].folder].acct = messages[m].acct

(* Nothing is lost unasked: a delivered message whose removal nobody asked  *)
(* for has its row and its file, or else a later copy of it (IMAP MOVE,     *)
(* move_account) that has them or whose removal was asked for.  Every race  *)
(* of the removals with deliveries and moves, and every crash, is inside.   *)
Delivered == {x.msg : x \in issued}
Intact(m) == m \in condemned \/ (m \in DOMAIN messages /\ m \in disk)
Conserved ==
  \A m \in Delivered :
    \/ Intact(m)
    \/ \E c \in Delivered : c > m /\ origin[c] = origin[m] /\ Intact(c)

(* A file without a row belongs to a delivery under way, or a crash or the   *)
(* deletion of a folder (which a delivery may have raced) explains it: no    *)
(* other path of the code leaks the blob of a removed message.               *)
NoLeak ==
  \A b \in disk \ DOMAIN messages :
    \/ \E w \in Worker : job[w].blob = b
    \/ crashes > 0
    \/ DOMAIN folders # 1 .. nextFolder - 1

(* An account that has its INBOX keeps it as long as it lives, whatever     *)
(* renames and folder deletions race (fetch, SMTP and POP3 need it).        *)
HasInbox(a) == Named(a, Inbox) # {}
InboxKept ==
  [][\A a \in accounts \cap accounts' : HasInbox(a) => HasInbox(a)']_vars

(* No account is left without its INBOX, whatever renames, folder deletions *)
(* and other EnsureFolder calls race with the call that creates it: only a   *)
(* crash, or the model's bound on folders, ends that call before INBOX.      *)
MakesInbox(j, a) == j.pc \in {"lookup", "mkdir"} /\ j.acct = a /\ Head(j.want) = Inbox
InboxMade ==
  \A a \in accounts :
    \/ HasInbox(a)
    \/ \E w \in Worker : MakesInbox(job[w], a)
    \/ crashes > 0 \/ nextFolder > MaxFolders

(* The one connection is never kept by somebody who is done with it or has  *)
(* anything left to do but to commit, so that no call waits for a connection *)
(* that nobody gives back: the guards of CallsEnd, crashes included.        *)
GivenBack == tx # None => At(tx, "commit")

(* Every call ends: no goroutine waits for ever for the one connection.    *)
CallsEnd == \A w \in Worker : ~At(w, "idle") ~> At(w, "idle")

(* The store gives out uids the way UidSpace says.                         *)
Uids == INSTANCE UidSpace WITH
          Message <- Blob,
          next    <- [f \in DOMAIN folders |-> folders[f].next],
          taken   <- issued
UidSpec == Uids!Spec
=============================================================================

---------------------- MODULE MailStoreSafety_proofs ----------------------
(***************************************************************************)
(* Theorems about MailStore beyond its types and uids: where a message     *)
(* may be, what happens to it when nobody asks for its removal, and which  *)
(* files are left without a row, for every number of goroutines, accounts, *)
(* folders, messages and crashes.                                          *)
(***************************************************************************)
EXTENDS MailStore_proofs

(* m has a younger copy that is whole or whose removal was asked for.       *)
Backed(m) == \E c \in Delivered : c > m /\ origin[c] = origin[m] /\ Intact(c)

(* A call on its way to the removal of a folder; one that is to put a        *)
(* message into a folder; one that moves a message of its account; one      *)
(* whose blob has no row yet; one that copies a message; one that removes   *)
(* the message it deletes or has copied.                                    *)
Dropping(j) == j.pc = "dropFolder" \/ (j.pc = "unlink" /\ j.then = "dropFolder")
Filing(j)   == j.pc \in {"read", "insert", "move"}
Moving(j)   == j.pc = "move" \/ (j.pc \in {"lookup", "mkdir"} /\ j.then = "move")
Pending(j)  == j.pc \in {"read", "insert"}
Copying(j)  == j.pc = "read" \/ (j.pc = "insert" /\ j.then = "delete")
Removing(j) == j.pc \in {"delete", "commit"}

(* What a call read some steps ago and may still rely on, although rows and *)
(* files have come and gone since.                                          *)
Knows(j) ==
  /\ j.src \in Delivered \cup {0}
  /\ j.files \subseteq condemned /\ j.ids \subseteq condemned
  /\ Filing(j) \/ Dropping(j) => j.folder < nextFolder
  /\ Filing(j) /\ j.folder \in DOMAIN folders => folders[j.folder].acct = j.acct
  /\ Dropping(j) /\ j.folder \in DOMAIN folders => folders[j.folder].name # Inbox
  /\ Moving(j) /\ j.src \in DOMAIN messages => messages[j.src].acct = j.acct
  /\ Copying(j) \/ Removing(j) => j.src \in Delivered
  /\ Removing(j) => j.src \in condemned \/ Backed(j.src)
  /\ j.pc = "rows" => j.files = {}
  /\ \A b \in j.ids : b \in disk => b \in j.files

(* What belongs to a call alone until its transaction: the name it drew and *)
(* the file it wrote.                                                       *)
Owns(j) ==
  /\ Pending(j) => j.blob < nextBlob /\ j.blob \notin Delivered
  /\ Copying(j) => j.src < j.blob
  /\ j.pc = "read" => j.blob \notin disk
  /\ j.pc = "insert" => j.blob \in disk
  /\ j.pc = "insert" /\ j.then = "delete" => origin[j.src] = origin[j.blob]

Informed == \A w \in Worker : Knows(job[w])
Owners   == \A w \in Worker : Owns(job[w])
Apart    == \A w, u \in Worker :
              w # u /\ Pending(job[w]) /\ Pending(job[u]) => job[w].blob # job[u].blob

(* While a transaction is open its message has lost its file or its row.    *)
Locked == \A w \in Worker : At(w, "commit") =>
            tx = w /\ (job[w].src \notin disk \/ job[w].src \notin DOMAIN messages)

Recorded ==
  /\ DOMAIN messages \subseteq Delivered
  /\ condemned \subseteq Delivered
  /\ \A b \in Delivered \cup disk : b < nextBlob
  /\ \A m \in DOMAIN messages : messages[m].deleted => m \in condemned

Placed ==
  /\ \A f \in DOMAIN folders : folders[f].acct \in accounts
  /\ OwnFolder

(* Without a crash and without the removal of a folder, every file that has *)
(* no row waits for the transaction of its delivery.                        *)
Quiet     == crashes = 0 /\ DOMAIN folders = 1 .. nextFolder - 1
Explained == Quiet => \A b \in disk \ DOMAIN messages :
                        \E w \in Worker : At(w, "insert") /\ job[w].blob = b

StoreInv ==
  Recorded /\ Placed /\ Informed /\ Owners /\ Apart /\ Locked /\ Conserved /\ Explained

-----------------------------------------------------------------------------
(* What every step leaves standing of what a call may have read: ids and    *)
(* names are not used again, accounts of rows do not change, a blob that    *)
(* was delivered is not written again, and INBOX is not given as a name.    *)
Grows ==
  /\ nextBlob' >= nextBlob /\ nextFolder' >= nextFolder
  /\ Delivered \subseteq Delivered' /\ condemned \subseteq condemned'
  /\ \A b \in Delivered : origin'[b] = origin[b]
  /\ \A b \in disk' : b \in disk \/ b \notin Delivered
  /\ \A m \in DOMAIN messages' :
       \/ m \notin Delivered
       \/ m \in DOMAIN messages /\ messages'[m].acct = messages[m].acct
  /\ \A f \in DOMAIN folders' :
       \/ f >= nextFolder
       \/ /\ f \in DOMAIN folders /\ folders'[f].acct = folders[f].acct
          /\ folders[f].name # Inbox => folders'[f].name # Inbox

(* At most one whole message whose removal nobody asked for loses its row   *)
(* or its file, and it has a copy.                                          *)
LosesOnly(s) ==
  /\ \A m \in Delivered : m # s /\ Intact(m) => Intact(m)'
  /\ Intact(s) => Intact(s)' \/ Backed(s)

(* A step that only reads: it may ask for removals.                         *)
Reads ==
  /\ UNCHANGED << db, disk, nextBlob, tx, crashes, issued, origin >>
  /\ condemned \subseteq condemned' /\ condemned' \subseteq condemned \cup DOMAIN messages

(* The steps that only read change nothing but the caller's place.          *)
LEMMA ReadSteps ==
  ASSUME NEW w \in Worker,
         \/ StartDeleteAccount(w) \/ StartEnsureFolder(w) \/ StartMoveToFolderName(w)
         \/ StartDeleteFolder(w) \/ StartDelete(w) \/ StartExpunge(w) \/ EnsureFolderSelect(w)
  PROVE  Reads
  BY DEF StartDeleteAccount, StartEnsureFolder, StartMoveToFolderName, StartDeleteFolder,
     StartDelete, StartExpunge, EnsureFolderSelect, Reads, db, hist, OfAccount, InFolders

(* The types of one call and of the tables, as the proofs below use them.   *)
LEMMA Typed ==
  ASSUME TypeOK
  PROVE  /\ job \in [Worker -> Call]
         /\ \A w \in Worker : job[w] \in Job /\ Coherent(job[w])
         /\ nextBlob \in Nat /\ nextFolder \in Nat /\ crashes \in Nat
         /\ Delivered \subseteq Blob /\ Blob \subseteq Nat /\ Folder \subseteq Nat /\ disk \subseteq Blob
         /\ \A f \in DOMAIN folders : f \in Folder /\ folders[f] \in FolderRow
         /\ \A m \in DOMAIN messages : m \in Blob /\ messages[m] \in MessageRow
         /\ origin \in [Blob -> Blob]
  BY DEF TypeOK, TablesOK, FilesOK, CallsOK, HistoryOK, Call, Delivered, Blob, Folder

(* What was delivered stays delivered, ids are never given anew, and the    *)
(* rows that stay keep what they are.                                       *)
LEMMA GrowsOnly ==
  ASSUME TypeOK, StoreInv, [Next]_vars
  PROVE  Grows
  <1>0. /\ Recorded /\ Informed /\ Owners
        /\ nextBlob \in Nat /\ nextFolder \in Nat /\ Blob \subseteq Nat /\ Folder \subseteq Nat
        /\ Delivered \subseteq Blob
        /\ \A f \in DOMAIN folders : f \in Folder /\ folders[f] \in FolderRow
        /\ \A m \in DOMAIN messages : m \in Blob /\ messages[m] \in MessageRow
        /\ origin \in [Blob -> Blob]
        /\ \A w \in Worker : job[w] \in Job /\ Coherent(job[w])
    BY Typed DEF StoreInv
  <1>1. ASSUME NEW w \in Worker, Reads
        PROVE  Grows
    BY <1>0, <1>1 DEF Reads, db, Grows, Delivered
  <1>2. ASSUME NEW w \in Worker, CreateAccount(w)
        PROVE  Grows
    BY <1>0, <1>2 DEF CreateAccount, hist, Grows, Delivered
  <1>3. ASSUME NEW w \in Worker, StartDeliver(w) \/ \E then \in {"idle", "delete"} : StartTransfer(w, then)
        PROVE  Grows
    <2>1. /\ nextBlob' = nextBlob + 1 /\ disk' \subseteq disk \cup {nextBlob}
          /\ UNCHANGED << db, hist >>
      BY <1>3 DEF StartDeliver, StartTransfer
    <2>2. nextBlob \notin Delivered
      BY <1>0 DEF Recorded
    <2>3. QED
      BY <1>0, <2>1, <2>2 DEF db, hist, Grows, Delivered
  <1>4. ASSUME NEW w \in Worker, ReadBlob(w)
        PROVE  Grows
    <2>1. job[w].blob \notin Delivered /\ job[w].blob \in Blob
      BY <1>0, <1>4 DEF ReadBlob, At, Owners, Owns, Pending, Coherent
    <2>2. \A b \in Delivered : origin'[b] = origin[b]
      BY <1>0, <1>4, <2>1 DEF ReadBlob
    <2>3. \A b \in disk' : b \in disk \/ b \notin Delivered
      BY <1>4, <2>1 DEF ReadBlob
    <2>4. UNCHANGED << db, nextBlob, issued, condemned >>
      BY <1>4 DEF ReadBlob
    <2>5. QED
      BY <1>0, <2>2, <2>3, <2>4 DEF db, Grows, Delivered
  <1>5. ASSUME NEW w \in Worker, EnsureFolderInsert(w)
        PROVE  Grows
    <2>1. \A f \in DOMAIN folders' : f >= nextFolder \/ (f \in DOMAIN folders /\ folders'[f] = folders[f])
      BY <1>0, <1>5 DEF EnsureFolderInsert, Put
    <2>2. nextFolder' >= nextFolder
      BY <1>0, <1>5 DEF EnsureFolderInsert
    <2>3. UNCHANGED << messages, disk, nextBlob, issued, origin, condemned >>
      BY <1>5 DEF EnsureFolderInsert, hist
    <2>4. QED
      BY <1>0, <2>1, <2>2, <2>3 DEF Grows, Delivered
  <1>6. ASSUME NEW w \in Worker, MoveMessage(w)
        PROVE  Grows
    <2>1. DOMAIN folders' = DOMAIN folders /\ \A f \in DOMAIN folders :
            folders'[f].acct = folders[f].acct /\ folders'[f].name = folders[f].name
      BY <1>0, <1>6 DEF MoveMessage, FolderRow
    <2>2. DOMAIN messages' = DOMAIN messages /\ \A m \in DOMAIN messages : messages'[m].acct = messages[m].acct
      BY <1>0, <1>6 DEF MoveMessage, MessageRow
    <2>3. issued \subseteq issued' /\ UNCHANGED << disk, nextBlob, nextFolder, origin, condemned >>
      BY <1>6 DEF MoveMessage
    <2>4. QED
      BY <1>0, <2>1, <2>2, <2>3 DEF Grows, Delivered
  <1>7. ASSUME NEW w \in Worker, InsertMessage(w)
        PROVE  Grows
    <2>1. DOMAIN folders' = DOMAIN folders /\ \A f \in DOMAIN folders :
            folders'[f].acct = folders[f].acct /\ folders'[f].name = folders[f].name
      BY <1>0, <1>7 DEF InsertMessage, FolderRow
    <2>2. job[w].blob \notin Delivered
      BY <1>0, <1>7 DEF InsertMessage, At, Owners, Owns, Pending
    <2>3. \A m \in DOMAIN messages' : m = job[w].blob \/ (m \in DOMAIN messages /\ messages'[m] = messages[m])
      BY <1>7 DEF InsertMessage, Put
    <2>4. /\ issued \subseteq issued' /\ condemned \subseteq condemned'
          /\ UNCHANGED << disk, nextBlob, nextFolder, origin >>
      BY <1>7 DEF InsertMessage
    <2>5. QED
      BY <1>0, <2>1, <2>2, <2>3, <2>4 DEF Grows, Delivered
  <1>8. ASSUME NEW w \in Worker, DropAccount(w) \/ DropFolder(w)
        PROVE  Grows
    <2>1. \A f \in DOMAIN folders' : f \in DOMAIN folders /\ folders'[f] = folders[f]
      BY <1>8 DEF DropAccount, DropFolder, Without, Restrict
    <2>2. \A m \in DOMAIN messages' : m \in DOMAIN messages /\ messages'[m] = messages[m]
      BY <1>8 DEF DropAccount, DropFolder, Cascade, Without, Restrict
    <2>3. /\ condemned \subseteq condemned'
          /\ UNCHANGED << disk, nextBlob, nextFolder, issued, origin >>
      BY <1>8 DEF DropAccount, DropFolder
    <2>4. QED
      BY <1>0, <2>1, <2>2, <2>3 DEF Grows, Delivered
  <1>9. ASSUME NEW w \in Worker, DeleteBegin(w) \/ DeleteCommit(w) \/ RemoveFile(w) \/ DeleteRow(w)
        PROVE  Grows
    <2>1. disk' \subseteq disk
      BY <1>9 DEF DeleteBegin, DeleteCommit, RemoveFile, DeleteRow, FilesAfterDelete
    <2>2. \A m \in DOMAIN messages' : m \in DOMAIN messages /\ messages'[m] = messages[m]
      BY <1>9 DEF DeleteBegin, DeleteCommit, RemoveFile, DeleteRow, db, Without, Restrict
    <2>3. UNCHANGED << folders, nextFolder, nextBlob, issued, origin, condemned >>
      BY <1>9 DEF DeleteBegin, DeleteCommit, RemoveFile, DeleteRow, db, hist
    <2>4. QED
      BY <1>0, <2>1, <2>2, <2>3 DEF Grows, Delivered
  <1>10. CASE RenameFolder
    <2>1. PICK f \in DOMAIN folders, n \in Name \ {Inbox} : folders' = [folders EXCEPT ![f].name = n]
      BY <1>10 DEF RenameFolder
    <2>2. DOMAIN folders' = DOMAIN folders /\ \A g \in DOMAIN folders :
            /\ folders'[g].acct = folders[g].acct
            /\ folders[g].name # Inbox => folders'[g].name # Inbox
      BY <1>0, <2>1 DEF FolderRow
    <2>3. QED
      BY <1>0, <1>10, <2>2 DEF RenameFolder, hist, Grows, Delivered
  <1>11. ASSUME NEW m \in DOMAIN messages, SetDeleted(m) \/ ClearDeleted(m)
         PROVE  Grows
    <2>1. DOMAIN messages' = DOMAIN messages /\ \A n \in DOMAIN messages : messages'[n].acct = messages[n].acct
      BY <1>0, <1>11 DEF SetDeleted, ClearDeleted, MessageRow
    <2>2. QED
      BY <1>0, <1>11, <2>1 DEF SetDeleted, ClearDeleted, hist, Grows, Delivered
  <1>12. CASE Crash \/ UNCHANGED vars
    BY <1>0, <1>12 DEF Crash, vars, db, hist, Grows, Delivered
  <1>13. QED
    BY <1>1, <1>2, <1>3, <1>4, <1>5, <1>6, <1>7, <1>8, <1>9, <1>10, <1>11, <1>12, ReadSteps
       DEF Next, Start, Step


(* Rows and files go by request, or when a younger copy stands.             *)
LEMMA LosesOne ==
  ASSUME TypeOK, StoreInv, [Next]_vars
  PROVE  \E s : LosesOnly(s)
  <1>0. /\ Recorded /\ Informed
        /\ \A m \in DOMAIN messages : m \in Blob /\ messages[m] \in MessageRow
        /\ condemned \subseteq condemned'
    BY Typed, GrowsOnly DEF StoreInv, Grows
  <1>1. CASE DOMAIN messages \subseteq DOMAIN messages' /\ disk \subseteq disk'
    BY <1>0, <1>1 DEF LosesOnly, Intact
  <1>2. ASSUME NEW w \in Worker, DropAccount(w) \/ DropFolder(w)
        PROVE  \E s : LosesOnly(s)
    <2>1. \A m \in DOMAIN messages : m \in DOMAIN messages' \/ m \in condemned'
      BY <1>2 DEF DropAccount, DropFolder, Cascade, Without, Restrict, OfAccount, InFolders
    <2>2. disk' = disk
      BY <1>2 DEF DropAccount, DropFolder
    <2>3. QED
      BY <1>0, <2>1, <2>2 DEF LosesOnly, Intact
  <1>3. ASSUME NEW w \in Worker, DeleteBegin(w) \/ DeleteCommit(w)
        PROVE  \E s : LosesOnly(s)
    <2>0. PICK s : s = job[w].src
      OBVIOUS
    <2>1. \A m \in DOMAIN messages : m \in DOMAIN messages' \/ m = s
      BY <1>3, <2>0 DEF DeleteBegin, DeleteCommit, db, Without, Restrict
    <2>2. \A b \in disk : b \in disk' \/ b = s
      BY <1>3, <2>0 DEF DeleteBegin, DeleteCommit, FilesAfterDelete
    <2>3. s \in condemned \/ Backed(s)
      BY <1>0, <1>3, <2>0 DEF DeleteBegin, DeleteCommit, At, Informed, Knows, Removing
    <2>4. LosesOnly(s)
      BY <1>0, <2>1, <2>2, <2>3 DEF LosesOnly, Intact
    <2>5. QED
      BY <2>4
  <1>4. ASSUME NEW w \in Worker, RemoveFile(w) \/ DeleteRow(w)
        PROVE  \E s : LosesOnly(s)
    <2>1. job[w].files \subseteq condemned /\ job[w].ids \subseteq condemned
      BY <1>0 DEF Informed, Knows
    <2>2. \A m \in DOMAIN messages : m \in DOMAIN messages' \/ m \in condemned
      BY <1>4, <2>1 DEF RemoveFile, DeleteRow, db, Without, Restrict
    <2>3. \A b \in disk : b \in disk' \/ b \in condemned
      BY <1>4, <2>1 DEF RemoveFile, DeleteRow
    <2>4. QED
      BY <1>0, <2>2, <2>3 DEF LosesOnly, Intact
  <1>5. ASSUME NEW w \in Worker, Reads \/ CreateAccount(w) \/ EnsureFolderInsert(w)
        PROVE  DOMAIN messages \subseteq DOMAIN messages' /\ disk \subseteq disk'
    BY <1>5 DEF Reads, CreateAccount, EnsureFolderInsert, db
  <1>6. ASSUME NEW w \in Worker,
               \/ StartDeliver(w) \/ \E then \in {"idle", "delete"} : StartTransfer(w, then)
               \/ ReadBlob(w)
        PROVE  DOMAIN messages \subseteq DOMAIN messages' /\ disk \subseteq disk'
    BY <1>6 DEF StartDeliver, StartTransfer, ReadBlob, db
  <1>7. ASSUME NEW w \in Worker, MoveMessage(w) \/ InsertMessage(w)
        PROVE  DOMAIN messages \subseteq DOMAIN messages' /\ disk \subseteq disk'
    BY <1>7 DEF MoveMessage, InsertMessage, Put
  <1>8. CASE \/ RenameFolder \/ \E m \in DOMAIN messages : SetDeleted(m) \/ ClearDeleted(m)
             \/ Crash \/ UNCHANGED vars
    <2>1. DOMAIN messages' = DOMAIN messages /\ disk' = disk
      BY <1>8 DEF RenameFolder, SetDeleted, ClearDeleted, Crash, vars, db
    <2>2. QED
      BY <1>1, <2>1
  <1>9. QED
    BY <1>1, <1>2, <1>3, <1>4, <1>5, <1>6, <1>7, <1>8, ReadSteps DEF Next, Start, Step

(* A copy that stands for a message keeps standing, or a yet younger one    *)
(* takes its place.                                                         *)
LEMMA BackedStays ==
  ASSUME TypeOK, Grows, NEW s, LosesOnly(s)
  PROVE  \A m \in Delivered : Backed(m) => Backed(m)'
  <1> SUFFICES ASSUME NEW m \in Delivered, Backed(m)
               PROVE  Backed(m)'
    OBVIOUS
  <1>0. Delivered \subseteq Nat
    BY Typed
  <1>1. PICK c \in Delivered : c > m /\ origin[c] = origin[m] /\ Intact(c)
    BY DEF Backed
  <1>2. CASE Intact(c)'
    BY <1>1, <1>2 DEF Grows, Backed
  <1>3. CASE c = s /\ Backed(s)
    <2>1. PICK d \in Delivered : d > s /\ origin[d] = origin[s] /\ Intact(d)
      BY <1>3 DEF Backed
    <2>2. d > m /\ d # s /\ origin[d] = origin[m]
      BY <1>0, <1>1, <1>3, <2>1
    <2>3. Intact(d)'
      BY <2>1, <2>2 DEF LosesOnly
    <2>4. QED
      BY <2>2, <2>3 DEF Grows, Backed
  <1>4. QED
    BY <1>1, <1>2, <1>3 DEF LosesOnly

(* Therefore no message is lost unasked.                                    *)
LEMMA ConservedStep ==
  ASSUME TypeOK, StoreInv, [Next]_vars
  PROVE  \A m \in Delivered : Intact(m)' \/ Backed(m)'
  <1>1. PICK s : LosesOnly(s)
    BY LosesOne
  <1>2. \A m \in Delivered : Intact(m) \/ Backed(m)
    BY DEF StoreInv, Conserved, Backed
  <1>3. \A m \in Delivered : Backed(m) => Backed(m)'
    BY <1>1, GrowsOnly, BackedStays
  <1>4. \A m \in Delivered : Intact(m) => Intact(m)' \/ Backed(m)
    BY <1>1 DEF LosesOnly
  <1>5. QED
    BY <1>2, <1>3, <1>4

(* What a call knows stays true whatever the others do.                     *)
LEMMA KnowsStays ==
  ASSUME TypeOK, TypeOK', StoreInv, [Next]_vars,
         NEW j \in Job, Knows(j)
  PROVE  Knows(j)'
  <1>0. Grows /\ nextFolder \in Nat /\ Folder \subseteq Nat /\ 0 \notin Blob
    BY GrowsOnly, Typed DEF Blob
  <1>a. nextFolder' \in Nat /\ DOMAIN messages' \subseteq Blob
    BY DEF TypeOK, TablesOK
  <1>1. \A m \in Delivered : Backed(m) => Backed(m)'
    BY LosesOne, GrowsOnly, BackedStays
  <1>2. j.src \in (Delivered \cup {0})' /\ j.files \subseteq condemned' /\ j.ids \subseteq condemned'
    BY <1>0 DEF Grows, Knows
  <1>b. j.folder \in Folder \cup {0}
    BY DEF Job
  <1>3. j.folder \in Nat
    BY <1>b DEF Folder
  <1>4. /\ Filing(j) \/ Dropping(j) => j.folder < nextFolder'
        /\ Filing(j) /\ j.folder \in DOMAIN folders' => folders'[j.folder].acct = j.acct
        /\ Dropping(j) /\ j.folder \in DOMAIN folders' => folders'[j.folder].name # Inbox
    BY <1>0, <1>a, <1>3 DEF Knows, Grows
  <1>5. Moving(j) /\ j.src \in DOMAIN messages' => messages'[j.src].acct = j.acct
    BY <1>0, <1>a DEF Knows, Grows
  <1>6. /\ Copying(j) \/ Removing(j) => j.src \in Delivered'
        /\ Removing(j) => j.src \in condemned' \/ Backed(j.src)'
    BY <1>0, <1>1 DEF Knows, Grows
  <1>7. \A b \in j.ids : b \in disk' => b \in j.files
    BY <1>0 DEF Knows, Grows, StoreInv, Recorded
  <1>8. j.pc = "rows" => j.files = {}
    BY DEF Knows
  <1>9. QED
    BY <1>2, <1>4, <1>5, <1>6, <1>7, <1>8 DEF Knows, Backed, Intact, Delivered


(* The call of w after a step, given as a record.                           *)
LEMMA KnowsRecord ==
  ASSUME NEW w \in Worker, NEW r, job'[w] = r, Knows(r)'
  PROVE  Knows(job[w])'
  BY DEF Knows, Filing, Dropping, Moving, Copying, Removing, Backed, Intact, Delivered

(* A step of another goroutine leaves true what a call knows.               *)
LEMMA OtherKnows ==
  ASSUME TypeOK, TypeOK', StoreInv, [Next]_vars, NEW u \in Worker, job'[u] = job[u]
  PROVE  Knows(job[u])'
  <1>1. PICK j : j = job[u]
    OBVIOUS
  <1>2. j \in Job /\ Knows(j)
    BY <1>1, Typed DEF StoreInv, Informed
  <1>3. Knows(j)'
    BY <1>2, KnowsStays
  <1>4. QED
    BY <1>1, <1>3, KnowsRecord

(* Nothing has to be known outside a call.                                  *)
LEMMA IdleKnows == Knows(NoJob)'
  BY DEF NoJob, Knows, Filing, Dropping, Moving, Copying, Removing

(* What a call's first statement reads is true when it has read it.         *)
LEMMA StartKnows ==
  ASSUME TypeOK, UidInv, StoreInv, NEW w \in Worker, Start(w)
  PROVE  Knows(job[w])'
  <1>0. /\ job \in [Worker -> Call] /\ Recorded
        /\ DOMAIN messages \subseteq Delivered
        /\ \A f \in DOMAIN folders : f < nextFolder
        /\ \A m \in DOMAIN messages : messages[m].deleted => m \in condemned
    BY Typed DEF StoreInv, Recorded, UidInv
  <1> USE DEF Filing, Dropping, Moving, Copying, Removing
  <1>1. CASE CreateAccount(w)
    <2>1. PICK r : r = [NoJob EXCEPT !.pc = "lookup", !.acct = nextAcct, !.want = SysNames]
      OBVIOUS
    <2>2. Knows(r)'
      BY <2>1 DEF NoJob, Knows
    <2>3. job'[w] = r
      BY <1>0, <1>1, <2>1 DEF CreateAccount
    <2>4. QED
      BY <2>2, <2>3, KnowsRecord
  <1>2. CASE StartDeleteAccount(w)
    <2>1. PICK a \in accounts :
            /\ job' = [job EXCEPT ![w] =
                 [NoJob EXCEPT !.pc = IF OfAccount(a) = {} THEN "dropAccount" ELSE "unlink",
                               !.then = "dropAccount", !.acct = a, !.files = OfAccount(a)]]
            /\ OfAccount(a) \subseteq condemned'
      BY <1>2 DEF StartDeleteAccount
    <2>2. PICK r : r = [NoJob EXCEPT !.pc = IF OfAccount(a) = {} THEN "dropAccount" ELSE "unlink",
                               !.then = "dropAccount", !.acct = a, !.files = OfAccount(a)]
      OBVIOUS
    <2>3. Knows(r)'
      BY <2>1, <2>2 DEF NoJob, Knows
    <2>4. job'[w] = r
      BY <1>0, <2>1, <2>2
    <2>5. QED
      BY <2>3, <2>4, KnowsRecord
  <1>3. CASE StartEnsureFolder(w)
    <2>1. PICK a \in accounts, n \in Name :
            job' = [job EXCEPT ![w] = [NoJob EXCEPT !.pc = "lookup", !.acct = a, !.want = << n >>]]
      BY <1>3 DEF StartEnsureFolder
    <2>2. PICK r : r = [NoJob EXCEPT !.pc = "lookup", !.acct = a, !.want = << n >>]
      OBVIOUS
    <2>3. Knows(r)'
      BY <2>2 DEF NoJob, Knows
    <2>4. job'[w] = r
      BY <1>0, <2>1, <2>2
    <2>5. QED
      BY <2>3, <2>4, KnowsRecord
  <1>4. CASE StartMoveToFolderName(w)
    <2>1. PICK m \in DOMAIN messages, n \in Name :
            job' = [job EXCEPT ![w] = [NoJob EXCEPT !.pc = "lookup", !.then = "move",
                                  !.acct = messages[m].acct, !.src = m, !.want = << n >>]]
      BY <1>4 DEF StartMoveToFolderName
    <2>2. PICK r : r = [NoJob EXCEPT !.pc = "lookup", !.then = "move",
                                  !.acct = messages[m].acct, !.src = m, !.want = << n >>]
      OBVIOUS
    <2>3. messages' = messages /\ issued' = issued
      BY <1>4 DEF StartMoveToFolderName, db, hist
    <2>4. Knows(r)'
      BY <1>0, <2>2, <2>3 DEF NoJob, Knows, Delivered
    <2>5. job'[w] = r
      BY <1>0, <2>1, <2>2
    <2>6. QED
      BY <2>4, <2>5, KnowsRecord
  <1>5. CASE StartDeleteFolder(w)
    <2>1. PICK f \in DOMAIN folders :
            /\ folders[f].name # Inbox
            /\ job' = [job EXCEPT ![w] =
                 [NoJob EXCEPT !.pc = IF InFolders({f}) = {} THEN "dropFolder" ELSE "unlink",
                               !.then = "dropFolder", !.folder = f, !.files = InFolders({f})]]
            /\ InFolders({f}) \subseteq condemned'
      BY <1>5 DEF StartDeleteFolder
    <2>2. PICK r : r = [NoJob EXCEPT !.pc = IF InFolders({f}) = {} THEN "dropFolder" ELSE "unlink",
                               !.then = "dropFolder", !.folder = f, !.files = InFolders({f})]
      OBVIOUS
    <2>3. UNCHANGED << folders, nextFolder >>
      BY <1>5 DEF StartDeleteFolder, db
    <2>4. Knows(r)'
      BY <1>0, <2>1, <2>2, <2>3 DEF NoJob, Knows
    <2>5. job'[w] = r
      BY <1>0, <2>1, <2>2
    <2>6. QED
      BY <2>4, <2>5, KnowsRecord
  <1>6. CASE StartDeliver(w)
    <2>1. PICK f \in DOMAIN folders :
            job' = [job EXCEPT ![w] = [NoJob EXCEPT !.pc = "insert", !.acct = folders[f].acct,
                                               !.folder = f, !.blob = nextBlob]]
      BY <1>6 DEF StartDeliver
    <2>2. PICK r : r = [NoJob EXCEPT !.pc = "insert", !.acct = folders[f].acct,
                                     !.folder = f, !.blob = nextBlob]
      OBVIOUS
    <2>3. UNCHANGED << folders, nextFolder >>
      BY <1>6 DEF StartDeliver, db
    <2>4. Knows(r)'
      BY <1>0, <2>2, <2>3 DEF NoJob, Knows
    <2>5. job'[w] = r
      BY <1>0, <2>1, <2>2
    <2>6. QED
      BY <2>4, <2>5, KnowsRecord
  <1>7. ASSUME NEW then \in {"idle", "delete"}, StartTransfer(w, then)
        PROVE  Knows(job[w])'
    <2>1. PICK f \in DOMAIN folders, m \in DOMAIN messages : \E flag :
            job' = [job EXCEPT ![w] = [NoJob EXCEPT !.pc = "read", !.then = then,
                                  !.acct = folders[f].acct, !.folder = f, !.src = m,
                                  !.blob = nextBlob, !.flag = flag]]
      BY <1>7 DEF StartTransfer
    <2>0. PICK flag : job' = [job EXCEPT ![w] = [NoJob EXCEPT !.pc = "read", !.then = then,
                                  !.acct = folders[f].acct, !.folder = f, !.src = m,
                                  !.blob = nextBlob, !.flag = flag]]
      BY <2>1
    <2>2. PICK r : r = [NoJob EXCEPT !.pc = "read", !.then = then,
                                  !.acct = folders[f].acct, !.folder = f, !.src = m,
                                  !.blob = nextBlob, !.flag = flag]
      OBVIOUS
    <2>3. UNCHANGED << folders, nextFolder, issued >>
      BY <1>7 DEF StartTransfer, db, hist
    <2>4. Knows(r)'
      BY <1>0, <2>2, <2>3 DEF NoJob, Knows, Delivered
    <2>5. job'[w] = r
      BY <1>0, <2>0, <2>2
    <2>6. QED
      BY <2>4, <2>5, KnowsRecord
  <1>8. CASE StartDelete(w)
    <2>1. PICK m \in DOMAIN messages :
            /\ job' = [job EXCEPT ![w] = [NoJob EXCEPT !.pc = "delete", !.src = m]]
            /\ m \in condemned'
      BY <1>8 DEF StartDelete
    <2>2. PICK r : r = [NoJob EXCEPT !.pc = "delete", !.src = m]
      OBVIOUS
    <2>3. issued' = issued
      BY <1>8 DEF StartDelete
    <2>4. Knows(r)'
      BY <1>0, <2>1, <2>2, <2>3 DEF NoJob, Knows, Delivered
    <2>5. job'[w] = r
      BY <1>0, <2>1, <2>2
    <2>6. QED
      BY <2>4, <2>5, KnowsRecord
  <1>9. CASE StartExpunge(w)
    <2>1. PICK f \in DOMAIN folders :
            job' = [job EXCEPT ![w] = [NoJob EXCEPT !.pc = "unlink", !.then = "rows",
                                     !.folder = f, !.files = Flagged(f), !.ids = Flagged(f)]]
      BY <1>9 DEF StartExpunge
    <2>2. PICK r : r = [NoJob EXCEPT !.pc = "unlink", !.then = "rows",
                                     !.folder = f, !.files = Flagged(f), !.ids = Flagged(f)]
      OBVIOUS
    <2>3. Flagged(f) \subseteq condemned'
      BY <1>0, <1>9 DEF StartExpunge, hist, Flagged, InFolders
    <2>4. Knows(r)'
      BY <2>2, <2>3 DEF NoJob, Knows
    <2>5. job'[w] = r
      BY <1>0, <2>1, <2>2
    <2>6. QED
      BY <2>4, <2>5, KnowsRecord
  <1>10. QED
    BY <1>1, <1>2, <1>3, <1>4, <1>5, <1>6, <1>7, <1>8, <1>9 DEF Start


(* What a delivery writes.                                                  *)
LEMMA Inserted ==
  ASSUME NEW w \in Worker, InsertMessage(w), job[w].folder \in DOMAIN folders
  PROVE  /\ Delivered' = Delivered \cup {job[w].blob}
         /\ DOMAIN messages' = DOMAIN messages \cup {job[w].blob}
         /\ \A m \in DOMAIN messages' :
              m = job[w].blob \/ (m \in DOMAIN messages /\ messages'[m] = messages[m])
         /\ messages'[job[w].blob].acct = job[w].acct
         /\ messages'[job[w].blob].folder = job[w].folder
         /\ messages'[job[w].blob].deleted = job[w].flag
  <1>1. PICK x : x = [folder |-> job[w].folder, uid |-> NextUid(job[w].folder), msg |-> job[w].blob]
    OBVIOUS
  <1>2. x.msg = job[w].blob
    BY <1>1
  <1>3. issued' = issued \cup {x}
    BY <1>1 DEF InsertMessage
  <1>4. Delivered' = Delivered \cup {job[w].blob}
    BY <1>2, <1>3 DEF Delivered
  <1>5. QED
    BY <1>4 DEF InsertMessage, Put

(* What a call knows is true after each of its own statements.              *)
LEMMA StepKnows ==
  ASSUME TypeOK, TypeOK', UidInv, StoreInv, NEW w \in Worker, Step(w)
  PROVE  Knows(job[w])'
  <1>1. PICK j : j = job[w]
    OBVIOUS
  <1>2. [Next]_vars
    BY DEF Next
  <1>3. /\ j \in Job /\ Coherent(j) /\ Knows(j) /\ Knows(j)' /\ Grows
        /\ job \in [Worker -> Call]
    BY <1>1, <1>2, Typed, KnowsStays, GrowsOnly DEF StoreInv, Informed
  <1> USE DEF Filing, Dropping, Moving, Copying, Removing
  <1>4. CASE Finish(w)
    <2>1. job'[w] = NoJob
      BY <1>3, <1>4 DEF Finish
    <2>2. QED
      BY <2>1, IdleKnows, KnowsRecord
  <1>5. ASSUME NEW f, Ensured(w, f), j.pc \in {"lookup", "mkdir"},
               f < nextFolder', f \in DOMAIN folders' => folders'[f].acct = j.acct
        PROVE  Knows(job[w])'
    <2>1. PICK rest : rest = Tail(j.want)
      OBVIOUS
    <2>2. PICK again : again = [j EXCEPT !.pc = "lookup", !.want = rest]
      OBVIOUS
    <2>3. PICK move : move = [j EXCEPT !.pc = "move", !.folder = f, !.want = rest]
      OBVIOUS
    <2>4. Knows(again)'
      BY <1>3, <1>5, <2>2 DEF Knows, Job
    <2>5. j.then = "move" => Knows(move)'
      BY <1>3, <1>5, <2>3 DEF Knows, Job
    <2>6. job'[w] \in {again, NoJob} \/ (j.then = "move" /\ job'[w] = move)
      BY <1>1, <1>3, <1>5, <2>1, <2>2, <2>3 DEF Ensured
    <2>7. QED
      BY <2>4, <2>5, <2>6, IdleKnows, KnowsRecord
  <1>6. CASE EnsureFolderSelect(w)
    <2>1. CASE \E f \in Named(job[w].acct, Head(job[w].want)) : Ensured(w, f)
      <3>1. PICK f \in Named(job[w].acct, Head(job[w].want)) : Ensured(w, f)
        BY <2>1
      <3>2. /\ f < nextFolder /\ f \in DOMAIN folders /\ folders[f].acct = j.acct
            /\ UNCHANGED << folders, nextFolder >>
        BY <1>1, <1>6 DEF EnsureFolderSelect, db, Named, UidInv
      <3>3. QED
        BY <1>1, <1>5, <1>6, <3>1, <3>2 DEF EnsureFolderSelect, At
    <2>2. CASE job' = [job EXCEPT ![w].pc = "mkdir"]
      <3>1. PICK r : r = [j EXCEPT !.pc = "mkdir"]
        OBVIOUS
      <3>2. Knows(r)'
        BY <1>1, <1>3, <1>6, <3>1 DEF EnsureFolderSelect, At, Knows, Job
      <3>3. job'[w] = r
        BY <1>1, <1>3, <2>2, <3>1
      <3>4. QED
        BY <3>2, <3>3, KnowsRecord
    <2>3. QED
      BY <1>6, <2>1, <2>2 DEF EnsureFolderSelect
  <1>7. CASE EnsureFolderInsert(w)
    <2>1. CASE CanInsertFolder(job[w].acct, Head(job[w].want))
      <3>1. PICK f : f = nextFolder
        OBVIOUS
      <3>2. /\ Ensured(w, f) /\ nextFolder' = f + 1
            /\ folders' = Put(folders, f, [acct |-> j.acct, name |-> Head(j.want), next |-> 1])
        BY <1>1, <1>7, <2>1, <3>1 DEF EnsureFolderInsert
      <3>3. folders'[f].acct = j.acct
        BY <3>2 DEF Put
      <3>4. f < nextFolder'
        BY <3>1, <3>2, Typed
      <3>5. QED
        BY <1>1, <1>5, <1>7, <3>2, <3>3, <3>4 DEF EnsureFolderInsert, At
    <2>2. QED
      BY <1>4, <1>7, <2>1 DEF EnsureFolderInsert
  <1>8. CASE ReadBlob(w)
    <2>1. PICK r : r = [j EXCEPT !.pc = "insert"]
      OBVIOUS
    <2>2. Knows(r)'
      BY <1>1, <1>3, <1>8, <2>1 DEF ReadBlob, At, Knows, Job
    <2>3. job'[w] = r \/ Finish(w)
      BY <1>1, <1>3, <1>8, <2>1 DEF ReadBlob
    <2>4. QED
      BY <1>4, <2>2, <2>3, KnowsRecord
  <1>9. CASE InsertMessage(w)
    <2>1. CASE job[w].folder \in DOMAIN folders /\ job[w].then = "delete"
      <3>1. PICK r : r = [j EXCEPT !.pc = "delete"]
        OBVIOUS
      <3>2. job'[w] = r
        BY <1>1, <1>3, <1>9, <2>1, <3>1 DEF InsertMessage
      <3>3. /\ j.src < j.blob /\ origin[j.src] = origin[j.blob] /\ j.blob \in disk
            /\ j.src \in Delivered
        BY <1>1, <1>3, <1>9, <2>1 DEF InsertMessage, At, StoreInv, Owners, Owns, Knows
      <3>4. j.blob \in Delivered' /\ j.blob \in DOMAIN messages'
        BY <1>1, <1>9, <2>1, Inserted
      <3>5. disk' = disk /\ origin' = origin
        BY <1>9 DEF InsertMessage
      <3>6. j.src \in Nat /\ j.blob \in Nat
        BY <1>3, Typed DEF Job
      <3>7. Backed(j.src)' /\ j.src \in Delivered'
        BY <1>3, <3>3, <3>4, <3>5, <3>6 DEF Backed, Intact, Grows
      <3>8. Knows(r)'
        BY <1>1, <1>3, <1>9, <3>1, <3>7 DEF InsertMessage, At, Knows, Job
      <3>9. QED
        BY <3>2, <3>8, KnowsRecord
    <2>2. QED
      BY <1>4, <1>9, <2>1 DEF InsertMessage, AfterFailedInsert
  <1>10. CASE DeleteBegin(w)
    <2>1. PICK r : r = [j EXCEPT !.pc = "commit"]
      OBVIOUS
    <2>2. Knows(r)'
      BY <1>1, <1>3, <1>10, <2>1 DEF DeleteBegin, At, Knows, Job
    <2>3. job'[w] = r
      BY <1>1, <1>3, <1>10, <2>1 DEF DeleteBegin
    <2>4. QED
      BY <2>2, <2>3, KnowsRecord
  <1>11. CASE RemoveFile(w)
    <2>1. PICK b \in j.files :
            /\ job' = [job EXCEPT ![w].files = @ \ {b},
                                  ![w].pc = IF job[w].files = {b} THEN job[w].then ELSE @]
            /\ disk' = disk \ {b}
      BY <1>1, <1>11 DEF RemoveFile
    <2>2. PICK pc : pc = IF j.files = {b} THEN j.then ELSE j.pc
      OBVIOUS
    <2>3. PICK r : r = [j EXCEPT !.files = j.files \ {b}, !.pc = pc]
      OBVIOUS
    <2>4. job'[w] = r
      BY <1>1, <1>3, <2>1, <2>2, <2>3 DEF Job
    <2>5. j.pc = "unlink" /\ j.then \in {"rows", "dropFolder", "dropAccount"}
      BY <1>1, <1>3, <1>11 DEF RemoveFile, At, Coherent
    <2>6. /\ pc \in {"unlink", j.then} /\ (pc = "rows" => j.files = {b})
          /\ r.files = j.files \ {b} /\ r.pc = pc
          /\ r.then = j.then /\ r.folder = j.folder /\ r.src = j.src /\ r.ids = j.ids
          /\ r.acct = j.acct
      BY <1>3, <2>2, <2>3, <2>5 DEF Job
    <2>7. Knows(r)'
      BY <1>3, <2>1, <2>5, <2>6 DEF Knows
    <2>8. QED
      BY <2>4, <2>7, KnowsRecord
  <1>12. CASE DeleteRow(w)
    <2>1. PICK b \in j.ids :
            IF j.ids = {b} THEN Finish(w) ELSE job' = [job EXCEPT ![w].ids = @ \ {b}]
      BY <1>1, <1>12 DEF DeleteRow
    <2>2. PICK r : r = [j EXCEPT !.ids = j.ids \ {b}]
      OBVIOUS
    <2>3. Knows(r)'
      BY <1>1, <1>3, <1>12, <2>2 DEF DeleteRow, At, Knows, Job
    <2>4. job'[w] = r \/ Finish(w)
      BY <1>1, <1>3, <2>1, <2>2 DEF Job
    <2>5. QED
      BY <1>4, <2>3, <2>4, KnowsRecord
  <1>13. QED
    BY <1>4, <1>6, <1>7, <1>8, <1>9, <1>10, <1>11, <1>12
       DEF Step, DropAccount, MoveMessage, DropFolder, DeleteCommit


-----------------------------------------------------------------------------
(* The name a call drew and the file it wrote.                              *)

(* A step leaves blob b, which was drawn and not yet delivered, alone.      *)
Respects(b) ==
  /\ b < nextBlob' /\ b \notin Delivered'
  /\ b \in disk' <=> b \in disk
  /\ origin'[b] = origin[b]

(* A step leaves alone the file that another call is about to insert.       *)
LEMMA OthersRespect ==
  ASSUME TypeOK, StoreInv, NEW w \in Worker, Start(w) \/ Step(w),
         NEW u \in Worker, u # w, Pending(job[u])
  PROVE  Respects(job[u].blob)
  <1>1. PICK b : b = job[u].blob
    OBVIOUS
  <1>2. b \in Nat /\ nextBlob \in Nat /\ b < nextBlob /\ b \notin Delivered /\ b \notin DOMAIN messages
    BY <1>1, Typed DEF StoreInv, Owners, Owns, Recorded, Job
  <1>3. Pending(job[w]) => b # job[w].blob
    BY <1>1 DEF StoreInv, Apart
  <1>4. CASE Reads \/ CreateAccount(w) \/ EnsureFolderInsert(w) \/ DropAccount(w) \/ DropFolder(w)
             \/ DeleteCommit(w) \/ DeleteRow(w)
    <2>1. UNCHANGED << disk, nextBlob, issued, origin >>
      BY <1>4 DEF Reads, CreateAccount, EnsureFolderInsert, DropAccount, DropFolder,
         DeleteCommit, DeleteRow, hist
    <2>2. QED
      BY <1>1, <1>2, <2>1 DEF Respects, Delivered
  <1>5. CASE StartDeliver(w) \/ \E then \in {"idle", "delete"} : StartTransfer(w, then)
    <2>1. /\ nextBlob' = nextBlob + 1 /\ disk' \in {disk, disk \cup {nextBlob}}
          /\ UNCHANGED << issued, origin >>
      BY <1>5 DEF StartDeliver, StartTransfer, hist
    <2>2. QED
      BY <1>1, <1>2, <2>1 DEF Respects, Delivered
  <1>6. CASE MoveMessage(w)
    <2>1. job[w].src \in DOMAIN messages \/ issued' = issued
      BY <1>6 DEF MoveMessage
    <2>2. issued' \subseteq issued \cup {[folder |-> job[w].folder, uid |-> NextUid(job[w].folder),
                                          msg |-> job[w].src]}
      BY <1>6 DEF MoveMessage
    <2>3. b \notin Delivered'
      BY <1>2, <2>1, <2>2 DEF Delivered
    <2>4. QED
      BY <1>1, <1>2, <1>6, <2>3 DEF MoveMessage, Respects
  <1>7. CASE ReadBlob(w)
    <2>1. b # job[w].blob
      BY <1>3, <1>7 DEF ReadBlob, At, Pending
    <2>2. /\ disk' \in {disk, disk \cup {job[w].blob}}
          /\ origin' \in {origin, [origin EXCEPT ![job[w].blob] = origin[job[w].src]]}
          /\ UNCHANGED << nextBlob, issued >>
      BY <1>7 DEF ReadBlob
    <2>3. origin'[b] = origin[b]
      <3>1. origin \in [Blob -> Blob] /\ b \in Blob
        BY <1>1, Typed DEF Coherent, Pending
      <3>2. QED
        BY <2>1, <2>2, <3>1
    <2>4. QED
      BY <1>1, <1>2, <2>1, <2>2, <2>3 DEF Respects, Delivered
  <1>8. CASE InsertMessage(w)
    <2>1. b # job[w].blob
      BY <1>3, <1>8 DEF InsertMessage, At, Pending
    <2>2. b \notin Delivered'
      <3>1. CASE job[w].folder \in DOMAIN folders
        BY <1>2, <1>8, <2>1, <3>1, Inserted
      <3>2. CASE job[w].folder \notin DOMAIN folders
        BY <1>2, <1>8, <3>2 DEF InsertMessage, Delivered
      <3>3. QED
        BY <3>1, <3>2
    <2>3. QED
      BY <1>1, <1>2, <1>8, <2>2 DEF InsertMessage, Respects
  <1>9. CASE DeleteBegin(w)
    <2>1. b \in disk' <=> b \in disk
      BY <1>2, <1>9 DEF DeleteBegin, FilesAfterDelete
    <2>2. QED
      BY <1>1, <1>2, <1>9, <2>1 DEF DeleteBegin, hist, Respects, Delivered
  <1>10. CASE RemoveFile(w)
    <2>1. b \notin job[w].files
      BY <1>2 DEF StoreInv, Informed, Knows, Recorded
    <2>2. b \in disk' <=> b \in disk
      BY <1>10, <2>1 DEF RemoveFile
    <2>3. QED
      BY <1>1, <1>2, <1>10, <2>2 DEF RemoveFile, hist, Respects, Delivered
  <1>11. QED
    BY <1>4, <1>5, <1>6, <1>7, <1>8, <1>9, <1>10, ReadSteps DEF Start, Step

(* How a call comes to have a name of its own: by drawing the next one, or  *)
(* it had it already and now has written the file.                          *)
Draws(w) ==
  /\ job'[w].blob = nextBlob /\ nextBlob' = nextBlob + 1 /\ issued' = issued
  /\ \/ job'[w].pc = "insert" /\ job'[w].then # "delete" /\ nextBlob \in disk'
     \/ job'[w].pc = "read" /\ job'[w].src \in Delivered /\ disk' = disk

Writes(w) ==
  /\ job[w].pc = "read" /\ job'[w].pc = "insert"
  /\ job'[w].blob = job[w].blob /\ job'[w].src = job[w].src /\ job'[w].then = job[w].then
  /\ job[w].blob \in disk'
  /\ origin' = [origin EXCEPT ![job[w].blob] = origin[job[w].src]]
  /\ UNCHANGED << nextBlob, issued >>

(* A call that is about to insert drew its file name or wrote the file in   *)
(* this very step.                                                          *)
LEMMA PendingAfter ==
  ASSUME TypeOK, StoreInv, NEW w \in Worker, Start(w) \/ Step(w)
  PROVE  ~ Pending(job'[w]) \/ Draws(w) \/ Writes(w)
  <1>0. job \in [Worker -> Call] /\ job[w] \in Job /\ Coherent(job[w])
    BY Typed
  <1>1. CASE Finish(w)
    BY <1>0, <1>1 DEF Finish, NoJob, Pending
  <1>2. CASE CreateAccount(w) \/ StartDeleteAccount(w) \/ StartEnsureFolder(w)
             \/ StartMoveToFolderName(w) \/ StartDeleteFolder(w) \/ StartDelete(w) \/ StartExpunge(w)
    <2>1. CASE CreateAccount(w) \/ StartDeleteAccount(w)
      BY <1>0, <2>1 DEF CreateAccount, StartDeleteAccount, NoJob, Pending
    <2>2. CASE StartEnsureFolder(w) \/ StartMoveToFolderName(w)
      BY <1>0, <2>2 DEF StartEnsureFolder, StartMoveToFolderName, NoJob, Pending
    <2>3. CASE StartDeleteFolder(w) \/ StartDelete(w)
      <3>1. CASE StartDeleteFolder(w)
        BY <1>0, <3>1 DEF StartDeleteFolder, NoJob, Pending
      <3>2. CASE StartDelete(w)
        BY <1>0, <3>2 DEF StartDelete, NoJob, Pending
      <3>3. QED
        BY <2>3, <3>1, <3>2
    <2>4. CASE StartExpunge(w)
      BY <1>0, <2>4 DEF StartExpunge, NoJob, Pending
    <2>5. QED
      BY <1>2, <2>1, <2>2, <2>3, <2>4
  <1>3. CASE StartDeliver(w)
    <2>1. PICK f \in DOMAIN folders :
            job' = [job EXCEPT ![w] = [NoJob EXCEPT !.pc = "insert", !.acct = folders[f].acct,
                                               !.folder = f, !.blob = nextBlob]]
      BY <1>3 DEF StartDeliver
    <2>2. job'[w].pc = "insert" /\ job'[w].then = "idle" /\ job'[w].blob = nextBlob
      BY <1>0, <2>1 DEF NoJob
    <2>3. QED
      BY <1>3, <2>2 DEF StartDeliver, hist, Draws
  <1>4. ASSUME NEW then \in {"idle", "delete"}, StartTransfer(w, then)
        PROVE  Draws(w)
    <2>1. PICK m \in DOMAIN messages : \E f, flag :
            job' = [job EXCEPT ![w] = [NoJob EXCEPT !.pc = "read", !.then = then,
                                  !.acct = folders[f].acct, !.folder = f, !.src = m,
                                  !.blob = nextBlob, !.flag = flag]]
      BY <1>4 DEF StartTransfer
    <2>2. job'[w].pc = "read" /\ job'[w].src = m /\ job'[w].blob = nextBlob
      BY <1>0, <2>1 DEF NoJob
    <2>3. m \in Delivered
      BY DEF StoreInv, Recorded
    <2>4. QED
      BY <1>4, <2>2, <2>3 DEF StartTransfer, hist, Draws
  <1>5. CASE EnsureFolderSelect(w) \/ EnsureFolderInsert(w)
    <2>1. \A f : Ensured(w, f) => job'[w].pc \in {"lookup", "move", "idle"}
      BY <1>0 DEF Ensured, Job, NoJob
    <2>2. job'[w].pc \in {"lookup", "move", "idle", "mkdir"}
      BY <1>0, <1>5, <2>1 DEF EnsureFolderSelect, EnsureFolderInsert, Finish, NoJob, Job
    <2>3. QED
      BY <2>2 DEF Pending
  <1>6. CASE ReadBlob(w)
    <2>1. CASE job[w].src \in disk
      <3>1. job' = [job EXCEPT ![w].pc = "insert"]
        BY <1>6, <2>1 DEF ReadBlob
      <3>2. /\ job'[w].pc = "insert" /\ job'[w].blob = job[w].blob
            /\ job'[w].src = job[w].src /\ job'[w].then = job[w].then
        BY <1>0, <3>1 DEF Job
      <3>3. QED
        BY <1>6, <2>1, <3>2 DEF ReadBlob, At, Writes
    <2>2. QED
      BY <1>1, <1>6, <2>1 DEF ReadBlob
  <1>7. CASE InsertMessage(w)
    <2>1. CASE job' = [job EXCEPT ![w].pc = "delete"]
      BY <1>0, <2>1 DEF Job, Pending
    <2>2. QED
      BY <1>1, <1>7, <2>1 DEF InsertMessage, AfterFailedInsert
  <1>8. CASE DeleteBegin(w)
    BY <1>0, <1>8 DEF DeleteBegin, Job, Pending
  <1>9. CASE RemoveFile(w)
    <2>1. job'[w].pc \in {job[w].pc, job[w].then}
      BY <1>0, <1>9 DEF RemoveFile, Job
    <2>2. QED
      BY <1>0, <1>9, <2>1 DEF RemoveFile, At, Coherent, Pending
  <1>10. CASE DeleteRow(w)
    <2>1. job'[w].pc = job[w].pc \/ Finish(w)
      BY <1>0, <1>10 DEF DeleteRow, Job
    <2>2. QED
      BY <1>1, <1>10, <2>1 DEF DeleteRow, At, Pending
  <1>11. QED
    BY <1>1, <1>2, <1>3, <1>4, <1>5, <1>6, <1>7, <1>8, <1>9, <1>10
       DEF Start, Step, DropAccount, MoveMessage, DropFolder, DeleteCommit


(* A pending call after a step of another: nothing it owns was touched.     *)
LEMMA OtherOwns ==
  ASSUME TypeOK, StoreInv, NEW w \in Worker, Start(w) \/ Step(w),
         NEW u \in Worker, u # w, job'[u] = job[u]
  PROVE  Owns(job[u])'
  <1>1. PICK j : j = job[u]
    OBVIOUS
  <1>2. j \in Job /\ Knows(j) /\ Owns(j) /\ Grows
    BY <1>1, Typed, GrowsOnly DEF StoreInv, Informed, Owners, Next
  <1>3. Pending(j) => Respects(j.blob)
    BY <1>1, OthersRespect
  <1>4. Copying(j) => j.src \in Delivered /\ Pending(j)
    BY <1>2 DEF Knows, Copying, Pending
  <1>5. Copying(j) => origin'[j.src] = origin[j.src]
    BY <1>2, <1>4 DEF Grows
  <1>6. /\ Pending(j) => j.blob < nextBlob' /\ j.blob \notin Delivered'
        /\ Copying(j) => j.src < j.blob
        /\ j.pc = "read" => j.blob \notin disk'
        /\ j.pc = "insert" => j.blob \in disk'
        /\ j.pc = "insert" /\ j.then = "delete" => origin'[j.src] = origin'[j.blob]
    BY <1>2, <1>3, <1>5 DEF Owns, Respects, Pending, Copying
  <1>7. job'[u] = j
    BY <1>1
  <1>8. QED
    BY <1>6, <1>7 DEF Owns, Delivered, Pending, Copying

(* A call owns the file it is about to insert, after each of its steps.     *)
LEMMA SelfOwns ==
  ASSUME TypeOK, StoreInv, NEW w \in Worker, Start(w) \/ Step(w)
  PROVE  Owns(job[w])'
  <1>0. /\ job[w] \in Job /\ Coherent(job[w]) /\ Knows(job[w]) /\ Owns(job[w])
        /\ Delivered \subseteq Blob /\ Blob \subseteq Nat /\ nextBlob \in Nat
        /\ origin \in [Blob -> Blob]
        /\ \A b \in Delivered \cup disk : b < nextBlob
    BY Typed DEF StoreInv, Informed, Owners, Recorded
  <1>1. CASE ~ Pending(job'[w])
    BY <1>1 DEF Owns, Pending, Copying
  <1>2. CASE Draws(w)
    <2>1. nextBlob \notin Delivered /\ nextBlob \notin disk
      BY <1>0
    <2>2. job'[w].pc = "read" => job'[w].src < nextBlob
      BY <1>0, <1>2 DEF Draws
    <2>3. QED
      BY <1>0, <1>2, <2>1, <2>2 DEF Draws, Owns, Pending, Copying, Delivered
  <1>3. CASE Writes(w)
    <2>1. PICK b, s : b = job[w].blob /\ s = job[w].src
      OBVIOUS
    <2>2. b \in Blob /\ s \in Delivered /\ s < b /\ b < nextBlob /\ b \notin Delivered
      BY <1>0, <1>3, <2>1 DEF Writes, Coherent, Owns, Knows, Copying, Pending
    <2>3. origin'[b] = origin[s] /\ origin'[s] = origin[s]
      BY <1>0, <1>3, <2>1, <2>2 DEF Writes
    <2>4. QED
      BY <1>3, <2>1, <2>2, <2>3 DEF Writes, Owns, Pending, Copying, Delivered
  <1>4. QED
    BY <1>1, <1>2, <1>3, PendingAfter

(* Only its own step changes a call.                                        *)
LEMMA OthersCalls ==
  ASSUME TypeOK, NEW w \in Worker, Start(w) \/ Step(w)
  PROVE  \A u \in Worker : u # w => job'[u] = job[u]
  <1>0. job \in [Worker -> Call]
    BY Typed
  <1>1. CASE Finish(w) \/ \E f : Ensured(w, f)
    BY <1>0, <1>1 DEF Finish, Ensured
  <1>2. CASE Start(w)
    BY <1>0, <1>2 DEF Start, CreateAccount, StartDeleteAccount, StartEnsureFolder,
       StartMoveToFolderName, StartDeleteFolder, StartDeliver, StartTransfer, StartDelete,
       StartExpunge
  <1>3. CASE \/ DropAccount(w) \/ MoveMessage(w) \/ DropFolder(w) \/ DeleteCommit(w)
             \/ EnsureFolderSelect(w) \/ EnsureFolderInsert(w)
    BY <1>0, <1>1, <1>3 DEF DropAccount, MoveMessage, DropFolder, DeleteCommit,
       EnsureFolderSelect, EnsureFolderInsert
  <1>4. CASE ReadBlob(w) \/ InsertMessage(w) \/ DeleteBegin(w) \/ DeleteRow(w)
    BY <1>0, <1>1, <1>4 DEF ReadBlob, InsertMessage, AfterFailedInsert, DeleteBegin, DeleteRow
  <1>5. CASE RemoveFile(w)
    BY <1>0, <1>5 DEF RemoveFile
  <1>6. QED
    BY <1>2, <1>3, <1>4, <1>5 DEF Step

(* The steps that are no goroutine's.                                       *)
LEMMA ClientSteps ==
  ASSUME RenameFolder \/ \E m \in DOMAIN messages : SetDeleted(m) \/ ClearDeleted(m)
  PROVE  /\ UNCHANGED << accounts, nextFolder, disk, nextBlob, tx, job, crashes, issued, origin >>
         /\ DOMAIN messages' = DOMAIN messages /\ DOMAIN folders' = DOMAIN folders
  BY DEF RenameFolder, SetDeleted, ClearDeleted, hist

(* Every step keeps what calls know, what they own, and that they own       *)
(* different files.                                                         *)
LEMMA CallsStep ==
  ASSUME TypeOK, TypeOK', UidInv, StoreInv, [Next]_vars
  PROVE  Informed' /\ Owners' /\ Apart'
  <1>1. ASSUME NEW w \in Worker, Start(w) \/ Step(w)
        PROVE  Informed' /\ Owners' /\ Apart'
    <2>1. \A u \in Worker : u # w => job'[u] = job[u]
      BY <1>1, OthersCalls
    <2>2. \A u \in Worker : Knows(job[u])'
      BY <1>1, <2>1, OtherKnows, StartKnows, StepKnows DEF Next
    <2>3. \A u \in Worker : Owns(job[u])'
      BY <1>1, <2>1, OtherOwns, SelfOwns
    <2>4. \A u \in Worker : u # w /\ Pending(job'[u]) /\ Pending(job'[w]) => job'[u].blob # job'[w].blob
      <3> SUFFICES ASSUME NEW u \in Worker, u # w, Pending(job'[u]), Pending(job'[w])
                   PROVE  job'[u].blob # job'[w].blob
        OBVIOUS
      <3>1. job'[u] = job[u] /\ job[u].blob \in Nat /\ job[u].blob < nextBlob /\ nextBlob \in Nat
        BY <2>1, Typed DEF StoreInv, Owners, Owns, Job
      <3>2. CASE Draws(w)
        BY <3>1, <3>2 DEF Draws
      <3>3. CASE Writes(w)
        BY <3>1, <3>3 DEF Writes, StoreInv, Apart, Pending
      <3>4. QED
        BY <1>1, <3>2, <3>3, PendingAfter
    <2>5. \A u, v \in Worker : u # v /\ Pending(job'[u]) /\ Pending(job'[v]) => job'[u].blob # job'[v].blob
      BY <2>1, <2>4 DEF StoreInv, Apart
    <2>6. QED
      BY <2>2, <2>3, <2>5 DEF Informed, Owners, Apart, Pending
  <1>2. CASE \/ RenameFolder \/ \E m \in DOMAIN messages : SetDeleted(m) \/ ClearDeleted(m)
             \/ UNCHANGED vars
    <2>1. UNCHANGED << disk, nextBlob, job, issued, origin >>
      BY <1>2, ClientSteps DEF vars, hist
    <2>2. \A u \in Worker : Knows(job[u])'
      BY <1>2, <2>1, OtherKnows DEF Next
    <2>3. QED
      BY <2>1, <2>2 DEF StoreInv, Informed, Owners, Owns, Apart, Pending, Copying, Delivered
  <1>3. CASE Crash
    <2>1. \A u \in Worker : job'[u] = NoJob
      BY <1>3 DEF Crash
    <2>2. \A u \in Worker : Knows(job[u])'
      BY <2>1, IdleKnows, KnowsRecord
    <2>3. \A u \in Worker : ~ Pending(job'[u]) /\ ~ Copying(job'[u])
      BY <2>1 DEF NoJob, Pending, Copying
    <2>4. QED
      BY <2>2, <2>3 DEF Informed, Owners, Owns, Apart, Pending, Copying
  <1>4. QED
    BY <1>1, <1>2, <1>3 DEF Next


-----------------------------------------------------------------------------
(* The rows, the files and the history.                                     *)
LEMMA RecordedStep ==
  ASSUME TypeOK, StoreInv, [Next]_vars
  PROVE  Recorded'
  <1>0. /\ Recorded /\ Owners /\ nextBlob \in Nat
        /\ \A m \in DOMAIN messages : messages[m] \in MessageRow
        /\ \A w \in Worker : job[w] \in Job
        /\ Delivered \subseteq Nat /\ disk \subseteq Nat
    BY Typed DEF StoreInv
  <1>1. CASE /\ UNCHANGED << messages, nextBlob, issued >> /\ disk' \subseteq disk
             /\ condemned \subseteq condemned' /\ condemned' \subseteq condemned \cup DOMAIN messages
    BY <1>0, <1>1 DEF Recorded, Delivered
  <1>2. ASSUME NEW w \in Worker, StartDeliver(w) \/ \E then \in {"idle", "delete"} : StartTransfer(w, then)
        PROVE  Recorded'
    <2>1. /\ nextBlob' = nextBlob + 1 /\ disk' \subseteq disk \cup {nextBlob}
          /\ UNCHANGED << messages, hist >>
      BY <1>2 DEF StartDeliver, StartTransfer, db
    <2>2. Delivered' = Delivered /\ condemned' = condemned
      BY <2>1 DEF Delivered, hist
    <2>3. \A b \in Delivered \cup disk \cup {nextBlob} : b < nextBlob + 1
      BY <1>0 DEF Recorded
    <2>4. QED
      BY <1>0, <2>1, <2>2, <2>3 DEF Recorded
  <1>3. ASSUME NEW w \in Worker, ReadBlob(w)
        PROVE  Recorded'
    <2>1. job[w].blob < nextBlob
      BY <1>0, <1>3 DEF ReadBlob, At, Owners, Owns, Pending
    <2>2. disk' \subseteq disk \cup {job[w].blob} /\ UNCHANGED << messages, nextBlob, issued, condemned >>
      BY <1>3 DEF ReadBlob, db
    <2>3. QED
      BY <1>0, <2>1, <2>2 DEF Recorded, Delivered
  <1>4. ASSUME NEW w \in Worker, MoveMessage(w)
        PROVE  Recorded'
    <2>1. /\ DOMAIN messages' = DOMAIN messages /\ UNCHANGED << disk, nextBlob, condemned >>
          /\ \A m \in DOMAIN messages : messages'[m].deleted = messages[m].deleted
      BY <1>0, <1>4 DEF MoveMessage, MessageRow
    <2>2. job[w].src \in DOMAIN messages \/ issued' = issued
      BY <1>4 DEF MoveMessage
    <2>3. /\ issued \subseteq issued'
          /\ issued' \subseteq issued \cup {[folder |-> job[w].folder, uid |-> NextUid(job[w].folder),
                                             msg |-> job[w].src]}
      BY <1>4 DEF MoveMessage
    <2>4. Delivered' = Delivered
      BY <1>0, <2>2, <2>3 DEF Delivered, Recorded
    <2>5. QED
      BY <1>0, <2>1, <2>4 DEF Recorded
  <1>5. ASSUME NEW w \in Worker, InsertMessage(w), job[w].folder \in DOMAIN folders
        PROVE  Recorded'
    <2>1. job[w].blob < nextBlob
      BY <1>0, <1>5 DEF InsertMessage, At, Owners, Owns, Pending
    <2>2. condemned' = condemned \cup (IF job[w].flag THEN {job[w].blob} ELSE {})
      BY <1>5 DEF InsertMessage
    <2>3. disk' = disk /\ nextBlob' = nextBlob
      BY <1>5 DEF InsertMessage
    <2>4. \A m \in DOMAIN messages' : messages'[m].deleted => m \in condemned'
      <3>1. \A m \in DOMAIN messages' :
              \/ messages'[m].deleted = job[w].flag /\ m = job[w].blob
              \/ m \in DOMAIN messages /\ messages'[m] = messages[m]
        BY <1>5, Inserted
      <3>2. QED
        BY <1>0, <2>2, <3>1 DEF Recorded
    <2>5. DOMAIN messages' \subseteq Delivered' /\ condemned' \subseteq Delivered'
      BY <1>0, <1>5, <2>2, Inserted DEF Recorded
    <2>6. \A b \in Delivered' \cup disk' : b < nextBlob'
      BY <1>0, <1>5, <2>1, <2>3, Inserted DEF Recorded
    <2>7. QED
      BY <2>4, <2>5, <2>6 DEF Recorded
  <1>6. ASSUME NEW w \in Worker, DropAccount(w) \/ DropFolder(w) \/ DeleteCommit(w) \/ DeleteRow(w)
        PROVE  Recorded'
    <2>1. \A m \in DOMAIN messages' : m \in DOMAIN messages /\ messages'[m] = messages[m]
      BY <1>6 DEF DropAccount, DropFolder, DeleteCommit, DeleteRow, Cascade, Without, Restrict
    <2>2. condemned \subseteq condemned' /\ condemned' \subseteq condemned \cup DOMAIN messages
      BY <1>6 DEF DropAccount, DropFolder, DeleteCommit, DeleteRow, hist, OfAccount, InFolders
    <2>3. UNCHANGED << disk, nextBlob, issued >>
      BY <1>6 DEF DropAccount, DropFolder, DeleteCommit, DeleteRow, hist
    <2>4. QED
      BY <1>0, <2>1, <2>2, <2>3 DEF Recorded, Delivered
  <1>7. CASE RenameFolder
    BY <1>1, <1>7 DEF RenameFolder, hist
  <1>8. ASSUME NEW m \in DOMAIN messages, SetDeleted(m) \/ ClearDeleted(m)
        PROVE  Recorded'
    <2>1. /\ DOMAIN messages' = DOMAIN messages /\ UNCHANGED << disk, nextBlob, issued >>
          /\ condemned \subseteq condemned' /\ condemned' \subseteq condemned \cup DOMAIN messages
      BY <1>8 DEF SetDeleted, ClearDeleted, hist
    <2>2. \A n \in DOMAIN messages : messages'[n].deleted => n \in condemned'
      <3>1. CASE SetDeleted(m)
        BY <1>0, <3>1 DEF SetDeleted, MessageRow, Recorded
      <3>2. CASE ClearDeleted(m)
        BY <1>0, <3>2 DEF ClearDeleted, MessageRow, Recorded, hist
      <3>3. QED
        BY <1>8, <3>1, <3>2
    <2>3. QED
      BY <1>0, <2>1, <2>2 DEF Recorded, Delivered
  <1>9. ASSUME NEW w \in Worker, \/ CreateAccount(w) \/ EnsureFolderInsert(w) \/ DeleteBegin(w)
                                 \/ RemoveFile(w) \/ Reads
                                 \/ InsertMessage(w) /\ job[w].folder \notin DOMAIN folders
        PROVE  Recorded'
    BY <1>1, <1>9 DEF CreateAccount, EnsureFolderInsert, DeleteBegin, FilesAfterDelete, RemoveFile,
       Reads, InsertMessage, db, hist
  <1>10. CASE Crash \/ UNCHANGED vars
    BY <1>1, <1>10 DEF Crash, vars, db, hist
  <1>11. QED
    BY <1>2, <1>3, <1>4, <1>5, <1>6, <1>7, <1>8, <1>9, <1>10, ReadSteps DEF Next, Start, Step

(* Where messages are.                                                      *)
LEMMA PlacedStep ==
  ASSUME TypeOK, UidInv, StoreInv, [Next]_vars
  PROVE  Placed'
  <1>0. /\ Placed /\ Informed
        /\ \A f \in DOMAIN folders : folders[f] \in FolderRow
        /\ \A m \in DOMAIN messages : messages[m] \in MessageRow
    BY Typed DEF StoreInv
  <1>1. CASE /\ accounts \subseteq accounts' /\ DOMAIN folders' = DOMAIN folders
             /\ \A f \in DOMAIN folders : folders'[f].acct = folders[f].acct
             /\ \A m \in DOMAIN messages' : m \in DOMAIN messages /\
                  messages'[m].acct = messages[m].acct /\ messages'[m].folder = messages[m].folder
    BY <1>0, <1>1 DEF Placed, OwnFolder
  <1>2. CASE /\ accounts \subseteq accounts' /\ folders' = folders
             /\ \A m \in DOMAIN messages' : m \in DOMAIN messages /\ messages'[m] = messages[m]
    BY <1>1, <1>2
  <1>3. ASSUME NEW w \in Worker, EnsureFolderInsert(w)
        PROVE  Placed'
    <2>1. CASE CanInsertFolder(job[w].acct, Head(job[w].want))
      <3>1. PICK row : row = [acct |-> job[w].acct, name |-> Head(job[w].want), next |-> 1]
        OBVIOUS
      <3>2. folders' = Put(folders, nextFolder, row) /\ row.acct \in accounts
        BY <1>3, <2>1, <3>1 DEF EnsureFolderInsert, CanInsertFolder
      <3>3. nextFolder \notin DOMAIN folders
        BY Typed DEF UidInv
      <3>4. /\ DOMAIN folders' = DOMAIN folders \cup {nextFolder}
            /\ folders'[nextFolder] = row /\ \A f \in DOMAIN folders : folders'[f] = folders[f]
        BY <3>2, <3>3 DEF Put
      <3>5. accounts' = accounts /\ messages' = messages
        BY <1>3 DEF EnsureFolderInsert
      <3>6. QED
        BY <1>0, <3>2, <3>4, <3>5 DEF Placed, OwnFolder
    <2>2. CASE ~ CanInsertFolder(job[w].acct, Head(job[w].want))
      BY <1>2, <1>3, <2>2 DEF EnsureFolderInsert
    <2>3. QED
      BY <2>1, <2>2
  <1>4. ASSUME NEW w \in Worker, MoveMessage(w), messages' # messages
        PROVE  Placed'
    <2>1. PICK m, f : m = job[w].src /\ f = job[w].folder
      OBVIOUS
    <2>2. /\ m \in DOMAIN messages /\ f \in DOMAIN folders /\ accounts' = accounts
          /\ messages' = [messages EXCEPT ![m].folder = f, ![m].uid = NextUid(f)]
          /\ folders' = [folders EXCEPT ![f].next = @ + 1]
      BY <1>4, <2>1 DEF MoveMessage
    <2>3. folders[f].acct = messages[m].acct
      BY <1>0, <1>4, <2>1, <2>2 DEF MoveMessage, At, Informed, Knows, Filing, Moving
    <2>4. DOMAIN folders' = DOMAIN folders /\ \A g \in DOMAIN folders : folders'[g].acct = folders[g].acct
      BY <1>0, <2>2 DEF FolderRow
    <2>5. /\ DOMAIN messages' = DOMAIN messages
          /\ \A n \in DOMAIN messages :
               /\ messages'[n].acct = messages[n].acct
               /\ messages'[n].folder = IF n = m THEN f ELSE messages[n].folder
      BY <1>0, <2>2 DEF MessageRow
    <2>6. QED
      BY <1>0, <2>2, <2>3, <2>4, <2>5 DEF Placed, OwnFolder
  <1>5. ASSUME NEW w \in Worker, InsertMessage(w), job[w].folder \in DOMAIN folders
        PROVE  Placed'
    <2>1. PICK b, f, a : b = job[w].blob /\ f = job[w].folder /\ a = job[w].acct
      OBVIOUS
    <2>2. f \in DOMAIN folders /\ folders[f].acct = a /\ a \in accounts
      BY <1>0, <1>5, <2>1 DEF InsertMessage, At, Informed, Knows, Filing, Placed
    <2>3. /\ accounts' = accounts /\ DOMAIN folders' = DOMAIN folders
          /\ \A g \in DOMAIN folders : folders'[g].acct = folders[g].acct
      BY <1>0, <1>5 DEF InsertMessage, FolderRow
    <2>4. \A m \in DOMAIN messages' :
            \/ m \in DOMAIN messages /\ messages'[m] = messages[m]
            \/ messages'[m].acct = a /\ messages'[m].folder = f
      BY <1>5, <2>1, Inserted
    <2>5. QED
      BY <1>0, <2>2, <2>3, <2>4 DEF Placed, OwnFolder
  <1>6. ASSUME NEW w \in Worker, DropAccount(w) \/ DropFolder(w)
        PROVE  Placed'
    <2>1. CASE DropAccount(w)
      <3>1. PICK a : a = job[w].acct
        OBVIOUS
      <3>2. PICK fs : fs = {f \in DOMAIN folders : folders[f].acct = a}
        OBVIOUS
      <3>3. /\ accounts' = accounts \ {a} /\ folders' = Without(folders, fs)
            /\ messages' = Restrict(Cascade(fs), DOMAIN Cascade(fs) \ OfAccount(a))
        BY <2>1, <3>1, <3>2 DEF DropAccount
      <3>4. DOMAIN folders' = DOMAIN folders \ fs /\ \A f \in DOMAIN folders' : folders'[f] = folders[f]
        BY <3>3 DEF Without, Restrict
      <3>5. \A m \in DOMAIN messages' : m \in DOMAIN messages /\ messages'[m] = messages[m]
                                       /\ messages[m].acct # a
        BY <3>3 DEF Cascade, Without, Restrict, OfAccount
      <3>6. QED
        <4>1. \A f \in DOMAIN folders' : folders'[f].acct \in accounts'
          BY <1>0, <3>2, <3>3, <3>4 DEF Placed
        <4>2. \A m \in DOMAIN messages' :
                /\ messages[m].acct \in accounts' /\ messages[m].folder \in DOMAIN folders'
                /\ folders'[messages[m].folder].acct = messages[m].acct
          BY <1>0, <3>2, <3>3, <3>4, <3>5 DEF Placed, OwnFolder
        <4>3. QED
          BY <3>5, <4>1, <4>2 DEF Placed, OwnFolder
    <2>2. CASE DropFolder(w)
      <3>1. PICK f : f = job[w].folder
        OBVIOUS
      <3>2. accounts' = accounts /\ folders' = Without(folders, {f}) /\ messages' = Cascade({f})
        BY <2>2, <3>1 DEF DropFolder
      <3>3. DOMAIN folders' = DOMAIN folders \ {f} /\ \A g \in DOMAIN folders' : folders'[g] = folders[g]
        BY <3>2 DEF Without, Restrict
      <3>4. \A m \in DOMAIN messages' : m \in DOMAIN messages /\ messages'[m] = messages[m]
                                       /\ messages[m].folder # f
        BY <3>2 DEF Cascade, Without, Restrict, InFolders
      <3>5. QED
        <4>1. \A g \in DOMAIN folders' : folders'[g].acct \in accounts'
          BY <1>0, <3>2, <3>3 DEF Placed
        <4>2. \A m \in DOMAIN messages' :
                /\ messages[m].acct \in accounts' /\ messages[m].folder \in DOMAIN folders'
                /\ folders'[messages[m].folder].acct = messages[m].acct
          BY <1>0, <3>2, <3>3, <3>4 DEF Placed, OwnFolder
        <4>3. QED
          BY <3>4, <4>1, <4>2 DEF Placed, OwnFolder
    <2>3. QED
      BY <1>6, <2>1, <2>2
  <1>7. ASSUME NEW w \in Worker,
               \/ Reads \/ CreateAccount(w) \/ StartDeliver(w)
               \/ \E then \in {"idle", "delete"} : StartTransfer(w, then)
               \/ ReadBlob(w) \/ DeleteBegin(w) \/ DeleteCommit(w) \/ RemoveFile(w) \/ DeleteRow(w)
        PROVE  Placed'
    <2>1. accounts \subseteq accounts' /\ folders' = folders
      BY <1>7 DEF Reads, CreateAccount, StartDeliver, StartTransfer, ReadBlob, DeleteBegin,
         DeleteCommit, RemoveFile, DeleteRow, db
    <2>2. \A m \in DOMAIN messages' : m \in DOMAIN messages /\ messages'[m] = messages[m]
      BY <1>7 DEF Reads, CreateAccount, StartDeliver, StartTransfer, ReadBlob, DeleteBegin,
         DeleteCommit, RemoveFile, DeleteRow, db, Without, Restrict
    <2>3. QED
      BY <1>2, <2>1, <2>2
  <1>8. ASSUME NEW w \in Worker,
               \/ MoveMessage(w) /\ messages' = messages
               \/ InsertMessage(w) /\ job[w].folder \notin DOMAIN folders
        PROVE  Placed'
    <2>1. CASE folders' = folders
      BY <1>2, <1>8, <2>1 DEF MoveMessage, InsertMessage
    <2>2. DOMAIN folders' = DOMAIN folders /\ \A f \in DOMAIN folders : folders'[f].acct = folders[f].acct
      BY <1>0, <1>8 DEF MoveMessage, InsertMessage, FolderRow
    <2>3. accounts' = accounts /\ messages' = messages
      BY <1>8 DEF MoveMessage, InsertMessage
    <2>4. QED
      BY <1>1, <2>2, <2>3
  <1>9. CASE RenameFolder
    <2>1. DOMAIN folders' = DOMAIN folders /\ \A f \in DOMAIN folders : folders'[f].acct = folders[f].acct
      BY <1>0, <1>9 DEF RenameFolder, FolderRow
    <2>2. QED
      BY <1>1, <1>9, <2>1 DEF RenameFolder
  <1>10. CASE \E m \in DOMAIN messages : SetDeleted(m) \/ ClearDeleted(m)
    <2>1. DOMAIN messages' = DOMAIN messages /\ \A n \in DOMAIN messages :
            messages'[n].acct = messages[n].acct /\ messages'[n].folder = messages[n].folder
      BY <1>0, <1>10 DEF SetDeleted, ClearDeleted, MessageRow
    <2>2. QED
      BY <1>1, <1>10, <2>1 DEF SetDeleted, ClearDeleted
  <1>11. CASE Crash \/ UNCHANGED vars
    BY <1>2, <1>11 DEF Crash, vars, db
  <1>12. QED
    BY <1>3, <1>4, <1>5, <1>6, <1>7, <1>8, <1>9, <1>10, <1>11, ReadSteps DEF Next, Start, Step


-----------------------------------------------------------------------------
(* The open transaction and the files without a row.                        *)

(* While another holds the connection, no row changes.                      *)
LEMMA Excluded ==
  ASSUME NEW w \in Worker, Start(w) \/ Step(w), ~ Free, tx # w
  PROVE  messages' = messages /\ tx' = tx
  <1>1. CASE Start(w)
    BY <1>1 DEF Start, CreateAccount, StartDeleteAccount, StartEnsureFolder,
       StartMoveToFolderName, StartDeleteFolder, StartDeliver, StartTransfer, StartDelete,
       StartExpunge, db
  <1>2. CASE Step(w)
    BY <1>2 DEF Step, DropAccount, EnsureFolderSelect, EnsureFolderInsert, MoveMessage, DropFolder,
       ReadBlob, InsertMessage, DeleteBegin, DeleteCommit, RemoveFile, DeleteRow, db
  <1>3. QED
    BY <1>1, <1>2

(* A call comes to the commit of a deletion by its beginning.               *)
LEMMA CommitAfter ==
  ASSUME TypeOK, StoreInv, NEW w \in Worker, Start(w) \/ Step(w), job'[w].pc = "commit"
  PROVE  DeleteBegin(w)
  <1>0. job \in [Worker -> Call] /\ job[w] \in Job /\ Coherent(job[w])
    BY Typed
  <1>1. ~ Finish(w)
    BY <1>0 DEF Finish, NoJob
  <1>2. \A f : Ensured(w, f) => job'[w].pc \in {"lookup", "move", "idle"}
    BY <1>0 DEF Ensured, Job, NoJob
  <1>3. ~ Start(w)
    <2>1. ~ CreateAccount(w) /\ ~ StartDeleteAccount(w)
      BY <1>0 DEF CreateAccount, StartDeleteAccount, NoJob
    <2>2. ~ StartEnsureFolder(w) /\ ~ StartMoveToFolderName(w)
      BY <1>0 DEF StartEnsureFolder, StartMoveToFolderName, NoJob
    <2>3. ~ StartDeleteFolder(w) /\ ~ StartDelete(w)
      <3>1. ASSUME StartDeleteFolder(w)
            PROVE  FALSE
        <4>1. PICK pc \in {"dropFolder", "unlink"} : \E f, doomed :
                job' = [job EXCEPT ![w] = [NoJob EXCEPT !.pc = pc, !.then = "dropFolder",
                                             !.folder = f, !.files = doomed]]
          BY <3>1 DEF StartDeleteFolder
        <4>2. job'[w].pc = pc
          BY <1>0, <4>1 DEF NoJob
        <4>3. QED
          BY <4>2
      <3>2. ~ StartDelete(w)
        BY <1>0 DEF StartDelete, NoJob
      <3>3. QED
        BY <3>1, <3>2
    <2>4. ~ StartDeliver(w) /\ \A then \in {"idle", "delete"} : ~ StartTransfer(w, then)
      <3>1. ~ StartDeliver(w)
        BY <1>0 DEF StartDeliver, NoJob
      <3>2. ASSUME NEW then \in {"idle", "delete"}, StartTransfer(w, then)
            PROVE  FALSE
        <4>1. PICK f, m, flag : job' = [job EXCEPT ![w] =
                 [NoJob EXCEPT !.pc = "read", !.then = then, !.acct = folders[f].acct, !.folder = f,
                               !.src = m, !.blob = nextBlob, !.flag = flag]]
          BY <3>2 DEF StartTransfer
        <4>2. job'[w].pc = "read"
          BY <1>0, <4>1 DEF NoJob
        <4>3. QED
          BY <4>2
      <3>3. QED
        BY <3>1, <3>2
    <2>5. ~ StartExpunge(w)
      BY <1>0 DEF StartExpunge, NoJob
    <2>6. QED
      BY <2>1, <2>2, <2>3, <2>4, <2>5 DEF Start
  <1>4. ~ EnsureFolderSelect(w) /\ ~ EnsureFolderInsert(w)
    BY <1>0, <1>1, <1>2 DEF EnsureFolderSelect, EnsureFolderInsert, Job
  <1>5. ~ ReadBlob(w) /\ ~ InsertMessage(w)
    BY <1>0, <1>1 DEF ReadBlob, InsertMessage, AfterFailedInsert, Job
  <1>6. ~ RemoveFile(w)
    <2> SUFFICES ASSUME RemoveFile(w) PROVE FALSE
      OBVIOUS
    <2>1. job'[w].pc \in {job[w].pc, job[w].then}
      BY <1>0 DEF RemoveFile, Job
    <2>2. QED
      BY <1>0, <2>1 DEF RemoveFile, At, Coherent
  <1>7. ~ DeleteRow(w)
    <2> SUFFICES ASSUME DeleteRow(w) PROVE FALSE
      OBVIOUS
    <2>1. job'[w].pc = job[w].pc
      BY <1>0, <1>1 DEF DeleteRow, Job
    <2>2. QED
      BY <2>1 DEF DeleteRow, At
  <1>8. QED
    BY <1>1, <1>3, <1>4, <1>5, <1>6, <1>7 DEF Step, DropAccount, MoveMessage, DropFolder, DeleteCommit

(* Only the call that holds the connection is between the two halves of a   *)
(* DELETE.                                                                  *)
LEMMA LockedStep ==
  ASSUME TypeOK, StoreInv, [Next]_vars
  PROVE  Locked'
  <1>0. Locked /\ Grows /\ None \notin Worker
    BY GrowsOnly, WorkerAssumption DEF StoreInv
  <1>1. ASSUME NEW w \in Worker, Start(w) \/ Step(w)
        PROVE  Locked'
    <2> SUFFICES ASSUME NEW u \in Worker, job'[u].pc = "commit"
                 PROVE  tx' = u /\ (job'[u].src \notin disk' \/ job'[u].src \notin DOMAIN messages')
      BY DEF Locked, At
    <2>1. CASE u = w
      <3>1. DeleteBegin(w)
        BY <1>1, <2>1, CommitAfter
      <3>2. job'[w].src = job[w].src
        BY <3>1, Typed DEF DeleteBegin, Job
      <3>3. QED
        BY <2>1, <3>1, <3>2 DEF DeleteBegin, FilesAfterDelete, db
    <2>2. CASE u # w
      <3>1. job'[u] = job[u]
        BY <1>1, <2>2, OthersCalls
      <3>2. tx = u /\ (job[u].src \notin disk \/ job[u].src \notin DOMAIN messages)
        BY <1>0, <3>1 DEF Locked, At
      <3>3. messages' = messages /\ tx' = tx
        BY <1>0, <1>1, <2>2, <3>2, Excluded DEF Free
      <3>4. job[u].src \in Delivered
        BY <3>1 DEF StoreInv, Informed, Knows, Removing
      <3>5. job[u].src \in disk' => job[u].src \in disk
        BY <1>0, <3>4 DEF Grows
      <3>6. QED
        BY <3>1, <3>2, <3>3, <3>5
    <2>3. QED
      BY <2>1, <2>2
  <1>2. CASE RenameFolder \/ \E m \in DOMAIN messages : SetDeleted(m) \/ ClearDeleted(m)
    <2>1. UNCHANGED << tx, job, disk >> /\ DOMAIN messages' = DOMAIN messages
      BY <1>2, ClientSteps
    <2>2. QED
      BY <1>0, <2>1 DEF Locked, At
  <1>3. CASE Crash
    BY <1>3 DEF Crash, Locked, At, NoJob
  <1>4. CASE UNCHANGED vars
    BY <1>0, <1>4 DEF vars, db, Locked, At
  <1>5. QED
    BY <1>1, <1>2, <1>3, <1>4 DEF Next

(* A folder that is gone stays gone, and crashes are counted.               *)
LEMMA QuietBefore ==
  ASSUME TypeOK, UidInv, [Next]_vars, Quiet'
  PROVE  Quiet /\ ~ Crash
  <1>0. /\ nextFolder \in Nat /\ crashes \in Nat /\ Folder \subseteq Nat
        /\ \A f \in DOMAIN folders : f \in Folder /\ f \in Nat /\ f >= 1 /\ f < nextFolder
    BY Typed DEF UidInv, Folder
  <1>1. crashes' \in {crashes, crashes + 1} /\ (Crash => crashes' = crashes + 1)
    <2>1. ASSUME NEW w \in Worker, Start(w) PROVE crashes' = crashes
      BY <2>1 DEF Start, CreateAccount, StartDeleteAccount, StartEnsureFolder,
         StartMoveToFolderName, StartDeleteFolder, StartDeliver, StartTransfer, StartDelete,
         StartExpunge
    <2>2. ASSUME NEW w \in Worker, Step(w) PROVE crashes' = crashes
      <3>1. CASE DropAccount(w) \/ EnsureFolderSelect(w) \/ EnsureFolderInsert(w) \/ MoveMessage(w)
        BY <3>1 DEF DropAccount, EnsureFolderSelect, EnsureFolderInsert, MoveMessage
      <3>2. CASE DropFolder(w) \/ ReadBlob(w) \/ InsertMessage(w) \/ DeleteBegin(w)
        BY <3>2 DEF DropFolder, ReadBlob, InsertMessage, DeleteBegin
      <3>3. CASE DeleteCommit(w) \/ RemoveFile(w) \/ DeleteRow(w)
        BY <3>3 DEF DeleteCommit, RemoveFile, DeleteRow
      <3>4. QED
        BY <2>2, <3>1, <3>2, <3>3 DEF Step
    <2>3. RenameFolder \/ (\E m \in DOMAIN messages : SetDeleted(m) \/ ClearDeleted(m)) => crashes' = crashes
      BY DEF RenameFolder, SetDeleted, ClearDeleted
    <2>4. Crash => crashes' = crashes + 1
      BY DEF Crash
    <2>5. UNCHANGED vars => crashes' = crashes
      BY DEF vars
    <2>6. QED
      BY <2>1, <2>2, <2>3, <2>4, <2>5 DEF Next
  <1>2. crashes = 0 /\ ~ Crash
    BY <1>0, <1>1 DEF Quiet
  <1>3. DOMAIN folders = 1 .. nextFolder - 1
    <2>1. DOMAIN folders \subseteq 1 .. nextFolder - 1
      BY <1>0
    <2>2. CASE ClosesFolders
      BY <2>1, <2>2 DEF ClosesFolders, Quiet
    <2>3. CASE OpensFolder
      <3>1. 1 .. nextFolder = DOMAIN folders \cup {nextFolder}
        BY <1>0, <2>3 DEF OpensFolder, Quiet
      <3>2. \A x \in 1 .. nextFolder - 1 : x \in 1 .. nextFolder /\ x # nextFolder
        BY <1>0
      <3>3. 1 .. nextFolder - 1 \subseteq DOMAIN folders
        BY <3>1, <3>2
      <3>4. QED
        BY <2>1, <3>3
    <2>4. CASE \E f \in DOMAIN folders, m \in Blob : GivesUid(f, m)
      BY <2>4 DEF GivesUid, Quiet
    <2>5. QED
      BY <2>2, <2>3, <2>4, UidSteps
  <1>4. QED
    BY <1>2, <1>3 DEF Quiet

(* A folder removed by the step is missed ever after.                       *)
LEMMA Missed ==
  ASSUME TypeOK, UidInv, Quiet', nextFolder' = nextFolder, NEW f \in DOMAIN folders
  PROVE  f \in DOMAIN folders'
  <1>1. f \in Nat /\ f >= 1 /\ f < nextFolder /\ nextFolder \in Nat
    BY Typed DEF UidInv, Folder
  <1>2. QED
    BY <1>1 DEF Quiet


(* Without crashes and vanished folders, every file without a row is        *)
(* about to get one.                                                        *)
LEMMA ExplainedStep ==
  ASSUME TypeOK, UidInv, StoreInv, [Next]_vars
  PROVE  Explained'
  <1> SUFFICES ASSUME Quiet', NEW b \in disk', b \notin DOMAIN messages'
               PROVE  \E w \in Worker : job'[w].pc = "insert" /\ job'[w].blob = b
    BY DEF Explained, At
  <1>0. /\ Quiet /\ ~ Crash /\ Recorded /\ Placed /\ Informed /\ Owners /\ Locked
        /\ \A u \in Worker : job[u] \in Job /\ Coherent(job[u])
    BY QuietBefore, Typed DEF StoreInv
  <1>1. ASSUME b \in disk, b \notin DOMAIN messages
        PROVE  \E w \in Worker : job'[w].pc = "insert" /\ job'[w].blob = b
    <2>1. PICK u \in Worker : job[u].pc = "insert" /\ job[u].blob = b
      BY <1>0, <1>1 DEF StoreInv, Explained, At
    <2>2. CASE job'[u] = job[u]
      BY <2>1, <2>2
    <2>3. CASE job'[u] # job[u]
      <3>1. PICK w \in Worker : Start(w) \/ Step(w)
        BY <1>0, <2>3, ClientSteps DEF Next, vars
      <3>2. u = w
        BY <2>3, <3>1, OthersCalls
      <3>3. InsertMessage(u)
        BY <2>1, <3>1, <3>2 DEF At, Start, Step, CreateAccount, StartDeleteAccount,
             StartEnsureFolder, StartMoveToFolderName, StartDeleteFolder, StartDeliver,
             StartTransfer, StartDelete, StartExpunge, DropAccount, EnsureFolderSelect,
             EnsureFolderInsert, MoveMessage, DropFolder, ReadBlob,
             DeleteBegin, DeleteCommit, RemoveFile, DeleteRow
      <3>4. job[u].folder \in DOMAIN folders
        <4>1. job[u].folder \in Folder /\ job[u].folder < nextFolder
          BY <1>0, <2>1 DEF Coherent, Informed, Knows, Filing
        <4>2. job[u].folder \in 1 .. nextFolder - 1
          BY <4>1, Typed DEF Folder
        <4>3. QED
          BY <1>0, <4>2 DEF Quiet
      <3>5. QED
        BY <2>1, <3>3, <3>4, Inserted
    <2>4. QED
      BY <2>2, <2>3
  <1>2. ASSUME NEW w \in Worker, Start(w) \/ Step(w), b \notin disk
        PROVE  \E u \in Worker : job'[u].pc = "insert" /\ job'[u].blob = b
    <2>1. CASE StartDeliver(w)
      <3>1. PICK f \in DOMAIN folders :
              job' = [job EXCEPT ![w] = [NoJob EXCEPT !.pc = "insert", !.acct = folders[f].acct,
                                                 !.folder = f, !.blob = nextBlob]]
        BY <2>1 DEF StartDeliver
      <3>2. job'[w].pc = "insert" /\ job'[w].blob = nextBlob
        BY <3>1, Typed DEF NoJob
      <3>3. b = nextBlob
        BY <1>2, <2>1 DEF StartDeliver
      <3>4. QED
        BY <3>2, <3>3
    <2>2. CASE ReadBlob(w)
      <3>1. b = job[w].blob /\ job' = [job EXCEPT ![w].pc = "insert"]
        BY <1>2, <2>2 DEF ReadBlob
      <3>2. job'[w].pc = "insert" /\ job'[w].blob = job[w].blob
        BY <3>1, Typed DEF Job
      <3>3. QED
        BY <3>1, <3>2
    <2>3. CASE ~ StartDeliver(w) /\ ~ ReadBlob(w)
      <3>1. disk' \subseteq disk
        <4>1. CASE Start(w)
          BY <2>3, <4>1 DEF Start, CreateAccount, StartDeleteAccount,
             StartEnsureFolder, StartMoveToFolderName, StartDeleteFolder,
             StartTransfer, StartDelete, StartExpunge
        <4>2. CASE Step(w)
          BY <2>3, <4>2 DEF Step, DropAccount, EnsureFolderSelect, EnsureFolderInsert, MoveMessage,
             DropFolder, InsertMessage, DeleteBegin, FilesAfterDelete, DeleteCommit, RemoveFile,
             DeleteRow
        <4>3. QED
          BY <1>2, <4>1, <4>2
      <3>2. QED
        BY <1>2, <3>1
    <2>4. QED
      BY <2>1, <2>2, <2>3
  <1>3. ASSUME NEW w \in Worker, Start(w) \/ Step(w), b \in disk, b \in DOMAIN messages
        PROVE  FALSE
    <2>1. messages[b].folder \in DOMAIN folders /\ folders[messages[b].folder].acct = messages[b].acct
      BY <1>0, <1>3 DEF Placed, OwnFolder
    <2>2. ~ DropAccount(w)
      <3> SUFFICES ASSUME DropAccount(w) PROVE FALSE
        OBVIOUS
      <3>1. PICK a, fs : a = job[w].acct /\ fs = {f \in DOMAIN folders : folders[f].acct = a}
        OBVIOUS
      <3>2. /\ folders' = Without(folders, fs) /\ nextFolder' = nextFolder
            /\ messages' = Restrict(Cascade(fs), DOMAIN Cascade(fs) \ OfAccount(a))
        BY <3>1 DEF DropAccount
      <3>3. messages[b].folder \in fs
        BY <1>3, <2>1, <3>1, <3>2 DEF Cascade, Without, Restrict, InFolders, OfAccount
      <3>4. messages[b].folder \notin DOMAIN folders'
        BY <3>2, <3>3 DEF Without, Restrict
      <3>5. QED
        BY <2>1, <3>2, <3>4, Missed
    <2>3. ~ DropFolder(w)
      <3> SUFFICES ASSUME DropFolder(w) PROVE FALSE
        OBVIOUS
      <3>1. messages[b].folder = job[w].folder
        BY <1>3 DEF DropFolder, Cascade, Without, Restrict, InFolders
      <3>2. messages[b].folder \notin DOMAIN folders'
        BY <3>1 DEF DropFolder, Without, Restrict
      <3>3. QED
        BY <2>1, <3>2, Missed DEF DropFolder
    <2>4. ~ DeleteCommit(w)
      <3> SUFFICES ASSUME DeleteCommit(w) PROVE FALSE
        OBVIOUS
      <3>1. b = job[w].src
        BY <1>3 DEF DeleteCommit, Without, Restrict
      <3>2. QED
        BY <1>0, <1>3, <3>1 DEF DeleteCommit, Locked
    <2>5. ~ DeleteRow(w)
      <3> SUFFICES ASSUME DeleteRow(w) PROVE FALSE
        OBVIOUS
      <3>1. b \in job[w].ids /\ job[w].pc = "rows"
        BY <1>3 DEF DeleteRow, At, Without, Restrict
      <3>2. QED
        BY <1>0, <1>3, <3>1 DEF Informed, Knows
    <2>6. DOMAIN messages \subseteq DOMAIN messages'
      <3>1. CASE Start(w)
        BY <3>1 DEF Start, CreateAccount, StartDeleteAccount, db,
           StartEnsureFolder, StartMoveToFolderName, StartDeleteFolder, StartDeliver,
           StartTransfer, StartDelete, StartExpunge
      <3>2. CASE MoveMessage(w) \/ InsertMessage(w)
        BY <3>2 DEF MoveMessage, InsertMessage, Put
      <3>3. CASE \/ EnsureFolderSelect(w) \/ EnsureFolderInsert(w) \/ ReadBlob(w)
                 \/ DeleteBegin(w) \/ RemoveFile(w)
        BY <3>3 DEF EnsureFolderSelect, EnsureFolderInsert, ReadBlob, DeleteBegin, RemoveFile, db
      <3>4. QED
        BY <1>3, <2>2, <2>3, <2>4, <2>5, <3>1, <3>2, <3>3 DEF Step
    <2>7. QED
      BY <1>3, <2>6
  <1>4. CASE RenameFolder \/ (\E m \in DOMAIN messages : SetDeleted(m) \/ ClearDeleted(m)) \/ UNCHANGED vars
    <2>1. disk' = disk /\ DOMAIN messages' = DOMAIN messages
      BY <1>4, ClientSteps DEF vars, db
    <2>2. QED
      BY <1>1, <2>1
  <1>5. QED
    BY <1>0, <1>1, <1>2, <1>3, <1>4 DEF Next

-----------------------------------------------------------------------------
(* A message enters the history of deliveries in a delivery only.           *)
LEMMA NewlyDelivered ==
  ASSUME TypeOK, StoreInv, [Next]_vars, NEW m \in Delivered', m \notin Delivered
  PROVE  \E w \in Worker : InsertMessage(w) /\ job[w].folder \in DOMAIN folders /\ m = job[w].blob
  <1>1. issued' # issued
    BY DEF Delivered
  <1>2. PICK w \in Worker : Start(w) \/ Step(w)
    BY <1>1, ClientSteps DEF Next, Crash, vars, hist
  <1>3. InsertMessage(w) \/ MoveMessage(w)
    BY <1>1, <1>2 DEF Start, Step, CreateAccount, StartDeleteAccount,
             StartEnsureFolder, StartMoveToFolderName, StartDeleteFolder, StartDeliver,
             StartTransfer, StartDelete, StartExpunge, DropAccount, EnsureFolderSelect,
             EnsureFolderInsert, DropFolder, ReadBlob,
             DeleteBegin, DeleteCommit, RemoveFile, DeleteRow, hist
  <1>4. ~ MoveMessage(w)
    <2> SUFFICES ASSUME MoveMessage(w) PROVE FALSE
      OBVIOUS
    <2>1. /\ job[w].src \in DOMAIN messages
          /\ issued' = issued \cup {[folder |-> job[w].folder, uid |-> NextUid(job[w].folder),
                                     msg |-> job[w].src]}
      BY <1>1 DEF MoveMessage
    <2>2. Delivered' \subseteq Delivered \cup {job[w].src}
      BY <2>1 DEF Delivered
    <2>3. QED
      BY <2>1, <2>2 DEF StoreInv, Recorded
  <1>5. job[w].folder \in DOMAIN folders
    BY <1>1, <1>3, <1>4 DEF InsertMessage
  <1>6. QED
    BY <1>3, <1>4, <1>5, Inserted

(* Every step keeps the invariant.                                          *)
LEMMA StoreInvStep ==
  ASSUME TypeOK, TypeOK', UidInv, StoreInv, [Next]_vars
  PROVE  StoreInv'
  <1>1. Recorded' /\ Placed' /\ Informed' /\ Owners' /\ Apart' /\ Locked' /\ Explained'
    BY RecordedStep, PlacedStep, CallsStep, LockedStep, ExplainedStep
  <1>2. Conserved'
    <2> SUFFICES ASSUME NEW m \in Delivered'
                 PROVE  Intact(m)' \/ Backed(m)'
      BY DEF Conserved, Backed
    <2>1. CASE m \in Delivered
      BY <2>1, ConservedStep
    <2>2. CASE m \notin Delivered
      <3>1. PICK w \in Worker : InsertMessage(w) /\ job[w].folder \in DOMAIN folders /\ m = job[w].blob
        BY <2>2, NewlyDelivered
      <3>2. m \in DOMAIN messages' /\ disk' = disk
        BY <3>1, Inserted DEF InsertMessage
      <3>3. m \in disk
        BY <3>1 DEF InsertMessage, At, StoreInv, Owners, Owns
      <3>4. QED
        BY <3>2, <3>3 DEF Intact
    <2>3. QED
      BY <2>1, <2>2
  <1>3. QED
    BY <1>1, <1>2 DEF StoreInv

(* The inductive invariant of the store, of any number of goroutines,       *)
(* accounts, folders, messages and crashes.                                 *)
THEOREM StoreInvariant == Spec => []StoreInv
  <1>1. Init => StoreInv
    <2> SUFFICES ASSUME Init PROVE StoreInv
      OBVIOUS
    <2>1. /\ messages = << >> /\ folders = << >> /\ disk = {} /\ Delivered = {} /\ condemned = {}
          /\ \A w \in Worker : job[w] = NoJob
      BY DEF Init, Delivered
    <2>2. Recorded /\ Placed /\ Conserved /\ Explained
      BY <2>1 DEF Recorded, Placed, OwnFolder, Conserved, Explained
    <2>3. Knows(NoJob) /\ Owns(NoJob) /\ ~ Pending(NoJob) /\ NoJob.pc # "commit"
      BY DEF NoJob, Knows, Owns, Filing, Dropping, Moving, Copying, Removing, Pending
    <2>4. Informed /\ Owners /\ Apart /\ Locked
      BY <2>1, <2>3 DEF Informed, Owners, Apart, Locked, At
    <2>5. QED
      BY <2>2, <2>4 DEF StoreInv
  <1>2. TypeOK /\ TypeOK' /\ UidInv /\ StoreInv /\ [Next]_vars => StoreInv'
    BY StoreInvStep
  <1>3. QED
    BY <1>1, <1>2, TypeCorrect, UidInvariant, PTL DEF Spec

(* A message is always in a folder of its own account, however old the      *)
(* lookup was by which Deliver or MoveMessages chose the folder.            *)
THEOREM MessagesInOwnFolders == Spec => []OwnFolder
  <1>1. StoreInv => OwnFolder
    BY DEF StoreInv, Placed
  <1>2. QED
    BY <1>1, StoreInvariant, PTL

(* No delivered message loses its row or its file unless somebody asked for *)
(* its removal or a younger copy stands, whatever races and crashes.        *)
THEOREM NothingLost == Spec => []Conserved
  <1>1. StoreInv => Conserved
    BY DEF StoreInv
  <1>2. QED
    BY <1>1, StoreInvariant, PTL

(* A file without a row belongs to a call under way, unless there was a     *)
(* crash or a folder was removed.                                           *)
THEOREM NothingLeaks == Spec => []NoLeak
  <1>1. StoreInv /\ TypeOK => NoLeak
    <2> SUFFICES ASSUME StoreInv, TypeOK PROVE NoLeak
      OBVIOUS
    <2>1. crashes > 0 \/ DOMAIN folders # 1 .. nextFolder - 1 \/ Quiet
      BY Typed DEF Quiet
    <2>2. QED
      BY <2>1 DEF StoreInv, Explained, NoLeak
  <1>2. QED
    BY <1>1, StoreInvariant, TypeCorrect, PTL

(* No step takes the INBOX of an account that lives on.                     *)
LEMMA InboxStep ==
  ASSUME TypeOK, UidInv, StoreInv, [Next]_vars, NEW a \in accounts \cap accounts', HasInbox(a)
  PROVE  HasInbox(a)'
  <1>1. PICK f \in DOMAIN folders : folders[f].acct = a /\ folders[f].name = Inbox
    BY DEF HasInbox, Named
  <1>2. f \in DOMAIN folders' /\ folders'[f].acct = a /\ folders'[f].name = Inbox
    <2>0. folders[f] \in FolderRow /\ \A g \in DOMAIN folders : folders[g] \in FolderRow
      BY Typed
    <2>1. CASE folders' = folders
      BY <1>1, <2>1
    <2>2. ASSUME NEW w \in Worker, DropAccount(w)
          PROVE  f \in DOMAIN folders' /\ folders'[f].acct = a /\ folders'[f].name = Inbox
      <3>1. PICK b, fs : b = job[w].acct /\ fs = {g \in DOMAIN folders : folders[g].acct = b}
        OBVIOUS
      <3>2. accounts' = accounts \ {b} /\ folders' = Without(folders, fs)
        BY <2>2, <3>1 DEF DropAccount
      <3>3. f \notin fs
        BY <1>1, <3>1, <3>2
      <3>4. QED
        BY <1>1, <3>2, <3>3 DEF Without, Restrict
    <2>3. ASSUME NEW w \in Worker, DropFolder(w)
          PROVE  f \in DOMAIN folders' /\ folders'[f].acct = a /\ folders'[f].name = Inbox
      <3>1. f # job[w].folder
        BY <1>1, <2>3 DEF DropFolder, At, StoreInv, Informed, Knows, Dropping
      <3>2. QED
        BY <1>1, <2>3, <3>1 DEF DropFolder, Without, Restrict
    <2>4. ASSUME NEW w \in Worker, EnsureFolderInsert(w)
          PROVE  f \in DOMAIN folders' /\ folders'[f].acct = a /\ folders'[f].name = Inbox
      <3>1. CASE CanInsertFolder(job[w].acct, Head(job[w].want))
        <4>1. PICK id, row : id = nextFolder /\ row = [acct |-> job[w].acct,
                                 name |-> Head(job[w].want), next |-> 1]
          OBVIOUS
        <4>2. folders' = Put(folders, id, row) /\ row.acct = job[w].acct /\ row.name = Head(job[w].want)
          BY <2>4, <3>1, <4>1 DEF EnsureFolderInsert
        <4>3. f # id
          BY <4>1, Typed DEF UidInv
        <4>4. QED
          BY <1>1, <4>2, <4>3 DEF Put
      <3>2. QED
        BY <2>1, <2>4, <3>1 DEF EnsureFolderInsert
    <2>5. ASSUME NEW w \in Worker, MoveMessage(w) \/ InsertMessage(w)
          PROVE  f \in DOMAIN folders' /\ folders'[f].acct = a /\ folders'[f].name = Inbox
      <3>1. folders' = folders \/ \E g \in DOMAIN folders :
                folders' = [folders EXCEPT ![g].next = folders[g].next + 1]
        BY <2>5 DEF MoveMessage, InsertMessage
      <3>2. QED
        BY <1>1, <2>0, <3>1 DEF FolderRow
    <2>6. CASE RenameFolder
      <3>1. PICK g \in DOMAIN folders : Renamable(g) /\ \E n : folders' = [folders EXCEPT ![g].name = n]
        BY <2>6 DEF RenameFolder
      <3>2. f # g
        BY <1>1, <3>1 DEF Renamable
      <3>3. QED
        BY <1>1, <3>1, <3>2
    <2>7. ASSUME NEW w \in Worker,
                 Start(w) \/ EnsureFolderSelect(w) \/ ReadBlob(w) \/ DeleteBegin(w)
                 \/ DeleteCommit(w) \/ RemoveFile(w) \/ DeleteRow(w)
          PROVE  folders' = folders
      BY <2>7 DEF Start, CreateAccount, StartDeleteAccount, StartEnsureFolder,
         StartMoveToFolderName, StartDeleteFolder, StartDeliver, StartTransfer, StartDelete,
         StartExpunge, EnsureFolderSelect, ReadBlob, DeleteBegin, DeleteCommit, RemoveFile,
         DeleteRow, db
    <2>8. CASE (\E m \in DOMAIN messages : SetDeleted(m) \/ ClearDeleted(m)) \/ Crash \/ UNCHANGED vars
      BY <2>1, <2>8 DEF SetDeleted, ClearDeleted, Crash, vars, db
    <2>9. QED
      BY <2>1, <2>2, <2>3, <2>4, <2>5, <2>6, <2>7, <2>8 DEF Next, Step
  <1>3. QED
    BY <1>2 DEF HasInbox, Named

(* INBOX stays: a step that leaves the account leaves it its INBOX, for a   *)
(* call that is to remove a folder never holds the id of an INBOX.          *)
THEOREM InboxStays == Spec => InboxKept
  <1>1. TypeOK /\ UidInv /\ StoreInv /\ [Next]_vars
          => [\A a \in accounts \cap accounts' : HasInbox(a) => HasInbox(a)']_vars
    BY InboxStep
  <1>2. QED
    BY <1>1, TypeCorrect, UidInvariant, StoreInvariant, PTL DEF Spec, InboxKept

(* Only a crash counts as one.                                              *)
LEMMA CrashesGrow ==
  ASSUME TypeOK, [Next]_vars
  PROVE  crashes' >= crashes
  <1>1. crashes \in Nat
    BY Typed
  <1>2. ASSUME NEW w \in Worker, Start(w)
        PROVE  crashes' = crashes
    BY <1>2 DEF Start, CreateAccount, StartDeleteAccount, StartEnsureFolder,
       StartMoveToFolderName, StartDeleteFolder, StartDeliver, StartTransfer, StartDelete,
       StartExpunge
  <1>3. ASSUME NEW w \in Worker, Step(w)
        PROVE  crashes' = crashes
    BY <1>3 DEF Step, DropAccount, EnsureFolderSelect, EnsureFolderInsert, MoveMessage,
       DropFolder, ReadBlob, InsertMessage, DeleteBegin, DeleteCommit, RemoveFile, DeleteRow
  <1>4. CASE RenameFolder \/ (\E m \in DOMAIN messages : SetDeleted(m) \/ ClearDeleted(m))
             \/ UNCHANGED vars
    BY <1>1, <1>4, ClientSteps DEF vars
  <1>5. CASE Crash
    BY <1>1, <1>5 DEF Crash
  <1>6. QED
    BY <1>1, <1>2, <1>3, <1>4, <1>5 DEF Next

(* The call that is to make INBOX makes it, finds it made, or is cut short  *)
(* by a crash or by the model's bound.                                      *)
LEMMA MakerStep ==
  ASSUME TypeOK, NEW w \in Worker, EnsureFolderSelect(w) \/ EnsureFolderInsert(w),
         NEW a \in accounts, MakesInbox(job[w], a)
  PROVE  HasInbox(a)' \/ MakesInbox(job[w], a)' \/ nextFolder > MaxFolders
  <1>0. job \in [Worker -> Call] /\ job[w].acct = a /\ Head(job[w].want) = Inbox
    BY Typed DEF MakesInbox
  <1>1. CASE EnsureFolderSelect(w)
    <2>1. CASE Named(a, Inbox) # {}
      <3>1. folders' = folders
        BY <1>1 DEF EnsureFolderSelect, db
      <3>2. QED
        BY <2>1, <3>1 DEF HasInbox, Named
    <2>2. CASE Named(a, Inbox) = {}
      <3>1. job' = [job EXCEPT ![w].pc = "mkdir"]
        BY <1>0, <1>1, <2>2 DEF EnsureFolderSelect
      <3>2. job'[w].pc = "mkdir" /\ job'[w].acct = job[w].acct /\ job'[w].want = job[w].want
        BY <1>0, <3>1 DEF Call, Job
      <3>3. QED
        BY <1>0, <3>2 DEF MakesInbox
    <2>3. QED
      BY <2>1, <2>2
  <1>2. CASE EnsureFolderInsert(w)
    <2>1. CASE CanInsertFolder(a, Inbox)
      <3>1. folders' = Put(folders, nextFolder, [acct |-> a, name |-> Inbox, next |-> 1])
        BY <1>0, <1>2, <2>1 DEF EnsureFolderInsert
      <3>2. /\ nextFolder \in DOMAIN folders'
            /\ folders'[nextFolder] = [acct |-> a, name |-> Inbox, next |-> 1]
        BY <3>1 DEF Put
      <3>3. QED
        BY <3>2 DEF HasInbox, Named
    <2>2. CASE ~ CanInsertFolder(a, Inbox)
      <3>1. folders' = folders
        BY <1>0, <1>2, <2>2 DEF EnsureFolderInsert
      <3>2. Named(a, Inbox) # {} \/ nextFolder > MaxFolders
        BY <2>2, Typed, BoundAssumption DEF CanInsertFolder
      <3>3. QED
        BY <3>1, <3>2 DEF HasInbox, Named
    <2>3. QED
      BY <2>1, <2>2
  <1>3. QED
    BY <1>1, <1>2

(* An account comes into being with a call that is to make its INBOX.       *)
LEMMA AccountStep ==
  ASSUME TypeOK, [Next]_vars, NEW a \in accounts', a \notin accounts
  PROVE  \E w \in Worker : MakesInbox(job[w], a)'
  <1>1. PICK w \in Worker : CreateAccount(w)
    <2>1. ASSUME NEW w \in Worker, Step(w) \/ (Start(w) /\ ~ CreateAccount(w))
          PROVE  accounts' \subseteq accounts
      BY <2>1 DEF Start, StartDeleteAccount, StartEnsureFolder, StartMoveToFolderName,
         StartDeleteFolder, StartDeliver, StartTransfer, StartDelete, StartExpunge, Step,
         DropAccount, EnsureFolderSelect, EnsureFolderInsert, MoveMessage, DropFolder, ReadBlob,
         InsertMessage, DeleteBegin, DeleteCommit, RemoveFile, DeleteRow, db
    <2>2. ASSUME RenameFolder \/ (\E m \in DOMAIN messages : SetDeleted(m) \/ ClearDeleted(m))
                 \/ Crash \/ UNCHANGED vars
          PROVE  accounts' = accounts
      BY <2>2, ClientSteps DEF Crash, vars, db
    <2>3. QED
      BY <2>1, <2>2 DEF Next
  <1>2. a = nextAcct
    BY <1>1 DEF CreateAccount
  <1>3. job'[w].pc = "lookup" /\ job'[w].acct = nextAcct /\ job'[w].want = SysNames
    BY <1>1, Typed DEF CreateAccount, NoJob
  <1>4. QED
    BY <1>2, <1>3, InboxFirst DEF MakesInbox

(* An account that still waits for its INBOX has it, waits on, or the       *)
(* process died.                                                            *)
LEMMA WaitingStep ==
  ASSUME TypeOK, [Next]_vars, NEW a \in accounts, NEW w \in Worker, MakesInbox(job[w], a)
  PROVE  HasInbox(a)' \/ MakesInbox(job[w], a)' \/ crashes' > 0 \/ nextFolder > MaxFolders
  <1>0. At(w, "lookup") \/ At(w, "mkdir")
    BY DEF MakesInbox, At
  <1>1. CASE EnsureFolderSelect(w) \/ EnsureFolderInsert(w)
    BY <1>1, MakerStep
  <1>2. ASSUME NEW u \in Worker, u # w, Start(u) \/ Step(u)
        PROVE  MakesInbox(job[w], a)'
    <2>1. job'[w] = job[w]
      BY <1>2, OthersCalls
    <2>2. QED
      BY <2>1 DEF MakesInbox
  <1>3. ~ Start(w)
    BY <1>0 DEF At, Start, CreateAccount, StartDeleteAccount, StartEnsureFolder,
       StartMoveToFolderName, StartDeleteFolder, StartDeliver, StartTransfer, StartDelete,
       StartExpunge
  <1>4. Step(w) => EnsureFolderSelect(w) \/ EnsureFolderInsert(w)
    BY <1>0 DEF At, Step, DropAccount, MoveMessage, DropFolder, ReadBlob, InsertMessage,
       DeleteBegin, DeleteCommit, RemoveFile, DeleteRow
  <1>5. CASE RenameFolder \/ (\E m \in DOMAIN messages : SetDeleted(m) \/ ClearDeleted(m))
             \/ UNCHANGED vars
    <2>1. job' = job
      BY <1>5, ClientSteps DEF vars
    <2>2. QED
      BY <2>1 DEF MakesInbox
  <1>6. CASE Crash
    BY <1>6, Typed DEF Crash
  <1>7. QED
    BY <1>1, <1>2, <1>3, <1>4, <1>5, <1>6 DEF Next

(* No account is left without its INBOX, whatever races with the call that  *)
(* creates it (CreateLocalAccount, CreateRemoteAccount), unless the process  *)
(* died; INBOX once made stays by the theorem above.                        *)
THEOREM InboxIsMade == Spec => []InboxMade
  <1>1. Init => InboxMade
    BY DEF Init, InboxMade
  <1>2. ASSUME TypeOK, TypeOK', UidInv, StoreInv, InboxMade, [Next]_vars
        PROVE  InboxMade'
    <2> SUFFICES ASSUME NEW a \in accounts', ~ (crashes' > 0), ~ (nextFolder' > MaxFolders)
                 PROVE  HasInbox(a)' \/ \E w \in Worker : MakesInbox(job[w], a)'
      BY DEF InboxMade
    <2>1. CASE a \notin accounts
      BY <1>2, <2>1, AccountStep
    <2>2. CASE a \in accounts
      <3>1. crashes = 0 /\ ~ (nextFolder > MaxFolders)
        <4>1. nextFolder' >= nextFolder
          BY <1>2, GrowsOnly DEF Grows
        <4>2. nextFolder \in Nat /\ nextFolder' \in Nat /\ crashes \in Nat /\ crashes' \in Nat
          BY <1>2 DEF TypeOK, TablesOK, CallsOK
        <4>3. crashes' >= crashes
          BY <1>2, <4>2, CrashesGrow
        <4>4. QED
          BY <4>1, <4>2, <4>3, BoundAssumption
      <3>2. CASE HasInbox(a)
        BY <1>2, <2>2, <3>2, InboxStep
      <3>3. ASSUME NEW w \in Worker, MakesInbox(job[w], a)
            PROVE  HasInbox(a)' \/ MakesInbox(job[w], a)'
        BY <1>2, <2>2, <3>1, <3>3, WaitingStep
      <3>4. HasInbox(a) \/ \E w \in Worker : MakesInbox(job[w], a)
        BY <1>2, <2>2, <3>1 DEF InboxMade
      <3>5. QED
        BY <3>2, <3>3, <3>4
    <2>3. QED
      BY <2>1, <2>2
  <1>3. QED
    BY <1>1, <1>2, TypeCorrect, UidInvariant, StoreInvariant, PTL DEF Spec

-----------------------------------------------------------------------------
(* The connection: only DeleteBegin takes it, and whoever has it commits.   *)
LEMMA TakesTx ==
  ASSUME NEW w \in Worker, Start(w) \/ Step(w), ~ DeleteBegin(w), ~ DeleteCommit(w)
  PROVE  tx' = tx
  <1>1. CASE Start(w)
    BY <1>1 DEF Start, CreateAccount, StartDeleteAccount, StartEnsureFolder,
       StartMoveToFolderName, StartDeleteFolder, StartDeliver, StartTransfer, StartDelete,
       StartExpunge
  <1>2. CASE Step(w)
    BY <1>2 DEF Step, DropAccount, EnsureFolderSelect, EnsureFolderInsert, MoveMessage,
       DropFolder, ReadBlob, InsertMessage, RemoveFile, DeleteRow
  <1>3. QED
    BY <1>1, <1>2

(* A call that is to commit does nothing else.                              *)
LEMMA OnlyCommits ==
  ASSUME NEW w \in Worker, At(w, "commit"), Start(w) \/ Step(w)
  PROVE  DeleteCommit(w)
  <1>1. ~ Start(w)
    BY DEF At, Start, CreateAccount, StartDeleteAccount, StartEnsureFolder,
       StartMoveToFolderName, StartDeleteFolder, StartDeliver, StartTransfer, StartDelete,
       StartExpunge
  <1>2. QED
    BY <1>1 DEF At, Step, DropAccount, EnsureFolderSelect, EnsureFolderInsert, MoveMessage,
       DropFolder, ReadBlob, InsertMessage, DeleteBegin, RemoveFile, DeleteRow

(* The connection is held only by a transaction that is about to commit     *)
(* (DeleteMessages), whatever crashes and races: nobody waits for a          *)
(* connection that is not given back.                                       *)
THEOREM ConnectionGivenBack == Spec => []GivenBack
  <1>1. Init => GivenBack
    BY DEF Init, GivenBack
  <1>2. ASSUME TypeOK, GivenBack, [Next]_vars
        PROVE  GivenBack'
    <2>1. CASE \E w \in Worker : Start(w) \/ Step(w)
      <3>1. PICK w \in Worker : Start(w) \/ Step(w)
        BY <2>1
      <3>2. CASE DeleteBegin(w)
        <4>1. tx' = w /\ job'[w].pc = "commit"
          BY <1>2, <3>2, Typed DEF DeleteBegin, Call, Job
        <4>2. QED
          BY <4>1 DEF GivenBack, At
      <3>3. CASE DeleteCommit(w)
        BY <3>3 DEF DeleteCommit, Release, GivenBack
      <3>4. CASE ~ DeleteBegin(w) /\ ~ DeleteCommit(w)
        <4>1. tx' = tx /\ ~ At(w, "commit")
          BY <3>1, <3>4, TakesTx, OnlyCommits
        <4>2. tx # None => tx \in Worker /\ tx # w /\ At(tx, "commit")
          BY <1>2, <4>1 DEF GivenBack, TypeOK, CallsOK
        <4>3. tx # None => job'[tx] = job[tx]
          BY <1>2, <3>1, <4>2, OthersCalls
        <4>4. QED
          BY <4>1, <4>2, <4>3 DEF GivenBack, At
      <3>5. QED
        BY <3>2, <3>3, <3>4
    <2>2. CASE RenameFolder \/ (\E m \in DOMAIN messages : SetDeleted(m) \/ ClearDeleted(m))
               \/ UNCHANGED vars
      <3>1. tx' = tx /\ job' = job
        BY <2>2, ClientSteps DEF vars
      <3>2. QED
        BY <1>2, <3>1 DEF GivenBack, At
    <2>3. CASE Crash
      BY <2>3 DEF Crash, GivenBack
    <2>4. QED
      BY <1>2, <2>1, <2>2, <2>3 DEF Next
  <1>3. QED
    BY <1>1, <1>2, TypeCorrect, PTL DEF Spec

=============================================================================

------------------------- MODULE MailStore_proofs -------------------------
(***************************************************************************)
(* Theorems about MailStore, for every number of goroutines, accounts,     *)
(* folders, messages and crashes.                                          *)
(***************************************************************************)
EXTENDS MailStore, TLAPS

USE BoundAssumption, NameAssumption

Call == {j \in Job : Coherent(j)}

(* An idle call is well typed, and so is the table of calls after one ends. *)
LEMMA NoJobIsJob == NoJob \in Job
  BY DEF NoJob, Job, PC

(* A goroutine outside a call is well typed.                                *)
LEMMA NoJobType == NoJob \in Call
  BY NoJobIsJob DEF NoJob, Call, Coherent

(* Ending a call keeps the types of the calls.                              *)
LEMMA FinishType ==
  ASSUME job \in [Worker -> Call], NEW w \in Worker, Finish(w)
  PROVE  job' \in [Worker -> Call]
  BY NoJobType DEF Finish

-----------------------------------------------------------------------------
(* The calls: one step per action.                                         *)

(* A call that begins holds what its first label says it holds.             *)
LEMMA StartCalls ==
  ASSUME TypeOK, NEW w \in Worker, Start(w)
  PROVE  job' \in [Worker -> Call]
  <1>0. job \in [Worker -> Call] /\ TablesOK /\ FilesOK
    BY DEF TypeOK, CallsOK, Call
  <1>1. CASE CreateAccount(w)
    <2>1. nextAcct \in Acct
      BY <1>0, <1>1 DEF CreateAccount, TablesOK, Acct
    <2> DEFINE r == [NoJob EXCEPT !.pc = "lookup", !.acct = nextAcct, !.want = SysNames]
    <2>2a. r \in Job
      BY NoJobIsJob, <2>1 DEF Job, PC
    <2>2b. Coherent(r)
      BY <2>1 DEF NoJob, Coherent
    <2>2. r \in Call
      BY <2>2a, <2>2b DEF Call
    <2>3. QED
      BY <1>0, <1>1, <2>2 DEF CreateAccount
  <1>2. CASE StartDeleteAccount(w)
    <2>1. PICK a \in accounts :
            job' = [job EXCEPT ![w] =
                 [NoJob EXCEPT !.pc = IF OfAccount(a) = {} THEN "dropAccount" ELSE "unlink",
                               !.then = "dropAccount", !.acct = a, !.files = OfAccount(a)]]
      BY <1>2 DEF StartDeleteAccount
    <2>2. OfAccount(a) \subseteq Blob /\ a \in Acct
      BY <1>0 DEF OfAccount, TablesOK
    <2> DEFINE r == [NoJob EXCEPT !.pc = IF OfAccount(a) = {} THEN "dropAccount" ELSE "unlink", !.then = "dropAccount", !.acct = a, !.files = OfAccount(a)]
    <2>3a. r \in Job
      BY NoJobIsJob, <2>2 DEF Job, PC
    <2>3b. Coherent(r)
      BY <2>2 DEF NoJob, Coherent
    <2>3. r \in Call
      BY <2>3a, <2>3b DEF Call
    <2>4. QED
      BY <1>0, <2>1, <2>3
  <1>3. CASE StartEnsureFolder(w)
    <2>1. PICK a \in accounts, n \in Name :
            job' = [job EXCEPT ![w] = [NoJob EXCEPT !.pc = "lookup", !.acct = a, !.want = << n >>]]
      BY <1>3 DEF StartEnsureFolder
    <2> DEFINE r == [NoJob EXCEPT !.pc = "lookup", !.acct = a, !.want = << n >>]
    <2>0. << n >> \in Seq(Name) /\ << n >> # << >> /\ a \in Acct
      BY <1>0 DEF TablesOK
    <2>2a. r \in Job
      BY NoJobIsJob, <2>0 DEF Job, PC
    <2>2b. Coherent(r)
      BY <2>0 DEF NoJob, Coherent
    <2>2. r \in Call
      BY <2>2a, <2>2b DEF Call
    <2>3. QED
      BY <1>0, <2>1, <2>2
  <1>4. CASE StartMoveToFolderName(w)
    <2>1. PICK m \in DOMAIN messages, n \in Name :
            job' = [job EXCEPT ![w] = [NoJob EXCEPT !.pc = "lookup", !.then = "move",
                                  !.acct = messages[m].acct, !.src = m, !.want = << n >>]]
      BY <1>4 DEF StartMoveToFolderName
    <2>2. m \in Blob /\ messages[m].acct \in Acct /\ << n >> \in Seq(Name)
      BY <1>0 DEF TablesOK, MessageRow
    <2> DEFINE r == [NoJob EXCEPT !.pc = "lookup", !.then = "move", !.acct = messages[m].acct, !.src = m, !.want = << n >>]
    <2>3a. r \in Job
      BY NoJobIsJob, <2>2 DEF Job, PC
    <2>3b. Coherent(r)
      BY <2>2 DEF NoJob, Coherent
    <2>3. r \in Call
      BY <2>3a, <2>3b DEF Call
    <2>4. QED
      BY <1>0, <2>1, <2>3
  <1>5. CASE StartDeleteFolder(w)
    <2>1. PICK f \in DOMAIN folders :
            job' = [job EXCEPT ![w] =
            [NoJob EXCEPT !.pc     = IF InFolders({f}) = {} THEN "dropFolder" ELSE "unlink",
                          !.then   = "dropFolder",
                          !.folder = f,
                          !.files  = InFolders({f})]]
      BY <1>5 DEF StartDeleteFolder
    <2>2. InFolders({f}) \subseteq Blob /\ f \in Folder
      BY <1>0 DEF InFolders, TablesOK
    <2> DEFINE r == [NoJob EXCEPT !.pc = IF InFolders({f}) = {} THEN "dropFolder" ELSE "unlink", !.then = "dropFolder", !.folder = f, !.files = InFolders({f})]
    <2>3a. r \in Job
      BY NoJobIsJob, <2>2 DEF Job, PC
    <2>3b. Coherent(r)
      BY <2>2 DEF NoJob, Coherent
    <2>3. r \in Call
      BY <2>3a, <2>3b DEF Call
    <2>4. QED
      BY <1>0, <2>1, <2>3
  <1>6. CASE StartDeliver(w)
    <2>1. PICK f \in DOMAIN folders :
            job' = [job EXCEPT ![w] = [NoJob EXCEPT !.pc = "insert", !.acct = folders[f].acct,
                                               !.folder = f, !.blob = nextBlob]]
      BY <1>6 DEF StartDeliver
    <2>2. f \in Folder /\ folders[f].acct \in Acct /\ nextBlob \in Blob
      BY <1>0, <1>6 DEF TablesOK, FilesOK, FolderRow, StartDeliver, Blob
    <2> DEFINE r == [NoJob EXCEPT !.pc = "insert", !.acct = folders[f].acct, !.folder = f, !.blob = nextBlob]
    <2>3a. r \in Job
      BY NoJobIsJob, <2>2 DEF Job, PC
    <2>3b. Coherent(r)
      BY <2>2 DEF NoJob, Coherent
    <2>3. r \in Call
      BY <2>3a, <2>3b DEF Call
    <2>4. QED
      BY <1>0, <2>1, <2>3
  <1>7. ASSUME NEW then \in {"idle", "delete"}, StartTransfer(w, then)
        PROVE  job' \in [Worker -> Call]
    <2>1. PICK f \in DOMAIN folders, m \in DOMAIN messages : \E flag \in {messages[m].deleted, FALSE} :
            job' = [job EXCEPT ![w] = [NoJob EXCEPT !.pc = "read", !.then = then,
                                  !.acct = folders[f].acct, !.folder = f, !.src = m,
                                  !.blob = nextBlob, !.flag = flag]]
      BY <1>7 DEF StartTransfer
    <2>2. /\ f \in Folder /\ folders[f].acct \in Acct /\ nextBlob \in Blob
          /\ m \in Blob /\ messages[m].deleted \in BOOLEAN
      <3>1. f \in Folder /\ folders[f] \in FolderRow
        BY <1>0 DEF TablesOK
      <3>2. m \in Blob /\ messages[m] \in MessageRow
        BY <1>0 DEF TablesOK
      <3>3. nextBlob \in Blob
        BY <1>0, <1>7 DEF FilesOK, StartTransfer, Blob
      <3>4. QED
        BY <3>1, <3>2, <3>3 DEF FolderRow, MessageRow
    <2>0. PICK flag \in BOOLEAN :
            job' = [job EXCEPT ![w] = [NoJob EXCEPT !.pc = "read", !.then = then,
                                  !.acct = folders[f].acct, !.folder = f, !.src = m,
                                  !.blob = nextBlob, !.flag = flag]]
      BY <2>1, <2>2
    <2> DEFINE r == [NoJob EXCEPT !.pc = "read", !.then = then, !.acct = folders[f].acct, !.folder = f, !.src = m, !.blob = nextBlob, !.flag = flag]
    <2>3a. r \in Job
      BY NoJobIsJob, <2>2 DEF Job, PC
    <2>3b. Coherent(r)
      BY <2>2 DEF NoJob, Coherent
    <2>3. r \in Call
      BY <2>3a, <2>3b DEF Call
    <2>4. QED
      BY <1>0, <2>0, <2>3
  <1>8. CASE StartDelete(w)
    <2>1. PICK m \in DOMAIN messages :
            job' = [job EXCEPT ![w] = [NoJob EXCEPT !.pc = "delete", !.src = m]]
      BY <1>8 DEF StartDelete
    <2> DEFINE r == [NoJob EXCEPT !.pc = "delete", !.src = m]
    <2>2a. r \in Job
      BY NoJobIsJob, <1>0, <2>1 DEF Job, PC, TablesOK
    <2>2b. Coherent(r)
      BY <1>0 DEF NoJob, Coherent, TablesOK
    <2>2. r \in Call
      BY <2>2a, <2>2b DEF Call
    <2>3. QED
      BY <1>0, <2>1, <2>2
  <1>9. CASE StartExpunge(w)
    <2>1. PICK f \in DOMAIN folders :
            job' = [job EXCEPT ![w] = [NoJob EXCEPT !.pc = "unlink", !.then = "rows",
                                     !.folder = f, !.files = Flagged(f), !.ids = Flagged(f)]]
      BY <1>9 DEF StartExpunge
    <2>2. f \in Folder /\ Flagged(f) \subseteq Blob
      BY <1>0 DEF TablesOK, Flagged, InFolders
    <2> DEFINE r == [NoJob EXCEPT !.pc = "unlink", !.then = "rows", !.folder = f, !.files = Flagged(f), !.ids = Flagged(f)]
    <2>3a. r \in Job
      BY NoJobIsJob, <2>2 DEF Job, PC
    <2>3b. Coherent(r)
      BY <2>2 DEF NoJob, Coherent
    <2>3. r \in Call
      BY <2>3a, <2>3b DEF Call
    <2>4. QED
      BY <1>0, <2>1, <2>3
  <1>10. QED
    BY <1>1, <1>2, <1>3, <1>4, <1>5, <1>6, <1>7, <1>8, <1>9 DEF Start

(* So does one whose folder was found or made.                              *)
LEMMA EnsuredCalls ==
  ASSUME job \in [Worker -> Call], NEW w \in Worker, NEW f \in Folder,
         job[w].pc \in {"lookup", "mkdir"}, Ensured(w, f)
  PROVE  job' \in [Worker -> Call]
  <1> DEFINE rest == Tail(job[w].want)
             next == [job[w] EXCEPT !.pc = "lookup", !.want = rest]
             move == [job[w] EXCEPT !.pc = "move", !.folder = f, !.want = rest]
  <1>1. job[w] \in Job /\ Coherent(job[w])
    BY DEF Call
  <1>2. rest \in Seq(Name) /\ job[w].acct \in Acct
    BY <1>1 DEF Job, Coherent
  <1>3. next \in Job /\ move \in Job
    BY <1>1, <1>2 DEF Job, PC
  <1>4. rest # << >> => Coherent(next)
    BY <1>1, <1>2 DEF Job, Coherent
  <1>5. Coherent(move)
    BY <1>1 DEF Job, Coherent
  <1>6. job' = [job EXCEPT ![w] = IF rest # << >> THEN next
                                  ELSE IF job[w].then = "move" THEN move ELSE NoJob]
    BY DEF Ensured
  <1>7. QED
    BY <1>3, <1>4, <1>5, <1>6, NoJobType DEF Call

(* And so does one after each of its statements.                            *)
LEMMA StepCalls ==
  ASSUME TypeOK, NEW w \in Worker, Step(w)
  PROVE  job' \in [Worker -> Call]
  <1>0. /\ job \in [Worker -> Call] /\ TablesOK /\ FilesOK
        /\ job[w] \in Job /\ Coherent(job[w])
    BY DEF TypeOK, CallsOK, Call
  <1>1. CASE DropAccount(w) \/ MoveMessage(w) \/ DropFolder(w) \/ DeleteCommit(w)
    BY <1>0, <1>1, FinishType DEF DropAccount, MoveMessage, DropFolder, DeleteCommit
  <1>2. CASE EnsureFolderSelect(w)
    <2>1. CASE \E f \in Named(job[w].acct, Head(job[w].want)) : Ensured(w, f)
      BY <1>0, <1>2, <2>1, EnsuredCalls DEF EnsureFolderSelect, At, Named, TablesOK
    <2>2. CASE job' = [job EXCEPT ![w].pc = "mkdir"]
      <3> DEFINE r == [job[w] EXCEPT !.pc = "mkdir"]
      <3>1. r \in Job
        BY <1>0 DEF Job, PC
      <3>2. Coherent(r)
        BY <1>0, <1>2 DEF EnsureFolderSelect, At, Coherent, Job
      <3>3. job' = [job EXCEPT ![w] = r]
        BY <1>0, <2>2
      <3>4. QED
        BY <1>0, <3>1, <3>2, <3>3 DEF Call
    <2>3. QED
      BY <1>2, <2>1, <2>2 DEF EnsureFolderSelect
  <1>3. CASE EnsureFolderInsert(w)
    <2>1. CASE CanInsertFolder(job[w].acct, Head(job[w].want))
      <3>1. nextFolder \in Folder
        BY <1>0, <2>1 DEF CanInsertFolder, TablesOK, Folder
      <3>2. QED
        BY <1>0, <1>3, <2>1, <3>1, EnsuredCalls DEF EnsureFolderInsert, At
    <2>2. CASE ~CanInsertFolder(job[w].acct, Head(job[w].want))
      BY <1>0, <1>3, <2>2, FinishType DEF EnsureFolderInsert
    <2>3. QED
      BY <2>1, <2>2
  <1>4. CASE ReadBlob(w)
    <2>1. CASE job[w].src \in disk
      <3> DEFINE r == [job[w] EXCEPT !.pc = "insert"]
      <3>1. r \in Job
        BY <1>0 DEF Job, PC
      <3>2. Coherent(r)
        BY <1>0, <1>4 DEF ReadBlob, At, Coherent, Job
      <3>3. job' = [job EXCEPT ![w] = r]
        BY <1>0, <1>4, <2>1 DEF ReadBlob
      <3>4. QED
        BY <1>0, <3>1, <3>2, <3>3 DEF Call
    <2>2. CASE job[w].src \notin disk
      BY <1>0, <1>4, <2>2, FinishType DEF ReadBlob
    <2>3. QED
      BY <2>1, <2>2
  <1>5. CASE InsertMessage(w)
    <2>1. CASE job' = [job EXCEPT ![w].pc = "delete"]
      <3> DEFINE r == [job[w] EXCEPT !.pc = "delete"]
      <3>1. r \in Job
        BY <1>0 DEF Job, PC
      <3>2. Coherent(r)
        BY <1>0 DEF Coherent, Job
      <3>3. job' = [job EXCEPT ![w] = r]
        BY <1>0, <2>1
      <3>4. QED
        BY <1>0, <3>1, <3>2, <3>3 DEF Call
    <2>2. CASE Finish(w)
      BY <1>0, <2>2, FinishType
    <2>3. QED
      BY <1>5, <2>1, <2>2 DEF InsertMessage, AfterFailedInsert
  <1>6. CASE DeleteBegin(w)
    <2> DEFINE r == [job[w] EXCEPT !.pc = "commit"]
    <2>1. r \in Job
      BY <1>0 DEF Job, PC
    <2>2. Coherent(r)
      BY <1>0 DEF Coherent, Job
    <2>3. job' = [job EXCEPT ![w] = r]
      BY <1>0, <1>6 DEF DeleteBegin
    <2>4. QED
      BY <1>0, <2>1, <2>2, <2>3 DEF Call
  <1>7. CASE RemoveFile(w)
    <2>1. PICK b \in job[w].files :
            job' = [job EXCEPT ![w].files = @ \ {b},
                               ![w].pc = IF job[w].files = {b} THEN job[w].then ELSE @]
      BY <1>7 DEF RemoveFile
    <2> DEFINE pc == IF job[w].files = {b} THEN job[w].then ELSE job[w].pc
               r  == [job[w] EXCEPT !.files = job[w].files \ {b}, !.pc = pc]
    <2>2. job' = [job EXCEPT ![w] = r]
      BY <1>0, <2>1 DEF Job
    <2>3. pc \in PC /\ job[w].files \ {b} \in SUBSET Blob
      BY <1>0 DEF Job
    <2>4. r \in Job
      BY <1>0, <2>3 DEF Job
    <2>5. Coherent(r)
      BY <1>0, <1>7 DEF RemoveFile, At, Coherent, Job
    <2>6. QED
      BY <1>0, <2>2, <2>4, <2>5 DEF Call
  <1>8. CASE DeleteRow(w)
    <2>1. PICK b \in job[w].ids :
            IF job[w].ids = {b} THEN Finish(w) ELSE job' = [job EXCEPT ![w].ids = @ \ {b}]
      BY <1>8 DEF DeleteRow
    <2> DEFINE r == [job[w] EXCEPT !.ids = job[w].ids \ {b}]
    <2>2. r \in Job /\ Coherent(r)
      BY <1>0 DEF Job, Coherent
    <2>3. CASE job' = [job EXCEPT ![w].ids = @ \ {b}]
      <3>1. job' = [job EXCEPT ![w] = r]
        BY <1>0, <2>3 DEF Job
      <3>2. QED
        BY <1>0, <2>2, <3>1 DEF Call
    <2>4. QED
      BY <1>0, <2>1, <2>3, FinishType
  <1>9. QED
    BY <1>1, <1>2, <1>3, <1>4, <1>5, <1>6, <1>7, <1>8 DEF Step

-----------------------------------------------------------------------------
(* The tables.                                                             *)

(* The uid a folder gives next, and the folder after that, are well         *)
(* typed.                                                                   *)
LEMMA NextUidType ==
  ASSUME TablesOK, NEW f \in DOMAIN folders
  PROVE  NextUid(f) \in Nat /\ [folders[f] EXCEPT !.next = @ + 1] \in FolderRow
  <1>1. folders[f] \in FolderRow
    BY DEF TablesOK
  <1>2. PICK row \in FolderRow : row = folders[f]
    BY <1>1
  <1>3. row.next \in Nat /\ [row EXCEPT !.next = @ + 1] \in FolderRow
    BY DEF FolderRow
  <1>4. QED
    BY <1>2, <1>3 DEF NextUid

(* The calls of the goroutines keep the types of the tables.                *)
LEMMA WorkerTables ==
  ASSUME TypeOK, NEW w \in Worker, Start(w) \/ Step(w)
  PROVE  TablesOK'
  <1>0. /\ TablesOK /\ FilesOK /\ job[w] \in Job /\ Coherent(job[w])
    BY DEF TypeOK, CallsOK
  <1>1. CASE UNCHANGED db
    BY <1>0, <1>1 DEF db, TablesOK
  <1>2. CASE CreateAccount(w)
    BY <1>0, <1>2 DEF CreateAccount, TablesOK, Acct
  <1>3. CASE DropAccount(w)
    <2> DEFINE fs == {f \in DOMAIN folders : folders[f].acct = job[w].acct}
               left == Cascade(fs)
    <2>1. DOMAIN left \subseteq DOMAIN messages /\ \A m \in DOMAIN left : left[m] = messages[m]
      BY DEF Cascade, Without, Restrict
    <2>2. messages' = Restrict(left, DOMAIN left \ OfAccount(job[w].acct))
      BY <1>3 DEF DropAccount
    <2>3. DOMAIN messages' \subseteq DOMAIN messages /\ \A m \in DOMAIN messages' : messages'[m] = messages[m]
      BY <2>1, <2>2 DEF Restrict
    <2>4. folders' = Without(folders, fs)
      BY <1>3 DEF DropAccount
    <2>5. DOMAIN folders' \subseteq DOMAIN folders /\ \A f \in DOMAIN folders' : folders'[f] = folders[f]
      BY <2>4 DEF Without, Restrict
    <2>6. accounts' \subseteq accounts /\ UNCHANGED << nextAcct, nextFolder >>
      BY <1>3 DEF DropAccount
    <2>7. QED
      BY <1>0, <2>3, <2>5, <2>6 DEF TablesOK
  <1>4. CASE EnsureFolderInsert(w)
    <2> DEFINE a   == job[w].acct
               n   == Head(job[w].want)
               row == [acct |-> a, name |-> n, next |-> 1]
    <2>1. CASE CanInsertFolder(a, n)
      <3>1. a \in Acct /\ n \in Name
        BY <1>0, <1>4 DEF EnsureFolderInsert, At, Job, Coherent
      <3>2. row \in FolderRow
        BY <3>1 DEF FolderRow
      <3>3. nextFolder \in Folder /\ nextFolder + 1 \in 1 .. MaxFolders + 1
        BY <1>0, <2>1 DEF CanInsertFolder, TablesOK, Folder
      <3>4. folders' = Put(folders, nextFolder, row) /\ nextFolder' = nextFolder + 1
        BY <1>4, <2>1 DEF EnsureFolderInsert
      <3>5. \A f \in DOMAIN folders : folders[f] \in FolderRow
        BY <1>0 DEF TablesOK
      <3>6. DOMAIN folders' \subseteq Folder /\ \A f \in DOMAIN folders' : folders'[f] \in FolderRow
        BY <1>0, <3>2, <3>3, <3>4, <3>5 DEF TablesOK, Put
      <3>7. UNCHANGED << accounts, nextAcct, messages >>
        BY <1>4 DEF EnsureFolderInsert
      <3>8. QED
        BY <1>0, <3>3, <3>4, <3>6, <3>7 DEF TablesOK
    <2>2. CASE ~CanInsertFolder(a, n)
      BY <1>1, <1>4, <2>2 DEF EnsureFolderInsert, db
    <2>3. QED
      BY <2>1, <2>2
  <1>5. CASE MoveMessage(w)
    <2> DEFINE m == job[w].src
               f == job[w].folder
    <2>1. CASE /\ m \in DOMAIN messages /\ f \in DOMAIN folders
               /\ messages[m].folder # f /\ folders[f].next <= MaxUid
      <3>1. /\ messages' = [messages EXCEPT ![m].folder = f, ![m].uid = NextUid(f)]
            /\ folders' = [folders EXCEPT ![f].next = @ + 1]
            /\ UNCHANGED << accounts, nextAcct, nextFolder >>
        BY <1>5, <2>1 DEF MoveMessage
      <3>2. messages[m] \in MessageRow /\ f \in Folder
        BY <1>0, <2>1 DEF TablesOK
      <3>3. [messages[m] EXCEPT !.folder = f, !.uid = NextUid(f)] \in MessageRow
        BY <1>0, <2>1, <3>2, NextUidType DEF MessageRow
      <3>4. messages' = [messages EXCEPT ![m] = [messages[m] EXCEPT !.folder = f, !.uid = NextUid(f)]]
        BY <3>1
      <3>5. DOMAIN messages' = DOMAIN messages /\ \A i \in DOMAIN messages' : messages'[i] \in MessageRow
        BY <1>0, <2>1, <3>3, <3>4 DEF TablesOK
      <3>6. DOMAIN folders' = DOMAIN folders /\ \A i \in DOMAIN folders' : folders'[i] \in FolderRow
        BY <1>0, <2>1, <3>1, NextUidType DEF TablesOK
      <3>7. QED
        BY <1>0, <3>1, <3>5, <3>6 DEF TablesOK
    <2>2. CASE ~(/\ m \in DOMAIN messages /\ f \in DOMAIN folders
                 /\ messages[m].folder # f /\ folders[f].next <= MaxUid)
      BY <1>1, <1>5, <2>2 DEF MoveMessage, db
    <2>3. QED
      BY <2>1, <2>2
  <1>6. CASE DropFolder(w)
    <2>1. /\ folders' = Without(folders, {job[w].folder})
          /\ messages' = Without(messages, InFolders({job[w].folder}))
          /\ UNCHANGED << accounts, nextAcct, nextFolder >>
      BY <1>6 DEF DropFolder, Cascade
    <2>2. /\ DOMAIN folders' \subseteq DOMAIN folders /\ \A f \in DOMAIN folders' : folders'[f] = folders[f]
          /\ DOMAIN messages' \subseteq DOMAIN messages /\ \A m \in DOMAIN messages' : messages'[m] = messages[m]
      BY <2>1 DEF Without, Restrict
    <2>3. QED
      BY <1>0, <2>1, <2>2 DEF TablesOK
  <1>7. CASE InsertMessage(w)
    <2> DEFINE f   == job[w].folder
               b   == job[w].blob
               row == [acct |-> job[w].acct, folder |-> f, uid |-> NextUid(f), deleted |-> job[w].flag]
    <2>1. CASE f \in DOMAIN folders
      <3>1. /\ messages' = Put(messages, b, row)
            /\ folders' = [folders EXCEPT ![f].next = @ + 1]
            /\ UNCHANGED << accounts, nextAcct, nextFolder >>
        BY <1>7, <2>1 DEF InsertMessage
      <3>2. job[w].acct \in Acct /\ f \in Folder /\ b \in Blob /\ job[w].flag \in BOOLEAN
        BY <1>0, <1>7 DEF InsertMessage, At, Coherent, Job
      <3>3. row \in MessageRow
        BY <1>0, <2>1, <3>2, NextUidType DEF MessageRow
      <3>4. DOMAIN messages' = DOMAIN messages \cup {b} /\ \A i \in DOMAIN messages' : messages'[i] \in MessageRow
        BY <1>0, <3>1, <3>2, <3>3 DEF TablesOK, Put
      <3>5. DOMAIN folders' = DOMAIN folders /\ \A i \in DOMAIN folders' : folders'[i] \in FolderRow
        BY <1>0, <2>1, <3>1, NextUidType DEF TablesOK
      <3>6. QED
        BY <1>0, <3>1, <3>2, <3>4, <3>5 DEF TablesOK
    <2>2. CASE f \notin DOMAIN folders
      BY <1>1, <1>7, <2>2 DEF InsertMessage, db
    <2>3. QED
      BY <2>1, <2>2
  <1>8. CASE DeleteCommit(w) \/ DeleteRow(w)
    <2>1. PICK ids : messages' = Without(messages, ids)
      BY <1>8 DEF DeleteCommit, DeleteRow
    <2>2. DOMAIN messages' \subseteq DOMAIN messages /\ \A m \in DOMAIN messages' : messages'[m] = messages[m]
      BY <2>1 DEF Without, Restrict
    <2>3. UNCHANGED << accounts, nextAcct, folders, nextFolder >>
      BY <1>8 DEF DeleteCommit, DeleteRow
    <2>4. QED
      BY <1>0, <2>2, <2>3 DEF TablesOK
  <1>9. CASE \/ StartDeleteAccount(w) \/ StartEnsureFolder(w) \/ StartMoveToFolderName(w)
             \/ StartDeleteFolder(w) \/ StartDeliver(w)
             \/ \E then \in {"idle", "delete"} : StartTransfer(w, then)
             \/ StartDelete(w) \/ StartExpunge(w)
    BY <1>1, <1>9 DEF StartDeleteAccount, StartEnsureFolder, StartMoveToFolderName,
         StartDeleteFolder, StartDeliver, StartTransfer, StartDelete, StartExpunge
  <1>10. CASE EnsureFolderSelect(w) \/ ReadBlob(w) \/ DeleteBegin(w) \/ RemoveFile(w)
    BY <1>1, <1>10 DEF EnsureFolderSelect, ReadBlob, DeleteBegin, RemoveFile
  <1>11. QED
    BY <1>2, <1>3, <1>4, <1>5, <1>6, <1>7, <1>8, <1>9, <1>10 DEF Start, Step

(* So do RENAME and the setting and clearing of \Deleted.                   *)
LEMMA ClientTables ==
  ASSUME TypeOK, RenameFolder \/ \E m \in DOMAIN messages : SetDeleted(m) \/ ClearDeleted(m)
  PROVE  TablesOK'
  <1>0. TablesOK
    BY DEF TypeOK
  <1>1. CASE RenameFolder
    <2>1. PICK f \in DOMAIN folders, n \in Name \ {Inbox} : folders' = [folders EXCEPT ![f].name = n]
      BY <1>1 DEF RenameFolder
    <2>2. [folders[f] EXCEPT !.name = n] \in FolderRow
      BY <1>0 DEF TablesOK, FolderRow
    <2>3. DOMAIN folders' = DOMAIN folders /\ \A i \in DOMAIN folders' : folders'[i] \in FolderRow
      BY <1>0, <2>1, <2>2 DEF TablesOK
    <2>4. QED
      BY <1>0, <1>1, <2>3 DEF TablesOK, RenameFolder
  <1>2. ASSUME NEW m \in DOMAIN messages, SetDeleted(m) \/ ClearDeleted(m)
        PROVE  TablesOK'
    <2>1. PICK d \in BOOLEAN : messages' = [messages EXCEPT ![m].deleted = d]
      BY <1>2 DEF SetDeleted, ClearDeleted
    <2>2. [messages[m] EXCEPT !.deleted = d] \in MessageRow
      BY <1>0 DEF TablesOK, MessageRow
    <2>3. DOMAIN messages' = DOMAIN messages /\ \A i \in DOMAIN messages' : messages'[i] \in MessageRow
      BY <1>0, <2>1, <2>2 DEF TablesOK
    <2>4. UNCHANGED << accounts, nextAcct, folders, nextFolder >>
      BY <1>2 DEF SetDeleted, ClearDeleted
    <2>5. QED
      BY <1>0, <2>3, <2>4 DEF TablesOK
  <1>3. QED
    BY <1>1, <1>2

-----------------------------------------------------------------------------
(* The files and the history.                                              *)

(* The beginnings of calls keep the types of files and history.             *)
LEMMA StartFiles ==
  ASSUME TypeOK, NEW w \in Worker, Start(w)
  PROVE  FilesOK' /\ HistoryOK'
  <1>0. TablesOK /\ FilesOK /\ HistoryOK
    BY DEF TypeOK
  <1>1. CASE CreateAccount(w) \/ StartEnsureFolder(w) \/ StartMoveToFolderName(w) \/ StartExpunge(w)
    BY <1>0, <1>1 DEF CreateAccount, StartEnsureFolder, StartMoveToFolderName, StartExpunge,
         FilesOK, HistoryOK, hist
  <1>2. CASE StartDeleteAccount(w)
    BY <1>0, <1>2 DEF StartDeleteAccount, FilesOK, HistoryOK, TablesOK, OfAccount
  <1>3. CASE StartDeleteFolder(w)
    BY <1>0, <1>3 DEF StartDeleteFolder, FilesOK, HistoryOK, TablesOK, InFolders
  <1>4. CASE StartDelete(w)
    BY <1>0, <1>4 DEF StartDelete, FilesOK, HistoryOK, TablesOK
  <1>5. CASE StartDeliver(w) \/ \E then \in {"idle", "delete"} : StartTransfer(w, then)
    <2>0. nextBlob <= MaxBlobs /\ nextBlob' = nextBlob + 1 /\ disk' \subseteq disk \cup {nextBlob}
      <3>1. CASE StartDeliver(w)
        BY <3>1 DEF StartDeliver
      <3>2. CASE \E then \in {"idle", "delete"} : StartTransfer(w, then)
        BY <3>2 DEF StartTransfer
      <3>3. QED
        BY <1>5, <3>1, <3>2
    <2>1. nextBlob \in Blob
      BY <1>0, <2>0 DEF FilesOK, Blob
    <2>2. nextBlob' \in 1 .. MaxBlobs + 1
      BY <2>0, <2>1 DEF Blob
    <2>3. UNCHANGED hist
      BY <1>5 DEF StartDeliver, StartTransfer
    <2>4. QED
      BY <1>0, <2>0, <2>1, <2>2, <2>3 DEF FilesOK, HistoryOK, hist
  <1>6. QED
    BY <1>1, <1>2, <1>3, <1>4, <1>5 DEF Start

(* So do their statements.                                                  *)
LEMMA StepFiles ==
  ASSUME TypeOK, NEW w \in Worker, Step(w)
  PROVE  FilesOK' /\ HistoryOK'
  <1>0. /\ TablesOK /\ FilesOK /\ HistoryOK
        /\ job[w] \in Job /\ Coherent(job[w])
    BY DEF TypeOK, CallsOK
  <1>1. CASE EnsureFolderSelect(w) \/ EnsureFolderInsert(w) \/ DeleteCommit(w) \/ DeleteRow(w)
    BY <1>0, <1>1 DEF EnsureFolderSelect, EnsureFolderInsert, DeleteCommit, DeleteRow,
         FilesOK, HistoryOK, hist
  <1>2. CASE DropAccount(w) \/ DropFolder(w)
    BY <1>0, <1>2 DEF DropAccount, DropFolder, FilesOK, HistoryOK, TablesOK, OfAccount, InFolders
  <1>3. CASE DeleteBegin(w) \/ RemoveFile(w)
    BY <1>0, <1>3 DEF DeleteBegin, RemoveFile, FilesAfterDelete, FilesOK, HistoryOK, hist
  <1>4. CASE ReadBlob(w)
    <2>1. job[w].blob \in Blob /\ (job[w].src \in disk => job[w].src \in Blob)
      BY <1>0, <1>4 DEF ReadBlob, At, Coherent, Job, FilesOK
    <2>2. QED
      BY <1>0, <1>4, <2>1 DEF ReadBlob, FilesOK, HistoryOK
  <1>5. CASE MoveMessage(w)
    BY <1>0, <1>5, NextUidType DEF MoveMessage, FilesOK, HistoryOK, TablesOK
  <1>6. CASE InsertMessage(w)
    <2>1. job[w].blob \in Blob /\ job[w].folder \in Folder
      BY <1>0, <1>6 DEF InsertMessage, At, Coherent, Job
    <2>2. QED
      BY <1>0, <1>6, <2>1, NextUidType DEF InsertMessage, FilesOK, HistoryOK
  <1>7. QED
    BY <1>1, <1>2, <1>3, <1>4, <1>5, <1>6 DEF Step

-----------------------------------------------------------------------------
(* The tables, the files, the calls in progress and the history keep their  *)
(* types: in particular a call holds, at each of its steps, the account,    *)
(* folder and blob that the step needs.                                     *)
THEOREM TypeCorrect == Spec => []TypeOK
  <1>1. Init => TypeOK
    BY NoJobType DEF Init, TypeOK, TablesOK, FilesOK, CallsOK, HistoryOK, Call, Blob
  <1>2. TypeOK /\ [Next]_vars => TypeOK'
    <2> SUFFICES ASSUME TypeOK, [Next]_vars PROVE TypeOK'
      OBVIOUS
    <2>0. TablesOK /\ FilesOK /\ CallsOK /\ HistoryOK
      BY DEF TypeOK
    <2>1. ASSUME NEW w \in Worker, Start(w) \/ Step(w)
          PROVE  TypeOK'
      <3>1. tx' \in Worker \cup {None} /\ crashes' \in 0 .. MaxCrashes
        BY <2>0, <2>1 DEF CallsOK, Start, Step, CreateAccount, StartDeleteAccount,
             StartEnsureFolder, StartMoveToFolderName, StartDeleteFolder, StartDeliver,
             StartTransfer, StartDelete, StartExpunge, DropAccount, EnsureFolderSelect,
             EnsureFolderInsert, MoveMessage, DropFolder, ReadBlob, InsertMessage,
             DeleteBegin, DeleteCommit, Release, RemoveFile, DeleteRow
      <3>2. job' \in [Worker -> Call]
        BY <2>1, StartCalls, StepCalls
      <3>3. QED
        BY <2>1, <3>1, <3>2, WorkerTables, StartFiles, StepFiles DEF TypeOK, CallsOK, Call
    <2>2. CASE RenameFolder \/ \E m \in DOMAIN messages : SetDeleted(m) \/ ClearDeleted(m)
      <3>1. FilesOK' /\ CallsOK' /\ HistoryOK'
        BY <2>0, <2>2 DEF RenameFolder, SetDeleted, ClearDeleted, FilesOK, CallsOK, HistoryOK,
             hist, TablesOK
      <3>2. QED
        BY <2>2, <3>1, ClientTables DEF TypeOK
    <2>3. CASE Crash
      BY <2>0, <2>3, NoJobType DEF Crash, db, hist, TypeOK, TablesOK, FilesOK, CallsOK, HistoryOK, Call
    <2>4. CASE UNCHANGED vars
      BY <2>0, <2>4 DEF vars, db, hist, TypeOK, TablesOK, FilesOK, CallsOK, HistoryOK
    <2>5. QED
      BY <2>1, <2>2, <2>3, <2>4 DEF Next
  <1>3. QED
    BY <1>1, <1>2, PTL DEF Spec

-----------------------------------------------------------------------------
(* What a step does to the uids, seen from outside: it closes folders,      *)
(* opens one, or gives one uid.                                             *)
ClosesFolders ==
  /\ nextFolder' = nextFolder /\ issued' = issued
  /\ DOMAIN folders' \subseteq DOMAIN folders
  /\ \A f \in DOMAIN folders' : folders'[f].next = folders[f].next

OpensFolder ==
  /\ nextFolder \in Folder
  /\ nextFolder' = nextFolder + 1 /\ issued' = issued
  /\ DOMAIN folders' = DOMAIN folders \cup {nextFolder}
  /\ \A f \in DOMAIN folders' :
       folders'[f].next = IF f = nextFolder THEN 1 ELSE folders[f].next

GivesUid(f, m) ==
  /\ nextFolder' = nextFolder
  /\ issued' = issued \cup {[folder |-> f, uid |-> folders[f].next, msg |-> m]}
  /\ DOMAIN folders' = DOMAIN folders
  /\ \A g \in DOMAIN folders :
       folders'[g].next = IF g = f THEN folders[f].next + 1 ELSE folders[g].next

(* Every step closes folders, opens a fresh one or gives a uid of an open   *)
(* one; this is all that matters for uids.                                  *)
LEMMA UidSteps ==
  ASSUME TypeOK, [Next]_vars
  PROVE  \/ ClosesFolders
         \/ OpensFolder
         \/ \E f \in DOMAIN folders, m \in Blob : GivesUid(f, m)
  <1>0. TablesOK /\ CallsOK
    BY DEF TypeOK
  <1>1. CASE UNCHANGED << folders, nextFolder, issued >>
    BY <1>1 DEF ClosesFolders
  <1>2. ASSUME NEW w \in Worker, DropAccount(w)
        PROVE  ClosesFolders
    <2>1. PICK fs : folders' = Without(folders, fs)
      BY <1>2 DEF DropAccount
    <2>2. QED
      BY <1>2, <2>1 DEF DropAccount, Without, Restrict, ClosesFolders
  <1>3. ASSUME NEW w \in Worker, DropFolder(w)
        PROVE  ClosesFolders
    BY <1>3 DEF DropFolder, Without, Restrict, ClosesFolders
  <1>4. ASSUME NEW w \in Worker, EnsureFolderInsert(w),
               ~ UNCHANGED << folders, nextFolder, issued >>
        PROVE  OpensFolder
    <2>1. /\ CanInsertFolder(job[w].acct, Head(job[w].want))
          /\ folders' = Put(folders, nextFolder,
                            [acct |-> job[w].acct, name |-> Head(job[w].want), next |-> 1])
          /\ nextFolder' = nextFolder + 1 /\ issued' = issued
      BY <1>4 DEF EnsureFolderInsert, hist
    <2>2. nextFolder \in Folder
      BY <1>0, <2>1 DEF CanInsertFolder, TablesOK, Folder
    <2>3. QED
      BY <2>1, <2>2 DEF Put, OpensFolder
  <1>5. ASSUME NEW w \in Worker, MoveMessage(w),
               ~ UNCHANGED << folders, nextFolder, issued >>
        PROVE  \E f \in DOMAIN folders, m \in Blob : GivesUid(f, m)
    <2> DEFINE m == job[w].src
               f == job[w].folder
    <2>1. /\ m \in DOMAIN messages /\ f \in DOMAIN folders
          /\ folders' = [folders EXCEPT ![f].next = @ + 1]
          /\ issued' = issued \cup {[folder |-> f, uid |-> NextUid(f), msg |-> m]}
          /\ nextFolder' = nextFolder
      BY <1>5 DEF MoveMessage
    <2>2. folders[f] \in FolderRow /\ m \in Blob
      BY <1>0, <2>1 DEF TablesOK
    <2>3. GivesUid(f, m)
      BY <1>0, <2>1, <2>2 DEF GivesUid, NextUid, TablesOK, FolderRow
    <2>4. QED
      BY <2>1, <2>2, <2>3
  <1>6. ASSUME NEW w \in Worker, InsertMessage(w),
               ~ UNCHANGED << folders, nextFolder, issued >>
        PROVE  \E f \in DOMAIN folders, m \in Blob : GivesUid(f, m)
    <2> DEFINE m == job[w].blob
               f == job[w].folder
    <2>1. /\ f \in DOMAIN folders
          /\ folders' = [folders EXCEPT ![f].next = @ + 1]
          /\ issued' = issued \cup {[folder |-> f, uid |-> NextUid(f), msg |-> m]}
          /\ nextFolder' = nextFolder
      BY <1>6 DEF InsertMessage
    <2>2. folders[f] \in FolderRow
      BY <1>0, <2>1 DEF TablesOK
    <2>3. m \in Blob
      BY <1>0, <1>6 DEF CallsOK, InsertMessage, At, Coherent
    <2>4. GivesUid(f, m)
      BY <1>0, <2>1, <2>2 DEF GivesUid, NextUid, TablesOK, FolderRow
    <2>5. QED
      BY <2>1, <2>3, <2>4
  <1>7. CASE RenameFolder
    <2>1. PICK f \in DOMAIN folders, n \in Name : folders' = [folders EXCEPT ![f].name = n]
      BY <1>7 DEF RenameFolder
    <2>2. folders[f] \in FolderRow
      BY <1>0 DEF TablesOK
    <2>3. DOMAIN folders' = DOMAIN folders /\ \A g \in DOMAIN folders : folders'[g].next = folders[g].next
      BY <2>1, <2>2 DEF FolderRow
    <2>4. QED
      BY <1>7, <2>3 DEF RenameFolder, hist, ClosesFolders
  <1>8. ASSUME NEW w \in Worker, Start(w)
        PROVE  UNCHANGED << folders, nextFolder, issued >>
    BY <1>8 DEF Start, CreateAccount, StartDeleteAccount, StartEnsureFolder,
         StartMoveToFolderName, StartDeleteFolder, StartDeliver, StartTransfer, StartDelete,
         StartExpunge, db, hist
  <1>9. ASSUME NEW w \in Worker,
               \/ EnsureFolderSelect(w) \/ ReadBlob(w) \/ DeleteBegin(w) \/ DeleteCommit(w)
               \/ RemoveFile(w) \/ DeleteRow(w)
        PROVE  UNCHANGED << folders, nextFolder, issued >>
    BY <1>9 DEF EnsureFolderSelect, ReadBlob, DeleteBegin, DeleteCommit, RemoveFile, DeleteRow,
         db, hist
  <1>10. CASE \/ \E m \in DOMAIN messages : SetDeleted(m) \/ ClearDeleted(m)
              \/ Crash \/ UNCHANGED vars
    BY <1>1, <1>10 DEF SetDeleted, ClearDeleted, Crash, vars, db, hist
  <1>11. ASSUME NEW w \in Worker, Step(w)
         PROVE  \/ ClosesFolders
                \/ OpensFolder
                \/ \E f \in DOMAIN folders, m \in Blob : GivesUid(f, m)
    BY <1>1, <1>2, <1>3, <1>4, <1>5, <1>6, <1>9, <1>11 DEF Step
  <1>12. QED
    BY <1>1, <1>7, <1>8, <1>10, <1>11 DEF Next

(* Each of the three effects keeps UidInv.                                  *)
LEMMA UidInvStep ==
  ASSUME TypeOK, UidInv, [Next]_vars
  PROVE  UidInv'
  <1>0. /\ nextFolder \in Nat /\ DOMAIN folders \subseteq Folder
        /\ \A f \in DOMAIN folders : folders[f].next \in Nat
        /\ issued \subseteq [folder : Folder, uid : Nat, msg : Blob]
        /\ Folder \subseteq Nat
    BY DEF TypeOK, TablesOK, HistoryOK, FolderRow, Folder
  <1>1. CASE ClosesFolders
    BY <1>0, <1>1 DEF ClosesFolders, UidInv, UidNeverReused
  <1>2. CASE OpensFolder
    <2>1. \A f \in DOMAIN folders' : f < nextFolder'
      <3>1. \A f \in DOMAIN folders : f \in Nat /\ f < nextFolder
        BY <1>0 DEF UidInv
      <3>2. \A f \in DOMAIN folders \cup {nextFolder} : f < nextFolder + 1
        BY <1>0, <3>1
      <3>3. QED
        BY <1>2, <3>2 DEF OpensFolder
    <2>2. \A x \in issued : x.folder # nextFolder /\ x.folder < nextFolder + 1
      <3>1. \A x \in issued : x.folder \in Nat /\ x.folder < nextFolder
        BY <1>0 DEF UidInv
      <3>2. QED
        BY <1>0, <3>1
    <2>3. \A x \in issued : x.folder \in DOMAIN folders' => x.uid < folders'[x.folder].next
      <3> SUFFICES ASSUME NEW x \in issued, x.folder \in DOMAIN folders'
                   PROVE  x.uid < folders'[x.folder].next
        OBVIOUS
      <3>1. x.folder \in DOMAIN folders /\ folders'[x.folder].next = folders[x.folder].next
        BY <1>2, <2>2 DEF OpensFolder
      <3>2. QED
        BY <3>1 DEF UidInv
    <2>4. UNCHANGED issued /\ nextFolder' = nextFolder + 1
      BY <1>2 DEF OpensFolder
    <2>5. QED
      BY <2>1, <2>2, <2>3, <2>4 DEF UidInv, UidNeverReused
  <1>3. ASSUME NEW f \in DOMAIN folders, NEW m \in Blob, GivesUid(f, m)
        PROVE  UidInv'
    <2> DEFINE new == [folder |-> f, uid |-> folders[f].next, msg |-> m]
    <2>1. issued' = issued \cup {new} /\ nextFolder' = nextFolder
      BY <1>3 DEF GivesUid
    <2>2. /\ DOMAIN folders' = DOMAIN folders
          /\ folders'[f].next = folders[f].next + 1
          /\ \A g \in DOMAIN folders : g # f => folders'[g].next = folders[g].next
      BY <1>3 DEF GivesUid
    <2>3. \A g \in DOMAIN folders' : g < nextFolder'
      BY <2>1, <2>2 DEF UidInv
    <2>4. \A x \in issued' :
            /\ x.folder < nextFolder'
            /\ x.folder \in DOMAIN folders' => x.uid < folders'[x.folder].next
      <3> SUFFICES ASSUME NEW x \in issued'
                   PROVE  /\ x.folder < nextFolder'
                          /\ x.folder \in DOMAIN folders' => x.uid < folders'[x.folder].next
        OBVIOUS
      <3>1. CASE x = new
        BY <1>0, <2>1, <2>2, <3>1 DEF UidInv
      <3>2. CASE x \in issued
        BY <1>0, <2>1, <2>2, <3>2 DEF UidInv
      <3>3. QED
        BY <2>1, <3>1, <3>2
    <2>5. \A x \in issued : x.folder = new.folder => x.uid # new.uid
      BY <1>0 DEF UidInv
    <2>6. UidNeverReused'
      BY <2>1, <2>5 DEF UidInv, UidNeverReused
    <2>7. QED
      BY <2>3, <2>4, <2>6 DEF UidInv
  <1>4. QED
    BY <1>1, <1>2, <1>3, UidSteps

(* Every uid a folder gave is below its next one, and every folder id is    *)
(* below the next folder's (Deliver and MoveMessages raise next_uid in the  *)
(* transaction that uses it).                                               *)
THEOREM UidInvariant == Spec => []UidInv
  <1>1. Init => UidInv
    BY DEF Init, UidInv, UidNeverReused
  <1>2. TypeOK /\ UidInv /\ [Next]_vars => UidInv'
    BY UidInvStep
  <1>3. QED
    BY <1>1, <1>2, TypeCorrect, PTL DEF Spec

(* No uid of a folder is ever given to two messages, whatever is delivered, *)
(* moved, removed or interrupted in between (next_uid in store.go).         *)
THEOREM UidsNeverReused == Spec => []UidNeverReused
  <1>1. UidInv => UidNeverReused
    BY DEF UidInv
  <1>2. QED
    BY <1>1, UidInvariant, PTL

(* The store implements UidSpace: every step closes folders, opens a fresh  *)
(* one, or gives the next uid of one.                                       *)
THEOREM UidRefinement == Spec => UidSpec
  <1> DEFINE next == [f \in DOMAIN folders |-> folders[f].next]
  <1>1. Init => Uids!Init
    BY DEF Init, Uids!Init
  <1>2. TypeOK /\ UidInv /\ [Next]_vars => Uids!Next
    <2> SUFFICES ASSUME TypeOK, UidInv, [Next]_vars
                 PROVE  Uids!Next
      OBVIOUS
    <2>0. DOMAIN folders \subseteq Folder
      BY DEF TypeOK, TablesOK
    <2>1. CASE ClosesFolders
      <3>1. PICK fs \in SUBSET Folder : fs = DOMAIN folders \ DOMAIN folders'
        BY <2>0
      <3>2. next' = [f \in DOMAIN next \ fs |-> next[f]]
        BY <2>1, <3>1 DEF ClosesFolders
      <3>3. Uids!Close(fs)
        BY <2>1, <3>2 DEF ClosesFolders, Uids!Close
      <3>4. QED
        BY <3>3 DEF Uids!Next
    <2>2. CASE OpensFolder
      <3>0. PICK f \in Folder : f = nextFolder
        BY <2>2 DEF OpensFolder
      <3>1. f \notin DOMAIN next
        BY <3>0 DEF UidInv, Folder
      <3>2. \A x \in issued : x.folder # f
        BY <3>0 DEF UidInv, Folder
      <3>3. next' = [g \in DOMAIN next \cup {f} |-> IF g = f THEN 1 ELSE next[g]]
        BY <2>2, <3>0 DEF OpensFolder
      <3>4. Uids!Open(f)
        BY <2>2, <3>1, <3>2, <3>3 DEF OpensFolder, Uids!Open
      <3>5. QED
        BY <3>4 DEF Uids!Next
    <2>3. ASSUME NEW f \in DOMAIN folders, NEW m \in Blob, GivesUid(f, m)
          PROVE  Uids!Next
      <3>1. next' = [next EXCEPT ![f] = @ + 1]
        BY <2>3 DEF GivesUid
      <3>2. Uids!Give(f, m)
        BY <2>3, <3>1 DEF GivesUid, Uids!Give
      <3>3. QED
        BY <2>0, <3>2 DEF Uids!Next
    <2>4. QED
      BY <2>1, <2>2, <2>3, UidSteps
  <1>3. QED
    BY <1>1, <1>2, TypeCorrect, UidInvariant, PTL DEF Spec, UidSpec, Uids!Spec
=============================================================================

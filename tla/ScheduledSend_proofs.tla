----------------------- MODULE ScheduledSend_proofs -----------------------
(***************************************************************************)
(* Theorems about ScheduledSend, for any clients and any numbers of        *)
(* delayed messages, restarts and errors.                                  *)
(***************************************************************************)
EXTENDS ScheduledSend, TLAPS

USE SchedBounds

(* The types, with the records named.                                      *)
ReqRec    == [pc : {"idle", "write", "select", "unlink", "delete"},
              id : Id \cup {0}, known : BOOLEAN]
RunnerRec == [pc : {"idle", "next", "read", "enqueue", "remove", "delete"},
              due : SUBSET Id, id : Id \cup {0}, data : Content]
Types ==
  /\ nextSched \in 1 .. MaxScheduled + 1 /\ sched \subseteq 1 .. nextSched - 1
  /\ dueAt \subseteq 1 .. nextSched - 1
  /\ file \in [Id -> {"none"} \cup Content]
  /\ req \in [Client -> ReqRec] /\ runner \in RunnerRec
  /\ restarts \in 0 .. MaxSchedCrashes /\ errors \in 0 .. MaxErrors
  /\ queued \in [Id -> [Content -> Nat]]
  /\ cancelled \subseteq Id /\ written \subseteq Id /\ withdrawn \subseteq Id
  /\ early \subseteq Id /\ unread \subseteq Id /\ kept \subseteq Id /\ undeleted \in Nat

(* Ids are never used again: nothing knows one that was not given out, and *)
(* nothing was queued for it.                                              *)
Given == 1 .. nextSched - 1
OnlyGiven ==
  /\ runner.due \subseteq Given /\ runner.id \in Given \cup {0}
  /\ \A c \in Client : req[c].id \in Given \cup {0} /\ (req[c].pc # "idle" => req[c].id \in Given)
  /\ runner.pc \notin {"idle", "next"} => runner.id \in Given
  /\ written \subseteq Given
  /\ \A i \in Id \ Given : Dispatches(i) = 0

(* Who writes a message is the only one to do so, and does it once; an     *)
(* answered one is never empty again, and cancelled for good when the one  *)
(* who cancelled it knew that it was all there and could remove the file.  *)
Writing(c) == req[c].pc = "write"
Cut        == {i \in Id : file[i] = "none"} \cup kept
OneWriter ==
  /\ \A c \in Client : Writing(c) => req[c].id \notin written
  /\ \A c, d \in Client : Writing(c) /\ Writing(d) /\ req[c].id = req[d].id => c = d
  /\ \A c \in Client : req[c].known => req[c].id \in written
  /\ \A c \in Client : req[c].known /\ req[c].pc = "delete" => req[c].id \in Cut
  /\ \A i \in written : file[i] # "empty"
  /\ \A i \in cancelled : i \in written /\ i \in Cut

(* A message that may still be queued was queued only before a restart, or *)
(* a DELETE of a row that failed; one the runner has queued is on its way  *)
(* out of the table.                                                       *)
Repeats     == restarts + undeleted
Leaving(i)  == runner.pc \in {"remove", "delete"} /\ runner.id = i
InHand(i)   == runner.pc \in {"read", "enqueue"} /\ runner.id = i
CountedOnce ==
  /\ \A i \in Id : Dispatches(i) <= 1 + Repeats
  /\ \A i \in Id : (i \in sched \/ InHand(i)) /\ ~Leaving(i) => Dispatches(i) <= Repeats

IInv == Types /\ OnlyGiven /\ OneWriter /\ CountedOnce

-----------------------------------------------------------------------------
(* What follows when a step leaves alone what a part of the invariant is   *)
(* about.                                                                  *)

(* A client without a request and a sleeping runner are well typed.         *)
LEMMA IdleRecords ==
  /\ NoReq \in ReqRec /\ NoReq.pc = "idle" /\ NoReq.id = 0 /\ ~NoReq.known
  /\ Asleep \in RunnerRec /\ Asleep.pc = "idle" /\ Asleep.id = 0 /\ Asleep.due = {}
  BY DEF NoReq, ReqRec, Asleep, RunnerRec, Content

(* A step that touches neither requests nor files keeps OneWriter.          *)
LEMMA SameWriters ==
  ASSUME OneWriter, req' = req, file' = file, written' = written, cancelled' = cancelled,
         kept' = kept
  PROVE  OneWriter'
  BY DEF OneWriter, Writing, Cut

(* A step that touches neither ids nor the queue gives no new ids.          *)
LEMMA SameGiven ==
  ASSUME OnlyGiven, nextSched' = nextSched, queued' = queued, runner' = runner
  PROVE  /\ Given' = Given
         /\ req' = req /\ written' = written => OnlyGiven'
  BY DEF OnlyGiven, Given, Dispatches

(* A step that touches neither queue nor runner keeps the count.            *)
LEMMA SameCount ==
  ASSUME CountedOnce, queued' = queued, runner' = runner, restarts' = restarts,
         undeleted' = undeleted, sched' \subseteq sched
  PROVE  CountedOnce'
  BY DEF CountedOnce, InHand, Leaving, Dispatches, Repeats

(* A request under way is about an id that was given out.                   *)
LEMMA BusyIds ==
  ASSUME IInv, NEW c \in Client, req[c].pc # "idle"
  PROVE  req[c].id \in Given /\ req[c].id \in Id
  <1>1. req[c].id \in Given
    BY DEF IInv, OnlyGiven
  <1>2. Given \subseteq Id
    BY DEF IInv, Types, Given, Id
  <1>3. QED
    BY <1>1, <1>2
-----------------------------------------------------------------------------
(* The requests.                                                           *)

(* The INSERT gives a fresh id, with an empty file and one writer.          *)
LEMMA ScheduleSendKeeps ==
  ASSUME IInv, NEW c \in Client, ScheduleSend(c)
  PROVE  IInv'
  <1>1. PICK n \in Id : n = nextSched
    BY DEF IInv, Types, ScheduleSend, Id
  <1>2. n \notin Given /\ n \notin sched /\ nextSched' = n + 1 /\ Given' = Given \cup {n}
    BY <1>1 DEF IInv, Types, Given, ScheduleSend, Id
  <1> DEFINE r == [NoReq EXCEPT !.pc = "write", !.id = n]
  <1>3. r \in ReqRec /\ r.pc = "write" /\ r.id = n /\ ~r.known
    BY IdleRecords DEF ReqRec
  <1>4. /\ sched' = sched \cup {n} /\ file' = [file EXCEPT ![n] = "empty"]
        /\ req' = [req EXCEPT ![c] = r] /\ runner' = runner /\ queued' = queued
        /\ UNCHANGED << dueAt, restarts, errors, cancelled, written, withdrawn >>
        /\ early' = early /\ unread' = unread /\ kept' = kept /\ undeleted' = undeleted
    BY <1>1 DEF ScheduleSend, mishaps
  <1> HIDE DEF r
  <1>5. /\ req' \in [Client -> ReqRec] /\ req'[c] = r
        /\ \A d \in Client \ {c} : req'[d] = req[d]
    BY <1>3, <1>4 DEF IInv, Types
  <1>6. Types'
    <2>1. /\ nextSched' \in 1 .. MaxScheduled + 1 /\ sched' \subseteq 1 .. nextSched' - 1
          /\ dueAt' \subseteq 1 .. nextSched' - 1
      BY <1>1, <1>2, <1>4 DEF IInv, Types, Id
    <2>2. file' \in [Id -> {"none"} \cup Content]
      BY <1>4 DEF IInv, Types, Content
    <2>3. QED
      BY <1>4, <1>5, <2>1, <2>2 DEF IInv, Types
  <1>7. OnlyGiven'
    BY <1>2, <1>3, <1>4, <1>5 DEF IInv, OnlyGiven, Dispatches
  <1>8. OneWriter'
    <2>1. n \notin written /\ n \notin cancelled /\ \A d \in Client : Writing(d) => req[d].id # n
      BY <1>2 DEF IInv, OnlyGiven, OneWriter, Writing
    <2>2. \A d \in Client : req[d].known \/ req[d].pc = "delete" => req[d].id # n
      BY <1>2 DEF IInv, OnlyGiven, OneWriter
    <2>3. (\A i \in Id \ {n} : file'[i] = file[i]) /\ Cut \ {n} \subseteq Cut'
      BY <1>4 DEF IInv, Types, Cut
    <2>4. /\ \A d \in Client : Writing(d)' => req'[d].id \notin written'
          /\ \A d, e \in Client : Writing(d)' /\ Writing(e)' /\ req'[d].id = req'[e].id => d = e
          /\ \A d \in Client : req'[d].known => req'[d].id \in written'
      BY <1>3, <1>4, <1>5, <2>1 DEF IInv, OneWriter, Writing
    <2>5. \A d \in Client : req'[d].known /\ req'[d].pc = "delete" => req'[d].id \in Cut'
      BY <1>3, <1>5, <2>2, <2>3 DEF IInv, OneWriter
    <2>6. /\ \A i \in written' : file'[i] # "empty"
          /\ \A i \in cancelled' : i \in written' /\ i \in Cut'
      BY <1>4, <2>1, <2>3 DEF IInv, OneWriter, Types
    <2>7. QED
      BY <2>4, <2>5, <2>6 DEF OneWriter
  <1>9. CountedOnce'
    <2>1. Dispatches(n) = 0 /\ Repeats \in Nat /\ Repeats' = Repeats
      BY <1>2, <1>4 DEF IInv, OnlyGiven, Types, Repeats
    <2>2. \A i \in Id : /\ Dispatches(i)' = Dispatches(i)
                        /\ InHand(i)' <=> InHand(i)
                        /\ Leaving(i)' <=> Leaving(i)
      BY <1>4 DEF Dispatches, InHand, Leaving
    <2>3. QED
      BY <1>4, <2>1, <2>2 DEF IInv, CountedOnce
  <1>10. QED
    BY <1>6, <1>7, <1>8, <1>9 DEF IInv

(* The file gets its content once, from the request that made the row.      *)
LEMMA WriteMessageKeeps ==
  ASSUME IInv, NEW c \in Client, WriteMessage(c)
  PROVE  IInv'
  <1>1. req[c].pc = "write" /\ UNCHANGED << table, runner, restarts, queued, cancelled, withdrawn, mishaps >>
    BY DEF WriteMessage
  <1>2. PICK i \in Id : i = req[c].id
    BY <1>1, BusyIds
  <1>3. i \in Given /\ i \notin written /\ ~req[c].known
    BY <1>1, <1>2 DEF IInv, OnlyGiven, OneWriter, Writing
  <1>4. /\ nextSched' = nextSched /\ sched' = sched /\ dueAt' = dueAt /\ runner' = runner
        /\ restarts' = restarts /\ queued' = queued
        /\ cancelled' = cancelled /\ withdrawn' = withdrawn
        /\ early' = early /\ unread' = unread /\ kept' = kept /\ undeleted' = undeleted
    BY <1>1 DEF table, mishaps
  <1>5. Given' = Given /\ CountedOnce'
    BY <1>4, SameGiven, SameCount DEF IInv
  <1>6. CASE /\ file' = [file EXCEPT ![i] = "whole"] /\ written' = written \cup {i}
             /\ req' = [req EXCEPT ![c] = NoReq] /\ errors' = errors
    <2>1. /\ req' \in [Client -> ReqRec] /\ req'[c] = NoReq
          /\ \A d \in Client \ {c} : req'[d] = req[d]
          /\ file' \in [Id -> {"none"} \cup Content]
          /\ file'[i] = "whole" /\ \A j \in Id \ {i} : file'[j] = file[j]
      BY <1>6, IdleRecords DEF IInv, Types, Content
    <2>2. Types'
      BY <1>4, <1>6, <2>1 DEF IInv, Types
    <2>3. OnlyGiven'
      BY <1>3, <1>4, <1>5, <1>6, <2>1, IdleRecords DEF IInv, OnlyGiven, Dispatches
    <2>4. OneWriter'
      <3>0. Cut \ {i} \subseteq Cut'
        BY <1>4, <2>1 DEF Cut
      <3>1. /\ \A d \in Client \ {c} : Writing(d) => req[d].id # i
            /\ \A d \in Client : req[d].known => req[d].id # i
        BY <1>1, <1>2, <1>3 DEF IInv, OneWriter, Writing
      <3>2. /\ \A d \in Client : Writing(d)' => req'[d].id \notin written'
            /\ \A d, e \in Client : Writing(d)' /\ Writing(e)' /\ req'[d].id = req'[e].id => d = e
            /\ \A d \in Client : req'[d].known => req'[d].id \in written'
        BY <1>6, <2>1, <3>1, IdleRecords DEF IInv, OneWriter, Writing
      <3>3. \A d \in Client : req'[d].known /\ req'[d].pc = "delete" => req'[d].id \in Cut'
        BY <2>1, <3>0, <3>1, IdleRecords DEF IInv, OneWriter
      <3>4. /\ \A j \in written' : file'[j] # "empty"
            /\ \A j \in cancelled' : j \in written' /\ j \in Cut'
        BY <1>3, <1>4, <1>6, <2>1, <3>0 DEF IInv, OneWriter, Types
      <3>5. QED
        BY <3>2, <3>3, <3>4 DEF OneWriter
    <2>5. QED
      BY <1>5, <2>2, <2>3, <2>4 DEF IInv
  <1>7. ASSUME NEW left \in {file[i], "empty"},
               /\ errors < MaxErrors /\ errors' = errors + 1 /\ written' = written
               /\ req' = [req EXCEPT ![c].pc = "select"] /\ file' = [file EXCEPT ![i] = left]
        PROVE  IInv'
    <2> DEFINE r == [req[c] EXCEPT !.pc = "select"]
    <2>1. r \in ReqRec /\ r.pc = "select" /\ r.id = i /\ r.known = req[c].known
      BY <1>2 DEF IInv, Types, ReqRec
    <2>2. req' = [req EXCEPT ![c] = r]
      BY <1>7 DEF IInv, Types
    <2> HIDE DEF r
    <2>3. /\ req' \in [Client -> ReqRec] /\ req'[c] = r
          /\ \A d \in Client \ {c} : req'[d] = req[d]
      BY <2>1, <2>2 DEF IInv, Types
    <2>3a. /\ file' \in [Id -> {"none"} \cup Content]
           /\ \A j \in Id \ {i} : file'[j] = file[j]
      <3>1. left \in {"none"} \cup Content
        BY DEF IInv, Types, Content
      <3>2. QED
        BY <1>7, <3>1 DEF IInv, Types
    <2>4. Types'
      <3>1. errors' \in 0 .. MaxErrors
        BY <1>7 DEF IInv, Types
      <3>2. QED
        BY <1>4, <1>7, <2>3, <2>3a, <3>1 DEF IInv, Types
    <2>5. OnlyGiven'
      BY <1>3, <1>4, <1>5, <1>7, <2>1, <2>3 DEF IInv, OnlyGiven, Dispatches
    <2>6. OneWriter'
      <3>0. Cut \ {i} \subseteq Cut'
        BY <1>4, <2>3a DEF Cut
      <3>1. \A d \in Client : req[d].known => req[d].id # i
        BY <1>3 DEF IInv, OneWriter
      <3>2. /\ \A d \in Client : Writing(d)' => req'[d].id \notin written'
            /\ \A d, e \in Client : Writing(d)' /\ Writing(e)' /\ req'[d].id = req'[e].id => d = e
            /\ \A d \in Client : req'[d].known => req'[d].id \in written'
        BY <1>3, <1>7, <2>1, <2>3 DEF IInv, OneWriter, Writing
      <3>3. \A d \in Client : req'[d].known /\ req'[d].pc = "delete" => req'[d].id \in Cut'
        BY <1>3, <2>1, <2>3, <3>0, <3>1 DEF IInv, OneWriter
      <3>4. /\ \A j \in written' : file'[j] # "empty"
            /\ \A j \in cancelled' : j \in written' /\ j \in Cut'
        BY <1>3, <1>4, <1>7, <2>3, <2>3a, <3>0 DEF IInv, OneWriter, Types
      <3>5. QED
        BY <3>2, <3>3, <3>4 DEF OneWriter
    <2>7. QED
      BY <1>5, <2>4, <2>5, <2>6 DEF IInv
  <1>8. QED
    BY <1>2, <1>6, <1>7 DEF WriteMessage, AnsweredOk, Fails

(* A cancel names a row that is there.                                      *)
LEMMA StartCancelKeeps ==
  ASSUME IInv, NEW c \in Client, StartCancel(c)
  PROVE  IInv'
  <1>1. PICK i \in sched :
          req' = [req EXCEPT ![c] = [pc |-> "select", id |-> i, known |-> i \in written]]
    BY DEF StartCancel
  <1>2. UNCHANGED << table, file, runner, restarts, errors, queued, cancelled, written, withdrawn,
                     mishaps >>
    BY DEF StartCancel
  <1>3. i \in Id /\ i \in Given
    BY DEF IInv, Types, Given, Id
  <1> DEFINE r == [pc |-> "select", id |-> i, known |-> i \in written]
  <1>4a. (i \in written) \in BOOLEAN
    OBVIOUS
  <1>4. r \in ReqRec /\ r.pc = "select" /\ r.id = i /\ (r.known => i \in written)
    BY <1>3, <1>4a DEF ReqRec
  <1> HIDE DEF r
  <1>5. /\ req' \in [Client -> ReqRec] /\ req'[c] = r
        /\ \A d \in Client \ {c} : req'[d] = req[d]
    BY <1>1, <1>4 DEF IInv, Types, r
  <1>6. Types'
    BY <1>2, <1>5 DEF IInv, Types, table, mishaps
  <1>7. OnlyGiven'
    BY <1>2, <1>3, <1>4, <1>5, SameGiven DEF IInv, OnlyGiven, Dispatches, table
  <1>8. OneWriter'
    BY <1>2, <1>4, <1>5 DEF IInv, OneWriter, Writing, Cut, mishaps
  <1>9. CountedOnce'
    BY <1>2, SameCount DEF IInv, table, mishaps
  <1>10. QED
    BY <1>6, <1>7, <1>8, <1>9 DEF IInv

(* It gives up when the row is gone.                                        *)
LEMMA CancelSelectKeeps ==
  ASSUME IInv, NEW c \in Client, CancelSelect(c)
  PROVE  IInv'
  <1>1. /\ req[c].pc = "select"
        /\ UNCHANGED << table, file, runner, restarts, queued, cancelled, written, withdrawn, mishaps >>
        /\ errors' \in 0 .. MaxErrors
    BY DEF CancelSelect, Fails, IInv, Types
  <1>2. PICK r \in ReqRec : /\ req' = [req EXCEPT ![c] = r]
                            /\ \/ r = NoReq
                               \/ r.pc = "unlink" /\ r.id = req[c].id /\ r.known = req[c].known
    <2>1. [req[c] EXCEPT !.pc = "unlink"] \in ReqRec
      BY DEF IInv, Types, ReqRec
    <2>2. QED
      BY <2>1, IdleRecords DEF CancelSelect, IInv, Types, ReqRec
  <1>3. /\ req' \in [Client -> ReqRec] /\ req'[c] = r
        /\ \A d \in Client \ {c} : req'[d] = req[d]
    BY <1>2 DEF IInv, Types
  <1>4. Types'
    BY <1>1, <1>3 DEF IInv, Types, table, mishaps
  <1>5. OnlyGiven'
    BY <1>1, <1>2, <1>3, IdleRecords, SameGiven DEF IInv, OnlyGiven, Dispatches, table
  <1>6. OneWriter'
    BY <1>1, <1>2, <1>3, IdleRecords DEF IInv, OneWriter, Writing, Cut, mishaps
  <1>7. CountedOnce'
    BY <1>1, SameCount DEF IInv, table, mishaps
  <1>8. QED
    BY <1>4, <1>5, <1>6, <1>7 DEF IInv

(* It removes the file first, or fails to; from then on nothing whole can   *)
(* be read, or the file is one of those kept.                               *)
LEMMA CancelUnlinkKeeps ==
  ASSUME IInv, NEW c \in Client, CancelUnlink(c)
  PROVE  IInv'
  <1>1. /\ req[c].pc = "unlink"
        /\ UNCHANGED << table, runner, restarts, queued, cancelled, written, early, unread, undeleted >>
        /\ errors' \in 0 .. MaxErrors
    <2>1. errors' \in 0 .. MaxErrors
      BY DEF CancelUnlink, Fails, IInv, Types
    <2>2. QED
      BY <2>1 DEF CancelUnlink
  <1>2. PICK i \in Id : i = req[c].id
    BY <1>1, BusyIds
  <1> DEFINE r == [req[c] EXCEPT !.pc = "delete"]
  <1>3. r \in ReqRec /\ r.pc = "delete" /\ r.id = i /\ r.known = req[c].known
    BY <1>2 DEF IInv, Types, ReqRec
  <1>4. /\ req' = [req EXCEPT ![c] = r]
        /\ withdrawn' = withdrawn \cup {i}
        /\ \/ file' = [file EXCEPT ![i] = "none"] /\ kept' = kept
           \/ file' = file /\ kept' = kept \cup {i}
    BY <1>2 DEF CancelUnlink, IInv, Types
  <1> HIDE DEF r
  <1>5. /\ req' \in [Client -> ReqRec] /\ req'[c] = r
        /\ \A d \in Client \ {c} : req'[d] = req[d]
        /\ file' \in [Id -> {"none"} \cup Content]
        /\ kept' \subseteq Id /\ Cut \cup {i} \subseteq Cut'
        /\ \A j \in Id : file'[j] = "none" \/ file'[j] = file[j]
    BY <1>3, <1>4 DEF IInv, Types, Cut
  <1>6. Types'
    BY <1>1, <1>4, <1>5 DEF IInv, Types, table
  <1>7. OnlyGiven'
    BY <1>1, <1>2, <1>3, <1>5, SameGiven DEF IInv, OnlyGiven, Dispatches, table
  <1>8. OneWriter'
    <2>2. \A d \in Client : req'[d].known /\ req'[d].pc = "delete" => req'[d].id \in Cut'
      BY <1>3, <1>5 DEF IInv, OneWriter
    <2>3. /\ \A d \in Client : Writing(d)' => req'[d].id \notin written'
          /\ \A d, e \in Client : Writing(d)' /\ Writing(e)' /\ req'[d].id = req'[e].id => d = e
          /\ \A d \in Client : req'[d].known => req'[d].id \in written'
      BY <1>1, <1>2, <1>3, <1>5 DEF IInv, OneWriter, Writing
    <2>4. /\ \A j \in written' : file'[j] # "empty"
          /\ \A j \in cancelled' : j \in written' /\ j \in Cut'
      BY <1>1, <1>5 DEF IInv, OneWriter, Types
    <2>5. QED
      BY <2>2, <2>3, <2>4 DEF OneWriter
  <1>9. CountedOnce'
    BY <1>1, SameCount DEF IInv, table
  <1>10. QED
    BY <1>6, <1>7, <1>8, <1>9 DEF IInv

(* It answers ok when row and file are gone.                                *)
LEMMA CancelDeleteKeeps ==
  ASSUME IInv, NEW c \in Client, CancelDelete(c)
  PROVE  IInv'
  <1>1. /\ req[c].pc = "delete" /\ sched' \subseteq sched /\ req' = [req EXCEPT ![c] = NoReq]
        /\ UNCHANGED << nextSched, dueAt, file, runner, restarts, queued, written, withdrawn, mishaps >>
        /\ errors' \in 0 .. MaxErrors
    BY DEF CancelDelete, Fails, IInv, Types
  <1>2. PICK i \in Id : i = req[c].id
    BY <1>1, BusyIds
  <1>3. cancelled' = cancelled \/ (req[c].known /\ cancelled' = cancelled \cup {i})
    BY <1>2 DEF CancelDelete
  <1>4. /\ req' \in [Client -> ReqRec] /\ req'[c] = NoReq
        /\ \A d \in Client \ {c} : req'[d] = req[d]
    BY <1>1, IdleRecords DEF IInv, Types
  <1>5. Types'
    BY <1>1, <1>3, <1>4 DEF IInv, Types, mishaps
  <1>6. OnlyGiven'
    BY <1>1, <1>4, IdleRecords, SameGiven DEF IInv, OnlyGiven, Dispatches
  <1>7. OneWriter'
    BY <1>1, <1>2, <1>3, <1>4, IdleRecords DEF IInv, OneWriter, Writing, Cut, mishaps
  <1>8. CountedOnce'
    BY <1>1, SameCount DEF IInv, mishaps
  <1>9. QED
    BY <1>5, <1>6, <1>7, <1>8 DEF IInv

(* Rows that go with their account take no message to the queue.            *)
LEMMA DropAccountRowsKeeps ==
  ASSUME IInv, DropAccountRows
  PROVE  IInv'
  <1>1. /\ sched' = {} /\ withdrawn' = withdrawn \cup sched
        /\ UNCHANGED << nextSched, dueAt, file, req, runner, restarts, errors, queued, cancelled,
                        written, mishaps >>
    BY DEF DropAccountRows
  <1>2. sched \subseteq Id
    BY DEF IInv, Types, Id
  <1>3. Types'
    BY <1>1, <1>2 DEF IInv, Types, mishaps
  <1>4. QED
    BY <1>1, <1>3, SameGiven, SameWriters, SameCount DEF IInv, mishaps

(* A row that becomes due keeps everything else.                            *)
LEMMA SendAtPassesKeeps ==
  ASSUME IInv, NEW i \in Id, SendAtPasses(i)
  PROVE  IInv'
  <1>1. /\ dueAt' = dueAt \cup {i} /\ i \in sched
        /\ UNCHANGED << sched, nextSched, file, req, runner, restarts, errors, queued, cancelled,
                        written, withdrawn, mishaps >>
    BY DEF SendAtPasses
  <1>2. Types'
    BY <1>1 DEF IInv, Types, mishaps
  <1>3. QED
    BY <1>1, <1>2, SameGiven, SameWriters, SameCount DEF IInv, mishaps
-----------------------------------------------------------------------------
(* The runner.                                                             *)

(* The runner lists rows; the list may grow old.                            *)
LEMMA ListDueKeeps ==
  ASSUME IInv, ListDue
  PROVE  IInv'
  <1>1. /\ runner.pc = "idle"
        /\ UNCHANGED << table, file, req, restarts, errors, queued, cancelled, written, withdrawn,
                        mishaps >>
    BY DEF ListDue
  <1>2. sched \cap dueAt \subseteq Given /\ Given \subseteq Id
    BY DEF IInv, Types, Given, Id
  <1> DEFINE due == sched \cap dueAt
  <1>3. /\ runner' \in RunnerRec /\ runner'.pc = "next" /\ runner'.id = 0
        /\ runner'.due \subseteq Given
    <2>1. due \in SUBSET Id /\ due \subseteq Given
      BY <1>2
    <2>2. runner' = [Asleep EXCEPT !.pc = "next", !.due = due]
      BY DEF ListDue
    <2> HIDE DEF due
    <2>3. QED
      BY <2>1, <2>2, IdleRecords DEF RunnerRec
  <1>4. Types'
    BY <1>1, <1>3 DEF IInv, Types, table, mishaps
  <1>5. OnlyGiven'
    BY <1>1, <1>3 DEF IInv, OnlyGiven, Given, Dispatches, table
  <1>6. OneWriter'
    BY <1>1, SameWriters DEF IInv, mishaps
  <1>7. CountedOnce'
    BY <1>1, <1>3 DEF IInv, CountedOnce, InHand, Leaving, Dispatches, Repeats, table, mishaps
  <1>8. QED
    BY <1>4, <1>5, <1>6, <1>7 DEF IInv

(* It reads the next row again and skips it when it is gone, or cannot be   *)
(* read.                                                                    *)
LEMMA NextDueKeeps ==
  ASSUME IInv, NextDue
  PROVE  IInv'
  <1>1. /\ runner.pc = "next" /\ runner \in RunnerRec
        /\ UNCHANGED << table, file, req, restarts, queued, cancelled, written, withdrawn, mishaps >>
        /\ errors' \in 0 .. MaxErrors
    BY DEF NextDue, Fails, IInv, Types
  <1>2. OneWriter' /\ Given' = Given
    BY <1>1, SameWriters DEF IInv, Given, table, mishaps
  <1>3. runner.due \subseteq Given /\ runner.due \subseteq Id /\ runner.id \in Given \cup {0}
    BY <1>1 DEF IInv, OnlyGiven, RunnerRec
  <1>4. /\ runner' \in RunnerRec /\ runner'.due \subseteq Given /\ runner'.id \in Given \cup {0}
        /\ \/ runner'.pc = "next"
           \/ runner'.pc = "read" /\ runner'.id \in sched /\ runner'.id \in Given
    <2>1. PICK i \in runner.due :
            \/ i \in sched /\ runner' = [runner EXCEPT !.due = @ \ {i}, !.id = i, !.pc = "read"]
            \/ runner' = [runner EXCEPT !.due = @ \ {i}]
      BY DEF NextDue
    <2>2. i \in Given /\ i \in Id
      BY <1>3
    <2>3. CASE i \in sched /\ runner' = [runner EXCEPT !.due = @ \ {i}, !.id = i, !.pc = "read"]
      BY <1>1, <1>3, <2>2, <2>3 DEF RunnerRec
    <2>4. CASE runner' = [runner EXCEPT !.due = @ \ {i}]
      BY <1>1, <1>3, <2>4 DEF RunnerRec
    <2>5. QED
      BY <2>1, <2>3, <2>4
  <1>5. Types'
    BY <1>1, <1>4 DEF IInv, Types, table, mishaps
  <1>6. OnlyGiven'
    BY <1>1, <1>2, <1>4 DEF IInv, OnlyGiven, Dispatches, table
  <1>7. CountedOnce'
    <2>1. /\ \A j \in Id : ~Leaving(j)' /\ (InHand(j)' => j \in sched)
          /\ \A j \in Id : ~Leaving(j)
      BY <1>1, <1>4 DEF InHand, Leaving
    <2>2. \A j \in Id : Dispatches(j)' = Dispatches(j)
      BY <1>1 DEF Dispatches
    <2>3. Repeats' = Repeats /\ sched' = sched
      BY <1>1 DEF Repeats, table, mishaps
    <2>4. QED
      BY <2>1, <2>2, <2>3 DEF IInv, CountedOnce
  <1>8. QED
    BY <1>2, <1>5, <1>6, <1>7 DEF IInv

(* After the last row it sleeps until the next tick.                        *)
LEMMA DueDoneKeeps ==
  ASSUME IInv, DueDone
  PROVE  IInv'
  <1>1. /\ runner.pc = "next" /\ runner' = Asleep
        /\ UNCHANGED << table, file, req, restarts, errors, queued, cancelled, written, withdrawn,
                        mishaps >>
    BY DEF DueDone
  <1>2. OneWriter'
    BY <1>1, SameWriters DEF IInv, mishaps
  <1>3. Types'
    BY <1>1, IdleRecords DEF IInv, Types, table, mishaps
  <1>4. OnlyGiven'
    BY <1>1, IdleRecords DEF IInv, OnlyGiven, Given, Dispatches, table
  <1>5. CountedOnce'
    BY <1>1, IdleRecords
       DEF IInv, CountedOnce, InHand, Leaving, Dispatches, Repeats, table, mishaps
  <1>6. QED
    BY <1>2, <1>3, <1>4, <1>5 DEF IInv

(* It reads what the file holds now, the whole message or not; when it      *)
(* cannot, row and file are to go.                                          *)
LEMMA ReadDueKeeps ==
  ASSUME IInv, ReadDue
  PROVE  IInv'
  <1>1. /\ runner.pc = "read" /\ runner \in RunnerRec /\ runner.id \in Given /\ runner.id \in Id
        /\ UNCHANGED << table, file, req, restarts, queued, cancelled, written, withdrawn, kept,
                        undeleted >>
    BY DEF ReadDue, IInv, Types, OnlyGiven, Given, Id
  <1>2. /\ runner' \in RunnerRec /\ runner'.pc \in {"remove", "enqueue"}
        /\ runner'.id = runner.id /\ runner'.due = runner.due
        /\ errors' \in 0 .. MaxErrors /\ early' \subseteq Id /\ unread' \subseteq Id
    <2> DEFINE d == file[runner.id]
    <2>1. d \in {"none"} \cup Content
      BY <1>1 DEF IInv, Types
    <2>2. CASE runner' = [runner EXCEPT !.pc = "remove"]
      <3>1. /\ runner' \in RunnerRec /\ runner'.pc = "remove"
            /\ runner'.id = runner.id /\ runner'.due = runner.due
        BY <1>1, <2>2 DEF RunnerRec
      <3>2. errors' \in 0 .. MaxErrors /\ early' \subseteq Id /\ unread' \subseteq Id
        BY <1>1 DEF ReadDue, Fails, IInv, Types
      <3>3. QED
        BY <3>1, <3>2
    <2>3. CASE d # "none" /\ runner' = [runner EXCEPT !.pc = "enqueue", !.data = d]
      <3>1. /\ runner' \in RunnerRec /\ runner'.pc = "enqueue"
            /\ runner'.id = runner.id /\ runner'.due = runner.due
        <4> HIDE DEF d
        <4>1. QED
          BY <1>1, <2>1, <2>3 DEF RunnerRec
      <3>2. errors' \in 0 .. MaxErrors /\ early' \subseteq Id /\ unread' \subseteq Id
        BY <1>1 DEF ReadDue, Fails, IInv, Types
      <3>3. QED
        BY <3>1, <3>2
    <2>4. QED
      BY <2>2, <2>3 DEF ReadDue, BlobLost, ReadFile
  <1>3. OneWriter'
    BY <1>1, SameWriters DEF IInv
  <1>4. Types'
    BY <1>1, <1>2 DEF IInv, Types, table
  <1>5. OnlyGiven'
    <2>1. Given' = Given
      BY <1>1 DEF Given, table
    <2>2. QED
      BY <1>1, <1>2, <2>1 DEF IInv, OnlyGiven, Dispatches, table
  <1>6. CountedOnce'
    BY <1>1, <1>2 DEF IInv, CountedOnce, InHand, Leaving, Dispatches, Repeats, table
  <1>7. QED
    BY <1>3, <1>4, <1>5, <1>6 DEF IInv

(* It hands on what it read, once for this reading of the row.              *)
LEMMA EnqueueDueKeeps ==
  ASSUME IInv, EnqueueDue
  PROVE  IInv'
  <1>1. /\ runner.pc = "enqueue" /\ runner \in RunnerRec /\ runner.id \in Given
        /\ UNCHANGED << table, file, req, restarts, cancelled, written, withdrawn, mishaps >>
    BY DEF EnqueueDue, IInv, Types, OnlyGiven
  <1>2. PICK i \in Id : i = runner.id
    BY <1>1 DEF IInv, Types, Given, Id
  <1>3. OneWriter' /\ Given' = Given
    BY <1>1, SameWriters DEF IInv, Given, table, mishaps
  <1>4. ASSUME NEW pc \in {"remove", "next"}, runner' = [runner EXCEPT !.pc = pc]
        PROVE  /\ runner' \in RunnerRec /\ runner'.pc = pc
               /\ runner'.id = i /\ runner'.due = runner.due
    BY <1>1, <1>2, <1>4 DEF RunnerRec
  <1>5. CASE /\ queued' = [queued EXCEPT ![i][runner.data] = @ + 1]
             /\ runner' = [runner EXCEPT !.pc = "remove"] /\ errors' = errors
    <2>1. /\ runner' \in RunnerRec /\ runner'.pc = "remove"
          /\ runner'.id = i /\ runner'.due = runner.due
      BY <1>4, <1>5
    <2>2. PICK d \in Content : d = runner.data
      BY <1>1 DEF RunnerRec
    <2>3. /\ queued' \in [Id -> [Content -> Nat]] /\ queued'[i][d] = queued[i][d] + 1
          /\ \A e \in Content \ {d} : queued'[i][e] = queued[i][e]
          /\ \A j \in Id \ {i} : queued'[j] = queued[j]
      BY <1>5, <2>2 DEF IInv, Types
    <2>4. /\ Dispatches(i)' = Dispatches(i) + 1 /\ Dispatches(i) \in Nat
          /\ \A j \in Id \ {i} : Dispatches(j)' = Dispatches(j)
      BY <2>3 DEF Dispatches, Content, IInv, Types
    <2>5. Types'
      BY <1>1, <1>5, <2>1, <2>3 DEF IInv, Types, table, mishaps
    <2>6. OnlyGiven'
      BY <1>1, <1>2, <1>3, <2>1, <2>4 DEF IInv, OnlyGiven, table
    <2>7. CountedOnce'
      <3>1. Repeats \in Nat /\ Repeats' = Repeats /\ sched' = sched
        BY <1>1 DEF IInv, Types, Repeats, table, mishaps
      <3>2. InHand(i) /\ ~Leaving(i) /\ Leaving(i)'
        BY <1>1, <1>2, <2>1 DEF InHand, Leaving
      <3>3. Dispatches(i) <= Repeats
        BY <3>2 DEF IInv, CountedOnce
      <3>4. \A j \in Id \ {i} : ~InHand(j)' /\ ~Leaving(j)
        BY <1>1, <1>2, <2>1 DEF InHand, Leaving
      <3>5. QED
        BY <2>4, <3>1, <3>2, <3>3, <3>4 DEF IInv, CountedOnce
    <2>8. QED
      BY <1>3, <2>5, <2>6, <2>7 DEF IInv
  <1>6. CASE /\ errors < MaxErrors /\ errors' = errors + 1
             /\ runner' = [runner EXCEPT !.pc = "next"] /\ queued' = queued
    <2>1. /\ runner' \in RunnerRec /\ runner'.pc = "next"
          /\ runner'.id = i /\ runner'.due = runner.due
      BY <1>4, <1>6
    <2>2. Types'
      BY <1>1, <1>6, <2>1 DEF IInv, Types, table, mishaps
    <2>3. OnlyGiven'
      BY <1>1, <1>2, <1>3, <1>6, <2>1 DEF IInv, OnlyGiven, Dispatches, table
    <2>4. CountedOnce'
      BY <1>1, <1>6, <2>1 DEF IInv, CountedOnce, InHand, Leaving, Dispatches,
         Repeats, table, mishaps
    <2>5. QED
      BY <1>3, <2>2, <2>3, <2>4 DEF IInv
  <1>7. QED
    BY <1>2, <1>5, <1>6 DEF EnqueueDue, Fails, AfterEnqueue, AfterFailedEnqueue

(* It removes the file of what it handed on, or fails to.                   *)
LEMMA RemoveDueKeeps ==
  ASSUME IInv, RemoveDue
  PROVE  IInv'
  <1>1. /\ runner.pc = "remove" /\ runner \in RunnerRec /\ runner.id \in Given
        /\ runner' = [runner EXCEPT !.pc = "delete"]
        /\ UNCHANGED << table, req, restarts, queued, cancelled, written, withdrawn, mishaps >>
        /\ errors' \in 0 .. MaxErrors
    BY DEF RemoveDue, Fails, IInv, Types, OnlyGiven
  <1>2. /\ runner' \in RunnerRec /\ runner'.pc = "delete"
        /\ runner'.id = runner.id /\ runner'.due = runner.due
    BY <1>1 DEF RunnerRec
  <1>3. /\ file' \in [Id -> {"none"} \cup Content]
        /\ \A i \in Id : file'[i] = "none" \/ file'[i] = file[i]
        /\ Cut \subseteq Cut'
    BY <1>1 DEF RemoveDue, IInv, Types, Cut, mishaps
  <1>4. Types'
    BY <1>1, <1>2, <1>3 DEF IInv, Types, table, mishaps
  <1>5. OnlyGiven'
    BY <1>1, <1>2 DEF IInv, OnlyGiven, Given, Dispatches, table
  <1>6. OneWriter'
    <2>1. /\ \A d \in Client : Writing(d)' => req'[d].id \notin written'
          /\ \A d, e \in Client : Writing(d)' /\ Writing(e)' /\ req'[d].id = req'[e].id => d = e
          /\ \A d \in Client : req'[d].known => req'[d].id \in written'
      BY <1>1 DEF IInv, OneWriter, Writing
    <2>2. \A d \in Client : req'[d].known /\ req'[d].pc = "delete" => req'[d].id \in Cut'
      BY <1>1, <1>3 DEF IInv, OneWriter
    <2>3. /\ \A j \in written' : file'[j] # "empty"
          /\ \A j \in cancelled' : j \in written' /\ j \in Cut'
      BY <1>1, <1>3 DEF IInv, OneWriter, Types
    <2>4. QED
      BY <2>1, <2>2, <2>3 DEF OneWriter
  <1>7. CountedOnce'
    BY <1>1, <1>2 DEF IInv, CountedOnce, InHand, Leaving, Dispatches, Repeats, table, mishaps
  <1>8. QED
    BY <1>4, <1>5, <1>6, <1>7 DEF IInv

(* It removes the row, so the message is not handed on again; a DELETE that *)
(* fails is counted.                                                        *)
LEMMA DeleteDueKeeps ==
  ASSUME IInv, DeleteDue
  PROVE  IInv'
  <1>1. /\ runner.pc = "delete" /\ runner \in RunnerRec /\ runner.id \in Given
        /\ runner' = [runner EXCEPT !.pc = "next"]
        /\ UNCHANGED << nextSched, dueAt, file, req, restarts, queued, cancelled, written, withdrawn,
                        early, unread, kept >>
        /\ errors' \in 0 .. MaxErrors
        /\ \/ sched' = sched \ {runner.id} /\ undeleted' = undeleted
           \/ sched' = sched /\ undeleted' = undeleted + 1
    BY DEF DeleteDue, Fails, IInv, Types, OnlyGiven
  <1>2. /\ runner' \in RunnerRec /\ runner'.pc = "next"
        /\ runner'.id = runner.id /\ runner'.due = runner.due
    BY <1>1 DEF RunnerRec
  <1>3. Types'
    BY <1>1, <1>2 DEF IInv, Types
  <1>4. OnlyGiven'
    BY <1>1, <1>2 DEF IInv, OnlyGiven, Given, Dispatches
  <1>5. OneWriter'
    BY <1>1, SameWriters DEF IInv
  <1>6. CountedOnce'
    <2>1. \A i \in Id : Dispatches(i) \in Nat /\ Dispatches(i)' = Dispatches(i)
      BY <1>1 DEF Dispatches, Content, IInv, Types
    <2>2. \A i \in Id : ~InHand(i)' /\ ~Leaving(i)' /\ (Leaving(i) <=> i = runner.id)
      BY <1>1, <1>2 DEF InHand, Leaving
    <2>3. /\ Repeats \in Nat /\ Repeats' \in {Repeats, Repeats + 1}
          /\ sched' = sched \ {runner.id} \/ (sched' = sched /\ Repeats' = Repeats + 1)
      BY <1>1 DEF Repeats, IInv, Types
    <2>4. \A i \in Id : Dispatches(i) <= 1 + Repeats
      BY DEF IInv, CountedOnce
    <2>5. \A i \in sched : i \in Id /\ (i # runner.id => Dispatches(i) <= Repeats)
      BY <2>2 DEF IInv, CountedOnce, Types, Id
    <2>6. QED
      BY <2>1, <2>2, <2>3, <2>4, <2>5 DEF CountedOnce
  <1>7. QED
    BY <1>3, <1>4, <1>5, <1>6 DEF IInv

(* A restart may let a message be handed on once more, and is counted.      *)
LEMMA RestartKeeps ==
  ASSUME IInv, Restart
  PROVE  IInv'
  <1>1. /\ restarts < MaxSchedCrashes /\ restarts' = restarts + 1
        /\ req' = [c \in Client |-> NoReq] /\ runner' = Asleep
        /\ UNCHANGED << table, file, errors, queued, cancelled, written, withdrawn, mishaps >>
    BY DEF Restart
  <1>2. Types'
    BY <1>1, IdleRecords DEF IInv, Types, table, mishaps
  <1>3. OnlyGiven'
    BY <1>1, IdleRecords DEF IInv, OnlyGiven, Given, Dispatches, table
  <1>4. OneWriter'
    BY <1>1, IdleRecords DEF IInv, OneWriter, Writing, Cut, mishaps
  <1>5. CountedOnce'
    <2>1. \A i \in Id : Dispatches(i) <= 1 + Repeats /\ Dispatches(i) \in Nat /\ Repeats \in Nat
      BY DEF IInv, CountedOnce, Types, Dispatches, Content, Repeats
    <2>2. \A i \in Id : Dispatches(i)' = Dispatches(i)
      BY <1>1 DEF Dispatches
    <2>3. Repeats' = Repeats + 1
      BY <1>1 DEF Repeats, IInv, Types, mishaps
    <2>4. QED
      BY <2>1, <2>2, <2>3 DEF CountedOnce
  <1>6. QED
    BY <1>2, <1>3, <1>4, <1>5 DEF IInv


(* Without requests the invariant holds.                                    *)
LEMMA InitHolds == Init => IInv
  <1> SUFFICES ASSUME Init PROVE IInv
    OBVIOUS
  <1>1. Types
    BY IdleRecords DEF Init, Types, Content
  <1>2. OnlyGiven
    BY IdleRecords DEF Init, OnlyGiven, Given, Dispatches, Content
  <1>3. OneWriter
    BY IdleRecords DEF Init, OneWriter, Writing
  <1>4. CountedOnce
    BY DEF Init, CountedOnce, Dispatches, Content, Repeats
  <1>5. QED
    BY <1>1, <1>2, <1>3, <1>4 DEF IInv

(* Every step keeps the invariant.                                          *)
LEMMA StepKeeps == IInv /\ [Next]_svars => IInv'
  <1> SUFFICES ASSUME IInv, [Next]_svars PROVE IInv'
    OBVIOUS
  <1>1. CASE UNCHANGED svars
    <2>1. /\ sched' = sched /\ nextSched' = nextSched /\ dueAt' = dueAt /\ file' = file
          /\ req' = req /\ runner' = runner /\ restarts' = restarts /\ errors' = errors
          /\ queued' = queued /\ cancelled' = cancelled /\ written' = written
          /\ withdrawn' = withdrawn /\ early' = early /\ unread' = unread /\ kept' = kept
          /\ undeleted' = undeleted
      BY <1>1 DEF svars, table, mishaps
    <2>2. Types'
      BY <2>1 DEF IInv, Types
    <2>3. QED
      BY <2>1, <2>2, SameGiven, SameWriters, SameCount DEF IInv
  <1>2. ASSUME NEW c \in Client, Request(c)
        PROVE  IInv'
    BY <1>2, ScheduleSendKeeps, WriteMessageKeeps, StartCancelKeeps, CancelSelectKeeps,
       CancelUnlinkKeeps, CancelDeleteKeeps DEF Request
  <1>3. CASE DropAccountRows
    BY <1>3, DropAccountRowsKeeps
  <1>4. ASSUME NEW i \in Id, SendAtPasses(i)
        PROVE  IInv'
    BY <1>4, SendAtPassesKeeps
  <1>5. CASE Runner
    BY <1>5, ListDueKeeps, NextDueKeeps, DueDoneKeeps, ReadDueKeeps, EnqueueDueKeeps,
       RemoveDueKeeps, DeleteDueKeeps DEF Runner
  <1>6. CASE Restart
    BY <1>6, RestartKeeps
  <1>7. QED
    BY <1>1, <1>2, <1>3, <1>4, <1>5, <1>6 DEF Next

(* The inductive invariant, for any number of clients and messages.         *)
LEMMA Always == Spec => []IInv
  BY InitHolds, StepKeeps, PTL DEF Spec
-----------------------------------------------------------------------------
(* The theorems.                                                           *)

(* Every reachable state is well typed: what the runner enqueues is what a *)
(* file held.                                                              *)
THEOREM TypeCorrect == Spec => []TypeOK
  <1>1. IInv => TypeOK
    BY DEF IInv, Types, TypeOK, ReqRec, RunnerRec
  <1>2. QED
    BY <1>1, Always, PTL

(* processScheduled queues a delayed message at most once more than the    *)
(* process has died and a DELETE of its row failed.                        *)
THEOREM QueuedOnce == Spec => []DispatchedOnce
  <1>1. IInv => DispatchedOnce
    BY DEF IInv, CountedOnce, DispatchedOnce, Repeats, Types, Dispatches, Content
  <1>2. QED
    BY <1>1, Always, PTL

(* The runner takes a message up by reading its file, and in no other way. *)
LEMMA TakesUpWhatItReads ==
  ASSUME IInv, [Next]_svars, NEW i \in Id, Sending(i)', ~Sending(i)
  PROVE  file[i] # "none" /\ runner'.data = file[i]
  <1>1. runner' # runner
    BY DEF Sending
  <1>2. CASE ReadDue
    <2>1. runner \in RunnerRec
      BY DEF IInv, Types
    <2>2. CASE runner' = [runner EXCEPT !.pc = "remove"]
      <3>1. runner'.pc = "remove"
        BY <2>1, <2>2 DEF RunnerRec
      <3>2. QED
        BY <3>1 DEF Sending
    <2>3. CASE /\ file[runner.id] # "none"
               /\ runner' = [runner EXCEPT !.pc = "enqueue", !.data = file[runner.id]]
      <3>1. runner'.id = runner.id /\ runner'.data = file[runner.id]
        BY <2>1, <2>3 DEF RunnerRec
      <3>2. QED
        BY <2>3, <3>1 DEF Sending
    <2>4. QED
      BY <1>2, <2>2, <2>3 DEF ReadDue, BlobLost, ReadFile
  <1>3. CASE ListDue \/ NextDue \/ DueDone \/ EnqueueDue \/ RemoveDue \/ DeleteDue \/ Restart
    <2>1. runner \in RunnerRec
      BY DEF IInv, Types
    <2>2. runner'.pc # "enqueue"
      BY <1>3, <2>1, IdleRecords
         DEF ListDue, NextDue, DueDone, EnqueueDue, RemoveDue, DeleteDue, Restart, AfterEnqueue,
             AfterFailedEnqueue, RunnerRec, Asleep
    <2>3. QED
      BY <2>2 DEF Sending
  <1>4. QED
    BY <1>1, <1>2, <1>3
       DEF Next, Request, Runner, svars, ScheduleSend, WriteMessage, StartCancel, CancelSelect,
           CancelUnlink, CancelDelete, DropAccountRows, SendAtPasses

(* A cancel of a whole message that is answered before the runner has read *)
(* the file holds for ever, unless the file could not be removed.          *)
THEOREM CancelStands == Spec => CancelHolds
  <1>1. ASSUME IInv, [Next]_svars, NEW i \in cancelled \ kept, Sending(i)'
        PROVE  Sending(i)
    <2>1. i \in Id /\ file[i] = "none"
      BY <1>1 DEF IInv, Types, OneWriter, Cut
    <2>2. QED
      BY <1>1, <2>1, TakesUpWhatItReads
  <1>2. IInv /\ [Next]_svars => [\A i \in cancelled \ kept : Sending(i)' => Sending(i)]_svars
    BY <1>1
  <1>3. QED
    BY <1>2, Always, PTL DEF Spec, CancelHolds

(* Once mailCompose has answered with ok, the runner never takes the empty *)
(* file that ScheduleSend left for the message.                            *)
THEOREM AnsweredIsWhole == Spec => AnsweredGoesWhole
  <1>1. ASSUME IInv, [Next]_svars, NEW i \in written, Sending(i)', runner'.data = "empty"
        PROVE  Sending(i)
    <2>1. i \in Id /\ file[i] # "empty"
      BY <1>1 DEF IInv, Types, OneWriter
    <2>2. QED
      BY <1>1, <2>1, TakesUpWhatItReads
  <1>2. IInv /\ [Next]_svars =>
          [\A i \in written : Sending(i)' /\ runner'.data = "empty" => Sending(i)]_svars
    BY <1>1
  <1>3. QED
    BY <1>2, Always, PTL DEF Spec, AnsweredGoesWhole

=============================================================================

--------------------------- MODULE ScheduledSend ---------------------------
(***************************************************************************)
(* Delayed sends: table scheduled and the files under scheduled/, written   *)
(* by web/handlers_compose.go, cancelled by web/handlers_mail.go, and       *)
(* drained every 10 seconds by Sender.RunScheduled into the outbound queue. *)
(*                                                                         *)
(* There is no lock: compose, cancel and the runner meet only in the row    *)
(* and in the file.  Compose inserts the row with an EMPTY file and writes  *)
(* the message into it afterwards.  Enqueue is the one of SendQueue; what   *)
(* becomes of the message behind it is modelled there.                      *)
(***************************************************************************)
EXTENDS Naturals, FiniteSets, Functions

CONSTANTS
  Client,       \* HTTP requests: composing or cancelling
  MaxScheduled, MaxSchedCrashes, MaxErrors   \* bounds of the model

ASSUME SchedBounds == {MaxScheduled, MaxSchedCrashes, MaxErrors} \subseteq Nat

VARIABLES
  sched,        \* table scheduled: the ids of its rows
  nextSched,    \* its AUTOINCREMENT
  dueAt,        \* ids whose send_at has passed
  file,         \* id -> what its file holds: "none", "empty" or "whole"
  req,          \* Client -> its request in progress
  runner,       \* the pass of processScheduled
  restarts, errors,
  queued,       \* what was put into send_queue: id -> content -> how often
  cancelled,    \* history: known ids whose cancel was answered with ok
  written,      \* history: ids whose compose was answered with ok
  withdrawn,    \* history: ids somebody began to cancel or whose account went
  early,        \* history: ids whose file the runner read when it was empty
  unread,       \* history: ids whose file the runner could not read, it being there
  kept,         \* history: ids whose file a cancel failed to remove
  undeleted     \* history: how often the runner's DELETE of a row failed

table   == << sched, nextSched, dueAt >>
mishaps == << early, unread, kept, undeleted >>
svars   == << table, file, req, runner, restarts, errors, queued, cancelled, written, withdrawn,
              mishaps >>

Id      == 1 .. MaxScheduled
Content == {"empty", "whole"}

NoReq  == [pc |-> "idle", id |-> 0, known |-> FALSE]
Asleep == [pc |-> "idle", due |-> {}, id |-> 0, data |-> "empty"]

(* ScheduleSend: an empty temp file and the row, with a send_at to come.    *)
ScheduleSend(c) ==
  /\ req[c].pc = "idle" /\ nextSched <= MaxScheduled
  /\ sched'     = sched \cup {nextSched}
  /\ nextSched' = nextSched + 1
  /\ file'      = [file EXCEPT ![nextSched] = "empty"]
  /\ req'       = [req EXCEPT ![c] = [NoReq EXCEPT !.pc = "write", !.id = nextSched]]
  /\ UNCHANGED << dueAt, runner, restarts, errors, queued, cancelled, written, withdrawn, mishaps >>

(* Any statement and any file operation may fail (Fails).                   *)
Fails == errors < MaxErrors /\ errors' = errors + 1

(* mailCompose writes the message (creating the file anew when it is gone); *)
(* when that fails, leaving the file as it was or not whole ("empty"), it   *)
(* cancels the row and answers with an error.                               *)
AnsweredOkFaulty(i, ok) == written \cup {i}
AnsweredOk(i, ok)       == IF ok THEN written \cup {i} ELSE written

WriteMessage(c) ==
  /\ req[c].pc = "write"
  /\ \/ /\ file'    = [file EXCEPT ![req[c].id] = "whole"]
        /\ written' = AnsweredOk(req[c].id, TRUE)
        /\ req'     = [req EXCEPT ![c] = NoReq]
        /\ UNCHANGED errors
     \/ /\ Fails
        /\ \E left \in {file[req[c].id], "empty"} : file' = [file EXCEPT ![req[c].id] = left]
        /\ req'     = [req EXCEPT ![c].pc = "select"]
        /\ written' = AnsweredOk(req[c].id, FALSE)
  /\ UNCHANGED << table, runner, restarts, queued, cancelled, withdrawn, mishaps >>

(* DELETE /api/mail/scheduled/ID: CancelScheduled looks the row up, removes *)
(* the file and then the row.  known: the message was all there when the    *)
(* request came (an id can be listed, and cancelled, before it is).         *)
StartCancel(c) ==
  /\ req[c].pc = "idle"
  /\ \E i \in sched :
       req' = [req EXCEPT ![c] = [pc |-> "select", id |-> i, known |-> i \in written]]
  /\ UNCHANGED << table, file, runner, restarts, errors, queued, cancelled, written, withdrawn,
                  mishaps >>

CancelSelect(c) ==
  /\ req[c].pc = "select"
  /\ \/ /\ req[c].id \in sched
        /\ req' = [req EXCEPT ![c].pc = "unlink"]
        /\ UNCHANGED errors
     \/ /\ IF req[c].id \in sched THEN Fails ELSE UNCHANGED errors
        /\ req' = [req EXCEPT ![c] = NoReq]
  /\ UNCHANGED << table, file, runner, restarts, queued, cancelled, written, withdrawn, mishaps >>

(* The error of Remove is dropped, the one of DELETE is answered.           *)
CancelUnlink(c) ==
  /\ req[c].pc = "unlink"
  /\ \/ /\ file' = [file EXCEPT ![req[c].id] = "none"]
        /\ UNCHANGED << errors, kept >>
     \/ /\ Fails
        /\ kept' = kept \cup {req[c].id}
        /\ UNCHANGED file
  /\ req'  = [req EXCEPT ![c].pc = "delete"]
  /\ withdrawn' = withdrawn \cup {req[c].id}
  /\ UNCHANGED << table, runner, restarts, queued, cancelled, written, early, unread, undeleted >>

CancelDelete(c) ==
  /\ req[c].pc = "delete"
  /\ \/ /\ sched'     = sched \ {req[c].id}
        /\ cancelled' = IF req[c].known THEN cancelled \cup {req[c].id} ELSE cancelled
        /\ UNCHANGED errors
     \/ Fails /\ UNCHANGED << sched, cancelled >>
  /\ req' = [req EXCEPT ![c] = NoReq]
  /\ UNCHANGED << nextSched, dueAt, file, runner, restarts, queued, written, withdrawn, mishaps >>

(* The account is deleted: its rows cascade, the files stay.                *)
DropAccountRows ==
  /\ sched # {} /\ sched' = {}
  /\ withdrawn' = withdrawn \cup sched
  /\ UNCHANGED << nextSched, dueAt, file, req, runner, restarts, errors, queued, cancelled,
                  written, mishaps >>

SendAtPasses(i) ==
  /\ i \in sched \ dueAt
  /\ dueAt' = dueAt \cup {i}
  /\ UNCHANGED << sched, nextSched, file, req, runner, restarts, errors, queued, cancelled,
                  written, withdrawn, mishaps >>

(* processScheduled: what is due; then, for each, the row again and its     *)
(* file.  A row that cannot be read is left for the next tick; one whose    *)
(* file cannot be read, gone or not, is dropped.                            *)
ListDue ==
  /\ runner.pc = "idle" /\ sched \cap dueAt # {}
  /\ runner' = [Asleep EXCEPT !.pc = "next", !.due = sched \cap dueAt]
  /\ UNCHANGED << table, file, req, restarts, errors, queued, cancelled, written, withdrawn,
                  mishaps >>

NextDue ==
  /\ runner.pc = "next"
  /\ \E i \in runner.due :
       \/ /\ i \in sched
          /\ runner' = [runner EXCEPT !.due = @ \ {i}, !.id = i, !.pc = "read"]
          /\ UNCHANGED errors
       \/ /\ IF i \in sched THEN Fails ELSE UNCHANGED errors
          /\ runner' = [runner EXCEPT !.due = @ \ {i}]
  /\ UNCHANGED << table, file, req, restarts, queued, cancelled, written, withdrawn, mishaps >>

DueDone ==
  /\ runner.pc = "next" /\ runner.due = {}
  /\ runner' = Asleep
  /\ UNCHANGED << table, file, req, restarts, errors, queued, cancelled, written, withdrawn,
                  mishaps >>

(* What ReadFile gives for the file of id i; data is "none" on an error.    *)
ReadFileFaulty(i) == IF file[i] = "none" THEN "whole" ELSE file[i]
ReadFile(i)       == file[i]

BlobLostFaulty(data) == FALSE
BlobLost(data)       == data = "none"

ReadDue ==
  LET i == runner.id  data == ReadFile(i) IN
  /\ runner.pc = "read"
  /\ \/ /\ ~BlobLost(data)
        /\ runner' = [runner EXCEPT !.pc = "enqueue", !.data = data]
        /\ early'  = IF data = "empty" THEN early \cup {i} ELSE early
        /\ UNCHANGED << errors, unread >>
     \/ /\ IF BlobLost(data) THEN UNCHANGED << errors, unread >>
                            ELSE Fails /\ unread' = unread \cup {i}
        /\ runner' = [runner EXCEPT !.pc = "remove"]
        /\ UNCHANGED early
  /\ UNCHANGED << table, file, req, restarts, queued, cancelled, written, withdrawn, kept, undeleted >>

(* Enqueue; when it fails the row is left for the next tick.                *)
AfterEnqueueFaulty       == "next"
AfterEnqueue             == "remove"
AfterFailedEnqueueFaulty == "remove"
AfterFailedEnqueue       == "next"

EnqueueDue ==
  /\ runner.pc = "enqueue"
  /\ \/ /\ queued' = [queued EXCEPT ![runner.id][runner.data] = @ + 1]
        /\ runner' = [runner EXCEPT !.pc = AfterEnqueue]
        /\ UNCHANGED errors
     \/ /\ Fails
        /\ runner' = [runner EXCEPT !.pc = AfterFailedEnqueue]
        /\ UNCHANGED queued
  /\ UNCHANGED << table, file, req, restarts, cancelled, written, withdrawn, mishaps >>

(* DeleteScheduledRow: the file, when the row can be read and the file be   *)
(* removed, then the row; the errors of all three are dropped.              *)
RemoveDue ==
  /\ runner.pc = "remove"
  /\ \/ /\ file' = IF runner.id \in sched THEN [file EXCEPT ![runner.id] = "none"] ELSE file
        /\ UNCHANGED errors
     \/ Fails /\ UNCHANGED file
  /\ runner' = [runner EXCEPT !.pc = "delete"]
  /\ UNCHANGED << table, req, restarts, queued, cancelled, written, withdrawn, mishaps >>

DeleteDue ==
  /\ runner.pc = "delete"
  /\ \/ /\ sched' = sched \ {runner.id}
        /\ UNCHANGED << errors, undeleted >>
     \/ /\ Fails
        /\ undeleted' = undeleted + 1
        /\ UNCHANGED sched
  /\ runner' = [runner EXCEPT !.pc = "next"]
  /\ UNCHANGED << nextSched, dueAt, file, req, restarts, queued, cancelled, written, withdrawn,
                  early, unread, kept >>

(* The process dies; the rows, the files and the queue stay.                *)
Restart ==
  /\ restarts < MaxSchedCrashes
  /\ restarts' = restarts + 1
  /\ req'      = [c \in Client |-> NoReq]
  /\ runner'   = Asleep
  /\ UNCHANGED << table, file, errors, queued, cancelled, written, withdrawn, mishaps >>

Init ==
  /\ sched = {} /\ nextSched = 1 /\ dueAt = {}
  /\ file = [i \in Id |-> "none"]
  /\ req = [c \in Client |-> NoReq]
  /\ runner = Asleep
  /\ restarts = 0 /\ errors = 0
  /\ queued = [i \in Id |-> [d \in Content |-> 0]]
  /\ cancelled = {} /\ written = {} /\ withdrawn = {}
  /\ early = {} /\ unread = {} /\ kept = {} /\ undeleted = 0

Request(c) ==
  \/ ScheduleSend(c)
  \/ WriteMessage(c)
  \/ StartCancel(c)
  \/ CancelSelect(c)
  \/ CancelUnlink(c)
  \/ CancelDelete(c)

Runner == ListDue \/ NextDue \/ DueDone \/ ReadDue \/ EnqueueDue \/ RemoveDue \/ DeleteDue

Next ==
  \/ \E c \in Client : Request(c)
  \/ DropAccountRows
  \/ \E i \in Id : SendAtPasses(i)
  \/ Runner
  \/ Restart

Spec == Init /\ [][Next]_svars

(* The 10-second ticker and the clock go on for ever.                       *)
FairSpec == Spec /\ WF_svars(Runner) /\ \A i \in Id : WF_svars(SendAtPasses(i))
-----------------------------------------------------------------------------

(* An operator named ...Faulty is the one after it with a plausible bug; it *)
(* is used by nothing here and shows that a property notices the bug.       *)

(* The types of the table, the files and the calls: in particular what the  *)
(* runner enqueues was read from a file.                                    *)
TypeOK ==
  /\ sched \subseteq 1 .. nextSched - 1 /\ nextSched \in 1 .. MaxScheduled + 1
  /\ dueAt \subseteq 1 .. nextSched - 1
  /\ file \in [Id -> {"none"} \cup Content]
  /\ req \in [Client -> [pc : {"idle", "write", "select", "unlink", "delete"},
                         id : Id \cup {0}, known : BOOLEAN]]
  /\ runner \in [pc : {"idle", "next", "read", "enqueue", "remove", "delete"},
                 due : SUBSET Id, id : Id \cup {0}, data : Content]
  /\ restarts \in 0 .. MaxSchedCrashes /\ errors \in 0 .. MaxErrors
  /\ queued \in [Id -> [Content -> Nat]]
  /\ cancelled \cup written \cup withdrawn \cup early \cup unread \cup kept \subseteq Id
  /\ undeleted \in Nat

Dispatches(i) == queued[i]["empty"] + queued[i]["whole"]

(* A delayed message is queued once; only a crash between Enqueue and the   *)
(* removal of the row, or a DELETE of the row that failed, queues it again. *)
DispatchedOnce == \A i \in Id : Dispatches(i) <= 1 + restarts + undeleted

(* A cancel of a whole message that is answered before the runner has       *)
(* read the file holds: the runner, whatever list of due messages it works  *)
(* from, never picks the message up afterwards.  A file that the cancel     *)
(* could not remove is the exception: the runner may stand between the row  *)
(* and the file.                                                            *)
Sending(i) == runner.pc = "enqueue" /\ runner.id = i
CancelHolds ==
  [][\A i \in cancelled \ kept : Sending(i)' => Sending(i)]_svars

(* A message whose compose was answered with ok before the runner opened    *)
(* its file is queued whole in the end, unless somebody cancels it, its     *)
(* account goes, or the runner fails to read it: no crash, failed Enqueue,  *)
(* unreadable row or other request's cancel loses it.                       *)
EventuallyQueued ==
  \A i \in Id : (i \in written \ early) ~> (queued[i]["whole"] > 0 \/ i \in withdrawn \cup unread)

(* CancelScheduled's doc: "The message is never delivered afterwards".      *)
CancelIsFinal ==
  [][\A i \in cancelled : Dispatches(i)' = Dispatches(i)]_svars

(* Once a compose was answered with ok, the runner never takes the empty    *)
(* file of the row for the message: what can go out empty (the row falls    *)
(* due, or the process dies, between the two writes) was not promised, or   *)
(* not yet.                                                                 *)
AnsweredGoesWhole ==
  [][\A i \in written : Sending(i)' /\ runner'.data = "empty" => Sending(i)]_svars
=============================================================================

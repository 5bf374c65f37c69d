----------------------------- MODULE SendQueue -----------------------------
(***************************************************************************)
(* The outbound queue of internal/sender: table send_queue, one file per   *)
(* message under outbound/, and ProcessQueue, which a ticker runs every    *)
(* 30 seconds and the console's flush button at any time, one at a time    *)
(* under Sender.mu.                                                        *)
(*                                                                         *)
(* One attempt hands the message to EVERY recipient, in SMTP sessions of   *)
(* their own; one that fails makes the whole message be tried again later. *)
(* A remote server may take the message and the session still end in an    *)
(* error (smtpSendAuth returns the error of QUIT, of a lost reply to DATA).*)
(* Only the dial has a timeout: a server that stops answering later holds  *)
(* the pass, and with it Sender.mu, until the process ends.                *)
(* The UPDATEs ignore their errors, so a row may stay as it was (faults).  *)
(*                                                                         *)
(* Time is one flag per row, "next_try_at has passed"; relays, routes and  *)
(* DKIM decide who is spoken to and what is said, not when, and are left   *)
(* out.  The order of the recipients does not matter here.                 *)
(***************************************************************************)
EXTENDS Naturals, Functions

CONSTANTS
  Processor,    \* goroutines that call ProcessQueue: the ticker's and flush requests
  None,         \* nobody holds the mutex
  Rcpt,         \* recipients
  MaxAttempts,  \* 8 in deliver
  MaxItems, MaxCrashes, MaxFaults   \* bounds of the model

ASSUME ProcessorAssumption == None \notin Processor
ASSUME AttemptsAssumption  == MaxAttempts \in Nat \ {0}
ASSUME QueueBounds         == {MaxItems, MaxCrashes, MaxFaults} \subseteq Nat

VARIABLES
  queue,        \* table send_queue: id -> [rcpts, status, attempts, due]
  nextItem,     \* its AUTOINCREMENT
  outbound,     \* ids whose data file exists
  mu,           \* who holds Sender.mu
  run,          \* Processor -> its pass over the queue
  crashes, faults,
  copies,       \* history: id -> recipient -> copies its server took
  unread        \* history: ids whose file was there and could not be read

table == << queue, nextItem >>
qvars == << table, outbound, mu, run, crashes, faults, copies, unread >>

Item == 1 .. MaxItems
Row  == [rcpts : SUBSET Rcpt, status : {"pending", "sent", "failed"},
         attempts : 0 .. MaxAttempts, due : BOOLEAN]

NoPass == [pc |-> "idle", batch |-> << >>, item |-> 0, todo |-> {}, error |-> FALSE]

(* Enqueue: the file is written before the row is inserted, and nobody     *)
(* knows its name before that, so the two are one step.                    *)
Enqueue(rcpts) ==
  /\ nextItem <= MaxItems
  /\ queue' = [i \in DOMAIN queue \cup {nextItem} |->
                 IF i = nextItem
                 THEN [rcpts |-> rcpts, status |-> "pending", attempts |-> 0, due |-> TRUE]
                 ELSE queue[i]]
  /\ nextItem' = nextItem + 1
  /\ outbound' = outbound \cup {nextItem}
  /\ UNCHANGED << mu, run, crashes, faults, copies, unread >>

(* ProcessQueue takes the mutex and lists what is due, attempts included;  *)
(* a pass that finds nothing changes nothing.                              *)
Due == {i \in DOMAIN queue : queue[i].status = "pending" /\ queue[i].due}

MayLockFaulty(p) == TRUE
MayLock(p)       == mu = None

Lock(p) ==
  /\ run[p].pc = "idle" /\ MayLock(p) /\ Due # {}
  /\ mu'  = p
  /\ run' = [run EXCEPT ![p].pc = "next", ![p].batch = [i \in Due |-> queue[i].attempts]]
  /\ UNCHANGED << table, outbound, crashes, faults, copies, unread >>

(* An UPDATE of row i that may silently fail.                              *)
Update(i, row) ==
  \/ queue' = [queue EXCEPT ![i] = row] /\ UNCHANGED faults
  \/ faults < MaxFaults /\ faults' = faults + 1 /\ UNCHANGED queue

(* The next item of the batch, in the order of the ids, and its file.      *)
NextOfBatch(p, i) ==
  /\ run[p].pc = "next"
  /\ i \in DOMAIN run[p].batch /\ \A j \in DOMAIN run[p].batch : i <= j

Read(p, i) ==
  /\ i \in outbound
  /\ run' = [run EXCEPT ![p].pc = "hand", ![p].item = i,
                        ![p].todo = queue[i].rcpts, ![p].error = FALSE]
  /\ UNCHANGED << queue, faults, unread >>

(* An item whose file cannot be read, there or not, is finished as failed  *)
(* at once: one failing read is enough, and no attempt is counted.         *)
ReadFails(p, i) ==
  /\ unread' = IF i \in outbound THEN unread \cup {i} ELSE unread
  /\ Update(i, [queue[i] EXCEPT !.status = "failed"])
  /\ run' = [run EXCEPT ![p].batch = Restrict(@, DOMAIN @ \ {i})]

Begin(p) ==
  /\ \E i \in Item : NextOfBatch(p, i) /\ (Read(p, i) \/ ReadFails(p, i))
  /\ UNCHANGED << nextItem, outbound, mu, crashes, copies >>

(* One recipient: the server takes the message or not, and whatever it did *)
(* the session may end in an error.                                        *)
Hand(p, r) ==
  /\ run[p].pc = "hand" /\ r \in run[p].todo
  /\ \E taken, error \in BOOLEAN :
       /\ taken \/ error
       /\ copies' = IF taken THEN [copies EXCEPT ![run[p].item][r] = @ + 1] ELSE copies
       /\ run' = [run EXCEPT ![p].todo = @ \ {r}, ![p].error = @ \/ error]
  /\ UNCHANGED << table, outbound, mu, crashes, faults, unread >>

(* The server of one recipient takes the message or not, and says no more: *)
(* smtpSendAuth waits for its greeting, an answer or the one to QUIT.      *)
Silence(p, r) ==
  /\ run[p].pc = "hand" /\ r \in run[p].todo
  /\ \E taken \in BOOLEAN :
       copies' = IF taken THEN [copies EXCEPT ![run[p].item][r] = @ + 1] ELSE copies
  /\ run' = [run EXCEPT ![p].pc = "silent", ![p].todo = @ \ {r}]
  /\ UNCHANGED << table, outbound, mu, crashes, faults, unread >>

(* Every recipient was tried: finish, or count the attempt and back off.   *)
(* finish writes the status only, so a failed row keeps its old count.     *)
AttemptsFaulty(p) == run[p].batch[run[p].item]
Attempts(p)       == run[p].batch[run[p].item] + 1

OutcomeFaulty(p) ==
  LET i == run[p].item IN [queue[i] EXCEPT !.status = "sent"]
OutcomeHastyFaulty(p) ==
  LET i == run[p].item IN
  IF ~run[p].error                       THEN [queue[i] EXCEPT !.status = "sent"]
  ELSE IF Attempts(p) + 1 >= MaxAttempts THEN [queue[i] EXCEPT !.status = "failed"]
  ELSE [queue[i] EXCEPT !.attempts = Attempts(p), !.due = FALSE]
Outcome(p) ==
  LET i == run[p].item IN
  IF ~run[p].error                     THEN [queue[i] EXCEPT !.status = "sent"]
  ELSE IF Attempts(p) >= MaxAttempts   THEN [queue[i] EXCEPT !.status = "failed"]
  ELSE [queue[i] EXCEPT !.attempts = Attempts(p), !.due = FALSE]

Settle(p) ==
  /\ run[p].pc = "hand" /\ run[p].todo = {}
  /\ Update(run[p].item, Outcome(p))
  /\ run' = [run EXCEPT ![p].pc    = IF run[p].error THEN "next" ELSE "unlink",
                        ![p].batch = Restrict(@, DOMAIN @ \ {run[p].item})]
  /\ UNCHANGED << nextItem, outbound, mu, crashes, copies, unread >>

RemoveData(p) ==
  /\ run[p].pc = "unlink"
  /\ outbound' = outbound \ {run[p].item}
  /\ run' = [run EXCEPT ![p].pc = "next"]
  /\ UNCHANGED << table, mu, crashes, faults, copies, unread >>

Unlock(p) ==
  /\ run[p].pc = "next" /\ run[p].batch = << >>
  /\ mu'  = None
  /\ run' = [run EXCEPT ![p] = NoPass]
  /\ UNCHANGED << table, outbound, crashes, faults, copies, unread >>

(* The backoff of item i runs out.                                         *)
Elapse(i) ==
  /\ i \in DOMAIN queue /\ ~queue[i].due
  /\ queue' = [queue EXCEPT ![i].due = TRUE]
  /\ UNCHANGED << nextItem, outbound, mu, run, crashes, faults, copies, unread >>

(* The process dies and is started again; what is in the table goes on.    *)
QCrash ==
  /\ crashes < MaxCrashes
  /\ crashes' = crashes + 1
  /\ mu'  = None
  /\ run' = [p \in Processor |-> NoPass]
  /\ UNCHANGED << table, outbound, faults, copies, unread >>

QInit ==
  /\ queue = << >> /\ nextItem = 1
  /\ outbound = {}
  /\ mu = None
  /\ run = [p \in Processor |-> NoPass]
  /\ crashes = 0 /\ faults = 0
  /\ copies = [i \in Item |-> [r \in Rcpt |-> 0]]
  /\ unread = {}

Pass(p) ==
  \/ Lock(p)
  \/ Begin(p)
  \/ \E r \in Rcpt : Hand(p, r) \/ Silence(p, r)
  \/ Settle(p)
  \/ RemoveData(p)
  \/ Unlock(p)

QNext ==
  \/ \E rcpts \in (SUBSET Rcpt) \ {{}} : Enqueue(rcpts)
  \/ \E p \in Processor : Pass(p)
  \/ \E i \in Item : Elapse(i)
  \/ QCrash

Spec == QInit /\ [][QNext]_qvars

(* An operator named ...Faulty is the one after it with a plausible bug; it *)
(* is used by nothing here and shows that a property notices the bug.       *)

(* The ticker of Run and the clock never stop.  A pass goes on as long as   *)
(* servers answer; nothing moves one that waits for a silent server.       *)
QFair == (\A p \in Processor : WF_qvars(Pass(p))) /\ (\A i \in Item : WF_qvars(Elapse(i)))
FairSpec == Spec /\ QFair
-----------------------------------------------------------------------------

PassType(p) ==
  /\ run[p].pc \in {"idle", "next", "hand", "silent", "unlink"}
  /\ DOMAIN run[p].batch \subseteq DOMAIN queue
  /\ \A i \in DOMAIN run[p].batch : run[p].batch[i] \in 0 .. MaxAttempts
  /\ run[p].item \in Item \cup {0}
  /\ run[p].todo \subseteq Rcpt
  /\ run[p].error \in BOOLEAN
  /\ run[p].pc # "idle" => mu = p
  /\ run[p].pc = "hand" => run[p].item \in DOMAIN run[p].batch

(* The types of the queue, and the mutex: only its holder is in a pass.    *)
TypeOK ==
  /\ DOMAIN queue = 1 .. nextItem - 1 /\ nextItem \in 1 .. MaxItems + 1
  /\ \A i \in DOMAIN queue : queue[i] \in Row
  /\ outbound \subseteq Item
  /\ mu \in Processor \cup {None}
  /\ \A p \in Processor : PassType(p)
  /\ crashes \in 0 .. MaxCrashes /\ faults \in 0 .. MaxFaults
  /\ copies \in [Item -> [Rcpt -> Nat]]
  /\ unread \subseteq Item

Everybody(i) == \A r \in queue[i].rcpts : copies[i][r] > 0

(* A recipient gets at most one copy for each attempt that was counted, and *)
(* one more for a crash or a lost UPDATE that made the queue forget one:    *)
(* two passes at once (ticker and flush) never add to that.                 *)
CopiesBounded ==
  \A i \in DOMAIN queue, r \in Rcpt : copies[i][r] <= MaxAttempts + crashes + faults

(* A message is given up only after all its attempts, unless everybody has  *)
(* it already (the UPDATE to 'sent' was lost and the file is gone) or its   *)
(* file could not be read: that file is never missing while the message     *)
(* still has to be sent, and no refusal, lost UPDATE, crash or second pass  *)
(* shortens the attempts.                                                   *)
NeverGivesUpEarly ==
  \A i \in DOMAIN queue :
    queue[i].status = "failed" =>
      queue[i].attempts = MaxAttempts - 1 \/ Everybody(i) \/ i \in unread

(* No copy goes out for a message whose fate is already in the table.       *)
NoCopyOnceSettled ==
  [][\A i \in DOMAIN queue : copies'[i] # copies[i] => queue[i].status = "pending"]_qvars

Settled(i) == i \in DOMAIN queue /\ queue[i].status # "pending"
Hung       == \E p \in Processor : run[p].pc = "silent"

(* Every queued message is in the end sent or failed, as long as no pass is *)
(* left waiting for a silent server for ever: refusals, lost UPDATEs, a     *)
(* crash and two passes at once leave none behind.                          *)
EventuallySettled == []<>~Hung => \A i \in Item : (i \in DOMAIN queue) ~> Settled(i)

(* The queue keeps the promise of Outbound.                                 *)
Promise == INSTANCE Outbound WITH
             Mail <- Item,
             mail <- [i \in DOMAIN queue |-> [rcpts  |-> queue[i].rcpts,
                                              status |-> queue[i].status]],
             got  <- [i \in Item |-> {r \in Rcpt : copies[i][r] > 0}]
OutboundSpec == Promise!Spec
=============================================================================

------------------------- MODULE SendQueue_proofs -------------------------
(***************************************************************************)
(* Theorems about SendQueue, for any processors, recipients and numbers of *)
(* attempts, messages, crashes and lost UPDATEs.                           *)
(***************************************************************************)
EXTENDS SendQueue, TLAPS

USE ProcessorAssumption, AttemptsAssumption, QueueBounds

(* The shape of the state.                                                 *)
Batches == UNION {[S -> 0 .. MaxAttempts] : S \in SUBSET Item}
PassRec == [pc : {"idle", "next", "hand", "silent", "unlink"}, batch : Batches,
            item : Item \cup {0}, todo : SUBSET Rcpt, error : BOOLEAN]

Shape ==
  /\ nextItem \in 1 .. MaxItems + 1
  /\ queue \in [1 .. nextItem - 1 -> Row]
  /\ outbound \subseteq Item
  /\ mu \in Processor \cup {None}
  /\ run \in [Processor -> PassRec]
  /\ crashes \in 0 .. MaxCrashes /\ faults \in 0 .. MaxFaults
  /\ copies \in [Item -> [Rcpt -> Nat]]
  /\ unread \subseteq Item

(* What a pass knows is still so when it uses it: it holds the mutex, the  *)
(* rows of its batch are pending and have the count it read, and whoever   *)
(* it has tried without an error has a copy.                               *)
Current(p) ==
  /\ run[p].pc # "idle" => mu = p
  /\ run[p].pc = "idle" => DOMAIN run[p].batch = {}
  /\ \A i \in DOMAIN run[p].batch :
       /\ i \in DOMAIN queue /\ queue[i].status = "pending"
       /\ run[p].batch[i] = queue[i].attempts
  /\ run[p].pc = "hand" =>
       /\ run[p].item \in DOMAIN run[p].batch
       /\ run[p].todo \subseteq queue[run[p].item].rcpts
       /\ ~run[p].error => \A r \in queue[run[p].item].rcpts \ run[p].todo :
                             copies[run[p].item][r] > 0
  /\ run[p].pc = "unlink" => run[p].item \in DOMAIN queue /\ Everybody(run[p].item)

(* Recipient r of message i was tried in the attempt that is under way.    *)
Tried(i, r) ==
  \E p \in Processor : /\ run[p].pc \in {"hand", "silent"}
                        /\ run[p].item = i /\ r \notin run[p].todo

Now(i, r) == IF Tried(i, r) THEN 1 ELSE 0

(* What a row says of the copies that went out: a missing file and a given *)
(* up message have a reason, and the attempts that were counted, the one   *)
(* under way, the crashes and the lost UPDATEs account for every copy.     *)
Told(i) ==
  /\ queue[i].attempts < MaxAttempts
  /\ queue[i].status = "pending" /\ i \notin outbound => Everybody(i)
  /\ queue[i].status = "failed" =>
       queue[i].attempts = MaxAttempts - 1 \/ Everybody(i) \/ i \in unread

Counted(i, r) ==
  /\ copies[i][r] > 0 => r \in queue[i].rcpts
  /\ copies[i][r] <= MaxAttempts + crashes + faults
  /\ queue[i].status = "pending" =>
       copies[i][r] <= queue[i].attempts + crashes + faults + Now(i, r)

IInv ==
  /\ Shape
  /\ \A p \in Processor : Current(p)
  /\ \A i \in DOMAIN queue : Told(i) /\ \A r \in Rcpt : Counted(i, r)
  /\ \A i \in Item \ DOMAIN queue, r \in Rcpt : copies[i][r] = 0

Others(p) == \A q \in Processor \ {p} : run'[q] = run[q]
-----------------------------------------------------------------------------
(* Batches: the ones a pass may hold, and what is left of one without i.   *)

(* A batch lists items with the attempts they had.                          *)
LEMMA BatchOf ==
  ASSUME NEW b \in Batches
  PROVE  /\ DOMAIN b \subseteq Item
         /\ \A i \in DOMAIN b : b[i] \in 0 .. MaxAttempts
  BY DEF Batches

(* A batch without an item is a batch.                                      *)
LEMMA LessOfBatch ==
  ASSUME NEW b \in Batches, NEW i
  PROVE  /\ Restrict(b, DOMAIN b \ {i}) \in Batches
         /\ DOMAIN Restrict(b, DOMAIN b \ {i}) = DOMAIN b \ {i}
         /\ \A j \in DOMAIN b \ {i} : Restrict(b, DOMAIN b \ {i})[j] = b[j]
  <1> DEFINE S == DOMAIN b \ {i}
  <1>1. S \in SUBSET Item /\ \A j \in S : b[j] \in 0 .. MaxAttempts
    BY BatchOf
  <1>2. Restrict(b, S) \in [S -> 0 .. MaxAttempts]
    BY <1>1 DEF Restrict
  <1>3. QED
    BY <1>1, <1>2 DEF Batches, Restrict

(* A processor that is in no pass.                                         *)
LEMMA NoPassIsPass == NoPass \in PassRec /\ NoPass.pc = "idle" /\ DOMAIN NoPass.batch = {}
  <1>1. << >> \in [{} -> 0 .. MaxAttempts]
    OBVIOUS
  <1>2. << >> \in Batches
    BY <1>1 DEF Batches
  <1>3. QED
    BY <1>2 DEF NoPass, PassRec
-----------------------------------------------------------------------------
(* What each step of a pass does to the pass.                              *)

(* Lock lists what is due, with the attempts it has now.                    *)
LEMMA LockRun ==
  ASSUME Shape, NEW p \in Processor, Lock(p)
  PROVE  /\ run' \in [Processor -> PassRec] /\ Others(p)
         /\ run'[p].pc = "next" /\ DOMAIN run'[p].batch = Due
         /\ \A i \in Due : run'[p].batch[i] = queue[i].attempts
  <1> DEFINE b == [i \in Due |-> queue[i].attempts]
  <1>1. Due \in SUBSET Item /\ \A i \in Due : queue[i].attempts \in 0 .. MaxAttempts
    BY DEF Shape, Due, Row, Item
  <1>2. b \in [Due -> 0 .. MaxAttempts]
    BY <1>1
  <1>3. b \in Batches
    BY <1>1, <1>2 DEF Batches
  <1>4. run' = [run EXCEPT ![p].pc = "next", ![p].batch = b] /\ run[p] \in PassRec
    BY DEF Lock, Shape
  <1> HIDE DEF b
  <1>5. [run[p] EXCEPT !.pc = "next", !.batch = b] \in PassRec
    BY <1>3, <1>4 DEF PassRec
  <1>6. /\ run' \in [Processor -> PassRec] /\ Others(p)
        /\ run'[p].pc = "next" /\ run'[p].batch = b
    BY <1>4, <1>5 DEF Shape, PassRec, Others
  <1>7. QED
    BY <1>6 DEF b

(* Silence takes one recipient too, and leaves the pass where it is.        *)
LEMMA SilenceRun ==
  ASSUME Shape, NEW p \in Processor, NEW r \in Rcpt, Silence(p, r)
  PROVE  /\ run' \in [Processor -> PassRec] /\ Others(p)
         /\ run'[p].pc = "silent" /\ run'[p].batch = run[p].batch
         /\ run'[p].item = run[p].item /\ run'[p].todo = run[p].todo \ {r}
         /\ run'[p].error = run[p].error
         /\ \/ copies' = copies
            \/ copies' = [copies EXCEPT ![run[p].item][r] = @ + 1]
  <1>1. /\ run' = [run EXCEPT ![p].pc = "silent", ![p].todo = @ \ {r}]
        /\ run[p] \in PassRec
    BY DEF Silence, Shape
  <1>2. [run[p] EXCEPT !.pc = "silent", !.todo = @ \ {r}] \in PassRec
    BY <1>1 DEF PassRec
  <1>3. /\ run' \in [Processor -> PassRec] /\ Others(p)
        /\ run'[p] = [run[p] EXCEPT !.pc = "silent", !.todo = @ \ {r}]
    BY <1>1, <1>2 DEF Shape, Others, PassRec
  <1>4. /\ run'[p].pc = "silent" /\ run'[p].batch = run[p].batch
        /\ run'[p].item = run[p].item /\ run'[p].todo = run[p].todo \ {r}
        /\ run'[p].error = run[p].error
    BY <1>1, <1>3 DEF PassRec
  <1>5. \/ copies' = copies
        \/ copies' = [copies EXCEPT ![run[p].item][r] = @ + 1]
    BY DEF Silence
  <1>6. QED
    BY <1>3, <1>4, <1>5

(* Hand takes one recipient, copies at most once, and a session that ends   *)
(* without a copy is an error.                                              *)
LEMMA HandRun ==
  ASSUME Shape, NEW p \in Processor, NEW r \in Rcpt, Hand(p, r)
  PROVE  /\ run' \in [Processor -> PassRec] /\ Others(p)
         /\ run'[p].pc = run[p].pc /\ run'[p].batch = run[p].batch
         /\ run'[p].item = run[p].item /\ run'[p].todo = run[p].todo \ {r}
         /\ \/ copies' = copies /\ run'[p].error
            \/ /\ copies' = [copies EXCEPT ![run[p].item][r] = @ + 1]
               /\ run[p].error => run'[p].error
  <1>1. PICK taken \in BOOLEAN, error \in BOOLEAN :
          /\ taken \/ error
          /\ copies' = IF taken THEN [copies EXCEPT ![run[p].item][r] = @ + 1] ELSE copies
          /\ run' = [run EXCEPT ![p].todo = @ \ {r}, ![p].error = @ \/ error]
    BY DEF Hand
  <1>2. run[p] \in PassRec
    BY DEF Shape
  <1>3a. (run[p].error \/ error) \in BOOLEAN
    OBVIOUS
  <1>3. [run[p] EXCEPT !.todo = @ \ {r}, !.error = @ \/ error] \in PassRec
    BY <1>2, <1>3a DEF PassRec
  <1>4. run' = [run EXCEPT ![p] = [run[p] EXCEPT !.todo = @ \ {r}, !.error = @ \/ error]]
    BY <1>1, <1>2 DEF Shape, PassRec
  <1>5. /\ run' \in [Processor -> PassRec] /\ Others(p)
        /\ run'[p] = [run[p] EXCEPT !.todo = @ \ {r}, !.error = @ \/ error]
    BY <1>3, <1>4 DEF Shape, Others
  <1>6. /\ run'[p].pc = run[p].pc /\ run'[p].batch = run[p].batch
        /\ run'[p].item = run[p].item /\ run'[p].todo = run[p].todo \ {r}
        /\ run'[p].error = (run[p].error \/ error)
    BY <1>5, <1>2 DEF PassRec
  <1>7. QED
    BY <1>1, <1>5, <1>6

(* Settle ends the work on an item; with an error its file stays.           *)
LEMMA SettleRun ==
  ASSUME Shape, NEW p \in Processor, Settle(p)
  PROVE  /\ run' \in [Processor -> PassRec] /\ Others(p)
         /\ run'[p].pc = (IF run[p].error THEN "next" ELSE "unlink")
         /\ run'[p].item = run[p].item
         /\ DOMAIN run'[p].batch = DOMAIN run[p].batch \ {run[p].item}
         /\ \A i \in DOMAIN run'[p].batch : run'[p].batch[i] = run[p].batch[i]
  <1> DEFINE pc == IF run[p].error THEN "next" ELSE "unlink"
             b  == Restrict(run[p].batch, DOMAIN run[p].batch \ {run[p].item})
  <1>1. run' = [run EXCEPT ![p].pc = pc, ![p].batch = b] /\ run[p] \in PassRec
    BY DEF Settle, Shape
  <1>2. run[p].batch \in Batches
    BY <1>1 DEF PassRec
  <1>3. /\ b \in Batches /\ DOMAIN b = DOMAIN run[p].batch \ {run[p].item}
        /\ \A j \in DOMAIN run[p].batch \ {run[p].item} : b[j] = run[p].batch[j]
    BY <1>2, LessOfBatch
  <1>4. pc \in {"next", "unlink"}
    OBVIOUS
  <1> HIDE DEF pc, b
  <1>5. [run[p] EXCEPT !.pc = pc, !.batch = b] \in PassRec
    BY <1>1, <1>3, <1>4 DEF PassRec
  <1>6. /\ run' \in [Processor -> PassRec] /\ Others(p)
        /\ run'[p].pc = pc /\ run'[p].batch = b /\ run'[p].item = run[p].item
    BY <1>1, <1>5 DEF Shape, PassRec, Others
  <1>7. QED
    BY <1>3, <1>6 DEF pc

(* Begin takes an item of the batch, or finishes one it could not read.     *)
LEMMA BeginRun ==
  ASSUME Shape, NEW p \in Processor, Begin(p), DOMAIN run[p].batch \subseteq DOMAIN queue
  PROVE  \E i \in DOMAIN run[p].batch :
           /\ run' \in [Processor -> PassRec] /\ Others(p)
           /\ \/ /\ run'[p].pc = "hand" /\ run'[p].batch = run[p].batch
                 /\ run'[p].item = i /\ run'[p].todo = queue[i].rcpts
                 /\ UNCHANGED << queue, faults, unread >>
              \/ /\ unread' = IF i \in outbound THEN unread \cup {i} ELSE unread
                 /\ Update(i, [queue[i] EXCEPT !.status = "failed"])
                 /\ run'[p].pc = "next"
                 /\ DOMAIN run'[p].batch = DOMAIN run[p].batch \ {i}
                 /\ \A j \in DOMAIN run'[p].batch : run'[p].batch[j] = run[p].batch[j]
  <1>0. queue \in [DOMAIN queue -> Row]
    BY DEF Shape
  <1>1. run[p] \in PassRec /\ run[p].batch \in Batches
    BY DEF Shape, PassRec
  <1>2. PICK i \in Item : NextOfBatch(p, i) /\ (Read(p, i) \/ ReadFails(p, i))
    BY DEF Begin
  <1>3. run[p].pc = "next" /\ i \in DOMAIN run[p].batch
    BY <1>2 DEF NextOfBatch
  <1>4. CASE Read(p, i)
    <2> DEFINE t == queue[i].rcpts
    <2>1. t \subseteq Rcpt
      BY <1>0, <1>3 DEF Row
    <2>2. run' = [run EXCEPT ![p].pc = "hand", ![p].item = i, ![p].todo = t, ![p].error = FALSE]
      BY <1>4 DEF Read
    <2> HIDE DEF t
    <2>3. [run[p] EXCEPT !.pc = "hand", !.item = i, !.todo = t, !.error = FALSE] \in PassRec
      BY <1>1, <1>2, <2>1 DEF PassRec
    <2>4. /\ run' \in [Processor -> PassRec] /\ Others(p)
          /\ run'[p].pc = "hand" /\ run'[p].batch = run[p].batch
          /\ run'[p].item = i /\ run'[p].todo = t
      BY <1>1, <2>2, <2>3 DEF Shape, PassRec, Others
    <2>5. UNCHANGED << queue, faults, unread >>
      BY <1>4 DEF Read
    <2>6. QED
      BY <1>3, <2>4, <2>5 DEF t
  <1>5. CASE ReadFails(p, i)
    <2> DEFINE b == Restrict(run[p].batch, DOMAIN run[p].batch \ {i})
    <2>1. /\ b \in Batches /\ DOMAIN b = DOMAIN run[p].batch \ {i}
          /\ \A j \in DOMAIN run[p].batch \ {i} : b[j] = run[p].batch[j]
      BY <1>1, LessOfBatch
    <2>2. run' = [run EXCEPT ![p].batch = b]
      BY <1>5 DEF ReadFails
    <2> HIDE DEF b
    <2>3. [run[p] EXCEPT !.batch = b] \in PassRec
      BY <1>1, <2>1 DEF PassRec
    <2>4. /\ run' \in [Processor -> PassRec] /\ Others(p)
          /\ run'[p].pc = run[p].pc /\ run'[p].batch = b
      BY <1>1, <2>2, <2>3 DEF Shape, PassRec, Others
    <2>5. /\ unread' = IF i \in outbound THEN unread \cup {i} ELSE unread
          /\ Update(i, [queue[i] EXCEPT !.status = "failed"])
      BY <1>5 DEF ReadFails
    <2>6. QED
      BY <1>3, <2>1, <2>4, <2>5
  <1>6. QED
    BY <1>2, <1>4, <1>5

(* Unlock, RemoveData and a crash only move passes on.                      *)
LEMMA OtherRuns ==
  ASSUME Shape, NEW p \in Processor
  PROVE  /\ Unlock(p) => /\ run' \in [Processor -> PassRec] /\ Others(p)
                         /\ run'[p] = NoPass
         /\ RemoveData(p) => /\ run' \in [Processor -> PassRec] /\ Others(p)
                             /\ run'[p].pc = "next" /\ run'[p].batch = run[p].batch
         /\ QCrash => run' \in [Processor -> PassRec] /\ \A q \in Processor : run'[q] = NoPass
  <1>1. run[p] \in PassRec
    BY DEF Shape
  <1>2. [run[p] EXCEPT !.pc = "next"] \in PassRec
    BY <1>1 DEF PassRec
  <1>3. ASSUME RemoveData(p)
        PROVE  /\ run' \in [Processor -> PassRec] /\ Others(p)
               /\ run'[p].pc = "next" /\ run'[p].batch = run[p].batch
    BY <1>1, <1>2, <1>3 DEF RemoveData, Shape, Others, PassRec
  <1>4. QED
    BY <1>3, NoPassIsPass DEF Unlock, QCrash, Shape, Others

-----------------------------------------------------------------------------
(* What a pass does to the row it finishes.                                *)

(* While p is in a pass nobody else is.                                    *)
LEMMA Alone ==
  ASSUME IInv, NEW p \in Processor, run[p].pc # "idle"
  PROVE  \A q \in Processor \ {p} : run[q].pc = "idle" /\ DOMAIN run[q].batch = {}
  BY DEF IInv, Current

(* What a row of the queue is, by the invariant.                            *)
LEMMA RowOf ==
  ASSUME IInv, NEW i \in DOMAIN queue
  PROVE  /\ i \in Item /\ queue[i] \in Row /\ queue[i].attempts \in 0 .. MaxAttempts - 1
         /\ queue[i].rcpts \subseteq Rcpt
         /\ \A r \in Rcpt : copies[i][r] \in Nat
  <1>1. Shape /\ queue[i].attempts < MaxAttempts
    BY DEF IInv, Told
  <1>2. i \in Item /\ queue[i] \in Row
    BY <1>1 DEF Shape, Item
  <1>3. QED
    BY <1>1, <1>2 DEF Shape, Row

(* Settle changes the row of its item only, and by what Outcome says or     *)
(* not at all.                                                              *)
LEMMA SettleRow ==
  ASSUME IInv, NEW p \in Processor, Settle(p), NEW i, i = run[p].item
  PROVE  /\ i \in DOMAIN run[p].batch /\ i \in DOMAIN queue /\ queue[i].status = "pending"
         /\ queue' \in [DOMAIN queue -> Row]
         /\ \A j \in DOMAIN queue \ {i} : queue'[j] = queue[j]
         /\ queue'[i].rcpts = queue[i].rcpts
         /\ \/ queue' = queue /\ faults' = faults + 1 /\ faults < MaxFaults
            \/ /\ faults' = faults
               /\ \/ /\ ~run[p].error /\ queue'[i].status = "sent"
                     /\ queue'[i].attempts = queue[i].attempts
                  \/ /\ queue'[i].status = "failed" /\ queue'[i].attempts = queue[i].attempts
                     /\ queue[i].attempts = MaxAttempts - 1
                  \/ /\ queue'[i].status = "pending" /\ queue'[i].attempts < MaxAttempts
                     /\ queue'[i].attempts = queue[i].attempts + 1
  <1>1. /\ i \in DOMAIN run[p].batch /\ i \in DOMAIN queue /\ queue[i].status = "pending"
        /\ run[p].batch[i] = queue[i].attempts
    BY DEF Settle, IInv, Current
  <1>2. queue[i] \in Row /\ queue[i].attempts \in 0 .. MaxAttempts - 1
    BY <1>1, RowOf
  <1>3. queue \in [DOMAIN queue -> Row]
    BY DEF IInv, Shape
  <1>4. CASE queue' = queue /\ faults' = faults + 1 /\ faults < MaxFaults
    BY <1>1, <1>3, <1>4
  <1>5. CASE queue' = [queue EXCEPT ![i] = Outcome(p)] /\ faults' = faults
    <2>1. Attempts(p) = queue[i].attempts + 1
      BY <1>1 DEF Attempts
    <2>2. CASE ~run[p].error
      <3>1. Outcome(p) = [queue[i] EXCEPT !.status = "sent"]
        BY <2>2 DEF Outcome
      <3>2. /\ Outcome(p) \in Row /\ Outcome(p).rcpts = queue[i].rcpts
            /\ Outcome(p).status = "sent" /\ Outcome(p).attempts = queue[i].attempts
        BY <1>2, <3>1 DEF Row
      <3>3. QED
        BY <1>1, <1>3, <1>5, <2>2, <3>2
    <2>3. CASE run[p].error /\ Attempts(p) >= MaxAttempts
      <3>1. Outcome(p) = [queue[i] EXCEPT !.status = "failed"]
        BY <2>3 DEF Outcome
      <3>2. /\ Outcome(p) \in Row /\ Outcome(p).rcpts = queue[i].rcpts
            /\ Outcome(p).status = "failed" /\ Outcome(p).attempts = queue[i].attempts
        BY <1>2, <3>1 DEF Row
      <3>3. queue[i].attempts = MaxAttempts - 1
        BY <1>2, <2>1, <2>3
      <3>4. QED
        BY <1>1, <1>3, <1>5, <3>2, <3>3
    <2>4. CASE run[p].error /\ ~(Attempts(p) >= MaxAttempts)
      <3>1. Outcome(p) = [queue[i] EXCEPT !.attempts = Attempts(p), !.due = FALSE]
        BY <2>4 DEF Outcome
      <3>2. Attempts(p) \in 0 .. MaxAttempts /\ Attempts(p) < MaxAttempts
        BY <1>2, <2>1, <2>4
      <3>3. /\ Outcome(p) \in Row /\ Outcome(p).rcpts = queue[i].rcpts
            /\ Outcome(p).status = queue[i].status /\ Outcome(p).attempts = Attempts(p)
        BY <1>2, <3>1, <3>2 DEF Row
      <3>4. QED
        BY <1>1, <1>3, <1>5, <2>1, <3>2, <3>3
    <2>5. QED
      BY <2>2, <2>3, <2>4
  <1>6. QED
    BY <1>4, <1>5 DEF Settle, Update

(* A row that lost its file is finished as failed, or its UPDATE is lost.  *)
LEMMA FailedRow ==
  ASSUME IInv, NEW i \in DOMAIN queue, Update(i, [queue[i] EXCEPT !.status = "failed"])
  PROVE  /\ queue' \in [DOMAIN queue -> Row]
         /\ \A j \in DOMAIN queue \ {i} : queue'[j] = queue[j]
         /\ queue'[i].rcpts = queue[i].rcpts /\ queue'[i].attempts = queue[i].attempts
         /\ \/ queue' = queue /\ faults' = faults + 1 /\ faults < MaxFaults
            \/ faults' = faults /\ queue'[i].status = "failed"
  <1>1. queue[i] \in Row
    BY RowOf
  <1>2. queue \in [DOMAIN queue -> Row]
    BY DEF IInv, Shape
  <1> DEFINE row == [queue[i] EXCEPT !.status = "failed"]
  <1>3. /\ row \in Row /\ row.rcpts = queue[i].rcpts
        /\ row.status = "failed" /\ row.attempts = queue[i].attempts
    BY <1>1 DEF Row
  <1>4. \/ queue' = [queue EXCEPT ![i] = row] /\ UNCHANGED faults
        \/ faults < MaxFaults /\ faults' = faults + 1 /\ UNCHANGED queue
    BY DEF Update
  <1> HIDE DEF row
  <1>5. QED
    BY <1>2, <1>3, <1>4

-----------------------------------------------------------------------------
(* Every step keeps the invariant.                                         *)

(* The attempt under way accounts for one copy or none.                    *)
LEMMA NowType == \A i \in Item, r \in Rcpt : Now(i, r) \in {0, 1} /\ Now(i, r)' \in {0, 1}
  BY DEF Now

(* A bound with room for one copy more stays one when its terms grow.      *)
LEMMA Slack ==
  ASSUME NEW k \in Nat, NEW a \in Nat, NEW n \in Nat, NEW m \in Nat,
         NEW c \in Nat, NEW f \in Nat, NEW c2 \in Nat, NEW f2 \in Nat,
         k <= a + c + f + n, c2 >= c, f2 >= f, n <= m
  PROVE  k <= a + c2 + f2 + m
  OBVIOUS

(* An account that is right stays right while no copy goes out, no attempt *)
(* is forgotten, and the row does not become pending or lose a count.      *)
LEMMA CountedStays ==
  ASSUME IInv, NEW i \in DOMAIN queue, NEW r \in Rcpt, copies'[i][r] = copies[i][r],
         queue'[i].rcpts = queue[i].rcpts,
         crashes' \in Nat, faults' \in Nat, crashes' >= crashes, faults' >= faults,
         queue'[i].status = "pending" =>
           queue[i].status = "pending" /\ queue'[i].attempts = queue[i].attempts,
         Tried(i, r) => Tried(i, r)'
  PROVE  Counted(i, r)'
  <1>1. Now(i, r) \in {0, 1} /\ Now(i, r)' \in {0, 1} /\ Now(i, r) <= Now(i, r)'
    BY DEF Now
  <1>2. copies[i][r] \in Nat /\ queue[i].attempts \in Nat /\ crashes \in Nat /\ faults \in Nat
    BY RowOf DEF IInv, Shape
  <1>3. Counted(i, r)
    BY DEF IInv
  <1>4. copies'[i][r] > 0 => r \in queue'[i].rcpts
    BY <1>3 DEF Counted
  <1>5. copies'[i][r] <= MaxAttempts + crashes' + faults'
    <2>1. copies[i][r] <= MaxAttempts + crashes + faults
      BY <1>3 DEF Counted
    <2>2. copies[i][r] <= MaxAttempts + crashes' + faults'
      BY <1>2, <2>1
    <2>3. QED
      BY <2>2
  <1>6. ASSUME queue'[i].status = "pending"
        PROVE  copies'[i][r] <= queue'[i].attempts + crashes' + faults' + Now(i, r)'
    <2>1. copies[i][r] <= queue[i].attempts + crashes + faults + Now(i, r)
      BY <1>3, <1>6 DEF Counted
    <2>2. queue'[i].attempts = queue[i].attempts /\ copies'[i][r] = copies[i][r]
      BY <1>6
    <2>3. Now(i, r) \in Nat /\ Now(i, r)' \in Nat
      BY <1>1
    <2>4. copies[i][r] <= queue[i].attempts + crashes' + faults' + Now(i, r)'
      BY <1>1, <1>2, <2>1, <2>3, Slack
    <2>5. QED
      BY <2>2, <2>4
  <1>7. QED
    BY <1>4, <1>5, <1>6 DEF Counted

(* What a pass knows of rows that keep their counts stays so.               *)
LEMMA SamePass ==
  ASSUME NEW p \in Processor, Current(p), run'[p] = run[p], mu' = mu, copies' = copies,
         DOMAIN queue \subseteq DOMAIN queue',
         \A i \in DOMAIN queue : /\ queue'[i].status = queue[i].status
                                 /\ queue'[i].attempts = queue[i].attempts
                                 /\ queue'[i].rcpts = queue[i].rcpts
  PROVE  Current(p)'
  <1>1. \A i \in DOMAIN run'[p].batch :
          /\ i \in DOMAIN queue' /\ queue'[i].status = "pending"
          /\ run'[p].batch[i] = queue'[i].attempts
    BY DEF Current
  <1>2. run'[p].pc = "hand" =>
          /\ run'[p].item \in DOMAIN run'[p].batch
          /\ run'[p].todo \subseteq queue'[run'[p].item].rcpts
          /\ ~run'[p].error => \A r \in queue'[run'[p].item].rcpts \ run'[p].todo :
                                 copies'[run'[p].item][r] > 0
    BY DEF Current
  <1>3. run'[p].pc = "unlink" => run'[p].item \in DOMAIN queue' /\ Everybody(run[p].item)'
    BY DEF Current, Everybody
  <1>4. /\ run'[p].pc # "idle" => mu' = p
        /\ run'[p].pc = "idle" => DOMAIN run'[p].batch = {}
    BY DEF Current
  <1>5. QED
    BY <1>1, <1>2, <1>3, <1>4 DEF Current

(* A new item has no copies and no attempts.                                *)
LEMMA EnqueueKeeps ==
  ASSUME IInv, NEW rcpts \in (SUBSET Rcpt) \ {{}}, Enqueue(rcpts)
  PROVE  IInv'
  <1> DEFINE new == [rcpts |-> rcpts, status |-> "pending", attempts |-> 0, due |-> TRUE]
  <1>1. /\ nextItem \in 1 .. MaxItems /\ nextItem' = nextItem + 1
        /\ DOMAIN queue = 1 .. nextItem - 1 /\ nextItem \in Item
    BY DEF IInv, Shape, Enqueue, Item
  <1>0. PICK n \in Item : n = nextItem
    BY <1>1
  <1>2. new \in Row
    BY DEF Row
  <1>3. /\ queue' \in [1 .. nextItem' - 1 -> Row] /\ queue'[nextItem] = new
        /\ \A j \in DOMAIN queue : queue'[j] = queue[j]
        /\ DOMAIN queue' = DOMAIN queue \cup {nextItem} /\ nextItem \notin DOMAIN queue
    <2>1. queue' = [i \in DOMAIN queue \cup {nextItem} |-> IF i = nextItem THEN new ELSE queue[i]]
      BY DEF Enqueue
    <2>2. DOMAIN queue \cup {nextItem} = 1 .. nextItem' - 1 /\ nextItem \notin DOMAIN queue
      BY <1>1
    <2>3. \A j \in DOMAIN queue : queue[j] \in Row
      BY RowOf
    <2> HIDE DEF new
    <2>4. QED
      BY <1>2, <2>1, <2>2, <2>3
  <1>4. Shape'
    <2>1. nextItem' \in 1 .. MaxItems + 1 /\ outbound' \subseteq Item
      BY <1>1 DEF IInv, Shape, Enqueue
    <2>2. UNCHANGED << mu, run, crashes, faults, copies, unread >>
      BY DEF Enqueue
    <2>3. QED
      BY <1>3, <2>1, <2>2 DEF IInv, Shape
  <1>5. ASSUME NEW p \in Processor
        PROVE  Current(p)'
    <2>1. /\ Current(p) /\ run'[p] = run[p] /\ mu' = mu /\ copies' = copies
      BY DEF IInv, Enqueue
    <2>2. QED
      BY <1>3, <2>1, SamePass
  <1>6. ASSUME NEW i \in DOMAIN queue
        PROVE  Told(i)' /\ \A r \in Rcpt : Counted(i, r)'
    <2>1. Told(i)'
      BY <1>1, <1>3 DEF IInv, Told, Everybody, Enqueue
    <2>2. ASSUME NEW r \in Rcpt
          PROVE  Counted(i, r)'
      <3>1. /\ copies' = copies /\ crashes' = crashes /\ faults' = faults
            /\ Tried(i, r) => Tried(i, r)'
        BY DEF Enqueue, Tried
      <3>2. crashes \in Nat /\ faults \in Nat
        BY DEF IInv, Shape
      <3>3. QED
        BY <1>3, <3>1, <3>2, CountedStays
    <2>3. QED
      BY <2>1, <2>2
  <1>7. Told(n)' /\ \A r \in Rcpt : Counted(n, r)'
    <2>1. \A r \in Rcpt : copies[n][r] = 0
      BY <1>0, <1>3 DEF IInv
    <2>2. crashes \in Nat /\ faults \in Nat
      BY DEF IInv, Shape
    <2>3. /\ n \in outbound' /\ copies' = copies /\ crashes' = crashes
          /\ faults' = faults /\ run' = run
      BY <1>0 DEF Enqueue
    <2>4. /\ queue'[n].attempts = 0 /\ queue'[n].status = "pending"
          /\ MaxAttempts > 0
      BY <1>0, <1>3
    <2> HIDE DEF new
    <2>5. Told(n)'
      BY <2>3, <2>4 DEF Told
    <2>6. ASSUME NEW r \in Rcpt
          PROVE  Counted(n, r)'
      <3>1. Now(n, r)' \in {0, 1} /\ copies'[n][r] = 0
        BY <1>1, <2>1, <2>3, NowType
      <3>2. QED
        BY <2>2, <2>3, <2>4, <3>1 DEF Counted
    <2>7. QED
      BY <2>5, <2>6
  <1>8. \A i \in Item \ DOMAIN queue', r \in Rcpt : copies'[i][r] = 0
    BY <1>3 DEF IInv, Enqueue
  <1>9. QED
    BY <1>0, <1>3, <1>4, <1>5, <1>6, <1>7, <1>8 DEF IInv

(* The list the holder of the mutex makes is current, as nobody else        *)
(* settles.                                                                 *)
LEMMA LockKeeps ==
  ASSUME IInv, NEW p \in Processor, Lock(p)
  PROVE  IInv'
  <1>1. /\ run' \in [Processor -> PassRec] /\ Others(p)
        /\ run'[p].pc = "next" /\ DOMAIN run'[p].batch = Due
        /\ \A i \in Due : run'[p].batch[i] = queue[i].attempts
    BY LockRun DEF IInv
  <1>2. /\ mu = None /\ mu' = p /\ run[p].pc = "idle"
        /\ UNCHANGED << table, outbound, crashes, faults, copies, unread >>
    BY DEF Lock, MayLock
  <1>3. Shape'
    BY <1>1, <1>2 DEF IInv, Shape, table
  <1>4. ASSUME NEW q \in Processor
        PROVE  Current(q)'
    <2>1. CASE q = p
      BY <1>1, <1>2, <2>1 DEF Current, Due, table
    <2>2. CASE q # p
      BY <1>1, <1>2, <2>2 DEF IInv, Current, Others, Everybody, table
    <2>3. QED
      BY <2>1, <2>2
  <1>5. \A i \in Item, r \in Rcpt : Tried(i, r) => Tried(i, r)'
    BY <1>1, <1>2 DEF Tried, Others
  <1>6. ASSUME NEW i \in DOMAIN queue
        PROVE  Told(i)' /\ \A r \in Rcpt : Counted(i, r)'
    <2>1. Told(i)'
      BY <1>2 DEF IInv, Told, Everybody, table
    <2>2. crashes \in Nat /\ faults \in Nat /\ i \in Item
      BY RowOf DEF IInv, Shape
    <2>3. \A r \in Rcpt : Counted(i, r)'
      <3>1. /\ copies' = copies /\ queue' = queue /\ crashes' = crashes /\ faults' = faults
        BY <1>2 DEF table
      <3>2. crashes' >= crashes /\ faults' >= faults
        BY <2>2, <3>1
      <3>3. QED
        BY <1>5, <2>2, <3>1, <3>2, CountedStays
    <2>4. QED
      BY <2>1, <2>3
  <1>7. queue' = queue /\ copies' = copies
    BY <1>2 DEF table
  <1>8. QED
    BY <1>3, <1>4, <1>6, <1>7 DEF IInv

(* An item is begun with every recipient still to do and no copies of       *)
(* this attempt.                                                            *)
LEMMA BeginKeeps ==
  ASSUME IInv, NEW p \in Processor, Begin(p)
  PROVE  IInv'
  <1>0. DOMAIN run[p].batch \subseteq DOMAIN queue /\ run[p].pc = "next" /\ mu = p
    <2>1. run[p].pc = "next"
      BY DEF Begin, NextOfBatch
    <2>2. QED
      BY <2>1 DEF IInv, Current
  <1>1. /\ UNCHANGED << nextItem, outbound, mu, crashes, copies >>
        /\ crashes \in Nat /\ faults \in Nat
    <2>1. UNCHANGED << nextItem, outbound, mu, crashes, copies >>
      BY DEF Begin
    <2>2. QED
      BY <2>1 DEF IInv, Shape
  <1>2. PICK i \in DOMAIN run[p].batch :
           /\ run' \in [Processor -> PassRec] /\ Others(p)
           /\ \/ /\ run'[p].pc = "hand" /\ run'[p].batch = run[p].batch
                 /\ run'[p].item = i /\ run'[p].todo = queue[i].rcpts
                 /\ UNCHANGED << queue, faults, unread >>
              \/ /\ unread' = IF i \in outbound THEN unread \cup {i} ELSE unread
                 /\ Update(i, [queue[i] EXCEPT !.status = "failed"])
                 /\ run'[p].pc = "next"
                 /\ DOMAIN run'[p].batch = DOMAIN run[p].batch \ {i}
                 /\ \A j \in DOMAIN run'[p].batch : run'[p].batch[j] = run[p].batch[j]
    BY <1>0, BeginRun DEF IInv
  <1>3. i \in DOMAIN queue /\ queue[i].status = "pending"
    BY <1>0 DEF IInv, Current
  <1>4. \A j \in Item, r \in Rcpt : Tried(j, r) => Tried(j, r)'
    BY <1>0, <1>2 DEF Tried, Others
  <1>5. CASE /\ run'[p].pc = "hand" /\ run'[p].batch = run[p].batch
             /\ run'[p].item = i /\ run'[p].todo = queue[i].rcpts
             /\ UNCHANGED << queue, faults, unread >>
    <2>1. /\ run'[p].pc = "hand" /\ run'[p].batch = run[p].batch
          /\ run'[p].item = i /\ run'[p].todo = queue[i].rcpts
          /\ queue' = queue /\ faults' = faults /\ unread' = unread
      BY <1>5
    <2>2. Shape'
      BY <1>1, <1>2, <2>1 DEF IInv, Shape
    <2>3. ASSUME NEW q \in Processor
          PROVE  Current(q)'
      <3>1. CASE q = p
        BY <1>0, <1>1, <1>3, <2>1, <3>1 DEF IInv, Current
      <3>2. CASE q # p
        BY <1>1, <1>2, <2>1, <3>2 DEF IInv, Current, Others, Everybody
      <3>3. QED
        BY <3>1, <3>2
    <2>4. ASSUME NEW j \in DOMAIN queue
          PROVE  Told(j)' /\ \A r \in Rcpt : Counted(j, r)'
      <3>1. Told(j)'
        BY <1>1, <2>1 DEF IInv, Told, Everybody
      <3>2. \A r \in Rcpt : Counted(j, r)'
        BY <1>1, <1>4, <2>1, RowOf, CountedStays
      <3>3. QED
        BY <3>1, <3>2
    <2>5. QED
      BY <1>1, <2>1, <2>2, <2>3, <2>4 DEF IInv
  <1>6. CASE /\ unread' = IF i \in outbound THEN unread \cup {i} ELSE unread
             /\ Update(i, [queue[i] EXCEPT !.status = "failed"])
             /\ run'[p].pc = "next"
             /\ DOMAIN run'[p].batch = DOMAIN run[p].batch \ {i}
             /\ \A j \in DOMAIN run'[p].batch : run'[p].batch[j] = run[p].batch[j]
    <2>0. i \in Item /\ unread \subseteq unread' /\ unread' \subseteq Item
      BY <1>3, <1>6, RowOf DEF IInv, Shape
    <2>1. /\ run'[p].pc = "next"
          /\ DOMAIN run'[p].batch = DOMAIN run[p].batch \ {i}
          /\ \A j \in DOMAIN run'[p].batch : run'[p].batch[j] = run[p].batch[j]
      BY <1>6
    <2>2. /\ queue' \in [DOMAIN queue -> Row]
          /\ \A j \in DOMAIN queue \ {i} : queue'[j] = queue[j]
          /\ queue'[i].rcpts = queue[i].rcpts /\ queue'[i].attempts = queue[i].attempts
          /\ \/ queue' = queue /\ faults' = faults + 1 /\ faults < MaxFaults
             \/ faults' = faults /\ queue'[i].status = "failed"
      BY <1>3, <1>6, FailedRow
    <2>3. Shape'
      <3>1. DOMAIN queue = 1 .. nextItem - 1 /\ faults' \in 0 .. MaxFaults
        BY <2>2 DEF IInv, Shape
      <3>2. QED
        BY <1>1, <1>2, <2>0, <2>2, <3>1 DEF IInv, Shape
    <2>4. ASSUME NEW q \in Processor
          PROVE  Current(q)'
      <3>1. CASE q = p
        BY <1>0, <1>1, <2>1, <2>2, <3>1 DEF IInv, Current
      <3>2. CASE q # p
        BY <1>0, <1>1, <1>2, <3>2, Alone DEF Current, Others
      <3>3. QED
        BY <3>1, <3>2
    <2>5. Everybody(i)' \/ i \in unread'
      <3>1. i \notin outbound => Everybody(i)
        BY <1>3 DEF IInv, Told
      <3>2. Everybody(i) => Everybody(i)'
        BY <1>1, <2>2 DEF Everybody
      <3>3. i \in outbound => i \in unread'
        BY <1>6
      <3>4. QED
        BY <3>1, <3>2, <3>3
    <2>6. ASSUME NEW j \in DOMAIN queue
          PROVE  Told(j)' /\ \A r \in Rcpt : Counted(j, r)'
      <3>1. /\ copies' = copies /\ crashes' = crashes /\ outbound' = outbound
            /\ faults' \in Nat /\ faults' >= faults
        BY <1>1, <2>2
      <3>2. /\ queue'[j].attempts = queue[j].attempts /\ queue'[j].rcpts = queue[j].rcpts
            /\ queue'[j].status = "pending" => queue[j].status = "pending"
            /\ queue'[j].status = "failed" => queue[j].status = "failed" \/ j = i
        BY <1>3, <2>2
      <3>3. Told(j)'
        <4>1. Told(j) /\ (Everybody(j) => Everybody(j)')
          BY <3>1, <3>2 DEF IInv, Everybody
        <4>2. QED
          BY <2>0, <2>5, <3>1, <3>2, <4>1 DEF Told
      <3>4. ASSUME NEW r \in Rcpt
            PROVE  Counted(j, r)'
        <4>1. copies'[j][r] = copies[j][r] /\ (Tried(j, r) => Tried(j, r)')
          BY <1>4, <3>1, RowOf
        <4>2. crashes' \in Nat /\ crashes' = crashes /\ faults \in Nat /\ faults' \in Nat
          BY <1>1, <3>1
        <4>3. crashes' >= crashes /\ faults' >= faults
          BY <3>1, <4>2
        <4>4. QED
          BY <3>1, <3>2, <4>1, <4>2, <4>3, CountedStays
      <3>5. QED
        BY <3>3, <3>4
    <2>7. QED
      BY <1>1, <2>2, <2>3, <2>4, <2>6 DEF IInv
  <1>7. QED
    BY <1>2, <1>5, <1>6

(* A session adds at most one copy for one recipient of the attempt, also   *)
(* one whose server falls silent.                                           *)
LEMMA HandKeeps ==
  ASSUME IInv, NEW p \in Processor, NEW r \in Rcpt, Hand(p, r) \/ Silence(p, r)
  PROVE  IInv'
  <1>2. /\ run[p].pc = "hand" /\ r \in run[p].todo
        /\ UNCHANGED << table, outbound, mu, crashes, faults, unread >>
    BY DEF Hand, Silence
  <1>1. /\ run' \in [Processor -> PassRec] /\ Others(p)
        /\ run'[p].pc \in {"hand", "silent"} /\ run'[p].batch = run[p].batch
        /\ run'[p].item = run[p].item /\ run'[p].todo = run[p].todo \ {r}
        /\ \/ copies' = copies /\ (run'[p].error \/ run'[p].pc = "silent")
           \/ /\ copies' = [copies EXCEPT ![run[p].item][r] = @ + 1]
              /\ run[p].error => run'[p].error
    <2>1. CASE Hand(p, r)
      BY <1>2, <2>1, HandRun DEF IInv
    <2>2. CASE Silence(p, r)
      BY <2>2, SilenceRun DEF IInv
    <2>3. QED
      BY <2>1, <2>2
  <1>3. PICK i \in DOMAIN queue : i = run[p].item
    BY <1>2 DEF IInv, Current
  <1>4. /\ i \in DOMAIN run[p].batch /\ queue[i].status = "pending"
        /\ run[p].todo \subseteq queue[i].rcpts
        /\ ~run[p].error => \A q \in queue[i].rcpts \ run[p].todo : copies[i][q] > 0
    BY <1>2, <1>3 DEF IInv, Current
  <1>5. /\ copies' \in [Item -> [Rcpt -> Nat]]
        /\ \A j \in Item, q \in Rcpt : copies'[j][q] >= copies[j][q]
        /\ \A j \in Item, q \in Rcpt : j # i \/ q # r => copies'[j][q] = copies[j][q]
        /\ copies'[i][r] # copies[i][r] => copies'[i][r] = copies[i][r] + 1
        /\ run'[p].pc = "hand" /\ ~run'[p].error =>
             copies'[i][r] = copies[i][r] + 1 /\ ~run[p].error
    <2>1. i \in Item /\ copies \in [Item -> [Rcpt -> Nat]]
      BY RowOf DEF IInv, Shape
    <2>2. CASE copies' = copies /\ (run'[p].error \/ run'[p].pc = "silent")
      BY <2>1, <2>2
    <2>3. CASE copies' = [copies EXCEPT ![i][r] = @ + 1] /\ (run[p].error => run'[p].error)
      <3>1. /\ copies' \in [Item -> [Rcpt -> Nat]] /\ copies'[i][r] = copies[i][r] + 1
            /\ \A j \in Item, q \in Rcpt : j # i \/ q # r => copies'[j][q] = copies[j][q]
        BY <2>1, <2>3
      <3>2. \A j \in Item, q \in Rcpt : copies[j][q] \in Nat
        BY <2>1
      <3>3. \A j \in Item, q \in Rcpt : copies'[j][q] >= copies[j][q]
        BY <3>1, <3>2
      <3>4. QED
        BY <2>3, <3>1, <3>3
    <2>4. QED
      BY <1>1, <1>3, <2>2, <2>3
  <1>6. queue' = queue /\ nextItem' = nextItem /\ crashes \in Nat /\ faults \in Nat
    BY <1>2 DEF table, IInv, Shape
  <1>7. Shape'
    BY <1>1, <1>2, <1>5, <1>6 DEF IInv, Shape
  <1>8. \A j \in DOMAIN queue : Everybody(j) => Everybody(j)'
    <2>1. \A j \in DOMAIN queue : j \in Item /\ queue[j].rcpts \subseteq Rcpt
                                   /\ \A q \in Rcpt : copies[j][q] \in Nat
      BY RowOf
    <2>2. \A j \in Item, q \in Rcpt : copies'[j][q] \in Nat
      BY <1>5
    <2>3. QED
      BY <1>5, <1>6, <2>1, <2>2 DEF Everybody
  <1>9. ASSUME NEW q \in Processor
        PROVE  Current(q)'
    <2>1. CASE q = p
      <3>1. run'[p].todo \subseteq queue'[i].rcpts
        BY <1>1, <1>4, <1>6
      <3>2. ASSUME run'[p].pc = "hand", ~run'[p].error,
                   NEW s \in queue'[i].rcpts \ run'[p].todo
            PROVE  copies'[i][s] > 0
        <4>1. i \in Item /\ s \in Rcpt /\ copies[i][s] \in Nat
          BY <1>6, RowOf
        <4>2. CASE s = r
          BY <1>5, <3>2, <4>1, <4>2
        <4>3. CASE s # r
          <5>1. copies[i][s] > 0
            BY <1>1, <1>4, <1>5, <1>6, <3>2, <4>3
          <5>2. copies'[i][s] = copies[i][s]
            BY <1>5, <4>1, <4>3
          <5>3. QED
            BY <5>1, <5>2
        <4>4. QED
          BY <4>2, <4>3
      <3>3. /\ mu' = p /\ run'[p].pc \in {"hand", "silent"} /\ run'[p].item = i /\ i \in DOMAIN run'[p].batch
            /\ \A j \in DOMAIN run'[p].batch : /\ j \in DOMAIN queue' /\ queue'[j].status = "pending"
                                               /\ run'[p].batch[j] = queue'[j].attempts
        <4>1. /\ mu = p /\ mu' = mu
              /\ \A j \in DOMAIN run[p].batch : /\ j \in DOMAIN queue /\ queue[j].status = "pending"
                                                /\ run[p].batch[j] = queue[j].attempts
          BY <1>2 DEF IInv, Current
        <4>2. QED
          BY <1>1, <1>3, <1>4, <1>6, <4>1
      <3>4. QED
        BY <2>1, <3>1, <3>2, <3>3 DEF Current
    <2>2. CASE q # p
      <3>1. run'[q].pc = "idle" /\ DOMAIN run'[q].batch = {}
        BY <1>1, <1>2, <2>2, Alone DEF Others
      <3>2. QED
        BY <3>1 DEF Current
    <2>3. QED
      BY <2>1, <2>2
  <1>10. \A j \in Item, s \in Rcpt : Tried(j, s) => Tried(j, s)'
    BY <1>1, <1>2 DEF Tried, Others
  <1>11. ASSUME NEW j \in DOMAIN queue
         PROVE  Told(j)'
    BY <1>2, <1>6, <1>8 DEF IInv, Told
  <1>12. ASSUME NEW j \in DOMAIN queue, NEW s \in Rcpt
         PROVE  Counted(j, s)'
    <2>1. CASE copies'[j][s] = copies[j][s]
      BY <1>2, <1>6, <1>10, <2>1, RowOf, CountedStays
    <2>2. CASE copies'[j][s] # copies[j][s]
      <3>1. j = i /\ s = r /\ copies'[i][r] = copies[i][r] + 1
        BY <1>5, <2>2, RowOf
      <3>2. ~Tried(i, r)
        BY <1>2, Alone DEF Tried
      <3>3. Tried(i, r)'
        BY <1>1, <1>2, <1>3 DEF Tried
      <3>4. Now(i, r) = 0 /\ Now(i, r)' = 1
        BY <3>2, <3>3 DEF Now
      <3>5. /\ copies[i][r] <= queue[i].attempts + crashes + faults + Now(i, r)
            /\ copies[i][r] \in Nat /\ queue[i].attempts \in 0 .. MaxAttempts - 1
        BY <1>4, RowOf DEF IInv, Counted
      <3>6. copies[i][r] <= queue[i].attempts + crashes + faults
        BY <1>6, <3>4, <3>5
      <3>7. copies'[i][r] <= queue[i].attempts + crashes + faults + Now(i, r)'
        BY <1>6, <3>1, <3>4, <3>5, <3>6
      <3>8. copies'[i][r] <= MaxAttempts + crashes + faults
        BY <1>6, <3>1, <3>5, <3>6
      <3>9. r \in queue[i].rcpts
        BY <1>2, <1>4
      <3>10. QED
        BY <1>2, <1>6, <3>1, <3>7, <3>8, <3>9 DEF Counted
    <2>3. QED
      BY <2>1, <2>2
  <1>13. \A j \in Item \ DOMAIN queue, s \in Rcpt : copies'[j][s] = 0
    BY <1>5 DEF IInv
  <1>14. QED
    BY <1>6, <1>7, <1>9, <1>11, <1>12, <1>13 DEF IInv

(* The attempt is counted, or the fault that lost the UPDATE is.            *)
LEMMA SettleKeeps ==
  ASSUME IInv, NEW p \in Processor, Settle(p)
  PROVE  IInv'
  <1>1. /\ run' \in [Processor -> PassRec] /\ Others(p)
        /\ run'[p].pc = (IF run[p].error THEN "next" ELSE "unlink")
        /\ run'[p].item = run[p].item
        /\ DOMAIN run'[p].batch = DOMAIN run[p].batch \ {run[p].item}
        /\ \A i \in DOMAIN run'[p].batch : run'[p].batch[i] = run[p].batch[i]
    BY SettleRun DEF IInv
  <1>2. /\ run[p].pc = "hand" /\ run[p].todo = {}
        /\ UNCHANGED << nextItem, outbound, mu, crashes, copies, unread >>
    BY DEF Settle
  <1>3. PICK i \in DOMAIN queue : i = run[p].item
    BY <1>2 DEF IInv, Current
  <1>4. /\ queue[i].status = "pending"
        /\ queue' \in [DOMAIN queue -> Row]
        /\ \A j \in DOMAIN queue \ {i} : queue'[j] = queue[j]
        /\ queue'[i].rcpts = queue[i].rcpts
        /\ \/ queue' = queue /\ faults' = faults + 1 /\ faults < MaxFaults
           \/ /\ faults' = faults
              /\ \/ /\ ~run[p].error /\ queue'[i].status = "sent"
                    /\ queue'[i].attempts = queue[i].attempts
                 \/ /\ queue'[i].status = "failed" /\ queue'[i].attempts = queue[i].attempts
                    /\ queue[i].attempts = MaxAttempts - 1
                 \/ /\ queue'[i].status = "pending" /\ queue'[i].attempts < MaxAttempts
                    /\ queue'[i].attempts = queue[i].attempts + 1
    BY <1>3, SettleRow
  <1>5. crashes \in Nat /\ faults \in Nat /\ faults' \in 0 .. MaxFaults /\ faults' >= faults
    BY <1>4 DEF IInv, Shape
  <1>6. Shape'
    BY <1>1, <1>2, <1>4, <1>5 DEF IInv, Shape
  <1>7. ~run[p].error => Everybody(i) /\ Everybody(i)'
    BY <1>2, <1>3, <1>4 DEF IInv, Current, Everybody
  <1>8. ASSUME NEW q \in Processor
        PROVE  Current(q)'
    <2>1. CASE q = p
      <3>1. mu' = p
        BY <1>2 DEF IInv, Current
      <3>2. \A j \in DOMAIN run'[p].batch :
              /\ j \in DOMAIN queue' /\ queue'[j].status = "pending"
              /\ run'[p].batch[j] = queue'[j].attempts
        <4>1. \A j \in DOMAIN run[p].batch : /\ j \in DOMAIN queue /\ queue[j].status = "pending"
                                             /\ run[p].batch[j] = queue[j].attempts
          BY DEF IInv, Current
        <4>2. QED
          BY <1>1, <1>3, <1>4, <4>1
      <3>3. run'[p].pc = "unlink" => run'[p].item \in DOMAIN queue' /\ Everybody(i)'
        BY <1>1, <1>3, <1>4, <1>7
      <3>4. QED
        BY <1>1, <1>3, <2>1, <3>1, <3>2, <3>3 DEF Current
    <2>2. CASE q # p
      BY <1>1, <1>2, <2>2, Alone DEF Current, Others
    <2>3. QED
      BY <2>1, <2>2
  <1>9. ASSUME NEW j \in DOMAIN queue
        PROVE  Told(j)'
    <2>1. CASE j = i
      BY <1>2, <1>4, <1>7, <2>1 DEF IInv, Told, Everybody
    <2>2. CASE j # i
      BY <1>2, <1>4, <2>2 DEF IInv, Told, Everybody
    <2>3. QED
      BY <2>1, <2>2
  <1>10. ASSUME NEW j \in DOMAIN queue, NEW r \in Rcpt
         PROVE  Counted(j, r)'
    <2>1. CASE j # i
      <3>1. ~Tried(j, r) /\ queue'[j] = queue[j]
        BY <1>2, <1>3, <1>4, <2>1, Alone DEF Tried
      <3>2. copies'[j][r] = copies[j][r] /\ crashes' = crashes /\ crashes' >= crashes
        BY <1>2, <1>5
      <3>3. QED
        BY <1>5, <3>1, <3>2, CountedStays
    <2>2. CASE j = i
      <3>1. /\ copies[i][r] \in Nat /\ queue[i].attempts \in 0 .. MaxAttempts - 1
            /\ Now(i, r) \in {0, 1} /\ Now(i, r)' \in {0, 1}
        BY RowOf, NowType
      <3>2. /\ copies[i][r] <= MaxAttempts + crashes + faults
            /\ copies[i][r] <= queue[i].attempts + crashes + faults + Now(i, r)
            /\ copies[i][r] > 0 => r \in queue[i].rcpts
        BY <1>4 DEF IInv, Counted
      <3>3. copies[i][r] <= queue[i].attempts + crashes + faults + 1
        BY <1>5, <3>1, <3>2
      <3>4. copies' = copies /\ crashes' = crashes
        BY <1>2
      <3>5. copies[i][r] <= MaxAttempts + crashes + faults'
        BY <1>5, <3>1, <3>2
      <3>6. ASSUME queue'[i].status = "pending"
            PROVE  copies[i][r] <= queue'[i].attempts + crashes + faults' + Now(i, r)'
        <4>1. CASE queue'[i].attempts = queue[i].attempts /\ faults' = faults + 1
          <5>1. copies[i][r] <= queue[i].attempts + crashes + (faults + 1) + Now(i, r)'
            BY <1>5, <3>1, <3>3
          <5>2. QED
            BY <4>1, <5>1
        <4>2. CASE queue'[i].attempts = queue[i].attempts + 1 /\ faults' = faults
          <5>1. copies[i][r] <= (queue[i].attempts + 1) + crashes + faults + Now(i, r)'
            BY <1>5, <3>1, <3>3
          <5>2. QED
            BY <4>2, <5>1
        <4>3. QED
          BY <1>4, <3>6, <4>1, <4>2
      <3>7. QED
        BY <1>4, <2>2, <3>2, <3>4, <3>5, <3>6 DEF Counted
    <2>3. QED
      BY <2>1, <2>2
  <1>11. QED
    BY <1>2, <1>4, <1>6, <1>8, <1>9, <1>10 DEF IInv

(* The file goes only after everybody was served.                           *)
LEMMA RemoveDataKeeps ==
  ASSUME IInv, NEW p \in Processor, RemoveData(p)
  PROVE  IInv'
  <1>1. /\ run' \in [Processor -> PassRec] /\ Others(p)
        /\ run'[p].pc = "next" /\ run'[p].batch = run[p].batch
    BY OtherRuns DEF IInv
  <1>2. /\ run[p].pc = "unlink" /\ outbound' = outbound \ {run[p].item}
        /\ queue' = queue /\ nextItem' = nextItem
        /\ mu' = mu /\ crashes' = crashes /\ faults' = faults /\ copies' = copies
        /\ unread' = unread
    BY DEF RemoveData, table
  <1>3. Everybody(run[p].item)
    BY <1>2 DEF IInv, Current
  <1>4. Shape'
    BY <1>1, <1>2 DEF IInv, Shape
  <1>5. ASSUME NEW q \in Processor
        PROVE  Current(q)'
    <2>1. CASE q = p
      BY <1>1, <1>2, <2>1 DEF IInv, Current
    <2>2. CASE q # p
      BY <1>1, <1>2, <2>2, Alone DEF Current, Others
    <2>3. QED
      BY <2>1, <2>2
  <1>6. \A j \in Item, r \in Rcpt : Tried(j, r) => Tried(j, r)'
    BY <1>1, <1>2 DEF Tried, Others
  <1>7. ASSUME NEW j \in DOMAIN queue
        PROVE  Told(j)'
    BY <1>2, <1>3 DEF IInv, Told, Everybody
  <1>8. ASSUME NEW j \in DOMAIN queue, NEW r \in Rcpt
        PROVE  Counted(j, r)'
    <2>1. crashes' >= crashes /\ faults' >= faults /\ crashes' \in Nat /\ faults' \in Nat
      BY <1>2 DEF IInv, Shape
    <2>2. QED
      BY <1>2, <1>6, <2>1, RowOf, CountedStays
  <1>9. QED
    BY <1>2, <1>4, <1>5, <1>7, <1>8 DEF IInv

(* A pass ends with nothing in hand.                                        *)
LEMMA UnlockKeeps ==
  ASSUME IInv, NEW p \in Processor, Unlock(p)
  PROVE  IInv'
  <1>1. /\ run' \in [Processor -> PassRec] /\ Others(p) /\ run'[p] = NoPass
    BY OtherRuns DEF IInv
  <1>2. /\ run[p].pc = "next" /\ mu' = None /\ outbound' = outbound
        /\ queue' = queue /\ nextItem' = nextItem /\ unread' = unread
        /\ crashes' = crashes /\ faults' = faults /\ copies' = copies
    BY DEF Unlock, table
  <1>3. Shape'
    BY <1>1, <1>2 DEF IInv, Shape
  <1>4. ASSUME NEW q \in Processor
        PROVE  Current(q)'
    <2>1. CASE q = p
      BY <1>1, <2>1, NoPassIsPass DEF Current
    <2>2. CASE q # p
      BY <1>1, <1>2, <2>2, Alone DEF Current, Others
    <2>3. QED
      BY <2>1, <2>2
  <1>5. \A j \in Item, r \in Rcpt : Tried(j, r) => Tried(j, r)'
    BY <1>1, <1>2 DEF Tried, Others
  <1>6. ASSUME NEW j \in DOMAIN queue
        PROVE  Told(j)'
    BY <1>2 DEF IInv, Told, Everybody
  <1>7. ASSUME NEW j \in DOMAIN queue, NEW r \in Rcpt
        PROVE  Counted(j, r)'
    <2>1. crashes' >= crashes /\ faults' >= faults /\ crashes' \in Nat /\ faults' \in Nat
      BY <1>2 DEF IInv, Shape
    <2>2. QED
      BY <1>2, <1>5, <2>1, RowOf, CountedStays
  <1>8. QED
    BY <1>2, <1>3, <1>4, <1>6, <1>7 DEF IInv

(* A row that becomes due keeps its counts.                                 *)
LEMMA ElapseKeeps ==
  ASSUME IInv, NEW i \in Item, Elapse(i)
  PROVE  IInv'
  <1>1. /\ i \in DOMAIN queue /\ queue' = [queue EXCEPT ![i].due = TRUE]
        /\ UNCHANGED << nextItem, outbound, mu, run, crashes, faults, copies, unread >>
    BY DEF Elapse
  <1>2. queue[i] \in Row /\ queue \in [DOMAIN queue -> Row]
    BY <1>1, RowOf DEF IInv, Shape
  <1> DEFINE row == [queue[i] EXCEPT !.due = TRUE]
  <1>3. /\ row \in Row /\ row.rcpts = queue[i].rcpts
        /\ row.status = queue[i].status /\ row.attempts = queue[i].attempts
    BY <1>2 DEF Row
  <1>4. queue' = [queue EXCEPT ![i] = row]
    BY <1>1, <1>2 DEF Row
  <1> HIDE DEF row
  <1>5. /\ queue' \in [DOMAIN queue -> Row]
        /\ \A j \in DOMAIN queue : /\ queue'[j].rcpts = queue[j].rcpts
                                   /\ queue'[j].status = queue[j].status
                                   /\ queue'[j].attempts = queue[j].attempts
    BY <1>1, <1>2, <1>3, <1>4
  <1>6. Shape'
    BY <1>1, <1>5 DEF IInv, Shape
  <1>7. ASSUME NEW q \in Processor
        PROVE  Current(q)'
    <2>1. /\ Current(q) /\ run'[q] = run[q] /\ mu' = mu /\ copies' = copies
      BY <1>1 DEF IInv
    <2>2. QED
      BY <1>5, <2>1, SamePass
  <1>8. \A j \in Item, r \in Rcpt : Tried(j, r) => Tried(j, r)'
    BY <1>1 DEF Tried
  <1>9. ASSUME NEW j \in DOMAIN queue
        PROVE  Told(j)'
    BY <1>1, <1>5 DEF IInv, Told, Everybody
  <1>10. ASSUME NEW j \in DOMAIN queue, NEW r \in Rcpt
         PROVE  Counted(j, r)'
    <2>1. crashes' >= crashes /\ faults' >= faults /\ crashes' \in Nat /\ faults' \in Nat
      BY <1>1 DEF IInv, Shape
    <2>2. QED
      BY <1>1, <1>5, <1>8, <2>1, RowOf, CountedStays
  <1>11. QED
    BY <1>1, <1>5, <1>6, <1>7, <1>9, <1>10 DEF IInv

(* A crash adds one unfinished attempt to what copies may come from.        *)
LEMMA CrashKeeps ==
  ASSUME IInv, QCrash
  PROVE  IInv'
  <1>1. run' \in [Processor -> PassRec] /\ \A q \in Processor : run'[q] = NoPass
    BY NoPassIsPass DEF QCrash
  <1>2. /\ crashes < MaxCrashes /\ crashes' = crashes + 1 /\ mu' = None
        /\ queue' = queue /\ nextItem' = nextItem
        /\ outbound' = outbound /\ faults' = faults /\ copies' = copies /\ unread' = unread
    BY DEF QCrash, table
  <1>3. crashes \in Nat /\ faults \in Nat
    BY DEF IInv, Shape
  <1>4. Shape'
    BY <1>1, <1>2 DEF IInv, Shape
  <1>5. ASSUME NEW q \in Processor
        PROVE  Current(q)'
    BY <1>1, NoPassIsPass DEF Current
  <1>6. ASSUME NEW j \in DOMAIN queue
        PROVE  Told(j)'
    BY <1>2 DEF IInv, Told, Everybody
  <1>7. ASSUME NEW j \in DOMAIN queue, NEW r \in Rcpt
        PROVE  Counted(j, r)'
    <2>1. /\ copies[j][r] \in Nat /\ queue[j].attempts \in 0 .. MaxAttempts - 1
          /\ Now(j, r) \in {0, 1} /\ Now(j, r)' \in {0, 1}
      BY RowOf, NowType
    <2>2. /\ copies[j][r] <= MaxAttempts + crashes + faults
          /\ copies[j][r] > 0 => r \in queue[j].rcpts
          /\ queue[j].status = "pending" =>
               copies[j][r] <= queue[j].attempts + crashes + faults + Now(j, r)
      BY DEF IInv, Counted
    <2>3. copies[j][r] <= MaxAttempts + (crashes + 1) + faults
      BY <1>3, <2>1, <2>2
    <2>4. ASSUME queue[j].status = "pending"
          PROVE  copies[j][r] <= queue[j].attempts + (crashes + 1) + faults + Now(j, r)'
      <3>1. copies[j][r] <= queue[j].attempts + crashes + faults + Now(j, r)
        BY <2>2, <2>4
      <3>2. QED
        BY <1>3, <2>1, <3>1
    <2>5. QED
      BY <1>2, <2>2, <2>3, <2>4 DEF Counted
  <1>8. QED
    BY <1>2, <1>4, <1>5, <1>6, <1>7 DEF IInv

(* The empty queue satisfies the invariant.                                 *)
LEMMA InitHolds == QInit => IInv
  <1> SUFFICES ASSUME QInit PROVE IInv
    OBVIOUS
  <1>1. /\ queue = << >> /\ nextItem = 1 /\ outbound = {} /\ mu = None
        /\ run = [p \in Processor |-> NoPass] /\ crashes = 0 /\ faults = 0
        /\ copies = [i \in Item |-> [r \in Rcpt |-> 0]] /\ unread = {}
    BY DEF QInit
  <1>2. queue \in [1 .. nextItem - 1 -> Row] /\ DOMAIN queue = {}
    BY <1>1
  <1>3. Shape
    BY <1>1, <1>2, NoPassIsPass DEF Shape
  <1>4. \A p \in Processor : Current(p)
    BY <1>1, NoPassIsPass DEF Current
  <1>5. QED
    BY <1>1, <1>2, <1>3, <1>4 DEF IInv

(* Every step keeps the invariant.                                          *)
LEMMA StepKeeps == IInv /\ [QNext]_qvars => IInv'
  <1> SUFFICES ASSUME IInv, [QNext]_qvars PROVE IInv'
    OBVIOUS
  <1>1. CASE UNCHANGED qvars
    <2>1. /\ queue' = queue /\ nextItem' = nextItem /\ outbound' = outbound /\ mu' = mu
          /\ run' = run /\ crashes' = crashes /\ faults' = faults /\ copies' = copies
          /\ unread' = unread
      BY <1>1 DEF qvars, table
    <2>2. Shape'
      BY <2>1 DEF IInv, Shape
    <2>3. \A p \in Processor : Current(p)'
      BY <2>1, SamePass DEF IInv
    <2>4. \A i \in DOMAIN queue : Told(i)' /\ \A r \in Rcpt : Counted(i, r)'
      BY <2>1 DEF IInv, Told, Counted, Now, Tried, Everybody
    <2>5. QED
      BY <2>1, <2>2, <2>3, <2>4 DEF IInv
  <1>2. ASSUME NEW rcpts \in (SUBSET Rcpt) \ {{}}, Enqueue(rcpts)
        PROVE  IInv'
    BY <1>2, EnqueueKeeps
  <1>3. ASSUME NEW p \in Processor, Pass(p)
        PROVE  IInv'
    BY <1>3, LockKeeps, BeginKeeps, HandKeeps, SettleKeeps, RemoveDataKeeps, UnlockKeeps
       DEF Pass
  <1>4. ASSUME NEW i \in Item, Elapse(i)
        PROVE  IInv'
    BY <1>4, ElapseKeeps
  <1>5. CASE QCrash
    BY <1>5, CrashKeeps
  <1>6. QED
    BY <1>1, <1>2, <1>3, <1>4, <1>5 DEF QNext

(* The inductive invariant, for any number of passes, items and             *)
(* recipients.                                                              *)
LEMMA Always == Spec => []IInv
  BY InitHolds, StepKeeps, PTL DEF Spec
-----------------------------------------------------------------------------
(* The theorems.                                                           *)

(* Every reachable state is well typed, and only the holder of Sender.mu   *)
(* is in a pass over the queue.                                            *)
THEOREM TypeCorrect == Spec => []TypeOK
  <1>1. ASSUME IInv
        PROVE  TypeOK
    <2>1. ASSUME NEW p \in Processor
          PROVE  PassType(p)
      <3>1. run[p] \in PassRec /\ run[p].batch \in Batches
        BY <1>1 DEF IInv, Shape, PassRec
      <3>2. DOMAIN run[p].batch \subseteq DOMAIN queue
        BY <1>1 DEF IInv, Current
      <3>3. \A i \in DOMAIN run[p].batch : run[p].batch[i] \in 0 .. MaxAttempts
        BY <3>1, BatchOf
      <3>4. /\ run[p].pc # "idle" => mu = p
            /\ run[p].pc = "hand" => run[p].item \in DOMAIN run[p].batch
        BY <1>1 DEF IInv, Current
      <3>5. QED
        BY <3>1, <3>2, <3>3, <3>4 DEF PassType, PassRec
    <2>2. QED
      BY <1>1, <2>1 DEF IInv, Shape, TypeOK
  <1>2. QED
    BY <1>1, Always, PTL

(* However often ticker and flush meet, a recipient gets at most one copy  *)
(* for each attempt that is counted and one for each crash or lost UPDATE. *)
THEOREM CopiesAreBounded == Spec => []CopiesBounded
  <1>1. IInv => CopiesBounded
    BY DEF IInv, CopiesBounded, Counted
  <1>2. QED
    BY <1>1, Always, PTL

(* deliver never gives a message up before its last attempt, unless every  *)
(* recipient has it or its file, which is there, could not be read: the    *)
(* file of a message that somebody still lacks is never missing, and       *)
(* refusals, lost UPDATEs, crashes and a second pass end nothing early.    *)
THEOREM GivesUpLate == Spec => []NeverGivesUpEarly
  <1>1. IInv => NeverGivesUpEarly
    BY DEF IInv, NeverGivesUpEarly, Told
  <1>2. QED
    BY <1>1, Always, PTL

(* A copy goes out only in Hand, and then the row is pending.              *)
LEMMA CopyOnlyIfPending ==
  ASSUME IInv, [QNext]_qvars, NEW i \in DOMAIN queue, copies'[i] # copies[i]
  PROVE  queue[i].status = "pending"
  <1>1. ASSUME NEW p \in Processor, NEW r \in Rcpt, Hand(p, r) \/ Silence(p, r)
        PROVE  queue[i].status = "pending"
    <2>1. run[p].pc = "hand" /\ run[p].item \in DOMAIN run[p].batch
      BY <1>1 DEF Hand, Silence, IInv, Current
    <2>0. Shape
      BY DEF IInv
    <2>2. \/ copies' = copies
          \/ copies' = [copies EXCEPT ![run[p].item][r] = @ + 1]
      <3>1. CASE Hand(p, r)
        BY <2>0, <3>1, HandRun
      <3>2. CASE Silence(p, r)
        BY <2>0, <3>2, SilenceRun
      <3>3. QED
        BY <1>1, <3>1, <3>2
    <2>3. i \in Item /\ copies \in [Item -> [Rcpt -> Nat]]
      BY RowOf DEF IInv, Shape
    <2>4. i = run[p].item
      BY <2>2, <2>3
    <2>5. QED
      BY <2>1, <2>4 DEF IInv, Current
  <1>2. copies' # copies
    OBVIOUS
  <1>3. \E p \in Processor, r \in Rcpt : Hand(p, r) \/ Silence(p, r)
    BY <1>2 DEF QNext, Pass, Enqueue, Lock, Begin, Settle, RemoveData, Unlock, Elapse, QCrash,
                qvars
  <1>4. QED
    BY <1>1, <1>3

(* No copy goes out for a message that the table says is sent or failed,   *)
(* whatever passes, crashes and lost UPDATEs came before.                  *)
THEOREM SettledIsFinal == Spec => NoCopyOnceSettled
  <1>1. ASSUME IInv, [QNext]_qvars
        PROVE  [\A i \in DOMAIN queue : copies'[i] # copies[i] => queue[i].status = "pending"]_qvars
    BY <1>1, CopyOnlyIfPending
  <1>2. QED
    BY <1>1, Always, PTL DEF Spec, NoCopyOnceSettled
-----------------------------------------------------------------------------
(* The queue implements Outbound.                                          *)

Mailed == [i \in DOMAIN queue |-> [rcpts |-> queue[i].rcpts, status |-> queue[i].status]]
Got    == [i \in Item |-> {r \in Rcpt : copies[i][r] > 0}]

(* A step that changes no recipients, no status and no copies is invisible. *)
LEMMA Invisible ==
  ASSUME copies' = copies, DOMAIN queue' = DOMAIN queue,
         \A i \in DOMAIN queue : /\ queue'[i].rcpts = queue[i].rcpts
                                 /\ queue'[i].status = queue[i].status
  PROVE  Mailed' = Mailed /\ Got' = Got
  BY DEF Mailed, Got

(* What has been mailed and who has got it, as Outbound sees them.         *)
LEMMA Seen ==
  ASSUME IInv, NEW i \in DOMAIN queue
  PROVE  /\ i \in Item /\ i \in DOMAIN Mailed
         /\ Mailed[i].rcpts = queue[i].rcpts /\ Mailed[i].status = queue[i].status
         /\ Got[i] = {r \in Rcpt : copies[i][r] > 0}
         /\ Got[i] \subseteq queue[i].rcpts
  BY RowOf DEF IInv, Counted, Mailed, Got

(* Enqueue accepts a message.                                              *)
LEMMA EnqueueAccepts ==
  ASSUME IInv, NEW rcpts \in (SUBSET Rcpt) \ {{}}, Enqueue(rcpts)
  PROVE  Promise!Next
  <1>1. PICK n \in Item : n = nextItem
    BY DEF IInv, Shape, Enqueue, Item
  <1>2. n \notin DOMAIN queue /\ copies' = copies
    BY <1>1 DEF IInv, Shape, Enqueue
  <1>3. /\ DOMAIN queue' = DOMAIN queue \cup {n}
        /\ \A i \in DOMAIN queue : queue'[i] = queue[i]
        /\ queue'[n].rcpts = rcpts /\ queue'[n].status = "pending"
    BY <1>1, <1>2 DEF Enqueue
  <1>4. Mailed' = [i \in DOMAIN Mailed \cup {n} |->
                     IF i = n THEN [rcpts |-> rcpts, status |-> "pending"] ELSE Mailed[i]]
    BY <1>2, <1>3 DEF Mailed
  <1>5. Got' = Got
    BY <1>2 DEF Got
  <1>6. Promise!Accept(n, rcpts)
    BY <1>2, <1>4, <1>5 DEF Promise!Accept, Mailed, Got
  <1>7. QED
    BY <1>6 DEF Promise!Next

(* Hand hands a copy to a recipient of a pending message, or fails; so does *)
(* Silence.                                                                 *)
LEMMA HandHands ==
  ASSUME IInv, NEW p \in Processor, NEW r \in Rcpt, Hand(p, r) \/ Silence(p, r)
  PROVE  Promise!Next \/ (Mailed' = Mailed /\ Got' = Got)
  <1>1. PICK i \in DOMAIN queue :
          /\ i = run[p].item /\ queue[i].status = "pending" /\ r \in queue[i].rcpts
    BY DEF Hand, Silence, IInv, Current
  <1>2. queue' = queue
    BY DEF Hand, Silence, table
  <1>3. Mailed' = Mailed
    BY <1>2 DEF Mailed
  <1>4. CASE copies' = copies
    BY <1>3, <1>4 DEF Got
  <1>5. CASE copies' = [copies EXCEPT ![i][r] = @ + 1]
    <2>1. i \in Item /\ copies \in [Item -> [Rcpt -> Nat]]
      BY RowOf DEF IInv, Shape
    <2>2. /\ copies' \in [Item -> [Rcpt -> Nat]] /\ copies'[i][r] = copies[i][r] + 1
          /\ \A j \in Item, q \in Rcpt : j # i \/ q # r => copies'[j][q] = copies[j][q]
      BY <1>5, <2>1
    <2>3. copies'[i][r] > 0
      BY <2>1, <2>2
    <2>4. Got' = [Got EXCEPT ![i] = @ \cup {r}]
      <3>1. \A j \in Item \ {i} : Got'[j] = Got[j]
        BY <2>2 DEF Got
      <3>2. Got'[i] = Got[i] \cup {r}
        BY <2>1, <2>2, <2>3 DEF Got
      <3>3. /\ Got = [j \in Item |-> Got[j]] /\ DOMAIN Got = Item
            /\ Got' = [j \in Item |-> Got'[j]]
        BY DEF Got
      <3>4. QED
        BY <2>1, <3>1, <3>2, <3>3
    <2>5. Promise!Hand(i, r)
      BY <1>1, <1>3, <2>4, Seen DEF Promise!Hand, Promise!Pending, Mailed, Got
    <2>6. QED
      BY <1>1, <2>1, <2>5 DEF Promise!Next
  <1>6. QED
    BY <1>1, <1>4, <1>5, HandRun, SilenceRun DEF IInv

(* A row that leaves "pending" is a report.                                *)
LEMMA Reports ==
  ASSUME IInv, NEW i \in DOMAIN queue, queue[i].status = "pending", copies' = copies,
         DOMAIN queue' = DOMAIN queue, \A j \in DOMAIN queue \ {i} : queue'[j] = queue[j],
         queue'[i].rcpts = queue[i].rcpts, NEW status \in {"sent", "failed"},
         queue'[i].status = status, status = "sent" => Everybody(i)
  PROVE  Promise!Next
  <1>1. Got' = Got
    BY DEF Got
  <1>2. Mailed' = [Mailed EXCEPT ![i].status = status]
    BY DEF Mailed
  <1>3. status = "sent" => Got[i] = Mailed[i].rcpts
    BY Seen, RowOf DEF Everybody
  <1>4. Promise!Report(i, status)
    BY <1>1, <1>2, <1>3, Seen DEF Promise!Report, Promise!Pending, Mailed, Got
  <1>5. QED
    BY <1>4, RowOf DEF Promise!Next

(* Begin reports at most the failure of a message it could not read.       *)
LEMMA BeginReports ==
  ASSUME IInv, NEW p \in Processor, Begin(p)
  PROVE  Promise!Next \/ (Mailed' = Mailed /\ Got' = Got)
  <1>1. DOMAIN run[p].batch \subseteq DOMAIN queue /\ copies' = copies
    BY DEF Begin, IInv, Current
  <1>2. CASE queue' = queue
    BY <1>1, <1>2, Invisible
  <1>3. ASSUME NEW i \in DOMAIN run[p].batch, Update(i, [queue[i] EXCEPT !.status = "failed"]),
               queue' # queue
        PROVE  Promise!Next
    <2>1. i \in DOMAIN queue /\ queue[i].status = "pending"
      BY <1>1 DEF IInv, Current
    <2>2. /\ queue' \in [DOMAIN queue -> Row]
          /\ \A j \in DOMAIN queue \ {i} : queue'[j] = queue[j]
          /\ queue'[i].rcpts = queue[i].rcpts /\ queue'[i].status = "failed"
      BY <1>3, <2>1, FailedRow
    <2>3. QED
      BY <1>1, <2>1, <2>2, Reports
  <1>4. QED
    BY <1>1, <1>2, <1>3, BeginRun DEF IInv

(* Settle reports that everybody has a copy, or that there was no more try. *)
LEMMA SettleReports ==
  ASSUME IInv, NEW p \in Processor, Settle(p)
  PROVE  Promise!Next \/ (Mailed' = Mailed /\ Got' = Got)
  <1>1. PICK i \in DOMAIN queue : i = run[p].item
    BY DEF Settle, IInv, Current
  <1>2. /\ queue[i].status = "pending"
        /\ queue' \in [DOMAIN queue -> Row]
        /\ \A j \in DOMAIN queue \ {i} : queue'[j] = queue[j]
        /\ queue'[i].rcpts = queue[i].rcpts
        /\ \/ queue' = queue
           \/ ~run[p].error /\ queue'[i].status = "sent"
           \/ queue'[i].status \in {"failed", "pending"}
    BY <1>1, SettleRow
  <1>3. copies' = copies /\ (~run[p].error => Everybody(i))
    BY <1>1 DEF Settle, IInv, Current, Everybody
  <1>4. CASE queue'[i].status = "pending" \/ queue' = queue
    BY <1>2, <1>3, <1>4, Invisible
  <1>5. CASE queue'[i].status = "failed" \/ (~run[p].error /\ queue'[i].status = "sent")
    BY <1>2, <1>3, <1>5, Reports
  <1>6. QED
    BY <1>2, <1>4, <1>5

(* Every step of the queue is a step of Outbound or does not concern it.   *)
LEMMA StepPromised ==
  ASSUME IInv, [QNext]_qvars
  PROVE  Promise!Next \/ (Mailed' = Mailed /\ Got' = Got)
  <1>1. ASSUME NEW rcpts \in (SUBSET Rcpt) \ {{}}, Enqueue(rcpts)
        PROVE  Promise!Next
    BY <1>1, EnqueueAccepts
  <1>2. ASSUME NEW p \in Processor, Pass(p)
        PROVE  Promise!Next \/ (Mailed' = Mailed /\ Got' = Got)
    <2>1. CASE Lock(p) \/ RemoveData(p) \/ Unlock(p)
      <3>1. queue' = queue /\ copies' = copies
        BY <2>1 DEF Lock, RemoveData, Unlock, table
      <3>2. QED
        BY <3>1, Invisible
    <2>2. QED
      BY <1>2, <2>1, BeginReports, HandHands, SettleReports DEF Pass
  <1>3. ASSUME NEW i \in Item, Elapse(i)
        PROVE  Mailed' = Mailed /\ Got' = Got
    <2>1. /\ copies' = copies /\ queue[i] \in Row
          /\ i \in DOMAIN queue /\ queue' = [queue EXCEPT ![i].due = TRUE]
      BY <1>3, RowOf DEF Elapse
    <2>2. \A j \in DOMAIN queue : /\ queue'[j].rcpts = queue[j].rcpts
                                  /\ queue'[j].status = queue[j].status
      BY <2>1 DEF Row
    <2>3. QED
      BY <2>1, <2>2, Invisible
  <1>4. CASE QCrash \/ UNCHANGED qvars
    <2>1. queue' = queue /\ copies' = copies
      BY <1>4 DEF QCrash, qvars, table
    <2>2. QED
      BY <2>1, Invisible
  <1>5. QED
    BY <1>1, <1>2, <1>3, <1>4 DEF QNext

(* The queue implements Outbound: nobody who was not asked for gets a      *)
(* copy, none goes out after the report, and "sent" means that everybody   *)
(* has one.                                                                *)
THEOREM QueueKeepsPromise == Spec => OutboundSpec
  <1>1. QInit => Promise!Init
    BY DEF QInit, Promise!Init
  <1>2. IInv /\ [QNext]_qvars => [Promise!Next]_<< Mailed, Got >>
    BY StepPromised
  <1>3. QED
    BY <1>1, <1>2, Always, PTL DEF Spec, OutboundSpec, Promise!Spec, Mailed, Got

=============================================================================

---------------------------- MODULE FactoryReset ---------------------------
(***************************************************************************)
(* The life of an instance: set-up and settings (Console), the factory     *)
(* reset in its steps (doFullReset: db.Reset, WipeBlobs, then              *)
(* State.FactoryReset), and the deliveries, the enqueuing and the logins   *)
(* that go on under it.                                                    *)
(***************************************************************************)
EXTENDS Console

CONSTANT MaxAccounts     \* bound of the model

Account == 1 .. MaxAccounts
Resetting == \E h \in Handler : hd[h].op = "reset"
NoStore == [accounts |-> {}, made |-> 0, mail |-> {}, blobs |-> {}, queue |-> FALSE,
            outbound |-> FALSE]

-----------------------------------------------------------------------------
(* What a reset runs into.  A delivery knows its account from before; the   *)
(* file comes first, then the row, which needs the account's folder.        *)
(* Enqueue writes the file, then a row that refers to nothing.              *)
CreateAccount(h) ==
  /\ Authorised /\ store.made < MaxAccounts
  /\ LET a == store.made + 1
     IN /\ store' = [store EXCEPT !.made = a, !.accounts = @ \cup {a}]
        /\ past' = [past EXCEPT !.since = @ \cup {"accounts"},
                                !.strays = IF Resetting THEN @ \cup {a} ELSE @]
  /\ UNCHANGED << pvars, config, auth, hd, installs >>
DeliverFile(h) ==
  /\ \E a \in store.accounts :
       /\ store' = [store EXCEPT !.blobs = @ \cup {a}]
       /\ Go(h, [Idle EXCEPT !.pc = "row", !.op = "deliver", !.ref = a])
  /\ Wrote("blobs")
  /\ UNCHANGED << pvars, config, auth, installs >>
DeliverRow(h) ==
  /\ At(h, "row")
  /\ LET a == hd[h].ref
     IN IF a \in store.accounts THEN store' = [store EXCEPT !.mail = @ \cup {a}] ELSE UNCHANGED store
  /\ Wrote("mail")
  /\ Done(h)
  /\ UNCHANGED << pvars, config, auth, left, installs >>
EnqueueFile(h) ==
  /\ store' = [store EXCEPT !.outbound = TRUE]
  /\ Go(h, [Idle EXCEPT !.pc = "enqueue", !.op = "enqueue"])
  /\ Wrote("outbound")
  /\ UNCHANGED << pvars, config, auth, installs >>
EnqueueRow(h) ==
  /\ At(h, "enqueue")
  /\ store' = [store EXCEPT !.queue = TRUE]
  /\ Wrote("queue")
  /\ Done(h)
  /\ UNCHANGED << pvars, config, auth, left, installs >>

(* handleMailLogin and startMailSession, handleMailLogout, and mailAccount: *)
(* a session serves as long as its account is there.                        *)
MailLogin(h) ==
  /\ \E a \in store.accounts : Go(h, [Idle EXCEPT !.pc = "mailsession", !.op = "maillogin", !.ref = a])
  /\ UNCHANGED << pvars, config, auth, store, installs, past >>
MailSession(h) ==
  /\ At(h, "mailsession")
  /\ mails' = mails \cup {hd[h].ref}
  /\ Wrote("mails")
  /\ Done(h)
  /\ UNCHANGED << pvars, config, sessions, reset, store, left, installs >>
MailLogout(h) ==
  /\ \E a \in mails : mails' = mails \ {a}
  /\ UNCHANGED << pvars, config, sessions, reset, store, hd, installs, past >>

-----------------------------------------------------------------------------
(* adminResetPrepare makes a token; adminResetConfirm uses it up, also when *)
(* the phrase or the token is wrong.                                        *)
ResetPrepare(h) ==
  /\ Authorised
  /\ reset' = TRUE
  /\ UNCHANGED << pvars, config, sessions, mails, store, hd, installs, past >>
ResetConfirm(h) ==
  /\ Authorised /\ reset
  /\ reset' = FALSE
  /\ \/ /\ past' = IF Resetting THEN past ELSE [past EXCEPT !.since = {}]
        /\ Go(h, [Idle EXCEPT !.pc = "messages", !.op = "reset"])
     \/ UNCHANGED << past, hd >>
  /\ UNCHANGED << pvars, config, sessions, mails, store, installs >>

(* doFullReset: first every table, child rows before their parents, ...     *)
ClearedFaulty(s) == [s EXCEPT !.accounts = {}]
Cleared(s)       == [s EXCEPT !.accounts = {}, !.mail = {}]
ResetTable(h) ==
  /\ \/ /\ At(h, "messages") /\ To(h, "send_queue")
        /\ store' = [store EXCEPT !.mail = {}]
     \/ /\ At(h, "send_queue") /\ To(h, "accounts")
        /\ store' = [store EXCEPT !.queue = FALSE]
     \/ /\ At(h, "accounts") /\ To(h, "blobs")
        /\ store' = Cleared(store)
  /\ UNCHANGED << pvars, config, auth, left, installs, past >>
(* ... then the files, directory by directory; an error ends the reset, ... *)
WipedFaulty(s) == s
Wiped(s)       == [s EXCEPT !.outbound = FALSE]
ResetFiles(h) ==
  /\ \/ /\ At(h, "blobs") /\ To(h, "outbound")
        /\ store' = [store EXCEPT !.blobs = {}]
     \/ /\ At(h, "outbound") /\ To(h, "forget")
        /\ store' = Wiped(store)
     \/ /\ left.failing /\ hd[h].pc \in {"blobs", "outbound"}
        /\ Done(h)
        /\ UNCHANGED store
  /\ UNCHANGED << pvars, config, auth, left, installs, past >>
(* ... then State.FactoryReset, which forgets the configuration and the     *)
(* sessions at once, and removes the file.  When that fails, the reset ends *)
(* with an error, and the next start finds the old configuration; ...       *)
ForgottenFaulty == sessions
Forgotten       == {}
ResetForget(h) ==
  /\ At(h, "forget")
  /\ cur' = Nil
  /\ sessions' = Forgotten
  /\ To(h, "remove")
  /\ UNCHANGED << pvars, obj, file, mails, reset, store, left, installs, past >>
ResetRemove(h) ==
  /\ At(h, "remove")
  /\ \/ /\ file' = [gen |-> file.gen + 1, is |-> Absent]
        /\ To(h, "mails")
        /\ UNCHANGED past
     \/ /\ left.failing /\ file.is # Absent
        /\ Done(h)
        /\ past' = [past EXCEPT !.half = TRUE]
        /\ UNCHANGED file
  /\ UNCHANGED << pvars, obj, cur, auth, store, left, installs >>
(* ... and last the webmail sessions.                                       *)
ResetDone(h) ==
  /\ At(h, "mails")
  /\ mails' = {}
  /\ Done(h)
  /\ UNCHANGED << pvars, config, sessions, reset, store, left, installs, past >>
=============================================================================

----------------------------- MODULE Pop3Fetch -----------------------------
(***************************************************************************)
(* fetch/pop3_client.go: a poll of a remote POP3 maildrop, its list of seen *)
(* UIDLs in table remote_state, and the DELEs of an account that does not   *)
(* keep its mail on the server.                                            *)
(*                                                                         *)
(* A poll reads the list once, adds to its own copy and writes the copy     *)
(* back, after every SaveEvery deliveries and at the end; the server does   *)
(* the DELEs at QUIT.  A UIDL is the message itself: it never changes.      *)
(***************************************************************************)
EXTENDS RemoteAccount

CONSTANTS
  SaveEvery,    \* deliveries between two writes of the list (20)
  SeenCap       \* how many UIDLs a written list holds (5000)

ASSUME SaveEveryPositive == SaveEvery \in Nat \ {0}
ASSUME SeenCapNat        == SeenCap \in Nat

VARIABLES
  tls,          \* accounts.remote_tls: "ssl", or "clear" (none and starttls)
  keep,         \* accounts.fetch_keep_on_server
  saved,        \* remote_state: pop3_uidls
  psess,        \* Session -> its poll
  again,        \* history: deliveries of what had been delivered, unexcused
  excuse,       \* history: "overlap": two polls ran at once, "forgot": a
                \* written list left out a UIDL, "late": a message was taken
                \* for another
  blind,        \* history: how often the list could not be read
  mistaken      \* history: messages noted as seen when another was delivered

notes == << again, excuse, blind, mistaken >>
pvars == << tls, keep, saved, psess, notes >>

(* owed: the messages whose RETR has not been answered yet; late: some      *)
(* command of the poll got no answer in time.  msg is the message asked     *)
(* for, body the one that came.                                             *)
NoDrop == [pc |-> "idle", refs |-> {}, seen |-> {}, msg |-> 0, body |-> 0, count |-> 0,
           dele |-> {}, owed |-> {}, late |-> FALSE]

(* pop3Connect reads the greeting before it looks at the TLS mode; a server *)
(* on an ssl port sends it only inside TLS.  The client has no deadline     *)
(* here: it waits until the server gives up.                                *)
Connect(s) ==
  /\ psess[s].pc = "idle"
  /\ psess'  = [psess EXCEPT ![s].pc = "greet"]
  /\ excuse' = IF \E t \in Session \ {s} : psess[t].pc # "idle" THEN excuse \cup {"overlap"}
                                                                ELSE excuse
  /\ UNCHANGED << shared, tls, keep, saved, again, blind, mistaken >>

GreetsInClear == tls # "ssl"

Greeting(s) ==
  /\ psess[s].pc = "greet" /\ GreetsInClear
  /\ psess' = [psess EXCEPT ![s].pc = "list"]
  /\ UNCHANGED << shared, tls, keep, saved, notes >>

ServerHangsUp(s) ==
  /\ psess[s].pc = "greet" /\ ~GreetsInClear
  /\ psess' = [psess EXCEPT ![s] = NoDrop]
  /\ UNCHANGED << shared, tls, keep, saved, notes >>

(* Log in, and UIDL; then the list of the UIDLs seen, which is empty when   *)
(* it cannot be read.                                                       *)
ListDrop(s) ==
  /\ psess[s].pc = "list"
  /\ \/ psess' = [psess EXCEPT ![s].pc = "seen", ![s].refs = Present] /\ UNCHANGED mishaps
     \/ psess' = [psess EXCEPT ![s] = NoDrop] /\ Fails
  /\ UNCHANGED << proto, server, inbox, tls, keep, saved, notes >>

SeenUIDLs(s) ==
  /\ psess[s].pc = "seen"
  /\ \/ /\ psess' = [psess EXCEPT ![s].pc = "next", ![s].refs = @ \ saved, ![s].seen = saved]
        /\ UNCHANGED << mishaps, blind >>
     \/ /\ Fails
        /\ psess' = [psess EXCEPT ![s].pc = "next"]
        /\ blind' = blind + 1
  /\ UNCHANGED << proto, server, inbox, tls, keep, saved, again, excuse, mistaken >>

(* RETR of the next message not seen, in the order listed.  The answers     *)
(* come in the order of the commands, but cmd waits for one only a minute   *)
(* and the poll goes on with the next message: from then on what is read    *)
(* may answer an earlier RETR, or be the rest of an answer.  A message is   *)
(* read whole or the poll ends; or the connection is dead, so is every      *)
(* command after it, and the poll goes on to its end with nothing to read.  *)
Retrieve(s) ==
  LET p    == psess[s]
      m    == Min(p.refs)
      rest == p.refs \ {m}
      due  == p.owed \cup {m}
      h    == Min(due)
  IN /\ p.pc = "next" /\ p.refs # {}
     /\ \/ /\ psess' = [psess EXCEPT ![s] = [p EXCEPT !.pc = "deliver", !.refs = rest, !.msg = m,
                                                        !.body = h, !.owed = due \ {h}]]
           /\ UNCHANGED mishaps
        \/ \* refused (always possible when the message is gone), or torn
           /\ psess' = [psess EXCEPT ![s] = [p EXCEPT !.refs = rest, !.owed = due \ {h}]]
           /\ IF h \in Present /\ ~p.late THEN Fails ELSE UNCHANGED mishaps
        \/ \* not answered in time
           /\ psess' = [psess EXCEPT ![s] = [p EXCEPT !.refs = rest, !.owed = due, !.late = TRUE]]
           /\ IF p.late THEN UNCHANGED mishaps ELSE Fails
        \/ psess' = [psess EXCEPT ![s].refs = {}, ![s].dele = {}] /\ Fails
        \/ psess' = [psess EXCEPT ![s] = NoDrop] /\ Fails
     /\ UNCHANGED << proto, server, inbox, tls, keep, saved, notes >>

BatchFullFaulty(n) == n > SaveEvery
BatchFull(n)       == n = SaveEvery

(* What the poll does when a message cannot be stored: it ends.             *)
AfterFailedDeliveryFaulty(p) == [p EXCEPT !.pc = "dele"]
AfterFailedDelivery(p)       == NoDrop

DeliverRetrieved(s) ==
  /\ psess[s].pc = "deliver"
  /\ LET p == psess[s]
         n == p.count + 1
     IN \/ /\ inbox' = inbox \cup {p.body}
           /\ mistaken' = IF p.body # p.msg THEN mistaken \cup {p.msg} ELSE mistaken
           /\ excuse' = IF p.body # p.msg THEN excuse \cup {"late"} ELSE excuse
           /\ again' = IF p.body \in inbox /\ excuse' = {} THEN again + 1 ELSE again
           /\ psess' = [psess EXCEPT ![s].pc = IF BatchFull(n) THEN "mark" ELSE "dele",
                                     ![s].seen = @ \cup {p.msg}, ![s].count = n % SaveEvery]
           /\ UNCHANGED mishaps
        \/ /\ Fails
           /\ psess' = [psess EXCEPT ![s] = AfterFailedDelivery(@)]
           /\ UNCHANGED << inbox, again, excuse, mistaken >>
  /\ UNCHANGED << proto, server, tls, keep, saved, blind >>

(* saveUIDLs: a list too long is cut to any SeenCap of its UIDLs (it is in  *)
(* the random order of a Go map).                                           *)
WrittenLists(seen) ==
  IF Cardinality(seen) > SeenCap THEN kSubset(SeenCap, seen) ELSE {seen}

SaveUIDLs(s) ==
  /\ \/ /\ saved'  \in WrittenLists(psess[s].seen)
        /\ excuse' = IF saved' = psess[s].seen THEN excuse ELSE excuse \cup {"forgot"}
        /\ UNCHANGED mishaps
     \/ Fails /\ UNCHANGED << saved, excuse >>
  /\ UNCHANGED << proto, server, inbox, tls, keep, again, blind, mistaken >>

SaveBatch(s) ==
  /\ psess[s].pc = "mark"
  /\ psess' = [psess EXCEPT ![s].pc = "dele"]
  /\ SaveUIDLs(s)

(* What is marked for deletion after a message: it too, unless mail stays.  *)
MarkedFaulty(p) == IF keep THEN p.dele \cup {p.msg} ELSE p.dele
Marked(p)       == IF keep THEN p.dele ELSE p.dele \cup {p.msg}

(* DELE; its error is ignored, and when it comes late the server may still  *)
(* have done it.  What it reads may be the beginning of the answer to an    *)
(* earlier RETR, which is then of no use to anybody.                        *)
LeftOwed(p) == {p.owed} \cup (IF keep \/ p.owed = {} THEN {} ELSE {p.owed \ {Min(p.owed)}})

Dele(s) ==
  LET p == psess[s]
      Next1(marked) == [p EXCEPT !.pc = "next", !.msg = 0, !.body = 0, !.dele = marked]
  IN /\ p.pc = "dele"
     /\ \/ /\ \E o \in LeftOwed(p) :
                psess' = [psess EXCEPT ![s] = [Next1(Marked(p)) EXCEPT !.owed = o]]
           /\ UNCHANGED mishaps
        \/ /\ ~keep /\ Fails
           /\ \E marked \in {p.dele, Marked(p)} :
                psess' = [psess EXCEPT ![s] = [Next1(marked) EXCEPT !.late = TRUE]]
     /\ UNCHANGED << proto, server, inbox, tls, keep, saved, notes >>

SaveAll(s) ==
  /\ psess[s].pc = "next" /\ psess[s].refs = {}
  /\ psess' = [psess EXCEPT ![s].pc = "quit"]
  /\ SaveUIDLs(s)

(* QUIT: the server removes what was marked, unless it never hears of it.   *)
Quit(s) ==
  /\ psess[s].pc = "quit"
  /\ \/ /\ box' = [m \in Msg |-> IF m \in psess[s].dele THEN 0 ELSE box[m]]
        /\ UNCHANGED mishaps
     \/ Fails /\ UNCHANGED box
  /\ psess' = [psess EXCEPT ![s] = NoDrop]
  /\ UNCHANGED << proto, arrived, uidNext, gone, inbox, tls, keep, saved, notes >>

PopInit ==
  /\ tls \in {"ssl", "clear"} /\ keep \in BOOLEAN
  /\ saved = {} /\ again = 0 /\ excuse = {} /\ blind = 0 /\ mistaken = {}
  /\ psess = [s \in Session |-> NoDrop]

PopStep(s) ==
  \/ Greeting(s)
  \/ ListDrop(s)
  \/ SeenUIDLs(s)
  \/ Retrieve(s)
  \/ DeliverRetrieved(s)
  \/ SaveBatch(s)
  \/ Dele(s)
  \/ SaveAll(s)
  \/ Quit(s)
-----------------------------------------------------------------------------

(* The types of the polls and of the list.                                  *)
PopTypeOK ==
  /\ tls \in {"ssl", "clear"} /\ keep \in BOOLEAN
  /\ saved \subseteq Msg /\ Cardinality(saved) <= SeenCap
  /\ again \in Nat /\ blind \in Nat /\ mistaken \subseteq Msg
  /\ excuse \subseteq {"overlap", "forgot", "late"}
  /\ psess \in [Session -> [pc : {"idle", "greet", "list", "seen", "next", "deliver", "mark",
                                  "dele", "quit"},
                            refs : SUBSET Msg, seen : SUBSET Msg, msg : 0 .. MaxMsg,
                            body : 0 .. MaxMsg, count : 0 .. SaveEvery - 1,
                            dele : SUBSET Msg, owed : SUBSET Msg, late : BOOLEAN]]

(* Only a late answer loses a message, one that was noted as seen when      *)
(* another was delivered under its name: for the rest a DELE never          *)
(* overtakes its delivery, whatever polls race, fail or die.                *)
LostOnlyIfMistaken == 1 .. arrived \subseteq Present \cup gone \cup inbox \cup mistaken

(* A failure or the end of the process costs at most SaveEvery repeated     *)
(* deliveries, and a list that could not be read the whole maildrop; only   *)
(* polls at once, an overlong list and a message taken for another cost     *)
(* more.                                                                    *)
AgainBounded == again <= SaveEvery * mishaps + arrived * blind
=============================================================================

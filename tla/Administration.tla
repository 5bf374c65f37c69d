--------------------------- MODULE Administration --------------------------
(***************************************************************************)
(* The instance as its administrator sees it: requests of every kind       *)
(* interleave step by step, the serving loop follows the web port, other   *)
(* processes take ports, and the process dies and starts again.            *)
(***************************************************************************)
EXTENDS FactoryReset

TypeOK ==
  /\ bound \in [Port -> Service \cup {"free", "other"}]
  /\ \A p \in Proto : addr[p] \in Port /\ ln[p] \in Port \cup {NoPort}
  /\ webCur \in Port /\ {prevWeb, swap, loop.on} \subseteq Port \cup {NoPort}
  /\ \A q \in served : bound[q] \in Proto
  /\ cur \in DOMAIN obj \cup {Nil}
  /\ Broken(file.is) \/ file.is.inst \in 1 .. installs
  /\ sessions \cup past.late \subseteq 1 .. installs
  /\ store.mail \cup mails \subseteq 1 .. store.made

(* A process that was never set up, or one that was, with the administrator *)
(* logged in and one account.                                               *)
Installed == [inst |-> 1, port |-> DefaultPort]
Init ==
  /\ \E s \in Scenario :
       LET n == IF s.installed THEN 1 ELSE 0
       IN /\ left = s
          /\ installs = n /\ cur = n /\ sessions = 1 .. n
          /\ obj  = [i \in 1 .. n |-> Installed]
          /\ file = [gen |-> 0, is |-> IF s.installed THEN Installed ELSE Absent]
          /\ store = [NoStore EXCEPT !.made = n, !.accounts = 1 .. n, !.mail = 1 .. n, !.blobs = 1 .. n]
          /\ LET l == AfterStart(DefaultPort, s.busy)
             IN /\ bound = l.bound /\ served = l.served /\ ln = l.ln /\ addr = l.addr
                /\ loop = l.loop /\ webCur = l.loop.on
          /\ past = Past(Proto \ Starts(DefaultPort, s.busy))
  /\ closed = [p \in Proto |-> FALSE] /\ prevWeb = NoPort /\ swap = NoPort
  /\ mails = {} /\ reset = FALSE
  /\ hd = [h \in Handler |-> Idle]
  /\ mixed = FALSE

(* A request arrives; or one goes on.                                       *)
Begin(h) ==
  /\ At(h, "idle") /\ left.requests > 0
  /\ left' = [left EXCEPT !.requests = @ - 1]
  /\ \/ "setup" \in left.ops     /\ SetupAsk(h)
     \/ "login" \in left.ops     /\ (LoginRead(h) \/ Logout(h))
     \/ "settings" \in left.ops  /\ SettingsRead(h)
     \/ "reset" \in left.ops     /\ (ResetPrepare(h) \/ ResetConfirm(h))
     \/ "account" \in left.ops   /\ CreateAccount(h)
     \/ "deliver" \in left.ops   /\ DeliverFile(h)
     \/ "enqueue" \in left.ops   /\ EnqueueFile(h)
     \/ "maillogin" \in left.ops /\ (MailLogin(h) \/ MailLogout(h))
GoOn(h) ==
  \/ SetupConfig(h) \/ Truncate(h) \/ Write(h) \/ SaveFails(h)
  \/ LoginSession(h) \/ MailSession(h)
  \/ SettingsChange(h) \/ SettingsRefused(h) \/ SettingsSet(h)
  \/ ApplyBegin(h) \/ ApplyProbe(h) \/ ApplyClose(h) \/ ApplyListen(h) \/ ApplyEnd(h)
  \/ WebRead(h) \/ WebBind(h) \/ WebSwap(h)
  \/ DeliverRow(h) \/ EnqueueRow(h)
  \/ ResetTable(h) \/ ResetFiles(h) \/ ResetForget(h) \/ ResetRemove(h) \/ ResetDone(h)

Listeners ==
  /\ StrayAccept \/ Wake \/ Track
  /\ UNCHANGED << config, auth, store, hd, left, installs, past >>
Taken ==
  /\ left.grabs > 0 /\ \E q \in Port : Grab(q)
  /\ left' = [left EXCEPT !.grabs = @ - 1]
  /\ UNCHANGED << config, auth, store, hd, installs, past >>

(* The process ends, for whatever reason, and main starts a new one: with   *)
(* what Load finds in the file, and nothing else of the old one.            *)
Loaded == IF Broken(file.is) THEN Absent ELSE file.is
PortOf(c) == IF c = Absent THEN DefaultPort ELSE c.port
Restart ==
  /\ left.restarts > 0
  /\ left' = [left EXCEPT !.restarts = @ - 1]
  /\ LET none  == Loaded = Absent
         want  == PortOf(Loaded)
         taken == {q \in Port : bound[q] = "other"}
         l     == AfterStart(want, taken)
     IN /\ CanStart(want, taken)
        /\ obj' = IF none THEN << >> ELSE << Loaded >>
        /\ cur' = IF none THEN Nil ELSE 1
        /\ bound' = l.bound /\ served' = l.served /\ ln' = l.ln /\ addr' = l.addr
        /\ loop' = l.loop /\ webCur' = l.loop.on
        /\ past' = [Past(Proto \ Starts(want, taken)) EXCEPT !.strays = past.strays]
  /\ closed' = [p \in Proto |-> FALSE] /\ prevWeb' = NoPort /\ swap' = NoPort
  /\ sessions' = {} /\ mails' = {} /\ reset' = FALSE
  /\ hd' = [h \in Handler |-> Idle]
  /\ mixed' = FALSE
  /\ UNCHANGED << file, store, installs >>

Next ==
  \/ /\ ~ Dead
     /\ Taken \/ Listeners \/ \E h \in Handler : Begin(h) \/ GoOn(h)
     /\ mixed' = (mixed \/ Overlap')
  \/ Restart

Spec == Init /\ [][Next]_vars
-----------------------------------------------------------------------------
Settled == ~ mixed /\ ~ Dead /\ \A h \in Handler : ~ Changing(h)
Steady  == Settled /\ loop.pc = "serve" /\ loop.open

(* Between requests the file holds what the process runs with, so that a    *)
(* restart changes nothing, whatever died before; a process without a       *)
(* configuration has no file, or one that is torn, which Load passes over.  *)
(* Exceptions the code has: changes of two requests at once; and, until the *)
(* next save that goes well or the next start, a settings request that was  *)
(* refused after it changed the object, a save that failed after the object *)
(* was put in place, and a reset that could not remove the file (half).     *)
FileCurrent ==
  Settled /\ ~ past.half => file.is = Now \/ (Now = Absent /\ Broken(file.is))

(* A session opens the installation it was made for and no later one: the   *)
(* reset drops them all.  Exceptions: the login read the configuration      *)
(* before it was replaced.                                                  *)
SessionOfThisInstall ==
  \A i \in sessions : i = Now.inst \/ i \in past.late

(* A reset that answers ok has wiped everything that was there when it      *)
(* began, in tables, files, configuration and sessions.                     *)
Remains ==
  {k \in {"accounts", "mail", "blobs"} : store[k] # {}}
    \cup {k \in {"queue", "outbound"} : store[k]}
    \cup (IF cur # Nil \/ file.is # Absent THEN {"config"} ELSE {})
    \cup (IF sessions # {} THEN {"sessions"} ELSE {})
    \cup (IF mails # {} THEN {"mails"} ELSE {})
ResetLeavesOnlyNew ==
  [][(\E h \in Handler : At(h, "mails") /\ At(h, "idle")') => Remains' \subseteq past.since]_vars

(* No message row is without its file, whatever a reset meets, since tables *)
(* go first and a row cannot be added to a cleared account.  Exception:     *)
(* accounts made while the reset runs.                                      *)
RowsKeepFiles == store.mail \ past.strays \subseteq store.blobs

(* Between requests the configuration names the ports the services use,     *)
(* except where the answer told otherwise.                                  *)
ConfigTellsPorts ==
  Settled /\ cur # Nil =>
    /\ \A p \in Proto \ past.off : Now.port[p] = addr[p]
    /\ Steady /\ "web" \notin past.off => Now.port["web"] = webCur

(* Between requests every protocol that came up is served where the manager *)
(* says, after any mixture of moves, failures and ports taken by others;    *)
(* and nowhere else, except for a POP3 or IMAP server that moved twice.     *)
ServedWhereTold ==
  Settled => \A p \in Proto \ past.down :
    /\ Reachable(p)
    /\ p = "smtp" \/ past.moves[p] < 2 => Held(p) = {addr[p]}

(* A change of the web port never ends the serving loop, and the loop comes *)
(* to serve the listener the manager tracks; exception: two changes at once.*)
WebFollows ==
  mixed \/ (~ Dead /\ (Steady => Reachable("web")))

(* Settings: "when a port is taken, the old port is kept and the answer     *)
(* tells; the configuration is not spoilt" (README).                        *)
TakenPortKept ==
  Steady /\ cur # Nil => Now.port["web"] = webCur
=============================================================================

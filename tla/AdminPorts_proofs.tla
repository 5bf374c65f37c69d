--------------------------- MODULE AdminPorts_proofs ------------------------
(***************************************************************************)
(* What holds of an instance's configuration and of its listeners, as long *)
(* as no two changes overlap: the file holds what the process runs with,   *)
(* the configuration tells where the services are, every protocol is       *)
(* served where the manager says, and the web UI never stops.              *)
(***************************************************************************)
EXTENDS Administration_proofs, SequenceTheorems

(* The request that is making changes, or one at rest when there is none.   *)
Changes(r) == \/ r.op \in {"setup", "settings"} /\ r.pc \notin {"wizard", "read"}
              \/ r.pc = "remove"
Sole(r) == \/ r = Idle /\ \A h \in Handler : ~ Changing(h)
           \/ \E h \in Handler : Changing(h) /\ r = hd[h]

(* The file: truncated while the write is under way, old from the change to *)
(* the save, else what the process runs with.                               *)
FileAt(r) ==
  /\ r.pc = "remove" => cur = Nil
  /\ r.pc \notin {"idle", "remove"} => cur # Nil
  /\ r.pc = "refused" => past.half
  /\ r.pc = "write" => r.snap = Now /\ r.gen = file.gen /\ file.is = Torn
  /\ r.pc \notin {"set", "save", "write", "remove"} /\ ~ past.half =>
       file.is = Now \/ (Now = Absent /\ Broken(file.is))

(* The web listener: the loop serves the one the manager tracks, or the one *)
(* it replaced, which is still open, or it finds the new one published.     *)
WebAt(r) ==
  /\ ~ Dead /\ bound[webCur] = "web"
  /\ loop.open \/ swap # NoPort
  /\ loop.pc = "track" => loop.on = webCur /\ loop.open
  /\ loop.open => loop.on = IF prevWeb = NoPort THEN webCur ELSE prevWeb
  /\ r.pc = "bind" => r.port = webCur
  /\ r.pc \in {"publish", "closeold"} => r.want["web"] = webCur /\ prevWeb # webCur
  /\ r.pc = "closeold" => swap = webCur
  /\ r.pc \notin {"publish", "closeold"} => prevWeb = NoPort /\ (~ loop.open => swap = webCur)

(* A protocol server: up, down, or between Close and Listen.                *)
Up(p) ==
  /\ addr[p] \in served /\ bound[addr[p]] = p /\ ln[p] = addr[p]
  /\ p = "smtp" \/ past.moves[p] < 2 => Held(p) = {addr[p]}
Down(p) ==
  /\ Held(p) = {}
  /\ p = "smtp" => ln[p] = NoPort \/ bound[ln[p]] = "other"
  /\ p # "smtp" /\ ~ closed[p] => ln[p] = NoPort
Between(p) ==
  IF p = "smtp" THEN Held(p) = {} /\ ln[p] = addr[p] /\ bound[addr[p]] \in {"free", "other"}
  ELSE closed[p] /\ (Held(p) = {} \/ (past.moves[p] >= 2 /\ Up(p)))
ServerAt(p, r) ==
  /\ IF p = "smtp" THEN ~ closed[p] /\ ln[p] \in {NoPort, addr[p]}
     ELSE closed[p] <=> past.moves[p] > 0
  /\ IF r.pc = "listen" /\ Head(r.todo) = p THEN Between(p)
     ELSE IF p \in past.down THEN Down(p) ELSE Up(p)
ToDo(r) ==
  r.pc \in {"probe", "close", "listen"} =>
    /\ \A i, j \in DOMAIN r.todo : r.todo[i] = r.todo[j] => i = j
    /\ \A i \in DOMAIN r.todo : r.old[r.todo[i]] = addr[r.todo[i]]
PortsAt(r) == ToDo(r) /\ \A p \in Proto : ServerAt(p, r)

(* The configuration: what the request still has to apply is as it was      *)
(* asked for, the rest is where it is told, unless the answer said no.      *)
Pending(r) ==
  {s \in DOMAIN r.want :
     IF s = "web" THEN r.op = "settings" /\ r.pc \in {"set", "web", "bind"} \cup Moving
     ELSE \/ r.pc \in {"set", "apply"}
          \/ r.pc \in {"save", "write"} /\ r.then = "apply"
          \/ r.pc \in {"probe", "close", "listen"} /\ \E i \in DOMAIN r.todo : r.todo[i] = s}
Where(s) == IF s = "web" THEN webCur ELSE addr[s]
TellsAt(s, r) ==
  IF s \in Pending(r) THEN Now.port[s] = r.want[s] ELSE s \in past.off \/ Now.port[s] = Where(s)
TellAt(r) == cur # Nil => \A s \in Service : TellsAt(s, r)

HoldsAt(r) == FileAt(r) /\ WebAt(r) /\ PortsAt(r) /\ TellAt(r)
(* What is inductive about it, until two changes overlap.                   *)
Steadily ==
  mixed \/ (~ Overlap /\ \A r \in {Idle} \cup {hd[h] : h \in Handler} : Sole(r) => HoldsAt(r))
-----------------------------------------------------------------------------

(* The protocols in their order: all of them, each once.                    *)
Lists(s, A) ==
  /\ s \in Seq(Proto)
  /\ \A x : x \in A <=> \E i \in DOMAIN s : s[i] = x
  /\ \A i, j \in DOMAIN s : s[i] = s[j] => i = j
(* Two lists without common members, one after the other.                   *)
LEMMA JoinOnce ==
  ASSUME NEW s, NEW t, NEW A, NEW B, A \cap B = {}, Lists(s, A), Lists(t, B)
  PROVE  Lists(s \o t, A \cup B)
<1> USE DEF Lists
<1> DEFINE u == s \o t
           m == Len(s)
           n == Len(t)
<1>1. /\ DOMAIN s = 1 .. m /\ DOMAIN t = 1 .. n /\ m \in Nat /\ n \in Nat
  OBVIOUS
<1>2. /\ u \in Seq(Proto) /\ Len(u) = m + n
      /\ \A i \in 1 .. m + n : u[i] = IF i <= m THEN s[i] ELSE t[i - m]
  BY ConcatProperties
<1>3. DOMAIN u = 1 .. m + n
  BY <1>2
<1> HIDE DEF u, m, n
<1>4. ASSUME NEW i \in 1 .. m + n
      PROVE  /\ i <= m => i \in DOMAIN s /\ u[i] = s[i] /\ u[i] \in A
             /\ ~ (i <= m) => i - m \in DOMAIN t /\ u[i] = t[i - m] /\ u[i] \in B
  <2>1. CASE i <= m
    <3>1. i \in 1 .. m
      BY <1>1, <2>1
    <3> QED
      BY <1>1, <1>2, <2>1, <3>1
  <2>2. CASE ~ (i <= m)
    <3>1. i - m \in 1 .. n
      BY <1>1, <2>2
    <3>2. u[i] = t[i - m]
      BY <1>2, <2>2
    <3> QED
      BY <1>1, <2>2, <3>1, <3>2
  <2> QED
    BY <2>1, <2>2
<1>5. ASSUME NEW x \in A \cup B
      PROVE  \E i \in 1 .. m + n : u[i] = x
  <2>1. CASE x \in A
    <3>1. PICK i \in DOMAIN s : s[i] = x
      BY <2>1
    <3>2. i \in 1 .. m + n /\ i <= m
      BY <1>1, <3>1
    <3> QED
      BY <1>2, <3>1, <3>2
  <2>2. CASE x \in B
    <3>1. PICK i \in DOMAIN t : t[i] = x
      BY <2>2
    <3>2. i + m \in 1 .. m + n /\ ~ (i + m <= m) /\ (i + m) - m = i
      BY <1>1, <3>1
    <3> QED
      BY <1>2, <3>1, <3>2
  <2> QED
    BY <2>1, <2>2
<1>6. ASSUME NEW i \in 1 .. m + n, NEW j \in 1 .. m + n, u[i] = u[j]
      PROVE  i = j
  <2>1. CASE i <= m /\ j <= m
    BY <1>4, <1>6, <2>1
  <2>2. CASE ~ (i <= m) /\ ~ (j <= m)
    <3>1. i - m = j - m
      BY <1>4, <1>6, <2>2
    <3> QED
      BY <1>1, <3>1
  <2>3. CASE ~ ((i <= m) <=> (j <= m))
    BY <1>4, <1>6, <2>3
  <2> QED
    BY <2>1, <2>2, <2>3
<1>7. \A x : x \in A \cup B <=> \E i \in DOMAIN u : u[i] = x
  BY <1>3, <1>4, <1>5
<1>8. \A i, j \in DOMAIN u : u[i] = u[j] => i = j
  BY <1>3, <1>6
<1>9. Lists(u, A \cup B)
  BY <1>2, <1>7, <1>8
<1> QED
  BY <1>9 DEF u
(* The list of one protocol, or of none.                                    *)
LEMMA PresentOnce ==
  ASSUME NEW p
  PROVE  Lists(Present(p), {p} \cap Proto)
<1>1. CASE p \in Proto
  BY <1>1 DEF Present, Lists
<1>2. CASE p \notin Proto
  BY <1>2 DEF Present, Lists
<1> QED
  BY <1>1, <1>2
(* ApplyProtocolPorts takes every protocol, each once.                      *)
LEMMA OrderFacts ==
  /\ \A i, j \in DOMAIN Order : Order[i] = Order[j] => i = j
  /\ \A p \in Proto : \E i \in DOMAIN Order : Order[i] = p
<1>1. PICK A, B, C : A = {"smtp"} \cap Proto /\ B = {"pop3"} \cap Proto /\ C = {"imap"} \cap Proto
  OBVIOUS
<1>2. A \cap B = {} /\ (A \cup B) \cap C = {} /\ \A p \in Proto : p \in (A \cup B) \cup C
  BY <1>1, PortAssumption
<1>3. Lists(Present("smtp"), A) /\ Lists(Present("pop3"), B) /\ Lists(Present("imap"), C)
  BY <1>1, PresentOnce
<1>4. Lists(Present("smtp") \o Present("pop3"), A \cup B)
  BY <1>2, <1>3, JoinOnce
<1>5. Lists(Order, (A \cup B) \cup C)
  BY <1>2, <1>3, <1>4, JoinOnce DEF Order
<1> QED
  BY <1>2, <1>5 DEF Lists
(* Of two protocols one comes first.                                        *)
LEMMA BeforeOrAfter ==
  ASSUME NEW p \in Proto, NEW q \in Proto, p # q
  PROVE  p \in Before(q) \/ q \in Before(p)
<1>1. PICK i \in DOMAIN Order, j \in DOMAIN Order : Order[i] = p /\ Order[j] = q
  BY OrderFacts
<1>2. i \in Nat /\ j \in Nat /\ i # j
  BY <1>1, OrderIsProto
<1>3. CASE i < j
  BY <1>1, <1>3 DEF Before
<1>4. CASE j < i
  BY <1>1, <1>4 DEF Before
<1> QED
  BY <1>2, <1>3, <1>4

-----------------------------------------------------------------------------
(* Who makes changes before and after a step of one request.                *)
LEMMA ChangingIs ==
  ASSUME NEW h \in Handler
  PROVE  Changing(h) <=> Changes(hd[h])
BY DEF Changing, Changes, At
(* A goroutine without a request changes nothing.                           *)
LEMMA IdleChanges == ~ Changes(Idle)
BY DEF Changes, Idle
(* When changes do not overlap, the one that steps is the only one,         *)
(* before and after.                                                        *)
LEMMA Alone ==
  ASSUME RequestTypes, ~ Overlap, ~ Overlap', NEW h \in Handler, NEW r, Go(h, r),
         Changing(h) \/ Changes(r)
  PROVE  /\ Sole(IF Changing(h) THEN hd[h] ELSE Idle)
         /\ \A s : Sole(s)' => s = IF Changes(r) THEN r ELSE Idle
<1>1. hd'[h] = r /\ \A g \in Handler : g # h => hd'[g] = hd[g]
  BY Pcs
<1>2. \A g \in Handler : Changing(g)' <=> Changes(hd'[g])
  BY DEF Changing, Changes, At
<1>3. \A g \in Handler : g # h => ~ Changing(g) /\ ~ Changing(g)'
  <2>1. \A g \in Handler : g # h => (Changing(g) <=> Changing(g)')
    BY <1>1, <1>2, ChangingIs
  <2>2. CASE Changing(h)
    BY <2>1, <2>2 DEF Overlap
  <2>3. CASE Changes(r)
    <3>1. Changing(h)'
      BY <1>1, <1>2, <2>3
    <3> QED
      BY <2>1, <3>1 DEF Overlap
  <2> QED
    BY <2>2, <2>3
<1>4. Sole(IF Changing(h) THEN hd[h] ELSE Idle)
  BY <1>3 DEF Sole
<1>5. ASSUME NEW s, Sole(s)'
      PROVE  s = IF Changes(r) THEN r ELSE Idle
  BY <1>1, <1>2, <1>3, <1>5 DEF Sole
<1> QED
  BY <1>4, <1>5

(* What a step of a request has to show, when it makes changes before or    *)
(* after; and when neither.                                                 *)
LEMMA StepOfChange ==
  ASSUME RequestTypes, Steadily, ~ mixed, ~ Overlap', NEW h \in Handler, NEW r, Go(h, r),
         Changing(h) \/ Changes(r),
         HoldsAt(IF Changing(h) THEN hd[h] ELSE Idle) => HoldsAt(IF Changes(r) THEN r ELSE Idle)'
  PROVE  Steadily'
<1>1. ~ Overlap
  BY DEF Steadily
<1>2. Sole(IF Changing(h) THEN hd[h] ELSE Idle)
  BY <1>1, Alone
<1>3. HoldsAt(IF Changing(h) THEN hd[h] ELSE Idle)
  BY <1>2 DEF Steadily
<1>4. HoldsAt(IF Changes(r) THEN r ELSE Idle)'
  BY <1>3
<1>5. ASSUME NEW s, Sole(s)'
      PROVE  HoldsAt(s)'
  <2>1. s = IF Changes(r) THEN r ELSE Idle
    BY <1>1, <1>5, Alone
  <2> QED
    BY <1>4, <2>1
<1> QED
  BY <1>5 DEF Steadily

(* What a step does not touch holds on.                                     *)
LEMMA FileStays ==
  ASSUME NEW r, FileAt(r), UNCHANGED << obj, cur, file >>, past'.half = past.half
  PROVE  FileAt(r)'
BY DEF FileAt, Now
(* The web part holds on when the web listeners are left alone.             *)
LEMMA WebStays ==
  ASSUME NEW r, WebAt(r), UNCHANGED << webCur, prevWeb, swap, loop >>, bound'[webCur] = bound[webCur]
  PROVE  WebAt(r)'
BY DEF WebAt, Dead
(* So do the protocol servers.                                              *)
LEMMA ServersStay ==
  ASSUME NEW r, PortsAt(r), UNCHANGED << bound, served, ln, closed, addr >>,
         past'.moves = past.moves, past'.down = past.down
  PROVE  PortsAt(r)'
<1>1. ToDo(r)'
  BY DEF PortsAt, ToDo
<1>2. ASSUME NEW p \in Proto
      PROVE  ServerAt(p, r)'
  <2>1. Up(p)' <=> Up(p)
    BY DEF Up, Held
  <2>2. Down(p)' <=> Down(p)
    BY DEF Down, Held
  <2>3. Between(p)' <=> Between(p)
    BY <2>1 DEF Between, Held
  <2> QED
    BY <2>1, <2>2, <2>3 DEF PortsAt, ServerAt
<1> QED
  BY <1>1, <1>2 DEF PortsAt
(* So does what the configuration tells.                                    *)
LEMMA TellStays ==
  ASSUME NEW r, TellAt(r), UNCHANGED << obj, cur, webCur, addr >>, past'.off = past.off
  PROVE  TellAt(r)'
BY DEF TellAt, TellsAt, Where, Now, Pending
(* And all of it, when ports and configuration are left alone.              *)
LEMMA InertHolds ==
  ASSUME NEW r, HoldsAt(r), UNCHANGED << pvars, config >>, past'.half = past.half,
         past'.off = past.off, past'.down = past.down, past'.moves = past.moves
  PROVE  HoldsAt(r)'
BY FileStays, WebStays, ServersStay, TellStays DEF HoldsAt, pvars, config

(* From one place of a request to the next, when only the place tells.      *)
LEMMA WebAnywhere ==
  ASSUME NEW r, NEW s, WebAt(r), r.pc \notin {"publish", "closeold"},
         s.pc \notin {"bind", "publish", "closeold"}
  PROVE  WebAt(s)
BY DEF WebAt
(* Between changes the servers do not depend on where the request is.       *)
LEMMA ServersAnywhere ==
  ASSUME NEW r, NEW s, PortsAt(r), r.pc # "listen", s.pc \notin {"probe", "close", "listen"}
  PROVE  PortsAt(s)
<1>1. ToDo(s)
  BY DEF ToDo
<1> QED
  BY <1>1 DEF PortsAt, ServerAt
(* What is told depends only on what the request still has to apply.        *)
LEMMA TellAnywhere ==
  ASSUME NEW r, NEW s, TellAt(r), Pending(r) = Pending(s),
         \A p \in Pending(s) : r.want[p] = s.want[p]
  PROVE  TellAt(s)
BY DEF TellAt, TellsAt

(* Steps of requests that make no changes, and change nothing here.         *)
LEMMA InertSteady ==
  ASSUME Types, Steadily, ~ mixed, ~ Overlap', NEW h \in Handler,
         UNCHANGED << pvars, config >>, past'.half = past.half, past'.off = past.off,
         past'.down = past.down, past'.moves = past.moves,
         hd' = hd \/ \E s : Go(h, s) /\ ~ Changes(s) /\ ~ Changing(h)
  PROVE  Steadily'
<1>1. ASSUME NEW s, Sole(s)'
      PROVE  Sole(s)
  <2>1. CASE hd' = hd
    BY <1>1, <2>1 DEF Sole, Changing, At
  <2>2. CASE \E q : Go(h, q) /\ ~ Changes(q) /\ ~ Changing(h)
    <3>1. PICK q : Go(h, q) /\ ~ Changes(q) /\ ~ Changing(h)
      BY <2>2
    <3>2. hd'[h] = q /\ \A g \in Handler : g # h => hd'[g] = hd[g]
      BY <3>1, Pcs DEF Types
    <3>3. \A g \in Handler : Changing(g)' <=> Changes(hd'[g])
      BY DEF Changing, Changes, At
    <3>4. \A g \in Handler : (Changing(g)' <=> Changing(g)) /\ (Changing(g) => hd'[g] = hd[g])
      BY <3>1, <3>2, <3>3, ChangingIs
    <3> QED
      BY <1>1, <3>4 DEF Sole
  <2> QED
    BY <2>1, <2>2
<1>2. ASSUME NEW s, Sole(s)'
      PROVE  HoldsAt(s)'
  <2>1. Sole(s)
    BY <1>1, <1>2
  <2>2. HoldsAt(s)
    BY <2>1 DEF Steadily, Sole
  <2> QED
    BY <2>2, InertHolds
<1> QED
  BY <1>2 DEF Steadily

(* A request that ends changes nothing any more.                            *)
LEMMA RestNow ==
  ASSUME NEW h \in Handler, Done(h)
  PROVE  \E s : Go(h, s) /\ ~ Changes(s)
BY IdleChanges DEF Done
(* A reset changes nothing before it removes the configuration.             *)
LEMMA SweepsOn ==
  ASSUME RequestTypes, NEW h \in Handler, hd[h].op = "reset",
         NEW l \in ResetPc \ {"remove"}, To(h, l)
  PROVE  \E s : Go(h, s) /\ ~ Changes(s)
<1>1. PICK s : s = [hd[h] EXCEPT !.pc = l]
  OBVIOUS
<1>2. s.op = "reset" /\ s.pc = l
  BY <1>1, RequestIs DEF Request
<1> QED
  BY <1>1, <1>2 DEF To, Changes
(* The steps at which a request changes nothing.                            *)
LEMMA NotChanging ==
  ASSUME RequestTypes, NEW h \in Handler,
         hd[h].pc \in {"idle", "wizard", "read", "login", "row", "enqueue", "mailsession"}
           \cup (ResetPc \ {"remove"})
  PROVE  ~ Changing(h)
BY RequestIs DEF Fits, Places, Changing, At, Moving, Web, ResetPc
(* A request begins.                                                        *)
LEMMA BeginSteady ==
  ASSUME Types, Steadily, ~ mixed, ~ Overlap', NEW h \in Handler, Begin(h)
  PROVE  Steadily'
<1> USE DEF Types
<1>1. ~ Changing(h)
  BY NotChanging DEF Begin, At
<1>2. UNCHANGED << pvars, config >>
  BY DEF Begin, SetupAsk, LoginRead, Logout, SettingsRead, ResetPrepare, ResetConfirm,
         CreateAccount, DeliverFile, EnqueueFile, MailLogin, MailLogout
<1>3. past'.half = past.half /\ past'.off = past.off /\ past'.down = past.down /\ past'.moves = past.moves
  BY DEF Begin, SetupAsk, LoginRead, Logout, SettingsRead, ResetPrepare, ResetConfirm,
         CreateAccount, DeliverFile, EnqueueFile, MailLogin, MailLogout, Wrote, PastTypes, History
<1>4. hd' = hd \/ \E s : Go(h, s) /\ ~ Changes(s)
  <2>1. CASE UNCHANGED hd
    BY <2>1
  <2>2. CASE SetupAsk(h)
    <3>1. PICK w : Go(h, [Idle EXCEPT !.pc = "wizard", !.op = "setup", !.want = w])
      BY <2>2 DEF SetupAsk
    <3>2. ~ Changes([Idle EXCEPT !.pc = "wizard", !.op = "setup", !.want = w])
      BY DEF Changes, Idle
    <3> QED
      BY <3>1, <3>2
  <2>3. CASE LoginRead(h)
    <3>1. ~ Changes([Idle EXCEPT !.pc = "login", !.op = "login", !.ref = cur])
      BY DEF Changes, Idle
    <3> QED
      BY <2>3, <3>1 DEF LoginRead
  <2>4. CASE SettingsRead(h)
    <3>1. ~ Changes([Idle EXCEPT !.pc = "read", !.op = "settings", !.ref = cur])
      BY DEF Changes, Idle
    <3> QED
      BY <2>4, <3>1 DEF SettingsRead
  <2>5. CASE MailLogin(h)
    <3>1. PICK a : Go(h, [Idle EXCEPT !.pc = "mailsession", !.op = "maillogin", !.ref = a])
      BY <2>5 DEF MailLogin
    <3>2. ~ Changes([Idle EXCEPT !.pc = "mailsession", !.op = "maillogin", !.ref = a])
      BY DEF Changes, Idle
    <3> QED
      BY <3>1, <3>2
  <2>6. CASE DeliverFile(h)
    <3>1. PICK a : Go(h, [Idle EXCEPT !.pc = "row", !.op = "deliver", !.ref = a])
      BY <2>6 DEF DeliverFile
    <3>2. ~ Changes([Idle EXCEPT !.pc = "row", !.op = "deliver", !.ref = a])
      BY DEF Changes, Idle
    <3> QED
      BY <3>1, <3>2
  <2>7. CASE EnqueueFile(h)
    <3>1. ~ Changes([Idle EXCEPT !.pc = "enqueue", !.op = "enqueue"])
      BY DEF Changes, Idle
    <3> QED
      BY <2>7, <3>1 DEF EnqueueFile
  <2>8. CASE ResetConfirm(h)
    <3>1. ~ Changes([Idle EXCEPT !.pc = "messages", !.op = "reset"])
      BY DEF Changes, Idle
    <3> QED
      BY <2>8, <3>1 DEF ResetConfirm
  <2> QED
    BY <2>1, <2>2, <2>3, <2>4, <2>5, <2>6, <2>7, <2>8
       DEF Begin, Logout, ResetPrepare, CreateAccount, MailLogout
<1> QED
  BY <1>1, <1>2, <1>3, <1>4, InertSteady
(* Logins, deliveries and enqueuing end.                                    *)
LEMMA SessionsSteady ==
  ASSUME Types, Steadily, ~ mixed, ~ Overlap', NEW h \in Handler,
         LoginSession(h) \/ MailSession(h) \/ DeliverRow(h) \/ EnqueueRow(h)
  PROVE  Steadily'
<1> USE DEF Types
<1>1. ~ Changing(h)
  BY NotChanging DEF LoginSession, MailSession, DeliverRow, EnqueueRow, At
<1>2. UNCHANGED << pvars, config >> /\ Done(h)
  BY DEF LoginSession, MailSession, DeliverRow, EnqueueRow
<1>3. past'.half = past.half /\ past'.off = past.off /\ past'.down = past.down /\ past'.moves = past.moves
  BY DEF LoginSession, MailSession, DeliverRow, EnqueueRow, Wrote, PastTypes, History
<1> QED
  BY <1>1, <1>2, <1>3, RestNow, InertSteady
(* A reset goes on.                                                         *)
LEMMA SweepSteady ==
  ASSUME Types, Steadily, ~ mixed, ~ Overlap', NEW h \in Handler,
         ResetTable(h) \/ ResetFiles(h) \/ ResetDone(h)
  PROVE  Steadily'
<1> USE DEF Types
<1>1. hd[h].pc \in ResetPc \ {"remove"}
  BY DEF ResetTable, ResetFiles, ResetDone, At, ResetPc
<1>2. ~ Changing(h)
  BY <1>1, NotChanging
<1>3. hd[h].op = "reset"
  BY <1>1, RequestIs DEF Fits, Places, Moving, Web, ResetPc
<1>4. UNCHANGED << pvars, config, past >>
  BY DEF ResetTable, ResetFiles, ResetDone
<1>5. Done(h) \/ \E l \in {"send_queue", "accounts", "blobs", "outbound", "forget"} : To(h, l)
  BY DEF ResetTable, ResetFiles, ResetDone
<1>6. {"send_queue", "accounts", "blobs", "outbound", "forget"} \subseteq ResetPc \ {"remove"}
  BY DEF ResetPc
<1>7. \E s : Go(h, s) /\ ~ Changes(s)
  BY <1>3, <1>5, <1>6, RestNow, SweepsOn
<1> QED
  BY <1>2, <1>4, <1>7, InertSteady

-----------------------------------------------------------------------------
(* A request starts to make changes, goes on with them, or ends them.       *)
LEMMA Starting ==
  ASSUME RequestTypes, Steadily, ~ mixed, ~ Overlap', NEW h \in Handler, NEW r, Go(h, r),
         ~ Changing(h), Changes(r), HoldsAt(Idle) => HoldsAt(r)'
  PROVE  Steadily'
BY StepOfChange
(* The request that makes changes makes a step, and it holds.               *)
LEMMA GoingOn ==
  ASSUME RequestTypes, Steadily, ~ mixed, ~ Overlap', NEW h \in Handler, NEW q, q = hd[h],
         NEW r, Go(h, r), Changing(h), Changes(r), HoldsAt(q) => HoldsAt(r)'
  PROVE  Steadily'
BY StepOfChange
(* The request that makes changes ends, and it holds.                       *)
LEMMA Ending ==
  ASSUME RequestTypes, Steadily, ~ mixed, ~ Overlap', NEW h \in Handler, NEW q, q = hd[h],
         Done(h), Changing(h), HoldsAt(q) => HoldsAt(Idle)'
  PROVE  Steadily'
BY StepOfChange, IdleChanges DEF Done

(* Set-up, ...                                                              *)
LEMMA SetupConfigSteady ==
  ASSUME Types, Steadily, ~ mixed, ~ Overlap', NEW h \in Handler, SetupConfig(h)
  PROVE  Steadily'
<1> USE DEF Types
<1> DEFINE c == [inst |-> installs + 1, port |-> hd[h].want]
           hist == [past EXCEPT !.off = IF hd[h].want["web"] = webCur THEN {} ELSE {"web"}]
<1>1. /\ obj' = Append(obj, c) /\ cur' = Len(obj) + 1
      /\ Go(h, [hd[h] EXCEPT !.pc = "save", !.then = "apply"])
      /\ past' = [hist EXCEPT !.late = IF cur \in {Nil, Len(obj) + 1} THEN @ ELSE @ \cup {obj[cur].inst},
                              !.since = @ \cup {"config"}]
      /\ UNCHANGED << pvars, file >> /\ At(h, "wizard")
  BY DEF SetupConfig, Install
<1>2. /\ past'.half = past.half /\ past'.down = past.down /\ past'.moves = past.moves
      /\ past'.off = IF hd[h].want["web"] = webCur THEN {} ELSE {"web"}
  BY <1>1 DEF PastTypes, History
<1>3. PICK r : r = [hd[h] EXCEPT !.pc = "save", !.then = "apply"]
  OBVIOUS
<1>4. r.pc = "save" /\ r.then = "apply" /\ r.op = hd[h].op /\ r.want = hd[h].want
  BY <1>3, RequestIs DEF Request
<1>5. hd[h].op = "setup" /\ DOMAIN hd[h].want = Service
  BY <1>1, RequestIs DEF At, Fits, Places, Moving, Web, ResetPc
<1>6. ~ Changing(h) /\ Changes(r)
  BY <1>1, <1>4, <1>5, NotChanging DEF At, Changes
<1>7. Len(obj) \in Nat /\ cur' # Nil /\ Now' = c
  BY <1>1, Counts DEF ConfigTypes, Now, Nil
<1>8. ASSUME HoldsAt(Idle)
      PROVE  HoldsAt(r)'
  <2>1. FileAt(r)'
    BY <1>4, <1>7 DEF FileAt
  <2>2. WebAt(r)'
    <3>1. WebAt(r)
      BY <1>4, <1>8, WebAnywhere DEF HoldsAt, Idle
    <3> QED
      BY <1>1, <3>1, WebStays DEF pvars
  <2>3. PortsAt(r)'
    <3>1. PortsAt(r)
      BY <1>4, <1>8, ServersAnywhere DEF HoldsAt, Idle
    <3> QED
      BY <1>1, <1>2, <3>1, ServersStay DEF pvars
  <2>4. ASSUME NEW s \in Service
        PROVE  TellsAt(s, r)'
    <3>1. CASE s = "web"
      <4>1. "web" \notin Pending(r) /\ webCur' = webCur
        BY <1>1, <1>4, <1>5 DEF Pending, pvars
      <4>2. "web" \in past'.off \/ Now'.port["web"] = webCur
        BY <1>2, <1>7
      <4> QED
        BY <3>1, <4>1, <4>2 DEF TellsAt, Where, Pending
    <3>2. CASE s # "web"
      <4>1. s \in Pending(r)
        BY <1>4, <1>5, <3>2 DEF Pending
      <4>2. Now'.port[s] = r.want[s]
        BY <1>4, <1>7
      <4> QED
        BY <4>1, <4>2 DEF TellsAt, Pending
    <3> QED
      BY <3>1, <3>2
  <2> QED
    BY <2>1, <2>2, <2>3, <2>4 DEF HoldsAt, TellAt
<1> QED
  BY <1>1, <1>3, <1>6, <1>8, Starting

(* ... the save, ...                                                        *)
LEMMA SavingIs ==
  ASSUME Types, NEW h \in Handler, hd[h].pc \in {"save", "write"}
  PROVE  /\ Changing(h) /\ hd[h].op \in {"setup", "settings"} /\ hd[h].then \in {"apply", "web"}
         /\ hd[h].op = "setup" => hd[h].then = "apply"
BY RequestIs DEF Types, At, Fits, Places, Changing, Moving, Web, ResetPc
(* Save truncates the file.                                                 *)
LEMMA TruncateSteady ==
  ASSUME Types, Steadily, ~ mixed, ~ Overlap', NEW h \in Handler, Truncate(h)
  PROVE  Steadily'
<1> USE DEF Types
<1>1. At(h, "save") /\ Wrote("config") /\ UNCHANGED << pvars, obj, cur >>
  BY DEF Truncate
<1>2. /\ past'.half = past.half /\ past'.down = past.down /\ past'.moves = past.moves
      /\ past'.off = past.off
  BY <1>1 DEF Wrote, PastTypes, History
<1>3. PICK q : q = hd[h]
  OBVIOUS
<1>4. Changing(h) /\ q.op \in {"setup", "settings"} /\ q.pc = "save"
  BY <1>1, <1>3, SavingIs DEF At
<1>5. cur # Nil
  <2>1. FileAt(q)
    BY <1>3, <1>4 DEF Steadily, Sole, HoldsAt
  <2> QED
    BY <1>4, <2>1 DEF FileAt
<1>6. PICK r : r = [q EXCEPT !.pc = "write", !.snap = obj[cur], !.gen = file.gen]
  OBVIOUS
<1>7. file' = [file EXCEPT !.is = Torn] /\ Go(h, r)
  BY <1>3, <1>5, <1>6 DEF Truncate
<1>8. /\ r.pc = "write" /\ r.op = q.op /\ r.then = q.then /\ r.want = q.want /\ r.snap = obj[cur]
      /\ r.gen = file.gen
  BY <1>3, <1>6, RequestIs DEF Request
<1>9. ASSUME HoldsAt(q)
      PROVE  HoldsAt(r)'
  <2>1. FileAt(r)'
    <3>1. file'.is = Torn /\ file'.gen = file.gen
      BY <1>7 DEF ConfigTypes
    <3> QED
      BY <1>1, <1>5, <1>8, <3>1 DEF FileAt, Now
  <2>2. WebAt(r)'
    <3>1. WebAt(r)
      BY <1>4, <1>8, <1>9, WebAnywhere DEF HoldsAt
    <3> QED
      BY <1>1, <3>1, WebStays DEF pvars
  <2>3. PortsAt(r)'
    <3>1. PortsAt(r)
      BY <1>4, <1>8, <1>9, ServersAnywhere DEF HoldsAt
    <3> QED
      BY <1>1, <1>2, <3>1, ServersStay DEF pvars
  <2>4. TellAt(r)'
    <3>1. Pending(r) = Pending(q)
      BY <1>4, <1>8 DEF Pending, Moving
    <3>2. TellAt(r)
      BY <1>8, <1>9, <3>1, TellAnywhere DEF HoldsAt
    <3> QED
      BY <1>1, <1>2, <3>2, TellStays DEF pvars
  <2> QED
    BY <2>1, <2>2, <2>3, <2>4 DEF HoldsAt
<1>10. Changes(r)
  BY <1>4, <1>8 DEF Changes
<1> QED
  BY <1>3, <1>4, <1>7, <1>9, <1>10, GoingOn

(* Save writes what the process runs with.                                  *)
LEMMA WriteSteady ==
  ASSUME Types, Steadily, ~ mixed, ~ Overlap', NEW h \in Handler, Write(h)
  PROVE  Steadily'
<1> USE DEF Types
<1>1. At(h, "write") /\ To(h, hd[h].then) /\ UNCHANGED << pvars, obj, cur >>
  BY DEF Write
<1>2. /\ past'.half = (past.half /\ hd[h].snap # Now) /\ past'.down = past.down
      /\ past'.moves = past.moves /\ past'.off = past.off
  <2>1. past' = [past EXCEPT !.since = @ \cup {"config"}, !.half = @ /\ hd[h].snap # Now]
    BY DEF Write
  <2> QED
    BY <2>1 DEF PastTypes, History
<1>3. PICK q : q = hd[h]
  OBVIOUS
<1>4. /\ Changing(h) /\ q.op \in {"setup", "settings"} /\ q.pc = "write" /\ q.then \in {"apply", "web"}
      /\ q.op = "setup" => q.then = "apply"
  BY <1>1, <1>3, SavingIs DEF At
<1>5. PICK r : r = [q EXCEPT !.pc = q.then]
  OBVIOUS
<1>6. /\ r.pc = q.then /\ r.op = q.op /\ r.want = q.want /\ Go(h, r)
  BY <1>1, <1>3, <1>5, RequestIs DEF Request, To
<1>7. ASSUME HoldsAt(q)
      PROVE  HoldsAt(r)'
  <2>1. FileAt(r)'
    <3>1. q.snap = Now /\ q.gen = file.gen /\ file.is = Torn /\ cur # Nil
      BY <1>4, <1>7 DEF HoldsAt, FileAt
    <3>2. file'.is = Now
      <4>1. PICK f \in Saved(q.snap) : file' = [file EXCEPT !.is = f]
        BY <1>3, <3>1 DEF Write
      <4>2. f = q.snap
        BY <3>1, <4>1 DEF Saved
      <4> QED
        BY <3>1, <4>1, <4>2 DEF ConfigTypes
    <3>3. Now' = Now /\ cur' # Nil
      BY <1>1, <3>1 DEF Now
    <3> QED
      BY <1>4, <1>6, <3>2, <3>3 DEF FileAt
  <2>2. WebAt(r)'
    <3>1. WebAt(r)
      BY <1>4, <1>6, <1>7, WebAnywhere DEF HoldsAt
    <3> QED
      BY <1>1, <3>1, WebStays DEF pvars
  <2>3. PortsAt(r)'
    <3>1. PortsAt(r)
      BY <1>4, <1>6, <1>7, ServersAnywhere DEF HoldsAt
    <3> QED
      BY <1>1, <1>2, <3>1, ServersStay DEF pvars
  <2>4. TellAt(r)'
    <3>1. Pending(r) = Pending(q)
      BY <1>4, <1>6 DEF Pending, Moving
    <3>2. TellAt(r)
      BY <1>6, <1>7, <3>1, TellAnywhere DEF HoldsAt
    <3> QED
      BY <1>1, <1>2, <3>2, TellStays DEF pvars
  <2> QED
    BY <2>1, <2>2, <2>3, <2>4 DEF HoldsAt
<1>8. Changes(r)
  BY <1>4, <1>6 DEF Changes
<1> QED
  BY <1>3, <1>4, <1>6, <1>7, <1>8, GoingOn

(* Or it does not, and past.half says so: the request ends, and past.off    *)
(* says what it asked for, or it goes on when it saved for the second time. *)
LEMMA SaveFailsSteady ==
  ASSUME Types, Steadily, ~ mixed, ~ Overlap', NEW h \in Handler, SaveFails(h)
  PROVE  Steadily'
<1> USE DEF Types
<1>1. PICK q : q = hd[h]
  OBVIOUS
<1> DEFINE again == q.errs # {}
           lost  == IF again THEN past.off ELSE past.off \cup DOMAIN q.want
<1>2. /\ At(h, "write") \/ At(h, "save")
      /\ UNCHANGED << pvars, obj, cur, file >>
      /\ past' = [past EXCEPT !.since = @ \cup {"config"}, !.half = TRUE, !.off = lost]
      /\ IF again THEN To(h, q.then) ELSE Done(h)
  BY <1>1 DEF SaveFails, config, PastTypes, History
<1>3. /\ past'.half = TRUE /\ past'.down = past.down /\ past'.moves = past.moves
      /\ past'.off = lost
  BY <1>2 DEF PastTypes, History
<1>4. /\ Changing(h) /\ q.op \in {"setup", "settings"} /\ q.pc \in {"save", "write"}
      /\ q.then \in {"apply", "web"}
      /\ q.op = "setup" => q.then = "apply"
  BY <1>1, <1>2, SavingIs DEF At
<1>5. CASE ~ again
  <2>1. Done(h) /\ past'.off = past.off \cup DOMAIN q.want
    BY <1>2, <1>3, <1>5
  <2>2. ASSUME HoldsAt(q)
        PROVE  HoldsAt(Idle)'
    <3>1. Idle.pc = "idle"
      BY DEF Idle
    <3>2. FileAt(Idle)'
      BY <1>3, <3>1 DEF FileAt
    <3>3. WebAt(Idle) /\ PortsAt(Idle)
      BY <1>4, <2>2, <3>1, WebAnywhere, ServersAnywhere DEF HoldsAt
    <3>4. WebAt(Idle)' /\ PortsAt(Idle)'
      BY <1>2, <1>3, <3>3, WebStays, ServersStay DEF pvars
    <3>5. TellAt(Idle)'
      <4>1. Pending(q) \subseteq DOMAIN q.want
        BY DEF Pending
      <4>2. Now' = Now /\ cur' = cur /\ \A s \in Service : Where(s)' = Where(s)
        BY <1>2 DEF Now, Where, pvars
      <4>3. cur # Nil => \A s \in Service : s \in past'.off \/ Now.port[s] = Where(s)
        BY <2>1, <2>2, <4>1 DEF HoldsAt, TellAt, TellsAt
      <4> QED
        BY <4>2, <4>3 DEF TellAt, TellsAt, Pending, Idle
    <3> QED
      BY <3>2, <3>4, <3>5 DEF HoldsAt
  <2> QED
    BY <1>1, <1>4, <2>1, <2>2, Ending
<1>6. CASE again
  <2>1. PICK r : r = [q EXCEPT !.pc = q.then]
    OBVIOUS
  <2>2. /\ r.pc = q.then /\ r.op = q.op /\ r.want = q.want /\ Go(h, r)
        /\ past'.off = past.off
    BY <1>1, <1>2, <1>3, <1>6, <2>1, RequestIs DEF Request, To
  <2>3. ASSUME HoldsAt(q)
        PROVE  HoldsAt(r)'
    <3>1. FileAt(r)'
      <4>1. cur # Nil
        BY <1>4, <2>3 DEF HoldsAt, FileAt
      <4> QED
        BY <1>2, <1>3, <1>4, <2>2, <4>1 DEF FileAt
    <3>2. WebAt(r) /\ PortsAt(r)
      BY <1>4, <2>2, <2>3, WebAnywhere, ServersAnywhere DEF HoldsAt
    <3>3. WebAt(r)' /\ PortsAt(r)'
      BY <1>2, <1>3, <3>2, WebStays, ServersStay DEF pvars
    <3>4. Pending(r) = Pending(q)
      BY <1>4, <2>2 DEF Pending, Moving
    <3>5. TellAt(r)
      BY <2>2, <2>3, <3>4, TellAnywhere DEF HoldsAt
    <3>6. TellAt(r)'
      BY <1>2, <2>2, <3>5, TellStays DEF pvars
    <3> QED
      BY <3>1, <3>3, <3>6 DEF HoldsAt
  <2>4. Changes(r)
    BY <1>4, <2>2 DEF Changes
  <2> QED
    BY <1>1, <1>4, <2>2, <2>3, <2>4, GoingOn
<1> QED
  BY <1>5, <1>6

(* ... settings, up to where they are put in place, ...                     *)
LEMMA ChangingRef ==
  ASSUME RequestTypes, ~ Overlap', NEW h \in Handler, NEW r, Go(h, r), r.op = "settings", Changes(r)
  PROVE  r.ref = cur'
<1>1. hd'[h] = r
  BY Pcs
<1>2. Changing(h)' <=> Changes(hd'[h])
  BY DEF Changing, Changes, At
<1> QED
  BY <1>1, <1>2 DEF Overlap
(* The settings request changes the configuration in memory.                *)
LEMMA SettingsChangeSteady ==
  ASSUME Types, Steadily, ~ mixed, ~ Overlap', NEW h \in Handler, SettingsChange(h)
  PROVE  Steadily'
<1> USE DEF Types
<1>1. PICK w \in left.ports :
        LET a == hd[h].ref
            c == Changed(obj[a], w)
        IN /\ obj' = [obj EXCEPT ![a] = With(@, c)]
           /\ \/ Go(h, [hd[h] EXCEPT !.pc = "set", !.want = c]) /\ UNCHANGED past
              \/ /\ left.refused /\ DOMAIN c # {}
                 /\ To(h, "refused")
                 /\ past' = [past EXCEPT !.half = TRUE, !.off = @ \cup DOMAIN c]
  BY DEF SettingsChange
<1>2. At(h, "read") /\ UNCHANGED << pvars, cur, file >>
  BY DEF SettingsChange
<1>3. PICK a : a = hd[h].ref
  OBVIOUS
<1>4. PICK c : c = Changed(obj[a], w)
  OBVIOUS
<1>5. hd[h].op = "settings" /\ a \in 1 .. Len(obj)
  BY <1>2, <1>3, RequestIs DEF At, Fits, Places, Moving, Web, ResetPc
<1>6. obj[a] \in Config(installs) /\ w \in Asked /\ Len(obj) \in Nat /\ a # Nil
  BY <1>5, Counts DEF ConfigTypes, PastTypes, Plan, Nil
<1>7. c \in Asked
  BY <1>4, <1>6, ChangedPorts
<1>8. \A p \in Service : With(obj[a], c).port[p] = IF p \in DOMAIN c THEN c[p] ELSE obj[a].port[p]
  BY <1>6, <1>7, WithPorts
<1>9. obj'[a] = With(obj[a], c)
  BY <1>1, <1>3, <1>4, <1>5 DEF ConfigTypes
<1>10. PICK r : /\ Go(h, r) /\ r.op = "settings" /\ r.ref = a
                /\ \/ r.pc = "set" /\ r.want = c /\ UNCHANGED past
                   \/ /\ r.pc = "refused"
                      /\ past' = [past EXCEPT !.half = TRUE, !.off = @ \cup DOMAIN c]
  <2>1. CASE Go(h, [hd[h] EXCEPT !.pc = "set", !.want = c]) /\ UNCHANGED past
    <3>1. PICK r : r = [hd[h] EXCEPT !.pc = "set", !.want = c]
      OBVIOUS
    <3>2. r.op = "settings" /\ r.ref = a /\ r.pc = "set" /\ r.want = c
      BY <1>3, <1>5, <3>1, RequestIs DEF Request
    <3> QED
      BY <2>1, <3>1, <3>2
  <2>2. CASE To(h, "refused") /\ past' = [past EXCEPT !.half = TRUE, !.off = @ \cup DOMAIN c]
    <3>1. PICK r : r = [hd[h] EXCEPT !.pc = "refused"]
      OBVIOUS
    <3>2. r.op = "settings" /\ r.ref = a /\ r.pc = "refused"
      BY <1>3, <1>5, <3>1, RequestIs DEF Request
    <3> QED
      BY <2>2, <3>1, <3>2 DEF To
  <2> QED
    BY <1>1, <1>3, <1>4, <2>1, <2>2
<1>11. ~ Changing(h) /\ Changes(r)
  BY <1>2, <1>10, NotChanging DEF At, Changes
<1>12. a = cur /\ cur' = cur
  BY <1>2, <1>10, <1>11, ChangingRef
<1>13. Now = obj[a] /\ Now' = With(obj[a], c)
  BY <1>6, <1>9, <1>12 DEF Now
<1>14. /\ past'.down = past.down /\ past'.moves = past.moves
       /\ \/ r.pc = "set" /\ past'.half = past.half /\ past'.off = past.off
          \/ r.pc = "refused" /\ past'.half = TRUE /\ past'.off = past.off \cup DOMAIN c
  BY <1>10 DEF PastTypes, History
<1>15. ASSUME HoldsAt(Idle)
       PROVE  HoldsAt(r)'
  <2>1. FileAt(r)'
    BY <1>6, <1>12, <1>14 DEF FileAt
  <2>2. WebAt(r)'
    <3>1. WebAt(r)
      BY <1>10, <1>15, WebAnywhere DEF HoldsAt, Idle
    <3> QED
      BY <1>2, <3>1, WebStays DEF pvars
  <2>3. PortsAt(r)'
    <3>1. PortsAt(r)
      BY <1>10, <1>15, ServersAnywhere DEF HoldsAt, Idle
    <3> QED
      BY <1>2, <1>14, <3>1, ServersStay DEF pvars
  <2>4. ASSUME NEW s \in Service
        PROVE  TellsAt(s, r)'
    <3>1. s \in past.off \/ Now.port[s] = Where(s)
      <4>1. s \notin Pending(Idle)
        BY DEF Pending, Idle
      <4> QED
        BY <1>6, <1>12, <1>15, <4>1 DEF HoldsAt, TellAt, TellsAt
    <3>2. Now'.port[s] = IF s \in DOMAIN c THEN c[s] ELSE Now.port[s]
      BY <1>8, <1>13
    <3>3. Where(s)' = Where(s)
      BY <1>2 DEF Where, pvars
    <3>4. CASE r.pc = "set"
      <4>1. Pending(r) = DOMAIN c /\ r.want = c
        BY <1>10, <3>4 DEF Pending
      <4>2. past'.off = past.off
        BY <1>14, <3>4
      <4> QED
        BY <3>1, <3>2, <3>3, <4>1, <4>2 DEF TellsAt, Pending
    <3>5. CASE r.pc = "refused"
      <4>1. Pending(r) = {}
        BY <1>10, <3>5 DEF Pending, Moving
      <4>2. past'.off = past.off \cup DOMAIN c
        BY <1>14, <3>5
      <4> QED
        BY <3>1, <3>2, <3>3, <4>1, <4>2 DEF TellsAt, Pending
    <3> QED
      BY <1>10, <3>4, <3>5
  <2> QED
    BY <2>1, <2>2, <2>3, <2>4 DEF HoldsAt, TellAt
<1> QED
  BY <1>10, <1>11, <1>15, Starting

(* When nothing is left to apply it holds without a request.                *)
LEMMA RestingHolds ==
  ASSUME NEW q, HoldsAt(q), Pending(q) = {},
         q.pc \notin {"set", "save", "write", "remove", "listen", "publish", "closeold"}
  PROVE  HoldsAt(Idle)
<1>1. Idle.pc = "idle" /\ Pending(Idle) = {}
  BY DEF Idle, Pending
<1>2. FileAt(Idle)
  BY <1>1 DEF HoldsAt, FileAt
<1>3. WebAt(Idle) /\ PortsAt(Idle)
  BY <1>1, WebAnywhere, ServersAnywhere DEF HoldsAt
<1>4. TellAt(Idle)
  BY <1>1, TellAnywhere DEF HoldsAt
<1> QED
  BY <1>2, <1>3, <1>4 DEF HoldsAt
(* A refused request leaves its changes in memory, and past.half says so.   *)
LEMMA SettingsRefusedSteady ==
  ASSUME Types, Steadily, ~ mixed, ~ Overlap', NEW h \in Handler, SettingsRefused(h)
  PROVE  Steadily'
<1> USE DEF Types
<1>1. At(h, "refused") /\ Done(h) /\ UNCHANGED << pvars, config, past >>
  BY DEF SettingsRefused
<1>2. PICK q : q = hd[h]
  OBVIOUS
<1>3. q.pc = "refused" /\ q.op = "settings" /\ Changing(h)
  BY <1>1, <1>2, RequestIs DEF At, Changing, Fits, Places, Moving, Web, ResetPc
<1>4. Pending(q) = {}
  BY <1>3 DEF Pending, Moving
<1>5. HoldsAt(q) => HoldsAt(Idle)'
  BY <1>1, <1>3, <1>4, RestingHolds, InertHolds
<1> QED
  BY <1>1, <1>2, <1>3, <1>5, Ending
(* SetConfig makes the request's object the configuration.                  *)
LEMMA SettingsSetSteady ==
  ASSUME Types, Steadily, ~ mixed, ~ Overlap', NEW h \in Handler, SettingsSet(h)
  PROVE  Steadily'
<1> USE DEF Types
<1>1. PICK then : /\ then = IF DOMAIN hd[h].want = {} THEN "web" ELSE "apply"
                  /\ Install(h, hd[h].ref, then, past)
  BY DEF SettingsSet
<1>2. At(h, "set") /\ UNCHANGED << pvars, obj, file >>
  BY DEF SettingsSet
<1>3. PICK q : q = hd[h]
  OBVIOUS
<1>4. q.pc = "set" /\ q.op = "settings" /\ Changing(h)
  BY <1>2, <1>3, RequestIs DEF At, Changing, Fits, Places, Moving, Web, ResetPc
<1>5. PICK r : r = [q EXCEPT !.pc = "save", !.then = then]
  OBVIOUS
<1>6. r.pc = "save" /\ r.then = then /\ r.op = q.op /\ r.want = q.want /\ r.ref = q.ref
  BY <1>3, <1>5, RequestIs DEF Request
<1>7. Go(h, r) /\ cur' = q.ref
  BY <1>1, <1>3, <1>5 DEF Install
<1>8. /\ past'.half = past.half /\ past'.down = past.down /\ past'.moves = past.moves
      /\ past'.off = past.off
  BY <1>1 DEF Install, PastTypes, History
<1>9. cur' = cur
  BY <1>3, <1>4, <1>7 DEF Steadily, Overlap
<1>10. ASSUME HoldsAt(q)
       PROVE  HoldsAt(r)'
  <2>1. FileAt(r)'
    <3>1. cur # Nil
      BY <1>4, <1>10 DEF HoldsAt, FileAt
    <3> QED
      BY <1>6, <1>9, <3>1 DEF FileAt
  <2>2. WebAt(r)'
    <3>1. WebAt(r)
      BY <1>4, <1>6, <1>10, WebAnywhere DEF HoldsAt
    <3> QED
      BY <1>2, <3>1, WebStays DEF pvars
  <2>3. PortsAt(r)'
    <3>1. PortsAt(r)
      BY <1>4, <1>6, <1>10, ServersAnywhere DEF HoldsAt
    <3> QED
      BY <1>2, <1>8, <3>1, ServersStay DEF pvars
  <2>4. TellAt(r)'
    <3>1. Pending(r) = Pending(q)
      <4>1. CASE then = "apply"
        BY <1>4, <1>6, <4>1 DEF Pending, Moving
      <4>2. CASE then # "apply"
        BY <1>1, <1>3, <1>6, <4>2 DEF Pending
      <4> QED
        BY <4>1, <4>2
    <3>2. TellAt(r)
      BY <1>6, <1>10, <3>1, TellAnywhere DEF HoldsAt
    <3> QED
      BY <1>2, <1>8, <1>9, <3>2, TellStays DEF pvars
  <2> QED
    BY <2>1, <2>2, <2>3, <2>4 DEF HoldsAt
<1>11. Changes(r)
  BY <1>4, <1>6 DEF Changes
<1> QED
  BY <1>3, <1>4, <1>7, <1>10, <1>11, GoingOn

(* ... the end of a reset, ...                                              *)
LEMMA ResetForgetSteady ==
  ASSUME Types, Steadily, ~ mixed, ~ Overlap', NEW h \in Handler, ResetForget(h)
  PROVE  Steadily'
<1> USE DEF Types
<1>1. At(h, "forget") /\ cur' = Nil /\ To(h, "remove") /\ UNCHANGED << pvars, past >>
  BY DEF ResetForget
<1>2. PICK r : r = [hd[h] EXCEPT !.pc = "remove"]
  OBVIOUS
<1>3. r.pc = "remove" /\ Go(h, r) /\ Changes(r)
  BY <1>1, <1>2, RequestIs DEF To, Request, Changes
<1>4. ~ Changing(h)
  <2>1. "forget" \in ResetPc \ {"remove"}
    BY DEF ResetPc
  <2> QED
    BY <1>1, <2>1, NotChanging DEF At
<1>5. ASSUME HoldsAt(Idle)
      PROVE  HoldsAt(r)'
  <2>1. FileAt(r)' /\ TellAt(r)'
    BY <1>1, <1>3 DEF FileAt, TellAt
  <2>2. WebAt(r) /\ PortsAt(r)
    BY <1>3, <1>5, WebAnywhere, ServersAnywhere DEF HoldsAt, Idle
  <2> QED
    BY <1>1, <2>1, <2>2, WebStays, ServersStay DEF HoldsAt, pvars
<1> QED
  BY <1>3, <1>4, <1>5, Starting
(* The reset removes the configuration file, or ends and past.half says so. *)
LEMMA ResetRemoveSteady ==
  ASSUME Types, Steadily, ~ mixed, ~ Overlap', NEW h \in Handler, ResetRemove(h)
  PROVE  Steadily'
<1> USE DEF Types
<1>1. At(h, "remove") /\ UNCHANGED << pvars, obj, cur >>
  BY DEF ResetRemove
<1>2. PICK q : q = hd[h]
  OBVIOUS
<1>3. q.pc = "remove" /\ q.op = "reset" /\ Changing(h)
  BY <1>1, <1>2, RequestIs DEF At, Changing, Fits, Places, Moving, Web, ResetPc
<1>4. \/ file' = [gen |-> file.gen + 1, is |-> Absent] /\ To(h, "mails") /\ UNCHANGED past
      \/ UNCHANGED file /\ Done(h) /\ past' = [past EXCEPT !.half = TRUE]
  BY DEF ResetRemove
<1>5. /\ past'.down = past.down /\ past'.moves = past.moves
      /\ past'.half \/ file'.is = Absent
  BY <1>4 DEF PastTypes, History
<1>6. \E r : Go(h, r) /\ ~ Changes(r)
  <2>1. CASE To(h, "mails")
    <3>1. PICK r : r = [q EXCEPT !.pc = "mails"]
      OBVIOUS
    <3>2. r.pc = "mails" /\ r.op = "reset" /\ Go(h, r)
      BY <1>2, <1>3, <2>1, <3>1, RequestIs DEF To, Request
    <3> QED
      BY <3>2 DEF Changes
  <2> QED
    BY <1>4, <2>1, RestNow
<1>7. ASSUME HoldsAt(q)
      PROVE  HoldsAt(Idle)'
  <2>1. cur' = Nil /\ Now' = Absent
    BY <1>1, <1>3, <1>7 DEF HoldsAt, FileAt, Now
  <2>2. FileAt(Idle)' /\ TellAt(Idle)'
    BY <1>5, <2>1 DEF FileAt, TellAt, Idle, Broken
  <2>3. WebAt(Idle) /\ PortsAt(Idle)
    BY <1>3, <1>7, WebAnywhere, ServersAnywhere DEF HoldsAt, Idle
  <2> QED
    BY <1>1, <1>5, <2>2, <2>3, WebStays, ServersStay DEF HoldsAt, pvars
<1> QED
  BY <1>2, <1>3, <1>6, <1>7, StepOfChange

-----------------------------------------------------------------------------
(* ... the ports, one protocol after the other.  What is left to do after   *)
(* one of them.                                                             *)
LEMMA ApplyingIs ==
  ASSUME Types, NEW h \in Handler, hd[h].pc \in {"apply", "probe", "close", "listen"}
  PROVE  /\ Changing(h) /\ hd[h].op \in {"setup", "settings"}
         /\ hd[h].todo \in Seq(Proto) /\ hd[h].want \in Asked /\ DOMAIN hd[h].want \subseteq Service
         /\ hd[h].errs \subseteq Proto
<1>1. hd[h] \in Request(installs)
  BY RequestIs DEF Types
<1>2. hd[h].op \in {"setup", "settings"}
  BY RequestIs DEF Types, Fits, Places, Moving, Web, ResetPc
<1> QED
  BY <1>1, <1>2, Asking DEF Request, Changing, At
(* Head and tail of the list of protocols still to do.                      *)
LEMMA TailIs ==
  ASSUME NEW t \in Seq(Proto), t # << >>
  PROVE  /\ Head(t) = t[1] /\ 1 \in DOMAIN t /\ Head(t) \in Proto
         /\ \A i \in DOMAIN Tail(t) : i + 1 \in DOMAIN t /\ i + 1 # 1 /\ Tail(t)[i] = t[i + 1]
         /\ \A i \in DOMAIN t : i # 1 => i - 1 \in DOMAIN Tail(t) /\ Tail(t)[i - 1] = t[i]
<1>1. Len(t) \in Nat /\ Len(t) # 0 /\ DOMAIN t = 1 .. Len(t)
  OBVIOUS
<1>2. Tail(t) \in Seq(Proto) /\ Len(Tail(t)) = Len(t) - 1
  OBVIOUS
<1>3. DOMAIN Tail(t) = 1 .. Len(t) - 1
  BY <1>2
<1>4. \A i \in 1 .. Len(t) - 1 : Tail(t)[i] = t[i + 1]
  OBVIOUS
<1>5. \A i \in 1 .. Len(t) - 1 : i + 1 \in 1 .. Len(t) /\ i + 1 # 1
  BY <1>1
<1>6. \A i \in 1 .. Len(t) : i # 1 => i - 1 \in 1 .. Len(t) - 1 /\ (i - 1) + 1 = i
  BY <1>1
<1>7. Head(t) = t[1] /\ 1 \in DOMAIN t /\ Head(t) \in Proto
  BY <1>1
<1> QED
  BY <1>1, <1>3, <1>4, <1>5, <1>6, <1>7
OneLess(q, r) ==
  /\ q.pc \in {"probe", "listen"} /\ q.todo \in Seq(Proto) /\ q.todo # << >>
  /\ r.pc = "probe" /\ r.todo = Tail(q.todo)
  /\ r.old = q.old /\ r.want = q.want /\ r.op = q.op
MovesOnly(p) == \A s \in Proto : s # p => addr'[s] = addr[s]
(* One protocol less to do.                                                 *)
LEMMA OneDone ==
  ASSUME NEW q, NEW r, OneLess(q, r), ToDo(q)
  PROVE  /\ MovesOnly(Head(q.todo)) => ToDo(r)'
         /\ Head(q.todo) \in Proto /\ q.old[Head(q.todo)] = addr[Head(q.todo)]
         /\ \A s : (\E i \in DOMAIN r.todo : r.todo[i] = s)
                     <=> (s # Head(q.todo) /\ \E i \in DOMAIN q.todo : q.todo[i] = s)
<1> USE DEF OneLess
<1>1. PICK t, u : t = q.todo /\ u = Tail(q.todo)
  OBVIOUS
<1>2. /\ Head(t) = t[1] /\ 1 \in DOMAIN t /\ Head(t) \in Proto
      /\ \A i \in DOMAIN u : i + 1 \in DOMAIN t /\ i + 1 # 1 /\ u[i] = t[i + 1]
      /\ \A i \in DOMAIN t : i # 1 => i - 1 \in DOMAIN u /\ u[i - 1] = t[i]
  BY <1>1, TailIs
<1>3. /\ \A i, j \in DOMAIN t : t[i] = t[j] => i = j
      /\ \A i \in DOMAIN t : q.old[t[i]] = addr[t[i]]
  BY <1>1 DEF ToDo
<1>4. \A i \in DOMAIN t : t[i] \in Proto /\ i \in Nat
  BY <1>1
<1>5. \A i \in DOMAIN u : i \in Nat
  BY <1>1
<1>6. \A i, j \in DOMAIN u : u[i] = u[j] => i = j
  <2>1. SUFFICES ASSUME NEW i \in DOMAIN u, NEW j \in DOMAIN u, u[i] = u[j] PROVE i = j
    OBVIOUS
  <2>2. i + 1 = j + 1
    BY <1>2, <1>3, <2>1
  <2> QED
    BY <1>5, <2>2
<1>7. MovesOnly(Head(t)) => \A i \in DOMAIN u : q.old[u[i]] = addr'[u[i]]
  <2>1. SUFFICES ASSUME MovesOnly(Head(t)), NEW i \in DOMAIN u
                 PROVE  q.old[u[i]] = addr'[u[i]]
    OBVIOUS
  <2>2. u[i] = t[i + 1] /\ i + 1 \in DOMAIN t /\ i + 1 # 1
    BY <1>2
  <2>3. u[i] # Head(t) /\ u[i] \in Proto
    BY <1>2, <1>3, <1>4, <2>2
  <2> QED
    <3>1. q.old[t[i + 1]] = addr[t[i + 1]]
      BY <1>3, <2>2
    <3>2. addr'[u[i]] = addr[u[i]]
      BY <2>1, <2>3 DEF MovesOnly
    <3> QED
      BY <2>2, <3>1, <3>2
<1>8. MovesOnly(Head(q.todo)) => ToDo(r)'
  BY <1>1, <1>6, <1>7 DEF ToDo
<1>9. ASSUME NEW s
      PROVE  (\E i \in DOMAIN u : u[i] = s) <=> (s # Head(t) /\ \E i \in DOMAIN t : t[i] = s)
  BY <1>2, <1>3
<1>10. Head(q.todo) \in Proto /\ q.old[Head(q.todo)] = addr[Head(q.todo)]
  <2>1. q.old[t[1]] = addr[t[1]]
    BY <1>2, <1>3
  <2> QED
    BY <1>1, <1>2, <2>1
<1>11. ASSUME NEW s
       PROVE  (\E i \in DOMAIN r.todo : r.todo[i] = s)
                <=> (s # Head(q.todo) /\ \E i \in DOMAIN q.todo : q.todo[i] = s)
  <2>1. r.todo = u /\ q.todo = t
    BY <1>1
  <2>2. (\E i \in DOMAIN u : u[i] = s) <=> (s # Head(t) /\ \E i \in DOMAIN t : t[i] = s)
    BY <1>9
  <2> QED
    BY <2>1, <2>2
<1> QED
  BY <1>8, <1>10, <1>11

(* ApplyProtocolPorts starts from where the servers are.                    *)
LEMMA ApplyBeginSteady ==
  ASSUME Types, Steadily, ~ mixed, ~ Overlap', NEW h \in Handler, ApplyBegin(h)
  PROVE  Steadily'
<1> USE DEF Types
<1>1. At(h, "apply") /\ UNCHANGED << pvars, config, past >>
  BY DEF ApplyBegin
<1>2. PICK q : q = hd[h]
  OBVIOUS
<1>3. /\ q.pc = "apply" /\ Changing(h) /\ q.op \in {"setup", "settings"}
      /\ DOMAIN q.want \subseteq Service
  BY <1>1, <1>2, ApplyingIs DEF At
<1>4. PICK r : r = [q EXCEPT !.pc = "probe", !.old = addr, !.todo = Order]
  OBVIOUS
<1>5. r.pc = "probe" /\ r.old = addr /\ r.todo = Order /\ r.op = q.op /\ r.want = q.want /\ r.then = q.then
  BY <1>2, <1>4, RequestIs DEF Request
<1>6. Go(h, r)
  BY <1>2, <1>4 DEF ApplyBegin
<1>7. ASSUME HoldsAt(q)
      PROVE  HoldsAt(r)
  <2>1. FileAt(r)
    BY <1>3, <1>5, <1>7 DEF HoldsAt, FileAt
  <2>2. WebAt(r)
    BY <1>3, <1>5, <1>7, WebAnywhere DEF HoldsAt
  <2>3. PortsAt(r)
    <3>1. ToDo(r)
      BY <1>5, OrderFacts DEF ToDo
    <3> QED
      BY <1>3, <1>5, <1>7, <3>1 DEF HoldsAt, PortsAt, ServerAt
  <2>4. TellAt(r)
    <3>1. ASSUME NEW s
          PROVE  s \in Pending(r) <=> s \in Pending(q)
      <4>1. CASE s = "web"
        BY <1>3, <1>5, <4>1 DEF Pending, Moving
      <4>2. CASE s # "web"
        <5>1. s \in DOMAIN q.want => \E i \in DOMAIN Order : Order[i] = s
          BY <1>3, <4>2, OrderFacts DEF Service
        <5> QED
          BY <1>3, <1>5, <4>2, <5>1 DEF Pending
      <4> QED
        BY <4>1, <4>2
    <3>2. Pending(r) = Pending(q)
      BY <3>1
    <3> QED
      BY <1>5, <1>7, <3>2, TellAnywhere DEF HoldsAt
  <2> QED
    BY <2>1, <2>2, <2>3, <2>4 DEF HoldsAt
<1>8. HoldsAt(q) => HoldsAt(r)'
  BY <1>1, <1>7, InertHolds
<1>9. Changes(r)
  BY <1>3, <1>5 DEF Changes
<1> QED
  BY <1>2, <1>3, <1>6, <1>8, <1>9, GoingOn

(* One protocol is dealt with: the configuration tells its port, or the     *)
(* answer will say that it could not be had.                                *)
LEMMA OneTold ==
  ASSUME NEW q, NEW r, OneLess(q, r), ToDo(q), TellAt(q), MovesOnly(Head(q.todo)),
         \A s \in Service : s # Head(q.todo) => (s \in past'.off <=> s \in past.off),
         UNCHANGED << obj, cur, webCur >>,
         cur # Nil => Head(q.todo) \in past'.off \/ Now.port[Head(q.todo)] = addr'[Head(q.todo)]
  PROVE  TellAt(r)'
<1>1. /\ Head(q.todo) \in Proto
      /\ \A s : (\E i \in DOMAIN r.todo : r.todo[i] = s)
                  <=> (s # Head(q.todo) /\ \E i \in DOMAIN q.todo : q.todo[i] = s)
  BY OneDone
<1> USE DEF OneLess
<1>2. Head(q.todo) # "web"
  BY <1>1, Ports
<1>3. Head(q.todo) \notin Pending(r)
  BY <1>1, <1>2 DEF Pending
<1>4. ASSUME NEW s \in Service, s # Head(q.todo)
      PROVE  s \in Pending(r) <=> s \in Pending(q)
  <2>1. CASE s = "web"
    BY <2>1 DEF Pending, Moving
  <2>2. CASE s # "web"
    BY <1>1, <1>4, <2>2 DEF Pending
  <2> QED
    BY <2>1, <2>2
<1>5. Now' = Now
  BY DEF Now
<1>6. ASSUME NEW s \in Service, cur # Nil
      PROVE  TellsAt(s, r)'
  <2>1. CASE s = Head(q.todo)
    <3>1. s \in past'.off \/ Now'.port[s] = Where(s)'
      BY <1>2, <1>5, <1>6, <2>1 DEF Where
    <3> QED
      BY <1>3, <2>1, <3>1 DEF TellsAt, Pending
  <2>2. CASE s # Head(q.todo)
    <3>1. Where(s)' = Where(s)
      BY <2>2 DEF Where, Service, MovesOnly
    <3>2. TellsAt(s, q)
      BY <1>6 DEF TellAt
    <3>3. IF s \in Pending(r) THEN Now'.port[s] = r.want[s] ELSE s \in past'.off \/ Now'.port[s] = Where(s)'
      BY <1>4, <1>5, <2>2, <3>1, <3>2 DEF TellsAt
    <3> QED
      BY <3>3 DEF TellsAt, Pending
  <2> QED
    BY <2>1, <2>2
<1> QED
  BY <1>6 DEF TellAt

(* What happens to other ports is nothing to the protocol servers.          *)
Apartly(r) ==
  \A x \in Port :
    \/ bound'[x] = bound[x]
    \/ /\ bound[x] \notin Proto \cup {"other"} /\ bound'[x] \notin Proto
       /\ r.pc = "listen" /\ bound[x] = "free" => bound'[x] \in {"free", "other"}
(* The servers hold on when only other ports change hands.                  *)
LEMMA ServersQuiet ==
  ASSUME PortTypes, NEW r, PortsAt(r), Apartly(r), UNCHANGED << served, ln, closed, addr >>,
         past'.moves = past.moves, past'.down = past.down
  PROVE  PortsAt(r)'
<1>1. ToDo(r)'
  BY DEF PortsAt, ToDo
<1>2. ASSUME NEW p \in Proto
      PROVE  ServerAt(p, r)'
  <2>1. addr[p] \in Port /\ ln[p] \in Port \cup {NoPort} /\ p # "other" /\ p # "free"
    BY Ports DEF PortTypes
  <2>2. Held(p)' = Held(p)
    BY DEF Held, Apartly
  <2>3. Up(p) => Up(p)'
    BY <2>1, <2>2 DEF Up, Apartly
  <2>4. Down(p) => Down(p)'
    BY <2>1, <2>2 DEF Down, Apartly
  <2>5. r.pc = "listen" /\ Between(p) => Between(p)'
    <3>1. bound[addr[p]] \in {"free", "other"} /\ r.pc = "listen" => bound'[addr[p]] \in {"free", "other"}
      BY <2>1 DEF Apartly
    <3> QED
      BY <2>2, <2>3, <3>1 DEF Between
  <2> QED
    BY <2>3, <2>4, <2>5 DEF PortsAt, ServerAt
<1> QED
  BY <1>1, <1>2 DEF PortsAt

(* The new port is tried first; when it is taken nothing is closed.         *)
LEMMA ApplyProbeSteady ==
  ASSUME Types, Steadily, ~ mixed, ~ Overlap', NEW h \in Handler, ApplyProbe(h)
  PROVE  Steadily'
<1> USE DEF Types
<1>1. At(h, "probe") /\ hd[h].todo # << >>
      /\ UNCHANGED << bound, served, ln, closed, webCur, prevWeb, swap, loop, config >>
  BY DEF ApplyProbe
<1>2. PICK q : q = hd[h]
  OBVIOUS
<1>3. /\ q.pc = "probe" /\ Changing(h) /\ q.op \in {"setup", "settings"}
      /\ q.todo \in Seq(Proto) /\ q.todo # << >> /\ DOMAIN q.want \subseteq Service
  BY <1>1, <1>2, ApplyingIs DEF At
<1>4. PICK p : p = Head(q.todo)
  OBVIOUS
<1>5. CASE /\ p \in DOMAIN q.want /\ q.want[p] # q.old[p]
           /\ To(h, "close")
           /\ UNCHANGED << addr, past >>
  <2>1. PICK r : r = [q EXCEPT !.pc = "close"]
    OBVIOUS
  <2>2. /\ r.pc = "close" /\ r.old = q.old /\ r.todo = q.todo /\ r.op = q.op /\ r.want = q.want
        /\ Go(h, r)
    BY <1>2, <1>5, <2>1, RequestIs DEF Request, To
  <2>3. ASSUME HoldsAt(q)
        PROVE  HoldsAt(r)
    <3>1. FileAt(r)
      BY <1>3, <2>2, <2>3 DEF HoldsAt, FileAt
    <3>2. WebAt(r)
      BY <1>3, <2>2, <2>3, WebAnywhere DEF HoldsAt
    <3>3. PortsAt(r)
      BY <1>3, <2>2, <2>3 DEF HoldsAt, PortsAt, ServerAt, ToDo
    <3>4. Pending(r) = Pending(q)
      BY <1>3, <2>2 DEF Pending, Moving
    <3> QED
      BY <2>2, <2>3, <3>1, <3>2, <3>3, <3>4, TellAnywhere DEF HoldsAt
  <2>4. HoldsAt(q) => HoldsAt(r)'
    BY <1>1, <1>5, <2>3, InertHolds DEF pvars
  <2>5. Changes(r)
    BY <1>3, <2>2 DEF Changes
  <2> QED
    BY <1>2, <1>3, <2>2, <2>4, <2>5, GoingOn
<1>6. ASSUME NEW errs, Advance(h, errs),
             \/ p \in DOMAIN q.want /\ addr' = [addr EXCEPT ![p] = q.old[p]]
             \/ p \notin DOMAIN q.want /\ addr' = addr,
             \/ p \in DOMAIN q.want /\ q.want[p] = q.old[p] /\ past' = [past EXCEPT !.off = @ \ {p}]
             \/ p \notin DOMAIN q.want /\ past' = past
             \/ past' = [past EXCEPT !.off = @ \cup {p}]
      PROVE  Steadily'
  <2>1. PICK r : r = [q EXCEPT !.pc = "probe", !.todo = Tail(@), !.errs = @ \cup errs]
    OBVIOUS
  <2>2. /\ r.pc = "probe" /\ r.old = q.old /\ r.todo = Tail(q.todo) /\ r.op = q.op /\ r.want = q.want
        /\ Go(h, r)
    BY <1>2, <1>6, <2>1, RequestIs DEF Request, Advance
  <2>3. OneLess(q, r)
    BY <1>3, <2>2 DEF OneLess
  <2>4. /\ past'.half = past.half /\ past'.down = past.down /\ past'.moves = past.moves
        /\ \A s \in Service : s # p => (s \in past'.off <=> s \in past.off)
        /\ \/ p \in DOMAIN q.want /\ q.want[p] = q.old[p]
           \/ p \notin DOMAIN q.want /\ past'.off = past.off
           \/ p \in past'.off
    BY <1>6 DEF PastTypes, History
  <2>5. ASSUME HoldsAt(q)
        PROVE  HoldsAt(r)'
    <3>1. ToDo(q)
      BY <2>5 DEF HoldsAt, PortsAt
    <3>2. p \in Proto /\ q.old[p] = addr[p]
      BY <1>4, <2>3, <3>1, OneDone
    <3>3. addr' = addr
      BY <1>6, <3>2 DEF PortTypes
    <3>4. MovesOnly(Head(q.todo))
      BY <3>3 DEF MovesOnly
    <3>5. FileAt(r)'
      <4>1. FileAt(r)
        BY <1>3, <2>2, <2>5 DEF HoldsAt, FileAt
      <4> QED
        BY <1>1, <2>4, <4>1, FileStays DEF config
    <3>6. WebAt(r)'
      <4>1. WebAt(r)
        BY <1>3, <2>2, <2>5, WebAnywhere DEF HoldsAt
      <4> QED
        BY <1>1, <4>1, WebStays
    <3>7. PortsAt(r)'
      <4>1. PortsAt(q)'
        BY <1>1, <2>4, <2>5, <3>3, ServersStay DEF HoldsAt
      <4>2. ToDo(r)'
        BY <2>3, <3>1, <3>4, OneDone
      <4>3. ASSUME NEW s \in Proto
            PROVE  ServerAt(s, r)'
        BY <1>3, <2>2, <4>1 DEF PortsAt, ServerAt
      <4> QED
        BY <4>2, <4>3 DEF PortsAt
    <3>8. cur # Nil => p \in past'.off \/ Now.port[p] = addr'[p]
      <4>1. p \in Service /\ p # "web"
        BY <3>2, Ports
      <4>2. ASSUME cur # Nil
            PROVE  TellsAt(p, q)
        BY <2>5, <4>1, <4>2 DEF HoldsAt, TellAt
      <4>3. CASE p \notin DOMAIN q.want /\ past'.off = past.off
        <5>1. p \notin Pending(q)
          BY <4>3 DEF Pending
        <5> QED
          BY <3>3, <4>1, <4>2, <4>3, <5>1 DEF TellsAt, Where
      <4>4. CASE p \in DOMAIN q.want /\ q.want[p] = q.old[p]
        <5>1. \E i \in DOMAIN q.todo : q.todo[i] = p
          BY <1>3, <1>4, TailIs
        <5>2. p \in Pending(q)
          BY <1>3, <4>1, <4>4, <5>1 DEF Pending
        <5> QED
          BY <3>2, <3>3, <4>2, <4>4, <5>2 DEF TellsAt
      <4> QED
        BY <2>4, <4>3, <4>4
    <3>9. TellAt(r)'
      BY <1>1, <1>4, <2>3, <2>4, <2>5, <3>1, <3>4, <3>8, OneTold DEF HoldsAt, config
    <3> QED
      BY <3>5, <3>6, <3>7, <3>9 DEF HoldsAt
  <2>6. Changes(r)
    BY <1>3, <2>2 DEF Changes
  <2> QED
    BY <1>2, <1>3, <2>2, <2>5, <2>6, GoingOn
<1>7. \/ /\ p \in DOMAIN q.want /\ q.want[p] # q.old[p] /\ To(h, "close") /\ UNCHANGED << addr, past >>
      \/ \E errs :
           /\ Advance(h, errs)
           /\ \/ p \in DOMAIN q.want /\ addr' = [addr EXCEPT ![p] = q.old[p]]
              \/ p \notin DOMAIN q.want /\ addr' = addr
           /\ \/ p \in DOMAIN q.want /\ q.want[p] = q.old[p] /\ past' = [past EXCEPT !.off = @ \ {p}]
              \/ p \notin DOMAIN q.want /\ past' = past
              \/ past' = [past EXCEPT !.off = @ \cup {p}]
  BY <1>2, <1>4 DEF ApplyProbe
<1> QED
  BY <1>5, <1>6, <1>7

(* Close: the server's port is free, unless the flag has it that there is   *)
(* nothing to close.                                                        *)
LEMMA ClosesServers ==
  ASSUME PortTypes, NEW q, NEW r, PortsAt(q), q.pc = "close", r.pc = "listen", r.todo = q.todo,
         r.old = q.old, NEW p \in Proto, p = Head(q.todo), ~ Panics(p), CloseServer(p),
         UNCHANGED << ln, addr >>, past'.down = past.down, past.moves \in [Proto -> Nat],
         past'.moves = [past.moves EXCEPT ![p] = @ + 1]
  PROVE  PortsAt(r)'
<1>1. /\ closed' = [closed EXCEPT ![p] = p # "smtp"]
      /\ closed[p] => UNCHANGED << bound, served >>
      /\ ~ closed[p] => bound' = Free(bound, ln[p], p) /\ served' = served \ {ln[p]}
  BY DEF CloseServer
<1>2. p # "other" /\ p # "free" /\ \A s \in Proto : s # "other" /\ s # "free"
  BY Ports
<1>3. /\ \A s \in Proto : addr[s] \in Port /\ ln[s] \in Port \cup {NoPort} /\ closed[s] \in BOOLEAN
      /\ NoPort \notin Port
  BY Ports DEF PortTypes
<1>4. /\ \A x \in Port : bound'[x] = bound[x] \/ (bound[x] = p /\ bound'[x] = "free" /\ x = ln[p])
      /\ ~ closed[p] /\ ln[p] \in Port => bound'[ln[p]] # p
  <2>1. CASE closed[p]
    BY <1>1, <2>1
  <2>2. CASE ~ closed[p] /\ ln[p] # NoPort /\ bound[ln[p]] = p
    <3>1. bound' = [bound EXCEPT ![ln[p]] = "free"]
      BY <1>1, <2>2 DEF Free
    <3> QED
      BY <1>2, <2>2, <3>1 DEF PortTypes
  <2>3. CASE ~ closed[p] /\ ~ (ln[p] # NoPort /\ bound[ln[p]] = p)
    <3>1. bound' = bound
      BY <1>1, <2>3 DEF Free
    <3> QED
      BY <1>3, <2>3, <3>1
  <2> QED
    BY <2>1, <2>2, <2>3
<1>5. ASSUME NEW s \in Proto
      PROVE  ServerAt(s, q) /\ (IF s \in past.down THEN Down(s) ELSE Up(s))
  BY DEF PortsAt, ServerAt
<1>6. ASSUME NEW s \in Proto, s # p
      PROVE  ServerAt(s, r)'
  <2>1. Held(s)' = Held(s)
    BY <1>2, <1>4, <1>6 DEF Held
  <2>2. past'.moves[s] = past.moves[s] /\ closed'[s] = closed[s]
    BY <1>1, <1>6 DEF PortTypes
  <2>3. Up(s) => Up(s)'
    <3>1. ASSUME Up(s)
          PROVE  bound'[addr[s]] = s /\ addr[s] \in served'
      <4>1. bound'[addr[s]] = s
        BY <1>3, <1>4, <1>6, <3>1 DEF Up
      <4>2. ~ closed[p] => ln[p] # addr[s]
        BY <1>3, <1>4, <1>6, <4>1, <3>1, <1>2, <1>5 DEF Up, Down, ServerAt
      <4> QED
        BY <1>1, <3>1, <4>1, <4>2 DEF Up
    <3> QED
      BY <2>1, <2>2, <3>1 DEF Up
  <2>4. Down(s) => Down(s)'
    BY <1>2, <1>3, <1>4, <2>1, <2>2 DEF Down
  <2> QED
    BY <1>5, <1>6, <2>2, <2>3, <2>4 DEF ServerAt
<1>7. past'.moves[p] = past.moves[p] + 1 /\ past.moves[p] \in Nat
  OBVIOUS
<1>8. ServerAt(p, r)'
  <2>1. Held(p)' \subseteq Held(p)
    BY <1>2, <1>4 DEF Held
  <2>2. closed'[p] = (p # "smtp")
    BY <1>1 DEF PortTypes
  <2>3. CASE p = "smtp"
    <3>1. ~ closed[p] /\ ln[p] = addr[p]
      BY <1>5, <2>3 DEF ServerAt, Panics
    <3>2. Held(p)' = {}
      <4>1. CASE p \in past.down
        BY <1>5, <2>1, <4>1 DEF Down
      <4>2. CASE p \notin past.down
        <5>1. Held(p) = {addr[p]}
          BY <1>5, <2>3, <4>2 DEF Up
        <5>2. bound'[addr[p]] # p
          BY <1>3, <1>4, <3>1
        <5> QED
          BY <2>1, <5>1, <5>2 DEF Held
      <4> QED
        BY <4>1, <4>2
    <3>3. bound'[addr[p]] \in {"free", "other"}
      BY <1>3, <1>4, <1>5, <3>1, <2>3, <1>2 DEF Down, Up
    <3> QED
      BY <2>2, <2>3, <3>1, <3>2, <3>3 DEF ServerAt, Between
  <2>4. CASE p # "smtp"
    <3>1. closed'[p] /\ past'.moves[p] > 0
      <4>1. closed'[p]
        BY <2>2, <2>4, Zenon
      <4>2. past'.moves[p] > 0
        BY <1>7
      <4> QED
        BY <4>1, <4>2
    <3>2. CASE ~ closed[p]
      <4>1. past.moves[p] < 2
        BY <1>5, <1>7, <2>4, <3>2 DEF ServerAt
      <4>2. Held(p)' = {}
        <5>1. CASE p \in past.down
          BY <1>5, <2>1, <5>1 DEF Down
        <5>2. CASE p \notin past.down
          <6>1. Held(p) = {addr[p]} /\ ln[p] = addr[p]
            BY <1>5, <4>1, <5>2 DEF Up
          <6>2. bound'[addr[p]] # p
            BY <1>3, <1>4, <3>2, <6>1
          <6> QED
            BY <2>1, <6>1, <6>2 DEF Held
        <5> QED
          BY <5>1, <5>2
      <4> QED
        BY <2>4, <3>1, <4>2 DEF ServerAt, Between
    <3>3. CASE closed[p]
      <4>1. past'.moves[p] >= 2
        BY <1>5, <1>7, <2>4, <3>3 DEF ServerAt
      <4>2. bound' = bound /\ served' = served
        BY <1>1, <3>3
      <4>3. Held(p)' = {} \/ Up(p)'
        <5>1. CASE p \in past.down
          BY <1>5, <2>1, <5>1 DEF Down
        <5>2. CASE p \notin past.down
          BY <1>5, <1>7, <2>4, <4>1, <4>2, <5>2 DEF Up
        <5> QED
          BY <5>1, <5>2
      <4> QED
        BY <2>4, <3>1, <4>1, <4>3 DEF ServerAt, Between
    <3> QED
      BY <3>2, <3>3
  <2> QED
    BY <2>3, <2>4
<1>9. ToDo(r)'
  BY DEF PortsAt, ToDo
<1> QED
  BY <1>6, <1>8, <1>9 DEF PortsAt

(* The old listener is closed.                                              *)
LEMMA ApplyCloseSteady ==
  ASSUME Types, Steadily, ~ mixed, ~ Overlap', NEW h \in Handler, ApplyClose(h)
  PROVE  Steadily'
<1> USE DEF Types
<1>1. At(h, "close") /\ UNCHANGED << ln, addr, webCur, prevWeb, swap, loop, config >>
  BY DEF ApplyClose
<1>2. PICK q : q = hd[h]
  OBVIOUS
<1>3. /\ q.pc = "close" /\ Changing(h) /\ q.op \in {"setup", "settings"}
      /\ q.todo \in Seq(Proto) /\ DOMAIN q.want \subseteq Service
  BY <1>1, <1>2, ApplyingIs DEF At
<1>4. PICK p : p = Head(q.todo)
  OBVIOUS
<1>5. q.todo # << >> /\ p \in DOMAIN q.want /\ p \in Proto
  <2>1. q.todo # << >> /\ p \in DOMAIN q.want
    BY <1>2, <1>3, <1>4, RequestIs DEF Fits
  <2> QED
    BY <1>3, <1>4, <2>1, TailIs
<1>6. CASE Done(h) /\ past' = [past EXCEPT !.off = @ \cup DOMAIN q.want] /\ UNCHANGED << bound, served, closed >>
  <2>1. /\ past'.half = past.half /\ past'.down = past.down /\ past'.moves = past.moves
        /\ past'.off = past.off \cup DOMAIN q.want
    BY <1>6 DEF PastTypes, History
  <2>2. ASSUME HoldsAt(q)
        PROVE  HoldsAt(Idle)'
    <3>1. Idle.pc = "idle" /\ Pending(Idle) = {}
      BY DEF Idle, Pending
    <3>2. FileAt(Idle)'
      <4>1. FileAt(Idle)
        BY <1>3, <2>2, <3>1 DEF HoldsAt, FileAt
      <4> QED
        BY <1>1, <2>1, <4>1, FileStays DEF config
    <3>3. WebAt(Idle)' /\ PortsAt(Idle)'
      <4>1. WebAt(Idle) /\ PortsAt(Idle)
        BY <1>3, <2>2, <3>1, WebAnywhere, ServersAnywhere DEF HoldsAt
      <4> QED
        BY <1>1, <1>6, <2>1, <4>1, WebStays, ServersStay
    <3>4. ASSUME NEW s \in Service, cur # Nil
          PROVE  TellsAt(s, Idle)'
      <4>1. Where(s)' = Where(s) /\ Now' = Now
        BY <1>1 DEF Where, Now, config
      <4>2. TellsAt(s, q)
        BY <2>2, <3>4 DEF HoldsAt, TellAt
      <4>3. s \in Pending(q) => s \in DOMAIN q.want
        BY DEF Pending
      <4>4. s \in past'.off \/ Now'.port[s] = Where(s)'
        BY <2>1, <4>1, <4>2, <4>3 DEF TellsAt
      <4>5. s \notin Pending(Idle)
        BY <3>1
      <4> QED
        BY <4>4, <4>5 DEF TellsAt, Pending
    <3>5. TellAt(Idle)'
      BY <1>1, <3>4 DEF TellAt, config
    <3> QED
      BY <3>2, <3>3, <3>5 DEF HoldsAt
  <2> QED
    BY <1>2, <1>3, <1>6, <2>2, Ending
<1>7. CASE /\ ~ Panics(p)
           /\ CloseServer(p)
           /\ To(h, "listen")
           /\ past' = [past EXCEPT !.moves[p] = @ + 1]
  <2>1. PICK r : r = [q EXCEPT !.pc = "listen"]
    OBVIOUS
  <2>2. /\ r.pc = "listen" /\ r.old = q.old /\ r.todo = q.todo /\ r.op = q.op /\ r.want = q.want
        /\ Go(h, r)
    BY <1>2, <1>7, <2>1, RequestIs DEF Request, To
  <2>3. /\ past'.half = past.half /\ past'.down = past.down /\ past'.off = past.off
        /\ past.moves \in [Proto -> Nat] /\ past'.moves = [past.moves EXCEPT ![p] = @ + 1]
    BY <1>7 DEF PastTypes, History
  <2>4. ASSUME HoldsAt(q)
        PROVE  HoldsAt(r)'
    <3>1. FileAt(r)'
      <4>1. FileAt(r)
        BY <1>3, <2>2, <2>4 DEF HoldsAt, FileAt
      <4> QED
        BY <1>1, <2>3, <4>1, FileStays DEF config
    <3>2. WebAt(r)'
      <4>1. WebAt(r)
        BY <1>3, <2>2, <2>4, WebAnywhere DEF HoldsAt
      <4>2. bound'[webCur] = bound[webCur]
        <5>1. bound[webCur] = "web" /\ p # "web" /\ webCur \in Port
          BY <1>5, <4>1, Ports DEF WebAt, PortTypes
        <5>2. bound' = bound \/ bound' = Free(bound, ln[p], p)
          BY <1>7 DEF CloseServer
        <5> QED
          BY <5>1, <5>2 DEF Free, PortTypes
      <4> QED
        BY <1>1, <4>1, <4>2, WebStays
    <3>3. PortsAt(r)'
      BY <1>1, <1>3, <1>4, <1>5, <1>7, <2>2, <2>3, <2>4, ClosesServers DEF HoldsAt
    <3>4. TellAt(r)'
      <4>1. Pending(r) = Pending(q)
        BY <1>3, <2>2 DEF Pending, Moving
      <4>2. TellAt(r)
        BY <2>2, <2>4, <4>1, TellAnywhere DEF HoldsAt
      <4> QED
        BY <1>1, <2>3, <4>2, TellStays DEF config
    <3> QED
      BY <3>1, <3>2, <3>3, <3>4 DEF HoldsAt
  <2>5. Changes(r)
    BY <1>3, <2>2 DEF Changes
  <2> QED
    BY <1>2, <1>3, <2>2, <2>4, <2>5, GoingOn
<1> QED
  BY <1>2, <1>4, <1>6, <1>7 DEF ApplyClose

(* Listen: on the new port, or the old one again, or on none.               *)
LEMMA ListensAgain ==
  ASSUME PortTypes, NEW q, NEW r, PortsAt(q), OneLess(q, r), q.pc = "listen",
         NEW p \in Proto, p = Head(q.todo), NEW want \in Port, Rebound(p, addr[p], want),
         UNCHANGED closed, past'.moves = past.moves, past.moves \in [Proto -> Nat],
         past'.down = IF bound[want] = "free" \/ bound[addr[p]] \in {"free", p} THEN past.down \ {p}
                      ELSE past.down \cup {p}
  PROVE  PortsAt(r)'
<1>1. p # "other" /\ p # "free" /\ \A s \in Proto : s # "other" /\ s # "free"
  BY Ports
<1>2. /\ \A s \in Proto : addr[s] \in Port /\ ln[s] \in Port \cup {NoPort} /\ closed[s] \in BOOLEAN
      /\ NoPort \notin Port
  BY Ports DEF PortTypes
<1>3. \/ \E x \in Port :
           /\ bound[x] = "free" /\ x = IF bound[want] = "free" THEN want ELSE addr[p]
           /\ bound' = [bound EXCEPT ![x] = p] /\ served' = served \cup {x}
           /\ ln' = [ln EXCEPT ![p] = x] /\ addr' = [addr EXCEPT ![p] = x]
           /\ past'.down = past.down \ {p}
      \/ /\ bound[want] # "free" /\ bound[addr[p]] # "free" /\ UNCHANGED << bound, served, ln >>
         /\ addr' = [addr EXCEPT ![p] = addr[p]]
         /\ past'.down = IF bound[addr[p]] = p THEN past.down \ {p} ELSE past.down \cup {p}
  BY <1>2 DEF Rebound, Fallback, ListenServer
<1>4. Between(p)
  BY DEF PortsAt, ServerAt
<1>5. ASSUME NEW s \in Proto, s # p
      PROVE  ServerAt(s, q) /\ (IF s \in past.down THEN Down(s) ELSE Up(s)) /\ (s \in past.down <=> s \in past'.down)
  BY <1>5 DEF PortsAt, ServerAt
<1>6. ASSUME NEW x \in Port, bound[x] = "free", bound' = [bound EXCEPT ![x] = p],
             served' = served \cup {x}, ln' = [ln EXCEPT ![p] = x], addr' = [addr EXCEPT ![p] = x],
             past'.down = past.down \ {p}
      PROVE  \A s \in Proto : ServerAt(s, r)'
  <2>1. bound'[x] = p /\ \A y \in Port : y # x => bound'[y] = bound[y]
    BY <1>6 DEF PortTypes
  <2>2. addr'[p] = x /\ ln'[p] = x /\ \A s \in Proto : s # p => addr'[s] = addr[s] /\ ln'[s] = ln[s]
    BY <1>6 DEF PortTypes
  <2>3. ASSUME NEW s \in Proto, s # p
        PROVE  ServerAt(s, r)'
    <3>1. Held(s)' = Held(s)
      BY <1>1, <1>6, <2>1, <2>3 DEF Held
    <3>2. Up(s) => Up(s)'
      BY <1>1, <1>2, <1>6, <2>1, <2>2, <2>3, <3>1 DEF Up
    <3>3. Down(s) => Down(s)'
      BY <1>1, <1>2, <1>6, <2>1, <2>2, <2>3, <3>1 DEF Down
    <3> QED
      BY <1>5, <2>2, <2>3, <3>2, <3>3 DEF ServerAt, OneLess
  <2>4. ServerAt(p, r)'
    <3>1. Held(p)' = Held(p) \cup {x}
      BY <1>1, <1>6, <2>1 DEF Held
    <3>2. Up(p)'
      <4>1. p = "smtp" \/ past.moves[p] < 2 => Held(p) = {}
        BY <1>4 DEF Between
      <4>2. p = "smtp" \/ past'.moves[p] < 2 => Held(p)' = {addr'[p]}
        BY <2>2, <3>1, <4>1
      <4> QED
        BY <1>6, <2>1, <2>2, <4>2 DEF Up
    <3>3. IF p = "smtp" THEN ~ closed[p] ELSE closed[p] <=> past.moves[p] > 0
      BY DEF PortsAt, ServerAt
    <3> QED
      BY <1>6, <2>2, <3>2, <3>3 DEF ServerAt, OneLess
  <2> QED
    BY <2>3, <2>4
<1>7. ASSUME bound[addr[p]] # "free", UNCHANGED << bound, served, ln >>,
             addr' = [addr EXCEPT ![p] = addr[p]],
             past'.down = IF bound[addr[p]] = p THEN past.down \ {p} ELSE past.down \cup {p}
      PROVE  \A s \in Proto : ServerAt(s, r)'
  <2>1. addr' = addr
    BY <1>7 DEF PortTypes
  <2>2. \A s \in Proto : (Up(s)' <=> Up(s)) /\ (Down(s)' <=> Down(s))
    BY <1>7, <2>1 DEF Up, Down, Held
  <2>3. ASSUME NEW s \in Proto, s # p
        PROVE  ServerAt(s, r)'
    BY <1>5, <1>7, <2>1, <2>2, <2>3 DEF ServerAt, OneLess
  <2>4. ServerAt(p, r)'
    <3>1. IF p = "smtp" THEN ~ closed[p] /\ ln[p] \in {NoPort, addr[p]}
          ELSE closed[p] <=> past.moves[p] > 0
      BY DEF PortsAt, ServerAt
    <3>2. CASE bound[addr[p]] = p
      <4>1. Held(p) # {}
        BY <1>2, <3>2 DEF Held
      <4>2. Up(p)
        BY <1>4, <4>1 DEF Between
      <4> QED
        BY <1>7, <2>1, <2>2, <3>1, <3>2, <4>2 DEF ServerAt, OneLess
    <3>3. CASE bound[addr[p]] # p
      <4>1. ~ Up(p)
        BY <3>3 DEF Up
      <4>2. Down(p)
        BY <1>4, <1>7, <4>1 DEF Between, Down
      <4> QED
        BY <1>7, <2>1, <2>2, <3>1, <3>3, <4>2 DEF ServerAt, OneLess
    <3> QED
      BY <3>2, <3>3
  <2> QED
    BY <2>3, <2>4
<1>8. \A s \in Proto : ServerAt(s, r)'
  BY <1>3, <1>6, <1>7
<1>9. ToDo(r)'
  <2>1. MovesOnly(p)
    BY <1>3 DEF MovesOnly, PortTypes
  <2>2. ToDo(q)
    BY DEF PortsAt
  <2> QED
    BY <2>1, <2>2, OneDone
<1> QED
  BY <1>8, <1>9 DEF PortsAt

(* The new one is opened, or the old one again; without either the server   *)
(* is down.                                                                 *)
LEMMA ApplyListenSteady ==
  ASSUME Types, Steadily, ~ mixed, ~ Overlap', NEW h \in Handler, ApplyListen(h)
  PROVE  Steadily'
<1> USE DEF Types
<1>1. At(h, "listen") /\ UNCHANGED << closed, webCur, prevWeb, swap, loop, config >>
  BY DEF ApplyListen
<1>2. PICK q : q = hd[h]
  OBVIOUS
<1>3. /\ q.pc = "listen" /\ Changing(h) /\ q.op \in {"setup", "settings"}
      /\ q.todo \in Seq(Proto) /\ DOMAIN q.want \subseteq Service /\ q.want \in Asked
  BY <1>1, <1>2, ApplyingIs DEF At
<1>4. PICK p : p = Head(q.todo)
  OBVIOUS
<1>5. q.todo # << >> /\ p \in DOMAIN q.want
  BY <1>2, <1>3, <1>4, RequestIs DEF Fits
<1>6. PICK want : want = q.want[p]
  OBVIOUS
<1>7. want \in Port /\ p \in Proto
  BY <1>3, <1>4, <1>5, <1>6, Asking, TailIs
<1>8. PICK errs : errs = IF bound[want] = "free" THEN {} ELSE {p}
  OBVIOUS
<1>9. /\ Rebound(p, q.old[p], want) /\ Advance(h, errs)
      /\ past' = [past EXCEPT !.off  = IF bound[want] = "free" THEN @ \ {p} ELSE @ \cup {p},
                              !.down = IF bound[want] = "free" \/ bound[q.old[p]] \in {"free", p}
                                       THEN @ \ {p} ELSE @ \cup {p}]
  BY <1>2, <1>4, <1>6, <1>8 DEF ApplyListen
<1>10. PICK r : r = [q EXCEPT !.pc = "probe", !.todo = Tail(@), !.errs = @ \cup errs]
  OBVIOUS
<1>11. /\ r.pc = "probe" /\ r.old = q.old /\ r.todo = Tail(q.todo) /\ r.op = q.op /\ r.want = q.want
       /\ Go(h, r)
  BY <1>2, <1>9, <1>10, RequestIs DEF Request, Advance
<1>12. OneLess(q, r)
  BY <1>3, <1>5, <1>11 DEF OneLess
<1>13. /\ past'.half = past.half /\ past'.moves = past.moves /\ past.moves \in [Proto -> Nat]
       /\ past'.off = IF bound[want] = "free" THEN past.off \ {p} ELSE past.off \cup {p}
       /\ past'.down = IF bound[want] = "free" \/ bound[q.old[p]] \in {"free", p}
                       THEN past.down \ {p} ELSE past.down \cup {p}
  BY <1>9 DEF PastTypes, History
<1>14. ASSUME HoldsAt(q)
       PROVE  HoldsAt(r)'
  <2>1. ToDo(q)
    BY <1>14 DEF HoldsAt, PortsAt
  <2>2. q.old[p] = addr[p]
    BY <1>4, <1>12, <2>1, OneDone
  <2>3. FileAt(r)'
    <3>1. FileAt(r)
      BY <1>3, <1>11, <1>14 DEF HoldsAt, FileAt
    <3> QED
      BY <1>1, <1>13, <3>1, FileStays DEF config
  <2>4. WebAt(r)'
    <3>1. WebAt(r)
      BY <1>3, <1>11, <1>14, WebAnywhere DEF HoldsAt
    <3>2. bound'[webCur] = bound[webCur]
      <4>1. bound[webCur] # "free" /\ webCur \in Port
        BY <3>1, Ports DEF WebAt, PortTypes
      <4>2. bound' = bound \/ \E x \in Port : bound[x] = "free" /\ bound' = [bound EXCEPT ![x] = p]
        BY <1>7, <1>9, <2>2 DEF Rebound, Fallback, ListenServer, PortTypes
      <4> QED
        BY <4>1, <4>2 DEF PortTypes
    <3> QED
      BY <1>1, <3>1, <3>2, WebStays
  <2>5. PortsAt(r)'
    <3>1. Rebound(p, addr[p], want)
      BY <1>9, <2>2
    <3>2. past'.down = IF bound[want] = "free" \/ bound[addr[p]] \in {"free", p} THEN past.down \ {p}
                       ELSE past.down \cup {p}
      BY <1>13, <2>2
    <3>3. PortTypes /\ PortsAt(q) /\ q.pc = "listen" /\ UNCHANGED closed
      BY <1>1, <1>3, <1>14 DEF HoldsAt
    <3> QED
      BY <1>4, <1>7, <1>12, <1>13, <3>1, <3>2, <3>3, ListensAgain
  <2>6. MovesOnly(Head(q.todo))
    BY <1>4, <1>9 DEF Rebound, MovesOnly, PortTypes
  <2>7. cur # Nil => p \in past'.off \/ Now.port[p] = addr'[p]
    <3>1. CASE bound[want] # "free"
      BY <1>13, <3>1
    <3>2. CASE bound[want] = "free" /\ cur # Nil
      <4>1. addr'[p] = want
        BY <1>7, <1>9, <3>2 DEF Rebound, PortTypes
      <4>2. p \in Service /\ p # "web" /\ \E i \in DOMAIN q.todo : q.todo[i] = p
        BY <1>3, <1>4, <1>5, <1>7, Ports, TailIs
      <4>3. p \in Pending(q)
        BY <1>3, <1>5, <4>2 DEF Pending
      <4>4. TellsAt(p, q)
        BY <1>14, <3>2, <4>2 DEF HoldsAt, TellAt
      <4> QED
        BY <1>6, <4>1, <4>3, <4>4 DEF TellsAt
    <3> QED
      BY <3>1, <3>2
  <2>8. TellAt(r)'
    <3>1. \A s \in Service : s # Head(q.todo) => (s \in past'.off <=> s \in past.off)
      BY <1>4, <1>13
    <3>2. TellAt(q) /\ UNCHANGED << obj, cur, webCur >>
      BY <1>1, <1>14 DEF HoldsAt, config
    <3> QED
      BY <1>4, <1>12, <2>1, <2>6, <2>7, <3>1, <3>2, OneTold
  <2> QED
    BY <2>3, <2>4, <2>5, <2>8 DEF HoldsAt
<1>15. Changes(r)
  BY <1>3, <1>11 DEF Changes
<1> QED
  BY <1>2, <1>3, <1>11, <1>14, <1>15, GoingOn

(* All protocols are dealt with: a settings request takes back what could   *)
(* not be had.                                                              *)
LEMMA NothingToDo ==
  ASSUME NEW q, q.pc = "probe", q.todo = << >>
  PROVE  \A s : s \in Pending(q) <=> (s = "web" /\ q.op = "settings" /\ s \in DOMAIN q.want)
BY DEF Pending, Moving
(* What failed is taken back from the configuration.                        *)
LEMMA ApplyEndSteady ==
  ASSUME Types, Steadily, ~ mixed, ~ Overlap', NEW h \in Handler, ApplyEnd(h)
  PROVE  Steadily'
<1> USE DEF Types
<1>1. At(h, "probe") /\ hd[h].todo = << >> /\ UNCHANGED << pvars, file >>
  BY DEF ApplyEnd
<1>2. PICK q : q = hd[h]
  OBVIOUS
<1>3. /\ q.pc = "probe" /\ Changing(h) /\ q.op \in {"setup", "settings"} /\ q.todo = << >>
      /\ q.errs \subseteq Proto /\ DOMAIN q.want \subseteq Service
  BY <1>1, <1>2, ApplyingIs DEF At
<1>4. CASE q.op = "setup" /\ Done(h) /\ UNCHANGED << obj, cur, past >>
  <2>1. Pending(q) = {}
    BY <1>3, <1>4, NothingToDo
  <2>2. HoldsAt(q) => HoldsAt(Idle)'
    BY <1>1, <1>3, <1>4, <2>1, RestingHolds, InertHolds DEF config
  <2> QED
    BY <1>2, <1>3, <1>4, <2>2, Ending
<1>5. CASE q.op = "settings" /\ To(h, "web") /\ UNCHANGED << obj, cur, past >>
  <2>1. PICK r : r = [q EXCEPT !.pc = "web"]
    OBVIOUS
  <2>2. r.pc = "web" /\ r.op = q.op /\ r.want = q.want /\ Go(h, r)
    BY <1>2, <1>5, <2>1, RequestIs DEF Request, To
  <2>3. Pending(r) = Pending(q)
    BY <1>3, <1>5, <2>2, NothingToDo DEF Pending
  <2>4. ASSUME HoldsAt(q)
        PROVE  HoldsAt(r)
    <3>1. FileAt(r)
      BY <1>3, <2>2, <2>4 DEF HoldsAt, FileAt
    <3> QED
      BY <1>3, <2>2, <2>3, <2>4, <3>1, WebAnywhere, ServersAnywhere, TellAnywhere DEF HoldsAt
  <2>5. HoldsAt(q) => HoldsAt(r)'
    BY <1>1, <1>5, <2>4, InertHolds DEF config
  <2>6. Changes(r)
    BY <1>5, <2>2 DEF Changes
  <2> QED
    BY <1>2, <1>3, <2>2, <2>5, <2>6, GoingOn
<1>6. CASE /\ q.op = "settings" /\ q.errs # {}
           /\ obj' = [obj EXCEPT ![q.ref] = Reverted(@, q.errs)]
           /\ Install(h, q.ref, "web", [past EXCEPT !.off = @ \ q.errs])
  <2>1. PICK w : w = [p \in q.errs |-> addr[p]]
    OBVIOUS
  <2>2. w \in Asked /\ DOMAIN w = q.errs /\ \A p \in q.errs : w[p] = addr[p]
    <3>1. q.errs \in SUBSET Service /\ w \in [q.errs -> Port]
      BY <1>3, <2>1, Ports DEF PortTypes
    <3> QED
      BY <2>1, <3>1, AskedOf
  <2>3. q.ref = cur /\ q.ref \in 1 .. Len(obj)
    <3>1. q.ref = cur
      BY <1>2, <1>3, <1>6 DEF Steadily, Overlap
    <3> QED
      BY <1>2, <1>6, <3>1, RequestIs DEF Fits
  <2>4. cur' = cur /\ cur # Nil
    BY <1>6, <2>3, Counts DEF Install, Nil
  <2>5. obj[cur] \in Config(installs) /\ obj'[cur] = With(obj[cur], w)
    BY <1>6, <2>1, <2>3 DEF ConfigTypes, Reverted
  <2>6. \A s \in Service : Now'.port[s] = IF s \in q.errs THEN addr[s] ELSE Now.port[s]
    BY <2>2, <2>4, <2>5, WithPorts DEF Now
  <2>7. PICK hist : hist = [past EXCEPT !.off = @ \ q.errs]
    OBVIOUS
  <2>8. /\ past'.half = past.half /\ past'.down = past.down /\ past'.moves = past.moves
        /\ past'.off = past.off \ q.errs
    BY <1>6, <2>7 DEF Install, PastTypes, History
  <2>9. PICK r : r = [q EXCEPT !.pc = "save", !.then = "web"]
    OBVIOUS
  <2>10. r.pc = "save" /\ r.then = "web" /\ r.op = q.op /\ r.want = q.want /\ Go(h, r)
    BY <1>2, <1>6, <2>9, RequestIs DEF Request, Install
  <2>11. ASSUME HoldsAt(q)
         PROVE  HoldsAt(r)'
    <3>1. FileAt(r)'
      BY <2>4, <2>10 DEF FileAt
    <3>2. WebAt(r)' /\ PortsAt(r)'
      <4>1. WebAt(r) /\ PortsAt(r)
        BY <1>3, <2>10, <2>11, WebAnywhere, ServersAnywhere DEF HoldsAt
      <4> QED
        BY <1>1, <2>8, <4>1, WebStays, ServersStay DEF pvars
    <3>3. ASSUME NEW s \in Service
          PROVE  TellsAt(s, r)'
      <4>1. TellsAt(s, q)
        BY <2>4, <2>11 DEF HoldsAt, TellAt
      <4>2. s \in Pending(r) <=> s \in Pending(q)
        BY <1>3, <1>6, <2>10, NothingToDo DEF Pending, Moving
      <4>3. s \in Pending(r) => s \notin q.errs
        BY <1>3, <4>2, NothingToDo, Ports
      <4>4. Where(s)' = Where(s)
        BY <1>1 DEF Where, pvars
      <4>5. s \in q.errs => Where(s) = addr[s]
        BY <1>3, Ports DEF Where
      <4>6. IF s \in Pending(r) THEN Now'.port[s] = r.want[s]
            ELSE s \in past'.off \/ Now'.port[s] = Where(s)'
        BY <2>6, <2>8, <2>10, <4>1, <4>2, <4>3, <4>4, <4>5 DEF TellsAt
      <4> QED
        BY <4>6 DEF TellsAt, Pending
    <3> QED
      BY <3>1, <3>2, <3>3 DEF HoldsAt, TellAt
  <2>12. Changes(r)
    BY <1>6, <2>10 DEF Changes
  <2> QED
    BY <1>2, <1>3, <2>10, <2>11, <2>12, GoingOn
<1> QED
  BY <1>2, <1>4, <1>5, <1>6 DEF ApplyEnd

-----------------------------------------------------------------------------
(* ... the web port, ...                                                    *)
LEMMA WebIs ==
  ASSUME Types, NEW h \in Handler, hd[h].pc \in {"web", "bind", "publish", "closeold"}
  PROVE  /\ Changing(h) /\ hd[h].op = "settings" /\ DOMAIN hd[h].want \subseteq Service
         /\ \A p \in DOMAIN hd[h].want : hd[h].want[p] \in Port
         /\ hd[h].pc # "web" => "web" \in DOMAIN hd[h].want
<1>1. hd[h] \in Request(installs) /\ Fits(hd[h], Len(obj), store.made)
  BY RequestIs DEF Types
<1>2. hd[h].op = "settings" /\ (hd[h].pc # "web" => "web" \in DOMAIN hd[h].want)
  BY <1>1 DEF Fits, Places, Moving, Web, ResetPc
<1>3. hd[h].want \in Asked
  BY <1>1 DEF Request
<1> QED
  BY <1>2, <1>3, Asking DEF Changing, At
(* With a web port in the request the manager's one is read, else it        *)
(* ends.                                                                    *)
LEMMA WebReadSteady ==
  ASSUME Types, Steadily, ~ mixed, ~ Overlap', NEW h \in Handler, WebRead(h)
  PROVE  Steadily'
<1> USE DEF Types
<1>1. At(h, "web") /\ UNCHANGED << pvars, config, past >>
  BY DEF WebRead
<1>2. PICK q : q = hd[h]
  OBVIOUS
<1>3. q.pc = "web" /\ Changing(h) /\ q.op = "settings" /\ DOMAIN q.want \subseteq Service
  BY <1>1, <1>2, WebIs DEF At
<1>4. CASE "web" \in DOMAIN q.want
  <2>1. PICK r : r = [q EXCEPT !.pc = "bind", !.port = webCur]
    OBVIOUS
  <2>2. r.pc = "bind" /\ r.op = q.op /\ r.want = q.want /\ r.port = webCur /\ Go(h, r)
    BY <1>2, <1>4, <2>1, RequestIs DEF Request, WebRead
  <2>3. Pending(r) = Pending(q)
    BY <1>3, <2>2 DEF Pending
  <2>4. ASSUME HoldsAt(q)
        PROVE  HoldsAt(r)
    <3>1. FileAt(r)
      BY <1>3, <2>2, <2>4 DEF HoldsAt, FileAt
    <3>2. WebAt(r)
      BY <1>3, <2>2, <2>4 DEF HoldsAt, WebAt
    <3> QED
      BY <1>3, <2>2, <2>3, <2>4, <3>1, <3>2, ServersAnywhere, TellAnywhere DEF HoldsAt
  <2>5. HoldsAt(q) => HoldsAt(r)'
    BY <1>1, <2>4, InertHolds
  <2>6. Changes(r)
    BY <1>3, <2>2 DEF Changes
  <2> QED
    BY <1>2, <1>3, <2>2, <2>5, <2>6, GoingOn
<1>5. CASE "web" \notin DOMAIN q.want
  <2>1. Pending(q) = {}
    BY <1>3, <1>5 DEF Pending
  <2>2. HoldsAt(q) => HoldsAt(Idle)'
    BY <1>1, <1>3, <2>1, RestingHolds, InertHolds
  <2>3. Done(h)
    BY <1>2, <1>5 DEF WebRead
  <2> QED
    BY <1>2, <1>3, <2>2, <2>3, Ending
<1> QED
  BY <1>4, <1>5
(* The new web port is bound, or the answer says no.                        *)
LEMMA WebBindSteady ==
  ASSUME Types, Steadily, ~ mixed, ~ Overlap', NEW h \in Handler, WebBind(h)
  PROVE  Steadily'
<1> USE DEF Types
<1>1. At(h, "bind") /\ UNCHANGED << served, ln, closed, addr, swap, loop, config >>
  BY DEF WebBind
<1>2. PICK q : q = hd[h]
  OBVIOUS
<1>3. /\ q.pc = "bind" /\ Changing(h) /\ q.op = "settings" /\ DOMAIN q.want \subseteq Service
      /\ "web" \in DOMAIN q.want /\ q.want["web"] \in Port
  BY <1>1, <1>2, WebIs DEF At
<1>4. PICK w : w = q.want["web"]
  OBVIOUS
<1>5. \A s : s \in Pending(q) <=> s = "web"
  BY <1>3 DEF Pending, Moving
<1>6. ASSUME HoldsAt(q)
      PROVE  /\ FileAt(q) /\ WebAt(q) /\ PortsAt(q) /\ (cur # Nil => Now.port["web"] = w)
             /\ \A s \in Service : s = "web" \/ cur = Nil \/ s \in past.off \/ Now.port[s] = addr[s]
  <2>1. cur # Nil => \A s \in Service : TellsAt(s, q)
    BY <1>6 DEF HoldsAt, TellAt
  <2> QED
    BY <1>4, <1>5, <1>6, <2>1, Ports DEF HoldsAt, TellsAt, Where
<1>7. CASE /\ BindWeb(q.port, w) /\ To(h, "publish")
           /\ past' = [past EXCEPT !.off = @ \ {"web"}]
  <2>1. PICK r : r = [q EXCEPT !.pc = "publish"]
    OBVIOUS
  <2>2. r.pc = "publish" /\ r.op = q.op /\ r.want = q.want /\ r.port = q.port /\ Go(h, r)
    BY <1>2, <1>7, <2>1, RequestIs DEF Request, To
  <2>3. /\ past'.half = past.half /\ past'.down = past.down /\ past'.moves = past.moves
        /\ past'.off = past.off \ {"web"}
    BY <1>7 DEF PastTypes, History
  <2>4. ASSUME HoldsAt(q)
        PROVE  HoldsAt(r)'
    <3>1. FileAt(q) /\ WebAt(q) /\ PortsAt(q) /\ q.port = webCur
      BY <1>3, <1>6, <2>4 DEF WebAt
    <3>2. FileAt(r)'
      <4>1. FileAt(r)
        BY <1>3, <2>2, <3>1 DEF FileAt
      <4> QED
        BY <1>1, <2>3, <4>1, FileStays DEF config
    <3>3. \/ w = webCur /\ UNCHANGED << bound, webCur, prevWeb >>
          \/ /\ w # webCur /\ bound[w] = "free" /\ bound' = [bound EXCEPT ![w] = "web"]
             /\ webCur' = w /\ prevWeb' = webCur
      BY <1>7, <3>1 DEF BindWeb
    <3>4. loop.pc # "track"
      BY <1>1 DEF Steadily, Overlap, At
    <3>5. WebAt(r)'
      <4>1. prevWeb = NoPort /\ ~ Dead /\ bound[webCur] = "web" /\ webCur \in Port /\ NoPort \notin Port
            /\ (loop.open => loop.on = webCur)
        BY <1>3, <3>1, Ports DEF WebAt, PortTypes
      <4>2. CASE w = webCur /\ UNCHANGED << bound, webCur, prevWeb >>
        BY <1>1, <1>3, <1>4, <2>2, <3>1, <3>4, <4>1, <4>2 DEF WebAt, Dead
      <4>3. CASE /\ w # webCur /\ bound' = [bound EXCEPT ![w] = "web"]
                 /\ webCur' = w /\ prevWeb' = webCur
        BY <1>1, <1>3, <1>4, <2>2, <3>1, <3>4, <4>1, <4>3 DEF WebAt, Dead, PortTypes
      <4> QED
        BY <3>3, <4>2, <4>3
    <3>6. PortsAt(r)'
      <4>1. PortsAt(r)
        BY <1>3, <2>2, <3>1, ServersAnywhere
      <4>2. Apartly(r)
        BY <1>3, <1>4, <2>2, <3>3, Ports DEF Apartly, PortTypes
      <4> QED
        BY <1>1, <2>3, <4>1, <4>2, ServersQuiet
    <3>7. ASSUME NEW s \in Service, cur # Nil
          PROVE  TellsAt(s, r)'
      <4>1. Pending(r) = {}
        BY <1>3, <2>2 DEF Pending, Moving
      <4>2. Now' = Now /\ webCur' = w
        BY <1>1, <3>3 DEF Now, config
      <4>3. s \in past'.off \/ Now'.port[s] = Where(s)'
        BY <1>1, <1>6, <2>3, <2>4, <3>7, <4>2 DEF Where
      <4> QED
        BY <4>1, <4>3 DEF TellsAt, Pending
    <3>8. TellAt(r)'
      BY <1>1, <3>7 DEF TellAt, config
    <3> QED
      BY <3>2, <3>5, <3>6, <3>8 DEF HoldsAt
  <2>5. Changes(r)
    BY <1>3, <2>2 DEF Changes
  <2> QED
    BY <1>2, <1>3, <2>2, <2>4, <2>5, GoingOn
<1>8. CASE /\ Done(h) /\ past' = [past EXCEPT !.off = @ \cup {"web"}]
           /\ UNCHANGED << bound, webCur, prevWeb >>
  <2>1. /\ past'.half = past.half /\ past'.down = past.down /\ past'.moves = past.moves
        /\ past'.off = past.off \cup {"web"}
    BY <1>8 DEF PastTypes, History
  <2>2. ASSUME HoldsAt(q)
        PROVE  HoldsAt(Idle)'
    <3>1. Idle.pc = "idle" /\ Pending(Idle) = {}
      BY DEF Idle, Pending
    <3>2. FileAt(Idle)'
      <4>1. FileAt(Idle)
        BY <1>3, <1>6, <2>2, <3>1 DEF FileAt
      <4> QED
        BY <1>1, <2>1, <4>1, FileStays DEF config
    <3>3. WebAt(Idle)' /\ PortsAt(Idle)'
      <4>1. WebAt(Idle) /\ PortsAt(Idle)
        BY <1>3, <1>6, <2>2, <3>1, WebAnywhere, ServersAnywhere
      <4> QED
        BY <1>1, <1>8, <2>1, <4>1, WebStays, ServersStay
    <3>4. ASSUME NEW s \in Service, cur # Nil
          PROVE  TellsAt(s, Idle)'
      <4>1. Now' = Now
        BY <1>1 DEF Now, config
      <4>2. s \in past'.off \/ Now'.port[s] = Where(s)'
        BY <1>1, <1>6, <2>1, <2>2, <3>4, <4>1 DEF Where
      <4> QED
        BY <3>1, <4>2 DEF TellsAt, Pending
    <3>5. TellAt(Idle)'
      BY <1>1, <3>4 DEF TellAt, config
    <3> QED
      BY <3>2, <3>3, <3>5 DEF HoldsAt
  <2> QED
    BY <1>2, <1>3, <1>8, <2>2, Ending
<1> QED
  BY <1>2, <1>4, <1>7, <1>8 DEF WebBind

(* It is published, then the old one is closed.                             *)
LEMMA WebSwapSteady ==
  ASSUME Types, Steadily, ~ mixed, ~ Overlap', NEW h \in Handler, WebSwap(h)
  PROVE  Steadily'
<1> USE DEF Types
<1>1. UNCHANGED << served, ln, closed, addr, webCur, config, past >>
  BY DEF WebSwap
<1>2. PICK q : q = hd[h]
  OBVIOUS
<1>3. q.pc \in {"publish", "closeold"} /\ Changing(h) /\ q.op = "settings"
  BY <1>2, WebIs DEF WebSwap, At
<1>4. Pending(q) = {}
  BY <1>3 DEF Pending, Moving
<1>5. CASE q.pc = "publish"
  <2>1. First(q.want["web"]) /\ To(h, "closeold")
    BY <1>2, <1>5 DEF WebSwap, At
  <2>2. PICK r : r = [q EXCEPT !.pc = "closeold"]
    OBVIOUS
  <2>3. r.pc = "closeold" /\ r.op = q.op /\ r.want = q.want /\ Go(h, r)
    BY <1>2, <2>1, <2>2, RequestIs DEF Request, To
  <2>4. Pending(r) = {}
    BY <1>3, <2>3 DEF Pending, Moving
  <2>5. swap' = q.want["web"] /\ UNCHANGED << bound, prevWeb, loop >>
    BY <2>1 DEF First, PublishWeb
  <2>6. ASSUME HoldsAt(q)
        PROVE  HoldsAt(r)'
    <3>1. FileAt(r)'
      <4>1. FileAt(r)
        BY <1>5, <2>3, <2>6 DEF HoldsAt, FileAt
      <4> QED
        BY <1>1, <4>1, FileStays DEF config
    <3>2. WebAt(r)'
      <4>1. webCur # NoPort
        BY Ports DEF PortTypes
      <4> QED
        BY <1>1, <1>5, <2>3, <2>5, <2>6, <4>1 DEF HoldsAt, WebAt, Dead
    <3>3. PortsAt(r)'
      <4>1. PortsAt(r)
        BY <1>5, <2>3, <2>6, ServersAnywhere DEF HoldsAt
      <4> QED
        BY <1>1, <2>5, <4>1, ServersStay
    <3>4. TellAt(r)'
      <4>1. TellAt(r)
        BY <1>4, <2>4, <2>6, TellAnywhere DEF HoldsAt
      <4> QED
        BY <1>1, <4>1, TellStays DEF config
    <3> QED
      BY <3>1, <3>2, <3>3, <3>4 DEF HoldsAt
  <2>7. Changes(r)
    BY <1>3, <2>3 DEF Changes
  <2> QED
    BY <1>2, <1>3, <2>3, <2>6, <2>7, GoingOn
<1>6. CASE q.pc = "closeold"
  <2>1. Done(h) /\ bound' = Free(bound, prevWeb, "web") /\ prevWeb' = NoPort
        /\ loop' = [loop EXCEPT !.open = @ /\ loop.on # prevWeb] /\ swap' = swap
    BY <1>2, <1>6 DEF WebSwap, At, Second, ClosePrevWeb
  <2>2. Idle.pc = "idle" /\ Pending(Idle) = {}
    BY DEF Idle, Pending
  <2>3. ASSUME HoldsAt(q)
        PROVE  HoldsAt(Idle)'
    <3>1. FileAt(Idle)'
      <4>1. FileAt(Idle)
        BY <1>6, <2>2, <2>3 DEF HoldsAt, FileAt
      <4> QED
        BY <1>1, <4>1, FileStays DEF config
    <3>2. \A x \in Port : bound'[x] = bound[x] \/ (x = prevWeb /\ bound[x] = "web" /\ bound'[x] = "free")
      BY <2>1 DEF Free, PortTypes
    <3>3. WebAt(Idle)'
      <4>1. loop'.pc = loop.pc /\ loop'.on = loop.on /\ (loop'.open <=> loop.open /\ loop.on # prevWeb)
        BY <2>1 DEF PortTypes
      <4>2. /\ ~ Dead /\ bound[webCur] = "web" /\ prevWeb # webCur /\ swap = webCur /\ webCur \in Port
            /\ webCur # NoPort
            /\ loop.pc = "track" => loop.on = webCur /\ loop.open
            /\ loop.open => loop.on = IF prevWeb = NoPort THEN webCur ELSE prevWeb
        BY <1>6, <2>3, Ports DEF HoldsAt, WebAt, PortTypes
      <4>3. bound'[webCur] = "web"
        BY <3>2, <4>2
      <4> QED
        BY <1>1, <2>1, <2>2, <4>1, <4>2, <4>3 DEF WebAt, Dead
    <3>4. PortsAt(Idle)'
      <4>1. PortsAt(Idle)
        BY <1>6, <2>2, <2>3, ServersAnywhere DEF HoldsAt
      <4>2. Apartly(Idle)
        BY <2>2, <3>2, Ports, PortAssumption DEF Apartly
      <4> QED
        BY <1>1, <4>1, <4>2, ServersQuiet
    <3>5. TellAt(Idle)'
      <4>1. TellAt(Idle)
        BY <1>4, <2>2, <2>3, TellAnywhere DEF HoldsAt
      <4> QED
        BY <1>1, <4>1, TellStays DEF config
    <3> QED
      BY <3>1, <3>3, <3>4, <3>5 DEF HoldsAt
  <2> QED
    BY <1>2, <1>3, <2>1, <2>3, Ending
<1> QED
  BY <1>3, <1>5, <1>6

-----------------------------------------------------------------------------

(* The listeners go on while a request is anywhere.                         *)
Quietly(r) ==
  WebAt(r) /\ PortsAt(r) /\ TellAt(r) /\ (r.pc \in {"bind", "publish", "closeold"} => loop'.pc # "track")
    => WebAt(r)' /\ PortsAt(r)' /\ TellAt(r)'
(* What holds for every request holds when none moves.                      *)
LEMMA QuietSteady ==
  ASSUME Steadily, ~ mixed, ~ Overlap', UNCHANGED << config, hd, past >>, \A r : Quietly(r)
  PROVE  Steadily'
<1>1. ASSUME NEW r, Sole(r)'
      PROVE  HoldsAt(r)'
  <2>1. Sole(r)
    BY <1>1 DEF Sole, Changing, At
  <2>2. r = Idle \/ \E h \in Handler : r = hd[h]
    BY <2>1 DEF Sole
  <2>3. HoldsAt(r)
    BY <2>1, <2>2 DEF Steadily
  <2>4. r.pc \in {"bind", "publish", "closeold"} => loop'.pc # "track"
    BY <2>2 DEF Overlap, Idle
  <2>5. FileAt(r)'
    BY <2>3, FileStays DEF HoldsAt, config
  <2>6. Quietly(r)
    OBVIOUS
  <2> QED
    BY <2>3, <2>4, <2>5, <2>6 DEF HoldsAt, Quietly
<1> QED
  BY <1>1 DEF Steadily
(* Another process takes a free port.                                       *)
LEMMA TakenSteady ==
  ASSUME Types, Steadily, ~ mixed, ~ Overlap', Taken
  PROVE  Steadily'
<1> USE DEF Types
<1>1. PICK q \in Port : Grab(q)
  BY DEF Taken
<1>2. UNCHANGED << served, ln, closed, addr, webCur, prevWeb, swap, loop, config, hd, past >>
  BY <1>1 DEF Taken, Grab
<1>3. bound[q] = "free" /\ bound' = [bound EXCEPT ![q] = "other"]
  BY <1>1 DEF Grab
<1>4. "web" # "free" /\ \A p \in Proto : p # "free" /\ p # "other"
  BY Ports
<1>5. ASSUME NEW r
      PROVE  Quietly(r)
  <2>1. WebAt(r) => WebAt(r)'
    <3>1. WebAt(r) => bound'[webCur] = bound[webCur]
      BY <1>3, <1>4 DEF WebAt, PortTypes
    <3> QED
      BY <1>2, <3>1, WebStays
  <2>2. PortsAt(r) => PortsAt(r)'
    <3>1. Apartly(r)
      BY <1>3, <1>4 DEF Apartly, PortTypes
    <3> QED
      BY <1>2, <3>1, ServersQuiet
  <2>3. TellAt(r) => TellAt(r)'
    BY <1>2, TellStays DEF config
  <2> QED
    BY <2>1, <2>2, <2>3 DEF Quietly
<1> QED
  BY <1>2, <1>5, QuietSteady
(* A connection that pop3d turns away was none to its present listener.     *)
LEMMA StrayAcceptSteady ==
  ASSUME Types, Steadily, ~ mixed, ~ Overlap', StrayAccept, UNCHANGED << config, hd, past >>
  PROVE  Steadily'
<1> USE DEF Types
<1>1. PICK q \in served : bound[q] = "pop3" /\ q # ln["pop3"] /\ served' = served \ {q}
  BY DEF StrayAccept
<1>2. UNCHANGED << bound, ln, closed, addr, webCur, prevWeb, swap, loop >>
  BY DEF StrayAccept
<1>3. ASSUME NEW r
      PROVE  Quietly(r)
  <2>1. ASSUME PortsAt(r)
        PROVE  PortsAt(r)'
    <3>1. ToDo(r)'
      BY <1>2, <2>1 DEF PortsAt, ToDo
    <3>2. ASSUME NEW p \in Proto
          PROVE  ServerAt(p, r)'
      <4>1. Held(p)' = Held(p)
        BY <1>2 DEF Held
      <4>2. Up(p) => Up(p)'
        <5>1. Up(p) => addr[p] # q
          <6>1. CASE p = "pop3"
            BY <1>1, <6>1 DEF Up
          <6>2. CASE p # "pop3"
            BY <1>1, <6>2 DEF Up
          <6> QED
            BY <6>1, <6>2
        <5> QED
          BY <1>1, <1>2, <4>1, <5>1 DEF Up
      <4>3. Down(p) => Down(p)'
        BY <1>2, <4>1 DEF Down
      <4>4. Between(p) => Between(p)'
        BY <1>2, <4>1, <4>2 DEF Between
      <4> QED
        BY <1>2, <2>1, <4>2, <4>3, <4>4 DEF PortsAt, ServerAt
    <3> QED
      BY <3>1, <3>2 DEF PortsAt
  <2>2. WebAt(r) => WebAt(r)'
    BY <1>2, WebStays
  <2>3. TellAt(r) => TellAt(r)'
    BY <1>2, TellStays DEF config
  <2> QED
    BY <2>1, <2>2, <2>3 DEF Quietly
<1> QED
  BY <1>3, QuietSteady
(* The loop finds the published listener, which is the one the manager      *)
(* tracks, and open.                                                        *)
LEMMA LoopSteady ==
  ASSUME Types, Steadily, ~ mixed, ~ Overlap', Wake \/ Track, UNCHANGED << config, hd, past >>
  PROVE  Steadily'
<1> USE DEF Types
<1>1. UNCHANGED << bound, served, ln, closed, addr, prevWeb >>
  BY DEF Wake, Track
<1>2. webCur \in Port /\ NoPort \notin Port
  BY Ports DEF PortTypes
<1>3. ASSUME NEW r, WebAt(r), PortsAt(r), TellAt(r),
             r.pc \in {"bind", "publish", "closeold"} => loop'.pc # "track"
      PROVE  WebAt(r)' /\ PortsAt(r)' /\ TellAt(r)'
  <2>1. CASE Wake
    <3>1. loop.pc = "serve" /\ ~ loop.open /\ swap' = NoPort /\ webCur' = webCur
      BY <2>1 DEF Wake
    <3>2. r.pc \notin {"bind", "publish", "closeold"} /\ swap = webCur
      <4>1. CASE r.pc \notin {"publish", "closeold"}
        <5>1. swap = webCur
          BY <1>3, <3>1, <4>1 DEF WebAt
        <5>2. loop'.pc = "track"
          BY <1>2, <2>1, <5>1 DEF Wake
        <5> QED
          BY <1>3, <4>1, <5>1, <5>2
      <4>2. CASE r.pc \in {"publish", "closeold"}
        <5>1. swap = NoPort
          BY <1>3, <2>1, <4>2 DEF Wake
        <5> QED
          BY <1>3, <3>1, <5>1 DEF WebAt
      <4> QED
        BY <4>1, <4>2
    <3>3. loop' = [pc |-> "track", on |-> webCur, open |-> TRUE]
      BY <1>2, <1>3, <2>1, <3>2 DEF Wake, WebAt
    <3>4. WebAt(r)'
      BY <1>1, <1>3, <3>1, <3>2, <3>3 DEF WebAt, Dead
    <3> QED
      BY <1>1, <1>3, <3>1, <3>4, ServersStay, TellStays DEF config
  <2>2. CASE Track
    <3>1. loop.on = webCur /\ loop.open
      BY <1>3, <2>2 DEF WebAt, Track
    <3>2. webCur' = webCur /\ swap' = swap
      BY <2>2, <3>1 DEF Track
    <3>3. loop'.pc = "serve" /\ loop'.on = loop.on /\ loop'.open = loop.open
      BY <2>2 DEF Track, PortTypes
    <3>4. WebAt(r)'
      BY <1>1, <1>3, <3>1, <3>2, <3>3 DEF WebAt, Dead
    <3> QED
      BY <1>1, <1>3, <3>2, <3>4, ServersStay, TellStays DEF config
  <2> QED
    BY <2>1, <2>2
<1>4. \A r : Quietly(r)
  BY <1>3 DEF Quietly
<1> QED
  BY <1>4, QuietSteady

-----------------------------------------------------------------------------
(* A process that starts: every server that came up has its port alone.     *)
LEMMA AfterStartPorts ==
  ASSUME NEW want \in [Service -> Port], NEW taken \in SUBSET Port, CanStart(want, taken),
         NEW l, l = AfterStart(want, taken)
  PROVE  /\ l.bound[want["web"]] = "web"
         /\ \A p \in Proto : l.addr[p] = want[p]
         /\ \A p \in Starts(want, taken) :
              /\ l.bound[want[p]] = p /\ want[p] \in l.served /\ l.ln[p] = want[p]
              /\ \A q \in Port : l.bound[q] = p => q = want[p]
         /\ \A p \in Proto \ Starts(want, taken) :
              l.ln[p] = NoPort /\ \A q \in Port : l.bound[q] # p
<1> DEFINE up == Starts(want, taken)
           who(q) == {p \in up \cup {"web"} : want[p] = q}
           b == [q \in Port |-> IF q \in taken THEN "other"
                                ELSE IF who(q) # {} THEN CHOOSE p \in who(q) : TRUE ELSE "free"]
<1>1. /\ l.bound = b /\ l.served = {want[p] : p \in up}
      /\ l.ln = [p \in Proto |-> IF p \in up THEN want[p] ELSE NoPort]
      /\ l.addr = [p \in Proto |-> want[p]]
  BY DEF AfterStart
<1>2. /\ up \subseteq Proto /\ \A p \in up \cup {"web"} : want[p] \notin taken
      /\ \A p \in Proto : want[p] # want["web"]
  BY DEF Starts, CanStart
<1>3. ASSUME NEW p \in up \cup {"web"}, NEW q \in up \cup {"web"}, want[p] = want[q]
      PROVE  p = q
  <2>1. ASSUME p \in up, q \in up, p # q
        PROVE  FALSE
    <3>1. p \in Before(q) \/ q \in Before(p)
      BY <1>2, <2>1, BeforeOrAfter
    <3> QED
      BY <1>3, <2>1, <3>1 DEF Starts
  <2> QED
    BY <1>2, <1>3, <2>1
<1>4. /\ \A p \in up \cup {"web"} : want[p] \in Port /\ p # "other" /\ p # "free"
      /\ \A p \in Proto : p # "web" /\ p # "other" /\ p # "free"
  BY <1>2, Ports
<1> HIDE DEF up
<1>5. ASSUME NEW q \in Port
      PROVE  \/ b[q] = "other" /\ q \in taken
             \/ b[q] = "free" /\ q \notin taken /\ who(q) = {}
             \/ b[q] \in who(q) /\ q \notin taken
  BY Zenon
<1>6. ASSUME NEW p \in up \cup {"web"}
      PROVE  b[want[p]] = p
  <2>1. want[p] \in Port /\ want[p] \notin taken /\ p \in who(want[p])
    BY <1>2, <1>4
  <2>2. b[want[p]] \in who(want[p])
    BY <1>5, <2>1
  <2> QED
    BY <1>3, <2>2
<1>7. ASSUME NEW q \in Port, b[q] \in Proto
      PROVE  b[q] \in up /\ q = want[b[q]]
  <2>1. b[q] \in who(q)
    BY <1>4, <1>5, <1>7
  <2> QED
    BY <1>4, <1>7, <2>1
<1> HIDE DEF b, who
<1>8. ASSUME NEW p \in up
      PROVE  /\ l.bound[want[p]] = p /\ want[p] \in l.served /\ l.ln[p] = want[p]
             /\ \A q \in Port : l.bound[q] = p => q = want[p]
  BY <1>1, <1>2, <1>6, <1>7
<1>9. ASSUME NEW p \in Proto, p \notin up
      PROVE  l.ln[p] = NoPort /\ \A q \in Port : l.bound[q] # p
  BY <1>1, <1>7, <1>9
<1>10. l.bound[want["web"]] = "web" /\ \A p \in Proto : l.addr[p] = want[p]
  BY <1>1, <1>6
<1> QED
  BY <1>8, <1>9, <1>10 DEF up

(* A process that has just started, with the configuration it found.        *)
Fresh ==
  \E want \in [Service -> Port], taken \in SUBSET Port :
    LET l == AfterStart(want, taken)
    IN /\ CanStart(want, taken)
       /\ bound = l.bound /\ served = l.served /\ ln = l.ln /\ addr = l.addr
       /\ loop = l.loop /\ webCur = l.loop.on
       /\ closed = [p \in Proto |-> FALSE] /\ prevWeb = NoPort /\ swap = NoPort
       /\ hd = [h \in Handler |-> Idle]
       /\ past.down = Proto \ Starts(want, taken) /\ past.half = FALSE
       /\ past.moves = [p \in Proto |-> 0]
       /\ cur # Nil => Now.port = want
       /\ file.is = Now \/ (Now = Absent /\ Broken(file.is))
(* After a start everything is where the configuration says.                *)
LEMMA FreshHolds == PortTypes /\ Fresh => HoldsAt(Idle)
<1> SUFFICES ASSUME PortTypes, Fresh
             PROVE  HoldsAt(Idle)
  OBVIOUS
<1>1. PICK want \in [Service -> Port], taken \in SUBSET Port :
         LET l == AfterStart(want, taken)
         IN /\ CanStart(want, taken)
            /\ bound = l.bound /\ served = l.served /\ ln = l.ln /\ addr = l.addr
            /\ loop = l.loop /\ webCur = l.loop.on
            /\ closed = [p \in Proto |-> FALSE] /\ prevWeb = NoPort /\ swap = NoPort
            /\ past.down = Proto \ Starts(want, taken) /\ past.half = FALSE
            /\ past.moves = [p \in Proto |-> 0]
            /\ cur # Nil => Now.port = want
            /\ file.is = Now \/ (Now = Absent /\ Broken(file.is))
  BY Zenon DEF Fresh
<1>2. PICK l : l = AfterStart(want, taken)
  OBVIOUS
<1>3. /\ CanStart(want, taken)
      /\ bound = l.bound /\ served = l.served /\ ln = l.ln /\ addr = l.addr
      /\ loop = l.loop /\ webCur = l.loop.on
  BY <1>1, <1>2
<1>4. l.loop = [pc |-> "serve", on |-> want["web"], open |-> TRUE]
  BY <1>2 DEF AfterStart
<1>5. Idle.pc = "idle" /\ Pending(Idle) = {}
  BY DEF Idle, Pending
<1>6. /\ bound[want["web"]] = "web"
      /\ \A p \in Proto : addr[p] = want[p]
      /\ \A p \in Starts(want, taken) :
           /\ bound[want[p]] = p /\ want[p] \in served /\ ln[p] = want[p]
           /\ \A q \in Port : bound[q] = p => q = want[p]
      /\ \A p \in Proto \ Starts(want, taken) :
           ln[p] = NoPort /\ \A q \in Port : bound[q] # p
  BY <1>2, <1>3, AfterStartPorts
<1>7. FileAt(Idle)
  BY <1>1, <1>5 DEF FileAt
<1>8. WebAt(Idle)
  BY <1>1, <1>3, <1>4, <1>5, <1>6 DEF WebAt, Dead
<1>9. ASSUME NEW p \in Proto
      PROVE  ServerAt(p, Idle)
  <2>1. ~ closed[p] /\ past.moves[p] = 0
    BY <1>1
  <2>2. CASE p \in Starts(want, taken)
    <3>1. want[p] \in Port
      BY Ports
    <3>2. Held(p) = {addr[p]}
      BY <1>6, <2>2, <3>1 DEF Held
    <3> QED
      BY <1>1, <1>5, <1>6, <2>1, <2>2, <3>2 DEF ServerAt, Up
  <2>3. CASE p \notin Starts(want, taken)
    <3>1. Held(p) = {}
      BY <1>6, <2>3 DEF Held
    <3> QED
      BY <1>1, <1>5, <1>6, <2>1, <2>3, <3>1 DEF ServerAt, Down
  <2> QED
    BY <2>2, <2>3
<1>10. PortsAt(Idle)
  BY <1>5, <1>9 DEF PortsAt, ToDo
<1>11. ASSUME NEW s \in Service, cur # Nil
       PROVE  TellsAt(s, Idle)
  <2>1. Now.port[s] = want[s] /\ webCur = want["web"]
    BY <1>1, <1>3, <1>4, <1>11
  <2> QED
    BY <1>5, <1>6, <2>1 DEF TellsAt, Where, Service
<1> QED
  BY <1>7, <1>8, <1>10, <1>11 DEF HoldsAt, TellAt
(* A process that has just started satisfies the invariant.                 *)
LEMMA FreshSteady == PortTypes /\ Fresh => Steadily
<1> SUFFICES ASSUME PortTypes, Fresh
             PROVE  Steadily
  OBVIOUS
<1>1. /\ \A h \in Handler : hd[h] = Idle
      /\ loop.pc = "serve"
  BY DEF Fresh, AfterStart
<1>2. \A h \in Handler : ~ Changing(h)
  BY <1>1, IdleChanges, ChangingIs
<1>3. ~ Overlap
  BY <1>1, <1>2 DEF Overlap
<1>4. \A r : Sole(r) => r = Idle
  BY <1>2 DEF Sole
<1> QED
  BY <1>3, <1>4, FreshHolds DEF Steadily
(* The first start does.                                                    *)
LEMMA InitSteady == Init => Steadily
<1> SUFFICES ASSUME Init
             PROVE  Steadily
  OBVIOUS
<1>1. PortTypes
  BY InitTypes DEF Types
<1>2. PICK s \in Scenario :
         /\ cur = (IF s.installed THEN 1 ELSE 0)
         /\ obj = [i \in 1 .. cur |-> Installed]
         /\ file = [gen |-> 0, is |-> IF s.installed THEN Installed ELSE Absent]
         /\ LET l == AfterStart(DefaultPort, s.busy)
            IN /\ bound = l.bound /\ served = l.served /\ ln = l.ln /\ addr = l.addr
               /\ loop = l.loop /\ webCur = l.loop.on
         /\ past = Past(Proto \ Starts(DefaultPort, s.busy))
  BY DEF Init
<1>3. s.busy \in SUBSET Port /\ DefaultPort \in [Service -> Port] /\ CanStart(DefaultPort, s.busy)
  BY ConsoleAssumption DEF Plan
<1>4. /\ past.down = Proto \ Starts(DefaultPort, s.busy) /\ past.half = FALSE
      /\ past.moves = [p \in Proto |-> 0]
  BY <1>2 DEF Past
<1>5. Now = IF s.installed THEN Installed ELSE Absent
  BY <1>2 DEF Now, Nil
<1>6. file.is = Now /\ (cur # Nil => Now.port = DefaultPort)
  BY <1>2, <1>5 DEF Installed, Nil
<1>7. Fresh
  BY <1>2, <1>3, <1>4, <1>6 DEF Fresh, Init
<1> QED
  BY <1>1, <1>7, FreshSteady
(* And so does every later one.                                             *)
LEMMA RestartSteady ==
  ASSUME Types, Types', Restart
  PROVE  Steadily'
<1>1. (PortTypes /\ Fresh => Steadily)'
  BY FreshSteady, PTL
<1>2. PICK want, taken : want = PortOf(Loaded) /\ taken = {q \in Port : bound[q] = "other"}
  OBVIOUS
<1>3. PICK l : l = AfterStart(want, taken)
  OBVIOUS
<1>4. /\ CanStart(want, taken)
      /\ bound' = l.bound /\ served' = l.served /\ ln' = l.ln /\ addr' = l.addr
      /\ loop' = l.loop /\ webCur' = l.loop.on
      /\ past' = [Past(Proto \ Starts(want, taken)) EXCEPT !.strays = past.strays]
      /\ closed' = [p \in Proto |-> FALSE] /\ prevWeb' = NoPort /\ swap' = NoPort
      /\ hd' = [h \in Handler |-> Idle]
  BY <1>2, <1>3 DEF Restart
<1>5. /\ obj' = IF Loaded = Absent THEN << >> ELSE << Loaded >>
      /\ cur' = IF Loaded = Absent THEN Nil ELSE 1
      /\ file' = file
  BY DEF Restart
<1>6. Loaded = Absent \/ (Loaded = file.is /\ Loaded \in Config(installs))
  BY DEF Loaded, Broken, ConfigTypes, Types
<1>7. want \in [Service -> Port]
  <2>1. CASE Loaded = Absent
    BY <1>2, <2>1, Ports DEF PortOf
  <2>2. CASE Loaded \in Config(installs)
    BY <1>2, <2>2, Ports DEF PortOf, Config
  <2> QED
    BY <1>6, <2>1, <2>2
<1>8. Now' = Loaded
  BY <1>5 DEF Now, Nil
<1>9. cur' # Nil => Now'.port = want
  BY <1>2, <1>5, <1>8 DEF PortOf
<1>10. file'.is = Now' \/ (Now' = Absent /\ Broken(file'.is))
  BY <1>5, <1>8 DEF Loaded
<1>11. past'.down = Proto \ Starts(want, taken) /\ past'.half = FALSE /\ past'.moves = [p \in Proto |-> 0]
  BY <1>4 DEF Past
<1>12. Fresh'
  <2>1. taken \in SUBSET Port
    BY <1>2
  <2> QED
    BY <1>3, <1>4, <1>7, <1>9, <1>10, <1>11, <2>1 DEF Fresh
<1> QED
  BY <1>1, <1>12 DEF Types

-----------------------------------------------------------------------------
(* Every step, while changes do not overlap; and no step at all.            *)
LEMMA GoOnSteady ==
  ASSUME Types, Steadily, ~ mixed, ~ Overlap', NEW h \in Handler, GoOn(h)
  PROVE  Steadily'
<1>1. CASE SetupConfig(h) \/ Truncate(h) \/ Write(h) \/ SaveFails(h)
  BY <1>1, SetupConfigSteady, TruncateSteady, WriteSteady, SaveFailsSteady
<1>2. CASE LoginSession(h) \/ MailSession(h) \/ DeliverRow(h) \/ EnqueueRow(h)
  BY <1>2, SessionsSteady
<1>3. CASE SettingsChange(h) \/ SettingsRefused(h) \/ SettingsSet(h)
  BY <1>3, SettingsChangeSteady, SettingsRefusedSteady, SettingsSetSteady
<1>4. CASE ApplyBegin(h) \/ ApplyProbe(h) \/ ApplyClose(h) \/ ApplyListen(h) \/ ApplyEnd(h)
  BY <1>4, ApplyBeginSteady, ApplyProbeSteady, ApplyCloseSteady, ApplyListenSteady, ApplyEndSteady
<1>5. CASE WebRead(h) \/ WebBind(h) \/ WebSwap(h)
  BY <1>5, WebReadSteady, WebBindSteady, WebSwapSteady
<1>6. CASE ResetTable(h) \/ ResetFiles(h) \/ ResetDone(h)
  BY <1>6, SweepSteady
<1>7. CASE ResetForget(h) \/ ResetRemove(h)
  BY <1>7, ResetForgetSteady, ResetRemoveSteady
<1> QED
  BY <1>1, <1>2, <1>3, <1>4, <1>5, <1>6, <1>7 DEF GoOn
(* A step of nobody keeps it.                                               *)
LEMMA StutterSteady ==
  ASSUME Steadily, UNCHANGED vars
  PROVE  Steadily'
<1>1. CASE mixed
  BY <1>1 DEF Steadily, vars
<1>2. CASE ~ mixed
  <2>1. UNCHANGED << pvars, config, hd, past >>
    BY DEF vars
  <2>2. ~ Overlap /\ ~ Overlap'
    BY <1>2, <2>1 DEF Steadily, Overlap, Changing, At, config, pvars
  <2>3. ASSUME NEW r, Sole(r)'
        PROVE  HoldsAt(r)'
    <3>1. Sole(r)
      BY <2>1, <2>3 DEF Sole, Changing, At
    <3>2. HoldsAt(r)
      BY <1>2, <3>1 DEF Steadily, Sole
    <3> QED
      BY <2>1, <3>2, InertHolds
  <2> QED
    BY <2>2, <2>3 DEF Steadily
<1> QED
  BY <1>1, <1>2
(* Every step keeps it, until two changes overlap.                          *)
LEMMA StepSteady ==
  ASSUME Types, Types', Steadily, [Next]_vars
  PROVE  Steadily'
<1>1. CASE UNCHANGED vars
  BY <1>1, StutterSteady
<1>2. CASE Restart
  BY <1>2, RestartSteady
<1>3. CASE mixed \/ Overlap'
  <2>1. Restart \/ UNCHANGED vars \/ mixed' = TRUE
    BY <1>3 DEF Next, Types, PastTypes
  <2> QED
    BY <1>1, <1>2, <2>1 DEF Steadily
<1>4. CASE /\ ~ mixed /\ ~ Overlap'
           /\ Taken \/ Listeners \/ \E h \in Handler : Begin(h) \/ GoOn(h)
  <2>1. CASE Taken
    BY <1>4, <2>1, TakenSteady
  <2>2. CASE Listeners
    <3>1. UNCHANGED << config, hd, past >> /\ (StrayAccept \/ Wake \/ Track)
      BY <2>2 DEF Listeners
    <3> QED
      BY <1>4, <3>1, StrayAcceptSteady, LoopSteady
  <2>3. ASSUME NEW h \in Handler, Begin(h) \/ GoOn(h)
        PROVE  Steadily'
    BY <1>4, <2>3, BeginSteady, GoOnSteady
  <2> QED
    BY <1>4, <2>1, <2>2, <2>3
<1> QED
  BY <1>1, <1>2, <1>3, <1>4 DEF Next

(* As long as no two changes overlap, configuration and listeners fit       *)
(* together after every step of set-up, settings and reset, and so does the *)
(* file, until a request is refused after it changed the object, a save     *)
(* fails or the file cannot be removed, and again from the next save that   *)
(* goes well; and changes that overlapped are forgotten when the process    *)
(* starts again.                                                            *)
THEOREM ChangesAreSteady == Spec => []Steadily
<1>1. Init => Steadily
  BY InitSteady
<1>2. IInv /\ IInv' /\ Steadily /\ [Next]_vars => Steadily'
  BY StepSteady DEF IInv
<1> QED
  BY <1>1, <1>2, Invariant, PTL DEF Spec

(* Nobody changes anything: what holds is what holds of an idle request.    *)
LEMMA AtRest ==
  ASSUME Steadily, Settled
  PROVE  HoldsAt(Idle) /\ Idle.pc = "idle" /\ Pending(Idle) = {}
<1>1. Sole(Idle)
  BY DEF Sole, Settled
<1>2. HoldsAt(Idle)
  BY <1>1 DEF Steadily, Settled
<1> QED
  BY <1>2 DEF Idle, Pending
(* Somebody, or nobody: the one state the instance is in.                   *)
LEMMA SomeSole ==
  ASSUME Steadily, ~ mixed
  PROVE  \E r : HoldsAt(r) /\ (Settled => r = Idle)
<1>1. CASE \A h \in Handler : ~ Changing(h)
  <2>1. Sole(Idle)
    BY <1>1 DEF Sole
  <2> QED
    BY <2>1 DEF Steadily
<1>2. CASE \E h \in Handler : Changing(h)
  <2>1. PICK h \in Handler : Changing(h)
    BY <1>2
  <2>2. Sole(hd[h])
    BY <2>1 DEF Sole
  <2> QED
    BY <2>1, <2>2 DEF Steadily, Settled
<1> QED
  BY <1>1, <1>2

(* Between requests the file holds what the process runs with, or nothing   *)
(* that Load would take when the process has no configuration, whatever     *)
(* died or was reset before (Save, FactoryReset, Load); as long as the      *)
(* changes did not overlap, and since the last start, or the last save that *)
(* went well, no request was refused after it changed the object and no     *)
(* save or removal of the file failed.                                      *)
THEOREM FileIsCurrent == Spec => []FileCurrent
<1>1. Steadily => FileCurrent
  BY AtRest DEF FileCurrent, HoldsAt, FileAt
<1> QED
  BY <1>1, ChangesAreSteady, PTL
(* Between requests the configuration names the ports the services use,     *)
(* except where the answer told otherwise (adminUpdateSettings, ports.go).  *)
THEOREM PortsAreTold == Spec => []ConfigTellsPorts
<1>1. Steadily => ConfigTellsPorts
  <2> SUFFICES ASSUME Steadily, Settled, cur # Nil
               PROVE  /\ \A p \in Proto \ past.off : Now.port[p] = addr[p]
                      /\ Steady /\ "web" \notin past.off => Now.port["web"] = webCur
    BY DEF ConfigTellsPorts
  <2>1. \A s \in Service : s \in past.off \/ Now.port[s] = Where(s)
    BY AtRest DEF HoldsAt, TellAt, TellsAt
  <2> QED
    BY <2>1, Ports DEF Where
<1> QED
  BY <1>1, ChangesAreSteady, PTL
(* Between requests every protocol that came up is served where the manager *)
(* says, and by nobody else, after any moves, failures and ports taken by   *)
(* others (rebind, Close and Listen of the servers).                        *)
THEOREM ServersAreFound == Spec => []ServedWhereTold
<1>1. Steadily => ServedWhereTold
  <2> SUFFICES ASSUME Steadily, Settled, NEW p \in Proto \ past.down
               PROVE  Reachable(p) /\ (p = "smtp" \/ past.moves[p] < 2 => Held(p) = {addr[p]})
    BY DEF ServedWhereTold
  <2>1. ServerAt(p, Idle) /\ Idle.pc # "listen"
    BY AtRest DEF HoldsAt, PortsAt
  <2> QED
    BY <2>1, Ports DEF ServerAt, Up, Reachable
<1> QED
  BY <1>1, ChangesAreSteady, PTL
(* A change of the web port never ends the serving loop, and the loop comes *)
(* to serve the listener the manager tracks (PublishWeb, ClosePrevWeb, the  *)
(* loop of main).                                                           *)
THEOREM WebKeepsServing == Spec => []WebFollows
<1>1. Steadily => WebFollows
  <2> SUFFICES ASSUME Steadily, ~ mixed
               PROVE  ~ Dead /\ (Steady => Reachable("web"))
    BY DEF WebFollows
  <2>1. PICK r : HoldsAt(r) /\ (Settled => r = Idle)
    BY SomeSole
  <2>2. ~ Dead
    BY <2>1 DEF HoldsAt, WebAt
  <2>3. ASSUME Steady
        PROVE  Reachable("web")
    <3>1. WebAt(Idle) /\ Idle.pc = "idle"
      BY <2>3, AtRest DEF Steady, HoldsAt
    <3> QED
      BY <2>3, <3>1 DEF Steady, WebAt, Reachable
  <2> QED
    BY <2>2, <2>3
<1> QED
  BY <1>1, ChangesAreSteady, PTL

=============================================================================

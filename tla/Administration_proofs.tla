------------------------ MODULE Administration_proofs -----------------------
(***************************************************************************)
(* What holds of an instance for any number of requests, ports, services,  *)
(* installations, accounts and restarts: the types; a session opens the    *)
(* installation it was made for; message rows keep their files through any *)
(* number of resets; a reset leaves only what came while it ran.           *)
(***************************************************************************)
EXTENDS Administration, FiniteSetTheorems, TLAPS

(* Where a request of each kind may be.                                     *)
Moving  == {"save", "write", "apply", "probe", "close", "listen"}
Web     == {"bind", "publish", "closeold"}
ResetPc == {"messages", "send_queue", "accounts", "blobs", "outbound", "forget", "remove", "mails"}
Label   == {"idle", "wizard", "read", "set", "refused", "web", "login", "row", "enqueue",
            "mailsession"} \cup Moving \cup Web \cup ResetPc
Op      == {"none", "setup", "settings", "login", "deliver", "enqueue", "maillogin", "reset"}
Places(r) ==
  \/ r.op = "none"      /\ r.pc = "idle"
  \/ r.op = "setup"     /\ r.pc \in {"wizard"} \cup Moving
  \/ r.op = "settings"  /\ r.pc \in {"read", "set", "refused", "web"} \cup Moving \cup Web
  \/ r.op = "login"     /\ r.pc = "login"
  \/ r.op = "deliver"   /\ r.pc = "row"
  \/ r.op = "enqueue"   /\ r.pc = "enqueue"
  \/ r.op = "maillogin" /\ r.pc = "mailsession"
  \/ r.op = "reset"     /\ r.pc \in ResetPc

(* A configuration of one of the first n installations, a request.          *)
Config(n)  == [inst : 1 .. n, port : [Service -> Port]]
Request(n) == [pc : Label, op : Op, ref : Nat, gen : Nat, snap : Config(n) \cup {Absent},
               then : {"idle", "apply", "web"}, want : Asked,
               old : UNION {[d -> Port] : d \in SUBSET Proto},
               todo : Seq(Proto), errs : SUBSET Proto, port : Port \cup {NoPort}]

(* What a request holds at each place, when there are objs objects and made *)
(* accounts were made.                                                      *)
Fits(r, objs, made) ==
  /\ Places(r)
  /\ r.op \in {"login", "settings"} => r.ref \in 1 .. objs
  /\ r.op \in {"deliver", "maillogin"} => r.ref \in 1 .. made
  /\ r.pc \in {"save", "write"} => r.then \in {"apply", "web"} /\ (r.op = "setup" => r.then = "apply")
  /\ r.op = "setup" => DOMAIN r.want = Service
  /\ r.pc = "write" => r.snap # Absent
  /\ r.pc \in {"probe", "close", "listen"} => DOMAIN r.old = Proto
  /\ r.pc \in {"close", "listen"} =>
       r.todo # << >> /\ Head(r.todo) \in DOMAIN r.want
         /\ r.want[Head(r.todo)] # r.old[Head(r.todo)]
  /\ r.pc \in Web => "web" \in DOMAIN r.want /\ r.port \in Port

Kind == {"accounts", "mail", "blobs", "queue", "outbound", "config", "sessions", "mails"}

PortTypes ==
  /\ bound \in [Port -> Service \cup {"free", "other"}]
  /\ served \subseteq Port /\ \A q \in served : bound[q] \in Proto
  /\ ln \in [Proto -> Port \cup {NoPort}] /\ addr \in [Proto -> Port]
  /\ closed \in [Proto -> BOOLEAN]
  /\ webCur \in Port /\ prevWeb \in Port \cup {NoPort} /\ swap \in Port \cup {NoPort}
  /\ loop \in [pc : {"serve", "track", "dead"}, on : Port \cup {NoPort}, open : BOOLEAN]
  /\ ~ Dead => loop.on \in Port
ConfigTypes ==
  /\ installs \in Nat
  /\ obj \in Seq(Config(installs)) /\ cur \in 0 .. Len(obj)
  /\ file \in [gen : Nat, is : Config(installs) \cup {Absent, Torn}]
  /\ sessions \subseteq 1 .. installs /\ past.late \subseteq 1 .. installs
StoreTypes ==
  /\ store \in [accounts : SUBSET Nat, made : Nat, mail : SUBSET Nat, blobs : SUBSET Nat,
                queue : BOOLEAN, outbound : BOOLEAN]
  /\ store.accounts \cup store.mail \cup store.blobs \cup mails \subseteq 1 .. store.made
History ==
  [since : SUBSET Kind, late : SUBSET Nat, strays : SUBSET Nat, half : BOOLEAN,
   off : SUBSET Service, down : SUBSET Proto, moves : [Proto -> Nat]]
PastTypes ==
  /\ past \in History
  /\ left \in Plan /\ mixed \in BOOLEAN /\ reset \in BOOLEAN
RequestTypes ==
  /\ hd \in [Handler -> Request(installs)]
  /\ \A h \in Handler : Fits(hd[h], Len(obj), store.made)
Types == PortTypes /\ ConfigTypes /\ StoreTypes /\ PastTypes /\ RequestTypes

(* Rows belong to accounts; a delivery knows that its file is there, and a  *)
(* reset that is about to remove the files that all accounts are strays.    *)
Rows ==
  /\ store.mail \subseteq store.accounts
  /\ RowsKeepFiles
  /\ \A h \in Handler :
       /\ At(h, "row") /\ hd[h].ref \in store.accounts \ past.strays => hd[h].ref \in store.blobs
       /\ At(h, "blobs") => store.accounts \subseteq past.strays

(* What a reset has swept and is there, came since.                         *)
SweptAt(l) ==
  /\ l \in {"accounts", "blobs", "outbound", "forget", "remove", "mails"} =>
       (store.queue => "queue" \in past.since)
  /\ l \in {"blobs", "outbound", "forget", "remove", "mails"} =>
       /\ store.accounts # {} => "accounts" \in past.since
       /\ store.mail # {} => "mail" \in past.since
  /\ l \in {"outbound", "forget", "remove", "mails"} =>
       (store.blobs # {} => "blobs" \in past.since)
  /\ l \in {"forget", "remove", "mails"} =>
       (store.outbound => "outbound" \in past.since)
  /\ l \in {"remove", "mails"} =>
       /\ sessions # {} => "sessions" \in past.since
       /\ cur # Nil => "config" \in past.since
  /\ l = "mails" => (file.is # Absent => "config" \in past.since)
Swept == \A h \in Handler : SweptAt(hd[h].pc)

IInv == Types /\ SessionOfThisInstall /\ Rows /\ Swept
-----------------------------------------------------------------------------


(* Facts about the constants.                                               *)
LEMMA Ports ==
  /\ Port \subseteq Nat /\ NoPort \notin Port /\ NoPort \in Nat
  /\ Proto \subseteq Service /\ "web" \in Service /\ "web" \notin Proto
  /\ \A s \in Service : s # "free" /\ s # "other"
  /\ DefaultPort \in [Service -> Port] /\ Scenario \subseteq Plan
BY PortAssumption, ConsoleAssumption DEF NoPort, Service

(* The servers start in an order of the protocols.                          *)
LEMMA OrderIsProto == Order \in Seq(Proto)
<1>1. \A p : Present(p) \in Seq(Proto)
  BY DEF Present
<1> QED
  BY <1>1 DEF Order

(* What a request asks for: some services, a port for each.                 *)
LEMMA Asking ==
  ASSUME NEW w \in Asked
  PROVE  /\ DOMAIN w \subseteq Service
         /\ \A p \in DOMAIN w : w[p] \in Port
<1>1. PICK d \in SUBSET Service : w \in [d -> Port]
  BY DEF Asked
<1> QED
  BY <1>1
(* The ports the protocols had when the change began.                       *)
LEMMA Olds ==
  ASSUME NEW w \in UNION {[d -> Port] : d \in SUBSET Proto}
  PROVE  /\ DOMAIN w \subseteq Proto
         /\ \A p \in DOMAIN w : w[p] \in Port
<1>1. PICK d \in SUBSET Proto : w \in [d -> Port]
  OBVIOUS
<1> QED
  BY <1>1
(* A port for each of some services is something to ask for.                *)
LEMMA AskedOf ==
  ASSUME NEW d \in SUBSET Service, NEW w \in [d -> Port]
  PROVE  w \in Asked
BY DEF Asked

(* Putting ports into a configuration changes those and nothing else.       *)
LEMMA WithPorts ==
  ASSUME NEW n, NEW c \in Config(n), NEW w \in Asked
  PROVE  /\ With(c, w) \in Config(n) /\ With(c, w).inst = c.inst
         /\ \A p \in Service : With(c, w).port[p] = IF p \in DOMAIN w THEN w[p] ELSE c.port[p]
<1>1. /\ DOMAIN w \subseteq Service
      /\ \A p \in DOMAIN w : w[p] \in Port
  BY Asking
<1>2. c.inst \in 1 .. n /\ c.port \in [Service -> Port] /\ c = [inst |-> c.inst, port |-> c.port]
  BY DEF Config
<1>3. With(c, w) = [inst |-> c.inst,
                    port |-> [p \in Service |-> IF p \in DOMAIN w THEN w[p] ELSE c.port[p]]]
  BY <1>2 DEF With
<1>4. [p \in Service |-> IF p \in DOMAIN w THEN w[p] ELSE c.port[p]] \in [Service -> Port]
  BY <1>1, <1>2
<1> QED
  BY <1>2, <1>3, <1>4 DEF Config
(* What of a request differs from the configuration is something to ask     *)
(* for.                                                                     *)
LEMMA ChangedPorts ==
  ASSUME NEW n, NEW c \in Config(n), NEW w \in Asked
  PROVE  Changed(c, w) \in Asked
<1>1. /\ DOMAIN w \subseteq Service
      /\ \A p \in DOMAIN w : w[p] \in Port
  BY Asking
<1> DEFINE ps == {p \in DOMAIN w : w[p] # c.port[p]}
<1>2. ps \in SUBSET Service /\ [p \in ps |-> w[p]] \in [ps -> Port]
  BY <1>1
<1>3. [p \in ps |-> w[p]] \in Asked
  BY <1>2, AskedOf
<1> QED
  BY <1>3 DEF Changed

(* More installations, more configurations and requests.                    *)
LEMMA MoreInstalls ==
  ASSUME NEW n \in Nat, NEW m \in Nat, n <= m
  PROVE  Config(n) \subseteq Config(m) /\ Request(n) \subseteq Request(m)
<1>1. 1 .. n \subseteq 1 .. m
  OBVIOUS
<1>2. Config(n) \subseteq Config(m)
  BY <1>1 DEF Config
<1> QED
  BY <1>2 DEF Request

(* A goroutine that serves nothing.                                         *)
LEMMA IdleFits ==
  ASSUME NEW n \in Nat, NEW objs, NEW made
  PROVE  Idle \in Request(n) /\ Fits(Idle, objs, made)
<1>1. << >> \in Asked /\ << >> \in UNION {[d -> Port] : d \in SUBSET Proto}
  <2>1. << >> \in [{} -> Port]
    OBVIOUS
  <2>2. {} \in SUBSET Service /\ {} \in SUBSET Proto
    OBVIOUS
  <2> QED
    BY <2>1, <2>2 DEF Asked
<1>2. Idle \in Request(n)
  <2>1. << >> \in Seq(Proto) /\ {} \in SUBSET Proto /\ Nil \in Nat /\ 0 \in Nat
    BY DEF Nil
  <2>2. "idle" \in Label /\ "none" \in Op
    BY DEF Label, Op
  <2>3. NoPort \in Port \cup {NoPort} /\ Absent \in Config(n) \cup {Absent}
    OBVIOUS
  <2> HIDE DEF Nil, NoPort, Absent
  <2> QED
    BY <1>1, <2>1, <2>2, <2>3 DEF Idle, Request
<1>3. Fits(Idle, objs, made)
  BY DEF Fits, Idle, Places, Web
<1> QED
  BY <1>2, <1>3


(* What a request holds stays right when objects and accounts are added.    *)
Grown ==
  /\ installs' \in Nat /\ installs <= installs'
  /\ Len(obj)' \in Nat /\ Len(obj) <= Len(obj)'
  /\ store.made' \in Nat /\ store.made <= store.made'
(* A request fits as well when there are more objects and accounts.         *)
LEMMA FitsMore ==
  ASSUME NEW r, NEW x \in Nat, NEW y \in Nat, NEW u \in Nat, NEW v \in Nat,
         x <= u, y <= v, Fits(r, x, y)
  PROVE  Fits(r, u, v)
<1>1. 1 .. x \subseteq 1 .. u /\ 1 .. y \subseteq 1 .. v
  OBVIOUS
<1> QED
  BY <1>1 DEF Fits
(* The counters of the model are natural numbers.                           *)
LEMMA Counts ==
  ASSUME ConfigTypes, StoreTypes
  PROVE  installs \in Nat /\ Len(obj) \in Nat /\ store.made \in Nat
BY DEF ConfigTypes, StoreTypes
(* What a goroutine serves is a well-formed request.                        *)
LEMMA RequestIs ==
  ASSUME RequestTypes, NEW h \in Handler
  PROVE  hd[h] \in Request(installs) /\ Fits(hd[h], Len(obj), store.made)
BY DEF RequestTypes

(* A step that moves one request, or none.                                  *)
LEMMA Goes ==
  ASSUME RequestTypes, ConfigTypes, StoreTypes, Grown, NEW h \in Handler,
         NEW r \in Request(installs'), Fits(r, Len(obj'), store'.made), Go(h, r)
  PROVE  RequestTypes'
<1>1. hd' = [hd EXCEPT ![h] = r]
  BY DEF Go
<1>2. Request(installs) \subseteq Request(installs')
  BY Counts, MoreInstalls DEF Grown
<1>3. hd \in [Handler -> Request(installs)] /\ \A g \in Handler : Fits(hd[g], Len(obj), store.made)
  BY DEF RequestTypes
<1>4. hd' \in [Handler -> Request(installs')]
  BY <1>1, <1>2, <1>3
<1>5. ASSUME NEW g \in Handler
      PROVE  Fits(hd'[g], Len(obj'), store'.made)
  <2>1. CASE g = h
    BY <2>1, <1>1, <1>3
  <2>2. CASE g # h
    <3>1. hd'[g] = hd[g]
      BY <2>2, <1>1, <1>3
    <3>2. Fits(hd[g], Len(obj'), store'.made)
      BY <1>3, Counts, FitsMore DEF Grown
    <3> QED
      BY <3>1, <3>2
  <2> QED
    BY <2>1, <2>2
<1> QED
  BY <1>4, <1>5 DEF RequestTypes
(* Requests that do not move stay well formed.                              *)
LEMMA StaysPut ==
  ASSUME RequestTypes, ConfigTypes, StoreTypes, Grown, UNCHANGED hd
  PROVE  RequestTypes'
<1>1. Request(installs) \subseteq Request(installs')
  BY Counts, MoreInstalls DEF Grown
<1>2. hd \in [Handler -> Request(installs)] /\ \A g \in Handler : Fits(hd[g], Len(obj), store.made)
  BY DEF RequestTypes
<1>3. \A g \in Handler : Fits(hd[g], Len(obj'), store'.made)
  BY <1>2, Counts, FitsMore DEF Grown
<1> QED
  BY <1>1, <1>2, <1>3 DEF RequestTypes

(* What a step leaves alone keeps its type.                                 *)
LEMMA PortsStay ==
  ASSUME PortTypes, UNCHANGED pvars
  PROVE  PortTypes'
BY DEF PortTypes, pvars, Dead
(* The configuration's types stay when it does.                             *)
LEMMA ConfigStays ==
  ASSUME ConfigTypes, UNCHANGED << config, sessions, installs >>, past.late' = past.late
  PROVE  ConfigTypes'
BY DEF ConfigTypes, config
(* So do the store's.                                                       *)
LEMMA StoreStays ==
  ASSUME StoreTypes, UNCHANGED << store, mails >>
  PROVE  StoreTypes'
BY DEF StoreTypes
(* And the history's.                                                       *)
LEMMA PastStays ==
  ASSUME PastTypes, UNCHANGED << past, left, reset >>, mixed' \in BOOLEAN
  PROVE  PastTypes'
BY DEF PastTypes
(* Nothing was made, so nothing dangles.                                    *)
LEMMA NotGrown ==
  ASSUME ConfigTypes, StoreTypes, UNCHANGED << installs, obj, store >>
  PROVE  Grown
BY Counts DEF Grown

(* History that the types do not tell apart.                                *)
LEMMA PastIs ==
  ASSUME PastTypes
  PROVE  /\ past.since \subseteq Kind /\ past.late \subseteq Nat /\ past.strays \subseteq Nat
         /\ past.half \in BOOLEAN /\ past.off \subseteq Service /\ past.down \subseteq Proto
         /\ past.moves \in [Proto -> Nat]
BY DEF PastTypes, History

-----------------------------------------------------------------------------
(* Every step keeps the types, kind by kind: the set-up, ...                *)
LEMMA SetupAskTypes ==
  ASSUME Types, NEW h \in Handler, At(h, "idle"), SetupAsk(h), PastTypes'
  PROVE  Types'
<1> USE DEF Types
<1>1. PICK w \in left.ports :
        Go(h, [Idle EXCEPT !.pc = "wizard", !.op = "setup",
                          !.want = [p \in Service |-> IF p \in DOMAIN w THEN w[p] ELSE DefaultPort[p]]])
  BY DEF SetupAsk
<1> DEFINE all == [p \in Service |-> IF p \in DOMAIN w THEN w[p] ELSE DefaultPort[p]]
<1>2. w \in Asked
  BY DEF PastTypes, Plan
<1>3. all \in [Service -> Port]
  BY <1>2, Asking, Ports
<1>4. all \in Asked /\ DOMAIN all = Service
  BY <1>3, AskedOf
<1> HIDE DEF all
<1>5. PICK r : r = [Idle EXCEPT !.pc = "wizard", !.op = "setup", !.want = all]
  OBVIOUS
<1>6. installs \in Nat
  BY DEF ConfigTypes
<1>7. Idle \in Request(installs)
  BY <1>6, IdleFits
<1>8. r \in Request(installs)
  BY <1>4, <1>5, <1>7 DEF Request, Label, Op
<1>9. Fits(r, Len(obj), store.made)
  BY <1>4, <1>5 DEF Fits, Places, Idle, Web, Moving, ResetPc
<1>10. UNCHANGED << pvars, config, auth, store, installs, past >>
  BY DEF SetupAsk
<1>11. Go(h, r)
  BY <1>1, <1>5 DEF all
<1>12. RequestTypes'
  BY <1>8, <1>9, <1>10, <1>11, Goes, NotGrown DEF config
<1> QED
  BY <1>10, <1>12, PortsStay, ConfigStays, StoreStays DEF auth

(* Install keeps the types of the history.                                  *)
LEMMA InstallPast ==
  ASSUME ConfigTypes, NEW h \in Handler, NEW a, NEW then, NEW hist \in History,
         hist.late = past.late, Install(h, a, then, hist)
  PROVE  past' \in History /\ past'.late \subseteq 1 .. installs
<1> DEFINE late == IF cur \in {Nil, a} THEN hist.late ELSE hist.late \cup {obj[cur].inst}
           since == hist.since \cup {"config"}
<1>1. hist.late \subseteq 1 .. installs /\ 1 .. installs \subseteq Nat
  BY DEF ConfigTypes
<1>2. cur # Nil => obj[cur].inst \in 1 .. installs
  <2>1. ASSUME cur # Nil PROVE obj[cur] \in Config(installs)
    BY <2>1 DEF ConfigTypes, Nil
  <2> QED
    BY <2>1 DEF Config
<1>3. late \subseteq 1 .. installs
  BY <1>1, <1>2
<1>4. since \subseteq Kind
  BY DEF History, Kind
<1>5. past' = [hist EXCEPT !.late = late, !.since = since]
  BY DEF Install
<1> HIDE DEF late, since
<1>6. past' \in History /\ past'.late = late
  BY <1>1, <1>3, <1>4, <1>5 DEF History
<1> QED
  BY <1>3, <1>6
(* A set-up makes the first configuration of an installation, or finds      *)
(* there is one.                                                            *)
LEMMA SetupConfigTypes ==
  ASSUME Types, NEW h \in Handler, SetupConfig(h), mixed' \in BOOLEAN
  PROVE  Types'
<1> USE DEF Types
<1> DEFINE c == [inst |-> installs + 1, port |-> hd[h].want]
           hist == [past EXCEPT !.off = IF hd[h].want["web"] = webCur THEN {} ELSE {"web"}]
<1>1. /\ At(h, "wizard") /\ installs' = installs + 1 /\ obj' = Append(obj, c)
      /\ Install(h, Len(obj) + 1, "apply", hist)
      /\ UNCHANGED << pvars, file, auth, store, left >>
  BY DEF SetupConfig
<1>2. installs \in Nat /\ Len(obj) \in Nat
  BY Counts
<1>3. hd[h] \in Request(installs) /\ Fits(hd[h], Len(obj), store.made)
  BY RequestIs
<1>4. hd[h].op = "setup" /\ hd[h].pc = "wizard" /\ hd[h].want \in Asked /\ DOMAIN hd[h].want = Service
  BY <1>1, <1>3 DEF Fits, Places, At, Request, Moving, Web, ResetPc
<1>5. hd[h].want \in [Service -> Port]
  <2>1. PICK d \in SUBSET Service : hd[h].want \in [d -> Port]
    BY <1>4 DEF Asked
  <2> QED
    BY <1>4, <2>1
<1>6. c \in Config(installs')
  BY <1>1, <1>2, <1>5 DEF Config
<1>7. Config(installs) \subseteq Config(installs') /\ Request(installs) \subseteq Request(installs')
  BY <1>1, <1>2, MoreInstalls
<1>8. obj' \in Seq(Config(installs')) /\ Len(obj') = Len(obj) + 1
  <2>1. obj \in Seq(Config(installs'))
    BY <1>7 DEF ConfigTypes
  <2> QED
    BY <1>1, <1>6, <2>1
<1>9. hist \in History /\ hist.late = past.late
  BY Ports DEF PastTypes, History
<1>10. past' \in History /\ past'.late \subseteq 1 .. installs
  BY <1>1, <1>9, InstallPast
<1>11. PastTypes'
  BY <1>1, <1>10 DEF PastTypes, auth
<1>12. ConfigTypes'
  <2>1. 1 .. installs \subseteq 1 .. installs'
    BY <1>1, <1>2
  <2>2. cur' = Len(obj) + 1
    BY <1>1 DEF Install
  <2>3. sessions' = sessions /\ file' = file
    BY <1>1 DEF auth
  <2>4. file' \in [gen : Nat, is : Config(installs') \cup {Absent, Torn}]
    BY <1>7, <2>3 DEF ConfigTypes
  <2>5. sessions' \subseteq 1 .. installs'
    BY <2>1, <2>3 DEF ConfigTypes
  <2> QED
    BY <1>1, <1>2, <1>8, <1>10, <2>1, <2>2, <2>4, <2>5 DEF ConfigTypes
<1>13. Grown
  BY <1>1, <1>2, <1>8, Counts DEF Grown
<1>14. PICK r : r = [hd[h] EXCEPT !.pc = "save", !.then = "apply"]
  OBVIOUS
<1>15. Go(h, r)
  BY <1>1, <1>14 DEF Install
<1>16. r \in Request(installs')
  BY <1>3, <1>7, <1>14 DEF Request, Label, Moving
<1>17. Fits(r, Len(obj'), store'.made)
  <2>1. r.op = "setup" /\ r.pc = "save" /\ r.then = "apply" /\ DOMAIN r.want = Service
    BY <1>3, <1>4, <1>14 DEF Request
  <2> QED
    BY <2>1 DEF Fits, Places, Moving, Web
<1>18. RequestTypes'
  BY <1>13, <1>15, <1>16, <1>17, Goes
<1> QED
  BY <1>1, <1>11, <1>12, <1>18, PortsStay, StoreStays DEF auth


(* Most steps of a request move it, and change the history or nothing else. *)
LEMMA OnlyGoes ==
  ASSUME Types, NEW h \in Handler, NEW r \in Request(installs),
         Fits(r, Len(obj), store.made), Go(h, r), PastTypes', past.late' = past.late,
         UNCHANGED << pvars, config, sessions, mails, store, installs >>
  PROVE  Types'
<1> USE DEF Types
<1>1. RequestTypes'
  BY Goes, NotGrown DEF config
<1> QED
  BY <1>1, PortsStay, ConfigStays, StoreStays
(* Noting what was written keeps the types of the history.                  *)
LEMMA WroteTypes ==
  ASSUME PastTypes, NEW k \in Kind, Wrote(k), UNCHANGED << left, reset >>, mixed' \in BOOLEAN
  PROVE  PastTypes' /\ past.late' = past.late
BY DEF PastTypes, History, Wrote
(* Save leaves a torn file in between.                                      *)
LEMMA TruncateTypes ==
  ASSUME Types, NEW h \in Handler, Truncate(h), mixed' \in BOOLEAN
  PROVE  Types'
<1> USE DEF Types
<1>1. /\ At(h, "save") /\ Wrote("config") /\ UNCHANGED << pvars, obj, cur, auth, store, left, installs >>
  BY DEF Truncate
<1>2. hd[h] \in Request(installs) /\ Fits(hd[h], Len(obj), store.made)
  BY RequestIs
<1>3. "config" \in Kind
  BY DEF Kind
<1>4. PastTypes' /\ past.late' = past.late
  BY <1>1, <1>3, WroteTypes DEF auth
<1>5. /\ hd[h].then \in {"apply", "web"} /\ hd[h].op \in {"setup", "settings"}
      /\ hd[h].op = "setup" => hd[h].then = "apply" /\ DOMAIN hd[h].want = Service
      /\ hd[h].op = "settings" => hd[h].ref \in 1 .. Len(obj)
  BY <1>1, <1>2 DEF At, Fits, Places, ResetPc
<1>6. CASE cur = Nil
  <2>1. To(h, hd[h].then) /\ UNCHANGED file
    BY <1>6 DEF Truncate
  <2>2. PICK r : r = [hd[h] EXCEPT !.pc = hd[h].then]
    OBVIOUS
  <2>3. r \in Request(installs)
    BY <1>2, <1>5, <2>2 DEF Request, Label, Moving
  <2>4. r.op = hd[h].op /\ r.pc = hd[h].then /\ r.want = hd[h].want /\ r.ref = hd[h].ref
    BY <1>2, <2>2 DEF Request
  <2>5. Fits(r, Len(obj), store.made)
    BY <1>5, <2>4 DEF Fits, Places, Moving, Web
  <2> QED
    BY <1>1, <1>4, <2>1, <2>2, <2>3, <2>5, OnlyGoes DEF To, config, auth
<1>7. CASE cur # Nil
  <2>1. /\ file' = [file EXCEPT !.is = Torn]
        /\ Go(h, [hd[h] EXCEPT !.pc = "write", !.snap = obj[cur], !.gen = file.gen])
    BY <1>7 DEF Truncate
  <2>2. PICK r : r = [hd[h] EXCEPT !.pc = "write", !.snap = obj[cur], !.gen = file.gen]
    OBVIOUS
  <2>3. obj[cur] \in Config(installs) /\ file.gen \in Nat
    BY <1>7 DEF ConfigTypes, Nil
  <2>4. r \in Request(installs)
    BY <1>2, <2>2, <2>3 DEF Request, Label, Moving
  <2>5. /\ r.op = hd[h].op /\ r.pc = "write" /\ r.want = hd[h].want /\ r.ref = hd[h].ref
        /\ r.then = hd[h].then /\ r.snap = obj[cur]
    BY <1>2, <2>2 DEF Request
  <2>6. obj[cur] # Absent
    <3>1. DOMAIN obj[cur] = {"inst", "port"} /\ DOMAIN Absent = {"inst"}
      BY <2>3 DEF Config, Absent
    <3> QED
      BY <3>1
  <2>7. Fits(r, Len(obj), store.made)
    BY <1>5, <2>5, <2>6 DEF Fits, Places, Moving, Web
  <2>8. RequestTypes'
    BY <1>1, <2>1, <2>2, <2>4, <2>7, Goes, NotGrown
  <2>9. ConfigTypes'
    <3>1. file' \in [gen : Nat, is : Config(installs) \cup {Absent, Torn}]
      BY <2>1 DEF ConfigTypes
    <3> QED
      BY <1>1, <1>4, <3>1 DEF ConfigTypes, auth
  <2> QED
    BY <1>1, <1>4, <2>8, <2>9, PortsStay, StoreStays DEF auth
<1> QED
  BY <1>6, <1>7
(* And then the whole configuration.                                        *)
LEMMA WriteTypes ==
  ASSUME Types, NEW h \in Handler, Write(h), mixed' \in BOOLEAN
  PROVE  Types'
<1> USE DEF Types
<1>1. /\ At(h, "write") /\ To(h, hd[h].then) /\ UNCHANGED << pvars, obj, cur, auth, store, left, installs >>
      /\ past' = [past EXCEPT !.since = @ \cup {"config"}, !.half = @ /\ hd[h].snap # Now]
  BY DEF Write
<1>2. hd[h] \in Request(installs) /\ Fits(hd[h], Len(obj), store.made)
  BY RequestIs
<1>3. /\ hd[h].then \in {"apply", "web"} /\ hd[h].op \in {"setup", "settings"}
      /\ hd[h].op = "setup" => hd[h].then = "apply" /\ DOMAIN hd[h].want = Service
      /\ hd[h].op = "settings" => hd[h].ref \in 1 .. Len(obj)
      /\ hd[h].snap \in Config(installs)
  BY <1>1, <1>2 DEF At, Fits, Places, ResetPc, Request
<1>4. file' \in [gen : Nat, is : Config(installs) \cup {Absent, Torn}]
  <2>1. file \in [gen : Nat, is : Config(installs) \cup {Absent, Torn}]
    BY DEF ConfigTypes
  <2>2. CASE hd[h].gen = file.gen
    <3>1. PICK f \in Saved(hd[h].snap) : file' = [file EXCEPT !.is = f]
      BY <2>2 DEF Write
    <3>2. f \in Config(installs) \cup {Absent, Torn}
      BY <1>3, <3>1 DEF Saved
    <3> QED
      BY <2>1, <3>1, <3>2
  <2> QED
    BY <2>1, <2>2 DEF Write
<1>5. PastTypes' /\ past.late' = past.late
  <2>1. past'.since = past.since \cup {"config"} /\ past'.half = (past.half /\ hd[h].snap # Now)
    BY <1>1, PastIs DEF PastTypes, History
  <2>2. (past.half /\ hd[h].snap # Now) \in BOOLEAN
    OBVIOUS
  <2>3. past.since \cup {"config"} \subseteq Kind
    BY PastIs DEF Kind
  <2>4. past' \in History /\ past'.late = past.late
    BY <1>1, <2>2, <2>3 DEF PastTypes, History
  <2> QED
    BY <1>1, <2>4 DEF PastTypes, auth
<1>6. PICK r : r = [hd[h] EXCEPT !.pc = hd[h].then]
  OBVIOUS
<1>7. r \in Request(installs)
  BY <1>2, <1>3, <1>6 DEF Request, Label, Moving
<1>8. r.op = hd[h].op /\ r.pc = hd[h].then /\ r.want = hd[h].want /\ r.ref = hd[h].ref
  BY <1>2, <1>6 DEF Request
<1>9. Fits(r, Len(obj), store.made)
  BY <1>3, <1>8 DEF Fits, Places, Moving, Web
<1>10. RequestTypes'
  BY <1>1, <1>6, <1>7, <1>9, Goes, NotGrown DEF To
<1>11. ConfigTypes'
  BY <1>1, <1>4, <1>5 DEF ConfigTypes, auth
<1> QED
  BY <1>1, <1>5, <1>10, <1>11, PortsStay, StoreStays DEF auth


(* ... logging in and out, ...                                              *)
LEMMA LoginReadTypes ==
  ASSUME Types, NEW h \in Handler, LoginRead(h), PastTypes'
  PROVE  Types'
<1> USE DEF Types
<1>1. /\ cur # Nil /\ Go(h, [Idle EXCEPT !.pc = "login", !.op = "login", !.ref = cur])
      /\ UNCHANGED << pvars, config, auth, store, installs, past >>
  BY DEF LoginRead
<1>2. PICK r : r = [Idle EXCEPT !.pc = "login", !.op = "login", !.ref = cur]
  OBVIOUS
<1>3. cur \in 1 .. Len(obj) /\ cur \in Nat /\ installs \in Nat /\ Idle \in Request(installs)
  BY <1>1, IdleFits, Counts DEF ConfigTypes, Nil
<1>4. r \in Request(installs)
  BY <1>2, <1>3 DEF Request, Label, Op
<1>5. Fits(r, Len(obj), store.made)
  BY <1>2, <1>3 DEF Fits, Places, Idle, Web
<1> QED
  BY <1>1, <1>2, <1>4, <1>5, OnlyGoes DEF auth
(* A login opens a session of the installation it read.                     *)
LEMMA LoginSessionTypes ==
  ASSUME Types, NEW h \in Handler, LoginSession(h), mixed' \in BOOLEAN
  PROVE  Types'
<1> USE DEF Types
<1> DEFINE i == obj[hd[h].ref].inst
           late == IF Now.inst = i THEN past.late ELSE past.late \cup {i}
<1>1. /\ At(h, "login") /\ Done(h) /\ UNCHANGED << pvars, config, mails, reset, store, left, installs >>
      /\ sessions' = sessions \cup {i}
      /\ past' = [past EXCEPT !.since = @ \cup {"sessions"}, !.late = late]
  BY PastIs DEF LoginSession, PastTypes, History
<1>2. hd[h] \in Request(installs) /\ Fits(hd[h], Len(obj), store.made)
  BY RequestIs
<1>3. hd[h].ref \in 1 .. Len(obj)
  BY <1>1, <1>2 DEF At, Fits, Places, ResetPc, Moving, Web
<1>4. i \in 1 .. installs
  <2>1. obj[hd[h].ref] \in Config(installs)
    BY <1>3 DEF ConfigTypes
  <2> QED
    BY <2>1 DEF Config
<1>5. late \subseteq 1 .. installs /\ sessions' \subseteq 1 .. installs /\ installs \in Nat
  BY <1>1, <1>4 DEF ConfigTypes
<1>6. past' \in History /\ past'.late = late
  <2>1. past.since \cup {"sessions"} \subseteq Kind
    BY PastIs DEF Kind
  <2>2. late \subseteq Nat
    BY <1>5
  <2> HIDE DEF late, i
  <2> QED
    BY <1>1, <2>1, <2>2 DEF PastTypes, History
<1> HIDE DEF late, i
<1>7. ConfigTypes'
  BY <1>1, <1>5, <1>6 DEF ConfigTypes, config
<1>8. RequestTypes'
  BY <1>1, <1>5, IdleFits, Goes, NotGrown DEF Done, config
<1>9. PastTypes'
  BY <1>1, <1>6 DEF PastTypes
<1> QED
  BY <1>1, <1>7, <1>8, <1>9, PortsStay, StoreStays
(* A logout closes one.                                                     *)
LEMMA LogoutTypes ==
  ASSUME Types, NEW h \in Handler, Logout(h), PastTypes'
  PROVE  Types'
<1> USE DEF Types
<1>1. sessions' \subseteq sessions /\ UNCHANGED << pvars, config, mails, reset, store, hd, installs, past >>
  BY DEF Logout
<1>2. ConfigTypes'
  BY <1>1 DEF ConfigTypes, config
<1> QED
  BY <1>1, <1>2, StaysPut, NotGrown, PortsStay, StoreStays DEF config

(* ... the settings, up to the ports, ...                                   *)
LEMMA SettingsReadTypes ==
  ASSUME Types, NEW h \in Handler, SettingsRead(h), PastTypes'
  PROVE  Types'
<1> USE DEF Types
<1>1. /\ cur # Nil /\ Go(h, [Idle EXCEPT !.pc = "read", !.op = "settings", !.ref = cur])
      /\ UNCHANGED << pvars, config, auth, store, installs, past >>
  BY DEF SettingsRead
<1>2. PICK r : r = [Idle EXCEPT !.pc = "read", !.op = "settings", !.ref = cur]
  OBVIOUS
<1>3. cur \in 1 .. Len(obj) /\ cur \in Nat /\ installs \in Nat /\ Idle \in Request(installs)
  BY <1>1, IdleFits, Counts DEF ConfigTypes, Nil
<1>4. r \in Request(installs)
  BY <1>2, <1>3 DEF Request, Label, Op
<1>5. Fits(r, Len(obj), store.made)
  BY <1>2, <1>3 DEF Fits, Places, Idle, Web
<1> QED
  BY <1>1, <1>2, <1>4, <1>5, OnlyGoes DEF auth

(* An object that is changed in place stays a configuration.                *)
LEMMA ObjectChanges ==
  ASSUME ConfigTypes, NEW a \in 1 .. Len(obj), NEW c \in Config(installs),
         obj' = [obj EXCEPT ![a] = c]
  PROVE  obj' \in Seq(Config(installs)) /\ Len(obj') = Len(obj) /\ obj'[a] = c
BY DEF ConfigTypes
(* Changing a configuration in memory leaves it a configuration.            *)
LEMMA SettingsChangeTypes ==
  ASSUME Types, NEW h \in Handler, SettingsChange(h), mixed' \in BOOLEAN
  PROVE  Types'
<1> USE DEF Types
<1>1. At(h, "read") /\ UNCHANGED << pvars, cur, file, auth, store, left, installs >>
  BY DEF SettingsChange
<1>2. PICK w \in left.ports :
       LET a == hd[h].ref  c == Changed(obj[a], w)
       IN /\ obj' = [obj EXCEPT ![a] = With(@, c)]
          /\ \/ Go(h, [hd[h] EXCEPT !.pc = "set", !.want = c]) /\ UNCHANGED past
             \/ /\ left.refused /\ DOMAIN c # {}
                /\ To(h, "refused")
                /\ past' = [past EXCEPT !.half = TRUE, !.off = @ \cup DOMAIN c]
  BY DEF SettingsChange
<1> DEFINE a == hd[h].ref
           c == Changed(obj[a], w)
<1>3. hd[h] \in Request(installs) /\ Fits(hd[h], Len(obj), store.made)
  BY RequestIs
<1>4. a \in 1 .. Len(obj) /\ hd[h].op = "settings"
  BY <1>1, <1>3 DEF At, Fits, Places, ResetPc, Moving, Web
<1>5. obj[a] \in Config(installs)
  BY <1>4 DEF ConfigTypes
<1>6. w \in Asked
  BY DEF PastTypes, Plan
<1>7. c \in Asked /\ DOMAIN c \subseteq Service
  BY <1>5, <1>6, ChangedPorts, Asking
<1>8. With(obj[a], c) \in Config(installs)
  BY <1>5, <1>7, WithPorts
<1>9. obj' \in Seq(Config(installs)) /\ Len(obj') = Len(obj)
  <2>1. obj' = [obj EXCEPT ![a] = With(obj[a], c)]
    BY <1>2
  <2> QED
    BY <1>4, <1>8, <2>1, ObjectChanges
<1> HIDE DEF c
<1>10. Grown
  BY <1>1, <1>9, Counts DEF Grown
<1>11. PastTypes' /\ past.late' = past.late
  <2>1. CASE UNCHANGED past
    BY <1>1, <2>1 DEF PastTypes, auth
  <2>2. CASE past' = [past EXCEPT !.half = TRUE, !.off = @ \cup DOMAIN c]
    BY <1>1, <1>7, <2>2 DEF PastTypes, auth, History
  <2> QED
    BY <1>2, <2>1, <2>2 DEF c
<1>12. ConfigTypes'
  BY <1>1, <1>9, <1>11 DEF ConfigTypes, auth
<1>13. RequestTypes'
  <2>1. CASE Go(h, [hd[h] EXCEPT !.pc = "set", !.want = c])
    <3>1. PICK r : r = [hd[h] EXCEPT !.pc = "set", !.want = c]
      OBVIOUS
    <3>2. r \in Request(installs)
      BY <1>3, <1>7, <3>1 DEF Request, Label
    <3>3. r.op = "settings" /\ r.pc = "set" /\ r.ref = a
      BY <1>3, <1>4, <3>1 DEF Request
    <3>4. Fits(r, Len(obj'), store'.made)
      BY <1>4, <1>9, <3>3 DEF Fits, Places, Web
    <3> QED
      BY <1>1, <1>10, <2>1, <3>1, <3>2, <3>4, Goes
  <2>2. CASE To(h, "refused")
    <3>1. PICK r : r = [hd[h] EXCEPT !.pc = "refused"]
      OBVIOUS
    <3>2. r \in Request(installs)
      BY <1>3, <1>7, <3>1 DEF Request, Label
    <3>3. r.op = "settings" /\ r.pc = "refused" /\ r.ref = a
      BY <1>3, <1>4, <3>1 DEF Request
    <3>4. Fits(r, Len(obj'), store'.made)
      BY <1>4, <1>9, <3>3 DEF Fits, Places, Web
    <3> QED
      BY <1>1, <1>10, <2>2, <3>1, <3>2, <3>4, Goes DEF To
  <2> QED
    BY <1>2, <2>1, <2>2 DEF c
<1> QED
  BY <1>1, <1>11, <1>12, <1>13, PortsStay, StoreStays DEF auth
(* Ending a request keeps the types.                                        *)
LEMMA DoneTypes ==
  ASSUME Types, NEW h \in Handler, Done(h), PastTypes', past.late' = past.late,
         UNCHANGED << pvars, config, sessions, mails, store, installs >>
  PROVE  Types'
<1>1. Idle \in Request(installs) /\ Fits(Idle, Len(obj), store.made)
  BY IdleFits, Counts DEF Types
<1> QED
  BY <1>1, OnlyGoes DEF Done
(* So does refusing one.                                                    *)
LEMMA SettingsRefusedTypes ==
  ASSUME Types, NEW h \in Handler, SettingsRefused(h), mixed' \in BOOLEAN
  PROVE  Types'
BY PastStays, DoneTypes DEF SettingsRefused, Types, auth
(* SetConfig puts an object of the process in place.                        *)
LEMMA SettingsSetTypes ==
  ASSUME Types, NEW h \in Handler, SettingsSet(h), mixed' \in BOOLEAN
  PROVE  Types'
<1> USE DEF Types
<1> DEFINE then == IF DOMAIN hd[h].want = {} THEN "web" ELSE "apply"
<1>1. /\ At(h, "set") /\ Install(h, hd[h].ref, then, past)
      /\ UNCHANGED << pvars, obj, file, auth, store, left, installs >>
  BY DEF SettingsSet
<1>2. hd[h] \in Request(installs) /\ Fits(hd[h], Len(obj), store.made)
  BY RequestIs
<1>3. hd[h].ref \in 1 .. Len(obj) /\ hd[h].op = "settings"
  BY <1>1, <1>2 DEF At, Fits, Places, ResetPc, Moving, Web
<1>4. past \in History
  BY DEF PastTypes
<1>5. past' \in History /\ past'.late \subseteq 1 .. installs
  BY <1>1, <1>4, InstallPast
<1>6. then \in {"apply", "web"}
  OBVIOUS
<1> HIDE DEF then
<1>7. PICK r : r = [hd[h] EXCEPT !.pc = "save", !.then = then]
  OBVIOUS
<1>8. r \in Request(installs)
  BY <1>2, <1>6, <1>7 DEF Request, Label, Moving
<1>9. r.op = "settings" /\ r.pc = "save" /\ r.ref = hd[h].ref /\ r.then = then
  BY <1>2, <1>3, <1>7 DEF Request
<1>10. Fits(r, Len(obj), store.made)
  BY <1>3, <1>6, <1>9 DEF Fits, Places, Web, Moving
<1>11. RequestTypes'
  BY <1>1, <1>7, <1>8, <1>10, Goes, NotGrown DEF Install
<1>12. ConfigTypes'
  <2>1. cur' = hd[h].ref
    BY <1>1 DEF Install
  <2> QED
    BY <1>1, <1>3, <1>5, <2>1, Counts DEF ConfigTypes, auth
<1>13. PastTypes'
  BY <1>1, <1>5 DEF PastTypes, auth
<1> QED
  BY <1>1, <1>11, <1>12, <1>13, PortsStay, StoreStays DEF auth


(* ... the listeners, ...                                                   *)
LEMMA FreeTypes ==
  ASSUME PortTypes, NEW port \in Port \cup {NoPort}, NEW who \in Service
  PROVE  /\ Free(bound, port, who) \in [Port -> Service \cup {"free", "other"}]
         /\ \A q \in Port : Free(bound, port, who)[q] = bound[q]
                              \/ (q = port /\ bound[q] = who /\ Free(bound, port, who)[q] = "free")
BY DEF PortTypes, Free, NoPort
(* Closing a protocol server keeps the types of the listeners.              *)
LEMMA CloseServerTypes ==
  ASSUME PortTypes, NEW p \in Proto, CloseServer(p),
         UNCHANGED << ln, addr, webCur, prevWeb, swap, loop >>
  PROVE  PortTypes'
<1>1. closed' \in [Proto -> BOOLEAN]
  <2>1. (p # "smtp") \in BOOLEAN
    OBVIOUS
  <2> QED
    BY <2>1 DEF PortTypes, CloseServer
<1>2. CASE closed[p]
  BY <1>1, <1>2 DEF PortTypes, CloseServer, Dead
<1>3. CASE ~ closed[p]
  <2>1. bound' = Free(bound, ln[p], p) /\ served' = served \ {ln[p]}
    BY <1>3 DEF CloseServer
  <2>2. ln[p] \in Port \cup {NoPort} /\ p \in Service
    BY Ports DEF PortTypes
  <2>3. bound' \in [Port -> Service \cup {"free", "other"}]
    BY <2>1, <2>2, FreeTypes
  <2>4. \A q \in Port : q # ln[p] => bound'[q] = bound[q]
    BY <2>1, <2>2, FreeTypes
  <2>5. \A q \in served' : bound'[q] \in Proto
    BY <2>1, <2>4 DEF PortTypes
  <2> QED
    BY <1>1, <2>1, <2>3, <2>5 DEF PortTypes, Dead
<1> QED
  BY <1>2, <1>3
(* So does opening one.                                                     *)
LEMMA ListenServerTypes ==
  ASSUME PortTypes, NEW p \in Proto, NEW port \in Port, ListenServer(p, port),
         addr' \in [Proto -> Port], UNCHANGED << closed, webCur, prevWeb, swap, loop >>
  PROVE  PortTypes'
<1>1. bound' \in [Port -> Service \cup {"free", "other"}]
  BY Ports DEF PortTypes, ListenServer
<1>2. \A q \in served' : q \in Port /\ bound'[q] \in Proto
  BY DEF PortTypes, ListenServer
<1>3. ln' \in [Proto -> Port \cup {NoPort}]
  BY DEF PortTypes, ListenServer
<1> QED
  BY <1>1, <1>2, <1>3 DEF PortTypes, Dead
(* So does noting its address.                                              *)
LEMMA AddrTypes ==
  ASSUME PortTypes, addr' \in [Proto -> Port],
         UNCHANGED << bound, served, ln, closed, webCur, prevWeb, swap, loop >>
  PROVE  PortTypes'
BY DEF PortTypes, Dead
(* Moving one leaves it on the new port, on the old one or on none.         *)
LEMMA ReboundTypes ==
  ASSUME PortTypes, NEW p \in Proto, NEW old \in Port, NEW want \in Port, Rebound(p, old, want),
         UNCHANGED << closed, webCur, prevWeb, swap, loop >>
  PROVE  PortTypes'
<1>1. addr' \in [Proto -> Port]
  BY DEF Rebound, PortTypes
<1>2. CASE ListenServer(p, want)
  BY <1>1, <1>2, ListenServerTypes
<1>3. CASE ListenServer(p, old)
  BY <1>1, <1>3, ListenServerTypes
<1>4. CASE UNCHANGED << bound, served, ln >>
  BY <1>1, <1>4, AddrTypes
<1> QED
  BY <1>2, <1>3, <1>4 DEF Rebound, Fallback
(* Binding a web port keeps the types of the listeners.                     *)
LEMMA BindWebTypes ==
  ASSUME PortTypes, NEW c \in Port, NEW port \in Port, BindWeb(c, port),
         UNCHANGED << served, ln, closed, addr, swap, loop >>
  PROVE  PortTypes'
<1>1. CASE port = c
  BY <1>1 DEF PortTypes, BindWeb, Dead
<1>2. CASE port # c
  <2>1. /\ bound[port] = "free" /\ bound' = [bound EXCEPT ![port] = "web"]
        /\ webCur' = port /\ prevWeb' = c
    BY <1>2 DEF BindWeb
  <2>2. bound' \in [Port -> Service \cup {"free", "other"}]
    BY <2>1, Ports DEF PortTypes
  <2>3. \A q \in served' : bound'[q] \in Proto
    BY <2>1, Ports DEF PortTypes
  <2> QED
    BY <2>1, <2>2, <2>3 DEF PortTypes, Dead
<1> QED
  BY <1>1, <1>2
(* So does publishing the new listener.                                     *)
LEMMA PublishWebTypes ==
  ASSUME PortTypes, NEW port \in Port, PublishWeb(port),
         UNCHANGED << served, ln, closed, addr, webCur >>
  PROVE  PortTypes'
BY DEF PortTypes, PublishWeb, Dead
(* And closing the old one.                                                 *)
LEMMA ClosePrevWebTypes ==
  ASSUME PortTypes, ClosePrevWeb, UNCHANGED << served, ln, closed, addr, webCur >>
  PROVE  PortTypes'
<1>1. prevWeb \in Port \cup {NoPort} /\ "web" \in Service
  BY Ports DEF PortTypes
<1>2. /\ bound' = Free(bound, prevWeb, "web") /\ prevWeb' = NoPort /\ swap' = swap
      /\ loop' = [loop EXCEPT !.open = @ /\ loop.on # prevWeb]
  BY DEF ClosePrevWeb
<1>3. bound' \in [Port -> Service \cup {"free", "other"}]
  BY <1>1, <1>2, FreeTypes
<1>4. \A q \in served' : bound'[q] \in Proto
  <2>1. \A q \in Port : bound[q] # "web" => bound'[q] = bound[q]
    BY <1>1, <1>2, FreeTypes
  <2>2. \A q \in served : q \in Port /\ bound[q] \in Proto /\ bound[q] # "web"
    BY Ports DEF PortTypes
  <2> QED
    BY <2>1, <2>2
<1>5. /\ loop' \in [pc : {"serve", "track", "dead"}, on : Port \cup {NoPort}, open : BOOLEAN]
      /\ loop'.on = loop.on /\ loop'.pc = loop.pc
  <2>1. (loop.open /\ loop.on # prevWeb) \in BOOLEAN
    OBVIOUS
  <2> QED
    BY <1>2, <2>1 DEF PortTypes
<1> QED
  BY <1>2, <1>3, <1>4, <1>5 DEF PortTypes, Dead
(* The loop in main takes up listeners of the process only.                 *)
LEMMA LoopTypes ==
  ASSUME PortTypes, StrayAccept \/ Wake \/ Track
  PROVE  PortTypes'
<1>1. CASE StrayAccept
  BY <1>1 DEF PortTypes, StrayAccept, Dead
<1>2. CASE Wake
  <2>1. /\ loop' \in [pc : {"serve", "track", "dead"}, on : Port \cup {NoPort}, open : BOOLEAN]
        /\ loop'.pc # "dead" => loop'.on \in Port
    <3>1. CASE swap = NoPort
      BY <1>2, <3>1 DEF Wake
    <3>2. CASE swap # NoPort
      <4>1. (bound[swap] = "web") \in BOOLEAN
        OBVIOUS
      <4>2. loop' = [pc |-> "track", on |-> swap, open |-> bound[swap] = "web"]
        BY <1>2, <3>2 DEF Wake
      <4>3. swap \in Port
        BY <3>2 DEF PortTypes
      <4> QED
        BY <4>1, <4>2, <4>3
    <3> QED
      BY <3>1, <3>2
  <2> QED
    BY <1>2, <2>1 DEF PortTypes, Wake, Dead
<1>3. CASE Track
  <2>1. /\ loop' \in [pc : {"serve", "track", "dead"}, on : Port \cup {NoPort}, open : BOOLEAN]
        /\ loop'.on = loop.on /\ loop.on \in Port
    BY <1>3 DEF PortTypes, Track, Dead
  <2> QED
    BY <1>3, <2>1 DEF PortTypes, Track, Dead
<1> QED
  BY <1>1, <1>2, <1>3
(* A port another process takes is nobody's here.                           *)
LEMMA GrabTypes ==
  ASSUME PortTypes, NEW q \in Port, Grab(q)
  PROVE  PortTypes'
<1>1. bound' \in [Port -> Service \cup {"free", "other"}]
  BY DEF PortTypes, Grab
<1>2. \A s \in served' : bound'[s] \in Proto
  BY Ports DEF PortTypes, Grab
<1> QED
  BY <1>1, <1>2 DEF PortTypes, Grab, Dead


(* ... the ports, one protocol after the other, ...                         *)
LEMMA ApplyBeginTypes ==
  ASSUME Types, NEW h \in Handler, ApplyBegin(h), mixed' \in BOOLEAN
  PROVE  Types'
<1> USE DEF Types
<1>1. /\ At(h, "apply") /\ Go(h, [hd[h] EXCEPT !.pc = "probe", !.old = addr, !.todo = Order])
      /\ UNCHANGED << pvars, config, auth, store, left, installs, past >>
  BY DEF ApplyBegin
<1>2. hd[h] \in Request(installs) /\ Fits(hd[h], Len(obj), store.made)
  BY RequestIs
<1>3. PICK r : r = [hd[h] EXCEPT !.pc = "probe", !.old = addr, !.todo = Order]
  OBVIOUS
<1>4. /\ hd[h].op \in {"setup", "settings"}
      /\ hd[h].op = "setup" => DOMAIN hd[h].want = Service
      /\ hd[h].op = "settings" => hd[h].ref \in 1 .. Len(obj)
  BY <1>1, <1>2 DEF At, Fits, Places, ResetPc, Web
<1>5. addr \in UNION {[d -> Port] : d \in SUBSET Proto} /\ DOMAIN addr = Proto
  BY DEF PortTypes
<1>6. r \in Request(installs)
  BY <1>2, <1>3, <1>5, OrderIsProto DEF Request, Label, Moving
<1>7. r.op = hd[h].op /\ r.pc = "probe" /\ r.want = hd[h].want /\ r.ref = hd[h].ref /\ r.old = addr
  BY <1>2, <1>3 DEF Request
<1>8. Fits(r, Len(obj), store.made)
  BY <1>4, <1>5, <1>7 DEF Fits, Places, Moving, Web
<1>9. PastTypes' /\ past.late' = past.late
  BY <1>1, PastStays DEF auth
<1> QED
  BY <1>1, <1>3, <1>6, <1>8, <1>9, OnlyGoes DEF auth

(* What is known of a request that applies ports.                           *)
LEMMA Applying ==
  ASSUME RequestTypes, NEW h \in Handler, hd[h].pc \in {"probe", "close", "listen"}
  PROVE  /\ hd[h].op \in {"setup", "settings"}
         /\ hd[h].op = "setup" => DOMAIN hd[h].want = Service
         /\ hd[h].op = "settings" => hd[h].ref \in 1 .. Len(obj)
         /\ hd[h].old \in [Proto -> Port] /\ hd[h].todo \in Seq(Proto) /\ hd[h].errs \subseteq Proto
         /\ hd[h].want \in Asked /\ DOMAIN hd[h].want \subseteq Service
         /\ \A p \in DOMAIN hd[h].want : hd[h].want[p] \in Port
<1>1. hd[h] \in Request(installs) /\ Fits(hd[h], Len(obj), store.made)
  BY RequestIs
<1>2. hd[h].op \in {"setup", "settings"}
  BY <1>1 DEF Fits, Places, ResetPc, Web
<1>3. hd[h].old \in UNION {[d -> Port] : d \in SUBSET Proto} /\ DOMAIN hd[h].old = Proto
  BY <1>1 DEF Fits, Request
<1>4. hd[h].old \in [Proto -> Port]
  <2>1. PICK d \in SUBSET Proto : hd[h].old \in [d -> Port]
    BY <1>3
  <2> QED
    BY <1>3, <2>1
<1>5. hd[h].want \in Asked
  BY <1>1 DEF Request
<1>6. DOMAIN hd[h].want \subseteq Service /\ \A p \in DOMAIN hd[h].want : hd[h].want[p] \in Port
  BY <1>5, Asking
<1> QED
  BY <1>1, <1>2, <1>4, <1>5, <1>6 DEF Fits, Request
(* Going on to the next protocol keeps the request well formed.             *)
LEMMA Advanced ==
  ASSUME RequestTypes, NEW h \in Handler, hd[h].pc \in {"probe", "listen"}, hd[h].todo # << >>,
         NEW e \in SUBSET Proto,
         NEW r, r = [hd[h] EXCEPT !.pc = "probe", !.todo = Tail(@), !.errs = @ \cup e]
  PROVE  r \in Request(installs) /\ Fits(r, Len(obj), store.made)
<1>1. hd[h] \in Request(installs) /\ Fits(hd[h], Len(obj), store.made)
  BY RequestIs
<1>2. /\ hd[h].op \in {"setup", "settings"}
      /\ hd[h].op = "setup" => DOMAIN hd[h].want = Service
      /\ hd[h].op = "settings" => hd[h].ref \in 1 .. Len(obj)
      /\ DOMAIN hd[h].old = Proto
  BY Applying
<1>3. Tail(hd[h].todo) \in Seq(Proto)
  BY <1>1 DEF Request
<1>4. r \in Request(installs)
  BY <1>1, <1>3 DEF Request, Label, Moving
<1>5. r.op = hd[h].op /\ r.pc = "probe" /\ r.want = hd[h].want /\ r.ref = hd[h].ref /\ r.old = hd[h].old
  BY <1>1 DEF Request
<1> QED
  BY <1>2, <1>4, <1>5 DEF Fits, Places, Moving, Web
(* ApplyProbe keeps the types.                                              *)
LEMMA ApplyProbeTypes ==
  ASSUME Types, NEW h \in Handler, ApplyProbe(h), mixed' \in BOOLEAN
  PROVE  Types'
<1> USE DEF Types
<1> DEFINE p == Head(hd[h].todo)
           asked == p \in DOMAIN hd[h].want
           moved == asked /\ hd[h].want[p] # hd[h].old[p]
<1>1. /\ At(h, "probe") /\ hd[h].todo # << >>
      /\ UNCHANGED << bound, served, ln, closed, webCur, prevWeb, swap, loop >>
      /\ UNCHANGED << config, auth, store, left, installs >>
  BY DEF ApplyProbe
<1>2. hd[h] \in Request(installs) /\ Fits(hd[h], Len(obj), store.made)
  BY RequestIs
<1>3. /\ hd[h].op \in {"setup", "settings"}
      /\ hd[h].op = "setup" => DOMAIN hd[h].want = Service
      /\ hd[h].op = "settings" => hd[h].ref \in 1 .. Len(obj)
      /\ hd[h].old \in [Proto -> Port] /\ hd[h].todo \in Seq(Proto)
  BY <1>1, Applying DEF At
<1>4. p \in Proto /\ hd[h].old[p] \in Port
  BY <1>1, <1>3
<1>5. PICK e \in SUBSET Proto, o \in SUBSET Service :
        /\ addr' \in [Proto -> Port] /\ past' = [past EXCEPT !.off = o]
        /\ Advance(h, e) \/ (moved /\ To(h, "close"))
  <2>1. past = [past EXCEPT !.off = past.off] /\ past.off \subseteq Service
    BY DEF PastTypes, History
  <2>2. addr \in [Proto -> Port]
    BY DEF PortTypes
  <2>3. CASE ~ moved /\ asked
    <3>1. past' = [past EXCEPT !.off = past.off \ {p}] /\ addr' = [addr EXCEPT ![p] = hd[h].old[p]]
      BY <2>3 DEF ApplyProbe
    <3>2. addr' \in [Proto -> Port] /\ past.off \ {p} \in SUBSET Service /\ {} \in SUBSET Proto
      BY <1>4, <2>1, <2>2, <3>1
    <3>3. Advance(h, {})
      BY <2>3 DEF ApplyProbe
    <3> QED
      BY <3>1, <3>2, <3>3
  <2>4. CASE ~ asked
    <3>1. past' = past /\ addr' = addr
      BY <2>4 DEF ApplyProbe
    <3>2. Advance(h, {}) /\ {} \in SUBSET Proto
      BY <2>4 DEF ApplyProbe
    <3> QED
      BY <2>1, <2>2, <3>1, <3>2
  <2>5. CASE moved /\ ~ Probe(hd[h].want[p])
    <3>1. past' = [past EXCEPT !.off = past.off \cup {p}] /\ addr' = [addr EXCEPT ![p] = hd[h].old[p]]
      BY <2>5 DEF ApplyProbe
    <3>2. /\ addr' \in [Proto -> Port] /\ past.off \cup {p} \in SUBSET Service
          /\ {p} \in SUBSET Proto
      BY <1>4, <2>1, <2>2, <3>1, Ports
    <3>3. Advance(h, {p})
      BY <2>5 DEF ApplyProbe
    <3> QED
      BY <3>1, <3>2, <3>3
  <2>6. CASE moved /\ Probe(hd[h].want[p])
    <3>1. past' = past /\ addr' = addr /\ To(h, "close")
      BY <2>6 DEF ApplyProbe
    <3>2. {} \in SUBSET Proto
      OBVIOUS
    <3> QED
      BY <2>1, <2>2, <2>6, <3>1, <3>2
  <2> QED
    BY <2>3, <2>4, <2>5, <2>6
<1>6. PortTypes'
  BY <1>1, <1>5, AddrTypes
<1>7. PastTypes' /\ past.late' = past.late
  BY <1>1, <1>5 DEF PastTypes, History, auth
<1>8. RequestTypes'
  <2>1. CASE Advance(h, e)
    <3>1. PICK r : r = [hd[h] EXCEPT !.pc = "probe", !.todo = Tail(@), !.errs = @ \cup e]
      OBVIOUS
    <3>2. r \in Request(installs) /\ Fits(r, Len(obj), store.made)
      BY <1>1, <3>1, Advanced DEF At
    <3> QED
      BY <1>1, <2>1, <3>1, <3>2, Goes, NotGrown DEF Advance, config
  <2>2. CASE moved /\ To(h, "close")
    <3>1. PICK r : r = [hd[h] EXCEPT !.pc = "close"]
      OBVIOUS
    <3>2. r \in Request(installs)
      BY <1>2, <3>1 DEF Request, Label, Moving
    <3>3. /\ r.op = hd[h].op /\ r.pc = "close" /\ r.want = hd[h].want /\ r.ref = hd[h].ref
          /\ r.old = hd[h].old /\ r.todo = hd[h].todo
      BY <1>2, <3>1 DEF Request
    <3>4. Fits(r, Len(obj), store.made)
      BY <1>1, <1>3, <2>2, <3>3 DEF Fits, Places, Moving, Web
    <3> QED
      BY <1>1, <2>2, <3>1, <3>2, <3>4, Goes, NotGrown DEF To, config
  <2> QED
    BY <1>5, <2>1, <2>2
<1> QED
  BY <1>1, <1>6, <1>7, <1>8, ConfigStays, StoreStays DEF auth

(* ApplyClose keeps the types.                                              *)
LEMMA ApplyCloseTypes ==
  ASSUME Types, NEW h \in Handler, ApplyClose(h), mixed' \in BOOLEAN
  PROVE  Types'
<1> USE DEF Types
<1> DEFINE p == Head(hd[h].todo)
<1>1. /\ At(h, "close")
      /\ UNCHANGED << ln, addr, webCur, prevWeb, swap, loop, config, auth, store, left, installs >>
  BY DEF ApplyClose
<1>2. hd[h] \in Request(installs) /\ Fits(hd[h], Len(obj), store.made)
  BY RequestIs
<1>3. /\ hd[h].op \in {"setup", "settings"}
      /\ hd[h].op = "setup" => DOMAIN hd[h].want = Service
      /\ hd[h].op = "settings" => hd[h].ref \in 1 .. Len(obj)
      /\ hd[h].old \in [Proto -> Port] /\ hd[h].todo \in Seq(Proto)
      /\ DOMAIN hd[h].want \subseteq Service
  BY <1>1, Applying DEF At
<1>4. /\ hd[h].todo # << >> /\ p \in Proto /\ p \in DOMAIN hd[h].want
      /\ hd[h].want[p] # hd[h].old[p]
  BY <1>1, <1>2, <1>3 DEF At, Fits
<1>5. CASE Panics(p)
  <2>1. /\ Done(h) /\ past' = [past EXCEPT !.off = @ \cup DOMAIN hd[h].want]
        /\ UNCHANGED << bound, served, closed >>
    BY <1>5 DEF ApplyClose
  <2>2. PastTypes' /\ past.late' = past.late
    BY <1>1, <1>3, <2>1 DEF PastTypes, History, auth
  <2> QED
    BY <1>1, <2>1, <2>2, DoneTypes DEF auth, pvars
<1>6. CASE ~ Panics(p)
  <2>1. CloseServer(p) /\ To(h, "listen") /\ past' = [past EXCEPT !.moves[p] = @ + 1]
    BY <1>6 DEF ApplyClose
  <2>2. PastTypes' /\ past.late' = past.late
    <3>1. past.moves[p] + 1 \in Nat
      BY <1>4, PastIs
    <3>2. [past.moves EXCEPT ![p] = @ + 1] \in [Proto -> Nat]
      BY <3>1, PastIs
    <3>3. past' = [past EXCEPT !.moves = [past.moves EXCEPT ![p] = @ + 1]]
      BY <2>1 DEF PastTypes, History
    <3> QED
      BY <1>1, <3>2, <3>3 DEF PastTypes, History, auth
  <2>3. PortTypes'
    BY <1>1, <1>4, <2>1, CloseServerTypes
  <2>4. PICK r : r = [hd[h] EXCEPT !.pc = "listen"]
    OBVIOUS
  <2>5. r \in Request(installs)
    BY <1>2, <2>4 DEF Request, Label, Moving
  <2>6. /\ r.op = hd[h].op /\ r.pc = "listen" /\ r.want = hd[h].want /\ r.ref = hd[h].ref
        /\ r.old = hd[h].old /\ r.todo = hd[h].todo
    BY <1>2, <2>4 DEF Request
  <2>7. Fits(r, Len(obj), store.made)
    BY <1>3, <1>4, <2>6 DEF Fits, Places, Moving, Web
  <2>8. RequestTypes'
    BY <1>1, <2>1, <2>4, <2>5, <2>7, Goes, NotGrown DEF To, config
  <2> QED
    BY <1>1, <2>2, <2>3, <2>8, ConfigStays, StoreStays DEF auth
<1> QED
  BY <1>5, <1>6
(* ApplyListen keeps the types; a server that is down is one of the         *)
(* protocols.                                                               *)
LEMMA ApplyListenTypes ==
  ASSUME Types, NEW h \in Handler, ApplyListen(h), mixed' \in BOOLEAN
  PROVE  Types'
<1> USE DEF Types
<1> DEFINE p    == Head(hd[h].todo)
           want == hd[h].want[p]
           old  == hd[h].old[p]
           ok   == bound[want] = "free"
           off  == IF ok THEN past.off \ {p} ELSE past.off \cup {p}
           down == IF ok \/ bound[old] \in {"free", p} THEN past.down \ {p} ELSE past.down \cup {p}
           e    == IF ok THEN {} ELSE {p}
<1>1. /\ At(h, "listen") /\ Rebound(p, old, want) /\ Advance(h, e)
      /\ UNCHANGED << closed, webCur, prevWeb, swap, loop, config, auth, store, left, installs >>
  BY DEF ApplyListen
<1>2. past' = [past EXCEPT !.off = off, !.down = down]
  BY DEF ApplyListen, PastTypes, History
<1>3. hd[h] \in Request(installs) /\ Fits(hd[h], Len(obj), store.made)
  BY RequestIs
<1>4. /\ hd[h].old \in [Proto -> Port] /\ hd[h].todo \in Seq(Proto)
      /\ \A s \in DOMAIN hd[h].want : hd[h].want[s] \in Port
  BY <1>1, Applying DEF At
<1>5. /\ hd[h].todo # << >> /\ p \in Proto /\ p \in DOMAIN hd[h].want
  <2>1. hd[h].pc = "listen"
    BY <1>1 DEF At
  <2>2. hd[h].todo # << >> /\ p \in DOMAIN hd[h].want
    BY <1>3, <2>1 DEF Fits
  <2>3. PICK t \in Seq(Proto) : t = hd[h].todo /\ t # << >>
    BY <1>4, <2>2
  <2>4. Head(t) \in Proto
    BY <2>3
  <2> QED
    BY <2>2, <2>3, <2>4
<1>6. PortTypes'
  BY <1>1, <1>4, <1>5, ReboundTypes
<1>7. off \subseteq Service /\ down \subseteq Proto /\ e \in SUBSET Proto
  BY <1>5, PastIs, Ports
<1> HIDE DEF off, down, e
<1>8. PastTypes' /\ past.late' = past.late
  BY <1>1, <1>2, <1>7 DEF PastTypes, History, auth
<1>9. RequestTypes'
  <2>1. PICK r : r = [hd[h] EXCEPT !.pc = "probe", !.todo = Tail(@), !.errs = @ \cup e]
    OBVIOUS
  <2>2. r \in Request(installs) /\ Fits(r, Len(obj), store.made)
    BY <1>1, <1>5, <1>7, <2>1, Advanced DEF At
  <2> QED
    BY <1>1, <2>1, <2>2, Goes, NotGrown DEF Advance, config
<1> QED
  BY <1>1, <1>6, <1>8, <1>9, ConfigStays, StoreStays DEF auth
(* ApplyEnd keeps the types; what is taken back is a port.                  *)
LEMMA ApplyEndTypes ==
  ASSUME Types, NEW h \in Handler, ApplyEnd(h), mixed' \in BOOLEAN
  PROVE  Types'
<1> USE DEF Types
<1>1. At(h, "probe") /\ UNCHANGED << pvars, file, auth, store, left, installs >>
  BY DEF ApplyEnd
<1>2. hd[h] \in Request(installs) /\ Fits(hd[h], Len(obj), store.made)
  BY RequestIs
<1>3. CASE Done(h) /\ UNCHANGED << obj, cur, past >>
  <2>1. PastTypes' /\ past.late' = past.late
    BY <1>1, <1>3, PastStays DEF auth
  <2> QED
    BY <1>1, <1>3, <2>1, DoneTypes DEF auth, config
<1>4. ASSUME hd[h].op = "settings", To(h, "web"), UNCHANGED << obj, cur, past >>
      PROVE  Types'
  <2>1. PastTypes' /\ past.late' = past.late
    BY <1>1, <1>4, PastStays DEF auth
  <2>2. PICK r : r = [hd[h] EXCEPT !.pc = "web"]
    OBVIOUS
  <2>3. r \in Request(installs)
    BY <1>2, <2>2 DEF Request, Label
  <2>4. r.op = "settings" /\ r.pc = "web" /\ r.ref = hd[h].ref
    BY <1>2, <1>4, <2>2 DEF Request
  <2>5. Fits(r, Len(obj), store.made)
    BY <1>2, <1>4, <2>4 DEF Fits, Places, Moving, Web
  <2> QED
    BY <1>1, <1>4, <2>1, <2>2, <2>3, <2>5, OnlyGoes DEF To, config, auth
<1>5. ASSUME hd[h].op = "settings",
             obj' = [obj EXCEPT ![hd[h].ref] = Reverted(@, hd[h].errs)],
             Install(h, hd[h].ref, "web", [past EXCEPT !.off = @ \ hd[h].errs])
      PROVE  Types'
  <2> DEFINE a    == hd[h].ref
             back == [p \in hd[h].errs |-> addr[p]]
             hist == [past EXCEPT !.off = @ \ hd[h].errs]
  <2>1. a \in 1 .. Len(obj) /\ hd[h].errs \subseteq Proto
    BY <1>1, <1>5, Applying DEF At
  <2>2. back \in Asked
    <3>1. hd[h].errs \in SUBSET Service
      BY <2>1, Ports
    <3>2. back \in [hd[h].errs -> Port]
      BY <2>1 DEF PortTypes
    <3> QED
      BY <3>1, <3>2, AskedOf
  <2>3. obj[a] \in Config(installs)
    BY <2>1 DEF ConfigTypes
  <2>4. Reverted(obj[a], hd[h].errs) \in Config(installs)
    BY <2>2, <2>3, WithPorts DEF Reverted
  <2>5. obj' \in Seq(Config(installs)) /\ Len(obj') = Len(obj)
    <3>1. obj' = [obj EXCEPT ![a] = Reverted(obj[a], hd[h].errs)]
      BY <1>5
    <3> QED
      BY <2>1, <2>4, <3>1, ObjectChanges
  <2>6. hist \in History /\ hist.late = past.late
    BY DEF PastTypes, History
  <2>7. past' \in History /\ past'.late \subseteq 1 .. installs
    BY <1>5, <2>6, InstallPast
  <2>8. PICK r : r = [hd[h] EXCEPT !.pc = "save", !.then = "web"]
    OBVIOUS
  <2>9. r \in Request(installs)
    BY <1>2, <2>8 DEF Request, Label, Moving
  <2>10. r.op = "settings" /\ r.pc = "save" /\ r.ref = a /\ r.then = "web"
    BY <1>2, <1>5, <2>8 DEF Request
  <2>11. Fits(r, Len(obj'), store'.made)
    BY <2>1, <2>5, <2>10 DEF Fits, Places, Web, Moving
  <2>12. Grown
    BY <1>1, <2>5, Counts DEF Grown
  <2>13. RequestTypes'
    BY <1>1, <1>5, <2>8, <2>9, <2>11, <2>12, Goes DEF Install
  <2>14. ConfigTypes'
    <3>1. cur' = a
      BY <1>5 DEF Install
    <3> QED
      BY <1>1, <2>1, <2>5, <2>7, <3>1, Counts DEF ConfigTypes, auth
  <2>15. PastTypes'
    BY <1>1, <2>7 DEF PastTypes, auth
  <2> QED
    BY <1>1, <2>13, <2>14, <2>15, PortsStay, StoreStays DEF auth
<1> QED
  BY <1>3, <1>4, <1>5 DEF ApplyEnd
(* WebRead keeps the types.                                                 *)
LEMMA WebReadTypes ==
  ASSUME Types, NEW h \in Handler, WebRead(h), mixed' \in BOOLEAN
  PROVE  Types'
<1> USE DEF Types
<1>1. At(h, "web") /\ UNCHANGED << pvars, config, auth, store, left, installs, past >>
  BY DEF WebRead
<1>2. hd[h] \in Request(installs) /\ Fits(hd[h], Len(obj), store.made)
  BY RequestIs
<1>3. PastTypes' /\ past.late' = past.late
  BY <1>1, PastStays DEF auth
<1>4. CASE "web" \in DOMAIN hd[h].want
  <2>1. Go(h, [hd[h] EXCEPT !.pc = "bind", !.port = webCur])
    BY <1>4 DEF WebRead
  <2>2. PICK r : r = [hd[h] EXCEPT !.pc = "bind", !.port = webCur]
    OBVIOUS
  <2>3. webCur \in Port
    BY DEF PortTypes
  <2>4. r \in Request(installs)
    BY <1>2, <2>2, <2>3 DEF Request, Label, Web
  <2>5. /\ r.op = hd[h].op /\ r.pc = "bind" /\ r.ref = hd[h].ref /\ r.want = hd[h].want
        /\ r.port = webCur
    BY <1>2, <2>2 DEF Request
  <2>6. hd[h].op = "settings"
    BY <1>1, <1>2 DEF At, Fits, Places, ResetPc, Moving, Web
  <2>7. Fits(r, Len(obj), store.made)
    BY <1>2, <1>4, <2>3, <2>5, <2>6 DEF Fits, Places, Moving, Web
  <2> QED
    BY <1>1, <1>3, <2>1, <2>2, <2>4, <2>7, OnlyGoes DEF auth
<1>5. CASE "web" \notin DOMAIN hd[h].want
  BY <1>1, <1>3, <1>5, DoneTypes DEF WebRead, auth
<1> QED
  BY <1>4, <1>5

(* What is known of a request that moves the web UI.                        *)
LEMMA MovingWeb ==
  ASSUME RequestTypes, NEW h \in Handler, hd[h].pc \in Web
  PROVE  /\ hd[h].op = "settings" /\ hd[h].ref \in 1 .. Len(obj)
         /\ hd[h].port \in Port /\ "web" \in DOMAIN hd[h].want /\ hd[h].want["web"] \in Port
<1>1. hd[h] \in Request(installs) /\ Fits(hd[h], Len(obj), store.made)
  BY RequestIs
<1>2. hd[h].op = "settings"
  BY <1>1 DEF Fits, Places, ResetPc, Web, Moving
<1>3. "web" \in DOMAIN hd[h].want /\ hd[h].want \in Asked
  BY <1>1 DEF Fits, Request
<1> QED
  BY <1>1, <1>2, <1>3, Asking DEF Fits
(* The steps of the web port change only where the request is.              *)
LEMMA WebMoves ==
  ASSUME RequestTypes, NEW h \in Handler, hd[h].pc \in Web, NEW l \in Web,
         NEW r, r = [hd[h] EXCEPT !.pc = l]
  PROVE  r \in Request(installs) /\ Fits(r, Len(obj), store.made)
<1>1. hd[h] \in Request(installs) /\ Fits(hd[h], Len(obj), store.made)
  BY RequestIs
<1>2. r \in Request(installs)
  BY <1>1 DEF Request, Label
<1>3. /\ r.op = hd[h].op /\ r.pc = l /\ r.ref = hd[h].ref /\ r.want = hd[h].want
      /\ r.port = hd[h].port
  BY <1>1 DEF Request
<1>4. Fits(r, Len(obj), store.made)
  BY <1>3, MovingWeb DEF Fits, Places, Moving, Web
<1> QED
  BY <1>2, <1>4
(* WebBind keeps the types.                                                 *)
LEMMA WebBindTypes ==
  ASSUME Types, NEW h \in Handler, WebBind(h), mixed' \in BOOLEAN
  PROVE  Types'
<1> USE DEF Types
<1>1. /\ At(h, "bind")
      /\ UNCHANGED << served, ln, closed, addr, swap, loop, config, auth, store, left, installs >>
  BY DEF WebBind
<1>2. hd[h].pc \in Web /\ "publish" \in Web
  BY <1>1 DEF At, Web
<1>3. hd[h].port \in Port /\ hd[h].want["web"] \in Port
  BY <1>2, MovingWeb
<1>4. CASE /\ BindWeb(hd[h].port, hd[h].want["web"]) /\ To(h, "publish")
           /\ past' = [past EXCEPT !.off = @ \ {"web"}]
  <2>1. PortTypes'
    BY <1>1, <1>3, <1>4, BindWebTypes
  <2>2. PastTypes' /\ past.late' = past.late
    BY <1>1, <1>4 DEF PastTypes, History, auth
  <2>3. PICK r : r = [hd[h] EXCEPT !.pc = "publish"]
    OBVIOUS
  <2>4. r \in Request(installs) /\ Fits(r, Len(obj), store.made)
    BY <1>2, <2>3, WebMoves
  <2>5. RequestTypes'
    BY <1>1, <1>4, <2>3, <2>4, Goes, NotGrown DEF To, config
  <2> QED
    BY <1>1, <2>1, <2>2, <2>5, ConfigStays, StoreStays DEF auth
<1>5. CASE /\ Done(h) /\ past' = [past EXCEPT !.off = @ \cup {"web"}]
           /\ UNCHANGED << bound, webCur, prevWeb >>
  <2>1. PastTypes' /\ past.late' = past.late
    BY <1>1, <1>5, Ports DEF PastTypes, History, auth
  <2> QED
    BY <1>1, <1>5, <2>1, DoneTypes DEF auth, pvars
<1> QED
  BY <1>4, <1>5 DEF WebBind
(* WebSwap keeps the types.                                                 *)
LEMMA WebSwapTypes ==
  ASSUME Types, NEW h \in Handler, WebSwap(h), mixed' \in BOOLEAN
  PROVE  Types'
<1> USE DEF Types
<1>1. UNCHANGED << served, ln, closed, addr, webCur, config, auth, store, left, installs, past >>
  BY DEF WebSwap
<1>2. PastTypes' /\ past.late' = past.late
  BY <1>1, PastStays DEF auth
<1>3. CASE At(h, "publish")  /\ First(hd[h].want["web"]) /\ To(h, "closeold")
  <2>1. hd[h].pc \in Web /\ "closeold" \in Web
    BY <1>3 DEF At, Web
  <2>2. hd[h].want["web"] \in Port
    BY <2>1, MovingWeb
  <2>3. PortTypes'
    BY <1>1, <1>3, <2>2, PublishWebTypes DEF First
  <2>4. PICK r : r = [hd[h] EXCEPT !.pc = "closeold"]
    OBVIOUS
  <2>5. r \in Request(installs) /\ Fits(r, Len(obj), store.made)
    BY <2>1, <2>4, WebMoves
  <2>6. RequestTypes'
    BY <1>1, <1>3, <2>4, <2>5, Goes, NotGrown DEF To, config
  <2> QED
    BY <1>1, <1>2, <2>3, <2>6, ConfigStays, StoreStays DEF auth
<1>4. CASE At(h, "closeold") /\ Second(hd[h].want["web"]) /\ Done(h)
  <2>1. PortTypes'
    BY <1>1, <1>4, ClosePrevWebTypes DEF Second
  <2>2. RequestTypes'
    BY <1>1, <1>4, Goes, IdleFits, Counts, NotGrown DEF Done, config
  <2> QED
    BY <1>1, <1>2, <2>1, <2>2, ConfigStays, StoreStays DEF auth
<1> QED
  BY <1>1, <1>3, <1>4 DEF WebSwap


(* ... what the reset runs into, ...                                        *)
LEMMA CreateAccountTypes ==
  ASSUME Types, NEW h \in Handler, CreateAccount(h), left' \in Plan, mixed' \in BOOLEAN
  PROVE  Types'
<1> USE DEF Types
<1> DEFINE a == store.made + 1
<1>1. /\ store' = [store EXCEPT !.made = a, !.accounts = @ \cup {a}]
      /\ past' = [past EXCEPT !.since = @ \cup {"accounts"},
                              !.strays = IF Resetting THEN @ \cup {a} ELSE @]
      /\ UNCHANGED << pvars, config, auth, hd, installs >>
  BY DEF CreateAccount
<1>2. a \in Nat /\ store.made \in Nat
  BY Counts
<1>3. /\ store' \in [accounts : SUBSET Nat, made : Nat, mail : SUBSET Nat, blobs : SUBSET Nat,
                     queue : BOOLEAN, outbound : BOOLEAN]
      /\ store'.made = a /\ store'.accounts = store.accounts \cup {a}
      /\ store'.mail = store.mail /\ store'.blobs = store.blobs
  BY <1>1, <1>2 DEF StoreTypes
<1>4. 1 .. store.made \subseteq 1 .. a /\ a \in 1 .. a
  BY <1>2
<1>5. StoreTypes'
  BY <1>1, <1>3, <1>4 DEF StoreTypes, auth
<1>6. past' \in History /\ past'.late = past.late
  <2>1. past.since \cup {"accounts"} \subseteq Kind
    BY PastIs DEF Kind
  <2>2. PICK y : y = IF Resetting THEN past.strays \cup {a} ELSE past.strays
    OBVIOUS
  <2>3. y \subseteq Nat
    BY <1>2, <2>2, PastIs
  <2>4. past' = [past EXCEPT !.since = past.since \cup {"accounts"}, !.strays = y]
    BY <1>1, <2>2 DEF PastTypes, History
  <2> QED
    BY <2>1, <2>3, <2>4 DEF PastTypes, History
<1>7. PastTypes'
  BY <1>1, <1>6 DEF PastTypes, auth
<1>8. Grown
  BY <1>1, <1>2, <1>3, Counts DEF Grown, config
<1>9. RequestTypes'
  BY <1>1, <1>8, StaysPut
<1> QED
  BY <1>1, <1>5, <1>6, <1>7, <1>9, PortsStay, ConfigStays DEF auth
(* A delivery writes its file for an account that was made.                 *)
LEMMA DeliverFileTypes ==
  ASSUME Types, NEW h \in Handler, DeliverFile(h), left' \in Plan, mixed' \in BOOLEAN
  PROVE  Types'
<1> USE DEF Types
<1>1. PICK a \in store.accounts :
        /\ store' = [store EXCEPT !.blobs = @ \cup {a}]
        /\ Go(h, [Idle EXCEPT !.pc = "row", !.op = "deliver", !.ref = a])
  BY DEF DeliverFile
<1>2. Wrote("blobs") /\ UNCHANGED << pvars, config, auth, installs >>
  BY DEF DeliverFile
<1>3. a \in 1 .. store.made /\ a \in Nat
  BY Counts DEF StoreTypes
<1>4. StoreTypes' /\ store'.made = store.made
  BY <1>1, <1>2, <1>3 DEF StoreTypes, auth
<1>5. PastTypes' /\ past.late' = past.late
  BY <1>2 DEF PastTypes, History, Wrote, Kind, auth
<1>6. PICK r : r = [Idle EXCEPT !.pc = "row", !.op = "deliver", !.ref = a]
  OBVIOUS
<1>7. installs \in Nat /\ Idle \in Request(installs)
  BY Counts, IdleFits
<1>8. r \in Request(installs)
  BY <1>3, <1>6, <1>7 DEF Request, Label, Op
<1>9. Fits(r, Len(obj), store'.made)
  BY <1>3, <1>4, <1>6 DEF Fits, Places, Idle, Web
<1>10. Grown
  BY <1>2, <1>4, Counts DEF Grown, config
<1>11. RequestTypes'
  BY <1>1, <1>2, <1>6, <1>8, <1>9, <1>10, Goes DEF config
<1> QED
  BY <1>2, <1>4, <1>5, <1>11, PortsStay, ConfigStays DEF auth

(* A request that ends with a change of the store.                          *)
LEMMA EndsTypes ==
  ASSUME Types, NEW h \in Handler, Done(h), StoreTypes', store.made' = store.made,
         PastTypes', past.late' = past.late, UNCHANGED << pvars, config, sessions, installs >>
  PROVE  Types'
<1> USE DEF Types
<1>1. Grown
  BY Counts DEF Grown, config
<1>2. RequestTypes'
  BY <1>1, Goes, IdleFits, Counts DEF Done, config
<1> QED
  BY <1>2, PortsStay, ConfigStays
(* A save that fails keeps the types, whether the request ends or goes on.  *)
LEMMA SaveFailsTypes ==
  ASSUME Types, NEW h \in Handler, SaveFails(h), mixed' \in BOOLEAN
  PROVE  Types'
<1> USE DEF Types
<1> DEFINE again == hd[h].errs # {}
           lost  == IF again THEN past.off ELSE past.off \cup DOMAIN hd[h].want
<1>1. /\ At(h, "write") \/ At(h, "save")
      /\ UNCHANGED << pvars, config, auth, store, left, installs >>
      /\ past' = [past EXCEPT !.since = @ \cup {"config"}, !.half = TRUE, !.off = lost]
      /\ IF again THEN To(h, hd[h].then) ELSE Done(h)
  BY DEF SaveFails, PastTypes, History
<1>2. hd[h] \in Request(installs) /\ Fits(hd[h], Len(obj), store.made)
  BY RequestIs
<1>3. /\ hd[h].then \in {"apply", "web"} /\ hd[h].op \in {"setup", "settings"}
      /\ hd[h].op = "setup" => hd[h].then = "apply" /\ DOMAIN hd[h].want = Service
      /\ hd[h].op = "settings" => hd[h].ref \in 1 .. Len(obj)
      /\ DOMAIN hd[h].want \subseteq Service
  BY <1>1, <1>2, Asking DEF At, Fits, Places, ResetPc, Request, Web
<1>4. PastTypes' /\ past'.late = past.late
  <2>1. past.since \cup {"config"} \subseteq Kind /\ lost \subseteq Service
    BY <1>3, PastIs DEF Kind, PastTypes, History
  <2>2. past' \in History /\ past'.late = past.late
    BY <1>1, <2>1 DEF PastTypes, History
  <2> QED
    BY <1>1, <2>2 DEF PastTypes, auth
<1>5. StoreTypes'
  BY <1>1, StoreStays DEF auth
<1>6. CASE ~ again
  BY <1>1, <1>4, <1>5, <1>6, EndsTypes DEF auth
<1>7. CASE again
  <2>1. PICK r : r = [hd[h] EXCEPT !.pc = hd[h].then]
    OBVIOUS
  <2>2. r \in Request(installs)
    BY <1>2, <1>3, <2>1 DEF Request, Label, Moving
  <2>3. r.op = hd[h].op /\ r.pc = hd[h].then /\ r.want = hd[h].want /\ r.ref = hd[h].ref
    BY <1>2, <2>1 DEF Request
  <2>4. Fits(r, Len(obj), store.made)
    BY <1>3, <2>3 DEF Fits, Places, Moving, Web
  <2>5. RequestTypes'
    BY <1>1, <1>7, <2>1, <2>2, <2>4, Goes, NotGrown DEF To, config, auth
  <2> QED
    BY <1>1, <1>4, <1>5, <2>5, PortsStay, ConfigStays DEF auth, config
<1> QED
  BY <1>6, <1>7
(* Its row is of an account that was made.                                  *)
LEMMA DeliverRowTypes ==
  ASSUME Types, NEW h \in Handler, DeliverRow(h), mixed' \in BOOLEAN
  PROVE  Types'
<1> USE DEF Types
<1>1. /\ Wrote("mail") /\ Done(h) /\ UNCHANGED << pvars, config, auth, left, installs >>
      /\ IF hd[h].ref \in store.accounts THEN store' = [store EXCEPT !.mail = @ \cup {hd[h].ref}]
         ELSE UNCHANGED store
  BY DEF DeliverRow
<1>2. StoreTypes' /\ store'.made = store.made
  BY <1>1 DEF StoreTypes, auth
<1>3. "mail" \in Kind
  BY DEF Kind
<1>4. PastTypes' /\ past.late' = past.late
  BY <1>1, <1>3, WroteTypes DEF auth
<1> QED
  BY <1>1, <1>2, <1>4, EndsTypes DEF auth
(* EnqueueFile keeps the types.                                             *)
LEMMA EnqueueFileTypes ==
  ASSUME Types, NEW h \in Handler, EnqueueFile(h), left' \in Plan, mixed' \in BOOLEAN
  PROVE  Types'
<1> USE DEF Types
<1>1. /\ store' = [store EXCEPT !.outbound = TRUE] /\ Wrote("outbound")
      /\ Go(h, [Idle EXCEPT !.pc = "enqueue", !.op = "enqueue"])
      /\ UNCHANGED << pvars, config, auth, installs >>
  BY DEF EnqueueFile
<1>2. StoreTypes' /\ store'.made = store.made
  BY <1>1 DEF StoreTypes, auth
<1>3. PastTypes' /\ past.late' = past.late
  BY <1>1 DEF PastTypes, History, Wrote, Kind, auth
<1>4. PICK r : r = [Idle EXCEPT !.pc = "enqueue", !.op = "enqueue"]
  OBVIOUS
<1>5. installs \in Nat /\ Idle \in Request(installs)
  BY Counts, IdleFits
<1>6. r \in Request(installs)
  BY <1>4, <1>5 DEF Request, Label, Op
<1>7. Fits(r, Len(obj), store'.made)
  BY <1>4 DEF Fits, Places, Idle, Web
<1>8. Grown
  BY <1>1, <1>2, Counts DEF Grown, config
<1>9. RequestTypes'
  BY <1>1, <1>4, <1>6, <1>7, <1>8, Goes DEF config
<1> QED
  BY <1>1, <1>2, <1>3, <1>9, PortsStay, ConfigStays DEF auth
(* EnqueueRow keeps the types.                                              *)
LEMMA EnqueueRowTypes ==
  ASSUME Types, NEW h \in Handler, EnqueueRow(h), mixed' \in BOOLEAN
  PROVE  Types'
<1> USE DEF Types
<1>1. /\ Wrote("queue") /\ Done(h) /\ UNCHANGED << pvars, config, auth, left, installs >>
      /\ store' = [store EXCEPT !.queue = TRUE]
  BY DEF EnqueueRow
<1>2. StoreTypes' /\ store'.made = store.made
  BY <1>1 DEF StoreTypes, auth
<1>3. "queue" \in Kind
  BY DEF Kind
<1>4. PastTypes' /\ past.late' = past.late
  BY <1>1, <1>3, WroteTypes DEF auth
<1> QED
  BY <1>1, <1>2, <1>4, EndsTypes DEF auth
(* MailLogin keeps the types.                                               *)
LEMMA MailLoginTypes ==
  ASSUME Types, NEW h \in Handler, MailLogin(h), PastTypes'
  PROVE  Types'
<1> USE DEF Types
<1>1. PICK a \in store.accounts :
        Go(h, [Idle EXCEPT !.pc = "mailsession", !.op = "maillogin", !.ref = a])
  BY DEF MailLogin
<1>2. UNCHANGED << pvars, config, auth, store, installs, past >>
  BY DEF MailLogin
<1>3. a \in 1 .. store.made /\ a \in Nat
  BY Counts DEF StoreTypes
<1>4. PICK r : r = [Idle EXCEPT !.pc = "mailsession", !.op = "maillogin", !.ref = a]
  OBVIOUS
<1>5. installs \in Nat /\ Idle \in Request(installs)
  BY Counts, IdleFits
<1>6. r \in Request(installs)
  BY <1>3, <1>4, <1>5 DEF Request, Label, Op
<1>7. Fits(r, Len(obj), store.made)
  BY <1>3, <1>4 DEF Fits, Places, Idle, Web
<1> QED
  BY <1>1, <1>2, <1>4, <1>6, <1>7, OnlyGoes DEF auth
(* A webmail session is of an account that was made.                        *)
LEMMA MailSessionTypes ==
  ASSUME Types, NEW h \in Handler, MailSession(h), mixed' \in BOOLEAN
  PROVE  Types'
<1> USE DEF Types
<1>1. /\ At(h, "mailsession") /\ mails' = mails \cup {hd[h].ref} /\ Wrote("mails") /\ Done(h)
      /\ UNCHANGED << pvars, config, sessions, reset, store, left, installs >>
  BY DEF MailSession
<1>2. hd[h].ref \in 1 .. store.made
  BY <1>1, RequestIs DEF At, Fits, Places, ResetPc, Moving, Web
<1>3. StoreTypes'
  BY <1>1, <1>2 DEF StoreTypes
<1>4. "mails" \in Kind
  BY DEF Kind
<1>5. PastTypes' /\ past.late' = past.late
  BY <1>1, <1>4, WroteTypes
<1> QED
  BY <1>1, <1>3, <1>5, EndsTypes
(* MailLogout keeps the types.                                              *)
LEMMA MailLogoutTypes ==
  ASSUME Types, NEW h \in Handler, MailLogout(h), PastTypes'
  PROVE  Types'
<1> USE DEF Types
<1>1. mails' \subseteq mails /\ UNCHANGED << pvars, config, sessions, reset, store, hd, installs, past >>
  BY DEF MailLogout
<1>2. StoreTypes'
  BY <1>1 DEF StoreTypes
<1> QED
  BY <1>1, <1>2, StaysPut, NotGrown, PortsStay, ConfigStays DEF config


(* ... the reset, ...                                                       *)
LEMMA ResetPrepareTypes ==
  ASSUME Types, NEW h \in Handler, ResetPrepare(h), left' \in Plan, mixed' \in BOOLEAN
  PROVE  Types'
<1> USE DEF Types
<1>1. /\ reset' = TRUE
      /\ UNCHANGED << pvars, config, sessions, mails, store, hd, installs, past >>
  BY DEF ResetPrepare
<1>2. PastTypes'
  BY <1>1 DEF PastTypes
<1> QED
  BY <1>1, <1>2, StaysPut, NotGrown, PortsStay, ConfigStays, StoreStays DEF config
(* A confirmed reset starts once: it takes the token.                       *)
LEMMA ResetConfirmTypes ==
  ASSUME Types, NEW h \in Handler, ResetConfirm(h), left' \in Plan, mixed' \in BOOLEAN
  PROVE  Types'
<1> USE DEF Types
<1>1. reset' = FALSE /\ UNCHANGED << pvars, config, sessions, mails, store, installs >>
  BY DEF ResetConfirm
<1>2. CASE UNCHANGED << past, hd >>
  <2>1. PastTypes'
    BY <1>1, <1>2 DEF PastTypes
  <2> QED
    BY <1>1, <1>2, <2>1, StaysPut, NotGrown, PortsStay, ConfigStays, StoreStays DEF config
<1>3. CASE /\ past' = IF Resetting THEN past ELSE [past EXCEPT !.since = {}]
           /\ Go(h, [Idle EXCEPT !.pc = "messages", !.op = "reset"])
  <2>1. past' \in History /\ past'.late = past.late
    BY <1>3 DEF PastTypes, History
  <2>2. PastTypes'
    BY <1>1, <2>1 DEF PastTypes
  <2>3. PICK r : r = [Idle EXCEPT !.pc = "messages", !.op = "reset"]
    OBVIOUS
  <2>4. installs \in Nat /\ Idle \in Request(installs)
    BY Counts, IdleFits
  <2>5. r \in Request(installs)
    BY <2>3, <2>4 DEF Request, Label, Op, ResetPc
  <2>6. Fits(r, Len(obj), store.made)
    BY <2>3 DEF Fits, Places, Idle, Web, ResetPc
  <2> QED
    BY <1>1, <1>3, <2>1, <2>2, <2>3, <2>5, <2>6, OnlyGoes
<1> QED
  BY <1>2, <1>3 DEF ResetConfirm
(* The steps of a reset change only where the request is.                   *)
LEMMA ResetMoves ==
  ASSUME RequestTypes, NEW h \in Handler, hd[h].pc \in ResetPc, NEW l \in ResetPc,
         NEW r, r = [hd[h] EXCEPT !.pc = l]
  PROVE  /\ r \in Request(installs) /\ Fits(r, Len(obj), store.made)
         /\ hd[h].op = "reset" /\ r.op = "reset" /\ r.pc = l
<1>1. hd[h] \in Request(installs) /\ Fits(hd[h], Len(obj), store.made)
  BY RequestIs
<1>2. hd[h].op = "reset"
  BY <1>1 DEF Fits, Places, ResetPc, Web, Moving
<1>3. r \in Request(installs)
  BY <1>1 DEF Request, Label
<1>4. r.op = "reset" /\ r.pc = l
  BY <1>1, <1>2 DEF Request
<1> QED
  BY <1>2, <1>3, <1>4 DEF Fits, Places, ResetPc, Web
(* A step of a reset keeps the types if what it clears does.                *)
LEMMA ResetStepTypes ==
  ASSUME Types, NEW h \in Handler, hd[h].pc \in ResetPc, NEW l \in ResetPc, To(h, l),
         StoreTypes', store.made' = store.made, ConfigTypes', PastTypes',
         UNCHANGED << pvars, obj, installs >>
  PROVE  Types'
<1> USE DEF Types
<1>1. PICK r : r = [hd[h] EXCEPT !.pc = l]
  OBVIOUS
<1>2. r \in Request(installs) /\ Fits(r, Len(obj), store.made)
  BY <1>1, ResetMoves
<1>3. Grown
  BY Counts DEF Grown
<1>4. RequestTypes'
  BY <1>1, <1>2, <1>3, Goes DEF To
<1> QED
  BY <1>4, PortsStay
(* Clearing a table keeps the types.                                        *)
LEMMA ResetTableTypes ==
  ASSUME Types, NEW h \in Handler, ResetTable(h), mixed' \in BOOLEAN
  PROVE  Types'
<1> USE DEF Types
<1>1. UNCHANGED << pvars, config, auth, left, installs, past >>
  BY DEF ResetTable
<1>2. PICK l \in ResetPc : hd[h].pc \in ResetPc /\ To(h, l)
  BY DEF ResetTable, At, ResetPc
<1>3. StoreTypes' /\ store.made' = store.made
  BY <1>1 DEF ResetTable, StoreTypes, Cleared, auth
<1>4. PastTypes' /\ ConfigTypes'
  BY <1>1, PastStays, ConfigStays DEF auth
<1> QED
  BY <1>1, <1>2, <1>3, <1>4, ResetStepTypes DEF config
(* Clearing a directory keeps the types.                                    *)
LEMMA ResetFilesTypes ==
  ASSUME Types, NEW h \in Handler, ResetFiles(h), mixed' \in BOOLEAN
  PROVE  Types'
<1> USE DEF Types
<1>1. UNCHANGED << pvars, config, auth, left, installs, past >>
  BY DEF ResetFiles
<1>2. StoreTypes' /\ store.made' = store.made
  BY <1>1 DEF ResetFiles, StoreTypes, Wiped, auth
<1>3. PastTypes' /\ ConfigTypes'
  BY <1>1, PastStays, ConfigStays DEF auth
<1>4. CASE Done(h)
  BY <1>1, <1>2, <1>3, <1>4, EndsTypes DEF auth
<1>5. CASE ~ Done(h)
  <2>1. PICK l \in ResetPc : hd[h].pc \in ResetPc /\ To(h, l)
    BY <1>5 DEF ResetFiles, At, ResetPc
  <2> QED
    BY <1>1, <1>2, <1>3, <2>1, ResetStepTypes DEF config
<1> QED
  BY <1>4, <1>5
(* Dropping sessions and configuration keeps the types.                     *)
LEMMA ResetForgetTypes ==
  ASSUME Types, NEW h \in Handler, ResetForget(h), mixed' \in BOOLEAN
  PROVE  Types'
<1> USE DEF Types
<1>1. /\ At(h, "forget") /\ To(h, "remove") /\ cur' = Nil /\ sessions' = {}
      /\ UNCHANGED << pvars, obj, file, mails, reset, store, left, installs, past >>
  BY DEF ResetForget, Forgotten
<1>2. ConfigTypes'
  BY <1>1, Counts DEF ConfigTypes, Nil
<1>3. PastTypes' /\ StoreTypes'
  BY <1>1, PastStays, StoreStays
<1>4. hd[h].pc \in ResetPc /\ "remove" \in ResetPc
  BY <1>1 DEF At, ResetPc
<1> QED
  BY <1>1, <1>2, <1>3, <1>4, ResetStepTypes
(* Removing the file keeps the types.                                       *)
LEMMA ResetRemoveTypes ==
  ASSUME Types, NEW h \in Handler, ResetRemove(h), mixed' \in BOOLEAN
  PROVE  Types'
<1> USE DEF Types
<1>1. At(h, "remove") /\ UNCHANGED << pvars, obj, cur, auth, store, left, installs >>
  BY DEF ResetRemove
<1>2. CASE /\ To(h, "mails") /\ file' = [gen |-> file.gen + 1, is |-> Absent]
           /\ UNCHANGED past
  <2>1. file.gen \in Nat
    BY DEF ConfigTypes
  <2>2. file' \in [gen : Nat, is : Config(installs) \cup {Absent, Torn}]
    BY <1>2, <2>1
  <2>3. ConfigTypes'
    BY <1>1, <1>2, <2>2 DEF ConfigTypes, auth
  <2>4. PastTypes' /\ StoreTypes'
    BY <1>1, <1>2, PastStays, StoreStays DEF auth
  <2>5. hd[h].pc \in ResetPc /\ "mails" \in ResetPc
    BY <1>1 DEF At, ResetPc
  <2> QED
    BY <1>1, <1>2, <2>3, <2>4, <2>5, ResetStepTypes
<1>3. CASE Done(h) /\ past' = [past EXCEPT !.half = TRUE] /\ UNCHANGED file
  <2>1. PastTypes' /\ past'.late = past.late
    BY <1>1, <1>3, PastIs DEF PastTypes, History, auth
  <2>2. StoreTypes'
    BY <1>1, StoreStays DEF auth
  <2> QED
    BY <1>1, <1>3, <2>1, <2>2, EndsTypes DEF auth, config
<1> QED
  BY <1>2, <1>3 DEF ResetRemove
(* Dropping the webmail sessions keeps the types.                           *)
LEMMA ResetDoneTypes ==
  ASSUME Types, NEW h \in Handler, ResetDone(h), mixed' \in BOOLEAN
  PROVE  Types'
<1> USE DEF Types
<1>1. /\ mails' = {} /\ Done(h)
      /\ UNCHANGED << pvars, config, sessions, reset, store, left, installs, past >>
  BY DEF ResetDone
<1>2. StoreTypes' /\ PastTypes'
  BY <1>1, PastStays DEF StoreTypes
<1> QED
  BY <1>1, <1>2, EndsTypes

(* ... and a new process.                                                   *)
LEMMA AfterStartTypes ==
  ASSUME NEW want \in [Service -> Port], NEW taken \in SUBSET Port, CanStart(want, taken),
         NEW l, l = AfterStart(want, taken)
  PROVE  /\ l.bound \in [Port -> Service \cup {"free", "other"}]
         /\ l.served \subseteq Port /\ \A q \in l.served : l.bound[q] \in Proto
         /\ l.ln \in [Proto -> Port \cup {NoPort}] /\ l.addr \in [Proto -> Port]
         /\ l.loop = [pc |-> "serve", on |-> want["web"], open |-> TRUE] /\ want["web"] \in Port
<1> DEFINE up == Starts(want, taken)
           who(q) == {p \in up \cup {"web"} : want[p] = q}
           b == [q \in Port |-> IF q \in taken THEN "other"
                                ELSE IF who(q) # {} THEN CHOOSE p \in who(q) : TRUE ELSE "free"]
<1>1. /\ l.bound = b /\ l.served = {want[p] : p \in up}
      /\ l.ln = [p \in Proto |-> IF p \in up THEN want[p] ELSE NoPort]
      /\ l.addr = [p \in Proto |-> want[p]]
      /\ l.loop = [pc |-> "serve", on |-> want["web"], open |-> TRUE]
  BY DEF AfterStart
<1>2. /\ up \subseteq Proto /\ \A p \in up : want[p] \notin taken
      /\ \A p \in Proto : want[p] # want["web"]
  BY DEF Starts, CanStart
<1>3. /\ \A p \in Proto : want[p] \in Port
      /\ want["web"] \in Port /\ Proto \subseteq Service /\ "web" \in Service
  BY Ports
<1> HIDE DEF up
<1>4. ASSUME NEW q, who(q) # {}
      PROVE  (CHOOSE p \in who(q) : TRUE) \in who(q)
  BY <1>4
<1>5. b \in [Port -> Service \cup {"free", "other"}]
  <2>1. ASSUME NEW q \in Port PROVE b[q] \in Service \cup {"free", "other"}
    <3>1. who(q) \subseteq Service
      BY <1>2, <1>3
    <3> QED
      BY <1>4, <3>1
  <2> QED
    BY <2>1
<1>6. ASSUME NEW p \in up PROVE want[p] \in Port /\ b[want[p]] \in Proto
  <2>1. want[p] \in Port /\ want[p] \notin taken /\ p \in who(want[p])
    BY <1>2, <1>3
  <2>2. b[want[p]] \in who(want[p])
    BY <1>4, <2>1
  <2>3. who(want[p]) \subseteq Proto
    BY <1>2
  <2> QED
    BY <2>1, <2>2, <2>3
<1> HIDE DEF b, who
<1>7. l.served \subseteq Port /\ \A q \in l.served : l.bound[q] \in Proto
  BY <1>1, <1>6
<1>8. l.ln \in [Proto -> Port \cup {NoPort}] /\ l.addr \in [Proto -> Port]
  BY <1>1, <1>3
<1> QED
  BY <1>1, <1>3, <1>5, <1>7, <1>8
(* A restart knows what the file says and nothing else.                     *)
LEMMA RestartTypes ==
  ASSUME Types, Restart
  PROVE  Types'
<1> USE DEF Types
<1> DEFINE want  == PortOf(Loaded)
           taken == {q \in Port : bound[q] = "other"}
           l     == AfterStart(want, taken)
<1>1. /\ CanStart(want, taken)
      /\ obj' = IF Loaded = Absent THEN << >> ELSE << Loaded >>
      /\ cur' = IF Loaded = Absent THEN Nil ELSE 1
      /\ bound' = l.bound /\ served' = l.served /\ ln' = l.ln /\ addr' = l.addr
      /\ loop' = l.loop /\ webCur' = l.loop.on
      /\ past' = [Past(Proto \ Starts(want, taken)) EXCEPT !.strays = past.strays]
      /\ closed' = [p \in Proto |-> FALSE] /\ prevWeb' = NoPort /\ swap' = NoPort
      /\ sessions' = {} /\ mails' = {} /\ reset' = FALSE
      /\ hd' = [h \in Handler |-> Idle]
      /\ mixed' = FALSE
      /\ UNCHANGED << file, store, installs >>
      /\ left' = [left EXCEPT !.restarts = @ - 1] /\ left.restarts > 0
  BY DEF Restart
<1>2. Loaded = Absent \/ (Loaded = file.is /\ Loaded \in Config(installs))
  BY DEF Loaded, Broken, ConfigTypes
<1>3. want \in [Service -> Port]
  <2>1. CASE Loaded = Absent
    BY <2>1, Ports DEF PortOf
  <2>2. CASE Loaded \in Config(installs)
    BY <2>2, Ports DEF PortOf, Config
  <2> QED
    BY <1>2, <2>1, <2>2
<1>4. taken \in SUBSET Port
  OBVIOUS
<1> HIDE DEF want, taken
<1>5. /\ l.bound \in [Port -> Service \cup {"free", "other"}]
      /\ l.served \subseteq Port /\ \A q \in l.served : l.bound[q] \in Proto
      /\ l.ln \in [Proto -> Port \cup {NoPort}] /\ l.addr \in [Proto -> Port]
      /\ l.loop = [pc |-> "serve", on |-> want["web"], open |-> TRUE] /\ want["web"] \in Port
  BY <1>1, <1>3, <1>4, AfterStartTypes
<1> HIDE DEF l
<1>6. PortTypes'
  <2>1. closed' \in [Proto -> BOOLEAN]
    BY <1>1
  <2>2. /\ loop' \in [pc : {"serve", "track", "dead"}, on : Port \cup {NoPort}, open : BOOLEAN]
        /\ loop'.on \in Port /\ webCur' \in Port
    BY <1>1, <1>5
  <2> QED
    BY <1>1, <1>5, <2>1, <2>2 DEF PortTypes
<1>7. past' \in History /\ past'.late = {} /\ past'.strays = past.strays
  <2>1. Starts(want, taken) \subseteq Proto /\ past.strays \subseteq Nat
    BY PastIs DEF Starts
  <2>2. [p \in Proto |-> 0] \in [Proto -> Nat]
    OBVIOUS
  <2> QED
    BY <1>1, <2>1, <2>2 DEF Past, History
<1>8. PastTypes'
  <2>1. left.restarts - 1 \in Nat
    BY <1>1 DEF PastTypes, Plan
  <2>2. left' \in Plan
    BY <1>1, <2>1 DEF PastTypes, Plan
  <2> QED
    BY <1>1, <1>7, <2>2 DEF PastTypes
<1>9. obj' \in Seq(Config(installs)) /\ cur' \in 0 .. Len(obj') /\ Len(obj') \in Nat
  <2>1. CASE Loaded = Absent
    BY <1>1, <2>1 DEF Nil
  <2>2. CASE Loaded # Absent
    BY <1>1, <1>2, <2>2 DEF Nil
  <2> QED
    BY <2>1, <2>2
<1>10. ConfigTypes'
  BY <1>1, <1>7, <1>9 DEF ConfigTypes
<1>11. StoreTypes'
  BY <1>1 DEF StoreTypes
<1>12. RequestTypes'
  <2>1. installs \in Nat
    BY Counts
  <2>2. Idle \in Request(installs) /\ Fits(Idle, Len(obj'), store'.made)
    BY <2>1, IdleFits
  <2> QED
    BY <1>1, <2>2 DEF RequestTypes
<1> QED
  BY <1>6, <1>8, <1>10, <1>11, <1>12


(* The first start has the types.                                           *)
LEMMA InitTypes ==
  ASSUME Init
  PROVE  Types
<1>1. PICK s \in Scenario :
       LET n == IF s.installed THEN 1 ELSE 0
       IN /\ left = s
          /\ installs = n /\ cur = n /\ sessions = 1 .. n
          /\ obj  = [i \in 1 .. n |-> Installed]
          /\ file = [gen |-> 0, is |-> IF s.installed THEN Installed ELSE Absent]
          /\ store = [NoStore EXCEPT !.made = n, !.accounts = 1 .. n, !.mail = 1 .. n, !.blobs = 1 .. n]
          /\ LET l == AfterStart(DefaultPort, s.busy)
             IN /\ bound = l.bound /\ served = l.served /\ ln = l.ln /\ addr = l.addr
                /\ loop = l.loop /\ webCur = l.loop.on
          /\ past = Past(Proto \ Starts(DefaultPort, s.busy))
  BY DEF Init
<1> DEFINE l == AfterStart(DefaultPort, s.busy)
<1>2. PICK n \in {0, 1} : n = IF s.installed THEN 1 ELSE 0
  OBVIOUS
<1>3. /\ closed = [p \in Proto |-> FALSE] /\ prevWeb = NoPort /\ swap = NoPort
      /\ mails = {} /\ reset = FALSE /\ hd = [h \in Handler |-> Idle] /\ mixed = FALSE
  BY DEF Init
<1>4. s \in Plan /\ s.busy \in SUBSET Port /\ CanStart(DefaultPort, s.busy)
  BY ConsoleAssumption DEF Plan
<1>5. DefaultPort \in [Service -> Port]
  BY Ports
<1>6. /\ l.bound \in [Port -> Service \cup {"free", "other"}]
      /\ l.served \subseteq Port /\ \A q \in l.served : l.bound[q] \in Proto
      /\ l.ln \in [Proto -> Port \cup {NoPort}] /\ l.addr \in [Proto -> Port]
      /\ l.loop = [pc |-> "serve", on |-> DefaultPort["web"], open |-> TRUE]
      /\ DefaultPort["web"] \in Port
  BY <1>4, <1>5, AfterStartTypes
<1>7. bound = l.bound /\ served = l.served /\ ln = l.ln /\ addr = l.addr /\ loop = l.loop /\ webCur = l.loop.on
  BY <1>1
<1> HIDE DEF l
<1>8. PortTypes
  <2>1. closed \in [Proto -> BOOLEAN]
    BY <1>3
  <2> QED
    BY <1>3, <1>6, <1>7, <2>1 DEF PortTypes
<1>9. Installed \in Config(1)
  BY <1>5 DEF Installed, Config
<1>10. installs = n /\ cur = n /\ sessions = 1 .. n /\ obj  = [i \in 1 .. n |-> Installed]
  BY <1>1, <1>2
<1>11. /\ file = [gen |-> 0, is |-> IF s.installed THEN Installed ELSE Absent]
       /\ store = [NoStore EXCEPT !.made = n, !.accounts = 1 .. n, !.mail = 1 .. n, !.blobs = 1 .. n]
       /\ left = s /\ past = Past(Proto \ Starts(DefaultPort, s.busy))
  BY <1>1, <1>2
<1>12. past \in History /\ past.late = {}
  <2>1. Starts(DefaultPort, s.busy) \subseteq Proto
    BY DEF Starts
  <2>2. [p \in Proto |-> 0] \in [Proto -> Nat]
    OBVIOUS
  <2> QED
    BY <1>11, <2>1, <2>2 DEF Past, History
<1>13. obj \in Seq(Config(n)) /\ Len(obj) = n
  BY <1>9, <1>10
<1>14. file \in [gen : Nat, is : Config(n) \cup {Absent, Torn}]
  <2>1. s.installed => n = 1
    BY <1>2
  <2> QED
    BY <1>9, <1>11, <2>1
<1>15. ConfigTypes
  <2>1. sessions \subseteq 1 .. installs /\ past.late \subseteq 1 .. installs /\ cur \in 0 .. Len(obj)
    BY <1>10, <1>12, <1>13
  <2> QED
    BY <1>10, <1>13, <1>14, <2>1 DEF ConfigTypes
<1>16. StoreTypes
  <2>1. 1 .. n \subseteq Nat /\ n \in Nat
    OBVIOUS
  <2> DEFINE ids == 1 .. n
  <2> HIDE DEF ids
  <2>2. store = [accounts |-> ids, made |-> n, mail |-> ids, blobs |-> ids,
                 queue |-> FALSE, outbound |-> FALSE]
    BY <1>11 DEF NoStore, ids
  <2>3. ids \in SUBSET Nat
    BY <2>1 DEF ids
  <2>4. store \in [accounts : SUBSET Nat, made : Nat, mail : SUBSET Nat, blobs : SUBSET Nat,
                   queue : BOOLEAN, outbound : BOOLEAN]
    BY <2>1, <2>2, <2>3
  <2>5. store.accounts \cup store.mail \cup store.blobs \cup mails \subseteq 1 .. store.made
    BY <1>3, <2>2 DEF ids
  <2> QED
    BY <2>4, <2>5 DEF StoreTypes
<1>17. PastTypes
  BY <1>3, <1>4, <1>11, <1>12 DEF PastTypes
<1>18. RequestTypes
  <2>1. installs \in Nat
    BY <1>10
  <2> QED
    BY <1>3, <2>1, IdleFits DEF RequestTypes
<1> QED
  BY <1>8, <1>15, <1>16, <1>17, <1>18 DEF Types

(* Every request begins well typed.                                         *)
LEMMA BeginTypes ==
  ASSUME Types, NEW h \in Handler, Begin(h), mixed' \in BOOLEAN
  PROVE  Types'
<1>1. left' \in Plan
  <2>1. left \in Plan /\ left.requests > 0 /\ left' = [left EXCEPT !.requests = @ - 1]
    BY DEF Begin, Types, PastTypes
  <2>2. left.requests - 1 \in Nat
    BY <2>1 DEF Plan
  <2> QED
    BY <2>1, <2>2 DEF Plan
<1>2. UNCHANGED << past, reset >> => PastTypes'
  BY <1>1 DEF Types, PastTypes
<1>3. At(h, "idle")
  BY DEF Begin
<1>4. CASE SetupAsk(h)
  BY <1>2, <1>3, <1>4, SetupAskTypes DEF SetupAsk, auth
<1>5. CASE LoginRead(h)
  BY <1>2, <1>5, LoginReadTypes DEF LoginRead, auth
<1>6. CASE Logout(h)
  BY <1>2, <1>6, LogoutTypes DEF Logout
<1>7. CASE SettingsRead(h)
  BY <1>2, <1>7, SettingsReadTypes DEF SettingsRead, auth
<1>8. CASE MailLogin(h)
  BY <1>2, <1>8, MailLoginTypes DEF MailLogin, auth
<1>9. CASE MailLogout(h)
  BY <1>2, <1>9, MailLogoutTypes DEF MailLogout
<1> QED
  BY <1>1, <1>4, <1>5, <1>6, <1>7, <1>8, <1>9, ResetPrepareTypes, ResetConfirmTypes,
     CreateAccountTypes, DeliverFileTypes, EnqueueFileTypes DEF Begin
(* Every step of one keeps the types.                                       *)
LEMMA GoOnTypes ==
  ASSUME Types, NEW h \in Handler, GoOn(h), mixed' \in BOOLEAN
  PROVE  Types'
<1>1. CASE SetupConfig(h) \/ Truncate(h) \/ Write(h) \/ SaveFails(h) \/ LoginSession(h)
           \/ MailSession(h) \/ SettingsChange(h) \/ SettingsRefused(h) \/ SettingsSet(h)
  BY <1>1, SetupConfigTypes, TruncateTypes, WriteTypes, SaveFailsTypes, LoginSessionTypes, MailSessionTypes,
     SettingsChangeTypes, SettingsRefusedTypes, SettingsSetTypes
<1>2. CASE ApplyBegin(h) \/ ApplyProbe(h) \/ ApplyClose(h) \/ ApplyListen(h) \/ ApplyEnd(h)
           \/ WebRead(h) \/ WebBind(h) \/ WebSwap(h)
  BY <1>2, ApplyBeginTypes, ApplyProbeTypes, ApplyCloseTypes, ApplyListenTypes, ApplyEndTypes,
     WebReadTypes, WebBindTypes, WebSwapTypes
<1>3. CASE DeliverRow(h) \/ EnqueueRow(h) \/ ResetTable(h) \/ ResetFiles(h) \/ ResetForget(h)
           \/ ResetRemove(h) \/ ResetDone(h)
  BY <1>3, DeliverRowTypes, EnqueueRowTypes, ResetTableTypes, ResetFilesTypes, ResetForgetTypes,
     ResetRemoveTypes, ResetDoneTypes
<1> QED
  BY <1>1, <1>2, <1>3 DEF GoOn
(* So do the listeners, and another process that takes a port.              *)
LEMMA ListenersTypes ==
  ASSUME Types, Listeners \/ Taken, mixed' \in BOOLEAN
  PROVE  Types'
<1> USE DEF Types
<1>1. UNCHANGED << config, auth, store, hd, installs, past >>
  BY DEF Listeners, Taken
<1>2. PortTypes'
  <2>1. CASE Taken
    BY <2>1, GrabTypes DEF Taken
  <2>2. CASE Listeners
    BY <2>2, LoopTypes DEF Listeners
  <2> QED
    BY <2>1, <2>2
<1>3. left' \in Plan
  <2>1. CASE Taken
    <3>1. left \in Plan /\ left.grabs > 0 /\ left' = [left EXCEPT !.grabs = @ - 1]
      BY <2>1 DEF Taken, PastTypes
    <3>2. left.grabs - 1 \in Nat
      BY <3>1 DEF Plan
    <3> QED
      BY <3>1, <3>2 DEF Plan
  <2>2. CASE Listeners
    BY <2>2 DEF Listeners, PastTypes
  <2> QED
    BY <2>1, <2>2
<1>4. PastTypes'
  BY <1>1, <1>3 DEF PastTypes, auth
<1> QED
  BY <1>1, <1>2, <1>4, StaysPut, NotGrown, ConfigStays, StoreStays DEF config, auth

(* The types are inductive.                                                 *)
LEMMA NextTypes ==
  ASSUME Types, [Next]_vars
  PROVE  Types'
<1>1. CASE UNCHANGED vars
  <2>1. PastTypes'
    BY <1>1 DEF Types, PastTypes, vars, auth
  <2> QED
    BY <1>1, <2>1, StaysPut, NotGrown, PortsStay, ConfigStays, StoreStays
       DEF Types, vars, config, auth
<1>2. CASE Restart
  BY <1>2, RestartTypes
<1>3. ASSUME Taken \/ Listeners \/ \E h \in Handler : Begin(h) \/ GoOn(h),
             mixed' = (mixed \/ Overlap')
      PROVE  Types'
  <2>1. mixed' \in BOOLEAN
    BY <1>3 DEF Overlap
  <2> QED
    BY <1>3, <2>1, ListenersTypes, BeginTypes, GoOnTypes
<1> QED
  BY <1>1, <1>2, <1>3 DEF Next


(* The types imply the type invariant of the run.                           *)
LEMMA TypesSuffice ==
  ASSUME Types
  PROVE  TypeOK
<1> USE DEF Types
<1>1. Broken(file.is) \/ file.is.inst \in 1 .. installs
  BY DEF ConfigTypes, Config, Broken
<1>2. cur \in DOMAIN obj \cup {Nil}
  BY DEF ConfigTypes, Nil
<1>3. sessions \cup past.late \subseteq 1 .. installs /\ store.mail \cup mails \subseteq 1 .. store.made
  BY DEF ConfigTypes, StoreTypes
<1>4. \A p \in Proto : addr[p] \in Port /\ ln[p] \in Port \cup {NoPort}
  BY DEF PortTypes
<1>5. loop.on \in Port \cup {NoPort}
  BY DEF PortTypes
<1> QED
  BY <1>1, <1>2, <1>3, <1>4, <1>5 DEF TypeOK, PortTypes

(* The types are kept: tables, files, sessions, listeners, requests.        *)
THEOREM TypeCorrect == Spec => []TypeOK
<1>1. Init => Types
  BY InitTypes
<1>2. Types /\ [Next]_vars => Types'
  BY NextTypes
<1>3. Types => TypeOK
  BY TypesSuffice
<1> QED
  BY <1>1, <1>2, <1>3, PTL DEF Spec
-----------------------------------------------------------------------------
(* What a step may do to the sessions: open one of the running installation *)
(* or of one that a login outlived, or drop them all; a configuration goes  *)
(* out of use unnoticed by no session.                                      *)
Admits ==
  \/ sessions' = {}
  \/ /\ past.late \subseteq past'.late
     /\ \A i \in sessions' : i \in sessions \/ i = Now'.inst \/ i \in past'.late
     /\ Now.inst \in {0, Now'.inst} \cup past'.late

(* Such a step keeps the promise about sessions.                            *)
LEMMA AdmitsKeeps ==
  ASSUME ConfigTypes, SessionOfThisInstall, Admits
  PROVE  SessionOfThisInstall'
<1>1. CASE sessions' = {}
  BY <1>1 DEF SessionOfThisInstall
<1>2. CASE sessions' # {}
  <2>1. \A i \in sessions : i # 0 /\ (i = Now.inst \/ i \in past.late)
    BY DEF ConfigTypes, SessionOfThisInstall
  <2> QED
    BY <1>2, <2>1 DEF Admits, SessionOfThisInstall
<1> QED
  BY <1>1, <1>2
(* A step that touches no session is such a step.                           *)
LEMMA NothingAdmitted ==
  ASSUME UNCHANGED << obj, cur, sessions >>, past'.late = past.late
  PROVE  Admits
<1>1. Now' = Now
  BY DEF Now
<1> QED
  BY <1>1 DEF Admits

(* A step that the rows, the files and a running reset do not feel: it      *)
(* neither is one of a reset or a delivery nor touches the store, and what  *)
(* it writes it tells.                                                      *)
Apart ==
  /\ \A g \in Handler : hd'[g] = hd[g] \/ hd'[g].pc \notin ResetPc \cup {"row"}
  /\ store' = store /\ past'.strays = past.strays
  /\ past.since \subseteq past'.since
  /\ sessions' \subseteq sessions \/ "sessions" \in past'.since
  /\ cur' = cur \/ "config" \in past'.since
  /\ file' = file \/ "config" \in past'.since

(* A request that goes elsewhere is at no place a reset or a delivery       *)
(* matters.                                                                 *)
LEMMA Elsewhere ==
  ASSUME RequestTypes, NEW h \in Handler, NEW r, Go(h, r), r.pc \notin ResetPc \cup {"row"}
  PROVE  \A g \in Handler : hd'[g] = hd[g] \/ hd'[g].pc \notin ResetPc \cup {"row"}
BY DEF RequestTypes, Go
(* A request with a new label has it.                                       *)
LEMMA Relabelled ==
  ASSUME RequestTypes, NEW h \in Handler, NEW l \in Label
  PROVE  [hd[h] EXCEPT !.pc = l].pc = l
BY RequestIs DEF Request
(* Such a step keeps rows and files together.                               *)
LEMMA ApartRows ==
  ASSUME Rows, Apart
  PROVE  Rows'
<1>1. store.mail' \subseteq store.accounts' /\ RowsKeepFiles'
  BY DEF Rows, Apart, RowsKeepFiles
<1>2. ASSUME NEW g \in Handler
      PROVE  /\ At(g, "row")' /\ hd'[g].ref \in store'.accounts \ past'.strays => hd'[g].ref \in store'.blobs
             /\ At(g, "blobs")' => store'.accounts \subseteq past'.strays
  <2>1. hd'[g] = hd[g] \/ hd'[g].pc \notin ResetPc \cup {"row"}
    BY DEF Apart
  <2>2. "blobs" \in ResetPc
    BY DEF ResetPc
  <2> QED
    BY <2>1, <2>2 DEF Rows, Apart, At
<1> QED
  BY <1>1, <1>2 DEF Rows

(* What there is more of than before is recorded, so that whatever was      *)
(* swept stays swept.                                                       *)
Recorded ==
  /\ past.since \subseteq past'.since
  /\ store'.queue => store.queue \/ "queue" \in past'.since
  /\ store'.accounts # {} => store.accounts # {} \/ "accounts" \in past'.since
  /\ store'.mail # {} => store.mail # {} \/ "mail" \in past'.since
  /\ store'.blobs # {} => store.blobs # {} \/ "blobs" \in past'.since
  /\ store'.outbound => store.outbound \/ "outbound" \in past'.since
  /\ sessions' # {} => sessions # {} \/ "sessions" \in past'.since
  /\ cur' # Nil => cur # Nil \/ "config" \in past'.since
  /\ file'.is # Absent => file.is # Absent \/ "config" \in past'.since
(* What a reset has swept stays swept when nothing is written.              *)
LEMMA StaysSwept ==
  ASSUME Recorded, NEW l, SweptAt(l) \/ l \notin ResetPc
  PROVE  SweptAt(l)'
BY DEF Recorded, SweptAt, ResetPc
(* And when what is written is told.                                        *)
LEMMA ApartSwept ==
  ASSUME Swept, Apart
  PROVE  Swept'
<1>1. Recorded
  BY DEF Apart, Recorded
<1>2. ASSUME NEW g \in Handler
      PROVE  SweptAt(hd[g].pc)'
  <2>1. PICK l : l = hd'[g].pc
    OBVIOUS
  <2>2. SweptAt(l) \/ l \notin ResetPc
    BY <2>1 DEF Apart, Swept
  <2>3. SweptAt(l)'
    BY <1>1, <2>2, StaysSwept
  <2> QED
    BY <2>1, <2>3
<1> QED
  BY <1>2 DEF Swept

(* Steps of the console admit nobody unduly and are apart from the store.   *)
LEMMA Walks ==
  ASSUME Types, NEW h \in Handler, NEW r, Go(h, r), r.pc \notin ResetPc \cup {"row"},
         UNCHANGED << config, sessions, store >>,
         past.since \subseteq past'.since, past'.late = past.late, past'.strays = past.strays
  PROVE  Apart /\ Admits
BY Elsewhere, NothingAdmitted DEF Types, Apart, config
(* The labels of the other requests are none of a reset's or a              *)
(* delivery's.                                                              *)
LEMMA Labels ==
  /\ {"idle", "wizard", "read", "set", "refused", "web", "login", "enqueue", "mailsession"}
       \cap (ResetPc \cup {"row"}) = {}
  /\ Moving \cap (ResetPc \cup {"row"}) = {} /\ Web \cap (ResetPc \cup {"row"}) = {}
  /\ ResetPc \subseteq Label /\ Moving \subseteq Label /\ Web \subseteq Label
BY DEF ResetPc, Moving, Web, Label
(* The beginnings of requests, resets and deliveries excepted, are such     *)
(* steps.                                                                   *)
LEMMA BeginCalm ==
  ASSUME Types, NEW h \in Handler,
         SetupAsk(h) \/ LoginRead(h) \/ Logout(h) \/ SettingsRead(h) \/ MailLogin(h) \/ MailLogout(h)
           \/ ResetPrepare(h)
  PROVE  Apart /\ Admits
<1> USE DEF Types
<1>1. CASE SetupAsk(h)
  <2>1. PICK w : Go(h, [Idle EXCEPT !.pc = "wizard", !.op = "setup", !.want = w])
    BY <1>1 DEF SetupAsk
  <2>2. [Idle EXCEPT !.pc = "wizard", !.op = "setup", !.want = w].pc \notin ResetPc \cup {"row"}
    BY DEF Idle, ResetPc
  <2> QED
    BY <1>1, <2>1, <2>2, Walks DEF SetupAsk, auth
<1>2. CASE LoginRead(h)
  <2>1. Go(h, [Idle EXCEPT !.pc = "login", !.op = "login", !.ref = cur])
    BY <1>2 DEF LoginRead
  <2>2. [Idle EXCEPT !.pc = "login", !.op = "login", !.ref = cur].pc \notin ResetPc \cup {"row"}
    BY DEF Idle, ResetPc
  <2> QED
    BY <1>2, <2>1, <2>2, Walks DEF LoginRead, auth
<1>3. CASE SettingsRead(h)
  <2>1. Go(h, [Idle EXCEPT !.pc = "read", !.op = "settings", !.ref = cur])
    BY <1>3 DEF SettingsRead
  <2>2. [Idle EXCEPT !.pc = "read", !.op = "settings", !.ref = cur].pc \notin ResetPc \cup {"row"}
    BY DEF Idle, ResetPc
  <2> QED
    BY <1>3, <2>1, <2>2, Walks DEF SettingsRead, auth
<1>4. CASE MailLogin(h)
  <2>1. PICK a : Go(h, [Idle EXCEPT !.pc = "mailsession", !.op = "maillogin", !.ref = a])
    BY <1>4 DEF MailLogin
  <2>2. [Idle EXCEPT !.pc = "mailsession", !.op = "maillogin", !.ref = a].pc \notin ResetPc \cup {"row"}
    BY DEF Idle, ResetPc
  <2> QED
    BY <1>4, <2>1, <2>2, Walks DEF MailLogin, auth
<1>5. CASE Logout(h)
  <2>1. sessions' \subseteq sessions /\ UNCHANGED << config, store, hd, past >>
    BY <1>5 DEF Logout
  <2>2. Now' = Now
    BY <2>1 DEF Now, config
  <2> QED
    BY <2>1, <2>2 DEF Apart, Admits, config
<1>6. CASE MailLogout(h) \/ ResetPrepare(h)
  BY <1>6, NothingAdmitted DEF MailLogout, ResetPrepare, Apart, config
<1> QED
  BY <1>1, <1>2, <1>3, <1>4, <1>5, <1>6
(* A set-up is: it comes after a reset and is told.                         *)
LEMMA SetupConfigCalm ==
  ASSUME Types, NEW h \in Handler, SetupConfig(h)
  PROVE  Apart /\ Admits
<1> USE DEF Types
<1> DEFINE c == [inst |-> installs + 1, port |-> hd[h].want]
           hist == [past EXCEPT !.off = IF hd[h].want["web"] = webCur THEN {} ELSE {"web"}]
           r == [hd[h] EXCEPT !.pc = "save", !.then = "apply"]
<1>1. /\ obj' = Append(obj, c) /\ cur' = Len(obj) + 1 /\ Go(h, r)
      /\ past' = [hist EXCEPT !.late = IF cur \in {Nil, Len(obj) + 1} THEN @ ELSE @ \cup {obj[cur].inst},
                              !.since = @ \cup {"config"}]
      /\ UNCHANGED << pvars, file, auth, store, left >>
  BY DEF SetupConfig, Install
<1>2. /\ past'.since = past.since \cup {"config"} /\ past'.strays = past.strays
      /\ past'.late = IF cur \in {Nil, Len(obj) + 1} THEN past.late ELSE past.late \cup {obj[cur].inst}
  BY <1>1 DEF PastTypes, History
<1>3. r.pc \notin ResetPc \cup {"row"}
  <2>1. r.pc = "save"
    BY RequestIs DEF Request
  <2> QED
    BY <2>1 DEF ResetPc
<1>4. Apart
  BY <1>1, <1>2, <1>3, Elsewhere DEF Apart, auth
<1>5. Now.inst \in {0} \cup past'.late
  <2>1. CASE cur = Nil
    BY <2>1 DEF Now, Absent
  <2>2. CASE cur # Nil
    <3>1. cur # Len(obj) + 1
      BY Counts DEF ConfigTypes
    <3> QED
      BY <1>2, <2>2, <3>1 DEF Now
  <2> QED
    BY <2>1, <2>2
<1>6. Admits
  BY <1>1, <1>2, <1>5 DEF Admits, auth
<1> QED
  BY <1>4, <1>6

(* SetConfig of an object that is there.                                    *)
LEMMA InstallCalm ==
  ASSUME Types, NEW h \in Handler, NEW a \in 1 .. Len(obj), NEW then, NEW off,
         Install(h, a, then, [past EXCEPT !.off = off]),
         \A i \in 1 .. Len(obj) : obj'[i].inst = obj[i].inst,
         UNCHANGED << file, auth, store >>
  PROVE  Apart /\ Admits
<1> USE DEF Types
<1> DEFINE hist == [past EXCEPT !.off = off]
           r == [hd[h] EXCEPT !.pc = "save", !.then = then]
<1>1. /\ cur' = a /\ Go(h, r)
      /\ past' = [hist EXCEPT !.late = IF cur \in {Nil, a} THEN @ ELSE @ \cup {obj[cur].inst},
                              !.since = @ \cup {"config"}]
  BY DEF Install
<1>2. /\ past'.since = past.since \cup {"config"} /\ past'.strays = past.strays
      /\ past'.late = IF cur \in {Nil, a} THEN past.late ELSE past.late \cup {obj[cur].inst}
  BY <1>1 DEF PastTypes, History
<1>3. r.pc \notin ResetPc \cup {"row"}
  <2>1. r.pc = "save"
    BY RequestIs DEF Request
  <2> QED
    BY <2>1 DEF ResetPc
<1>4. Apart
  BY <1>1, <1>2, <1>3, Elsewhere DEF Apart, auth
<1>5. Now.inst \in {0, Now'.inst} \cup past'.late
  <2>1. CASE cur = Nil
    BY <2>1 DEF Now, Absent
  <2>2. CASE cur = a
    BY <1>1, <2>2 DEF Now, Nil
  <2>3. CASE cur # Nil /\ cur # a
    BY <1>2, <2>3 DEF Now
  <2> QED
    BY <2>1, <2>2, <2>3
<1>6. Admits
  BY <1>1, <1>2, <1>5 DEF Admits, auth
<1> QED
  BY <1>4, <1>6
(* Settings put back a configuration a reset dropped, and past.late says    *)
(* so.                                                                      *)
LEMMA SettingsSetCalm ==
  ASSUME Types, NEW h \in Handler, SettingsSet(h)
  PROVE  Apart /\ Admits
<1> USE DEF Types
<1> DEFINE then == IF DOMAIN hd[h].want = {} THEN "web" ELSE "apply"
<1>1. /\ At(h, "set") /\ Install(h, hd[h].ref, then, past)
      /\ UNCHANGED << pvars, obj, file, auth, store, left, installs >>
  BY DEF SettingsSet
<1>2. hd[h].ref \in 1 .. Len(obj)
  BY <1>1, RequestIs DEF At, Fits, Places, ResetPc, Moving, Web
<1>3. past = [past EXCEPT !.off = past.off]
  BY DEF PastTypes, History
<1> HIDE DEF then
<1>4. PICK hist : hist = past
  OBVIOUS
<1>5. Install(h, hd[h].ref, then, hist) /\ hist = [past EXCEPT !.off = past.off]
  BY <1>1, <1>3, <1>4
<1>6. Install(h, hd[h].ref, then, [past EXCEPT !.off = past.off])
  BY <1>5
<1>7. \A i \in 1 .. Len(obj) : obj'[i].inst = obj[i].inst
  BY <1>1
<1> QED
  BY <1>1, <1>2, <1>6, <1>7, InstallCalm
(* Changing an object in memory is.                                         *)
LEMMA SettingsChangeCalm ==
  ASSUME Types, NEW h \in Handler, SettingsChange(h)
  PROVE  Apart /\ Admits
<1> USE DEF Types
<1>1. At(h, "read") /\ UNCHANGED << pvars, cur, file, auth, store, left, installs >>
  BY DEF SettingsChange
<1>2. PICK w \in left.ports :
       LET a == hd[h].ref  c == Changed(obj[a], w)
       IN /\ obj' = [obj EXCEPT ![a] = With(@, c)]
          /\ \/ Go(h, [hd[h] EXCEPT !.pc = "set", !.want = c]) /\ UNCHANGED past
             \/ /\ left.refused /\ DOMAIN c # {}
                /\ To(h, "refused")
                /\ past' = [past EXCEPT !.half = TRUE, !.off = @ \cup DOMAIN c]
  BY DEF SettingsChange
<1> DEFINE a == hd[h].ref
           c == Changed(obj[a], w)
<1>3. a \in 1 .. Len(obj)
  BY <1>1, RequestIs DEF At, Fits, Places, ResetPc, Moving, Web
<1>4. obj[a] \in Config(installs) /\ w \in Asked
  BY <1>3 DEF ConfigTypes, PastTypes, Plan
<1>5. With(obj[a], c).inst = obj[a].inst
  BY <1>4, ChangedPorts, WithPorts
<1>6. \A i \in 1 .. Len(obj) : obj'[i].inst = obj[i].inst
  <2>1. obj' = [obj EXCEPT ![a] = With(obj[a], c)]
    BY <1>2
  <2> HIDE DEF c
  <2>2. \A i \in 1 .. Len(obj) : obj'[i] = IF i = a THEN With(obj[a], c) ELSE obj[i]
    BY <2>1 DEF ConfigTypes
  <2> QED
    BY <1>5, <2>2
<1>7. Now'.inst = Now.inst
  BY <1>1, <1>6 DEF Now, ConfigTypes, Nil
<1>8. past'.since = past.since /\ past'.late = past.late /\ past'.strays = past.strays
  <2>1. UNCHANGED past \/ past' = [past EXCEPT !.half = TRUE, !.off = @ \cup DOMAIN c]
    BY <1>2
  <2> QED
    BY <2>1 DEF PastTypes, History
<1>9. \A g \in Handler : hd'[g] = hd[g] \/ hd'[g].pc \notin ResetPc \cup {"row"}
  <2>1. CASE Go(h, [hd[h] EXCEPT !.pc = "set", !.want = c])
    <3>1. [hd[h] EXCEPT !.pc = "set", !.want = c].pc = "set"
      BY RequestIs DEF Request
    <3> QED
      BY <2>1, <3>1, Elsewhere DEF ResetPc
  <2>2. CASE To(h, "refused")
    <3>1. [hd[h] EXCEPT !.pc = "refused"].pc = "refused"
      BY RequestIs DEF Request
    <3> QED
      BY <2>2, <3>1, Elsewhere DEF ResetPc, To
  <2> QED
    BY <1>2, <2>1, <2>2
<1> QED
  BY <1>1, <1>7, <1>8, <1>9 DEF Apart, Admits, auth

(* Saving is, and is told.                                                  *)
LEMMA SaveCalm ==
  ASSUME Types, NEW h \in Handler, Truncate(h) \/ Write(h) \/ SaveFails(h)
  PROVE  Apart /\ Admits
<1> USE DEF Types
<1>1. /\ UNCHANGED << obj, cur, auth, store >> /\ "config" \in past'.since
      /\ past.since \subseteq past'.since /\ past'.late = past.late /\ past'.strays = past.strays
  BY DEF Truncate, Write, SaveFails, Wrote, PastTypes, History, config
<1>2. hd[h] \in Request(installs) /\ Fits(hd[h], Len(obj), store.made)
  BY RequestIs
<1>3. hd[h].then \in {"apply", "web"}
  BY <1>2 DEF Truncate, Write, SaveFails, At, Fits
<1>4. PICK r : Go(h, r) /\ r.pc \in {"write", "idle", hd[h].then}
  <2>1. CASE Go(h, [hd[h] EXCEPT !.pc = "write", !.snap = obj[cur], !.gen = file.gen])
    <3>1. [hd[h] EXCEPT !.pc = "write", !.snap = obj[cur], !.gen = file.gen].pc = "write"
      BY <1>2 DEF Request
    <3> QED
      BY <2>1, <3>1
  <2>2. CASE To(h, hd[h].then)
    <3>1. [hd[h] EXCEPT !.pc = hd[h].then].pc = hd[h].then
      BY <1>2 DEF Request
    <3> QED
      BY <2>2, <3>1 DEF To
  <2>3. CASE Done(h)
    BY <2>3 DEF Done, Idle
  <2> QED
    BY <2>1, <2>2, <2>3 DEF Truncate, Write, SaveFails
<1>5. r.pc \notin ResetPc \cup {"row"}
  BY <1>3, <1>4 DEF ResetPc
<1> QED
  BY <1>1, <1>4, <1>5, Elsewhere, NothingAdmitted DEF Apart, auth
(* A login is; when it outlived its installation past.late says so.         *)
LEMMA LoginSessionCalm ==
  ASSUME Types, NEW h \in Handler, LoginSession(h)
  PROVE  Apart /\ Admits
<1> USE DEF Types
<1> DEFINE i == obj[hd[h].ref].inst
           late == IF Now.inst = i THEN past.late ELSE past.late \cup {i}
<1>1. /\ Go(h, Idle) /\ UNCHANGED << pvars, config, mails, reset, store, left, installs >>
      /\ sessions' = sessions \cup {i}
      /\ past' = [past EXCEPT !.since = @ \cup {"sessions"}, !.late = late]
  BY DEF LoginSession, Done, PastTypes, History
<1>2. past'.since = past.since \cup {"sessions"} /\ past'.late = late /\ past'.strays = past.strays
  BY <1>1 DEF PastTypes, History
<1>3. Now' = Now
  BY <1>1 DEF Now, config
<1>4. Idle.pc \notin ResetPc \cup {"row"}
  BY DEF Idle, ResetPc
<1>5. Apart
  BY <1>1, <1>2, <1>4, Elsewhere DEF Apart, config
<1>6. Admits
  <2>1. cur' = cur /\ obj' = obj /\ sessions' = sessions \cup {i} /\ past'.late = late
    BY <1>1, <1>2 DEF config
  <2> HIDE DEF Types
  <2> QED
    BY <1>3, <2>1 DEF Admits
<1> QED
  BY <1>5, <1>6
(* Moving ports is.                                                         *)
LEMMA PortsCalm ==
  ASSUME Types, NEW h \in Handler,
         ApplyBegin(h) \/ ApplyProbe(h) \/ ApplyClose(h) \/ ApplyListen(h)
           \/ WebRead(h) \/ WebBind(h) \/ WebSwap(h) \/ SettingsRefused(h)
  PROVE  Apart /\ Admits
<1> USE DEF Types
<1>1. UNCHANGED << config, auth, store >>
  BY DEF ApplyBegin, ApplyProbe, ApplyClose, ApplyListen, WebRead, WebBind, WebSwap, SettingsRefused
<1>2. past'.since = past.since /\ past'.late = past.late /\ past'.strays = past.strays
  <2>1. CASE ApplyBegin(h) \/ WebRead(h) \/ WebSwap(h) \/ SettingsRefused(h)
    BY <2>1 DEF ApplyBegin, WebRead, WebSwap, SettingsRefused
  <2>2. CASE ApplyProbe(h)
    BY <2>2 DEF ApplyProbe, PastTypes, History
  <2>3. CASE ApplyClose(h)
    BY <2>3 DEF ApplyClose, PastTypes, History
  <2>4. CASE ApplyListen(h)
    BY <2>4 DEF ApplyListen, PastTypes, History
  <2>5. CASE WebBind(h)
    BY <2>5 DEF WebBind, PastTypes, History
  <2> QED
    BY <2>1, <2>2, <2>3, <2>4, <2>5
<1>3. hd[h] \in Request(installs)
  BY RequestIs
<1>4. PICK r : Go(h, r) /\ r.pc \in {"probe", "close", "listen", "idle"} \cup Web
  <2>1. CASE Done(h)
    BY <2>1 DEF Done, Idle
  <2>2. ASSUME NEW l \in {"close", "listen"} \cup Web, To(h, l)
        PROVE  \E r : Go(h, r) /\ r.pc \in {"probe", "close", "listen", "idle"} \cup Web
    <3>1. [hd[h] EXCEPT !.pc = l].pc = l
      BY <1>3 DEF Request
    <3> QED
      BY <2>2, <3>1 DEF To
  <2>3. ASSUME NEW e, Advance(h, e)
        PROVE  \E r : Go(h, r) /\ r.pc \in {"probe", "close", "listen", "idle"} \cup Web
    <3>1. [hd[h] EXCEPT !.pc = "probe", !.todo = Tail(@), !.errs = @ \cup e].pc = "probe"
      BY <1>3 DEF Request
    <3> QED
      BY <2>3, <3>1 DEF Advance
  <2>4. CASE ApplyBegin(h)
    <3>1. [hd[h] EXCEPT !.pc = "probe", !.old = addr, !.todo = Order].pc = "probe"
      BY <1>3 DEF Request
    <3> QED
      BY <2>4, <3>1 DEF ApplyBegin
  <2>5. CASE WebRead(h)
    <3>1. [hd[h] EXCEPT !.pc = "bind", !.port = webCur].pc = "bind"
      BY <1>3 DEF Request
    <3> QED
      BY <2>1, <2>5, <3>1 DEF WebRead, Web
  <2>6. CASE ApplyProbe(h)
    BY <2>2, <2>3, <2>6 DEF ApplyProbe
  <2>7. CASE ApplyClose(h)
    BY <2>1, <2>2, <2>7 DEF ApplyClose
  <2>8. CASE ApplyListen(h)
    BY <2>3, <2>8 DEF ApplyListen
  <2>9. CASE WebBind(h) \/ WebSwap(h)
    <3>1. To(h, "publish") \/ To(h, "closeold") \/ Done(h)
      BY <2>9 DEF WebBind, WebSwap
    <3>2. "publish" \in Web /\ "closeold" \in Web
      BY DEF Web
    <3> QED
      BY <2>1, <2>2, <3>1, <3>2
  <2>10. CASE SettingsRefused(h)
    BY <2>1, <2>10 DEF SettingsRefused
  <2> QED
    BY <2>4, <2>5, <2>6, <2>7, <2>8, <2>9, <2>10
<1>5. r.pc \notin ResetPc \cup {"row"}
  BY <1>4 DEF ResetPc, Web
<1> QED
  BY <1>1, <1>2, <1>4, <1>5, Walks DEF auth
(* Taking ports back is, and is told.                                       *)
LEMMA ApplyEndCalm ==
  ASSUME Types, NEW h \in Handler, ApplyEnd(h)
  PROVE  Apart /\ Admits
<1> USE DEF Types
<1>1. At(h, "probe") /\ UNCHANGED << pvars, file, auth, store, left, installs >>
  BY DEF ApplyEnd
<1>2. CASE Done(h) /\ UNCHANGED << obj, cur, past >>
  <2>1. Idle.pc \notin ResetPc \cup {"row"}
    BY DEF Idle, ResetPc
  <2> QED
    BY <1>1, <1>2, <2>1, Walks DEF Done, config, auth
<1>3. CASE To(h, "web") /\ UNCHANGED << obj, cur, past >>
  <2>1. [hd[h] EXCEPT !.pc = "web"].pc \notin ResetPc \cup {"row"}
    BY Relabelled DEF Label, ResetPc
  <2> QED
    BY <1>1, <1>3, <2>1, Walks DEF To, config, auth
<1>4. CASE /\ hd[h].op = "settings"
           /\ obj' = [obj EXCEPT ![hd[h].ref] = Reverted(@, hd[h].errs)]
           /\ Install(h, hd[h].ref, "web", [past EXCEPT !.off = @ \ hd[h].errs])
  <2> DEFINE a == hd[h].ref
             back == [p \in hd[h].errs |-> addr[p]]
  <2>1. a \in 1 .. Len(obj) /\ hd[h].errs \subseteq Proto
    BY <1>1, <1>4, Applying DEF At
  <2>2. back \in Asked
    <3>1. hd[h].errs \in SUBSET Service
      BY <2>1, Ports
    <3>2. back \in [hd[h].errs -> Port]
      BY <2>1 DEF PortTypes
    <3> QED
      BY <3>1, <3>2, AskedOf
  <2>3. Reverted(obj[a], hd[h].errs).inst = obj[a].inst
    <3>1. obj[a] \in Config(installs)
      BY <2>1 DEF ConfigTypes
    <3> QED
      BY <2>2, <3>1, WithPorts DEF Reverted
  <2>4. \A i \in 1 .. Len(obj) : obj'[i].inst = obj[i].inst
    <3>1. \A i \in 1 .. Len(obj) : obj'[i] = IF i = a THEN Reverted(obj[a], hd[h].errs) ELSE obj[i]
      BY <1>4 DEF ConfigTypes
    <3> QED
      BY <2>3, <3>1
  <2>5. [past EXCEPT !.off = @ \ hd[h].errs] = [past EXCEPT !.off = past.off \ hd[h].errs]
    BY DEF PastTypes, History
  <2>6. Install(h, a, "web", [past EXCEPT !.off = past.off \ hd[h].errs])
    BY <1>4, <2>5
  <2> QED
    BY <1>1, <2>1, <2>4, <2>6, InstallCalm
<1> QED
  BY <1>2, <1>3, <1>4 DEF ApplyEnd
(* A webmail login is: its sessions are dropped in the last step.           *)
LEMMA MailSessionCalm ==
  ASSUME Types, NEW h \in Handler, MailSession(h)
  PROVE  Apart /\ Admits
<1> USE DEF Types
<1>1. /\ Wrote("mails") /\ Done(h)
      /\ UNCHANGED << pvars, config, sessions, reset, store, left, installs >>
  BY DEF MailSession
<1>2. past.since \subseteq past'.since /\ past'.late = past.late /\ past'.strays = past.strays
  BY <1>1 DEF Wrote, PastTypes, History
<1>3. Idle.pc \notin ResetPc \cup {"row"}
  BY DEF Idle, ResetPc
<1> QED
  BY <1>1, <1>2, <1>3, Walks DEF Done
(* And so are the listeners' steps.                                         *)
LEMMA ListenersCalm ==
  ASSUME Listeners \/ Taken
  PROVE  Apart /\ Admits
BY NothingAdmitted DEF Listeners, Taken, Apart, config, auth

-----------------------------------------------------------------------------
(* The deliveries, the accounts and the reset: what they do to the rows.    *)
LEMMA Pcs ==
  ASSUME RequestTypes, NEW h \in Handler, NEW r, Go(h, r)
  PROVE  hd'[h] = r /\ \A g \in Handler : g # h => hd'[g] = hd[g]
BY DEF RequestTypes, Go
(* A new account has no rows; made during a reset it is a stray.            *)
LEMMA CreateAccountRows ==
  ASSUME Types, Rows, NEW h \in Handler, CreateAccount(h)
  PROVE  Rows'
<1> USE DEF Types
<1> DEFINE a == store.made + 1
<1>1. /\ store' = [store EXCEPT !.made = a, !.accounts = @ \cup {a}]
      /\ past' = [past EXCEPT !.since = @ \cup {"accounts"},
                              !.strays = IF Resetting THEN @ \cup {a} ELSE @]
      /\ UNCHANGED << pvars, config, auth, hd, installs >>
  BY DEF CreateAccount
<1>2. /\ store'.accounts = store.accounts \cup {a} /\ store'.mail = store.mail
      /\ store'.blobs = store.blobs
  BY <1>1 DEF StoreTypes
<1>3. past'.strays = IF Resetting THEN past.strays \cup {a} ELSE past.strays
  BY <1>1 DEF PastTypes, History
<1>4. ASSUME NEW g \in Handler, At(g, "row")
      PROVE  hd[g].ref # a
  <2>1. hd[g].ref \in 1 .. store.made
    BY <1>4, RequestIs DEF At, Fits, Places, ResetPc, Moving, Web
  <2> QED
    BY <2>1, Counts
<1>5. ASSUME NEW g \in Handler, At(g, "blobs")
      PROVE  Resetting
  <2>1. hd[g].op = "reset"
    BY <1>5, RequestIs DEF At, Fits, Places, Moving, Web
  <2> QED
    BY <2>1 DEF Resetting
<1>6. hd' = hd /\ past.strays \subseteq past'.strays
  BY <1>1, <1>3
<1> HIDE DEF a
<1>7. store'.mail \subseteq store'.accounts
  BY <1>2 DEF Rows
<1>8. store'.mail \ past'.strays \subseteq store'.blobs
  BY <1>2, <1>6 DEF Rows, RowsKeepFiles
<1>9. ASSUME NEW g \in Handler
      PROVE  /\ At(g, "row")' /\ hd'[g].ref \in store'.accounts \ past'.strays => hd'[g].ref \in store'.blobs
             /\ At(g, "blobs")' => store'.accounts \subseteq past'.strays
  <2>1. At(g, "row")' /\ hd'[g].ref \in store'.accounts \ past'.strays => hd'[g].ref \in store'.blobs
    BY <1>2, <1>4, <1>6 DEF Rows, At
  <2>2. At(g, "blobs")' => store'.accounts \subseteq past'.strays
    BY <1>2, <1>3, <1>5, <1>6 DEF Rows, At
  <2> QED
    BY <2>1, <2>2
<1> QED
  BY <1>7, <1>8, <1>9 DEF Rows, RowsKeepFiles
(* A delivery writes its file before its row.                               *)
LEMMA DeliverFileRows ==
  ASSUME Types, Rows, NEW h \in Handler, DeliverFile(h)
  PROVE  Rows'
<1> USE DEF Types
<1>1. PICK a \in store.accounts :
        /\ store' = [store EXCEPT !.blobs = @ \cup {a}]
        /\ Go(h, [Idle EXCEPT !.pc = "row", !.op = "deliver", !.ref = a])
  BY DEF DeliverFile
<1>2. Wrote("blobs")
  BY DEF DeliverFile
<1>3. PICK r : r = [Idle EXCEPT !.pc = "row", !.op = "deliver", !.ref = a]
  OBVIOUS
<1>4. r.pc = "row" /\ r.ref = a
  BY <1>3 DEF Idle
<1>5. /\ store'.accounts = store.accounts /\ store'.mail = store.mail
      /\ store'.blobs = store.blobs \cup {a} /\ past'.strays = past.strays
  BY <1>1, <1>2 DEF StoreTypes, PastTypes, History, Wrote
<1>6. hd'[h] = r /\ \A g \in Handler : g # h => hd'[g] = hd[g]
  BY <1>1, <1>3, Pcs
<1>7. store'.mail \subseteq store'.accounts /\ store'.mail \ past'.strays \subseteq store'.blobs
  BY <1>5 DEF Rows, RowsKeepFiles
<1>8. ASSUME NEW g \in Handler
      PROVE  /\ At(g, "row")' /\ hd'[g].ref \in store'.accounts \ past'.strays => hd'[g].ref \in store'.blobs
             /\ At(g, "blobs")' => store'.accounts \subseteq past'.strays
  BY <1>4, <1>5, <1>6 DEF Rows, At
<1> QED
  BY <1>7, <1>8 DEF Rows, RowsKeepFiles
(* A row is inserted for a file that is there, unless its account is a      *)
(* stray.                                                                   *)
LEMMA DeliverRowRows ==
  ASSUME Types, Rows, NEW h \in Handler, DeliverRow(h)
  PROVE  Rows'
<1> USE DEF Types
<1> DEFINE a == hd[h].ref
<1>1. /\ At(h, "row") /\ Wrote("mail") /\ Done(h)
      /\ IF a \in store.accounts THEN store' = [store EXCEPT !.mail = @ \cup {a}]
         ELSE UNCHANGED store
  BY DEF DeliverRow
<1>2. past'.strays = past.strays
  BY <1>1 DEF Wrote, PastTypes, History
<1>3. /\ store'.accounts = store.accounts /\ store'.blobs = store.blobs
      /\ store'.mail = store.mail \cup ({a} \cap store.accounts)
  <2>1. CASE a \in store.accounts
    BY <1>1, <2>1 DEF StoreTypes
  <2>2. CASE a \notin store.accounts
    BY <1>1, <2>2
  <2> QED
    BY <2>1, <2>2
<1>4. hd'[h] = Idle /\ \A g \in Handler : g # h => hd'[g] = hd[g]
  BY <1>1, Pcs DEF Done
<1>5. store'.mail \subseteq store'.accounts
  BY <1>3 DEF Rows
<1>6. a \in store.accounts \ past.strays => a \in store.blobs
  BY <1>1 DEF Rows
<1>7. store'.mail \ past'.strays \subseteq store'.blobs
  BY <1>2, <1>3, <1>6 DEF Rows, RowsKeepFiles
<1>8. ASSUME NEW g \in Handler
      PROVE  /\ At(g, "row")' /\ hd'[g].ref \in store'.accounts \ past'.strays => hd'[g].ref \in store'.blobs
             /\ At(g, "blobs")' => store'.accounts \subseteq past'.strays
  BY <1>2, <1>3, <1>4 DEF Rows, At, Idle
<1> QED
  BY <1>5, <1>7, <1>8 DEF Rows, RowsKeepFiles

(* The rest of the steps, where no request comes to remove files.           *)
LEMMA OtherRows ==
  ASSUME Types, Rows, NEW h \in Handler, NEW r, Go(h, r), r.pc \notin {"row", "blobs"},
         store'.accounts = store.accounts, store'.mail \subseteq store.mail,
         store'.blobs = store.blobs, past'.strays = past.strays
  PROVE  Rows'
<1>1. hd'[h] = r /\ \A g \in Handler : g # h => hd'[g] = hd[g]
  BY Pcs DEF Types
<1> QED
  BY <1>1 DEF Rows, RowsKeepFiles, At
(* The queue has nothing to do with the rows of messages.                   *)
LEMMA EnqueueRows ==
  ASSUME Types, Rows, NEW h \in Handler, EnqueueFile(h) \/ EnqueueRow(h)
  PROVE  Rows'
<1> USE DEF Types
<1>1. /\ store'.accounts = store.accounts /\ store'.mail = store.mail /\ store'.blobs = store.blobs
      /\ past'.strays = past.strays
  BY DEF EnqueueFile, EnqueueRow, StoreTypes, PastTypes, History, Wrote
<1>2. PICK r : Go(h, r) /\ r.pc \notin {"row", "blobs"}
  <2>1. CASE EnqueueRow(h)
    BY <2>1 DEF EnqueueRow, Done, Idle
  <2>2. CASE EnqueueFile(h)
    <3>1. Go(h, [Idle EXCEPT !.pc = "enqueue", !.op = "enqueue"])
      BY <2>2 DEF EnqueueFile
    <3>2. [Idle EXCEPT !.pc = "enqueue", !.op = "enqueue"].pc = "enqueue"
      BY DEF Idle
    <3> QED
      BY <3>1, <3>2
  <2> QED
    BY <2>1, <2>2
<1> QED
  BY <1>1, <1>2, OtherRows
(* A reset drops the rows before the files, so only strays lose files.      *)
LEMMA ResetRows ==
  ASSUME Types, Rows, NEW h \in Handler,
         ResetTable(h) \/ ResetFiles(h) \/ ResetForget(h) \/ ResetRemove(h) \/ ResetDone(h)
  PROVE  Rows'
<1> USE DEF Types
<1>1. past'.strays = past.strays
  BY DEF ResetTable, ResetFiles, ResetForget, ResetRemove, ResetDone, PastTypes, History
<1>2. ASSUME NEW l \in Label, To(h, l)
      PROVE  \E r : Go(h, r) /\ r.pc = l
  BY <1>2, Relabelled DEF To
<1>3. {"send_queue", "accounts", "outbound", "forget", "remove", "mails"} \subseteq Label
  BY DEF Label, ResetPc
<1>4. CASE \/ At(h, "messages") /\ To(h, "send_queue") /\ store' = [store EXCEPT !.mail = {}]
           \/ At(h, "send_queue") /\ To(h, "accounts") /\ store' = [store EXCEPT !.queue = FALSE]
           \/ At(h, "outbound") /\ To(h, "forget") /\ store' = Wiped(store)
           \/ ResetForget(h) \/ (At(h, "remove") /\ To(h, "mails") /\ UNCHANGED store)
  <2>1. store'.accounts = store.accounts /\ store'.mail \subseteq store.mail /\ store'.blobs = store.blobs
    BY <1>4 DEF StoreTypes, Wiped, ResetForget, auth
  <2>2. PICK r : Go(h, r) /\ r.pc \in {"send_queue", "accounts", "forget", "remove", "mails"}
    BY <1>2, <1>3, <1>4 DEF ResetForget
  <2> QED
    BY <1>1, <2>1, <2>2, OtherRows
<1>5. CASE Done(h) /\ UNCHANGED store
  <2>1. Go(h, Idle) /\ Idle.pc \notin {"row", "blobs"}
    BY <1>5 DEF Done, Idle
  <2> QED
    BY <1>1, <1>5, <2>1, OtherRows
<1>6. CASE To(h, "blobs") /\ store' = Cleared(store)
  <2>1. store'.accounts = {} /\ store'.mail = {}
    BY <1>6 DEF StoreTypes, Cleared
  <2> QED
    BY <2>1 DEF Rows, RowsKeepFiles
<1>7. CASE At(h, "blobs") /\ To(h, "outbound") /\ store' = [store EXCEPT !.blobs = {}]
  <2>1. store'.accounts = store.accounts /\ store'.mail = store.mail
    BY <1>7 DEF StoreTypes
  <2>2. store.mail \subseteq store.accounts /\ store.accounts \subseteq past.strays
    BY <1>7 DEF Rows
  <2> QED
    BY <1>1, <2>1, <2>2 DEF Rows, RowsKeepFiles
<1> QED
  BY <1>4, <1>5, <1>6, <1>7 DEF ResetTable, ResetFiles, ResetRemove, ResetDone, auth
(* A reset begins with the rows as they are.                                *)
LEMMA ResetConfirmRows ==
  ASSUME Types, Rows, NEW h \in Handler, ResetConfirm(h)
  PROVE  Rows'
<1> USE DEF Types
<1>1. store' = store
  BY DEF ResetConfirm
<1>2. CASE UNCHANGED << past, hd >>
  BY <1>1, <1>2 DEF Rows, RowsKeepFiles, At
<1>3. CASE /\ past' = IF Resetting THEN past ELSE [past EXCEPT !.since = {}]
           /\ Go(h, [Idle EXCEPT !.pc = "messages", !.op = "reset"])
  <2>1. past'.strays = past.strays
    BY <1>3 DEF PastTypes, History
  <2>2. [Idle EXCEPT !.pc = "messages", !.op = "reset"].pc \notin {"row", "blobs"}
    BY DEF Idle
  <2> QED
    BY <1>1, <1>3, <2>1, <2>2, OtherRows
<1> QED
  BY <1>2, <1>3 DEF ResetConfirm
(* A restart leaves rows and files as they are.                             *)
LEMMA RestartRows ==
  ASSUME Types, Rows, Restart
  PROVE  Rows'
<1>1. /\ past' = [Past(Proto \ Starts(PortOf(Loaded), {q \in Port : bound[q] = "other"})) EXCEPT !.strays = past.strays]
      /\ hd' = [h \in Handler |-> Idle] /\ store' = store
  BY DEF Restart
<1>2. past'.strays = past.strays
  BY <1>1 DEF Past
<1>3. \A h \in Handler : hd'[h].pc = "idle"
  BY <1>1 DEF Idle
<1> QED
  BY <1>1, <1>2, <1>3 DEF Rows, RowsKeepFiles, At
(* There are no rows at first.                                              *)
LEMMA InitRows ==
  ASSUME Init
  PROVE  Rows
<1>1. PICK s \in Scenario :
       LET n == IF s.installed THEN 1 ELSE 0
       IN store = [NoStore EXCEPT !.made = n, !.accounts = 1 .. n, !.mail = 1 .. n, !.blobs = 1 .. n]
  BY DEF Init
<1>2. store.mail = store.accounts /\ store.blobs = store.mail
  BY <1>1 DEF NoStore
<1>3. \A h \in Handler : hd[h].pc = "idle"
  BY DEF Init, Idle
<1> QED
  BY <1>2, <1>3 DEF Rows, RowsKeepFiles, At


(* What they do to the record a running reset keeps.                        *)
LEMMA GoesSwept ==
  ASSUME Types, Swept, Recorded, NEW h \in Handler, NEW r, Go(h, r),
         NEW l, l = hd[h].pc, SweptAt(l)' => SweptAt(r.pc)'
  PROVE  Swept'
<1>1. hd'[h] = r /\ \A g \in Handler : g # h => hd'[g] = hd[g]
  BY Pcs DEF Types
<1>2. SweptAt(r.pc)'
  <2>1. SweptAt(l)
    BY DEF Swept
  <2> QED
    BY <2>1, StaysSwept
<1>3. ASSUME NEW g \in Handler
      PROVE  SweptAt(hd[g].pc)'
  <2>1. PICK k : k = hd'[g].pc
    OBVIOUS
  <2>2. SweptAt(k)'
    <3>1. CASE g = h
      BY <1>1, <1>2, <2>1, <3>1
    <3>2. CASE g # h
      <4>1. SweptAt(k)
        BY <1>1, <2>1, <3>2 DEF Swept
      <4> QED
        BY <4>1, StaysSwept
    <3> QED
      BY <3>1, <3>2
  <2> QED
    BY <2>1, <2>2
<1> QED
  BY <1>3 DEF Swept
(* What is written while a reset runs is told.                              *)
LEMMA StoreSwept ==
  ASSUME Types, Swept, NEW h \in Handler,
         DeliverFile(h) \/ DeliverRow(h) \/ EnqueueFile(h) \/ EnqueueRow(h)
  PROVE  Swept'
<1> USE DEF Types
<1>1. Recorded
  <2>1. UNCHANGED << config, auth >>
    BY DEF DeliverFile, DeliverRow, EnqueueFile, EnqueueRow
  <2>2. CASE DeliverFile(h)
    BY <2>1, <2>2 DEF DeliverFile, Recorded, Wrote, StoreTypes, PastTypes, History, config, auth
  <2>3. CASE DeliverRow(h)
    BY <2>1, <2>3 DEF DeliverRow, Recorded, Wrote, StoreTypes, PastTypes, History, config, auth
  <2>4. CASE EnqueueFile(h)
    BY <2>1, <2>4 DEF EnqueueFile, Recorded, Wrote, StoreTypes, PastTypes, History, config, auth
  <2>5. CASE EnqueueRow(h)
    BY <2>1, <2>5 DEF EnqueueRow, Recorded, Wrote, StoreTypes, PastTypes, History, config, auth
  <2> QED
    BY <2>2, <2>3, <2>4, <2>5
<1>2. PICK r : Go(h, r) /\ r.pc \in {"row", "enqueue", "idle"}
  <2>1. CASE DeliverRow(h) \/ EnqueueRow(h)
    BY <2>1 DEF DeliverRow, EnqueueRow, Done, Idle
  <2>2. CASE EnqueueFile(h)
    <3>1. Go(h, [Idle EXCEPT !.pc = "enqueue", !.op = "enqueue"])
      BY <2>2 DEF EnqueueFile
    <3>2. [Idle EXCEPT !.pc = "enqueue", !.op = "enqueue"].pc = "enqueue"
      BY DEF Idle
    <3> QED
      BY <3>1, <3>2
  <2>3. CASE DeliverFile(h)
    <3>1. PICK a : Go(h, [Idle EXCEPT !.pc = "row", !.op = "deliver", !.ref = a])
      BY <2>3 DEF DeliverFile
    <3>2. [Idle EXCEPT !.pc = "row", !.op = "deliver", !.ref = a].pc = "row"
      BY DEF Idle
    <3> QED
      BY <3>1, <3>2
  <2> QED
    BY <2>1, <2>2, <2>3
<1>3. SweptAt(r.pc)'
  BY <1>2 DEF SweptAt
<1> QED
  BY <1>1, <1>2, <1>3, GoesSwept
(* So is an account that is made.                                           *)
LEMMA CreateAccountSwept ==
  ASSUME Types, Swept, NEW h \in Handler, CreateAccount(h)
  PROVE  Swept'
<1> USE DEF Types
<1>1. Recorded /\ UNCHANGED hd
  BY DEF CreateAccount, Recorded, StoreTypes, PastTypes, History, config, auth
<1>2. ASSUME NEW g \in Handler
      PROVE  SweptAt(hd[g].pc)'
  <2>1. PICK k : k = hd'[g].pc
    OBVIOUS
  <2>2. SweptAt(k)
    BY <1>1, <2>1 DEF Swept
  <2>3. SweptAt(k)'
    BY <1>1, <2>2, StaysSwept
  <2> QED
    BY <2>1, <2>3
<1> QED
  BY <1>2 DEF Swept
(* Each step of the reset sweeps one thing more.                            *)
LEMMA ResetSwept ==
  ASSUME Types, Swept, NEW h \in Handler,
         ResetTable(h) \/ ResetFiles(h) \/ ResetForget(h) \/ ResetRemove(h) \/ ResetDone(h)
  PROVE  Swept'
<1> USE DEF Types
<1>1. past'.since = past.since
  BY DEF ResetTable, ResetFiles, ResetForget, ResetRemove, ResetDone, PastTypes, History
<1> DEFINE places == {"send_queue", "accounts", "blobs", "outbound", "forget", "remove", "mails"}
<1>a. ASSUME NEW l \in places, To(h, l)
      PROVE  \E r : Go(h, r) /\ r.pc = l
  <2>1. l \in Label
    BY DEF Label, ResetPc
  <2> QED
    BY <1>a, <2>1, Relabelled DEF To
<1>2. CASE At(h, "messages") /\ To(h, "send_queue") /\ ResetTable(h)
  <2>1. Recorded
    BY <1>1, <1>2 DEF ResetTable, Recorded, At, StoreTypes, config, auth
  <2>2. PICK r : Go(h, r) /\ r.pc = "send_queue"
    BY <1>2, <1>a
  <2>3. SweptAt(r.pc)'
    BY <2>2 DEF SweptAt
  <2> QED
    BY <2>1, <2>2, <2>3, GoesSwept
<1>3. CASE At(h, "send_queue") /\ To(h, "accounts") /\ ResetTable(h)
  <2>1. Recorded /\ ~ store'.queue
    BY <1>1, <1>3 DEF ResetTable, Recorded, At, StoreTypes, config, auth
  <2>2. PICK r : Go(h, r) /\ r.pc = "accounts"
    BY <1>3, <1>a
  <2>3. SweptAt(r.pc)'
    BY <2>1, <2>2 DEF SweptAt
  <2> QED
    BY <2>1, <2>2, <2>3, GoesSwept
<1>4. CASE At(h, "accounts") /\ To(h, "blobs") /\ ResetTable(h)
  <2>1. Recorded /\ store'.accounts = {} /\ store'.mail = {}
    BY <1>1, <1>4 DEF ResetTable, Recorded, At, StoreTypes, Cleared, config, auth
  <2>2. PICK r : Go(h, r) /\ r.pc = "blobs"
    BY <1>4, <1>a
  <2>3. SweptAt("accounts")' => SweptAt(r.pc)'
    BY <2>1, <2>2 DEF SweptAt
  <2> QED
    BY <1>4, <2>1, <2>2, <2>3, GoesSwept DEF At
<1>5. CASE At(h, "blobs") /\ To(h, "outbound") /\ store' = [store EXCEPT !.blobs = {}] /\ ResetFiles(h)
  <2>1. Recorded /\ store'.blobs = {}
    BY <1>1, <1>5 DEF ResetFiles, Recorded, At, StoreTypes, config, auth
  <2>2. PICK r : Go(h, r) /\ r.pc = "outbound"
    BY <1>5, <1>a
  <2>3. SweptAt("blobs")' => SweptAt(r.pc)'
    BY <2>1, <2>2 DEF SweptAt
  <2> QED
    BY <1>5, <2>1, <2>2, <2>3, GoesSwept DEF At
<1>6. CASE At(h, "outbound") /\ To(h, "forget") /\ store' = Wiped(store) /\ ResetFiles(h)
  <2>1. Recorded /\ ~ store'.outbound
    BY <1>1, <1>6 DEF ResetFiles, Recorded, At, StoreTypes, Wiped, config, auth
  <2>2. PICK r : Go(h, r) /\ r.pc = "forget"
    BY <1>6, <1>a
  <2>3. SweptAt("outbound")' => SweptAt(r.pc)'
    BY <2>1, <2>2 DEF SweptAt
  <2> QED
    BY <1>6, <2>1, <2>2, <2>3, GoesSwept DEF At
<1>7. CASE Done(h) /\ UNCHANGED << config, sessions, store >>
  <2>1. Recorded
    BY <1>1, <1>7 DEF Recorded, config
  <2>2. PICK r : Go(h, r) /\ r.pc = "idle"
    BY <1>7 DEF Done, Idle
  <2>3. SweptAt(r.pc)'
    BY <2>2 DEF SweptAt
  <2> QED
    BY <2>1, <2>2, <2>3, GoesSwept
<1>8. CASE ResetForget(h)
  <2>1. Recorded /\ sessions' = {} /\ cur' = Nil
    BY <1>1, <1>8 DEF ResetForget, Recorded, Forgotten
  <2>2. PICK r : Go(h, r) /\ r.pc = "remove"
    BY <1>8, <1>a DEF ResetForget
  <2>3. SweptAt("forget")' => SweptAt(r.pc)'
    BY <2>1, <2>2 DEF SweptAt
  <2> QED
    BY <1>8, <2>1, <2>2, <2>3, GoesSwept DEF At, ResetForget
<1>9. CASE ResetRemove(h) /\ To(h, "mails") /\ file' = [gen |-> file.gen + 1, is |-> Absent]
  <2>1. Recorded /\ file'.is = Absent
    BY <1>1, <1>9 DEF ResetRemove, Recorded, auth
  <2>2. PICK r : Go(h, r) /\ r.pc = "mails"
    BY <1>9, <1>a
  <2>3. SweptAt("remove")' => SweptAt(r.pc)'
    BY <2>1, <2>2 DEF SweptAt
  <2> QED
    BY <1>9, <2>1, <2>2, <2>3, GoesSwept DEF At, ResetRemove
<1> QED
  BY <1>2, <1>3, <1>4, <1>5, <1>6, <1>7, <1>8, <1>9
     DEF ResetTable, ResetFiles, ResetRemove, ResetDone, config, auth
(* At its beginning nothing is swept, and nothing is claimed.               *)
LEMMA ResetConfirmSwept ==
  ASSUME Types, Swept, NEW h \in Handler, ResetConfirm(h)
  PROVE  Swept'
<1> USE DEF Types
<1>1. UNCHANGED << config, sessions, store >>
  BY DEF ResetConfirm
<1>2. CASE UNCHANGED << past, hd >>
  BY <1>1, <1>2 DEF Swept, SweptAt, config
<1>3. CASE /\ past' = IF Resetting THEN past ELSE [past EXCEPT !.since = {}]
           /\ Go(h, [Idle EXCEPT !.pc = "messages", !.op = "reset"])
  <2>1. PICK r : Go(h, r) /\ r.pc = "messages"
    <3>1. [Idle EXCEPT !.pc = "messages", !.op = "reset"].pc = "messages"
      BY DEF Idle
    <3> QED
      BY <1>3, <3>1
  <2>2. SweptAt(r.pc)'
    BY <2>1 DEF SweptAt
  <2>3. CASE Resetting
    <3>1. Recorded
      BY <1>1, <1>3, <2>3 DEF Recorded, config
    <3> QED
      BY <2>1, <2>2, <3>1, GoesSwept
  <2>4. CASE ~ Resetting
    <3>1. ASSUME NEW g \in Handler
          PROVE  hd'[g].pc \notin ResetPc \ {"messages"}
      <4>1. hd[g].pc \notin ResetPc
        BY <2>4, RequestIs DEF Resetting, Fits, Places, ResetPc, Moving, Web
      <4>2. hd'[h] = r /\ \A i \in Handler : i # h => hd'[i] = hd[i]
        BY <2>1, Pcs
      <4> QED
        BY <2>1, <4>1, <4>2
    <3> QED
      BY <3>1 DEF Swept, SweptAt, ResetPc
  <2> QED
    BY <2>3, <2>4
<1> QED
  BY <1>2, <1>3 DEF ResetConfirm
(* Without a reset nothing is claimed.                                      *)
LEMMA IdleSwept ==
  ASSUME hd = [h \in Handler |-> Idle]
  PROVE  Swept
<1>1. \A h \in Handler : hd[h].pc = "idle"
  BY DEF Idle
<1> QED
  BY <1>1 DEF Swept, SweptAt

-----------------------------------------------------------------------------
(* All together: what every step keeps, then that the first states have it. *)
LEMMA CalmKeeps ==
  ASSUME IInv, Apart, Admits
  PROVE  SessionOfThisInstall' /\ Rows' /\ Swept'
BY AdmitsKeeps, ApartRows, ApartSwept DEF IInv, Types
(* The store's steps open no admin sessions, and a reset drops them.        *)
LEMMA StoreAdmits ==
  ASSUME Types, NEW h \in Handler,
         \/ CreateAccount(h) \/ DeliverFile(h) \/ DeliverRow(h) \/ EnqueueFile(h) \/ EnqueueRow(h)
         \/ ResetConfirm(h) \/ ResetTable(h) \/ ResetFiles(h) \/ ResetForget(h) \/ ResetRemove(h)
         \/ ResetDone(h)
  PROVE  Admits
<1>1. CASE ResetForget(h)
  BY <1>1 DEF ResetForget, Forgotten, Admits
<1>2. CASE ~ ResetForget(h)
  <2>1. UNCHANGED << obj, cur, sessions >>
    BY <1>2 DEF CreateAccount, DeliverFile, DeliverRow, EnqueueFile, EnqueueRow, ResetConfirm,
                ResetTable, ResetFiles, ResetRemove, ResetDone, config, auth
  <2>2. past'.late = past.late
    BY <1>2 DEF CreateAccount, DeliverFile, DeliverRow, EnqueueFile, EnqueueRow, ResetConfirm,
                ResetTable, ResetFiles, ResetRemove, ResetDone, Wrote, Types, PastTypes, History
  <2> QED
    BY <2>1, <2>2, NothingAdmitted
<1> QED
  BY <1>1, <1>2
(* Every beginning keeps the invariant.                                     *)
LEMMA BeginKeeps ==
  ASSUME IInv, NEW h \in Handler, Begin(h)
  PROVE  SessionOfThisInstall' /\ Rows' /\ Swept'
<1>1. CASE \/ SetupAsk(h) \/ LoginRead(h) \/ Logout(h) \/ SettingsRead(h) \/ MailLogin(h) \/ MailLogout(h)
           \/ ResetPrepare(h)
  BY <1>1, BeginCalm, CalmKeeps DEF IInv
<1>2. CASE CreateAccount(h) \/ DeliverFile(h) \/ EnqueueFile(h) \/ ResetConfirm(h)
  <2>1. SessionOfThisInstall'
    BY <1>2, StoreAdmits, AdmitsKeeps DEF IInv, Types
  <2>2. Rows'
    BY <1>2, CreateAccountRows, DeliverFileRows, EnqueueRows, ResetConfirmRows DEF IInv
  <2>3. Swept'
    BY <1>2, CreateAccountSwept, StoreSwept, ResetConfirmSwept DEF IInv
  <2> QED
    BY <2>1, <2>2, <2>3
<1> QED
  BY <1>1, <1>2 DEF Begin
(* Every step of a request keeps it.                                        *)
LEMMA GoOnKeeps ==
  ASSUME IInv, NEW h \in Handler, GoOn(h)
  PROVE  SessionOfThisInstall' /\ Rows' /\ Swept'
<1>1. CASE SetupConfig(h) \/ Truncate(h) \/ Write(h) \/ SaveFails(h) \/ LoginSession(h)
           \/ MailSession(h) \/ SettingsChange(h) \/ SettingsRefused(h) \/ SettingsSet(h)
  <2>1. Apart /\ Admits
    BY <1>1, SetupConfigCalm, SaveCalm, LoginSessionCalm, MailSessionCalm, SettingsChangeCalm,
       PortsCalm, SettingsSetCalm DEF IInv
  <2> QED
    BY <2>1, CalmKeeps
<1>2. CASE ApplyBegin(h) \/ ApplyProbe(h) \/ ApplyClose(h) \/ ApplyListen(h) \/ ApplyEnd(h)
           \/ WebRead(h) \/ WebBind(h) \/ WebSwap(h)
  <2>1. Apart /\ Admits
    BY <1>2, PortsCalm, ApplyEndCalm DEF IInv
  <2> QED
    BY <2>1, CalmKeeps
<1>3. CASE DeliverRow(h) \/ EnqueueRow(h) \/ ResetTable(h) \/ ResetFiles(h) \/ ResetForget(h)
           \/ ResetRemove(h) \/ ResetDone(h)
  <2>1. SessionOfThisInstall'
    BY <1>3, StoreAdmits, AdmitsKeeps DEF IInv, Types
  <2>2. Rows'
    BY <1>3, DeliverRowRows, EnqueueRows, ResetRows DEF IInv
  <2>3. Swept'
    BY <1>3, StoreSwept, ResetSwept DEF IInv
  <2> QED
    BY <2>1, <2>2, <2>3
<1> QED
  BY <1>1, <1>2, <1>3 DEF GoOn
(* A restart ends the reset with every request.                             *)
LEMMA RestartSwept ==
  ASSUME Restart
  PROVE  Swept'
<1>1. \A h \in Handler : hd'[h].pc = "idle"
  BY DEF Restart, Idle
<1> QED
  BY <1>1 DEF Swept, SweptAt
(* A step of nobody keeps it.                                               *)
LEMMA StutterKeeps ==
  ASSUME IInv, UNCHANGED vars
  PROVE  SessionOfThisInstall' /\ Rows' /\ Swept'
<1>1. UNCHANGED << config, auth, store, hd, past >>
  BY DEF vars
<1>2. Apart /\ Admits
  BY <1>1, NothingAdmitted DEF Apart, config, auth
<1> QED
  BY <1>2, CalmKeeps
(* Every step keeps the invariant.                                          *)
LEMMA StepKeeps ==
  ASSUME IInv, [Next]_vars
  PROVE  IInv'
<1>1. Types'
  BY NextTypes DEF IInv
<1>2. CASE UNCHANGED vars
  BY <1>1, <1>2, StutterKeeps DEF IInv
<1>3. CASE Restart
  <2>1. SessionOfThisInstall'
    BY <1>3 DEF Restart, SessionOfThisInstall
  <2> QED
    BY <1>1, <1>3, <2>1, RestartRows, RestartSwept DEF IInv
<1>4. CASE Taken \/ Listeners
  BY <1>1, <1>4, ListenersCalm, CalmKeeps DEF IInv
<1>5. ASSUME NEW h \in Handler, Begin(h) \/ GoOn(h)
      PROVE  IInv'
  BY <1>1, <1>5, BeginKeeps, GoOnKeeps DEF IInv
<1> QED
  BY <1>2, <1>3, <1>4, <1>5 DEF Next
(* The first start satisfies it.                                            *)
LEMMA InitKeeps ==
  ASSUME Init
  PROVE  IInv
<1>1. PICK s \in Scenario :
       LET n == IF s.installed THEN 1 ELSE 0
       IN cur = n /\ sessions = 1 .. n /\ obj = [i \in 1 .. n |-> Installed]
  BY DEF Init
<1>2. SessionOfThisInstall
  <2>1. CASE s.installed
    <3>1. cur = 1 /\ sessions = 1 .. 1 /\ obj[1] = Installed
      BY <1>1, <2>1
    <3> QED
      BY <3>1 DEF SessionOfThisInstall, Now, Nil, Installed
  <2>2. CASE ~ s.installed
    <3>1. sessions = {}
      BY <1>1, <2>2
    <3> QED
      BY <3>1 DEF SessionOfThisInstall
  <2> QED
    BY <2>1, <2>2
<1>3. Swept
  BY IdleSwept DEF Init
<1> QED
  BY <1>2, <1>3, InitTypes, InitRows DEF IInv

(* The inductive invariant: the types, whom the sessions admit, the rows    *)
(* with their files and the record of every running reset.                  *)
THEOREM Invariant == Spec => []IInv
<1>1. Init => IInv
  BY InitKeeps
<1>2. IInv /\ [Next]_vars => IInv'
  BY StepKeeps
<1> QED
  BY <1>1, <1>2, PTL DEF Spec

(* A session never opens an installation later than its own (state.go: the  *)
(* factory reset drops all sessions), except a login that read an older     *)
(* configuration.                                                           *)
THEOREM SessionsEnd == Spec => []SessionOfThisInstall
<1>1. IInv => SessionOfThisInstall
  BY DEF IInv
<1> QED
  BY <1>1, Invariant, PTL

(* No message row is without its file through any number of resets and      *)
(* deliveries (doFullReset clears the tables first), strays excepted.       *)
THEOREM RowsHaveFiles == Spec => []RowsKeepFiles
<1>1. IInv => RowsKeepFiles
  BY DEF IInv, Rows
<1> QED
  BY <1>1, Invariant, PTL

(* A request that comes to rest from the last step of a reset leaves only   *)
(* what was written since the reset began.                                  *)
LEMMA DoneIsThorough ==
  ASSUME IInv, NEW h \in Handler, At(h, "mails"), ResetDone(h)
  PROVE  Remains' \subseteq past.since
<1>1. SweptAt("mails")
  BY DEF IInv, Swept, At
<1>2. mails' = {} /\ UNCHANGED << config, sessions, store >>
  BY DEF ResetDone
<1> QED
  BY <1>1, <1>2 DEF SweptAt, Remains, config

(* A process that dies right before the end of a reset leaves only what     *)
(* came since.                                                              *)
LEMMA RestartIsThorough ==
  ASSUME IInv, NEW h \in Handler, At(h, "mails"), Restart
  PROVE  Remains' \subseteq past.since
<1>1. SweptAt("mails")
  BY DEF IInv, Swept, At
<1>2. /\ mails' = {} /\ sessions' = {} /\ UNCHANGED << file, store >>
      /\ cur' = IF Loaded = Absent THEN Nil ELSE 1
  BY DEF Restart
<1>3. cur' # Nil => file.is # Absent
  BY <1>2 DEF Loaded, Broken
<1> QED
  BY <1>1, <1>2, <1>3 DEF SweptAt, Remains

(* A request moves nobody but itself, and only its own last step takes a    *)
(* reset to the end.                                                        *)
LEMMA MovesItself ==
  ASSUME NEW h \in Handler, Begin(h) \/ GoOn(h)
  PROVE  hd' = hd \/ \E r : Go(h, r)
<1>1. CASE Begin(h)
  BY <1>1 DEF Begin, SetupAsk, LoginRead, Logout, SettingsRead, ResetPrepare, ResetConfirm,
              CreateAccount, DeliverFile, EnqueueFile, MailLogin, MailLogout
<1>2. CASE SetupConfig(h) \/ Truncate(h) \/ Write(h) \/ SaveFails(h) \/ LoginSession(h)
           \/ MailSession(h) \/ SettingsChange(h) \/ SettingsRefused(h) \/ SettingsSet(h)
  BY <1>2 DEF SetupConfig, Truncate, Write, SaveFails, LoginSession, MailSession, SettingsChange,
              SettingsRefused, SettingsSet, Install, To, Done
<1>3. CASE ApplyBegin(h) \/ ApplyProbe(h) \/ ApplyClose(h) \/ ApplyListen(h) \/ ApplyEnd(h)
           \/ WebRead(h) \/ WebBind(h) \/ WebSwap(h)
  BY <1>3 DEF ApplyBegin, ApplyProbe, ApplyClose, ApplyListen, ApplyEnd, WebRead, WebBind, WebSwap,
              Advance, Install, To, Done
<1>4. CASE DeliverRow(h) \/ EnqueueRow(h) \/ ResetTable(h) \/ ResetFiles(h) \/ ResetForget(h)
           \/ ResetRemove(h) \/ ResetDone(h)
  BY <1>4 DEF DeliverRow, EnqueueRow, ResetTable, ResetFiles, ResetForget, ResetRemove, ResetDone,
              To, Done
<1> QED
  BY <1>1, <1>2, <1>3, <1>4 DEF GoOn
(* The last step of a reset is its only way on.                             *)
LEMMA OnlyDoneFromMails ==
  ASSUME NEW h \in Handler, At(h, "mails"), Begin(h) \/ GoOn(h)
  PROVE  ResetDone(h)
BY DEF Begin, GoOn, At, SetupConfig, Truncate, Write, SaveFails, LoginSession, MailSession,
       SettingsChange, SettingsRefused, SettingsSet, ApplyBegin, ApplyProbe, ApplyClose, ApplyListen, ApplyEnd,
       WebRead, WebBind, WebSwap, DeliverRow, EnqueueRow, ResetTable, ResetFiles, ResetForget,
       ResetRemove

(* A reset that answers ok has wiped everything that was there when it      *)
(* began (doFullReset), also when the process dies after its last write.    *)
THEOREM ResetIsThorough == Spec => ResetLeavesOnlyNew
<1>1. ASSUME IInv, [Next]_vars
      PROVE  [(\E h \in Handler : At(h, "mails") /\ At(h, "idle")') => Remains' \subseteq past.since]_vars
  <2>1. SUFFICES ASSUME NEW h \in Handler, At(h, "mails"), At(h, "idle")', ~ UNCHANGED vars
                 PROVE  Remains' \subseteq past.since
    OBVIOUS
  <2>2. hd'[h] # hd[h]
    BY <2>1 DEF At
  <2>3. CASE Restart
    BY <1>1, <2>1, <2>3, RestartIsThorough
  <2>4. CASE Taken \/ Listeners
    BY <2>2, <2>4 DEF Taken, Listeners
  <2>5. ASSUME NEW g \in Handler, Begin(g) \/ GoOn(g)
        PROVE  Remains' \subseteq past.since
    <3>1. CASE g = h
      BY <1>1, <2>1, <2>5, <3>1, OnlyDoneFromMails, DoneIsThorough
    <3>2. CASE g # h
      BY <1>1, <2>2, <2>5, <3>2, MovesItself, Pcs DEF IInv, Types
    <3> QED
      BY <3>1, <3>2
  <2> QED
    BY <1>1, <2>1, <2>3, <2>4, <2>5 DEF Next
<1> QED
  BY <1>1, Invariant, PTL DEF Spec, ResetLeavesOnlyNew

=============================================================================

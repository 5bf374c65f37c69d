------------------------------ MODULE Console ------------------------------
(***************************************************************************)
(* The administrator's side of the process: set-up, login, and settings    *)
(* with live port changes (internal/web web.go and handlers_admin.go,      *)
(* internal/state).  Every request is a goroutine; hd[h] is where the      *)
(* request is that h serves.                                               *)
(***************************************************************************)
EXTENDS PortManager

CONSTANTS
  Handler,       \* goroutines that serve requests
  Scenario,      \* the kinds of requests, how many of them, of restarts and of ports
                 \* taken by other processes, the ports busy at first, the ports asked
                 \* for, whether requests may be malformed and writing or removing files
                 \* may fail (bounds)
  DefaultPort,   \* Service -> the port without a configuration
  MaxInstalls    \* bound of the model: how often the instance is set up

(* The ports a request may ask for: of any services, or of none.            *)
Asked == UNION {[d -> Port] : d \in SUBSET Service}
Plan  == [ops : SUBSET STRING, requests : Nat, installed : BOOLEAN, restarts : Nat, grabs : Nat,
          busy : SUBSET Port, ports : SUBSET Asked, refused : BOOLEAN, failing : BOOLEAN]
(* A process that could not have the web port would not be there.           *)
ASSUME ConsoleAssumption == /\ DefaultPort \in [Service -> Port]
                            /\ Scenario \subseteq Plan
                            /\ \A s \in Scenario : CanStart(DefaultPort, s.busy)

VARIABLES
  obj,           \* the Config objects of the process, by address; requests keep pointers
  cur,           \* State.cfg: an index into obj, or Nil
  file,          \* config.json: [gen, is]; gen tells files of the same name apart
  sessions,      \* admin sessions: the installations they were opened on
  mails,         \* webmail sessions: their accounts
  store,         \* [accounts, mail, blobs, queue, outbound]: rows and files
  reset,         \* is there a confirmation token?
  hd,            \* Handler -> the request it serves
  left,          \* what is left of the scenario
  installs,      \* history: installations so far
  past,          \* history, see Past below
  mixed          \* history: requests that change the configuration overlapped

config == << obj, cur, file >>
auth   == << sessions, mails, reset >>
vars   == << pvars, config, auth, store, hd, left, installs, past, mixed >>

Nil    == 0
Absent == [inst |-> 0]            \* no config.json
Torn   == [inst |-> 1000]         \* truncated, or overwritten in part
Broken(f) == f \in {Absent, Torn}
Now    == IF cur = Nil THEN Absent ELSE obj[cur]

(* What the properties remember: what was written since the running reset   *)
(* began; installations that a login or a pointer outlived; accounts that   *)
(* were made while a reset ran; whether a refused request, a save or a      *)
(* removal that failed has left memory and file apart; services whose last  *)
(* change was answered with an error or is not applied live; protocols that *)
(* did not come up, or lost both ports; how often each has moved.           *)
Past(down) == [since |-> {}, late |-> {}, strays |-> {}, half |-> FALSE, off |-> {},
               down |-> down, moves |-> [p \in Proto |-> 0]]
Wrote(kind) == past' = [past EXCEPT !.since = @ \cup {kind}]

Idle == [pc |-> "idle", op |-> "none", ref |-> Nil, gen |-> 0, snap |-> Absent, then |-> "idle",
         want |-> << >>, old |-> << >>, todo |-> << >>, errs |-> {}, port |-> NoPort]
At(h, pc)  == hd[h].pc = pc
Go(h, r)   == hd' = [hd EXCEPT ![h] = r]
To(h, pc)  == Go(h, [hd[h] EXCEPT !.pc = pc])
Done(h)    == Go(h, Idle)

(* A request that is changing the configuration or the ports; two of them   *)
(* at once are an overlap, and so is one whose object is not the current    *)
(* one, or that moves the web port while the loop still takes up the last.  *)
Changing(h) == \/ hd[h].op \in {"setup", "settings"} /\ hd[h].pc \notin {"wizard", "read"}
               \/ At(h, "remove")
Overlap == \/ \E g, h \in Handler : g # h /\ Changing(g) /\ Changing(h)
           \/ \E h \in Handler : Changing(h) /\ hd[h].op = "settings" /\ hd[h].ref # cur
           \/ \E h \in Handler : hd[h].pc \in {"bind", "publish", "closeold"} /\ loop.pc = "track"

Changed(c, w) == LET ps == {p \in DOMAIN w : w[p] # c.port[p]} IN [p \in ps |-> w[p]]
With(c, w)    == [c EXCEPT !.port = [p \in Service |-> IF p \in DOMAIN w THEN w[p] ELSE @[p]]]
-----------------------------------------------------------------------------

(* State.SetConfig by request h, of the object at address a, then Save.     *)
Install(h, a, then, hist) ==
  /\ cur'  = a
  /\ past' = [hist EXCEPT !.late = IF cur \in {Nil, a} THEN @ ELSE @ \cup {obj[cur].inst},
                          !.since = @ \cup {"config"}]
  /\ Go(h, [hd[h] EXCEPT !.pc = "save", !.then = then])

(* Save: os.WriteFile truncates the file, then writes what was marshalled   *)
(* before.  A file somebody else wrote to meanwhile may end as a mixture;   *)
(* one that was removed stays removed.                                      *)
Truncate(h) ==
  /\ At(h, "save")
  /\ IF cur = Nil THEN To(h, hd[h].then) /\ UNCHANGED file
     ELSE /\ file' = [file EXCEPT !.is = Torn]
          /\ Go(h, [hd[h] EXCEPT !.pc = "write", !.snap = obj[cur], !.gen = file.gen])
  /\ Wrote("config")
  /\ UNCHANGED << pvars, obj, cur, auth, store, left, installs >>
SavedFaulty(snap) == {file.is}
Saved(snap) == IF file.is \in {Torn, snap} THEN {snap} ELSE {snap, Torn}
Write(h) ==
  /\ At(h, "write")
  /\ IF hd[h].gen = file.gen THEN \E f \in Saved(hd[h].snap) : file' = [file EXCEPT !.is = f]
     ELSE UNCHANGED file
  /\ past' = [past EXCEPT !.since = @ \cup {"config"}, !.half = @ /\ hd[h].snap # Now]
  /\ To(h, hd[h].then)
  /\ UNCHANGED << pvars, obj, cur, auth, store, left, installs >>
(* os.WriteFile fails: the file cannot be opened and stays as it was, or it *)
(* is truncated and stays that.  The object is in place all the same.  The  *)
(* request is answered 500 and ends, except where the configuration is      *)
(* saved for the second time: there nobody hears of it.                     *)
SaveFails(h) ==
  /\ left.failing
  /\ At(h, "write") \/ (At(h, "save") /\ cur # Nil)
  /\ LET again == hd[h].errs # {}
     IN /\ past' = [past EXCEPT !.since = @ \cup {"config"}, !.half = TRUE,
                                !.off = IF again THEN @ ELSE @ \cup DOMAIN hd[h].want]
        /\ IF again THEN To(h, hd[h].then) ELSE Done(h)
  /\ UNCHANGED << pvars, config, auth, store, left, installs >>
-----------------------------------------------------------------------------

(* handleSetup: Installed is asked first, and the configuration put in      *)
(* place after the password was hashed; then the mail ports are applied,    *)
(* whose errors are answered, the configuration staying as it is.  The web  *)
(* port is only written down.                                               *)
SetupAsk(h) ==
  /\ cur = Nil
  /\ \E w \in left.ports :
       Go(h, [Idle EXCEPT !.pc = "wizard", !.op = "setup",
                          !.want = [p \in Service |-> IF p \in DOMAIN w THEN w[p] ELSE DefaultPort[p]]])
  /\ UNCHANGED << pvars, config, auth, store, installs, past >>
SetupConfig(h) ==
  /\ At(h, "wizard") /\ installs < MaxInstalls
  /\ installs' = installs + 1
  /\ obj' = Append(obj, [inst |-> installs + 1, port |-> hd[h].want])
  /\ Install(h, Len(obj) + 1, "apply",
             [past EXCEPT !.off = IF hd[h].want["web"] = webCur THEN {} ELSE {"web"}])
  /\ UNCHANGED << pvars, file, auth, store, left >>

(* handleLogin, with the right password: the hash is read, compared, and    *)
(* then the session is made.  handleLogout.                                 *)
LoginRead(h) ==
  /\ cur # Nil
  /\ Go(h, [Idle EXCEPT !.pc = "login", !.op = "login", !.ref = cur])
  /\ UNCHANGED << pvars, config, auth, store, installs, past >>
LoginSession(h) ==
  /\ At(h, "login")
  /\ LET i == obj[hd[h].ref].inst
     IN /\ sessions' = sessions \cup {i}
        /\ past' = [past EXCEPT !.since = @ \cup {"sessions"},
                                !.late = IF Now.inst = i THEN @ ELSE @ \cup {i}]
  /\ Done(h)
  /\ UNCHANGED << pvars, config, mails, reset, store, left, installs >>
Logout(h) ==
  /\ \E i \in sessions : sessions' = sessions \ {i}
  /\ UNCHANGED << pvars, config, mails, reset, store, hd, installs, past >>

(* adminAuth: any session that is in the map.                               *)
Authorised == sessions # {}

(* adminUpdateSettings.  The object everybody shares is changed in place    *)
(* before the request is known to be in order.                              *)
SettingsRead(h) ==
  /\ Authorised /\ cur # Nil
  /\ Go(h, [Idle EXCEPT !.pc = "read", !.op = "settings", !.ref = cur])
  /\ UNCHANGED << pvars, config, auth, store, installs, past >>
SettingsChange(h) ==
  /\ At(h, "read")
  /\ \E w \in left.ports :
       LET a == hd[h].ref  c == Changed(obj[a], w)
       IN /\ obj' = [obj EXCEPT ![a] = With(@, c)]
          /\ \/ Go(h, [hd[h] EXCEPT !.pc = "set", !.want = c]) /\ UNCHANGED past
             \/ /\ left.refused /\ DOMAIN c # {}
                /\ To(h, "refused")
                /\ past' = [past EXCEPT !.half = TRUE, !.off = @ \cup DOMAIN c]
  /\ UNCHANGED << pvars, cur, file, auth, store, left, installs >>
SettingsRefused(h) ==
  /\ At(h, "refused")
  /\ Done(h)
  /\ UNCHANGED << pvars, config, auth, store, left, installs, past >>
SettingsSet(h) ==
  /\ At(h, "set")
  /\ Install(h, hd[h].ref, IF DOMAIN hd[h].want = {} THEN "web" ELSE "apply", past)
  /\ UNCHANGED << pvars, obj, file, auth, store, left, installs >>
(* ApplyProtocolPorts: one protocol after the other, from where they were   *)
(* when it began.                                                           *)
ApplyBegin(h) ==
  /\ At(h, "apply")
  /\ Go(h, [hd[h] EXCEPT !.pc = "probe", !.old = addr, !.todo = Order])
  /\ UNCHANGED << pvars, config, auth, store, left, installs, past >>
Advance(h, errs) ==
  Go(h, [hd[h] EXCEPT !.pc = "probe", !.todo = Tail(@), !.errs = @ \cup errs])
ApplyProbe(h) ==
  /\ At(h, "probe") /\ hd[h].todo # << >>
  /\ LET p     == Head(hd[h].todo)
         asked == p \in DOMAIN hd[h].want
         moved == asked /\ hd[h].want[p] # hd[h].old[p]
     IN \/ /\ ~ moved
           /\ addr' = IF asked THEN [addr EXCEPT ![p] = hd[h].old[p]] ELSE addr
           /\ past' = IF asked THEN [past EXCEPT !.off = @ \ {p}] ELSE past
           /\ Advance(h, {})
        \/ /\ moved /\ ~ Probe(hd[h].want[p])
           /\ addr' = [addr EXCEPT ![p] = hd[h].old[p]]
           /\ past' = [past EXCEPT !.off = @ \cup {p}]
           /\ Advance(h, {p})
        \/ /\ moved /\ Probe(hd[h].want[p])
           /\ To(h, "close")
           /\ UNCHANGED << addr, past >>
  /\ UNCHANGED << bound, served, ln, closed, webCur, prevWeb, swap, loop,
                  config, auth, store, left, installs >>
(* Without a listener smtpd panics; the HTTP server drops the request.      *)
ApplyClose(h) ==
  /\ At(h, "close")
  /\ LET p == Head(hd[h].todo)
     IN \/ /\ Panics(p)
           /\ Done(h)
           /\ past' = [past EXCEPT !.off = @ \cup DOMAIN hd[h].want]
           /\ UNCHANGED << bound, served, closed >>
        \/ /\ ~ Panics(p)
           /\ CloseServer(p)
           /\ To(h, "listen")
           /\ past' = [past EXCEPT !.moves[p] = @ + 1]
  /\ UNCHANGED << ln, addr, webCur, prevWeb, swap, loop, config, auth, store, left, installs >>
ApplyListen(h) ==
  /\ At(h, "listen")
  /\ LET p  == Head(hd[h].todo)  want == hd[h].want[p]  old == hd[h].old[p]
         ok == bound[want] = "free"
     IN /\ Rebound(p, old, want)
        /\ Advance(h, IF ok THEN {} ELSE {p})
        /\ past' = [past EXCEPT !.off  = IF ok THEN @ \ {p} ELSE @ \cup {p},
                                !.down = IF ok \/ bound[old] \in {"free", p} THEN @ \ {p}
                                         ELSE @ \cup {p}]
  /\ UNCHANGED << closed, webCur, prevWeb, swap, loop, config, auth, store, left, installs >>

(* A settings request takes back the ports that could not be had, and saves *)
(* again; then comes the web port.                                          *)
RevertedFaulty(c, errs) == c
Reverted(c, errs) == With(c, [p \in errs |-> addr[p]])
ApplyEnd(h) ==
  /\ At(h, "probe") /\ hd[h].todo = << >>
  /\ \/ /\ hd[h].op = "setup"
        /\ Done(h)
        /\ UNCHANGED << obj, cur, past >>
     \/ /\ hd[h].op = "settings" /\ hd[h].errs # {}
        /\ obj' = [obj EXCEPT ![hd[h].ref] = Reverted(@, hd[h].errs)]
        /\ Install(h, hd[h].ref, "web", [past EXCEPT !.off = @ \ hd[h].errs])
     \/ /\ hd[h].op = "settings" /\ hd[h].errs = {}
        /\ To(h, "web")
        /\ UNCHANGED << obj, cur, past >>
  /\ UNCHANGED << pvars, file, auth, store, left, installs >>
WebRead(h) ==
  /\ At(h, "web")
  /\ IF "web" \in DOMAIN hd[h].want
     THEN Go(h, [hd[h] EXCEPT !.pc = "bind", !.port = webCur])
     ELSE Done(h)
  /\ UNCHANGED << pvars, config, auth, store, left, installs, past >>
WebBind(h) ==
  /\ At(h, "bind")
  /\ LET w == hd[h].want["web"]
     IN \/ /\ BindWeb(hd[h].port, w)
           /\ To(h, "publish")
           /\ past' = [past EXCEPT !.off = @ \ {"web"}]
        \/ /\ w # hd[h].port /\ bound[w] # "free"
           /\ Done(h)
           /\ past' = [past EXCEPT !.off = @ \cup {"web"}]
           /\ UNCHANGED << bound, webCur, prevWeb >>
  /\ UNCHANGED << served, ln, closed, addr, swap, loop, config, auth, store, left, installs >>
WebSwap(h) ==
  /\ \/ At(h, "publish")  /\ First(hd[h].want["web"]) /\ To(h, "closeold")
     \/ At(h, "closeold") /\ Second(hd[h].want["web"]) /\ Done(h)
  /\ UNCHANGED << served, ln, closed, addr, webCur, config, auth, store, left, installs, past >>
=============================================================================

---------------------------- MODULE PortManager ----------------------------
(***************************************************************************)
(* The listeners of the process and how they move to other ports without a *)
(* restart: internal/web/ports.go, the Listen and Close of the servers,    *)
(* and the serving loop of the web UI in main.  A listener is named by its *)
(* port; no port can be bound twice.  The calls come from request handlers *)
(* (Console) and are split into steps, because nothing locks them out of   *)
(* each other: the mutex covers single fields only.                        *)
(***************************************************************************)
EXTENDS Naturals, Sequences, FiniteSets

CONSTANTS
  Port,        \* port numbers
  Proto        \* the protocol servers: a subset of {"smtp", "pop3", "imap"}

NoPort  == 0
Service == Proto \cup {"web"}

ASSUME PortAssumption == /\ Port \subseteq Nat \ {NoPort}
                         /\ Proto \subseteq {"smtp", "pop3", "imap"}

VARIABLES
  bound,       \* Port -> who holds it: a service, "free" or "other", another process
  served,      \* ports of protocol servers somebody accepts connections from
  ln,          \* Proto -> the server's listener
  closed,      \* Proto -> its flag "closed" (pop3d and imapd)
  addr,        \* Proto -> where the manager says it listens (current.smtpAddr, ...)
  webCur,      \* the web listener the manager tracks (current.web)
  prevWeb,     \* the one it replaced and has to close
  swap,        \* the one published to the serving loop (webSwap)
  loop         \* the serving loop: where it is, its listener, and whether that is open

pvars == << bound, served, ln, closed, addr, webCur, prevWeb, swap, loop >>

(* main starts the servers in this order, each on the port it wants.  A     *)
(* protocol that cannot bind is logged, and tracked all the same; for the   *)
(* web UI it is fatal.                                                      *)
Present(p) == IF p \in Proto THEN << p >> ELSE << >>
Order     == Present("smtp") \o Present("pop3") \o Present("imap")
Before(p) == {Order[i] : i \in {j \in DOMAIN Order : \E k \in DOMAIN Order : j < k /\ Order[k] = p}}
StartsFaulty(want, taken) == Proto
Starts(want, taken)   == {p \in Proto : want[p] \notin taken \cup {want[q] : q \in Before(p)}}
CanStart(want, taken) == want["web"] \notin taken \cup {want[p] : p \in Proto}
AfterStart(want, taken) ==
  LET up  == Starts(want, taken)
      who(q) == {p \in up \cup {"web"} : want[p] = q}
  IN [bound  |-> [q \in Port |-> IF q \in taken THEN "other"
                                 ELSE IF who(q) # {} THEN CHOOSE p \in who(q) : TRUE ELSE "free"],
      served |-> {want[p] : p \in up},
      ln     |-> [p \in Proto |-> IF p \in up THEN want[p] ELSE NoPort],
      addr   |-> [p \in Proto |-> want[p]],
      loop   |-> [pc |-> "serve", on |-> want["web"], open |-> TRUE]]

(* rebind.  First the new port is tried and freed again: the listener that  *)
(* is in use is not touched when that fails.                                *)
Probe(port) == bound[port] = "free"

(* Then the server is closed.  smtpd closes its listener every time (and    *)
(* panics when it never had one); pop3d and imapd only the first time.      *)
Panics(p) == p = "smtp" /\ ln[p] = NoPort
Free(b, port, who) == IF port # NoPort /\ b[port] = who THEN [b EXCEPT ![port] = "free"] ELSE b
CloseServer(p) ==
  /\ closed' = [closed EXCEPT ![p] = p # "smtp"]
  /\ IF closed[p] THEN UNCHANGED << bound, served >>
     ELSE /\ bound'  = Free(bound, ln[p], p)
          /\ served' = served \ {ln[p]}

(* Then it listens on the new port, or, when somebody took that meanwhile,  *)
(* on the old one again; both may be gone.  The answer is where the manager *)
(* takes it to be.                                                          *)
ListenServer(p, port) ==
  /\ bound'  = [bound EXCEPT ![port] = p]
  /\ served' = served \cup {port}
  /\ ln'     = [ln EXCEPT ![p] = port]
FallbackFaulty(p, old) == UNCHANGED << bound, served, ln >>
Fallback(p, old) ==
  IF bound[old] = "free" THEN ListenServer(p, old) ELSE UNCHANGED << bound, served, ln >>
Rebound(p, old, want) ==
  IF bound[want] = "free" THEN ListenServer(p, want) /\ addr' = [addr EXCEPT ![p] = want]
  ELSE Fallback(p, old) /\ addr' = [addr EXCEPT ![p] = old]

(* pop3d looks its listener up before every Accept: a loop whose listener   *)
(* was left open serves one more connection there and then turns away.      *)
StrayAccept ==
  \E q \in served :
     /\ bound[q] = "pop3" /\ q # ln["pop3"]
     /\ served' = served \ {q}
     /\ UNCHANGED << bound, ln, closed, addr, webCur, prevWeb, swap, loop >>

(* BindNewWebListener, after the current listener cur was read.             *)
BindWeb(cur, port) ==
  IF port = cur THEN UNCHANGED << bound, webCur, prevWeb >>
  ELSE /\ bound[port] = "free"
       /\ bound'   = [bound EXCEPT ![port] = "web"]
       /\ webCur'  = port
       /\ prevWeb' = cur

(* setWebSwap, then ClosePreviousWebListener: in this order, so that the    *)
(* loop finds the new listener when the old one fails.                      *)
PublishWeb(port) == swap' = port /\ UNCHANGED << bound, prevWeb, loop >>
ClosePrevWeb ==
  /\ bound'   = Free(bound, prevWeb, "web")
  /\ prevWeb' = NoPort
  /\ loop'    = [loop EXCEPT !.open = @ /\ loop.on # prevWeb]
  /\ UNCHANGED swap
FirstFaulty(port)  == ClosePrevWeb
First(port)        == PublishWeb(port)
Second(port)       == ClosePrevWeb

(* The loop: Serve returns when its listener is closed; then it takes the   *)
(* published one, tracks it and serves it, or gives up.                     *)
Dead == loop.pc = "dead"
Wake ==
  /\ loop.pc = "serve" /\ ~ loop.open
  /\ loop' = IF swap = NoPort THEN [pc |-> "dead", on |-> NoPort, open |-> FALSE]
             ELSE [pc |-> "track", on |-> swap, open |-> bound[swap] = "web"]
  /\ swap' = NoPort
  /\ UNCHANGED << bound, served, ln, closed, addr, webCur, prevWeb >>
Track ==
  /\ loop.pc = "track"
  /\ webCur' = loop.on
  /\ loop'   = [loop EXCEPT !.pc = "serve"]
  /\ UNCHANGED << bound, served, ln, closed, addr, prevWeb, swap >>

(* Another process takes a port.                                            *)
Grab(port) ==
  /\ bound[port] = "free"
  /\ bound' = [bound EXCEPT ![port] = "other"]
  /\ UNCHANGED << served, ln, closed, addr, webCur, prevWeb, swap, loop >>

Reachable(s) ==
  IF s = "web" THEN loop.pc = "serve" /\ loop.open /\ loop.on = webCur
  ELSE addr[s] \in served /\ bound[addr[s]] = s
Held(s) == {q \in Port : bound[q] = s}
=============================================================================

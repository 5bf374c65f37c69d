------------------------- MODULE MailSessions_proofs ------------------------
(***************************************************************************)
(* What holds of any number of IMAP, POP3, SMTP and webmail connections on *)
(* the same mailboxes: the types; client and session count the same        *)
(* messages; the answers of DATA and of the webmail composer hold; and no  *)
(* message disappears that nobody asked to be removed.                     *)
(***************************************************************************)
EXTENDS MailSessions, FiniteSetTheorems, SequenceTheorems, TLAPS

BoxName == {"INBOX", "Trash", "Sent"} \cup Names \cup UNION {s.names : s \in Scenario}
Folder  == [user : User, name : BoxName, next : 1 .. MaxUid + 1]
AnyFlag == Flag \cup {"Seen"}
Row     == [user : User, box : Nat, uid : Nat, date : Date, flags : SUBSET AnyFlag]
Who     == User \cup {Nobody}

(* The mailboxes.  What is flagged \Deleted is what somebody asked for; and *)
(* every account keeps its INBOX.                                           *)
StoreTypes ==
  /\ users \subseteq User /\ nextBox \in Nat \ {0} /\ nextRow \in Nat \ {0}
  /\ DOMAIN boxes \subseteq 1 .. nextBox - 1 /\ \A f \in DOMAIN boxes : boxes[f] \in Folder
  /\ DOMAIN rows \subseteq 1 .. nextRow - 1 /\ \A m \in DOMAIN rows : rows[m] \in Row
Places == \A m \in DOMAIN rows : /\ rows[m].box \in DOMAIN boxes
                                 /\ rows[m].user = boxes[rows[m].box].user
                                 /\ rows[m].uid < boxes[rows[m].box].next
AskedKnown   == asked \cup revived \subseteq 1 .. nextRow - 1
DeletedAsked == \A m \in DOMAIN rows : "Deleted" \in rows[m].flags => m \in asked \cup revived
Inboxes      == \A u \in users : FolderByName(u, "INBOX") # {}
StoreInv     == StoreTypes /\ Places /\ AskedKnown /\ DeletedAsked /\ Inboxes

(* A folder id that a session keeps: its folder is the account's, or gone.  *)
Refers(f, u) == f < nextBox /\ (f \in DOMAIN boxes => boxes[f].user = u)

(* IMAP sessions and their clients.                                         *)
Entry0    == [id : Nat, uid : Nat, flags : SUBSET AnyFlag]
ImapState ==
  [pc : {"ready", "fetch", "store", "read back", "copy", "move", "delete", "expunge"},
   user : Who, box : Nat, list : Seq(Entry0), todo : SUBSET Nat,
   mode : {"set", "add", "remove"}, flags : SUBSET Flag, dest : Nat,
   moved : SUBSET Nat, kept : SUBSET Nat]
ImapAt(s) ==
  /\ s.todo \subseteq DOMAIN s.list
  /\ IF s.pc = "ready" THEN s.todo = {} ELSE s.user # Nobody
  /\ s.pc \in {"fetch", "store", "read back", "copy", "move"} => s.todo # {}
  /\ s.pc \in {"copy", "move"} => Refers(s.dest, s.user)
  /\ s.moved \subseteq s.kept /\ s.kept \subseteq 1 .. nextRow - 1
ClientState  == [view : Seq(Nat), misled : BOOLEAN]
Counts(v, s) == v.misled \/ IsPrefix(v.view, Ids(s.list))
ImapInv ==
  /\ imap \in [Conn -> ImapState] /\ client \in [Conn -> ClientState]
  /\ \A c \in Conn : ImapAt(imap[c]) /\ Counts(client[c], imap[c])

(* POP3 connections: what is marked, the client wants deleted.              *)
PopState ==
  [pc : {"auth", "load", "quit"}, last : Who, user : Who,
   msgs : Seq([id : Nat, deleted : BOOLEAN]), dirty : BOOLEAN, box : Nat,
   todo : SUBSET Nat, wanted : SUBSET Nat]
PopAt(s) ==
  /\ \A k \in DOMAIN s.msgs : s.msgs[k].deleted => s.msgs[k].id \in s.wanted
  /\ s.pc = "quit" => s.todo \subseteq {k \in DOMAIN s.msgs : s.msgs[k].deleted}
PopInv == pop \in [Conn -> PopState] /\ \A c \in Conn : PopAt(pop[c])

(* SMTP sessions: from MAIL to the answer the client has named the          *)
(* recipients; a local one that DATA is through with has its copy, lost its *)
(* account, or was dropped.  The INBOX that RCPT found is there as long as  *)
(* its account.                                                             *)
RcptRow == [user : Who, box : Nat]
Serves(f, u) == Refers(f, u) /\ (u \in users => f \in DOMAIN boxes /\ boxes[f].name = "INBOX")
SmtpState ==
  [pc : {"ready", "data", "filter", "sent"}, user : Who, from : BOOLEAN,
   rcpts : Seq(RcptRow), todo : SUBSET Nat, fresh : Nat, anyOK : BOOLEAN]
Said == {"none", "250", "451"}
Answered(gave, made, bad, said) ==
  /\ made \subseteq gave
  /\ said = "250" => made # {} /\ ((gave \ (made \cup bad)) \ {Nobody}) \cap users = {}
  /\ said = "451" => made = {}
RcptsAt(s) ==
  \A k \in DOMAIN s.rcpts : IF s.rcpts[k].user = Nobody THEN s.rcpts[k].box = 0
                            ELSE s.rcpts[k].box # 0 /\ Serves(s.rcpts[k].box, s.rcpts[k].user)
MailAt(s, gave, made, bad, said) ==
  /\ s.from \/ s.rcpts = << >>
  /\ s.pc # "ready" => s.from
  /\ s.from => said = "none" /\ gave = {s.rcpts[k].user : k \in DOMAIN s.rcpts}
  /\ s.from /\ s.pc = "ready" => made = {}
DataAt(s, made, bad) ==
  /\ s.pc \in {"data", "filter", "sent"} =>
       /\ s.todo \subseteq {k \in DOMAIN s.rcpts : s.rcpts[k].box # 0}
       /\ s.anyOK => made # {}
       /\ \A k \in DOMAIN s.rcpts \ s.todo : s.rcpts[k].user \in made \cup bad \cup {Nobody} \/ s.rcpts[k].user \notin users
  /\ s.pc \in {"data", "filter"} => (made # {} => s.anyOK)
  /\ s.pc = "filter" => /\ s.todo # {} /\ s.rcpts[Min(s.todo)].user \in made
                         /\ s.fresh \in 1 .. nextRow - 1
  /\ s.pc = "sent" => s.todo = {} /\ made # {}
SmtpAt(s, gave, made, bad, said) == RcptsAt(s) /\ MailAt(s, gave, made, bad, said) /\ DataAt(s, made, bad)
SmtpInv ==
  /\ smtp \in [Conn -> SmtpState] /\ answer \in [Conn -> Said]
  /\ given \in [Conn -> SUBSET Who] /\ copied \in [Conn -> SUBSET Who]
  /\ dropped \in [Conn -> SUBSET Who]
  /\ \A c \in Conn : /\ SmtpAt(smtp[c], given[c], copied[c], dropped[c], answer[c])
                     /\ Answered(given[c], copied[c], dropped[c], answer[c])

(* Webmail requests: whom the composer does not have on its list any more   *)
(* it has reached, or the account is gone, or the store failed them.        *)
WebState ==
  [pc : {"idle", "readall", "compose", "enqueue"}, user : Who, to : SUBSET Who,
   todo : SUBSET User, remote : BOOLEAN, ids : SUBSET Nat,
   reply : {"none", "ok", "not found", "sent", "error"}]
WebAt(s, got, bad) ==
  /\ s.pc \in {"compose", "enqueue"} =>
       /\ ((s.to \ s.todo) \ (got \cup bad)) \cap users = {}
       /\ Nobody \in s.to => s.remote
       /\ s.pc = "enqueue" => s.todo = {}
       /\ s.reply = "none"
  /\ s.reply = "sent" =>
       /\ (s.to \ (got \cup bad)) \cap users = {}
       /\ s.remote \/ Nobody \in s.to => Nobody \in got
WebInv ==
  /\ web \in [Conn -> WebState] /\ reached \in [Conn -> SUBSET Who] /\ missed \in [Conn -> SUBSET Who]
  /\ \A c \in Conn : WebAt(web[c], reached[c], missed[c])

IInv == StoreInv /\ ImapInv /\ PopInv /\ SmtpInv /\ WebInv

-----------------------------------------------------------------------------
(* Finite sets of numbers: the rank of an element, and the least one.       *)

(* Distinct elements have distinct ranks, so every rank below the size of   *)
(* the set is somebody's.                                                   *)
LEMMA RanksAreAll ==
  ASSUME NEW S \in SUBSET Nat, IsFiniteSet(S)
  PROVE  /\ Cardinality(S) \in Nat
         /\ \A k \in S : Cardinality(Before(S, k)) \in 0 .. Cardinality(S) - 1
         /\ \A j, k \in S : j < k => Cardinality(Before(S, j)) < Cardinality(Before(S, k))
         /\ \A i \in 0 .. Cardinality(S) - 1 : \E k \in S : Cardinality(Before(S, k)) = i
<1> DEFINE N == Cardinality(S)
           R(k) == Cardinality(Before(S, k))
           f == [k \in S |-> R(k)]
<1>1. N \in Nat
  BY FS_CardinalityType
<1>2. ASSUME NEW k \in S PROVE R(k) \in 0 .. N - 1
  <2>1. Before(S, k) \subseteq S /\ Before(S, k) # S
    BY DEF Before
  <2>2. IsFiniteSet(Before(S, k)) /\ R(k) <= N /\ R(k) # N
    BY <2>1, FS_Subset
  <2>3. R(k) \in Nat
    BY <2>2, FS_CardinalityType
  <2> QED BY <1>1, <2>2, <2>3
<1>3. ASSUME NEW j \in S, NEW k \in S, j < k PROVE R(j) < R(k)
  <2>0. j \in Nat /\ k \in Nat /\ \A i \in S : i \in Nat
    OBVIOUS
  <2>1a. \A i \in S : i < j => i < k
    BY <1>3, <2>0
  <2>1b. j \in Before(S, k) /\ j \notin Before(S, j)
    BY <1>3, <2>0 DEF Before
  <2>1. Before(S, j) \subseteq Before(S, k) /\ Before(S, j) # Before(S, k)
    BY <2>1a, <2>1b DEF Before
  <2>2. Before(S, k) \in SUBSET S
    BY DEF Before
  <2>3. IsFiniteSet(Before(S, k))
    BY <2>2, FS_Subset
  <2>4. R(j) <= R(k) /\ R(j) # R(k)
    BY <2>1, <2>3, FS_Subset
  <2> QED BY <1>2, <2>4
<1>4. f \in Injection(S, 0 .. N - 1)
  <2>1. f \in [S -> 0 .. N - 1]
    BY <1>2
  <2>2. ASSUME NEW j \in S, NEW k \in S, f[j] = f[k] PROVE j = k
    <3>1. R(j) = R(k) /\ R(j) \in Nat /\ R(k) \in Nat
      BY <1>2, <2>2
    <3>2. ~(j < k) /\ ~(k < j)
      BY <1>3, <3>1
    <3> QED BY <3>2
  <2> QED BY <2>1, <2>2 DEF Injection, IsInjective
<1>5. IsFiniteSet(0 .. N - 1) /\ Cardinality(0 .. N - 1) = N
  <2> HIDE DEF N
  <2>1. 0 \in Int /\ N - 1 \in Int /\ N \in Nat
    BY <1>1
  <2>2. IsFiniteSet(0 .. N - 1) /\ Cardinality(0 .. N - 1) = IF 0 > N - 1 THEN 0 ELSE (N - 1) - 0 + 1
    BY <2>1, FS_Interval
  <2> QED BY <2>1, <2>2
<1>6. f \in Surjection(S, 0 .. N - 1)
  BY <1>4, <1>5, FS_Injection
<1>7. ASSUME NEW i \in 0 .. N - 1 PROVE \E k \in S : R(k) = i
  BY <1>6 DEF Surjection
<1> QED BY <1>1, <1>2, <1>3, <1>7

(* The least element of a finite set of numbers is one, and least.          *)
LEMMA MinIs ==
  ASSUME NEW S \in SUBSET Nat, IsFiniteSet(S), S # {}
  PROVE  Min(S) \in S /\ \A k \in S : Min(S) <= k
<1>1. Cardinality(S) # 0 /\ Cardinality(S) \in Nat
  BY FS_EmptySet, RanksAreAll
<1>2. 0 \in 0 .. Cardinality(S) - 1
  BY <1>1
<1>3. PICK m \in S : Cardinality(Before(S, m)) = 0
  BY <1>2, RanksAreAll
<1>4. IsFiniteSet(Before(S, m))
  BY FS_Subset DEF Before
<1>5. Before(S, m) = {}
  BY <1>3, <1>4, FS_EmptySet
<1>6. \A k \in S : m <= k
  <2> TAKE k \in S
  <2>1. ~(k < m)
    BY <1>5 DEF Before
  <2> QED BY <2>1
<1> QED BY <1>6 DEF Min

(* The positions of a sequence: finitely many numbers.                      *)
LEMMA PositionsAre ==
  ASSUME NEW T, NEW s \in Seq(T), NEW ks \in SUBSET DOMAIN s
  PROVE  ks \in SUBSET Nat /\ IsFiniteSet(ks) /\ (ks # {} => Min(ks) \in ks)
<1>1. DOMAIN s = 1 .. Len(s) /\ Len(s) \in Nat
  OBVIOUS
<1>2. IsFiniteSet(DOMAIN s)
  BY <1>1, FS_Interval
<1>3. ks \in SUBSET Nat /\ IsFiniteSet(ks)
  BY <1>1, <1>2, FS_Subset
<1> QED BY <1>3, MinIs

(* What stays of a sequence when some positions go is a sequence of its     *)
(* elements, and all of it when none goes.                                  *)
LEMMA LeaveIs ==
  ASSUME NEW T, NEW s \in Seq(T), NEW ks
  PROVE  /\ Leave(s, ks) \in Seq(T)
         /\ DOMAIN s \cap ks = {} => Leave(s, ks) = s
<1> DEFINE stay == DOMAIN s \ ks
           At1(i) == CHOOSE k \in stay : Cardinality(Before(stay, k)) = i - 1
<1>1. stay \in SUBSET Nat /\ IsFiniteSet(stay) /\ DOMAIN s = 1 .. Len(s) /\ Len(s) \in Nat
  BY PositionsAre
<1>2. Cardinality(stay) \in Nat
  BY <1>1, RanksAreAll
<1>3. ASSUME NEW i \in 1 .. Cardinality(stay) PROVE At1(i) \in stay /\ Cardinality(Before(stay, At1(i))) = i - 1
  <2>1. i - 1 \in 0 .. Cardinality(stay) - 1
    BY <1>2
  <2>2. \E k \in stay : Cardinality(Before(stay, k)) = i - 1
    <3> HIDE DEF stay
    <3> QED BY <1>1, <2>1, RanksAreAll
  <2> QED BY <2>2
<1>4. Leave(s, ks) = [i \in 1 .. Cardinality(stay) |-> s[At1(i)]]
  BY DEF Leave
<1>5. \A i \in 1 .. Cardinality(stay) : s[At1(i)] \in T
  <2> TAKE i \in 1 .. Cardinality(stay)
  <2>1. At1(i) \in DOMAIN s
    BY <1>3
  <2> HIDE DEF At1
  <2> QED BY <2>1
<1>6. Leave(s, ks) \in Seq(T)
  <2> HIDE DEF stay, At1
  <2> QED BY <1>2, <1>4, <1>5
<1>7. ASSUME DOMAIN s \cap ks = {} PROVE Leave(s, ks) = s
  <2>1. stay = 1 .. Len(s)
    BY <1>1, <1>7
  <2>2. Cardinality(stay) = Len(s)
    <3>1. 1 \in Int /\ Len(s) \in Int
      BY <1>1
    <3>2. Cardinality(1 .. Len(s)) = IF 1 > Len(s) THEN 0 ELSE Len(s) - 1 + 1
      BY <3>1, FS_Interval
    <3> HIDE DEF stay
    <3> QED BY <1>1, <2>1, <3>2
  <2>3. ASSUME NEW i \in 1 .. Len(s) PROVE At1(i) = i
    <3>1. At1(i) \in stay /\ Cardinality(Before(stay, At1(i))) = i - 1
      BY <1>3, <2>2
    <3> DEFINE k == At1(i)
    <3> HIDE DEF At1
    <3>2. k \in 1 .. Len(s)
      BY <2>1, <3>1
    <3>3. Before(stay, k) = 1 .. k - 1
      <4> HIDE DEF stay, k
      <4> QED BY <2>1, <3>2 DEF Before
    <3>4. Cardinality(1 .. k - 1) = k - 1
      <4> HIDE DEF k
      <4>1. 1 \in Int /\ k - 1 \in Int /\ k \in Nat
        BY <3>2
      <4>2. Cardinality(1 .. k - 1) = IF 1 > k - 1 THEN 0 ELSE (k - 1) - 1 + 1
        BY <4>1, FS_Interval
      <4> QED BY <3>2, <4>1, <4>2
    <3>5. k - 1 = i - 1
      BY <3>1, <3>3, <3>4
    <3> HIDE DEF k
    <3>6. k = i
      BY <3>2, <3>5
    <3> QED BY <3>6 DEF k
  <2>4. Leave(s, ks) = [i \in 1 .. Len(s) |-> s[i]]
    <3> HIDE DEF stay, At1
    <3>1. [i \in 1 .. Len(s) |-> s[At1(i)]] = [i \in 1 .. Len(s) |-> s[i]]
      BY <2>3
    <3> QED BY <1>4, <2>2, <3>1
  <2> QED BY <1>1, <2>4
<1> QED BY <1>6, <1>7

(* What is left without one position: those behind it move up.              *)
LEMMA LeaveOne ==
  ASSUME NEW T, NEW s \in Seq(T), NEW p \in DOMAIN s
  PROVE  Leave(s, {p}) = [i \in 1 .. Len(s) - 1 |-> s[IF i < p THEN i ELSE i + 1]]
<1> DEFINE N == Len(s)
           stay == DOMAIN s \ {p}
           At1(i) == CHOOSE k \in stay : Cardinality(Before(stay, k)) = i - 1
           Nth(i) == IF i < p THEN i ELSE i + 1
<1>1. stay \in SUBSET Nat /\ IsFiniteSet(stay) /\ DOMAIN s = 1 .. N /\ N \in Nat
  BY PositionsAre
<1>2. p \in 1 .. N /\ p \in Nat
  BY <1>1
<1>3. Cardinality(stay) = N - 1
  <2>1. IsFiniteSet(1 .. N) /\ Cardinality(1 .. N) = N
    <3> HIDE DEF N
    <3>1. 1 \in Int /\ N \in Int /\ N \in Nat
      BY <1>1
    <3>2. IsFiniteSet(1 .. N) /\ Cardinality(1 .. N) = IF 1 > N THEN 0 ELSE N - 1 + 1
      BY <3>1, FS_Interval
    <3> QED BY <3>1, <3>2
  <2>2. Cardinality((1 .. N) \ {p}) = IF p \in 1 .. N THEN Cardinality(1 .. N) - 1 ELSE Cardinality(1 .. N)
    BY <2>1, FS_RemoveElement
  <2>3. stay = (1 .. N) \ {p}
    BY <1>1
  <2> HIDE DEF stay, N
  <2> QED BY <1>2, <2>1, <2>2, <2>3
<1>4. ASSUME NEW k \in stay PROVE Cardinality(Before(stay, k)) = IF k < p THEN k - 1 ELSE k - 2
  <2>1. k \in 1 .. N /\ k # p /\ k \in Nat
    BY <1>1
  <2>2. Before(stay, k) = (1 .. k - 1) \ {p}
    <3>1. Before(stay, k) \subseteq (1 .. k - 1) \ {p}
      BY <1>1, <2>1 DEF Before
    <3>2. ASSUME NEW j \in (1 .. k - 1) \ {p} PROVE j \in stay /\ j < k
      BY <1>1, <2>1
    <3>3. (1 .. k - 1) \ {p} \subseteq Before(stay, k)
      BY <3>2 DEF Before
    <3> QED BY <3>1, <3>3
  <2>3. IsFiniteSet(1 .. k - 1) /\ Cardinality(1 .. k - 1) = k - 1
    <3>1. 1 \in Int /\ k - 1 \in Int
      BY <2>1
    <3>2. IsFiniteSet(1 .. k - 1) /\ Cardinality(1 .. k - 1) = IF 1 > k - 1 THEN 0 ELSE (k - 1) - 1 + 1
      BY <3>1, FS_Interval
    <3>3. k >= 1
      <4> HIDE DEF N
      <4> QED BY <2>1, <1>1
    <3> QED BY <3>1, <3>2, <3>3
  <2>4. Cardinality((1 .. k - 1) \ {p}) = IF p \in 1 .. k - 1 THEN (k - 1) - 1 ELSE k - 1
    BY <2>3, FS_RemoveElement
  <2>5. p \in 1 .. k - 1 <=> ~(k < p)
    <3> HIDE DEF N
    <3> QED BY <1>2, <2>1
  <2> DEFINE C == Cardinality(Before(stay, k))
  <2>6. C = IF k < p THEN k - 1 ELSE (k - 1) - 1
    BY <2>2, <2>4, <2>5
  <2> HIDE DEF C
  <2>7. C = IF k < p THEN k - 1 ELSE k - 2
    BY <2>1, <2>6
  <2> QED BY <2>7 DEF C
<1>5. ASSUME NEW i \in 1 .. N - 1 PROVE At1(i) = Nth(i)
  <2>1. Nth(i) \in stay /\ (IF Nth(i) < p THEN Nth(i) - 1 ELSE Nth(i) - 2) = i - 1
    <3> HIDE DEF N
    <3> QED BY <1>1, <1>2
  <2>2. Cardinality(Before(stay, Nth(i))) = i - 1
    <3> HIDE DEF stay, Nth
    <3> QED BY <1>4, <2>1
  <2>3. At1(i) \in stay /\ Cardinality(Before(stay, At1(i))) = i - 1
    <3> HIDE DEF stay, Nth
    <3> QED BY <2>1, <2>2
  <2>4. (IF At1(i) < p THEN At1(i) - 1 ELSE At1(i) - 2) = i - 1
    <3> HIDE DEF stay, At1
    <3> QED BY <1>4, <2>3
  <2>5. At1(i) \in Nat /\ At1(i) # p
    <3> HIDE DEF At1
    <3> QED BY <1>1, <2>3
  <2> HIDE DEF At1
  <2>6. At1(i) = IF i < p THEN i ELSE i + 1
    <3> DEFINE a == At1(i)
    <3>1. a \in Nat /\ a # p /\ (IF a < p THEN a - 1 ELSE a - 2) = i - 1 /\ i \in Nat /\ p \in Nat
      BY <2>4, <2>5, <1>2, <1>1
    <3> HIDE DEF a
    <3>2. a = IF i < p THEN i ELSE i + 1
      BY <3>1
    <3> QED BY <3>2 DEF a
  <2> QED BY <2>6
<1>6. Leave(s, {p}) = [i \in 1 .. Cardinality(stay) |-> s[At1(i)]]
  BY DEF Leave
<1> HIDE DEF stay, At1
<1>7. Leave(s, {p}) = [i \in 1 .. N - 1 |-> s[Nth(i)]]
  BY <1>3, <1>5, <1>6
<1> QED BY <1>7

(* A prefix, position by position.                                          *)
LEMMA PrefixIs ==
  ASSUME NEW T, NEW s \in Seq(T), NEW t \in Seq(T)
  PROVE  IsPrefix(s, t) <=> Len(s) <= Len(t) /\ \A i \in 1 .. Len(s) : s[i] = t[i]
<1>1. ASSUME Len(s) <= Len(t) PROVE SubSeq(t, 1, Len(s)) = [i \in 1 .. Len(s) |-> t[i]]
  BY <1>1
<1>2. SubSeq(s, 1, Len(s)) = [i \in 1 .. Len(s) |-> s[i]]
  OBVIOUS
<1>3. ASSUME IsPrefix(s, t) PROVE Len(s) <= Len(t) /\ \A i \in 1 .. Len(s) : s[i] = t[i]
  <2>1. Len(s) <= Len(t) /\ [i \in 1 .. Len(s) |-> s[i]] = [i \in 1 .. Len(s) |-> t[i]]
    BY <1>1, <1>2, <1>3 DEF IsPrefix
  <2>2. ASSUME NEW i \in 1 .. Len(s) PROVE s[i] = t[i]
    <3>1. [j \in 1 .. Len(s) |-> s[j]][i] = [j \in 1 .. Len(s) |-> t[j]][i]
      BY <2>1
    <3> QED BY <3>1
  <2> QED BY <2>1, <2>2
<1>4. ASSUME Len(s) <= Len(t), \A i \in 1 .. Len(s) : s[i] = t[i] PROVE IsPrefix(s, t)
  <2>1. [i \in 1 .. Len(s) |-> s[i]] = [i \in 1 .. Len(s) |-> t[i]]
    BY <1>4
  <2> QED BY <1>1, <1>2, <1>4, <2>1 DEF IsPrefix
<1> QED BY <1>3, <1>4

(* The ids of a copy.                                                       *)
LEMMA IdsAre ==
  ASSUME NEW list \in Seq(Entry0)
  PROVE  Ids(list) \in Seq(Nat) /\ Len(Ids(list)) = Len(list) /\ \A k \in 1 .. Len(list) : Ids(list)[k] = list[k].id
<1>1. DOMAIN list = 1 .. Len(list) /\ Len(list) \in Nat /\ \A k \in 1 .. Len(list) : list[k] \in Entry0
  OBVIOUS
<1>2. \A k \in 1 .. Len(list) : list[k].id \in Nat
  BY <1>1 DEF Entry0
<1>3. Ids(list) = [k \in 1 .. Len(list) |-> list[k].id]
  BY <1>1 DEF Ids
<1> QED BY <1>1, <1>2, <1>3

(* When the ids at the positions of the view stay, the view stays a prefix. *)
LEMMA PrefixOfIds ==
  ASSUME NEW v \in Seq(Nat), NEW list \in Seq(Entry0)
  PROVE  IsPrefix(v, Ids(list)) <=>
           Len(v) <= Len(list) /\ \A i \in 1 .. Len(v) : v[i] = list[i].id
<1>1. /\ Ids(list) \in Seq(Nat) /\ Len(Ids(list)) = Len(list)
      /\ \A k \in 1 .. Len(list) : Ids(list)[k] = list[k].id
  BY IdsAre
<1>2. IsPrefix(v, Ids(list)) <=> Len(v) <= Len(Ids(list)) /\ \A i \in 1 .. Len(v) : v[i] = Ids(list)[i]
  BY <1>1, PrefixIs
<1>3. ASSUME Len(v) <= Len(list), NEW i \in 1 .. Len(v) PROVE Ids(list)[i] = list[i].id
  <2>1. i \in 1 .. Len(list)
    BY <1>3
  <2> QED BY <1>1, <2>1
<1> QED BY <1>1, <1>2, <1>3

(* The report of at most one message: the client that hears its number      *)
(* and the session that drops it go on counting the same messages.          *)
LEMMA ReportOne ==
  ASSUME NEW v \in Seq(Nat), NEW list \in Seq(Entry0), NEW ids, IsPrefix(v, Ids(list)),
         ~(Cardinality({k \in DOMAIN list : list[k].id \in ids}) > 1)
  PROVE  IsPrefix(Heard(v, {k \in DOMAIN list : list[k].id \in ids}), Ids(Kept(list, ids)))
<1> DEFINE ks == {k \in DOMAIN list : list[k].id \in ids}
<1>1. ks \in SUBSET Nat /\ IsFiniteSet(ks) /\ ks \subseteq DOMAIN list /\ DOMAIN list = 1 .. Len(list)
  BY PositionsAre
<1>2. Kept(list, ids) = Leave(list, ks)
  BY DEF Kept
<1>3. Len(v) <= Len(list) /\ \A i \in 1 .. Len(v) : v[i] = list[i].id
  BY PrefixOfIds
<1>4. ks = {} \/ \E p : ks = {p}
  <2>1. Cardinality(ks) \in Nat /\ ~(Cardinality(ks) > 1)
    BY <1>1, FS_CardinalityType
  <2> HIDE DEF ks
  <2>2. Cardinality(ks) = 0 \/ Cardinality(ks) = 1
    BY <2>1
  <2> QED BY <1>1, <2>2, FS_EmptySet, FS_Singleton
<1> HIDE DEF ks
<1>5. CASE ks = {}
  <2>1. Heard(v, ks) = Leave(v, {})
    BY <1>5 DEF Heard
  <2>2. Leave(v, {}) = v /\ Leave(list, {}) = list
    BY LeaveIs
  <2> QED BY <1>2, <1>5, <2>1, <2>2 DEF ks
<1>6. ASSUME NEW p, ks = {p} PROVE IsPrefix(Heard(v, ks), Ids(Leave(list, ks)))
  <2>1. p \in DOMAIN list /\ p \in Nat /\ p \in 1 .. Len(list)
    BY <1>1, <1>6
  <2>2. Heard(v, ks) = Leave(v, {p})
    <3>1. Before(ks, p) = {}
      BY <1>6, <2>1 DEF Before
    <3>2. Cardinality(Before(ks, p)) = 0
      BY <3>1, FS_EmptySet
    <3>3. p + Cardinality(Before(ks, p)) = p
      BY <2>1, <3>2
    <3>4. {k + Cardinality(Before(ks, k)) : k \in ks} = {p + Cardinality(Before(ks, p))}
      BY <1>6
    <3> QED BY <3>3, <3>4 DEF Heard
  <2> DEFINE rest == Leave(list, {p})
  <2>3. rest = [i \in 1 .. Len(list) - 1 |-> list[IF i < p THEN i ELSE i + 1]] /\ rest \in Seq(Entry0)
    BY <2>1, LeaveOne, LeaveIs
  <2>4. Len(list) \in Nat /\ Len(v) \in Nat /\ Len(list) >= 1
    BY <2>1
  <2>5. Len(rest) = Len(list) - 1
    BY <2>3, <2>4
  <2>6. CASE p \in 1 .. Len(v)
    <3> DEFINE heard == Leave(v, {p})
    <3>1. heard = [i \in 1 .. Len(v) - 1 |-> v[IF i < p THEN i ELSE i + 1]] /\ heard \in Seq(Nat)
      <4>1. p \in DOMAIN v
        BY <2>6
      <4> QED BY <4>1, LeaveOne, LeaveIs
    <3>2. Len(heard) = Len(v) - 1
      BY <3>1, <2>4, <2>6
    <3>3. ASSUME NEW i \in 1 .. Len(v) - 1 PROVE heard[i] = rest[i].id
      <4>1. i \in 1 .. Len(list) - 1 /\ (IF i < p THEN i ELSE i + 1) \in 1 .. Len(v)
        BY <1>3, <2>1, <2>4
      <4> HIDE DEF heard, rest
      <4>2. heard[i] = v[IF i < p THEN i ELSE i + 1] /\ rest[i] = list[IF i < p THEN i ELSE i + 1]
        BY <2>3, <3>1, <4>1
      <4> QED BY <1>3, <4>1, <4>2
    <3> HIDE DEF heard, rest
    <3>4. Len(heard) <= Len(rest)
      BY <1>3, <2>4, <2>5, <3>2
    <3>4a. \A i \in 1 .. Len(heard) : heard[i] = rest[i].id
      BY <3>2, <3>3
    <3>5. IsPrefix(heard, Ids(rest))
      BY <2>3, <3>1, <3>4, <3>4a, PrefixOfIds
    <3> QED BY <1>6, <2>2, <3>5 DEF heard, rest
  <2>7. CASE p \notin 1 .. Len(v)
    <3>1. Leave(v, {p}) = v
      BY <2>7, LeaveIs
    <3>2. Len(v) < p
      BY <2>1, <2>4, <2>7
    <3>3. ASSUME NEW i \in 1 .. Len(v) PROVE v[i] = rest[i].id
      <4>1. i \in 1 .. Len(list) - 1 /\ i < p
        BY <2>1, <2>4, <3>2
      <4> HIDE DEF rest
      <4> QED BY <1>3, <2>3, <4>1
    <3> HIDE DEF rest
    <3>4. Len(v) <= Len(rest)
      BY <2>1, <2>4, <2>5, <3>2
    <3>5. IsPrefix(v, Ids(rest))
      BY <2>3, <3>3, <3>4, PrefixOfIds
    <3> QED BY <1>6, <2>2, <3>1, <3>5 DEF rest
  <2> QED BY <2>6, <2>7
<1>7. ASSUME NEW p, ks = {p} PROVE IsPrefix(Heard(v, ks), Ids(Kept(list, ids)))
  BY <1>2, <1>6, <1>7
<1> QED BY <1>4, <1>5, <1>7 DEF ks

(* A page of a folder is a sequence of messages of it.                      *)
LEMMA PageIs ==
  ASSUME StoreTypes, NEW f, NEW limit, NEW some \in BOOLEAN, NEW page \in Pages(f, limit, some)
  PROVE  page \in Seq(In(f)) /\ In(f) \subseteq Nat /\ In(f) \subseteq DOMAIN rows
<1> DEFINE ids == IF some THEN In(f) ELSE In(f) \ Deleted(f)
           two == {Cardinality(ids), PageSize(limit)}
<1>1. IsFiniteSet(DOMAIN rows) /\ In(f) \subseteq DOMAIN rows /\ DOMAIN rows \subseteq Nat
  <2>1. IsFiniteSet(1 .. nextRow - 1)
    <3>1. 1 \in Int /\ nextRow - 1 \in Int
      BY DEF StoreTypes
    <3> QED BY <3>1, FS_Interval
  <2>2. DOMAIN rows \subseteq 1 .. nextRow - 1
    BY DEF StoreTypes
  <2>3. DOMAIN rows \subseteq Nat
    BY <2>2
  <2> QED BY <2>1, <2>2, <2>3, FS_Subset DEF In
<1>2. IsFiniteSet(ids) /\ ids \subseteq In(f)
  BY <1>1, FS_Subset
<1>3. Cardinality(ids) \in Nat
  BY <1>2, FS_CardinalityType
<1>4. PageSize(limit) \in Nat
  BY MailboxBounds DEF PageSize
<1>5. two \in SUBSET Nat /\ two # {} /\ IsFiniteSet(two)
  <2>1. IsFiniteSet({Cardinality(ids)} \cup {PageSize(limit)})
    BY FS_Singleton, FS_AddElement
  <2>2. two = {Cardinality(ids)} \cup {PageSize(limit)}
    OBVIOUS
  <2> QED BY <1>3, <1>4, <2>1, <2>2
<1>6. Min(two) \in Nat
  <2> HIDE DEF two
  <2> QED BY <1>5, MinIs
<1>7. page \in [1 .. Min(two) -> ids]
  BY DEF Pages
<1> HIDE DEF two, ids
<1>8. page \in Seq(ids)
  BY <1>6, <1>7
<1>9. page \in Seq(In(f))
  BY <1>2, <1>8
<1> QED BY <1>1, <1>9

(* The folders at the start: each account has each system folder once.      *)
LEMMA FirstBoxesAre ==
  ASSUME NEW us, IsFiniteSet(us), NEW names, IsFiniteSet(names)
  PROVE  LET D == [user : us, name : names, next : {1}]
             b == FirstBoxes(us, names)
         IN b \in Seq(D) /\ \A d \in D : \E f \in DOMAIN b : b[f] = d
<1> DEFINE D == [user : us, name : names, next : {1}]
           b == FirstBoxes(us, names)
           N == Cardinality(D)
           g == [p \in us \X names |-> [user |-> p[1], name |-> p[2], next |-> 1]]
<1>1. IsFiniteSet(us \X names)
  BY FS_Product
<1>2. g \in Surjection(us \X names, D)
  <2>1. g \in [us \X names -> D]
    OBVIOUS
  <2>2. ASSUME NEW d \in D PROVE \E p \in us \X names : g[p] = d
    <3>1. << d.user, d.name >> \in us \X names
      OBVIOUS
    <3>2. g[<< d.user, d.name >>] = d
      BY <3>1
    <3> QED BY <3>1, <3>2
  <2> QED BY <2>1, <2>2 DEF Surjection
<1>3. IsFiniteSet(D)
  <2> HIDE DEF g, D
  <2> QED BY <1>1, <1>2, FS_Surjection
<1>4. N \in Nat /\ \E h : h \in Bijection(1 .. N, D)
  <2> HIDE DEF D
  <2> QED BY <1>3, FS_CardinalityType DEF ExistsBijection
<1>5. b \in [1 .. N -> D] /\ IsInjective(b)
  <2> HIDE DEF D
  <2>1. \E h \in [1 .. N -> D] : IsInjective(h)
    BY <1>4 DEF Bijection, Injection
  <2>2. b = SetToSeq(D)
    BY DEF FirstBoxes, D
  <2> QED BY <2>1, <2>2 DEF SetToSeq
<1>6. b \in Surjection(1 .. N, D)
  <2> HIDE DEF D, b
  <2>1. b \in Injection(1 .. N, D)
    BY <1>5 DEF Injection
  <2>2. Cardinality(1 .. N) = N
    <3>1. 1 \in Int /\ N \in Int /\ N \in Nat
      BY <1>4
    <3> HIDE DEF N
    <3>2. Cardinality(1 .. N) = IF 1 > N THEN 0 ELSE N - 1 + 1
      BY <3>1, FS_Interval
    <3> QED BY <3>1, <3>2
  <2> QED BY <1>3, <2>1, <2>2, FS_Injection
<1> HIDE DEF D, b
<1>7. b \in Seq(D)
  BY <1>4, <1>5
<1>8. \A d \in D : \E f \in DOMAIN b : b[f] = d
  BY <1>5, <1>6 DEF Surjection
<1> QED BY <1>7, <1>8 DEF D, b

-----------------------------------------------------------------------------
(* What every step does to the mailboxes: it keeps StoreInv, takes no id    *)
(* again and gives no folder to another account, and loses only messages    *)
(* that somebody asked to be removed.                                       *)
\* An INBOX stays unless its account goes.
InboxesKept ==
  /\ users' \subseteq users
  /\ \A f \in DOMAIN boxes : boxes[f].name = "INBOX" /\ boxes[f].user \in users' =>
       f \in DOMAIN boxes' /\ boxes'[f].user = boxes[f].user /\ boxes'[f].name = boxes[f].name
Later ==
  /\ InboxesKept /\ nextBox' >= nextBox /\ nextRow' >= nextRow
  /\ nextBox' \in Nat /\ nextRow' \in Nat
  /\ \A f \in DOMAIN boxes' : IF f \in DOMAIN boxes THEN boxes'[f].user = boxes[f].user ELSE f >= nextBox
LostAsked == DOMAIN rows \ DOMAIN rows' \subseteq asked \cup asked' \cup revived
StoreStep == StoreInv' /\ Later /\ LostAsked

(* So every account keeps one.                                              *)
LEMMA InboxesStay ==
  ASSUME Inboxes, InboxesKept
  PROVE  Inboxes'
<1> SUFFICES ASSUME NEW u \in users' PROVE FolderByName(u, "INBOX")' # {}
  BY DEF Inboxes
<1>1. PICK f \in DOMAIN boxes : boxes[f].user = u /\ boxes[f].name = "INBOX"
  BY DEF Inboxes, InboxesKept, FolderByName
<1>2. f \in DOMAIN boxes' /\ boxes'[f].user = u /\ boxes'[f].name = "INBOX"
  BY <1>1 DEF InboxesKept
<1> QED BY <1>2 DEF FolderByName

(* A folder that gives out a uid.                                           *)
LEMMA Bumped ==
  ASSUME NEW t, \A g \in DOMAIN t : t[g] \in Folder, NEW f \in DOMAIN t, t[f].next <= MaxUid,
         NEW b, b = [t EXCEPT ![f].next = @ + 1]
  PROVE  /\ DOMAIN b = DOMAIN t
         /\ \A g \in DOMAIN t : /\ b[g] \in Folder /\ b[g].user = t[g].user /\ b[g].name = t[g].name
                                /\ b[g].next = IF g = f THEN t[f].next + 1 ELSE t[g].next
<1>1. MaxUid \in Nat
  BY MailboxBounds
<1>2. DOMAIN b = DOMAIN t
  OBVIOUS
<1>3. b[f] = [t[f] EXCEPT !.next = @ + 1] /\ \A g \in DOMAIN t : g # f => b[g] = t[g]
  OBVIOUS
<1>4. t[f] \in [user : User, name : BoxName, next : 1 .. MaxUid + 1]
  BY DEF Folder
<1>5. t[f].next + 1 \in 1 .. MaxUid + 1
  BY <1>1, <1>4
<1>6. b[f] \in Folder /\ b[f].user = t[f].user /\ b[f].name = t[f].name /\ b[f].next = t[f].next + 1
  BY <1>3, <1>4, <1>5 DEF Folder
<1> QED BY <1>2, <1>3, <1>6

(* Nothing happens to the mailboxes.                                        *)
LEMMA StoreStutters ==
  ASSUME StoreInv, UNCHANGED << mvars, revived >>
  PROVE  StoreStep
<1> USE DEF mvars
<1>1. StoreTypes' /\ Places' /\ AskedKnown' /\ DeletedAsked'
  BY DEF StoreInv, StoreTypes, Places, AskedKnown, DeletedAsked
<1>2. Inboxes'
  BY DEF StoreInv, Inboxes, FolderByName
<1>3. Later
  BY DEF StoreInv, StoreTypes, Later, InboxesKept
<1> QED BY <1>1, <1>2, <1>3 DEF StoreInv, StoreStep, LostAsked

(* A delivery.                                                              *)
LEMMA DeliverStep ==
  ASSUME StoreInv, NEW f \in DOMAIN boxes, boxes[f].next <= MaxUid,
         NEW date \in Date, NEW fl \in SUBSET AnyFlag,
         Deliver(boxes[f].user, f, date, fl), UNCHANGED << users, nextBox >>,
         asked \subseteq asked', revived \subseteq revived',
         asked' \cup revived' \subseteq asked \cup revived \cup {nextRow},
         "Deleted" \in fl => nextRow \in asked' \cup revived'
  PROVE  StoreStep
<1> DEFINE new == [user |-> boxes[f].user, box |-> f, uid |-> boxes[f].next, date |-> date, flags |-> fl]
<1>1. StoreTypes /\ Places /\ AskedKnown /\ DeletedAsked /\ Inboxes
  BY DEF StoreInv
<1>2. /\ nextRow' = nextRow + 1 /\ nextRow \in Nat \ {0} /\ nextRow \notin DOMAIN rows
      /\ nextBox' = nextBox /\ nextBox \in Nat \ {0}
  BY <1>1 DEF Deliver, StoreTypes
<1>3. /\ DOMAIN boxes' = DOMAIN boxes
      /\ \A g \in DOMAIN boxes :
           /\ boxes'[g] \in Folder /\ boxes'[g].user = boxes[g].user /\ boxes'[g].name = boxes[g].name
           /\ boxes'[g].next = IF g = f THEN boxes[f].next + 1 ELSE boxes[g].next
  <2>1. boxes' = [boxes EXCEPT ![f].next = @ + 1]
    BY DEF Deliver
  <2>2. \A g \in DOMAIN boxes : boxes[g] \in Folder
    BY <1>1 DEF StoreTypes
  <2> QED BY <2>1, <2>2, Bumped
<1>4. /\ DOMAIN rows' = DOMAIN rows \cup {nextRow} /\ rows'[nextRow] = new
      /\ \A m \in DOMAIN rows : rows'[m] = rows[m]
  BY <1>2 DEF Deliver, Put
<1>5. /\ boxes[f] \in Folder /\ boxes[f].user \in User /\ boxes[f].next \in Nat /\ f \in Nat
      /\ \A g \in DOMAIN boxes : boxes[g].next \in Nat
  <2>1. \A g \in DOMAIN boxes : boxes[g] \in Folder /\ g \in Nat
    BY <1>1 DEF StoreTypes
  <2>2. \A g \in DOMAIN boxes : boxes[g].user \in User /\ boxes[g].next \in 1 .. MaxUid + 1
    BY <2>1 DEF Folder
  <2> QED BY <2>1, <2>2
<1>6. new \in Row
  BY <1>5 DEF Row
<1>7. StoreTypes'
  <2>1. DOMAIN rows' \subseteq 1 .. nextRow' - 1
    BY <1>1, <1>2, <1>4 DEF StoreTypes
  <2>2. \A m \in DOMAIN rows' : rows'[m] \in Row
    BY <1>1, <1>4, <1>6 DEF StoreTypes
  <2> QED BY <1>1, <1>2, <1>3, <2>1, <2>2 DEF StoreTypes
<1>8. Places'
  <2>1. ASSUME NEW m \in DOMAIN rows
        PROVE  /\ rows'[m].box \in DOMAIN boxes' /\ rows'[m].user = boxes'[rows'[m].box].user
               /\ rows'[m].uid < boxes'[rows'[m].box].next
    <3>1. /\ rows[m].box \in DOMAIN boxes /\ rows[m].user = boxes[rows[m].box].user
          /\ rows[m].uid < boxes[rows[m].box].next
      BY <1>1 DEF Places
    <3>2. rows[m].uid \in Nat
      BY <1>1 DEF StoreTypes, Row
    <3> QED BY <1>3, <1>4, <1>5, <3>1, <3>2
  <2>2. /\ new.box \in DOMAIN boxes' /\ new.user = boxes'[new.box].user
        /\ new.uid < boxes'[new.box].next
    BY <1>3, <1>5
  <2> HIDE DEF new
  <2> QED BY <1>4, <2>1, <2>2 DEF Places
<1>9. AskedKnown'
  BY <1>1, <1>2 DEF AskedKnown
<1>10. DeletedAsked'
  <2>1. \A m \in DOMAIN rows : "Deleted" \in rows'[m].flags => m \in asked' \cup revived'
    BY <1>1, <1>4 DEF DeletedAsked
  <2>2. "Deleted" \in rows'[nextRow].flags => nextRow \in asked' \cup revived'
    BY <1>4
  <2> QED BY <1>4, <2>1, <2>2 DEF DeletedAsked
<1>11. Inboxes'
  <2>1. InboxesKept
    BY <1>3 DEF InboxesKept
  <2> QED BY <1>1, <2>1, InboxesStay
<1>12. Later
  BY <1>2, <1>3 DEF Later, InboxesKept
<1>13. LostAsked
  BY <1>4 DEF LostAsked
<1> QED BY <1>7, <1>8, <1>9, <1>10, <1>11, <1>12, <1>13 DEF StoreStep, StoreInv

(* Flags are set on some messages.                                          *)
LEMMA FlagStep ==
  ASSUME StoreInv, UNCHANGED << users, boxes, nextBox, nextRow >>,
         NEW ids, NEW mode, NEW fl \in SUBSET AnyFlag, rows' = Flagged(rows, ids, mode, fl),
         asked' \cup revived' \subseteq 1 .. nextRow - 1,
         \A m \in DOMAIN rows \ ids : m \in asked \cup revived => m \in asked' \cup revived',
         \A m \in ids \cap DOMAIN rows :
            "Deleted" \in NewFlags(rows[m].flags, mode, fl) => m \in asked' \cup revived',
         mode \in {"set", "add", "remove"}
  PROVE  StoreStep
<1>1. StoreTypes /\ Places /\ AskedKnown /\ DeletedAsked /\ Inboxes
  BY DEF StoreInv
<1>2. /\ DOMAIN rows' = DOMAIN rows
      /\ \A m \in DOMAIN rows : rows'[m] = IF m \in ids THEN [rows[m] EXCEPT !.flags = NewFlags(@, mode, fl)]
                                                        ELSE rows[m]
  BY DEF Flagged
<1>3. ASSUME NEW m \in DOMAIN rows
      PROVE  /\ rows'[m] \in Row /\ rows'[m].box = rows[m].box /\ rows'[m].user = rows[m].user
             /\ rows'[m].uid = rows[m].uid
             /\ rows'[m].flags = IF m \in ids THEN NewFlags(rows[m].flags, mode, fl) ELSE rows[m].flags
  <2>1. rows[m] \in [user : User, box : Nat, uid : Nat, date : Date, flags : SUBSET AnyFlag]
    BY <1>1 DEF StoreTypes, Row
  <2>2. NewFlags(rows[m].flags, mode, fl) \in SUBSET AnyFlag
    BY <2>1 DEF NewFlags
  <2> QED BY <1>2, <2>1, <2>2 DEF Row
<1>4. StoreTypes'
  BY <1>1, <1>2, <1>3 DEF StoreTypes
<1>5. Places'
  BY <1>1, <1>2, <1>3 DEF Places
<1>6. AskedKnown'
  BY DEF AskedKnown
<1>7. DeletedAsked'
  BY <1>1, <1>2, <1>3 DEF DeletedAsked
<1>8. Inboxes'
  BY <1>1 DEF Inboxes, FolderByName
<1>9. Later
  BY <1>1 DEF StoreTypes, Later, InboxesKept
<1> QED BY <1>2, <1>4, <1>5, <1>6, <1>7, <1>8, <1>9 DEF StoreInv, StoreStep, LostAsked

(* Messages are removed that somebody asked to be removed.                  *)
LEMMA RemoveStep ==
  ASSUME StoreInv, UNCHANGED << users, boxes, nextBox, nextRow, revived >>,
         NEW ids, rows' = Without(rows, ids),
         ids \cap DOMAIN rows \subseteq asked \cup asked' \cup revived,
         asked \subseteq asked', asked' \subseteq 1 .. nextRow - 1
  PROVE  StoreStep
<1>1. StoreTypes /\ Places /\ AskedKnown /\ DeletedAsked /\ Inboxes
  BY DEF StoreInv
<1>2. DOMAIN rows' = DOMAIN rows \ ids /\ \A m \in DOMAIN rows' : rows'[m] = rows[m]
  BY DEF Without, Restrict
<1>3. StoreTypes'
  BY <1>1, <1>2 DEF StoreTypes
<1>4. Places'
  BY <1>1, <1>2 DEF Places
<1>5. AskedKnown' /\ DeletedAsked'
  BY <1>1, <1>2 DEF AskedKnown, DeletedAsked
<1>6. Inboxes'
  BY <1>1 DEF Inboxes, FolderByName
<1>7. Later
  BY <1>1 DEF StoreTypes, Later, InboxesKept
<1> QED BY <1>2, <1>3, <1>4, <1>5, <1>6, <1>7 DEF StoreInv, StoreStep, LostAsked

(* A folder is made.                                                        *)
LEMMA MadeFolder ==
  ASSUME StoreInv, NEW u \in users, NEW name \in BoxName, FolderByName(u, name) = {},
         NEW b, b = Put(boxes, nextBox, [user |-> u, name |-> name, next |-> 1])
  PROVE  /\ DOMAIN b = DOMAIN boxes \cup {nextBox} /\ nextBox \in Nat \ {0} /\ nextBox \notin DOMAIN boxes
         /\ b[nextBox] = [user |-> u, name |-> name, next |-> 1] /\ b[nextBox] \in Folder
         /\ \A f \in DOMAIN boxes : b[f] = boxes[f] /\ b[f] \in Folder
<1>1. StoreTypes
  BY DEF StoreInv
<1>2. nextBox \in Nat \ {0} /\ nextBox \notin DOMAIN boxes /\ u \in User
  BY <1>1 DEF StoreTypes
<1>3. DOMAIN b = DOMAIN boxes \cup {nextBox} /\ b[nextBox] = [user |-> u, name |-> name, next |-> 1]
      /\ \A f \in DOMAIN boxes : b[f] = boxes[f]
  BY <1>2 DEF Put
<1>4. 1 \in 1 .. MaxUid + 1
  BY MailboxBounds
<1>5. b[nextBox] \in Folder
  BY <1>2, <1>3, <1>4 DEF Folder
<1> QED BY <1>1, <1>2, <1>3, <1>5 DEF StoreTypes

(* EnsureFolder, and the first half of MoveToFolderName.                    *)
LEMMA EnsureStep ==
  ASSUME StoreInv, NEW u \in users, NEW name \in BoxName, FolderByName(u, name) = {},
         boxes' = Put(boxes, nextBox, [user |-> u, name |-> name, next |-> 1]),
         nextBox' = nextBox + 1, UNCHANGED << users, rows, nextRow, asked, revived >>
  PROVE  StoreStep
<1>1. StoreTypes /\ Places /\ AskedKnown /\ DeletedAsked /\ Inboxes
  BY DEF StoreInv
<1>2. /\ DOMAIN boxes' = DOMAIN boxes \cup {nextBox} /\ nextBox \in Nat \ {0} /\ nextBox \notin DOMAIN boxes
      /\ boxes'[nextBox] = [user |-> u, name |-> name, next |-> 1] /\ boxes'[nextBox] \in Folder
      /\ \A f \in DOMAIN boxes : boxes'[f] = boxes[f] /\ boxes'[f] \in Folder
  BY MadeFolder
<1>3. StoreTypes'
  BY <1>1, <1>2 DEF StoreTypes
<1>4. Places' /\ AskedKnown' /\ DeletedAsked'
  BY <1>1, <1>2 DEF Places, AskedKnown, DeletedAsked
<1>5. Inboxes'
  <2>1. InboxesKept
    BY <1>2 DEF InboxesKept
  <2> QED BY <1>1, <2>1, InboxesStay
<1>6. Later
  BY <1>1, <1>2 DEF Later, InboxesKept, StoreTypes
<1> QED BY <1>3, <1>4, <1>5, <1>6 DEF StoreInv, StoreStep, LostAsked

(* A folder gets another name.                                              *)
LEMMA RenameStep ==
  ASSUME StoreInv, NEW f \in DOMAIN boxes, boxes[f].name # "INBOX", NEW name \in BoxName,
         boxes' = [boxes EXCEPT ![f].name = name],
         UNCHANGED << users, nextBox, rows, nextRow, asked, revived >>
  PROVE  StoreStep
<1>1. StoreTypes /\ Places /\ AskedKnown /\ DeletedAsked /\ Inboxes
  BY DEF StoreInv
<1>2. /\ DOMAIN boxes' = DOMAIN boxes
      /\ \A g \in DOMAIN boxes : /\ boxes'[g] \in Folder /\ boxes'[g].user = boxes[g].user
                                 /\ boxes'[g].next = boxes[g].next
                                 /\ g # f => boxes'[g].name = boxes[g].name
  <2>1. \A g \in DOMAIN boxes : boxes[g] \in [user : User, name : BoxName, next : 1 .. MaxUid + 1]
    BY <1>1 DEF StoreTypes, Folder
  <2>2. boxes'[f] = [boxes[f] EXCEPT !.name = name] /\ \A g \in DOMAIN boxes : g # f => boxes'[g] = boxes[g]
    OBVIOUS
  <2> QED BY <2>1, <2>2 DEF Folder
<1>3. StoreTypes'
  BY <1>1, <1>2 DEF StoreTypes
<1>4. Places' /\ AskedKnown' /\ DeletedAsked'
  BY <1>1, <1>2 DEF Places, AskedKnown, DeletedAsked
<1>5. Inboxes'
  <2>1. InboxesKept
    BY <1>2 DEF InboxesKept
  <2> QED BY <1>1, <2>1, InboxesStay
<1>6. Later
  BY <1>1, <1>2 DEF Later, InboxesKept, StoreTypes
<1> QED BY <1>3, <1>4, <1>5, <1>6 DEF StoreInv, StoreStep, LostAsked

(* A message gets a new uid in a folder of its account.                     *)
LEMMA MovedStep ==
  ASSUME StoreInv, NEW folders, NEW f \in DOMAIN folders, NEW m \in DOMAIN rows,
         MovedInto(m, f, folders), folders[f].user = rows[m].user,
         \A g \in DOMAIN folders : folders[g] \in Folder,
         DOMAIN boxes \subseteq DOMAIN folders, \A g \in DOMAIN boxes : folders[g] = boxes[g],
         DOMAIN folders \subseteq 1 .. nextBox' - 1, nextBox' \in Nat \ {0}, nextBox' >= nextBox,
         \A g \in DOMAIN folders \ DOMAIN boxes : g >= nextBox,
         UNCHANGED << users, nextRow, asked, revived >>
  PROVE  StoreStep
<1>1. StoreTypes /\ Places /\ AskedKnown /\ DeletedAsked /\ Inboxes
  BY DEF StoreInv
<1>2. /\ DOMAIN boxes' = DOMAIN folders
      /\ \A g \in DOMAIN folders :
           /\ boxes'[g] \in Folder /\ boxes'[g].user = folders[g].user /\ boxes'[g].name = folders[g].name
           /\ boxes'[g].next = IF g = f THEN folders[f].next + 1 ELSE folders[g].next
  <2>1. boxes' = [folders EXCEPT ![f].next = @ + 1] /\ folders[f].next <= MaxUid
    BY DEF MovedInto
  <2> QED BY <2>1, Bumped
<1>3. /\ \A g \in DOMAIN folders : folders[g].next \in Nat /\ g \in Nat
  BY DEF Folder
<1>4. /\ DOMAIN rows' = DOMAIN rows
      /\ \A i \in DOMAIN rows : /\ rows'[i] \in Row /\ rows'[i].user = rows[i].user
                                /\ rows'[i].flags = rows[i].flags
                                /\ rows'[i].box = IF i = m THEN f ELSE rows[i].box
                                /\ rows'[i].uid = IF i = m THEN folders[f].next ELSE rows[i].uid
  <2>1. \A i \in DOMAIN rows : rows[i] \in [user : User, box : Nat, uid : Nat, date : Date, flags : SUBSET AnyFlag]
    BY <1>1 DEF StoreTypes, Row
  <2>2. rows' = [rows EXCEPT ![m].box = f, ![m].uid = folders[f].next]
    BY DEF MovedInto
  <2>3. DOMAIN rows' = DOMAIN rows /\ \A i \in DOMAIN rows : i # m => rows'[i] = rows[i]
    BY <2>2
  <2>4. rows'[m] = [rows[m] EXCEPT !.box = f, !.uid = folders[f].next]
    BY <2>1, <2>2
  <2>5. f \in Nat /\ folders[f].next \in Nat
    BY <1>3
  <2>6. \A i \in DOMAIN rows : i # m =>
          /\ rows'[i] \in Row /\ rows'[i].user = rows[i].user /\ rows'[i].flags = rows[i].flags
          /\ rows'[i].box = rows[i].box /\ rows'[i].uid = rows[i].uid
    BY <2>1, <2>3 DEF Row
  <2>7. /\ rows'[m] \in Row /\ rows'[m].user = rows[m].user /\ rows'[m].flags = rows[m].flags
        /\ rows'[m].box = f /\ rows'[m].uid = folders[f].next
    <3>1. rows[m] \in [user : User, box : Nat, uid : Nat, date : Date, flags : SUBSET AnyFlag]
      BY <2>1
    <3> QED BY <2>4, <2>5, <3>1 DEF Row
  <2> QED BY <2>3, <2>6, <2>7
<1>5. StoreTypes'
  BY <1>1, <1>2, <1>4 DEF StoreTypes
<1>6. Places'
  <2>1. ASSUME NEW i \in DOMAIN rows, i # m
        PROVE  /\ rows'[i].box \in DOMAIN boxes' /\ rows'[i].user = boxes'[rows'[i].box].user
               /\ rows'[i].uid < boxes'[rows'[i].box].next
    <3>1. /\ rows[i].box \in DOMAIN boxes /\ rows[i].user = boxes[rows[i].box].user
          /\ rows[i].uid < boxes[rows[i].box].next
      BY <1>1 DEF Places
    <3>2. rows[i].uid \in Nat
      BY <1>1 DEF StoreTypes, Row
    <3>3. rows[i].box \in DOMAIN folders /\ folders[rows[i].box] = boxes[rows[i].box]
      BY <3>1
    <3> QED BY <1>2, <1>3, <1>4, <2>1, <3>1, <3>2, <3>3
  <2>2. /\ rows'[m].box \in DOMAIN boxes' /\ rows'[m].user = boxes'[rows'[m].box].user
        /\ rows'[m].uid < boxes'[rows'[m].box].next
    BY <1>2, <1>3, <1>4
  <2> QED BY <1>4, <2>1, <2>2 DEF Places
<1>7. AskedKnown' /\ DeletedAsked'
  BY <1>1, <1>4 DEF AskedKnown, DeletedAsked
<1>8. Inboxes'
  <2>1. InboxesKept
    BY <1>2 DEF InboxesKept
  <2> QED BY <1>1, <2>1, InboxesStay
<1>9. Later
  <2>1. InboxesKept /\ nextBox' >= nextBox /\ nextRow' >= nextRow /\ nextBox' \in Nat /\ nextRow' \in Nat
    BY <1>1, <1>2 DEF StoreTypes, InboxesKept
  <2>2. \A g \in DOMAIN boxes' : IF g \in DOMAIN boxes THEN boxes'[g].user = boxes[g].user ELSE g >= nextBox
    BY <1>2
  <2> QED BY <2>1, <2>2 DEF Later
<1> QED BY <1>4, <1>5, <1>6, <1>7, <1>8, <1>9 DEF StoreInv, StoreStep, LostAsked

(* MoveToFolderName, whichever of its cases applies.                        *)
LEMMA MoveStep ==
  ASSUME StoreInv, NEW u, NEW m, NEW name \in BoxName, MoveToFolderName(u, m, name),
         UNCHANGED << users, nextRow, asked, revived >>
  PROVE  StoreStep
<1>1. StoreTypes /\ Places /\ AskedKnown /\ DeletedAsked /\ Inboxes
  BY DEF StoreInv
<1> DEFINE found == FolderByName(u, name)
           made  == Put(boxes, nextBox, [user |-> u, name |-> name, next |-> 1])
<1>2. CASE /\ found = {} /\ u \in users /\ nextBox' = nextBox + 1
           /\ IF Mine(u, {m}) = {} THEN boxes' = made /\ UNCHANGED rows ELSE MovedInto(m, nextBox, made)
  <2>1. CASE Mine(u, {m}) = {}
    BY <1>2, <2>1, EnsureStep
  <2>2. CASE Mine(u, {m}) # {}
    <3>1. m \in DOMAIN rows /\ rows[m].user = u
      BY <2>2 DEF Mine
    <3>2. PICK b : b = made
      OBVIOUS
    <3>3. /\ DOMAIN b = DOMAIN boxes \cup {nextBox} /\ nextBox \in Nat \ {0} /\ nextBox \notin DOMAIN boxes
          /\ b[nextBox] = [user |-> u, name |-> name, next |-> 1] /\ b[nextBox] \in Folder
          /\ \A f \in DOMAIN boxes : b[f] = boxes[f] /\ b[f] \in Folder
      BY <1>2, <3>2, MadeFolder
    <3>4. MovedInto(m, nextBox, b)
      BY <1>2, <2>2, <3>2
    <3>5. /\ nextBox \in DOMAIN b /\ b[nextBox].user = rows[m].user /\ \A g \in DOMAIN b : b[g] \in Folder
          /\ DOMAIN boxes \subseteq DOMAIN b
          /\ \A g \in DOMAIN b \ DOMAIN boxes : g >= nextBox
      BY <3>1, <3>3
    <3>6. DOMAIN b \subseteq 1 .. nextBox' - 1 /\ nextBox' \in Nat \ {0} /\ nextBox' >= nextBox
      BY <1>1, <1>2, <3>3 DEF StoreTypes
    <3> HIDE DEF made
    <3> QED BY <3>1, <3>3, <3>4, <3>5, <3>6, MovedStep
  <2> QED BY <2>1, <2>2
<1>3. CASE /\ UNCHANGED nextBox
           /\ IF \E f \in found : m \in Mine(u, {m}) /\ rows[m].box # f
              THEN \E f \in found : MovedInto(m, f, boxes)
              ELSE UNCHANGED << rows, boxes >>
  <2>1. CASE ~ \E f \in found : m \in Mine(u, {m}) /\ rows[m].box # f
    BY <1>3, <2>1, StoreStutters DEF mvars
  <2>2. CASE \E f \in found : m \in Mine(u, {m}) /\ rows[m].box # f
    <3>1. m \in DOMAIN rows /\ rows[m].user = u
      BY <2>2 DEF Mine
    <3>2. PICK f \in found : MovedInto(m, f, boxes)
      BY <1>3, <2>2
    <3>3. f \in DOMAIN boxes /\ boxes[f].user = u
      BY DEF FolderByName
    <3>4. /\ \A g \in DOMAIN boxes : boxes[g] \in Folder
          /\ DOMAIN boxes \subseteq 1 .. nextBox' - 1 /\ nextBox' \in Nat \ {0} /\ nextBox' >= nextBox
      BY <1>1, <1>3 DEF StoreTypes
    <3> QED BY <3>1, <3>2, <3>3, <3>4, MovedStep
  <2> QED BY <2>1, <2>2
<1> QED BY <1>2, <1>3 DEF MoveToFolderName

(* Folders are deleted, with their messages.                                *)
LEMMA DropStep ==
  ASSUME StoreInv, NEW fs, boxes' = Without(boxes, fs),
         NEW ids, rows' = Without(rows, ids), asked' = asked \cup (ids \cap DOMAIN rows),
         \A m \in DOMAIN rows : rows[m].box \in fs => m \in ids,
         users' \subseteq users,
         \A f \in fs \cap DOMAIN boxes : boxes[f].name # "INBOX" \/ boxes[f].user \notin users',
         UNCHANGED << nextBox, nextRow, revived >>
  PROVE  StoreStep
<1>1. StoreTypes /\ Places /\ AskedKnown /\ DeletedAsked /\ Inboxes
  BY DEF StoreInv
<1>2. DOMAIN rows' = DOMAIN rows \ ids /\ \A m \in DOMAIN rows' : rows'[m] = rows[m]
  BY DEF Without, Restrict
<1>3. DOMAIN boxes' = DOMAIN boxes \ fs /\ \A f \in DOMAIN boxes' : boxes'[f] = boxes[f]
  BY DEF Without, Restrict
<1>4. StoreTypes'
  BY <1>1, <1>2, <1>3 DEF StoreTypes
<1>5. Places'
  BY <1>1, <1>2, <1>3 DEF Places
<1>6. AskedKnown'
  BY <1>1 DEF AskedKnown, StoreTypes
<1>7. DeletedAsked'
  BY <1>1, <1>2 DEF DeletedAsked
<1>8. Inboxes'
  <2>1. InboxesKept
    BY <1>3 DEF InboxesKept
  <2> QED BY <1>1, <2>1, InboxesStay
<1>9. Later
  BY <1>1, <1>3 DEF Later, InboxesKept, StoreTypes
<1> QED BY <1>2, <1>4, <1>5, <1>6, <1>7, <1>8, <1>9 DEF StoreInv, StoreStep, LostAsked

-----------------------------------------------------------------------------
(* What the sessions hold stays true whatever a step of somebody else does  *)
(* to the mailboxes.                                                        *)
LEMMA KnownLater ==
  ASSUME NEW a \in Nat, NEW b \in Nat, b >= a
  PROVE  1 .. a - 1 \subseteq 1 .. b - 1
OBVIOUS

(* A folder id a session keeps goes on naming that account's folder.        *)
LEMMA RefersLater ==
  ASSUME StoreTypes, Later, NEW f \in Nat, NEW u, Refers(f, u)
  PROVE  Refers(f, u)'
<1>1. f < nextBox /\ nextBox \in Nat
  BY DEF Refers, StoreTypes
<1>2. f < nextBox'
  BY <1>1 DEF Later
<1>3. ASSUME f \in DOMAIN boxes' PROVE boxes'[f].user = u
  <2>1. ~(f >= nextBox)
    BY <1>1
  <2>2. f \in DOMAIN boxes /\ boxes'[f].user = boxes[f].user
    BY <1>3, <2>1 DEF Later
  <2> QED BY <2>2 DEF Refers
<1> QED BY <1>2, <1>3 DEF Refers

(* So does what is known of an IMAP session.                                *)
LEMMA ImapAtLater ==
  ASSUME StoreTypes, Later, NEW s \in ImapState, ImapAt(s)
  PROVE  ImapAt(s)'
<1>1. s.dest \in Nat
  BY DEF ImapState
<1>2. s.pc \in {"copy", "move"} => Refers(s.dest, s.user)'
  BY <1>1, RefersLater DEF ImapAt
<1>3. 1 .. nextRow - 1 \subseteq 1 .. nextRow' - 1
  <2>1. nextRow \in Nat /\ nextRow' \in Nat /\ nextRow' >= nextRow
    BY DEF StoreTypes, Later, InboxesKept
  <2> QED BY <2>1, KnownLater
<1> QED BY <1>2, <1>3 DEF ImapAt

(* One session and its client change, the mailboxes too.                    *)
LEMMA ImapOne ==
  ASSUME StoreTypes, Later, ImapInv, NEW c \in Conn, NEW s \in ImapState, NEW v \in ClientState,
         imap' = [imap EXCEPT ![c] = s], client' = [client EXCEPT ![c] = v],
         ImapAt(s)', Counts(v, s)
  PROVE  ImapInv'
<1>1. imap' \in [Conn -> ImapState] /\ client' \in [Conn -> ClientState]
  BY DEF ImapInv
<1>2. imap'[c] = s /\ client'[c] = v /\ \A d \in Conn : d # c => imap'[d] = imap[d] /\ client'[d] = client[d]
  BY DEF ImapInv
<1>3. ASSUME NEW d \in Conn PROVE ImapAt(imap[d])' /\ Counts(client[d], imap[d])'
  <2>1. CASE d = c
    BY <1>2, <2>1 DEF ImapAt, Refers, Counts
  <2>2. CASE d # c
    <3>1. PICK q \in ImapState : q = imap[d]
      BY DEF ImapInv
    <3>2. ImapAt(q)
      BY <3>1 DEF ImapInv
    <3>3. ImapAt(q)'
      BY <3>2, ImapAtLater
    <3>4. imap'[d] = q
      BY <1>2, <2>2, <3>1
    <3>5. ImapAt(imap[d])'
      BY <3>3, <3>4 DEF ImapAt, Refers
    <3>6. Counts(client[d], imap[d])'
      BY <1>2, <2>2 DEF ImapInv, Counts
    <3> QED BY <3>5, <3>6
  <2> QED BY <2>1, <2>2
<1> QED BY <1>1, <1>3 DEF ImapInv

(* The mailboxes change, no IMAP session does.                              *)
LEMMA ImapRest ==
  ASSUME StoreTypes, Later, ImapInv, UNCHANGED << imap, client >>
  PROVE  ImapInv'
<1>1. ASSUME NEW d \in Conn PROVE ImapAt(imap[d])' /\ Counts(client[d], imap[d])'
  <2>1. PICK q \in ImapState : q = imap[d]
    BY DEF ImapInv
  <2>2. ImapAt(q)
    BY <2>1 DEF ImapInv
  <2>3. ImapAt(q)' /\ imap'[d] = q
    BY <2>1, <2>2, ImapAtLater
  <2>4. ImapAt(imap[d])'
    BY <2>3 DEF ImapAt, Refers
  <2>5. Counts(client[d], imap[d])'
    BY DEF ImapInv, Counts
  <2> QED BY <2>4, <2>5
<1> QED BY <1>1 DEF ImapInv

(* One POP3 connection changes; what is known of it needs no mailbox.       *)
LEMMA PopOne ==
  ASSUME PopInv, NEW c \in Conn, NEW s \in PopState, PopAt(s), pop' = [pop EXCEPT ![c] = s]
  PROVE  PopInv'
<1>1. pop' \in [Conn -> PopState]
  BY DEF PopInv
<1>2. pop'[c] = s /\ \A d \in Conn : d # c => pop'[d] = pop[d]
  BY DEF PopInv
<1>3. ASSUME NEW d \in Conn PROVE PopAt(pop'[d])
  BY <1>2 DEF PopInv
<1> QED BY <1>1, <1>3 DEF PopInv, PopAt

(* The INBOX of an account stays what it is as long as the account does.    *)
LEMMA ServesLater ==
  ASSUME StoreTypes, Later, NEW f \in Nat, NEW u, Serves(f, u)
  PROVE  Serves(f, u)'
<1>1. Refers(f, u)'
  BY RefersLater DEF Serves
<1>2. ASSUME u \in users' PROVE f \in DOMAIN boxes' /\ boxes'[f].name = "INBOX"
  <2>1. f \in DOMAIN boxes /\ boxes[f].name = "INBOX" /\ boxes[f].user = u
    BY <1>2 DEF Serves, Refers, Later, InboxesKept
  <2> QED BY <1>2, <2>1 DEF Later, InboxesKept
<1> QED BY <1>1, <1>2 DEF Serves

(* What is known of an SMTP session stays true.                             *)
LEMMA SmtpAtLater ==
  ASSUME StoreTypes, Later, NEW s \in SmtpState, NEW gave, NEW made, NEW bad, NEW said, SmtpAt(s, gave, made, bad, said)
  PROVE  SmtpAt(s, gave, made, bad, said)'
<1>1. \A k \in DOMAIN s.rcpts : s.rcpts[k].box \in Nat
  <2>1. PICK r \in Seq(RcptRow) : r = s.rcpts
    BY DEF SmtpState
  <2>2. \A T : r \in Seq(T) => \A k \in DOMAIN r : r[k] \in T
    OBVIOUS
  <2>3. \A k \in DOMAIN r : r[k] \in RcptRow
    BY <2>2
  <2> QED BY <2>1, <2>3 DEF RcptRow
<1>2. ASSUME NEW k \in DOMAIN s.rcpts, Serves(s.rcpts[k].box, s.rcpts[k].user)
      PROVE  Serves(s.rcpts[k].box, s.rcpts[k].user)'
  BY <1>1, <1>2, ServesLater
<1>3. \A k \in DOMAIN s.rcpts : IF s.rcpts[k].user = Nobody THEN s.rcpts[k].box = 0
                                ELSE s.rcpts[k].box # 0 /\ Serves(s.rcpts[k].box, s.rcpts[k].user)'
  BY <1>2 DEF SmtpAt, RcptsAt, MailAt, DataAt
<1>4. 1 .. nextRow - 1 \subseteq 1 .. nextRow' - 1 /\ users' \subseteq users
  <2>1. nextRow \in Nat /\ nextRow' \in Nat /\ nextRow' >= nextRow /\ users' \subseteq users
    BY DEF StoreTypes, Later, InboxesKept
  <2> QED BY <2>1, KnownLater
<1>5. s.pc = "filter" => s.fresh \in 1 .. nextRow' - 1
  BY <1>4 DEF SmtpAt, RcptsAt, MailAt, DataAt
<1>6. s.pc \in {"data", "filter", "sent"} =>
        \A k \in DOMAIN s.rcpts \ s.todo : s.rcpts[k].user \in made \cup bad \cup {Nobody} \/ s.rcpts[k].user \notin users'
  BY <1>4 DEF SmtpAt, RcptsAt, MailAt, DataAt
<1> QED BY <1>3, <1>5, <1>6 DEF SmtpAt, RcptsAt, MailAt, DataAt

(* So does the answer of DATA: accounts only go.                            *)
LEMMA AnsweredLater ==
  ASSUME Later, NEW gave, NEW made, NEW bad, NEW said, Answered(gave, made, bad, said)
  PROVE  Answered(gave, made, bad, said)'
BY DEF Later, InboxesKept, Answered

(* What one session and its histories are afterwards, under other names.    *)
LEMMA SmtpAtNamed ==
  ASSUME NEW d, NEW q, NEW g, NEW k, NEW b, NEW a,
         q = smtp'[d], g = given'[d], k = copied'[d], b = dropped'[d], a = answer'[d], SmtpAt(q, g, k, b, a)'
  PROVE  SmtpAt(smtp[d], given[d], copied[d], dropped[d], answer[d])'
<1>1. RcptsAt(smtp[d])'
  BY DEF SmtpAt, RcptsAt, Serves, Refers
<1>2. MailAt(smtp[d], given[d], copied[d], dropped[d], answer[d])'
  BY DEF SmtpAt, MailAt
<1>3. DataAt(smtp[d], copied[d], dropped[d])'
  BY DEF SmtpAt, DataAt
<1> QED BY <1>1, <1>2, <1>3 DEF SmtpAt

(* One SMTP session and its histories change, the mailboxes too.            *)
LEMMA SmtpOne ==
  ASSUME StoreTypes, Later, SmtpInv, NEW c \in Conn, NEW s \in SmtpState, NEW gave \in SUBSET Who,
         NEW made \in SUBSET Who, NEW bad \in SUBSET Who, NEW said \in Said,
         smtp' = [smtp EXCEPT ![c] = s], given' = [given EXCEPT ![c] = gave],
         copied' = [copied EXCEPT ![c] = made], dropped' = [dropped EXCEPT ![c] = bad],
         answer' = [answer EXCEPT ![c] = said],
         SmtpAt(s, gave, made, bad, said)', Answered(gave, made, bad, said)'
  PROVE  SmtpInv'
<1>1. /\ smtp' \in [Conn -> SmtpState] /\ answer' \in [Conn -> Said]
      /\ given' \in [Conn -> SUBSET Who] /\ copied' \in [Conn -> SUBSET Who]
      /\ dropped' \in [Conn -> SUBSET Who]
  BY DEF SmtpInv
<1>2. /\ smtp'[c] = s /\ given'[c] = gave /\ copied'[c] = made /\ dropped'[c] = bad /\ answer'[c] = said
      /\ \A d \in Conn : d # c => /\ smtp'[d] = smtp[d] /\ given'[d] = given[d]
                                  /\ copied'[d] = copied[d] /\ dropped'[d] = dropped[d]
                                  /\ answer'[d] = answer[d]
  BY DEF SmtpInv
<1>3. ASSUME NEW d \in Conn
      PROVE  SmtpAt(smtp[d], given[d], copied[d], dropped[d], answer[d])'
             /\ Answered(given[d], copied[d], dropped[d], answer[d])'
  <2>1. PICK q \in SmtpState : q = smtp'[d]
    BY <1>1
  <2>2. PICK g : g = given'[d]
    OBVIOUS
  <2>3. PICK k : k = copied'[d]
    OBVIOUS
  <2>4. PICK b, a : b = dropped'[d] /\ a = answer'[d]
    OBVIOUS
  <2>5. SmtpAt(q, g, k, b, a)' /\ Answered(g, k, b, a)'
    <3>1. CASE d = c
      BY <1>2, <2>1, <2>2, <2>3, <2>4, <3>1
    <3>2. CASE d # c
      <4>1. q = smtp[d] /\ g = given[d] /\ k = copied[d] /\ b = dropped[d] /\ a = answer[d]
        BY <1>2, <2>1, <2>2, <2>3, <2>4, <3>2
      <4>2. SmtpAt(q, g, k, b, a) /\ Answered(g, k, b, a)
        BY <4>1 DEF SmtpInv
      <4> QED BY <4>2, SmtpAtLater, AnsweredLater
    <3> QED BY <3>1, <3>2
  <2>6. SmtpAt(smtp[d], given[d], copied[d], dropped[d], answer[d])'
    BY <2>1, <2>2, <2>3, <2>4, <2>5, SmtpAtNamed
  <2>7. Answered(given[d], copied[d], dropped[d], answer[d])'
    BY <2>1, <2>2, <2>3, <2>4, <2>5 DEF Answered
  <2> QED BY <2>6, <2>7
<1> QED BY <1>1, <1>3 DEF SmtpInv

(* The mailboxes change, no SMTP session does.                              *)
LEMMA SmtpRest ==
  ASSUME StoreTypes, Later, SmtpInv, UNCHANGED svars
  PROVE  SmtpInv'
<1>1. ASSUME NEW d \in Conn
      PROVE  SmtpAt(smtp[d], given[d], copied[d], dropped[d], answer[d])'
             /\ Answered(given[d], copied[d], dropped[d], answer[d])'
  <2>1. PICK q \in SmtpState : q = smtp[d]
    BY DEF SmtpInv
  <2>2. PICK g : g = given[d]
    OBVIOUS
  <2>3. PICK k : k = copied[d]
    OBVIOUS
  <2>4. PICK b, a : b = dropped[d] /\ a = answer[d]
    OBVIOUS
  <2>5. SmtpAt(q, g, k, b, a) /\ Answered(g, k, b, a)
    BY <2>1, <2>2, <2>3, <2>4 DEF SmtpInv
  <2>6. SmtpAt(q, g, k, b, a)' /\ Answered(g, k, b, a)'
    BY <2>5, SmtpAtLater, AnsweredLater
  <2>7. smtp'[d] = q /\ given'[d] = g /\ copied'[d] = k /\ dropped'[d] = b /\ answer'[d] = a
    BY <2>1, <2>2, <2>3, <2>4 DEF svars
  <2>8. SmtpAt(smtp[d], given[d], copied[d], dropped[d], answer[d])'
    BY <2>6, <2>7 DEF SmtpAt, RcptsAt, MailAt, DataAt, Serves, Refers
  <2>9. Answered(given[d], copied[d], dropped[d], answer[d])'
    BY <2>6, <2>7 DEF Answered
  <2> QED BY <2>8, <2>9
<1> QED BY <1>1 DEF SmtpInv, svars

(* What is known of a webmail request stays true.                           *)
LEMMA WebAtLater ==
  ASSUME users' \subseteq users, NEW s, NEW got, NEW bad, WebAt(s, got, bad)
  PROVE  WebAt(s, got, bad)'
BY DEF WebAt

(* One webmail request changes, the mailboxes too.                          *)
LEMMA WebOne ==
  ASSUME Later, WebInv, NEW c \in Conn, NEW s \in WebState, NEW got \in SUBSET Who,
         NEW bad \in SUBSET Who, missed' = [missed EXCEPT ![c] = bad],
         web' = [web EXCEPT ![c] = s], reached' = [reached EXCEPT ![c] = got], WebAt(s, got, bad)'
  PROVE  WebInv'
<1>1. web' \in [Conn -> WebState] /\ reached' \in [Conn -> SUBSET Who] /\ missed' \in [Conn -> SUBSET Who]
  BY DEF WebInv
<1>2. /\ web'[c] = s /\ reached'[c] = got /\ missed'[c] = bad
      /\ \A d \in Conn : d # c => /\ web'[d] = web[d] /\ reached'[d] = reached[d]
                                  /\ missed'[d] = missed[d]
  BY DEF WebInv
<1>3. ASSUME NEW d \in Conn PROVE WebAt(web[d], reached[d], missed[d])'
  <2>1. PICK q : q = web'[d]
    OBVIOUS
  <2>2. PICK g, b : g = reached'[d] /\ b = missed'[d]
    OBVIOUS
  <2>3. WebAt(q, g, b)'
    <3>1. CASE d = c
      BY <1>2, <2>1, <2>2, <3>1
    <3>2. CASE d # c
      <4>1. q = web[d] /\ g = reached[d] /\ b = missed[d]
        BY <1>2, <2>1, <2>2, <3>2
      <4>2. WebAt(q, g, b)
        BY <4>1 DEF WebInv
      <4>3. users' \subseteq users
        BY DEF Later, InboxesKept
      <4> QED BY <4>2, <4>3, WebAtLater
    <3> QED BY <3>1, <3>2
  <2> QED BY <2>1, <2>2, <2>3 DEF WebAt
<1> QED BY <1>1, <1>3 DEF WebInv

(* The mailboxes change, no webmail request does.                           *)
LEMMA WebRest ==
  ASSUME Later, WebInv, UNCHANGED wvars
  PROVE  WebInv'
<1>1. ASSUME NEW d \in Conn PROVE WebAt(web[d], reached[d], missed[d])'
  <2>1. PICK q : q = web[d]
    OBVIOUS
  <2>2. PICK g, b : g = reached[d] /\ b = missed[d]
    OBVIOUS
  <2>3. WebAt(q, g, b)
    BY <2>1, <2>2 DEF WebInv
  <2>4. WebAt(q, g, b)'
    BY <2>3, WebAtLater DEF Later, InboxesKept
  <2>5. web'[d] = q /\ reached'[d] = g /\ missed'[d] = b
    BY <2>1, <2>2 DEF wvars
  <2> QED BY <2>4, <2>5 DEF WebAt
<1> QED BY <1>1 DEF WebInv, wvars

-----------------------------------------------------------------------------
(* A step of one kind of connection leaves the others' invariants.          *)
LEMMA ImapCloses ==
  ASSUME IInv, StoreStep, ImapInv', UNCHANGED << pop, svars, wvars >>
  PROVE  IInv' /\ LostAsked
<1>1. StoreTypes /\ PopInv /\ SmtpInv /\ WebInv /\ Later
  BY DEF IInv, StoreInv, StoreStep
<1>2. PopInv'
  BY <1>1 DEF PopInv, PopAt
<1>3. SmtpInv' /\ WebInv'
  BY <1>1, SmtpRest, WebRest
<1> QED BY <1>2, <1>3 DEF IInv, StoreStep

(* The same for POP3.                                                       *)
LEMMA PopCloses ==
  ASSUME IInv, StoreStep, PopInv', UNCHANGED << ivars, svars, wvars >>
  PROVE  IInv' /\ LostAsked
<1>1. StoreTypes /\ ImapInv /\ SmtpInv /\ WebInv /\ Later
  BY DEF IInv, StoreInv, StoreStep
<1>2. ImapInv' /\ SmtpInv' /\ WebInv'
  BY <1>1, ImapRest, SmtpRest, WebRest DEF ivars
<1> QED BY <1>2 DEF IInv, StoreStep

(* The same for SMTP.                                                       *)
LEMMA SmtpCloses ==
  ASSUME IInv, StoreStep, SmtpInv', UNCHANGED << ivars, pop, wvars >>
  PROVE  IInv' /\ LostAsked
<1>1. StoreTypes /\ ImapInv /\ PopInv /\ WebInv /\ Later
  BY DEF IInv, StoreInv, StoreStep
<1>2. PopInv'
  BY <1>1 DEF PopInv, PopAt
<1>3. ImapInv' /\ WebInv'
  BY <1>1, ImapRest, WebRest DEF ivars
<1> QED BY <1>2, <1>3 DEF IInv, StoreStep

(* The same for webmail.                                                    *)
LEMMA WebCloses ==
  ASSUME IInv, StoreStep, WebInv', UNCHANGED << ivars, pop, svars >>
  PROVE  IInv' /\ LostAsked
<1>1. StoreTypes /\ ImapInv /\ PopInv /\ SmtpInv /\ Later
  BY DEF IInv, StoreInv, StoreStep
<1>2. PopInv'
  BY <1>1 DEF PopInv, PopAt
<1>3. ImapInv' /\ SmtpInv'
  BY <1>1, ImapRest, SmtpRest DEF ivars
<1> QED BY <1>2, <1>3 DEF IInv, StoreStep

-----------------------------------------------------------------------------
(* IMAP.                                                                    *)

(* A step after which the session is s and its client v.                    *)
LEMMA ImapSteps ==
  ASSUME IInv, StoreStep, NEW c \in Conn, NEW s \in ImapState, NEW v \in ClientState,
         imap' = [imap EXCEPT ![c] = s], client' = [client EXCEPT ![c] = v],
         ImapAt(s), Counts(v, s)
  PROVE  ImapInv'
<1>1. StoreTypes /\ Later /\ ImapInv
  BY DEF IInv, StoreInv, StoreStep
<1>2. ImapAt(s)'
  BY <1>1, ImapAtLater
<1> QED BY <1>1, <1>2, ImapOne

(* The same when the client hears nothing.                                  *)
LEMMA ImapQuiet ==
  ASSUME IInv, StoreStep, NEW c \in Conn, NEW s \in ImapState,
         imap' = [imap EXCEPT ![c] = s], UNCHANGED client,
         ImapAt(s), Counts(client[c], s)
  PROVE  ImapInv'
<1>1. ImapInv
  BY DEF IInv
<1>2. PICK v \in ClientState : v = client[c]
  BY <1>1 DEF ImapInv
<1>3. client' = [client EXCEPT ![c] = v]
  BY <1>1, <1>2 DEF ImapInv
<1> QED BY <1>2, <1>3, ImapSteps

(* The fields of a session.                                                 *)
LEMMA ImapFields ==
  ASSUME NEW s \in ImapState
  PROVE  /\ s.pc \in {"ready", "fetch", "store", "read back", "copy", "move", "delete", "expunge"}
         /\ s.user \in Who /\ s.box \in Nat /\ s.list \in Seq(Entry0) /\ s.todo \in SUBSET Nat
         /\ s.mode \in {"set", "add", "remove"} /\ s.flags \in SUBSET Flag /\ s.dest \in Nat
         /\ s.moved \in SUBSET Nat /\ s.kept \in SUBSET Nat
BY DEF ImapState

(* Two copies with the same ids count the same.                             *)
LEMMA CountsKept ==
  ASSUME NEW v \in ClientState, NEW s \in ImapState, NEW t \in ImapState, Counts(v, s),
         Len(s.list) <= Len(t.list), \A k \in 1 .. Len(s.list) : t.list[k].id = s.list[k].id
  PROVE  Counts(v, t)
<1>1. v.view \in Seq(Nat)
  BY DEF ClientState
<1>2. s.list \in Seq(Entry0) /\ t.list \in Seq(Entry0)
  BY ImapFields
<1>3. CASE IsPrefix(v.view, Ids(s.list))
  <2>1. PICK a \in Seq(Entry0) : a = s.list
    BY <1>2
  <2>2. PICK b \in Seq(Entry0) : b = t.list
    BY <1>2
  <2>3. PICK w \in Seq(Nat) : w = v.view
    BY <1>1
  <2>4. IsPrefix(w, Ids(a)) /\ Len(a) <= Len(b) /\ \A k \in 1 .. Len(a) : b[k].id = a[k].id
    BY <1>3, <2>1, <2>2, <2>3
  <2>5. Len(w) <= Len(a) /\ \A i \in 1 .. Len(w) : w[i] = a[i].id
    BY <2>4, PrefixOfIds
  <2>6. Len(w) \in Nat /\ Len(a) \in Nat /\ Len(b) \in Nat
    OBVIOUS
  <2>7. Len(w) <= Len(b) /\ \A i \in 1 .. Len(w) : w[i] = b[i].id
    BY <2>4, <2>5, <2>6
  <2>8. IsPrefix(w, Ids(b))
    BY <2>7, PrefixOfIds
  <2> QED BY <2>2, <2>3, <2>8 DEF Counts
<1> QED BY <1>3 DEF Counts

(* A client that counts nothing is not wrong.                               *)
LEMMA CountsNone ==
  ASSUME NEW v \in ClientState, NEW s \in ImapState, v.view = << >>
  PROVE  Counts(v, s)
<1>1. PICK a \in Seq(Entry0) : a = s.list
  BY ImapFields
<1>2. PICK w \in Seq(Nat) : w = v.view
  BY DEF ClientState
<1>3. Len(a) \in Nat
  OBVIOUS
<1>4. IsPrefix(w, Ids(a))
  <2>1. Len(w) = 0
    BY <1>2
  <2>2. Len(w) <= Len(a) /\ \A i \in 1 .. Len(w) : w[i] = a[i].id
    BY <1>3, <2>1
  <2> QED BY <2>2, PrefixOfIds
<1> QED BY <1>1, <1>2, <1>4 DEF Counts

(* The end of a command.                                                    *)
LEMMA DoneIs ==
  ASSUME NEW s \in ImapState
  PROVE  Done(s) \in ImapState /\ ImapAt(Done(s)) /\ Done(s).list = s.list
<1>1. PICK t : t = Done(s)
  OBVIOUS
<1>2. t = [s EXCEPT !.pc = "ready", !.todo = {}, !.mode = "add", !.flags = {},
                    !.dest = 0, !.moved = {}, !.kept = {}]
  BY <1>1 DEF Done
<1>3. t \in ImapState
  BY <1>2 DEF ImapState
<1>4. t.pc = "ready" /\ t.todo = {} /\ t.moved = {} /\ t.kept = {} /\ t.list = s.list
  BY <1>2 DEF ImapState
<1>5. ImapAt(t)
  BY <1>4 DEF ImapAt
<1> QED BY <1>1, <1>3, <1>4, <1>5

(* The next message of a command, or its end.                               *)
LEMMA OneDoneIs ==
  ASSUME NEW s \in ImapState, ImapAt(s)
  PROVE  OneDone(s) \in ImapState /\ ImapAt(OneDone(s)) /\ OneDone(s).list = s.list
<1>1. CASE Rest(s) = {}
  BY <1>1, DoneIs DEF OneDone
<1>2. CASE Rest(s) # {}
  <2>1. PICK t : t = [s EXCEPT !.todo = Rest(s)]
    OBVIOUS
  <2>2. Rest(s) \subseteq s.todo /\ s.todo \in SUBSET Nat
    BY ImapFields DEF Rest
  <2>3. t \in ImapState
    BY <2>1, <2>2 DEF ImapState
  <2>4. /\ t.todo = Rest(s) /\ t.pc = s.pc /\ t.list = s.list /\ t.user = s.user /\ t.dest = s.dest
        /\ t.moved = s.moved /\ t.kept = s.kept
    BY <2>1 DEF ImapState
  <2>5. ImapAt(t)
    BY <1>2, <2>2, <2>4 DEF ImapAt
  <2> QED BY <1>2, <2>1, <2>3, <2>4, <2>5 DEF OneDone
<1> QED BY <1>1, <1>2

(* The message a command is at.                                             *)
LEMMA EntryIs ==
  ASSUME ImapInv, NEW c \in Conn, imap[c].todo # {}
  PROVE  /\ This(c) \in imap[c].todo /\ This(c) \in DOMAIN imap[c].list
         /\ Entry(c) \in Entry0 /\ Entry(c).id \in Nat /\ Entry(c).flags \in SUBSET AnyFlag
<1>1. PICK s \in ImapState : s = imap[c] /\ ImapAt(s)
  BY DEF ImapInv
<1>2. PICK list \in Seq(Entry0) : list = s.list
  BY ImapFields
<1>3. s.todo \in SUBSET DOMAIN list /\ s.todo # {}
  BY <1>1, <1>2 DEF ImapAt
<1>4. Min(s.todo) \in s.todo
  BY <1>3, PositionsAre
<1>5. This(c) = Min(s.todo) /\ Entry(c) = list[Min(s.todo)]
  BY <1>1, <1>2 DEF This, Entry
<1>6. \A T : list \in Seq(T) => \A k \in DOMAIN list : list[k] \in T
  OBVIOUS
<1>7. Entry(c) \in Entry0
  BY <1>3, <1>4, <1>5, <1>6
<1> QED BY <1>1, <1>2, <1>3, <1>4, <1>5, <1>7 DEF Entry0

(* What an action of an IMAP session is shown to do.                        *)
ImapSafe == StoreStep /\ ImapInv'

(* What the invariant says of one session.                                  *)
LEMMA ImapHas ==
  ASSUME IInv, NEW c \in Conn
  PROVE  /\ imap[c] \in ImapState /\ ImapAt(imap[c]) /\ client[c] \in ClientState /\ Counts(client[c], imap[c])
         /\ StoreInv /\ ImapInv /\ StoreTypes /\ Places /\ AskedKnown /\ DeletedAsked
BY DEF IInv, ImapInv, StoreInv

(* LOGIN.                                                                   *)
LEMMA LoginSafe ==
  ASSUME IInv, NEW c \in Conn, NEW u, Login(c, u)
  PROVE  ImapSafe
<1>1. PICK q \in ImapState : q = imap[c] /\ ImapAt(q) /\ Counts(client[c], q)
  BY ImapHas
<1>2. PICK s : s = [q EXCEPT !.user = u]
  OBVIOUS
<1>3. imap' = [imap EXCEPT ![c] = s] /\ UNCHANGED client
  BY <1>1, <1>2 DEF Login
<1>4. u \in Who
  BY ImapHas DEF Login, StoreTypes, Who
<1>5. /\ s \in ImapState /\ s.todo = q.todo /\ s.list = q.list /\ s.pc = q.pc /\ s.moved = q.moved /\ s.kept = q.kept
  BY <1>1, <1>2, <1>4 DEF ImapState
<1>6. q.pc = "ready"
  BY <1>1 DEF Login, ImapAt
<1>7. ImapAt(s)
  BY <1>1, <1>5, <1>6 DEF ImapAt
<1>8. Counts(client[c], s)
  BY <1>1, <1>5 DEF Counts
<1>9. StoreStep
  BY ImapHas, StoreStutters DEF Login
<1> QED BY <1>3, <1>5, <1>7, <1>8, <1>9, ImapQuiet DEF ImapSafe

(* LOGOUT.                                                                  *)
LEMMA LogoutSafe ==
  ASSUME IInv, NEW c \in Conn, Logout(c)
  PROVE  ImapSafe
<1>1. PICK s : s = NoImap
  OBVIOUS
<1>2. PICK v : v = NoClient
  OBVIOUS
<1>3. imap' = [imap EXCEPT ![c] = s] /\ client' = [client EXCEPT ![c] = v]
  BY <1>1, <1>2 DEF Logout
<1>4. s \in ImapState /\ s.pc = "ready" /\ s.todo = {} /\ s.list = << >> /\ s.moved = {} /\ s.kept = {}
  BY <1>1 DEF NoImap, ImapState, Who
<1>5. v \in ClientState /\ v.view = << >>
  BY <1>2 DEF NoClient, ClientState
<1>6. ImapAt(s)
  BY <1>4 DEF ImapAt
<1>7. Counts(v, s)
  BY <1>4, <1>5, CountsNone
<1>8. StoreStep
  BY ImapHas, StoreStutters DEF Logout
<1> QED BY <1>3, <1>4, <1>5, <1>6, <1>7, <1>8, ImapSteps DEF ImapSafe

(* A session with another folder open.                                      *)
LEMMA OpenedIs ==
  ASSUME NEW q \in ImapState, NEW f \in Nat, NEW list \in Seq(Entry0)
  PROVE  LET s == Opened(q, f, list)
         IN /\ s \in ImapState /\ s.todo = q.todo /\ s.list = list /\ s.pc = q.pc /\ s.moved = q.moved
            /\ s.kept = q.kept /\ s.user = q.user /\ s.dest = q.dest
<1>1. PICK s : s = [q EXCEPT !.box = f, !.list = list]
  OBVIOUS
<1>2. /\ s \in ImapState /\ s.todo = q.todo /\ s.list = list /\ s.pc = q.pc /\ s.moved = q.moved
      /\ s.kept = q.kept /\ s.user = q.user /\ s.dest = q.dest
  BY <1>1 DEF ImapState
<1> QED BY <1>1, <1>2 DEF Opened

(* The copy of a page.                                                      *)
LEMMA CopyIs ==
  ASSUME StoreTypes, NEW f, NEW page \in Pages(f, SelectLimit, TRUE)
  PROVE  CopyOf(page) \in Seq(Entry0)
<1>1. page \in Seq(In(f)) /\ In(f) \subseteq Nat /\ In(f) \subseteq DOMAIN rows
  BY Zenon, PageIs
<1>2. DOMAIN page = 1 .. Len(page) /\ Len(page) \in Nat
  BY <1>1
<1>3. ASSUME NEW k \in 1 .. Len(page) PROVE Reverse(page)[k] \in In(f)
  <2>1. (Len(page) - k) + 1 \in 1 .. Len(page)
    BY <1>2
  <2>2. Reverse(page)[k] = page[(Len(page) - k) + 1]
    BY DEF Reverse
  <2> QED BY <1>1, <2>1, <2>2
<1>4. ASSUME NEW m \in In(f) PROVE [id |-> m, uid |-> rows[m].uid, flags |-> rows[m].flags] \in Entry0
  <2>1. rows[m] \in [user : User, box : Nat, uid : Nat, date : Date, flags : SUBSET AnyFlag] /\ m \in Nat
    BY <1>1 DEF StoreTypes, Row
  <2> QED BY <2>1 DEF Entry0
<1>5. CopyOf(page) = [k \in 1 .. Len(page) |-> [id |-> Reverse(page)[k], uid |-> rows[Reverse(page)[k]].uid,
                                                flags |-> rows[Reverse(page)[k]].flags]]
  BY <1>2 DEF CopyOf
<1>6. \A k \in 1 .. Len(page) : CopyOf(page)[k] \in Entry0
  BY <1>3, <1>4, <1>5
<1>7. CopyOf(page) = [k \in 1 .. Len(page) |-> CopyOf(page)[k]]
  BY <1>5
<1> QED BY <1>2, <1>6, <1>7

(* SELECT: client and session start with the same page.                     *)
LEMMA SelectSafe ==
  ASSUME IInv, NEW c \in Conn, Select(c)
  PROVE  ImapSafe
<1>1. PICK q \in ImapState : q = imap[c] /\ ImapAt(q)
  BY ImapHas
<1>2. PICK f \in DOMAIN boxes : \E page \in Pages(f, SelectLimit, TRUE) :
         /\ imap'   = [imap EXCEPT ![c] = Opened(@, f, CopyOf(page))]
         /\ client' = [client EXCEPT ![c] = [view |-> Ids(CopyOf(page)), misled |-> FALSE]]
  BY DEF Select
<1>3. PICK page \in Pages(f, SelectLimit, TRUE) :
         /\ imap'   = [imap EXCEPT ![c] = Opened(@, f, CopyOf(page))]
         /\ client' = [client EXCEPT ![c] = [view |-> Ids(CopyOf(page)), misled |-> FALSE]]
  BY <1>2
<1>4. PICK list : list = CopyOf(page)
  OBVIOUS
<1>5. list \in Seq(Entry0)
  BY <1>3, <1>4, ImapHas, CopyIs
<1>6. PICK s : s = Opened(q, f, list)
  OBVIOUS
<1>7. PICK v : v = [view |-> Ids(list), misled |-> FALSE]
  OBVIOUS
<1>8. imap' = [imap EXCEPT ![c] = s] /\ client' = [client EXCEPT ![c] = v]
  <2>1. imap \in [Conn -> ImapState]
    BY ImapHas DEF ImapInv
  <2> QED BY <1>1, <1>3, <1>4, <1>6, <1>7, <2>1
<1>9. f \in Nat
  BY <1>2, ImapHas DEF StoreTypes
<1>10. /\ s \in ImapState /\ s.todo = q.todo /\ s.list = list /\ s.pc = q.pc /\ s.moved = q.moved
       /\ s.kept = q.kept /\ s.user = q.user /\ s.dest = q.dest
  BY <1>1, <1>5, <1>6, <1>9, OpenedIs
<1>11. Ids(list) \in Seq(Nat)
  BY <1>5, IdsAre
<1>12. v \in ClientState /\ v.view = Ids(list)
  BY <1>7, <1>11 DEF ClientState
<1>13. q.pc = "ready"
  BY <1>1 DEF Select, Ready
<1>14. ImapAt(s)
  BY <1>1, <1>10, <1>13 DEF ImapAt
<1>15. Counts(v, s)
  <2>1. IsPrefix(Ids(list), Ids(list))
    BY <1>11, PrefixIs
  <2>2. IsPrefix(v.view, Ids(s.list))
    BY <1>10, <1>12, <2>1
  <2> QED BY <2>2 DEF Counts
<1>16. StoreStep
  BY ImapHas, StoreStutters DEF Select
<1> QED BY <1>8, <1>10, <1>12, <1>14, <1>15, <1>16, ImapSteps DEF ImapSafe

(* UNSELECT.                                                                *)
LEMMA UnselectSafe ==
  ASSUME IInv, NEW c \in Conn, Unselect(c)
  PROVE  ImapSafe
<1>1. PICK q \in ImapState : q = imap[c] /\ ImapAt(q)
  BY ImapHas
<1>2. PICK s : s = Opened(q, 0, << >>)
  OBVIOUS
<1>3. PICK v : v = NoClient
  OBVIOUS
<1>4. imap' = [imap EXCEPT ![c] = s] /\ client' = [client EXCEPT ![c] = v]
  BY <1>1, <1>2, <1>3 DEF Unselect
<1>5. /\ s \in ImapState /\ s.todo = q.todo /\ s.list = << >> /\ s.pc = q.pc /\ s.moved = q.moved
      /\ s.kept = q.kept /\ s.user = q.user /\ s.dest = q.dest
  <2>1. << >> \in Seq(Entry0)
    OBVIOUS
  <2>2. PICK list \in Seq(Entry0) : list = << >>
    BY <2>1
  <2>3. PICK f \in Nat : f = 0
    OBVIOUS
  <2>4. s = Opened(q, f, list)
    BY <1>2, <2>2, <2>3
  <2> QED BY <2>2, <2>4, OpenedIs
<1>6. v \in ClientState /\ v.view = << >>
  BY <1>3 DEF NoClient, ClientState
<1>7. q.pc = "ready"
  BY <1>1 DEF Unselect, Selected, Ready
<1>8. ImapAt(s)
  BY <1>1, <1>5, <1>7 DEF ImapAt
<1>9. Counts(v, s)
  BY <1>5, <1>6, CountsNone
<1>10. StoreStep
  BY ImapHas, StoreStutters DEF Unselect
<1> QED BY <1>4, <1>5, <1>6, <1>8, <1>9, <1>10, ImapSteps DEF ImapSafe

(* CREATE, DELETE, RENAME: the session itself does not change.              *)
LEMMA CreateSafe ==
  ASSUME IInv, NEW c \in Conn, NEW name \in Names, Create(c, name)
  PROVE  ImapSafe
<1>1. StoreInv /\ ImapInv /\ StoreTypes
  BY ImapHas
<1>2. name \in BoxName
  BY DEF BoxName
<1>3. StoreStep
  <2>1. CASE FolderByName(imap[c].user, name) = {} /\ imap[c].user \in users
    BY <1>1, <1>2, <2>1, EnsureStep DEF Create, EnsureFolder, ivars
  <2>2. CASE ~(FolderByName(imap[c].user, name) = {} /\ imap[c].user \in users)
    BY <1>1, <2>2, StoreStutters DEF Create, EnsureFolder, ivars, mvars
  <2> QED BY <2>1, <2>2
<1>4. ImapInv'
  BY <1>1, <1>3, ImapRest DEF Create, ivars, StoreStep
<1> QED BY <1>3, <1>4 DEF ImapSafe

(* DELETE: never INBOX, and its messages count as asked for.                *)
LEMMA DeleteSafe ==
  ASSUME IInv, NEW c \in Conn, Delete(c)
  PROVE  ImapSafe
<1>1. StoreInv /\ ImapInv /\ StoreTypes
  BY ImapHas
<1>2. PICK f \in DOMAIN boxes : boxes[f].name # "INBOX" /\ DeleteFolder(f)
  BY DEF Delete
<1>3. StoreStep
  <2>1. /\ boxes' = Without(boxes, {f}) /\ rows' = Without(rows, In(f))
        /\ asked' = asked \cup (In(f) \cap DOMAIN rows)
        /\ \A m \in DOMAIN rows : rows[m].box \in {f} => m \in In(f)
    BY <1>2 DEF DeleteFolder, In
  <2>2. UNCHANGED << nextBox, nextRow, revived >> /\ users' \subseteq users
    BY DEF Delete, ivars
  <2> QED BY <1>1, <1>2, <2>1, <2>2, DropStep
<1>4. ImapInv'
  BY <1>1, <1>3, ImapRest DEF Delete, ivars, StoreStep
<1> QED BY <1>3, <1>4 DEF ImapSafe

(* RENAME: neither of INBOX nor to it.                                      *)
LEMMA RenameSafe ==
  ASSUME IInv, NEW c \in Conn, NEW name \in Names, Rename(c, name)
  PROVE  ImapSafe
<1>1. StoreInv /\ ImapInv /\ StoreTypes
  BY ImapHas
<1>2. PICK f \in DOMAIN boxes : boxes[f].name # "INBOX" /\ boxes' = [boxes EXCEPT ![f].name = name]
  BY DEF Rename
<1>3. name \in BoxName
  BY DEF BoxName
<1>4. StoreStep
  BY <1>1, <1>2, <1>3, RenameStep DEF Rename, ivars
<1>5. ImapInv'
  BY <1>1, <1>4, ImapRest DEF Rename, ivars, StoreStep
<1> QED BY <1>4, <1>5 DEF ImapSafe

(* APPEND: the copy may get longer at its end than what the client counts.  *)
LEMMA AppendSafe ==
  ASSUME IInv, NEW c \in Conn, AppendMessage(c)
  PROVE  ImapSafe
<1>1. PICK q \in ImapState : q = imap[c] /\ ImapAt(q) /\ Counts(client[c], q)
  BY ImapHas
<1>2. StoreInv /\ ImapInv /\ StoreTypes
  BY ImapHas
<1>3. PICK f \in DOMAIN boxes, date \in Date, fl \in SUBSET Flag :
       /\ boxes[f].user = imap[c].user /\ Exists(imap[c].user, f) /\ boxes[f].next <= MaxUid
       /\ Deliver(imap[c].user, f, date, fl)
       /\ asked' = IF "Deleted" \in fl THEN asked \cup {nextRow} ELSE asked
       /\ imap'  = IF f = imap[c].box
                   THEN [imap EXCEPT ![c].list = WithAppended(@,
                           [id |-> nextRow, uid |-> boxes[f].next, flags |-> {}])]
                   ELSE imap
  BY DEF AppendMessage
<1>4. UNCHANGED << users, nextBox, client, revived >>
  BY DEF AppendMessage
<1>5. StoreStep
  <2>1. fl \in SUBSET AnyFlag
    BY DEF AnyFlag
  <2>2. Deliver(boxes[f].user, f, date, fl)
    BY <1>3
  <2>3. /\ asked \subseteq asked' /\ revived \subseteq revived'
        /\ asked' \cup revived' \subseteq asked \cup revived \cup {nextRow}
        /\ "Deleted" \in fl => nextRow \in asked' \cup revived'
    BY <1>3, <1>4
  <2> QED BY <1>2, <1>3, <1>4, <2>1, <2>2, <2>3, DeliverStep
<1>6. CASE f # imap[c].box
  <2>1. UNCHANGED << imap, client >>
    BY <1>3, <1>4, <1>6
  <2> QED BY <1>2, <1>5, <2>1, ImapRest DEF StoreStep, ImapSafe
<1>7. CASE f = imap[c].box
  <2>1. PICK e : e = [id |-> nextRow, uid |-> boxes[f].next, flags |-> {}]
    OBVIOUS
  <2>2. e \in Entry0
    <3>1. nextRow \in Nat
      BY <1>2 DEF StoreTypes
    <3>2. boxes[f].next \in 1 .. MaxUid + 1
      BY <1>2 DEF StoreTypes, Folder
    <3>3. boxes[f].next \in Nat
      BY <3>2
    <3> QED BY <2>1, <3>1, <3>3 DEF Entry0
  <2>3. PICK list \in Seq(Entry0) : list = q.list
    BY <1>1, ImapFields
  <2>4. Append(list, e) \in Seq(Entry0) /\ Len(Append(list, e)) = Len(list) + 1 /\ Len(list) \in Nat
        /\ \A k \in 1 .. Len(list) : Append(list, e)[k] = list[k]
    BY <2>2
  <2>5. PICK s : s = [q EXCEPT !.list = Append(list, e)]
    OBVIOUS
  <2>6. imap' = [imap EXCEPT ![c] = s]
    BY <1>1, <1>3, <1>7, <2>1, <2>3, <2>5 DEF WithAppended
  <2>7. /\ s \in ImapState /\ s.todo = q.todo /\ s.list = Append(list, e) /\ s.pc = q.pc /\ s.moved = q.moved
        /\ s.kept = q.kept /\ s.user = q.user /\ s.dest = q.dest
    BY <1>1, <2>4, <2>5 DEF ImapState
  <2>8. q.pc = "ready"
    BY <1>1 DEF AppendMessage, Ready
  <2>9. ImapAt(s)
    BY <1>1, <2>7, <2>8 DEF ImapAt
  <2>10. Counts(client[c], s)
    <3>1. Len(q.list) <= Len(s.list) /\ \A k \in 1 .. Len(q.list) : s.list[k].id = q.list[k].id
      BY <2>3, <2>4, <2>7
    <3>2. client[c] \in ClientState
      BY ImapHas
    <3>3. Counts(client[c], q) /\ s \in ImapState
      BY <1>1, <2>7
    <3> QED BY <3>1, <3>2, <3>3, CountsKept
  <2> QED BY <1>4, <1>5, <2>6, <2>7, <2>9, <2>10, ImapQuiet DEF ImapSafe
<1> QED BY <1>6, <1>7

(* A flag changes in the copy.                                              *)
LEMMA CopyFlagged ==
  ASSUME NEW s \in ImapState, ImapAt(s), NEW k \in DOMAIN s.list, NEW fl \in SUBSET AnyFlag,
         NEW t, t = Reflagged(s, k, fl)
  PROVE  /\ t \in ImapState /\ ImapAt(t) /\ t.pc = s.pc
         /\ Len(t.list) = Len(s.list) /\ \A i \in 1 .. Len(s.list) : t.list[i].id = s.list[i].id
<1>1. PICK a \in Seq(Entry0) : a = s.list
  BY ImapFields
<1>2. PICK b : b = [a EXCEPT ![k].flags = fl]
  OBVIOUS
<1>3. a[k] \in Entry0 /\ k \in 1 .. Len(a) /\ Len(a) \in Nat
  <2>1. \A T : a \in Seq(T) => \A i \in DOMAIN a : a[i] \in T
    OBVIOUS
  <2> QED BY <1>1, <2>1
<1>4. PICK e : e = [a[k] EXCEPT !.flags = fl]
  OBVIOUS
<1>5. e \in Entry0 /\ e.id = a[k].id
  BY <1>3, <1>4 DEF Entry0
<1>6. b = [a EXCEPT ![k] = e]
  BY <1>2, <1>4
<1>7. b \in Seq(Entry0) /\ Len(b) = Len(a) /\ \A i \in 1 .. Len(a) : b[i].id = a[i].id
  BY <1>1, <1>3, <1>5, <1>6
<1>8. t = [s EXCEPT !.list = b]
  BY <1>1, <1>2 DEF Reflagged
<1>9. /\ t \in ImapState /\ t.list = b /\ t.pc = s.pc /\ t.user = s.user /\ t.todo = s.todo /\ t.dest = s.dest
      /\ t.moved = s.moved /\ t.kept = s.kept
  BY <1>7, <1>8 DEF ImapState
<1>10. DOMAIN b = DOMAIN a
  BY <1>1, <1>7
<1>11. ImapAt(t)
  BY <1>1, <1>9, <1>10 DEF ImapAt
<1> QED BY <1>1, <1>7, <1>9, <1>11

(* The messages a command names.                                            *)
LEMMA NamedAre ==
  ASSUME NEW q \in ImapState, NEW ks \in SUBSET DOMAIN q.list
  PROVE  ks \in SUBSET Nat
<1>1. PICK a \in Seq(Entry0) : a = q.list
  BY ImapFields
<1> QED BY <1>1, PositionsAre

(* Who has a folder selected is logged in and between commands.             *)
LEMMA SelectedIs ==
  ASSUME NEW c \in Conn, Selected(c)
  PROVE  imap[c].pc = "ready" /\ imap[c].user # Nobody
BY DEF Selected, Ready

(* FETCH begins.                                                            *)
LEMMA StartFetchSafe ==
  ASSUME IInv, NEW c \in Conn, StartFetch(c)
  PROVE  ImapSafe
<1>1. PICK q \in ImapState : q = imap[c] /\ ImapAt(q) /\ Counts(client[c], q)
  BY ImapHas
<1>2. PICK ks \in (SUBSET Positions(c)) \ {{}} : Begin(c, "fetch", ks)
  BY DEF StartFetch
<1>3. PICK s : s = [q EXCEPT !.pc = "fetch", !.todo = ks]
  OBVIOUS
<1>4. q.pc = "ready" /\ q.user # Nobody /\ ks \in SUBSET DOMAIN q.list /\ ks # {} /\ ks \in SUBSET Nat
  <2>1. Selected(c)
    BY DEF StartFetch
  <2>2. ks \in SUBSET DOMAIN q.list /\ ks # {}
    BY <1>1, <1>2 DEF Positions
  <2> QED BY <1>1, <2>1, <2>2, SelectedIs, NamedAre
<1>5. /\ s \in ImapState /\ s.pc = "fetch" /\ s.user = q.user /\ s.todo = ks /\ s.list = q.list
      /\ s.moved = q.moved /\ s.kept = q.kept
  BY <1>1, <1>3, <1>4 DEF ImapState
<1>6. imap' = [imap EXCEPT ![c] = s]
  <2>1. imap \in [Conn -> ImapState]
    BY ImapHas DEF ImapInv
  <2> QED BY <1>1, <1>2, <1>3, <2>1 DEF Begin
<1>7. ImapAt(s) /\ Counts(client[c], s)
  BY <1>1, <1>4, <1>5 DEF ImapAt, Counts
<1>8. StoreStep
  BY ImapHas, StoreStutters DEF StartFetch
<1> QED BY <1>5, <1>6, <1>7, <1>8, ImapQuiet DEF ImapSafe, StartFetch

(* FETCH of one message sets \Seen.                                         *)
LEMMA FetchOneSafe ==
  ASSUME IInv, NEW c \in Conn, FetchOne(c)
  PROVE  ImapSafe
<1>1. PICK q \in ImapState : q = imap[c] /\ ImapAt(q) /\ Counts(client[c], q)
  BY ImapHas
<1>2. ImapInv /\ StoreInv /\ StoreTypes /\ AskedKnown /\ DeletedAsked
  BY ImapHas
<1>3. q.todo # {}
  BY <1>1 DEF FetchOne, At, ImapAt
<1>4. This(c) \in DOMAIN q.list /\ Entry(c).flags \in SUBSET AnyFlag
  BY <1>1, <1>2, <1>3, EntryIs
<1>4a. PICK k \in DOMAIN q.list : k = This(c)
  BY <1>4
<1>5. PICK fl \in SUBSET AnyFlag : fl = q.list[k].flags \cup {"Seen"}
  BY <1>1, <1>4, <1>4a DEF AnyFlag, Entry
<1>6. PICK t : t = Reflagged(q, k, fl)
  OBVIOUS
<1>7. /\ t \in ImapState /\ ImapAt(t)
      /\ Len(t.list) = Len(q.list) /\ \A i \in 1 .. Len(q.list) : t.list[i].id = q.list[i].id
  BY <1>1, <1>4a, <1>5, <1>6, CopyFlagged
<1>8. PICK s : s = OneDone(t)
  OBVIOUS
<1>9. s \in ImapState /\ ImapAt(s) /\ s.list = t.list
  BY <1>7, <1>8, OneDoneIs
<1>10. imap' = [imap EXCEPT ![c] = s]
  BY <1>1, <1>4a, <1>5, <1>6, <1>8 DEF FetchOne, Entry
<1>11. Counts(client[c], s)
  <2>1. client[c] \in ClientState
    BY ImapHas
  <2>2. PICK a \in Seq(Entry0) : a = q.list
    BY <1>1, ImapFields
  <2>3. Len(q.list) <= Len(s.list)
    <3>1. Len(a) \in Nat
      BY <2>2
    <3> QED BY <1>7, <1>9, <2>2, <3>1
  <2> QED BY <1>1, <1>7, <1>9, <2>1, <2>3, CountsKept
<1>12. StoreStep
  <2>1. PICK ids : ids = Mine(q.user, {Entry(c).id})
    OBVIOUS
  <2>2. PICK seen \in SUBSET AnyFlag : seen = {"Seen"}
    BY DEF AnyFlag
  <2>3. rows' = Flagged(rows, ids, "add", seen)
    BY <1>1, <2>1, <2>2 DEF FetchOne, SetFlags
  <2>4. UNCHANGED << users, boxes, nextBox, nextRow, asked, revived >>
    BY DEF FetchOne
  <2>5. \A m \in ids \cap DOMAIN rows :
          "Deleted" \in NewFlags(rows[m].flags, "add", seen) => m \in asked' \cup revived'
    BY <1>2, <2>2, <2>4 DEF NewFlags, DeletedAsked
  <2>6. asked' \cup revived' \subseteq 1 .. nextRow - 1
    BY <1>2, <2>4 DEF AskedKnown
  <2> QED BY <1>2, <2>3, <2>4, <2>5, <2>6, FlagStep
<1> QED BY <1>9, <1>10, <1>11, <1>12, ImapQuiet DEF ImapSafe, FetchOne

(* STORE begins.                                                            *)
LEMMA StartStoreSafe ==
  ASSUME IInv, NEW c \in Conn, StartStore(c)
  PROVE  ImapSafe
<1>1. PICK q \in ImapState : q = imap[c] /\ ImapAt(q) /\ Counts(client[c], q)
  BY ImapHas
<1>2. PICK ks \in (SUBSET Positions(c)) \ {{}}, mode \in {"set", "add", "remove"}, fl \in SUBSET Flag :
       imap' = [imap EXCEPT ![c].pc = "store", ![c].todo = ks,
                            ![c].mode = mode, ![c].flags = fl]
  BY DEF StartStore
<1>3. PICK s : s = [q EXCEPT !.pc = "store", !.todo = ks, !.mode = mode, !.flags = fl]
  OBVIOUS
<1>4. q.pc = "ready" /\ q.user # Nobody /\ ks \in SUBSET DOMAIN q.list /\ ks # {} /\ ks \in SUBSET Nat
  <2>1. Selected(c)
    BY DEF StartStore
  <2>2. ks \in SUBSET DOMAIN q.list /\ ks # {}
    BY <1>1, <1>2 DEF Positions
  <2> QED BY <1>1, <2>1, <2>2, SelectedIs, NamedAre
<1>5. /\ s \in ImapState /\ s.pc = "store" /\ s.user = q.user /\ s.todo = ks /\ s.list = q.list
      /\ s.moved = q.moved /\ s.kept = q.kept
  BY <1>1, <1>2, <1>3, <1>4 DEF ImapState
<1>6. imap' = [imap EXCEPT ![c] = s]
  <2>1. imap \in [Conn -> ImapState]
    BY ImapHas DEF ImapInv
  <2> QED BY <1>1, <1>2, <1>3, <2>1
<1>7. ImapAt(s) /\ Counts(client[c], s)
  BY <1>1, <1>4, <1>5 DEF ImapAt, Counts
<1>8. StoreStep
  BY ImapHas, StoreStutters DEF StartStore
<1> QED BY <1>5, <1>6, <1>7, <1>8, ImapQuiet DEF ImapSafe, StartStore

(* STORE of one message: \Deleted in the table stays what was asked for.    *)
LEMMA StoreOneSafe ==
  ASSUME IInv, NEW c \in Conn, StoreOne(c)
  PROVE  ImapSafe
<1>1. PICK q \in ImapState : q = imap[c] /\ ImapAt(q) /\ Counts(client[c], q)
  BY ImapHas
<1>2. ImapInv /\ StoreInv /\ StoreTypes /\ AskedKnown /\ DeletedAsked
  BY ImapHas
<1>3. q.mode \in {"set", "add", "remove"} /\ q.flags \in SUBSET Flag
  BY <1>1, ImapFields
<1>4. PICK ids : ids = Mine(q.user, {Entry(c).id})
  OBVIOUS
<1>5. PICK mode \in {"set", "add", "remove"}, fl \in SUBSET Flag : mode = q.mode /\ fl = q.flags
  BY <1>3
<1>6. rows' = Flagged(rows, ids, mode, fl) /\ asked' = AskedAfter(ids, mode, fl)
  BY <1>1, <1>4, <1>5 DEF StoreOne, SetFlags
<1>7. UNCHANGED << users, boxes, nextBox, nextRow, client, revived >>
  BY DEF StoreOne
<1>8. ids \subseteq DOMAIN rows
  BY <1>4 DEF Mine
<1>9. StoreStep
  <2>1. asked' \cup revived' \subseteq 1 .. nextRow - 1
    BY <1>2, <1>6, <1>7, <1>8 DEF AskedKnown, AskedAfter, StoreTypes
  <2>2. \A m \in DOMAIN rows \ ids : m \in asked \cup revived => m \in asked' \cup revived'
    BY <1>6, <1>7 DEF AskedAfter
  <2>3. \A m \in ids \cap DOMAIN rows :
          "Deleted" \in NewFlags(rows[m].flags, mode, fl) => m \in asked' \cup revived'
    <3> TAKE m \in ids \cap DOMAIN rows
    <3>1. "Deleted" \in rows[m].flags => m \in asked \cup revived
      BY <1>2 DEF DeletedAsked
    <3>2. CASE fl = {}
      BY <1>6, <1>7, <3>1, <3>2 DEF AskedAfter, NewFlags
    <3>3. CASE fl # {} /\ mode = "set"
      <4>1. NewFlags(rows[m].flags, mode, fl) = fl
        BY <3>3 DEF NewFlags
      <4>2. "Deleted" \in fl => AskedAfter(ids, mode, fl) = asked \cup ids
        BY <3>3 DEF AskedAfter
      <4> QED BY <1>6, <4>1, <4>2
    <3>4. CASE fl # {} /\ mode = "add"
      <4>1. NewFlags(rows[m].flags, mode, fl) = rows[m].flags \cup fl
        BY <3>4 DEF NewFlags
      <4>2. AskedAfter(ids, mode, fl) = IF "Deleted" \in fl THEN asked \cup ids ELSE asked
        BY <3>4 DEF AskedAfter
      <4>3. "Deleted" \notin fl => asked' = asked
        BY <1>6, <4>2
      <4>4. "Deleted" \in fl => m \in asked'
        BY <1>6, <4>2
      <4>5. CASE "Deleted" \in fl
        BY <4>4, <4>5
      <4>6. CASE "Deleted" \notin fl
        BY <1>7, <3>1, <4>1, <4>3, <4>6
      <4> QED BY <4>5, <4>6
    <3>5. CASE fl # {} /\ mode = "remove"
      BY <1>6, <1>7, <3>1, <3>5 DEF AskedAfter, NewFlags
    <3> QED BY <1>5, <3>2, <3>3, <3>4, <3>5
  <2>4. fl \in SUBSET AnyFlag
    BY <1>5 DEF AnyFlag
  <2> QED BY <1>2, <1>5, <1>6, <1>7, <2>1, <2>2, <2>3, <2>4, FlagStep
<1>10. PICK s : s = [q EXCEPT !.pc = "read back"]
  OBVIOUS
<1>11. /\ s \in ImapState /\ s.pc = "read back" /\ s.user = q.user /\ s.todo = q.todo /\ s.list = q.list
       /\ s.moved = q.moved /\ s.kept = q.kept
  BY <1>1, <1>10 DEF ImapState
<1>12. imap' = [imap EXCEPT ![c] = s]
  BY <1>1, <1>10 DEF StoreOne
<1>13. q.pc = "store"
  BY <1>1 DEF StoreOne, At
<1>14. ImapAt(s) /\ Counts(client[c], s)
  BY <1>1, <1>11, <1>13 DEF ImapAt, Counts
<1> QED BY <1>7, <1>9, <1>11, <1>12, <1>14, ImapQuiet DEF ImapSafe

(* The flags read back, or the end of a STORE whose message is gone.        *)
LEMMA ReadBackSafe ==
  ASSUME IInv, NEW c \in Conn, ReadBack(c)
  PROVE  ImapSafe
<1>1. PICK q \in ImapState : q = imap[c] /\ ImapAt(q) /\ Counts(client[c], q)
  BY ImapHas
<1>2. ImapInv /\ StoreInv /\ StoreTypes
  BY ImapHas
<1>3. StoreStep
  BY <1>2, StoreStutters DEF ReadBack
<1>4. q.pc = "read back" /\ q.todo # {}
  BY <1>1 DEF ReadBack, At, ImapAt
<1>5. This(c) \in DOMAIN q.list
  BY <1>1, <1>2, <1>4, EntryIs
<1>6. CASE Entry(c).id \in Mine(q.user, {Entry(c).id})
  <2>1. PICK fl \in SUBSET AnyFlag : fl = rows[Entry(c).id].flags
    BY <1>2, <1>6 DEF Mine, StoreTypes, Row
  <2>2. PICK k \in DOMAIN q.list : k = This(c)
    BY <1>5
  <2>3. PICK r : r = [q EXCEPT !.pc = "store"]
    OBVIOUS
  <2>4. /\ r \in ImapState /\ r.pc = "store" /\ r.user = q.user /\ r.todo = q.todo /\ r.list = q.list
        /\ r.moved = q.moved /\ r.kept = q.kept
    BY <1>1, <2>3 DEF ImapState
  <2>5. ImapAt(r)
    BY <1>1, <1>4, <2>4 DEF ImapAt
  <2>6. PICK t : t = Reflagged(r, k, fl)
    OBVIOUS
  <2>7. /\ t \in ImapState /\ ImapAt(t)
        /\ Len(t.list) = Len(q.list) /\ \A i \in 1 .. Len(q.list) : t.list[i].id = q.list[i].id
    <3>1. k \in DOMAIN r.list
      BY <2>2, <2>4
    <3>2. /\ t \in ImapState /\ ImapAt(t)
          /\ Len(t.list) = Len(r.list) /\ \A i \in 1 .. Len(r.list) : t.list[i].id = r.list[i].id
      BY <2>1, <2>4, <2>5, <2>6, <3>1, CopyFlagged
    <3> QED BY <2>4, <3>2
  <2>8. PICK s : s = OneDone(t)
    OBVIOUS
  <2>9. s \in ImapState /\ ImapAt(s) /\ s.list = t.list
    BY <2>7, <2>8, OneDoneIs
  <2>10. imap' = [imap EXCEPT ![c] = s]
    BY <1>1, <1>6, <2>1, <2>2, <2>3, <2>6, <2>8 DEF ReadBack
  <2>11. Counts(client[c], s)
    <3>1. client[c] \in ClientState
      BY ImapHas
    <3>2. PICK a \in Seq(Entry0) : a = q.list
      BY <1>1, ImapFields
    <3>3. Len(q.list) <= Len(s.list)
      <4>1. Len(a) \in Nat
        BY <3>2
      <4> QED BY <2>7, <2>9, <3>2, <4>1
    <3> QED BY <1>1, <2>7, <2>9, <3>1, <3>3, CountsKept
  <2> QED BY <1>3, <2>9, <2>10, <2>11, ImapQuiet DEF ImapSafe, ReadBack
<1>7. CASE ~(Entry(c).id \in Mine(q.user, {Entry(c).id}))
  <2>1. PICK s : s = Done(q)
    OBVIOUS
  <2>2. s \in ImapState /\ ImapAt(s) /\ s.list = q.list
    BY <1>1, <2>1, DoneIs
  <2>3. imap' = [imap EXCEPT ![c] = s]
    BY <1>1, <1>7, <2>1 DEF ReadBack
  <2>4. Counts(client[c], s)
    BY <1>1, <2>2 DEF Counts
  <2> QED BY <1>3, <2>2, <2>3, <2>4, ImapQuiet DEF ImapSafe, ReadBack
<1> QED BY <1>6, <1>7

(* COPY or MOVE begins: the target is a folder of the account.              *)
LEMMA StartTransferSafe ==
  ASSUME IInv, NEW c \in Conn, NEW pc \in {"copy", "move"}, StartTransfer(c, pc)
  PROVE  ImapSafe
<1>1. PICK q \in ImapState : q = imap[c] /\ ImapAt(q) /\ Counts(client[c], q)
  BY ImapHas
<1>2. PICK ks \in (SUBSET Positions(c)) \ {{}}, f \in DOMAIN boxes :
       /\ boxes[f].user = imap[c].user
       /\ imap' = [imap EXCEPT ![c].pc = pc, ![c].todo = ks, ![c].dest = f]
  BY DEF StartTransfer
<1>3. PICK s : s = [q EXCEPT !.pc = pc, !.todo = ks, !.dest = f]
  OBVIOUS
<1>4. q.pc = "ready" /\ q.user # Nobody /\ ks \in SUBSET DOMAIN q.list /\ ks # {} /\ ks \in SUBSET Nat
  <2>1. Selected(c)
    BY DEF StartTransfer
  <2>2. ks \in SUBSET DOMAIN q.list /\ ks # {}
    BY <1>1, <1>2 DEF Positions
  <2> QED BY <1>1, <2>1, <2>2, SelectedIs, NamedAre
<1>5. f \in Nat /\ Refers(f, q.user)
  <2>1. nextBox \in Nat /\ f \in 1 .. nextBox - 1
    BY <1>2, ImapHas DEF StoreTypes
  <2> QED BY <1>1, <1>2, <2>1 DEF Refers
<1>6. /\ s \in ImapState /\ s.pc = pc /\ s.user = q.user /\ s.todo = ks /\ s.list = q.list /\ s.dest = f
      /\ s.moved = q.moved /\ s.kept = q.kept
  BY <1>1, <1>3, <1>4, <1>5 DEF ImapState
<1>7. imap' = [imap EXCEPT ![c] = s]
  <2>1. imap \in [Conn -> ImapState]
    BY ImapHas DEF ImapInv
  <2> QED BY <1>1, <1>2, <1>3, <2>1
<1>8. ImapAt(s) /\ Counts(client[c], s)
  BY <1>1, <1>4, <1>5, <1>6 DEF ImapAt, Counts
<1>9. StoreStep
  BY ImapHas, StoreStutters DEF StartTransfer
<1> QED BY <1>6, <1>7, <1>8, <1>9, ImapQuiet DEF ImapSafe, StartTransfer

(* One message of a COPY or MOVE.                                           *)
LEMMA CopyRowStep ==
  ASSUME IInv, NEW c \in Conn, imap[c].pc \in {"copy", "move"}, CopyRow(c), UNCHANGED << users, nextBox >>
  PROVE  StoreStep
<1>1. PICK q \in ImapState : q = imap[c] /\ ImapAt(q)
  BY ImapHas
<1>2. ImapInv /\ StoreInv /\ StoreTypes
  BY ImapHas
<1>3. CASE ~Transferable(c)
  BY <1>2, <1>3, StoreStutters DEF CopyRow, mvars
<1>4. CASE Transferable(c)
  <2>1. PICK id \in DOMAIN rows : id = Entry(c).id
    BY <1>4 DEF Transferable, Mine
  <2>2. PICK f \in DOMAIN boxes : f = q.dest
    BY <1>1, <1>4 DEF Transferable, Exists
  <2>3. boxes[f].user = q.user
    BY <1>1, <2>2 DEF ImapAt, Refers
  <2>4. PICK date \in Date : date = rows[id].date
    BY <1>2, <2>1 DEF StoreTypes, Row
  <2>5. q.todo # {}
    BY <1>1 DEF ImapAt
  <2>6. PICK fl \in SUBSET AnyFlag : fl = Entry(c).flags
    BY <1>1, <1>2, <2>5, EntryIs
  <2>7. Deliver(boxes[f].user, f, date, fl) /\ boxes[f].next <= MaxUid
    BY <1>1, <1>4, <2>1, <2>2, <2>3, <2>4, <2>6 DEF CopyRow
  <2>8. /\ asked \subseteq asked' /\ revived \subseteq revived'
        /\ asked' \cup revived' \subseteq asked \cup revived \cup {nextRow}
        /\ "Deleted" \in fl => nextRow \in asked' \cup revived'
    BY <1>4, <2>1, <2>6 DEF CopyRow
  <2> QED BY <1>2, <2>7, <2>8, DeliverStep
<1> QED BY <1>3, <1>4

(* One message of a COPY.                                                   *)
LEMMA CopyOneSafe ==
  ASSUME IInv, NEW c \in Conn, CopyOne(c)
  PROVE  ImapSafe
<1>1. PICK q \in ImapState : q = imap[c] /\ ImapAt(q) /\ Counts(client[c], q)
  BY ImapHas
<1>2. StoreStep
  BY CopyRowStep DEF CopyOne, At
<1>3. PICK s : s = OneDone(q)
  OBVIOUS
<1>4. s \in ImapState /\ ImapAt(s) /\ s.list = q.list
  BY <1>1, <1>3, OneDoneIs
<1>5. imap' = [imap EXCEPT ![c] = s]
  BY <1>1, <1>3 DEF CopyOne
<1>6. Counts(client[c], s)
  BY <1>1, <1>4 DEF Counts
<1> QED BY <1>2, <1>4, <1>5, <1>6, ImapQuiet DEF ImapSafe, CopyOne

(* One message of a MOVE: what was copied lives on, and is kept in mind.    *)
LEMMA MoveOneSafe ==
  ASSUME IInv, NEW c \in Conn, MoveOne(c)
  PROVE  ImapSafe
<1>1. PICK q \in ImapState : q = imap[c] /\ ImapAt(q) /\ Counts(client[c], q)
  BY ImapHas
<1>2. ImapInv /\ StoreInv /\ StoreTypes
  BY ImapHas
<1>3. StoreStep
  BY CopyRowStep DEF MoveOne, At
<1>4. q.pc = "move" /\ q.todo # {} /\ q.user # Nobody
  BY <1>1 DEF MoveOne, At, ImapAt
<1>5. PICK id \in Nat : id = Entry(c).id
  BY <1>1, <1>2, <1>4, EntryIs
<1>6. PICK more : more = (IF Transferable(c) THEN {id} ELSE {})
  OBVIOUS
<1>7. more \in SUBSET Nat /\ more \subseteq 1 .. nextRow - 1
  BY <1>2, <1>5, <1>6 DEF Transferable, Mine, StoreTypes
<1>8. PICK r : r = [q EXCEPT !.moved = q.moved \cup more, !.kept = q.kept \cup more]
  OBVIOUS
<1>9. /\ r \in ImapState /\ r.pc = q.pc /\ r.user = q.user /\ r.todo = q.todo /\ r.list = q.list
      /\ r.dest = q.dest /\ r.moved = q.moved \cup more /\ r.kept = q.kept \cup more
  BY <1>1, <1>7, <1>8 DEF ImapState
<1>10. ImapAt(r)
  BY <1>1, <1>7, <1>9 DEF ImapAt
<1>11. imap'[c] = IF Rest(r) # {}      THEN [r EXCEPT !.todo = Rest(r)]
                  ELSE IF r.moved # {} THEN [r EXCEPT !.pc = "delete", !.todo = {}]
                  ELSE Done(r)
  <2>1. Noted(c) = r
    <3>1. Moved(c) = q.moved \cup more
      BY <1>1, <1>5, <1>6 DEF Moved
    <3>2. (IF Transferable(c) THEN q.kept \cup {Entry(c).id} ELSE q.kept) = q.kept \cup more
      BY <1>5, <1>6
    <3> QED BY <1>1, <1>8, <3>1, <3>2 DEF Noted
  <2>2. imap \in [Conn -> ImapState]
    BY <1>2 DEF ImapInv
  <2>3. imap' = [imap EXCEPT ![c] = IF Rest(r) # {} THEN [r EXCEPT !.todo = Rest(r)]
                                    ELSE IF r.moved # {} THEN [r EXCEPT !.pc = "delete", !.todo = {}]
                                    ELSE Done(r)]
    BY <2>1 DEF MoveOne
  <2> QED BY <2>2, <2>3
<1>12. PICK s : s = imap'[c]
  OBVIOUS
<1>13. s \in ImapState /\ ImapAt(s) /\ s.list = q.list
  <2>1. CASE Rest(r) # {}
    <3>1. s = OneDone(r)
      BY <1>11, <1>12, <2>1 DEF OneDone
    <3> QED BY <1>9, <1>10, <3>1, OneDoneIs
  <2>2. CASE Rest(r) = {} /\ r.moved # {}
    <3>1. s = [r EXCEPT !.pc = "delete", !.todo = {}]
      BY <1>11, <1>12, <2>2
    <3>2. /\ s \in ImapState /\ s.pc = "delete" /\ s.user = r.user /\ s.todo = {} /\ s.list = r.list
          /\ s.moved = r.moved /\ s.kept = r.kept
      BY <1>9, <3>1 DEF ImapState
    <3> QED BY <1>4, <1>9, <1>10, <3>2 DEF ImapAt
  <2>3. CASE Rest(r) = {} /\ ~(r.moved # {})
    <3>1. s = Done(r)
      BY <1>11, <1>12, <2>3
    <3> QED BY <1>9, <3>1, DoneIs
  <2> QED BY <2>1, <2>2, <2>3
<1>14. imap' = [imap EXCEPT ![c] = s]
  BY <1>2, <1>12 DEF MoveOne, ImapInv
<1>15. Counts(client[c], s)
  BY <1>1, <1>13 DEF Counts
<1> QED BY <1>3, <1>13, <1>14, <1>15, ImapQuiet DEF ImapSafe, MoveOne

(* The end of EXPUNGE and MOVE: client and session drop the same messages,  *)
(* or the client is misled.                                                 *)
LEMMA ReportSafe ==
  ASSUME IInv, NEW c \in Conn, NEW ids, Report(c, ids), StoreStep
  PROVE  ImapInv'
<1>1. PICK q \in ImapState : q = imap[c] /\ ImapAt(q) /\ Counts(client[c], q)
  BY ImapHas
<1>2. PICK list \in Seq(Entry0) : list = q.list
  BY <1>1, ImapFields
<1>3. PICK u \in ClientState : u = client[c]
  BY ImapHas
<1>4. PICK view \in Seq(Nat) : view = u.view
  BY <1>3 DEF ClientState
<1>5. PICK ks : ks = {k \in DOMAIN list : list[k].id \in ids}
  OBVIOUS
<1>6. NumbersOf(c, ids) = ks
  BY <1>1, <1>2, <1>5 DEF NumbersOf, Positions
<1>7. Kept(list, ids) \in Seq(Entry0) /\ Heard(view, ks) \in Seq(Nat)
  BY <1>2, <1>4, LeaveIs DEF Kept, Heard
<1>8. PICK kept \in Seq(Entry0) : kept = Kept(list, ids)
  BY <1>7
<1>9. PICK heard \in Seq(Nat) : heard = Heard(view, ks)
  BY <1>7
<1>10. PICK wrong \in BOOLEAN : wrong = (u.misled \/ Cardinality(ks) > 1)
  BY Zenon
<1>11. PICK r : r = [q EXCEPT !.list = kept]
  OBVIOUS
<1>12. r \in ImapState /\ r.list = kept
  BY <1>1, <1>8, <1>11 DEF ImapState
<1>13. PICK s : s = Done(r)
  OBVIOUS
<1>14. s \in ImapState /\ ImapAt(s) /\ s.list = kept
  BY <1>12, <1>13, DoneIs
<1>15. PICK v : v = [view |-> heard, misled |-> wrong]
  OBVIOUS
<1>16. v \in ClientState /\ v.view = heard /\ v.misled = wrong
  BY <1>9, <1>10, <1>15 DEF ClientState
<1>17. imap' = [imap EXCEPT ![c] = s]
  <2>1. Reported(q, ids) = s
    BY <1>2, <1>8, <1>11, <1>13 DEF Reported
  <2>2. imap' = [imap EXCEPT ![c] = Reported(imap[c], ids)]
    BY DEF Report
  <2> QED BY <1>1, <2>1, <2>2
<1>18. client' = [client EXCEPT ![c] = v]
  BY <1>3, <1>4, <1>6, <1>9, <1>10, <1>15 DEF Report
<1>19. Counts(v, s)
  <2>1. CASE wrong
    BY <1>16, <2>1 DEF Counts
  <2>2. CASE ~wrong
    <3>1. ~u.misled /\ ~(Cardinality(ks) > 1)
      BY <1>10, <2>2
    <3>2. IsPrefix(view, Ids(list))
      BY <1>1, <1>2, <1>3, <1>4, <3>1 DEF Counts
    <3>3. IsPrefix(heard, Ids(kept))
      BY <1>4, <1>5, <1>8, <1>9, <3>1, <3>2, ReportOne
    <3> QED BY <1>14, <1>16, <3>3 DEF Counts
  <2> QED BY <2>1, <2>2
<1> QED BY <1>14, <1>16, <1>17, <1>18, <1>19, ImapSteps

(* The end of a MOVE: what it removes lives on as a copy.                   *)
LEMMA DeleteMovedSafe ==
  ASSUME IInv, NEW c \in Conn, DeleteMoved(c)
  PROVE  ImapSafe
<1>1. PICK q \in ImapState : q = imap[c] /\ ImapAt(q)
  BY ImapHas
<1>2. ImapInv /\ StoreInv /\ StoreTypes /\ AskedKnown
  BY ImapHas
<1>3. PICK ids : ids = Mine(q.user, q.moved)
  OBVIOUS
<1>4. rows' = Without(rows, ids) /\ asked' = asked \cup q.kept
  BY <1>1, <1>3 DEF DeleteMoved, DeleteMessages
<1>5. ids \subseteq q.kept /\ q.kept \subseteq 1 .. nextRow - 1
  BY <1>1, <1>3 DEF Mine, ImapAt
<1>6. UNCHANGED << users, boxes, nextBox, nextRow, revived >>
  BY DEF DeleteMoved
<1>7. StoreStep
  <2>1. /\ ids \cap DOMAIN rows \subseteq asked \cup asked' \cup revived
        /\ asked \subseteq asked' /\ asked' \subseteq 1 .. nextRow - 1
    BY <1>2, <1>4, <1>5 DEF AskedKnown
  <2> QED BY <1>2, <1>4, <1>6, <2>1, RemoveStep
<1>8. Report(c, imap[c].moved)
  BY DEF DeleteMoved
<1> QED BY <1>7, <1>8, ReportSafe DEF ImapSafe

(* EXPUNGE flags in the table what the copy shows as deleted; where the     *)
(* table says otherwise, an old copy revives a request.                     *)
LEMMA StartExpungeSafe ==
  ASSUME IInv, NEW c \in Conn, StartExpunge(c)
  PROVE  ImapSafe
<1>1. PICK q \in ImapState : q = imap[c] /\ ImapAt(q) /\ Counts(client[c], q)
  BY ImapHas
<1>2. ImapInv /\ StoreInv /\ StoreTypes /\ AskedKnown /\ DeletedAsked
  BY ImapHas
<1>3. PICK ks \in SUBSET Positions(c) :
       LET doomed == Doomed(c, ks)
           mine   == Mine(imap[c].user, IdsAt(c, doomed))
       IN /\ doomed # {}
          /\ Begin(c, "expunge", doomed)
          /\ SetFlags(imap[c].user, IdsAt(c, doomed), "add", {"Deleted"})
          /\ revived' = revived \cup {m \in mine : "Deleted" \notin rows[m].flags
                                        /\ \E k \in Positions(c) : /\ imap[c].list[k].id = m
                                                                   /\ "Deleted" \in imap[c].list[k].flags}
  BY DEF StartExpunge
<1>4. PICK doomed : doomed = Doomed(c, ks)
  OBVIOUS
<1>5. PICK mine : mine = Mine(q.user, IdsAt(c, doomed))
  OBVIOUS
<1>6. PICK fl \in SUBSET AnyFlag : fl = {"Deleted"}
  BY MailboxNobody DEF AnyFlag
<1>7. mine \subseteq DOMAIN rows
  BY <1>5 DEF Mine
<1>8. \A m \in mine : \E k \in Positions(c) : imap[c].list[k].id = m /\ "Deleted" \in imap[c].list[k].flags
  BY <1>3, <1>4, <1>5 DEF Mine, IdsAt, Doomed
<1>9. rows' = Flagged(rows, mine, "add", fl)
  BY <1>1, <1>3, <1>4, <1>5, <1>6 DEF SetFlags
<1>10. revived' = revived \cup {m \in mine : "Deleted" \notin rows[m].flags}
  BY <1>1, <1>3, <1>4, <1>5, <1>8
<1>11. UNCHANGED << users, boxes, nextBox, nextRow, asked, client >>
  BY DEF StartExpunge
<1>12. StoreStep
  <2>1. asked' \cup revived' \subseteq 1 .. nextRow - 1
    BY <1>2, <1>7, <1>10, <1>11 DEF AskedKnown, StoreTypes
  <2>2. \A m \in DOMAIN rows \ mine : m \in asked \cup revived => m \in asked' \cup revived'
    BY <1>10, <1>11
  <2>3. \A m \in mine : m \in asked' \cup revived'
    BY <1>2, <1>7, <1>10, <1>11 DEF DeletedAsked
  <2> QED BY <1>2, <1>9, <1>11, <2>1, <2>2, <2>3, FlagStep
<1>13. q.pc = "ready" /\ q.user # Nobody
  BY <1>1, SelectedIs DEF StartExpunge
<1>14. doomed \in SUBSET DOMAIN q.list /\ doomed \in SUBSET Nat
  <2>1. doomed \in SUBSET DOMAIN q.list
    BY <1>1, <1>3, <1>4 DEF Doomed, Positions
  <2> QED BY <1>1, <2>1, NamedAre
<1>15. PICK s : s = [q EXCEPT !.pc = "expunge", !.todo = doomed]
  OBVIOUS
<1>16. /\ s \in ImapState /\ s.pc = "expunge" /\ s.user = q.user /\ s.todo = doomed /\ s.list = q.list
       /\ s.moved = q.moved /\ s.kept = q.kept
  BY <1>1, <1>14, <1>15 DEF ImapState
<1>17. imap' = [imap EXCEPT ![c] = s]
  <2>1. imap \in [Conn -> ImapState]
    BY <1>2 DEF ImapInv
  <2> QED BY <1>1, <1>3, <1>4, <1>15, <2>1 DEF Begin
<1>18. ImapAt(s) /\ Counts(client[c], s)
  BY <1>1, <1>13, <1>14, <1>16 DEF ImapAt, Counts
<1> QED BY <1>11, <1>12, <1>16, <1>17, <1>18, ImapQuiet DEF ImapSafe

(* The folder is expunged of what is flagged in it, all of it asked for.    *)
LEMMA ExpungeStep ==
  ASSUME StoreInv, NEW f, ExpungeFolder(f),
         UNCHANGED << users, boxes, nextBox, nextRow, asked, revived >>
  PROVE  StoreStep
<1>1. DeletedAsked /\ AskedKnown
  BY DEF StoreInv
<1>2. PICK ids : ids = Deleted(f)
  OBVIOUS
<1>3. /\ rows' = Without(rows, ids)
      /\ ids \cap DOMAIN rows \subseteq asked \cup asked' \cup revived
      /\ asked \subseteq asked' /\ asked' \subseteq 1 .. nextRow - 1
  BY <1>1, <1>2 DEF ExpungeFolder, Deleted, In, DeletedAsked, AskedKnown
<1> QED BY <1>3, RemoveStep

(* EXPUNGE ends.                                                            *)
LEMMA ExpungeSafe ==
  ASSUME IInv, NEW c \in Conn, Expunge(c)
  PROVE  ImapSafe
<1>1. StoreStep
  BY ImapHas, ExpungeStep DEF Expunge
<1>2. Report(c, IdsAt(c, imap[c].todo))
  BY DEF Expunge
<1> QED BY <1>1, <1>2, ReportSafe DEF ImapSafe

(* Every step of an IMAP session.                                           *)
LEMMA ImapStepSafe ==
  ASSUME IInv, NEW c \in Conn, ImapStep(c, Names)
  PROVE  ImapSafe
<1>1. ASSUME NEW u \in User, Login(c, u) PROVE ImapSafe
  BY <1>1, LoginSafe
<1>2. ASSUME NEW name \in Names, Create(c, name) \/ Rename(c, name) PROVE ImapSafe
  BY <1>2, CreateSafe, RenameSafe
<1>3. ASSUME NEW pc \in {"copy", "move"}, StartTransfer(c, pc) PROVE ImapSafe
  BY <1>3, StartTransferSafe
<1>4. ASSUME Logout(c) \/ Select(c) \/ Unselect(c) \/ Delete(c) \/ AppendMessage(c) PROVE ImapSafe
  BY <1>4, LogoutSafe, SelectSafe, UnselectSafe, DeleteSafe, AppendSafe
<1>5. ASSUME StartFetch(c) \/ FetchOne(c) \/ StartStore(c) \/ StoreOne(c) \/ ReadBack(c) PROVE ImapSafe
  BY <1>5, StartFetchSafe, FetchOneSafe, StartStoreSafe, StoreOneSafe, ReadBackSafe
<1>6. ASSUME CopyOne(c) \/ MoveOne(c) \/ DeleteMoved(c) \/ StartExpunge(c) \/ Expunge(c) PROVE ImapSafe
  BY <1>6, CopyOneSafe, MoveOneSafe, DeleteMovedSafe, StartExpungeSafe, ExpungeSafe
<1> QED BY <1>1, <1>2, <1>3, <1>4, <1>5, <1>6 DEF ImapStep

-----------------------------------------------------------------------------
(* POP3.                                                                    *)

(* What an action of a POP3 connection is shown to do.                      *)
PopSafe == StoreStep /\ PopInv'
PopMsg  == [id : Nat, deleted : BOOLEAN]

(* What the invariant says of one connection.                               *)
LEMMA PopHas ==
  ASSUME IInv, NEW c \in Conn
  PROVE  /\ pop[c] \in PopState /\ PopAt(pop[c]) /\ pop \in [Conn -> PopState] /\ PopInv
         /\ StoreInv /\ StoreTypes /\ DeletedAsked /\ AskedKnown
BY DEF IInv, PopInv, StoreInv

(* The fields of a connection.                                              *)
LEMMA PopFields ==
  ASSUME NEW s \in PopState
  PROVE  /\ s.pc \in {"auth", "load", "quit"} /\ s.last \in Who /\ s.user \in Who /\ s.msgs \in Seq(PopMsg)
         /\ s.dirty \in BOOLEAN /\ s.box \in Nat /\ s.todo \in SUBSET Nat /\ s.wanted \in SUBSET Nat
BY DEF PopState, PopMsg

(* A connection that was just opened.                                       *)
LEMMA NoPopIs == NoPop \in PopState /\ PopAt(NoPop)
<1>1. PICK s : s = NoPop
  OBVIOUS
<1>2. s \in PopState /\ s.msgs = << >> /\ s.pc = "auth"
  BY <1>1 DEF NoPop, PopState, Who
<1> QED BY <1>1, <1>2 DEF PopAt

(* A step that changes nothing but the connection.                          *)
LEMMA PopQuiet ==
  ASSUME IInv, NEW c \in Conn, NEW s \in PopState, PopAt(s), pop' = [pop EXCEPT ![c] = s],
         UNCHANGED << mvars, revived >>
  PROVE  PopSafe
<1>1. StoreStep
  BY PopHas, StoreStutters
<1>2. PopInv'
  BY PopHas, PopOne
<1> QED BY <1>1, <1>2 DEF PopSafe

(* USER keeps the copy of the mailbox, and what the client wants of it.     *)
LEMMA UserSafe ==
  ASSUME IInv, NEW c \in Conn, UserCmd(c), UNCHANGED revived
  PROVE  PopSafe
<1>1. PICK q \in PopState : q = pop[c] /\ PopAt(q)
  BY PopHas
<1>2. PICK u \in User : pop' = [pop EXCEPT ![c].user = Nobody, ![c].last = u]
  BY DEF UserCmd
<1>3. PICK s : s = [q EXCEPT !.user = Nobody, !.last = u]
  OBVIOUS
<1>4. s \in PopState /\ s.msgs = q.msgs /\ s.pc = q.pc /\ s.wanted = q.wanted /\ s.todo = q.todo
  BY <1>1, <1>3 DEF PopState, Who
<1>5. pop' = [pop EXCEPT ![c] = s]
  BY <1>1, <1>2, <1>3, PopHas
<1>6. PopAt(s)
  BY <1>1, <1>4 DEF PopAt
<1> QED BY <1>4, <1>5, <1>6, PopQuiet DEF UserCmd

(* PASS.                                                                    *)
LEMMA PassSafe ==
  ASSUME IInv, NEW c \in Conn, Pass(c), UNCHANGED revived
  PROVE  PopSafe
<1>1. PICK q \in PopState : q = pop[c] /\ PopAt(q)
  BY PopHas
<1>2. PICK s : s = [q EXCEPT !.user = q.last, !.pc = "load"]
  OBVIOUS
<1>3. s \in PopState /\ s.msgs = q.msgs /\ s.pc = "load" /\ s.wanted = q.wanted
  BY <1>1, <1>2, PopFields DEF PopState
<1>4. pop' = [pop EXCEPT ![c] = s]
  BY <1>1, <1>2, PopHas DEF Pass
<1>5. PopAt(s)
  BY <1>1, <1>3 DEF PopAt
<1> QED BY <1>3, <1>4, <1>5, PopQuiet DEF Pass

(* loadMailbox: nothing is marked in a new copy.                            *)
LEMMA LoadSafe ==
  ASSUME IInv, NEW c \in Conn, LoadMailbox(c), UNCHANGED revived
  PROVE  PopSafe
<1>1. PICK q \in PopState : q = pop[c] /\ PopAt(q)
  BY PopHas
<1>2. CASE pop' = [pop EXCEPT ![c].pc = "auth"]
  <2>1. PICK s : s = [q EXCEPT !.pc = "auth"]
    OBVIOUS
  <2>2. s \in PopState /\ s.msgs = q.msgs /\ s.pc = "auth" /\ s.wanted = q.wanted
    BY <1>1, <2>1 DEF PopState
  <2>3. pop' = [pop EXCEPT ![c] = s]
    BY <1>1, <1>2, <2>1, PopHas
  <2>4. PopAt(s)
    BY <1>1, <2>2 DEF PopAt
  <2> QED BY <2>2, <2>3, <2>4, PopQuiet DEF LoadMailbox
<1>3. ASSUME NEW f, NEW page \in Pages(f, LoadLimit, FALSE),
             pop' = [pop EXCEPT ![c].pc = "auth", ![c].wanted = {},
                       ![c].msgs = [k \in DOMAIN page |-> [id |-> page[k], deleted |-> FALSE]]]
      PROVE  PopSafe
  <2>1. page \in Seq(In(f)) /\ In(f) \subseteq Nat
    <3>1. StoreTypes /\ FALSE \in BOOLEAN
      BY PopHas
    <3> QED BY <3>1, Zenon, PageIs
  <2>2. page \in Seq(Nat)
    BY <2>1
  <2>3. PICK msgs : msgs = [k \in DOMAIN page |-> [id |-> page[k], deleted |-> FALSE]]
    OBVIOUS
  <2>4. msgs \in Seq(PopMsg) /\ \A k \in DOMAIN msgs : ~msgs[k].deleted
    <3>1. \A T : page \in Seq(T) => DOMAIN page = 1 .. Len(page) /\ Len(page) \in Nat /\ \A k \in DOMAIN page : page[k] \in T
      OBVIOUS
    <3>2. \A k \in 1 .. Len(page) : [id |-> page[k], deleted |-> FALSE] \in PopMsg
      BY <2>2, <3>1 DEF PopMsg
    <3>3. msgs = [k \in 1 .. Len(page) |-> [id |-> page[k], deleted |-> FALSE]] /\ Len(page) \in Nat
      BY <2>2, <2>3, <3>1
    <3>4. msgs \in [1 .. Len(page) -> PopMsg]
      BY <3>2, <3>3
    <3>5. \A k \in DOMAIN msgs : ~msgs[k].deleted
      BY <2>3
    <3>6. PICK n \in Nat : n = Len(page)
      BY <3>3
    <3>7. msgs \in Seq(PopMsg)
      <4>1. msgs \in [1 .. n -> PopMsg]
        BY <3>4, <3>6
      <4> QED BY <4>1
    <3> QED BY <3>5, <3>7
  <2>5. PICK s : s = [q EXCEPT !.pc = "auth", !.wanted = {}, !.msgs = msgs]
    OBVIOUS
  <2>6. s \in PopState /\ s.msgs = msgs /\ s.pc = "auth"
    BY <1>1, <2>4, <2>5 DEF PopState, PopMsg
  <2>7. pop' = [pop EXCEPT ![c] = s]
    BY <1>1, <1>3, <2>3, <2>5, PopHas
  <2>8. PopAt(s)
    BY <2>4, <2>6 DEF PopAt
  <2> QED BY <2>6, <2>7, <2>8, PopQuiet DEF LoadMailbox
<1> QED BY <1>2, <1>3 DEF LoadMailbox

(* DELE marks a message the client wants deleted.                           *)
LEMMA DeleSafe ==
  ASSUME IInv, NEW c \in Conn, Dele(c), UNCHANGED revived
  PROVE  PopSafe
<1>1. PICK q \in PopState : q = pop[c] /\ PopAt(q)
  BY PopHas
<1>2. PICK k \in Numbers(c) :
       pop' = [pop EXCEPT ![c].msgs[k].deleted = TRUE, ![c].dirty = TRUE,
                          ![c].wanted = @ \cup {pop[c].msgs[k].id}]
  BY DEF Dele
<1>3. PICK a \in Seq(PopMsg) : a = q.msgs
  BY <1>1, PopFields
<1>4. k \in DOMAIN a /\ a[k] \in PopMsg
  <2>1. \A T : a \in Seq(T) => \A i \in DOMAIN a : a[i] \in T
    OBVIOUS
  <2> QED BY <1>1, <1>2, <1>3, <2>1 DEF Numbers
<1>5. PICK e : e = [a[k] EXCEPT !.deleted = TRUE]
  OBVIOUS
<1>6. e \in PopMsg /\ e.id = a[k].id
  BY <1>4, <1>5 DEF PopMsg
<1>7. PICK b : b = [a EXCEPT ![k] = e]
  OBVIOUS
<1>8. b \in Seq(PopMsg) /\ DOMAIN b = DOMAIN a /\ b[k] = e /\ \A i \in DOMAIN a : i # k => b[i] = a[i]
  BY <1>4, <1>6, <1>7
<1>9. PICK s : s = [q EXCEPT !.msgs = b, !.dirty = TRUE, !.wanted = q.wanted \cup {a[k].id}]
  OBVIOUS
<1>10. a[k].id \in Nat
  BY <1>4 DEF PopMsg
<1>11. s \in PopState /\ s.msgs = b /\ s.pc = q.pc /\ s.wanted = q.wanted \cup {a[k].id} /\ q.pc = "auth"
  BY <1>1, <1>8, <1>9, <1>10 DEF PopState, PopMsg, Dele
<1>12. pop' = [pop EXCEPT ![c] = s]
  BY <1>1, <1>2, <1>3, <1>5, <1>7, <1>9, PopHas
<1>13. PopAt(s)
  BY <1>1, <1>3, <1>6, <1>8, <1>11 DEF PopAt
<1> QED BY <1>11, <1>12, <1>13, PopQuiet DEF Dele

(* RSET takes every mark back.                                              *)
LEMMA RsetSafe ==
  ASSUME IInv, NEW c \in Conn, Rset(c), UNCHANGED revived
  PROVE  PopSafe
<1>1. PICK q \in PopState : q = pop[c] /\ PopAt(q)
  BY PopHas
<1>2. PICK a \in Seq(PopMsg) : a = q.msgs
  BY <1>1, PopFields
<1>3. PICK b : b = Restored(a)
  OBVIOUS
<1>4. b = [k \in DOMAIN a |-> [a[k] EXCEPT !.deleted = FALSE]]
  BY <1>3 DEF Restored
<1>5. \A k \in DOMAIN a : a[k] \in PopMsg
  <2>1. \A T : a \in Seq(T) => \A i \in DOMAIN a : a[i] \in T
    OBVIOUS
  <2> QED BY <2>1
<1>6. \A k \in DOMAIN a : b[k] \in PopMsg /\ ~b[k].deleted
  BY <1>4, <1>5 DEF PopMsg
<1>7. b \in Seq(PopMsg) /\ DOMAIN b = DOMAIN a
  BY <1>4, <1>6
<1>8. PICK s : s = [q EXCEPT !.msgs = b, !.dirty = FALSE, !.wanted = {}]
  OBVIOUS
<1>9. s \in PopState /\ s.msgs = b /\ s.pc = q.pc /\ q.pc = "auth"
  BY <1>1, <1>7, <1>8 DEF PopState, PopMsg, Rset
<1>10. pop' = [pop EXCEPT ![c] = s]
  BY <1>1, <1>2, <1>3, <1>8, PopHas DEF Rset
<1>11. PopAt(s)
  BY <1>6, <1>7, <1>9 DEF PopAt
<1> QED BY <1>9, <1>10, <1>11, PopQuiet DEF Rset

(* QUIT goes through the marked messages, or ends the session.              *)
LEMMA QuitSafe ==
  ASSUME IInv, NEW c \in Conn, Quit(c), UNCHANGED revived
  PROVE  PopSafe
<1>1. PICK q \in PopState : q = pop[c] /\ PopAt(q)
  BY PopHas
<1>2. CASE pop' = [pop EXCEPT ![c] = NoPop]
  BY <1>2, NoPopIs, PopQuiet DEF Quit
<1>3. ASSUME NEW f \in FolderByName(pop[c].user, "INBOX"),
             pop' = [pop EXCEPT ![c].pc = "quit", ![c].box = f,
                      ![c].todo = DOMAIN pop[c].msgs \ Numbers(c)]
      PROVE  PopSafe
  <2>1. PICK todo : todo = DOMAIN q.msgs \ Numbers(c)
    OBVIOUS
  <2>2. PICK a \in Seq(PopMsg) : a = q.msgs
    BY <1>1, PopFields
  <2>3. todo \in SUBSET Nat /\ todo \subseteq {k \in DOMAIN q.msgs : q.msgs[k].deleted}
    <3>1. todo \in SUBSET DOMAIN a
      BY <2>1, <2>2
    <3> QED BY <1>1, <2>1, <2>2, <3>1, PositionsAre DEF Numbers
  <2>4. f \in Nat
    BY PopHas DEF FolderByName, StoreTypes
  <2>5. PICK s : s = [q EXCEPT !.pc = "quit", !.box = f, !.todo = todo]
    OBVIOUS
  <2>6. s \in PopState /\ s.msgs = q.msgs /\ s.todo = todo /\ s.wanted = q.wanted
    BY <1>1, <2>3, <2>4, <2>5 DEF PopState
  <2>7. pop' = [pop EXCEPT ![c] = s]
    BY <1>1, <1>3, <2>1, <2>5, PopHas
  <2>8. PopAt(s)
    BY <1>1, <2>3, <2>6 DEF PopAt
  <2> QED BY <2>6, <2>7, <2>8, PopQuiet DEF Quit
<1> QED BY <1>2, <1>3 DEF Quit

(* QUIT flags a marked message: the client wanted that one deleted.         *)
LEMMA FlagMarkedSafe ==
  ASSUME IInv, NEW c \in Conn, FlagMarked(c), UNCHANGED revived
  PROVE  PopSafe
<1>1. PICK q \in PopState : q = pop[c] /\ PopAt(q)
  BY PopHas
<1>2. StoreInv /\ StoreTypes /\ AskedKnown /\ DeletedAsked /\ PopInv
  BY PopHas
<1>3. q.pc = "quit" /\ q.todo # {}
  BY <1>1 DEF FlagMarked
<1>4. PICK a \in Seq(PopMsg) : a = q.msgs
  BY <1>1, PopFields
<1>5. q.todo \in SUBSET DOMAIN a
  BY <1>1, <1>3, <1>4 DEF PopAt
<1>6. Min(q.todo) \in q.todo /\ q.todo \in SUBSET Nat
  BY <1>3, <1>5, PositionsAre
<1>7. PICK id : id = q.msgs[Min(q.todo)].id
  OBVIOUS
<1>8. id \in q.wanted
  BY <1>1, <1>3, <1>6, <1>7 DEF PopAt
<1>9. PICK ids : ids = Mine(q.user, {id})
  OBVIOUS
<1>10. ids \subseteq DOMAIN rows /\ ids \subseteq q.wanted
  BY <1>8, <1>9 DEF Mine
<1>11. PICK fl \in SUBSET AnyFlag : fl = {"Deleted"}
  BY MailboxNobody DEF AnyFlag
<1>12. rows' = Flagged(rows, ids, "add", fl) /\ asked' = asked \cup ids
  BY <1>1, <1>7, <1>9, <1>10, <1>11 DEF FlagMarked, SetFlags
<1>13. StoreStep
  <2>1. asked' \cup revived' \subseteq 1 .. nextRow - 1
    BY <1>2, <1>10, <1>12 DEF AskedKnown, StoreTypes
  <2>2. \A m \in DOMAIN rows \ ids : m \in asked \cup revived => m \in asked' \cup revived'
    BY <1>12
  <2>3. \A m \in ids : m \in asked' \cup revived'
    BY <1>12
  <2>4. UNCHANGED << users, boxes, nextBox, nextRow >>
    BY DEF FlagMarked
  <2> QED BY <1>2, <1>12, <2>1, <2>2, <2>3, <2>4, FlagStep
<1>14. PICK todo : todo = q.todo \ {Min(q.todo)}
  OBVIOUS
<1>15. PICK s : s = [q EXCEPT !.todo = todo]
  OBVIOUS
<1>16. s \in PopState /\ s.msgs = q.msgs /\ s.todo = todo /\ s.wanted = q.wanted /\ s.pc = q.pc
  BY <1>1, <1>6, <1>14, <1>15 DEF PopState
<1>17. PopAt(s)
  BY <1>1, <1>14, <1>16 DEF PopAt
<1>18. pop' = [pop EXCEPT ![c] = s]
  BY <1>1, <1>14, <1>15 DEF FlagMarked
<1>19. PopInv'
  BY <1>2, <1>16, <1>17, <1>18, PopOne
<1> QED BY <1>13, <1>19 DEF PopSafe

(* QUIT expunges INBOX.                                                     *)
LEMMA ExpungeInboxSafe ==
  ASSUME IInv, NEW c \in Conn, ExpungeInbox(c), UNCHANGED revived
  PROVE  PopSafe
<1>1. StoreStep
  BY PopHas, ExpungeStep DEF ExpungeInbox
<1>2. PopInv'
  BY PopHas, NoPopIs, PopOne DEF ExpungeInbox
<1> QED BY <1>1, <1>2 DEF PopSafe

(* The connection breaks.                                                   *)
LEMMA HangUpSafe ==
  ASSUME IInv, NEW c \in Conn, HangUp(c), UNCHANGED revived
  PROVE  PopSafe
BY NoPopIs, PopQuiet DEF HangUp

(* Every step of a POP3 connection.                                         *)
LEMMA PopStepSafe ==
  ASSUME IInv, NEW c \in Conn, Pop3Step(c), UNCHANGED revived
  PROVE  PopSafe
BY UserSafe, PassSafe, LoadSafe, DeleSafe, RsetSafe, QuitSafe, FlagMarkedSafe, ExpungeInboxSafe,
   HangUpSafe DEF Pop3Step

-----------------------------------------------------------------------------
(* SMTP.                                                                    *)

(* What an action of an SMTP session is shown to do.                        *)
SmtpSafe == StoreStep /\ SmtpInv'

(* What the invariant says of one session.                                  *)
LEMMA SmtpHas ==
  ASSUME IInv, NEW c \in Conn
  PROVE  /\ smtp[c] \in SmtpState /\ given[c] \in SUBSET Who /\ copied[c] \in SUBSET Who
         /\ dropped[c] \in SUBSET Who /\ answer[c] \in Said
         /\ SmtpAt(smtp[c], given[c], copied[c], dropped[c], answer[c])
         /\ Answered(given[c], copied[c], dropped[c], answer[c])
         /\ smtp \in [Conn -> SmtpState] /\ given \in [Conn -> SUBSET Who]
         /\ copied \in [Conn -> SUBSET Who] /\ dropped \in [Conn -> SUBSET Who] /\ answer \in [Conn -> Said] /\ SmtpInv
         /\ StoreInv /\ StoreTypes /\ DeletedAsked /\ AskedKnown
BY DEF IInv, SmtpInv, StoreInv

(* The session of c, its histories, and what is known of them.              *)
At5(c, q, gave, made, bad, said) ==
  /\ q = smtp[c] /\ gave = given[c] /\ made = copied[c] /\ bad = dropped[c] /\ said = answer[c]
  /\ SmtpAt(q, gave, made, bad, said) /\ Answered(gave, made, bad, said)

(* Its values, named.                                                       *)
LEMMA SmtpIs ==
  ASSUME IInv, NEW c \in Conn
  PROVE  \E q \in SmtpState, gave \in SUBSET Who, made \in SUBSET Who, bad \in SUBSET Who, said \in Said :
            At5(c, q, gave, made, bad, said)
BY SmtpHas DEF At5

(* The fields of a session.                                                 *)
LEMMA SmtpFields ==
  ASSUME NEW s \in SmtpState
  PROVE  /\ s.pc \in {"ready", "data", "filter", "sent"} /\ s.user \in Who /\ s.from \in BOOLEAN
         /\ s.rcpts \in Seq(RcptRow) /\ s.todo \in SUBSET Nat /\ s.fresh \in Nat /\ s.anyOK \in BOOLEAN
BY DEF SmtpState

(* Its recipients, and the first of some of them.                           *)
LEMMA RcptsAre ==
  ASSUME NEW s \in SmtpState
  PROVE  /\ \A k \in DOMAIN s.rcpts : /\ s.rcpts[k] \in RcptRow /\ s.rcpts[k].user \in Who
                                      /\ s.rcpts[k].box \in Nat
         /\ \A ks \in SUBSET DOMAIN s.rcpts : ks \in SUBSET Nat /\ (ks # {} => Min(ks) \in ks)
<1>1. PICK a \in Seq(RcptRow) : a = s.rcpts
  BY SmtpFields
<1>2. \A T : a \in Seq(T) => \A i \in DOMAIN a : a[i] \in T
  OBVIOUS
<1>3. \A k \in DOMAIN a : a[k] \in RcptRow
  BY <1>2
<1>4. \A ks \in SUBSET DOMAIN a : ks \in SUBSET Nat /\ (ks # {} => Min(ks) \in ks)
  BY PositionsAre
<1> QED BY <1>1, <1>3, <1>4 DEF RcptRow

(* A step after which the session and its histories are s, gave, made, bad, said. *)
LEMMA SmtpSteps ==
  ASSUME IInv, StoreStep, NEW c \in Conn, NEW s \in SmtpState, NEW gave \in SUBSET Who,
         NEW made \in SUBSET Who, NEW bad \in SUBSET Who, NEW said \in Said,
         smtp' = [smtp EXCEPT ![c] = s], given' = [given EXCEPT ![c] = gave],
         copied' = [copied EXCEPT ![c] = made], dropped' = [dropped EXCEPT ![c] = bad],
         answer' = [answer EXCEPT ![c] = said],
         SmtpAt(s, gave, made, bad, said), Answered(gave, made, bad, said)
  PROVE  SmtpSafe
<1>1. StoreTypes /\ Later /\ SmtpInv
  BY SmtpHas DEF StoreStep
<1>2. SmtpAt(s, gave, made, bad, said)' /\ Answered(gave, made, bad, said)'
  BY <1>1, SmtpAtLater, AnsweredLater
<1> QED BY <1>1, <1>2, SmtpOne DEF SmtpSafe

(* The transaction forgotten.                                               *)
LEMMA ForgottenIs ==
  ASSUME NEW q \in SmtpState
  PROVE  LET s == Forgotten(q)
         IN /\ s \in SmtpState /\ ~s.from /\ s.rcpts = << >> /\ s.pc = q.pc
<1>1. PICK s : s = [q EXCEPT !.from = FALSE, !.rcpts = << >>]
  OBVIOUS
<1>2. << >> \in Seq(RcptRow)
  OBVIOUS
<1>3. s \in SmtpState /\ ~s.from /\ s.rcpts = << >> /\ s.pc = q.pc
  BY <1>1, <1>2 DEF SmtpState
<1> QED BY <1>1, <1>3 DEF Forgotten

(* AUTH.                                                                    *)
LEMMA AuthSafe ==
  ASSUME IInv, NEW c \in Conn, Auth(c), UNCHANGED revived
  PROVE  SmtpSafe
<1>1. PICK q \in SmtpState, gave \in SUBSET Who, made \in SUBSET Who, bad \in SUBSET Who, said \in Said :
         At5(c, q, gave, made, bad, said)
  BY SmtpIs
<1>2. PICK u \in users : smtp' = [smtp EXCEPT ![c].user = u]
  BY DEF Auth
<1>3. u \in Who
  BY SmtpHas DEF StoreTypes, Who
<1>4. PICK s : s = [q EXCEPT !.user = u]
  OBVIOUS
<1>5. /\ s \in SmtpState /\ s.pc = q.pc /\ s.from = q.from /\ s.rcpts = q.rcpts /\ s.todo = q.todo
      /\ s.fresh = q.fresh /\ s.anyOK = q.anyOK
  BY <1>1, <1>3, <1>4 DEF SmtpState
<1>6. SmtpAt(s, gave, made, bad, said) /\ Answered(gave, made, bad, said)
  <2>1. RcptsAt(s)
    BY <1>1, <1>5 DEF SmtpAt, RcptsAt, At5
  <2>2. MailAt(s, gave, made, bad, said)
    BY <1>1, <1>5 DEF SmtpAt, MailAt, At5
  <2>3. DataAt(s, made, bad)
    BY <1>1, <1>5 DEF SmtpAt, DataAt, At5
  <2> QED BY <1>1, <2>1, <2>2, <2>3 DEF SmtpAt, At5
<1>7. /\ smtp' = [smtp EXCEPT ![c] = s] /\ given' = [given EXCEPT ![c] = gave]
      /\ copied' = [copied EXCEPT ![c] = made] /\ dropped' = [dropped EXCEPT ![c] = bad]
      /\ answer' = [answer EXCEPT ![c] = said]
  BY <1>1, <1>2, <1>4, SmtpHas DEF Auth, At5
<1>8. StoreStep
  BY SmtpHas, StoreStutters DEF Auth
<1> QED BY <1>1, <1>5, <1>6, <1>7, <1>8, SmtpSteps

(* MAIL starts a transaction with nobody in it.                             *)
LEMMA MailSafe ==
  ASSUME IInv, NEW c \in Conn, Mail(c), UNCHANGED revived
  PROVE  SmtpSafe
<1>1. PICK q \in SmtpState, gave \in SUBSET Who, made \in SUBSET Who, bad \in SUBSET Who, said \in Said :
         At5(c, q, gave, made, bad, said)
  BY SmtpIs
<1>2. PICK s : s = [q EXCEPT !.from = TRUE]
  OBVIOUS
<1>3. /\ s \in SmtpState /\ s.pc = "ready" /\ s.from /\ s.rcpts = << >>
  BY <1>1, <1>2 DEF SmtpState, SmtpAt, RcptsAt, MailAt, DataAt, At5, Mail
<1>4. SmtpAt(s, {}, {}, {}, "none") /\ Answered({}, {}, {}, "none")
  BY <1>3 DEF SmtpAt, RcptsAt, MailAt, DataAt, Answered
<1>5. /\ smtp' = [smtp EXCEPT ![c] = s] /\ given' = [given EXCEPT ![c] = {}]
      /\ copied' = [copied EXCEPT ![c] = {}] /\ dropped' = [dropped EXCEPT ![c] = {}]
      /\ answer' = [answer EXCEPT ![c] = "none"]
  BY <1>1, <1>2, SmtpHas DEF Mail, At5
<1>6. StoreStep
  BY SmtpHas, StoreStutters DEF Mail
<1>7. "none" \in Said /\ {} \in SUBSET Who
  BY DEF Said
<1> QED BY <1>3, <1>4, <1>5, <1>6, <1>7, SmtpSteps

(* RCPT names a recipient, with the INBOX of an account when it is local.   *)
LEMMA RcptSafe ==
  ASSUME IInv, NEW c \in Conn, Rcpt(c), UNCHANGED revived
  PROVE  SmtpSafe
<1>1. PICK q \in SmtpState, gave \in SUBSET Who, made \in SUBSET Who, bad \in SUBSET Who, said \in Said :
         At5(c, q, gave, made, bad, said)
  BY SmtpIs
<1>2. PICK rc \in [user : users, box : DOMAIN boxes] \cup {[user |-> Nobody, box |-> 0]} :
       /\ rc.user # Nobody => rc.box \in FolderByName(rc.user, "INBOX")
       /\ smtp'  = [smtp EXCEPT ![c].rcpts = Append(@, rc)]
       /\ given' = [given EXCEPT ![c] = @ \cup {rc.user}]
  BY DEF Rcpt
<1>3. StoreTypes
  BY SmtpHas
<1>4. rc \in RcptRow
  BY <1>2, <1>3 DEF RcptRow, StoreTypes, Who
<1>5. IF rc.user = Nobody THEN rc.box = 0 ELSE rc.box # 0 /\ Serves(rc.box, rc.user)
  <2>1. CASE rc = [user |-> Nobody, box |-> 0]
    BY <2>1
  <2>2. CASE rc \in [user : users, box : DOMAIN boxes]
    <3>1. PICK u \in users, f \in DOMAIN boxes : u = rc.user /\ f = rc.box
      BY <2>2
    <3>2. u # Nobody /\ f \in 1 .. nextBox - 1 /\ nextBox \in Nat
      BY <1>3, MailboxNobody DEF StoreTypes
    <3>3. boxes[f].user = u /\ boxes[f].name = "INBOX"
      BY <1>2, <3>1, <3>2 DEF FolderByName
    <3> QED BY <3>1, <3>2, <3>3 DEF Serves, Refers
  <2> QED BY <1>2, <2>1, <2>2
<1>6. PICK a \in Seq(RcptRow) : a = q.rcpts
  BY <1>1, SmtpFields
<1>7. PICK b : b = Append(a, rc)
  OBVIOUS
<1>8. /\ b \in Seq(RcptRow) /\ DOMAIN b = DOMAIN a \cup {Len(a) + 1} /\ b[Len(a) + 1] = rc
      /\ \A k \in DOMAIN a : b[k] = a[k]
  BY <1>4, <1>6, <1>7
<1>9. PICK s : s = [q EXCEPT !.rcpts = b]
  OBVIOUS
<1>10. /\ s \in SmtpState /\ s.pc = "ready" /\ s.from /\ s.rcpts = b /\ q.from /\ q.pc = "ready"
  BY <1>1, <1>8, <1>9 DEF SmtpState, At5, Rcpt
<1>11. {b[k].user : k \in DOMAIN b} = {a[k].user : k \in DOMAIN a} \cup {rc.user}
  BY <1>8
<1>12. PICK more \in SUBSET Who : more = gave \cup {rc.user}
  BY <1>1, <1>4 DEF RcptRow
<1>13. SmtpAt(s, more, made, bad, said)
  <2>1. \A k \in DOMAIN a : IF a[k].user = Nobody THEN a[k].box = 0
                             ELSE a[k].box # 0 /\ Serves(a[k].box, a[k].user)
    BY <1>1, <1>6 DEF SmtpAt, RcptsAt, At5
  <2>2. RcptsAt(s)
    BY <1>5, <1>8, <1>10, <2>1 DEF RcptsAt
  <2>3. said = "none" /\ gave = {a[k].user : k \in DOMAIN a} /\ made = {}
    BY <1>1, <1>6, <1>10 DEF SmtpAt, MailAt, At5
  <2>4. MailAt(s, more, made, bad, said)
    BY <1>10, <1>11, <1>12, <2>3 DEF MailAt
  <2>5. DataAt(s, made, bad)
    BY <1>10 DEF DataAt
  <2> QED BY <2>2, <2>4, <2>5 DEF SmtpAt
<1>14. Answered(more, made, bad, said)
  BY <1>1, <1>10, <1>12 DEF Answered, SmtpAt, RcptsAt, MailAt, DataAt, At5
<1>15. /\ smtp' = [smtp EXCEPT ![c] = s] /\ given' = [given EXCEPT ![c] = more]
       /\ copied' = [copied EXCEPT ![c] = made] /\ dropped' = [dropped EXCEPT ![c] = bad]
       /\ answer' = [answer EXCEPT ![c] = said]
  BY <1>1, <1>2, <1>6, <1>7, <1>9, <1>12, SmtpHas DEF Rcpt, At5
<1>16. StoreStep
  BY SmtpHas, StoreStutters DEF Rcpt
<1> QED BY <1>1, <1>10, <1>12, <1>13, <1>14, <1>15, <1>16, SmtpSteps

(* RSET.                                                                    *)
LEMMA ResetSafe ==
  ASSUME IInv, NEW c \in Conn, Reset(c), UNCHANGED revived
  PROVE  SmtpSafe
<1>1. PICK q \in SmtpState, gave \in SUBSET Who, made \in SUBSET Who, bad \in SUBSET Who, said \in Said :
         At5(c, q, gave, made, bad, said)
  BY SmtpIs
<1>2. PICK s : s = Forgotten(q)
  OBVIOUS
<1>3. s \in SmtpState /\ s.pc = "ready" /\ ~s.from /\ s.rcpts = << >> /\ q.from /\ q.pc = "ready"
  BY <1>1, <1>2, ForgottenIs DEF At5, Reset
<1>4. SmtpAt(s, {}, made, bad, said)
  BY <1>3 DEF SmtpAt, RcptsAt, MailAt, DataAt
<1>5. Answered({}, made, bad, said)
  <2>1. said = "none" /\ made = {}
    BY <1>1, <1>3 DEF SmtpAt, MailAt, At5
  <2> QED BY <2>1 DEF Answered
<1>6. PICK none \in SUBSET Who : none = {}
  OBVIOUS
<1>7. SmtpAt(s, none, made, bad, said) /\ Answered(none, made, bad, said)
  BY <1>4, <1>5, <1>6
<1>8. /\ smtp' = [smtp EXCEPT ![c] = s] /\ given' = [given EXCEPT ![c] = none]
      /\ copied' = [copied EXCEPT ![c] = made] /\ dropped' = [dropped EXCEPT ![c] = bad]
      /\ answer' = [answer EXCEPT ![c] = said]
  BY <1>1, <1>2, <1>6, SmtpHas DEF Reset, At5
<1>9. StoreStep
  BY SmtpHas, StoreStutters DEF Reset
<1>10. s \in SmtpState
  BY <1>3
<1> QED BY <1>7, <1>8, <1>9, <1>10, SmtpSteps

(* DATA begins with every local recipient ahead.                            *)
LEMMA DataSafe ==
  ASSUME IInv, NEW c \in Conn, Data(c), UNCHANGED revived
  PROVE  SmtpSafe
<1>1. PICK q \in SmtpState, gave \in SUBSET Who, made \in SUBSET Who, bad \in SUBSET Who, said \in Said :
         At5(c, q, gave, made, bad, said)
  BY SmtpIs
<1>2. PICK todo : todo = {k \in DOMAIN q.rcpts : q.rcpts[k].box # 0}
  OBVIOUS
<1>3. todo \in SUBSET Nat
  <2>1. todo \in SUBSET DOMAIN q.rcpts
    BY <1>2
  <2> QED BY <2>1, RcptsAre
<1>4. PICK s : s = [q EXCEPT !.pc = "data", !.anyOK = FALSE, !.todo = todo]
  OBVIOUS
<1>5. /\ s \in SmtpState /\ s.pc = "data" /\ s.from /\ s.rcpts = q.rcpts /\ s.todo = todo /\ ~s.anyOK
      /\ q.from /\ q.pc = "ready"
  BY <1>1, <1>3, <1>4 DEF SmtpState, At5, Data
<1>6. SmtpAt(s, gave, made, bad, said)
  <2>1. RcptsAt(s)
    BY <1>1, <1>5 DEF SmtpAt, RcptsAt, At5
  <2>2. MailAt(s, gave, made, bad, said) /\ made = {}
    BY <1>1, <1>5 DEF SmtpAt, MailAt, At5
  <2>3. \A k \in DOMAIN q.rcpts \ todo : q.rcpts[k].user = Nobody
    BY <1>1, <1>2 DEF SmtpAt, RcptsAt, At5
  <2>4. DataAt(s, made, bad)
    BY <1>2, <1>5, <2>2, <2>3 DEF DataAt
  <2> QED BY <2>1, <2>2, <2>4 DEF SmtpAt
<1>7. Answered(gave, made, bad, said)
  BY <1>1 DEF At5
<1>8. /\ smtp' = [smtp EXCEPT ![c] = s] /\ given' = [given EXCEPT ![c] = gave]
      /\ copied' = [copied EXCEPT ![c] = made] /\ dropped' = [dropped EXCEPT ![c] = bad]
      /\ answer' = [answer EXCEPT ![c] = said]
  BY <1>1, <1>2, <1>4, SmtpHas DEF Data, At5
<1>9. StoreStep
  BY SmtpHas, StoreStutters DEF Data
<1> QED BY <1>1, <1>5, <1>6, <1>7, <1>8, <1>9, SmtpSteps

(* One recipient of DATA: a delivery, or it fails.                          *)
LEMMA DeliverLocalSafe ==
  ASSUME IInv, NEW c \in Conn, DeliverLocal(c), UNCHANGED revived
  PROVE  SmtpSafe
<1>1. PICK q \in SmtpState, gave \in SUBSET Who, made \in SUBSET Who, bad \in SUBSET Who, said \in Said :
         At5(c, q, gave, made, bad, said)
  BY SmtpIs
<1>2. q.pc = "data" /\ q.todo # {} /\ q.from /\ said = "none"
  BY <1>1 DEF DeliverLocal, At5, SmtpAt, RcptsAt, MailAt, DataAt
<1>3. /\ q.todo \subseteq {k \in DOMAIN q.rcpts : q.rcpts[k].box # 0}
      /\ q.anyOK => made # {}
      /\ \A k \in DOMAIN q.rcpts \ q.todo : q.rcpts[k].user \in made \cup bad \cup {Nobody} \/ q.rcpts[k].user \notin users
      /\ made # {} => q.anyOK
      /\ gave = {q.rcpts[k].user : k \in DOMAIN q.rcpts}
      /\ \A k \in DOMAIN q.rcpts : IF q.rcpts[k].user = Nobody THEN q.rcpts[k].box = 0
                                   ELSE q.rcpts[k].box # 0 /\ Serves(q.rcpts[k].box, q.rcpts[k].user)
  BY <1>1, <1>2 DEF At5, SmtpAt, RcptsAt, MailAt, DataAt
<1>4. PICK k : k = Min(q.todo)
  OBVIOUS
<1>5. k \in q.todo /\ k \in DOMAIN q.rcpts /\ q.todo \in SUBSET Nat
  BY <1>1, <1>2, <1>3, <1>4, RcptsAre
<1>6. PICK u \in Who, f \in Nat : u = q.rcpts[k].user /\ f = q.rcpts[k].box
  BY <1>1, <1>5, RcptsAre
<1>7. f # 0 /\ u # Nobody /\ Serves(f, u) /\ u \in gave
  BY <1>3, <1>5, <1>6
<1>8. Current(c) = k /\ smtp[c].rcpts[Current(c)].user = u /\ smtp[c].rcpts[Current(c)].box = f
  BY <1>1, <1>4, <1>6 DEF Current, At5
<1>9. StoreInv /\ StoreTypes
  BY SmtpHas
<1>10. CASE /\ Exists(u, f) /\ boxes[f].next <= MaxUid
            /\ \E date \in Date : Deliver(u, f, date, {})
            /\ smtp'   = [smtp EXCEPT ![c].pc = "filter", ![c].fresh = nextRow, ![c].anyOK = TRUE]
            /\ copied' = [copied EXCEPT ![c] = @ \cup {u}]
            /\ UNCHANGED dropped
  <2>1. /\ Exists(u, f) /\ boxes[f].next <= MaxUid
        /\ \E date \in Date : Deliver(u, f, date, {})
        /\ smtp'   = [smtp EXCEPT ![c].pc = "filter", ![c].fresh = nextRow, ![c].anyOK = TRUE]
        /\ copied' = [copied EXCEPT ![c] = @ \cup {u}]
        /\ UNCHANGED << users, nextBox, asked, given, answer, dropped >>
    BY <1>10 DEF DeliverLocal
  <2>2. PICK date \in Date : Deliver(u, f, date, {})
    BY <2>1
  <2>3. StoreStep
    <3>1. f \in DOMAIN boxes /\ boxes[f].user = u
      BY <1>7, <1>10 DEF Exists, Serves, Refers
    <3>2. PICK fl \in SUBSET AnyFlag : fl = {}
      OBVIOUS
    <3> QED BY <1>9, <2>1, <2>2, <3>1, <3>2, DeliverStep
  <2>4. PICK s : s = [q EXCEPT !.pc = "filter", !.fresh = nextRow, !.anyOK = TRUE]
    OBVIOUS
  <2>5. nextRow \in Nat /\ nextRow' = nextRow + 1 /\ nextRow # 0
    BY <1>9, <2>2 DEF StoreTypes, Deliver
  <2>6. /\ s \in SmtpState /\ s.pc = "filter" /\ s.from /\ s.rcpts = q.rcpts /\ s.todo = q.todo /\ s.anyOK
        /\ s.fresh = nextRow
    BY <1>1, <1>2, <2>4, <2>5 DEF SmtpState
  <2>7. PICK now \in SUBSET Who : now = made \cup {u}
    BY <1>1, <1>6
  <2>8. SmtpAt(q, gave, made, bad, said)'
    BY <1>1, <1>9, <2>3, SmtpAtLater DEF StoreStep, At5
  <2>9. SmtpAt(s, gave, now, bad, said)'
    <3>1. s.fresh \in 1 .. nextRow' - 1
      BY <2>5, <2>6
    <3>2. s.todo # {} /\ s.rcpts[Min(s.todo)].user \in now /\ now # {}
      BY <1>2, <1>4, <1>6, <2>6, <2>7
    <3>3. \A i \in DOMAIN s.rcpts \ s.todo : s.rcpts[i].user \in now \cup bad \cup {Nobody} \/ s.rcpts[i].user \notin users'
      BY <1>3, <2>1, <2>6, <2>7
    <3>4. s.todo \subseteq {i \in DOMAIN s.rcpts : s.rcpts[i].box # 0}
      BY <1>3, <2>6
    <3> QED BY <1>2, <2>6, <2>8, <3>1, <3>2, <3>3, <3>4 DEF SmtpAt, RcptsAt, MailAt, DataAt
  <2>10. Answered(gave, now, bad, said)'
    BY <1>1, <1>2, <1>7, <2>7 DEF Answered, At5
  <2>11. /\ smtp' = [smtp EXCEPT ![c] = s] /\ given' = [given EXCEPT ![c] = gave]
         /\ copied' = [copied EXCEPT ![c] = now] /\ dropped' = [dropped EXCEPT ![c] = bad]
         /\ answer' = [answer EXCEPT ![c] = said]
    BY <1>1, <2>1, <2>4, <2>7, SmtpHas DEF At5
  <2>12. StoreTypes /\ Later /\ SmtpInv
    BY <2>3, SmtpHas DEF StoreStep
  <2> QED BY <1>1, <2>3, <2>6, <2>7, <2>9, <2>10, <2>11, <2>12, SmtpOne DEF SmtpSafe
<1>11. CASE /\ smtp' = [smtp EXCEPT ![c].todo = @ \ {k}]
            /\ dropped' = [dropped EXCEPT ![c] = IF Exists(u, f) THEN @ \cup {u} ELSE @]
            /\ UNCHANGED << rows, boxes, nextRow, copied >>
  <2>1. smtp' = [smtp EXCEPT ![c].todo = @ \ {k}]
    BY <1>11
  <2>2. UNCHANGED << mvars, given, copied, answer >>
    BY <1>11 DEF DeliverLocal, mvars
  <2>3. PICK todo : todo = q.todo \ {k}
    OBVIOUS
  <2>4. PICK s : s = [q EXCEPT !.todo = todo]
    OBVIOUS
  <2>5. /\ s \in SmtpState /\ s.pc = "data" /\ s.from /\ s.rcpts = q.rcpts /\ s.todo = todo
        /\ s.anyOK = q.anyOK
    BY <1>1, <1>2, <1>5, <2>3, <2>4 DEF SmtpState
  <2>6. PICK worse \in SUBSET Who : worse = IF Exists(u, f) THEN bad \cup {u} ELSE bad
    BY <1>1, <1>6
  <2>7. bad \subseteq worse /\ (u \in worse \/ u \notin users)
    BY <1>7, <2>6 DEF Exists, Serves
  <2>8. SmtpAt(s, gave, made, worse, said)
    <3>1. \A i \in DOMAIN s.rcpts \ s.todo :
             s.rcpts[i].user \in made \cup worse \cup {Nobody} \/ s.rcpts[i].user \notin users
      BY <1>3, <1>6, <2>3, <2>5, <2>7
    <3> QED BY <1>2, <1>3, <2>3, <2>5, <3>1 DEF SmtpAt, RcptsAt, MailAt, DataAt
  <2>9. Answered(gave, made, worse, said)
    BY <1>1, <1>2 DEF At5, Answered
  <2>10. /\ smtp' = [smtp EXCEPT ![c] = s] /\ given' = [given EXCEPT ![c] = gave]
         /\ copied' = [copied EXCEPT ![c] = made] /\ dropped' = [dropped EXCEPT ![c] = worse]
         /\ answer' = [answer EXCEPT ![c] = said]
    BY <1>1, <1>11, <2>2, <2>3, <2>4, <2>6, SmtpHas DEF At5
  <2>11. StoreStep
    BY <1>9, <2>2, StoreStutters
  <2> QED BY <1>1, <2>5, <2>6, <2>8, <2>9, <2>10, <2>11, SmtpSteps
<1> QED BY <1>8, <1>10, <1>11 DEF DeliverLocal

(* The recipient's filters.                                                 *)
LEMMA RuleStep ==
  ASSUME StoreInv, NEW u, NEW m \in 1 .. nextRow - 1, ApplyRule(u, m), UNCHANGED << users, revived >>
  PROVE  StoreStep
<1>1. StoreTypes /\ AskedKnown /\ DeletedAsked
  BY DEF StoreInv
<1>2. CASE UNCHANGED << rows, boxes, nextBox, nextRow, asked >>
  BY <1>2, StoreStutters DEF mvars
<1>3. CASE SetFlags(u, {m}, "add", {"Seen"}) /\ UNCHANGED << boxes, nextBox, nextRow, asked >>
  <2>1. PICK fl \in SUBSET AnyFlag : fl = {"Seen"}
    BY DEF AnyFlag
  <2>2. PICK ids : ids = Mine(u, {m})
    OBVIOUS
  <2>3. rows' = Flagged(rows, ids, "add", fl)
    BY <1>3, <2>1, <2>2 DEF SetFlags
  <2>4. \A i \in ids \cap DOMAIN rows :
          "Deleted" \in NewFlags(rows[i].flags, "add", fl) => i \in asked' \cup revived'
    BY <1>1, <1>3, <2>1 DEF NewFlags, DeletedAsked
  <2>5. asked' \cup revived' \subseteq 1 .. nextRow - 1
    BY <1>1, <1>3 DEF AskedKnown
  <2> QED BY <1>3, <2>3, <2>4, <2>5, FlagStep
<1>4. CASE MoveToFolderName(u, m, "Trash") /\ UNCHANGED << nextRow, asked >>
  <2>1. "Trash" \in BoxName
    BY DEF BoxName
  <2> QED BY <1>4, <2>1, MoveStep
<1>5. CASE DeleteMessages(u, {m}) /\ asked' = asked \cup {m} /\ UNCHANGED << boxes, nextBox, nextRow >>
  <2>1. PICK ids : ids = Mine(u, {m})
    OBVIOUS
  <2>2. rows' = Without(rows, ids) /\ ids \subseteq {m}
    BY <1>5, <2>1 DEF DeleteMessages, Mine
  <2>3. /\ ids \cap DOMAIN rows \subseteq asked \cup asked' \cup revived
        /\ asked \subseteq asked' /\ asked' \subseteq 1 .. nextRow - 1
    BY <1>1, <1>5, <2>2 DEF AskedKnown
  <2> QED BY <1>5, <2>2, <2>3, RemoveStep
<1> QED BY <1>2, <1>3, <1>4, <1>5 DEF ApplyRule

(* The filters of a recipient who has the copy.                             *)
LEMMA FilterSafe ==
  ASSUME IInv, NEW c \in Conn, Filter(c), UNCHANGED revived
  PROVE  SmtpSafe
<1>1. PICK q \in SmtpState, gave \in SUBSET Who, made \in SUBSET Who, bad \in SUBSET Who, said \in Said :
         At5(c, q, gave, made, bad, said)
  BY SmtpIs
<1>2. q.pc = "filter" /\ q.from
  BY <1>1 DEF Filter, At5, SmtpAt, RcptsAt, MailAt, DataAt
<1>3. /\ q.todo \subseteq {k \in DOMAIN q.rcpts : q.rcpts[k].box # 0}
      /\ q.rcpts[Min(q.todo)].user \in made /\ q.fresh \in 1 .. nextRow - 1
  BY <1>1, <1>2 DEF At5, SmtpAt, RcptsAt, MailAt, DataAt
<1>4. PICK m \in 1 .. nextRow - 1 : m = q.fresh
  BY <1>3
<1>5. PICK k : k = Min(q.todo)
  OBVIOUS
<1>6. Current(c) = k
  BY <1>1, <1>5 DEF Current, At5
<1>7. PICK u : u = q.rcpts[k].user
  OBVIOUS
<1>8. ApplyRule(u, m)
  BY <1>1, <1>4, <1>6, <1>7 DEF Filter, At5
<1>9. UNCHANGED << users, given, copied, dropped, answer >>
  BY DEF Filter
<1>10. StoreStep
  BY <1>8, <1>9, SmtpHas, RuleStep
<1>11. PICK todo : todo = q.todo \ {k}
  OBVIOUS
<1>12. PICK s : s = [q EXCEPT !.pc = "data", !.todo = todo, !.fresh = 0]
  OBVIOUS
<1>13. /\ s \in SmtpState /\ s.pc = "data" /\ s.from /\ s.rcpts = q.rcpts /\ s.todo = todo
       /\ s.anyOK = q.anyOK
  <2>1. todo \in SUBSET Nat /\ 0 \in Nat
    BY <1>1, <1>11, SmtpFields
  <2> QED BY <1>1, <1>2, <1>12, <2>1 DEF SmtpState
<1>14. SmtpAt(s, gave, made, bad, said)
  <2>1. \A i \in DOMAIN s.rcpts \ s.todo : s.rcpts[i].user \in made \cup bad \cup {Nobody} \/ s.rcpts[i].user \notin users
    BY <1>1, <1>2, <1>3, <1>5, <1>11, <1>13 DEF SmtpAt, RcptsAt, MailAt, DataAt, At5
  <2>2. RcptsAt(s)
    BY <1>1, <1>13 DEF SmtpAt, RcptsAt, At5
  <2>3. MailAt(s, gave, made, bad, said)
    BY <1>1, <1>2, <1>13 DEF SmtpAt, MailAt, At5
  <2>4. made # {} /\ s.todo \subseteq {i \in DOMAIN s.rcpts : s.rcpts[i].box # 0} /\ (made # {} => s.anyOK)
    BY <1>1, <1>2, <1>3, <1>11, <1>13 DEF SmtpAt, DataAt, At5
  <2>5. DataAt(s, made, bad)
    BY <1>13, <2>1, <2>4 DEF DataAt
  <2> QED BY <2>2, <2>3, <2>5 DEF SmtpAt
<1>15. Answered(gave, made, bad, said)
  BY <1>1 DEF At5
<1>16. /\ smtp' = [smtp EXCEPT ![c] = s] /\ given' = [given EXCEPT ![c] = gave]
       /\ copied' = [copied EXCEPT ![c] = made] /\ dropped' = [dropped EXCEPT ![c] = bad]
       /\ answer' = [answer EXCEPT ![c] = said]
  BY <1>1, <1>6, <1>9, <1>11, <1>12, SmtpHas DEF Filter, At5
<1> QED BY <1>1, <1>10, <1>13, <1>14, <1>15, <1>16, SmtpSteps

(* The remote recipients, and the 451 when nobody was served.               *)
LEMMA QueueSafe ==
  ASSUME IInv, NEW c \in Conn, Queue(c), UNCHANGED revived
  PROVE  SmtpSafe
<1>1. PICK q \in SmtpState, gave \in SUBSET Who, made \in SUBSET Who, bad \in SUBSET Who, said \in Said :
         At5(c, q, gave, made, bad, said)
  BY SmtpIs
<1>2. q.pc = "data" /\ q.todo = {} /\ q.from /\ said = "none"
  BY <1>1 DEF Queue, At5, SmtpAt, RcptsAt, MailAt, DataAt
<1>3. /\ made # {} <=> q.anyOK
      /\ \A k \in DOMAIN q.rcpts : q.rcpts[k].user \in made \cup bad \cup {Nobody} \/ q.rcpts[k].user \notin users
      /\ gave = {q.rcpts[k].user : k \in DOMAIN q.rcpts} /\ made \subseteq gave
      /\ \A k \in DOMAIN q.rcpts : q.rcpts[k].box = 0 => q.rcpts[k].user = Nobody
  BY <1>1, <1>2 DEF At5, SmtpAt, RcptsAt, MailAt, DataAt, Answered
<1>4. PICK ok \in BOOLEAN :
       /\ ok => \E k \in DOMAIN smtp[c].rcpts : smtp[c].rcpts[k].box = 0
       /\ copied' = [copied EXCEPT ![c] = IF ok THEN @ \cup {Nobody} ELSE @]
       /\ IF RemoteOK(smtp[c], ok)
          THEN /\ smtp' = [smtp EXCEPT ![c].pc = "sent"]
               /\ UNCHANGED << given, answer >>
          ELSE /\ smtp'   = [smtp EXCEPT ![c] = [Forgotten(@) EXCEPT !.pc = "ready"]]
               /\ answer' = [answer EXCEPT ![c] = "451"]
               /\ UNCHANGED given
  BY DEF Queue
<1>5. StoreStep /\ UNCHANGED dropped
  BY SmtpHas, StoreStutters DEF Queue
<1>6. ok => Nobody \in gave
  BY <1>1, <1>3, <1>4 DEF At5
<1>7. CASE RemoteOK(smtp[c], ok)
  <2>1. PICK now \in SUBSET Who : now = IF ok THEN made \cup {Nobody} ELSE made
    BY <1>1 DEF Who
  <2>2. now # {} /\ now \subseteq gave /\ made \subseteq now
    BY <1>1, <1>3, <1>6, <1>7, <2>1 DEF RemoteOK, At5
  <2>3. PICK s : s = [q EXCEPT !.pc = "sent"]
    OBVIOUS
  <2>4. s \in SmtpState /\ s.pc = "sent" /\ s.from /\ s.rcpts = q.rcpts /\ s.todo = {} /\ s.anyOK = q.anyOK
    BY <1>1, <1>2, <2>3 DEF SmtpState
  <2>5. SmtpAt(s, gave, now, bad, said)
    <3>1. RcptsAt(s)
      BY <1>1, <2>4 DEF SmtpAt, RcptsAt, At5
    <3>2. MailAt(s, gave, now, bad, said)
      BY <1>1, <1>2, <2>4 DEF SmtpAt, MailAt, At5
    <3>3. \A i \in DOMAIN s.rcpts \ s.todo : s.rcpts[i].user \in now \cup bad \cup {Nobody} \/ s.rcpts[i].user \notin users
      BY <1>3, <2>2, <2>4
    <3>4. s.todo \subseteq {i \in DOMAIN s.rcpts : s.rcpts[i].box # 0}
      BY <2>4
    <3>5. DataAt(s, now, bad)
      BY <2>2, <2>4, <3>3, <3>4 DEF DataAt
    <3> QED BY <3>1, <3>2, <3>5 DEF SmtpAt
  <2>6. Answered(gave, now, bad, said)
    BY <1>2, <2>2 DEF Answered
  <2>7. /\ smtp' = [smtp EXCEPT ![c] = s] /\ given' = [given EXCEPT ![c] = gave]
        /\ copied' = [copied EXCEPT ![c] = now] /\ dropped' = [dropped EXCEPT ![c] = bad]
        /\ answer' = [answer EXCEPT ![c] = said]
    BY <1>1, <1>4, <1>5, <1>7, <2>1, <2>3, SmtpHas DEF At5
  <2> QED BY <1>1, <1>5, <2>4, <2>5, <2>6, <2>7, SmtpSteps
<1>8. CASE ~RemoteOK(smtp[c], ok)
  <2>1. ~ok /\ made = {}
    BY <1>1, <1>3, <1>8 DEF RemoteOK, At5
  <2>2. PICK r \in SmtpState : r = Forgotten(q) /\ ~r.from /\ r.rcpts = << >>
    BY <1>1, ForgottenIs
  <2>3. PICK s : s = [r EXCEPT !.pc = "ready"]
    OBVIOUS
  <2>4. s \in SmtpState /\ s.pc = "ready" /\ ~s.from /\ s.rcpts = << >>
    BY <2>2, <2>3 DEF SmtpState
  <2>5. SmtpAt(s, gave, made, bad, "451")
    BY <2>4 DEF SmtpAt, RcptsAt, MailAt, DataAt
  <2>6. Answered(gave, made, bad, "451")
    BY <2>1 DEF Answered
  <2>7. /\ smtp' = [smtp EXCEPT ![c] = s] /\ given' = [given EXCEPT ![c] = gave]
        /\ copied' = [copied EXCEPT ![c] = made] /\ dropped' = [dropped EXCEPT ![c] = bad]
        /\ answer' = [answer EXCEPT ![c] = "451"]
    BY <1>1, <1>4, <1>5, <1>8, <2>1, <2>2, <2>3, SmtpHas DEF At5
  <2>8. "451" \in Said
    BY DEF Said
  <2> QED BY <1>1, <1>5, <2>4, <2>5, <2>6, <2>7, <2>8, SmtpSteps
<1> QED BY <1>7, <1>8

(* The Sent copy, and the 250.                                              *)
LEMMA SentCopySafe ==
  ASSUME IInv, NEW c \in Conn, SentCopy(c), UNCHANGED revived
  PROVE  SmtpSafe
<1>1. PICK q \in SmtpState, gave \in SUBSET Who, made \in SUBSET Who, bad \in SUBSET Who, said \in Said :
         At5(c, q, gave, made, bad, said)
  BY SmtpIs
<1>2. UNCHANGED << users, nextBox, asked, given, copied, dropped >>
  BY DEF SentCopy
<1>3. StoreStep
  <2>1. ASSUME NEW f \in FolderByName(smtp[c].user, "Sent"), NEW date \in Date,
               boxes[f].next <= MaxUid, Deliver(smtp[c].user, f, date, {})
        PROVE  StoreStep
    <3>1. f \in DOMAIN boxes /\ boxes[f].user = smtp[c].user
      BY DEF FolderByName
    <3>2. PICK fl \in SUBSET AnyFlag : fl = {}
      OBVIOUS
    <3> QED BY <1>2, <2>1, <3>1, <3>2, SmtpHas, DeliverStep
  <2>2. CASE UNCHANGED << rows, boxes, nextRow >>
    BY <1>2, <2>2, SmtpHas, StoreStutters DEF mvars
  <2> QED BY <2>1, <2>2 DEF SentCopy
<1>4. PICK r \in SmtpState : r = Forgotten(q) /\ ~r.from /\ r.rcpts = << >>
  BY <1>1, ForgottenIs
<1>5. PICK s : s = [r EXCEPT !.pc = "ready"]
  OBVIOUS
<1>6. s \in SmtpState /\ s.pc = "ready" /\ ~s.from /\ s.rcpts = << >>
  BY <1>4, <1>5 DEF SmtpState
<1>7. SmtpAt(s, gave, made, bad, "250")
  BY <1>6 DEF SmtpAt, RcptsAt, MailAt, DataAt
<1>8. Answered(gave, made, bad, "250")
  <2>1. /\ q.from /\ q.todo = {} /\ made # {} /\ gave = {q.rcpts[k].user : k \in DOMAIN q.rcpts}
        /\ \A k \in DOMAIN q.rcpts \ q.todo : q.rcpts[k].user \in made \cup bad \cup {Nobody} \/ q.rcpts[k].user \notin users
    BY <1>1 DEF SentCopy, At5, SmtpAt, RcptsAt, MailAt, DataAt
  <2>2. \A u \in (gave \ (made \cup bad)) \ {Nobody} : u \notin users
    BY <2>1
  <2>3. made \subseteq gave
    BY <1>1 DEF At5, Answered
  <2> QED BY <2>1, <2>2, <2>3 DEF Answered
<1>9. /\ smtp' = [smtp EXCEPT ![c] = s] /\ given' = [given EXCEPT ![c] = gave]
      /\ copied' = [copied EXCEPT ![c] = made] /\ dropped' = [dropped EXCEPT ![c] = bad]
      /\ answer' = [answer EXCEPT ![c] = "250"]
  BY <1>1, <1>2, <1>4, <1>5, SmtpHas DEF SentCopy, At5
<1>10. "250" \in Said
  BY DEF Said
<1> QED BY <1>1, <1>3, <1>6, <1>7, <1>8, <1>9, <1>10, SmtpSteps

(* Every step of an SMTP session.                                           *)
LEMMA SmtpStepSafe ==
  ASSUME IInv, NEW c \in Conn, SmtpStep(c), UNCHANGED revived
  PROVE  SmtpSafe
BY AuthSafe, MailSafe, RcptSafe, ResetSafe, DataSafe, DeliverLocalSafe, FilterSafe, QueueSafe,
   SentCopySafe DEF SmtpStep

-----------------------------------------------------------------------------
(* Webmail.                                                                 *)

(* What an action of a webmail request is shown to do.                      *)
WebSafe == StoreStep /\ WebInv'

(* What the invariant says of one request.                                  *)
LEMMA WebHas ==
  ASSUME IInv, NEW c \in Conn
  PROVE  /\ web[c] \in WebState /\ reached[c] \in SUBSET Who /\ missed[c] \in SUBSET Who
         /\ WebAt(web[c], reached[c], missed[c]) /\ missed \in [Conn -> SUBSET Who]
         /\ web \in [Conn -> WebState] /\ reached \in [Conn -> SUBSET Who] /\ WebInv
         /\ StoreInv /\ StoreTypes /\ DeletedAsked /\ AskedKnown /\ Inboxes
BY DEF IInv, WebInv, StoreInv

(* The fields of a request.                                                 *)
LEMMA WebFields ==
  ASSUME NEW s \in WebState
  PROVE  /\ s.pc \in {"idle", "readall", "compose", "enqueue"} /\ s.user \in Who /\ s.to \in SUBSET Who
         /\ s.todo \in SUBSET User /\ s.remote \in BOOLEAN /\ s.ids \in SUBSET Nat
         /\ s.reply \in {"none", "ok", "not found", "sent", "error"}
BY DEF WebState

(* A step after which the request and whom it reached are s and got.        *)
LEMMA WebSteps ==
  ASSUME IInv, StoreStep, NEW c \in Conn, NEW s \in WebState, NEW got \in SUBSET Who,
         NEW bad \in SUBSET Who, WebAt(s, got, bad), missed' = [missed EXCEPT ![c] = bad],
         web' = [web EXCEPT ![c] = s], reached' = [reached EXCEPT ![c] = got] /\ missed' = [missed EXCEPT ![c] = bad]
  PROVE  WebSafe
<1>1. Later /\ WebInv /\ users' \subseteq users
  BY WebHas DEF StoreStep, Later, InboxesKept
<1>2. WebAt(s, got, bad)'
  BY <1>1, WebAtLater
<1> QED BY <1>1, <1>2, WebOne DEF WebSafe

(* A request answered at once.                                              *)
LEMMA ReplySafe ==
  ASSUME IInv, StoreStep, NEW c \in Conn, NEW r \in {"ok", "not found"}, Reply(c, r), UNCHANGED << reached, missed >>
  PROVE  WebSafe
<1>1. PICK got \in SUBSET Who, bad \in SUBSET Who : got = reached[c] /\ bad = missed[c]
  BY WebHas
<1>2. PICK s : s = [NoWeb EXCEPT !.reply = r]
  OBVIOUS
<1>3. s \in WebState /\ s.pc = "idle" /\ s.reply # "sent"
  <2>1. PICK n : n = NoWeb
    OBVIOUS
  <2>2. n \in WebState /\ n.pc = "idle"
    BY <2>1 DEF NoWeb, WebState, Who
  <2> QED BY <1>2, <2>1, <2>2 DEF WebState
<1>4. WebAt(s, got, bad)
  BY <1>3 DEF WebAt
<1>5. web' = [web EXCEPT ![c] = s] /\ reached' = [reached EXCEPT ![c] = got] /\ missed' = [missed EXCEPT ![c] = bad]
  BY <1>1, <1>2, WebHas DEF Reply
<1> QED BY <1>1, <1>3, <1>4, <1>5, WebSteps

(* \Seen is set on some messages.                                           *)
LEMMA SeenStep ==
  ASSUME StoreInv, NEW u, NEW ms, SetFlags(u, ms, "add", {"Seen"}),
         UNCHANGED << users, boxes, nextBox, nextRow, asked, revived >>
  PROVE  StoreStep
<1>1. AskedKnown /\ DeletedAsked
  BY DEF StoreInv
<1>2. PICK fl \in SUBSET AnyFlag : fl = {"Seen"}
  BY DEF AnyFlag
<1>3. PICK ids : ids = Mine(u, ms)
  OBVIOUS
<1>4. rows' = Flagged(rows, ids, "add", fl)
  BY <1>2, <1>3 DEF SetFlags
<1>5. \A i \in ids \cap DOMAIN rows :
        "Deleted" \in NewFlags(rows[i].flags, "add", fl) => i \in asked' \cup revived'
  BY <1>1, <1>2 DEF NewFlags, DeletedAsked
<1>6. asked' \cup revived' \subseteq 1 .. nextRow - 1
  BY <1>1 DEF AskedKnown
<1> QED BY <1>4, <1>5, <1>6, FlagStep

(* Requests that only read, and those the router does not know.             *)
LEMMA ReadOnlySafe ==
  ASSUME IInv, NEW c \in Conn, ReadOnly(c) \/ NotFound(c), UNCHANGED revived
  PROVE  WebSafe
<1>1. PICK r \in {"ok", "not found"} : Reply(c, r) /\ UNCHANGED << mvars, reached, missed >>
  BY DEF ReadOnly, NotFound
<1>2. StoreStep
  BY <1>1, WebHas, StoreStutters
<1> QED BY <1>1, <1>2, ReplySafe

(* A message is opened.                                                     *)
LEMMA MessageSafe ==
  ASSUME IInv, NEW c \in Conn, Message(c), UNCHANGED revived
  PROVE  WebSafe
<1>1. PICK u, m : SetFlags(u, {m}, "add", {"Seen"})
  BY DEF Message
<1>2. PICK r \in {"ok", "not found"} : r = "ok"
  OBVIOUS
<1>3. Reply(c, r) /\ UNCHANGED << users, boxes, nextBox, nextRow, asked, reached, missed >>
  BY <1>2 DEF Message
<1>4. StoreStep
  BY <1>1, <1>3, WebHas, SeenStep
<1> QED BY <1>3, <1>4, ReplySafe

(* The unseen messages of the newest page are looked up.                    *)
LEMMA ReadAllSafe ==
  ASSUME IInv, NEW c \in Conn, ReadAll(c), UNCHANGED revived
  PROVE  WebSafe
<1>1. PICK u \in users, f \in DOMAIN boxes : \E page \in Pages(f, ReadAllLimit, FALSE) :
       web' = [web EXCEPT ![c] = [NoWeb EXCEPT !.pc = "readall", !.user = u,
                 !.ids = {m \in Range(page) : "Seen" \notin rows[m].flags}]]
  BY DEF ReadAll, Mailboxes
<1>1a. PICK page \in Pages(f, ReadAllLimit, FALSE) :
       web' = [web EXCEPT ![c] = [NoWeb EXCEPT !.pc = "readall", !.user = u,
                 !.ids = {m \in Range(page) : "Seen" \notin rows[m].flags}]]
  BY <1>1
<1>2. StoreTypes /\ FALSE \in BOOLEAN
  BY WebHas
<1>3. page \in Seq(In(f)) /\ In(f) \subseteq Nat
  BY <1>1a, <1>2, Zenon, PageIs
<1>4. PICK ids : ids = {m \in Range(page) : "Seen" \notin rows[m].flags}
  OBVIOUS
<1>5. ids \in SUBSET Nat
  <2>1. \A T : page \in Seq(T) => \A i \in DOMAIN page : page[i] \in T
    OBVIOUS
  <2>2. \A i \in DOMAIN page : page[i] \in Nat
    BY <1>3, <2>1
  <2> QED BY <1>4, <2>2 DEF Range
<1>6. PICK s : s = [NoWeb EXCEPT !.pc = "readall", !.user = u, !.ids = ids]
  OBVIOUS
<1>7. s \in WebState /\ s.pc = "readall" /\ s.reply = "none"
  <2>1. PICK n : n = NoWeb
    OBVIOUS
  <2>2. n \in WebState /\ n.reply = "none"
    BY <2>1 DEF NoWeb, WebState, Who
  <2>3. u \in Who
    BY <1>2 DEF StoreTypes, Who
  <2> QED BY <1>5, <1>6, <2>1, <2>2, <2>3 DEF WebState
<1>8. PICK got \in SUBSET Who, bad \in SUBSET Who : got = reached[c] /\ bad = missed[c]
  BY WebHas
<1>9. WebAt(s, got, bad)
  BY <1>7 DEF WebAt
<1>10. web' = [web EXCEPT ![c] = s] /\ reached' = [reached EXCEPT ![c] = got] /\ missed' = [missed EXCEPT ![c] = bad]
  BY <1>1a, <1>4, <1>6, <1>8, WebHas DEF ReadAll
<1>11. StoreStep
  BY WebHas, StoreStutters DEF ReadAll
<1> QED BY <1>7, <1>8, <1>9, <1>10, <1>11, WebSteps

(* They are flagged.                                                        *)
LEMMA MarkAllSafe ==
  ASSUME IInv, NEW c \in Conn, MarkAll(c), UNCHANGED revived
  PROVE  WebSafe
<1>1. PICK u, ms : SetFlags(u, ms, "add", {"Seen"})
  BY DEF MarkAll
<1>2. PICK r \in {"ok", "not found"} : r = "ok"
  OBVIOUS
<1>3. Reply(c, r) /\ UNCHANGED << users, boxes, nextBox, nextRow, asked, reached, missed >>
  BY <1>2 DEF MarkAll
<1>4. StoreStep
  BY <1>1, <1>3, WebHas, SeenStep
<1> QED BY <1>3, <1>4, ReplySafe

(* A folder is expunged.                                                    *)
LEMMA ExpungeRequestSafe ==
  ASSUME IInv, NEW c \in Conn, ExpungeRequest(c), UNCHANGED revived
  PROVE  WebSafe
<1>1. PICK f : ExpungeFolder(f)
  BY DEF ExpungeRequest
<1>2. PICK r \in {"ok", "not found"} : r = "ok"
  OBVIOUS
<1>3. Reply(c, r) /\ UNCHANGED << users, boxes, nextBox, nextRow, asked, reached, missed >>
  BY <1>2 DEF ExpungeRequest
<1>4. StoreStep
  BY <1>1, <1>3, WebHas, ExpungeStep
<1> QED BY <1>3, <1>4, ReplySafe

(* The composer splits local from remote recipients.                        *)
LEMMA ComposeSafe ==
  ASSUME IInv, NEW c \in Conn, Compose(c), UNCHANGED revived
  PROVE  WebSafe
<1>1. PICK u \in users, to \in (SUBSET (User \cup {Nobody})) \ {{}}, local \in SUBSET User :
       /\ local \subseteq to \cap users
       /\ web' = [web EXCEPT ![c] =
            [NoWeb EXCEPT !.pc = "compose", !.user = u, !.to = to,
                          !.todo = local, !.remote = to \ local # {}]]
       /\ missed' = [missed EXCEPT ![c] = (to \cap users) \ local]
  BY WebHas DEF Compose, StoreTypes
<1>2. StoreTypes
  BY WebHas
<1>3. PICK remote \in BOOLEAN : remote = (to \ local # {})
  BY Zenon
<1>4. PICK bad \in SUBSET Who : bad = (to \cap users) \ local
  BY <1>2 DEF StoreTypes, Who
<1>5. to \in SUBSET Who /\ u \in Who
  BY <1>1, <1>2 DEF StoreTypes, Who
<1>6. PICK s : s = [NoWeb EXCEPT !.pc = "compose", !.user = u, !.to = to, !.todo = local, !.remote = remote]
  OBVIOUS
<1>7. s \in WebState /\ s.pc = "compose" /\ s.reply = "none" /\ s.to = to /\ s.todo = local /\ s.remote = remote
  <2>1. PICK n : n = NoWeb
    OBVIOUS
  <2>2. n \in WebState /\ n.reply = "none"
    BY <2>1 DEF NoWeb, WebState, Who
  <2> QED BY <1>3, <1>5, <1>6, <2>1, <2>2 DEF WebState
<1>8. Nobody \notin users
  BY <1>2, MailboxNobody DEF StoreTypes
<1>9. WebAt(s, {}, bad)
  <2>1. ((s.to \ s.todo) \ ({} \cup bad)) \cap users = {}
    BY <1>4, <1>7
  <2>2. Nobody \in s.to => s.remote
    <3>1. Nobody \in to => to \ local # {}
      BY <1>1, <1>8
    <3> QED BY <1>3, <1>7, <3>1
  <2> QED BY <1>7, <2>1, <2>2 DEF WebAt
<1>10. /\ web' = [web EXCEPT ![c] = s] /\ reached' = [reached EXCEPT ![c] = {}]
       /\ missed' = [missed EXCEPT ![c] = bad]
  <2>1. [NoWeb EXCEPT !.pc = "compose", !.user = u, !.to = to,
                      !.todo = local, !.remote = to \ local # {}] = s
    BY <1>3, <1>6, Zenon
  <2> QED BY <1>1, <1>4, <2>1 DEF Compose
<1>11. StoreStep
  BY WebHas, StoreStutters DEF Compose
<1>12. {} \in SUBSET Who
  OBVIOUS
<1> QED BY <1>7, <1>9, <1>10, <1>11, <1>12, WebSteps

(* One local recipient of the composer: who has no INBOX has no account.    *)
LEMMA ComposeDeliverSafe ==
  ASSUME IInv, NEW c \in Conn, ComposeDeliver(c), UNCHANGED revived
  PROVE  WebSafe
<1>1. PICK q \in WebState, got \in SUBSET Who, bad \in SUBSET Who :
         q = web[c] /\ got = reached[c] /\ bad = missed[c] /\ WebAt(q, got, bad)
  BY WebHas
<1>2. q.pc = "compose"
  BY <1>1 DEF ComposeDeliver
<1>3. /\ ((q.to \ q.todo) \ (got \cup bad)) \cap users = {} /\ (Nobody \in q.to => q.remote) /\ q.reply = "none"
  BY <1>1, <1>2 DEF WebAt
<1>4. PICK u \in web[c].todo :
     \/ /\ \E f \in FolderByName(u, "INBOX"), date \in Date :
             boxes[f].next <= MaxUid /\ Deliver(u, f, date, {})
        /\ web' = [web EXCEPT ![c].todo = @ \ {u}]
        /\ reached' = [reached EXCEPT ![c] = @ \cup {u}]
        /\ UNCHANGED missed
     \/ /\ web' = [web EXCEPT ![c].todo = Skipped(@, u)]
        /\ missed' = [missed EXCEPT ![c] = IF FolderByName(u, "INBOX") # {} THEN @ \cup {u} ELSE @]
        /\ UNCHANGED << rows, boxes, nextRow, reached >>
  BY DEF ComposeDeliver
<1>5. UNCHANGED << users, nextBox, asked >>
  BY DEF ComposeDeliver
<1>6. PICK todo \in SUBSET User : todo = q.todo \ {u}
  BY <1>1, WebFields
<1>7. PICK s : s = [q EXCEPT !.todo = todo]
  OBVIOUS
<1>8. /\ s \in WebState /\ s.pc = "compose" /\ s.to = q.to /\ s.todo = todo /\ s.remote = q.remote
      /\ s.reply = "none"
  BY <1>1, <1>2, <1>3, <1>6, <1>7 DEF WebState
<1>9. web' = [web EXCEPT ![c] = s]
  BY <1>1, <1>4, <1>6, <1>7, WebHas DEF Skipped
<1>10. u \in Who
  BY <1>1, <1>4, WebFields DEF Who
<1>11. ASSUME NEW f \in FolderByName(u, "INBOX"), NEW date \in Date,
              boxes[f].next <= MaxUid, Deliver(u, f, date, {}),
              reached' = [reached EXCEPT ![c] = @ \cup {u}], UNCHANGED missed
       PROVE  WebSafe
  <2>1. f \in DOMAIN boxes /\ boxes[f].user = u
    BY DEF FolderByName
  <2>2. PICK fl \in SUBSET AnyFlag : fl = {}
    OBVIOUS
  <2>3. StoreStep
    BY <1>5, <1>11, <2>1, <2>2, WebHas, DeliverStep
  <2>4. PICK now \in SUBSET Who : now = got \cup {u}
    BY <1>10
  <2>5. reached' = [reached EXCEPT ![c] = now] /\ missed' = [missed EXCEPT ![c] = bad]
    BY <1>1, <1>11, <2>4, WebHas
  <2>6. WebAt(s, now, bad)
    BY <1>3, <1>6, <1>8, <2>4 DEF WebAt
  <2> QED BY <1>1, <1>8, <1>9, <2>3, <2>4, <2>5, <2>6, WebSteps
<1>12. CASE /\ missed' = [missed EXCEPT ![c] = IF FolderByName(u, "INBOX") # {} THEN @ \cup {u} ELSE @]
            /\ UNCHANGED << rows, boxes, nextRow, reached >>
  <2>1. StoreStep
    BY <1>5, <1>12, WebHas, StoreStutters DEF mvars
  <2>2. PICK worse \in SUBSET Who : worse = IF FolderByName(u, "INBOX") # {} THEN bad \cup {u} ELSE bad
    BY <1>1, <1>10
  <2>3. bad \subseteq worse /\ (u \in worse \/ u \notin users)
    BY <2>2, WebHas DEF Inboxes
  <2>4. reached' = [reached EXCEPT ![c] = got] /\ missed' = [missed EXCEPT ![c] = worse]
    BY <1>1, <1>12, <2>2, WebHas
  <2>5. WebAt(s, got, worse)
    BY <1>3, <1>6, <1>8, <2>3 DEF WebAt
  <2> QED BY <1>1, <1>8, <1>9, <2>1, <2>2, <2>4, <2>5, WebSteps
<1> QED BY <1>4, <1>11, <1>12

(* The Sent copy of the composer.                                           *)
LEMMA ComposeSentSafe ==
  ASSUME IInv, NEW c \in Conn, ComposeSent(c), UNCHANGED revived
  PROVE  WebSafe
<1>1. PICK q \in WebState, got \in SUBSET Who, bad \in SUBSET Who :
         q = web[c] /\ got = reached[c] /\ bad = missed[c] /\ WebAt(q, got, bad)
  BY WebHas
<1>2. UNCHANGED << users, nextBox, asked, reached, missed >>
  BY DEF ComposeSent
<1>3. StoreStep
  <2>1. ASSUME NEW f \in FolderByName(web[c].user, "Sent"), NEW date \in Date,
               boxes[f].next <= MaxUid, Deliver(web[c].user, f, date, {})
        PROVE  StoreStep
    <3>1. f \in DOMAIN boxes /\ boxes[f].user = web[c].user
      BY DEF FolderByName
    <3>2. PICK fl \in SUBSET AnyFlag : fl = {}
      OBVIOUS
    <3> QED BY <1>2, <2>1, <3>1, <3>2, WebHas, DeliverStep
  <2>2. CASE UNCHANGED << rows, boxes, nextRow >>
    BY <1>2, <2>2, WebHas, StoreStutters DEF mvars
  <2> QED BY <2>1, <2>2 DEF ComposeSent
<1>4. PICK s : s = [q EXCEPT !.pc = "enqueue"]
  OBVIOUS
<1>5. /\ s \in WebState /\ s.pc = "enqueue" /\ s.to = q.to /\ s.todo = q.todo /\ s.remote = q.remote
      /\ s.reply = q.reply /\ q.pc = "compose" /\ q.todo = {}
  BY <1>1, <1>4 DEF WebState, ComposeSent
<1>6. WebAt(s, got, bad)
  BY <1>1, <1>5 DEF WebAt
<1>7. web' = [web EXCEPT ![c] = s] /\ reached' = [reached EXCEPT ![c] = got] /\ missed' = [missed EXCEPT ![c] = bad]
  BY <1>1, <1>2, <1>4, WebHas DEF ComposeSent
<1> QED BY <1>1, <1>3, <1>5, <1>6, <1>7, WebSteps

(* The remote recipients, and the answer.                                   *)
LEMMA ComposeEnqueueSafe ==
  ASSUME IInv, NEW c \in Conn, ComposeEnqueue(c), UNCHANGED revived
  PROVE  WebSafe
<1>1. PICK q \in WebState, got \in SUBSET Who, bad \in SUBSET Who :
         q = web[c] /\ got = reached[c] /\ bad = missed[c] /\ WebAt(q, got, bad)
  BY WebHas
<1>2. PICK ok \in BOOLEAN :
       /\ web' = [web EXCEPT ![c].pc = "idle", ![c].reply = IF ok THEN "sent" ELSE "error"]
       /\ reached' = [reached EXCEPT ![c] = IF ok /\ web[c].remote THEN @ \cup {Nobody} ELSE @]
  BY DEF ComposeEnqueue
<1>3. /\ q.pc = "enqueue" /\ ((q.to \ q.todo) \ (got \cup bad)) \cap users = {} /\ q.todo = {}
      /\ Nobody \in q.to => q.remote
  BY <1>1 DEF ComposeEnqueue, WebAt
<1>4. PICK r \in {"sent", "error"} : r = IF ok THEN "sent" ELSE "error"
  OBVIOUS
<1>5. PICK now \in SUBSET Who : now = IF ok /\ q.remote THEN got \cup {Nobody} ELSE got
  BY <1>1 DEF Who
<1>6. PICK s : s = [q EXCEPT !.pc = "idle", !.reply = r]
  OBVIOUS
<1>7. s \in WebState /\ s.pc = "idle" /\ s.to = q.to /\ s.reply = r /\ s.remote = q.remote
  BY <1>1, <1>4, <1>6 DEF WebState
<1>8. WebAt(s, now, bad)
  <2>1. got \subseteq now /\ (r = "sent" /\ q.remote => Nobody \in now)
    BY <1>4, <1>5
  <2> QED BY <1>3, <1>7, <2>1 DEF WebAt
<1>9. /\ web' = [web EXCEPT ![c] = s] /\ reached' = [reached EXCEPT ![c] = now]
      /\ missed' = [missed EXCEPT ![c] = bad]
  BY <1>1, <1>2, <1>4, <1>5, <1>6, WebHas DEF ComposeEnqueue
<1>10. StoreStep
  BY WebHas, StoreStutters DEF ComposeEnqueue
<1> QED BY <1>5, <1>7, <1>8, <1>9, <1>10, WebSteps

(* Every step of a webmail request.                                         *)
LEMMA WebStepSafe ==
  ASSUME IInv, NEW c \in Conn, WebStep(c), UNCHANGED revived
  PROVE  WebSafe
BY ReadOnlySafe, MessageSafe, ReadAllSafe, MarkAllSafe, ExpungeRequestSafe, ComposeSafe,
   ComposeDeliverSafe, ComposeSentSafe, ComposeEnqueueSafe DEF WebStep

-----------------------------------------------------------------------------
(* The whole.                                                               *)

(* The mailboxes change, no connection does.                                *)
LEMMA OthersClose ==
  ASSUME IInv, StoreStep, UNCHANGED << ivars, pop, svars, wvars >>
  PROVE  IInv' /\ LostAsked
<1>1. PopInv'
  BY DEF IInv, PopInv, PopAt
<1> QED BY <1>1, PopCloses

(* Mail arrives.                                                            *)
LEMMA ArriveSafe ==
  ASSUME IInv, Arrive
  PROVE  IInv' /\ LostAsked
<1>1. StoreInv
  BY DEF IInv
<1>2. PICK u \in users, date \in Date : \E f \in FolderByName(u, "INBOX") :
         boxes[f].next <= MaxUid /\ Deliver(u, f, date, {})
  BY DEF Arrive
<1>3. PICK f \in FolderByName(u, "INBOX") : boxes[f].next <= MaxUid /\ Deliver(u, f, date, {})
  BY <1>2
<1>4. f \in DOMAIN boxes /\ boxes[f].user = u
  BY DEF FolderByName
<1>5. PICK fl \in SUBSET AnyFlag : fl = {}
  OBVIOUS
<1>6. UNCHANGED << users, nextBox, asked, revived >> /\ UNCHANGED << ivars, pop, svars, wvars >>
  BY DEF Arrive, others, ivars, svars, wvars
<1>7. StoreStep
  BY <1>1, <1>3, <1>4, <1>5, <1>6, DeliverStep
<1> QED BY <1>6, <1>7, OthersClose

(* An account is deleted, with its folders and messages.                    *)
LEMMA AccountDeletedSafe ==
  ASSUME IInv, AccountDeleted
  PROVE  IInv' /\ LostAsked
<1>1. StoreInv /\ StoreTypes /\ Places
  BY DEF IInv, StoreInv
<1>2. PICK u \in users : DeleteAccount(u)
  BY DEF AccountDeleted
<1>3. UNCHANGED << nextBox, nextRow, revived >> /\ UNCHANGED << ivars, pop, svars, wvars >>
  BY DEF AccountDeleted, others, ivars, svars, wvars
<1>4. PICK fs : fs = {f \in DOMAIN boxes : boxes[f].user = u}
  OBVIOUS
<1>5. PICK ids : ids = OfUser(u)
  OBVIOUS
<1>6. /\ boxes' = Without(boxes, fs) /\ rows' = Without(rows, ids) /\ asked' = asked \cup ids
      /\ users' = users \ {u} /\ ids \subseteq DOMAIN rows
  BY <1>2, <1>4, <1>5 DEF DeleteAccount, OfUser
<1>7. \A m \in DOMAIN rows : rows[m].box \in fs => m \in ids
  BY <1>1, <1>4, <1>5 DEF Places, OfUser
<1>8. \A f \in fs \cap DOMAIN boxes : boxes[f].name # "INBOX" \/ boxes[f].user \notin users'
  BY <1>4, <1>6
<1>9. StoreStep
  <2>1. asked' = asked \cup (ids \cap DOMAIN rows) /\ users' \subseteq users
    BY <1>6
  <2> QED BY <1>1, <1>3, <1>6, <1>7, <1>8, <2>1, DropStep
<1> QED BY <1>3, <1>9, OthersClose

(* At the start there are the accounts with their system folders, and no    *)
(* messages.                                                                *)
LEMMA InitSafe == Init => IInv
<1> SUFFICES ASSUME Init PROVE IInv
  OBVIOUS
<1>1. PICK s \in Scenario : users = s.users /\ boxes = FirstBoxes(s.users, s.names)
  BY DEF Init
<1>2. PICK us, names : us = s.users /\ names = s.names
  OBVIOUS
<1>3. us \subseteq User /\ IsFiniteSet(us) /\ IsFiniteSet(names) /\ "INBOX" \in names
  BY <1>2, SessionsAssumption
<1>4. PICK D : D = [user : us, name : names, next : {1}]
  OBVIOUS
<1>5. boxes \in Seq(D) /\ \A d \in D : \E f \in DOMAIN boxes : boxes[f] = d
  <2>1. boxes = FirstBoxes(us, names)
    BY <1>1, <1>2
  <2> QED BY <1>3, <1>4, <2>1, FirstBoxesAre
<1>6. /\ DOMAIN boxes = 1 .. Len(boxes) /\ Len(boxes) \in Nat /\ nextBox = Len(boxes) + 1
      /\ \A f \in DOMAIN boxes : boxes[f] \in D
  <2>1. \A T : boxes \in Seq(T) => /\ DOMAIN boxes = 1 .. Len(boxes) /\ Len(boxes) \in Nat
                                   /\ \A i \in DOMAIN boxes : boxes[i] \in T
    OBVIOUS
  <2> QED BY <1>5, <2>1 DEF Init
<1>7. D \subseteq Folder
  <2>1. 1 \in 1 .. MaxUid + 1
    BY MailboxBounds
  <2>2. names \subseteq BoxName
    BY <1>2 DEF BoxName
  <2> QED BY <1>3, <1>4, <2>1, <2>2 DEF Folder
<1>8. /\ rows = << >> /\ nextRow = 1 /\ asked = {} /\ revived = {}
  BY DEF Init
<1>9. DOMAIN rows = {}
  BY <1>8
<1>10. StoreTypes
  <2>1. nextBox \in Nat \ {0} /\ DOMAIN boxes \subseteq 1 .. nextBox - 1 /\ \A f \in DOMAIN boxes : boxes[f] \in Folder
    BY <1>6, <1>7
  <2> QED BY <1>1, <1>2, <1>3, <1>8, <1>9, <2>1 DEF StoreTypes
<1>11. Places /\ AskedKnown /\ DeletedAsked
  BY <1>8, <1>9 DEF Places, AskedKnown, DeletedAsked
<1>12. Inboxes
  <2> SUFFICES ASSUME NEW u \in users PROVE FolderByName(u, "INBOX") # {}
    BY DEF Inboxes
  <2>1. PICK d : d = [user |-> u, name |-> "INBOX", next |-> 1]
    OBVIOUS
  <2>2. d \in D
    BY <1>1, <1>2, <1>3, <1>4, <2>1
  <2>3. PICK f \in DOMAIN boxes : boxes[f] = d
    BY <1>5, <2>2
  <2> QED BY <2>1, <2>3 DEF FolderByName
<1>13. ImapInv
  <2>1. PICK q : q = NoImap
    OBVIOUS
  <2>2. PICK v : v = NoClient
    OBVIOUS
  <2>3. /\ q \in ImapState /\ q.pc = "ready" /\ q.todo = {} /\ q.moved = {} /\ q.kept = {}
    BY <2>1 DEF NoImap, ImapState, Who
  <2>4. v \in ClientState /\ v.view = << >>
    BY <2>2 DEF NoClient, ClientState
  <2>5. ImapAt(q) /\ Counts(v, q)
    BY <2>3, <2>4, CountsNone DEF ImapAt
  <2>6. imap = [c \in Conn |-> q] /\ client = [c \in Conn |-> v]
    BY <2>1, <2>2 DEF Init
  <2> QED BY <2>3, <2>4, <2>5, <2>6 DEF ImapInv
<1>14. PopInv
  <2>1. PICK q : q = NoPop
    OBVIOUS
  <2>2. pop = [c \in Conn |-> q]
    BY <2>1 DEF Init
  <2> QED BY <2>1, <2>2, NoPopIs DEF PopInv
<1>15. SmtpInv
  <2>1. PICK q : q = NoSmtp
    OBVIOUS
  <2>2. q \in SmtpState /\ q.pc = "ready" /\ ~q.from /\ q.rcpts = << >>
    BY <2>1 DEF NoSmtp, SmtpState, Who
  <2>3. SmtpAt(q, {}, {}, {}, "none") /\ Answered({}, {}, {}, "none")
    BY <2>2 DEF SmtpAt, RcptsAt, MailAt, DataAt, Answered
  <2>4. /\ smtp = [c \in Conn |-> q] /\ answer = [c \in Conn |-> "none"]
        /\ given = [c \in Conn |-> {}] /\ copied = [c \in Conn |-> {}] /\ dropped = [c \in Conn |-> {}]
    BY <2>1 DEF Init
  <2>5. \A c \in Conn : smtp[c] = q /\ given[c] = {} /\ copied[c] = {} /\ dropped[c] = {} /\ answer[c] = "none"
    BY <2>4
  <2>6. "none" \in Said
    BY DEF Said
  <2>7. /\ smtp \in [Conn -> SmtpState] /\ answer \in [Conn -> Said]
        /\ given \in [Conn -> SUBSET Who] /\ copied \in [Conn -> SUBSET Who]
  /\ dropped \in [Conn -> SUBSET Who]
    BY <2>2, <2>4, <2>6
  <2> QED BY <2>3, <2>5, <2>7 DEF SmtpInv
<1>16. WebInv
  <2>1. PICK q : q = NoWeb
    OBVIOUS
  <2>2. q \in WebState /\ q.pc = "idle" /\ q.reply = "none"
    BY <2>1 DEF NoWeb, WebState, Who
  <2>3. WebAt(q, {}, {})
    BY <2>2 DEF WebAt
  <2>4. web = [c \in Conn |-> q] /\ reached = [c \in Conn |-> {}] /\ missed = [c \in Conn |-> {}]
    BY <2>1 DEF Init
  <2> QED BY <2>2, <2>3, <2>4 DEF WebInv
<1> QED BY <1>10, <1>11, <1>12, <1>13, <1>14, <1>15, <1>16 DEF IInv, StoreInv

(* Whatever is done next.                                                   *)
LEMMA NextSafe ==
  ASSUME IInv, [Next]_vars
  PROVE  IInv' /\ LostAsked
<1>1. ASSUME NEW c \in Conn, Imap(c) PROVE IInv' /\ LostAsked
  <2>1. ImapStep(c, Names) /\ UNCHANGED << pop, svars, wvars >>
    BY <1>1 DEF Imap
  <2>2. StoreStep /\ ImapInv'
    BY <2>1, ImapStepSafe DEF ImapSafe
  <2> QED BY <2>1, <2>2, ImapCloses
<1>2. ASSUME NEW c \in Conn, Pop3(c) PROVE IInv' /\ LostAsked
  <2>1. Pop3Step(c) /\ UNCHANGED << ivars, svars, wvars >> /\ UNCHANGED revived
    BY <1>2 DEF Pop3, ivars
  <2>2. StoreStep /\ PopInv'
    BY <2>1, PopStepSafe DEF PopSafe
  <2> QED BY <2>1, <2>2, PopCloses
<1>3. ASSUME NEW c \in Conn, Smtp(c) PROVE IInv' /\ LostAsked
  <2>1. SmtpStep(c) /\ UNCHANGED << ivars, pop, wvars >> /\ UNCHANGED revived
    BY <1>3 DEF Smtp, ivars
  <2>2. StoreStep /\ SmtpInv'
    BY <2>1, SmtpStepSafe DEF SmtpSafe
  <2> QED BY <2>1, <2>2, SmtpCloses
<1>4. ASSUME NEW c \in Conn, Web(c) PROVE IInv' /\ LostAsked
  <2>1. WebStep(c) /\ UNCHANGED << ivars, pop, svars >> /\ UNCHANGED revived
    BY <1>4 DEF Web, ivars
  <2>2. StoreStep /\ WebInv'
    BY <2>1, WebStepSafe DEF WebSafe
  <2> QED BY <2>1, <2>2, WebCloses
<1>5. CASE UNCHANGED vars
  <2>1. UNCHANGED << mvars, revived >> /\ UNCHANGED << ivars, pop, svars, wvars >>
    BY <1>5 DEF vars, ivars
  <2>2. StoreStep
    BY <2>1, StoreStutters DEF IInv
  <2> QED BY <2>1, <2>2, OthersClose
<1> QED BY <1>1, <1>2, <1>3, <1>4, <1>5, ArriveSafe, AccountDeletedSafe DEF Next

(* The inductive invariant, of any number of connections, accounts and      *)
(* folder names.                                                            *)
THEOREM SessionsInvariant == Spec => []IInv
<1>1. Init => IInv
  BY InitSafe
<1>2. IInv /\ [Next]_vars => IInv'
  BY NextSafe
<1> QED BY <1>1, <1>2, PTL DEF Spec

(* The mailboxes are what they should be: every message is in a folder that *)
(* exists, is of that folder's account and has a uid the folder gave out.   *)
THEOREM SessionsTyped == Spec => []TypeOK
<1>1. IInv => TypeOK
  <2> SUFFICES ASSUME IInv PROVE TypeOK
    OBVIOUS
  <2>1. StoreTypes /\ Places /\ AskedKnown
    BY DEF IInv, StoreInv
  <2>2. \A f \in DOMAIN boxes : boxes[f].user \in User /\ boxes[f].next \in 1 .. MaxUid + 1
    BY <2>1 DEF StoreTypes, Folder
  <2>3. \A m \in DOMAIN rows : rows[m].flags \subseteq Flag \cup {"Seen"}
    BY <2>1 DEF StoreTypes, Row, AnyFlag
  <2> QED BY <2>1, <2>2, <2>3 DEF StoreTypes, Places, AskedKnown, TypeOK
<1> QED BY <1>1, SessionsInvariant, PTL

(* Until it is misled, an IMAP client counts the messages its session       *)
(* counts (session.Expunge and Move report numbers lowest first).           *)
THEOREM NumbersAgree == Spec => []SameNumbers
<1>1. IInv => SameNumbers
  BY DEF IInv, ImapInv, Counts, SameNumbers
<1> QED BY <1>1, SessionsInvariant, PTL

(* What DATA answered is so: nobody got a copy the client had not named;    *)
(* 250 leaves nobody out whose account lives and whose delivery the store   *)
(* took; 451 leaves no copies behind.                                       *)
THEOREM SmtpAnswersAreTrue == Spec => []SmtpAnswerHolds
<1>1. IInv => SmtpAnswerHolds
  BY DEF IInv, SmtpInv, Answered, SmtpAnswerHolds
<1> QED BY <1>1, SessionsInvariant, PTL

(* What webmail reports as sent has reached everybody whose account lives   *)
(* and whom the store did not fail, and was queued when somebody was not    *)
(* found here.                                                              *)
THEOREM ComposeAnswersAreTrue == Spec => []ComposeAnswerHolds
<1>1. IInv => ComposeAnswerHolds
  BY DEF IInv, WebInv, WebAt, ComposeAnswerHolds
<1> QED BY <1>1, SessionsInvariant, PTL

(* No step of any connection loses a message nobody asked to be removed,    *)
(* unless an IMAP session acts on an old copy of the flags.                 *)
THEOREM NothingLostUnasked == Spec => LostOnlyIfAsked
<1>1. IInv /\ [Next]_vars => [DOMAIN rows \ DOMAIN rows' \subseteq asked \cup asked' \cup revived]_vars
  BY NextSafe DEF LostAsked
<1> QED BY <1>1, SessionsInvariant, PTL DEF Spec, LostOnlyIfAsked

=============================================================================

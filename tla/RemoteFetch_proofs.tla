------------------------ MODULE RemoteFetch_proofs ------------------------
(***************************************************************************)
(* Theorems about RemoteFetch, for any number of polls at once, messages,  *)
(* new UIDVALIDITYs and failures.                                          *)
(***************************************************************************)
EXTENDS RemoteFetch, FiniteSetTheorems, TLAPS

(* The types, with the polls named; what a poll took from the mailbox has  *)
(* arrived there, and the UIDVALIDITY it saw was one of the mailbox.       *)
Poll == [pc : {"idle", "compare", "renew", "reset", "load", "search", "fetch", "deliver"},
         val : 0 .. MaxValidity, next : 0 .. MaxMsg + 1, last : 0 .. MaxMsg,
         top : 0 .. MaxMsg, batch : UNION {[d -> Uid] : d \in SUBSET Msg}]
Drop == [pc : {"idle", "greet", "list", "seen", "next", "deliver", "mark", "dele", "quit"},
         refs : SUBSET Msg, seen : SUBSET Msg, msg : 0 .. MaxMsg, body : 0 .. MaxMsg,
         count : 0 .. SaveEvery - 1, dele : SUBSET Msg, owed : SUBSET Msg, late : BOOLEAN]
Come == 1 .. arrived
PollFits(p) == p.val <= validity /\ p.last <= p.top /\ DOMAIN p.batch \subseteq Come
DropFits(p) ==
  p.refs \cup p.owed \subseteq Come /\ (p.pc = "deliver" => p.msg \in Come /\ p.body \in Come)

Remote == SharedTypeOK
Marks ==
  /\ validity \in 1 .. MaxValidity
  /\ mark \in [validity : 0 .. MaxValidity, last : 0 .. MaxMsg]
  /\ markOf \in 0 .. validity /\ torn \in BOOLEAN /\ bodiless \subseteq Msg
Polls == isess \in [Session -> Poll] /\ \A s \in Session : PollFits(isess[s])
Lists ==
  /\ tls \in {"ssl", "clear"} /\ keep \in BOOLEAN
  /\ saved \subseteq Msg /\ Cardinality(saved) <= SeenCap
  /\ again \in Nat /\ blind \in Nat /\ mistaken \subseteq Msg
  /\ excuse \subseteq {"overlap", "forgot", "late"}
Drops == psess \in [Session -> Drop] /\ \A s \in Session : DropFits(psess[s])
Types == Remote /\ Marks /\ Polls /\ Lists /\ Drops

(* POP3: what a poll has marked for deletion is delivered, or another was  *)
(* delivered for it; and so is what it is about to mark.                   *)
DeletesDelivered(p) ==
  /\ p.dele \subseteq inbox \cup mistaken
  /\ p.pc \in {"mark", "dele"} => p.msg \in inbox \cup mistaken
Kept == LostOnlyIfMistaken /\ \A s \in Session : DeletesDelivered(psess[s])

(* IMAP: l covers the mailbox when all that has a UID up to l is delivered *)
(* (or came without a body) and what comes next gets a greater UID.  The   *)
(* mark does, as long as it was counted under the present UIDVALIDITY; and *)
(* so does the mark a poll carries, which may be raised to what it has     *)
(* delivered when there is nothing left of its batch.                      *)
Covers(l) ==
  l < uidNext /\ \A m \in Present \ bodiless : box[m] <= l => m \in inbox
Raised(p) ==
  /\ p.top < uidNext /\ \A m \in DOMAIN p.batch : p.batch[m] < uidNext
  /\ \A m \in Present \ bodiless :
       m \in inbox \cup DOMAIN p.batch \/ (box[m] > p.top /\ \A n \in DOMAIN p.batch : box[m] > p.batch[n])
Carries(p) ==
  ~ torn /\ p.val = validity =>
    /\ p.next <= uidNext
    /\ p.pc = "search" => p.top = p.last /\ Covers(p.last)
    /\ p.pc \in {"fetch", "deliver"} => Raised(p)
Honest ==
  /\ ~ torn /\ markOf = validity => Covers(mark.last)
  /\ \A s \in Session : Carries(isess[s])

(* POP3: as long as polls do not overlap, no written list forgot and no    *)
(* answer came late, what was delivered and is in no list is a debt a later *)
(* poll may pay with a repeated delivery.  A poll that could read the list *)
(* counts from the one that is saved, and one that could not from none;    *)
(* either has delivered some messages since it last wrote its own.  Every  *)
(* failure adds at most SaveEvery to the debt, and one to read the list    *)
(* the whole maildrop.                                                     *)
Allowed == SaveEvery * mishaps + arrived * blind
Unwritten(p) == IF p.pc = "mark" THEN SaveEvery ELSE IF p.pc = "quit" THEN 0 ELSE p.count
Lone(s) == \A t \in Session \ {s} : psess[t] = NoDrop
Debt(p, l) ==
  again + Cardinality(inbox \ (l \cup p.seen)) + Cardinality(p.seen \ l) <= Allowed + Unwritten(p)
Fresh(p, l) ==
  /\ p.pc = "idle" => p = NoDrop
  /\ p.pc \in {"idle", "greet", "list", "seen"} => p.seen = {} /\ p.count = 0 /\ l = saved
  /\ p.pc \in {"next", "deliver", "mark", "dele", "quit"} => l \subseteq p.seen
  /\ p.pc = "mark" => p.count = 0
  /\ p.pc \in {"next", "deliver", "mark", "dele"} => p.refs \cap p.seen = {}
  /\ p.pc = "deliver" => p.msg \notin p.seen \cup p.refs
Owes(p, l) == Fresh(p, l) /\ Unwritten(p) <= Cardinality(p.seen \ l) /\ Debt(p, l)
Owed(p) == \E l \in {saved, {}} : Owes(p, l)
Repeats ==
  /\ AgainBounded
  /\ \A s \in Session : psess[s].pc = "idle" => psess[s] = NoDrop
  /\ proto = "imap" => again = 0 /\ \A s \in Session : psess[s] = NoDrop
  /\ proto = "pop3" /\ excuse = {} => \E s \in Session : Lone(s) /\ Owed(psess[s])

IInv == Types /\ Kept /\ Honest /\ Repeats
-----------------------------------------------------------------------------

(* What the assumptions say of the bounds.                                  *)
LEMMA Bounds ==
  /\ MaxMsg \in Nat /\ MaxGone \in Nat /\ MaxMishaps \in Nat
  /\ MaxValidity \in Nat /\ MaxValidity >= 1
  /\ SaveEvery \in Nat /\ SaveEvery >= 1 /\ SeenCap \in Nat
BY FetchBounds, ValidityBound, SaveEveryPositive, SeenCapNat

USE Bounds, PollerIsSession

(* A set of numbers has a least one.  It is the well-founded order of the  *)
(* finite sets that gives it: the induction theorem for numbers has an     *)
(* operator as a parameter.                                                *)
LEMMA MinIsIn ==
  ASSUME NEW S \in SUBSET Nat, S # {}
  PROVE  Min(S) \in S
<1> DEFINE T == {0 .. m : m \in S}
           R == StrictSubsetOrdering(Nat)
<1>1. IsWellFoundedOn(R, FiniteSubsetsOf(Nat))
  BY FS_StrictSubsetOrderingWellFounded
<1>2. T \subseteq FiniteSubsetsOf(Nat) /\ T # {}
  <2>1. \A m \in S : IsFiniteSet(0 .. m) /\ 0 .. m \in SUBSET Nat
    BY FS_Interval
  <2>2. \A t \in T : IsFiniteSet(t) /\ t \in SUBSET Nat
    BY <2>1
  <2>3. T # {}
    OBVIOUS
  <2> HIDE DEF T
  <2> QED BY <2>2, <2>3 DEF FiniteSubsetsOf
<1>3. PICK t \in T : \A u \in T : ~ << u, t >> \in R
  <2> HIDE DEF R, T
  <2> QED BY <1>1, <1>2, WFMin
<1>4. PICK x \in S : t = 0 .. x
  OBVIOUS
<1>5. \A y \in S : x <= y
  <2> SUFFICES ASSUME NEW y \in S, ~ (x <= y) PROVE FALSE
    OBVIOUS
  <2>1. y < x /\ x \in Nat /\ y \in Nat
    OBVIOUS
  <2>2. 0 .. y \subseteq 0 .. x /\ x \in 0 .. x /\ x \notin 0 .. y
    BY <2>1
  <2>3. << 0 .. y, 0 .. x >> \in R
    BY <2>2 DEF StrictSubsetOrdering
  <2> QED BY <2>3, <1>3, <1>4
<1> QED BY <1>5 DEF Min

(* The greater of two numbers is one of them.                              *)
LEMMA TopUidIs ==
  ASSUME NEW a \in Nat, NEW b \in Nat
  PROVE  TopUid(a, b) = IF a >= b THEN a ELSE b
BY DEF TopUid, Max

(* Sets of messages are finite; what two of them cover is not more than    *)
(* both together; and one more message is one more.                        *)
LEMMA FiniteMsgs ==
  ASSUME NEW S \in SUBSET Msg
  PROVE  IsFiniteSet(S) /\ Cardinality(S) \in Nat
<1>1. IsFiniteSet(Msg)
  BY FS_Interval DEF Msg
<1> QED BY <1>1, FS_Subset, FS_CardinalityType

(* A set of messages within two others is no larger than both.              *)
LEMMA Cover ==
  ASSUME NEW A \in SUBSET Msg, NEW B \in SUBSET Msg, NEW C \in SUBSET Msg, A \subseteq B \cup C
  PROVE  Cardinality(A) <= Cardinality(B) + Cardinality(C)
<1>1. IsFiniteSet(B) /\ IsFiniteSet(C) /\ IsFiniteSet(B \cap C)
  BY FiniteMsgs
<1>2. /\ IsFiniteSet(B \cup C)
      /\ Cardinality(B \cup C) = Cardinality(B) + Cardinality(C) - Cardinality(B \cap C)
  BY <1>1, FS_Union
<1>3. /\ Cardinality(B) \in Nat /\ Cardinality(C) \in Nat /\ Cardinality(B \cap C) \in Nat
      /\ Cardinality(B \cup C) \in Nat
  BY FiniteMsgs
<1>4. Cardinality(A) <= Cardinality(B \cup C) /\ Cardinality(A) \in Nat
  BY <1>2, FS_Subset, FiniteMsgs
<1> QED BY <1>2, <1>3, <1>4

(* Adding a message to a set of messages, and taking one out, counts one.   *)
LEMMA OneMore ==
  ASSUME NEW S \in SUBSET Msg, NEW m \in Msg
  PROVE  /\ m \notin S => Cardinality(S \cup {m}) = Cardinality(S) + 1
         /\ m \in S => Cardinality(S) = Cardinality(S \ {m}) + 1
<1>1. IsFiniteSet(S) /\ Cardinality(S) \in Nat /\ Cardinality(S \ {m}) \in Nat
  BY FiniteMsgs
<1>2. m \notin S => Cardinality(S \cup {m}) = Cardinality(S) + 1
  BY <1>1, FS_AddElement
<1>3. Cardinality(S \ {m}) = IF m \in S THEN Cardinality(S) - 1 ELSE Cardinality(S)
  BY <1>1, FS_RemoveElement
<1> QED BY <1>1, <1>2, <1>3

(* What is empty has no messages; and what is contained in a set has no    *)
(* more than it.                                                           *)
LEMMA NoneIsZero == Cardinality({}) = 0
BY FS_EmptySet

(* A subset of a set of messages is no larger.                              *)
LEMMA Fewer ==
  ASSUME NEW S \in SUBSET Msg, NEW T \in SUBSET S
  PROVE  Cardinality(T) <= Cardinality(S)
BY FiniteMsgs, FS_Subset
-----------------------------------------------------------------------------

(* The blank poll of either protocol is one.                               *)
LEMMA Blank ==
  ASSUME Marks
  PROVE  /\ NoPoll \in Poll /\ PollFits(NoPoll)
         /\ NoDrop \in Drop /\ DropFits(NoDrop)
<1>1. << >> \in [{} -> Uid] /\ DOMAIN << >> = {}
  OBVIOUS
<1>2. << >> \in UNION {[d -> Uid] : d \in SUBSET Msg}
  BY <1>1
<1>3. NoPoll \in Poll /\ PollFits(NoPoll)
  <2>1. NoPoll \in Poll
    BY <1>2 DEF NoPoll, Poll
  <2>2. PollFits(NoPoll)
    BY <1>1 DEF NoPoll, PollFits, Marks
  <2> QED BY <2>1, <2>2
<1>4. NoDrop \in Drop /\ DropFits(NoDrop)
  BY DEF Drop, NoDrop, DropFits
<1> QED BY <1>3, <1>4

(* The initial states.                                                     *)
LEMMA InitTypes == Init => Types
<1> SUFFICES ASSUME Init PROVE Types
  OBVIOUS
<1>1. Present = {}
  BY DEF Present, Init, SharedInit
<1>2. Remote
  BY <1>1 DEF Remote, SharedTypeOK, Msg, Init, SharedInit
<1>3. Marks
  <2>1. validity = 1 /\ mark = [validity |-> 0, last |-> 0] /\ markOf = 0 /\ torn = FALSE /\ bodiless = {}
    BY DEF Init, ImapInit
  <2>2. mark \in [validity : 0 .. MaxValidity, last : 0 .. MaxMsg]
    BY <2>1
  <2>3. torn \in BOOLEAN
    BY <2>1
  <2>4. validity \in 1 .. MaxValidity /\ markOf \in 0 .. validity /\ bodiless \subseteq Msg
    BY <2>1
  <2> QED BY <2>2, <2>3, <2>4 DEF Marks
<1>4. Polls
  BY <1>3, Blank DEF Polls, Init, ImapInit
<1>5. Lists
  BY NoneIsZero DEF Lists, Init, PopInit
<1>6. Drops
  BY <1>3, Blank DEF Drops, Init, PopInit
<1> QED BY <1>2, <1>3, <1>4, <1>5, <1>6 DEF Types

(* A step that leaves the mailbox as it is, and delivers only what came.   *)
LEMMA RemoteKept ==
  ASSUME Remote, UNCHANGED << proto, server >>, inbox' \subseteq Come,
         mishaps' = mishaps \/ Fails
  PROVE  Remote'
<1>1. mishaps' \in 0 .. MaxMishaps
  BY DEF Remote, SharedTypeOK, Fails
<1>2. Present' = Present
  BY DEF Present, server
<1> QED BY <1>1, <1>2 DEF Remote, SharedTypeOK, server, Come

(* One poll goes on, or none does.                                         *)
LEMMA OnePoll ==
  ASSUME Polls, NEW s \in Session, NEW r \in Poll, PollFits(r),
         isess' = [isess EXCEPT ![s] = r], validity' = validity, arrived' = arrived
  PROVE  /\ Polls'
         /\ isess'[s] = r /\ \A t \in Session \ {s} : isess'[t] = isess[t]
<1>1. isess' \in [Session -> Poll] /\ isess'[s] = r
      /\ \A t \in Session \ {s} : isess'[t] = isess[t]
  BY DEF Polls
<1>2. \A t \in Session : PollFits(isess[t])' 
  <2> TAKE t \in Session
  <2>1. PollFits(isess[t])
    BY DEF Polls
  <2> QED BY <2>1, <1>1 DEF PollFits, Come
<1> QED BY <1>1, <1>2 DEF Polls

(* Replacing the state of one POP3 poll by a fitting one keeps their        *)
(* types.                                                                   *)
LEMMA OneDrop ==
  ASSUME Drops, NEW s \in Session, NEW r \in Drop, DropFits(r),
         psess' = [psess EXCEPT ![s] = r], arrived' = arrived
  PROVE  /\ Drops'
         /\ psess'[s] = r /\ \A t \in Session \ {s} : psess'[t] = psess[t]
<1>1. psess' \in [Session -> Drop] /\ psess'[s] = r
      /\ \A t \in Session \ {s} : psess'[t] = psess[t]
  BY DEF Drops
<1>2. \A t \in Session : DropFits(psess[t])'
  <2> TAKE t \in Session
  <2>1. DropFits(psess[t])
    BY DEF Drops
  <2> QED BY <2>1, <1>1 DEF DropFits, Come
<1> QED BY <1>1, <1>2 DEF Drops

(* The IMAP polls keep their types when only the server moves.              *)
LEMMA NoPollGoesOn ==
  ASSUME Remote, Marks, Polls, UNCHANGED isess, validity' \in Nat, validity <= validity',
         arrived' \in Nat, arrived <= arrived'
  PROVE  Polls'
<1>1. \A t \in Session : PollFits(isess[t])'
  <2> TAKE t \in Session
  <2>1. PollFits(isess[t]) /\ isess[t] \in Poll
    BY DEF Polls
  <2>2. isess[t].val \in Nat
    BY <2>1 DEF Poll
  <2>3. Come \subseteq Come'
    BY DEF Come, Remote, SharedTypeOK
  <2> QED BY <2>1, <2>2, <2>3 DEF PollFits, Marks
<1> QED BY <1>1 DEF Polls

(* So do the POP3 polls.                                                    *)
LEMMA NoDropGoesOn ==
  ASSUME Remote, Drops, UNCHANGED psess, arrived' \in Nat, arrived <= arrived'
  PROVE  Drops'
<1>1. Come \subseteq Come'
  BY DEF Come, Remote, SharedTypeOK
<1> QED BY <1>1 DEF Drops, DropFits

-----------------------------------------------------------------------------

(* What every step does to the mailbox and the inbox: unless it gets a new *)
(* UIDVALIDITY, a message that is there has its UID from before, or one    *)
(* from UIDNEXT on.                                                        *)
Grows ==
  \/ validity' > validity
  \/ /\ validity' = validity /\ (torn => torn')
     /\ inbox \subseteq inbox' /\ bodiless \subseteq bodiless' /\ uidNext <= uidNext'
     /\ \A m \in Present' : (m \in Present /\ box'[m] = box[m]) \/ box'[m] >= uidNext

(* A step that leaves the mailbox alone only adds to what is delivered.     *)
LEMMA QuietGrows ==
  ASSUME Types, UNCHANGED << server, validity >>, torn => torn', inbox \subseteq inbox',
         bodiless \subseteq bodiless'
  PROVE  Grows
<1>1. Present' = Present /\ box' = box /\ uidNext' = uidNext
  BY DEF Present, server
<1> QED BY <1>1 DEF Grows, Types, Remote, SharedTypeOK

(* What a step does not break: a mark that covers the mailbox does so      *)
(* until there is a new UIDVALIDITY, and a poll that carries one carries it*)
(* on.                                                                     *)
LEMMA CoversStays ==
  ASSUME Types, Types', Grows, validity' = validity, NEW l \in Nat, Covers(l)
  PROVE  Covers(l)'
<1>1. /\ inbox \subseteq inbox' /\ bodiless \subseteq bodiless' /\ uidNext <= uidNext'
      /\ \A m \in Present' : (m \in Present /\ box'[m] = box[m]) \/ box'[m] >= uidNext
  BY DEF Grows, Types, Marks
<1>2. uidNext \in Nat /\ uidNext' \in Nat /\ l < uidNext
  BY DEF Types, Remote, SharedTypeOK, Covers
<1>3. l < uidNext'
  BY <1>1, <1>2
<1>4. ASSUME NEW m \in Present' \ bodiless', box'[m] <= l PROVE m \in inbox'
  <2>1. box'[m] \in Nat
    BY DEF Types, Remote, SharedTypeOK, Present
  <2>2. m \in Present /\ box'[m] = box[m]
    BY <1>1, <1>2, <1>4, <2>1
  <2> QED BY <1>1, <1>4, <2>2 DEF Covers
<1> QED BY <1>3, <1>4 DEF Covers

(* A mark that may be raised over a batch still may when more is            *)
(* delivered.                                                               *)
LEMMA RaisedStays ==
  ASSUME Types, Types', Grows, validity' = validity, NEW p \in Poll, Raised(p)
  PROVE  Raised(p)'
<1>1. /\ inbox \subseteq inbox' /\ bodiless \subseteq bodiless' /\ uidNext <= uidNext'
      /\ \A m \in Present' : (m \in Present /\ box'[m] = box[m]) \/ box'[m] >= uidNext
  BY DEF Grows, Types, Marks
<1>2. uidNext \in Nat /\ uidNext' \in Nat
  BY DEF Types, Remote, SharedTypeOK
<1>3. p.top \in Nat /\ \A n \in DOMAIN p.batch : p.batch[n] \in Nat
  BY DEF Poll, Uid
<1>4. p.top < uidNext /\ \A n \in DOMAIN p.batch : p.batch[n] < uidNext
  BY DEF Raised
<1>5. p.top < uidNext' /\ \A n \in DOMAIN p.batch : p.batch[n] < uidNext'
  BY <1>1, <1>2, <1>3, <1>4
<1>6. ASSUME NEW m \in Present' \ bodiless'
      PROVE  \/ m \in inbox' \cup DOMAIN p.batch
             \/ box'[m] > p.top /\ \A n \in DOMAIN p.batch : box'[m] > p.batch[n]
  <2>1. box'[m] \in Nat
    BY DEF Types, Remote, SharedTypeOK, Present
  <2>2. CASE m \in Present /\ box'[m] = box[m]
    BY <1>1, <2>2 DEF Raised
  <2>3. CASE box'[m] >= uidNext
    BY <1>2, <1>3, <1>4, <2>1, <2>3
  <2> QED BY <1>1, <2>2, <2>3
<1> QED BY <1>5, <1>6 DEF Raised

(* What a poll carries stays honest.                                        *)
LEMMA CarriesStays ==
  ASSUME Types, Types', Grows, NEW p \in Poll, PollFits(p), Carries(p)
  PROVE  Carries(p)'
<1>1. validity \in Nat /\ validity' \in Nat /\ p.val \in Nat /\ p.val <= validity
      /\ torn \in BOOLEAN /\ torn' \in BOOLEAN
  BY DEF Types, Marks, Poll, PollFits
<1> SUFFICES ASSUME ~ torn', p.val = validity' 
             PROVE  /\ p.next <= uidNext'
                    /\ p.pc = "search" => p.top = p.last /\ Covers(p.last)'
                    /\ p.pc \in {"fetch", "deliver"} => Raised(p)'
  BY DEF Carries
<1>2. validity' = validity /\ ~ torn /\ uidNext <= uidNext'
  BY <1>1 DEF Grows
<1>3. uidNext \in Nat /\ uidNext' \in Nat /\ p.next \in Nat /\ p.last \in Nat
  BY DEF Types, Remote, SharedTypeOK, Poll
<1>4. /\ p.next <= uidNext
      /\ p.pc = "search" => p.top = p.last /\ Covers(p.last)
      /\ p.pc \in {"fetch", "deliver"} => Raised(p)
  BY <1>2 DEF Carries
<1> QED BY <1>2, <1>3, <1>4, CoversStays, RaisedStays

(* So all that is left to see of a step is the mark and the poll it moves. *)
LEMMA MarkStays ==
  ASSUME Types, Types', Grows, Honest, UNCHANGED << mark, markOf >>
  PROVE  (~ torn /\ markOf = validity => Covers(mark.last))'
<1>1. validity \in Nat /\ validity' \in Nat /\ markOf \in Nat /\ markOf <= validity
      /\ torn \in BOOLEAN /\ torn' \in BOOLEAN /\ mark.last \in Nat
  BY DEF Types, Marks
<1> SUFFICES ASSUME ~ torn', markOf = validity' PROVE Covers(mark.last)'
  OBVIOUS
<1>2. validity' = validity /\ ~ torn
  BY <1>1 DEF Grows
<1>3. Covers(mark.last)
  BY <1>2 DEF Honest
<1>4. PICK l \in Nat : l = mark.last
  BY <1>1
<1>5. Covers(l)'
  BY <1>2, <1>3, <1>4, CoversStays
<1> QED BY <1>4, <1>5

(* So does what a poll carries that does not move.                          *)
LEMMA PollsStay ==
  ASSUME Types, Types', Grows, Honest, NEW t \in Session, isess'[t] = isess[t]
  PROVE  Carries(isess[t])'
<1>1. PICK p \in Poll : p = isess[t] /\ PollFits(p) /\ Carries(p)
  BY DEF Types, Polls, Honest
<1>2. Carries(p)'
  BY <1>1, CarriesStays
<1> QED BY <1>1, <1>2

(* And so do all marks, when no poll and no row moves.                      *)
LEMMA HonestStays ==
  ASSUME Types, Types', Grows, Honest, UNCHANGED << mark, markOf, isess >>
  PROVE  Honest'
<1>1. (~ torn /\ markOf = validity => Covers(mark.last))'
  BY MarkStays
<1>2. \A t \in Session : Carries(isess[t])'
  BY PollsStay
<1> QED BY <1>1, <1>2 DEF Honest


(* What came is on the server, gone or delivered, as before.                *)
LEMMA KeptStays ==
  ASSUME Kept, inbox \subseteq inbox', mistaken \subseteq mistaken', UNCHANGED psess,
         Come' \subseteq Present' \cup gone' \cup inbox' \cup mistaken'
  PROVE  Kept'
<1>1. LostOnlyIfMistaken'
  BY DEF LostOnlyIfMistaken, Come
<1>2. \A t \in Session : DeletesDelivered(psess[t])'
  BY DEF Kept, DeletesDelivered
<1> QED BY <1>1, <1>2 DEF Kept

(* Products of naturals, one factor growing by one.                         *)
LEMMA Product ==
  ASSUME NEW a \in Nat, NEW b \in Nat
  PROVE  /\ a * b \in Nat /\ a * (b + 1) = a * b + a /\ (a + 1) * b = a * b + b
OBVIOUS

(* What a failure adds to the allowance, and one to read the list.          *)
LEMMA AllowedGrows ==
  ASSUME Types, mishaps' = mishaps \/ Fails, arrived' = arrived \/ arrived' = arrived + 1,
         blind' = blind \/ (blind' = blind + 1 /\ arrived' = arrived)
  PROVE  /\ Allowed \in Nat /\ Allowed' \in Nat /\ Allowed' >= Allowed
         /\ Fails => Allowed' >= Allowed + SaveEvery
         /\ blind' = blind + 1 => Allowed' >= Allowed + arrived
<1>1. mishaps \in Nat /\ arrived \in Nat /\ blind \in Nat
  BY DEF Types, Remote, SharedTypeOK, Lists
<1> DEFINE A  == SaveEvery * mishaps
           A1 == SaveEvery * mishaps'
           B  == arrived * blind
           B1 == arrived' * blind'
<1>2. /\ A \in Nat /\ A1 \in Nat /\ A1 >= A /\ (Fails => A1 = A + SaveEvery)
  <2>1. CASE mishaps' = mishaps /\ ~ Fails
    BY <1>1, <2>1, Product
  <2>2. CASE Fails
    <3>1. mishaps' = mishaps + 1
      BY <2>2 DEF Fails
    <3>2. A \in Nat /\ SaveEvery * (mishaps + 1) = A + SaveEvery
      BY <1>1, Product
    <3>3. A1 = A + SaveEvery
      BY <3>1, <3>2
    <3> HIDE DEF A, A1
    <3> QED BY <3>2, <3>3
  <2> QED BY <2>1, <2>2
<1>3. /\ B \in Nat /\ B1 \in Nat /\ B1 >= B /\ (blind' = blind + 1 => B1 = B + arrived)
  <2>1. CASE arrived' = arrived /\ blind' = blind
    <3>1. B \in Nat /\ B1 = B /\ blind' # blind + 1
      BY <1>1, <2>1, Product
    <3> HIDE DEF B, B1
    <3> QED BY <3>1
  <2>2. CASE arrived' = arrived + 1 /\ blind' = blind
    <3>1. B \in Nat /\ (arrived + 1) * blind = B + blind /\ blind' # blind + 1
      BY <1>1, <2>2, Product
    <3>2. B1 = B + blind
      BY <2>2, <3>1
    <3> HIDE DEF B, B1
    <3> QED BY <1>1, <3>1, <3>2
  <2>3. CASE arrived' = arrived /\ blind' = blind + 1
    <3>1. B \in Nat /\ arrived * (blind + 1) = B + arrived
      BY <1>1, Product
    <3>2. B1 = B + arrived
      BY <2>3, <3>1
    <3> HIDE DEF B, B1
    <3> QED BY <1>1, <3>1, <3>2
  <2> QED BY <2>1, <2>2, <2>3
<1>4. Allowed = A + B /\ Allowed' = A1 + B1
  BY DEF Allowed
<1> HIDE DEF A, A1, B, B1
<1> QED BY <1>1, <1>2, <1>3, <1>4

(* The bound on repeats is the allowance, and a natural number.            *)
LEMMA Bounded ==
  ASSUME Types
  PROVE  Allowed \in Nat /\ (AgainBounded <=> again <= Allowed)
<1>1. mishaps \in Nat /\ arrived \in Nat /\ blind \in Nat
  BY DEF Types, Remote, SharedTypeOK, Lists
<1>2. SaveEvery * mishaps \in Nat /\ arrived * blind \in Nat
  BY <1>1, Product
<1> QED BY <1>2 DEF Allowed, AgainBounded

(* The numbers in the bound on repeats are natural.                         *)
LEMMA Counts ==
  ASSUME Types
  PROVE  /\ again \in Nat /\ Allowed \in Nat
         /\ inbox \in SUBSET Msg /\ saved \in SUBSET Msg /\ {} \in SUBSET Msg
         /\ \A p \in Drop, l \in SUBSET Msg :
              /\ p.seen \in SUBSET Msg /\ Unwritten(p) \in 0 .. SaveEvery
              /\ Cardinality(inbox \ (l \cup p.seen)) \in Nat
              /\ Cardinality(p.seen \ l) \in Nat
<1>1. again \in Nat /\ inbox \in SUBSET Msg /\ saved \in SUBSET Msg
  BY DEF Types, Lists, Remote, SharedTypeOK, Msg
<1>2. ASSUME NEW p \in Drop, NEW l \in SUBSET Msg
      PROVE  /\ p.seen \in SUBSET Msg /\ Unwritten(p) \in 0 .. SaveEvery
             /\ Cardinality(inbox \ (l \cup p.seen)) \in Nat
             /\ Cardinality(p.seen \ l) \in Nat
  <2>1. p.seen \in SUBSET Msg /\ Unwritten(p) \in 0 .. SaveEvery
    BY DEF Drop, Unwritten
  <2>2. inbox \ (l \cup p.seen) \in SUBSET Msg /\ p.seen \ l \in SUBSET Msg
    BY <1>1, <2>1
  <2> QED BY <2>1, <2>2, FiniteMsgs
<1> QED BY <1>1, <1>2, Bounded

(* A step that delivers nothing keeps the debt within its bound.            *)
LEMMA DebtStays ==
  ASSUME Types, UNCHANGED << again, inbox, blind >>, mishaps' = mishaps \/ Fails,
         arrived' = arrived \/ arrived' = arrived + 1,
         NEW p \in Drop, NEW l \in SUBSET Msg, Debt(p, l)
  PROVE  Debt(p, l)'
<1>1. Allowed' >= Allowed /\ Allowed' \in Nat /\ Allowed \in Nat
  BY AllowedGrows
<1> DEFINE A == Cardinality(inbox \ (l \cup p.seen))
           B == Cardinality(p.seen \ l)
           U == Unwritten(p)
<1>2. A \in Nat /\ B \in Nat /\ U \in Nat /\ again \in Nat
  <2>1. Unwritten(p) \in 0 .. SaveEvery /\ again \in Nat
    BY Counts
  <2>2. A \in Nat /\ B \in Nat
    BY Counts
  <2> HIDE DEF A, B
  <2> QED BY <2>1, <2>2
<1>3. again + A + B <= Allowed + U
  BY DEF Debt
<1>4. again + A + B <= Allowed' + U => Debt(p, l)'
  BY DEF Debt, Unwritten
<1>5. again + A + B <= Allowed' + U
  <2> HIDE DEF A, B, U
  <2>1. \A n, k, k1 \in Nat : n <= k + U /\ k1 >= k => n <= k1 + U
    BY <1>2
  <2>2. again + A + B \in Nat
    BY <1>2
  <2> QED BY <1>1, <1>3, <2>1, <2>2
<1> QED BY <1>4, <1>5

(* A step that repeats nothing keeps the bound on repeats.                  *)
LEMMA StillBounded ==
  ASSUME Types, AgainBounded, mishaps' = mishaps \/ Fails, again' = again,
         arrived' = arrived \/ arrived' = arrived + 1,
         blind' = blind \/ (blind' = blind + 1 /\ arrived' = arrived)
  PROVE  AgainBounded'
<1>1. Allowed' >= Allowed /\ Allowed' \in Nat /\ Allowed \in Nat /\ again \in Nat
  BY AllowedGrows, Counts
<1>2. again <= Allowed
  BY Bounded
<1>3. again' <= Allowed'
  BY <1>1, <1>2
<1> QED BY <1>3 DEF AgainBounded, Allowed

(* A step in which no poll over POP3 moves.                                *)
LEMMA RepeatsStay ==
  ASSUME Types, Repeats, UNCHANGED << proto, pvars >>, mishaps' = mishaps \/ Fails,
         arrived' = arrived \/ arrived' = arrived + 1, proto = "pop3" => UNCHANGED inbox
  PROVE  Repeats'
<1>1. UNCHANGED << again, excuse, saved, psess, blind >>
  BY DEF pvars, notes
<1>2. AgainBounded'
  BY <1>1, StillBounded DEF Repeats
<1>3. ASSUME proto = "pop3", excuse = {}
      PROVE  \E s \in Session : Lone(s)' /\ Owed(psess[s])'
  <2>1. PICK s \in Session : Lone(s) /\ Owed(psess[s])
    BY <1>3 DEF Repeats
  <2>2. PICK p \in Drop : p = psess[s]
    BY DEF Types, Drops
  <2>3. PICK l \in {saved, {}} : Owes(p, l)
    BY <2>1, <2>2 DEF Owed
  <2>4. Debt(p, l)'
    BY <1>1, <1>3, <2>3, Counts, DebtStays DEF Owes
  <2>5. Owes(p, l)'
    BY <1>1, <2>3, <2>4 DEF Owes, Fresh, Unwritten
  <2>6. Owed(p)'
    BY <1>1, <2>5 DEF Owed
  <2>7. Lone(s)' /\ psess'[s] = p
    BY <1>1, <2>1, <2>2 DEF Lone
  <2> QED BY <2>6, <2>7
<1> QED BY <1>1, <1>2, <1>3 DEF Repeats

-----------------------------------------------------------------------------

(* The mailbox: somebody sends a message, or deletes one elsewhere.        *)
LEMMA ArriveStep ==
  ASSUME Types, Arrive, UNCHANGED << ivars, pvars >>
  PROVE  Types' /\ Grows /\ Come' \subseteq Come \cup Present' /\ Present \subseteq Present'
<1>1. /\ arrived < MaxMsg /\ arrived' = arrived + 1 /\ uidNext' = uidNext + 1
      /\ box' = [box EXCEPT ![arrived + 1] = uidNext]
      /\ UNCHANGED << proto, gone, inbox, mishaps >>
  BY DEF Arrive
<1>2. /\ arrived \in Nat /\ arrived <= MaxMsg /\ uidNext \in 1 .. arrived + 1
      /\ box \in [Msg -> 0 .. uidNext - 1]
      /\ Present \subseteq Come /\ arrived + 1 \in Msg
  BY <1>1 DEF Types, Remote, SharedTypeOK, Come, Msg
<1>3. /\ arrived' \in 0 .. MaxMsg /\ uidNext' \in 1 .. arrived' + 1
      /\ Come' = Come \cup {arrived + 1} /\ arrived + 1 \notin Come
  BY <1>1, <1>2 DEF Come
<1>4. /\ box'[arrived + 1] = uidNext
      /\ \A m \in Msg \ {arrived + 1} : box'[m] = box[m]
      /\ box' \in [Msg -> 0 .. uidNext' - 1]
  BY <1>1, <1>2
<1>5. Present' = Present \cup {arrived + 1}
  BY <1>2, <1>4 DEF Present
<1>6. \A m, n \in Present' : box'[m] = box'[n] => m = n
  <2>1. \A m \in Present : m # arrived + 1 /\ box'[m] = box[m] /\ box[m] \in 0 .. uidNext - 1
    BY <1>2, <1>3, <1>4 DEF Present
  <2>2. \A m, n \in Present : box[m] = box[n] => m = n
    BY DEF Types, Remote, SharedTypeOK
  <2>3. \A m \in Present : box'[m] # uidNext
    BY <1>2, <2>1
  <2> QED BY <1>4, <1>5, <2>1, <2>2, <2>3
<1>7. Remote'
  <2>1. Present \cup gone \cup inbox \subseteq Come
    BY DEF Types, Remote, SharedTypeOK, Come
  <2>2. (Present \cup gone \cup inbox \subseteq 1 .. arrived)'
    BY <1>1, <1>3, <1>5, <2>1 DEF Come
  <2>3. proto' \in {"imap", "pop3"} /\ mishaps' \in 0 .. MaxMishaps
    BY <1>1 DEF Types, Remote, SharedTypeOK
  <2> QED BY <1>3, <1>4, <1>6, <2>2, <2>3 DEF Remote, SharedTypeOK
<1>8. Types'
  <2>1. Marks' /\ Lists'
    BY DEF Types, Marks, Lists, ivars, pvars, notes
  <2>2. Polls'
    BY <1>1, <1>2, NoPollGoesOn DEF Types, Marks, ivars
  <2>3. Drops'
    BY <1>1, <1>2, NoDropGoesOn DEF Types, pvars
  <2> QED BY <1>7, <2>1, <2>2, <2>3 DEF Types
<1>9. Grows
  <2>1. \A m \in Present' : (m \in Present /\ box'[m] = box[m]) \/ box'[m] >= uidNext
    BY <1>2, <1>3, <1>4, <1>5 DEF Present
  <2> QED BY <1>1, <1>2, <2>1 DEF Grows, ivars
<1> QED BY <1>3, <1>5, <1>8, <1>9

(* Another client removes a message: it is gone, not lost.                  *)
LEMMA RemoveStep ==
  ASSUME Types, NEW x \in Msg, RemoveElsewhere(x), UNCHANGED << ivars, pvars >>
  PROVE  Types' /\ Grows /\ Come' = Come /\ Present \subseteq Present' \cup gone'
<1>1. /\ x \in Present /\ box' = [box EXCEPT ![x] = 0] /\ gone' = gone \cup {x}
      /\ UNCHANGED << proto, arrived, uidNext, inbox, mishaps >>
  BY DEF RemoveElsewhere
<1>2. /\ box \in [Msg -> 0 .. uidNext - 1] /\ uidNext \in Nat /\ uidNext >= 1
      /\ arrived \in Nat
  BY DEF Types, Remote, SharedTypeOK
<1>3. /\ box'[x] = 0 /\ \A m \in Msg \ {x} : box'[m] = box[m]
      /\ box' \in [Msg -> 0 .. uidNext' - 1]
  BY <1>1, <1>2
<1>4. Present' = Present \ {x}
  BY <1>3 DEF Present
<1>5. Remote'
  BY <1>1, <1>3, <1>4 DEF Types, Remote, SharedTypeOK, Present
<1>6. Types'
  <2>1. Marks' /\ Lists'
    BY DEF Types, Marks, Lists, ivars, pvars, notes
  <2>2. Polls'
    BY <1>1, <1>2, NoPollGoesOn DEF Types, Marks, ivars
  <2>3. Drops'
    BY <1>1, <1>2, NoDropGoesOn DEF Types, pvars
  <2> QED BY <1>5, <2>1, <2>2, <2>3 DEF Types
<1>7. Grows
  <2>1. \A m \in Present' : m \in Present /\ box'[m] = box[m]
    BY <1>3, <1>4 DEF Present
  <2> QED BY <1>1, <1>2, <2>1 DEF Grows, ivars
<1> QED BY <1>1, <1>4, <1>6, <1>7 DEF Come

(* The mailbox is created anew: how many messages are not after one is its *)
(* new UID, so no two have the same, and none is beyond their number.      *)
LEMMA Ranks ==
  ASSUME NEW S \in SUBSET Msg, NEW m \in S
  PROVE  /\ Cardinality({n \in S : n <= m}) \in 1 .. Cardinality(S)
         /\ \A k \in S : k < m =>
              Cardinality({n \in S : n <= k}) < Cardinality({n \in S : n <= m})
<1> DEFINE A == {n \in S : n <= m}
<1>1. A \in SUBSET S /\ A \in SUBSET Msg /\ m \in A
  <2>1. m \in Nat /\ \A n \in S : n \in Nat
    BY DEF Msg
  <2>2. \A n \in A : n \in S
    OBVIOUS
  <2>3. m \in A
    BY <2>1
  <2> HIDE DEF A
  <2> QED BY <2>2, <2>3
<1>2. Cardinality(A) <= Cardinality(S) /\ Cardinality(A) \in Nat /\ Cardinality(S) \in Nat
  BY <1>1, Fewer, FiniteMsgs
<1>3. Cardinality(A) >= 1
  <2>1. IsFiniteSet(A)
    BY <1>1, FiniteMsgs
  <2>2. Cardinality(A) # 0
    BY <1>1, <2>1, FS_EmptySet
  <2> QED BY <1>2, <2>2
<1>4. ASSUME NEW k \in S, k < m PROVE Cardinality({n \in S : n <= k}) < Cardinality(A)
  <2> DEFINE B == {n \in S : n <= k}
  <2>1. B \in SUBSET (A \ {m}) /\ A \ {m} \in SUBSET Msg
    <3>1. m \in Nat /\ k \in Nat /\ \A n \in S : n \in Nat
      BY DEF Msg
    <3>2. \A n \in B : n \in A \ {m}
      BY <1>4, <3>1
    <3> HIDE DEF A, B
    <3> QED BY <1>1, <3>2
  <2>2. Cardinality(B) <= Cardinality(A \ {m}) /\ Cardinality(B) \in Nat
        /\ Cardinality(A \ {m}) \in Nat
    BY <2>1, Fewer, FiniteMsgs
  <2>3. Cardinality(A) = Cardinality(A \ {m}) + 1
    <3> HIDE DEF A
    <3> QED BY <1>1, OneMore
  <2> HIDE DEF A, B
  <2>4. Cardinality(B) < Cardinality(A)
    BY <2>2, <2>3
  <2> QED BY <2>4 DEF B
<1>5. Cardinality(A) \in 1 .. Cardinality(S)
  <2> HIDE DEF A
  <2> QED BY <1>2, <1>3
<1> QED BY <1>4, <1>5


(* A new UIDVALIDITY gives new UIDs to what is there.                       *)
LEMMA NewValidityStep ==
  ASSUME Types, NewValidity, UNCHANGED pvars
  PROVE  Types' /\ Grows /\ Come' = Come /\ Present' = Present
<1>1. /\ validity < MaxValidity /\ validity' = validity + 1
      /\ box' = [m \in Msg |-> IF m \in Present THEN Cardinality({n \in Present : n <= m}) ELSE 0]
      /\ uidNext' = Cardinality(Present) + 1
      /\ UNCHANGED << proto, arrived, gone, inbox, mishaps, mark, isess, markOf, torn, bodiless >>
  BY DEF NewValidity
<1>2. validity \in Nat /\ arrived \in Nat /\ Present \in SUBSET Msg /\ Present \in SUBSET Come
  BY DEF Types, Marks, Remote, SharedTypeOK, Present, Come
<1>3. Cardinality(Present) \in 0 .. arrived
  <2>1. IsFiniteSet(Come) /\ Cardinality(Come) = arrived
    BY <1>2, FS_Interval DEF Come
  <2>2. Cardinality(Present) <= arrived /\ Cardinality(Present) \in Nat
    BY <1>2, <2>1, FS_Subset, FiniteMsgs
  <2> QED BY <1>2, <2>2
<1>4. \A m \in Present : box'[m] = Cardinality({n \in Present : n <= m})
  BY <1>1, <1>2
<1>5. \A m \in Msg \ Present : box'[m] = 0
  BY <1>1
<1>6. \A m \in Present : box'[m] \in 1 .. Cardinality(Present)
  BY <1>2, <1>4, Ranks
<1>7. box' \in [Msg -> 0 .. uidNext' - 1]
  <2>1. \A m \in Msg : box'[m] \in 0 .. Cardinality(Present)
    BY <1>3, <1>5, <1>6
  <2>2. box' = [m \in Msg |-> box'[m]]
    BY <1>1
  <2>3. uidNext' - 1 = Cardinality(Present)
    BY <1>1, <1>3
  <2> QED BY <2>1, <2>2, <2>3
<1>8. Present' = Present
  BY <1>3, <1>5, <1>6 DEF Present
<1>9. \A m, k \in Present : box'[m] = box'[k] => m = k
  <2> SUFFICES ASSUME NEW m \in Present, NEW k \in Present, k < m
               PROVE  box'[k] # box'[m]
    BY <1>2 DEF Msg
  <2>1. box'[k] < box'[m]
    BY <1>2, <1>4, Ranks
  <2> QED BY <2>1, <1>6, <1>3
<1>10. uidNext' \in 1 .. arrived' + 1
  BY <1>1, <1>2, <1>3
<1>11. Remote'
  BY <1>1, <1>7, <1>8, <1>9, <1>10 DEF Types, Remote, SharedTypeOK
<1>12. Marks'
  BY <1>1, <1>2 DEF Types, Marks
<1>13. Polls'
  BY <1>1, <1>2, NoPollGoesOn DEF Types
<1>14. Lists' /\ Drops'
  BY <1>1, <1>2, NoDropGoesOn DEF Types, Lists, pvars, notes
<1>15. Grows
  BY <1>1, <1>2 DEF Grows
<1> QED BY <1>1, <1>8, <1>11, <1>12, <1>13, <1>14, <1>15 DEF Types, Come

(* All that is known about the polls stays true of a step of the mailbox.  *)
LEMMA MailboxStep ==
  ASSUME IInv, Mailbox \/ (proto = "imap" /\ NewValidity /\ UNCHANGED pvars)
  PROVE  IInv'
<1> USE DEF IInv
<1> DEFINE Effect ==
             /\ Types' /\ Grows /\ Come' \subseteq Come \cup Present'
             /\ Present \subseteq Present' \cup gone' /\ gone \subseteq gone'
             /\ UNCHANGED << mark, markOf, isess, pvars, inbox, proto, mishaps >>
             /\ (arrived' = arrived \/ arrived' = arrived + 1)
<1>1. Effect
  <2>1. CASE Arrive /\ UNCHANGED << ivars, pvars >>
    BY <2>1, ArriveStep DEF Arrive, ivars
  <2>2. ASSUME NEW m \in Msg, RemoveElsewhere(m), UNCHANGED << ivars, pvars >>
        PROVE  Effect
    BY <2>2, RemoveStep DEF RemoveElsewhere, ivars
  <2>3. CASE NewValidity /\ UNCHANGED pvars
    BY <2>3, NewValidityStep DEF NewValidity
  <2> QED BY <2>1, <2>2, <2>3 DEF Mailbox
<1>2. Kept'
  <2>1. Come \subseteq Present \cup gone \cup inbox \cup mistaken
    BY DEF Kept, LostOnlyIfMistaken, Come
  <2>2. UNCHANGED << psess, mistaken >>
    BY <1>1 DEF pvars, notes
  <2> QED BY <1>1, <2>1, <2>2, KeptStays
<1>3. Honest'
  BY <1>1, HonestStays
<1>4. Repeats'
  BY <1>1, RepeatsStay
<1> QED BY <1>1, <1>2, <1>3, <1>4

-----------------------------------------------------------------------------

(* IMAP: poll s becomes r, and the mailbox stays as it is.                 *)
ImapEffect(s, r) ==
  /\ r \in Poll /\ PollFits(r) /\ isess' = [isess EXCEPT ![s] = r]
  /\ UNCHANGED << proto, server, validity, pvars >> /\ (mishaps' = mishaps \/ Fails)
  /\ inbox \subseteq inbox' /\ inbox' \subseteq Come
  /\ bodiless \subseteq bodiless' /\ bodiless' \subseteq Msg
  /\ torn' \in BOOLEAN /\ (torn => torn')
  /\ mark' \in [validity : 0 .. MaxValidity, last : 0 .. MaxMsg] /\ markOf' \in 0 .. validity

(* An IMAP step keeps the types and only adds to what is delivered.         *)
LEMMA ImapTypes ==
  ASSUME Types, NEW s \in Session, NEW r, ImapEffect(s, r)
  PROVE  Types' /\ Grows /\ isess'[s] = r /\ \A t \in Session \ {s} : isess'[t] = isess[t]
<1>1. Remote'
  BY RemoteKept DEF Types, ImapEffect
<1>2. Marks'
  BY DEF Types, Marks, ImapEffect
<1>3. Polls' /\ isess'[s] = r /\ \A t \in Session \ {s} : isess'[t] = isess[t]
  BY OnePoll DEF Types, ImapEffect, server
<1>4. Lists' /\ Drops'
  <2>1. UNCHANGED psess /\ arrived' = arrived /\ arrived \in Nat
    BY DEF ImapEffect, pvars, server, Types, Remote, SharedTypeOK
  <2> QED BY <2>1, NoDropGoesOn DEF Types, Lists, ImapEffect, pvars, notes
<1>5. Grows
  BY QuietGrows DEF ImapEffect
<1> QED BY <1>1, <1>2, <1>3, <1>4, <1>5 DEF Types

(* And the invariant, if the mark and what the poll carries stay honest.    *)
LEMMA ImapKeeps ==
  ASSUME IInv, proto = "imap", NEW s \in Session, NEW r, ImapEffect(s, r),
         Carries(r)', (~ torn /\ markOf = validity => Covers(mark.last))'
  PROVE  IInv'
<1> USE DEF IInv
<1>1. Types' /\ Grows /\ isess'[s] = r /\ \A t \in Session \ {s} : isess'[t] = isess[t]
  BY ImapTypes
<1>2. Kept'
  <2>1. UNCHANGED << psess, mistaken >> /\ Come' = Come /\ Present' = Present /\ gone' = gone
    BY DEF ImapEffect, pvars, notes, server, Come, Present
  <2>2. Come \subseteq Present \cup gone \cup inbox \cup mistaken
    BY DEF Kept, LostOnlyIfMistaken, Come
  <2> QED BY <2>1, <2>2, KeptStays DEF ImapEffect
<1>3. \A t \in Session : Carries(isess[t])'
  <2> TAKE t \in Session
  <2>1. CASE t = s
    BY <1>1, <2>1
  <2>2. CASE t # s
    BY <1>1, <2>2, PollsStay
  <2> QED BY <2>1, <2>2
<1>4. Honest'
  BY <1>3 DEF Honest
<1>5. Repeats'
  BY <1>1, RepeatsStay DEF ImapEffect, server
<1> QED BY <1>1, <1>2, <1>4, <1>5

(* A step of a poll that neither searches nor saves the mark.              *)
LEMMA ImapQuiet ==
  ASSUME IInv, proto = "imap", NEW s \in Session, NEW r, ImapEffect(s, r),
         UNCHANGED << mark, markOf >>,
         \/ r = NoPoll
         \/ r.next = isess[s].next /\ r.val = isess[s].val /\ r.pc \in {"renew", "reset", "load"}
  PROVE  IInv'
<1>1. Types' /\ Grows
  BY ImapTypes DEF IInv
<1>2. (~ torn /\ markOf = validity => Covers(mark.last))'
  BY <1>1, MarkStays DEF IInv
<1>3. Carries(r)'
  <2>1. CASE r = NoPoll
    BY <1>1, <2>1 DEF Carries, NoPoll, Types, Remote, SharedTypeOK
  <2>2. CASE /\ r.next = isess[s].next /\ r.val = isess[s].val
             /\ r.pc \in {"renew", "reset", "load"}
    <3>1. PICK p \in Poll : p = isess[s] /\ PollFits(p) /\ Carries(p)
      BY DEF IInv, Types, Polls, Honest
    <3>2. Carries(p)'
      BY <1>1, <3>1, CarriesStays DEF IInv
    <3> QED BY <2>2, <3>1, <3>2 DEF Carries
  <2> QED BY <2>1, <2>2
<1> QED BY <1>2, <1>3, ImapKeeps

(* What the invariant says of an IMAP poll.                                 *)
LEMMA PollIs ==
  ASSUME IInv, NEW s \in Session
  PROVE  /\ \E p \in Poll : p = isess[s] /\ PollFits(p) /\ Carries(p)
         /\ inbox \subseteq Come /\ bodiless \subseteq Msg /\ torn \in BOOLEAN
         /\ mark \in [validity : 0 .. MaxValidity, last : 0 .. MaxMsg] /\ markOf \in 0 .. validity
         /\ validity \in 1 .. MaxValidity /\ uidNext \in 1 .. MaxMsg + 1
         /\ isess \in [Session -> Poll]
BY DEF IInv, Types, Polls, Honest, Remote, SharedTypeOK, Marks, Come

(* SELECT tells UIDVALIDITY and UIDNEXT as they are.                        *)
LEMMA SelectStep ==
  ASSUME IInv, proto = "imap", NEW s \in Session, Select(s), UNCHANGED pvars
  PROVE  IInv'
<1>1. PICK r : r = [NoPoll EXCEPT !.pc = "compare", !.val = validity, !.next = uidNext]
  OBVIOUS
<1>2. /\ r.pc = "compare" /\ r.val = validity /\ r.next = uidNext /\ r.last = 0 /\ r.top = 0
      /\ r.batch = << >>
  BY <1>1 DEF NoPoll
<1>3. r \in Poll /\ PollFits(r)
  <2>1. NoPoll \in Poll /\ PollFits(NoPoll) /\ NoPoll.last = 0 /\ NoPoll.top = 0
        /\ NoPoll.batch = << >>
    BY Blank DEF IInv, Types, NoPoll
  <2>2. r \in Poll
    <3>1. validity \in 0 .. MaxValidity /\ uidNext \in 0 .. MaxMsg + 1
      BY PollIs
    <3> QED BY <1>1, <2>1, <3>1 DEF Poll
  <2>3. PollFits(r)
    BY <1>2, <2>1, PollIs DEF PollFits
  <2> QED BY <2>2, <2>3
<1>4. ImapEffect(s, r)
  BY <1>1, <1>3, PollIs DEF ImapEffect, Select, shared
<1>5. Carries(r)'
  BY <1>2, PollIs DEF Carries, Select, shared, server
<1>6. (~ torn /\ markOf = validity => Covers(mark.last))'
  BY <1>4, ImapTypes, MarkStays DEF IInv, Select
<1> QED BY <1>4, <1>5, <1>6, ImapKeeps

(* The poll compares UIDVALIDITY with the row.                              *)
LEMMA CompareStep ==
  ASSUME IInv, proto = "imap", NEW s \in Session, Compare(s), UNCHANGED pvars
  PROVE  IInv'
<1>1. PICK p \in Poll : p = isess[s] /\ PollFits(p)
  BY PollIs
<1>2. PICK c \in {"load", "renew"} : isess' = [isess EXCEPT ![s].pc = c]
  BY DEF Compare
<1>3. PICK r : r = [p EXCEPT !.pc = c]
  OBVIOUS
<1>4. /\ r \in Poll /\ r.pc = c /\ r.val = p.val /\ r.next = p.next /\ r.last = p.last
      /\ r.top = p.top /\ r.batch = p.batch
  BY <1>3 DEF Poll
<1>5. ImapEffect(s, r)
  <2>1. PollFits(r)
    BY <1>1, <1>4 DEF PollFits
  <2>2. isess' = [isess EXCEPT ![s] = r]
    BY <1>1, <1>2, <1>3
  <2> QED BY <1>4, <2>1, <2>2, PollIs DEF ImapEffect, Compare, shared
<1> QED BY <1>1, <1>4, <1>5, ImapQuiet DEF Compare


(* The first of the two rows: the mark is another mailbox's until the       *)
(* second is written.                                                       *)
LEMMA SetValidityStep ==
  ASSUME IInv, proto = "imap", NEW s \in Session, SetValidity(s), UNCHANGED pvars
  PROVE  IInv'
<1>1. PICK p \in Poll : p = isess[s] /\ PollFits(p)
  BY PollIs
<1>2. PICK r : r = [p EXCEPT !.pc = "reset"]
  OBVIOUS
<1>3. /\ r \in Poll /\ r.pc = "reset" /\ r.val = p.val /\ r.next = p.next /\ r.last = p.last
      /\ r.top = p.top /\ r.batch = p.batch /\ PollFits(r)
  BY <1>1, <1>2 DEF Poll, PollFits
<1>4. mark' \in [validity : 0 .. MaxValidity, last : 0 .. MaxMsg] /\ mark'.last = mark.last
  <2>1. p.val \in 0 .. MaxValidity
    BY DEF Poll
  <2>2. mark' = mark \/ mark' = [mark EXCEPT !.validity = p.val]
    BY <1>1 DEF SetValidity
  <2> QED BY <2>1, <2>2, PollIs
<1>5. ImapEffect(s, r)
  <2>1. isess' = [isess EXCEPT ![s] = r]
    BY <1>1, <1>2 DEF SetValidity
  <2>2. /\ UNCHANGED << proto, server, inbox, validity, markOf, torn, bodiless >>
        /\ (mishaps' = mishaps \/ Fails)
    BY DEF SetValidity
  <2> QED BY <1>3, <1>4, <2>1, <2>2, PollIs DEF ImapEffect
<1>6. Types' /\ Grows
  BY <1>5, ImapTypes DEF IInv
<1>7. (~ torn /\ markOf = validity => Covers(mark.last))'
  <2>1. UNCHANGED << markOf, validity, torn >> /\ mark.last \in Nat
    BY PollIs DEF SetValidity
  <2>2. ~ torn /\ markOf = validity => Covers(mark.last)
    BY DEF IInv, Honest
  <2>3. PICK l \in Nat : l = mark.last
    BY <2>1
  <2>4. Covers(l) => Covers(l)'
    BY <1>6, <2>1, CoversStays DEF IInv
  <2> QED BY <1>4, <2>1, <2>2, <2>3, <2>4
<1>8. Carries(r)'
  <2>1. Carries(p) /\ PollFits(p)
    BY <1>1 DEF IInv, Honest
  <2>2. Carries(p)'
    BY <1>6, <2>1, CarriesStays DEF IInv
  <2> QED BY <1>3, <2>2 DEF Carries
<1> QED BY <1>5, <1>7, <1>8, ImapKeeps

(* The second: nothing is covered, which is right for a new mailbox.        *)
LEMMA ResetMarkStep ==
  ASSUME IInv, proto = "imap", NEW s \in Session, ResetMark(s), UNCHANGED pvars
  PROVE  IInv'
<1>1. PICK p \in Poll : p = isess[s] /\ PollFits(p)
  BY PollIs
<1>2. PICK r : r = [p EXCEPT !.pc = "load"]
  OBVIOUS
<1>3. /\ r \in Poll /\ r.pc = "load" /\ r.val = p.val /\ r.next = p.next /\ r.last = p.last
      /\ r.top = p.top /\ r.batch = p.batch /\ PollFits(r)
  BY <1>1, <1>2 DEF Poll, PollFits
<1>4. \/ UNCHANGED << mark, markOf >>
      \/ mark' = [mark EXCEPT !.last = 0] /\ markOf' = p.val
  BY <1>1 DEF ResetMark
<1>5. mark' \in [validity : 0 .. MaxValidity, last : 0 .. MaxMsg] /\ markOf' \in 0 .. validity
  <2>1. p.val \in 0 .. validity
    BY <1>1, PollIs DEF Poll, PollFits
  <2> QED BY <1>4, <2>1, PollIs
<1>6. ImapEffect(s, r)
  <2>1. isess' = [isess EXCEPT ![s] = r]
    BY <1>1, <1>2 DEF ResetMark
  <2>2. /\ UNCHANGED << proto, server, inbox, validity, torn, bodiless >>
        /\ (mishaps' = mishaps \/ Fails)
    BY DEF ResetMark
  <2> QED BY <1>3, <1>5, <2>1, <2>2, PollIs DEF ImapEffect
<1>7. Types' /\ Grows
  BY <1>6, ImapTypes DEF IInv
<1>8. (~ torn /\ markOf = validity => Covers(mark.last))'
  <2>1. CASE UNCHANGED << mark, markOf >>
    BY <1>7, <2>1, MarkStays DEF IInv
  <2>2. CASE mark' = [mark EXCEPT !.last = 0]
    <3>1. mark'.last = 0
      BY <2>2, PollIs
    <3>2. uidNext' >= 1 /\ uidNext' \in Nat /\ \A m \in Present' : box'[m] \in Nat /\ box'[m] # 0
      BY <1>7 DEF Types, Remote, SharedTypeOK, Present
    <3>3. Covers(mark.last)'
      BY <3>1, <3>2 DEF Covers
    <3> QED BY <3>3
  <2> QED BY <1>4, <2>1, <2>2
<1>9. Carries(r)'
  <2>1. Carries(p) /\ PollFits(p)
    BY <1>1 DEF IInv, Honest
  <2>2. Carries(p)'
    BY <1>7, <2>1, CarriesStays DEF IInv
  <2> QED BY <1>3, <2>2 DEF Carries
<1> QED BY <1>6, <1>8, <1>9, ImapKeeps

(* The mark that is read covers the mailbox, or is torn.                   *)
LEMMA LoadMarkStep ==
  ASSUME IInv, proto = "imap", NEW s \in Session, LoadMark(s), UNCHANGED pvars
  PROVE  IInv'
<1>1. PICK p \in Poll : p = isess[s] /\ PollFits(p) /\ Carries(p)
  BY PollIs
<1>0. PICK k \in {mark.last, 0} :
        /\ isess' = [isess EXCEPT ![s].pc = "search", ![s].last = k, ![s].top = k]
        /\ torn' \in BOOLEAN /\ (torn => torn')
        /\ ~ torn' => ~ torn /\ (k > 0 => markOf = p.val)
  <2>1. \/ /\ isess' = [isess EXCEPT ![s].pc = "search", ![s].last = mark.last, ![s].top = mark.last]
           /\ torn'  = (torn \/ (mark.last > 0 /\ markOf # p.val))
        \/ /\ isess' = [isess EXCEPT ![s].pc = "search", ![s].last = 0, ![s].top = 0]
           /\ UNCHANGED torn
    BY <1>1 DEF LoadMark
  <2>2. torn \in BOOLEAN /\ ~ (0 > 0)
    BY PollIs
  <2> QED BY <2>1, <2>2
<1>2. PICK r : r = [p EXCEPT !.pc = "search", !.last = k, !.top = k]
  OBVIOUS
<1>3. mark.last \in 0 .. MaxMsg /\ k \in 0 .. MaxMsg
  BY PollIs
<1>4. /\ r \in Poll /\ r.pc = "search" /\ r.val = p.val /\ r.next = p.next
      /\ r.last = k /\ r.top = k /\ r.batch = p.batch
  BY <1>2, <1>3 DEF Poll
<1>5. PollFits(r)
  BY <1>1, <1>3, <1>4 DEF PollFits
<1>7. ImapEffect(s, r)
  <2>1. isess' = [isess EXCEPT ![s] = r]
    BY <1>0, <1>1, <1>2
  <2>2. UNCHANGED << proto, server, inbox, validity, mark, markOf, bodiless >>
        /\ (mishaps' = mishaps \/ Fails)
    BY DEF LoadMark
  <2> QED BY <1>0, <1>4, <1>5, <2>1, <2>2, PollIs DEF ImapEffect
<1>8. Types' /\ Grows
  BY <1>7, ImapTypes DEF IInv
<1>9. (~ torn /\ markOf = validity => Covers(mark.last))'
  BY <1>8, MarkStays DEF IInv, LoadMark
<1>10. Carries(r)'
  <2>1. SUFFICES ASSUME ~ torn', p.val = validity PROVE p.next <= uidNext /\ Covers(k)
    <3>1. UNCHANGED << server, validity, inbox, mark, bodiless >>
      BY DEF LoadMark
    <3>2. UNCHANGED << uidNext, box >> /\ Present' = Present
      BY <3>1 DEF server, Present
    <3>3. PICK l \in Nat : l = k
      BY <1>3
    <3>4. Covers(l) => Covers(l)'
      BY <3>1, <3>2 DEF Covers
    <3>5. r.pc \notin {"fetch", "deliver"} /\ r.top = r.last /\ r.last = l
      BY <1>4, <3>3
    <3>6. validity' = validity /\ r.val = p.val /\ r.next = p.next
      BY <1>4, <3>1
    <3> QED BY <2>1, <3>2, <3>3, <3>4, <3>5, <3>6 DEF Carries
  <2>2. p.next <= uidNext
    BY <1>1, <1>0, <2>1 DEF Carries
  <2>3. CASE k = 0
    <3>1. uidNext >= 1 /\ uidNext \in Nat /\ \A m \in Present : box[m] \in Nat /\ box[m] # 0
      BY DEF IInv, Types, Remote, SharedTypeOK, Present
    <3> QED BY <2>2, <2>3, <3>1 DEF Covers
  <2>4. CASE k > 0
    BY <1>0, <2>1, <2>2, <2>4 DEF IInv, Honest
  <2> QED BY <1>3, <2>3, <2>4
<1> QED BY <1>7, <1>9, <1>10, ImapKeeps


(* What a search finds: everything that is not below what the mark covers, *)
(* or is newer than the mailbox was when the poll selected it.             *)
LEMMA SearchStep ==
  ASSUME IInv, proto = "imap", NEW s \in Session, Search(s), UNCHANGED pvars
  PROVE  IInv'
<1>1. PICK p \in Poll : p = isess[s] /\ PollFits(p) /\ Carries(p)
  BY PollIs
<1> DEFINE found == {m \in Present : box[m] \in Wanted(p.last, p.next)}
           b     == [m \in found |-> box[m]]
<1>2. p.pc = "search" /\ found = Matching(s)
  BY <1>1 DEF Search, Matching
<1>3. /\ UNCHANGED << proto, server, inbox, validity, mark, markOf, torn, bodiless >>
      /\ (mishaps' = mishaps \/ Fails)
      /\ \/ isess' = [isess EXCEPT ![s] = NoPoll]
         \/ /\ found # {} /\ validity = p.val
            /\ isess' = [isess EXCEPT ![s] = [p EXCEPT !.pc = "fetch", !.next = 0, !.batch = b]]
  <2> HIDE DEF found
  <2> QED BY <1>1, <1>2 DEF Search
<1>4. CASE isess' = [isess EXCEPT ![s] = NoPoll]
  <2>1. ImapEffect(s, NoPoll)
    BY <1>3, <1>4, Blank, PollIs DEF ImapEffect, IInv, Types
  <2> QED BY <1>3, <2>1, ImapQuiet
<1>5. CASE /\ validity = p.val
           /\ isess' = [isess EXCEPT ![s] = [p EXCEPT !.pc = "fetch", !.next = 0, !.batch = b]]
  <2>1. /\ b \in [found -> Uid] /\ found \in SUBSET Msg /\ found \subseteq Come
        /\ \A m \in found : b[m] = box[m] /\ b[m] \in Nat /\ b[m] < uidNext
    <3>1. \A m \in Present : box[m] \in 1 .. uidNext - 1 /\ m \in Msg /\ m \in Come
      BY DEF IInv, Types, Remote, SharedTypeOK, Present, Come
    <3>2. uidNext \in Nat /\ uidNext <= MaxMsg + 1
      BY PollIs
    <3>3. ASSUME NEW u \in 1 .. uidNext - 1 PROVE u \in Uid /\ u \in Nat /\ u < uidNext
      BY <3>2 DEF Uid
    <3>4. \A m \in Present : box[m] \in Uid /\ box[m] \in Nat /\ box[m] < uidNext
      BY <3>1, <3>3
    <3> QED BY <3>1, <3>4
  <2>2. PICK r : r = [p EXCEPT !.pc = "fetch", !.next = 0, !.batch = b]
    OBVIOUS
  <2>3. b \in UNION {[d -> Uid] : d \in SUBSET Msg} /\ DOMAIN b = found
    BY <2>1
  <2>4. /\ r \in Poll /\ r.pc = "fetch" /\ r.val = p.val /\ r.next = 0
        /\ r.last = p.last /\ r.top = p.top /\ r.batch = b
    <3>1. 0 \in 0 .. MaxMsg + 1
      OBVIOUS
    <3> HIDE DEF b, found
    <3> QED BY <2>2, <2>3, <3>1 DEF Poll
  <2>5. PollFits(r)
    <3> HIDE DEF b
    <3> QED BY <1>1, <2>1, <2>3, <2>4 DEF PollFits
  <2>6. ImapEffect(s, r)
    BY <1>3, <1>5, <2>2, <2>4, <2>5, PollIs DEF ImapEffect
  <2>7. Types' /\ Grows
    BY <2>6, ImapTypes DEF IInv
  <2>8. (~ torn /\ markOf = validity => Covers(mark.last))'
    BY <1>3, <2>7, MarkStays DEF IInv
  <2>9. Carries(r)'
    <3> SUFFICES ASSUME ~ torn PROVE Raised(r)' /\ 0 <= uidNext'
      BY <1>3, <2>4 DEF Carries
    <3>1. /\ p.next <= uidNext /\ p.top = p.last /\ Covers(p.last)
          /\ p.last \in Nat /\ p.next \in Nat /\ uidNext \in Nat
      BY <1>1, <1>2, <1>5, PollIs DEF Carries, Poll
    <3>2. \A n \in found : b[n] < uidNext
      BY <2>1
    <3>3. ASSUME NEW m \in Present \ bodiless
          PROVE  m \in inbox \cup found \/ (box[m] > p.top /\ \A n \in found : box[m] > b[n])
      <4>1. box[m] \in Nat /\ box[m] \in Uid
        BY PollIs DEF IInv, Types, Remote, SharedTypeOK, Present, Uid
      <4>2. CASE m \in found
        BY <4>2
      <4>3. CASE m \notin found /\ box[m] <= p.last
        BY <3>1, <4>3 DEF Covers
      <4>4. CASE m \notin found /\ ~ (box[m] <= p.last)
        <5>1. box[m] \notin Wanted(p.last, p.next)
          BY <4>4
        <5>2. p.last > 0 /\ p.next > p.last + 1 /\ box[m] \notin p.last + 1 .. p.next - 1
          BY <4>1, <5>1 DEF Wanted
        <5>3. box[m] > p.last /\ box[m] > p.next - 1
          BY <3>1, <4>1, <4>4, <5>2
        <5>4. \A n \in found : box[n] \in p.last + 1 .. p.next - 1 /\ b[n] = box[n]
          BY <2>1, <5>2 DEF Wanted
        <5>5. \A n \in found : box[m] > b[n]
          BY <2>1, <3>1, <4>1, <5>3, <5>4
        <5> QED BY <3>1, <5>3, <5>5
      <4> QED BY <4>2, <4>3, <4>4
    <3>4. Covers(p.last) => p.top < uidNext
      BY <3>1 DEF Covers
    <3>5. UNCHANGED << uidNext, box, inbox, bodiless >> /\ Present' = Present
      BY <1>3 DEF server, Present
    <3>6. DOMAIN r.batch = found /\ r.batch = b /\ r.top = p.top
      BY <2>3, <2>4
    <3>7. Raised(r)'
      <4> HIDE DEF found, b
      <4> QED BY <3>1, <3>2, <3>3, <3>4, <3>5, <3>6 DEF Raised
    <3> QED BY <3>1, <3>5, <3>7
  <2> QED BY <2>6, <2>8, <2>9, ImapKeeps
<1> QED BY <1>3, <1>4, <1>5

(* FETCH answers with what the search found and is still there.             *)
LEMMA FetchStep ==
  ASSUME IInv, proto = "imap", NEW s \in Session, Fetch(s), UNCHANGED pvars
  PROVE  IInv'
<1>1. PICK p \in Poll : p = isess[s] /\ PollFits(p) /\ Carries(p)
  BY PollIs
<1> DEFINE b == [m \in DOMAIN p.batch \cap Present |-> p.batch[m]]
<1>2. p.pc = "fetch"
  BY <1>1 DEF Fetch
<1>3. /\ UNCHANGED << proto, server, inbox, validity, mark, markOf, torn, bodiless >>
      /\ (mishaps' = mishaps \/ Fails)
      /\ \/ isess' = [isess EXCEPT ![s] = NoPoll]
         \/ isess' = [isess EXCEPT ![s] = [p EXCEPT !.pc = "deliver", !.batch = b]]
  BY <1>1, PollIs DEF Fetch
<1>4. CASE isess' = [isess EXCEPT ![s] = NoPoll]
  <2>1. ImapEffect(s, NoPoll)
    BY <1>3, <1>4, Blank, PollIs DEF ImapEffect, IInv, Types
  <2> QED BY <1>3, <2>1, ImapQuiet
<1>5. CASE isess' = [isess EXCEPT ![s] = [p EXCEPT !.pc = "deliver", !.batch = b]]
  <2>1. PICK d \in SUBSET Msg : p.batch \in [d -> Uid]
    BY DEF Poll
  <2>2. /\ DOMAIN b = d \cap Present /\ b \in [d \cap Present -> Uid] /\ DOMAIN p.batch = d
        /\ \A m \in d \cap Present : b[m] = p.batch[m]
    BY <2>1
  <2>3. b \in UNION {[e -> Uid] : e \in SUBSET Msg}
    <3>1. d \cap Present \in SUBSET Msg
      OBVIOUS
    <3> HIDE DEF b
    <3> QED BY <2>2, <3>1
  <2>4. PICK r : r = [p EXCEPT !.pc = "deliver", !.batch = b]
    OBVIOUS
  <2>5. /\ r \in Poll /\ r.pc = "deliver" /\ r.val = p.val /\ r.next = p.next
        /\ r.last = p.last /\ r.top = p.top /\ r.batch = b
    <3> HIDE DEF b
    <3> QED BY <2>3, <2>4 DEF Poll
  <2>6. PollFits(r)
    <3> HIDE DEF b
    <3> QED BY <1>1, <2>2, <2>5 DEF PollFits
  <2>7. ImapEffect(s, r)
    BY <1>3, <1>5, <2>4, <2>5, <2>6, PollIs DEF ImapEffect
  <2>8. Types' /\ Grows
    BY <2>7, ImapTypes DEF IInv
  <2>9. (~ torn /\ markOf = validity => Covers(mark.last))'
    BY <1>3, <2>8, MarkStays DEF IInv
  <2>10. Carries(r)'
    <3> SUFFICES ASSUME ~ torn, p.val = validity PROVE Raised(r)' /\ p.next <= uidNext'
      BY <1>3, <2>5 DEF Carries
    <3>1. p.next <= uidNext /\ Raised(p)
      BY <1>1, <1>2 DEF Carries
    <3>2. UNCHANGED << uidNext, box, inbox, bodiless >> /\ Present' = Present
      BY <1>3 DEF server, Present
    <3>3. DOMAIN r.batch = d \cap Present /\ r.batch = b /\ r.top = p.top
      BY <2>2, <2>5
    <3>4. Raised(r)'
      <4> HIDE DEF b
      <4> QED BY <2>2, <3>1, <3>2, <3>3 DEF Raised
    <3> QED BY <3>1, <3>2, <3>4
  <2> QED BY <2>7, <2>9, <2>10, ImapKeeps
<1> QED BY <1>3, <1>4, <1>5


(* What is left of a batch.                                                *)
LEMMA LessOne ==
  ASSUME NEW p \in Poll, NEW m \in DOMAIN p.batch
  PROVE  /\ Without(p.batch, m) \in UNION {[d -> Uid] : d \in SUBSET Msg}
         /\ DOMAIN Without(p.batch, m) = DOMAIN p.batch \ {m}
         /\ \A n \in DOMAIN p.batch \ {m} : Without(p.batch, m)[n] = p.batch[n]
         /\ m \in Msg /\ p.batch[m] \in Uid
<1>1. PICK d \in SUBSET Msg : p.batch \in [d -> Uid]
  BY DEF Poll
<1>2. d \ {m} \in SUBSET Msg /\ Without(p.batch, m) \in [d \ {m} -> Uid]
  BY <1>1 DEF Without
<1>3. Without(p.batch, m) \in UNION {[e -> Uid] : e \in SUBSET Msg}
  BY <1>2
<1> QED BY <1>1, <1>3 DEF Without

(* A delivered message leaves the batch; the poll's mark may rise to it.    *)
LEMMA DeliverFetchedStep ==
  ASSUME IInv, proto = "imap", NEW s \in Session, DeliverFetched(s), UNCHANGED pvars
  PROVE  IInv'
<1>1. PICK p \in Poll : p = isess[s] /\ PollFits(p) /\ Carries(p)
  BY PollIs
<1>2. p.pc = "deliver"
  BY <1>1 DEF DeliverFetched
<1>3. PICK m \in DOMAIN p.batch :
        \/ /\ Fails
           /\ isess' = [isess EXCEPT ![s].batch = Without(@, m)]
           /\ bodiless' = bodiless \cup {m} /\ UNCHANGED inbox
        \/ /\ inbox' = inbox \cup {m}
           /\ isess' = [isess EXCEPT ![s].top = TopUid(@, p.batch[m]), ![s].batch = Without(@, m)]
           /\ UNCHANGED << mishaps, bodiless >>
        \/ /\ Fails
           /\ isess' = [isess EXCEPT ![s] = NoPoll]
           /\ UNCHANGED << inbox, bodiless >>
  BY <1>1 DEF DeliverFetched, AfterFailedStore
<1>4. UNCHANGED << proto, server, validity, mark, markOf, torn >>
  BY DEF DeliverFetched
<1>5. UNCHANGED << uidNext, box >> /\ Present' = Present
  BY <1>4 DEF server, Present
<1>6. m \in Come /\ m \in Msg
  BY <1>1, LessOne DEF PollFits
<1> DEFINE rest == Without(p.batch, m)
<1>0. /\ DOMAIN rest = DOMAIN p.batch \ {m}
      /\ \A n \in DOMAIN p.batch \ {m} : rest[n] = p.batch[n]
  BY LessOne
<1>7. ASSUME NEW r \in Poll, r.pc = "deliver", r.val = p.val, r.next = p.next, r.last = p.last,
             r.batch = Without(p.batch, m), isess' = [isess EXCEPT ![s] = r],
             mishaps' = mishaps \/ Fails,
             \/ r.top = p.top /\ bodiless' = bodiless \cup {m} /\ UNCHANGED inbox
             \/ /\ r.top = TopUid(p.top, p.batch[m])
                /\ inbox' = inbox \cup {m} /\ UNCHANGED bodiless
      PROVE  IInv'
  <2>1. p.top \in Nat /\ p.last \in Nat /\ p.batch[m] \in Nat
        /\ \A n \in DOMAIN p.batch : p.batch[n] \in Nat
    BY LessOne DEF Poll, Uid
  <2>2. r.top \in {p.top, p.batch[m]} /\ r.top >= p.top
        /\ (r.top = p.top \/ r.top = p.batch[m])
    BY <1>7, <2>1, TopUidIs
  <2>3. PollFits(r)
    <3>1. r.val <= validity /\ r.last <= r.top
      BY <1>1, <1>7, <2>1, <2>2 DEF PollFits
    <3>2. DOMAIN r.batch \subseteq Come
      <4> HIDE DEF rest
      <4>1. r.batch = rest
        BY <1>7 DEF rest
      <4> QED BY <1>1, <1>0, <4>1 DEF PollFits
    <3> QED BY <3>1, <3>2 DEF PollFits
  <2>4. ImapEffect(s, r)
    BY <1>4, <1>6, <1>7, <2>3, PollIs DEF ImapEffect
  <2>5. Types' /\ Grows
    BY <2>4, ImapTypes DEF IInv
  <2>6. (~ torn /\ markOf = validity => Covers(mark.last))'
    BY <1>4, <2>5, MarkStays DEF IInv
  <2>7. Carries(r)'
    <3> SUFFICES ASSUME ~ torn, p.val = validity PROVE Raised(r)' /\ p.next <= uidNext'
      BY <1>4, <1>7 DEF Carries
    <3>1. p.next <= uidNext /\ Raised(p)
      BY <1>1, <1>2 DEF Carries
    <3>2. /\ p.top < uidNext /\ \A n \in DOMAIN p.batch : p.batch[n] < uidNext
          /\ \A k \in Present \ bodiless :
               \/ k \in inbox \cup DOMAIN p.batch
               \/ box[k] > p.top /\ \A n \in DOMAIN p.batch : box[k] > p.batch[n]
      BY <3>1 DEF Raised
    <3>3. /\ DOMAIN r.batch = DOMAIN p.batch \ {m}
          /\ \A n \in DOMAIN r.batch : r.batch[n] = p.batch[n]
      <4>1. r.batch = rest
        BY <1>7
      <4> HIDE DEF rest
      <4> QED BY <1>0, <4>1
    <3>4. r.top < uidNext
      BY <2>2, <3>2
    <3>5. ASSUME NEW k \in Present \ bodiless'
          PROVE  \/ k \in inbox' \cup DOMAIN r.batch
                 \/ box[k] > r.top /\ \A n \in DOMAIN r.batch : box[k] > r.batch[n]
      <4>1. k \in Present \ bodiless /\ (k = m => k \in inbox')
        BY <1>7, <3>5
      <4>2. CASE k \in inbox \cup DOMAIN p.batch
        BY <1>7, <3>3, <4>1, <4>2
      <4>3. CASE box[k] > p.top /\ \A n \in DOMAIN p.batch : box[k] > p.batch[n]
        BY <2>2, <3>3, <4>3
      <4> QED BY <3>2, <4>1, <4>2, <4>3
    <3>6. Raised(r)'
      BY <1>5, <3>2, <3>3, <3>4, <3>5 DEF Raised
    <3> QED BY <1>5, <3>1, <3>6
  <2> QED BY <2>4, <2>6, <2>7, ImapKeeps
<1>8. CASE /\ Fails
           /\ isess' = [isess EXCEPT ![s].batch = Without(@, m)]
           /\ bodiless' = bodiless \cup {m} /\ UNCHANGED inbox
  <2>1. PICK r : r = [p EXCEPT !.batch = Without(p.batch, m)]
    OBVIOUS
  <2>2. /\ r \in Poll /\ r.pc = p.pc /\ r.val = p.val /\ r.next = p.next
        /\ r.last = p.last /\ r.top = p.top /\ r.batch = Without(p.batch, m)
    BY <2>1, LessOne DEF Poll
  <2>3. isess' = [isess EXCEPT ![s] = r]
    BY <1>1, <1>8, <2>1
  <2> QED BY <1>2, <1>7, <1>8, <2>2, <2>3
<1>9. CASE /\ inbox' = inbox \cup {m}
           /\ isess' = [isess EXCEPT ![s].top = TopUid(@, p.batch[m]), ![s].batch = Without(@, m)]
           /\ UNCHANGED << mishaps, bodiless >>
  <2>1. PICK r : r = [p EXCEPT !.top = TopUid(p.top, p.batch[m]), !.batch = Without(p.batch, m)]
    OBVIOUS
  <2>2. TopUid(p.top, p.batch[m]) \in 0 .. MaxMsg
    <3>1. p.top \in 0 .. MaxMsg /\ p.batch[m] \in 0 .. MaxMsg
      BY LessOne DEF Poll, Uid
    <3> QED BY <3>1, TopUidIs
  <2>3. /\ r \in Poll /\ r.pc = p.pc /\ r.val = p.val /\ r.next = p.next
        /\ r.last = p.last /\ r.top = TopUid(p.top, p.batch[m])
        /\ r.batch = Without(p.batch, m)
    BY <2>1, <2>2, LessOne DEF Poll
  <2>4. isess' = [isess EXCEPT ![s] = r]
    BY <1>1, <1>9, <2>1
  <2> QED BY <1>2, <1>7, <1>9, <2>3, <2>4
<1>10. CASE Fails /\ isess' = [isess EXCEPT ![s] = NoPoll] /\ UNCHANGED << inbox, bodiless >>
  <2>1. ImapEffect(s, NoPoll)
    BY <1>4, <1>10, Blank, PollIs DEF ImapEffect, IInv, Types
  <2> QED BY <1>4, <2>1, ImapQuiet
<1> QED BY <1>3, <1>8, <1>9, <1>10

(* The mark that is saved has nothing left to fetch below it.              *)
LEMMA SaveMarkStep ==
  ASSUME IInv, proto = "imap", NEW s \in Session, SaveMark(s), UNCHANGED pvars
  PROVE  IInv'
<1>1. PICK p \in Poll : p = isess[s] /\ PollFits(p) /\ Carries(p)
  BY PollIs
<1>2. /\ p.pc = "deliver" /\ DOMAIN p.batch = {}
      /\ UNCHANGED << proto, server, inbox, validity, torn, bodiless >>
      /\ isess' = [isess EXCEPT ![s] = NoPoll]
      /\ (mishaps' = mishaps \/ Fails)
      /\ \/ UNCHANGED << mark, markOf >>
         \/ mark' = [mark EXCEPT !.last = p.top] /\ markOf' = p.val
  BY <1>1 DEF SaveMark
<1>3. mark' \in [validity : 0 .. MaxValidity, last : 0 .. MaxMsg] /\ markOf' \in 0 .. validity
  <2>1. p.val \in 0 .. validity /\ p.top \in 0 .. MaxMsg
    BY <1>1, PollIs DEF Poll, PollFits
  <2> QED BY <1>2, <2>1, PollIs
<1>4. ImapEffect(s, NoPoll)
  BY <1>2, <1>3, Blank, PollIs DEF ImapEffect, IInv, Types
<1>5. Types' /\ Grows
  BY <1>4, ImapTypes DEF IInv
<1>6. (~ torn /\ markOf = validity => Covers(mark.last))'
  <2>1. CASE UNCHANGED << mark, markOf >>
    BY <1>5, <2>1, MarkStays DEF IInv
  <2>2. CASE mark' = [mark EXCEPT !.last = p.top] /\ markOf' = p.val
    <3>1. mark'.last = p.top
      BY <2>2, PollIs
    <3> SUFFICES ASSUME ~ torn, p.val = validity PROVE Covers(p.top)'
      BY <1>2, <2>2, <3>1
    <3>2. Raised(p)
      BY <1>1, <1>2 DEF Carries
    <3>3. UNCHANGED << uidNext, box >> /\ Present' = Present
      BY <1>2 DEF server, Present
    <3>4. \A m \in Present : box[m] \in Nat
      BY DEF IInv, Types, Remote, SharedTypeOK, Present
    <3>5. p.top \in Nat
      BY DEF Poll
    <3> QED BY <1>2, <3>2, <3>3, <3>4, <3>5 DEF Raised, Covers
  <2> QED BY <1>2, <2>1, <2>2
<1>7. Carries(NoPoll)'
  BY <1>5 DEF Carries, NoPoll, Types, Remote, SharedTypeOK
<1> QED BY <1>4, <1>6, <1>7, ImapKeeps

-----------------------------------------------------------------------------

(* POP3: poll s becomes r, and the maildrop stays as it is.                *)
PopEffect(s, r) ==
  /\ r \in Drop /\ DropFits(r) /\ psess' = [psess EXCEPT ![s] = r]
  /\ UNCHANGED << proto, server, tls, keep, ivars >> /\ (mishaps' = mishaps \/ Fails)
  /\ inbox \subseteq inbox' /\ inbox' \subseteq Come
  /\ saved' \subseteq Msg /\ Cardinality(saved') <= SeenCap
  /\ again' \in Nat /\ blind' \in {blind, blind + 1}
  /\ mistaken \subseteq mistaken' /\ mistaken' \subseteq Msg
  /\ excuse \subseteq excuse' /\ excuse' \subseteq {"overlap", "forgot", "late"}

(* A POP3 step keeps the types and only adds to what is delivered.          *)
LEMMA PopTypes ==
  ASSUME Types, NEW s \in Session, NEW r, PopEffect(s, r)
  PROVE  Types' /\ Grows /\ psess'[s] = r /\ \A t \in Session \ {s} : psess'[t] = psess[t]
<1>1. Remote'
  BY RemoteKept DEF Types, PopEffect
<1>2. Marks' /\ Polls'
  <2>1. UNCHANGED << validity, mark, isess, markOf, torn, bodiless >> /\ arrived' = arrived
        /\ arrived \in Nat /\ validity \in Nat
    BY DEF PopEffect, ivars, server, Types, Remote, SharedTypeOK, Marks
  <2> QED BY <2>1, NoPollGoesOn DEF Types, Marks
<1>3. Lists'
  BY DEF Types, Lists, PopEffect
<1>4. Drops' /\ psess'[s] = r /\ \A t \in Session \ {s} : psess'[t] = psess[t]
  BY OneDrop DEF Types, PopEffect, server
<1>5. Grows
  BY QuietGrows DEF PopEffect, ivars
<1> QED BY <1>1, <1>2, <1>3, <1>4, <1>5 DEF Types

(* What the invariant says of a POP3 poll.                                  *)
LEMMA DropIs ==
  ASSUME IInv, NEW s \in Session
  PROVE  /\ \E p \in Drop : /\ p = psess[s] /\ DropFits(p) /\ DeletesDelivered(p)
                            /\ p.pc = "idle" => p = NoDrop
         /\ inbox \subseteq Come /\ saved \subseteq Msg /\ Cardinality(saved) <= SeenCap
         /\ again \in Nat /\ keep \in BOOLEAN /\ blind \in Nat /\ mistaken \subseteq Msg
         /\ excuse \subseteq {"overlap", "forgot", "late"}
         /\ psess \in [Session -> Drop] /\ Come \subseteq Msg
BY DEF IInv, Types, Drops, Kept, Repeats, Remote, SharedTypeOK, Lists, Come, Msg

(* Who owes no more than the allowance has not repeated more.              *)
LEMMA OwedBound ==
  ASSUME NEW p \in Drop, NEW i \in SUBSET Msg, NEW l \in SUBSET Msg, NEW a \in Nat, NEW k \in Nat,
         Unwritten(p) <= Cardinality(p.seen \ l),
         a + Cardinality(i \ (l \cup p.seen)) + Cardinality(p.seen \ l) <= k + Unwritten(p)
  PROVE  a <= k
<1> DEFINE A == Cardinality(i \ (l \cup p.seen))
           B == Cardinality(p.seen \ l)
           U == Unwritten(p)
<1>1. p.seen \ l \in SUBSET Msg /\ i \ (l \cup p.seen) \in SUBSET Msg
  BY DEF Drop
<1>2. A \in Nat /\ B \in Nat
  BY <1>1, FiniteMsgs
<1>3. U \in Nat
  BY DEF Drop, Unwritten
<1> HIDE DEF A, B, U
<1>4. a + A + B <= k + U /\ U <= B
  BY DEF A, B, U
<1> QED BY <1>2, <1>3, <1>4

(* The bound on repeats stays when the poll's own debt does.                *)
LEMMA PopRepeats ==
  ASSUME Types, Types', Repeats, proto = "pop3", proto' = "pop3", NEW s \in Session, NEW r \in Drop,
         psess[s].pc # "idle", psess'[s] = r, \A t \in Session \ {s} : psess'[t] = psess[t],
         mishaps' = mishaps \/ Fails, arrived' = arrived, blind' \in {blind, blind + 1},
         excuse \subseteq excuse', excuse' # {} => again' = again,
         r.pc = "idle" => r = NoDrop,
         excuse' = {} /\ Owed(psess[s]) => Owed(r)'
  PROVE  Repeats'
<1>1. ASSUME excuse' = {} PROVE Lone(s)' /\ Owed(r)'
  <2>1. excuse = {}
    BY <1>1
  <2>2. PICK t \in Session : Lone(t) /\ Owed(psess[t])
    BY <2>1 DEF Repeats
  <2>3. t = s
    BY <2>2 DEF Lone, NoDrop
  <2>4. Lone(s)'
    BY <2>2, <2>3 DEF Lone
  <2>5. Owed(r)'
    BY <1>1, <2>2, <2>3
  <2> QED BY <2>4, <2>5
<1>2. AgainBounded'
  <2>1. CASE excuse' = {}
    <3>1. Owed(r)'
      BY <1>1, <2>1
    <3>2. inbox' \in SUBSET Msg /\ saved' \in SUBSET Msg /\ {} \in SUBSET Msg /\ again' \in Nat
      BY DEF Types, Remote, SharedTypeOK, Lists, Msg
    <3>3. Allowed' \in Nat
      BY AllowedGrows
    <3>4. PICK l \in {saved', {}} : Owes(r, l)'
      BY <3>1 DEF Owed
    <3>5. /\ Unwritten(r) <= Cardinality(r.seen \ l)
          /\ again' + Cardinality(inbox' \ (l \cup r.seen)) + Cardinality(r.seen \ l)
               <= Allowed' + Unwritten(r)
      BY <3>4 DEF Owes, Debt, Unwritten
    <3>6. again' <= Allowed'
      BY <3>2, <3>3, <3>4, <3>5, OwedBound
    <3> QED BY <3>6 DEF AgainBounded, Allowed
  <2>2. CASE excuse' # {}
    BY <2>2, StillBounded DEF Repeats
  <2> QED BY <2>1, <2>2
<1>3. \A t \in Session : psess'[t].pc = "idle" => psess'[t] = NoDrop
  BY DEF Repeats
<1>4. excuse' = {} => \E t \in Session : Lone(t)' /\ Owed(psess[t])'
  <2>1. Owed(r)' => Owed(psess[s])'
    OBVIOUS
  <2> QED BY <1>1, <2>1
<1> QED BY <1>2, <1>3, <1>4 DEF Repeats


(* And the whole invariant, if what is marked for deletion is delivered.    *)
LEMMA PopKeeps ==
  ASSUME IInv, proto = "pop3", NEW s \in Session, NEW r, PopEffect(s, r), psess[s].pc # "idle",
         DeletesDelivered(r)', excuse' # {} => again' = again,
         r.pc = "idle" => r = NoDrop,
         excuse' = {} /\ Owed(psess[s]) => Owed(r)'
  PROVE  IInv'
<1>1. Types' /\ Grows /\ psess'[s] = r /\ \A t \in Session \ {s} : psess'[t] = psess[t]
  BY PopTypes DEF IInv
<1>2. Kept'
  <2>1. /\ Come' = Come /\ Present' = Present /\ gone' = gone
        /\ inbox \subseteq inbox' /\ mistaken \subseteq mistaken'
    BY DEF PopEffect, server, Come, Present
  <2>2. LostOnlyIfMistaken'
    BY <2>1 DEF IInv, Kept, LostOnlyIfMistaken, Come
  <2>3. \A t \in Session : DeletesDelivered(psess[t])'
    <3> TAKE t \in Session
    <3>1. CASE t = s
      BY <1>1, <3>1
    <3>2. CASE t # s
      BY <1>1, <2>1, <3>2 DEF IInv, Kept, DeletesDelivered
    <3> QED BY <3>1, <3>2
  <2> QED BY <2>2, <2>3 DEF Kept
<1>3. Honest'
  BY <1>1, HonestStays DEF IInv, PopEffect, ivars
<1>4. Repeats'
  <2>1. /\ r \in Drop /\ proto' = "pop3" /\ (mishaps' = mishaps \/ Fails) /\ arrived' = arrived
        /\ blind' \in {blind, blind + 1} /\ excuse \subseteq excuse'
    BY DEF PopEffect, server
  <2> QED BY <1>1, <2>1, PopRepeats DEF IInv
<1> QED BY <1>1, <1>2, <1>3, <1>4 DEF IInv

(* A step of a poll that delivers and writes nothing leaves the debt.      *)
LEMMA SameDebt ==
  ASSUME Types, NEW p \in Drop, NEW r \in Drop, Owed(p),
         UNCHANGED << again, inbox, saved, blind, arrived >>, mishaps' = mishaps \/ Fails,
         r.seen = p.seen, Unwritten(r) = Unwritten(p),
         \A l \in {saved, {}} : Fresh(p, l) => Fresh(r, l)
  PROVE  Owed(r)'
<1>1. PICK l \in {saved, {}} : Owes(p, l)
  BY DEF Owed
<1>2. Debt(p, l)'
  BY <1>1, Counts, DebtStays DEF Owes
<1>3. Debt(r, l)' /\ Fresh(r, l)'
  BY <1>1, <1>2 DEF Debt, Fresh, Unwritten, Owes
<1>4. (Unwritten(r) <= Cardinality(r.seen \ l))'
  BY <1>1 DEF Owes, Unwritten
<1>5. Owes(r, l)'
  BY <1>3, <1>4 DEF Owes
<1> QED BY <1>5 DEF Owed

(* What is delivered and not in the saved list is owed when no poll runs.   *)
LEMMA BlankOwes ==
  ASSUME again' + Cardinality(inbox' \ saved') <= Allowed', again' \in Nat, Allowed' \in Nat,
         Cardinality(inbox' \ saved') \in Nat
  PROVE  Owed(NoDrop)'
<1>1. /\ NoDrop.seen = {} /\ Unwritten(NoDrop) = 0 /\ NoDrop.pc = "idle"
      /\ inbox' \ (saved' \cup {}) = inbox' \ saved' /\ {} \ saved' = {}
  BY DEF NoDrop, Unwritten
<1>2. Unwritten(NoDrop)' = 0
  BY DEF NoDrop, Unwritten
<1> DEFINE Owes1 == /\ again' + Cardinality(inbox' \ saved') + 0 <= Allowed' + 0
                    /\ 0 <= 0
<1>3. Owes1
  OBVIOUS
<1>4. \E l \in {saved', {}} : Owes(NoDrop, l)'
  <2>1. PICK l : l = saved'
    OBVIOUS
  <2>2. Debt(NoDrop, l)'
    BY <1>1, <1>2, <1>3, <2>1, NoneIsZero DEF Debt
  <2>3. Fresh(NoDrop, l)'
    BY <1>1, <2>1 DEF Fresh, NoDrop
  <2>4. (Unwritten(NoDrop) <= Cardinality(NoDrop.seen \ l))'
    BY <1>1, <1>2, <2>1, NoneIsZero
  <2>5. Owes(NoDrop, l)'
    BY <2>2, <2>3, <2>4 DEF Owes
  <2> QED BY <2>1, <2>5
<1> QED BY <1>4 DEF Owed

(* A poll that ends leaves what it delivered and did not write as a debt;  *)
(* at most SaveEvery messages, or none when it wrote the list.             *)
LEMMA EndsOwing ==
  ASSUME Types, NEW p \in Drop, Owed(p), UNCHANGED << again, inbox, saved, blind, arrived >>,
         Fails \/ (mishaps' = mishaps /\ Unwritten(p) = 0)
  PROVE  Owed(NoDrop)'
<1>0. PICK l \in {saved, {}} : Owes(p, l)
  BY DEF Owed
<1> DEFINE A == Cardinality(inbox \ (l \cup p.seen))
           B == Cardinality(p.seen \ l)
           C == Cardinality(inbox \ saved)
           U == Unwritten(p)
<1>1. again \in Nat /\ Allowed \in Nat /\ l \in SUBSET Msg
  BY Counts
<1>2. A \in Nat /\ B \in Nat
  BY <1>1, Counts
<1>3. U \in Nat /\ U <= SaveEvery
  <2>1. Unwritten(p) \in 0 .. SaveEvery
    BY <1>1, Counts
  <2> QED BY <2>1
<1>4. again + A + B <= Allowed + U
  BY <1>0 DEF Owes, Debt
<1>5. Allowed' \in Nat /\ Allowed' >= Allowed + U
  <2>1. CASE Fails
    <3>1. Allowed' >= Allowed + SaveEvery /\ Allowed' \in Nat
      BY <2>1, AllowedGrows
    <3> HIDE DEF U
    <3> QED BY <1>1, <1>3, <3>1
  <2>2. CASE mishaps' = mishaps /\ Unwritten(p) = 0
    <3>1. Allowed' >= Allowed /\ Allowed' \in Nat
      BY <2>2, AllowedGrows
    <3> QED BY <1>1, <2>2, <3>1
  <2> QED BY <2>1, <2>2
<1>6. C <= A + B /\ C \in Nat
  <2>1. inbox \in SUBSET Msg /\ saved \in SUBSET Msg /\ p.seen \in SUBSET Msg
    BY Counts
  <2>2. /\ inbox \ saved \in SUBSET Msg /\ inbox \ (l \cup p.seen) \in SUBSET Msg
        /\ p.seen \ l \in SUBSET Msg
    BY <2>1
  <2>3. inbox \ saved \subseteq (inbox \ (l \cup p.seen)) \cup (p.seen \ l)
    OBVIOUS
  <2> QED BY <2>2, <2>3, Cover, FiniteMsgs
<1>7. again + C <= Allowed'
  <2> HIDE DEF A, B, C, U
  <2> QED BY <1>1, <1>2, <1>3, <1>4, <1>5, <1>6
<1>8. again' + Cardinality(inbox' \ saved') <= Allowed' /\ again' \in Nat
      /\ Cardinality(inbox' \ saved') \in Nat
  BY <1>1, <1>6, <1>7
<1> QED BY <1>5, <1>8, BlankOwes

(* Whatever ends a poll without a word to the server.                      *)
LEMMA PollBreaksOff ==
  ASSUME IInv, proto = "pop3", NEW s \in Session, psess[s].pc # "idle",
         psess' = [psess EXCEPT ![s] = NoDrop],
         UNCHANGED << proto, server, tls, keep, ivars, inbox, saved, again, excuse, blind, mistaken >>,
         Fails \/ (mishaps' = mishaps /\ psess[s].pc \in {"greet", "list", "seen"})
  PROVE  IInv'
<1>1. PICK p \in Drop : p = psess[s]
  BY DropIs
<1>2. PopEffect(s, NoDrop)
  BY DropIs, Blank DEF PopEffect, IInv, Types
<1>3. DeletesDelivered(NoDrop)'
  BY DEF DeletesDelivered, NoDrop
<1>4. Owed(p) => Owed(NoDrop)'
  <2> SUFFICES ASSUME Owed(p) PROVE Owed(NoDrop)'
    OBVIOUS
  <2>1. Fails \/ (mishaps' = mishaps /\ Unwritten(p) = 0)
    BY <1>1 DEF Owed, Owes, Fresh, Unwritten
  <2> QED BY <2>1, EndsOwing DEF IInv, server
<1> QED BY <1>1, <1>2, <1>3, <1>4, PopKeeps


(* A second poll at once is an excuse; the only one owes what the last one *)
(* left.                                                                   *)
LEMMA ConnectStep ==
  ASSUME IInv, proto = "pop3", NEW s \in Session, Connect(s), UNCHANGED ivars
  PROVE  IInv'
<1>1. psess[s] = NoDrop /\ psess[s] \in Drop
  BY DropIs DEF Connect
<1>2. PICK r : r = [NoDrop EXCEPT !.pc = "greet"]
  OBVIOUS
<1>3. /\ r \in Drop /\ r.pc = "greet" /\ r.refs = {} /\ r.seen = {} /\ r.count = 0
      /\ r.dele = {} /\ DropFits(r)
  BY <1>1, <1>2 DEF Drop, NoDrop, DropFits
<1>4. /\ UNCHANGED << proto, server, inbox, mishaps, tls, keep, saved, again, blind, mistaken >>
      /\ psess' = [psess EXCEPT ![s] = r]
      /\ excuse \subseteq excuse' /\ excuse' \subseteq {"overlap", "forgot", "late"}
      /\ excuse' = {} => excuse = {} /\ \A t \in Session \ {s} : psess[t].pc = "idle"
  BY <1>1, <1>2, DropIs DEF Connect, shared
<1>5. PopEffect(s, r)
  BY <1>3, <1>4, DropIs DEF PopEffect
<1>6. Types' /\ Grows /\ psess'[s] = r /\ \A t \in Session \ {s} : psess'[t] = psess[t]
  BY <1>5, PopTypes DEF IInv
<1>7. Kept'
  <2>1. Come' = Come /\ Present' = Present /\ gone' = gone /\ inbox' = inbox
    BY <1>4 DEF server, Come, Present
  <2>2. LostOnlyIfMistaken'
    BY <1>4, <2>1 DEF IInv, Kept, LostOnlyIfMistaken, Come
  <2>3. \A t \in Session : DeletesDelivered(psess[t])'
    <3> TAKE t \in Session
    <3>1. CASE t = s
      BY <1>3, <1>6, <3>1 DEF DeletesDelivered
    <3>2. CASE t # s
      BY <1>4, <1>6, <2>1, <3>2 DEF IInv, Kept, DeletesDelivered
    <3> QED BY <3>1, <3>2
  <2> QED BY <2>2, <2>3 DEF Kept
<1>8. Honest'
  BY <1>6, HonestStays DEF IInv, ivars
<1>9. Repeats'
  <2>1. AgainBounded'
    BY <1>4 DEF IInv, Repeats, AgainBounded, server
  <2>2. \A t \in Session : psess'[t].pc = "idle" => psess'[t] = NoDrop
    BY <1>3, <1>6 DEF IInv, Repeats
  <2>3. ASSUME excuse' = {} PROVE Lone(s)' /\ Owed(r)'
    <3>1. PICK t \in Session : Owed(psess[t])
      BY <1>4, <2>3 DEF IInv, Repeats
    <3>2. \A u \in Session : psess[u] = NoDrop
      BY <1>1, <1>4, <2>3 DEF IInv, Repeats
    <3>3. NoDrop.seen = {} /\ Unwritten(NoDrop) = 0 /\ Unwritten(r) = 0 /\ NoDrop \in Drop
      BY <1>1, <1>3 DEF NoDrop, Unwritten
    <3>4. Owed(NoDrop) /\ \A l \in {saved, {}} : Fresh(NoDrop, l) => Fresh(r, l)
      BY <1>3, <3>1, <3>2 DEF Fresh, NoDrop
    <3>5. Owed(r)'
      BY <1>3, <1>4, <3>3, <3>4, SameDebt DEF IInv, server
    <3>6. Lone(s)'
      BY <1>6, <3>2 DEF Lone
    <3> QED BY <3>5, <3>6
  <2>4. excuse' = {} => \E t \in Session : Lone(t)' /\ Owed(psess[t])'
    <3>1. Owed(r)' => Owed(psess[s])'
      BY <1>6
    <3> QED BY <2>3, <3>1
  <2> QED BY <1>4, <2>1, <2>2, <2>4 DEF Repeats
<1> QED BY <1>6, <1>7, <1>8, <1>9 DEF IInv

(* A step of the poll that neither delivers nor writes.                    *)
LEMMA PopQuiet ==
  ASSUME IInv, proto = "pop3", NEW s \in Session, psess[s].pc # "idle",
         NEW r \in Drop, DropFits(r), r.pc # "idle", psess' = [psess EXCEPT ![s] = r],
         UNCHANGED << proto, server, tls, keep, ivars, inbox, saved, again, excuse, blind, mistaken >>,
         mishaps' = mishaps \/ Fails,
         DeletesDelivered(r), r.seen = psess[s].seen, Unwritten(r) = Unwritten(psess[s]),
         \A l \in {saved, {}} : Fresh(psess[s], l) => Fresh(r, l)
  PROVE  IInv'
<1>1. PICK p \in Drop : p = psess[s]
  BY DropIs
<1>2. PopEffect(s, r)
  BY DropIs DEF PopEffect
<1>3. DeletesDelivered(r)'
  BY DEF DeletesDelivered
<1>4. Owed(p) => Owed(r)'
  BY <1>1, SameDebt DEF IInv, server
<1> QED BY <1>1, <1>2, <1>3, <1>4, PopKeeps

(* A server that greets before TLS lets the poll go on.                     *)
LEMMA GreetingStep ==
  ASSUME IInv, proto = "pop3", NEW s \in Session, Greeting(s), UNCHANGED ivars
  PROVE  IInv'
<1>1. PICK p \in Drop : p = psess[s] /\ DropFits(p) /\ DeletesDelivered(p)
  BY DropIs
<1>2. PICK r : r = [p EXCEPT !.pc = "list"]
  OBVIOUS
<1>3. /\ p.pc = "greet" /\ r \in Drop /\ r.pc = "list" /\ r.refs = p.refs /\ r.owed = p.owed
      /\ r.seen = p.seen /\ r.count = p.count /\ r.dele = p.dele
  BY <1>1, <1>2 DEF Drop, Greeting
<1>4. /\ psess' = [psess EXCEPT ![s] = r]
      /\ UNCHANGED << proto, server, tls, keep, inbox, saved, again, excuse, mishaps, blind, mistaken >>
  BY <1>1, <1>2 DEF Greeting, shared, notes
<1>5. /\ DropFits(r) /\ DeletesDelivered(r) /\ Unwritten(r) = Unwritten(p)
      /\ \A l \in {saved, {}} : Fresh(p, l) => Fresh(r, l)
  BY <1>1, <1>3 DEF DropFits, DeletesDelivered, Unwritten, Fresh
<1> QED BY <1>1, <1>3, <1>4, <1>5, PopQuiet

(* One that waits for the handshake hangs up: the poll ends, with nothing   *)
(* owed.                                                                    *)
LEMMA HangsUpStep ==
  ASSUME IInv, proto = "pop3", NEW s \in Session, ServerHangsUp(s), UNCHANGED ivars
  PROVE  IInv'
BY PollBreaksOff DEF ServerHangsUp, shared, notes

(* The poll lists what is in the maildrop.                                  *)
LEMMA ListDropStep ==
  ASSUME IInv, proto = "pop3", NEW s \in Session, ListDrop(s), UNCHANGED ivars
  PROVE  IInv'
<1>1. PICK p \in Drop : p = psess[s] /\ DropFits(p) /\ DeletesDelivered(p)
  BY DropIs
<1>2. Present \subseteq Come /\ Present \subseteq Msg
  BY DEF IInv, Types, Remote, SharedTypeOK, Come, Present
<1>3. PICK r : r = [p EXCEPT !.pc = "seen", !.refs = Present]
  OBVIOUS
<1>4. /\ p.pc = "list" /\ r \in Drop /\ r.pc = "seen" /\ r.refs = Present /\ r.owed = p.owed
      /\ r.seen = p.seen /\ r.count = p.count /\ r.dele = p.dele
  BY <1>1, <1>2, <1>3 DEF Drop, ListDrop
<1>5. /\ UNCHANGED << proto, server, tls, keep, inbox, saved, again, excuse, blind, mistaken >>
      /\ \/ psess' = [psess EXCEPT ![s] = r] /\ UNCHANGED mishaps
         \/ psess' = [psess EXCEPT ![s] = NoDrop] /\ Fails
  BY <1>1, <1>3, DropIs DEF ListDrop, notes
<1>6. /\ DropFits(r) /\ DeletesDelivered(r) /\ Unwritten(r) = Unwritten(p)
      /\ \A l \in {saved, {}} : Fresh(p, l) => Fresh(r, l)
  BY <1>1, <1>2, <1>4 DEF DropFits, DeletesDelivered, Unwritten, Fresh
<1>7. CASE psess' = [psess EXCEPT ![s] = r] /\ UNCHANGED mishaps
  BY <1>1, <1>4, <1>5, <1>6, <1>7, PopQuiet
<1>8. CASE psess' = [psess EXCEPT ![s] = NoDrop] /\ Fails
  BY <1>1, <1>4, <1>5, <1>8, PollBreaksOff
<1> QED BY <1>5, <1>7, <1>8

(* The list is read, and what it holds is not asked for; or it cannot be    *)
(* read, and what it holds is owed again, the whole maildrop at most.       *)
LEMMA SeenUIDLsStep ==
  ASSUME IInv, proto = "pop3", NEW s \in Session, SeenUIDLs(s), UNCHANGED ivars
  PROVE  IInv'
<1>1. PICK p \in Drop : p = psess[s] /\ DropFits(p) /\ DeletesDelivered(p)
  BY DropIs
<1>2. /\ p.pc = "seen" /\ UNCHANGED << proto, server, tls, keep, inbox, saved, again, excuse, mistaken >>
      /\ \/ /\ psess' = [psess EXCEPT ![s] = [p EXCEPT !.pc = "next", !.refs = p.refs \ saved,
                                                       !.seen = saved]]
            /\ UNCHANGED << mishaps, blind >>
         \/ psess' = [psess EXCEPT ![s] = [p EXCEPT !.pc = "next"]] /\ Fails /\ blind' = blind + 1
  BY <1>1, DropIs DEF SeenUIDLs
<1>3. ASSUME Owed(p)
      PROVE  /\ p.seen = {} /\ p.count = 0 /\ Unwritten(p) = 0
             /\ again + Cardinality(inbox \ saved) <= Allowed
  <2>1. PICK l \in {saved, {}} : Owes(p, l)
    BY <1>3 DEF Owed
  <2>2. p.seen = {} /\ p.count = 0 /\ Unwritten(p) = 0 /\ l = saved
    BY <1>2, <2>1 DEF Owes, Fresh, Unwritten
  <2>3. inbox \ (l \cup p.seen) = inbox \ saved /\ p.seen \ l = {}
    BY <2>2
  <2>4. again + Cardinality(inbox \ saved) + 0 <= Allowed + 0
    BY <2>1, <2>2, <2>3, NoneIsZero DEF Owes, Debt
  <2>5. again \in Nat /\ Allowed \in Nat /\ Cardinality(inbox \ saved) \in Nat
    <3>1. inbox \ saved \in SUBSET Msg /\ again \in Nat /\ Allowed \in Nat
      BY Counts DEF IInv
    <3> QED BY <3>1, FiniteMsgs
  <2> QED BY <2>2, <2>4, <2>5
<1>4. CASE /\ psess' = [psess EXCEPT ![s] = [p EXCEPT !.pc = "next", !.refs = p.refs \ saved,
                                                      !.seen = saved]]
           /\ UNCHANGED << mishaps, blind >>
  <2>1. PICK r : r = [p EXCEPT !.pc = "next", !.refs = p.refs \ saved, !.seen = saved]
    OBVIOUS
  <2>2. /\ r \in Drop /\ r.pc = "next" /\ r.refs = p.refs \ saved /\ r.owed = p.owed
        /\ r.seen = saved /\ r.count = p.count /\ r.dele = p.dele
    <3>1. p.refs \ saved \in SUBSET Msg /\ saved \in SUBSET Msg
      BY DropIs DEF Drop
    <3> QED BY <2>1, <3>1 DEF Drop
  <2>3. DropFits(r) /\ DeletesDelivered(r)
    BY <1>1, <2>2 DEF DropFits, DeletesDelivered
  <2>4. PopEffect(s, r) /\ DeletesDelivered(r)'
    BY <1>2, <1>4, <2>1, <2>2, <2>3, DropIs DEF PopEffect, DeletesDelivered
  <2>5. ASSUME Owed(p) PROVE Owed(r)'
    <3>1. /\ p.count = 0 /\ Unwritten(r) = 0 /\ r.seen \ saved = {}
          /\ inbox \ (saved \cup r.seen) = inbox \ saved
          /\ again + Cardinality(inbox \ saved) + 0 <= Allowed + 0
      <4>1. again + Cardinality(inbox \ saved) <= Allowed /\ p.count = 0
        BY <1>3, <2>5
      <4>2. again \in Nat /\ Allowed \in Nat /\ Cardinality(inbox \ saved) \in Nat
        <5>1. inbox \ saved \in SUBSET Msg /\ again \in Nat /\ Allowed \in Nat
          BY Counts DEF IInv
        <5> QED BY <5>1, FiniteMsgs
      <4> QED BY <2>2, <4>1, <4>2 DEF Unwritten
    <3>2. PICK l : l = saved
      OBVIOUS
    <3>3. Debt(r, l)'
      BY <1>2, <1>4, <3>1, <3>2, NoneIsZero DEF Debt, Allowed, Unwritten, server
    <3>4. Fresh(r, l)'
      BY <2>2, <3>2 DEF Fresh
    <3>5. (Unwritten(r) <= Cardinality(r.seen \ l))'
      BY <3>1, <3>2, NoneIsZero DEF Unwritten
    <3>6. Owes(r, l)'
      BY <3>3, <3>4, <3>5 DEF Owes
    <3> QED BY <1>2, <3>2, <3>6 DEF Owed
  <2> QED BY <1>1, <1>2, <2>2, <2>4, <2>5, PopKeeps
<1>5. CASE psess' = [psess EXCEPT ![s] = [p EXCEPT !.pc = "next"]] /\ Fails /\ blind' = blind + 1
  <2>1. PICK r : r = [p EXCEPT !.pc = "next"]
    OBVIOUS
  <2>2. /\ r \in Drop /\ r.pc = "next" /\ r.refs = p.refs /\ r.owed = p.owed
        /\ r.seen = p.seen /\ r.count = p.count /\ r.dele = p.dele
    BY <2>1 DEF Drop
  <2>3. DropFits(r) /\ DeletesDelivered(r)
    BY <1>1, <1>2, <2>2 DEF DropFits, DeletesDelivered
  <2>4. PopEffect(s, r) /\ DeletesDelivered(r)'
    BY <1>2, <1>5, <2>1, <2>2, <2>3, DropIs DEF PopEffect, DeletesDelivered
  <2>5. ASSUME Owed(p) PROVE Owed(r)'
    <3>1. /\ r.seen = {} /\ r.count = 0 /\ Unwritten(r) = 0
          /\ again + Cardinality(inbox \ saved) <= Allowed
      BY <1>3, <2>2, <2>5 DEF Unwritten
    <3>2. /\ inbox \in SUBSET Msg /\ saved \in SUBSET Msg /\ again \in Nat /\ Allowed \in Nat
          /\ inbox \subseteq Come /\ arrived \in Nat
      BY Counts, DropIs DEF IInv, Types, Remote, SharedTypeOK
    <3>3. Cardinality(inbox \cap saved) <= arrived /\ Cardinality(inbox \cap saved) \in Nat
      <4>1. IsFiniteSet(Come) /\ Cardinality(Come) = arrived
        BY <3>2, FS_Interval DEF Come
      <4> QED BY <3>2, <4>1, FS_Subset, FiniteMsgs
    <3>4. /\ Cardinality(inbox) <= Cardinality(inbox \ saved) + Cardinality(inbox \cap saved)
          /\ Cardinality(inbox) \in Nat /\ Cardinality(inbox \ saved) \in Nat
      <4>1. /\ inbox \ saved \in SUBSET Msg /\ inbox \cap saved \in SUBSET Msg
            /\ inbox \subseteq (inbox \ saved) \cup (inbox \cap saved)
        BY <3>2
      <4> QED BY <3>2, <4>1, Cover, FiniteMsgs
    <3>5. Allowed' >= Allowed + arrived /\ Allowed' \in Nat
      BY <1>2, <1>5, AllowedGrows DEF IInv, server
    <3>6. again + Cardinality(inbox) + 0 <= Allowed' + 0
      BY <3>1, <3>2, <3>3, <3>4, <3>5
    <3>7. inbox \ ({} \cup r.seen) = inbox /\ r.seen \ {} = {}
      BY <3>1
    <3>8. Debt(r, {})'
      BY <1>2, <3>1, <3>6, <3>7, NoneIsZero DEF Debt, Unwritten
    <3>9. Fresh(r, {})'
      BY <2>2, <3>1 DEF Fresh
    <3>10. (Unwritten(r) <= Cardinality(r.seen \ {}))'
      BY <3>1, <3>7, NoneIsZero DEF Unwritten
    <3>11. Owes(r, {})'
      BY <3>8, <3>9, <3>10 DEF Owes
    <3> QED BY <3>11 DEF Owed
  <2> QED BY <1>1, <1>2, <2>2, <2>4, <2>5, PopKeeps
<1> QED BY <1>2, <1>4, <1>5


(* RETR takes a reference that is not in the list of UIDLs; what it reads   *)
(* is owed by the server, and so has arrived.                               *)
LEMMA RetrieveStep ==
  ASSUME IInv, proto = "pop3", NEW s \in Session, Retrieve(s), UNCHANGED ivars
  PROVE  IInv'
<1>1. PICK p \in Drop : p = psess[s] /\ DropFits(p) /\ DeletesDelivered(p)
  BY DropIs
<1> DEFINE m == Min(psess[s].refs)
           due == psess[s].owed \cup {m}
           h == Min(due)
<1>2. p.pc = "next" /\ p.refs # {}
  BY <1>1 DEF Retrieve
<1>3. m \in p.refs /\ m \in Msg /\ m \in Come
  <2>1. p.refs \in SUBSET Nat /\ p.refs \in SUBSET Msg
    BY DEF Drop, Msg
  <2>2. m \in p.refs
    BY <1>1, <1>2, <2>1, MinIsIn
  <2> QED BY <1>1, <2>1, <2>2 DEF DropFits
<1>4. /\ UNCHANGED << proto, server, inbox, tls, keep, saved, again, excuse, blind, mistaken >>
      /\ (mishaps' = mishaps \/ Fails)
      /\ \/ psess' = [psess EXCEPT ![s] = [p EXCEPT !.pc = "deliver", !.refs = p.refs \ {m},
                                                    !.msg = m, !.body = h, !.owed = due \ {h}]]
         \/ psess' = [psess EXCEPT ![s] = [p EXCEPT !.refs = p.refs \ {m}, !.owed = due \ {h}]]
         \/ psess' = [psess EXCEPT ![s] = [p EXCEPT !.refs = p.refs \ {m}, !.owed = due, !.late = TRUE]]
         \/ psess' = [psess EXCEPT ![s] = [p EXCEPT !.refs = {}, !.dele = {}]]
         \/ psess' = [psess EXCEPT ![s] = NoDrop] /\ Fails
  <2>1. /\ UNCHANGED << proto, server, inbox, tls, keep, saved, again, excuse, blind, mistaken >>
        /\ (mishaps' = mishaps \/ Fails)
    BY DEF Retrieve, notes
  <2>2. \/ psess' = [psess EXCEPT ![s] = [psess[s] EXCEPT !.pc = "deliver",
                        !.refs = psess[s].refs \ {m}, !.msg = m, !.body = h, !.owed = due \ {h}]]
        \/ psess' = [psess EXCEPT ![s] = [psess[s] EXCEPT !.refs = psess[s].refs \ {m},
                                                         !.owed = due \ {h}]]
        \/ psess' = [psess EXCEPT ![s] = [psess[s] EXCEPT !.refs = psess[s].refs \ {m},
                                                         !.owed = due, !.late = TRUE]]
        \/ psess' = [psess EXCEPT ![s].refs = {}, ![s].dele = {}]
        \/ psess' = [psess EXCEPT ![s] = NoDrop] /\ Fails
    BY DEF Retrieve
  <2>3. psess' = [psess EXCEPT ![s].refs = {}, ![s].dele = {}]
          => psess' = [psess EXCEPT ![s] = [p EXCEPT !.refs = {}, !.dele = {}]]
    BY <1>1, DropIs
  <2> HIDE DEF m, h, due
  <2> QED BY <1>1, <2>1, <2>2, <2>3
<1> HIDE DEF m
<1>5. due \in SUBSET Msg /\ due \subseteq Come /\ h \in due
  <2>1. due \in SUBSET Msg /\ due \subseteq Come /\ due # {}
    BY <1>1, <1>3 DEF Drop, DropFits, due
  <2>2. due \in SUBSET Nat
    BY <2>1 DEF Msg
  <2> HIDE DEF due
  <2> QED BY <2>1, <2>2, MinIsIn
<1> HIDE DEF due, h
<1>6. /\ p.refs \ {m} \in SUBSET Msg /\ due \ {h} \in SUBSET Msg /\ {} \in SUBSET Msg
      /\ m \in 0 .. MaxMsg /\ h \in 0 .. MaxMsg /\ h \in Come
  BY <1>3, <1>5 DEF Drop, Msg
<1>7. CASE psess' = [psess EXCEPT ![s] = [p EXCEPT !.pc = "deliver", !.refs = p.refs \ {m},
                                                   !.msg = m, !.body = h, !.owed = due \ {h}]]
  <2>1. PICK r : r = [p EXCEPT !.pc = "deliver", !.refs = p.refs \ {m}, !.msg = m, !.body = h,
                               !.owed = due \ {h}]
    OBVIOUS
  <2>2. /\ r \in Drop /\ r.pc = "deliver" /\ r.refs = p.refs \ {m} /\ r.seen = p.seen
        /\ r.msg = m /\ r.body = h /\ r.owed = due \ {h} /\ r.count = p.count /\ r.dele = p.dele
    BY <1>6, <2>1 DEF Drop
  <2>3. /\ DropFits(r) /\ DeletesDelivered(r) /\ Unwritten(r) = Unwritten(p)
        /\ \A l \in {saved, {}} : Fresh(p, l) => Fresh(r, l)
    BY <1>1, <1>2, <1>3, <1>5, <1>6, <2>2 DEF DropFits, DeletesDelivered, Unwritten, Fresh
  <2>4. psess' = [psess EXCEPT ![s] = r]
    BY <1>7, <2>1
  <2> QED BY <1>1, <1>2, <1>4, <2>2, <2>3, <2>4, PopQuiet
<1>8. ASSUME NEW o \in SUBSET due, NEW b \in BOOLEAN,
             psess' = [psess EXCEPT ![s] = [p EXCEPT !.refs = p.refs \ {m}, !.owed = o, !.late = b]]
      PROVE  IInv'
  <2>1. PICK r : r = [p EXCEPT !.refs = p.refs \ {m}, !.owed = o, !.late = b]
    OBVIOUS
  <2>2. /\ r \in Drop /\ r.pc = "next" /\ r.refs = p.refs \ {m} /\ r.seen = p.seen
        /\ r.owed = o /\ r.count = p.count /\ r.dele = p.dele
    <3>1. o \in SUBSET Msg
      BY <1>5
    <3> QED BY <1>2, <1>6, <2>1, <3>1 DEF Drop
  <2>3. /\ DropFits(r) /\ DeletesDelivered(r) /\ Unwritten(r) = Unwritten(p)
        /\ \A l \in {saved, {}} : Fresh(p, l) => Fresh(r, l)
    BY <1>1, <1>2, <1>5, <2>2 DEF DropFits, DeletesDelivered, Unwritten, Fresh
  <2>4. psess' = [psess EXCEPT ![s] = r]
    BY <1>8, <2>1
  <2> QED BY <1>1, <1>2, <1>4, <2>2, <2>3, <2>4, PopQuiet
<1>9. CASE psess' = [psess EXCEPT ![s] = [p EXCEPT !.refs = p.refs \ {m}, !.owed = due \ {h}]]
  <2>1. p.late \in BOOLEAN
        /\ [p EXCEPT !.refs = p.refs \ {m}, !.owed = due \ {h}]
             = [p EXCEPT !.refs = p.refs \ {m}, !.owed = due \ {h}, !.late = p.late]
    BY DEF Drop
  <2>2. due \ {h} \in SUBSET due
    OBVIOUS
  <2> QED BY <1>8, <1>9, <2>1, <2>2
<1>10. CASE psess' = [psess EXCEPT ![s] = [p EXCEPT !.refs = p.refs \ {m}, !.owed = due, !.late = TRUE]]
  BY <1>8, <1>10
<1>11. CASE psess' = [psess EXCEPT ![s] = [p EXCEPT !.refs = {}, !.dele = {}]]
  <2>1. PICK r : r = [p EXCEPT !.refs = {}, !.dele = {}]
    OBVIOUS
  <2>2. /\ r \in Drop /\ r.pc = "next" /\ r.refs = {} /\ r.seen = p.seen
        /\ r.owed = p.owed /\ r.count = p.count /\ r.dele = {}
    BY <1>2, <1>6, <2>1 DEF Drop
  <2>3. /\ DropFits(r) /\ DeletesDelivered(r) /\ Unwritten(r) = Unwritten(p)
        /\ \A l \in {saved, {}} : Fresh(p, l) => Fresh(r, l)
    BY <1>1, <1>2, <2>2 DEF DropFits, DeletesDelivered, Unwritten, Fresh
  <2>4. psess' = [psess EXCEPT ![s] = r]
    BY <1>11, <2>1
  <2> QED BY <1>1, <1>2, <1>4, <2>2, <2>3, <2>4, PopQuiet
<1>12. CASE psess' = [psess EXCEPT ![s] = NoDrop] /\ Fails
  BY <1>1, <1>2, <1>4, <1>12, PollBreaksOff
<1> QED BY <1>4, <1>7, <1>9, <1>10, <1>11, <1>12

(* A delivery: a repeated one pays a debt, and each is one more that is    *)
(* not written yet.                                                        *)
LEMMA DeliveryDebt ==
  ASSUME Types, NEW p \in Drop, NEW r \in Drop, Owed(p),
         p.pc = "deliver", p.msg \in Msg, inbox' = inbox \cup {p.msg},
         again' = IF p.msg \in inbox THEN again + 1 ELSE again,
         UNCHANGED << saved, mishaps, blind, arrived >>,
         r.seen = p.seen \cup {p.msg}, r.refs = p.refs, r.dele = p.dele,
         Unwritten(r) = p.count + 1, r.pc \in {"mark", "dele"}, r.pc = "mark" => r.count = 0
  PROVE  Owed(r)'
<1>0. PICK l \in {saved, {}} : Owes(p, l)
  BY DEF Owed
<1> DEFINE m == p.msg
           X == inbox \ (l \cup p.seen)
           Y == p.seen \ l
           A == Cardinality(X)
           B == Cardinality(Y)
           K == Allowed
           A1 == Cardinality(inbox' \ (l \cup r.seen))
           B1 == Cardinality(r.seen \ l)
<1>1. again \in Nat /\ K \in Nat /\ A \in Nat /\ B \in Nat /\ X \in SUBSET Msg /\ Y \in SUBSET Msg
  <2>1. again \in Nat /\ K \in Nat
    BY Counts
  <2>2. A \in Nat /\ B \in Nat
    <3>1. l \in SUBSET Msg
      BY Counts
    <3> QED BY <3>1, Counts
  <2>3. inbox \in SUBSET Msg /\ p.seen \in SUBSET Msg
    BY Counts
  <2>4. X \in SUBSET Msg /\ Y \in SUBSET Msg
    BY <2>3
  <2> QED BY <2>1, <2>2, <2>4
<1>2. Unwritten(p) = p.count /\ p.count \in Nat
  BY DEF Unwritten, Drop
<1>3. again + A + B <= K + p.count /\ p.count <= B
  BY <1>0, <1>2 DEF Owes, Debt
<1>4. l \subseteq p.seen /\ m \notin p.seen /\ m \notin l /\ m \notin p.refs
      /\ p.refs \cap p.seen = {}
  BY <1>0 DEF Owes, Fresh
<1>5. B1 = B + 1
  <2>1. r.seen \ l = Y \cup {m} /\ m \notin Y
    BY <1>4
  <2> HIDE DEF Y, m
  <2>2. m \in Msg
    BY DEF m
  <2> QED BY <1>1, <2>1, <2>2, OneMore
<1>6. \/ m \in inbox /\ again' = again + 1 /\ A = A1 + 1 /\ A1 \in Nat
      \/ again' = again /\ A1 = A
  <2>1. CASE m \in inbox
    <3>1. inbox' \ (l \cup r.seen) = X \ {m} /\ m \in X
      BY <1>4, <2>1
    <3>2. X \ {m} \in SUBSET Msg /\ again' = again + 1 /\ m \in Msg
      BY <1>1, <2>1
    <3> HIDE DEF X, m
    <3>3. Cardinality(X) = Cardinality(X \ {m}) + 1 /\ Cardinality(X \ {m}) \in Nat
      BY <1>1, <3>1, <3>2, OneMore, FiniteMsgs
    <3> QED BY <2>1, <3>1, <3>2, <3>3
  <2>2. CASE m \notin inbox
    <3>1. inbox' \ (l \cup r.seen) = X
      BY <2>2
    <3> HIDE DEF X
    <3> QED BY <2>2, <3>1
  <2> QED BY <2>1, <2>2
<1>7. again' + A1 + B1 <= K + (p.count + 1) /\ p.count + 1 <= B1
  <2> HIDE DEF A, B, A1, B1, K, m
  <2> QED BY <1>1, <1>2, <1>3, <1>5, <1>6
<1>8. Debt(r, l)'
  BY <1>7 DEF Debt, Unwritten, Allowed
<1>9. Fresh(r, l)'
  BY <1>4 DEF Fresh
<1>10. (Unwritten(r) <= Cardinality(r.seen \ l))'
  BY <1>7 DEF Unwritten
<1>11. Owes(r, l)'
  BY <1>8, <1>9, <1>10 DEF Owes
<1> QED BY <1>11 DEF Owed

(* Deliveries are counted in rounds of SaveEvery.                          *)
LEMMA Rounds ==
  ASSUME NEW c \in 0 .. SaveEvery - 1
  PROVE  /\ (c + 1) % SaveEvery \in 0 .. SaveEvery - 1
         /\ BatchFull(c + 1) => c + 1 = SaveEvery /\ (c + 1) % SaveEvery = 0
         /\ ~ BatchFull(c + 1) => (c + 1) % SaveEvery = c + 1
<1>1. c \in Nat /\ (c + 1 < SaveEvery \/ c + 1 = SaveEvery)
  OBVIOUS
<1>2. CASE c + 1 < SaveEvery
  BY <1>1, <1>2 DEF BatchFull
<1>3. CASE c + 1 = SaveEvery
  <2>1. SaveEvery % SaveEvery = 0
    OBVIOUS
  <2> QED BY <1>1, <1>3, <2>1 DEF BatchFull
<1> QED BY <1>1, <1>2, <1>3

(* A delivery that fails is a mishap; one that does not is counted once,    *)
(* and one of another message than was asked for is noted.                  *)
LEMMA DeliverRetrievedStep ==
  ASSUME IInv, proto = "pop3", NEW s \in Session, DeliverRetrieved(s), UNCHANGED ivars
  PROVE  IInv'
<1>1. PICK p \in Drop : p = psess[s] /\ DropFits(p) /\ DeletesDelivered(p)
  BY DropIs
<1> DEFINE n == p.count + 1
           c == IF BatchFull(n) THEN "mark" ELSE "dele"
<1>2. p.pc = "deliver" /\ p.msg \in Come /\ p.msg \in Msg /\ p.body \in Come
  BY <1>1, DropIs DEF DeliverRetrieved, DropFits
<1>3. /\ UNCHANGED << proto, server, tls, keep, saved, blind >>
      /\ \/ /\ inbox' = inbox \cup {p.body}
            /\ mistaken' = IF p.body # p.msg THEN mistaken \cup {p.msg} ELSE mistaken
            /\ excuse' = IF p.body # p.msg THEN excuse \cup {"late"} ELSE excuse
            /\ again' = IF p.body \in inbox /\ excuse' = {} THEN again + 1 ELSE again
            /\ psess' = [psess EXCEPT ![s] = [p EXCEPT !.pc = c, !.seen = p.seen \cup {p.msg},
                                                       !.count = n % SaveEvery]]
            /\ UNCHANGED mishaps
         \/ /\ Fails /\ psess' = [psess EXCEPT ![s] = NoDrop]
            /\ UNCHANGED << inbox, again, excuse, mistaken >>
  BY <1>1, DropIs DEF DeliverRetrieved, AfterFailedDelivery
<1>4. CASE Fails /\ psess' = [psess EXCEPT ![s] = NoDrop] /\ UNCHANGED << inbox, again, excuse, mistaken >>
  BY <1>1, <1>2, <1>3, <1>4, PollBreaksOff
<1>5. CASE /\ inbox' = inbox \cup {p.body}
           /\ mistaken' = IF p.body # p.msg THEN mistaken \cup {p.msg} ELSE mistaken
           /\ excuse' = IF p.body # p.msg THEN excuse \cup {"late"} ELSE excuse
           /\ again' = IF p.body \in inbox /\ excuse' = {} THEN again + 1 ELSE again
           /\ psess' = [psess EXCEPT ![s] = [p EXCEPT !.pc = c, !.seen = p.seen \cup {p.msg},
                                                      !.count = n % SaveEvery]]
           /\ UNCHANGED mishaps
  <2>1. PICK r : r = [p EXCEPT !.pc = c, !.seen = p.seen \cup {p.msg}, !.count = n % SaveEvery]
    OBVIOUS
  <2>2. /\ n % SaveEvery \in 0 .. SaveEvery - 1 /\ c \in {"mark", "dele"}
        /\ (c = "mark" => n = SaveEvery /\ n % SaveEvery = 0)
        /\ (c = "dele" => n % SaveEvery = n)
    <3>1. p.count \in 0 .. SaveEvery - 1
      BY DEF Drop
    <3> QED BY <3>1, Rounds
  <2> HIDE DEF c, n
  <2>3. /\ r \in Drop /\ r.pc = c /\ r.refs = p.refs /\ r.seen = p.seen \cup {p.msg}
        /\ r.msg = p.msg /\ r.owed = p.owed /\ r.count = n % SaveEvery /\ r.dele = p.dele
    <3>1. p.seen \cup {p.msg} \in SUBSET Msg
      BY <1>2 DEF Drop
    <3> QED BY <2>1, <2>2, <3>1 DEF Drop
  <2>4. DropFits(r) /\ Unwritten(r) = n
    BY <1>1, <2>2, <2>3 DEF DropFits, Unwritten
  <2>5. again' \in Nat /\ inbox' \subseteq Come
    BY <1>2, <1>5, DropIs
  <2>6. /\ mistaken \subseteq mistaken' /\ mistaken' \subseteq Msg
        /\ excuse \subseteq excuse' /\ excuse' \subseteq {"overlap", "forgot", "late"}
        /\ p.msg \in inbox' \cup mistaken' /\ inbox \subseteq inbox'
    BY <1>2, <1>5, DropIs
  <2>7. psess' = [psess EXCEPT ![s] = r]
    BY <1>5, <2>1
  <2>8. PopEffect(s, r)
    BY <1>3, <1>5, <2>3, <2>4, <2>5, <2>6, <2>7, DropIs DEF PopEffect
  <2>9. DeletesDelivered(r)'
    BY <1>1, <2>3, <2>6 DEF DeletesDelivered
  <2>10. excuse' # {} => again' = again
    BY <1>5
  <2>11. ASSUME excuse' = {}, Owed(p) PROVE Owed(r)'
    <3>1. p.body = p.msg
      BY <1>5, <2>11
    <3>2. inbox' = inbox \cup {p.msg} /\ again' = IF p.msg \in inbox THEN again + 1 ELSE again
      BY <1>5, <2>11, <3>1
    <3>3. Unwritten(r) = p.count + 1
      BY <2>4 DEF n
    <3>4. r.pc \in {"mark", "dele"} /\ (r.pc = "mark" => r.count = 0)
      BY <2>2, <2>3
    <3>5. UNCHANGED << saved, mishaps, blind, arrived >>
      BY <1>3, <1>5 DEF server
    <3> QED BY <1>2, <2>3, <2>11, <3>2, <3>3, <3>4, <3>5, DeliveryDebt DEF IInv
  <2>12. r.pc # "idle" /\ psess[s].pc # "idle"
    BY <1>1, <1>2, <2>2, <2>3
  <2> QED BY <1>1, <2>8, <2>9, <2>10, <2>11, <2>12, PopKeeps
<1> QED BY <1>3, <1>4, <1>5


(* A list that is written pays all that was delivered since; one that is   *)
(* cut is an excuse; and one that could not be written is a failure.       *)
LEMMA Written ==
  ASSUME NEW seen \in SUBSET Msg, NEW l \in WrittenLists(seen)
  PROVE  l \subseteq seen /\ Cardinality(l) <= SeenCap
<1>1. Cardinality(seen) \in Nat
  BY FiniteMsgs
<1>2. CASE Cardinality(seen) > SeenCap
  BY <1>2 DEF WrittenLists, kSubset
<1>3. CASE ~ (Cardinality(seen) > SeenCap)
  BY <1>1, <1>3 DEF WrittenLists
<1> QED BY <1>2, <1>3

(* Writing the list pays what the poll owed, unless the statement fails:    *)
(* from then on it counts from the list it wrote.                           *)
LEMMA WrittenDebt ==
  ASSUME Types, NEW p \in Drop, NEW r \in Drop, Owed(p), p.pc \in {"mark", "next"},
         r.seen = p.seen, r.pc \in {"dele", "quit"}, r.refs = p.refs, Unwritten(r) = 0,
         UNCHANGED << again, inbox, blind, arrived >>,
         \/ saved' = p.seen /\ UNCHANGED mishaps
         \/ saved' = saved /\ Fails
  PROVE  Owed(r)'
<1>0. PICK l \in {saved, {}} : Owes(p, l)
  BY DEF Owed
<1> DEFINE A == Cardinality(inbox \ (l \cup p.seen))
           B == Cardinality(p.seen \ l)
           K == Allowed
           U == Unwritten(p)
<1>1. again \in Nat /\ K \in Nat /\ l \in SUBSET Msg
  BY Counts
<1>2. A \in Nat /\ B \in Nat
  BY <1>1, Counts
<1>3. U \in Nat /\ U <= SaveEvery
  <2>1. Unwritten(p) \in 0 .. SaveEvery
    BY <1>1, Counts
  <2> QED BY <2>1
<1>4. again + A + B <= K + U /\ U <= B
  BY <1>0 DEF Owes, Debt
<1>5. l \subseteq p.seen /\ p.refs \cap p.seen = {}
  BY <1>0 DEF Owes, Fresh
<1>6. ASSUME NEW k \in {saved', {}}, k \subseteq p.seen,
             again + Cardinality(inbox \ (k \cup p.seen)) + Cardinality(p.seen \ k) <= Allowed'
      PROVE  Owed(r)'
  <2>1. k \in SUBSET Msg /\ again \in Nat /\ p.seen \in SUBSET Msg /\ inbox \in SUBSET Msg
    BY <1>1, <1>6, Counts DEF Drop
  <2>2. inbox \ (k \cup p.seen) \in SUBSET Msg /\ p.seen \ k \in SUBSET Msg
    BY <2>1
  <2>3. Cardinality(inbox \ (k \cup p.seen)) \in Nat /\ Cardinality(p.seen \ k) \in Nat
    BY <2>2, FiniteMsgs
  <2>4. Unwritten(r)' = 0 /\ 0 <= Cardinality(p.seen \ k)
    BY <2>3 DEF Unwritten
  <2>5. Allowed' \in Nat
    BY AllowedGrows
  <2>6. Debt(r, k)'
    BY <1>6, <2>4, <2>5 DEF Debt
  <2>7. Fresh(r, k)'
    BY <1>5, <1>6 DEF Fresh
  <2>8. (Unwritten(r) <= Cardinality(r.seen \ k))'
    BY <2>4
  <2>9. Owes(r, k)'
    BY <2>6, <2>7, <2>8 DEF Owes
  <2> QED BY <2>9 DEF Owed
<1>7. CASE saved' = p.seen /\ UNCHANGED mishaps
  <2>1. inbox \ (p.seen \cup p.seen) = inbox \ (l \cup p.seen) /\ p.seen \ p.seen = {}
    BY <1>5
  <2>2. Cardinality(inbox \ (p.seen \cup p.seen)) = A /\ Cardinality(p.seen \ p.seen) = 0
    BY <2>1, NoneIsZero
  <2>3. Allowed' >= K /\ Allowed' \in Nat
    BY <1>7, AllowedGrows
  <2>4. again + A + 0 <= Allowed'
    <3> HIDE DEF A, B, K, U
    <3> QED BY <1>1, <1>2, <1>3, <1>4, <2>3
  <2> QED BY <1>6, <1>7, <2>2, <2>4
<1>8. CASE saved' = saved /\ Fails
  <2>1. Allowed' >= K + SaveEvery /\ Allowed' \in Nat
    BY <1>8, AllowedGrows
  <2>2. again + A + B <= Allowed'
    <3> HIDE DEF A, B, K, U
    <3> QED BY <1>1, <1>2, <1>3, <1>4, <2>1
  <2> QED BY <1>5, <1>6, <1>8, <2>2
<1> QED BY <1>7, <1>8

(* The list is written, in a batch or at the end.                           *)
LEMMA SaveUIDLsStep ==
  ASSUME IInv, proto = "pop3", NEW s \in Session, NEW c \in {"dele", "quit"},
         \/ psess[s].pc = "mark" /\ c = "dele"
         \/ psess[s].pc = "next" /\ c = "quit" /\ psess[s].refs = {},
         psess' = [psess EXCEPT ![s].pc = c], SaveUIDLs(s), UNCHANGED ivars
  PROVE  IInv'
<1>1. PICK p \in Drop : p = psess[s] /\ DropFits(p) /\ DeletesDelivered(p)
  BY DropIs
<1>2. PICK r : r = [p EXCEPT !.pc = c]
  OBVIOUS
<1>3. /\ r \in Drop /\ r.pc = c /\ r.refs = p.refs /\ r.owed = p.owed /\ r.seen = p.seen
      /\ r.msg = p.msg /\ r.count = p.count /\ r.dele = p.dele
  BY <1>2 DEF Drop
<1>4. /\ UNCHANGED << proto, server, inbox, tls, keep, again, blind, mistaken >>
      /\ psess' = [psess EXCEPT ![s] = r]
      /\ \/ /\ saved' \in WrittenLists(p.seen) /\ UNCHANGED mishaps
            /\ excuse' = IF saved' = p.seen THEN excuse ELSE excuse \cup {"forgot"}
         \/ Fails /\ UNCHANGED << saved, excuse >>
  BY <1>1, <1>2 DEF SaveUIDLs
<1>5. /\ saved' \subseteq Msg /\ Cardinality(saved') <= SeenCap
      /\ excuse \subseteq excuse' /\ excuse' \subseteq {"overlap", "forgot", "late"}
      /\ excuse' = {} => \/ saved' = p.seen /\ UNCHANGED mishaps
                         \/ saved' = saved /\ Fails
  <2>1. CASE Fails /\ UNCHANGED << saved, excuse >>
    BY <2>1, DropIs
  <2>2. CASE /\ saved' \in WrittenLists(p.seen) /\ UNCHANGED mishaps
             /\ excuse' = IF saved' = p.seen THEN excuse ELSE excuse \cup {"forgot"}
    <3>1. p.seen \in SUBSET Msg
      BY DEF Drop
    <3>2. PICK l \in WrittenLists(p.seen) : l = saved'
      BY <2>2
    <3>3. saved' \subseteq p.seen /\ Cardinality(saved') <= SeenCap
      BY <3>1, <3>2, Written
    <3>4. excuse' = {} => saved' = p.seen
      BY <2>2
    <3>5. excuse \subseteq excuse' /\ excuse' \subseteq {"overlap", "forgot", "late"}
      BY <2>2, DropIs
    <3> QED BY <2>2, <3>1, <3>3, <3>4, <3>5
  <2> QED BY <1>4, <2>1, <2>2
<1>6. PopEffect(s, r)
  <2>1. DropFits(r)
    BY <1>1, <1>3 DEF DropFits
  <2> QED BY <1>3, <1>4, <1>5, <2>1, DropIs DEF PopEffect
<1>7. DeletesDelivered(r)'
  BY <1>1, <1>3, <1>4 DEF DeletesDelivered
<1>8. ASSUME excuse' = {}, Owed(p) PROVE Owed(r)'
  <2>1. p.pc \in {"mark", "next"}
    BY <1>1
  <2>2. PICK l \in {saved, {}} : Fresh(p, l)
    BY <1>8 DEF Owed, Owes
  <2>3. Unwritten(r) = 0
    BY <1>1, <1>3, <2>1, <2>2 DEF Unwritten, Fresh
  <2>4. UNCHANGED << again, inbox, blind, arrived >>
    BY <1>4 DEF server
  <2> QED BY <1>3, <1>5, <1>8, <2>1, <2>3, <2>4, WrittenDebt DEF IInv
<1> QED BY <1>1, <1>3, <1>4, <1>5, <1>6, <1>7, <1>8, PopKeeps

(* DELE marks what was delivered.                                           *)
LEMMA DeleStep ==
  ASSUME IInv, proto = "pop3", NEW s \in Session, Dele(s), UNCHANGED ivars
  PROVE  IInv'
<1>1. PICK p \in Drop : p = psess[s] /\ DropFits(p) /\ DeletesDelivered(p)
  BY DropIs
<1>2. PICK d \in {p.dele, Marked(p)}, o \in SUBSET p.owed, b \in BOOLEAN :
        psess' = [psess EXCEPT ![s] = [p EXCEPT !.pc = "next", !.msg = 0, !.body = 0, !.dele = d,
                                                !.owed = o, !.late = b]]
  <2>1. p.late \in BOOLEAN /\ \A o \in LeftOwed(p) : o \in SUBSET p.owed
    BY DEF Drop, LeftOwed
  <2>2. ASSUME NEW d \in {p.dele, Marked(p)}, NEW o \in SUBSET p.owed
        PROVE  [[p EXCEPT !.pc = "next", !.msg = 0, !.body = 0, !.dele = d] EXCEPT !.owed = o]
                 = [p EXCEPT !.pc = "next", !.msg = 0, !.body = 0, !.dele = d, !.owed = o,
                             !.late = p.late]
    BY DEF Drop
  <2>3. ASSUME NEW d \in {p.dele, Marked(p)}
        PROVE  [[p EXCEPT !.pc = "next", !.msg = 0, !.body = 0, !.dele = d] EXCEPT !.late = TRUE]
                 = [p EXCEPT !.pc = "next", !.msg = 0, !.body = 0, !.dele = d, !.owed = p.owed,
                             !.late = TRUE]
    BY DEF Drop
  <2>4. \/ \E o \in LeftOwed(p) :
             psess' = [psess EXCEPT ![s] =
               [[p EXCEPT !.pc = "next", !.msg = 0, !.body = 0, !.dele = Marked(p)] EXCEPT !.owed = o]]
        \/ \E d \in {p.dele, Marked(p)} :
             psess' = [psess EXCEPT ![s] =
               [[p EXCEPT !.pc = "next", !.msg = 0, !.body = 0, !.dele = d] EXCEPT !.late = TRUE]]
    BY <1>1 DEF Dele
  <2>5. CASE \E o \in LeftOwed(p) :
             psess' = [psess EXCEPT ![s] =
               [[p EXCEPT !.pc = "next", !.msg = 0, !.body = 0, !.dele = Marked(p)] EXCEPT !.owed = o]]
    <3>1. PICK o \in SUBSET p.owed :
            psess' = [psess EXCEPT ![s] =
              [[p EXCEPT !.pc = "next", !.msg = 0, !.body = 0, !.dele = Marked(p)] EXCEPT !.owed = o]]
      BY <2>1, <2>5
    <3>2. psess' = [psess EXCEPT ![s] = [p EXCEPT !.pc = "next", !.msg = 0, !.body = 0,
                                           !.dele = Marked(p), !.owed = o, !.late = p.late]]
      BY <2>2, <3>1
    <3> QED BY <2>1, <3>2
  <2>6. CASE \E d \in {p.dele, Marked(p)} :
             psess' = [psess EXCEPT ![s] =
               [[p EXCEPT !.pc = "next", !.msg = 0, !.body = 0, !.dele = d] EXCEPT !.late = TRUE]]
    <3>1. PICK d \in {p.dele, Marked(p)} :
            psess' = [psess EXCEPT ![s] =
              [[p EXCEPT !.pc = "next", !.msg = 0, !.body = 0, !.dele = d] EXCEPT !.late = TRUE]]
      BY <2>6
    <3>2. psess' = [psess EXCEPT ![s] = [p EXCEPT !.pc = "next", !.msg = 0, !.body = 0, !.dele = d,
                                                  !.owed = p.owed, !.late = TRUE]]
      BY <2>3, <3>1
    <3> QED BY <3>2
  <2> QED BY <2>4, <2>5, <2>6
<1>3. /\ p.pc = "dele" /\ (mishaps' = mishaps \/ Fails)
      /\ UNCHANGED << proto, server, inbox, tls, keep, saved, again, excuse, blind, mistaken >>
  BY <1>1 DEF Dele, notes
<1>4. d \subseteq inbox \cup mistaken /\ d \in SUBSET Msg
  <2>1. p.msg \in inbox \cup mistaken /\ p.dele \subseteq inbox \cup mistaken
        /\ inbox \cup mistaken \subseteq Msg
    BY <1>1, <1>3, DropIs DEF DeletesDelivered
  <2>2. d = p.dele \/ d = p.dele \cup {p.msg}
    BY <1>2 DEF Marked
  <2> QED BY <2>1, <2>2
<1>5. PICK r : r = [p EXCEPT !.pc = "next", !.msg = 0, !.body = 0, !.dele = d, !.owed = o, !.late = b]
  OBVIOUS
<1>6. /\ r \in Drop /\ r.pc = "next" /\ r.refs = p.refs /\ r.seen = p.seen
      /\ r.owed = o /\ r.count = p.count /\ r.dele = d
  <2>1. 0 \in 0 .. MaxMsg /\ o \in SUBSET Msg
    BY DEF Drop
  <2> QED BY <1>4, <1>5, <2>1 DEF Drop
<1>7. /\ DropFits(r) /\ DeletesDelivered(r) /\ Unwritten(r) = Unwritten(p)
      /\ \A l \in {saved, {}} : Fresh(p, l) => Fresh(r, l)
  BY <1>1, <1>3, <1>4, <1>6 DEF DropFits, DeletesDelivered, Unwritten, Fresh
<1>8. psess' = [psess EXCEPT ![s] = r]
  BY <1>2, <1>5
<1> QED BY <1>1, <1>3, <1>6, <1>7, <1>8, PopQuiet

(* QUIT takes from the server what is delivered, and nothing else.         *)
LEMMA QuitStep ==
  ASSUME IInv, proto = "pop3", NEW s \in Session, Quit(s), UNCHANGED ivars
  PROVE  IInv'
<1>1. PICK p \in Drop : p = psess[s] /\ DropFits(p) /\ DeletesDelivered(p)
  BY DropIs
<1>2. /\ p.pc = "quit" /\ psess' = [psess EXCEPT ![s] = NoDrop]
      /\ UNCHANGED << proto, arrived, uidNext, gone, inbox, tls, keep, saved >>
      /\ UNCHANGED << again, excuse, blind, mistaken >>
      /\ \/ box' = [m \in Msg |-> IF m \in p.dele THEN 0 ELSE box[m]] /\ UNCHANGED mishaps
         \/ Fails /\ UNCHANGED box
  BY <1>1 DEF Quit, notes
<1>3. CASE Fails /\ UNCHANGED box
  BY <1>1, <1>2, <1>3, PollBreaksOff DEF server
<1>4. CASE box' = [m \in Msg |-> IF m \in p.dele THEN 0 ELSE box[m]] /\ UNCHANGED mishaps
  <2>1. /\ box \in [Msg -> 0 .. uidNext - 1] /\ uidNext \in Nat /\ uidNext >= 1 /\ arrived \in Nat
    BY DEF IInv, Types, Remote, SharedTypeOK
  <2>2. /\ box' \in [Msg -> 0 .. uidNext' - 1]
        /\ \A m \in Msg : box'[m] = IF m \in p.dele THEN 0 ELSE box[m]
    BY <1>2, <1>4, <2>1
  <2>3. Present' = Present \ p.dele
    BY <2>2 DEF Present
  <2>4. Remote'
    <3>1. \A m, n \in Present' : box'[m] = box'[n] => m = n
      BY <2>2, <2>3 DEF IInv, Types, Remote, SharedTypeOK, Present
    <3>2. (Present \cup gone \cup inbox \subseteq 1 .. arrived)'
      BY <1>2, <2>3 DEF IInv, Types, Remote, SharedTypeOK
    <3>3. /\ proto' \in {"imap", "pop3"} /\ arrived' \in 0 .. MaxMsg /\ uidNext' \in 1 .. arrived' + 1
          /\ mishaps' \in 0 .. MaxMishaps
      BY <1>2, <1>4 DEF IInv, Types, Remote, SharedTypeOK
    <3> QED BY <2>2, <3>1, <3>2, <3>3 DEF Remote, SharedTypeOK
  <2>5. Drops' /\ psess'[s] = NoDrop /\ \A t \in Session \ {s} : psess'[t] = psess[t]
    BY <1>2, Blank, OneDrop DEF IInv, Types
  <2>6. Types'
    <3>1. UNCHANGED << validity, mark, isess, markOf, torn, bodiless >> /\ validity \in Nat
      BY DEF ivars, IInv, Types, Marks
    <3>2. Polls'
      BY <1>2, <2>1, <3>1, NoPollGoesOn DEF IInv, Types
    <3> QED BY <1>2, <2>4, <2>5, <3>1, <3>2 DEF IInv, Types, Marks, Lists
  <2>7. Grows
    <3>1. \A m \in Present' : m \in Present /\ box'[m] = box[m]
      BY <2>2, <2>3 DEF Present
    <3> QED BY <1>2, <2>1, <3>1 DEF Grows, ivars
  <2>8. Kept'
    <3>1. Come' \subseteq Present' \cup gone' \cup inbox' \cup mistaken'
      BY <1>1, <1>2, <2>3 DEF IInv, Kept, LostOnlyIfMistaken, Come, DeletesDelivered
    <3>2. LostOnlyIfMistaken'
      BY <3>1 DEF LostOnlyIfMistaken, Come
    <3>3. \A t \in Session : DeletesDelivered(psess[t])'
      BY <1>2, <2>5 DEF IInv, Kept, DeletesDelivered, NoDrop
    <3> QED BY <3>2, <3>3 DEF Kept
  <2>9. Honest'
    BY <2>6, <2>7, HonestStays DEF IInv, ivars
  <2>10. Repeats'
    <3>1. Owed(p) => Owed(NoDrop)'
      <4> SUFFICES ASSUME Owed(p) PROVE Owed(NoDrop)'
        OBVIOUS
      <4>1. Unwritten(p) = 0
        BY <1>2 DEF Unwritten
      <4> QED BY <1>2, <1>4, <4>1, EndsOwing DEF IInv
    <3>2. psess[s].pc # "idle" /\ NoDrop \in Drop
      BY <1>1, <1>2, Blank DEF IInv, Types
    <3> QED BY <1>1, <1>2, <1>4, <2>5, <2>6, <3>1, <3>2, PopRepeats DEF IInv
  <2> QED BY <2>6, <2>8, <2>9, <2>10 DEF IInv
<1> QED BY <1>2, <1>3, <1>4


(* The process dies: every poll is gone, and the one that owed leaves its  *)
(* debt.                                                                   *)
LEMMA KillStep ==
  ASSUME IInv, Kill
  PROVE  IInv'
<1>1. /\ Fails /\ isess' = [s \in Session |-> NoPoll] /\ psess' = [s \in Session |-> NoDrop]
      /\ UNCHANGED << proto, server, inbox, validity, mark, markOf, torn, bodiless >>
      /\ UNCHANGED << tls, keep, saved, again, excuse, blind, mistaken >>
  BY DEF Kill, notes
<1>2. NoPoll \in Poll /\ PollFits(NoPoll) /\ NoDrop \in Drop /\ DropFits(NoDrop)
  BY Blank DEF IInv, Types
<1>3. \A s \in Session : isess'[s] = NoPoll /\ psess'[s] = NoDrop
  BY <1>1
<1>4. Types'
  <2>1. Remote'
    BY <1>1, RemoteKept DEF IInv, Types, Remote, SharedTypeOK, Come
  <2>2. Marks' /\ Lists'
    BY <1>1 DEF IInv, Types, Marks, Lists
  <2>3. PollFits(NoPoll)' /\ DropFits(NoDrop)'
    BY <1>1, <1>2 DEF PollFits, DropFits, Come, server
  <2>4. Polls'
    BY <1>1, <1>2, <1>3, <2>3 DEF Polls, PollFits
  <2>5. Drops'
    BY <1>1, <1>2, <1>3, <2>3 DEF Drops, DropFits
  <2> QED BY <2>1, <2>2, <2>4, <2>5 DEF Types
<1>5. Grows
  BY <1>1, QuietGrows DEF IInv
<1>6. Kept'
  <2>1. LostOnlyIfMistaken'
    BY <1>1 DEF IInv, Kept, LostOnlyIfMistaken, server, Present
  <2>2. \A s \in Session : DeletesDelivered(psess[s])'
    BY <1>3 DEF DeletesDelivered, NoDrop
  <2> QED BY <2>1, <2>2 DEF Kept
<1>7. Honest'
  <2>1. (~ torn /\ markOf = validity => Covers(mark.last))'
    BY <1>1, <1>4, <1>5, MarkStays DEF IInv
  <2>2. \A s \in Session : Carries(isess[s])'
    BY <1>3, <1>4 DEF Carries, NoPoll, Types, Remote, SharedTypeOK
  <2> QED BY <2>1, <2>2 DEF Honest
<1>8. Repeats'
  <2>1. AgainBounded'
    BY <1>1, StillBounded DEF IInv, Repeats, server
  <2>2. ASSUME proto = "pop3", excuse = {}
        PROVE  \E s \in Session : Lone(s)' /\ Owed(psess[s])'
    <3>1. PICK s \in Session : Owed(psess[s])
      BY <2>2 DEF IInv, Repeats
    <3>2. PICK p \in Drop : p = psess[s]
      BY DropIs
    <3>3. Owed(NoDrop)'
      BY <1>1, <3>1, <3>2, EndsOwing DEF IInv, server
    <3>4. Lone(s)'
      BY <1>3 DEF Lone
    <3>5. Owed(psess[s])'
      BY <1>3, <3>3
    <3> QED BY <3>4, <3>5
  <2> QED BY <1>1, <1>3, <2>1, <2>2 DEF IInv, Repeats
<1> QED BY <1>4, <1>6, <1>7, <1>8 DEF IInv
-----------------------------------------------------------------------------

(* The invariant holds at the start, and every step keeps it.              *)
LEMMA InitInv == Init => IInv
<1> SUFFICES ASSUME Init PROVE IInv
  OBVIOUS
<1>1. Types
  BY InitTypes
<1>2. /\ \A s \in Session : isess[s] = NoPoll /\ psess[s] = NoDrop
      /\ arrived = 0 /\ inbox = {} /\ Present = {} /\ saved = {} /\ again = 0 /\ mishaps = 0 /\ blind = 0
      /\ uidNext = 1 /\ mark.last = 0
  BY DEF Init, SharedInit, ImapInit, PopInit, Present
<1>3. Kept
  BY <1>2 DEF Kept, LostOnlyIfMistaken, DeletesDelivered, NoDrop
<1>4. Honest
  BY <1>2 DEF Honest, Covers, Carries, NoPoll
<1>5. Repeats
  <2>1. Allowed \in Nat /\ (AgainBounded <=> again <= Allowed)
    BY <1>1, Bounded
  <2>2. /\ {} \ (saved \cup {}) = {} /\ {} \ saved = {} /\ NoDrop.seen = {}
        /\ Unwritten(NoDrop) = 0
    BY DEF NoDrop, Unwritten
  <2>3. Debt(NoDrop, saved)
    BY <1>2, <2>1, <2>2, NoneIsZero DEF Debt
  <2>4. Owes(NoDrop, saved)
    BY <2>2, <2>3, NoneIsZero DEF Owes, Fresh, NoDrop
  <2>5. Lone(Poller) /\ Owed(psess[Poller])
    BY <1>2, <2>4 DEF Lone, Owed
  <2>6. AgainBounded
    BY <1>2, <2>1
  <2> QED BY <1>2, <2>5, <2>6 DEF Repeats
<1> QED BY <1>1, <1>3, <1>4, <1>5 DEF IInv

(* Every step keeps the invariant.                                          *)
LEMMA Step == IInv /\ [Next]_vars => IInv'
<1> SUFFICES ASSUME IInv, [Next]_vars PROVE IInv'
  OBVIOUS
<1>1. ASSUME NEW s \in Session, PollStarts(s) PROVE IInv'
  BY <1>1, SelectStep, ConnectStep DEF PollStarts
<1>2. ASSUME NEW s \in Session, proto = "imap", ImapStep(s), UNCHANGED pvars PROVE IInv'
  BY <1>2, CompareStep, SetValidityStep, ResetMarkStep, LoadMarkStep, SearchStep, FetchStep,
     DeliverFetchedStep, SaveMarkStep DEF ImapStep
<1>3. ASSUME NEW s \in Session, proto = "pop3", PopStep(s), UNCHANGED ivars PROVE IInv'
  <2>1. CASE SaveBatch(s)
    BY <1>3, <2>1, SaveUIDLsStep DEF SaveBatch
  <2>2. CASE SaveAll(s)
    BY <1>3, <2>2, SaveUIDLsStep DEF SaveAll
  <2> QED BY <1>3, <2>1, <2>2, GreetingStep, ListDropStep, SeenUIDLsStep, RetrieveStep,
             DeliverRetrievedStep, DeleStep, QuitStep DEF PopStep
<1>4. ASSUME Server PROVE IInv'
  BY <1>4, MailboxStep, HangsUpStep DEF Server
<1>5. ASSUME UNCHANGED << shared, ivars, pvars >> PROVE IInv'
  <2>1. UNCHANGED << proto, server, inbox, mishaps, ivars, pvars >>
    BY <1>5 DEF shared
  <2>2. /\ UNCHANGED << validity, mark, isess, markOf, torn, bodiless, psess >>
        /\ UNCHANGED << arrived, box, gone, saved, tls, keep, again, excuse, blind, mistaken >>
        /\ Come' = Come /\ Present' = Present
    BY <2>1 DEF ivars, pvars, notes, server, Come, Present
  <2>3. Types'
    <3>1. Remote'
      BY <2>1, RemoteKept DEF IInv, Types, Remote, SharedTypeOK, Come
    <3>2. Marks' /\ Lists'
      BY <2>2 DEF IInv, Types, Marks, Lists
    <3>3. Polls' /\ Drops'
      BY <2>2 DEF IInv, Types, Polls, PollFits, Drops, DropFits
    <3> QED BY <3>1, <3>2, <3>3 DEF Types
  <2>4. Grows
    BY <2>1, <2>2, QuietGrows DEF IInv
  <2>5. Kept'
    BY <2>1, <2>2, KeptStays DEF IInv, Kept, LostOnlyIfMistaken, Come
  <2>6. Honest'
    BY <2>2, <2>3, <2>4, HonestStays DEF IInv
  <2>7. Repeats'
    BY <2>1, <2>2, RepeatsStay DEF IInv
  <2> QED BY <2>3, <2>5, <2>6, <2>7 DEF IInv
<1>6. ASSUME UNCHANGED vars \/ \E s \in Session : Silence(s) PROVE IInv'
  BY <1>5, <1>6 DEF vars, Silence
<1> QED BY <1>1, <1>2, <1>3, <1>4, <1>6, MailboxStep, KillStep DEF Next, PollGoesOn

(* What the theorems below rest on: the types, what is marked for deletion, *)
(* what a mark covers and what a list owes.  An answer of the server may    *)
(* be late, lost or of another message; a statement on the database may    *)
(* fail, also one that reads the mark or the list.                          *)
THEOREM Invariant == Spec => []IInv
<1>1. Init => IInv
  BY InitInv
<1>2. IInv /\ [Next]_vars => IInv'
  BY Step
<1> QED BY <1>1, <1>2, PTL DEF Spec

(* The polls, the mark and the list keep their types, however many polls   *)
(* run at once, fail or die.                                               *)
THEOREM TypeCorrect == Spec => []TypeOK
<1>1. IInv => SharedTypeOK /\ ImapTypeOK /\ PopTypeOK
  <2> SUFFICES ASSUME IInv PROVE SharedTypeOK /\ ImapTypeOK /\ PopTypeOK
    OBVIOUS
  <2>1. ImapTypeOK
    <3>1. ASSUME NEW s \in Session
          PROVE  /\ isess[s].pc \in {"idle", "compare", "renew", "reset", "load", "search", "fetch", "deliver"}
                 /\ isess[s].val \in 0 .. validity /\ isess[s].next \in 0 .. MaxMsg + 1
                 /\ isess[s].last \in 0 .. MaxMsg /\ isess[s].top \in isess[s].last .. MaxMsg
                 /\ DOMAIN isess[s].batch \subseteq Msg
                 /\ \A m \in DOMAIN isess[s].batch : isess[s].batch[m] \in Uid
      <4>1. PICK p \in Poll : p = isess[s] /\ PollFits(p)
        BY PollIs
      <4>2. PICK d \in SUBSET Msg : p.batch \in [d -> Uid]
        BY DEF Poll
      <4>3. /\ p.pc \in {"idle", "compare", "renew", "reset", "load", "search", "fetch", "deliver"}
            /\ p.val \in 0 .. validity /\ p.next \in 0 .. MaxMsg + 1
            /\ p.last \in 0 .. MaxMsg /\ p.top \in p.last .. MaxMsg
        BY <4>1, PollIs DEF Poll, PollFits
      <4>4. DOMAIN p.batch \subseteq Msg /\ \A m \in DOMAIN p.batch : p.batch[m] \in Uid
        BY <4>2
      <4> QED BY <4>1, <4>3, <4>4
    <3>2. /\ validity \in 1 .. MaxValidity
          /\ mark \in [validity : 0 .. MaxValidity, last : 0 .. MaxMsg]
          /\ markOf \in 0 .. MaxValidity /\ torn \in BOOLEAN /\ bodiless \subseteq Msg
      BY DEF IInv, Types, Marks
    <3> QED BY <3>1, <3>2 DEF ImapTypeOK
  <2>2. PopTypeOK
    BY DEF PopTypeOK, IInv, Types, Lists, Drops, Drop
  <2> QED BY <2>1, <2>2 DEF IInv, Types, Remote
<1>2. Init => silent \subseteq Session
  BY DEF Init
<1>3. silent \subseteq Session /\ [Next]_vars => (silent \subseteq Session)'
  BY DEF Next, vars, PollStarts, PollGoesOn, Silence, Server, Mailbox, Kill
<1>4. Spec => [](silent \subseteq Session)
  BY <1>2, <1>3, PTL DEF Spec
<1> QED BY <1>1, <1>4, Invariant, PTL DEF TypeOK

(* IMAP: whatever polls race, fail or die, everything up to the mark is    *)
(* delivered, or came without a body, unless a torn mark was read.         *)
THEOREM MarkIsHonest == Spec => []MarkCovers
<1>1. IInv => MarkCovers
  BY DEF IInv, Honest, Covers, MarkCovers
<1> QED BY <1>1, Invariant, PTL

(* POP3: a message that came and is nowhere any more was noted as seen when *)
(* a late answer, another message, was delivered under its name.  But for   *)
(* that no DELE overtakes its delivery, whatever polls race, fail or die.   *)
THEOREM LostToALateAnswer == Spec => []LostOnlyIfMistaken
<1>1. IInv => LostOnlyIfMistaken
  BY DEF IInv, Kept
<1> QED BY <1>1, Invariant, PTL

(* POP3: each failure costs at most SaveEvery repeated deliveries, and one  *)
(* to read the list at most all that has come, as long as polls do not      *)
(* overlap, no written list forgets and no answer is another message's.     *)
THEOREM RepeatsAreBounded == Spec => []AgainBounded
<1>1. IInv => AgainBounded
  BY DEF IInv, Repeats
<1> QED BY <1>1, Invariant, PTL

=============================================================================

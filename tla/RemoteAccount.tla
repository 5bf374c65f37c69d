--------------------------- MODULE RemoteAccount ---------------------------
(***************************************************************************)
(* What the two remote protocols of internal/fetch have in common: the      *)
(* mailbox on the remote server, the inbox the messages are delivered to,   *)
(* and the budget of failures.  The sessions are those of ImapFetch and    *)
(* Pop3Fetch; RemoteFetch puts the three together.                          *)
(*                                                                         *)
(* A message is the number of its arrival.  The database makes every       *)
(* statement atomic and keeps what it was told over a crash.                *)
(***************************************************************************)
EXTENDS Naturals, FiniteSets, FiniteSetsExt

CONSTANTS
  Session,      \* calls of FetchAccount: the poller's, and one per FetchNow
  Poller,       \* the one of PollDue, which fetches one account at a time
  MaxMsg, MaxGone, MaxMishaps     \* bounds of the model

ASSUME PollerIsSession == Poller \in Session
ASSUME FetchBounds     == {MaxMsg, MaxGone, MaxMishaps} \subseteq Nat

VARIABLES
  proto,        \* accounts.remote_proto
  arrived,      \* how many messages have reached the remote mailbox
  box,          \* message -> its UID there, 0: not there
  uidNext,      \* the remote UIDNEXT
  gone,         \* history: what somebody else removed from the mailbox
  inbox,        \* what deliverWithFilters has stored
  mishaps       \* how often something failed or the process died

server == << arrived, box, uidNext, gone >>
shared == << proto, server, inbox, mishaps >>

Msg     == 1 .. MaxMsg
Uid     == 1 .. MaxMsg
Present == {m \in Msg : box[m] # 0}

(* Something fails: a connection, a command, a statement on the database.   *)
Fails == mishaps < MaxMishaps /\ mishaps' = mishaps + 1

(* Somebody sends the user a message, or the user deletes one elsewhere.    *)
Arrive ==
  /\ arrived < MaxMsg
  /\ arrived' = arrived + 1
  /\ box'     = [box EXCEPT ![arrived + 1] = uidNext]
  /\ uidNext' = uidNext + 1
  /\ UNCHANGED << proto, gone, inbox, mishaps >>

RemoveElsewhere(m) ==
  /\ m \in Present /\ Cardinality(gone) < MaxGone
  /\ box'  = [box EXCEPT ![m] = 0]
  /\ gone' = gone \cup {m}
  /\ UNCHANGED << proto, arrived, uidNext, inbox, mishaps >>

SharedInit ==
  /\ arrived = 0 /\ uidNext = 1
  /\ box = [m \in Msg |-> 0]
  /\ gone = {} /\ inbox = {}
  /\ mishaps = 0

(* The types of the shared part; a message that is in the mailbox has a UID *)
(* of its own below UIDNEXT.                                                *)
SharedTypeOK ==
  /\ proto \in {"imap", "pop3"}
  /\ arrived \in 0 .. MaxMsg /\ uidNext \in 1 .. arrived + 1
  /\ box \in [Msg -> 0 .. uidNext - 1]
  /\ \A m, n \in Present : box[m] = box[n] => m = n
  /\ Present \cup gone \cup inbox \subseteq 1 .. arrived
  /\ mishaps \in 0 .. MaxMishaps
=============================================================================

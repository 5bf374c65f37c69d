----------------------------- MODULE ImapFetch -----------------------------
(***************************************************************************)
(* fetch/imap_client.go: what a poll of a remote IMAP mailbox does with the *)
(* two rows imap_uidvalidity and imap_lastuid of table remote_state.        *)
(*                                                                         *)
(* Every network command and every statement is a step: polls of one        *)
(* account (the ticker's and FetchNow's) run side by side without a lock,   *)
(* and stateSet ignores the error of its statement.                         *)
(***************************************************************************)
EXTENDS RemoteAccount

CONSTANT
  MaxValidity   \* bound: how often the mailbox gets a new UIDVALIDITY

ASSUME ValidityBound == MaxValidity \in Nat \ {0}

VARIABLES
  validity,     \* the remote UIDVALIDITY
  mark,         \* remote_state: [validity, last]; 0: no row yet
  isess,        \* Session -> its poll
  markOf,       \* history: the UIDVALIDITY mark.last was counted under
  torn,         \* history: some poll read a mark of another UIDVALIDITY
  bodiless      \* history: messages some FETCH returned without a body

ivars == << validity, mark, isess, markOf, torn, bodiless >>

NoPoll == [pc |-> "idle", val |-> 0, next |-> 0, last |-> 0, top |-> 0,
           batch |-> << >>]

(* The mailbox is created anew with the same messages: a new UIDVALIDITY,   *)
(* and the UIDs are handed out again from 1.                                *)
NewValidity ==
  /\ validity < MaxValidity
  /\ validity' = validity + 1
  /\ box'      = [m \in Msg |-> IF m \in Present THEN Cardinality({n \in Present : n <= m})
                                                 ELSE 0]
  /\ uidNext'  = Cardinality(Present) + 1
  /\ UNCHANGED << proto, arrived, gone, inbox, mishaps, mark, isess, markOf, torn, bodiless >>

(* Connect, log in and SELECT; a failure so far changes nothing.            *)
Select(s) ==
  /\ isess[s].pc = "idle"
  /\ isess' = [isess EXCEPT ![s] = [NoPoll EXCEPT !.pc = "compare", !.val = validity,
                                                  !.next = uidNext]]
  /\ UNCHANGED << shared, validity, mark, markOf, torn, bodiless >>

(* A row that cannot be read counts as empty.                               *)
Compare(s) ==
  /\ isess[s].pc = "compare"
  /\ \/ /\ mark.validity = isess[s].val
        /\ isess' = [isess EXCEPT ![s].pc = "load"]
        /\ UNCHANGED mishaps
     \/ /\ IF mark.validity = isess[s].val THEN Fails ELSE UNCHANGED mishaps
        /\ isess' = [isess EXCEPT ![s].pc = "renew"]
  /\ UNCHANGED << proto, server, inbox, validity, mark, markOf, torn, bodiless >>

(* The two stateSets of a new UIDVALIDITY.                                  *)
SetValidity(s) ==
  /\ isess[s].pc = "renew"
  /\ \/ mark' = [mark EXCEPT !.validity = isess[s].val] /\ UNCHANGED mishaps
     \/ Fails /\ UNCHANGED mark
  /\ isess' = [isess EXCEPT ![s].pc = "reset"]
  /\ UNCHANGED << proto, server, inbox, validity, markOf, torn, bodiless >>

ResetMark(s) ==
  /\ isess[s].pc = "reset"
  /\ \/ /\ mark'   = [mark EXCEPT !.last = 0]
        /\ markOf' = isess[s].val
        /\ UNCHANGED mishaps
     \/ Fails /\ UNCHANGED << mark, markOf >>
  /\ isess' = [isess EXCEPT ![s].pc = "load"]
  /\ UNCHANGED << proto, server, inbox, validity, torn, bodiless >>

LoadMark(s) ==
  /\ isess[s].pc = "load"
  /\ \/ /\ isess' = [isess EXCEPT ![s].pc = "search", ![s].last = mark.last, ![s].top = mark.last]
        /\ torn'  = (torn \/ (mark.last > 0 /\ markOf # isess[s].val))
        /\ UNCHANGED mishaps
     \/ /\ Fails
        /\ isess' = [isess EXCEPT ![s].pc = "search", ![s].last = 0, ![s].top = 0]
        /\ UNCHANGED torn
  /\ UNCHANGED << proto, server, inbox, validity, mark, markOf, bodiless >>

(* The UIDs the search asks for: a range only when there is a mark and it   *)
(* is not the newest UID, or else every message of the mailbox.             *)
WantedFaulty(last, next) ==
  IF last > 0 /\ next > last + 1 THEN last + 2 .. next - 1 ELSE Uid
Wanted(last, next) ==
  IF last > 0 /\ next > last + 1 THEN last + 1 .. next - 1 ELSE Uid

Matching(s) == {m \in Present : box[m] \in Wanted(isess[s].last, isess[s].next)}

(* SEARCH, and FETCH of what it found; a mailbox that got a new UIDVALIDITY *)
(* answers neither.                                                         *)
Search(s) ==
  /\ isess[s].pc = "search"
  /\ \/ /\ validity = isess[s].val
        /\ isess' = [isess EXCEPT ![s] =
             IF Matching(s) = {} THEN NoPoll
             ELSE [@ EXCEPT !.pc = "fetch", !.next = 0, !.batch = [m \in Matching(s) |-> box[m]]]]
        /\ UNCHANGED mishaps
     \/ /\ IF validity = isess[s].val THEN Fails ELSE UNCHANGED mishaps
        /\ isess' = [isess EXCEPT ![s] = NoPoll]
  /\ UNCHANGED << proto, server, inbox, validity, mark, markOf, torn, bodiless >>

Fetch(s) ==
  /\ isess[s].pc = "fetch"
  /\ \/ /\ validity = isess[s].val
        /\ isess' = [isess EXCEPT ![s].pc = "deliver",
                       ![s].batch = [m \in DOMAIN @ \cap Present |-> @[m]]]
        /\ UNCHANGED mishaps
     \/ /\ IF validity = isess[s].val THEN Fails ELSE UNCHANGED mishaps
        /\ isess' = [isess EXCEPT ![s] = NoPoll]
  /\ UNCHANGED << proto, server, inbox, validity, mark, markOf, torn, bodiless >>

Without(batch, m) == [n \in DOMAIN batch \ {m} |-> batch[n]]

TopUidFaulty(top, uid) == uid
TopUid(top, uid)       == Max({top, uid})

(* What is left of the poll when a message cannot be stored: nothing.       *)
AfterFailedStoreFaulty(p, m) == [p EXCEPT !.batch = Without(@, m)]
AfterFailedStore(p, m)       == NoPoll

(* The messages in the order the server sent them; one without a body is    *)
(* passed over and does not move the mark.                                  *)
DeliverFetched(s) ==
  /\ isess[s].pc = "deliver"
  /\ \E m \in DOMAIN isess[s].batch :
       \/ /\ Fails
          /\ isess' = [isess EXCEPT ![s].batch = Without(@, m)]
          /\ bodiless' = bodiless \cup {m}
          /\ UNCHANGED inbox
       \/ /\ inbox' = inbox \cup {m}
          /\ isess' = [isess EXCEPT ![s].top = TopUid(@, isess[s].batch[m]),
                                    ![s].batch = Without(@, m)]
          /\ UNCHANGED << mishaps, bodiless >>
       \/ /\ Fails
          /\ isess' = [isess EXCEPT ![s] = AfterFailedStore(@, m)]
          /\ UNCHANGED << inbox, bodiless >>
  /\ UNCHANGED << proto, server, validity, mark, markOf, torn >>

SaveMark(s) ==
  /\ isess[s].pc = "deliver" /\ DOMAIN isess[s].batch = {}
  /\ \/ /\ mark'   = [mark EXCEPT !.last = isess[s].top]
        /\ markOf' = isess[s].val
        /\ UNCHANGED mishaps
     \/ Fails /\ UNCHANGED << mark, markOf >>
  /\ isess' = [isess EXCEPT ![s] = NoPoll]
  /\ UNCHANGED << proto, server, inbox, validity, torn, bodiless >>

ImapInit ==
  /\ validity = 1
  /\ mark = [validity |-> 0, last |-> 0]
  /\ isess = [s \in Session |-> NoPoll]
  /\ markOf = 0 /\ torn = FALSE /\ bodiless = {}

ImapStep(s) ==
  \/ Compare(s)
  \/ SetValidity(s)
  \/ ResetMark(s)
  \/ LoadMark(s)
  \/ Search(s)
  \/ Fetch(s)
  \/ DeliverFetched(s)
  \/ SaveMark(s)
-----------------------------------------------------------------------------

(* The types of the polls and the mark; the mark a poll will save is never  *)
(* below the one it read.                                                   *)
ImapTypeOK ==
  /\ validity \in 1 .. MaxValidity
  /\ mark \in [validity : 0 .. MaxValidity, last : 0 .. MaxMsg]
  /\ markOf \in 0 .. MaxValidity /\ torn \in BOOLEAN /\ bodiless \subseteq Msg
  /\ \A s \in Session :
       /\ isess[s].pc \in {"idle", "compare", "renew", "reset", "load", "search", "fetch", "deliver"}
       /\ isess[s].val \in 0 .. validity /\ isess[s].next \in 0 .. MaxMsg + 1
       /\ isess[s].last \in 0 .. MaxMsg /\ isess[s].top \in isess[s].last .. MaxMsg
       /\ DOMAIN isess[s].batch \subseteq Msg
       /\ \A m \in DOMAIN isess[s].batch : isess[s].batch[m] \in Uid

(* The mark is honest: every message of the mailbox with a UID up to        *)
(* imap_lastuid was delivered (or came without a body).  Whatever polls     *)
(* race, fail or die, it is so until a poll reads a mark that was counted   *)
(* under another UIDVALIDITY: the two stateSets are not one transaction.    *)
MarkCovers ==
  (~torn /\ markOf = mark.validity /\ mark.validity = validity) =>
    \A m \in Present \ bodiless : box[m] <= mark.last => m \in inbox

(* The README's feature list: remote fetch is incremental, from the mark of *)
(* the IMAP UID on.  No poll fetches what is not above the mark it read.    *)
Incremental ==
  \A s \in Session : \A m \in DOMAIN isess[s].batch : isess[s].batch[m] > isess[s].last
=============================================================================

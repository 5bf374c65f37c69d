---------------------------- MODULE RemoteFetch ----------------------------
(***************************************************************************)
(* FetchAccount of fetch/fetcher.go: the polls of one remote account, over  *)
(* IMAP or POP3 as the account says, by the 30-second ticker (PollDue) and  *)
(* by the administrator's "fetch now" (FetchNow), which ask nobody whether  *)
(* a poll of the account is running.                                        *)
(***************************************************************************)
EXTENDS ImapFetch, Pop3Fetch

CONSTANT
  MaxSilent     \* bound: how many polls may wait for a silent server at once

VARIABLE
  silent        \* the polls that wait for a server without a deadline

vars == << shared, ivars, pvars, silent >>

(* A server falls silent where nothing limits the wait: in the greeting of  *)
(* POP3, in any command of IMAP, and, for the ticker between two polls of   *)
(* this account, in the poll of another one: PollDue takes the accounts one *)
(* after the other.  Only the end of the process ends the wait.             *)
Waits(s) ==
  \/ s = Poller /\ isess[s].pc = "idle" /\ psess[s].pc = "idle"
  \/ psess[s].pc = "greet" \/ isess[s].pc \in {"search", "fetch"}

Silence(s) ==
  /\ s \notin silent /\ Waits(s) /\ Cardinality(silent) < MaxSilent
  /\ silent' = silent \cup {s}
  /\ UNCHANGED << shared, ivars, pvars >>

(* The process dies, and with it every poll.                                *)
Kill ==
  /\ Fails
  /\ silent' = {}
  /\ isess' = [s \in Session |-> NoPoll]
  /\ psess' = [s \in Session |-> NoDrop]
  /\ UNCHANGED << proto, server, inbox, validity, mark, markOf, torn, bodiless >>
  /\ UNCHANGED << tls, keep, saved, notes >>

Init ==
  /\ \/ proto = "imap" /\ tls = "clear"
     \/ proto = "pop3"
  /\ SharedInit /\ ImapInit /\ PopInit
  /\ silent = {}

(* The switch of FetchAccount, at the start of a poll and all through it.   *)
PollStarts(s) ==
  /\ s \notin silent /\ UNCHANGED silent
  /\ \/ proto = "imap" /\ Select(s) /\ UNCHANGED pvars
     \/ proto = "pop3" /\ Connect(s) /\ UNCHANGED ivars

PollGoesOn(s) ==
  /\ s \notin silent /\ UNCHANGED silent
  /\ \/ proto = "imap" /\ ImapStep(s) /\ UNCHANGED pvars
     \/ proto = "pop3" /\ PopStep(s) /\ UNCHANGED ivars

Server ==
  /\ \/ proto = "imap" /\ NewValidity /\ UNCHANGED pvars
     \/ proto = "pop3" /\ (\E s \in Session \ silent : ServerHangsUp(s)) /\ UNCHANGED ivars
  /\ UNCHANGED silent

Mailbox ==
  /\ Arrive \/ \E m \in Msg : RemoveElsewhere(m)
  /\ UNCHANGED << ivars, pvars, silent >>

Next ==
  \/ \E s \in Session : PollStarts(s) \/ PollGoesOn(s) \/ Silence(s)
  \/ Server \/ Mailbox \/ Kill

Spec == Init /\ [][Next]_vars

(* A poll that started goes on, and the ticker starts the next one, unless  *)
(* it waits for a silent server.  Nobody promises that "fetch now" is       *)
(* pressed, or that a server hangs up.                                      *)
FairSpec ==
  /\ Spec
  /\ \A s \in Session : WF_vars(PollGoesOn(s))
  /\ WF_vars(PollStarts(Poller))
-----------------------------------------------------------------------------

(* The types of the mailbox, of both kinds of polls and of their marks and  *)
(* lists.                                                                   *)
TypeOK == SharedTypeOK /\ ImapTypeOK /\ PopTypeOK /\ silent \subseteq Session

Settled(m) == m \in inbox \cup gone \cup bodiless \cup mistaken

(* The ticker does not wait for ever for some server.                       *)
Ticking == []<>(Poller \notin silent)

(* Every message that reaches the remote mailbox is delivered, whatever     *)
(* polls race, fail or die, as long as the servers answer; the exceptions   *)
(* are a message that came without a body, one that another was taken for,  *)
(* a mark read under another UIDVALIDITY, and POP3 over ssl.                *)
EventuallyInInbox ==
  tls # "ssl" /\ Ticking => \A m \in Msg : (m \in Present) ~> (Settled(m) \/ torn)

(* The README's feature list: remote fetch works over POP3 with SSL, STLS   *)
(* or neither.                                                              *)
FetchesOverAnyTls == Ticking => \A m \in Msg : (m \in Present) ~> (Settled(m) \/ torn)

(* POP3 mail that is not to stay on the server is gone from it once         *)
(* delivered, unless some command or statement failed or the process died   *)
(* in between: the list then says seen, and no later poll sends the DELE.   *)
TakenOffServer ==
  proto = "pop3" /\ ~keep => \A m \in Msg : (m \in inbox) ~> (m \notin Present \/ mishaps > 0)
=============================================================================

# A verification of cloudpost

cloudpost is a self-hosted mail system in one Go process: SMTP, POP3 and IMAP
servers, a web UI, an outbound queue, delayed sends and a fetcher for remote
mailboxes, over one SQLite database and a directory of files. This directory
holds TLA+ models of it, the TLC runs that check them and TLAPS proofs.
Line numbers below are of files under `src/`.

## 1. The system

| component | state | operations | talks to |
|---|---|---|---|
| mail store `internal/mailstore/store.go` | tables accounts, folders, messages; blob files | create/delete account, ensure/rename/delete folder, deliver, move, set flags, expunge, delete | everybody calls it |
| outbound queue `internal/sender/sender.go` | table send_queue, files `outbound/`, mutex | Enqueue, ProcessQueue | SMTP, web, scheduled runner; remote MXs and relays |
| scheduled sends `mailstore/scheduled.go`, `sender/scheduled.go` | table scheduled, files `scheduled/` | ScheduleSend, CancelScheduled, runner | web compose; outbound queue |
| remote fetch `internal/fetch` | table remote_state (uidvalidity, lastuid, seen UIDLs) | PollDue, FetchAccount | remote servers, mail store, filters |
| filters `internal/filter` | table filters | Apply | mail store |
| IMAP, POP3, SMTP servers | per-connection session | protocol commands | mail store, queue |
| web | mailbox and admin sessions, reset token | HTTP handlers | everything |
| port manager `web/ports.go`, `main.go` | four listeners, the swap slot | rebind, web swap | configuration |
| configuration `internal/state` | config file, admin sessions | SetConfig, FactoryReset | everything |

**Concurrency.** One goroutine per connection and request, plus the queue's
ticker (30 s), the runner of delayed sends (10 s) and the fetcher (30 s). The
database pool has one connection (`db/db.go:25`), so statements and
transactions exclude each other, and nothing else does: a lookup followed by an
action, or a file removed before or after its row, interleaves with all the
others. Only the queue has a mutex.

**Failure.** The process may die between any two statements or file
operations; SQLite keeps what was committed. Statements, reads, writes and
removals of files fail, and the errors of many are dropped. A remote SMTP server
may accept a message and the session still fail. Most waits for a remote server
have no deadline, and an answer may come after the client gave up on it.

**What makes each part correct**

- store: uids are never reused; a message is in a folder of its own account;
  nothing is lost that nobody asked to remove; files are not leaked; INBOX
  stays; calls end.
- queue: everything is sent or failed in the end; copies are bounded; "sent"
  means everybody got it; nothing goes out after the outcome is recorded.
- scheduled: queued once, with its content, unless cancelled; cancel holds.
- fetch: each remote message is delivered, and nothing is removed from the
  server before; progress marks never run ahead of what was delivered; a
  failure repeats little.
- ports and configuration: one listener per service, on the configured port;
  a failed change changes nothing; a reset leaves nothing behind.
- sessions: what a client addresses by number is the message it means; an
  answer is true; nothing disappears that nobody asked to remove.

`PROJECT.json` lists the hazards line by line.

## 2. Modules

| module | what it models |
|---|---|
| `MailStore` | the store, with the callers that use it in several steps (IMAP COPY and MOVE, the filters' move_account) |
| `UidSpace` | abstract: what clients are promised about UIDs |
| `SendQueue` | the outbound queue |
| `Outbound` | abstract: what the queue promises the one who hands it a message |
| `ScheduledSend` | compose, cancel and runner of delayed sends |
| `RemoteAccount` | the remote mailbox and the inbox, shared by the two protocols |
| `ImapFetch`, `Pop3Fetch` | a poll over IMAP, over POP3, and its marks |
| `RemoteFetch` | the polls of one account over the protocol it has: composes the three |
| `Mailbox` | the store's calls as single steps, with pages, flags and dates |
| `ImapSession`, `Pop3Session`, `SmtpSession`, `WebMail` | one connection each: the session's copy of the mailbox, the answers |
| `MailSessions` | connections of all kinds on the same mailboxes: composes the five |
| `PortManager` | listeners, rebinding, the web listener's hand-over |
| `Console` | set-up, login, settings, the configuration and its file; uses `PortManager` |
| `FactoryReset` | the reset in its steps, with deliveries, enqueuing and logins |
| `Administration` | the instance: composes the three, with restarts |
| `MC...` | instances for TLC |
| `MailStore_proofs` | theorems about MailStore: types, uids, the refinement of UidSpace |
| `MailStoreSafety_proofs` | and: nothing lost, nothing leaked, folders and INBOXes |
| `SendQueue_proofs` | theorems about SendQueue, and that it implements Outbound |
| `ScheduledSend_proofs` | theorems about ScheduledSend |
| `RemoteFetch_proofs` | theorems about RemoteFetch and both its protocols |
| `Administration_proofs` | theorems about Administration: types, sessions, the reset |
| `AdminPorts_proofs` | and: ports, listeners, the file |
| `MailSessions_proofs` | theorems about MailSessions and the four servers |

### MailStore

A call is a record `job[w]` of goroutine `w` with a label `pc`; every step of
the call is an action. A SQL statement or a transaction is one step and needs
the connection (`Free`), except DeleteMessages, which removes files inside its
transaction and is two steps that hold the connection (`tx`).

| action | code |
|---|---|
| `CreateAccount`, then `EnsureFolderSelect`/`EnsureFolderInsert` per system folder | CreateLocalAccount, CreateRemoteAccount, ensureSystemFolders |
| `StartDeleteAccount`, `RemoveFile`*, `DropAccount` | DeleteAccount |
| `StartEnsureFolder`, `EnsureFolderSelect`, `EnsureFolderInsert` | EnsureFolder |
| `StartMoveToFolderName`, ..., `MoveMessage` | MoveToFolderName, MoveMessages |
| `RenameFolder` | RenameFolder |
| `StartDeleteFolder`, `RemoveFile`*, `DropFolder` | DeleteFolder |
| `StartDeliver`, `InsertMessage` | Deliver after the caller's lookup of the folder |
| `StartTransfer`, `ReadBlob`, `InsertMessage` (, `DeleteBegin`, `DeleteCommit`) | COPY, MOVE, move_account |
| `StartDelete`, `DeleteBegin`, `DeleteCommit` | DeleteMessages |
| `SetDeleted`, `ClearDeleted` | SetFlags, for `\Deleted` |
| `StartExpunge`, `RemoveFile`*, `DeleteRow`* | ExpungeFolder |
| `Crash` | the process dies and is restarted |

Abstractions: a message is named by its blob (raw_path is random and never
updated); message content, headers and flags other than `\Deleted` are left
out; IMAP MOVE and EXPUNGE of several messages are one message each. Three
history variables (`issued`, `origin`, `condemned`) serve the properties only.

The account's address and its uniqueness are left out: an account whose
address is taken is not created. Errors of the database other than constraint
violations are not modelled here.

### SendQueue

`run[p]` is a pass of ProcessQueue in goroutine p. `Lock` takes the mutex and
lists the due items with their attempts, `Begin` reads the next item's file
(when that fails, for whatever reason, the item is failed at once),
`Hand` is one SMTP session (taken or not, error or not, never neither),
`Silence` one whose server says no more: only the dial has a timeout, and the
pass stands there with the mutex until the process ends. `Settle` is the
UPDATE, `RemoveData` the removal of the file, `Unlock` the end.
`Update` may silently do nothing, because the code drops its error. The clock
is `Elapse`: the backoff of one item runs out. The backoff itself, 60 s times
2^attempts, stays under its six-hour cap for the seven attempts that back off.

Left out: who is spoken to (MX, relay, route), DKIM, the orphan file of an
Enqueue that dies before its INSERT, and the factory reset. The recipients are
a set: an address that is named twice gets two copies per attempt
(`smtpd.go:135` does not look), and `CopiesBounded` counts each naming for
itself.

### ScheduledSend

`req[c]` is a compose or cancel request, `runner` the pass of processScheduled.
The row and the file are separate, as in the code: compose inserts the row with
an empty file and writes the message afterwards; cancel reads the row, removes
the file, removes the row; the runner lists, rereads the row, reads the file,
enqueues, removes file and row. `queued` counts what reached send_queue. Every
statement and file operation may fail (`Fails`), with what the code does about
it: the runner passes over a row it cannot read, drops row and file when it
cannot read the file, keeps the row when Enqueue fails, and drops the errors of
the last two removals.

### RemoteFetch

FetchAccount takes one of two ways (`PollStarts`, `PollGoesOn`), and the
ticker's poll and any number of FetchNow's go their way without a lock.

| action | code |
|---|---|
| `Select`, `Compare`, `SetValidity`, `ResetMark`, `LoadMark` | fetchIMAP up to line 68; the two stateSets are two steps |
| `Search`, `Fetch`, `DeliverFetched`*, `SaveMark` | the rest of fetchIMAP |
| `Connect`, `Greeting` | pop3Connect: the greeting comes before the TLS handshake |
| `ListDrop`, `SeenUIDLs`, (`Retrieve`, `DeliverRetrieved`, `SaveBatch`, `Dele`)*, `SaveAll`, `Quit` | fetchPOP3 |
| `Silence` | a server says no more where the code waits without a deadline |
| `Kill` | the process dies |
| `Arrive`, `RemoveElsewhere`, `NewValidity`, `ServerHangsUp` | the remote server and its other clients (external) |

`Fails` is the error branch of a command or statement; stateSet drops its
error, so the poll goes on. A mailbox that got a new UIDVALIDITY answers
nothing to a session selected before (RFC 3501 forbids it to change under a
session). POP3 servers are not assumed to lock the maildrop. A UID or a UIDL
that overflows its type is left out. History variables: `markOf`, `torn`,
`bodiless`, `again`, `excuse`, `blind`, `mistaken`, `gone`.

The loop skips a UIDL that is in the list it read; the model takes those out of
`refs` at once (`SeenUIDLs`), and counts deliveries modulo `SaveEvery`. A list
that cannot be read is an empty one.

POP3 answers come in the order of the commands, but each is awaited a minute at
most and the poll goes on with the next command: `owed` are the messages whose
RETR was not answered yet, and what `Retrieve` reads answers the first of them.
`msg` is the message the poll means, `body` the one it got. What a DELE reads
meanwhile may be part of such an answer (`LeftOwed`). An answer read from the
middle of another is refused or, at worst, ends the poll; a message put together
from two halves is not modelled.

Left out: which accounts are due, MarkFetched, the filters and the choice of
the target account (MailStore has what they do to the store).

### MailSessions

`MailStore` takes a call apart; here a call is one step and the handlers are
taken apart into calls, since what other connections do falls between them.
What makes these protocols hard is that every session works on a copy.

| module | state | steps of a command |
|---|---|---|
| `ImapSession` | `imap[c].list`, the copy SELECT made; `client[c].view`, what the client counts | FETCH, STORE, COPY, MOVE one message at a time (STORE: set, then `ReadBack`); EXPUNGE: `StartExpunge` flags what the copy shows as deleted, `Expunge` removes and reports |
| `Pop3Session` | `pop[c].msgs`, the copy PASS made, with the marks of DELE | QUIT: `Quit` looks INBOX up, `FlagMarked` one by one, `ExpungeInbox` |
| `SmtpSession` | `smtp[c].rcpts`, ids resolved by RCPT | DATA: (`DeliverLocal`, `Filter`) per recipient, `Queue`, `SentCopy` |
| `WebMail` | `web[c]`, the request | read-all: list, then flag; compose: `ComposeDeliver` per recipient, `ComposeSent`, `ComposeEnqueue` |

`Pages` is ListMessages: newest first by the Date header, and a limit out of
1..200 means 50 (`DefaultPage`; the bound of the model is 2). It is written as
the set of what the ORDER BY and the LIMIT allow, which has one element as no
two messages of a folder share a uid. IMAP asks for
100000 and POP3 for 10000, so both see the newest page only. UIDs are in the
rows; the properties identify messages by row id.

A command on several messages keeps the positions it has left in `todo`, a set,
and takes the least one; the code loops over the copy. `Leave` is what stays of
a sequence when positions go: the server's loop over its copy (`Kept`) and the
client's counting along (`Heard`) are both made of it, and `LeaveIsRight` in
MCMailSessions compares them with the loops on small inputs.

Deliveries of DATA and of compose may fail for any reason, and so may compose's
lookups; the code goes on with the next recipient.

History: `asked`, whose removal somebody asked for; `revived`, see section 3;
`given`, `copied`, `dropped`, `answer` of an SMTP transaction; `reached`,
`missed` of a compose.
`client[c].misled` says that the client was told two EXPUNGE numbers at once.

Left out: commands that only read, \Recent, the wording of answers, and flags
other than \Deleted and \Seen. Accounts are deleted but not created, so an id
is never given anew (AUTOINCREMENT).

### Administration

`hd[h]` is the request goroutine h serves; each step of a handler that other
goroutines can see is an action.

| action | code |
|---|---|
| `SetupAsk`, `SetupConfig` | handleSetup: asks Installed, hashes, puts the configuration in place |
| `LoginRead`, `LoginSession`, `Logout` | handleLogin, handleLogout |
| `SettingsRead`, `SettingsChange`, `SettingsSet` or `SettingsRefused` | adminUpdateSettings up to SetConfig |
| `Install`, `Truncate`, `Write` | SetConfig and Save: the file is empty in between |
| `SaveFails` | os.WriteFile fails before or after it truncated the file: answered 500, or dropped for the second save of a request |
| `ApplyBegin`, (`ApplyProbe`, `ApplyClose`, `ApplyListen`)*, `ApplyEnd` | ApplyProtocolPorts, then taking back what failed |
| `WebRead`, `WebBind`, `WebSwap` (twice), `Wake`, `Track` | the web port: bind, publish, close the old one, and the loop in main |
| `ResetPrepare`, `ResetConfirm`, `ResetTable`*, `ResetFiles`*, `ResetForget`, `ResetRemove`, `ResetDone` | the factory reset |
| `DeliverFile`/`DeliverRow`, `EnqueueFile`/`EnqueueRow`, `CreateAccount`, `MailLogin`/`MailSession` | what it meets |
| `Restart` | the process ends at any moment and main starts again |
| `Grab` | another process takes a port (external) |

`obj` are the Config objects and `cur` the one State points to: requests keep
pointers to them and change them without the lock, so a request may change an
object that a reset has dropped. Of a configuration the installation and the
ports are kept. Of the tables, messages, send_queue and accounts are; the
directory `scheduled` is wiped like `outbound`. The file has a generation, so
that a Save begun before it was removed writes into the removed one.

`ResetFiles` and `ResetRemove` have the failing removal as a disjunct: the reset
ends there, with an error.

A listener is its port. StrayAccept is a listener left open by a second move of
POP3. A session or token that expires is like one that logs out. Left out: the
-web/-smtp switches, DKIM and relay settings, two of the three mail protocols
in the instance (IMAP closes like POP3; the module has all three).

## 3. Runs

Every cfg sets `CHECK_DEADLOCK FALSE`: when the bounds on names, crashes and
faults are used up the modelled system has nothing left to do, and in the code
an idle system is a legal state. Calls that hang are caught by the liveness
properties instead.

| run | bounds | shows |
|---|---|---|
| `store_races` | 2 calls, 1 account with 2 system folders, 2 messages, 1 crash | `TypeOK`, `UidNeverReused`, `Conserved`, `NoLeak`, `GivenBack`, and MailStore implements `UidSpace` |
| `store_accounts` | 2 calls, 2 accounts, 2 folders, 3 names, 1 message, fair | `OwnFolder`, `InboxKept`, `InboxMade`, `CallsEnd` |
| `queue_retry` | ticker and flush, 2 messages, 2 recipients, 2 attempts, 1 crash, 1 lost UPDATE, fair | `CopiesBounded`, `NeverGivesUpEarly`, `NoCopyOnceSettled`, `EventuallySettled`, and SendQueue implements `Outbound` |
| `sched_races` | 2 requests, 1 message, 2 crashes, 2 failing statements or file operations, fair | `DispatchedOnce`, `CancelHolds`, `AnsweredGoesWhole`, `EventuallyQueued` |
| `sched_cancel` | 1 request, 1 message | violated: a cancel answered with ok does not stop a message the runner has read |
| `fetch_races` | 2 polls, 3 messages, 1 removed elsewhere, 2 UIDVALIDITYs, 1 mishap, list of 2 UIDLs written every 2 | `MarkCovers`, `LostOnlyIfMistaken`, `AgainBounded` |
| `fetch_progress` | the same with 2 messages, list of 1 UIDL, 1 silent server, fair | `EventuallyInInbox`, `TakenOffServer` |
| `fetch_incremental` | 1 poll at a time, 1 message | violated: an IMAP poll with nothing new fetches everything |
| `fetch_ssl` | 1 poll at a time, 1 message, fair | violated: POP3 on an ssl port never fetches |
| `sessions` | 13 pairings of IMAP, POP3, SMTP and web connections, up to 9 commands, 2 accounts, 3 messages, 2 per page | `SameNumbers`, `SmtpAnswerHolds`, `ComposeAnswerHolds`, `LostOnlyIfAsked` |
| `console` | 2 requests at a time, up to 8 in all, 5 ports, 2 mail protocols, 2 installations, 1 restart, up to 2 ports taken | `FileCurrent`, `SessionOfThisInstall`, `RowsKeepFiles`, `ConfigTellsPorts`, `ServedWhereTold`, `WebFollows`, `ResetLeavesOnlyNew` |
| `web_port` | 1 request, 1 taken port | violated: a web port that is taken stays in the configuration |

Why the bounds are enough. A race in this code is between two calls: the
connection serialises statements, and a third call adds no new kind of overlap.
Two messages and two folders let one message be moved out of, and another into,
a folder that is being deleted. One crash is enough to separate any two steps;
the scheduled run has two because a message may be queued again after each.
Two attempts give both a retry and a last attempt; the code's limit of 8 is the
constant `MaxAttempts`. The ids of delayed messages meet only in the runner's
list, and staleness of that list shows with one. Two failures are one for each of
two steps that depend on each other, such as the read of a file and the DELETE
after it.

Three remote messages are what it takes for a mark to run past a message that
was not delivered (one below it, one skipped, one above); the list of UIDLs is
cut when a third is added, and the batch write falls between the second and
the third. A mishap is any failure or the end of the process; one, at any step,
is enough to leave the two IMAP marks out of step, and so is none, when two
polls race. One late answer shifts all that follow. `fetch_races` is the largest
run, 5.8 million states in two minutes; silent servers are left to
`fetch_progress`, since to safety a poll that waits is one that is slow. Without
them the ticker's poll and the button's are alike, so the two are symmetric.

`MaxUid` bounds how often a message is moved to and fro.

The sessions run starts from thirteen scenarios, because the cases it is after
need different openings: which two protocols meet, which accounts and folders
there are, and how many commands each side gives (logging in and selecting take
two of an IMAP client's four or five, and a whole SMTP transaction is five).
With three messages and two per page, a page hides a message, and an EXPUNGE or
MOVE can take two at once.

The console run has six: two set-ups at once with a reset and a second
installation; settings, some refused, around a reset, with saves and removals
that fail; the traffic a reset runs into, with failing file removals; set-up with
ports, one of them taken; two port changes at once, with up to two ports taken at
any moment (enough for a server to lose the port it leaves and the one it goes
to) and saves that fail; three port changes in a row, with one protocol that did
not come up. Five ports are three in use and two to move to. The two goroutines
are symmetric.

These two runs state no liveness: nothing in them waits.

Fairness. `WF(Step(w))`: a goroutine inside a call is scheduled, and
database/sql gives the connection to waiters in order. Nothing is assumed about
calls being made. `WF(Pass(p))` and `WF(Runner)`: the tickers run for ever.
`WF(PollGoesOn(s))`, `WF(PollStarts(Poller))`: a poll goes on and the ticker
starts another; nothing is assumed about the fetch-now button. None of it moves
a pass or a poll that waits for a silent server: that is a state of the models
(`pc = "silent"`, `silent`), which only the end of the process ends. So the two
properties that need the servers say so themselves: `EventuallySettled` holds
unless some pass stands still for ever (`Hung`), `EventuallyInInbox` unless the
ticker's poll does, be it in the poll of another account (`Ticking`). `WF(Elapse)`, `WF(SendAtPasses)`: time passes. Crashes and
faults are bounded, as no promise survives infinitely many of either.

Every property has a mutant in `PROJECT.json`: an operator `...Faulty` that
replaces the one after it the way a plausible bug would and makes the property
fail.

### What the violations say

- `CancelIsFinal`: `processScheduled` does not look at the row between reading
  the file and `Enqueue` (`sender/scheduled.go:45`). Claiming the row by
  deleting it first, or a lock shared with CancelScheduled, would.
- `Incremental`: the range is left out of the search when UIDNEXT is
  lastuid + 1 (`imap_client.go:72`), the usual case. Returning there instead
  would do; the same full search also hides some lost marks today.
- `FetchesOverAnyTls`: the greeting is read before the handshake
  (`pop3_client.go:38`), without a deadline.
- `TakenPortKept`: only the mail ports are taken back from the configuration
  (`handlers_admin.go:893-908`); the web port, saved before it was tried, is
  not, and the next start ends with it (`main.go:253-256`). Trying the port
  before saving would do.

### What the exceptions say

A property that passes names, in its exceptions, what the code does not promise.
Each is an error or a silence the code passes over; taking the exception out of
the property makes TLC show the case.

Of the queue. `Hung` (`EventuallySettled`): `smtpSendAuth` sets no deadline
after the dial (`sender.go:261`) and ProcessQueue holds its mutex meanwhile, so
one silent server ends all sending, against "发送失败自动指数退避重试（最多 8 次）"
(retried by itself, at most 8 times; `src/README.md:61`). `unread`
(`NeverGivesUpEarly`): one failing read of the file fails a message for good
(`sender.go:125-129`) with none of its attempts used; it is what the last error
tells the administrator.

Of delayed sends. `early` (`EventuallyQueued`): the row is there, and may fall
due, before its file is written (`handlers_compose.go:210-215`); the runner then
queues the empty file, and the message answered with ok never goes out. `unread`:
`processScheduled` takes every error of ReadFile for a lost file and deletes row
and file (`sender/scheduled.go:40-43`), where `mailstore/scheduled.go:10` says
"the row is deleted on send or cancel". `undeleted` (`DispatchedOnce`): the
DELETE of the row failed and nobody heard of it, so the next tick sends again.
`kept` (`CancelHolds`): the cancel could not remove the file, so a runner between
the row and the file still finds it.

Of the fetch. `torn`: drop it from
`MarkCovers` or `EventuallyInInbox` and TLC shows mail that is never fetched,
after a UIDVALIDITY change during which two polls race or the process dies
between the two stateSets; one statement for both rows would close it.
`bodiless`: a message without a body is passed over for good once a later one
moves the mark. `mistaken` (`LostOnlyIfMistaken`): after a RETR that timed out the
poll goes on over the same connection (`pop3_client.go:168`) and takes the late
answer for the next message's, which is then noted as seen and, when mail is not
kept, deleted from the server without ever being delivered; ending the poll there
would close it.
`blind` (`AgainBounded`): seenUIDLs gives an empty list for one it cannot read
(`fetcher.go:104-116`), and all that is kept on the server is delivered again.
In `TakenOffServer`, a mishap: the list of UIDLs is final before QUIT, so after a failed QUIT mail stays on the server for good; and
`proto = "pop3"`: fetchIMAP selects the mailbox read-only and never looks at the
choice (`imap_client.go:58`) that `src/README.md:12` offers for both, so IMAP mail
always stays.

Of the sessions. `revived`
(`LostOnlyIfAsked`): EXPUNGE flags again what its copy shows as deleted, and
COPY and MOVE repeat the flags of the copy, so a flag that another connection
took back since SELECT removes the message all the same. `misled`
(`SameNumbers`): EXPUNGE and MOVE report the numbers as counted before anything
went (`imap.go:411`, `fetch.go:315`), where RFC 3501 renumbers after each; with
two at once the client drops the wrong ones and from then on its numbers are
off. Counting down, or subtracting what went before, would close it. `dropped`
(`SmtpAnswerHolds`) and `missed` (`ComposeAnswerHolds`) are the recipients whose
delivery, or lookup, the store failed: those errors are logged
(`smtpd.go:149`), and DATA answers 250 once another recipient was served, or
dropped (`handlers_compose.go:154-162`), and compose answers ok in any case. The
properties promise the rest: an account that goes away, a folder that is not
there any more, or the failure of one recipient does not cost another its copy,
and no answer claims what did not happen to them.

Of the console. `mixed`: two changes at once overwrite each
other's files, ports, and the one slot a new web listener has; nothing
serialises them. `half` (`FileCurrent`): a refused settings request has already
changed the configuration in memory, which the next save writes down; a save
that fails leaves the new configuration in memory and the old or a torn file,
answered 500 or, for the second save of a request (`handlers_admin.go:907`, the
one that is to take an unavailable port back), not at all; a reset that
cannot remove the file has forgotten the configuration and answers 500, and the
next start brings the old one back. All three last until the next save that goes
well, or the next start. A torn file of a process that has nothing loaded counts
as current: the next start takes it for no file, so that a crash within the
first save, or a torn save, ends with the installation forgotten.
`late` (`SessionOfThisInstall`): a login that compared its password before a
reset gets its session after it. `strays` (`RowsKeepFiles`): an account made
while the reset runs may lose the files of its first messages. `off`
(`ConfigTellsPorts`): set-up keeps ports it could not apply, and never applies
the web port; a panic of smtpd.Close, for a server that never had a listener,
drops the request half way. `down`, `moves` (`ServedWhereTold`): protocols
that did not come up, or lost both ports, are not promised; a POP3 or IMAP
server that moved twice keeps its earlier port open. `since`
(`ResetLeavesOnlyNew`): what arrives while a reset runs stays; in particular an
Enqueue caught between its two steps leaves a row without its file.

### Other divergences met while modelling

None of these is a run of its own; they are what the models say the code does.

- The page's requests to star, unread, delete and move a message are answered
  404: they have four segments after `folders/`, and the switch knows only
  `raw` there (`handlers_mail.go:49-75`, `webui/app.js:1087-1099`). The
  branches for them in mailMessage are never reached; so `WebMail` has no
  such actions. In the same way the console's folder rename and delete, and
  `/api/password`, do not reach their handlers (`handlers_admin.go:82`,
  `web.go:281-285`).
- `ExpungeFolder` removes by the list of ids it made first (`store.go:766`): a
  message that is un-flagged, or moved, meanwhile goes all the same, against
  `store.go:745`. `MailStore` has those steps apart.
- A delayed message whose process dies between the insertion of its row and the
  writing of its file is queued empty; it was not answered.
  `AnsweredGoesWhole` is what holds.
- ListMessages turns a limit over 200 into 50 (`store.go:589`): IMAP, POP3 and
  read-all see the newest 50 messages of a folder.
- UID EXPUNGE and POP3's QUIT remove everything flagged \Deleted in the folder.
  No session reports EXISTS. POP3 keeps the old copy when loading fails after
  a second PASS.
- The answer 250 to DATA, given for a local recipient, does not say that the
  remote ones were queued. deliverBuilt says that filters run
  (`handlers_compose.go:143`); none do.
- UpdateAccount changes the password before the statement that may fail
  (`store.go:288-304`).
- A web port set back after a failed bind leaves a listener in the slot, which
  the loop would take up at its next change.

## 4. Proofs

Every invariant, action property and refinement that a passing run checks is
also a theorem, for any number of goroutines, connections, accounts, folders,
messages, recipients, ports, crashes and faults. `PROJECT.json` lists them. The
five liveness properties are not; see below.

Each module has the same plan: an inductive invariant (`IInv`, or `StoreInv`,
`Types` and `Steadily`), a lemma per action that it is kept, and the properties
as consequences. TLC checked each inductive invariant on the module's run
before it was proved. Hardly one of the properties is inductive alone; what had
to be added says why the code is right.

| theorems | what the invariant adds |
|---|---|
| `MailStore_proofs`: TypeOK | `Coherent`: what a call holds at each label. |
| UidNeverReused, UidSpec | Folder ids stay below `nextFolder`, the uids of a live folder below its `next`. Every step closes folders, opens a fresh one or gives a uid; these are the actions of UidSpace. |
| `MailStoreSafety_proofs`: OwnFolder, Conserved, NoLeak, InboxKept, InboxMade, GivenBack | `Knows`: what a call read some steps ago and may still rely on (a folder it removes is not INBOX; a message it is to remove is condemned, or backed by a younger copy). `Owns`, `Apart`: the file it wrote and did not insert yet is its alone. `Explained`: without a crash or a vanished folder, every file without a row waits for its INSERT. InboxMade is inductive with these: the call that makes an INBOX makes it, finds it made by another (a refused INSERT says so too), or its account is gone; INBOX is the first system folder (`InboxFirst`). GivenBack: a call that holds the connection does nothing but commit. |
| `SendQueue_proofs`: TypeOK, CopiesBounded, NeverGivesUpEarly, NoCopyOnceSettled, OutboundSpec | `Current`: what the holder of the mutex listed is still so, since nobody else settles. `Counted`: counted attempts, the one under way, crashes and lost UPDATEs account for every copy. |
| `ScheduledSend_proofs`: TypeOK, DispatchedOnce, CancelHolds, AnsweredGoesWhole | `OneWriter`: a message is written once, by the request that made its row. `CountedOnce`: a row still there was queued only before a restart or a failed DELETE. |
| `RemoteFetch_proofs`: TypeOK, MarkCovers, LostOnlyIfMistaken, AgainBounded | `Carries`: the mark a poll carries covers the mailbox as the written one does, or may be raised over its batch. `DeletesDelivered`: what a poll has marked was delivered, or another was for it. `Debt`: what was delivered and is in no list, plus the repeats so far, is within `SaveEvery` per mishap and `arrived` per unread list; needs that the lone poll's list is no shorter than what it has not written. |
| `Administration_proofs`: TypeOK, SessionOfThisInstall, RowsKeepFiles, ResetLeavesOnlyNew | `Fits`: what a request holds at each place. `Rows`: a delivery's file is there before its row; when a reset removes files, accounts are strays. `Swept`: what it has swept and is there came since. |
| `AdminPorts_proofs`: FileCurrent, ConfigTellsPorts, ServedWhereTold, WebFollows | `Steadily`: until two changes overlap there is at most one request that changes anything, and where it is says what may be off: the file, the web listener, each server (up, down, or between Close and Listen), what is told and not yet applied. A refused request, a failed save or removal excuses the file alone, until the next good save. |
| `MailSessions_proofs`: TypeOK, SameNumbers, SmtpAnswerHolds, ComposeAnswerHolds, LostOnlyIfAsked | `DeletedAsked`: what carries `\Deleted` was asked for or revived. Ids are never given anew, so an id a session keeps is its account's message, or gone. `Serves`: the INBOX that RCPT found is there as long as its account, since RENAME and DELETE spare it. |

**The hard steps.** In `MailStoreSafety_proofs`, that a copy followed by a
removal (IMAP MOVE, move_account) loses nothing: when the old message goes, a
younger copy of it is whole, or the removal of one was asked for. In
`AdminPorts_proofs`, ApplyListen, where a server comes up on the new port, on
the old one again, or on neither. In `MailSessions_proofs`, that client and
server count the same messages: what is left without one position (`LeaveOne`)
is the same on both sides, with two it is not, which is why `SameNumbers` needs
`misled`. Positions are ranks in a finite set (`RanksAreAll`, `LeaveIs`).

**What the attempts found.** The overlap of arms in two CASEs of the flag
operators, which TLC resolves by taking the first and the logic leaves open;
they exclude each other now. A server that lost both its ports to other
processes (`past.down`): with one port taken it does not happen, and the run
has two now. A session that never said MAIL has no recipients, without which
`SmtpAnswerHolds` is not inductive.

**Assumed**, besides naturals as bounds: goroutines do not include `None`
(MailStore, SendQueue); INBOX is a name, the system folders are a nonempty list
of names and INBOX is the first of them, as in ensureSystemFolders (MailStore),
and the names of a scenario have INBOX among them
(MailSessions); `MaxAttempts`, `SaveEvery` and `MaxValidity` are positive; the
ticker is one of the pollers; ports are positive numbers and the protocols are
of the three (PortAssumption); a first start finds its web port free
(ConsoleAssumption: without it there is no process); `Nobody` is not a user,
`\Deleted` is a flag (MailboxNobody); accounts and names of a scenario are
finitely many (SessionsAssumption). TLC evaluates all of them.

**Only model-checked.** `CallsEnd`, `EventuallySettled`, `EventuallyQueued`,
`EventuallyInInbox` and `TakenOffServer`: liveness under fairness is beyond the
prover. `LeaveIsRight` is checked on inputs up to length 5. The four violations
are counterexamples, so there is nothing to prove.

## 5. Not modelled

- Message parsing, MIME building, sanitising, SEARCH and TLS certificates:
  functions of their input, with no state that the above depends on.
- The choice of a filter rule, routes and DKIM: text comparisons and
  cryptography. What a rule does to the store is in `SmtpSession` and
  `MailStore`.
- Filters, tokens, account edits, passwords, `MarkFetched`: a read, a check and
  one statement on one row each. Two of them at once overwrite each other,
  which is all there is to say.
- The remote connection test changes nothing. The smoke programs are tests.
- Which accounts are due for fetching, and PollDue's list growing old under a
  poll: the poll itself reads and writes by account id, which the foreign keys
  check.
- `uid_validity` as a number of seconds (`store.go:376`): see the hazards.
- A repair of accounts that a crash left without their system folders
  (`store.go:206`): the code has none. `InboxMade` says that only a crash
  leaves an account without INBOX.

## 6. Plan

1. done: MailStore, UidSpace; SendQueue, Outbound; ScheduledSend.
2. done: RemoteAccount, ImapFetch, Pop3Fetch, RemoteFetch.
3. done: PortManager, Console, FactoryReset, Administration.
4. done: Mailbox, ImapSession, Pop3Session, SmtpSession, WebMail, MailSessions.
5. done: a theorem for every safety invariant and action property that the
   passing runs check, and both refinements.
6. Composition of ScheduledSend with SendQueue: a delayed message is in the
   end sent or failed.

# A verification project for anonymus-bot

The program is a Telegram intermediary: two people, a client and an executor,
talk through a bot and never learn each other's account, while operators watch,
pause and close their sessions from a web panel or answer in somebody's name.
This directory holds TLA+ modules of the parts of it in which several requests,
processes or failures meet, the TLC configurations that check them on small
instances, and proofs for TLAPS.

Contents: 1 inventory, 2 plan, 3 modules and code, 4 runs and bounds,
5 fairness, 6 proofs, 7 what the code does not do, 8 what is not modelled.

## 1. Inventory

Paths are relative to `src/`.

| part | where | state it keeps | operations | interacts with |
|---|---|---|---|---|
| conversation core | `backend/internal/api/{sessions,messages,users}.go`, `repository/{user,session,message}_repository.go` | tables `users`, `sessions`, `messages`, `audit_log` | bind, relay, switch session, change language, stop, change status, send as a side | moderation, the bot |
| moderation | `backend/internal/moderation` | a Redis counter per user, 24 h | `Check` | relay and send-as |
| operator accounts | `backend/internal/api/{auth,operators,middleware}.go`, `backend/internal/auth`, `repository/operator_repository.go` | table `operators`; in Redis sessions, pending logins and an index of an operator's tokens | login, TOTP, logout, create, update, revoke | session ownership |
| session ownership | `backend/internal/api/{sessions,operators}.go` | `sessions.owner_operator_id` | create, assign, reassign | operator accounts |
| incoming requests | `backend/internal/api/incoming_requests.go`, bot `start.go`, `alert_callbacks.go`, panel `IncomingRequestsPage.tsx` | table `incoming_requests`, the panel's cached list | create, alert, list, process | session creation |
| retention | `backend/internal/retention`, `backend/cmd/retention` | rows of users, messages and audit log, media files | anonymise, delete, hash | closed sessions |
| bot dispatcher | `bot/internal/dispatcher`, `bot/cmd/bot` | update channel, semaphore of ten, wait group | receive, spawn, handle, recover, stop | every handler |
| media relay | bot `photo.go`, `voice.go`, `fileutil` | original and processed files | download, strip, relay, send, remove | relay |
| bot handlers | `bot/internal/handlers`, `bot/cmd/bot`, `bot/internal/backendclient` | none of their own | one update in, at most one call or two of the backend, a few messages out | dispatcher, backend over HTTP |
| bot's internal server, backend's bot client | `bot/internal/server`, `backend/internal/botclient` | none | alerts, sends on the backend's behalf | relay of operators |
| web panel | `webpanel` | browser cache | lists and forms | `/api` |
| read-only API, encryption, configuration | `api/{health,audit,media}.go`, `crypto`, `cmd` | none of their own | listings, AES-GCM, wiring | |

How they interact.  The bot calls the backend over HTTP with a time-out of ten
seconds and no retry; the backend would call the bot for alerts and for what an
operator sends; the panel calls `/api`.  Each repository call is one SQL
statement of its own and only `SwitchActiveSessionTx` is a transaction.  Gin
gives every request a goroutine and the bot runs up to ten handlers at once, so
any two requests interleave between any two statements.  `NewServer`
(`router.go:39-70`) never stores the `botClient`, `photosDir` and `voiceDir` it
is given: a call of the bot panics, gin's recovery answers 500, and what the
handler wrote before stays.  Each module that meets this has it as a
definition of its own (`BotClientSet == FALSE`), so that it can be turned around
when the code is.

What is hard, and what makes each part correct:

- *core*: a row read by one statement is acted upon several statements later.
  A message must reach the other side of its own session and nobody else,
  whatever binds, switches and pauses happen in between; a session that was
  paused must not take messages of later requests.
- *accounts*: Redis and Postgres are written one after another without a
  transaction.  A disable must end every session of the operator, and nobody
  else's; a read-modify-write of the row must not undo it.
- *ownership*: an open conversation must have an owner who can act.
- *moderation*: the third violation of a window must ask for a pause however
  many texts are checked at once, and the window must end, though a Redis command
  may be carried out without its caller learning of it.
- *incoming requests*: no request may vanish from the lists without a session.
- *retention*: only what is due may be erased, everything due must be in the
  end, a run that reports success must have done all it found.
- *dispatcher*: the pool is bounded, each update handled once per process, Run
  returns after its handlers; what Telegram will not send again is not lost.
- *bot handlers*: ten run at once, also for one person, and give up on the
  backend while it goes on.  What a person is told -- this is your active
  session -- must be true when he acts on it, and silence after a text must mean
  that it was stored.
- *media*: no original with metadata stays on disk, no file stays that no row
  leads to, nobody is promised a message that is gone.

`PROJECT.json` lists the places where each of these bites (`hazards`).

## 2. Plan

In the order of their weight for the program:

1. `Mailbox` (abstract) and `SessionRelay`, with `SessionRelayInv` and
   `SessionRelayProofs` -- done.
2. `UpdatePool` (abstract), `Dispatcher` and `DispatcherProofs` -- done.
3. `OperatorAccess` (abstract), `OperatorAccounts` with session ownership, and
   `OperatorAccountsProofs` -- done.
4. `BotUpdates`, the composition of `UpdatePool` and `SessionRelay` with the
   handlers between them, and `BotUpdatesProofs` -- done.
5. `Retention` and `RetentionProofs` -- done.
6. `MediaRelay` and `MediaRelayProofs` -- done.
7. `Moderation` and `ModerationProofs` -- done.
8. `IncomingRequests` and `IncomingRequestsProofs` -- done.

Left:

- an abstract specification of retention: a set of due rows that only shrinks by
  erasure;
- the statements of section 7 that are prose, each as a property of its own
  beside the runs that refute two of them.

## 3. Modules and code

Every action is named for the handler or the statement it stands for, and
`PROJECT.json` maps each definition to its lines.  A definition marked
`\* mutant` is a plausible mistake, used only to show that a property notices it.

**`SessionRelay`**: the conversation core.  One process per request: `pc` is
the next statement of its handler, `job` the local variables, which is where
stale reads live.  `active`, `client`, `executor`, `status`, `closedAt`,
`closeRequestedBy`, `messages`, `audit` are columns and tables, `violations` the
Redis counters (saturating at the threshold), `rowLock` the `FOR UPDATE` lock of
`SwitchActiveSessionTx`.  `Arrival` starts a request, `Progress` is one
statement or one answer, `Abort` the failure of a statement or the end of the
caller's patience.  `linked`, `paired`, `inbox` and `open` are history: who
opened which link, who faced whom, what the bot handed to whom, what was active
during a request.  The bot's part (send what the answer says) is `Reply`.

**`Mailbox`**: what the core promises: an append-only log, and an entry is
handed only to somebody paired with its author.  `SessionRelay` implements it
(`ImplementsMailbox`, `INSTANCE ... WITH`).

**`Dispatcher`**: `Loop` is `Run`'s for loop with the semaphore and the
`WaitGroup`; `worker[u]` the goroutine of an update.  The library's polling
goroutine (`Poll`, `Push`, `offset`) is external, modelled from how `main.go`
uses it: fetching with an offset confirms what came before.

**`UpdatePool`**: what is left of the dispatcher for those who live in it: each
update waits, is handled, is over or lost.  An update is started ahead of those
that wait before it only if all of them fit into the pool as well (`Ahead`), and
a death of the process (`Die`) gives back what was not confirmed.  `Dispatcher`
implements it (`ImplementsPool`): the channel, the semaphore and the goroutines
are mapped to a phase per update (`Phase`).

**`BotUpdates`**: `handleUpdate` and the handlers, composed from two instances.
`Pool` (`UpdatePool`) calls them; `Core` (`SessionRelay`) answers them, a request
per update and process.  `at[u]` is how far the handler of an update is,
`said[u]` what it told the sender.  `Ask` makes the call, `BackendStep` is any
statement of the backend, `Answered` an answer in time, `GiveUp` the end of the
ten seconds or an error, after which the request goes on as an `Orphan` until it
is over or `Cancel` ends it.  `ListRead`/`ListShow` are `/sessions` and
`/current`, `MenuCheck`/`MenuShow` the operator's menu with its whitelist.
`content[u]` is what the update is; `Reply` and `Op` are the routing in the
order of `handleUpdate`.

**`OperatorAccounts`**: one slot per request, one step per SQL statement or
Redis command, with `index` (the set of an operator's tokens and its TTL) apart
from the sessions themselves.  Passwords and codes are given correctly or not,
and an operator's secret is a number.  `mix` is chosen once, at the start, and
says which kinds of requests, patches, failures and expiries a behaviour has.

**`OperatorAccess`**: each operator has a level (none, operator, admin), which
only sinks unless an admin ordered a change of that account.  In
`OperatorAccounts` the level is the most that anything still `Standing` would
give: the row, live sessions, pending tokens, and requests that will write back
a row they read.  `ImplementsAccess` therefore bounds what the stale writes,
surviving sessions and half-failed disables of section 7 can do.

**`Retention`**: `job[j]` is one process of `/retention` with what it listed, at which
item it is, whether it is a dry run and whether it collected an error; `Tick` the calendar.
What a job lists is a sorted sequence of `Entries`: the two participants of each
closed session in the order the sessions were closed (an entry is a session and
a side, `UserOf` its user), or the messages by id.  Beside it run operators who
close and reopen, participants who change their language (a read-modify-write of
the whole row, `LanguageRead` and `LanguageWrite`) or write (`ReadSession` finds
the session active, `StoreMessage` stores later, also after the close), and a
container that may be killed.  `anonymous` and `named` are the two halves of a
row, the dead telegram id and the names; `overtaken` notes whose row a language
request had read when it was anonymised.

**`MediaRelay`**: `handler[m]` is the bot's handler of a photo or voice message
with its two files, `relay` the backend's handler, which goes on after the bot
has stopped waiting.  Whether the recipient is bound is read at the beginning.
`Send` has three outcomes: Telegram takes the file, refuses it, or takes it and
the bot gets an error, after which the file stays as if it had been refused.

**`Moderation`**: `Check` with its two Redis commands, and the key's expiry.
Whether a text violates a rule is an input.  A command has three outcomes: it is
carried out and answered (`Incr`, `Expire`), carried out without the caller
learning of it, who may send it again or give up (`IncrUnanswered`,
`ExpireUnanswered`), or given up (`IncrFails`, `ExpireFails`).

**`IncomingRequests`**: `bot`/`call` are the two ends of the call behind
`/start`; `list`, `fetch`, `press` are the panel's cached list, its call for a
new one and the mutation behind the button.  A row's id is the lowest free one,
as a sequence gives it.

`MC*` modules only name model values and small definitions for the `.cfg` files.

## 4. Runs and bounds

Passing runs:

| run | module, cfg | properties | what it shows |
|---|---|---|---|
| `conversation` | `MCSessionRelay`, `MCConversation.cfg` | `TypeOK`, `DeliveredToCounterpart`, `AcceptedWhileActive`, `PendingCloseHasRequester`, `ReopenedForCause`, `ImplementsMailbox` | Three people bind to, write in and stop one session while an operator changes its status: who may be handed what, which messages may still be stored, who asked for a close, what may take a closed session up again, and the whole as an implementation of the abstract mailbox. |
| `termination` | `MCSessionRelay`, `MCTermination.cfg` | `RequestsComplete`, `RolesSettle`, `ActiveIsLinked` | Bind, relay, switch, language, stop and send-as with failures and aborts at every statement, under weak fairness of the handlers: every request is answered, no row lock is held for ever, a side that nobody binds to any more keeps its user, and nobody lands in a session whose link he never opened. |
| `accounts` | `MCAccounts`, `MCAccounts.cfg` | `TypeOK`, `RevokedAreGone`, `OwnedOnceOpen`, `ImplementsAccess` | Three requests at once in six mixes of kinds, in two of them with one in which a statement or command fails, while sessions, pending tokens and indexes expire: a disable ends every session that was complete, an open conversation has an owner, and by whatever stale row, surviving session or half-finished login an operator acts, he gains power only by what an admin ordered. |
| `bot` | `MCBot`, `MCBot.cfg` | `TypeOK`, `ToldIsActive`, `StoredOncePerProcess`, `SilenceMeansStored`, `MenuOnlyForActive`, `EverythingIsAnswered` | Three updates at a time, two of them handled at once, in nine mixes of texts, switches, links, stops, language changes, lists, menus and buttons: calls time out at any point while the backend goes on, and in two of the mixes the process dies once; what a person was told of his text is true, and of his active session where his changes did not overlap, one process stores a text once, the operator's menu opens to active operators only, and every update is answered. |
| `dispatcher` | `MCDispatcher`, `MCDispatcher.cfg` | `TypeOK`, `ReturnsAfterHandlers`, `EveryUpdateIsHandled`, `ImplementsPool` | Four updates through a pool of two while one handler hangs, any other may panic, the process dies once and the channel may be closed: it is a bounded pool whose handlers overtake each other only within its size and which handles an update again only after a death; what Telegram will not redeliver is handled, held or lost in the crash and in no other way, every update reaches a handler or is lost, and Run returns with the channel drained and its handlers over. |
| `media` | `MCMedia`, `MCMedia.cfg` | `TypeOK`, `PromisedIsKept`, `FilesAreAccountedFor`, `OriginalsAreRemoved`, `StoredIsSettled` | A photo and a voice message while every statement, conversion, removal and send may fail, relays time out, the bot dies and the session changes: what is left on disk is the file of a stored, undelivered message unless a failure that concerns the file itself or the lost answer of a send explains it, and every stored message comes to an end. |
| `moderation` | `MCModeration`, `MCModeration.cfg` | `TypeOK`, `WindowEnds`, `ThirdAsksForPause` | Three checks of one user at once, while either Redis command may fail, be carried out without an answer or be sent again at any time: no window lets three violations by whose count was told and which asked for no pause, and a counter is left without an end exactly if the INCR that began its window had no answer or the EXPIRE was never carried out. |
| `incoming` | `MCIncoming`, `MCIncoming.cfg` | `TypeOK`, `ProcessedHasSession`, `GreetedIsStored`, `ProcessedLeavesLists` | Two panels press the same row while the person who sent it, each call and each list may fail once: whoever is greeted has his row, no request is marked without a session, and under a fair refetch interval a marked request leaves every list that stays open. |
| `retention` | `MCRetention`, `MCRetention.cfg` | `TypeOK`, `OnlyDueIsErased`, `CleanExitMeansDone` | The scheduled job and one started by hand, as a dry run or not, over two sessions that are closed, reopened and closed again, beside a language change and a message that is stored after the close, with a statement or removal that fails: only what was due is erased, and whichever job exits with 0 has erased the telegram id and the names of all it found, but for names a language request that had read the row before brings back, whatever the other did meanwhile. |
| `overdue` | `MCRetention`, `MCOverdue.cfg` | `RetentionHappens`, `DeletedLeavesNoFile` | A row that never decrypts, a failure, a killed job, a language change and messages stored after the close: what stays overdue is deleted and its participants are erased in the end and for good, names included unless a language request had read them before, and no death of the job leaves a file without its row. |

Runs that show where the code departs from what the repository says of it are
in section 7.

Bounds, and why they are enough to make the cases happen:

- core: two or three users, one or two sessions and two concurrent handlers; the
  shortest interleavings that matter are two requests around one read, and a
  third user is the stranger who opens a link that is taken.  `MaxRequests` (3
  to 5) bounds the requests of a behaviour, each of which may be of any kind the
  run lists in `Ops`: bind, write, bind, switch and write again fit into five.
  `termination`, in which every kind may fail anywhere, has three.
  `PauseThreshold` is 3 as in the code in `conversation` and lower where only
  reaching it matters.  Users, handlers and sessions are symmetric, except in the
  run with liveness.  `Failures` lets every statement fail; `conversation` runs
  without, because `PendingCloseHasRequester` does not survive the failure of the
  second statement of `/stop`.
- dispatcher: pool of two, a channel of one, four updates and one crash: more
  updates than pool and channel can hold; the first update's handler may hang.
- bot: three updates, two handled at once, one request per update and process.
  `Contents` lists nine triples of updates, chosen so that each kind of update
  occurs and each pair that can disturb another meets it: switch, text, switch
  of one person; a language change beside a switch; the link of a side that is
  free or taken with the first text after it; a text beside a stop; the menu
  pressed while the operator's status changes.  `Fatal` are the two triples in
  which the process may die, once.  `Failures` is off in `Core`: a failed
  statement reaches the bot as an error, which is `GiveUp`, and ends the request,
  which is `Cancel`.  `PauseThreshold` is 1, so that a text may pause.
- accounts: three operators (an admin, one who is about to confirm his first
  code, one still to be invited), three requests; three tokens and two pending
  tokens, never exhausted within them.  `Mixes` are six combinations of kinds of
  requests with the changes admins make (disable, promote, restore), a request
  that may fail and expiries: all of them at once would be too many states, and
  each mix holds the kinds that read and write the same rows and keys.
- retention: periods of one and two, a clock to 3 or 4, two status changes, one
  failure; two sessions that share a participant, the second with an empty side;
  in both runs the other participant changes his language.  `retention` has two
  jobs, a photo and no deaths, `overdue` one job, a photo, a text, a death and a
  row that never decrypts: the two together would need ten times the states.
- media: one photo and one voice message, two status changes; every statement,
  conversion, removal and send may fail, and a send lose its answer, without a
  bound.
- moderation: three checks, threshold 3 as in the code, counter to 4 (past the
  threshold), life of two ticks; any command may fail or lose its answer, any
  number of times.
- incoming requests: one person, two panels, one row, one failure of each kind;
  an operator with two tabs counts as two panels; one `/start` of a person at a
  time.

Deadlock: most modules end in a step that stutters when the bounds are
reached (`Exhausted`, `Rest`), so that TLC still reports a handler stuck
elsewhere.  The media and retention runs say `CHECK_DEADLOCK FALSE`: there the
system may simply have nothing left to do.

## 5. Fairness

- core (`termination`): `WF(Progress(p))`, a goroutine that can take its next
  step takes it; nothing forces requests to come or failures to happen.  The row
  lock is given up by commit or rollback, both of which are steps.
- dispatcher: `WF` of polling, of pushing into the channel, of `Run`'s loop and
  of each goroutine, except a handler in `Hanging`, which never returns: the
  Telegram library's downloads have no time-out.
- bot: `WF` of `Enter` (what `EveryUpdateIsHandled` of the dispatcher shows) and
  of each handler, whose calls of the backend end after ten seconds.  Nothing is
  assumed of the backend: `EverythingIsAnswered` holds although it may never
  take another step.  That a download may hang is the dispatcher's `Hanging`.
- retention (`overdue`): `WF(Tick)` and `WF` of the steps of the scheduled job:
  the container's entry point is an endless loop, and `restart: unless-stopped`
  in `infra/docker-compose.yml` starts it again when a job that failed ends it.
- media: `WF` of the bot's and of the backend's handler of each message.
- incoming requests: `WF` of a panel's list: `refetchInterval` runs as long as
  the page is shown.

The runs of accounts and moderation have no liveness and assume no fairness.

## 6. Proofs

All of them hold for every value of the constants that satisfies the named
`ASSUME` of the module.

| module | theorems | argument |
|---|---|---|
| `SessionRelayProofs` | `TypeCorrect`, `DeliveryIsToCounterpart`, `AcceptedOnlyWhileActive`, `ActiveSessionIsLinked`, `RolesAreSettled`, `PendingCloseNamesRequester`, `ClosedIsReopenedForCause`, `RelayImplementsMailbox` | below |
| `DispatcherProofs` | `DispatcherTypeCorrect`, `PoolIsBounded`, `HandledOncePerProcess`, `RunWaitsForHandlers`, `NothingConfirmedIsDropped`, `DispatcherImplementsPool` | the semaphore and the wait group count what they should (`SlotsInv`), and the updates a process took stand in one line (`LineInv`); the line has no gap that Telegram would still redeliver (`GapInv`), so the phase of an update is told by its goroutine and by where the line ends (`Front`), and whatever waits before a started update holds a slot |
| `BotUpdatesProofs` | `Inductive`, `BotTypeOK`, `BotToldIsActive`, `BotStoredOncePerProcess`, `BotSilenceMeansStored`, `BotMenuOnlyForActive` | below |
| `ModerationProofs` | `ModerationTypeOK`, `ModerationThirdAsksForPause`, `ModerationWindowEnds`, `ModerationWindowIsNotProlonged`, `ModerationEndlessForGood` | at most one check stands between INCR and EXPIRE, and it is one counted violation not yet answered (`AloneInv`, `LenientInv`); a counter without an expiry either has that check or is abandoned, and nothing but the expiry ends it |
| `IncomingRequestsProofs` | `RequestsProcessedHasSession`, `RequestsTypeOK`, `RequestsGreetedIsStored` | a panel past its first call has a request with a session (`FirstCallInv`); whoever the bot is about to greet has a row, or a call that failed (`Covered`) |
| `MediaRelayProofs` | `MediaTypeOK`, `MediaPromisedIsKept`, `MediaFilesAreAccountedFor`, `MediaOriginalsAreRemoved` | at each step of the bot's handler and of the backend's it is known which of the two files exist, and that the row is stored before the answer |
| `RetentionProofs` | `RetentionTypeOK`, `RetentionOnlyDueIsErased`, `RetentionCleanExitMeansDone`, `RetentionDeletedLeavesNoFile` | below |
| `OperatorAccountsProofs` | `AccountsInvariant`, `AccountsTypeOK`, `AccountsOwnedOnceOpen`, `AccountsRevokedAreGone`, `AccountsImplementAccess` | below |

The core's properties speak of tables, but no single statement reads more than a
row; each is true because of what a request in flight still may rely on.  The
inductive invariant `IInv` (module `SessionRelayInv`, checked by TLC in the run
`termination` before it was proved) therefore has two halves: what the tables
satisfy (`LinkedInv`, `PairedInv`, `MessagesInv`, `OpenInv`), and what each
request knows at each of its steps (`JobInv`): for instance that a relay past
its reads holds a recipient who faced its sender *at some moment*, which is all
that survives a concurrent bind.  `PendingCloseNamesRequester` is proved from
the assumption that no statement fails, as its run is.  `RelayImplementsMailbox`
maps the initial state and every step to the abstract one.

What the bot tells a sender is decided by a request that runs through the
backend among others, and that may outlive the handler and the process that made
it.  The invariant of `BotUpdates` says what such a request is worth: it is what
its update asked for, it has stored nothing before its answer, and an answer
`relayed` means that its own text stands in `messages` with a recipient
(`JobInv`); each process makes it once, so that an update handled again has a
new one (`MadeInv`); as long as it counts as alone, no other request may move
its user, and once it has moved him his row says so (`AloneInv`).  From these
follow `ToldInv`, which is `ToldIsActive` and that nothing that could make it
false is still under way, and the two statements about texts.  Each statement of
the backend is shown to keep this by one of two lemmas: the request goes on
(`NextStatement`), or it is answered (`Answers`).  The provers see no theorem of
an instance, so nothing of `SessionRelayProofs` is used; the types of the tables
are proved again.

A job of the retention works through a list it read long ago.  Its invariant
says of every item before its place that it is done -- erased, or its file removed --
or that the job has an error, and of every item of the list that it
was due once.  That the list holds everything due is a lemma of its own
(`ByClosingIsComplete`, `ByIDIsComplete`); with both, an exit with 0 means what
`CleanExitMeansDone` says, and since deleting is never undone and anonymising
only by a language request that had read the row (`NamesAreErased`), and since no
message is stored twice (`NotYetStored`), what the others do meanwhile does not
matter.

The accounts' invariant ties the keys of Redis to the requests that write them.
A live session whose creation met neither a revocation nor an expiry of the
index is in the index or about to be, and the index's TTL was set after it was
issued (`Indexed`); a token is issued once and belongs to the operator its
request is about (`IssuedOnce`); and a revocation under way has each such session
on its list (`Revocation`).  `RevokedAreGone` alone is not inductive: it says
nothing before the list is worked through.  For `AccountsImplementAccess` every
step either leaves to each operator no more than stood before (`StandingShrinks`:
the row that is written back, the session that is created, the pending token
all carry a role that stood already), or is an order given by an admin whose
session stands (`AdminOrders`), or one carried out (`OrderEnds`).

The assumptions on the constants are few: the model's placeholder `None` is no
operator, token, session or record; the sets that are counted are finite
(operators, requests, and the rows and ids of retention); the tokens of the
sessions at the start are distinct, and whoever has an active session there is
one of its two sides, as `ActiveIsLinked` shows of every state the code reaches.
Nothing is assumed of how many there are.

`PoolIsBounded`, `HandledOncePerProcess`, `NothingConfirmedIsDropped`,
`ModerationWindowIsNotProlonged` and `ModerationEndlessForGood` are proved only;
no run checks them, `ImplementsPool` contains the first three.

Only model-checked: everything under fairness (`RequestsComplete`,
`EveryUpdateIsHandled`, `EverythingIsAnswered`, `RetentionHappens`,
`StoredIsSettled`, `ProcessedLeavesLists`), which is out of the prover's reach.

## 7. What the code does not do

Two promises that TLC refutes, each a run that ends with a counterexample;
`PROJECT.json` quotes the line that says otherwise (`findings`).

| run | property | at | what it shows |
|---|---|---|---|
| `pending` (`MCPending.cfg`) | `BoundUserGetsPending` | `backend/internal/repository/message_repository.go:24` | A message written to an empty seat is never handed to the person who takes it. |
| `language` (`MCLanguage.cfg`) | `LanguageKeepsActive` | `backend/internal/api/users.go:68` | A language change undoes a bind or a switch that committed since it read the user. |

Other places where the code departs from what the repository says of it.  The
models behave as the code does, and the properties above are stated so as to
hold in spite of them; paths without a prefix are under `backend/internal`.

Core and wiring:

- A closed session is put back into another status by `/stop`
  (`api/sessions.go:592`), by the panel (`:386`) or by an automatic pause that
  read it earlier (`api/messages.go:114`), with `closed_at` left behind;
  `docs/OPERATOR_GUIDE.md:88` calls closing irreversible.  `ReopenedForCause`
  says that nothing else does it.
- `NewServer` (`api/router.go:56-69`) drops `botClient`, `photosDir` and
  `voiceDir`.  The other side hears nothing of a stop request
  (`api/sessions.go:603`); what an operator sends as a side is stored but neither
  delivered nor audited, the panic coming before `writeAuditLog`
  (`api/messages.go:275`); no alert of a new request appears
  (`api/incoming_requests.go:79`, against `docs/OPERATOR_GUIDE.md:65-72`); media
  are looked for in the working directory and answered with 404
  (`api/media.go:14`).

Accounts:

- `handleVerifyTOTP` never looks at the status (`api/auth.go:144`) and a disable
  leaves pending tokens alone: a code confirmed afterwards still opens a session,
  against the immediate revocation of `docs/README.md:45`.
- `handleLogin` and `handleVerifyTOTP` write the whole row they read
  (`api/auth.go:87`, `:175`), which undoes a disable in between.
- Two first logins at once each show a secret and the second one replaces the
  first (`api/auth.go:79`).
- If the index of an operator's tokens expires between the SADD and the EXPIRE of
  a new session (`auth/session.go:51-57`), a later disable does not find it.
- When the only active admin is disabled nobody is found and the conversations
  keep their disabled owner (`api/operators.go:254`).

Bot handlers (under `bot/internal/handlers`):

- A handler that gave up tells the sender that the text failed or the session
  was not switched, while the backend may still store the one and do the other
  (`backendclient/client.go:22`): the text arrives although its sender was told
  to try again.
- Text and switch of one person are handled at once: a text sent right after the
  button may still go to the old session.  `ToldIsActive` promises the session
  only from the moment the person was told of it.
- Two changes that overlapped may be told in another order than they were made,
  a request the bot gave up on may move a person after he was told of a later
  one, and an update handled again repeats an old one.  `ToldIsActive` promises
  nothing of such changes (`alone`): what it says is that a change that met no
  other is told truly and undone by nothing but the next one.
- "Ответить сюда" edits the message it hangs on: the relayed text is replaced by
  "Активная сессия изменена." (`sessions_list.go:96-102`).
- A change of language is confirmed although the call failed, and an unknown code
  leaves the button without an answer (`language.go:42-68`).
- `/stop` reports every error as "У вас нет активной сессии" (`stop.go:22-35`).

Moderation, media, incoming requests:

- A counter never ends when its EXPIRE is not carried out
  (`moderation/service.go:58`), or when its first INCR is carried out but the
  answer is lost (`:51`): the next INCR is told 2 or more and sends no EXPIRE.
  `WindowEnds` says that this is so in these cases and no other, and
  `ModerationEndlessForGood` that nothing repairs it.
- An INCR that the Redis client sends again after a lost answer counts one
  violation twice.
- A photo or voice message that Telegram took without the bot learning of it
  stays on disk until retention deletes its row (`voice.go:111`, `photo.go:133`),
  as one that was refused does.
- A download that breaks off leaves part of the original
  (`bot/internal/handlers/photo.go:42-45`), whose comment at `:50` says that none
  is ever left; `OriginalsAreRemoved` excludes exactly that and a removal that
  fails.
- The panel creates the session and marks the request in two calls; when the
  second fails the row stays new and pressing again makes another session
  (`webpanel/src/pages/IncomingRequestsPage.tsx:26-30`).
- Whoever sends `/start` is greeted as accepted after a failed call too
  (`bot/internal/handlers/start.go:127`).

Retention:

- A file that could not be removed survives its message for good
  (`retention/messages.go:80`): `DeletedLeavesNoFile` excludes exactly that.
- A language change that read the row before it was anonymised writes the names
  back (`api/users.go:70`), and no later job looks at that row again, which
  departs from the irreversible erasure of `repository/user_repository.go:223`
  and `docs/RETENTION.md:4`.  `CleanExitMeansDone` and `RetentionHappens` exempt
  exactly that (`overtaken`).
- Somebody is anonymised although another session of his is active
  (`retention/pii.go:85`).
- Errors of the hashing of the audit log do not reach the exit status
  (`retention/pii.go:91`, against `docs/RETENTION.md:31`): `CleanExitMeansDone`
  does not speak of the hashing.

## 8. What is not modelled, or more coarsely

- core: reading the recipient's telegram id is part of the step that stores;
  the audit entry is part of the step it follows; `ListUndelivered` and
  `MarkDelivered` are one step; share locks of foreign keys are left out;
  which operator may act on which session is a constant (`Access`, moved by
  `OperatorAccounts`); a counter may expire at any time or, as an EXPIRE may be
  lost, never; a failed check may have counted (`CheckError`), but an INCR that is
  sent again counts once here.
- bot handlers: wording, keyboards and the languages; what is in a list; errors
  of Telegram's answers, which are only logged; the operator is one row, of which
  the status is kept; the rows of `incoming_requests` (see `IncomingRequests`) and
  the steps of photos and voice messages (see `MediaRelay`) are one step here.
- accounts: the arithmetic of passwords and codes, the audit entries.
- retention: participants of a session do not change; the status
  `pending_close` is no different from `active` there; the hashing of the audit
  log changes nothing that is read again; the hour of the cron loop and the
  parsing of periods are left out.
- moderation: the patterns and phrases; an EXPIRE in flight is not overtaken by
  the end of the window it is about, which is a day away.
- media: the bytes of a file; the operators' access to it (`api/media.go`), which
  reads a row and a file and changes nothing.  A message for a recipient who is not bound is
  stored and, as the run `pending` shows, never handed over: its file stays.
- incoming requests: "Взять в работу" marks a request without a session, but no
  operator can press it as long as no alert appears (section 7); the list
  in the bot's operator menu changes nothing.  Rows of `incoming_requests` keep
  names and telegram ids for ever: retention does not know the table.
- the bot's internal server (`bot/internal/server`): the backend's client for it
  is nil (section 7), so nothing ever calls it.
- web panel beyond the list of requests, read-only API, encryption,
  configuration: they keep no state of their own or
  only forward (`components`).

# postblox: a TLA+ verification project

postblox is a terminal mail client: a daemon (`postbloxd`) that mirrors IMAP
mailboxes into SQLite, a terminal user interface and an MCP bridge for agents,
both clients of the daemon over a Unix socket. This directory models the system
from the mail server to the keys of the user, checks it with TLC on small
instances, and proves properties of six components with TLAPS for every instance.
Paths below are relative to the repository root; `PROJECT.json` maps every
definition to the lines it models.

## The system

| Part | State | Interacts with | What must be right |
|---|---|---|---|
| Reconciler (`src/sync/reconciler.rs`) | folder, message, attachment and thread tables; locals of a run | IMAP server, workers, `account.sync_folder`, `message.move` | nothing skipped, no stale row, no half-stored message, a reset always completes |
| Workers, manager (`src/sync/worker.rs`, `manager.rs`) | the manager's map; each task's loop, backoff, cancel token | reconciler, daemon shutdown | no orphan, no silent death, new mail is synced, shutdown ends |
| IPC server, hub, client (`src/ipc/`) | handlers, forwarders, mailboxes, rings of events, wakers | every client, dispatcher | events accounted for, answers not lost, teardown leaks nothing, no deadlock |
| MCP approvals (`src/mcp/server.rs`, `gates.rs`, `src/db/mcp.rs`) | gates, approval rows, a call's subscription | daemon, user | only authorised calls run, what the agent is told is what the table says |
| MCP bridge (`src/mcp/server.rs`, `protocol.rs`, `tools.rs`) | the line being read, the writer's queue, forwarders | agent, daemon | one answer per line, in order; arguments both sides agree on; it ends with its input |
| Credentials (`src/secrets/`, `src/oauth/google.rs`, `src/config.rs`) | the secrets file or the keyring, the accounts' references, tokens | Google, workers, clients | the store is one map whatever fails; every request is answered |
| Drafts and sending (`src/db/drafts.rs`, `src/smtp/mod.rs`) | drafts, attachments | SMTP server, TUI, agents | a draft is sent as one version, once |
| Attachments (`src/attachments.rs`, dispatcher, TUI) | rows, cached files, an export, a forward | the user's directory, the IMAP server | nothing overwritten, dropped, doubled or swapped |
| Mail formats (`crates/postblox-mail`) | none; letters in transit | other mail clients | replies reach their people and their thread |
| Lists, search, SQL (`src/db/search.rs`, `sql_query.rs`) | a query under way | arriving mail | pages are exact, SQL is bounded and reads only |
| TUI (`src/tui/`) | `AppState`: selection, cache, composer, conversation, panes, toasts, command line, approvals | daemon | lists agree with the tables; cursors, focus, viewport and help with the text |

The hard behaviours: every `await` is a point where a request handler can be
aborted (its connection closed), a worker cancelled or the process ended, and
nothing is a database transaction unless the code says so; `broadcast` channels
drop old events; bounded queues push back on whoever fills them; the mail server
renumbers, expunges, falls silent or closes; files are lost and writes cut short;
and what one request read another has changed when it is used.

## Modules

| Module | Models |
|---|---|
| `Reconciler` | `reconcile_folder`, one action per `await`, for several callers, with the mail server and message moves |
| `SyncWorkers` | worker loops (IDLE and polling), `WorkerManager`, the sync requests, shutdown |
| `Ipc`, `EventStream` | accept loop, connections, handlers, forwarders, writers, hub, client; what a subscription promises |
| `McpApproval` | a dangerous tool call from its gate lookup to its end |
| `Credentials`, `SecretMap` | account, secret and OAuth handlers over file and keyring; what the secret store promises |
| `Drafts` | the composer against `draft.*` and `message.send` |
| `Mailbox` | the TUI's mailbox: selection, folder cache, optimistic writes, search, approvals, events |
| `TextLines`, `Editor`, `Reader`, `Screen` | lines of text, the composer's editor, the open conversation, and the keyboard that drives them |
| `Display` | what is drawn of `Screen`: widths, viewports, cursors, highlighted rows, help overlay |
| `Commands` | the command bar: parsing, completion, suggestions |
| `Terminal` | composes `Screen`, `Display` and `Commands` |
| `Calls`, `Tools`, `Bridge` | which arguments every daemon operation takes and the calls the TUI makes; the tool catalogue with its validation; the stdio loop |
| `Attachments` | storing, previewing, exporting and forwarding attachments |
| `Correspondence` | replies, forwards, their headers, threading, reply extraction |
| `Queries` | paged lists, filtered search, read-only SQL |
| `ApprovalView` | what the TUI shows of a pending approval |
| `Requests` | composes `Bridge` to `ApprovalView` |
| `*Proofs`, `IpcFrames`, `IpcConnection` | the theorems, with the lemmas they rest on |
| `MC*` | small instances for TLC |

### Reconciler

A process `p` is a caller of `reconcile_folder`; `run[p]` holds the function's
local variables (`snap` is the folder row read at the start, `reply` the last
`sync_folder` result, `seen` the local `last_seen_uid`) and `pc` the await it is
at. `rows`, `fold`, `threads` and `status` are the tables; `box` and `epoch` the
server's mailboxes. A message's UID is its position in `box[f]`; `Gone` marks an
expunged one. The history field `home` of a row is the folder it was synced from,
and `by` the run that still works on it. `Abort` is the worker's `select!` on its
cancel token, an aborted request handler, a failing call, or the end of the
process. The scenario record `env`, chosen in `Init`, says who calls, which faults
occur and how much: it replaces a product of bounds by a union of smaller ones.

A worker and `account.sync_folder` share no lock. What one run may do to the other's
folder (wipe rows the other has just resynced, insert rows of an older reply, roll a row
back that the other counted as stored, record a UIDVALIDITY it never compared) is in the
model, and the UIDs it concerns are collected in the history variable `disturbed`, with
those that a moved row shadows. `NothingSkipped` and `NoStaleRow` are about all others: the
code makes no promise for a disturbed UID (see the known limits).

### SyncWorkers

`task[i]` is a spawned worker (mode "idle" or "poll") or one `account.sync_folder`
request ("manual"); `workers` is the manager's map, which the code only touches
under its lock, so that start and stop are one step up to the join. Time is
abstract: a sleep or deadline may end at any moment. `FetchMail` and `StoreMail`
stand for the reconcile, which has its own module; `news` says that mail arrived
after the fetch (or, in IDLE, that the server announced it). `told` is the history
of the last state report. `server` is the scenario, chosen in `Init`.

### Ipc

`srv[c]` is the daemon's side of a connection: the phase of `handle_connection`
(`link`), its handlers, forwarders, mailbox and whether its writer lives; `cli[c]`
the client's side; `up` and `sock` the socket's two buffers. An event is its
position in its topic, and a broadcast receiver the position it reads next, so
that lag is arithmetic as in `tokio::sync::broadcast`. A subscription id is
identified with the id of the request that made it, and a client unsubscribes only
ids it has used. The client's reader takes a frame when it can hand it on, which
is the code's blocking `send` with one more slot of buffer. A response may be
larger than a frame may be (`big`). A frame of a subscription stands for the `n`
events from position `at` on: one for an event, and for a lagged notice those it
reports, of which the code sends the number only; `at` is history there.
`Leads(q, s, a, b)` says that the frames of `s` in `q` stand for the events `a` to
`b - 1`, each once and in order.

### McpApproval

A call `c` stands for its approval row, its subscription and its arguments; a gate
pattern is the set of calls it matches. `row` is the table, `unpublished` the
decide handlers between their UPDATE and their publish, `chan` and `lost` the
subscription's buffer and its lag. `everAuto` (calls that an auto_allow gate has
matched) and `aborted` are history. Who decides is left open: an agent's own
client may, and the terminal client cannot (see the finding below).

### Credentials

`req[c]` is the request client `c` has in progress, at one `await` after another:
the account row, Google, then the store. `disk` is the secrets file, its temporary
file and their inodes, so that "created, half written, whole, renamed" are
different states; the keyring uses the same map without the temporary file, and may
refuse any call (`KeyringRefuses`). `Cut`
drops a handler, and the file or keyring operation it had handed to the blocking
pool goes on as one of the `orphans`. `Crash` is a killed daemon. Consents and
tokens are numbered; `newest` is history. `StoreImplemented` says that all of this
is a step of `SecretMap`: put and delete change one account at one moment.

### Drafts

`drafts` and `atts` are the two tables; `req[c]` is the request of client `c` at the
daemon, one action per SQL statement (`draft.update` is one transaction, as in the
code), and `composer`, `mode`, `pane` and `doomed` are the fields of `AppState`. The
TUI waits for its answer before it reads the next key. A text is one value, a file
stands for its name and content; `rev` stands for `updated_at` and is reused once
nobody holds it. `sent` and `halved` are history: drafts sent and deleted, and drafts
whose creation was cut off, written into or not undone. `later` says that a send read
its draft after it had been sent and deleted. `Cut` drops a handler at any
await. `scenario`, chosen in `Init`, says which failures occur.

### Mailbox

`app` is `AppState`, and each function of `app.rs` is an operator on it, so that a key
handler reads as in the code. A handler is a key action and then the calls in `plan`,
one step each, because the loop awaits them before the next key or event; the daemon
and other clients act between them. `messages` and `threads` are derived from
`folder_messages` (`ids`), as `refresh_visible_messages` and `rebuild_threads` do. The
focused pane is not a variable here: Tab moves it freely, and a key names the pane it
is for (`Screen` has it). `focus` is the conversation stack's focus, which is not always
the selected message. Events of different topics come from different forwarders, so
`events` is a set. A folder of role drafts belongs to `Drafts`. `world` says who acts
and what fails; `opened` is history, the last search hit opened.

### Terminal

`app` holds what `handle_key` decides on: the input mode, the focused pane, the
composer (`Editor`), the conversation on display (`Reader`), the search, the help
overlay, what is about to be deleted. A key is one step, with any answer the daemon can
give, an error included, because `run_loop` awaits the answers before it reads on. A
character is a class (a letter, a space, a comma, a newline). `keys` is the part of the
keyboard a behaviour uses: the families partition the work, since the composer's text
keys and the pane keys act on different fields, and the families that share fields are
in one set. `Display` has no variables: it states what is drawn of each reachable
state, for every height in `Heights`, width in `Widths` and text in `Texts`. A header
field's cursor is the display width of the text before it, clamped at the field's edge.

### Requests

`Calls` says for each operation which classes of argument values its handler takes
(`Handlers`), and which calls the TUI makes (`UiCalls`). `Tools` has the catalogue, the
validation of arguments, and the daemon calls a tool leads to. `Bridge` reads the
agent's lines in chunks, handles one at a time, and hands answers and events to one
writer behind a bounded queue. `Attachments` names bytes by the part they belong to, so
that "another one's bytes" can be seen. `Correspondence` sends letters that are lost and
reordered, and answers, parses and files them; `run[p]` is what the reconciler's run for
box `p` knows of the recent threads, read once and extended by the threads it opens.
`Queries` reads a list page by page while
mail arrives and streams a SQL answer. `ApprovalView` lists approvals, looks up the
target of each, and applies the rows, while drafts change and approvals come and go.
They share no state in the daemon beyond the rows each of them models, so `Requests`
follows one subject per behaviour.

## Runs

| Run | Checks | Bounds |
|---|---|---|
| `reconciler_safety` | `NothingSkipped`, `NoStaleRow`, `NoHalfRow` | two messages per mailbox, window 1 (every drain with two messages has several windows), one cut-short run, one renumbering; two callers of one folder with a renumbering and one message, with a full disk and a cut-short run, and with two messages |
| `reconciler_live` | `EventuallyMirrored`, `ResyncCompletes` | one worker, three kinds of messages |
| `mcp_approval` | `OnlyAuthorised`, `OutcomeMatchesRow`, `NoMissedDecision`, `EveryCallEnds` | two calls, one gate at a time of three kinds that overlap, capacity 1, so that the second decision overwrites the first |
| `sync_workers` | `NoOrphan`, `NoSilentDeath`, `NewMailSynced`, `ShutdownCompletes` | two tasks for one key; backoff 1, doubled once, then capped |
| `ipc_streams` | `EventsAccounted`, `NoLostAnswer`, the refinement `StreamsImplemented` | hub of 2, queues of 1, 5 events: more than hub, mailbox, socket and client hold |
| `ipc_live` | `EveryRequestEnds`, `EventsDelivered`, `ConnectionsReleased` | one connection, one handler slot, queues of 1, the client's event queue included |
| `drafts` | `CleanIsSaved`, `SentAsSaved`, `NeverSentAgain`, `NoHalfDraft` | TUI and one more client with one draft; the TUI alone with two drafts and every failure |
| `mailbox` | `NoGhost`, `ApprovalsListed` | two accounts, three folders, a cache of 2 (so that it evicts), three messages in two conversations, two approvals |
| `credentials` | the refinement `StoreImplemented`, `RequestsAnswered` | two clients, a password and a Gmail account, three calls, two tokens, each backend with each failure |
| `terminal` | `ComposerSound`, `ConversationSound`, `ScreenSound`, `CursorShown`, `InputDocumented` | bodies of three characters with a newline, two conversations, panes of 2, 3 and 5 rows and of 0 to 5 and 9 columns, texts of wide, plain and combining characters, a prefilled body and files above the limits for typing |
| `requests` | `AnswersInOrder`, `CallsAgree`, `FilesSound`, `RepliesArrive`, `QueriesSound`, `ApprovalsTrue`, `BridgeEnds`, `NothingOverwritten` | every tool with every single odd argument, every framing of a line, conversations of three lines with a queue of one; three parts, three letters with one recent thread, five rows and one that arrives, statements of three words, four rows read; two approvals |

The run `requests_ui` shows where the code and its own documentation part: the
terminal client's approve and deny carry `decided_by: "tui"`
(`src/tui/ipc.rs:988`, whose comment and test speak of the daemon's payload), and
the dispatcher refuses every actor but `user` and `mcp:<name>`
(`src/daemon/dispatcher.rs:803`).

Why the bounds are enough: each queue is at its limit with one element, each
window boundary is crossed with two messages, each race of the hazard list needs
at most two actors, and one cut-short run is placed at every await. What needs
more (three readers of one topic, two resets in one run) repeats the same steps.
Validation looks at one argument at a time, so one odd argument at a time is
enough; cursor and line arithmetic has its edges at the first and last character,
the empty line and the full pane, which three characters and two rows have. Scaled
limits (`PreviewLimit`, `BatchBudget`, `CellMax`...) are small enough to be hit
from both sides.

Type invariants (`TypeOK`, `DraftsTypeOK`, `MailboxTypeOK`) are stated in the
modules and not listed in the cfgs: they hold of the runs above, and those of
`McpApproval`, `SyncWorkers` and `Drafts` are proved.

### Fairness

Weak fairness per task: Tokio polls every task that can go on. In `Reconciler` the
worker starts a new cycle after every interval, IDLE wake-up or backoff, and
network phases time out, which is an `Abort` and bounded. In `SyncWorkers` sleeps
and deadlines end; a silent server is one for which `idle.done()`, the only phase
without a deadline, is not fair. In `Ipc` a client that is not inside a request
takes its responses and events; requests, disconnects and shutdown are never
forced. A client inside a request takes nothing, as in the code, where both need the
client exclusively: when its event queue (256 in the code) is full then, its reader stops
in front of the answer for ever. `EveryRequestEnds` and `EventsDelivered` exempt exactly
that state (`Clogged`), which the run reaches. In `McpApproval` the bridge runs on
and its timer fires; nobody has to decide. In `Credentials` a request in progress
goes on (the HTTP client gives up after ten seconds), and the lock is strongly fair
because Tokio's mutex hands it out in turn. In `Bridge` reading, handling and
writing go on; sending into the bounded queue is strongly fair because `mpsc` serves
its senders in turn. The agent reads on or closes its end, and its input ends.

`CHECK_DEADLOCK FALSE` is set where the system may stop: the daemon is down, all
calls have ended, the bounds on requests and events are used up. `Drafts`, `Mailbox`
and `Terminal` state no fairness: a user need not press a key.


## Proofs

Everything here holds for every value of the constants, under the named assumptions of
the modules (`ConstantsAssumption` and so on), which say only that the constants have
their types and that capacities are not zero.

### McpApprovalProofs

| Theorem | States |
|---|---|
| `TypeCorrect` | `Spec => []TypeOK` |
| `Authorised` | `Spec => []OnlyAuthorised` |
| `OutcomeRecorded` | `Spec => []OutcomeMatchesRow` |
| `Final` | `Spec => DecisionsFinal` |
| `NothingMissed` | `Spec => []NoMissedDecision` |

The inductive invariant `IInv` adds three facts: `EventsTruthful` (a buffered decision
is what the row says, which holds because rows are final), `RowFollowsBridge` (where the
bridge is determines whether the row exists) and `GatesRecorded` (an auto_allow gate's
calls are in `everAuto`). `OnlyAuthorised` alone is not inductive: `ReceiveEvent` trusts
a buffered event and `ListGates` a gate. `NextTypeOK` has one step per action,
`NextFacts` one per action and conjunct it disturbs; `PushProperties`,
`UnsubscribeType`, `TailKeeps` and the other lemmas state what the helpers do.
`NoMissedDecision` is proved relative to `IInv`.

### SyncWorkersProofs

| Theorem | States |
|---|---|
| `TypeCorrect` | `Spec => []TypeOK`, with the backoff within its configured range |
| `NoWorkerLost` | `Spec => []NoOrphan` |
| `DeathsAnnounced` | `Spec => []NoSilentDeath` |

`IInv` is `TypeOK`, the two properties and `ManualPath`: a request for one folder is
never at a step of the worker loops. Without it `NoSilentDeath` is not inductive, since a
manual run ends in "done" by another way than a worker. `TaskStepFollows` says once what
a step of a task may change, `TaskStepKeeps` and `SpawnKeeps` derive the invariant from
it, and `NextIInv` has one step per action of the manager and the server.

### AttachmentsProofs

`ExportsKeepFiles` states `[][AttachmentNext]_attachmentVars => NothingOverwritten`: no
step of an export replaces a file of the directory, whatever other programs save there
between the choice of the name and the copy.

### CredentialsProofs

`StoreRefined` states `CredentialsSpec => StoreImplemented`: the encrypted file, its
temporary file, the keyring and the requests that use them implement `SecretMap`, one map
of secrets in which a put or delete changes one account at one moment. It assumes
`CredentialsAssumption`: the scenarios and the kinds of the accounts have their types, and
`None` is neither a client nor a number.

The refinement mapping reads the map off the file under its final name (or the keyring),
the calls in progress off `req`, and the calls that outlive their request off `orphans`.
The inductive invariant is
`~Exempt => Types /\ OnPath /\ FileWhole /\ OrphansAreEntries /\ WriteCurrent`: whoever is
in the store holds the lock and is at an await of its backend (`OnPath`); the file under
its final name is complete and is not the temporary one (`FileWhole`); only keyring calls
go on without their request (`OrphansAreEntries`); and the map a writer is about to put in
place is the stored one with its own change (`WriteCurrent`). The last is what makes the
rename a `TakeEffect` of `SecretMap`, and it is inductive only with the other three. Each
action then maps to one step (`Begin` when a request turns to the store, `TakeEffect` at
the rename or the keyring's call, `TakeEffectLate` for an orphan, `Return` at the answer,
`Crash`) or a stutter; a call the keyring refuses never takes effect. `Exempt` is the case
of the known limit below: the file, with writes that are cut off in the blocking pool.

### DraftsProofs

| Theorem | States |
|---|---|
| `DraftsWhole` | `DraftsSpec => []NoHalfDraft` |
| `SentOnce` | `DraftsSpec => []NeverSentAgain` |
| `ComposerSaved` | `DraftsSpec => []CleanIsSaved` |
| `SentWhole` | `DraftsSpec => []SentAsSaved` |
| `DraftsTypes` | `DraftsSpec => []DraftsTypeOK` |

They assume `DraftsAssumption`: ids are numbers, the TUI is not one of the other clients,
of which there are finitely many, and `Null` is not an id, a text, a set of files, a row or
a composer.

`IInv` adds to the properties what each request may rely on while it waits. `CreationOK`:
a draft under creation lacks exactly the files still to be attached, unless it was deleted
or somebody else wrote it, which marks it as halved. `OneCreator`: a draft has one creator,
and what it clears or attaches is its own. `ReadingOK`: the row a send has read
is still the stored one, or its revision is not; and a `calm` send has the files of its
row. `TuiOK`: the TUI's own request is about the composer on display, which it will mark
clean. `SentGone`: what was sent and deleted stays away, from which `NeverSentAgain`
follows, since a send begins by reading the row: one that begins later finds none. (Two
sends that both read it before either deletes it may both submit, a known limit.)
`RequestOK` says what a request is about.

A step is one client's, but every client has facts about the same drafts. So each action
of the daemon is first shown to have one of four effects on each draft, as others see it
(`Effect`: untouched, gone, filled, written), and `OthersKeep` and `TuiKeeps` say once that
the facts of the other clients survive each effect; after that an action has to be compared
with its own client only. There is one lemma per action or group of actions, and `NextIInv`
puts them together.

### IpcFrames, IpcConnection, IpcProofs

| Theorem | States |
|---|---|
| `AnswersKept` | `Spec => []NoLostAnswer` |
| `EventsExact` | `Spec => []EventsAccounted` |
| `StreamsRefined` | `Spec => StreamsImplemented`, the refinement of `EventStream` |
| `InductiveInvariant` | `Spec => []IInv` |

They assume `IpcAssumption`: capacities are positive numbers and the clients' roles are
roles. Nothing bounds the clients, topics, requests, events or queues.

`IInv` says of each connection (`Good`), beside the types: ids are fresh, so that a
subscription is that of one handled request and the socket holds only newer requests
(`IdsOK`); a receiver is never ahead of its topic (`HandlersOK`, `ForwardersOK`); a frame
tells of an event that was published, or of ones that were overwritten when the notice was
made (`FramesOK`); from what the client has taken, through its queue, the socket, the mailbox
and the forwarder's hand, to the receiver's place, no event is missing and none is told
twice (`StreamsOK`); the writer lives until the client is gone (`WriterOK`); and the
request waited for is somewhere (`AnswerOK`). `EventsAccounted` alone is not inductive: it
needs fresh ids, or a new subscription would inherit frames of an old one, and a live
writer, or a forwarder that drops its frame would leave a gap. `StreamsRefined` needs
`FramesOK`: when the client takes a notice, that its events had been overwritten is known
from the frame only.

`IpcFrames` has the lemmas about `Leads` (the head taken off, a frame appended, two queues
put together) and what the server's steps do to `Good`; `IpcConnection` the same for writer,
client, hub and shutdown, and the server's actions; `IpcProofs` the other actions and the
theorems. `Good` speaks of one connection's records and queues, so that a lemma about it
never sees the variables; `ServerSide`, `ClientSide`, `BothSides` and their like say once
that a step at one connection leaves the others alone. For the refinement every action but
`NextEvent` keeps the subscriptions there are and what was taken (`Kept`), hence maps to
`Publish` or a stutter, the start of a subscription included; `NextEvent` is `Deliver` or
`Skip`.


## Known limits the model reaches

The models contain more than the runs enable. Most of these are a constant to change
or a formula to check in a copy of a cfg or MC module; the others were met while
reading the code for the model, which says so where it follows the code.

| Behaviour | Where | How to see it |
|---|---|---|
| two folders of an account that store a message of one thread at once: the second insert breaks the threads' UNIQUE constraint, and fails in every cycle | `src/sync/reconciler.rs:195` | `ReconcilerLive.cfg` with `Scenarios <- TwoFolderEnvs`, both processes and both folders: `EventuallyMirrored` |
| a worker and `account.sync_folder` of one folder around a reset: one resyncs and commits, the other wipes, and the folder stays empty with `last_seen_uid` at the top | `src/sync/reconciler.rs:116` | `NothingSkipped` without `disturbed` |
| ... or one inserts the rows of its old reply after the other's resync: stale rows under the new UIDVALIDITY | `src/sync/reconciler.rs:224` | `NoStaleRow` without `disturbed` |
| of two runs of one folder one rolls back a row that the other found stored and counted | `src/sync/reconciler.rs:229` | `NothingSkipped` without `disturbed` |
| a row moved into a synced folder hides that folder's message of the same UID; moved away and back over a renumbering it is stale; a resync deletes what was moved in | `src/db/messages.rs:435` | scenarios with "move": both properties without `disturbed` |
| a reset between two windows is recorded without a refetch | `src/sync/reconciler.rs:264` | faults "reset_mid_drain" and "expunge", `NoStaleRow` |
| a reset before the first commit is not noticed | `src/sync/reconciler.rs:112` | fault "reset_first_sync" |
| without UIDNEXT the window's top becomes `last_seen_uid` | `src/imap/client.rs:374` | fault "no_uidnext", window 2, `NothingSkipped` |
| a broken UID FETCH stream counts as complete | `src/imap/client.rs:383` | fault "stream_error", `NothingSkipped` |
| a reply to a message of the same batch may start a thread | `src/sync/reconciler.rs:195` | mail `Chain`, `Window` 3, `UidMax` 5, `RepliesJoinThreads` |
| an old message refetched after a reset fails on the threads' UNIQUE constraint | `src/sync/reconciler.rs:195` | mail `Old`, two epochs, `ResyncCompletes` |
| expunged messages stay | `src/sync/reconciler.rs` | `MirrorsExpunges` |
| a start during the join of a stop runs a second worker of the same folder | `src/sync/manager.rs:183` | `Servers <- TwoServers`, `OneRunning` |
| a cancelled worker leaves the account shown as syncing | `src/sync/worker.rs:313` | `SyncingIsTrue` |
| a start after `stop_all` has drained the map | `src/sync/manager.rs:193` | `ManagerEmptied` |
| a pending approval outlives its bridge | `src/mcp/server.rs:439` | `DroppedIsExpired` |
| a client that awaits an answer while its queue of events or of unclaimed responses is full waits for ever | `src/ipc/client.rs:110` | `EveryRequestEnds` without `[]Clogged(c)` |
| a connected client that never reads delays shutdown | `src/ipc/server.rs:386` | `IpcLive.cfg`: `server = "stopping"` leads to `"down"` |
| a refresh that began before a new consent puts the old bundle back | `src/oauth/google.rs:163` | `CredentialScenarios <- RefreshScenarios`, `NewestConsentKept` |
| a secrets write cut off in the blocking pool shares the temporary file with the next one | `src/secrets/file.rs:144` | `StoreImplemented` without `Exempt` |
| a send whose draft is being created, written or deleted between its two reads mixes versions | `src/daemon/dispatcher.rs:1804` | hazard "others": `Ready(c) => req[c].got = req[c].row.files` |
| two sends of one draft that overlap may both submit it, the second after the first deleted it | `src/daemon/dispatcher.rs:1822` | hazard "others": `Ready(c) => req[c].d \notin sent` |
| a draft whose deletion fails after the submission is reported as sent and can be sent again | `src/daemon/dispatcher.rs:1842` | hazard "sql": after a send answered "ok" the draft is gone |
| a submission accepted whose answer is lost is reported as failed, and the draft stays | `src/daemon/dispatcher.rs:1836` | read off `Submit`, which does not tell it from a refusal |
| `:compose`, `:reply` and `:forward`, and `c` after a refused `:delete`, replace an unsaved composer without asking | `src/tui/mod.rs:2044` | no hazards: a step from a dirty composer to a clean one without id |
| a composer whose draft is gone can no longer be saved | `src/daemon/dispatcher.rs:1074` | no hazards: every `draft.update` is answered "ok" |
| an opened hit is not the selected message when the folder's list does not hold it | `src/tui/app.rs:3188` | `Worlds <- MCSearchWorlds`, `HitOpened` |
| after new mail, fetching a message stores the old list as a fresh cache entry | `src/tui/app.rs:4078` | turns "mail": once `events` is empty, entries that are not `old` list all of their folder |
| a message moved is missing in the cached list of its new folder | `src/tui/mod.rs:2351` | turns "write", the same formula for the trash |
| a message moved to the folder it is in leaves the list | `src/tui/mod.rs:2368` | turns "write": while both messages are in the inbox, the inbox lists both |
| a refused archive moves the stack's focus, so that `o` shows another message than the one keys act on | `src/tui/app.rs:3391` | turns "write", three messages in the inbox: `app.detail = Selected(app)` between keys |
| opening a hit while every list call fails caches the old folder's list under the new one | `src/tui/app.rs:3194` | turns "fail" and "search", `NoGhost` |
| a decision that overtakes its request leaves a row that is not pending | `src/tui/mod.rs:602` | turns "approvals": `shown \subseteq pending` once `events` is empty |
| more than `MAX_LIVE_APPROVALS` requests push the oldest out of the list | `src/tui/app.rs:3184` | turns "approvals", `MaxLive` 1, `ApprovalsListed` |
| the approvals' selection is an index, kept while the list is sorted anew | `src/tui/app.rs:3183` | not in `ApprovalView`, whose list is a set |
| an approval's target is looked up once: a draft changed later is shown as it was | `src/tui/mod.rs` | `ApprovalsTrue` with `=` for `>=` and the draft's version of today |
| attachments of one name are told apart by content id only: the bytes refetched may be the other's | `src/daemon/dispatcher.rs` (`pick_attachment_bytes`) | `ForwardSound` without `Distinguishable` |
| a cached file cut short by a crash is taken for whole | `src/attachments.rs` | `Partial` in `ForwardSound` |
| an id stored without angle brackets is written so into References | `crates/postblox-mail/src/reply.rs` | `bare` in `Correspondence` |
| the answer to a letter of a thread that is not among the 200 most recent, or to one that joined its thread in the same run, may be filed apart | `src/sync/reconciler.rs:134` | `RepliesThreaded` with every earlier row for `Offered(p, b)` |
| a typed line that starts with "On " may be taken for a quote marker; `extract_reply` is not idempotent as `crates/postblox-mail/tests/properties.rs` has it | `crates/postblox-mail/src/reply_extract.rs` | `Correspondence` |
| the tools' schemas allow an empty search text or address, which the daemon refuses | `src/mcp/tools.rs` | `CallsTaken` without `EmptySearch` |
| a line that is not UTF-8 ends the bridge | `src/mcp/server.rs` | `Bridge`: `utf8` FALSE in `MCRequests` |
| a SQL text that begins with an empty statement passes `validate_query` (SQLite refuses it) | `src/db/sql_query.rs` | `Queries` |
| a SQL text that ends the parenthesis it is put into is not held to the row limit; `validate_query` does not look at parentheses (the connection is read-only, and the response limits hold) | `src/db/sql_query.rs:150` | `SqlBounded` without `Wrapped` |
| the help lists Shift-Tab and, in a conversation, `y`, which do nothing; over the approvals, Details shows the keys of a message | `src/tui/help.rs` | `HelpTrue` without `HelpGaps` |
| with a search open, the focus may be on a pane that is not drawn | `src/tui/render.rs` | `PaneVisible`, like `pane_visible`, does not look at the search |
| End in the help overlay scrolls past the end, and wrapped lines are counted as one | `src/tui/mod.rs`, `src/tui/render.rs` | `Display` clamps when it draws, as the code does |
| a row whose date fills the pane is one column too wide | `src/tui/render.rs` (`row_with_right_date`) | `RowsFit` without its guard `Total(u) < w` |
| prefilled, joined or loaded text and files may exceed the composer's limits, which only typing and attaching check | `src/tui/app.rs:1311` | `Editor`: the second of `MCPrefills` |
| a header longer than its row wraps, while its cursor stays at the right edge | `src/tui/render.rs:1038` | `FieldShows` in `CursorShown` without its guard |

In the `mailbox` run failures are before the effect ("fail") or after it ("late");
`NoGhost` leaves out the second and writes of other clients, which the TUI cannot see;
no world of the run has both "search" and "fail", where it does not hold (above).

## Not modelled

- Network I/O below the protocol: sockets, TLS, IMAP login and the mailbox listing
  (`account.test_login`, the folder rows it writes), SMTP's dialogue. What they can
  answer is a choice in the actions that await them.
- Byte-level formats: MIME encodings, encrypted-file bytes, JSON text, HTML to text.
  The values they carry are classes or model values; truncation, sanitising, quoting
  and marker search are modelled by what they do.
- Themes, colours, wording of messages, logging, option
  parsing, the single-instance check, the demo seed and the benchmarks: no state that
  a property could be about.
- The audit table's content (that an agent's changes are recorded is in `Bridge`).
- The rest of the database layer is single SQL statements; each is part of the action
  of the handler that issues it.
- A composition of `Drafts`, `Mailbox` and `Screen`: they share `AppState`, and each
  has the fields its properties read; together they are out of TLC's reach.
- Not proved, and checked by TLC only: liveness and whatever needs fairness; what
  recursive functions and folds compute (`Screen`, `Display`, `Commands`, `Correspondence`,
  `Queries`, the arguments in `Calls` and `Tools`, the order of answers in `Bridge`), which
  would be induction over data; and the properties of `Reconciler`, `Mailbox`,
  `ApprovalView`, of forwards and previews in `Attachments`, and `Ipc`'s `TypeOK`, which
  counts connections. Of these `NothingSkipped` and `NoStaleRow` hold for the faults of the
  run's scenarios and not for all (see the known limits), `ApprovalsListed` for no more
  approvals than the list has room for, and `NoGhost` not for a world with "search" and "fail".

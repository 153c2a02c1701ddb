# A verification project for mgmt

`mgmt` is a calendar and task manager (Rust workspace `src/crates/*`, Preact front end `src/web`)
whose vault is a tree of plain files. Several programs work on the same vault at once - the terminal
UI, the command line, a daemon, a web server, a sync - and vaults on different machines are
reconciled over HTTP. This directory holds TLA+ models of the parts where that is hard, TLC
configurations that check them on small instances, and TLAPS proofs about fifteen of them for every
instance.

Paths below are relative to `src/crates/` unless they begin with `src/`.

## 1. The system

| Part | State it keeps | Operations | Talks to |
|---|---|---|---|
| **stores** (`mgmt-store`) | one Markdown file per task, one `.ics` per event series, project files, `.trash/`, `calendars.yaml` | load all, upsert (temporary file and rename), delete, trash, restore, purge, migrate the layout | everyone, through the file system; no locks |
| **vault context** (`mgmt-service/src/context.rs`) | a cache of the vault, undo and redo stacks | put, delete, restore, undo, redo, reload, project and event edits | stores |
| **web user context** (`mgmt-web/src/state.rs`) | one vault context per user behind an async `RwLock`, a `stale` flag set by a file watcher | read, write, mark stale, open, forget | vault context, every HTTP handler |
| **native sync** (`mgmt-sync/src/http.rs`, `reconcile.rs`, `pairing.rs`, `mgmt-cli/src/pair.rs`, `mgmt-web/src/sync.rs`) | the pairings, one base snapshot per pairing, `href` and `etag` inside each file | list, plan, push, pull, delete, resolve, save the base; on the server: list, serve, conditional write and delete | stores on the client, user context and stores on the server |
| **CalDAV sync** (`mgmt-sync/src/engine.rs`, `mgmt-dav`) | `href` and `etag` inside each file | list, plan, push, pull, delete locally | stores, any CalDAV server |
| **subscriptions and feeds** (`mgmt-sync/src/ics.rs`, `mgmt-web/src/feed.rs`, `calendars.rs`) | `calendars.yaml`, read-only calendars, feed tokens | refresh, subscribe, unsubscribe, mint, revoke | stores, outside servers |
| **login** (`mgmt-web/src/auth.rs`, `db.rs`, `auth_backend.rs`, `middleware.rs`, `admin.rs`) | an SQLite store of users, tokens, invites, attempts per address, one-time-code steps; session file | log in, lock out, set up, invite, accept, mint and revoke tokens, delete a user | every HTTP request |
| **sync accounts** (`mgmt-web/src/admin.rs`, `state.rs`, `mgmt-config`) | `caldav.yaml`, a Google token per account, consents under way | save, delete, connect and its callback | Google, sync |
| **web front end** (`src/web/src`) | a cache of fetched resources in signals and `localStorage`, a change stream, a ledger of shown reminders | fetch, change optimistically, roll back, sign in and out, remind | the HTTP API |
| **focus timer** (`mgmt-service/src/status.rs`, `mgmt-cli/src/focus.rs`, `daemon.rs`) | `.state/pomodoro.json` | start, stop, toggle, skip, tick | CLI, daemon and web server, through the file |
| **daemon** (`mgmt-cli/src/daemon.rs`, `mgmt-service/src/reminders.rs`) | fired reminders, seconds since each poll | fire reminders, tick the focus timer, poll pairings, refresh subscriptions | all of the above |
| **backup** (`mgmt-backup`, `mgmt-cli/src/backup.rs`) | archives on a remote, a lock file | snapshot, verify, prune, restore by swap | data root, `rclone` |
| **chat** (`mgmt-web/src/chat`) | none between requests | a bounded loop of model calls and tools, destructive tools after confirmation | user context |
| **recurrence** (`mgmt-domain/src/expand.rs`, `occurrence.rs`) | none | expand a rule in a window, split and override a series | vault context, every view |
| **formats** (`mgmt-ical`, `mgmt-markdown`) | none | parse and write | stores, sync |
| **terminal UI** (`mgmt-tui/src/app.rs`, `mgmt-cli/src/main.rs`) | its vault context, tabs, cursors, marks, a modal, a watcher's flag | keys | vault context |
| **layout** (`mgmt-store/src/paths.rs`, `projects.rs`, `mgmt-cli/src/main.rs`) | where the vault is, markers of one-time changes | move to one vault per user, migrate projects and time zones | data root |

What is hard in it:

* **Concurrency through files.** `paths.rs:89-90` says it: "the daemon, CLI, and web server write the
  same vault concurrently". A write is atomic, a read-modify-write is not; every cache can be stale.
* **Failure in the middle.** A sync pass, a refresh, a restore, a migration are lists of requests and
  file operations; any of them can fail, the process can die, and the next one starts from what is left.
* **Ordering.** A server's file changes between the listing and the request about it; a page's fetch
  is overtaken by a change of user; a reminder moves the cursor between two keys.
* **Identity over time.** The file carries the server's `href` and `etag`; undo, the trash and a
  second pairing bring old ones back; an occurrence is known by the slot its rule once gave it.
* **Progress.** One item that always fails must not keep the others waiting for ever.

`PROJECT.json` lists each of these as a hazard at the line where it bites, with the properties that
watch it.

## 2. The modules

| Module | Contents |
|---|---|
| `Reconcile` | the planners `plan_sync3` and `plan_sync` and the base maintenance `prepare_base`, as operators |
| `NativeSync` | the native sync of tasks and of calendars: users of both sides, passes, messages, crashes |
| `CalDavSync` | `mgmt sync` over the configured CalDAV collections |
| `VaultContext` | the vault context of one process and the stores under it |
| `WebVault` | the web server's context of one user: lock, flag, watcher, handlers, other programs |
| `Access` | logins, sessions, invites, tokens over the SQLite tables |
| `Accounts` | `caldav.yaml`, Google tokens and consents under concurrent handlers |
| `Pages`, `Notifier` | a page of the front end: its cache, mutations, stream, session; its reminders |
| `Administration` | `Access`, and beside it `Accounts` and `Pages` |
| `FocusTimer`, `Daemon` | the focus session as operators; the daemon's loop with reminders, beside focus commands |
| `Reminders` | `Daemon`, and beside it `Notifier` |
| `Feeds`, `Migrations`, `Upkeep` | `calendars.yaml` and the mirrors; the one-time changes of the data root; the two side by side |
| `Vault`, `Backup` | what a data root promises; backup, prune and restore, which implement it |
| `Recurrence`, `Occurrences` | expanding a rule, and what the rule means; series with exceptions |
| `VEvent`, `EventEdits`, `Series` | the file of a series; the edits of CLI and terminal UI; all of it under edits |
| `ChatTools`, `Chat` | what each tool does to the vault; the loops that call them |
| `Tui`, `Planner`, `Screens` | the task tabs of the terminal UI under its host loop; the calendar tab; the two side by side |
| `MC...` | instances for TLC; where a module puts parts side by side, they choose one |
| `NativeSync_proofs`, `CalDavSync_proofs`, `VaultContext_proofs`, `WebVault_proofs`, `Access_proofs`, `Upkeep_proofs`, `Backup_proofs`, `Chat_proofs` | the theorems, each about the module it is named after; `Access_proofs` is about all of `Administration`, `Upkeep_proofs` about `Upkeep` and `Reminders`, `VaultContext_proofs` about `VaultContext` and `Screens` |

`Reconcile` is extended by both syncs; `MCDaemon` runs `Reminders` beside the passes of `NativeSync`
that the daemon makes. `Recurrence` is under `Occurrences`, that under
`ChatTools` and `Series`; `Series` joins the web's edits of occurrences, the other clients' edits
(`EventEdits`) and the file in between (`VEvent`). `Administration`, `Reminders`, `Upkeep` and `Screens`
put parts side by side under names of their own, for the runs and for the proofs. In their runs a
variable `part` or `focus` says which one a behaviour is about, and the others keep one fixed state:
the parts share nothing there, so nothing is lost, and a run is spared.

### The syncs

An item is a file of a collection. A *body* is what the file says, its `modified` stamp included; a
local copy adds `linked` (is `SyncMeta.href` set?) and `etag`. The server computes an ETag as the
SHA-256 of the file and the client hashes the clean body; both are represented by the body itself,
which assumes that SHA-256 does not collide and that the serializer is deterministic (`Series` checks
that an event settles). A plan is a set of operations, and `Precedes` is the order of the vector in
the code: first the local files, then the remote ones nobody links to, each in the listing's order.

| `NativeSync` | In the code |
|---|---|
| `regime` | what a behaviour runs under: tasks or a calendar, which workers, bounds, whether users act in mid-pass, undo, restore, whether passes die |
| `local`, `earlier` | the client's files; the snapshot that undo, redo or the trash holds |
| `server[p]`, `saved[p]` | the vault behind pairing `p`; its base snapshot file |
| `pass[w]` | the locals of `sync_tasks_http` or `sync_events_http` in process `w` |
| `held`, `published` | history: what each side has ever held |

One action is one request or one write of a client's file, because another process can act between
any two. A pass is
`BeginPass -> List -> (Push -> StampPushed | Fetch -> StoreFetched | Fetch -> PutWinner -> StampPushed
| DeleteLocalFile | DeleteRemoteFile)* -> SaveBase`. Any request may be lost (`LoseRequest`), any
reply to a write may be lost after the server acted (`Reply`), any error ends the loop and the base
is saved all the same (`Fail`; `http.rs:298-311`), and the process may die anywhere (`Crash`). In a
calendar the stamp after an upload writes back the master and keeps the overrides the file has by
then (`Restamped`). `Reimport` pairs again under a name with another server behind it. The server
checks the precondition against the bytes on disk under its write lock, so it is one step here;
`WebVault` looks at what programs outside that lock can do in between.

`CalDavSync` has no base and no `If-Match`, only `put_new` (`If-None-Match: *`); an error ends the
command where it stands. A `setup` names two collections, events or tasks; all task lists share one
directory; a calendar may hold bodies of the other kind (`Foreign`), which `sync_events` skips and
`sync_tasks` fails on; a server may answer a PUT without an ETag.

### VaultContext and WebVault

A store operation is a *sequence of disks* (`Upsert`, `WriteTask`, `DeleteTask`, ...), one per file
access. A mutation takes the last of them; with `FailsAt` it stops at any other one, which covers the
file operation that fails and, followed by `Open`, the process that dies there. `Record`, `Inverse`
and `Cached` are the halves of `apply`. `delete_project` goes item by item. `insync`, `past` and
`future` are history: is the cache expected to be right; the files each undo or redo goes back to,
or None where nothing is promised (`Known`).

`WebVault` has the lock (`queue`, `writer`, `readers`: tokio's, fair), the flag (`stale`), what the
watcher has yet to say (`noticed`) and `handler[p]`. A handler goes `Begin` (the flag) `-> Ask ->
Grant... -> ... -> Release`, a step each, since the flag is taken down before the lock is asked for.
Under the write guard a mutation of the context is one step; what the handlers of `sync.rs` and
`calendars.rs` do themselves is in several. `HangUp` is the client that is gone, whose handler is
dropped where it waits. `forgotten` collects the ways in which the server can miss a change for good,
`raced` the handlers between whose check and write another program wrote.

### Access, Accounts, Pages, Notifier

In `Access` a request is served in several database accesses and the others get in between; a
transaction that reads before it writes is refused at its write if anybody has committed since
(`doomed`). A secret is a number used once, a one-time code the step it is made for. `outrun`,
`overtaken`, `stray` and `respent` are history. In `Accounts` a handler loads `caldav.yaml`, changes
its copy and saves it through a temporary file named after the process, so that `fd`, what a thread's
open file is by now, is state.

`Pages` follows one resource, a user's board, on one browser: `res` is what is on the screen, in
`localStorage` and on its way; `moves` are optimistic changes; `stream` the `EventSource` with its
500 ms timer; `signed` the users that have signed in so far. A request is sent, answered and received
in three steps; the rest of what the page does between two awaits is one. `gap`, `undone` and
`strayed` record the cases of section 5: a change that nothing announces, a board that a rollback has
put back, and one that a page asked for (`out`) when it had signed out but its session had not.
`Notifier` is a page's minute tick with its cached agenda and ledger; the agenda it fetches has the items
whose times meet the next two days (`Fetched`), whatever their reminders.

### Daemon, Feeds, Migrations, Backup

`Daemon` has the loop's program counter, its cached vault, fired keys and their file, and the focus
session in the file and in every copy (`loaded`, `job`); time passes between any two steps. `Feeds` has
`calendars.yaml`, the mirrors' directories and the refresh that deletes before it writes. `Migrations`
has both roots, `made` (how far `users/admin` is, whose existence says that the move was made; every
write below it makes it too, `Makes`), how often each item's stamps were shifted, and the marker.
`Backup` has the data root as a tree or its absence, the lock file with its pid once written, commands,
the restore in two renames and the remote. `Vault` is its abstraction: the data root changes by edits of
single files and by restores that put a kept tree in place in one step; `Whole`, what can be put
together from the data root and the trees moved aside, is the refinement's `vault`.

### Recurrence to Series, Chat

A date is a number of days, an instant a number of half days. `Go` walks the periods of a rule as
`expand.rs` does, with `FastForward` and the stops; `Meant` says with sets what the rule means.
`Occurrences` shows a master, its EXDATEs and overrides, and deletes or changes "this", "following"
or "all". `VEvent` says line by line which fields a file has and what a parser makes of them.
`Chat` runs loops (`request[r]`) whose answers come from `Answers`; between two calls of a loop the
lock is free, and others act. `stayed` is what the vault held all the while since the model answered.

### Tui and Planner

`Tui` is the host loop (`pc`: reload, watcher's flag, keys), the board and the lists with marks,
counts and bulk actions, undo and trash; a bulk action writes its tasks one after the other. The
others whose writes come in between are the task commands of the CLI, which change any field.
`Planner` is the calendar tab: `shown` is the event that the last frame drawn has at the selection, and
the one it has marked there, which is none unless the agenda has the focus; `aim` is the one that was at
the selection when the modal opened. A reminder that navigates moves the selection between two keys.

## 3. The checks

Run one with `tlc -config <cfg> <module>`.

| Run | Instance | What it shows |
|---|---|---|
| `native` (`MCNativeSync`, `NativeSync.cfg`) | 1 item of a task list or calendar, bodies of stamp 0, 1 (two texts) and 2, the unstamped one unparseable; four regimes: wild (2 workers, 3 edits, in a calendar 2, a loss or crash anywhere, mid-pass edits, undo and restore), two orderly (1 worker, 5 edits between passes, 2 lost messages; or 2 pairings, 4 edits, 1 lost message) | `ServerEditsSurvive` and `BaseWasHeld` hold whatever goes wrong; `LocalEditsSurvive` in the orderly regime with one pairing, `BasesServe` in the orderly ones: with two pairings the first pass of one deletes the files the other pulled, and no others |
| `caldav` (`MCCalDavSync`, `CalDavSync.cfg`) | a calendar and a task list, two items of one or of each, an unknown account; 4 edits, 2 lost messages | `ServerFilesStand`, `NewFilesStay`; an undisturbed pass ends and delivers (`PassServes`) |
| `caldav_lists` (`CalDavSync_lists.cfg`) | two task lists, a task of each | the disagreement of section 5 |
| `vault` (`MCVaultContext`) | 1 task, 2 recurring series with 1 slot to override, 1 project, an ordinary and a mirrored calendar; 3 operations, 1 fault, restarts, undo and redo at will | `Consistent` (in step without failures, and a failure sets at most its one item apart), `UndoRestores`, `NothingDropped`, `ProjectUnassigned` |
| `web` (`WebVault`) | 2 requests at a time; 1 task, 1 event, 2 calendars; 2 requests that write or writes of others, any number of reads, 1 fault or hang-up | `DifferenceIsKnown`, `SyncEditsStand`, `RemovalKeepsKnown`; `CatchesUp` and `Answered` under fairness |
| `access` (`MCAccess`) | 2 clients, the administrator and 1 user, 3 requests or commands, 3 clock steps, lockout after 2 attempts. Or 2 handler threads, 4 requests, 2 accounts, 2 consents. Or a page with 2 users in up to 3 sessions, 2 fetches, a moved card, 2 edits or lost messages | `UsedOnce`, `LockHolds`, `NothingOutlives`; `TargetsResolve`; `PagesSound` |
| `daemon` (`MCDaemon`) | a task with two reminders, an event with alarms before and after its start, a focus session, 1 focus client; 5 instants, 2 acts, 1 fault. Or the daemon's passes over 2 items with 4 edits. Or a page's reminders over 14 minutes, two of the three of items out of the agenda's reach, with 3 edits, sign-outs or slow or failed requests | `RemindersSound`; `PhaseEnds`, `Converges` under fairness |
| `upkeep` (`MCUpkeep`) | 2 calendars, 3 requests of 2 clients, 2 rounds of the daemon, 1 fault. Or 2 commands, migrate-tz and up to 4 starts of the server on a vault of an event and a task | `TokensSafe`, `MirrorWhole`; `ServesAll`, `ShiftedOnce` |
| `backup` (`MCBackup`) | 2 commands at a time of 3, 1 restore, 2 edits, 4 commands and edits in all (`MaxActs`), 1 fault; 2 files, one of which is there to begin with | `OneBackup`, `NeverEmptied`, and `NothingLost`: `Backup` implements `Vault` |
| `series` (`MCSeries`) | 12 events with rules of every frequency and part over 16 months from a leap year, 3 files of other clients; 2 edits by web, CLI and terminal UI | `WindowAgrees`, `ScopesHold`, `FilesFaithful` |
| `chat` (`MCChat`) | 2 requests of 2 rounds, 5 kinds of turns of the model, 2 changes by others | `KeepsApproval`; `Ends` under fairness |
| `tui` (`MCTui`) | 2 tasks on 3 columns, 2 acting keys amid any number of motions and modals, 1 write of others, 1 failing write. Or 2 events that overlap and a task, 2 acting keys, an edit, reminders at any time | `NoticesEdits`, `ScreensSound`, `ChangesShown`; `EditsShown` under fairness |

**Bounds.** *Sync.* Items are independent but for their order in the plan: an item that fails holds up
those behind it, which takes two items to see (`caldav`, and `Converges` in `daemon`). What goes wrong
with the *contents* of one item needs one item, several bodies and several edits, so `native` spends
its bound there: four edits reach create, sync, change on both sides, sync; five allow one more on the
way. Two lost messages allow a lost reply and a lost retry. Two pairings
are a link and the pass that has no base for it. Two workers let every pair of passes
interleave; more add no new kind of step, and the theorems hold for any number.
*Vault.* Three fresh mutations or writes of others create a series, split or override it and delete
or re-home what came of it; undo, redo, reload and restart are free; two series are what a split takes.
*Web.* Two acts are the pairs that interfere; two processes fill the lock and its queue with a reader
between its two grants and a writer. Reads are free. The theorems hold for any number.
*Access, Accounts, Feeds.* A race takes two clients; a third request makes the state they race for.
Time has as many steps as a window and a lockout together need. *Pages.* A change of user takes two
sessions, what the first of them leaves behind for the next but one takes three; a fetch that is not
the latest does nothing but report a 401, so two are followed.
*Daemon.* Five instants hold a focus phase, a break, and the window of a reminder with its grace.
*Notifier.* Its constants are the code's minutes; fourteen let a reminder come due and be late.
*Backup.* Three runs are one whose archive counts, one that prunes and one that fails; or two, with two
edits that set the tree in an archive apart from the one it is restored over. Two files are what it
takes for a restore to bring a mixture of trees, which no edit of `Vault` excuses: there an edit counts,
and is of one file. *Series.* Two
edits are an edit of what an edit made; the calendar reaches over a leap day, months that lack days
29 to 31, and a change of year. *Chat.* Two rounds are a proposal and what follows its approval.
*Tui.* Two acting keys make an undo, or a mark and its use; motions are free. What others write
(`Theirs`) is one of two values, which take a card to another column and into or out of the project.

**Fairness.** `NativeSync`: `WF(PassStep(w))`, the daemon polls for ever and a pass it began goes on.
Users and the network owe nothing; both are bounded, so `<>[]InSync` speaks of the time after they
have stopped. `Converges` is checked without lost messages and without undo or restore; with them it
fails, see section 5. `WebVault`: a handler is run on (tokio polls a ready task, the lock wakes the
next in its queue), the watcher's thread delivers what it has, and an open page refetches after a
`changed` event, as `src/web/src/lib/stream.ts:12-38` does. No request has to arrive by itself.
`Daemon`: the loop goes on, since it sleeps for a bounded time, and the clock runs. `Chat`: the task
that runs a loop goes on, since every model call has a timeout; it does so without a client too.
`Tui`: the host loop goes on, of which a bulk action is a part, and the watcher, a thread of its own,
reports; no key has to come, and
`EditsShown` assumes that modals are left again and again. Nothing is assumed to succeed.

**Exceptions.** Where the code does not keep a promise in some case, the property names the case by a
history variable and holds outside it, rather than by a smaller model: `insync`, `forgotten`, `raced`,
`outrun`, `stray`, `lost`, `revived`, `undead`, `torn`, `cut`, `excused`, `stolen`, `pulled`, `stayed`,
`gap`, `undone`, `strayed`; `Known` does so for the files an undo leads back to. The sentence as the
code's comment has it stands next to it, and fails; section 5.

**Mutants.** Next to the definitions stand mistaken versions of some of them ("A mistake: ..."). Each
property is violated when one of them takes the place of the original: an upload without `If-Match`,
a remote deletion that wins over an edit, a cache changed before the file, a task deleted before it is in
the trash, a restore laid over what was there, an undo that stamps anew, a flag cleared after the load, a
lock that prefers readers, an invite that can be accepted twice, a lock file that is stale while its
pid is not yet written, a split that keeps its tail, an approval asked for once, and so on.

## 4. The proofs

`tlapm NativeSync_proofs.tla`, and so for the other seven. The assumptions are those named in the
modules: `NoneAssumption`, `NoBaseAssumption`, `ConstantsAssumption`, `CalDavAssumption`,
`VaultAssumption`, `WebAssumption`, `AccessAssumption`, `FeedsAssumption`, `NoneIsNoMirror`,
`LayoutAssumption`, `BackupAssumption`, `NoneIsNoTree`, `NoneIsNoLock`, `ToolsAssumption`,
`NoneIsNothing`, `ChatAssumption`; and those of the modules that put parts side by side, which assume
what their parts state as operators: `AdministrationAssumption` (`Configured` of `Accounts`,
`NullIsNothing` of `Pages`), `RemindersAssumption` (`DaemonAssumption`, `TimerAssumption`, and `InTime`
of `Notifier`) and `ScreensAssumption` (`TuiAssumption`, `Scheduled` of `Planner`). They say that bounds
are numbers, that sets meant to be apart are, that `None` is no value, and that what there is to begin
with is well-formed; `InTime` that a page's cached agenda expires, and its lost requests run out, before
a reminder is too late, as the code's constants have it. TLC evaluates them all in the runs.

| Module | Theorem | Statement |
|---|---|---|
| `NativeSync` | `TypeCorrect` | `Spec => []TypeOK` |
| | `BaseIsCommonAncestor` | `Spec => []BaseWasHeld` |
| | `ServerEditsSafe` | `Spec => ServerEditsSurvive` |
| | `LocalEditsSafe` | `Spec => LocalEditsSurvive`, with one server and, where passes are orderly, one process |
| | `BasesReliable` | `Spec => BasesServe`, likewise |
| `CalDavSync` | `CalDavTypeCorrect` | `Spec => []TypeOK` |
| | `CalDavServerFilesStand` | `Spec => ServerFilesStand` |
| | `CalDavNewFilesStay` | `Spec => NewFilesStay`, if users leave the vault alone during passes |
| | `CalDavPassServes` | `Spec => []PassServes` |
| `VaultContext` | `CacheStands` | `Spec => []Consistent` |
| | `NothingIsLost` | `Spec => NothingDropped` |
| | `DeletedUnassigned` | `Spec => ProjectUnassigned` |
| | `UndoLeadsBack` | `Spec => UndoRestores` |
| `WebVault` | `WebTypeCorrect` | `Spec => []TypeOK` |
| | `WebDifferenceKnown` | `Spec => []DifferenceIsKnown` |
| | `WebSyncEditsStand` | `Spec => SyncEditsStand` |
| | `WebRemovalKeepsKnown` | `Spec => RemovalKeepsKnown` |
| `Access` | `AccessUsedOnce` | `Spec => []UsedOnce` |
| | `AccessNothingOutlives` | `Spec => []NothingOutlives` |
| | `AccessLockHolds` | `Spec => LockHolds` |
| `Accounts` | `SyncTargetsResolve` | `Spec => []TargetsResolve` |
| `Pages` | `PagesStaySound` | `Spec => []PagesSound` |
| `Feeds` | `TokensStayRevoked` | `Spec => []TokensSafe` |
| | `MirrorsStayWhole` | `Spec => []MirrorWhole` |
| `Migrations` | `StampsShiftOnce` | `Spec => []ShiftedOnce` |
| | `ServerServesAll` | `Spec => []ServesAll` |
| `Daemon`, `Notifier` | `RemindersOnTime` | `Spec => []RemindersSound` |
| `Backup` | `TypeCorrect` | `Spec => []TypeOK` |
| | `Exclusive` | `Spec => []OneBackup` |
| | `NewestKept` | `Spec => []NeverEmptied` |
| | `Implements` | `Spec => NothingLost`: `Backup` refines `Vault` |
| `Chat` | `ApprovalKept` | `Spec => KeepsApproval` |
| `Tui` | `ScreenKeepsUp` | `Spec => []NoticesEdits` |
| `Planner` | `PlannerChangesShown` | `Spec => ChangesShown` |

*NativeSync.* `TypeOK` does not say that the body a pass is about to upload or store exists;
`BaseWasHeld` does not say what the base entries *in a pass* are; `ServerEditsSurvive` needs to know
what a listed body has to do with the client's vault. The inductive invariant is
`IInv == TypeOK /\ FilesOK /\ PassOK(w) for every w`: every body of a file is in the history of its
side, a file's etag has been published by some server and held by the client, and a saved base entry
names bytes both sides held (`FilesOK`); the same for what the pass loaded and for its base, and for
the operation at hand: a `PushUpdate` or `DeleteRemote` is planned only if the listed body is the
base's etag (or, without a base entry, the file's), and so a body the client has held; in phase `put`
the fetched body loses to the loaded one (`PassOK`). The action property follows at the two steps that
write to the server, `Put` and `DeleteRemoteFile`, which replace only the body they expected. The
argument uses the planner's guards and the server's compare-and-swap, and nothing about how many
workers there are, what was lost, which regime it is or what was imported anew.

`LocalEditsSurvive` and `BasesServe` speak of orderly regimes, without acts in mid-pass, crashes or
restores, in which only messages are lost. There `OInv` says more: a saved entry records one body for
both sides (`Agreed`), and until a pass has had its listing a file is linked just when it has an entry
(`Fits`). In a pass the same holds between the base so far and the disk, and a file that is not linked
is still to be uploaded (`FileKnown`); an operation on a local file finds it as it was loaded, and takes
it away only if the server has published that body (`OpKnown`), or has one that wins (`ReplyKnown`).
The theorems assume (`Alone`) one server, since with two a link says nothing of the other's base, and one
process, since two act on one another's files. `LocalEditsSurvive` says so itself (`OnePairing`);
`BasesServe` also says what a pass deletes when there are two pairings, and that is only model-checked.

*CalDavSync.* `IInv` ties the phase of a pass to the operations left. For `NewFilesStay`, `Homes` says
that a pass only sees items of its own store, and `NewFilesKnown` that a file never linked is loaded
as it stands (this is where `~MidPassEdits` is used) with its push still to come; `PushComesFirst`
then says that the push fails before the pull of its resource. `PassServes` is about passes nobody
disturbs (`calm`): each item nobody touched is either settled or waits for the operation that settles it
(`OnCourse`), and a series never uploaded has left nothing at the server (`NewAreUnkept`), so the
operation that is next cannot be refused.

*VaultContext.* `IInv` is the types, `HistoryOK`, and that the cache in step is what a reload would
find (`CacheIsDisk`); each mutation is a sequence of disks whose last one has the cached value and whose
others differ in the item at hand only. An undo leads back because of `Chained`: on each stack, applying
an entry to the files that the entry above it leads to gives the files its own history names
(`Leads`). A mutation appends one link and clears the other stack; undo and redo carry a link over; any
step outside the history's knowledge, by others or by a failure, leaves links to `None`, which promise
nothing. `NothingDropped` and `ProjectUnassigned` follow step by step from `IInv`.

`FailuresStay`, the other half of `Consistent`, has no precondition that a failure clears, so it does not
rest on the cache being in step: it compares what is stale after a step with what was before. Each
sequence of disks is near the one it starts from (`Near`): its members differ from it in one task or one
series (`TaskTouches`, `WriteTouches`, `SeriesTouches`), and the cached value fits the last
(`CachedTouches`). So a mutation that fails makes at most that item stale, and leaves nothing stale whose
file it had not changed yet; one that succeeds makes nothing stale (`Gentle`, mutation by mutation).
`delete_project` changes the cache first, which is why the last clause is about steps outside it.

*WebVault.* The invariant is `TypeOK /\ RequestOK /\ LockOK /\ ClearedOK /\ DifferenceIsKnown /\
CheckOK /\ MoveOK`. `LockOK` is what everything rests on: whoever is between its grant and its return
*is* the writer. `CheckOK` and `MoveOK` carry what a handler has checked - the version a sync names,
the events a removal has still to move - up to the act that relies on it; other handlers cannot
disturb it by `LockOK`, other programs only as far as `raced` records. `RequestOK` says that a request
fits its phase. `ClearedOK` says that only a `write()` still carries a cleared flag, which makes
`DifferenceIsKnown` inductive: each way to lower the flag or to consume a notice leaves somebody who
`WillLoad`, or a `forgotten` item.

*Access.* A secret can only be used once because each use leaves a mark in the row that the next use
reads (`CodesUsed`, `InvitesUsed`, `ClaimUsed`), and because what a transaction read is still so when it
writes, unless it is `doomed` (`ReadStands`). A session that outlives its password, a token that outlives
its user, or a login that passes a lock needs a request that read before the change: `ProofStands`,
`SessionsBegan`, `NoTokenLeft` and `LockKnown` say of each phase what the request still has right, or
that it is one that history records (`overtaken`, `stray`, `outrun`).

*Accounts.* `FilesInv`: a `caldav.yaml` in which every account named by a sync is there, and every
Google account that is synced has a token, is kept so by each of the handlers' changes; so it resolves
wherever it is on its way - the copy a job is about to write, the temporary file, the file installed -
unless it is one of those torn by two saves (`FilesResolve`). Who lists calendars has its token. No
handler has to know of the others, which is why the lack of a lock loses updates but never leaves a
target dangling.

*Pages.* `PageInv`: the latest fetch is of the last session (`Follows`); a stream that is lost has
missed something, one that joins has not (`StreamFits`); on a page that has heard of every change, what
is on its way to it or, without moves, what it has is what the server has (`ComesCurrent`); a
signed-out page keeps nothing and waits for nothing but what it has asked for since (`KeepsNothing`);
and `ShowsOwn` itself. The history `strayed` came out of this proof: what a page asks for after it has
signed out, while its session still lives, is kept, and the run had too few sessions to meet it. What
was on its way at the sign-out is no such case: `clearCache` has made it one of the past.

*Feeds.* `TInv`: a token belongs to one calendar and was minted (`OneEach`, `Minted`), the copies of
`calendars.yaml` that jobs hold have no token that was revoked before they were loaded (`CopiesSafe`),
and so neither has the file, except for those in `undead` (`RevokedStays`). `MInv`: outside `torn` one
process at a time writes a mirror (`Alone`), and the mirror has exactly what it has written (`Partial`).

*Migrations.* `ShiftInv`: in a root that is not `excused` at most one process shifts, the marker is not
up yet, and what that process holds is what the root has, shifted where it has written (`AloneIn`); when
nobody shifts, the marker tells whether the stamps are as they were. `MoveInv`: an item is in
`users/admin` just when its directory is no longer among those left to move, unless a move was `cut`, or
a command made the directory before it.

*Daemon.* `LoopInv`: what is about to fire is within its window, of which its key tells when it closes
(`HitsOpen`); what was delivered is marked, in memory, until that window has closed, or is `lost`
(`MarksHold`), so that pruning the marks never brings it back. No copy of the session, in the loop's
memory or in the file, has a phase that was announced, but for `revived` ones (`PhasesLeft`), and no
phase is of the future (`PhasesMade`). *Notifier.* An agenda asked for after the last edit is the
server's (`KeptIsTrue`); once the agenda of before has expired, each minute a reminder is late was paid
for by a request lost (`LateIsPaid`), of which there are too few to reach the limit. That is so for the
reminders the agenda reaches (`InReach`): an item that begins within two days of its reminder and is not
over when that comes due.

*Tui.* `ScreenInv`: unless a change is unreported or flagged, what a reload has read so far is what
those files say, and what it has still to read is there (`ReadsTrue`); and between reloads the cache
agrees with the files. This is where the order of `swap` and `load` counts: the flag goes down first, so
a change while the files are read raises it again. *Planner.* `PlanInv`: while a key may come, the frame
on the screen is of the selection as it is, marked if the agenda has the focus (`Marks`), and a form or
picker is about the event that was selected when it was opened, or a new one (`About`); a reminder
navigates only before the next frame.

*Backup.* `Inv` adds to the types that every tree a command, the restore, the remote or the tree moved
aside holds has, file by file, contents the vault once held (`FromPast`). Each step then is, seen
through `Whole`, an edit, a change of what is kept, a whole restore or a stutter: moving aside, a
crash between the renames, and a data root made anew in between are stutters, since `Whole` still puts
the same tree together; only `MoveIn` restores. An edit is told from all of them by the count of edits,
which is a variable of `Vault` too. For `OneBackup`, `LInv` says that the commands' pids
differ, that who is sure that a lock is stale saw a pid now dead (`SureIsDead`), and that the lock is its
holder's (`HolderLocked`) until one is `stolen`. For `NeverEmptied`, `PInv` says that what a prune is
about to delete is older than an archive some prune counts on (`DoomedOlder`), that the newest of those
is there (`NewestStays`), and that before the first prune all archives are (`StayUncounted`).

*Chat.* Every tool leaves a vault, and of what was held takes out at most the target of a deletion
(`OutcomeSpares`, tool by tool; a split keeps its tail's count a number because what it counts lies
before the cut). The invariant is `TypeOK /\ StayedHeld /\ TargetMissing`: what stayed is still there,
and a deletion that is dispatched unapproved, because there was nothing to describe, is of something
that has not stayed, even when others have brought it back by then.

**Only model-checked.** `ScreensSound` (types of the task tabs, cursors of lists and forms, and that a
key acts on what is marked), which rests on `SelectSeq`: the provers have no theory of it, and its
definition is recursive;
`WindowAgrees`, `FilesFaithful` and `ScopesHold`, which speak of what a recursive function computes for
every input; and the liveness properties, which are out of the prover's reach.

## 5. Where the code disagrees with what is said of it

One disagreement has a run: `caldav_lists`. `sync_tasks` plans over every task of the vault, those
of another list or pairing included (`engine.rs:89`), so each list's pass deletes the tasks of the
others, although `src/docs/sync.md:122-123` says "Add as many accounts and calendars as you like".

The following are met by the same models when a constant or a condition is changed, or when the sentence quoted,
which stands in the module under the name given, takes the place of the property the run checks.

*Sync.*
* A task deleted, synced, restored from the trash and synced is deleted again: it has its old `href`,
  no base entry and no remote file (`reconcile.rs:134`; `LocalEditsSurvive` without `Orderly`).
* A creation whose reply was lost is refused in every pass, and nothing behind it syncs
  (`http.rs:239`; lost messages, `Converges`); so does an item of the other kind in a task list.
* An edit of an item the CalDAV server already has is never uploaded (`src/README.md:73-75`).
* An edit saved between the load and the stamp of a pass is overwritten with what was loaded
  (`http.rs:347`; the same); two workers or a crash do the same by way of each other's base.
* The first pass of a second pairing deletes the linked files that its server lacks, those pulled from the
  first and edited since included, and so does a pairing imported again under its name with another server
  (`reconcile.rs:134-142`). `pairing.rs:123-126` and `src/docs/sync.md:68,111-112` promise an initial clone.
  `FirstPassSpares` says what is deleted, and what is not.
* The daemon runs no CalDAV sync, although `src/docs/sync.md:131` says so; `cmd_sync` stops at the
  first failing collection; one uid in two event collections goes back and forth.

*Vault.*
* `UndoRestoresAll` ("return the inverse snapshot (the prior state)", `context.rs:778`): undoing the
  deletion of a series with overrides brings back the master alone (`context.rs:814`).
* `ProjectUnassignedOnRetry`: `delete_project` changes the cache before the file; after a failed write
  a second try reports success and the file still names the project (`context.rs:432`).
* `NothingNewInMirrors` (`context.rs:56-57`): "this and following" can put the tail of a series in a
  mirrored calendar (`context.rs:694`), and `put_event` can move an event out of one.
* Undo after a reload writes its snapshot over what others have saved since, where
  `context.rs:559-560` says it "no longer applies"; undo pops its entry before it applies it.
* Undoing one mutation of a series can also move its file to another calendar. The file of a series is
  in one calendar while each of its cached components names one; `delete_project` writes every component
  it finds, so the file ends where the last of them says (`context.rs:443`), and an undo takes it back
  to where the first one was. The proof of `UndoRestores` met this one mutation beyond the run's bound.
* `write_series` removes the file in the old calendar before it writes the new one (`vdir.rs:94`).

*Web.*
* `CatchesUpAlways` (`state.rs:7-8`): another program writes a task, the watcher raises the flag, a
  request that writes takes it down and is refused: the server never loads the task (`state.rs:115`).
* A removal of a calendar destroys the events the cache has not seen (`calendars.rs:229`).
* A session survives a password change if its login was verified before (`auth_backend.rs:98-100`); a
  late failure or success drops a lock; a token minted while its user is deleted stays.
* `WholeFile` ("atomically", `mgmt-config/src/lib.rs:477-479`): two saves at once share a temporary
  file and tear `caldav.yaml`; concurrent saves lose updates; a callback re-creates a deleted account;
  connecting under a basic account's name wipes its secret; a token file outlives its account.
* `ShowsOnlyOwn` ("so the next user on this browser never sees the previous user's data",
  `src/web/src/lib/cache.ts:99-101`): a rollback after the sign-out puts it back on the screen.
* What a page still fetches with a session that outlives its sign-out is kept for whoever signs in
  next (`strayed`).
* `ShowsVaultAlways`: a change between the first fetch's answer and the first opening of the stream is
  announced by nothing (`stream.ts:29`). An `EventSource` refused with a status is never opened again,
  where `stream.ts:34` says it "reconnects on its own", and the poll is skipped while it is open.
* A reminder more than two days before its event is not in the agenda when it comes due, nor is an alarm of
  an event that ended more than ten minutes before it: `notify.ts:222` asks for events by their times, where
  `notify.ts:4` says that it scans "the next two days of agenda reminders".
* Signing out clears the ledger of shown reminders (`cache.ts:113`), so the last ten minutes' are shown
  again; an agenda in flight is kept after an invalidation.

*Daemon and timer.*
* An alarm at or after the start of an event shorter than the 15 minutes of grace is not caught up,
  though `reminders.rs:13-16` says so; a task reminder of `0m` never fires.
* A save of a focus session that failed is announced again in each round; a daemon's save can undo a
  stop; a resumed copy puts back a phase that was left (`revived`).
* A refresh that outlasts an unsubscription makes the mirror an ordinary calendar; a token revoked
  while another request has the file loaded comes back (`undead`).

*Layout and backup.*
* `users/admin` is made before the first rename: a crash, or a command that writes there, strands the
  rest for good, since the next start sees the move as made (`paths.rs:45`). A command that finds the
  vault at `users/admin` while only `users` is there makes it by writing (`paths.rs:95-97`).
* `.state/tz-migrated` does not move with the vault, so `migrate-tz` shifts twice although
  `main.rs:229` says re-running is "a true no-op"; a crash between items and marker does the same; an
  event in a read-only calendar stops it half-way every time.
* A backup that starts between the renames of a restore makes the data root anew, uploads an empty
  archive, and retention can then drop the good ones (`cli/src/backup.rs:129`).
* Two runs can hold the lock: one reads it before its pid is written (`cli/src/backup.rs:355`).

*Events.*
* The terminal UI's form keeps of a rule only its frequency and cuts an event to a day; nudging an
  all-day event leaves a time of day that the file drops (`app.rs:191`, `app.rs:1364`).
* Splitting a series of events without length gains an occurrence (`context.rs:873-875`); making a
  series all-day orphans its overrides; a changed whole leaves stale EXDATEs and overrides.
* `FREQ=YEARLY` with `BYMONTHDAY` and no `BYMONTH` uses DTSTART's month only, where `expand.rs:2-4`
  names RFC 5545.

*Chat and terminal UI.*
* `OnlyApproved` (`chat/mod.rs:8-9`): what is deleted and put back by others after the model answered
  is not what the approval was about; the prompt does not name the scope, and "all" is the default. An
  approval replays the exchange, its earlier creations included.
* `KeepsTimes` (`chat/tools.rs:79`): an edit of one occurrence without a time moves an occurrence that
  was moved before.
* `FollowsCard` (`app.rs:2031`): after a move the cursor may be on another card.
* In the calendar tab the selection is a place, so after a nudge or a reload the next key acts on
  another event than the last one did; it is the one on the screen, which is what `ChangesShown` asks.
* With the focus on the dates no event is marked (`app.rs:2416`, `2507`, `2647`, `2692`) and the hints name
  no key for events but `e` (`app.rs:2327`), yet H, L, J, K, d, p and space change the one at the place the
  agenda was left at (`app.rs:1656`); `app.rs:2398-2399` says that the marker shows "when keys operate on
  events rather than the date cursor".
* `submit_event` brings back an event deleted meanwhile; restoring a purged trash entry reports success.

## 6. What comes next

1. *Refinement*: the server of `NativeSync` as a register with compare-and-swap, which `WebVault`
   implements as long as nobody writes outside the lock; a focus timer moved by one hand, which
   `Daemon` implements while the file has one writer.
2. *Composition*: `Pages` over `WebVault` rather than over an atomic server.
3. *Models*: the settings blob of the front end and its stores in flight, two tabs of one browser, the
   list filters of `mgmt-domain`.

## 7. What is not modelled, and what is not proved

Text and layout: the line parsers of iCalendar and Markdown (the models keep whether a body parses,
which fields a file has and what is stamped), rendering in terminal and browser, argument and
configuration parsing, smart views and sort orders, which are predicates of one task. Outside
services: account discovery, `rclone`, Google and the model provider are what the code makes of their
answers. Of the front end, the forms and views, the settings and the timeout of a focus phase. Of the
daemon, the status bar and what a reminder's action runs.

In the models: SHA-256 does not collide; the file system keeps what it was given (`atomic_write` is a
rename, so a file is old or new); clocks give stamps that may be equal, older, newer or missing; the
watcher loses no event; a handler that has the write guard runs to its end, since it awaits nothing
any more (before that it can be dropped, which `HangUp` models). A local file that does not parse
looks like a deletion to the sync, and a base file that was torn fails every later pass: neither is
modelled, the first because a program of the user's has to write it, the second because it stops the
pass before its first step. `Tui` begins once the watcher runs; `run_tui` loads the vault before it
starts it, and what changes in between is noticed with the next event only.

Out of the prover's reach: liveness under fairness and `ENABLED`; what a recursive definition computes
for every input (induction over data). No module declares a `RECURSIVE` operator; recursion is
written as functions. These stay with TLC.

# A TLA+ model of Living Dictionaries' local-first core

Living Dictionaries is a local-first web application. Every dictionary is a
SQLite database on the server; a browser downloads a snapshot of it, works on
its own copy (wa-sqlite in OPFS, run by a leader worker), and exchanges changes
with `POST /api/dictionary/[id]/changes`. The catalogue of dictionaries, with
grants and message threads, is one more SQLite database, mirrored and edited
the same way in the browsers of admins and read by a job that publishes the
snapshots. Photos and recordings are objects in a bucket, with a ledger in the
same database and a weekly job that deletes what no row names any more. The worst things that can happen here happen between two awaits: an
edit marked saved and never sent, a deletion that comes back, a reset that takes
unsent work, two workers on one file, a snapshot that is never built again, a
recording deleted while an entry still names it, two devices that both believe they are up to date and differ.

Four models cover this, each checked on small instances and each with theorems
for every instance:

- **dictionary sync** (`DictSync`): devices and the changes endpoint;
- **tabs** (`DictTabs`): which of a person's tabs owns the local database, and
  what becomes of the calls of the others;
- **instance** (`DictInstance`): the owner's file, connection and engine, and the
  recoveries that replace them;
- **catalogue** (`Catalogue`): the shared database, the admins' mirrors of it, the
  snapshot sweep, and media with their weekly job.

Paths below are relative to `src/site/src/lib/db/` unless they start with `src/`.

## 1. Inventory

| Part | State | Operations | Talks to |
|---|---|---|---|
| **Changes endpoint**: `src/site/src/routes/api/dictionary/[id]/changes/+server.ts`, `server/dictionary-sync-helpers.ts` | canonical rows with `server_seq`, `deletes` tombstones, `server_seq_counter`, `pruned_up_to_seq` | role lookup, fast bail, 410, push (tombstones, merge, orphan recovery, natural-key dedupe), pull, probes | engines (HTTP), snapshot builder (same database), catalogue (cursor mirror) |
| **Sync engine**: `dict-client/dict-sync-engine.ts`, `sync/sync-failure-classify.ts`, `sync/rejected-rows.ts` | `synced_seq`, role, in-flight flag, probe flag, failure streak, latches, `rejected_pushes` | build request, post, apply, clear flags, break after three like failures | endpoint; the local file, through the instance's lock; callbacks to the instance |
| **Dictionary instance**: `dict-client/dict-instance.ts`, `dict-client/worker/opfs-connection.ts` | connection, engine, one-shot guards, role | exec, dict_write, sync_now, set_role, reset, auto-reset, rebuild, reopen | engine, worker, snapshot fetch |
| **Local writes**: `dict-client/dict-writes.ts`, `dict-client/dict-live-db.svelte.ts` | rows with `dirty`, local `deletes` queue | insert, update, upsert, delete, link, unlink, multi-table orchestrators | instance |
| **Schema**: `schemas/dictionary-migrations/*.sql`, `dict-syncable-tables.ts` | triggers, foreign keys, UNIQUE natural keys | delete cascade, numbering | both ends run the same migrations |
| **Leader worker and transport**: `dict-client/worker/*` | web lock, boot ladder, pending calls, leader epoch | elect, hand off, re-send, recover a boot | tabs, instance |
| **Admin sync of shared.db**: `sync/engine.svelte.ts`, `server/sync-helpers.ts`, `client/live/*` | `synced_seq`, dirty rows, `deletes` queue, `total_dirty`, breaker | edit, flush timer, round (read, post, apply), full resync, grants | admin endpoint, catalogue rows |
| **Snapshot sweep**: `server/r2-snapshot-builder.ts`, `server/reconcile-dictionaries.ts`, `server/v1-route-context.ts` | snapshot files, `snapshot_uploaded_at`, pruning mark | withdraw, list, prune, copy, upload, mark, reconcile, mirror a cursor | dictionary files, catalogue, object store, booting browsers |
| **Media**: `src/site/src/routes/api/upload`, `.../photo-upload`, `src/site/src/lib/server/photo-variants.ts`, `server/media-ledger.ts`, `server/media-sweep-child.ts`, `server/media-sweep-cron.ts` | bucket, `media_objects` (recorded, orphaned since), the job's locals, its watermark | presign, store, record, make renditions, true up, mark, unmark, delete, heal | rows of every dictionary's file, catalogue (is it deleted), object store, scheduler |
| **Message threads**: `src/site/src/routes/api/messages/*` | threads and messages of the shared database | mail in, conversation post, reply | admins' mirrors, mail service |
| **Session and storage**: `dict-session.ts`, `opfs-lru.ts`, `stale-bundle-recovery.ts`, `guarded-writes.ts` | leases, last use of files, reload counters | acquire, release, evict | instance |
| **Search index watcher**: `src/site/src/lib/search/orama-watcher.ts` | watermark over `updated_at` | scan, apply deletes | table and delete events |
| **v1 write API**: `server/v1-*.ts` | none of its own | merge and delete rows through the sync helpers | the endpoint's database |
| **History, other crons, audio and alignment jobs, log retention, chat, auth, invites, imports, UI** | own tables or none | request handlers and timers | shared.db, logs.db, R2 |

What is hard about the modelled parts:

- **A round trip is not atomic.** An engine reads dirty rows one table after the
  other, awaits the answer and only then applies it. User writes, role changes
  and reloads fall in between. The dictionary engine at least applies under an
  operation lock; the admin engine's transaction is open on the connection the
  page writes to.
- **Deliveries are lost after the server has committed.** The same push comes
  again, to a store that others have changed.
- **Three identities meet**: a row's uuid, its natural key (two devices may link
  the same tag, or grant the same role, under two uuids) and its parents (a
  cascade deletes what hangs from it, on either side, at different times).
- **The cursor decides what is ever seen again**: a change numbered at or below
  a cursor is invisible to its holder for ever, and a pruned tombstone cannot be
  pulled.
- **Failures repeat.** A round whose apply rolls back is tried again with the
  same input; three like failures halt the engine.
- **Recoveries overlap.** Resets, rebuilds and reopenings are asynchronous
  functions that nothing keeps apart, around a file handle only one may hold.
- **The owner of a database may vanish at any await**, and its successor is
  chosen by a lock, timers, probes and messages that cross.
- **One column has two meanings.** `dictionaries.updated_at` is the stamp
  last-write-wins compares and the cursor of the dictionary's content, which is
  what makes a snapshot due.
- **A job of hours reads a system that goes on.** The media job lists the bucket,
  reads each dictionary, marks and deletes in that order, in a process of its
  own; uploads, rows, deletions and restarts fall between any two statements, and
  what it deletes cannot be got back.

`PROJECT.json` lists the hazards with their lines. Those without a property say
what keeps the property away: most are places where the code does lose or keep
something it should not, and the checked instances stay clear of them so that
the rest can be checked.

## 2. Modules

| Module | Models |
|---|---|
| `DictRows` | rows, lineage, cascade, dangling rows, natural keys: what the schema does to a table of rows |
| `ChangesEndpoint` | one request as functions: `merge_dict_row` over a batch, orphan recovery, dedupe, pull, probes, expiry, fast bail |
| `DictSync` | the protocol: users, engines, the endpoint's handling of a request, faults, resets, roles, pruning |
| `ReplicaFeed` | abstract specification: a reader's copy moves from one whole state of the dictionary to a later one |
| `DictTabs` | the tabs of one dictionary: lock, boot ladder, transport |
| `DictInstance` | one worker's file, connections, engines and recoveries |
| `SharedCatalog` | the shared database: rows, numbers, tombstones, `process_sync` as functions, the grant, revoke and delete endpoints |
| `AdminSync` | the admins' browsers: edits, timer, rounds |
| `SnapshotSweep` | content cursors, pruning, published snapshots, the sweep's steps, deletion of a dictionary |
| `MessageThreads` | handlers that write messages and restamp threads |
| `MediaSweep` | uploads, renditions, the ledger, rows that name media, the weekly job |
| `Catalogue` | the five above composed, with a budget per outside event |
| `*Props` | type invariant, safety and liveness properties, refinement mapping of each system |
| `MC*` | small instances for TLC |
| `*Proofs` | theorems and proofs |

`ChangesEndpoint` extends `DictRows`, `DictSync` extends `ChangesEndpoint`;
`AdminSync`, `SnapshotSweep`, `MessageThreads` and `MediaSweep` extend
`SharedCatalog`, and `Catalogue` extends the four. `MediaSweepProofs` holds what
the media need of their own and `CatalogueProofs`, which extends it, joins it to
the rest; `AdminSyncProofs` extends that with the copies the admins hold, and
`SnapshotProofs` that with the sweep, whose input the admins write. The systems meet at named events: a row of
`DictInstance`'s file is "pushed", which `DictSync` spells out; a `Push` of
`SnapshotSweep` is the mirror of what `DictSync`'s `Serve` commits; a worker of
`DictTabs` holds what `DictInstance` opens. Composing them into one model would
multiply their states without adding an interaction the code has beyond those.

### Dictionary sync: code to model

| Code | Model |
|---|---|
| a row's content and `updated_at` | `Version`: stamp and writer |
| server rows with `server_seq` | `canon` |
| server `deletes.server_seq` | `graves` (0: none) |
| `server_seq_counter`, `pruned_up_to_seq` | `counter`, `pruned` |
| rows and `dirty` in the local file | `local[c][r]` |
| local `deletes` | `queue[c]` |
| `db_metadata.synced_seq` | `cursor[c]` |
| `rejected_pushes` | `shelf[c]` |
| `#has_editor_role`, `#probe_dirty`, `RepeatFailureTracker` | `role`, `probe`, `streak` |
| where `sync_once` stands; `request`, `response` | `phase`, `page`; `req`, `resp` |
| `verify_auth_dict_role` | `grant` |

`insert_row`/`link_junction_local` is `Insert`, `#update` is `Edit`, `#delete`
and `unlink_junction_local` are `Drop`. `#build_request` is `BeginPush`, one
`ReadPage` for every further table, and `SendPush`; a viewer's is `SendPull`.
`POST` is one of `ServeBail`, `ServeExpired`, `Serve`, `ServeFails`, in the order
of its early returns. `#apply_transaction` is `Apply` when it commits, and
`ApplyClashes` or `ApplyDangles` when a UNIQUE or a foreign key rolls it back;
`Applied` composes its stages in the code's order (deletes, upserts, prune,
flags). `set_role` is `SetRole`, `maybe_auto_reset` with `reset` is
`LearnExpired` and `Reset`, the builder's prune is `Prune`. `Lose` is a fetch
that fails before or after the server has handled it; `Reload` kills a round
anywhere and starts a fresh engine on the same file.

### Tabs: code to model

| Code | Model |
|---|---|
| `navigator.locks`, a queued request | `holder`, `waiters` |
| the `Worker` a tab references, its announced epoch | `worker[t]` |
| `attempt`, `reelect_attempt`, the two timers, a probe awaited, the failure panel | `ladder[t]` |
| `pending`, `leader_epoch`, the channel's messages not yet handled | `client[t]` |
| what a call was told | `call`, `runs` |

`start_leader_election` is `Open` and `Grant`; `spawn_leader_worker` is `Spawn`
inside `Grant` and `RetryTimer`. `handle_boot_failure` is split at its await:
`BootFails` or `WorkerCrashes` terminates the worker and starts the probe;
`ProbeTerminal`, `ProbeRetries`, `ProbeReelects` and `ProbeGivesUp` are its four
endings. The transport's two `onmessage` handlers are `Refuse`, `Run`, `Answer`
in the worker and `ReceiveResponse`, `ReceiveReady` in the tab.
`reset_dict_storage` is `Destroy` followed by `Reload`.

### Instance: code to model

| Code | Model |
|---|---|
| the OPFS file, `synced_seq`, dirty rows, `rejected_pushes` | `file` |
| `conn`/`engine`, numbered by opening | `conn`, `engine[c]` |
| the exclusive access handle | `held`; `lost` when the browser closed it |
| a running `boot`, `reset`, `rebuild`, `maybe_auto_reset`, `reopen_after_storage_lost` | `task[t]` with a program counter |
| `auto_reset_attempted`, `rebuild_attempted`, the poison permit | `spent` |
| `reopen_attempts` | `reopens` |

Every recovery goes through its own awaits: look (`AutoChecks`,
`RebuildFlushes`, `ManualFlushes`, `ManualChecks`), `Teardown`, `Probe`, `DropIn`,
`OpenSucceeds` or `OpenReplaces` or `OpenFails`, `Wire`, and one sync. A round is
`RoundStarts` up to the server's answer, then one of `RoundApplied`,
`RoundLost`, `RoundWedged`, `RoundGone`, `RoundBroken`; what runs under `op_lock`
is one step. A connection that was replaced keeps its engine, as in the code.

### Catalogue: code to model

| Code | Model |
|---|---|
| rows of `dictionaries`, `dictionary_roles`, `message_threads`, `messages` with `updated_at` and `server_seq` | `row`, `seq` |
| `deletes.server_seq`, `server_seq_counter` | `grave`, `counter` |
| an admin's file: rows, `dirty`, `deletes`, `synced_seq`, `rejected_pushes` | `file[a]` |
| `total_dirty`, flush timer, `last_error`, breaker, heal attempt, `online.current` | `engine[a]` |
| locals of `#sync_once`, the open transaction | `round[a]` |
| `last_modified_at` of a dictionary's file, tombstones pruned from it | `content`, `pruned` |
| the object store | `published` |
| locals of `run_r2_snapshot_sweep`, `reconciled_this_process` | `sweep`, `reconciled` |
| locals of the reply and delete handlers between awaits | `outbox`, `teardown` |

`#sync_once` is `ReadTable` for each table, `Ask`, `Answer` or `Refuse`, `Apply`
and `Commit`: edits fall between any two, inside the transaction too.
`process_sync` is `Merge` and `AnswerTo`. `#run`'s endings are `Succeeded`,
`Excused` and `Struck`, the last with the breaker and `#self_heal`. Offline
(`Disconnect`, `Reconnect`) `sync_if_needed` and `#run` return without a trace
(`sync/engine.svelte.ts:148`, `:176-180`): `Begin` does not happen, `Flush` puts the
timer out and starts nothing, `Reload` starts no round, and a heal attempted then is
spent.
`run_r2_snapshot_sweep` is `SweepBegins` (reconcile and the list of secure
dictionaries), `WithdrawObject`, `WithdrawMark`, `List`, `BuildBegins`, `Copy`,
`Upload`, `Mark`. `mirror_dictionary_cursor` is in `Push`, fails in
`PushUnmirrored`, and copies an old cursor in `PushInVain`. The delete endpoint is
`Remove` and `RemoveSnapshot`; a reply is `Reply`, `ReplyBumps`, then `ReplySent`
or `ReplyFails`.

### Media: code to model

| Code | Model |
|---|---|
| the bucket's objects | `stored` |
| rows of `media_objects`: recorded how long ago, `orphaned_at` | `ledger[q]`: `held`, `since`, `mark` |
| `storage_path` of live rows in the dictionaries' files | `used` |
| an upload, from the request to the row it will have | `upload[q]` |
| locals of `run_media_reconcile_once`, and where it stands | `run` |
| `media_sweep_last_reconcile` older than 6.5 days | `weekly` |
| a file `live_keys_for_dict` fails on | `unreadable` |

A recording is `Presign` (signed and recorded), then the browser's `Sent`; a
photo is `Store`, then `RecordUpload`, after which its rendition is made behind
the answer (`StoreThumb`, `RecordUpload`). `Attach` is the row's arrival, whenever
that is; `Unname` is the files' part of the delete endpoint. The job is
`RunBegins`, `ListObjects`, `TrueUp`, then `ReadLiveKeys` and `MarkOrphans` for each
dictionary, `Expire`, `DeleteObjects` (or `DeleteSome`), `DropRows`, `HealStore` and
`HealRecord` (or `HealFails`) for each rendition the listing lacks, `RunEnds`;
`RunDies` at any of them. `live_keys_for_dict` is `LiveKeys`, its failure the second
disjunct of `ReadLiveKeys`; the two brakes are that disjunct and `Braked`.

### Abstractions

Dictionary sync:

- **One sequence number per transaction.** The triggers number every row
  separately. Cursors are read from the counter only between transactions
  (`BEGIN IMMEDIATE`, a synchronous database), so a row is above or below a
  cursor exactly when its transaction is. The catalogue does the same.
- **`process_dict_changes` is one step**, because better-sqlite3 is synchronous
  and the handler does not await between reading the counter and committing. So
  is `process_sync`.
- **The local apply is one step**: it runs under the operation lock, which every
  write takes.
- **Content is a stamp and a writer.** Last-write-wins looks at nothing else.
  Clocks of devices are independent, as in the code.
- **The order of rows inside a batch is left out.** Two rows of one natural key
  cannot be in one push, since the local UNIQUE index forbids them.
- **A reset boots a current snapshot.** An older one (a snapshot lags, a cache
  serves it) is in `DictInstance`, where a viewer's download may be expired.
- **Not modelled**: the migration handshake, the caps of 200 refusals and 500
  probes, re-arming of the probe by the watchdog, the four `ON DELETE SET NULL`
  references. An expired device may reset more than once in `DictSync`;
  `DictInstance` has the guard that makes it once per worker.

Tabs: call contents, instance events and the data handed to a boot are left out;
a tab's messages arrive in the order they were posted, as a broadcast channel
delivers them. A crash that happens while a tab has more than `MaxLag` messages
to read is left out.

Instance: work is a set of rows each written once, so a push is a set of rows;
what happens to a row edited twice is `DictSync`'s subject. Migrations either
work or throw. The fallback to a database in memory is left out.

Catalogue:

- **Clocks agree and stamps are distinct.** A text is named by the stamp of the
  edit that wrote it; the mirror of a content cursor rewrites the stamp alone,
  and then stamp and text differ.
- **Branches no state reaches are left out**: natural-key adoption and orphan
  recovery in `merge_row` need a page that inserts a grant, or a parent that can
  go without its child's tombstone. No page does the first; `AbsentIsBuried`,
  which is proved, is the second.
- **Grants written in one transaction tie in their order**; the model takes the
  order in which they clash.
- **Media time is in weeks**, the job's period. `mark` counts the weeks since
  `orphaned_at` up to one past `Grace`; `since` tells whether the hour a row
  without an object is spared is surely over, surely not, or may be either. No
  run (90 minutes at most) and no upload lasts a week.
- **One rendition stands for a photo's three** (or a video's one): they are stored
  and recorded one after the other by the same code. Derivatives of recordings,
  which a job of its own makes, are left out.
- **The listing is one step**, though it comes page by page: an object stored
  meanwhile may or may not be in it, which storing it just before or after
  gives as well. So is the reading of a dictionary's media tables, which is
  synchronous in the child.
- **The ledger's SELECT, the true-up and the list of dictionaries are one step.**
  What the server records between them is in neither the listing nor the rows
  read: its `since` is "new" and the true-up leaves it alone, as in the code.
- **Rows that name media are `used`, whatever table they are in**; a partner's logo
  and the featured image are such rows. The caps per run (5000 deletions, 200 and
  40 renditions) only delay.
- **`relinked` is a history variable**: originals named since the run looked at
  their dictionary. No action reads it.
- **`missed` in `engine[a]` is a history variable**: the timer has fired offline
  since the admin's last edit or round. No action reads it.
- **Going offline stops no round**: `online.current` is only read before one starts.
  A request under way may be lost then, which takes no budget, or answered all the
  same.
- **`force_rebuild_snapshot` is left out** (`server/r2-snapshot-builder.ts:389-397`).
  Nothing calls it. It marks with the time after the upload, where the sweep
  takes care to mark with the time its build began, so `FreshMeansPublished` would
  not hold through it: content pushed during its upload would not be due.
- **Left out of the media job**: sizes, the daily rollup, the metadata probe.
- **Left out**: the read-only users table, the version handshake, invites,
  partners and attachments (same machinery), the bumps of
  `dict_db_schema_version` and `entry_count`, more than one tab per admin. How
  old a tombstone must be to be pruned is a nondeterministic choice.

## 3. Properties

### Dictionary sync (`DictSyncProps`)

- `TypeOK`: type correctness.
- `CursorInv` and `NothingBelowCursor`: whatever the server writes is numbered
  above every cursor stored, sent or in an answer. This is the repair the
  `server_seq` migration was written for.
- `NoWorkLost`: a flagged version loses its flag only because the user wrote
  again, the server accounts for it, or it was put aside in `rejected_pushes`.
- `DeletesStick`: an acknowledged tombstone has taken the row off the server.
- `NoRepeatFailure`: no round fails twice in the same way. It implies that
  neither the breaker (3) nor the foreign-key rebuild (2) becomes due.
- `RefusedWasDeleted`: the endpoint refuses a pushed row only if the row, or one
  it hangs from, was deleted, so that a tombstone comes to explain it.
- `CaughtUpAgrees`: a device with nothing to push and the server's counter as
  its cursor holds the server's rows.
- `EventualAgreement`: once users and faults stop, everyone drains and agrees.
- `ReadersInstallWholeStates`: a reader's incremental pulls implement
  `ReplicaFeed`. A fetch fixes a state of the dictionary, and what the apply
  leaves in the file is exactly that state, although the answer carries only
  differences since a cursor. The mapping takes the reader's copy as the pending
  answer would make it for what is `fetched`.

### Tabs (`DictTabsProps`)

- `OwnerHoldsLock`: an open tab's worker lives only while the tab holds the lock.
  A tab destroyed by a storage reset is excepted until it reloads: its
  outstanding probe goes on and may spawn a worker without the lock.
- `HolderIsBusy`: the holder has a worker, a probe or a retry under way; nobody
  waits behind a tab that will do nothing more.
- `OncePerLeader`: a leader runs a call at most once for each epoch it was posted
  under. A call posted under an old epoch that crosses the new leader's ready is
  run twice, which the code leaves to client-minted ids.
- `BootsAreBounded`: retries in a tab times re-elections bound its boots.
- `LeavesOnlyForALeader`, `WaiterServed`: a tab drops out of the election only
  with its failure panel, at a new leader's ready or by going away; one that
  waits is served, told, or *stranded*. A ready of a leader that has died since
  clears the re-election timer, and the tab then stays open, outside the
  election, showing nothing: the code has this state and the properties name it.
- `CallsSurviveHandOff`: if a leader serves from some point on, every call
  outstanding is answered.

### Instance (`DictInstanceProps`)

- `HandleHasOwner`: the file's handle is never left with a connection nobody
  serves or is about to serve.
- `ResetsAreBounded`: one automatic reset and one rebuild per worker.
- `WorkIsKept`: what a tab was told is saved stays on the server or in the file
  through every recovery, however they overlap. The exceptions are the code's:
  a viewer's file (its flags are not looked at); rows already in
  `rejected_pushes`, which go with the file; what was written after the reset
  looked, or was refused in its flush; and a download that lands on a file
  another recovery has made meanwhile.
- `ServiceResumes`: a recovery that tears the instance down brings it back,
  unless an opening or a download fails. Then the instance stays dead until the
  page is reloaded, which the property's exception says.

What the model also shows: the manual reset of an editor with work is always
refused, because its flush clears no flag although the comment says work stays
"until a manual reset"; a 410 met by the timer is never translated into a reset;
a lapsed viewer's unreadable file is replaced.

### Catalogue (`CatalogueProps`)

- `MissesNothingMore`: nobody's step puts a row below an admin's cursor that the
  admin's file lacks, but for a grant *forgotten* there: edited during a round,
  whose flag the clear by id took. When another grant has its role on the server
  since, the incoming one drops it from the file (`sync/engine.svelte.ts:564`).
- `AdminsAgree`: an admin at rest, level with the server, with nothing to push,
  shows the server's rows, except a row edited during a round, whose flag the
  round's clear by id took.
- `AbsentIsBuried`: a flagged row whose server row is gone has a tombstone there,
  so the push is refused and put aside and never inserts a child under nothing.
- `LaterEditWins`: a server text gives way to later texts only, unless the mirror
  of a content cursor set the row's stamp back.
- `EditsAreKept`: an admin's edit stops waiting to be sent only when the server
  has it or a later one, its row was deleted or it is on the shelf. Excepted are
  edits made during a round, whose flag, text or parent the answer takes, and
  edits made inside a transaction that is rolled back: both happen in the code.
- `HaltsOnAClash`: only two grants that clash halt an engine; a file that misses
  a parent heals by a full round, once per page. That round's own commit fails if
  it is *undercut*: a row it had read is deleted on the page before the commit,
  and the answer, which takes the row to be there, brings rows under it.
- `EditGoesUp`: in the end work an engine counts is pushed by the timer alone, or
  the person has been told that a round failed, or the timer fired offline and
  nothing was edited and no round begun since. The last exception is what the code
  does: a timer that fires offline clears itself (`sync/engine.svelte.ts:127`),
  `sync_if_needed` returns (`:148`), nothing arms it again and nothing listens for
  the network. `last_error` stays empty, so that back online the status icon shows
  a synced or an idle engine while `total_dirty` is positive, until the next edit,
  the button, a navigation, a return to the tab after five minutes or a reload. A
  failed round is not tried again by the timer either, but it sets `last_error`.
  `total_dirty` is reset at a round's end, so a row flagged during the round is no
  longer counted and is not covered; nor are rows of a page reloaded offline, which
  starts with a `total_dirty` of zero and skips its first round.
- `FreshMeansPublished`: a dictionary that is not due has its content in the
  public snapshot, unless the mirror failed or set the stamp back.
- `ExpiryHeals`: while a snapshot is older than the tombstones pruned, the
  dictionary is due for another, through failed builds and restarts, unless its
  stamp was set back.
- `SecureIsWithdrawn`, `SnapshotCatchesUp`: in the end no secure dictionary with
  a mark has a public snapshot, and every other dictionary's content is
  published. The first needs the mark: a dictionary whose mark is NULL (a stale
  admin row pushed back whole, or a process that ended between its first upload
  and the mark) keeps its public snapshot, because the sweep looks for
  `snapshot_uploaded_at IS NOT NULL`.
- `NoFalseMark`: the job starts the deletion clock for no object that a live row
  names, an original or a rendition of one, unless the row came after this run
  looked at the dictionary. A file that cannot be read, a half-done upload and a
  run that died before are no exceptions.
- `LiveMediaKept`: the job deletes no such object, with one exception more: this
  run could not read the dictionary. The comment at
  `server/media-sweep-child.ts:310` says that un-orphaning "always runs" and that
  clearing a mark "can only ever be safe", yet a dictionary that cannot be read is
  left (321) before its marks are cleared, and the deletion below (349) takes old
  marks of every dictionary. A photo marked three weeks ago and named again since
  is then deleted if its file is unreadable in the week the grace ends. Without
  the exception TLC finds that run in the `Orphaned` start.
- `MediaSettles`: in the end ledger and bucket agree; what no row names is gone,
  unless its dictionary cannot be read or stays braked until a person looks; and
  no original in use lacks its rendition. Deletions that half failed, renditions
  never recorded and runs that died are made good by later weeks.

## 4. Runs

| Run | Instance | Checks | Distinct states |
|---|---|---|---|
| `readers` | a word, a tag link under it and its relink under the same key, a ghost row under the word; editor ana edits, unlinks and relinks the tag and may delete the word, una reads from a file that predates `server_seq` | `ReadersInstallWholeStates` | 183,083 |
| `work` | a word and two ids for one link under it; ana and ben link, edit, unlink and delete the word | `TypeOK CursorInv NoRepeatFailure RefusedWasDeleted NothingBelowCursor NoWorkLost DeletesStick` | 414,068 |
| `lapsed` | word, sense, photo; ben builds under the word and may lose his role, una holds flags from a lapsed role and may get it back | `NoWorkLost` | 394,310 |
| `converge` | a word and two ids for one link under it; ana edits and may delete the word, ana and ben link the same tag and unlink it; one write per device, one fault | `CaughtUpAgrees EventualAgreement` | 181,927 |
| `tabs` | two tabs; the worker of one may fail, the other calls, closes or resets | all of `DictTabsProps` | 255,060 |
| `instance` | one file, two rows of work, sessions that combine two or three kinds of trouble | all of `DictInstanceProps` | 184,207 |
| `admin` | one dictionary, two grants, a thread and a message, two admins, the sweep, a photo with a rendition and a recording, the media job | all of `CatalogueProps` | 148,164 |

The first four use `MCDictSync` and check deadlock. `tabs` (`MCDictTabs`),
`instance` (`MCDictInstance`) and `admin` (`MCCatalogue`) do not: once their
budgets are spent and everything is at rest, these systems rightly stop.

Five further runs, on `MCDictSync`, end in a violation and show where the code
departs from what its comments and notes say:

- `lost_race`: the helper's comment promises that a row losing last-write-wins
  comes back in the pull stage; the pull filters it out as uploaded, the flag is
  cleared and the cursor passes the winner, so `CaughtUpAgrees` fails for good.
- `reedit`: flags are cleared by id, so an edit made to a pushed row while the
  push is in flight is marked clean unsent. The notes describe exactly this loss
  for rows that were not in the request and the repair for those.
- `poison`: orphan recovery skips one level. With a sense and its photo pushed
  under a deleted word the retry fails as well, every round fails alike, and the
  engine halts: `NoRepeatFailure` fails.
- `half_read`: dirty rows are read one table after the other. A word and its
  link written between two of these reads are pushed as a link without its word;
  the link is refused as an orphan although nothing was deleted
  (`server/dictionary-sync-helpers.ts:138` has an orphan's parent "deleted by
  another editor" and its tombstone on the way). The flag is cleared, the word
  goes up in the next round, and the link stays on its device for good:
  `RefusedWasDeleted` fails.
- `lapsed_reset`: `has_pending` is false for every viewer, so the automatic
  reset of an expired file discards what a contributor with a lapsed role wrote.

### Bounds

`MCDictSync`: `MaxStamp` bounds the writes of a device, `MaxFaults` the lost
messages and reloads together, `MaxPrunes` the prunings. Two writes per device
are what every race in the hazard list takes (write, write again under it); one
fault at any point covers a lost request, a lost answer after the commit, and a
crash between commit and apply; one pruning separates cursors below and above the
mark. `converge` has one stamp per device (any number of deletes), so that a row two
devices end up writing, a link and the twin it was merged into, is a tie, which the
push wins; with a second stamp TLC finds `lost_race` again. Two clients suffice where
the property relates one device to the server: the other stands for everybody else.
A situation that needs a third device that stays behind is listed as a hazard and not
claimed. There are no symmetry sets: devices and rows have different parts to play.

`Racing` says which writes may land during a round trip. The `readers` run
lets every kind of write land while a request is in flight. `work`, `lapsed` and `converge` leave out edits in
flight (shown by `reedit`) and deletes while the request is being read (the push
then carries the row and its tombstone, and the server deletes and re-inserts
it). In `readers` the word that the tags hang from is only ever deleted: the
server withholds the tombstone of a row that exists again, and readers of a
resurrected parent keep the rows its first deletion swept.

`MCDictTabs`: one retry, one re-election, one call, one departure, four failed
boots (the full ladder of the flaky tab), one crash of a serving worker with at
most one message unread. A hand-off needs one tab that fails and one that waits;
giving each trouble to one of them keeps every crossing of messages while the
state space stays finite in a minute.

`MCDictInstance`: at most three connections, so that a replaced connection, its
successor and one that overlaps both exist; one reopening. `Sessions` pairs the
causes (a lost handle with a reset, a missing parent with refused rows, an
expired cursor with a restart, ...), each event once (two losses in one session),
because an interaction takes two recoveries.

`MCCatalogue`: `Starts` are fourteen situations, each with a budget for every outside
event (edits, grants, mail, content pushes, store failures, losses, a network gone,
restarts).
Every pair of writers of one row that the code has is in one of them: two admins
(`Edits`), admins and grants (`Grants`, `Revoked`), admins and threads
(`Threads`, `Replies`), a damaged file (`Wedged`), deletion under an editing admin
(`TornDown`), content and sweep (`Swept`), deletion under the sweep (`Emptied`).
In `Unplugged` the network goes while a dictionary is edited, so that the timer may
fire before, between and after; in `Wedged` it may go under the heal.
The last four are about media: a recording uploaded under the job, its row late,
its dictionary perhaps deleted (`Uploaded`); a photo that loses its row and gets it
back while the file cannot be read (`Orphaned`); failures of store and job while a
photo is reclaimed (`Reclaimed`); the brake, by how many of three objects lose
their rows at once (`Brakes`). Starts without media have no bucket configured, as
a server may, which keeps the two halves from multiplying each other: they share
the dictionary's row and its deletion, and `TornDown`, `Emptied`, `Uploaded` and
`Brakes` have that. `Grace` is 2 weeks for the code's 30 days: one whole week
between mark and deletion is what an unmarking needs; more weeks repeat it.
`BrakeMin` is 3 for the code's 20, with the code's half as the share.
`HaltAt` is the code's 3. Failures of the object store are finite: budgets `r2` and
`media`.

### Fairness

- `DictSync` (`FairSpec`): weak fairness of each engine's steps and of the server's
  handling of a request. The engine's timer starts a round every 30 s and a round
  is a sequence of awaits that return; a request that is not lost is answered.
- `DictTabs`: the browser grants a free lock, timers fire, probes end (they have a
  timeout), a worker boots unless it fails (a watchdog fails it otherwise),
  messages are delivered, a destroyed tab reloads.
- `DictInstance`: recoveries, which are sequences of awaits that return, go on;
  an engine's timer ticks, so that a round under way, or the next one on a
  connection that is gone, ends.
- `Catalogue`: for each admin the flush timer fires and a round goes on; the
  sweep's job is run again by the scheduler and goes on. Weeks pass, the media job
  is started in each and its statements end; a request for an upload that is under
  way ends, well or badly. Which of a store's endings happens is not fair.

No user write, call, fault, failure, reload, role change, button or pruning is
fair anywhere, and a browser that is offline may stay so.

## 5. Proofs

| Module | Theorem | States |
|---|---|---|
| `DictSyncProofs` | `TypeCorrect` | `Spec => []TypeOK` |
| | `CursorsBelowCounter` | `Spec => []CursorInv` |
| | `ChangesAboveCursors` | `Spec => NothingBelowCursor` |
| | `DeletionsStick` | `QuietReads => (Spec => DeletesStick)` |
| | `WorkIsNeverLost` | `Undisturbed => (Spec => NoWorkLost)` |
| `DictFeedProofs` | `ReadersSeeWholeStates` | `RootsRest => (Spec => ReadersInstallWholeStates)`: the implementation of `ReplicaFeed` |
| | `LevelReadersAgree` | `RootsRest => (Spec => []ReadersAgree)`: what `CaughtUpAgrees` says, of readers |
| | `AuthorsFollow` | `Apart => (Spec => [](WorkInv /\ FilesWhole /\ AuthorsInv))` |
| | `CaughtUpDevicesAgree` | `Apart /\ Alone => (Spec => []CaughtUpAgrees)` |
| | `NoRoundFails` | `Apart /\ StillRoots => (Spec => []NoRepeatFailure)` |
| | `RefusalsAreExplained` | `Apart => (Spec => []RefusedWasDeleted)` |
| `DictTabsProofs` | `Election` | the inductive invariant of the tabs |
| | `TypeCorrect`, `OneOwner`, `LockIsUsed`, `BoundedBoots`, `NoSilentExit` | `TypeOK`, `OwnerHoldsLock`, `HolderIsBusy`, `BootsAreBounded`, `LeavesOnlyForALeader` |
| | `CallsPosted` | the inductive invariant of the transport |
| | `RunsOnce` | `OncePerLeader` |
| `DictInstanceProofs` | `Instance` | the inductive invariant of the instance |
| | `InstanceTypes`, `NoHandleLeaks`, `OneResetPerCause`, `SavedWorkSurvives` | `TypeOK`, `HandleHasOwner`, `ResetsAreBounded`, `WorkIsKept` |
| `CatalogueProofs` | `CopiesAreSound` | the inductive invariant of the catalogue |
| | `TypeCorrect`, `NoEditRevives`, `TextsOnlyGetLater` | `TypeOK`, `AbsentIsBuried`, `LaterEditWins` |
| | `NoMarkIsFalse`, `LiveMediaSurvive` | `NoFalseMark`, `LiveMediaKept` |
| `AdminSyncProofs` | `CopiesHold` | the inductive invariant of the admins' copies |
| | `LevelCopiesAgree`, `NobodyMissesMore`, `EditsAccountedFor`, `OnlyAClashHalts` | `AdminsAgree`, `MissesNothingMore`, `EditsAreKept`, `HaltsOnAClash` |
| `SnapshotProofs` | `SnapshotsHold` | the inductive invariant of the sweep |
| | `NotDueIsPublished`, `PrunedIsDue` | `FreshMeansPublished`, `ExpiryHeals` |

They hold for every set of devices, rows, tabs, admins, every session or start
and every bound that satisfy the named assumptions: `SchemaAssumption` (foreign
keys lead to the same or an earlier table, one table is the last, the rows of a
natural key share table and parents), `NilAssumption`, `CellAssumption` (what a table holds for a row is
never what it holds for an absent one), `EnvironmentAssumption` (among others, a
dictionary starts with the parents of its rows and with one row per natural key,
as its UNIQUE indexes have it), `TabsAssumption`,
`InstanceAssumption`, `CatalogAssumption`, `AdminAssumption`,
`MediaAssumption`, `CatalogueAssumption`, all evaluated by TLC in the runs.
Two of them say more than a type. `HaltAt` exceeds two, as the code's three does
(`sync/sync-failure-classify.ts:139`): an engine that halted at its second
failure would halt before it heals. The grants a start gives live on different
dictionaries, because all are a manager's and the schema's key
`(dictionary_id, user_id, role)` forbids two.

**Dictionary sync.** `TypeOK` is inductive; lemmas give the types of what the
endpoint computes (`MergeType`, `PushType`, `AnswerType`) and of what the engine
applies (`AppliedType`), and one lemma per group of actions carries the step.
`NothingBelowCursor` follows from `CursorInv`: a transaction that writes numbers
its rows and tombstones `counter + 1` (`ServeNumbers`), and no cursor is above
`counter`. `CursorInv` is inductive relative to `TypeOK`. It must speak of the
cursors in requests and answers as well as of those in files, because an answer
becomes a file's cursor later, and of the pruning mark, and needs that the
counter moves whenever the push writes (`Writes`), tombstones alone included.

`DeletesStick` rests on `DeletesInv`: what a request carries is still on its
device, or a tombstone queued since lies above it. Its hypothesis `QuietReads` says
that no row is deleted while its device reads the tables; the code does not
exclude that, and a push then carries the row with its tombstone (a hazard
listed). That a cascade leaves a tombstone above every row it takes needs
`Lineage`, a recursive function: `LineageIs` shows that its equation has a
solution, the rows in every parent-closed set around a row (`Above`), so that
`Lineage` is one. Nothing else about it is used.

`NoWorkLost` speaks of the moment a flag drops; what justifies it was decided a
round trip earlier. `WorkInv` follows a version from the read to the answer. A
request carries every flagged row as it is; a flagged row it leaves out is on a
page still to be read, or has never left the device (`Fresh`: nobody else, and no
answer, has heard of its id), so that only a deletion above it can touch it. An
answer says of each row pushed that it was rejected, or the server has that version
or a later one or saw its lineage deleted (`Done`), and what is done stays done
(`ServeLasts`). Two facts carry most of the weight: a file respects the natural
keys, so that two rows of one batch are never merged onto one another (`OneTarget`),
and a row the server lacks is merged only under its own id (`OwnTarget`), so that
nothing unheard of comes back. The hypothesis `Undisturbed` is the setting of run
`work`, for any instance: edits between round trips only (the finding of `reedit`),
no deletion of a row while it is read (`QuietReads`), nobody loses a role (the
finding of `lapsed_reset`), no pruning, and writers that start from a snapshot.
Inserts at any moment, deletions once the request is read, lost messages, reloads,
promotions and any number of writers of one row are in.

`ReadersSeeWholeStates` needs, at each moment, how a reader's copy may differ from
the store: only by changes numbered after its cursor (`Tracks`), a missing row by
a tombstone above it, numbered after the cursor too or pruned (`Missed`). The same
is said of the copy an answer will make (`Coming`), under the cursor it brings, so
that applying it is no longer a step of reasoning. `CanonWhole` (the store
respects its foreign keys) is what keeps an upsert from dangling, and `RootsInv`
that no device pushes a parent that was deleted. `LevelReadersAgree` reads the
same invariant where the cursor is the counter: nothing is numbered after it. The
hypothesis `RootsRest` is what makes the theorem true: a row that others hang from
is written or deleted, not both, and hangs from nothing itself, and no writer
starts with flags of a lapsed role. The first is the hazard of a resurrected
parent, whose tombstone is withheld; the second keeps lineages to two levels (with
three, `poison` shows what happens).

Devices that write follow the store too, and `AuthorsInv` says how: `Follows`
is `Tracks` with three allowances, rows still flagged, rows under a tombstone that
is still queued, and, where two devices write a row, the content the loser keeps.
Again it is said of the copy at hand and of the copy the answer in flight will
make, and the difficulty is in the second: the user goes on writing while the
answer travels, and what the answer will then do to each row has to be compared with
what it would have done before (`AppliedIs` brings the three stages of `Applied` to
one rule per row; `AgreesWrite`, `AgreesDrop`, `AgreesServer` are the cases). Three
more parts carry it. `RoundOK`: the request starts from the file's cursor, and its
rows are on the device or were withdrawn since. `StampOK`: no stamp runs ahead of
its device's clock, so that a row with one writer never loses last-write-wins.
`ParentsOK`: a parent somebody writes is at the server before what hangs from it, or
travels along, so that no row is refused for a parent that is merely late.

The hypotheses are the findings, said as conditions. `Apart` adds to `Undisturbed`
and `RootsRest` that no two rows share a natural key (a losing twin changes its id;
run `converge` checks that case) and that no parent is created while dirty rows are
read (`half_read`). `Alone`, one writer per row, is needed for `CaughtUpAgrees`
only (`lost_race`). `StillRoots`, no parent deleted while a round is on its way, is
needed for `NoRepeatFailure` only: each such deletion can make one apply dangle,
and two of them two in a row. Under it `SmoothInv` says that no round fails at all:
the answer in flight leaves the copy it will make whole, which `ServeWhole`
proves where it is served and `WholeKeeps` for every write until it is applied.

The hypotheses hold together, and leave something to happen: take a word and, under
it, a link and a sense, none of them in the seed; ana writes word and link, ben,
promoted from viewer, writes the sense; each may edit what it wrote except the link
and delete what the other hung under the word; inserts and deletions land while
requests and answers travel; two stamps, one fault. All of `Apart`, `Alone` and
`StillRoots` are true there, and TLC agreed with `AuthorsInv` in its 531,977 states
before it was proved. `lost_race` satisfies `Apart` and `StillRoots`, and shows what
happens without `Alone`.

`RefusalsAreExplained` rests on `RefusedInv`: a parent that is missing at the server
was there at the start, and then has a tombstone (`SeedKept`), or is somebody's to
write, and then `ParentsOK` has it arrive first. That there is no third kind is
`NativeOK`: no writer ever holds, asks for or is sent a row that was neither in the
seed nor written by anyone, and what it pushes hangs from no other.

**Tabs.** `OwnerHoldsLock` alone is not inductive: a retry timer or a probe spawns
a worker later, so `ElectionInv` says who may have one outstanding. It relates
lock, queue, worker, probe and the two timers of a tab (nobody is queued twice or
while holding; a retry belongs to the holder), and the counters of the ladder to
the number of boots, which gives the bound by induction on the ladder's steps.

`OncePerLeader` is about what a worker has run; a copy of a call still in its inbox
is a run to come. `PostInv` therefore counts both, for each live worker, against the
epochs the call was posted under (`CallInv`), so that `Run` moves one from inbox to
runs and the sum stands. A post puts a copy in every live worker's inbox, whichever
leader it is meant for: it keeps the count only if its epoch is new to the call.
For a call just made that is plain. For calls posted again it rests on what a tab
can still hear (`ClientInv`): pings make a leader announce itself many times, and
`Resent` compares only with the latest epoch, so a ready of the previous leader
after one of the next would post a call a second time under one epoch. It never
comes: the readies of one leader stand together in an inbox (`Orderly`), because
one worker serves at a time and a new one is unheard of before its boot (`Leads`,
`Unheard`), and this holds as the file handle and the channel's order give it, with
no appeal to who holds the lock.

**Instance.** `IInv` numbers connections (each is wired by the recovery that opened
it, or not at all), says which connection may hold the handle at each program
counter, counts permits, and records what a recovery's check vouched for: work
that was present when it looked is on the server or was refused.
`SavedWorkSurvives` then needs only the two steps that destroy a file.

**Catalogue.** `AbsentIsBuried` speaks of flags now; an answer, a request or an
undo copy can bring a version back later. `IInv` says of every version kept
anywhere (file, request, answer, undo) that its row is one the server has had,
and, unless a message, still has or has a tombstone for; that the tombstones
queued are sound as well; and that a flagged version is as its edit left it, its
stamp its text's name. The last gives `LaterEditWins` at `Merge`: what wins by
stamp is later by text, unless the server's stamp was set back.

**Admins' copies.** `AdminsAgree` speaks of an admin at rest; what it needs is a
fact about every file at every moment (`CopyInv`). A clean row in a file is the
server's or carries a later text (edited during a round), as far as its cursor has
heard (`Level`); if the server's row is gone, a tombstone of the row or of its
parent is still above the cursor, or was passed over for a flagged parent whose
push will be refused (`Agrees`). An answer under way needs the same for the cursor
it brings: it accounts for every row the server had (`AnswerOK`), and what has
happened since has a higher number or a tombstone that does (`AnswerNow`). Inside
the transaction `ApplyingOK` speaks of the file as the commit would leave it, flags
cleared and ghosts pruned, so that `Commit` is an unfolding, and of the undo copy
as of a file, so that a rollback is one too. Each part is a predicate of a server,
a file and a round: a server's step (`Moved`) is then a fact about two servers and
any file, and an edit about two files. `EditsAreKept` follows at the three steps
that clear flags; `HaltsOnAClash` from `HealedOK` (the second foreign-key failure
has spent the page's attempt) and from what a failed commit of a full round says
about the row missing.

Two properties were false as first stated, which the instances did not show: the
forgotten grant of `MissesNothingMore` takes an edit in a round and two grants of
one role, the undercut of `HaltsOnAClash` a deletion inside the one healing round.
Both came out of a step of the proof that would not go through, and both are what
the code does.

**Snapshots.** `FreshMeansPublished` reads marks, and an admin's push writes them,
since it sends a row whole. `SnapInv` therefore starts from the browsers: no mark
in a file, a request, an answer or an undo copy is of the future, and a flagged
dictionary's is older than its edit (`OldMarks`), so that a push brings no mark
that hides what it changes. Then, statement by statement of a build: what is copied
is the content, or the content is later than the moment the build began
(`Copied`), which is the mark it will set; the same of what is uploaded
(`Uploaded`); and a dictionary that the run listed as secure and finds public was
edited since it was marked (`Withdrawn`). `ExpiryHeals` needs no more than that
pruned tombstones are never newer than the content. It was first stated with the
build under way as an exception; the proof does not need it, and the property no
longer has it.

**Media.** Whether a deletion is right is decided steps before it happens, so
`LiveMediaKept` needs an invariant that follows the job through its run.
`MediaInv` (`MediaSweepProofs`) says, besides types and the shape of the job's
locals, that an object a live row names, in a dictionary the run has looked at
and not skipped, has no mark, and is in no batch to be deleted, unless its row came
after the look (`NeededIsClear`), and that the keys read of the dictionary at hand
are those its rows still name, relinked ones apart. `Housed` adds that rows of a
deleted dictionary name nothing. One lemma per group of the job's steps keeps it
(`BeginningKeeps`, `TrueUpKeeps`, `LookKeeps`, `MarkKeeps`, `EndingKeeps`),
`UploadsKeep` and `AttachKeeps` the others; `WholeInv` joins it to `IInv`, because
`Housed` rests on the catalogue's delete endpoint.

**Only model-checked.** Every liveness property (`EventualAgreement`,
`WaiterServed`, `CallsSurviveHandOff`, `ServiceResumes`, `EditGoesUp`,
`SecureIsWithdrawn`, `SnapshotCatchesUp`, `MediaSettles`), which is out of the
prover's reach. Every invariant and action property of the runs is stated by a
theorem, four of them in a smaller setting than some run has: `converge` checks
`CaughtUpAgrees` with two rows of one natural key and a parent that is edited and
deleted, `work` checks `NoRepeatFailure` and `RefusedWasDeleted` with both
kinds of trouble and parents deleted in flight, and `lapsed` checks `NoWorkLost` with
lapsed and revoked roles and lineages of three.

## 6. Plan

1. Proofs: `CaughtUpAgrees` with twins, which needs an account of the id a loser
   will adopt; `NoWorkLost` with lapsed and revoked roles.
2. The v1 write API as one more writer of `DictSync`'s store.
3. Multi-row local writes (`insert_entry_local`) as one transaction over several
   tables, read by a request table by table.
4. `SearchIndex`: one watermark shared by the scans of twenty tables, each an
   await of its own. A row stamped at or below the maximum is never indexed, and
   pulled rows carry the stamps of other devices although
   `src/site/src/lib/search/orama-watcher.ts:9-12` has one path cover local edits
   and remote pulls; pending deletes are taken before the batch is applied and
   lost when it throws; a reload of the index overlaps the old watcher.
5. The derivatives of recordings, made by a job that overlaps the media job and
   writes the same ledger; the scheduler's overlap guard for the other jobs.

### Not modelled

- **Session and storage**: leases and eviction by least use; reload counters live
  in `sessionStorage`. Small sequential functions that tests reach.
- **Change history**: best effort after the commit; nothing depends on it.
- **Chat, auth, invites, notifications**: handlers over single rows.
- **User interface, imports, translation, alignment, the making of renditions, log
  analytics**: presentation, offline scripts, reports and model inference. They
  are most of the repository's lines and keep no protocol state that a model
  would say more about than a test.

## 7. Running

```
tlc -workers 2 -config work.cfg MCDictSync.tla
tlc -workers 2 -config tabs.cfg MCDictTabs.tla
tlc -workers 2 -config instance.cfg MCDictInstance.tla
tlc -workers 2 -config admin.cfg MCCatalogue.tla
tlapm DictSyncProofs.tla
tlapm DictFeedProofs.tla
tlapm DictTabsProofs.tla
tlapm DictInstanceProofs.tla
tlapm MediaSweepProofs.tla
tlapm CatalogueProofs.tla
tlapm AdminSyncProofs.tla
tlapm SnapshotProofs.tla
```

# Formal models of Roostr

Roostr (`src/gpui`) is a local-first application: every device keeps a full
replica of its user's objects, writes to it at once, and exchanges signed and
sealed changes with other devices through Nostr relays that it does not trust
to be up, to be ordered or to answer. What can go wrong in such a program goes
wrong between tasks: a write that nobody publishes, an event that nobody asks
for again, a stroke typed while a page is read back, a stale state shown for
good. The TLA+ modules here model those parts of the code, TLC checks them on
small instances, and TLAPS proves what matters most of the outbox, the history,
record mode, the relay client, the editor and the view of the vault for every value
of the constants.

Paths below are relative to `src/gpui/crates/`; `sync/x.rs` stands for
`roostr-replica/src/sync/x.rs`.

Contents: 1 the system, 2 the modules, 3 the outbox, 4 the history, 5 record
mode, 6 the relay client, 7 the editor, 8 the view of the vault, 9 the runs,
10 what does not hold, 11 the proofs, 12 what is not modelled, 13 the plan,
14 how to run.

## 1. The system

### Components

| component | code | state it keeps | operations |
|---|---|---|---|
| Replica backend | `roostr-replica/src/backend.rs` | the session (identity, sync instance), `mutation_lock`, `refresh_lock`, `logging_out` | login, `restart_sync`, commits, `refresh_shared`, vanish, `logout` |
| Vault view | `roostr-replica/src/backend.rs` | replayed states, what is dirty or waits to be prepared, the vanished objects, what the engine's query cache is owed | `ensure`, `rebuild_states`, `prepare`, `enforce_vanished`, `push_query`, `load_corpus` |
| Durable outbox | `sync/outbox.rs` | pending rows in the store (`PendingPub`), the engine's queue, `queue_running` | `publish`, `offer_to_outbox`, the queue task, `publish_once`, `release_space_pending`, `settle_published_pending` |
| Sync lifecycle | `sync/mod.rs` | `SESSION_OWNER`, `stopped`, `history_walked`, `bootstrapped`, `live_since` | `new`, `start`, `stop`, `ensure_session`, `catch_up`, `resume`, `set_shared_spaces` |
| History passes | `sync/history.rs` | `backfill_lock`, pass generation, bootstrap floor, swept floors | `backfill`, `walk_history`, `walk`, `reconcile_stream`, `sweep_unbased` |
| Ingest and faults | `sync/ingest.rs` | cursor, fault floor, `history_complete`, replay groups | `import_batch`, `record_replay_fault`, `persist_cursor`, `resolve_orphans` |
| Live events, watchdog | `sync/live.rs`, `roostr-nostr/src/relay/live.rs` | subscriptions, inbox, `live_seen` | `subscribe_live`, `live_worker`, the watchdog, reconnection |
| Change store | `roostr-replica-store` (`lib.rs`, `sqlite.rs`, `idb.rs`) | changes, bases, pending rows, own marks, cursors, states | one transaction per trait method |
| Shared spaces and keys | `sync/spaces.rs`, `sync/invite.rs`, `roostr-replica/src/keyring.rs`, `roostr-nostr/src/spacekeys.rs` | keyring, epochs, seen gift wraps, invitations, left spaces | invite, join, leave, keyring backup and restore |
| Record mode | `roostr-replica/src/records.rs`, `roostr-engine/src/record.rs` | records, journal, packs, stream cursors, vanish ledger, clock | `commit_local`, `publish_journal`, `sync_stream`, live loop, `merge_pack`, `vanish` |
| Lite sessions | `sync/lite.rs`, `roostr-core/src/lite.rs` | what a lite device follows, its cursor | follow, fetch on demand |
| Relay client | `roostr-nostr/src/relay/{mod,live,native}.rs` | sockets, open subscriptions, pending OKs | `publish`, `query`, `subscribe`, `reconcile`, disconnect |
| NIP-77 | `roostr-nostr/src/negentropy.rs` | ranges and fingerprints of one session | initiate, reconcile |
| Nostr primitives | `roostr-nostr/src/{event,nip44,nip59,keys}.rs` | none | sign, verify, seal, wrap |
| Engine bindings | `roostr-engine/src` | handles to the external Odin engine: DAG, queue, states | replay, queue, seal |
| Application state | `roostr-core/src` | tabs, navigation, view models over the backend | navigation, creation |
| Editor | `roostr-editor/src` | the page, what is typed and not saved, the write lane, undo and redo | keys, paste, drag, `flush_save`, re-reads, `undo_redo` |
| User interface | `roostr-{sets,discussion,graph,properties,settings,shell,app,site}` | widgets | rendering and input |
| Entry points | `roostr`, `roostr-web`, `roostr-ios` | none of their own | start-up |

`gpui/vendor` is third-party, `static/` holds assets; the engine (Odin) lives in
another repository and is modelled only as the code here uses it.

### How they interact

- A commit takes `mutation_lock`, replays the change in the engine, stores the
  change with its pending row in ONE store transaction (`add_local_change`,
  `backend.rs:2718`), then calls the sync instance's `publish`, which *offers*
  the obligation to the engine's queue and spawns a queue task when none runs.
- The queue task takes items off the engine's queue and runs `publish_once` on
  each: read the row, seal and sign if the row has no events, save the events,
  send them, mark the obligation published.
- `start()` opens the engine session (one per process, owned by one instance:
  `SESSION_OWNER`), re-offers the stored personal rows, subscribes, runs the
  first history pass, and only then releases the space rows.
- A history pass holds `backfill_lock` and runs one task per relay. Each batch
  goes through `import_batch`, which writes the store and the engine and ends by
  persisting the cursor under `cursor_lock`. The live worker imports beside it.
- A failed import records a *fault*: a floor below which the cursor must not be
  persisted and which makes the history incomplete; the watchdog then asks for
  another pass.
- `restart_sync` (the relay list was edited) stops the instance *without*
  awaiting its tasks and starts a new one on the same store. `logout` refuses
  while a commit or a sweep runs or a row is pending, then clears the store.
- Record mode is the default: `start()` then runs one task per stream of
  `records.rs` and no sync instance. A commit changes the record and the journal
  in one store transaction; the journal is published in the background. Change
  mode is the one with the outbox and the history passes.
- Both modes speak to relays through the relay client, whose requests share one
  socket per relay.
- A commit or an import marks objects dirty; a read calls `ensure`, which replays
  what is dirty and leaves a long backlog to a background driver; a query first
  pushes the changed states into the engine's cache.
- The editor holds its own copy of the page, sends writes through one lane, and
  reads the page back when somebody committed.

All of this is `async` Rust over mutexes and store transactions (the relay client
adds a thread per socket, under one lock). The interleavings that matter are those
at `.await` and at an unlock, so each of them that another task can get between is
a step boundary in the models, and everything between two of them is one step.

### What is hard, and what makes each component correct

`PROJECT.json` lists the hazards one by one at their lines, with the properties
that cover them. By component:

- *Outbox.* Offers race the end of a drain; a lost OK leaves the obligation, and
  the retry must resend the same bytes; a crash may fall between signing, saving,
  sending and marking; an old instance's tasks work on the rows of the new one.
  Correct when: a stored change keeps an obligation until a relay holds it
  (`ObligationStored`), nothing is marked ahead of the relays
  (`PublishedIsHeld`), one task per instance drains (`OneQueueTask`), no offer
  is left behind (`NoStrandedOffer`), no obligation is signed twice
  (`OneEventPerObligation`), every row drains (`Drains`).
- *Logout.* Checks and clears are separated by awaits. Correct when no write is
  erased unpublished (`LogoutKeepsWrites`).
- *History.* A fault arrives while a pass is judged; two relay tasks share the
  ids they have seen; a crash resumes a walk at a floor all relays share.
  Correct when a pass judged complete really covered what the relays held
  (`CompletePassHolds`), a bootstrapped device holds the whole first history
  (`FullWalkHolds`), and bootstrap comes in the end (`Bootstraps`).
- *Faults.* Recorded in memory and on disk by different steps. Correct when
  history is never complete over a missing event (`FaultsKept`) and a restart
  asks for it again (`FaultPersisted`).
- *Record mode.* Patches arrive by pack, page and subscription, in any order and
  twice; stamps tie; a crash falls between sending and forgetting. Correct when a
  device holds what its cursor passed (`CursorCovers`), devices at the head agree
  (`Converged`), its clock is past all it shows (`ClockCovers`), no write leaves
  the journal before the stream has it (`WritesKept`), a vanished object stays
  gone (`VanishReaches`), the journal drains (`Drains`), a device gets live
  (`GoesLive`), and what is shown is the last writer's (`ImplementsLastWriter`).
- *Relay client.* A socket dies, is replaced or times out under the requests that
  share it. Correct when a caller is told what the relay said (`ToldTheTruth`),
  nobody waits on a socket that is gone (`NobodyWaitsOnADeadSocket`), nothing
  outlives its request (`NothingLeft`) and a subscription comes back
  (`StaysSubscribed`).
- *Editor.* A save waits 600 ms while keys, re-reads and other devices change the
  page. Correct when no typing is lost (`NoStrokeLost`), a settled page is the
  replica's unless its last re-read failed (`SettledPageIsSaved`), and any sequence
  of keys, undo and redo keeps one tree (`OneTree`) and undoes exactly (`UndoExact`).
- *Vault view.* Passes, the background driver, imports, commits and pushes share
  the states. Correct when a state that is not the store's is owed a replay
  (`ShownIsOwed`), a row that is not the state's is owed a push (`CacheIsOwed`),
  nothing vanished is shown (`LedgerWins`), and preparing ends (`Prepared`).
- *Space keys, spaces, lite.* Hazards are listed; the models are planned
  (section 13).

## 2. The modules

| module | lines of code it stands for | role |
|---|---|---|
| `DurableWrite` | (specification) | what a replica promises of its own writes in change mode |
| `Outbox` | `sync/outbox.rs`, parts of `sync/mod.rs`, `backend.rs`, `sync/ingest.rs` | the outbox and all that drives it; `Durable == INSTANCE DurableWrite` |
| `OutboxInv` | | the inductive invariant of `Outbox`, in named parts |
| `OutboxTypes` | | proof of type correctness |
| `OutboxProofs` | | proofs of the safety properties and of the refinement |
| `History` | `sync/history.rs`, `sync/ingest.rs`, `sync/live.rs`, parts of `sync/mod.rs` | passes, faults, cursor, live worker, watchdog |
| `HistoryProofs` | | types and the four safety properties of `History`, proved |
| `LastWriter` | (specification) | what record mode promises of what a device shows |
| `Records` | `records.rs`, the merge of `record.rs` | record mode on one stream; `LW == INSTANCE LastWriter` |
| `RecordsTypes`, `RecordsProofs` | | types, the five safety properties of `Records` and the refinement of `LastWriter`, proved |
| `RelayClient` | `relay/mod.rs`, `relay/live.rs`, `relay/native.rs` | one relay's socket and the requests that share it |
| `RelayClientProofs` | | types and the three safety properties of `RelayClient`, proved |
| `PageHistory` | `roostr-editor/src/doc.rs`, keys of `keys.rs` and `ops.rs` | the tree of blocks, its ops, inverses, undo and redo |
| `Editor` | `editor.rs`, `write_queue.rs`, the keys that write text | from a stroke to the replica and back |
| `EditorProofs` | | types, `NoStrokeLost` and `SettledPageIsSaved` of `Editor`, proved |
| `Editing` | | hosts both machines of the editor |
| `VaultView` | `backend.rs`, `authority.rs` | states, passes, preparation, ledger, query cache |
| `VaultViewProofs` | | types and the three safety properties of `VaultView`, proved |
| `MCOutbox`, `MCHistory`, `MCRecords`, `MCRelayClient`, `MCEditing`, `MCVaultView` | | instances for TLC: symmetry, events' times, start pages |

`PageHistory` walks trees with a RECURSIVE operator, so nothing is proved about it
or about `Editing`, which uses it; every other module is free of recursion.

`Editing` composes `Editor` and `PageHistory` only in the sense that one run checks
both: the first follows the text of blocks through time and ignores the tree, the
second follows the tree through keys and ignores time. Neither reads the
other's state, so a behaviour is one of either.

Some definitions have a *mistaken* twin defined just before them (for example
`LogoutReadsNothing` before `LogoutReads`). They belong to no specification;
each differs from the real definition the way a plausible coding error would
(a dropped check, a swapped order, a missing reset), and substituting it must make
the property it is paired with fail. They show that the properties have teeth.

## 3. `Outbox`

### State

| variable | in the code |
|---|---|
| `changes`, `rebased`, `pending`, `events`, `published`, `heldBase` | store tables: local changes, orphans marked rebased, pending rows and the events saved in them, own marks, bases held |
| `relay`, `relayBase` | what the relays hold: events of each obligation, changes a base covers |
| `inst`, `stopped`, `closing`, `owner` | the session's sync instance, `stopped` flags, the close task `stop()` spawned, `SESSION_OWNER` |
| `queued`, `hasEvents` | the engine's queue, and which items need no seal |
| `running`, `walked` | `queue_running`, `history_walked` of each instance |
| `task[t]` | a spawned queue task: program counter and locals |
| `pub[p]` | a caller of `publish`: a commit, the sweep of a shared space, the orphan rebase |
| `rel[i]` | `start()` of instance `i`, then `release_space_pending` and `settle_published_pending` |
| `logout` | "no", "asked" (checks passed, store being read), "clear", "done" |
| `crashes`, `fails`, `passes` | bounds; `signed`, `written` are history variables |

An obligation is a pair of a change and a stream (personal or space). An event
is the number of the signature that made it: sealing draws a fresh nonce, so two
signatures are two events. Content, sizes and relay identity are left out; a
relay either accepts (`TaskAccepted`), or its answer is lost, with the event
taken or not (`TaskUnanswered`).

### Actions and code

- `TaskNext`, `TaskLeave`, `TaskCheck`, `TaskRead`, `TaskSave`, `TaskAccepted`,
  `TaskUnanswered`, `TaskMark`, `TaskReport`, `TaskLook`, `TaskRelock`: the queue
  task and `publish_once`, one action per stretch between awaits. The
  retry delay and `wake_outbox` only change *when* a task runs and are not timed.
- `BeginCommit`, `AddLocalChange`, `BeginSweep`, `AddRebased`, `PubCheck`,
  `PubCover`, `PubMark`, `PubRead`, `PubSave`, `PubSession`, `PubOpen`,
  `PubOffer`, `PubEnsure`: a caller down to and through `publish`,
  `offer_to_outbox` and `ensure_queue_task`.
- `StartOpens`, `RelList`, `RelOffer`, `RelEnsure`, `WalkEnds`, `RelSettle`,
  `RelHeld`, `RelMark`, `RelDrop`: `start()` and the release after a walk.
- `RestartSync`, `CloseSession`, `Crash`, `LogoutAsked`, `LogoutReads`,
  `LogoutClears`: the process.
- `ImportEcho`, `ImportBaseMarks`, `ImportBasePuts`, `Compact`: what a walk or
  the live worker does to the outbox's state, and what another device does.
- `TaskStoreFails`, `PubStoreFails`: any store call (and the opening of an engine
  session) fails; the task takes the error path of the code.

`LogoutClears` stops the instance and clears the store in one step, and the clearing
does not fail.

### The promise

`DurableWrite` has four sets and four actions: write, deliver, acknowledge,
erase. `Outbox` implements it under the mapping *written* = every change
committed here, *delivered* = changes whose personal obligation has an event on
a relay, *acknowledged* = personal obligations marked published, *erased* =
logged out (`ImplementsDurableWrite`); with fairness it also implements
`EventuallyDelivered`.

## 4. `History`

### State

| variable | in the code |
|---|---|
| `relays`, `origin` | events on each relay; those it had when the device first started (history variable) |
| `held`, `saved`, `bootstrapped`, `storedFloor` | the store: events, persisted cursor, the bootstrap mark, the bootstrap floor |
| `cursor`, `historyComplete`, `faultFloor` | fields of `State` |
| `live`, `dropped`, `inbox`, `liveSeen`, `worker` | subscriptions (`since` per relay), sockets that fell, received events, the live worker |
| `calls`, `pass`, `walker`, `saving` | passes asked for, the one that holds `backfill_lock`, its task per relay, the holder of `cursor_lock` |

### Actions and code

`BeginPass`, `CoverEnds`, `Judge`, `Settle`, `MarkBootstrapped` are `walk_history`
and `backfill`; `Negotiate`, `Refused`, `Unreachable`, `QueryPage`, `QueryFails`,
`Fetch`, `Import`, `ImportFails`, `WalkDown` are one relay's `cover`: NIP-77
when the relay speaks it, a walk by pages from the newest event down when it
refuses; `LiveTakes`, `LiveImports`, `LiveFails` are the live worker;
`PassLocks`/`PassStores`, `WalkerLocks`/`WalkerStores`, `WorkerLocks`/
`WorkerStores` are `persist_cursor` with its lock taken and its store call made
in separate steps; `Subscribes`, `SocketDrops`, `WatchdogRuns`, `Crash`,
`Publish` are the surroundings.

Abstractions, each of them named here because it narrows what the checks say:

- the filters of a stream (bases, checkpoints, changes) are covered as one, so a
  pass walks one stream, and windows bounded by a base are not modelled;
- an import that fails stands both for a store error and for a group the engine
  gives up (`ingest.rs` records a fault for each); replay groups of split events
  are not modelled;
- recording a fault, which changes memory and then the stored floor, is one step;
- `Judge` and `Settle` wait for the live worker and decide in one step, without the
  awaits between `drain_inflight` and the verdict;
- ids a reconciling relay named and then did not return, which are negotiated once
  more (`history.rs:669-694`), are left out: what it names, it returns, or the query
  fails;
- a crash forgets, of `faulted`, what lies at or below the stored cursor: a fault
  that never reached the store is no longer anybody's, so `FaultPersisted` is about
  the faults of one process and those that were stored;
- the inbox gives live events in any order, a superset of what one relay's
  subscription may do;
- events are never deleted from a relay, and the instance is not stopped;
- lite sessions and the sweep for unbased changes are left out.

`walks`, `faulted`, `origin` and `pass.atStart` are history variables.
`faulted` has a pair of each event that failed and each relay that held it then.
`FaultsKept` and `FaultPersisted` speak of the pairs whose relay was never walked:
a walked relay is asked from `cursor + 1`, or from a floor read earlier (section
10), and by design does not see what is older or above, a limit the code accepts
(see the hazards on `mod.rs:970`, `live.rs:329` and `live.rs:370`).

## 5. `Records`

### State

| variable | in the code |
|---|---|
| `log`, `cut`, `pack` | the relay: the stream by seq, how far the builder deleted it, the announced pack with its blob |
| `rec`, `journal`, `cursor`, `ledger`, `clock` | each device's store: records, unpublished patches, `stream_cursor`, vanished ids, hybrid clock |
| `loop` | `start()` of the stream, then the live loop: what it asked for, loaded and read |
| `inbox` | what the live subscription delivered |
| `pub`, `wanted` | `publish_journal`, one pass at a time, and a commit's background pass that waits |
| `vanishing` | vanishes of this device that are yet to be sent |

### Actions and code

`Commit` is `commit_local`; `VanishLocal` and `SendVanish` are `vanish`;
`Start`, `Ask`, `Load`, `Page`, `ApplyPage` are `sync_stream` (announcement, pack,
pages after the cursor, the cut that asks for a newer pack); `Subscribe`,
`Receive`, `Break` the live loop with its gap and reconnection catch-ups;
`PublishJournal`, `Send`, `RemoveJournal`, `SendFails` are `publish_journal`;
`Apply` and `MergePack` are `apply` and `merge_pack`. `Crash` and `Logout` end the
session; `BuildPack` and `DeleteCovered` are the pack builder, which is external.

Abstractions: one stream; an object is one slot whose entry is its stamp, and `n`
stands for the bytes that break a tie between equal stamps. Stamps refused
because they lie a day ahead, and the thirty days after which the vanish ledger
forgets, are left out. `CutsDuringSync` says whether the builder may delete
patches while a device stands between the announcement and the pages. `Logout`
ends the device's tasks at once, where `stop()` does not await them, and the store
calls that `apply` and `RemoveJournal` stand for do not fail.

### The promise

`LastWriter` lets a device write over what it shows, receive any newer written
entries, and lose objects; nothing else. `Records` implements it with
`shown <- rec`: neither a tie, a pack, a page read twice nor a patch that comes
late may bring an older entry back or show one that nobody wrote.

## 6. `RelayClient`

A request puts a slot in a table and a frame on the socket under one lock
(`SendLocked`); the socket's thread handles frames in order and settles slots
(`Handle`); a socket that goes takes every slot on it (`Fail`), unless it is no
longer the current one. `Ask`, `Subscribe`, `Return`, `NextRound`, `Reconciled`,
`NegFails`, `TimeOut`, `Cancelled`, `DropGuard`, `SendClose` are the callers;
`Disconnect` reads the socket under one lock and drops it under another.

The relay is external: it answers the frames of one socket in order, refuses a
bounded number, and forgets what was open on a socket that is gone. Ids are
random except an event's, so only two publishes can meet in one slot; they do,
and the second takes the first's sender (a hazard's note describes it). `snapshot`
and `answered` are history variables: what the relay stored when it answered a
query, and the rounds it answered in each session.

Left out: a publish or query whose caller drops it early (its slot stays until it is
settled), a thread that cannot be spawned, and fresh ids: a subscription keeps its id
when it opens again.

## 7. `Editor`, `PageHistory`, `Editing`

`Editor` has three copies of each block's text: on screen (`page.live`), in the
editor's page (`page.content`) and in the replica (`saved`); between the last two
stands the write lane (`queue`). A text is the set of strokes in it, which is
enough to say that one is lost. `Type`, `SaveDue` and the keys change the page;
`Land` is a write that returns; `HearCommit`, `WaitIdle`, `Refresh`, `StartRead`,
`Serve`, `FinishRead` are the two re-reads, with the write mark by which
`read_unless_raced` throws a stale answer away; `Remote` is a change by another
device; `Close` ends the editor. `Serve` is an answer of `fetch_object` or its
failure, at any time and any number of times; `read_unless_raced` counts a failure
as a read that is done (`editor.rs:507`), so `FinishRead` ends the re-read and sets
`missed`, a history variable that the next adopted answer clears. `Slow` names four things that lose typing when
they happen inside the 600 ms (section 10); the run lets them happen
once nothing waits to be saved, and everything else at any moment. Left out: the
first `load` (the editor opens with the replica's page), calls of `refresh()` beside
one that runs (`wanted` collapses them), and a reconnection, which asks for the same
re-read as a commit (`editor.rs:259`).

`PageHistory` has the tree as the code keeps it (a list in order and children by
id), the ops of `doc.rs` with `ApplyOp` returning the inverse it records, and the
keys as the lists of ops they commit. Columns, tables and styles are left out;
where a style decides between two shapes of a key, either may happen. `past` and
`future` are history variables, the trees each entry should go back to. A drag
records nothing, so trees before it are unknown (`UndoPastDrop`).

## 8. `VaultView`

A state is the set of changes it was replayed from, so a stale state is a smaller
set than the store's. `pass` is the holder of `ensure_lock`: `PassInputs`,
`PassRestore`, `PassPending`, `PassObject`, `PrepareObject`, `Replay`,
`PrepareEnds`, `PassEnforce` are `rebuild_states`, `prepare`,
`restore_cached_states`, `replay_one` and `enforce_vanished`, with a boundary at
every store call; `Ensure` and `Prepares` start one. `PushBegins`/`PushEnds` are
`push_query` and `load_corpus` between snapshot and answer; `CommitReads` to
`CommitEnds` the commit with its cache step; `Import`/`OnObjects` what sync stores
and then reports.

`mode` is the store's: "records" is the default, "changes" replays change histories,
which the code keeps "for diagnosis only". `Threads = FALSE` is the browser, where nothing runs during an engine call;
natively other tasks do, and section 10 says what that breaks. Left out:
`ensure_complete`'s loop, batching of memo writes, `plan`'s retry for missing
objects, objects that vanish with their space, and objects that leave the store
while the process runs (`backend.rs:1361-1371`, `1424-1428`). A replay always yields a
state (`backend.rs:1490` may yield none), and one that fails replaces the engine, which
the code does for a fault of the engine but not for an error in the object's
own data. The model is one session of one process: `ready()`, which marks everything
dirty again while the engine keeps its cache (`backend.rs:731`), and `stop()`, which ends
the preparation by its generation (`backend.rs:838`), happen once, before it and after.

## 9. The runs

| run | instance | properties | distinct states |
|---|---|---|---|
| `outbox_personal` | 1 change, 2 task slots, 1 crash, logout, `FairSpec` | `TypeOK`, `OneEventPerObligation`, `LogoutKeepsWrites`, `Drains`, `EventuallyDelivered`, `ImplementsDurableWrite` | 274 thousand |
| `outbox_restart` | 1 change, 2 instances, 2 slots, 1 failed store call | `ObligationStored` | 2.1 million |
| `outbox_shared` | 1 shared change, commit and sweep, 2 slots, a base appears | `OneQueueTask`, `NoStrandedOffer`, `PublishedIsHeld` | 1.8 million |
| `outbox_rebased` | 3 changes, commit and rebase, 2 compactable | `ImplementsDurableWrite` | 0.9 million |
| `history` | 2 events, a walked and a reconciling relay, 1 failed import | `TypeOK`, `CompletePassHolds`, `FaultsKept`, `FaultPersisted` | 2.1 million |
| `history_restart` | 3 old events (two in one second), 1 crash, 2 failed queries or dropped sockets, `FairSpec` | `FullWalkHolds`, `Bootstraps` | 1.2 million |
| `records` | 2 devices of one account, a vanish, a crash or a logout, `FairSpec` | `VanishReaches`, `Drains`, `GoesLive` | 281 thousand |
| `records_faults` | the same, stamps to 2, a pack and a cut, one crash or failed call | `TypeOK`, `CursorCovers`, `Converged`, `ClockCovers`, `WritesKept`, `ImplementsLastWriter` | 2.0 million |
| `relay_client` | 6 pairs of requests, 2 lost sockets, 1 refusal, 1 timeout, `FairSpec` | `TypeOK`, `ToldTheTruth`, `NobodyWaitsOnADeadSocket`, `NothingLeft`, `StaysSubscribed` | 339 thousand |
| `editing` | 2 blocks, 2 strokes, 3 writes, 1 upset; trees of up to 4 blocks, 3 keys and any undo and redo | `TypeOK`, `NoStrokeLost`, `SettledPageIsSaved`, `OneTree`, `UndoExact` | 8.5 million |
| `vault` | 2 objects and the ledger, 1 import, 1 commit, 1 failed call, both modes, `FairSpec` | `ShownIsOwed`, `LedgerWins`, `CacheIsOwed`, `Prepared` | 637 thousand |

and `records_logout`, which ends in a counterexample to `WritesKept` (section 10).

Why the bounds are enough.

- *Outbox.* Obligations of different changes meet only in the engine's queue and in
  `queue_running`; one change with a personal and a space obligation already
  gives two items in one queue, so the races of an offer with the end of a drain
  all occur. Two task slots are one more than an instance may use: a second
  concurrent drain would show. Two instances are what one edit of the relay list
  leaves alive at once. `MaxFail = 1` puts one failure at *every* store call in
  turn. The rebase needs an orphan, its replacement and a change of somebody
  else's, hence three. `WritesFrom` restricts in the larger runs when writes begin
  ("released": once an instance's first walk ended). It cuts states, and it also
  keeps out one known race (`ensure_session` against `start()`, `mod.rs:603`,
  listed as a hazard); the run with `FairSpec` uses "any". `outbox_shared` lets
  another replica compact the change only once its commit returned
  (`CompactedAfterCommit`).
- *History.* Two relays of different kinds are what a pass merges, and page limit 2
  with a boundary of two events in one second exercises paging. In `history_restart`
  one relay reconciles unless it cannot be reached. Two failures are what a resumed
  walk needs: one makes the first pass a walk, whose pages leave a floor, and after a
  crash the other makes the pass below that floor a walk as well. It completes in
  the run, and resuming one second too low (`StartCallsBelow`) breaks `FullWalkHolds`.
  A second crash would start from the same kind of state. With a relay that never
  reconciles `Bootstraps` fails when a second holds a full page of events
  (`history.rs:524`), here two.
- *Records.* Two devices of one account sign with one index, so their stamps tie,
  and with two stamps and two writes every order of a tie, an older and a newer
  entry occurs. `PageSize = 1` makes every event a page boundary. `MaxUpsets`
  puts one vanish, failure, crash or logout at every point of a behaviour; a pack
  with a cut may come at any point as well.
- *Relay client.* Requests meet in the socket or in an event's slot: `Pairs` has
  each pair of kinds that share something, so three at once would add orders but
  no new meeting. Two losses replace the socket twice, which is what a late
  failure of an old socket needs.
- *Editor.* Losing a stroke needs a block, a stroke saved and a stroke not yet
  saved. One upset is a remote change or a refused write at any point; re-reads fail
  without a bound. Four blocks
  give every position an op distinguishes (first, between, last, nested
  below a sibling), and three keys every composition of inverses two deep.
- *Vault view.* The ledger, an object it names and one it does not; one import and
  one commit beside a pass and a push are all that can hold the two locks' data
  stale at once.

Symmetry is used only in runs without liveness, on changes, slots or devices that
are interchangeable. `CHECK_DEADLOCK FALSE` everywhere: an idle replica, client or
editor with its bounds spent really stops.

### Fairness

- `Outbox`: weak fairness on each queue task, caller and start task, since the
  executor polls every woken task; weak fairness on the end of a first walk (every
  query has a timeout); strong fairness on `TaskAccepted`, the assumption that a
  relay asked over and over accepts at some point, without which no outbox
  drains. A crash, a restart or a user's logout is never required.
- `History`: strong fairness on each relay's task, the pass and the live worker,
  because they wait for locks that others keep taking, and the code's mutexes hand
  them over in queue order; weak fairness on subscribing and on the watchdog (a
  timer).
- `Records`: weak fairness on each device's stream task and on its journal pass. The
  relay answers unless the bounded failures are spent on it; no user's write,
  vanish or logout is required.
- `RelayClient`: weak fairness on callers, socket threads, the second half of a
  disconnect, and on the relay answering a socket that works. Losses, refusals and
  timeouts are not required and are bounded, which is what "once sockets stop
  failing" in `StaysSubscribed` means.
- `VaultView`: weak fairness on the pass under way, the driver, the report that
  follows an import, and each client, which reads again because the application
  does after every commit it hears of.
- `Editor`: none; it has no liveness property.

Failures are never fair and always bounded, so they stop.

## 10. What does not hold

One statement of the repository is refuted by a run:

- `records_logout`: "logging out refuses while any are unpublished"
  (`README.md:76-77`). `logout` asks only for the outbox's rows
  (`backend.rs:984-991`), of which record mode, the default, has none; the journal
  is cleared unpublished.

Other instances of the same modules show more places where the code falls short of
what its comments or a reader would expect. They are not kept as runs; each is
reproduced by the change of constants given.

1. The outbox "persists the exact signed events BEFORE sending (retries and restarts
   resend them byte for byte)" (`sync/outbox.rs:7-8`). `restart_sync` does not await
   the old queue task; both tasks read the unsigned row, both sign, both send
   (`outbox_restart` with `OneEventPerObligation`). Replicas dedupe by change, so no
   data is lost; the byte-for-byte promise is.
2. A dropped offer is safe because "the next start() re-offers from the store"
   (`sync/outbox.rs:95`). A commit that took the old instance stores its row after
   the new instance listed the rows, and its offer is dropped since its own instance
   is stopped (two instances, `WritesFrom = "any"`).
3. The orphan rebase stores its change without an obligation and runs inside an
   import, which logout does not wait for (`outbox_rebased` with
   `MayLogout = TRUE`; `ingest.rs:615`).
4. The stored floor is said to be "only as deep as the slowest concurrent walker"
   (`sync/history.rs:533`), but is the minimum of the seconds reached, i.e. the
   *deepest* walker's. After a crash in the first walk, the slower relay is resumed
   below that floor and the device is marked bootstrapped (`history_restart` with
   `Relay = {r1, r2}`, `Reconciling = {}`, `MaxDown = 0`, `FullWalkHolds`).
5. The parts of a patch too large for one event never meet in the live loop, which
   applies each event alone and moves the cursor (`records_faults` with
   `Parts = 2`, `CursorCovers`; `records.rs:1219`).
6. The announcement is read before the pages: patches deleted in between are in
   neither (`CutsDuringSync = TRUE`, `CursorCovers`; `records.rs:1043`).
7. `start()` gives up at its first failed call and nothing calls it again
   (`records` with `MaxFail = 1`, `GoesLive`; `records.rs:836`).
8. Each member of `Slow` loses typing inside the 600 ms: a sibling added (the save
   is cancelled), a selection, the end of the editor, a refresh (`Slow` without it,
   `NoStrokeLost`). A refresh that a key races is moreover not repeated
   (`editor.rs:521-537`): after a refused write, a key during the refresh, a
   selection and a blur, which shows the block's content again unsaved, the refused
   edit stays on the page (`Slow = {}`, `SettledPageIsSaved`).
9. Undoing past a drag applies inverses to another tree, and the tree may break
   (`UndoPastDrop = TRUE`, `OneTree`).
10. A failing `pending_change_ids` in the background preparation forgets its object,
    which then stays unprepared for the session (`Failing` with "backlog",
    `Prepared`; `backend.rs:1184`), and one failing in `enforce_vanished` what it had
    collected for the query cache (`Failing` with "vanished", `CacheIsOwed`).
    `ShownIsOwed` holds whichever calls fail. Natively, a state that changes between
    a push's snapshot and the clear is forgotten (`Threads = TRUE`, `CacheIsOwed`).
    In change mode a push can put an older state over a row the engine's own
    commit made. A failed object call leaves a ledger that was replayed unenforced
    until the next pass, which is why `LedgerWins` speaks of runs in which no call
    failed.
11. A pass resumes at the stored floor, which is read before `backfill_lock` is taken
    (`sync/mod.rs:783`, `sync/mod.rs:924`, `sync/live.rs:329`). A fault recorded in
    between clears the stored floor (`ingest.rs:826`) but not the copy the pass
    starts from: the pass covers only what is below, is judged complete and pays a
    fault above it. On a walked relay the event is then not asked for again (a walked
    and a reconciling relay, two old events and a live one above the floor,
    `PageLimit = 2`, `MaxCrash = 1`, `MaxFail = 1`: `FaultsKept` fails when it speaks of
    all relays that hold an event now). For the same reason, and
    since a walker may store a floor after a fault cleared it (`history.rs:541`),
    `FullWalkHolds` does not hold with a crash, a failed import and a walked relay.
12. A pack holds rows and a cursor but no vanishes, and merging it neither asks the
    ledger nor removes a row (`records.rs:620`, `records.rs:643`). A device that loads
    a pack made after a vanish keeps showing the object, and its cursor is past the
    event that would have told it (`records` with `MaxPacks = 1`, `VanishReaches`).
13. "An entry already saved (by the backend's atomic commit, or sealed by an earlier
   attempt) is never clobbered" (`sync/outbox.rs:64-65`). The look and the save are two awaits. A sweep has seen the
   obligation unpublished; the sent event is echoed and its import deletes the row;
   the sweep finds no row and saves an unsealed one, which a queue task that checked
   the mark before the echo, with an offer that had lost its events, signs afresh:
   two events of one obligation within one instance, with nothing crashing or
   failing (`Spaced = Compacted = {c1}`, `Publisher = {"commit", "sweep"}`, two task
   slots, `MaxPasses = 1`, the other bounds 0: `OneEventPerObligation`).
14. A re-read after a commit is "deferred, never dropped" (`editor.rs:449`). One whose
   `fetch_object` fails (the store, an object not prepared, `backend.rs:2883-2897`) is
   dropped: `read_unless_raced` returns `true` (`editor.rs:507`), `refresh_pending` is
   cleared, and the page stays stale until another commit or a reconnection
   (`editing`, with `SettledPageIsSaved` without `missed`: another device's change, a
   commit heard, one failed fetch).

## 11. The proofs

`tlapm` checks every theorem below for arbitrary sets of changes, events, devices,
objects, relays, callers and sockets, and for every value of the bounds. What they
assume of the constants is the named assumption of each module and nothing else:
`OutboxConstants` (types, at least one instance), `HistoryConstants` (types, at least
one relay and a page of at least one event, finitely many events),
`RecordsConstants` (types, at least one part per patch and one event per page),
`RelayClientConstants` (types, ids of different kinds differ, finitely many
events), `EditorConstants` (types, no block is `None`), `VaultConstants` (types, the
ledger is an object of its own). The last column
names what a theorem assumes beyond that.

| module | theorem | states | extra assumption |
|---|---|---|---|
| `OutboxTypes` | `TypeCorrect` | `Spec => []TypeOK` | |
| `OutboxProofs` | `AcknowledgedIsHeld` | `Spec => []PublishedIsHeld` | |
| | `OneQueueTaskAlways` | `Spec => []OneQueueTask` | |
| | `NoOfferIsStranded` | `Spec => []NoStrandedOffer` | |
| | `StoredIsOwed` | `Spec => []ObligationStored` | `"rebase" \notin Publisher` |
| | `WritesAreOwed` | `Spec => [](ObligationStored /\ LogoutKeepsWrites)` | `"rebase" \notin Publisher` |
| | `OneEventOnly` | `Spec => []OneEventPerObligation` | `MaxInst = 1`, `"sweep" \notin Publisher` |
| | `OutboxRefinesDurableWrite` | `Spec => ImplementsDurableWrite` | `"rebase" \notin Publisher` |
| `HistoryProofs` | `HistoryTypes` | `Spec => []TypeOK` | |
| | `CompletePassesHold` | `Spec => []CompletePassHolds` | |
| | `FaultsAreKept` | `Spec => []FaultsKept` | |
| | `FaultsArePersisted` | `Spec => []FaultPersisted` | |
| | `FullWalksHold` | `Spec => []FullWalkHolds` | `WalkedAlone` |
| `RecordsTypes` | `TypeCorrect` | `Spec => []TypeOK` | |
| | `NextWriteWins` | `Spec => []ClockCovers` | |
| `RecordsProofs` | `NoWriteLeavesUnsent` | `Spec => []WritesKept` | `MaxLogout = 0` |
| | `RecordsImplementLastWriter` | `Spec => ImplementsLastWriter` | |
| | `CursorNeverAhead` | `Spec => []CursorCovers` | `Parts = 1`, `CutsDuringSync = FALSE` |
| | `SettledDevicesAgree` | `Spec => []Converged` | `Parts = 1`, `CutsDuringSync = FALSE` |
| | `VanishedStaysGone` | `Spec => []VanishReaches` | `MaxPacks = 0` |
| `RelayClientProofs` | `RelayClientTypes` | `Spec => []TypeOK` | |
| | `NobodyIsLeftWaiting` | `Spec => []NobodyWaitsOnADeadSocket` | |
| | `CallersAreToldTheTruth` | `Spec => []ToldTheTruth` | |
| | `NothingOutlivesItsRequest` | `Spec => []NothingLeft` | |
| `EditorProofs` | `EditorTypes` | `Spec => []TypeOK` | `CaretSlow` |
| | `StrokesKept` | `Spec => []NoStrokeLost` | `AllSlow` |
| | `SettledIsSaved` | `Spec => []SettledPageIsSaved` | `CaretSlow` |
| `VaultViewProofs` | `VaultTypes` | `Spec => []Typed` | |
| | `ShownOrOwed` | `Spec => []ShownIsOwed` | |
| | `LedgerAlwaysWins` | `Spec => []LedgerWins` | |
| | `CacheOwed` | `Spec => []CacheIsOwed` | `Threads = FALSE`, `"vanished" \notin Failing` |

`AllSlow` is that the editor's four slow keys (section 7) come only when nothing
waits to be saved, `CaretSlow` that two of them do, selecting blocks and a refresh.
`WalkedAlone` is that no relay is ever walked (all reconcile and no query or socket
fails), or that one at most is and no import fails.

Without its extra assumption TLC refutes the statement, with one exception, that of
`CaretSlow`. When neither a selection nor a refresh is slow, TLC refutes
`SettledPageIsSaved` (section 10, 8) and finds no violation of `TypeOK`. When one of
them is, it finds no violation of either (`MaxStrokes = 1`: with the selection slow the
run ends, at 10.4 million states; with the refresh slow it was stopped at as many). The
proofs take both, since otherwise several blocks can wait to be saved at once, and what
`flush_all` does with them is an induction over data.

A second instance or a sweep signs twice (section 10, 1 and 13). With the rebase
`LogoutKeepsWrites` is false and so is the erasing step of the refinement; with a
logout record mode does lose writes (`records_logout`); with patches in parts or a cut
under a catch-up a cursor passes what its device lacks, and with packs a vanish is not
learnt (section 10, 5, 6 and 12); two walked relays share one floor, and a failed
import does not clear a floor already read (10, 4 and 11); with threads or a failing
read of the ledger the cache is wrong and nobody knows (10, 10). A replica without
orphans to rebase or spaces to sweep, a relay list that is not changed, a session in
which nobody logs out, relays that reconcile, patches that fit an event and a browser
whose ledger can be read are the ordinary case. The other two exclude what a second
device may do: delete patches between two reads of a catch-up (cuts), and compact the
stream (packs).

### Outbox

None of the properties is inductive: each speaks of the store and the relays,
while the step that could break it is taken by a task that decided to take it
several steps earlier. `OutboxInv` states what such a task knows.

- `Typed` is `TypeOK` plus the shape of each task's locals at each program counter
  (`TaskShape`, `PubShape`, `RelShape`) and `SignedOut`: no instance exactly
  after logout. It is inductive by itself (`OutboxTypes`), one lemma per process.
- `HeldWhereMarked`: whoever stands before a mark (a queue task after an
  acceptance, a sweep after reading a covering base, the release after finding the
  obligation settled) already has its evidence on the relays. Relays never
  drop events in the model, so the evidence is stable. This gives
  `AcknowledgedIsHeld`, and the `Acknowledge` steps of the refinement.
- `OnlyWritten`: rows, queue items, offers and relay events are only of changes
  committed here; the refinement's `Deliver` needs it.
- `LogoutGate`: once logout passed its checks no commit or sweep is about to
  write, nothing is written that is not stored, and at "clear" every stored change
  is published. With `ObligationStored` (a stored change has a row or is
  published) this makes the erasing step safe. `Obligations` is the conjunction.
- `OneQueueTask` is inductive together with `Typed`, because the flag is set and the
  task spawned in one step and the drain clears the flag before it looks again.
- `NoStrandedOffer` is too: every queued item has a *waker*, a task in its drain
  loop or about to look again, or a caller or a release between its offer and its
  `ensure_queue_task`. Each step either keeps the waker or hands over to one.
- `OnceInv` is for `OneEventOnly`. What relays hold of an obligation is the event of
  its row, or the row is gone and the obligation published (`RowIsSent`). The one
  queue task sends what it saved, and signs only what no relay has (`TaskKnows`). The
  difficulty is a caller that finds no row and saves one (`SavesOnce`): it misses a
  sealed row only when that was deleted, so published, and then neither the engine
  nor the task takes the item as unsigned any more (`NotAgain`); the row of a space
  is first saved by the caller that wrote the change (`Rowless`), and so is the
  personal row of a rebase. A commit and a rebase bring different changes (`Apart`),
  so that neither touches what the other is about to save. A rebase may outlive a
  logout and save its row into the cleared store, which is why `RowIsSent` lets a row
  without events stand there if nothing of it was sent. A sweep is a second caller
  for the same row, which is where the argument, and the code, breaks.
- The refinement is a step simulation: each action of `Outbox` is a `Write`, a
  `Deliver`, an `Acknowledge`, an `Erase` or leaves the four mapped sets alone.

### History

`PassInv` says where each event of a pass stands while its relays are covered by
tasks that share two sets. As long as nothing failed, what a task saw is stored or
in a batch being imported (`SeenLands`); what one claimed is seen or being fetched
(`ClaimedIsSeen`); what a reconciling relay held at the start is stored or claimed
(`ReconciledIsClaimed`); and what a walked one held in range is seen or below the
page its walk stands at (`WalkedIsSeen`, with the lemmas on short and full pages,
which need cardinalities of finite sets). A failure takes the pass's completeness or
its cleanness, so that nothing is claimed of it any more. When every task has ended,
nothing is on its way and everything is stored (`AllBrought`); the verdict and the
store call after it keep that.

`FaultInv` rests on it. A pass into which no fault came began after every fault
there is (`FaultsSeen`), so a verdict pays only what the pass brought in. The next
cursor stored is below whatever is owed: the owed floor is, or the cursor under
`cursor_lock` already is (`FloorCovers`, by `NextCursorBelow`); and until one is
stored there is a task that still has to take the lock (`OwedIsStored`). All steps
but the locks, a verdict that pays and a crash are instances of one lemma
(`FaultStep`) about steps that at most add a fault.

`FloorInv` is for `FullWalksHold`. A first walk is made of passes, each of which
starts below a floor an earlier one left, perhaps before a crash. What a floor
promises is `Above`: of what the walked relay held at the first start, everything
younger is stored, or is with a relay that every pass reconciles. All floors there
are keep it: the stored one, those the calls and the pass start from, and the one the
pass stores next (`Floors`). The step that matters is `OldestIsAFloor`: when a walk
goes down, `WalkedIsSeen` says that what is above the page was seen; what was seen and
is not stored is being imported by the task of *another* relay, which under
`WalkedAlone` reconciles, so a crash now only makes the next pass ask it again. At the
verdict `CompletePassHolds` and the floor the pass began with meet: the one covers
what is below, the other what is above (`FirstWalkHolds`). All other steps are
instances of `FollowsKeeps`: floors and calls come from those there were.

### Record mode

`Sound` (types, and that a device shows, journals, sends and receives only what was
written, with a clock past it) is inductive. `WritesKept` needs what
`publish_journal` knows between its steps: the parts it is past are on the stream
(`SentParts`). For the refinement, a merge of anything that is `Sound` is a `Receive`
of `LastWriter` and a commit, whose stamp is past the clock and so past what is
shown, is a `Write`. `Newest` and `Max` choose from sets, so the module starts with
the existence of a greatest element, by well-founded induction on the naturals.

`CursorCovers` is proved by what a catch-up carries from one await to the next
(`Follows`): a pack, on the stream or in a device's hands, holds what the stream told
up to the pack's cursor (`Honest`); the page loop stands where the cursor is
(`InPlace`), with nothing after it deleted, so that a page is *dense*: whatever of the
stream lies between its first and its last event is in it (`Dense`). A page taken by
its limit is dense because the events it leaves out are later, which needs
cardinalities of finite sets. A merge only adds what is newer or vanished
(`MergeCovers`), so the cursor may follow. `Converged` adds the converse (`Known`): an
entry a device shows is on the stream or in its own journal, so two devices with
nothing to send and their cursors at the end show the same newest entries.
`VanishReaches` is about the ledger instead: a device past a vanish has it written
down or is about to (`VanishesHeld`), and every merge of a page asks the ledger.

### Relay client

`NobodyWaitsOnADeadSocket` is inductive with the types. The other two follow the
frames of a request down the wire and back: a caller whose answer came holds no
slot (`Released`); at most one frame asks or tells for a request at a time
(`Token`); what the relay opened is followed by its CLOSE, or will be (`Closed`); an
answer's events come before its end (`QueryTruth`); a session's rounds are counted
on one socket only (`NegTruth`); an OK on the wire is of a stored event
(`PublishTruth`). `RequestInv` is their conjunction.

### The editor

The invariant has three parts. `Fit`: only the block with the caret waits to be
saved, and it is shown; hence saving it, at the timer, on blur, when the caret moves
or before a refresh (`FlushFacts`, `FlushAccounts`, `FlushAllFacts`) leaves nothing
dirty. `StrokesInv`: every stroke typed waits in a dirty block or is *carried*, i.e.
queued or accounted for, and so is every stroke in the page, in the replica and in
an answer under way; adopting an answer replaces the page by strokes that are
carried, and does so only with nothing dirty, because a mark taken while clean is
never ahead of the writes issued (`Reads`). `PageOwed`: a page that is not the
replica's has a write queued, a commit to be heard, a re-read under way or a refresh
called for, or its last re-read failed (`missed`); `StaleKnown` keeps a re-read that was overtaken from ending it, whether
the news came before the answer or between the answer and its use. A key is covered
by one lemma (`KeyStep`) about results that account for what they change
(`Accounts`): new content has a write, and typing that no longer waits has one too.

### The view of the vault

A pass reads the store at one step and shows what it read at a later one. `Fresh`
says what it holds in between: inputs no older than the view, and current unless
somebody is about to mark the object dirty; with `AllOwed`, the property itself, it is
inductive. `LedgerInv` adds where a ledger that was replayed is still to be enforced.
For the cache: the first pass shows what it restored before any push (`FirstPass`), a
push that waits for its answer holds what is still true (`SnapInv`), a loaded corpus
hides what was taken out of the view (`HiddenInv`), and each row is right, or its
correction is collected, or a replay is owed (`CacheOk`).

### Only model-checked

- The liveness properties `Drains`, `EventuallyDelivered`, `Bootstraps`, `GoesLive`,
  `StaysSubscribed`, `Prepared`: fairness and ENABLED are beyond the proof system.
- `OneTree` and `UndoExact`: the tree walks of `PageHistory` are recursive, and what
  they compute for every tree is an induction over data.

## 12. What is not modelled, and why

- *Cryptography, encodings, sizes*: a sealed event is an atom. They are pure
  functions with test vectors.
- *The engine*: external. Its queue and its query cache are modelled from how the
  code here uses them.
- *Time*: delays, backoffs and timeouts are nondeterministic choices of order.
- *IndexedDB*: taken to be as atomic as SQLite; the trait's methods are one step.
- *The browser's socket*: taken to behave like the native thread.
- *Shared spaces and keys*: the sweep's offers are in `Outbox`; invitations, gift
  wraps, keyring backups and left spaces are not modelled yet. The same holds for
  lite sessions.
- *NIP-77's range splitting*: reconciliation is modelled by its rounds and by its
  result. The algorithm is a pure function on sorted sets.
- *The user interface and application state*: single-threaded view code: widgets,
  settings, tables and boards of sets, discussions, graph layout. Most of the
  repository's lines are here. What of it races with the replica is the editor,
  which is modelled without tables, columns, styles, marks, the slash menu and
  files.
- *Entry points and packaging*: no state.
- Parts of modelled components that are left out: `set_shared_spaces`,
  `sweep_unbased`, split events and checkpoints of change mode, lite starts, several
  streams and `fetch_object` of record mode, block positions and conversations of a
  record, and what section 8 lists of the vault view.

A few races are reached by the models or visible in the code but have no property
yet; each is a hazard with a note in `PROJECT.json`: the two opens of one engine
session (`mod.rs:603`), the sweep that starts after logout's checks (`backend.rs:1593`), the
floor a walker restores after a fault cleared it (`history.rs:541`), the floor a
pass read before it waited for its turn (`live.rs:329`), events of one second
(`mod.rs:970`), and the three of space keys and shared spaces.

## 13. The plan

Done: `Outbox` and `DurableWrite`, `History`, `Records` and `LastWriter`,
`RelayClient`, `Editor`, `VaultView`, each with its proofs; `PageHistory`.

Next, most important first:

1. `SpaceKeys`: keyring, invitations and gift wraps in any order and repeated;
   keys are never replaced by older ones, a left space is not rejoined by a
   delayed wrap.
2. `SharedSpaces`: `history_walked`, `set_shared_spaces` and the sweep, composed
   with `Outbox`'s release.
3. `Rebase`: two devices that rebase the same orphan; one replacement in the end.
4. `Lite`, and NIP-77's range splitting as operators checked against set difference.

## 14. Running

In this directory: `tlc -workers 2 -config outbox_personal.cfg MCOutbox` and so on
for each configuration: `outbox_*` with `MCOutbox`, `history*` with `MCHistory`,
`records*` with `MCRecords`, `relay_client` with `MCRelayClient`, `editing` with
`MCEditing`, `vault` with `MCVaultView`. For the proofs, `tlapm M.tla` with `M` one
of `OutboxTypes`, `OutboxProofs`, `HistoryProofs`, `RecordsTypes`, `RecordsProofs`,
`RelayClientProofs`, `VaultViewProofs` and `EditorProofs`. The larger runs take
one to four minutes, each proof module between one and ten.

# A formal model of graphoxide

graphoxide reads a source tree, extracts facts from every file in parallel, builds a knowledge
graph from them and keeps that graph up to date while the tree changes. This directory holds TLA+
modules for the parts of it where concurrency, failures and the order of events decide whether the
result is right, the TLC configurations that check them on small instances, and proofs, checked by
TLAPS, of what matters most for every instance.

Paths below are relative to the repository; `runtime` is `crates/graphoxide-index-runtime/src`,
`cli` is `crates/graphoxide-cli/src`.

Contents: [1 The system](#1-the-system) · [2 The modules](#2-the-modules) ·
[3 The runs](#3-the-runs) · [4 Fairness](#4-fairness) · [5 The proofs](#5-the-proofs) ·
[6 What the code disagrees with](#6-what-the-code-disagrees-with) ·
[7 What is not modelled](#7-what-is-not-modelled) · [8 Plan](#8-plan) ·
[9 Running the checks](#9-running-the-checks)

## 1 The system

### 1.1 Components

| component | code | state it keeps | operations | what makes it correct |
|---|---|---|---|---|
| SPSC ring | `runtime/lib.rs` 3032-3300 | slots, two wrapping cursors, two liveness flags | `try_send`, `try_recv`, `available_slots`, drop | no two threads on one slot; each value read exactly once, in order; a reservation is kept; dropping destroys exactly what is left |
| byte-credit ledger | `runtime/lib.rs` 2826-3030 | bytes reserved, peak | `try_reserve`, release, merge into another lease | never above capacity; a lease is given back exactly once |
| read pipeline | `runtime/lib.rs` 1911-2825 | terminal state of the run, a matrix of rings, the ledger, per-worker progress | spawn, read with retries, hand over, compute, cancel, join | one outcome per request, no torn input, bounded memory, always returns, gravest failure reported |
| runtime artifact cache | `runtime/cache.rs` 1659-2941 | per shard: segments, catalog, index, lengths; an owner lock | open and repair, `put` with rotation, `probe` | a crash-safe map that fails open and can always be opened again |
| cache I/O service | `runtime/cache.rs` 570-1655 | command queue, owner thread, transfer ledger, telemetry | probe, persist, replace, snapshot, shutdown | every call and the shutdown return; credit is owned; every command taken is answered while the owner thread lives |
| watcher, hooks and coordinated rebuild | `cli/watch.rs`, `cli/main.rs` 5080-5262, 6180-6340, 6478-7260 | rebuild lock, journal of queued paths, `needs_update`, graph and manifest, the watcher's batch | file event, hook, `update`, rebuild passes, publication | no change forgotten, graph never goes back, manifest never ahead of the graph, hooks end |
| build guard | `cli/build_guard.rs` | staging directories of fact runs | stage, prune, commit graph then manifest | a failed build publishes nothing; staging of a live build is not pruned |
| atomic publication | `crates/graphoxide-core/src/io.rs` | a temporary file, what the directory names | write, sync, rename, sync directory | readers see the old file or the new; a confirmed one survives |
| extraction cache and manifest | `crates/graphoxide-extract/src/cache.rs` | content-addressed entries, manifest, stat index | get, put, purge, save | an entry belongs to the content it is keyed by |
| source registry and its local state | `crates/graphoxide-extract/src/registry.rs`, `registry_state.rs`, `cli/main.rs` 3362-3907 | a tree of JSON records (heads, captures); SQLite: last scans, leased work items, the tree's revision | track, rename, retire, restore, scan, publish, enqueue, claim, complete | the tree stays closed; fingerprints are true; queued work is not lost; interrupted commands are made up for |
| streaming graph build | `crates/graphoxide-graph/src/streaming.rs`, `build.rs`, `incremental.rs` | sorted runs on disk | bounded k-way merge, reconcile | same graph for every order and partition of the facts |
| graph analysis, extractors, queries, exports, skill generation | the other crates | none that outlives a call | pure transformations | functional correctness |
| MCP server | `crates/graphoxide-mcp/src` | least-recently-used cache of loaded graphs | query handlers, all through `load_graph_context` | answers no older than the graph on disk; the cache keeps its bound |
| wiki and model providers | `cli/wiki_*.rs`, `ollama_transport.rs` | an operation lock, cancellation flags, child processes | generate, cancel | one operation per source root; children do not outlive it |
| VS Code extension | `editors/vscode/src`: `cli.ts`, `mutation-coordinator.ts`, `watch-lifecycle.ts`, `process-tracker.ts`, `managed.ts` | the owner of the mutation gate and the targets whose automatic builds are paused; the watch child, its lifecycle, its startup promise and deadline; the managed workspace's lifecycle generation | build, label, rebuild, start and stop watching, resume, disable, cancel, dispose | one graph writer at a time, also while a child ignores its signals; every call is answered; nothing is spawned after disposal or for a paused target |

### 1.2 How they interact

```
 editor, git ──▶ watcher / hooks / update ──(flock, journal, flag: WatchRebuild)──▶ one rebuild at a time
                                                     │
                                        read pipeline (IndexPipeline)
                       I/O workers ══ SPSC rings (SpscRing ⇒ BoundedFifo) ══▶ compute workers
                             │ byte credits                                     │ extract
                             ▼                                                  ▼
                        files of the tree                    cache I/O service (CacheService)
                                                                                │ one owner thread
                                                                                ▼
                                                             artifact cache (ArtifactStore ⇒ CrashSafeMap)
                                                     │
                                     graph.json, then manifest.json (inside WatchRebuild's passes)
                                                     │ temporary file, rename, directory sync
                                                     ▼
 assistants ──▶ MCP server's cache of graphs ──(stamp, lock, read)──▶ graph.json (GraphServing ⇒ PublishedGraph)

 registry commands ──▶ tree of records + SQLite state ◀── workers of the queue (SourceRegistry)
```

* The editor extension starts `graphoxide` processes, finite builds and one `watch`; what it knows of
  them are their exit, the line that says that the watch is ready, and signals it may send.
* Threads of one run share a terminal state (`RunControl`), the ledger and the rings; nothing else.
* Compute workers call the cache through the service's bounded channel and a rendezvous channel per
  call; only the owner thread touches the store.
* Processes of one project meet only in files of the output directory: `.rebuild.lock` (an flock,
  which dies with its holder), `.pending_changes` (the journal), `needs_update`, `graph.json` and
  `manifest.json`.
* A server and the builds share nothing but `graph.json`: the server compares its stamp.
* Registry commands are processes without a common lock; they meet in the record files of the tree,
  each replaced atomically or created once, and in the SQLite state, each call of which is one
  transaction (clearing it is two statements, section 7).

### 1.3 What is hard

The hazards are listed with their lines in `PROJECT.json`. In short: acquire/release cursors that
wrap; a small credit held while a large one is awaited; files that change during a read; panics on
either side of a ring; a kill or a power loss between an artifact and its record; a client that
gives up while its command is queued; a change queued just as the lock's holder stops looking; a
failure between the publication of a graph and of its manifest; a watch child that outlives every
timeout while commands, a resume and a disposal go on around it; a stamp taken before a lock and a
graph read after it; a lease that runs out under a worker; a scan killed between a fingerprint and
its work item.

## 2 The modules

| module | models | lines | kind |
|---|---|---|---|
| `BoundedFifo` | what a ring promises its two ends | 47 | abstract |
| `SpscRing` | the ring, one action per access to shared memory | 286 | detailed, implements `BoundedFifo` |
| `SpscRingProofs` | proofs about `SpscRing`, the refinement included | 1007 | proofs |
| `IndexPipeline` | the read pipeline, over rings as `BoundedFifo` describes them | 583 | composition |
| `IndexPipelineProofs` | proofs about `IndexPipeline` | 3647 | proofs |
| `CrashSafeMap` | what an artifact store promises | 60 | abstract |
| `ArtifactStore` | one shard of the artifact cache | 374 | detailed, implements `CrashSafeMap` |
| `ArtifactStoreProofs` | proofs about `ArtifactStore`, the refinement included | 1594 | proofs |
| `CacheService` | clients, queue and owner thread in front of the cache | 323 | composition, the cache as any answer |
| `CacheServiceProofs` | proofs about `CacheService` | 689 | proofs |
| `WatchRebuild` | the processes around one output directory | 552 | composition |
| `WatchRebuildProofs` | proofs about `WatchRebuild` | 368 | proofs |
| `PublishedGraph` | what publishing a graph file promises its readers | 38 | abstract |
| `GraphServing` | builds that publish graphs and the server that caches them | 283 | composition, implements `PublishedGraph` |
| `GraphServingProofs` | proofs about `GraphServing`, the refinement included | 793 | proofs |
| `SourceRegistry` | the registry's commands, workers and files | 550 | composition |
| `SourceRegistryProofs` | proofs about `SourceRegistry` | 969 | proofs |
| `WriterGate` | the extension's calls, mutation coordinator and watch child | 633 | composition |
| `WriterGateProofs` | proofs about `WriterGate` | 1352 | proofs |
| `MCSpscRing`, `MCIndexPipeline`, `MCArtifactStore`, `MCCacheService`, `MCWatchRebuild`, `MCGraphServing`, `MCSourceRegistry`, `MCWriterGate` | instances for TLC | | |

The operators that stand beside a definition of a module and are not used by it (`FullOffByOne`
beside `Full`, `ProbeKeepingTicket` beside `Probe`, ...) are plausible mistakes. Each run's
properties have been seen to fail when such an operator takes the place of its neighbour; the
pairs are in `PROJECT.json` under `mutants`.

### 2.1 SpscRing

State: the two published cursors, words modulo `Modulus` (2^w in the code), the slots (`Uninit` when
they hold no live value), each side's place in its call and the other side's cursor as it loaded it
last. A step is one shared access: `TrySendRoom` / `TrySendFull` is the acquire load of `head` and
the decision, `WriteSlot` the write of the value, `PublishTail` the release store; `TryRecvSome` /
`TryRecvEmpty`, `ReadSlot`, `PublishHead` on the other side; `AvailableSlots`; `DropProducer`,
`DropConsumer`, and `DropRing` for `SpscInner::drop`. An acquire load may return any value the other
side has published since the last load (`Views`), so a full or an empty answer may be out of date;
what lies behind a loaded cursor is not. `sent`, `received` and `destroyed` are histories.
`RingIsFifo` is the refinement: the histories are those of `BoundedFifo`, whose queue is what was
sent and not yet received.

### 2.2 IndexPipeline

State: the terminal state of the run, a program counter per worker, the requests each I/O worker
has yet to serve, the read in progress per request, its lease, the rings, and the files themselves.
A file is an inode at a path and a generation per inode; the metadata identity the code compares is
the pair. `Rewrite` changes the generation of the inode at the path, `Replace` puts a new inode
there, so an open handle may outlive its path; only the requests in `Changing` are changed, by at
most `MaxChanges` steps, each counted in `changes`. `Now(w)` is the request worker `w` reads: the
first of its `todo`, as the code serves them in order.

`TakeTicket … VerifyPath` are the steps of one attempt of `read_ready_input`, split wherever
another program can act: probe, open (which compares again), each read batch, the look at the open
file, the look at the path. `Retry` gives the credit back and starts over; `IoError`, `IoPanic` and
`IoStop` are the exits. `ReserveSlot` reserves the ring slot *before* the read and `Push` relies on
it. `CpuStop`, `Poll`, `Compute`, `ComputePanic` are the compute worker; the loop condition is
looked at once per scan of its rings, as in the code. `IoLeave` and `CpuLeave` drop a worker's ends
of its rings; the ring is destroyed with the second of its ends, and the credits of what is still in
it come back then. A worker that spins takes no step, so that waiting for ever is a deadlock or a
failure of `Termination`, not a loop. `Finished` is the end of the call.

### 2.3 ArtifactStore

A segment is a sequence of cells; the frame of a payload is `Size[p]` cells which a reader
recognises (the checksums of the code). `files` is what the disk holds, `flushed` how much of each
segment survives a power loss, and the same for the `catalog` and `recorded`. The owner's
variables are those of `ShardState`. `put` is `Begin` (the refusals), `Seal`/`Exhausted`,
`WriteArtifact`, `FlushArtifact`, `WriteRecord`, `Commit`, each with the failure the code handles,
and after each of them `Exit` (a kill) or `PowerLoss` may come. `Open` reads the catalog, the later
record of a key winning, discovers the segments and picks a generation; `Repair` cuts a torn tail
first. `Leftovers` lets unflushed cells vanish or read back as junk.

The store is a cache and fails open. A catalog that is over its limit, or cannot be opened or read
whole, gives an empty index and the open succeeds (`OpenBlind`); such a life sets the catalog's
length beyond its limit, so that no put is admitted, and leaves the tail alone. Whether the file was
over the limit or unreadable makes no difference to what follows, so `OpenBlind` is possible at any
open. Likewise reading a frame may fail at any time: `Probe(k)` is the *set* of answers a probe may
get. For an indexed key `Rejected` is always among them, and the payload too as long as its frame is
there: a payload that is lost differs from a read that merely failed.

`IsCrashSafeMap` maps those answers to the abstract map, which fails open in the same way: an
acknowledged put is found by every later life that can read its catalog, an interrupted one may or
may not have happened, a blind life finds nothing, takes no put and changes nothing of what later
lives find, and a probe answers with that payload or a rejection, never with another payload. A
payload that no read can return any more is not a value of the map at all.

### 2.4 CacheService

One record of state per call: reserve credit, send, wait, hold the hit. `worker`, `job` and
`answer` are the owner thread. `Respond` is the rendezvous. `GiveUp` is the poll of the cancellation
token in each of the three waits: what the call still owns is dropped, what was sent belongs to the
owner thread. `WorkerPanics` drops the job and every queued command, whose clients then hear of the
disconnection. A telemetry snapshot goes through the queue like the others and only answers: the
counters it copies are not modelled. What the cache holds is left to `ArtifactStore`: the owner may
answer a command in every way it can. "missing" stands for every probe without bytes (a miss, a
rejected artifact, a source that changed), "error" for the failures of the legacy file, of metadata
and of the store; what they have in common is where the credit goes.

`UnavailableOnceEnded` is about the channels: a response channel that is dropped without an answer
tells its client that the service is gone, so it must not happen while the owner thread lives,
whatever was cancelled, given up or dropped on the way. `ShutdownEnds` speaks of a shutdown from the
moment its stop command is in the queue; before that the holder waits for room as a client does, and
nothing promises that busy clients leave it any.

### 2.5 WatchRebuild

`stale` is the set of files whose current content the published graph does not have, `recorded`
those whose manifest row matches it, `candidate[p]` those whose current content is in the graph `p`
is building. `Edit` takes the file out of every candidate: this is how "somebody read an older
content" is expressed without contents. `journal`, `flag` and `lock` are the three files. A rebuild
call is `Queue` (paths are recorded before the lock is tried), `Acquire` or `Contended`, `Drain`,
then passes of `StartPass`, `ReadFile`…, `Accept` (graph), `CommitManifest`, `ClearNeedsUpdate`,
with `LateDrain` between passes of a call with paths, up to `MaxPasses`
(`PENDING_DRAIN_MAX_PASSES`), then `Unlock`. `Fail` ends a call at any step, by an error or a kill,
and drops the flock with it; `Refuse` is `check_shrink`. `PathsOnly` selects the legacy executor,
which re-reads only the paths it is given; the isolated one scans the tree on every pass and skips
what the manifest vouches for.

A file whose extraction fails does not fail the pass (`SkipFile`): it keeps its old records in the
graph, the pass is published and the call returns Ok with a warning, and the file gets no manifest
row (`CommitManifest`; the isolated executor drops the one it had, the legacy one keeps it).
The watcher may end at any time by an error of its own, of the event channel or of `notify_only_in`,
or by a kill (`WatcherEnds`); nobody restarts it, and what it had not queued is forgotten.

`lost` and `warned` are history: the changes a failed call or an ended watcher had taken on and
nobody else knows of, and those that were skipped with a warning by a call that returned Ok. The code
does not prevent either; `ChangesAccounted` names them, so that it says: everything else must be on
its way to the graph. A new edit of the file takes it out of both. Notes exist as events and as the
notice only; they have no content in a graph.

The manifest's `ManifestNeverAhead` is one of the conjuncts of `WatchInv`, stated again by name because
it is what a reader of the manifest relies on.

### 2.6 WriterGate

The extension host runs one callback at a time: an action is a callback up to its next `await`, and
`HostIdle` keeps events out while the continuation of a settled promise is queued, as Node does. A
*call* is one command of the user or the resume of a managed workspace, going through `pc` and, for
calls of several parts, `stage` (a rebuild stops the watch, builds, and watches again; a resume
builds, perhaps once more, then watches, perhaps once more). `owners`, `active`, `status` and
`failures` are the `GraphMutationCoordinator`; `child`, `ready`, `watchStart` are the fields of
`GraphoxideCli`, `phase`, `generation`, `exited` those of `WatchLifecycle`, `start` the closure of
the latest `startWatchProcess` with its promise and its two timers, `released` the settled
`SharedWatchRelease`s. `alive` is what really runs: a process is in it from its spawn to its close
event, whatever the extension believes, and `SingleWriter` speaks of it.

`Requests` with `Refuse`, `FindBusy` and `Admit` are `runMutation` and `startWatch` up to the
coordinator's answer; `Joined` is the continuation of a caller that waited for another's completion;
`Settle` and `Release` are the two reactions at the end of an owned mutation (the failure latch, then
ownership, then the joiners). `Replace` reads everything again after the wait for the old child.
`ReadinessTimeout` and `StopGraceTimeout` are `WatchStartupDeadline`; the second answers the callers
and leaves the child where it is. A child may become ready, close, or do neither for ever.

### 2.7 GraphServing

A version of a graph is the number of its publication. `file` is what opening the path finds,
`survivors` what the directory may still name after a power loss, `confirmed` the newest version
whose writer returned Ok. `Write`, `Flush`, `Replace`, `SyncDirectory`, `Confirm` are
`atomic_write_destination` step by step, so several builds overlap in any order, and `GiveUp` is an
error or a kill at any of them. A request takes the stamp (`Stat`), then the cache's lock (`Hit` or
`Miss`), reads the file with the lock held (`Read`, which may fail) and stores what it read under
the stamp it took first (`Insert`, with the eviction of the graphs used longest ago). The default
graph stays out of the eviction order unless a request names its path as a project (`asDefault`).
`Restart` empties the cache; `PowerLoss` stops everybody and picks a surviving version.
`PublicationSafe` is the refinement: the versions a reader finds are those of `PublishedGraph`.

### 2.8 SourceRegistry

Heads and captures are the records of the tree; `debris` and `Unfinished` are what a killed command
leaves behind, which keeps every later load from succeeding until somebody removes it (`Clean`).
`row` is the stored scan of a source; instead of time stamps it carries whether the file still has
the stamps observed with it (`current`), which every `Edit` takes away. A command is a process going
through `pc`: `Load` and `Open` (with `Clear` when the revision of the tree is another one), then a
scan's `Stat`, `Hash`, `Verify`, `Store`, `Judge` per source, or a publication's `Observe`,
`CreateCapture`, `FinishCapture`, `Advance`, and the writing of a record in place (`CreateHead`,
`FinishHead`) or through a temporary file (`WriteTemporary`, `RenameTemporary`). `Abort` ends a
command at any step. `Claim` and `Complete` are the workers: a lease may have run out whenever another
worker looks, so a claim does not look at it; `held` remembers whether an item was queued again
after it was claimed.

## 3 The runs

Bounds are chosen so that the cases in the right column happen; all state spaces are exhausted.

| run (cfg) | instance | properties | what it shows |
|---|---|---|---|
| `spsc_ring` (`MCSpscRing`) | capacity 2 (the production value), modulus 4, 6 sends, 2 values | `NoSlotRace NothingLeaked ReservationHonoured RingIsFifo` | the cursors wrap, every slot is reused three times, either end goes away at any point |
| `pipeline` (`MCIndexPipeline`) | 2 I/O and 2 compute workers, 3 credits, rings of one slot; batches of no request, one request twice, three requests (two of 2 credits on one I/O owner, one of 4 that never fits), one request whose file changes twice, unbound or bound; 2 attempts of 2 read batches | `MemoryBounded CreditsReturned ExactlyOneOutcome PanicReported NoTornInput Termination` | both readers hold a ticket and want more than is left; full rings, end markers to several consumers, cancellation and panics on both sides; changes between any two steps of an attempt and across attempts |
| `artifact_store` (`MCArtifactStore`) | 2 keys, payloads of 1 and 2 cells, segments of 3, 2 generations, catalog of 3 records | `RecordsBacked Reopenable IsCrashSafeMap` | rotation, exhaustion of generations and of every limit, crash or failure at each step, reads that fail, several lives with blind ones between them |
| `artifact_store_seal` | the same, `SealCheckFails` | `RecordsBacked` (violated) | see 6.1 |
| `cache_service` (`MCCacheService`) | a probe, a replacement and a snapshot one after the other, a persist beside them; queue of 1, 2 credits | `CreditsOwned ReleasedBeforeAnswer UnavailableOnceEnded CallsReturn ShutdownEnds` | a probe needs all credit while a persist holds some; queue full; cancellation, panic and shutdown anywhere |
| `watch_failures` (`MCWatchFailures`) | isolated executor, a code file and a note, watcher, post-commit hook, update, one late pass, failures | `WatchInv ChangesAccounted ManifestNeverAhead CallsEnd NoticeRaised` | unbounded edits, three kinds of callers, an error, refusal or kill at every step of a call, files skipped in any pass, a watcher that ends anywhere |
| `watch_catch_up` (`MCWatchCatchUp`) | legacy executor, two files, watcher, commit and checkout hook, no failures | `GraphNeverRegresses TriggersCatchUp` | a pass that reads one file publishes beside changes of the other |
| `watch_lost_wakeup` | isolated, one file, watcher and checkout hook | `CodeChangesReachGraph` (violated) | see 6.2 |
| `graph_serving` (`MCGraphServing`) | 3 graphs, a cache for one project, 2 writers of the default graph up to version 2, 2 requests | `FreshAnswer CacheConsistent PublicationSafe` | overlapping publications with a power loss between any two steps; a graph replaced between a request's stamp and its read; an older request that stores after a newer one; the default graph named as a project, evictions, restarts |
| `registry` (`MCSourceRegistry`) | 1 source, 2 paths, 2 contents, a scanning, a maintaining and a working process, 1 edit, 2 maintenance commands | `RegistryInv FingerprintTruthful NoWorkLost ScansCatchUp PublishCatchesUp` | files edited while they are hashed, renames and restores during a scan or a publication, kills between a record and what makes it current, leases that run out |
| `registry_rename` (`MCSourceRegistryRename`) | the same | `CaptureVerified` (violated) | see 6.3 |
| `writer_gate` (`MCWriterGate`) | any three of five calls: a start of one directory; a rebuild, a labelling, a resume and a disable of another | `GateInv SingleWriter ReleasedAtClose WatchAfterRefresh NoSpawnAfterDispose PausedStaysPaused CallsReturn` | starts that replace, join and outlast each other, both startup timeouts, stops, cancellations and disposal anywhere, spawn failures, a child that never closes |

The type invariants are parts of `RegistryInv`, `WatchInv` and `GateInv`; those of the other modules
are the first conjuncts of the invariants that section 5 proves.

Why the bounds are enough. The ring's proofs hold for every capacity that divides the modulus, so
its instance is only a sanity check. In the pipeline a request meets at most one other on each
resource it waits for (slot, credit), and three requests on two owners provide both; two changes
suffice to make a file look old again to the wrong comparison, and two attempts to show what is
carried from one to the next. The store keeps nothing about a key but its last record, so two keys
and two generations give every relation between a record and the segment it names. In the service
every way a client can wait (for credit, for room, for an answer) is met by another call. In the rebuild protocol edits are not bounded;
the proofs cover any number of files and processes. In the extension a call meets the owner of the
gate and the watch child that is left over from an earlier one, so three calls give every relation;
the five kinds between them take every path of `runMutation` and `startWatch`. For the server, two
writers of one graph and two requests give every order of two publications and of two entries; the
proofs cover any number. In the registry sources do not touch each other's records, so one source
and one process of each kind show every interference; two maintenance commands are what it takes to
track a source and then rename, retire or restore it under a scan or a publication, whose own runs
are not bounded. Files change once there; a second change meets the same comparison.

Deadlock is checked in every run but that of the ring, whose model stops when everything has
been dropped; the pipeline, the service and the extension declare the end of a run as a step that changes nothing.

## 4 Fairness

* `IndexPipeline`: weak fairness of the calling thread and of each worker. The code runs them as OS
  threads and every wait yields. Cancellations and file changes are never owed.
* `CacheService`: weak fairness of each client, of the owner thread, and of a shutdown once begun
  for what it waits for. Nobody has to cancel or to shut down. Clients that wait for room or credit
  poll; weak fairness of a client suffices because each run is a finite number of calls.
* `WatchRebuild`: weak fairness of each process, of the end of a batch (a hard deadline ends it
  however many events keep coming) and of the notice; strong fairness of taking a given file's
  event, since the channel is first in first out and no event is overtaken for ever. Edits, hooks,
  commands, failures and the watcher's end are never owed, and an `update` that waits for a busy lock is not promised to get
  it: flock is not fair.
* `WriterGate`: weak fairness of the continuations of each call, of the timers, and of the close of a
  finite build, which is a bounded command and is killed when it is cancelled. Nothing is owed by a
  watch child, so `CallsReturn` excepts the one wait that has no deadline, a resume behind such a
  child; no user action is owed.
* `SourceRegistry`: a command that runs goes on. Nobody has to start one: `ScansCatchUp` and
  `PublishCatchesUp` speak of runs in which scans, or publishes, are started again and again and
  nothing else happens any more.
* `SpscRing`, `ArtifactStore` and `GraphServing` state safety only.

## 5 The proofs

`SpscRingProofs`, under `CapacityDividesModulus` (the production capacity 2 divides 2^w):
`TypeCorrectness`, `RingInvariance`, `SlotRaceFreedom`, `ExactlyOnceConsumption`, `DropIsExact`,
`ReservationsHold` and `RingImplementsFifo`, the refinement. The argument: `NoSlotRace` and `ReadBeforeRewrite` speak of slots, but a step only
moves cursors, so they are not inductive. `RingInv` ties the cursors to the histories
(`CursorInv`: the distance from `head` to `tail` is the number of values inside, and a loaded cursor
is never ahead of the real one nor more than a ring behind), the slots to the histories (`SlotInv`:
the slots from `head` on hold the values still to be returned, in order) and the histories to each
other (`HistoryInv`). Distances are modulo the word; the first lemmas turn them into sums and
comparisons, and `AheadDistinct`, that two positions less than a ring apart use different slots, is
where the divisibility is needed.

`WatchRebuildProofs`, from `WatchAssumption` alone: for any files, hooks, commands and pass limit,
either executor, with failures at every step, `WatchInvariance`, `WatchTypeCorrectness`,
`LockHonesty`, `ManifestSafety`, `NoChangeForgotten`, `GraphMonotonicity`. `ManifestNeverAhead` and
`ChangesAccounted` are not inductive. `WatchInv` adds that the lock names exactly the process inside
its passes (so one process at a time is between loading and publishing), that a candidate lacks
only what the published graph lacks while it is read, and once published has nothing the graph
lacks (`CandidatesCurrent`; edits take a file out of both), and `ChangesAnswered`, which is sharper than
`ChangesAccounted`: it says not only that some pass will read the file but that a call which was
*handed* the path does, for a pass that merely happens to read the file may be refused without
anyone noticing. The lemmas are one per group of actions: `LockStep` for who may publish,
`PublishShrinks` and `PublishStep` for publication, `AnswerStep` for the bookkeeping of paths. A path a
call was handed is read, or skipped and warned of, or lost with the call.

`IndexPipelineProofs`, from `PipelineAssumption` alone, for any workers, requests, ring slots, budget,
attempts and file changes: every property of the run but `Termination`. `RunInv` is the conjunction of
four inductive invariants, each of which uses those before it.

* `InputInv` gives `InputsAreWhole` (`NoTornInput`). A torn input is the end of a story of one request,
  so the invariant tells it from the start: `Files` (no file has a generation nobody made), `Shares`
  and `Before` (a worker reads its own requests, once spawned), `Reading` (what the identity seen
  before the open, the open handle and the bytes read so far have to do with each other at each step)
  and `Handed` (what left its reader is whole and is not read again).
* `PanicInv` gives `PanicsAreReported`: it follows a panic to the terminal state of the run.
* `PlaceInv` gives `RequestsAreAccountedFor` (`ExactlyOneOutcome`). That property counts outcomes and
  says nothing of where a request is before it has one, so it is not inductive. `PlaceInv` says that a
  request waits in a reader's share, is being read, lies in one ring at one place, is being computed or
  has its outcome, and never two of these (`Once`, `Carries`), that rings hold requests of their own
  two ends and that a slot is there for whoever has a reservation (`Rings`, `Slots`), that an end marker comes last and is
  believed only then (`Finishes`), and that while the run goes on none is lost (`Accounted`).
* `LedgerInv` gives `MemoryIsBounded` and `CreditsComeBack` (`MemoryBounded`, `CreditsReturned`): the
  counter is what the requests hold (`Ledger`), whoever holds credit has its bytes in a reader's
  hands, in a ring or at a compute worker (`Leases`), and whatever has bytes has credit for them
  (`Cover`). It needs `PlaceInv`: dropping a ring gives back the credit of what is in it, each request
  once.

What requests hold together is the number of their credits, counted one by one (`Credits`, a set of
pairs), and not a sum folded over the requests: of a fold the provers know nothing without induction,
while of cardinalities the library proves what adding and removing elements does. That the first of
a worker's requests exists is a fact about least elements, `LeastIndex`, from the library's
well-foundedness of strict subsets.

`ArtifactStoreProofs`: `StoreInvariance`, `RecordsAreBacked`, `StoreImplementsMap`, `StoreReopens`, for any keys,
payload sizes, limits and generations, in builds where the look at a renamed segment does not fail
(`~SealCheckFails`; with it the statements are false, see 6.1). `StoreInv` has eight parts. `Disk` and
`Fields` are types; `Apart` says that there is one active segment, younger than every sealed one;
`Segments` ties the owner's generation, length and flag to the disk, but only while it may still take
a put: after a failed append they may be wrong, and `disabled` is what makes that harmless.
`InProgress` follows the artifact of the current put. `AllBacked` is `RecordsBacked` cell by cell.
`Readable` says that the path the owner computes for an entry is the file that holds it, across
sealing; `Promised` that *every* prefix of the catalog a power loss may leave shows a reader what was
promised, which is what an open after the loss needs. The lemmas are one per action; `Grown` collects
what appends have in common, and `LeftoversKeep` is what a power loss leaves of a flushed frame. In
the refinement `WriteRecord` attempts, `Commit` acknowledges, `Exit` and `PowerLoss` crash, `Open`
and `OpenBlind` open, and everything else stutters; `NothingMisread` says that a readable entry is
answered or rejected and nothing else, and `Limited`, a second inductive invariant, that a put in
progress has room for its record, hence is not of a blind life. `Reopenable` follows from `Apart` but
for one conjunct: open refuses a directory of more than `MaxShardEntries` files, and nothing in `put`
looks at that limit.
So `OnlyFullStoresAreRefused` says that this is the only way to lose a shard (a generation has one
file, so the files are as many as the generations used), and `StoreReopens` that a shard whose
generation numbers fit in the limit can always be opened, as those of the run do. The code's
generations are 64 bits wide and its limit is 4096; see 6 for what that leaves.

`CacheServiceProofs`: `ServiceInvariance`, `AnswersComeReleased`, `EveryCommandIsAnswered`
(`UnavailableOnceEnded`), `CreditIsNeverLost` (`CreditsOwned`), for any calls, costs, queue and credit.
`ServiceInv` adds to the types where a call with a command in the queue or with the owner may be (`Sent`), that an answer other than a hit finds its
credit back (`AnswersFree`) and that a call with credit is in somebody's hand (`Held`). `Ledger` is the
counter beside it: what is reserved is what the calls hold, credit by credit as in the pipeline, and
no more than the capacity; a panic and a shutdown drop the job and the whole queue at once.
`Waiting` says what a waiting client waits for: its command is queued or with the owner thread, or
that thread has ended, which is what makes a disconnection mean what the client takes it for.

`GraphServingProofs`: `ServingInvariance`, `AnswersAreFresh`, `PublicationIsSafe`, `CacheInvariance`,
`CacheIsConsistent`. `DirectorySound` bounds what a power loss may bring back by what writers were
told; `WritersSound` says what a writer between its rename and its Ok knows, and needs that a later
rename of another writer only raises the version; `RequestsSound` that entries and requests never have
a stamp newer than their graph, which holds because the file never goes back while the server runs.
`CacheConsistent` bounds the cache by `MaxContexts + 1`, and the obvious strengthening, an order of at
most `MaxContexts` graphs, is false: a hit of the default graph under a project's name appends it to
the order and evicts nobody. `OrderBounded` allows one more while the default graph is in the order.
`RequestsKnow` adds that a request which works on the cache has the stamp of a file that exists, so
that what it stores is an entry, and asks as the default one for the default graph only. The lemmas
follow the order through `retain` (`WithoutKeeps`), a push to its end (`TouchedKeeps`) and the eviction
of its head (`TailKeeps`).

`SourceRegistryProofs`: `RegistryInvariance`, `FingerprintsAreTrue`, `NoQueuedWorkIsLost`. `RegistryInv` is
inductive: heads are never removed and captures only grow, so the steps of one command leave what
the others rely on (`OthersSound`), and each command's promise follows it from label to label
(`JobSound`). `FingerprintInv` adds that an observation on its way to the database is true while its
file keeps its stamps; `LeaseInv` that a worker whose item was queued again has lost the lease.

`WriterGateProofs`: `WriterInvariance`, `OneWriter`, `ReleaseIsClose`, `DisposedSpawnsNothing`, `PausesHold`,
`RefreshPrecedesWatch`, `GateAgreement`: every property of the run but `CallsReturn`, for any number of
calls, targets and watch generations. That one graph writer is alive follows from `WriterInv`, which
says to whom each living process belongs: a finite child to the call that owns the gate
(`FiniteOwned`, `OneOwner`), a watch child to the extension's fields (`WatchOwned`, `Tracks`) or to the
call that starts it (`StartOwned`, `StartAwaited`, `WatchWorks`), and never both (`Apart`); releases are
settled only for children that are gone (`ReleasesTold`, `ReleaseAwaited`). `LatchInv` and
`RefreshInv` carry the pause of a target and the refresh before a watch.

Only checked by TLC: the liveness properties (`Termination`, `CallsReturn`, `ShutdownEnds`, `CallsEnd`,
`NoticeRaised`, `TriggersCatchUp`, `ScansCatchUp`, `PublishCatchesUp`), because liveness under fairness
and ENABLED are beyond the prover's backends, and the three violations of section 6. Every invariant,
action property and refinement that a passing run checks is also a theorem; the store's are those of builds without
the error of 6.1.

## 6 What the code disagrees with

1. *Sealing* (`runtime/cache.rs:2136`). If the look at the renamed segment fails, the owner goes on
   with the old length and generation: the next put is recorded where no artifact lies, and the
   generation exists both sealed and active, which every later open refuses; the comment at
   2055-2056 excludes it.
2. *Queued changes* (`cli/watch.rs:1553`). "Code changes trigger a debounced rebuild"
   (`README.md:306`); a change queued while a full rebuild that has read the file holds the lock is
   only picked up by the next event or hook.
3. *Renamed sources* (`cli/main.rs:3827`). A renamed source is "pending verification until a locally
   scanned digest is explicitly published" (`crates/graphoxide-extract/src/registry.rs:589-591`); a
   publish right after the rename takes the digest that was hashed at the old path.

Observations that no run states as a property:

* *The notice* (`cli/watch.rs:2235`). An accepted pass removes `needs_update`, also when it was raised
  after the pass had read the file, so `check-update` is silent about a change the graph does not
  have.
* *Skipped files* (`cli/watch.rs:2573-2627`, `cli/main.rs:7000-7004`). A file that cannot be extracted
  keeps its old records, the rebuild reports a warning and success, and its path is no longer in the
  journal. The isolated executor finds it again on its next pass, whatever triggers that, as it has no
  valid manifest row; the legacy one when it changes again or a full rebuild runs.
* *Rebuild and watch* (`editors/vscode/src/extension.ts:889`). The extension's README says that a full
  rebuild "leaves it stopped" (lines 180-182) where the code, as its changelog says, starts the watch
  again after the build.
* *Unfinished records* (`crates/graphoxide-extract/src/registry.rs:485-487, 513-515`). A command killed
  inside the writing of a record leaves a file that every later load refuses, until somebody removes it.
* *Full shards* (`runtime/cache.rs:2107-2160`). `put` counts bytes and catalog records but not the files
  of a shard, of which open accepts `max_shard_entries`: limits that allow more segments than that
  make a store that its own owner cannot open again. The defaults are far from it (4096 files, 64 MiB
  segments, 4 GiB in all) unless power losses leave many empty segments.
* *Directories without fsync* (`crates/graphoxide-core/src/io.rs`). Where the directory cannot be
  synced a publication is confirmed without being durable.

A ring whose capacity does not divide 2^w would reuse slots out of order when its cursors wrap
(`runtime/lib.rs:3234`), against the comment of `Slot` at line 3110. `SpscQueue::new` accepts such a
capacity; the pipeline uses 2, and the model assumes divisibility (`CapacityDividesModulus`).

## 7 What is not modelled

* Memory orderings weaker than acquire/release, and the ledger's compare-and-swap loop (reserve and
  release are atomic steps).
* The io_uring backend, the buffer pools and their size classes, the sizing of the worker layout
  and budgets from host limits, metadata-only validation.
* Several shards (they share the total size, the catalogs' total length, the total number of entries
  and the flag that disables the store), the owner lock, the purge of retired caches, the
  legacy read-only fallbacks, the bytes of frames. Directory operations are durable in order. A
  truncation of the catalog's tail whose flush fails stays in effect, and fails that open.
* The start of the cache service. A caller drops a hit before it probes again, as the callers in
  `graphoxide-extract` do; the code would otherwise wait for itself until cancelled.
* In the server and the publication: the Windows copy fallback, file systems that refuse the sync of a
  directory, symbolic links, the choice between the native and the legacy graph path, a poisoned
  lock, the protocol and the handlers. The stamp (mtime and size) is assumed to tell versions apart.
* In the registry: binding a source to another origin, discovery, freshness reports, review items and
  listings; loading the tree is one step; a lease has no clock; the change time is assumed to be
  there (on platforms without one a scan cannot be recorded at all). `Clear` merges two statements that
  SQLite commits one by one (`registry_state.rs:200-207`): a kill between them clears the queue once
  more at the next revision check.
* In the rebuild: errors and dropped events of the notification backend, which the watcher survives. In
  the isolated executor a pass that could extract nothing at all is an error
  (`crates/graphoxide-extract/src/lib.rs:3130-3137`,
  `cli/main.rs:7000-7004`); the model also lets it be
  accepted, so it allows more.
* Contents of graphs, path filters of the watcher, clustering and reports; the journal is a set of
  whole paths, so a line torn by a kill is not represented. Publication is atomic and durable there;
  `GraphServing` shows what that rests on.
* In the extension: update-on-save, enabling and reconfiguring a managed workspace, the cooperative
  cancellation of the wiki, progress and views; and that a resume gives up when the graph it reloaded has
  no model (`managed.ts:284, 306`), where the model goes on, so it allows more. Two observations without a property: a disable that
  comes while a start waits for the child it replaces stops the old child, and the start goes on to
  spawn a new one; a save that arrives while a watch is stopping is dropped.
* The journal's torn lines, the pruning of staging directories and file systems that reorder
  directory operations are hazards too; they wait for the modules of the plan.
* Parsers, graph algorithms, queries, exports: pure functions on data far larger than TLC can
  enumerate, without control of their own. They are most of the repository's lines, which is why the
  modelled lines are a small share of all. `PROJECT.json` gives the reason per component.

## 8 Plan

Done, in this order: the ring with its proofs and refinement; the pipeline over it; the artifact
store and its refinement; the service; the rebuild protocol and its proofs; the extension's writers;
the registry; publication and the server's cache; the proofs of all of them.

Next, most important first:

1. `ByteCredits`: the ledger with its compare-and-swap loop, several threads, release on unwinding;
   implements the atomic ledger the other modules use. To prove: never above capacity, nothing lost.
2. `RuntimeLayout`: worker counts, memory budget and cache limits from host limits as operators.
   To prove: the parts never exceed the whole, no part is empty where a worker needs it.
3. Staging and pruning of fact runs in the build guard, graph before manifest, over the publication
   of `GraphServing`.
4. `WriterGate`: update-on-save and enabling a managed workspace.
5. `RunMerge`: the bounded k-way merge of fact runs as functions, checked against a reference
   definition over bounded inputs.
6. Proofs: the safety of the modules of this list, as they come; `StoreReopens` from a bound on the
   segments' bytes instead of the generation numbers, which needs a put that counts files.

## 9 Running the checks

```
tlc -workers 2 -config MCArtifactStore.cfg MCArtifactStore   # any run: its cfg, its MC module
for m in SpscRing IndexPipeline ArtifactStore CacheService WatchRebuild GraphServing SourceRegistry WriterGate
do tlapm ${m}Proofs.tla; done
```

`PROJECT.json` maps every definition to the source lines it models and lists runs, mutants,
hazards, findings and theorems.

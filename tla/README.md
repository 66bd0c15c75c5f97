# A formal model of crom-ar

crom-ar keeps files in a *vault* (`.cromvfs`): a manifest of paths over a
*depot* of deduplicated, delta-encoded and compressed blocks. A vault is used
from the command line, an HTTP server, a tray program and a FUSE mount, by
several processes at once. This directory models it in TLA+, checks the models
with TLC and proves their safety properties with TLAPS.

## 1. The system

| component | state it keeps | operations | hard behaviour |
|---|---|---|---|
| depot: segments, logs, batch (`internal/store/store.go`, `recipes.go`, `format.go`) | `seg/*.seg`, `index.log`, `recipes.log`; in memory the index, the recipes and the open `Batch` | `Begin`, `Put`, `Commit`, `Close`, `Abort`, `Remove`, `ReadAt` | a power cut between any two durable steps, a write that fails half way, a batch that goes on after an error |
| deltas (`delta.go`, `optimize.go`) | `feats.log`, the feature table | `tryDelta`, `rebaseOrphans`, `Optimize` | which block may be the base of which, over several sessions |
| collector (`gc.go`) | the new index, the segments to delete | `GC`, `Garbage` | copies, rename, deletions, with a crash between them |
| cold recompression (`cold.go`) | the same | `Recompress` | the same |
| readers of other processes (`store.go`, `cache.go`) | descriptors, frame cache, inode and size of the logs | `refresh`, `segReader`, `readFrame` | segment ids and inodes that are used again |
| byte algorithms (`cdc.go`, `xform.go`, `format.go`) | none | `cutPoint`, `sniffZlib`, record encodings | boundary values |
| manifest (`vault/vault.go`, `folders.go`) | `manifest.json`, entries in memory, dirty marks | `Save`, `mergeExternal`, `markDirty`, `clearSyncState`, entry edits | two processes that load, edit and save |
| vault operations (`vault/ops.go`, `blocks.go`) | the open batch, items that wait for it | `Add`, `ImportFile`, `Extract`, `Remove`, `finishBatch`, `abortBatch`, `releaseBlocks` | vault mutex against depot lock; batches shared by concurrent calls |
| idle compaction (`vault/idle.go`) | a timer | `CompactIdleOnce`, `RunIdleCompact` | runs beside everything else |
| brains (`vault/brain.go`) | dictionaries listed in the manifest | `AddBrain`, `UseBrain`, `RemoveBrain` | none of its own |
| FUSE mount (`fusefs/fusefs.go`) | pending files in a staging directory, open handles | `Create`, `Open`, `Write`, `Release`, `Truncate`, `Rename`, `Unlink`, the janitor, recovery | delayed import against every handler; kill -9 |
| HTTP server, tray (`server`, `tray`) | the running server | handlers, start, stop | start against stop, a failed start |
| bundle (`bundle`), bench, command line (`cmd`) | none | `Export`, `Import`; printing | none |

**How they interact.** A writer of the depot holds `Store.wmu` (its process)
and a `flock` (all processes) from `Begin` to `Close`/`Abort`, and through all
of `gc`, `Recompress` and `Remove`. Readers take neither: they follow
`index.log` and `recipes.log` by inode and size, and retry when a block has
moved. The vault calls the depot inside a batch that several `Add`s may share,
and publishes entries in the manifest after the batch commits. The mount imports
finished files through the vault; the server and the tray call the vault's
operations; the idle loop calls `GC`, `Optimize` and `Recompress`.

**What makes it correct.** Depot: what has a recipe can be read back, whatever
session runs and wherever the power fails; the index points to durable frames;
a delta has a whole base that nobody collects. Manifest: an edit that was saved
is not lost when another process saves. Vault: an entry is published only
after its blocks, and blocks are released only when no entry uses them. Mount:
a file that was closed is imported once, under its last name, with its last
bytes, or is still in the staging directory after a crash.

`PROJECT.json` lists every component and every hazard with its line in the code.

## 2. Modules

| module | what it is |
|---|---|
| `Depot` | the state machine of the depot: batches, `rebaseOrphans`, `Optimize`, `gc`, `Recompress`, crashes, I/O errors, and the properties |
| `DepotPromise` | the abstract specification: contents are asked for, published, forgotten or discarded |
| `DepotInv` | the inductive invariant of `Depot`, in named parts |
| `MCDepot` | the instances for TLC; one `.cfg` per question |
| `DepotTypeProof`, `DepotSafetyProof`, `DepotPromiseProof` | the proofs, each extending the one before |
| `ManifestSync` | several processes over one manifest: edits, imports, `Save` in its steps, restarts, and the properties |
| `ManifestPromise` | the abstract specification: one book that the processes share |
| `ManifestInv` | the invariants of `ManifestSync` in named parts: `Linked` for several processes that save in turn, `Stocked` for one process with both threads busy |
| `MCManifest` | the instances for TLC; one `.cfg` per question |
| `ManifestProof` | the proofs |
| `VaultBatch`, `MCBatch` | threads of one process under `s.mu`, the depot's lock and the batch that they share |
| `BatchInv` | the invariants of `VaultBatch` that its proofs rest on, in named parts |
| `BatchTypeProof`, `BatchSafetyProof` | the proofs, the second extending the first |
| `DepotReader`, `MCReader` | reads in a process that does not write, against a writer in another one |
| `ReaderInv`, `ReaderProof` | the invariants of `DepotReader`, by the races that they need excluded, and the proofs |
| `FusePending`, `MCFuse` | pending files of the mount: handles, janitor, imports on demand, unlink, rename, kill -9 |
| `FuseInv`, `FuseProof` | the inductive invariant of `FusePending`, in named parts, and the proofs |

The modules are not composed into one. Each sees the others through what they
promise: `ManifestSync` and `VaultBatch` see the depot as the set `stored` of
contents, which is `DepotPromise` with a removal taken as one step (and in
`ManifestSync` a batch, too; in `VaultBatch` the open batch is the set
`queued`); `DepotReader` has the writer's steps as its readers can see them, one
block to a content; `FusePending` has of `ImportFile` the two steps that a path
shows.

### Depot

*State.* A position is a segment and a slot in it, one slot per frame:
`disk[p]` is the set of `<<block, form>>` pairs of the frame at `p`, `torn` the
positions that hold the remains of a failed write, `segs` the files that exist,
`unsynced` the frames that a power cut may still take. `idx` and `rcp` are the
logs as `refreshIndexLocked` and `refreshRecipesLocked` decode them (the last
record of a block wins), `tornLog` says that `index.log` ends inside a record.
`lock` and `stage` tell which session holds `wmu` and the `flock` and where it
is; `items`, `written`, `indexed`, `queued` are the open `Batch` (its blocks in
order, how many are in frames, how many in `index.log`, the recipes that wait);
`newIdx`, `copy`, `move`, `victims` are the locals of `gc` and `Recompress`.

*Actions.* One per durable step, so that a crash or an error can fall between
any two: `Begin`; `PutChunk`, `PutRecipe` (`Batch.Put`); `RebaseDelta`,
`OptimizeChunk`; `CutFrame`, `CutFrameFails` (`writeJobs`); `Commit` (sync of
the segment), `AppendIndex` (record by record), `IndexRefreshed`,
`AppendRecipe`, `CommitReturns`; `Release` (`Close`, `Abort`); `Remove`;
`GcPlan`, `ColdPlan`, `CopyFrame`, `MoveBlocks`, `SwapIndex` (the rename),
`DeleteSegment`, `RewriteReturns`; `Crash`. A refresh at the start of a session
is part of the action that starts it (it truncates half a record: `tornLog'`).

*Faults* are a constant. `"tornFrame"`: a frame write may fail half way, and a
power cut may leave a torn frame. `"tornIndex"`: an append to `index.log` may
stop inside a record. Faults are off in the main run: what remains there is the
error return of every step (`CommitReturns`, `Release`, `RewriteReturns`) and
the power cut.

*Abstractions.*

- A block has no bytes: it is its hash. Its form is `Whole` or the block it is a
  delta of. Which blocks resemble each other is left open, so any base that the
  code would accept may be chosen (`findBase`, `pickBase` and `feats.log` only
  narrow this), and Optimize may convert any block that it would accept.
- A segment is `MaxSlot` frames long, whatever their bytes.
- The thresholds of `gc` are left open: the set of segments to rewrite and of
  frames to copy as they are is any set that some sizes and some `minDead`
  allow (`GcPlan`). The same holds for the segments that a round of `Recompress`
  picks, because `maxBytes` and the codec of a frame are not modelled.
- A frame written over the remains of a torn one covers them; a shorter one
  would leave bytes behind that the header walk cannot parse, which is the
  situation that `MCDepotCold` already has behind a torn frame.
- A retry after a failed round repeats records of blocks that are in frames
  already. The repeated records are not modelled: the last one wins.
- `tornLog` is reached by a failed append, not by a power cut: after a restart
  the next writer truncates the half record and the earlier ones are kept,
  which is the crash between two `AppendIndex` steps.
- A file that was created is durable, and so is a rename or a deletion when
  the call returns. The code fsyncs the directory in `gc` and `Recompress` and
  not on the path of a batch (see the hazards).
- A failed `fsync` is not modelled (see the hazards).

### DepotPromise

Two sets: contents that can be read back and contents asked for in an open
batch. `Ask` (`Put`), `Publish` (`Commit`, one recipe after another), `Forget`
(`Remove`), `Discard` (`Abort`, an error, a crash). The refinement maps
*stored* to the contents that have a recipe **and can be read back**, so a step
that breaks a block of a stored content is a step that the abstract
specification does not allow.

### ManifestSync

*State.* `manifest` is the file. A process *p* has the entries and folders that
it loaded and edited (`mem[p]`), whether the file is still the one of its last
`Save` (`inSync[p]`: `lastSync` and `lastSize`), the four sets of dirty marks
(`marks[p]`), and two threads: `"call"` answers the user, `"import"` runs
`ImportFile` for the mount. `pc` says where each of them is, `mu` who holds
`s.mu`; `saveMu` is held by the thread that is between `SaveMerges` and
`SaveReturns` (`InSave`). `job[p]` is the import under way, and `job[p].own`
says whether the `*Entry` that `addFile` returned is still the one in the
manifest: after a merge that took the file's version it is a dangling copy, and
what is written to it is lost. `stored` are the contents in the depot.
`asked` is a history variable: what the users of a process asked for since its
last `Save`.

*Actions.*

| action | code |
|---|---|
| `Add` | `Add` with one file: `addFile`, the mark, and then a `Save` without `s.mu` |
| `RenameEntry`, `MoveEntry`, `SetEntryMode`, `Remove` | the methods of those names, edit and mark under `s.mu`, which stays held over `Save` |
| `CreateFolder`, `DeleteFolder`, `RenameFolder` | the same, with `setFolders` |
| `ImportFile`, `ImportOver` | the start of `ImportFile`; an entry that holds the path is removed first, and that removal is saved |
| `ImportAppends`, `ImportFails`, `ImportPlaces` | `addFile` appends to the root under `s.mu`; its error return; the path is set later, without `s.mu` and without a mark |
| `SaveMerges`, `SaveWrites`, `SaveFails`, `SaveReturns` | the steps of `Save`: look at the file and `mergeExternal`; rename into place; error return; `clearSyncState` and the note of time and size |
| `Restart` | the process ends and the vault is loaded again |

`Ops[p]` says which operations and faults (`"fail"`, `"crash"`) the users of
*p* meet; `Races` says which interleavings happen: `"saves"`, two processes
inside `Save` at once; `"threads"`, both threads of a process busy at once.

*Abstractions.*

- Entries are functions from UIDs, with `Absent`; the order in the list is left
  out. Folders are flat, and two entries may have one path where the code
  allows it (`MoveEntry` does not look at the target).
- `inSync` stands for time and size: two files that agree in both are not
  modelled as equal (see the hazards).
- `writeManifest` is one step: a temporary file and a rename. That two
  processes use the same name `.tmp` is left out.
- `Add` of a file that an entry in memory already has returns early in some
  cases ("já importado"); the model always adds.
- Not modelled: `config.json`, the default brain, the migration of old formats,
  the `.bak` copy, a manifest that cannot be read, `RenameGroup`, batches of
  several files.

### ManifestPromise

One book from items (entries and folders) to values, and what each process has
asked for. `Ask` adds wishes, `Keep` writes *all* wishes of one process and
changes nothing else, `Lose` forgets them when the process dies. The refinement
maps the book to the file, so a `Save` that drops another process's edit,
brings back what it removed, or leaves one of its own behind is not allowed.

### VaultBatch

*State.* `mu` is the thread that holds `s.mu` over several steps, `lock` who has
the depot to write (`wmu` and `flock`; `Other` is another process). `active` and
`pend` are `activeBatch` and `batchPend`; `queued` are the contents in the open
batch, `seen` those that `Has` reports before a Commit (`s.pend`), `stored` those
with a recipe; `entries` is the manifest in memory. `pc` and `job` are what each
thread is doing: the files that are left, the files it will report (`out`), and
what `finishBatch` took (`items`, and `kept` of them). `owed` is a history variable: what was reported.

| action | code |
|---|---|
| `Begin`, `Publish` | the two halves of `beginBatch`: the depot's lock, then `activeBatch` under `s.mu` |
| `Walk`, `AlreadyIn`, `Duplicate`, `IntoBatch`, `Alone`, `PutBlocks`, `FileIn` | the loop of `Add` and the branches of `addFile`: known entry, known content, `addToBatch`, `putBlocks` |
| `Finish`, `Close`, `Verify`, `Register` | `finishBatch`: take the batch, close it, `settleItem` (one file a step, without `s.mu`), append the entries |
| `Abort`, `Discard` | the deferred `abortBatch` |
| `RemoveEntry`, `Replace`, `NothingToReplace`, `Release`, `GC` | `Remove`, the removal in `ImportFile`, `releaseBlocks` with its collection |
| `Check`, `Round` | `CompactIdleOnce` and the collection of `RunIdleCompact` |

*Abstractions.* The system's idle tests are a free choice; `Save` is in
`ManifestSync`; the `.crom` files of the external pack program are left out, and
so is the `.crom` side of `removeLocked`. A walk that fails is decided before
the first file. `Calls` says which calls a thread makes.

*Faults* `"begin"`, `"walk"`, `"put"`, `"remove"`, `"commit"`, `"close"`: the
steps that may return an error. *Races*: see the disagreements in section 3.

### DepotReader

*State.* The disk: `rlog` and `ilog` are the logs record by record, `rino` and
`iino` their inodes; `segs` says which file has which segment number, `files`
are all segment files, deleted ones included, since a descriptor may still read
them. The process: `mem` holds the index and the recipes as far as they were
read, with the length and inode seen last; `fds` are the cached descriptors,
`cache` the frames in the order of use. Each reader has a `pc` and a `job`;
`calm` and `here` are history: nothing was rewritten, deleted or closed during
the read, and the content was there all the time.

*Actions.* Writer: `Store`, `RemoveContent`, `CompactRecipes`, `SwapIndex`,
`StopsCollecting`, `DeleteSegments` (all victims, or some, after an error or a
crash). Reader, one step for each point where the code gives up its locks:
`FindRecipe`, `Decode`, `RereadRecipes` (`Recipe` with its second attempt),
`Lookup`, `CacheHit`, `OpenSegment`, `ReadFrame`, `Drop`, `Reindex`
(`chunkPayload` with its second attempt, `readFrame`, `dropSegReaders`).

*Abstractions.* A content is one block with a recipe of its own, and a frame one
block: contents of several blocks read each of them this way, and short recipes
(no bytes in the log but the record) skip `Decode`. Deltas and compression are
in `Depot`. A wrong frame is taken for the block when it is long enough, so
`Deliver` leaves that open.

### FusePending

*State.* `file` has for each writing handle its staging file (`staged`, `meta`,
the number of writes), the handle (`open`) and the record (`closed` for
`handleClosed`, `orphan`, `importing`, `imported`); `pending` is the map from
names to records; `reading` has the name that each handle for reading was opened
under; `entries` are the versions that the vault has at a path. The
janitor and the requests that import have a `pc` and a `job` with their
snapshot. `owed` is history: files that were closed and neither unlinked nor
written over since.

| action | code |
|---|---|
| `Create`, `OpenWrite` | `Create`, `Open` for writing: `registerPending` with the `.meta` |
| `OpenRead` | `Open` for reading: a handle without a record |
| `Write`, `Release`, `ReleaseRead` | `Write`; `Release` of either kind of handle, which marks what is registered under the name |
| `UnlinkPending`, `UnlinkEntry` | the two branches of `Unlink` |
| `Tick`, `Open`, `OpenDir`, `Settle`, `Rename` | the janitor; `GetAttr` and `Open`; `OpenDir`; `importPendingUnder` before a folder goes; `Rename`: each takes a snapshot |
| `Pick` | which files of the snapshot it imports or drops |
| `Claim`, `Stat`, `RemoveOld`, `Put`, `PutFails`, `Clean` | `importPending`, with `ImportFile` in two steps |
| `Drop` | `dropPending`, by the name |
| `Done`, `RenameEntry` | the rest of the request |
| `Crash` | kill -9, then `New`: `recoverPending`, and `cleanOldSpool` behind it |

*Abstractions.* All names are in one folder. The kernel's lock on a folder
(`Unlocked`) keeps creations, unlinks and renames in it out while one of its
names is moved or the folder removed. Data is the number of writes. Which unused
name `CreateTemp` gives makes no difference, so it is always the same one
(`Fresh`). There is no clock: `cleanOldSpool` deletes any of the staging files
and `.meta` that may be a day old (`Aged`). Not modelled: what a reader reads
(`unpackOnce`), `Truncate` of a path, `Chmod`, the rename of a folder
(`remapPendingPath`), a crash between `RemoveOld` and `Put` (where the manifest
file lags behind memory, see `ManifestSync`).

## 3. What TLC checks

What the depot promises is safety: its specification states no fairness, and a
writer may stop at any point. Three runs check liveness.

- `manifest_one` checks `CallsReturn` under strong fairness of what a busy
  thread does next. The Go runtime schedules every goroutine that can run, and
  `sync.Mutex` hands itself to a goroutine that has waited for more than a
  millisecond, so a thread that is blocked by `s.mu` or `saveMu` again and again
  gets its turn. No fairness is assumed of users (`Call`, `Import`) and
  restarts. A `Save` that fails may fail for ever; it returns all the same.
- `batch` checks `CallsReturn` under the same fairness, for `s.mu` and for the
  depot's lock (the kernel grants a `flock` to one of those that wait), and weak
  fairness of the other process giving the depot back. A compaction may go on
  for ever and is not asked to return.
- `fuse` checks `Imported` under weak fairness of the janitor's ticker and of
  every request that has begun; no step of `importPending` waits for another
  one. Strong fairness of `Put`: an import may fail any number of times, and
  does not fail for ever (the janitor comes back to it every 300 ms). Handles
  need not be closed, and the process may be killed again and again.

| run | configuration | question and bounds |
|---|---|---|
| `depot` | `MCDepot.cfg` | does every session, with a crash anywhere, keep the depot consistent, and does it implement `DepotPromise`? Three blocks (a base, a delta of it and a third, so that chains and orphaned bases occur), a content of one block (short record) and one of three, two segments of one frame. 118 thousand states |
| `depot_torn` | `MCDepotTorn.cfg` | with both faults and no `Recompress`: is the index still sound? Two blocks, two segments of two frames, so that a frame lies behind a torn one. 329 thousand states |
| `depot_cold_behind_torn` | `MCDepotCold.cfg` | finding: see below |
| `manifest` | `MCManifest.cfg` | do two processes that save in turn keep each other's edits? One adds, imports, renames and makes folders, with Saves and imports that fail; the other adds, removes and deletes folders, with crashes. Two UIDs, two folders: an edit of the same entry by both, and edits of different ones. 196 thousand states |
| `manifest_one` | `MCManifestOne.cfg` | does one process with two busy threads lose nothing, and does every call return? All operations, with those that do not mark their entry. Two UIDs, two folders, two modes. 125 thousand states |
| `batch` | `MCBatch.cfg` | do threads that share a batch lose nothing and wait for nobody for ever? One thread adds folders of two files, one adds and imports single files, one removes and compacts; three files, two of them with one content, two paths, another process with the lock, and every fault but a Commit that fails. Two entries: one that goes while another of its content stays. 81 thousand states |
| `batch_wait` | `MCBatchWait.cfg` | finding |
| `batch_adds` | `MCBatchAdds.cfg` | finding; two threads that add folders, no faults |
| `reader` | `MCReader.cfg` | does a reader get the right bytes, and does it fail only for a reason? Two readers that share descriptors and cache, two contents, segments and cache of two frames, so that a frame is not the first of its segment and one is evicted; logs of three records and three segment files, enough for two collections. 1.3 million states |
| `reader_align` | `MCReaderAlign.cfg` | finding; one reader, four records, so that a log is written and rewritten with two live recipes |
| `fuse` | `MCFuse.cfg` | is what was closed kept, and is nothing else imported? Janitor and one request, two names, two files (one edited after the other, or both at once), one write each, one reader, any number of failures and crashes. 552 thousand states |
| `fuse_list` | `MCFuseList.cfg` | finding |

Deadlock is off in the runs of the depot: segment ids are bounded by `MaxSeg`,
and a session that needs a new one may find none. It is on in all others. In the runs of the manifest the processes are not
symmetric (they run different operations), UIDs and folders are, and so are the
readers and contents of `reader`. Symmetry is used in runs of safety properties
only.

Properties of `Depot`:

- `TypeOK`.
- `Readable`: every content with a recipe can be read back.
- `IndexSound`: every indexed block, dead ones included, is in the frame and in
  the form that the index says, and a delta has its base whole. Dead blocks
  count because deduplication brings them back without looking at them.
- `IndexedOnDisk`: the index never points to a frame that a power cut can take.
- `ShortIsWhole`: the one block of a short recipe is whole (its length in the
  index is the size of the content).
- `KeepsPromise`: the refinement.
- `Consistent`: the inductive invariant of the proofs.

Properties of `ManifestSync`:

- `TypeOK`.
- `SharedBook`: the refinement of `ManifestPromise`.
- `Linked`: the inductive invariant of the proofs.
- `Backed`: every entry of the file that nobody has asked to remove has its
  content in the depot.
- `CallsReturn`: every call comes back; `s.mu` and `saveMu`, which are taken
  in one order by some calls and one after the other by `Add`, never block
  each other.

Properties of `VaultBatch`:

- `TypeOK`.
- `Backed`: every entry has its content in the depot or in the open batch.
- `Reported`: what an Add has reported as added has its entry, until a later call
  removes it.
- `OwnBatch`: a batch is closed or aborted by the Add that opened it
  (`batch_adds` shows that it is not).
- `NothingLeft`: a published batch has the lock, and without an Add of a folder
  there is no batch, no list and nothing that `Has` reports without a recipe.
- `NoWaitCycle`: who holds `s.mu` and wants the depot never waits for an Add that
  still wants `s.mu`.
- `CallsReturn`: every call returns.

Properties of `DepotReader`:

- `TypeOK` (with the bound of the cache).
- `ReadsRight`: a read gives the bytes of the content asked for, or an error.
- `Served`: an error only when something was rewritten, deleted or closed while
  the read ran, or the content was not there all the time.
- `CacheSound`: one frame for a place, and the one that the segment has.

Properties of `FusePending`:

- `TypeOK`.
- `NoLostClose`: what was closed is whole in the vault, or in the spool with its
  `.meta` or a thread at work on it.
- `WholeOnly`: the vault has nothing of a file that is still open, and all of
  one that is closed.
- `OnePath`: a path has one entry.
- `Unlinked`: a file unlinked while pending never gets into the vault.
- `Imported`: what is closed is in the vault in the end, unless it is unlinked
  or written over, or a kill -9 leaves it in the spool, where the next mount
  finds it without a record and does not import it (see the disagreements).

**Findings.** (1) `depot_cold_behind_torn`. `Recompress` copies the frames that
`segFrames` lists, and `segFrames` stops at a header it cannot parse. Frames
behind the remains of a failed write are not copied, keep their old position
in the index, and go with the segment. `gc` looks up such frames by the index
and copies them. (2) `batch_wait`. `beginBatch` takes the depot before `s.mu`. A call
that finds no batch in between takes `s.mu` and waits for the depot, the Add
waits for `s.mu`: both for ever. (3) `batch_adds`. The
`abortBatch` that an Add defers takes whatever batch is active. An Add that
waited for the depot gets it when another one closes its batch, and begins its
own; the deferred `abortBatch` of the first discards it, with what is in it and
in `batchPend`, while the second goes on walking. So what it reports as added may
get no entry (`Reported` fails, too). (4) `reader_align`. A reader reads
`recipes.log` at the position it remembers, whether or not the file was
rewritten since. Nothing in a recipe or in `ReadAt` tells whose it is, and
recipes of contents with the same number of chunks are equally long, so it may
read another content. (5) `fuse_list`. `OpenDir` (and `Rename`, and the removal of a
folder) import without a look at `handleClosed`: a file that is still written
gets into the vault as it is, and later writes go to a file without a name.

**Disagreements without a run.** The modules reach these, too, with the constant
named; each can be seen by giving it in the run's configuration.

| module, constant | what happens | what it disagrees with |
|---|---|---|
| `Depot`, `Faults = {"tornIndex"}` and two Commits of one batch | the second `Commit` writes its records behind half a record; the refresh truncates the log there; the batch forgets its blocks and appends the recipes: `Readable` fails | `store.go:554-555`, "blocos no disco → índice no disco → receitas" |
| `ManifestSync`, `Races = {"saves"}` | `saveMu` is a lock of one process: two processes look at the file and then both rename their own into place; the edits of the first are lost: `SharedBook` fails | `vault.go:409-411`, "ninguém perde mutações" |
| `ManifestSync`, two processes, one with `"mvdir"`, the other with `"add"` | `RenameFolder` gives the new list of folders to `setFolders`, which drops the dirty mark of each of them and sets none; a merge with a file that the other process has written drops the renamed folder: `SharedBook` fails | the same, and `race_test.go:41`, "merges por UID não podem perder mutações" |
| `ManifestSync`, `Races = {"threads"}`, two processes | `Add` saves without `s.mu`; an import that appends between the write and `clearSyncState` of another thread loses its mark, and the next merge takes its entry for one that was removed outside | the same, and `vault.go:689-690` |
| `ManifestSync`, two processes that add and remove | `releaseBlocks` looks for other owners in memory, before the merge; a content that another process has just used goes from the depot: `Backed` fails | `CONCEITOS.md:204`, "GC apaga só o que ninguém usa" |
| `VaultBatch`, `Races = {"pending"}` | a Remove takes the content that a duplicate in `batchPend` counts on: `Backed` fails | `blocks_test.go:101-102`, "não pode travar nem perder dado" |
| `VaultBatch`, `Faults` with `"close"` or `"commit"` | `Has` goes on reporting contents of a batch whose Commit failed: `NothingLeft` and `Backed` fail | none |
| `DepotReader`, `Races = {"reuse"}` | the number of a deleted newest segment is given again: descriptor and cache still have the old file: `ReadsRight`, `CacheSound` fail | `store.go:451-452` |
| `DepotReader`, `Races = {"inode"}` | a rewritten log gets an inode seen before and is no shorter: it counts as unchanged: `Served` fails | `store.go:451-452` |
| `FusePending`, `Races = {"read"}` | a name is opened for reading while it is edited; when that handle is closed, `Release` marks the record of the file that is still written: the janitor imports it as it is and drops the record, and the later writes and the close are lost: `WholeOnly`, `NoLostClose` fail | `fusefs.go:501-502`; `fusefs.go:55`, "último fd fechado: pronto para importar" |
| `FusePending`, `Races = {"open"}` | two handles on one name, or a name created again while the unlinked file is open: `Release` marks and `dropPending` drops the record of the other one: `WholeOnly`, `NoLostClose` fail | `fusefs.go:501-502` |
| `FusePending`, `Races = {"open"}`, two requests | `importPendingUnder` (and `Rename`) holds records that it saw before; a name imported meanwhile by another request and opened again for writing has a new record, and `dropPending`, which goes by the name, drops that one: once closed, the file has no record and no `.meta`: `NoLostClose` fails | `README.md:135` |
| `FusePending`, `Races = {"rename"}` | a rename onto a name with a pending file: its import then takes the renamed file away: `NoLostClose` fails | none |
| `FusePending`, `Races = {"unlink"}` | an unlink behind the Put of an import marks the record and leaves the new entry: `Unlinked` fails | `fusefs.go:54` |
| `FusePending`, `Races = {"fail"}` | an import that fails in `OpenDir`, `Rename` or `Rmdir`: record and `.meta` go all the same: `NoLostClose` fails | `README.md:135` |
| `FusePending`, `Races = {"crash"}` | `recoverPending` reads a `.meta` whose `Src` is empty: it takes the old entry away and then fails; the staging file stays where no mount imports it: `NoLostClose` fails | `README.md:135`, "kill -9 não perde o que já fechou" |
| `FusePending`, `Races = {"old"}` | a mount a day after the crash: `recoverPending` imports nothing, and `cleanOldSpool` deletes the closed file: `NoLostClose` fails | `README.md:135` |
| `FusePending`, without `LeftInSpool` in `Imported` | a file that was closed before a kill -9 has no record after it, so no mount imports it | `fusefs.go:157`, "reimporta escritas órfãs de um crash anterior"; `fusefs.go:232-233`, "o mount seguinte reimporta" |

The last three are one cause: `ImportFile` needs `Src`, which `Create` and `Open`
leave empty in the `.meta`, so a recovery imports nothing. What `NoLostClose`
promises after a crash is therefore only the file in the spool, for a day.

Each property of a passing run has a mutant: a definition (marked
"mutant of") that changes an action as a plausible bug would, and with which
the run finds the property violated.

## 4. What is proved

For every set of blocks and contents, every number of segments and slots, every
set of processes, threads, entries, folders, staging files and operations, and
(where not said otherwise) every set of faults and races:

| theorem | statement | assumptions |
|---|---|---|
| `TypeCorrect` | `Spec => []TypeOK` | none |
| `IndexSafe` | `Spec => []IndexSound` | `SeesAll`: no torn frames where `Recompress` runs |
| `IndexDurable` | `Spec => []IndexedOnDisk` | the same |
| `AlwaysConsistent` | `Spec => []Consistent` | `SeesAll`, and `WholeLog`: no append to `index.log` fails half way |
| `ReadBack` | `Spec => []Readable` | the same |
| `ShortStaysWhole` | `Spec => []ShortIsWhole` | the same |
| `PromiseKept` | `Spec => KeepsPromise` | the same |
| `ManifestTypeCorrect` | `Spec => []TypeOK` of `ManifestSync` | none |
| `ManifestLinked` | `Spec => []Linked` | `Serial` |
| `ManifestIsSharedBook` | `Spec => SharedBook` | `Serial` |
| `ManifestBacked` | `Spec => []Backed` of `ManifestSync` | `Alone`: one process, which is not killed; with both threads busy at once, every operation and any `Save` that fails |
| `BatchTypeCorrect` | `Spec => []TypeOK` of `VaultBatch` | none |
| `ReportedStays` | `Spec => []Reported` | one folder is added at a time (`"adds" \notin Races`) |
| `NobodyWaitsForEver` | `Spec => []NoWaitCycle` | the same, and no call goes for the depot between the lock of a batch and its publication (`"begin" \notin Races`) |
| `NothingIsLeft` | `Spec => []NothingLeft` | `Reliable`: one folder at a time, and no Commit fails |
| `EntriesBacked` | `Spec => []Backed` | `Reliable`, and nobody removes what an open Add counts on (`"pending" \notin Races`) |
| `ReaderTypeCorrect` | `Spec => []TypeOK` of `DepotReader` | none |
| `ReaderCacheSound` | `Spec => []CacheSound` | no segment number is given twice (`"reuse" \notin Races`) |
| `ReaderReadsRight` | `Spec => []ReadsRight` | the same, and no record of equal length takes the place of a recipe (`"align" \notin Races`); inodes may be given again |
| `ReaderServed` | `Spec => []Served` | no number, inode or place is given twice (`Races = {}`) |
| `FuseTypeCorrect` | `Spec => []TypeOK` of `FusePending` | none |
| `FuseNoLostClose`, `FuseWholeOnly`, `FuseOnePath`, `FuseUnlinked` | `Spec => []NoLostClose`, and so on | `Races = {}` |

The assumptions are the negations of findings and of disagreements (section 3):
without them the statements are false, as the violation runs show, or TLC with
the constant that the table names. `Serial` is two things. `Races = {}`: no two
processes inside `Save` at once (see the disagreements), no two busy threads in one process
(again there). `EditsMarked`: nobody uses an edit that leaves its marks behind:
`SetEntryMode` sets none, `RenameFolder` drops them (see the disagreements), and
`DeleteFolder` drops those of folders whose `Save` had failed.

`Alone` of `ManifestBacked` is one of the disagreements, too: a second process
may use a content that `releaseBlocks` takes for unused. A process that is
killed between the removal of the contents and the `Save` leaves entries without
contents in the file (see the hazards). In both cases `Backed` is false. What is
excluded for the readers and for the mount is in section 3: each of these races
breaks a property that the theorem states.

*The argument for the depot.* `IndexSound` is not inductive. `IndexInv` adds

- `Fresh`: nothing lies where the writer will write next;
- `Control`, `AllCut`: each session goes through its own stages, and nothing is
  logged before all of the batch is in frames;
- `Framed`, `Logged`, `Once`, `Based`, `NewOnly` (together `BatchInv`): what the
  open batch will log is in frames, once, with bases that are whole and stay so;
- `Synced`: what is logged, and what is being logged, is fsynced;
- `PlanHolds`, `PlanCovers`, `PlanApart` (together `PlanInv`): the index that
  `gc` or `Recompress` builds points to frames that hold its blocks and will not
  be deleted, it covers all live blocks, and the writer is outside the segments
  that will be deleted;
- `NoTear`: where `Recompress` runs no frame is torn, so `ColdPlan` copies
  every frame that the index uses.

`DepotSafetyProof` proves each part from the ones before it. `Consistent` adds
`Backed` (recipes after blocks) and `ShortKept` (no step of a batch turns the
block of a short recipe into a delta). Under `Consistent`, *stored* is the set of
contents with a recipe, and the refinement follows step by step.

*The argument for the manifest.* That a `Save` keeps the book is a statement on
one step, `SaveWrites`: the file becomes `mem[p]`, so `mem[p]` must hold the
wishes of *p* and, everywhere else, the values of the file. `Linked` carries
that from the edit to the write:

- `Owed`: what was asked for is in memory and marked, and nothing else is
  marked; after the write (`Stamping`) nothing is owed. This is what makes
  `Kept` and `Dropped` choose the right version in `mergeExternal`.
- `UpToDate`: a process that is in sync, or has merged, agrees with the file
  wherever nothing was asked for. It needs `OneAtATime`: between merge and
  write nobody else may write.
- `Importing`: the path that `ImportPlaces` sets without a mark belongs to an
  entry whose mark is still there, and the object is still the one in memory. It
  needs `OneAtATime`: a `Save` of another
  thread could clear the mark.
- `AllSaved`: where no `Save` fails nothing is owed between two calls, so a
  `DeleteFolder` finds no folder mark to drop.

Every other step leaves the book alone and only adds wishes (`Ask`) or loses
them (`Lose`).

*The argument for the batch.* None of the properties is inductive: each needs to
know which Add has what. `BatchInv` has the parts.

- `OneFolder`, `LockHeld` (with `TypeOK` and `HasFile`: `Control`): the Add of a
  folder has the lock from `Begin` to `Close` or `Discard`, and the published
  batch is its own. Where two folders are added at once `LockHeld` is
  the first to go (finding 3).
- `Waiting`: who wants the depot with `s.mu` held found no batch, and none is
  about to be published. So whoever has the lock meanwhile is at `Close` or
  `Discard`, which do not want `s.mu`.
- `OutBacked`: what a call is going to report is in the manifest, or in one of
  the lists that lead there: `batchPend` while the batch is its own, then what
  `finishBatch` took, then what passed `settleItem`. It follows a file from list
  to list, through removals by others.
- `Uncommitted`: outside the loop of an Add and its `Close` nothing is in the
  batch, and `Has` is never ahead of it.
- `CountedBacked`: the contents of the lists are in the depot, as those of the
  entries are, and a content that is being removed is in neither. `Backed` alone
  is not inductive, since a duplicate becomes an entry long after somebody
  looked for its content. While the removal waits for the lock, `s.mu` (`MuHeld`)
  keeps others from counting on the content.

*The argument for one process and its depot.* `Backed` of `ManifestSync` speaks
of the file, and what adds and removes contents (`addFile`, `releaseBlocks`)
looks at memory. `Stocked` goes between the two.

- `Settled`: the file is the one of the process's last `Save`, so no `Save`
  merges and nothing comes from the file into memory.
- `InStore`: what entries in memory hold is in the depot. `releaseBlocks` looks
  for other owners in the same memory, so it keeps this.
- `Followed`: an entry of the file that nobody asked to remove is in memory,
  with the content that it has there. `Backed` follows.
- `NewName`: the UID of an import is new until `addFile` appends its entry, so
  the append is no step of an entry that the file has.

*The argument for the readers.* A read goes through values that it picked up in
earlier steps: a position in `recipes.log`, a place in a segment, an open file.
The proof says for each of them what it still means when it is used.

- `Numbered`, `Located` (with `TypeOK`): a segment number belongs to a file that
  was made, and a read that looks at a place has one. They hold under all races.
- `OneFile`: a number stands for the file that got it first, in the directory and
  among the cached descriptors, since a deleted segment is never the newest one.
  `"reuse"` breaks it. With it a place holds the same bytes for ever (`Holds`),
  so `LogHolds`, `MemHolds` and `CacheHolds` need no assumption on time: an old
  index entry, an old descriptor and an old frame are right, only perhaps not
  current.
- `ReadHolds`: a read that has decoded a recipe looks for the block of the
  content it was asked for, at a place that holds it. `"align"` breaks it at
  `Decode`, and there only, since a recipe does not tell whose it is.
- `Remembers`: as long as the inode is the one seen last, memory is what the
  first records of the log say. `"inode"` breaks it.
- `Placed`, `LiveIndexed`: what has a recipe has one place, in a segment that is
  there to stay.
- `SeesNow`: a second attempt that nothing disturbed has memory and log of the
  same inode, and a place that is in `index.log` now. A second attempt that
  fails was therefore disturbed, or the content was not there all the time:
  `Served`.

*The argument for the mount.* `importPending` holds no lock, and `dropPending`
goes by the name. So the invariant is about who will drop which record.

- `Binds(t, n, f)`: the importer *t* is going to drop the record of the name *n*
  and takes it for the one of *f*. `OwnRecord`: the name has *f* registered, or
  nothing. `OneFile`: two importers that are bound to a name mean one file.
  Both hold because a name gets a new record only where nobody is bound to it
  (`Free`), which is what the race `"open"` gives up.
- `OpenAlone`: nobody is bound to the name of an open handle, no forced
  request has seen its file, and nobody has marked its record, unless it is
  unlinked (a reader may then mark it, and it is not imported all the same). This
  keeps unfinished files out (`WholeOnly`), and is what `"read"` gives up.
- `Spooled`: what is registered, or at hand in an import, has its staging file, as
  long as it is not unlinked or imported. A file that `cleanOldSpool` has deleted
  is in nobody's hands any more.
- `Awaited`, `Exclusive`, `Once`: a file in somebody's snapshot is registered, or
  under way, or nothing is left to import of it; `importing` lets one importer
  in; what was imported keeps `importing` set as long as anybody could claim it
  again. So no file is imported twice, and no two imports to a path overlap.
- `Room`, `Leaving`: an import that is about to append finds its path empty, and
  what is in the vault and still registered is about to lose its record
  (`OnePath`, `Unlinked`).
- `Replaces`: of what an import will take out of the vault nothing is owed but
  the file that it will put in. With `CleanAfter` (the staging file goes after
  the entry has come) and `Dropping` (a record goes when its file is imported,
  unlinked, or in the hands of another importer) this gives `Somewhere`, which is
  `NoLostClose`.

TLC checked `FuseInv` before the proof, in `fuse`'s instance (552 thousand
states) and with two requests, one name and three files without writes (985
thousand states), so that two requests drop records against each other and a
name is edited three times.

All constants are covered by the named assumptions of `Depot`
(`SizeAssumption`, `DataAssumption`, `FaultAssumption`), `ManifestSync`
(`NameAssumption`, `ValueAssumption`, `OpsAssumption`), `VaultBatch`
(`BatchAssumption`), `DepotReader` (`ReaderAssumption`) and `FusePending`
(`FuseAssumption`), which TLC evaluates in every run. The last two say, too,
that there are finitely many contents and staging files.

*Only model-checked:* both `CallsReturn` and `Imported` (liveness under fairness is
beyond TLAPS), and `SharedBook` of one process with two threads
(`manifest_one`). Liveness is not stated for the depot.

## 5. Not modelled

- `Extract`, `Match`, `Grep`, `InfoText`, statistics: they read only.
- `.crom` files, `VerifyEntry`, brains: the work is that of an external program.
- Chunking, features, compression, record encodings (`cdc.go`, `xform.go`,
  `format.go`): sequential algorithms on bytes whose bounds, cut down for TLC,
  would say nothing; `Depot` holds for any choice they make.
- `migrateRecipeFiles`, the migration of old manifests, `config.json`, the `.bak`
  copy.
- Of the mount: see `FusePending`. Of the tray and the server: start and stop
  behind a mutex of the user interface; their handlers are calls of the vault.
- `bundle`, `bench`, the command line: sequential, no state beyond one call.
- A failed `fsync`, and the directory entry of a new segment (see the hazards).

# Verification of vectoplan-chunk

vectoplan-chunk is a Flask service that stores the voxel chunks of building
projects in PostgreSQL. Browsers place blocks and buildings in a shared world;
importers add existing buildings; all of them change the same rows through HTTP
requests that run in several processes at once (`entrypoint.sh:55-56`: two
gunicorn workers with two threads each). This directory holds TLA+ models of the
parts where that concurrency, a long sequence of legal commands, or a retry can
go wrong, the TLC configurations that check them on small instances, and proofs
of their main properties for every instance.

Paths below are relative to the repository. Many packages live under `src/`
there, so `src/planning_generation.py` is a module of the package `src`.

Contents: 1 the system, 2 the modules, 3 the runs, 4 fairness, 5 the proofs,
6 where code and documentation disagree, 7 what is not modelled, 8 what is left.

## 1. The system

### Inventory

Components that keep or change durable state. The last column names what makes
the component correct; components marked with a module are modelled.

| Component | State | Operations | Correct if | Module |
|---|---|---|---|---|
| Command route (`routes/commands.py`, `models/event.py`) | `world_command_logs`, the transaction, the lock on the world row | POST commands: decode, lock, look up the receipt, insert the log, run an executor, commit or roll back; GET a command's status | a command takes effect once and as a whole, a confirmed edit is never lost, a retry gets the first answer | WorldCommandRoute, AtomicCommands |
| Chunk reads (`routes/chunks.py`) | inserted snapshots | GET a chunk, a region or a batch, with or without materializing what was generated | a read never hides or overwrites an edit; a batch shows one state and stores all or nothing | WorldCommandRoute, ChunkBatchLoad |
| Snapshots and events (`models/chunk.py`, `models/event.py`) | content, revision, hash, one row per chunk; a chain of events | create, replace content, append an event | the events of a chunk form one chain that ends in the snapshot | WorldCommandRoute |
| Executors (`routes/commands.py`, `src/world_edit/`) | cells and `objectRefs` of a chunk | SetBlock, ReplaceBlock, RemoveBlock, WorldEdit, PlaceObject, RemoveObject, ObjectBatch | every cell belongs to its last writer | CellOwnership, LastWriterWins |
| Objects and chunk references (`models/object.py`, `src/object_cell_index.py`, `src/terrain_object_underlay.py`) | instances with a unique id, a reference per object and chunk with a record per cell | insert, update, soft-delete, attach and detach cells | both records of an object's cells agree; removal restores what was covered | CellOwnership |
| Planning buildings (`src/planning_generation.py`, `src/planning_removal.py`) | a parent object with a generation id, its generated children | replace a generation, delete a building | compare-and-swap; no child of an old generation remains | PlanningGeneration, BuildingGenerations |
| LoD2 buildings (`src/geodata/lod2_*.py`, scripts) | receipts and tombstones in the world's metadata, walls, roofs | import, configure, edit or remove a roof, refine roofs | an import never undoes an edit; a receipt is never lost | Lod2World, RoofProjection |
| Object batch (`src/batch_chunk_mutation.py`) | a write-back cache of snapshots and reference lists, one per batch | load, save, publish at the end | children see each other's writes; nothing remains of a failed batch | BatchChunkMutation, BatchEdit |
| Editor datasets (`src/editor_dataset/`, two scripts) | bundle directories and lock files, a selector file, a cache in every process | build, publish, select, load, add roofs to a chunk | readers see a complete bundle that was selected; a removed roof does not return | BundleWriter, BundleStore, DatasetSelection, RoofProjection |
| Projects and access (`src/world_state/`, `src/project_access/`, `routes/projects.py`, `routes/project_access.py`) | project, universe, world, roles, assignments | ensure, initialise, assign, revoke, delete | a project in use has all its parts and one owner; a lost race is retried | ProjectGraph, ProjectRecord |

Components without shared state of their own, or outside the reach of these
models: coordinates and dirty chunks, database bootstrap, chunk object projection,
planning grounding and duplicate repair, tree instances, geodata caches and overlays, georeferencing, world providers and the
terrain pipeline, terrain snapshot upgrade, row definitions of project, universe,
world and block, system blocks, transport and frozen JSON, the remaining routes,
the editor page and the scripts, process start. `PROJECT.json` lists every one
with its files and the reason.

### How the components interact

- **Calls inside a request.** A POST resolves project, universe and world, then
  `_execute_command` takes the world lock or not, inserts a command log, and
  calls one executor. ObjectBatch calls the PlaceObject and RemoveObject
  executors one after another under the same log; a planned building's edit or
  deletion first compares the generation and derives the removals. The route
  alone commits or rolls back.
- **Shared rows.** Requests meet only in PostgreSQL, at READ COMMITTED: in the
  world row, in the unique index of chunk coordinates, in the unique command id,
  in the unique object id, in the rows they update. No row carries a version
  that SQLAlchemy checks. What a request has read may be stale when it writes.
- **Locks.** A command with a `commandId`, or one in a world that has LoD2
  buildings, selects the world row FOR UPDATE (`routes/commands.py:4956-4961`).
  Every command inserts a log with a foreign key to that row, for which
  PostgreSQL takes FOR KEY SHARE; FOR UPDATE excludes it. Hence a command that
  takes no lock still waits for one that did, and two that took none run
  concurrently.
- **Two records of one fact.** An object's cells stand in the chunk's content and
  in the chunk reference rows; RemoveObject needs both. A building's import
  stands in the ledger and in its roofs. A chunk's history stands in events and
  in the snapshot. The owner of a project stands in its row and in an assignment.
- **Files.** Editor datasets are published and selected in a directory shared by
  scripts and server processes. Only exclusive creation and rename order them.

### What is hard here

The hazards are listed with their lines in `PROJECT.json`. In short: unlocked
commands that interleave; retries that race with the first request; a deadlock
between a read that materializes a chunk and a locked command; a transaction
that fails after half its chunks; records of a cell that drift apart over a long
sequence of placements, overwritings, moves and removals; metadata written back
as read before a lock; lists and comparisons made early in a transaction and used
late; ids that stay taken after a soft delete; a batch whose session breaks in the
middle; rows locked in opposite orders; a file read after its stamp was taken; a
script killed between two system calls.

## 2. The modules

| Module | Role |
|---|---|
| `WorldCommandRoute` | the transaction protocol of commands and materializing reads |
| `AtomicCommands` | what it promises: every command is one indivisible step, once per id |
| `CellOwnership` | the executors as commands on the owners of cells |
| `LastWriterWins` | what they promise: the ownership policy `last-writer-wins-v1` |
| `PlanningGeneration` | the compare-and-swap of a building, child by child |
| `BuildingGenerations` | what it promises: saves, deletions and single commands as whole steps |
| `Lod2World` | imports beside user commands |
| `RoofProjection` | Lod2World composed with an active dataset and chunk requests |
| `ChunkBatchLoad` | the batch load beside commands over several chunks |
| `BatchChunkMutation` | the write-back cache of an object batch |
| `BatchEdit` | what it promises: one private copy, edited in order, stored whole |
| `BundleWriter` | processes that publish dataset bundles |
| `BundleStore` | what they promise: bundles appear whole and stay |
| `DatasetSelection` | selecting a bundle, and the cache of the selected one; extends BundleStore |
| `EditorDataset` | BundleWriter and DatasetSelection on one directory |
| `ProjectGraph` | requests that change a project, its parts and its owners |
| `ProjectRecord` | what they promise: one record that changes as a whole, and the two requests that may take it apart |
| `MC...` | the small instances of the module of that name |
| `...Proofs` | its theorems; `EditorDatasetProofs` has those of BundleWriter and DatasetSelection too |

The modules layer the system by grain. `WorldCommandRoute` interleaves requests
at their reads, locks and writes but treats an executor as "edit one cell in each
of these chunks"; it shows that a command which holds the lock is atomic.
`CellOwnership` builds on that: a command is one step, but with everything the
executors do to both records of ownership. `PlanningGeneration` and `Lod2World`
again interleave, around the same two locks, at the points where they read what
they later rely on. `ChunkBatchLoad` takes the same locks at the grain of a single
insert, and `BatchChunkMutation` looks into one executor, which the others take as
a step. `RoofProjection` extends `Lod2World`; `BundleWriter` stands under
`DatasetSelection`, which sees of it only its abstract specification, and
`EditorDataset` puts it there. Six modules
implement an abstract specification that knows nothing of locks, transactions,
caches or system calls.

Definitions commented "Mutant" are faulty variants of the definition after them.
Nothing uses them; a mutation run replaces the definition by its variant and must
find the property violated, so that each property is known to depend on the code.

### WorldCommandRoute

Each request carries one payload and passes through `pc`:

| Action | Code |
|---|---|
| Begin | the route decodes and resolves the world |
| LockWorld | `SELECT id ... FOR UPDATE`: waits for other locks and key shares |
| LookupReceipt, AnswerFromReceipt | the log with this id, `replay_result` |
| InsertCommandLog, DuplicateCommandId | `_create_command_log` and its flush: unique id, foreign key |
| LoadChunk, SkipChunk, SaveChunk, DuplicateChunk | `_load_chunk_for_mutation`, no change, `_save_snapshot_after_mutation` with the event; the unique coordinates |
| Commit | `mark_applied`, commit; the answer may be lost |
| ReadStored, GenerateForRead, InsertMaterialized, CommitMaterialized | GET with `materialize=true` |
| Abort, DeadlockAbort | an exception or lost connection; PostgreSQL's detector |

`snapshots`, `events` and `receipts` are the committed rows, `pending` a
request's uncommitted ones. The content of a chunk is a set of filled cells and
stands for its hash too. A retry is another request with the same payload. The
alias `command_id`, which neither locks nor looks up, is left out, and so are the
several events an ObjectBatch may write in one chunk (BatchChunkMutation has them).

The properties: the chain of events is unbroken and replays to the snapshot; an
id executes once; an answer rests on a stored receipt; nobody stores a chunk
under another's lock; the route refines `AtomicCommands`; every request ends.

### CellOwnership

`block` is what fills a cell. `listed` and `runtimeCells` are the chunk's
`objectRefs` and their `occupiedCells`; `refChunks` and `records` are the rows of
`world_object_chunk_refs` with a record of each cell, the terrain underlay.
`writer`, `covered` and `edited` are history: who wrote a cell last, which terrain
it covered, and whether somebody has used WorldEdit. They are changed where a
command writes a cell and read by no guard.

| Action | Code |
|---|---|
| PlaceObject | `_execute_place_object`: a new object, a geometry update, a change to metadata only (RouteOnly) |
| RemoveObject | `_execute_remove_object` with the restoring of terrain |
| SetBlock, RemoveBlock | `_execute_set_or_remove_block`; RemoveBlock on a semantic object drops its reference in this chunk and leaves its other cells there |
| WorldEdit | `_execute_world_edit`: writes cells, detaches nobody |

SetBlock stands for ReplaceBlock too. WorldEdit's brush, fill, replace, cut and
paste are one record: which blocks are overwritten, and with what. The order of
`objectRefs` decides which of two references is asked first; the model removes
any subset of contested cells instead, and `SoleClaim` shows that there are none.
The palette of a chunk is taken never to shrink, so that a recorded terrain block
can always be restored. No building is filled with terrain.

The properties: the two records agree and no cell has two owners; an object that
leaves leaves none of its last writes. As long as nobody has used WorldEdit, it
also takes only those, and the executors refine `LastWriterWins`; WorldEdit breaks
both (section 6), which is why these two look at `edited`.

### PlanningGeneration

`status` and `generation` are the committed object rows. A worker thread takes
one request after another, so the number of requests is unbounded; ids and
generations bound the state.

| Action | Code |
|---|---|
| Begin, LockWorld, InsertCommandLog | as in WorldCommandRoute |
| CompareGeneration, RefuseStale | the stored parent against `previousGenerationId` |
| ListRetired, RefuseReuse | the active children with `generatedFromAreaId`; a replacement needs new ids |
| SelectInstance, InstanceNotFound | each child command selects the active instance, removals first |
| WriteInstance, DuplicateInstance | insert, update or soft-delete by primary key; the unique id covers removed rows |
| Commit, Abort | the route |

An update does not touch `deleted_at`, so updating a row that was removed
meanwhile leaves it removed. PlaceObject and RemoveObject on a single object are
the same machine with one child (`put`, `drop`) and go without lock in the passing
run. The payload's own validation (the parent's manifest lists exactly the placed
children) is an assumption on the commands offered. A field `serialized` says
whether the command takes the lock: it has a `commandId`, or the world has LoD2
buildings.

The properties: after a save the building has exactly the children of the new
generation; a save or deletion commits only over the generation its client
loaded; a removed object never becomes active again; the commands refine
`BuildingGenerations`.

### Lod2World

`config` is `world.metadata_json["lod2Buildings"]`: enabled, the ledger of
receipts, the tombstones of removed roofs. Everyone who changes it writes it
whole. An import locks the row and rereads it (LockForImport, Inspect, Import);
a command uses the row it loaded before the lock (Begin, LockWorld,
InsertCommandLog, then EditCell or RemoveRoof). `logged` are the affected cells of
all command logs, which an import leaves alone; `touched` is history: the cells
users really changed. Configure is the operator's script. An import may skip any
set of cells, which covers chunks whose snapshot no command wrote. A removed roof
keeps its id, so that an import that would place it again is refused as a whole.

The properties: nothing of the world changes while an import holds it; an import
never alters a cell a user changed; a removed roof stays removed; a building in
the ledger has all its roofs; receipts survive unless a facade is preserved.

`RoofProjection` adds what `attach_active_editor_dataset` shows: the roofs of an
immutable bundle, minus those that the world row hides by tombstone or ledger. A
chunk request loads the row (BeginView) and reads the references later
(ReadChunk). `gone` is history: what was removed before the request began. The
property: none of it is shown. Its second hypothesis besides "no facade is
preserved" is that the operator has not replaced the config, which empties the
ledger on purpose; `reset` remembers that.

### ChunkBatchLoad

| Action | Code |
|---|---|
| Begin | flags and the list of chunks, without duplicates |
| Prefetch | `_find_chunk_snapshots`: one statement, one state; a batch without chunks ends after it |
| ShowStored, ShowGenerated | `_load_or_generate_chunk` with the prefetched snapshot |
| InsertEntry, CheckKey, Duplicate | `_materialize_generated_chunk`: the flush waits for the unique index, then for the world row |
| ItemFails, Refuse | an exception inside the loop: the chunk becomes an error of the answer |
| End, Abort | rollback if there are errors, else commit; an exception outside the loop |
| BeginCommand, LockWorld, WriteChunk, Commit, Rollback | a command under the world lock, chunk by chunk |
| BreakDeadlock | PostgreSQL's detector, which ends one in a circle of any length |

`broken` says that a flush failed: the transaction is over and its inserts are
gone, the session refuses every later chunk, and the loop goes on. The content of
a chunk is the number of commands that changed it; `during` is history, the states
of the world while a batch ran.

The properties: all chunks of an answer were so at one moment of the batch; a
batch without errors has stored what it reports as created, one with errors
nothing; no command and no batch waits for ever, whatever orders they insert in.
That an answer with errors still lists the chunks it had created, with
`ok: false`, is what the code does; only their storage is a property.

### BatchChunkMutation

The snapshots a batch loads are taken out of the SQLAlchemy session, kept under
their row id (`deferred`) and, once changed, cached with their content (`cache`).
Load, OnlyRead and Save are what a child does to one chunk; Commit writes the
deferred objects, Abort forgets them. `refList` is the cached list of a chunk's
references, `refs` the truth in the transaction. EditElsewhere is another command
between two batches. The memo of projected references is a pure function of one
reference and left out.

The properties: the cache is one private copy that commits or vanishes whole
(refinement of `BatchEdit`); no active reference is missing from a list; the last
event of a chunk has the revision and content that is stored.

### BundleWriter, DatasetSelection and EditorDataset

BundleWriter is `write_editor_dataset` system call by system call: look at the
target, create the lock file with O_EXCL, write the files, look again, rename,
unlink. Every call may fail and a writer may be killed between any two; the lock
file of a killed writer is `Orphan`. Properties: two writers never fill or publish
one name at a time; bundles appear whole and are never replaced (refinement of
`BundleStore`); an orphaned lock blocks its name for good, and only a killed
writer leaves one.

DatasetSelection is the selector file, the two scripts that replace it, and
`load_active_editor_dataset` in the threads of a server process: take the stamp,
look into the cache, else read the selector, validate, store the entry. The
selector may change between stamp and read, threads overwrite the entry with
older loads, processes restart. Properties: a load answers with a bundle that was
selected while it ran, unless two selections fall into one tick of the file
system's clock; a script that imports selects nothing that is not committed.

EditorDataset runs both specifications on one directory: the writers' steps are
those of BundleWriter, and the selection's are those of DatasetSelection without its
own PublishBundle.

### ProjectGraph

One App project: its row, its roles, universe, world and the assignments of its
Owner role, each with a row lock. `pc` names the row a request is about to lock.

| Action | Code |
|---|---|
| Begin, FindNothing, Insert, UniqueViolation | `_provision_once` and the single retry of `ensure_chunk_project_for_app_project`; the same lookup of the access routes |
| LockProject, LockPart, LockAssignments | FOR UPDATE of each table, with the checks that refuse a request |
| Commit | roles, assignments, universe and world created, restored or handed over |
| BeginDelete, DeleteRow, DeleteAssignments, DeleteRoles, CommitDelete | `_soft_delete_project_graph_response`: reads without lock, locks by changing, in the opposite order |
| Fail, BreakDeadlock | an exception; PostgreSQL's detector |

What a request writes is computed from what it read (`changes`, `seen`). A deletion
is late (`DeletesLate`) if the project was deleted already when it read it: it then
takes no lock of the project. `halved` and `diverged` are history since the last
ensure: a late deletion has hit the project in use, or `access/initialize` with
`replaceExistingOwner` has made someone else owner. After either, the tables of the
project may disagree (section 6). Commits set the two, and no guard reads them.

The properties: what provisioning answers for is whole, whatever runs beside it;
an ensure that lost the race finds the project on its only retry; the tables refine
`ProjectRecord`, without a condition; every request ends. `ProjectRecord` says how
far the two requests may take a project apart: a late deletion takes parts and
owners and nothing else, and only of a project that was deleted when it began; an
appointment leaves one owner, and a second one only joins by a grant to the user
the project names; a project that is not in use keeps nothing in use; and an
ensure makes it whole.

## 3. The runs

All numbers are distinct states.

| Run | Checks | Bounds |
|---|---|---|
| `command_route_locked`, 34 715 | all properties of the route, liveness included | 3 requests, 2 worlds, 3 chunks, 2 ids; at most one command per world without lock |
| `cell_ownership`, 269 476 | agreement, removal, and the policy until the first WorldEdit | 2 objects, 3 cells in 2 chunks, 7 placements, 3 world edits |
| `planning_generation`, 35 600 | completeness, first saver, removal, refinement | 2 threads, 2 buildings, 4 children, 9 commands, any number of requests |
| `lod2_world`, 780 102 | locks, edits, roofs, ledger | 2 users, 2 imports, 2 buildings with a roof and a wall cell each |
| `roof_projection`, 450 311 | removed roofs stay hidden, receipts survive | the same without walls, 1 viewer who asks any number of times, no preserved facade |
| `chunk_batch_load`, 48 151 | one state, all or nothing, liveness | 2 batches in opposite orders with 5 settings of the flags or without chunks, 2 commands, 2 chunks |
| `object_batch`, 574 588 | the write-back cache as one copy | 2 chunks, 4 snapshot objects, revisions to 4, any number of batches |
| `bundle_writer`, 292 724 | whole bundles, orphans, release of the lock file | 3 writers, 2 names, 2 files, any number of runs and kills |
| `dataset_selection`, 355 466 | current answers, import before selection | 2 bundles, 1 script at a time, 2 threads, clock of 2 readings, restarts |
| `project_graph`, 143 578 | whole answers, retry, refinement, liveness | 2 processes, 2 users, 12 kinds of requests, any number of them |
| `cell_ownership_overwritten` | violated: LeavingSparesNewerWrites | WorldEdit over an object |
| `lod2_lost_receipt` | violated: ReceiptsSurvive | as `lod2_world`, with preserved facades |

The remaining configurations are the counterexamples that section 6 refers to:
run TLC on them to see the trace.

**Why the bounds are enough to be interesting.** Three requests are a command,
its retry and a stranger, or two commands and a read; every wait and both kinds
of unique violation occur, and so does the deadlock. Two chunks in one world make
a command partial, the second world lets an id be reused elsewhere. Two
objects that overlap in one chunk and not in the other give every case of the
detaching code: same chunk, other chunk, semantic or plain, metadata only, with
terrain below or not. Two editors of a house and a third, unlocked hand on its
roofs are what the generation check is for. Two overlapping imports and two users
give a receipt that is stale and an edit on each side of an import. Two batches in
opposite orders and two commands, one on both chunks and one on a single chunk,
give every wait, both deadlocks (two batches; a batch and a command) and a broken
session with a chunk still to come. Four snapshot objects are two per chunk: one
loaded only to be read and one that is changed. Three writers of two names are an
orphan, a holder and a loser. Two threads and a selection between stamp and read
let an older load overwrite a newer entry. Two processes of ProjectGraph, each
taking one request after another, meet in every pair of requests at every row;
three exceed what TLC finishes (more than 6.7 million states), and the proofs
cover them. The proofs do not depend on these bounds.

Deadlock is checked where a run is not expected to fail: `WorldCommandRoute` ends
and `ChunkBatchLoad` end in an explicit stuttering step when every request is
answered. The actors of `Lod2World` arrive once, but Configure is always possible
when they are done. In the other modules somebody can always begin again.

## 4. Fairness

Four modules state liveness, each under its `FairSpec`. Common to all: a worker
executes a request to the end without waiting for another request except through
a database lock, and PostgreSQL runs its deadlock detector. Nothing forces a
request to be sent, to fail, or to lose its connection: Begin and the failing
actions are not fair.

- `WorldCommandRoute`, `ChunkBatchLoad`: weak fairness of each started request's
  next step, and of the detector. Each request arrives once, so that no stream of
  new ones starves a waiting one. The service itself does not promise more:
  FOR KEY SHARE is granted past a waiting FOR UPDATE.
- `ProjectGraph`: strong fairness of each request's next step, because here
  requests keep coming and every lock is exclusive. PostgreSQL queues the
  transactions that wait for one row, so that one that finds it free again and
  again is granted it. Weak fairness of the detector.
- `BundleWriter`: weak fairness of a writer's next system call. Killing it is not
  fair and not excluded; a lock file is then orphaned, which the property allows.

The other modules state no liveness: their waits are those of
`WorldCommandRoute`, or they do not wait.

## 5. The proofs

Each `...Proofs` module proves its properties from an inductive invariant that
TLC has checked too; RouteInv, GenerationInv, SelectionInv and BatchInv, which are
proved here, are not repeated in the runs. Every safety property and refinement
that a passing run checks is stated by a theorem. The theorems hold for all values of the constants that satisfy the named
assumptions (distinct absent values, functions of the right type, payloads whose
chunks belong to their world).

- **WorldCommandRouteProofs.** `ProtocolInv`, which holds whatever clients send,
  says which lock and which index entry a request holds at which step, and that
  lock and key share exclude each other; from it TypeCorrect, AnswersStayDurable,
  LockExcludesWriters and ProtocolCorrect follow. CommandsRunOnce needs
  `ExecutionInv` besides: each event belongs to an applied command, which has one
  in some chunk of its payload and never two in one chunk. The protocol does not
  imply it: executions are counted in the committed events, which outlive every
  lock.
  EveryDeadlockIsAPair shows that DeadlockAbort, which looks at two requests, misses
  no deadlock of any number of them: more requests than TLC can take add no circle
  that would stay unbroken. `EveryRequestEnds` itself remains model-checked. `LogOwnerInv` and `RowOwnerInv` say who
  can be waited for at all; the holder of a world row is then held up only by a read
  whose foreign key check waits for that very row, and waits for chunk rows alone
  lead to ever greater chunks (`VisitInv`), which are bounded. The theorem assumes,
  as the model does, that every command visits its chunks in increasing order.
  `sorted(grouped)` in the executors gives that; an UpdateObject that moves an object
  visits the vacated chunks after the others (`routes/commands.py:4101`) and an
  ObjectBatch starts again with each child, so without a commandId these may wait
  for each other in a longer circle, which PostgreSQL breaks as well. No run names
  `DeadlocksArePairs`, the property of this theorem: the two instances of
  `MCWorldCommandRoute` with SafeLocking and without it satisfy it.
  `SerialInv` says that what a request loaded, skipped or wrote still fits the
  committed rows. It needs `SafeLocking`: of two commands of one world at most one
  goes without lock. Under this hypothesis ChainStaysUnbroken, RouteIsCorrect and
  the refinement RouteImplementsAtomicCommands are proved. It cannot be weakened
  away: `command_route_unlocked` is the counterexample.
  NoEditIsLost compares the snapshot with a recursion over all events of its
  chunk. `ReplayInv` (each event applies its command's payload to what the
  event before it left) makes a step's claim local; that the recursion has one solution,
  so that it may be extended by an event, is shown with the least revision at which
  two solutions differ (ReplayIsUnique).
- **CellOwnershipProofs.** `OwnershipInv` adds to the agreement of the two records
  that the last writer of a cell still holds it (`WriterHolds`) and, while `edited`
  is false, that claims are exactly last writes and records are what was covered
  (`ClaimsAreLastWrites`). Agreement alone is not inductive for the removal
  properties: they compare a record with history. OwnershipInvariant, TypeCorrect,
  ReferencesAgree, NothingStays, OnlyOwnWrites and Refinement need no hypothesis.
- **PlanningGenerationProofs.** `GenerationInv` is `RequestInv` (types, locks,
  work left, row owners) and `ComparedInv`: once compared and listed, a building's
  generation and active children stay so. The first part needs no hypothesis and
  gives TypeCorrect and RemovedStaysRemoved. The second needs that every save and
  deletion takes the lock; commands on single objects need not. It gives
  GenerationInvariant, SavesAreComplete, FirstSaverIsKept and the refinement
  CommandsAreAtomic.
- **Lod2WorldProofs.** `Lod2Inv` says that an import still sees the config it read
  and has found every touched cell, and that ledgers loaded by commands only name
  imported buildings. Lod2Invariant, ReceiptsAreWhole, ImportsAreAlone,
  EditsAreKept and RemovalsAreFinal need no hypothesis; ReceiptsAreKept assumes
  that no removal preserves a facade. Under the same hypothesis ViewsAreOfLedger
  and RemovedRoofsAreHidden hold of RoofProjection: every roof ever placed is in
  the ledger, a request has loaded that ledger, and what was gone when it began is
  still gone when it reads. The second is not inductive without the first.
- **BatchChunkMutationProofs.** `BatchInv`: a cached object is the deferred one and
  has the cached content and the last event; a chunk that is not cached is stored
  as it was, and so is the object read of it; no object serves two chunks; the
  running child holds the current state. From it the refinement of BatchEdit.
- **EditorDatasetProofs.** Of the writers: `WriterInv`, a lock
  file belongs to the one writer who is past its creation, although the unlink
  names a path and no owner, and nothing took a target between the second look and
  the rename. Of the selection: `SelectionInv` orders the selector, the entries and
  the loads by the clock; what an entry names was selected no earlier than its
  stamp. A load that finds an equal stamp is therefore given what was selected at
  that tick or later, and it has watched all of these.
  `EditorSpec` runs both on one directory, system call by system call. EditorWrites
  and EditorSelects show that it implements both specifications: each rename is
  one PublishBundle of DatasetSelection, every other call of a writer a stuttering step.
  Hence the answers stay current however writers fail (EditorAnswersAreCurrent).
- **ChunkBatchLoadProofs.** `TransactionsInv`: the answer is filled in the order of
  the request (`QueueInv`), a created chunk in it is a row the batch still owns
  (`AnswerInv`), nobody can store or see that row meanwhile (`LocksInv`), and what
  the lookup found was the world at some moment since (`WatchInv`). None of the
  four is inductive alone. A step of one request leaves the other batches
  undisturbed; so one proof covers commands and batches alike. TransactionsAreKept,
  AnswersShowOneState and BatchesAreAllOrNothing need no hypothesis. That no chunk
  occurs twice in a batch (`Distinct`) is what `_normalize_chunk_items` ensures.
- **ProjectGraphProofs.** `GraphInv`: a request holds exactly the locks of the rows
  it has passed, so what it read there is still so (`FreshInv`); a deletion
  of a project in use holds the project, and beside it only late deletions write,
  which take away: what it has read covers what is there (`Undisturbed`). So it leaves
  nothing, and a project in use is whole but for what `halved` and `diverged` record
  (`Together`). The refinement splits each commit into the case of a late deletion,
  of an access route and of an ensure. All four theorems hold without hypothesis
  for any number of processes, users and requests.

**Only model-checked.** EveryRequestEnds, of three modules, and LockIsReleased:
liveness under fairness is out of the prover's reach. Only model-checked too are the
counterexamples of section 6, which show that a hypothesis is needed. `EditorSpec`
has no run of its own; TLC finishes it with one writer, two names and one thread
(451 604 states) without finding a violation of `WriterInv`, `SelectionInv` or
DatasetSelection's `Spec`.

## 6. Where code and documentation disagree

Each has a configuration that exhibits it. The first two are runs listed under
"findings"; the others are kept beside them.

1. WorldEdit overwrites cells of an object without detaching them. If it wrote
   the object's own block type, RemoveObject erases the newer write
   (`CellOwnershipOverwritten.cfg`); the comment at `routes/commands.py:2861`
   excludes that for any explicit cell mutation.
2. RemoveObject with `preserveLod2Facade` writes `lod2Buildings` as loaded before
   the lock and drops receipts committed in between (`Lod2LostReceipt.cfg`).
   With an active dataset a roof removed long before is then shown again
   (`RoofProjectionLost.cfg`), which the comment at
   `src/editor_dataset/runtime.py:727` means to prevent.
3. Two commands without `commandId` in a world without LoD2 buildings take no
   lock; both load one revision, both are answered, the first edit is gone
   (`CommandRouteUnlocked.cfg`). `README.md:1172` asks that changes remain visible
   after reloading.
4. A command that changed nothing is stored as `noop`, and its identical retry is
   refused (`CommandRouteNoopRetry.cfg`) although the docstring of `replay_result`
   (`src/planning_generation.py:109`) speaks of a different edit.
5. Placing an active object again takes back cells that another object has owned
   since (`CellOwnershipUpdate.cfg`); the docstring at `routes/commands.py:3507`
   says "without stealing owned voxel cells".
6. Two saves of one building without `commandId` in a world without LoD2
   buildings both pass the comparison; the children of both remain
   (`PlanningUnlocked.cfg`). `src/planning_generation.py:102` excludes that.
7. Deleting a deleted project while an ensure restores it leaves a project in use
   without some of its parts, for example its world and its roles
   (`ProjectGraphHalfDeleted.cfg`); the docstring of `delete_project` says
   "Idempotently soft-delete Project, Universe, World and project-access rows."
   `DeleteLate` of ProjectRecord bounds what is lost.
8. `access/initialize` with `replaceExistingOwner` moves the Owner assignment but
   not the project row, which still names its owner; an assignment of the role to
   that one gives the project two active owners (`ProjectGraphTwoOwners.cfg`; `Appoint`
   and then `Grant` of ProjectRecord).
   `src/project_access/service.py:1133` promises a unique active assignment.
9. The docstring of PATCH (`routes/projects.py:3306`) speaks of "an explicitly
   allowed owner transfer", while the handler refuses every owner key. No run: it
   is seen by reading.

## 7. What is not modelled

- Geometry, materials, formats, palettes, hashes, HTTP status and wording. None of
  the properties depends on them; a hash is its content.
- The limits of a batch, and which children a planned building produces.
- The first conversion of an imported building to a planned one, the roof
  refinement, the facade repair, tree materialization, `preserveLod2Facade` as
  geometry. The first two lock and reread as the import does.
- Superseded and compensated events, archived snapshots and objects: no route
  produces them.
- Of the batch load, commands that take no lock (they are in WorldCommandRoute) and
  the structure hints of the answer.
- Of the datasets, what the processors compute, the hashes, and the caches of
  chunks and indices, which are keyed by the immutable bundle; only their size is
  bounded by dropping an entry.
- Of projects, PATCH, groups, memberships and the other roles, which are rows of
  one project locked by the same handlers; colliding public ids; archived rows;
  the projection of App grants; service tokens.
- Coordinates and dirty chunks: pure integer functions of one cell whose
  boundaries unit tests cover, and whose results the server hands out as hints.
- Floating-point projections, noise and elevation, and the pure reductions for
  the editor.
- Registration of a library block at its first placement: the row is immutable
  afterwards; the race is listed as a hazard.
- Database bootstrap: an explicit mode of the entrypoint that never runs in a
  worker. Its advisory lock belongs to the database session and ends with it; the
  rest is DDL and seeding of constants.
- Repair scripts that are run once, start-up code, the demonstration client.

These parts are large: the source has some 177 000 lines, most of them
serialisation, validation, seeding, geometry and read-only routes, which leave
nothing for a model of states to say.

## 8. What is left

The parts whose concurrency or sequencing matters most are modelled. What could
still be said about them, in this order:

- trees and library blocks in CellOwnership, whose first use adds a row;
- the first conversion of an imported building in PlanningGeneration;
- the composition of PlanningGeneration's children with the cells they occupy;
- the synchronisation of App grants beside ProjectGraph's assignments.

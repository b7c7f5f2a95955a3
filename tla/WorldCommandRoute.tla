-------------------------- MODULE WorldCommandRoute --------------------------
(***************************************************************************)
(* The transaction protocol of POST .../worlds/<world>/commands            *)
(* (routes/commands.py), of GET .../chunks?materialize=true                *)
(* (routes/chunks.py), and of the PostgreSQL rows both touch.              *)
(*                                                                         *)
(* Every HTTP request is one database transaction at READ COMMITTED: it    *)
(* reads what is committed when it reads, keeps its writes to itself until *)
(* it commits, and loses them when it rolls back.  Three kinds of waiting  *)
(* are modelled because the code's guarantees rest on them:                *)
(*   - SELECT ... FOR UPDATE on the world row, taken by a command that     *)
(*     carries a commandId or edits a world with LoD2 buildings;           *)
(*   - the FOR KEY SHARE that PostgreSQL takes on the world row to check   *)
(*     the foreign key of an inserted row: FOR UPDATE excludes it;         *)
(*   - the row and unique-index entry of an uncommitted insert or update.  *)
(*                                                                         *)
(* The content of a chunk is abstracted to the set of its filled cells and *)
(* stands for its content hash too.  A command fills or clears one cell in *)
(* each chunk of a set: SetBlock, ReplaceBlock and RemoveBlock touch one   *)
(* chunk, WorldEdit and the object commands several.                       *)
(***************************************************************************)
EXTENDS Integers, Sequences, FiniteSets

CONSTANTS
    Requests,    \* HTTP requests; each arrives once, a retry is another one
    CommandIds,  \* the client-chosen commandId values
    NoId,        \* the payload carries no commandId
    Worlds,
    Lod2Worlds,  \* worlds whose metadata enables lod2Buildings
    Chunks,      \* numbered in the order a command visits them
    WorldOf,     \* the world of a chunk
    Cells,
    Base,        \* what the provider generates for a chunk without snapshot
    Menu,        \* the payloads a request may carry: bounds the model
    NoRequest, NoSnapshot, NoReceipt, NoWrite

Payloads == [kind: {"command", "materialize"}, id: CommandIds \cup {NoId},
             world: Worlds, chunks: SUBSET Chunks, cell: Cells, fill: BOOLEAN]

Snapshots == [revision: Nat, content: SUBSET Cells]
MaybeSnapshot == Snapshots \cup {NoSnapshot}
Keys == CommandIds \cup Requests   \* a generated command id is the request's own
Receipts == [payload: Payloads, status: {"applied", "noop"}]
Writes == [before: MaybeSnapshot, after: Snapshots]
EventRecords == [key: Keys, before: MaybeSnapshot, after: Snapshots]

ASSUME ChunksAssumption ==
    /\ Chunks \subseteq Nat
    /\ WorldOf \in [Chunks -> Worlds]
    /\ Base \in [Chunks -> SUBSET Cells]

ASSUME MenuAssumption ==
    /\ Menu \in [Requests -> SUBSET Payloads]
    /\ \A r \in Requests : \A p \in Menu[r] :
          /\ \A c \in p.chunks : WorldOf[c] = p.world
          /\ p.kind = "materialize" => p.id = NoId /\ \E c \in Chunks : p.chunks = {c}

ASSUME AbsentValuesAssumption ==
    /\ NoId \notin CommandIds
    /\ CommandIds \cap Requests = {}
    /\ NoRequest \notin Requests
    /\ NoSnapshot \notin Snapshots
    /\ NoReceipt \notin Receipts
    /\ NoWrite \notin Writes

VARIABLES
    snapshots,  \* chunk_snapshots, committed rows
    events,     \* chunk_events of a chunk, committed rows in commit order
    receipts,   \* world_command_logs, committed rows by command_id
    worldLock,  \* who holds the world row FOR UPDATE
    keyShare,   \* who holds it FOR KEY SHARE
    rowOwner,   \* whose uncommitted insert or update owns the chunk's row
    logOwner,   \* whose uncommitted insert owns the command_id
    pc, payload, todo, view, pending, reply   \* each request's own

durable == <<snapshots, events, receipts>>
locks   == <<worldLock, keyShare, rowOwner, logOwner>>
local   == <<pc, payload, todo, view, pending, reply>>
vars    == <<durable, locks, local>>

-----------------------------------------------------------------------------

Key(r) == IF payload[r].id = NoId THEN r ELSE payload[r].id
World(r) == payload[r].world
IsCommand(r) == payload[r].kind = "command"

\* Definitions marked "Mutant" are faulty variants of the one that follows; the
\* mutation runs replace it by them, nothing else uses them.

\* Mutant: only LoD2 worlds are serialised.
NeedsLockForLod2Only(p) == p.world \in Lod2Worlds

\* The condition of _execute_command for SELECT ... FOR UPDATE.
NeedsLock(p) == p.id # NoId \/ p.world \in Lod2Worlds

\* Mutant: any applied receipt with the id is replayed.
ReplayableById(receipt, p) == receipt.status = "applied"

\* replay_result answers only a retry of the same, applied request.
Replayable(receipt, p) == receipt.payload = p /\ receipt.status = "applied"

\* What a load shows: the snapshot's content, else the generated chunk.
ContentOf(c, snapshot) ==
    IF snapshot = NoSnapshot THEN Base[c] ELSE snapshot.content

\* The cells of one chunk after command p.
Edit(p, content) ==
    IF p.fill THEN content \cup {p.cell} ELSE content \ {p.cell}

\* create_for_world starts at revision 1, replace_content bumps it.
Mutated(snapshot, content) ==
    [revision |-> IF snapshot = NoSnapshot THEN 1 ELSE snapshot.revision + 1,
     content  |-> content]

NextChunk(r) == CHOOSE c \in todo[r] : \A d \in todo[r] : c <= d

Offered == UNION {Menu[r] : r \in Requests}

NoWrites == [c \in Chunks |-> NoWrite]

\* The end of a request: commit and rollback both release every lock.
Finish(r, answer) ==
    /\ pc' = [pc EXCEPT ![r] = "done"]
    /\ reply' = [reply EXCEPT ![r] = answer]
    /\ todo' = [todo EXCEPT ![r] = {}]
    /\ view' = [view EXCEPT ![r] = NoSnapshot]
    /\ pending' = [pending EXCEPT ![r] = NoWrites]
    /\ worldLock' = [w \in Worlds |-> IF worldLock[w] = r THEN NoRequest ELSE worldLock[w]]
    /\ keyShare' = [w \in Worlds |-> keyShare[w] \ {r}]
    /\ rowOwner' = [c \in Chunks |-> IF rowOwner[c] = r THEN NoRequest ELSE rowOwner[c]]
    /\ logOwner' = [k \in Keys |-> IF logOwner[k] = r THEN NoRequest ELSE logOwner[k]]
    /\ UNCHANGED payload

Rollback(r, answer) == Finish(r, answer) /\ UNCHANGED durable

Step(r, from, to) == pc[r] = from /\ pc' = [pc EXCEPT ![r] = to]

-----------------------------------------------------------------------------

Init ==
    /\ snapshots = [c \in Chunks |-> NoSnapshot]
    /\ events = [c \in Chunks |-> << >>]
    /\ receipts = [k \in Keys |-> NoReceipt]
    /\ worldLock = [w \in Worlds |-> NoRequest]
    /\ keyShare = [w \in Worlds |-> {}]
    /\ rowOwner = [c \in Chunks |-> NoRequest]
    /\ logOwner = [k \in Keys |-> NoRequest]
    /\ pc = [r \in Requests |-> "idle"]
    /\ payload \in {p \in [Requests -> Offered] : \A r \in Requests : p[r] \in Menu[r]}
    /\ todo = [r \in Requests |-> {}]
    /\ view = [r \in Requests |-> NoSnapshot]
    /\ pending = [r \in Requests |-> NoWrites]
    /\ reply = [r \in Requests |-> "none"]

\* The route decodes the payload and resolves project, universe and world.
Begin(r) ==
    /\ Step(r, "idle", IF ~IsCommand(r) THEN "load"
                       ELSE IF NeedsLock(payload[r]) THEN "lock" ELSE "log")
    /\ todo' = [todo EXCEPT ![r] = payload[r].chunks]
    /\ UNCHANGED <<durable, locks, payload, view, pending, reply>>

\* SELECT id ... FOR UPDATE waits for other lockers and for key shares.
LockWorld(r) ==
    /\ Step(r, "lock", IF payload[r].id = NoId THEN "log" ELSE "lookup")
    /\ worldLock[World(r)] = NoRequest
    /\ keyShare[World(r)] = {}
    /\ worldLock' = [worldLock EXCEPT ![World(r)] = r]
    /\ UNCHANGED <<durable, keyShare, rowOwner, logOwner, payload, todo, view, pending, reply>>

\* The receipt lookup before the execution: no receipt, go on.
LookupReceipt(r) ==
    /\ Step(r, "lookup", "log")
    /\ receipts[Key(r)] = NoReceipt
    /\ UNCHANGED <<durable, locks, payload, todo, view, pending, reply>>

\* A receipt answers the request, or refuses it.
AnswerFromReceipt(r) ==
    /\ pc[r] = "lookup"
    /\ receipts[Key(r)] # NoReceipt
    /\ Rollback(r, IF Replayable(receipts[Key(r)], payload[r]) THEN "replayed" ELSE "rejected")

\* Mutant: the column is not unique.
IdTakenNever(k) == FALSE

\* unique=True on command_id: a committed row with this id.
IdTaken(k) == receipts[k] # NoReceipt

\* Mutant: the row has no foreign key to the world.
ForeignKeyUnchecked(r) == TRUE

\* A foreign key check takes the world row FOR KEY SHARE: no other request may
\* hold it FOR UPDATE.
ForeignKeyChecked(r) == worldLock[World(r)] \in {NoRequest, r}

\* _create_command_log: add and flush.  The unique index makes the insert
\* wait for an uncommitted row with the same id, the foreign key check for
\* another request's FOR UPDATE.
InsertCommandLog(r) ==
    /\ Step(r, "log", "load")
    /\ logOwner[Key(r)] = NoRequest
    /\ ~IdTaken(Key(r))
    /\ ForeignKeyChecked(r)
    /\ logOwner' = [logOwner EXCEPT ![Key(r)] = r]
    /\ keyShare' = [keyShare EXCEPT ![World(r)] = @ \cup {r}]
    /\ UNCHANGED <<durable, worldLock, rowOwner, payload, todo, view, pending, reply>>

DuplicateCommandId(r) ==
    /\ pc[r] = "log"
    /\ logOwner[Key(r)] = NoRequest
    /\ IdTaken(Key(r))
    /\ Rollback(r, "failed")

\* _load_chunk_for_mutation: the committed snapshot or the generated chunk.
LoadChunk(r) ==
    /\ IsCommand(r)
    /\ todo[r] # {}
    /\ Step(r, "load", "save")
    /\ view' = [view EXCEPT ![r] = snapshots[NextChunk(r)]]
    /\ UNCHANGED <<durable, locks, payload, todo, pending, reply>>

\* The chunk already has the requested cells: nothing is saved for it.
SkipChunk(r) ==
    LET c == NextChunk(r) IN
    /\ IsCommand(r)
    /\ Step(r, "save", "load")
    /\ Edit(payload[r], ContentOf(c, view[r])) = ContentOf(c, view[r])
    /\ todo' = [todo EXCEPT ![r] = @ \ {c}]
    /\ UNCHANGED <<durable, locks, payload, view, pending, reply>>

\* _save_snapshot_after_mutation and the event created from it.  An insert is
\* flushed at once; an update reaches the database at the next query or at the
\* final flush, and nothing the request shares changes in between.
SaveChunk(r) ==
    LET c     == NextChunk(r)
        after == Edit(payload[r], ContentOf(c, view[r])) IN
    /\ IsCommand(r)
    /\ Step(r, "save", "load")
    /\ after # ContentOf(c, view[r])
    /\ rowOwner[c] = NoRequest
    /\ view[r] = NoSnapshot => snapshots[c] = NoSnapshot
    /\ rowOwner' = [rowOwner EXCEPT ![c] = r]
    /\ pending' = [pending EXCEPT ![r][c] =
          [before |-> view[r], after |-> Mutated(view[r], after)]]
    /\ todo' = [todo EXCEPT ![r] = @ \ {c}]
    /\ UNCHANGED <<durable, worldLock, keyShare, logOwner, payload, view, reply>>

\* uq_chunk_snapshots_world_chunk_coords: another request stored the chunk that
\* this one, a command or a read, generated and wants to insert.
DuplicateChunk(r) ==
    LET c == NextChunk(r) IN
    /\ pc[r] = "save"
    /\ rowOwner[c] = NoRequest
    /\ view[r] = NoSnapshot /\ snapshots[c] # NoSnapshot
    /\ IsCommand(r) => Edit(payload[r], Base[c]) # Base[c]
    /\ Rollback(r, "failed")

Changed(r) == {c \in Chunks : pending[r][c] # NoWrite}

\* Mark the command applied or noop, flush, commit, answer.  The connection
\* may break after the commit and before the answer.
Commit(r) ==
    /\ IsCommand(r)
    /\ pc[r] = "load"
    /\ todo[r] = {}
    /\ snapshots' = [c \in Chunks |->
          IF c \in Changed(r) THEN pending[r][c].after ELSE snapshots[c]]
    /\ events' = [c \in Chunks |->
          IF c \in Changed(r)
          THEN Append(events[c], [key |-> Key(r), before |-> pending[r][c].before,
                                  after |-> pending[r][c].after])
          ELSE events[c]]
    /\ receipts' = [receipts EXCEPT ![Key(r)] =
          [payload |-> payload[r], status |-> IF Changed(r) = {} THEN "noop" ELSE "applied"]]
    /\ \E answer \in {"ok", "lost"} : Finish(r, answer)

-----------------------------------------------------------------------------
(* GET chunks?materialize=true: read, else generate, insert and commit.    *)

\* A stored chunk is answered.
ReadStored(r) ==
    /\ ~IsCommand(r)
    /\ pc[r] = "load"
    /\ snapshots[NextChunk(r)] # NoSnapshot
    /\ Rollback(r, "ok")

\* A missing one is generated.
GenerateForRead(r) ==
    /\ ~IsCommand(r)
    /\ Step(r, "load", "save")
    /\ snapshots[NextChunk(r)] = NoSnapshot
    /\ UNCHANGED <<durable, locks, payload, todo, view, pending, reply>>

\* _materialize_generated_chunk: the flush puts the row into the unique index
\* before the foreign key is checked.
InsertMaterialized(r) ==
    LET c == NextChunk(r) IN
    /\ ~IsCommand(r)
    /\ Step(r, "save", "key")
    /\ rowOwner[c] = NoRequest
    /\ snapshots[c] = NoSnapshot
    /\ rowOwner' = [rowOwner EXCEPT ![c] = r]
    /\ UNCHANGED <<durable, worldLock, keyShare, logOwner, payload, todo, view, pending, reply>>

\* The foreign key check waits for a FOR UPDATE; then the route commits.
CommitMaterialized(r) ==
    /\ pc[r] = "key"
    /\ ForeignKeyChecked(r)
    /\ snapshots' = [snapshots EXCEPT ![NextChunk(r)] = Mutated(NoSnapshot, Base[NextChunk(r)])]
    /\ UNCHANGED <<events, receipts>>
    /\ Finish(r, "ok")

-----------------------------------------------------------------------------

\* A validation error, an exception or a lost connection: rollback.
Abort(r) ==
    /\ pc[r] \notin {"idle", "done"}
    /\ Rollback(r, "failed")

\* A command that would leave the chunk as it is saves nothing.
Saves(r) ==
    LET content == ContentOf(NextChunk(r), view[r]) IN
    IsCommand(r) => Edit(payload[r], content) # content

\* Mutant: the wait of a foreign key check is invisible to the detector.
WaitsForRowsOnly(r, s) ==
    \/ pc[r] = "lock" /\ (worldLock[World(r)] = s \/ s \in keyShare[World(r)])
    \/ pc[r] = "log" /\ (worldLock[World(r)] = s \/ logOwner[Key(r)] = s)
    \/ pc[r] = "save" /\ Saves(r) /\ rowOwner[NextChunk(r)] = s

\* r cannot proceed before s ends.
WaitsFor(r, s) ==
    \/ pc[r] = "lock" /\ (worldLock[World(r)] = s \/ s \in keyShare[World(r)])
    \/ pc[r] = "log" /\ (worldLock[World(r)] = s \/ logOwner[Key(r)] = s)
    \/ pc[r] = "save" /\ Saves(r) /\ rowOwner[NextChunk(r)] = s
    \/ pc[r] = "key" /\ worldLock[World(r)] = s

\* PostgreSQL's deadlock detector aborts one of two transactions that wait for
\* each other.
DeadlockAbort(r) ==
    /\ \E s \in Requests \ {r} : WaitsFor(r, s) /\ WaitsFor(s, r)
    /\ Rollback(r, "failed")

Progress(r) ==
    \/ Begin(r) \/ LockWorld(r) \/ LookupReceipt(r) \/ InsertCommandLog(r)
    \/ LoadChunk(r) \/ SkipChunk(r) \/ SaveChunk(r) \/ Commit(r)
    \/ GenerateForRead(r) \/ InsertMaterialized(r) \/ CommitMaterialized(r)
    \/ AnswerFromReceipt(r) \/ ReadStored(r)
    \/ DuplicateCommandId(r) \/ DuplicateChunk(r) \/ DeadlockAbort(r)

Terminated == \A r \in Requests : pc[r] = "done"

Next ==
    \/ \E r \in Requests : Progress(r) \/ Abort(r)
    \/ Terminated /\ UNCHANGED vars

Spec == Init /\ [][Next]_vars

\* A worker thread that can go on does; nothing forces a request to fail.
FairSpec == Spec /\ \A r \in Requests : WF_vars(pc[r] # "idle" /\ Progress(r))

-----------------------------------------------------------------------------
(* Properties *)

TypeOK ==
    /\ snapshots \in [Chunks -> MaybeSnapshot]
    /\ events \in [Chunks -> Seq(EventRecords)]
    /\ receipts \in [Keys -> Receipts \cup {NoReceipt}]
    /\ worldLock \in [Worlds -> Requests \cup {NoRequest}]
    /\ keyShare \in [Worlds -> SUBSET Requests]
    /\ rowOwner \in [Chunks -> Requests \cup {NoRequest}]
    /\ logOwner \in [Keys -> Requests \cup {NoRequest}]
    /\ pc \in [Requests -> {"idle", "lock", "lookup", "log", "load", "save", "key", "done"}]
    /\ payload \in [Requests -> Payloads]
    /\ todo \in [Requests -> SUBSET Chunks]
    /\ view \in [Requests -> MaybeSnapshot]
    /\ pending \in [Requests -> [Chunks -> Writes \cup {NoWrite}]]
    /\ reply \in [Requests -> {"none", "ok", "lost", "replayed", "rejected", "failed"}]

\* The events of a chunk form one chain: each starts from the revision and the
\* content the previous one left, and the stored snapshot is the last one's
\* result (chunk_revision_before/after, content_hash_before/after).
UnbrokenRevisionChain ==
    \A c \in Chunks :
        /\ \A i \in 2..Len(events[c]) : events[c][i].before = events[c][i - 1].after
        /\ events[c] # << >> => snapshots[c] = events[c][Len(events[c])].after

\* No confirmed edit is lost: applying the commands of a chunk's events, in
\* order, to the generated chunk gives what a reader is shown.
HistoryReplaysToSnapshot ==
    \A c \in Chunks :
        LET replayed[i \in 0..Len(events[c])] ==
                IF i = 0 THEN Base[c]
                ELSE Edit(receipts[events[c][i].key].payload, replayed[i - 1])
        IN  replayed[Len(events[c])] = ContentOf(c, snapshots[c])

\* A command id stands for one execution: its events are those of its receipt,
\* at most one in each chunk of the payload, and none if it is a noop.  (The
\* children of an ObjectBatch may write several; BatchChunkMutation has those.)
OneExecutionPerCommandId ==
    \A k \in Keys :
        LET hits(c) == {i \in 1..Len(events[c]) : events[c][i].key = k}
            chunks  == {c \in Chunks : hits(c) # {}} IN
        /\ \A c \in Chunks : Cardinality(hits(c)) <= 1
        /\ chunks = {} <=> receipts[k] = NoReceipt \/ receipts[k].status = "noop"
        /\ chunks # {} => chunks \subseteq receipts[k].payload.chunks

\* A positive answer is backed by a committed receipt of this very payload,
\* whether it was executed now or replayed.
AnswersAreDurable ==
    \A r \in Requests : IsCommand(r) /\ reply[r] \in {"ok", "lost", "replayed"} =>
        /\ receipts[Key(r)] # NoReceipt
        /\ receipts[Key(r)].payload = payload[r]

\* While a request holds the world row FOR UPDATE no other request stores a
\* chunk of that world, not even one that takes no lock itself.
WorldLockExcludesWriters ==
    [][\A c \in Chunks : snapshots'[c] # snapshots[c] =>
          worldLock[WorldOf[c]] \in {NoRequest} \cup {r \in Requests : pc'[r] # pc[r]}]_vars

\* Every request that starts is answered: row waits end, deadlocks are broken.
EveryRequestEnds == \A r \in Requests : pc[r] # "idle" ~> pc[r] = "done"

\* The route implements AtomicCommands: what readers are shown and the stored
\* receipts change as if every command ran alone.
VisibleContent == [c \in Chunks |-> ContentOf(c, snapshots[c])]
Abstract == INSTANCE AtomicCommands WITH content <- VisibleContent, Payloads <- Offered
ImplementsAtomicCommands == Abstract!Spec

\* A retry with the same payload is refused only if the payload differs from
\* the stored one.
RetryIsReplayed ==
    \A r \in Requests : reply[r] = "rejected" => receipts[Key(r)].payload # payload[r]

-----------------------------------------------------------------------------
(* The inductive invariant behind the safety properties.  Executing(r) says *)
(* that r is between the insert of its command log and its commit.          *)

Executing(r) == IsCommand(r) /\ pc[r] \in {"load", "save"}

\* Of two requests that command the same world at most one may go without the
\* world lock.  It holds when every client sends a commandId.
SafeLocking ==
    \A r, s \in Requests : \A p \in Menu[r], q \in Menu[s] :
        r # s /\ p.kind = "command" /\ q.kind = "command" /\ p.world = q.world
            => NeedsLock(p) \/ NeedsLock(q)

\* What a request still has to visit is part of its payload.
WorkInv ==
    \A r \in Requests :
        /\ payload[r] \in Menu[r]
        /\ todo[r] \subseteq payload[r].chunks
        /\ pc[r] \in {"lock", "lookup", "log"} => todo[r] = payload[r].chunks
        /\ pc[r] \in {"save", "key"} => todo[r] # {}
        /\ ~IsCommand(r) /\ pc[r] = "load" => todo[r] # {}
        /\ pc[r] \in {"lock", "lookup", "log"} => IsCommand(r)
        /\ pc[r] = "lock" => NeedsLock(payload[r])
        /\ pc[r] = "lookup" => payload[r].id # NoId
        /\ pc[r] = "key" => ~IsCommand(r)

\* The world row is locked by exactly those who went through SELECT FOR UPDATE
\* or through a foreign key check, and the two kinds exclude each other.
LockInv ==
    /\ \A r \in Requests, w \in Worlds :
          /\ worldLock[w] = r <=>
                /\ w = World(r) /\ IsCommand(r) /\ NeedsLock(payload[r])
                /\ pc[r] \in {"lookup", "log", "load", "save"}
          /\ r \in keyShare[w] <=> w = World(r) /\ Executing(r)
    /\ \A w \in Worlds : \A r \in keyShare[w] : worldLock[w] \in {NoRequest, r}

\* An executing command owns its command id, which has no receipt yet.
LogInv ==
    \A r \in Requests : Executing(r) =>
        logOwner[Key(r)] = r /\ receipts[Key(r)] = NoReceipt

\* A pending write is an executing command's, in a chunk of its payload, and
\* holds the chunk's row.
RowInv ==
    \A r \in Requests, c \in Chunks : pending[r][c] # NoWrite =>
        Executing(r) /\ c \in payload[r].chunks /\ rowOwner[c] = r

\* A read that materializes owns the row it inserted.
MaterializeInv ==
    \A r \in Requests : pc[r] = "key" =>
        rowOwner[NextChunk(r)] = r /\ snapshots[NextChunk(r)] = NoSnapshot

\* What the locks and the unique indexes guarantee whatever the clients send.
ProtocolInv == WorkInv /\ LockInv /\ LogInv /\ RowInv /\ MaterializeInv

\* A pending write still starts from the committed row and is what the command
\* makes of it.
PendingInv ==
    \A r \in Requests, c \in Chunks : pending[r][c] # NoWrite =>
        LET after == Edit(payload[r], ContentOf(c, snapshots[c])) IN
        /\ pending[r][c] = [before |-> snapshots[c], after |-> Mutated(snapshots[c], after)]
        /\ after # ContentOf(c, snapshots[c])

\* A chunk passed without a write still is as the command wants it.
SkippedInv ==
    \A r \in Requests : Executing(r) =>
        \A c \in payload[r].chunks \ todo[r] : pending[r][c] = NoWrite =>
            Edit(payload[r], ContentOf(c, snapshots[c])) = ContentOf(c, snapshots[c])

\* A loaded chunk still is what a reader sees; at most a read stored it since.
ViewInv ==
    \A r \in Requests : Executing(r) /\ pc[r] = "save" =>
        LET c == NextChunk(r) IN
        /\ view[r] \in {NoSnapshot, snapshots[c]}
        /\ ContentOf(c, view[r]) = ContentOf(c, snapshots[c])

\* Only a stored chunk has a history.
HistoryInv == \A c \in Chunks : snapshots[c] = NoSnapshot => events[c] = << >>

\* What holds as long as no two commands of a world run without its lock.
SerialInv ==
    PendingInv /\ SkippedInv /\ ViewInv /\ HistoryInv /\ UnbrokenRevisionChain

\* The log says "applied" of a command.
Applied(k) == receipts[k] # NoReceipt /\ receipts[k].status = "applied"

\* Every event is one of an applied command's, in a chunk of its payload, and
\* no command has two in a chunk; an applied command has an event somewhere.
ExecutionInv ==
    /\ \A c \in Chunks : \A i \in 1..Len(events[c]) :
          /\ Applied(events[c][i].key)
          /\ c \in receipts[events[c][i].key].payload.chunks
          /\ \A j \in 1..Len(events[c]) : events[c][j].key = events[c][i].key => j = i
    /\ \A k \in Keys : Applied(k) =>
          \E c \in Chunks : \E i \in 1..Len(events[c]) : events[c][i].key = k

\* What the event before the i-th left in the chunk.
Before(c, i) == IF i = 1 THEN Base[c] ELSE events[c][i - 1].after.content

\* Every event applies its receipt's payload to what the one before it left,
\* and a chunk without events shows what the provider generates.
ReplayInv ==
    \A c \in Chunks :
        /\ events[c] = << >> => ContentOf(c, snapshots[c]) = Base[c]
        /\ \A i \in 1..Len(events[c]) : events[c][i].after.content
              = Edit(receipts[events[c][i].key].payload, Before(c, i))

\* The complete inductive invariant.
RouteInv == TypeOK /\ ProtocolInv /\ SerialInv /\ ExecutionInv /\ ReplayInv
\* A command id belongs to the command that is executing it.
LogOwnerInv ==
    \A k \in Keys, r \in Requests : logOwner[k] = r => Executing(r) /\ Key(r) = k

\* A chunk's row belongs to a command that has passed the chunk, or to the read
\* that is inserting it.
RowOwnerInv ==
    \A c \in Chunks, r \in Requests : rowOwner[c] = r =>
        \/ Executing(r) /\ c \in payload[r].chunks \ todo[r]
        \/ pc[r] = "key" /\ c = NextChunk(r)

\* A command passes its chunks in increasing order.
VisitInv ==
    \A r \in Requests : \A c \in payload[r].chunks \ todo[r], d \in todo[r] : c < d

\* Requests of which each waits for another one of them.
Blocked(S) == S # {} /\ \A r \in S : \E s \in S \ {r} : WaitsFor(r, s)

\* Whenever requests block each other, two of them block one another, so the
\* detector of DeadlockAbort misses no deadlock.
DeadlocksArePairs ==
    \A S \in SUBSET Requests : Blocked(S) =>
        \E r \in S : \E s \in S \ {r} : WaitsFor(r, s) /\ WaitsFor(s, r)
=============================================================================

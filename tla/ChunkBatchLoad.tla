--------------------------- MODULE ChunkBatchLoad ---------------------------
(***************************************************************************)
(* POST .../worlds/<world>/chunks/batch (routes/chunks.py): many chunks of  *)
(* one world in one answer, beside commands that change several of them.    *)
(*                                                                         *)
(* One statement looks up all the snapshots.  What it did not find is       *)
(* generated, and inserted if the request materializes; each insert is      *)
(* flushed at once and waits for the unique-index entry of its chunk and,   *)
(* for its foreign key, until nobody holds the world row FOR UPDATE.  A     *)
(* chunk that fails ends the batch or, with continueOnError, becomes an     *)
(* error of the answer; any error rolls the whole batch back.               *)
(*                                                                         *)
(* The content of a chunk is the number of commands that changed it.  The   *)
(* threads that generate the chunks of an Earth world read nothing that     *)
(* changes here, so they are the generating step of each chunk.  Commands   *)
(* are those that take the world lock; the others are in WorldCommandRoute. *)
(***************************************************************************)
EXTENDS Naturals, Sequences, FiniteSets

CONSTANTS
    Readers, Writers,   \* requests: each arrives once
    NoOne,
    Chunks,             \* numbered in the order a command visits them
    NoSnapshot,
    Batches,            \* what each batch may ask for
    Edits               \* the sets of chunks each command may change

BatchRecords == [chunks : Seq(Chunks), preferSnapshot : BOOLEAN, allowGenerated : BOOLEAN,
                 materialize : BOOLEAN, continueOnError : BOOLEAN]

\* _normalize_chunk_items drops a chunk that was named before.
Distinct(chunks) == \A i, j \in 1..Len(chunks) : chunks[i] = chunks[j] => i = j

Requests == Readers \cup Writers

ASSUME ConstantsAssumption ==
    /\ Chunks \subseteq Nat /\ Edits \in [Writers -> SUBSET SUBSET Chunks]
    /\ DOMAIN Batches = Readers
    /\ \A r \in Readers : Batches[r] \subseteq BatchRecords /\ Batches[r] # {}
    /\ \A r \in Readers : \A b \in Batches[r] : Distinct(b.chunks)
    /\ Readers \cap Writers = {} /\ NoOne \notin Requests /\ NoSnapshot \notin Nat

Snapshots == Nat \cup {NoSnapshot}
Unread == [content |-> NoSnapshot, created |-> FALSE]   \* not in the answer yet
Failed == [content |-> NoSnapshot, created |-> TRUE]    \* an error in the answer
Items == [content : Nat, created : BOOLEAN] \cup {Unread, Failed}

VARIABLES
    stored,     \* chunk_snapshots, committed rows
    worldLock,  \* who holds the world row FOR UPDATE
    keyShare,   \* who holds it FOR KEY SHARE
    rowOwner,   \* whose uncommitted insert or update owns the chunk's row
    pc,
    batch, found, answer, broken,   \* of each reader
    todo,                           \* of each writer: chunks it has yet to change
    during      \* history: the states of the world while a batch ran

locks == <<worldLock, keyShare, rowOwner>>
reading == <<batch, found, answer, broken>>
vars == <<stored, locks, pc, reading, todo, during>>

Nothing == [c \in Chunks |-> NoSnapshot]
NoAnswer == [c \in Chunks |-> Unread]
NoBatch(r) == CHOOSE b \in Batches[r] : TRUE   \* before the request begins, of no meaning

\* What a client is shown: the snapshot, else the generated chunk.
World == [c \in Chunks |-> IF stored[c] = NoSnapshot THEN 0 ELSE stored[c]]

\* Mutant: the index entries stay.
ReleaseWorldOnly(r) ==
    /\ worldLock' = IF worldLock = r THEN NoOne ELSE worldLock
    /\ keyShare' = keyShare \ {r}
    /\ UNCHANGED rowOwner

\* The transaction is over, committed or not.
Release(r) ==
    /\ worldLock' = IF worldLock = r THEN NoOne ELSE worldLock
    /\ keyShare' = keyShare \ {r}
    /\ rowOwner' = [c \in Chunks |-> IF rowOwner[c] = r THEN NoOne ELSE rowOwner[c]]

Goto(r, to) == pc' = [pc EXCEPT ![r] = to]

-----------------------------------------------------------------------------

Init ==
    /\ stored = Nothing
    /\ worldLock = NoOne /\ keyShare = {}
    /\ rowOwner = [c \in Chunks |-> NoOne]
    /\ pc = [r \in Requests |-> "idle"]
    /\ batch = [r \in Readers |-> NoBatch(r)]
    /\ found = [r \in Readers |-> Nothing]
    /\ answer = [r \in Readers |-> NoAnswer]
    /\ broken = [r \in Readers |-> FALSE]
    /\ todo = [w \in Writers |-> {}]
    /\ during = [r \in Readers |-> {}]

\* The answer is sent or the request has failed; what it had is of no meaning now.
Done(r) ==
    /\ Goto(r, "done")
    /\ Release(r)
    /\ batch' = [batch EXCEPT ![r] = NoBatch(r)]
    /\ found' = [found EXCEPT ![r] = Nothing]
    /\ answer' = [answer EXCEPT ![r] = NoAnswer]
    /\ broken' = [broken EXCEPT ![r] = FALSE]

-----------------------------------------------------------------------------
(* The batch.                                                              *)

Begin(r) ==
    /\ pc[r] = "idle"
    /\ \E b \in Batches[r] : batch' = [batch EXCEPT ![r] = b]
    /\ Goto(r, "prefetch")
    /\ UNCHANGED <<stored, locks, found, answer, broken, todo>>

\* _find_chunk_snapshots: one query, unless snapshots are not wanted.
Prefetch(r) ==
    /\ pc[r] = "prefetch"
    /\ found' = [found EXCEPT ![r] = IF batch[r].preferSnapshot THEN stored ELSE Nothing]
    /\ Goto(r, IF batch[r].chunks = << >> THEN "end" ELSE "item")
    /\ UNCHANGED <<stored, locks, batch, answer, broken, todo>>

Position(r) == CHOOSE i \in 1..Len(batch[r].chunks) :
    /\ answer[r][batch[r].chunks[i]] = Unread
    /\ \A j \in 1..(i - 1) : answer[r][batch[r].chunks[j]] # Unread

Item(r) == batch[r].chunks[Position(r)]
LastItem(r) == Position(r) = Len(batch[r].chunks)

\* The chunk gets its place in the answer.
Report(r, item) ==
    /\ answer' = [answer EXCEPT ![r][Item(r)] = item]
    /\ Goto(r, IF LastItem(r) \/ (item = Failed /\ ~batch[r].continueOnError)
               THEN "end" ELSE "item")

\* Mutant: each chunk is looked up when its turn comes.
FoundNow(r) == IF batch[r].preferSnapshot THEN stored[Item(r)] ELSE NoSnapshot

Found(r) == found[r][Item(r)]

ShowStored(r) ==
    /\ pc[r] = "item" /\ ~broken[r] /\ Found(r) # NoSnapshot
    /\ Report(r, [content |-> Found(r), created |-> FALSE])
    /\ UNCHANGED <<stored, locks, batch, found, broken, todo>>

Generates(r) == ~broken[r] /\ Found(r) = NoSnapshot /\ batch[r].allowGenerated

ShowGenerated(r) ==
    /\ pc[r] = "item" /\ Generates(r) /\ ~batch[r].materialize
    /\ Report(r, [content |-> 0, created |-> FALSE])
    /\ UNCHANGED <<stored, locks, batch, found, broken, todo>>

\* uq_chunk_snapshots_world_chunk_coords: there is a row of this chunk.
Taken(r) == stored[Item(r)] # NoSnapshot

\* _materialize_generated_chunk: the row enters the index, then the foreign
\* key is checked.
InsertEntry(r) ==
    /\ pc[r] = "item" /\ Generates(r) /\ batch[r].materialize
    /\ rowOwner[Item(r)] = NoOne /\ ~Taken(r)
    /\ rowOwner' = [rowOwner EXCEPT ![Item(r)] = r]
    /\ Goto(r, "key")
    /\ UNCHANGED <<stored, worldLock, keyShare, reading, todo>>

CheckKey(r) ==
    /\ pc[r] = "key" /\ worldLock = NoOne
    /\ keyShare' = keyShare \cup {r}
    /\ Report(r, [content |-> 0, created |-> TRUE])
    /\ UNCHANGED <<stored, worldLock, rowOwner, batch, found, broken, todo>>

\* A failed flush ends the transaction in PostgreSQL; the session refuses to
\* work until the route rolls it back after the last chunk.
FlushFails(r) ==
    /\ Report(r, Failed)
    /\ Release(r)
    /\ broken' = [broken EXCEPT ![r] = TRUE]
    /\ UNCHANGED <<stored, batch, found, todo>>

Duplicate(r) ==
    /\ pc[r] = "item" /\ Generates(r) /\ batch[r].materialize
    /\ rowOwner[Item(r)] = NoOne /\ Taken(r)
    /\ FlushFails(r)

\* Reading or generating the chunk fails.
ItemFails(r) ==
    /\ pc[r] = "item"
    /\ Report(r, Failed)
    /\ UNCHANGED <<stored, locks, batch, found, broken, todo>>

\* The session is broken, or the chunk may not be generated.
Refuse(r) ==
    /\ pc[r] = "item"
    /\ broken[r] \/ (Found(r) = NoSnapshot /\ ~batch[r].allowGenerated)
    /\ ItemFails(r)

\* Mutant: with continueOnError the good chunks are committed.
ErrorsIfStopped(r) ==
    ~batch[r].continueOnError /\ \E c \in Chunks : answer[r][c] = Failed

Errors(r) == \E c \in Chunks : answer[r][c] = Failed

\* Commit or roll back, then answer.
End(r) ==
    /\ pc[r] = "end"
    /\ stored' = IF Errors(r) THEN stored
                 ELSE [c \in Chunks |-> IF rowOwner[c] = r THEN 0 ELSE stored[c]]
    /\ Done(r)
    /\ UNCHANGED todo

\* An exception outside the loop over the chunks, or a lost connection.
Abort(r) ==
    /\ pc[r] \notin {"idle", "done"}
    /\ Done(r)
    /\ UNCHANGED <<stored, todo>>

-----------------------------------------------------------------------------
(* A command: _execute_command with the world lock.                        *)

BeginCommand(w) ==
    /\ pc[w] = "idle"
    /\ \E S \in Edits[w] : todo' = [todo EXCEPT ![w] = S]
    /\ Goto(w, "lock")
    /\ UNCHANGED <<stored, locks, reading>>

LockWorld(w) ==
    /\ pc[w] = "lock" /\ worldLock = NoOne /\ keyShare = {}
    /\ worldLock' = w
    /\ Goto(w, "write")
    /\ UNCHANGED <<stored, keyShare, rowOwner, reading, todo>>

NextChunk(w) == CHOOSE c \in todo[w] : \A d \in todo[w] : c <= d

\* Nobody else can commit this chunk once the world is locked.
WriteChunk(w) ==
    /\ pc[w] = "write" /\ todo[w] # {}
    /\ rowOwner[NextChunk(w)] = NoOne
    /\ rowOwner' = [rowOwner EXCEPT ![NextChunk(w)] = w]
    /\ todo' = [todo EXCEPT ![w] = @ \ {NextChunk(w)}]
    /\ UNCHANGED <<stored, worldLock, keyShare, pc, reading>>

Commit(w) ==
    /\ pc[w] = "write" /\ todo[w] = {}
    /\ stored' = [c \in Chunks |-> IF rowOwner[c] = w THEN World[c] + 1 ELSE stored[c]]
    /\ Goto(w, "done") /\ Release(w)
    /\ UNCHANGED <<reading, todo>>

Rollback(w) ==
    /\ pc[w] \in {"lock", "write"}
    /\ Goto(w, "done") /\ Release(w)
    /\ todo' = [todo EXCEPT ![w] = {}]
    /\ UNCHANGED <<stored, reading>>

-----------------------------------------------------------------------------

\* Mutant: the detector knows row locks only.
WaitsForRows(r, s) ==
    \/ r \in Readers /\ pc[r] = "item" /\ Generates(r) /\ batch[r].materialize
         /\ rowOwner[Item(r)] = s
    \/ r \in Writers /\ pc[r] = "write" /\ todo[r] # {} /\ rowOwner[NextChunk(r)] = s

\* r cannot proceed before s ends.
WaitsFor(r, s) ==
    \/ r \in Readers /\ pc[r] = "key" /\ worldLock = s
    \/ r \in Readers /\ pc[r] = "item" /\ Generates(r) /\ batch[r].materialize
         /\ rowOwner[Item(r)] = s
    \/ r \in Writers /\ pc[r] = "lock" /\ (worldLock = s \/ s \in keyShare)
    \/ r \in Writers /\ pc[r] = "write" /\ todo[r] # {} /\ rowOwner[NextChunk(r)] = s

\* Each of these requests waits for another of them.
Deadlocked(S) == S # {} /\ \A r \in S : \E s \in S \ {r} : WaitsFor(r, s)

\* PostgreSQL's detector fails the statement of one in a circle of requests that
\* wait for each other: the flush of a batch, or the command.
BreakDeadlock ==
    \E S \in SUBSET Requests :
        /\ Deadlocked(S) /\ \A T \in SUBSET S : Deadlocked(T) => T = S
        /\ \E r \in S : IF r \in Readers THEN FlushFails(r) ELSE Rollback(r)

Read(r) ==
    \/ Prefetch(r) \/ ShowStored(r) \/ ShowGenerated(r) \/ InsertEntry(r) \/ CheckKey(r)
    \/ Duplicate(r) \/ Refuse(r) \/ End(r)

Write(w) == LockWorld(w) \/ WriteChunk(w) \/ Commit(w)

Terminated == (\A r \in Requests : pc[r] = "done") /\ UNCHANGED vars

Act ==
    \/ \E r \in Readers : Begin(r) \/ Read(r) \/ ItemFails(r) \/ Abort(r)
    \/ \E w \in Writers : BeginCommand(w) \/ Write(w) \/ Rollback(w)
    \/ BreakDeadlock

\* Every batch that runs sees the world change.
Watch == during' = [r \in Readers |->
    IF pc'[r] \in {"idle", "done"} THEN {} ELSE during[r] \cup {World, World'}]

Next == (Act /\ Watch) \/ Terminated

Spec == Init /\ [][Next]_vars

\* A worker thread that can go on does.
FairSpec ==
    /\ Spec /\ WF_vars(BreakDeadlock /\ Watch)
    /\ \A r \in Readers : WF_vars(Read(r) /\ Watch)
    /\ \A w \in Writers : WF_vars(Write(w) /\ Watch)

-----------------------------------------------------------------------------

TypeOK ==
    /\ stored \in [Chunks -> Snapshots]
    /\ worldLock \in Writers \cup {NoOne}
    /\ keyShare \subseteq Readers
    /\ rowOwner \in [Chunks -> Requests \cup {NoOne}]
    /\ pc \in [Requests -> {"idle", "prefetch", "item", "key", "end", "lock", "write", "done"}]
    /\ batch \in [Readers -> BatchRecords] /\ \A r \in Readers : batch[r] \in Batches[r]
    /\ found \in [Readers -> [Chunks -> Snapshots]]
    /\ answer \in [Readers -> [Chunks -> Items]]
    /\ broken \in [Readers -> BOOLEAN]
    /\ todo \in [Writers -> SUBSET Chunks]
    /\ during \in [Readers -> SUBSET [Chunks -> Nat]]

\* A transaction that is over holds nothing, and a row that a batch inserted
\* stays unstored and the batch's own until it ends.
LocksInv ==
    /\ keyShare # {} => worldLock = NoOne
    /\ \A r \in Requests : pc[r] \in {"idle", "done"} =>
          r # worldLock /\ r \notin keyShare /\ \A c \in Chunks : rowOwner[c] # r
    /\ \A r \in Readers, c \in Chunks : rowOwner[c] = r => stored[c] = NoSnapshot /\ ~broken[r]

\* The answer is filled in the order of the request: what is missing is the rest.
QueueInv ==
    \A r \in Readers :
        /\ pc[r] \in {"item", "key"} =>
              \E i \in 1..Len(batch[r].chunks) : \A j \in 1..Len(batch[r].chunks) :
                  answer[r][batch[r].chunks[j]] = Unread <=> i <= j
        /\ pc[r] = "key" =>
              Generates(r) /\ batch[r].materialize /\ rowOwner[Item(r)] = r

\* What the answer says of a chunk.
AnswerInv ==
    \A r \in Readers :
        /\ pc[r] \notin {"item", "key", "end"} => answer[r] = NoAnswer
        /\ broken[r] => Errors(r)
        /\ \A c \in Chunks :
              /\ answer[r][c].created /\ answer[r][c] # Failed /\ ~broken[r] => rowOwner[c] = r
              /\ answer[r][c].content # NoSnapshot =>
                    answer[r][c].content = IF found[r][c] = NoSnapshot THEN 0 ELSE found[r][c]

\* What the lookup found is what the world was like at some moment since.
WatchInv ==
    \A r \in Readers : batch[r].preferSnapshot /\ pc[r] \in {"item", "key", "end"} =>
        [c \in Chunks |-> IF found[r][c] = NoSnapshot THEN 0 ELSE found[r][c]] \in during[r]

\* What is locked, what a batch reports as created and nobody else sees yet, and
\* what it found (the inductive invariant).
TransactionsInv == TypeOK /\ LocksInv /\ QueueInv /\ AnswerInv /\ WatchInv

\* A batch shows its chunks as they all were at one moment while it ran, never
\* half of a command (post_project_world_chunks_batch resolves "snapshot truth
\* with one indexed query").
AnswerShowsOneState ==
    \A r \in Readers : batch[r].preferSnapshot /\ answer[r] # NoAnswer =>
        \E world \in during[r] : \A c \in Chunks :
            answer[r][c].content # NoSnapshot => answer[r][c].content = world[c]

\* A batch without errors has stored every chunk it reports as created, one
\* with errors none, and neither has changed what any client is shown.
AllOrNothingStored ==
    [][\A r \in Readers : End(r) =>
          /\ World' = World
          /\ IF \E c \in Chunks : answer[r][c] = Failed THEN stored' = stored
             ELSE \A c \in Chunks : answer[r][c].created => stored'[c] # NoSnapshot]_vars

\* Every request ends, also when batches insert the same chunks in different
\* orders, or one of them waits for the command that waits for it.
EveryRequestEnds == \A r \in Requests : pc[r] # "idle" ~> pc[r] = "done"
=============================================================================

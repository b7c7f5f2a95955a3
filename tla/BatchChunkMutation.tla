------------------------- MODULE BatchChunkMutation -------------------------
(***************************************************************************)
(* The chunk rows and object references of one ObjectBatch at a time, as    *)
(* src/batch_chunk_mutation.py keeps them while the children run.           *)
(*                                                                         *)
(* Every load of a row that is not cached makes a new snapshot object; it   *)
(* is taken out of the session, so that no query flushes its large content, *)
(* and remembered under its row id.  A child that changes the chunk saves   *)
(* the object and caches it with its content for the children after it.     *)
(* At the end the remembered objects return to the session and are written  *)
(* by the commit.  The lists of object references are cached as well, and   *)
(* a child that places an object adds its reference to the cached list.     *)
(*                                                                         *)
(* The command lock of the world (see WorldCommandRoute) keeps other        *)
(* commands away while a batch runs.  A reference row is written by any     *)
(* later query of the session, so the transaction's view of it is current.  *)
(***************************************************************************)
EXTENDS Naturals

CONSTANTS
    Chunks, Contents, Base, NoRow,
    Edits, Effect,    \* what the children do to the content of one chunk
    Refs, Adds, Drops,   \* the references an edit creates or restores, and removes
    Objects,          \* the snapshot objects in memory: bounds the model
    Free, NoObject, NotLoaded,
    MaxRevision       \* bounds the model

VARIABLES
    row,         \* committed snapshots
    inserted,    \* snapshots the transaction has inserted
    heap,        \* the snapshot objects' fields
    deferred,    \* _Batch.snapshots: the object of each row
    cache,       \* _Batch.chunks: the object and content of each chunk
    held,        \* what the running child has loaded
    storedRefs,  \* committed active references of each chunk
    refs,        \* the same as the transaction sees them
    refList,     \* _Batch.refs
    active,      \* a batch runs
    event        \* history: the last event of each chunk in this batch

memory == <<heap, deferred, cache, held, refList>>
vars   == <<row, inserted, memory, storedRefs, refs, active, event>>

Rows == [content: Contents, revision: Nat]

ASSUME EffectAssumption == Effect \in [Edits -> [Contents -> Contents]] /\ Base \in Contents

ASSUME RefsAssumption == Adds \in [Edits -> SUBSET Refs] /\ Drops \in [Edits -> SUBSET Refs]

ASSUME ValuesAssumption ==
    /\ NoRow \notin Rows /\ Free \notin Rows /\ NoObject \notin Objects
    /\ NotLoaded \notin Chunks /\ \A S \in SUBSET Refs : NotLoaded # S
    /\ MaxRevision \in Nat

ContentOf(s) == IF s = NoRow THEN Base ELSE s.content
RevisionOf(s) == IF s = NoRow THEN 0 ELSE s.revision

NoEntry == [object |-> NoObject, content |-> Base]
Nothing == [chunk |-> NotLoaded, object |-> NoObject, content |-> Base]

\* The next batch starts with empty maps: the context variable is reset.
Forgotten == [
    heap     |-> [o \in Objects |-> Free],
    deferred |-> [c \in Chunks |-> NoObject],
    cache    |-> [c \in Chunks |-> NoEntry],
    refList  |-> [c \in Chunks |-> NotLoaded]]

\* The finally clause of batch_chunk_mutations.
AfterBatch == Forgotten

Reset ==
    /\ heap' = AfterBatch.heap
    /\ deferred' = AfterBatch.deferred
    /\ cache' = AfterBatch.cache
    /\ refList' = AfterBatch.refList
    /\ held' = Nothing
    /\ inserted' = [c \in Chunks |-> NoRow]
    /\ event' = [c \in Chunks |-> NoRow]
    /\ active' = FALSE

Init ==
    /\ row = [c \in Chunks |-> NoRow]
    /\ inserted = [c \in Chunks |-> NoRow]
    /\ heap = Forgotten.heap
    /\ deferred = Forgotten.deferred
    /\ cache = Forgotten.cache
    /\ refList = Forgotten.refList
    /\ held = Nothing
    /\ storedRefs = [c \in Chunks |-> {}]
    /\ refs = [c \in Chunks |-> {}]
    /\ active = FALSE
    /\ event = [c \in Chunks |-> NoRow]

-----------------------------------------------------------------------------

Begin ==
    /\ ~active
    /\ active' = TRUE
    /\ refs' = storedRefs
    /\ UNCHANGED <<row, inserted, memory, storedRefs, event>>

\* The row as a query of the transaction finds it: the final content of a
\* deferred snapshot is not there yet.
Found(c) == IF inserted[c] # NoRow THEN inserted[c] ELSE row[c]

\* Mutant: the first object remembered for a row stays.
DeferOnce(c, o) == IF deferred[c] = NoObject THEN [deferred EXCEPT ![c] = o] ELSE deferred

\* defer_snapshot: the last object wins.
Defer(c, o) == [deferred EXCEPT ![c] = o]

\* _load_chunk_for_mutation.
Load(c) ==
    /\ active
    /\ held = Nothing
    /\ \/ /\ cache[c] # NoEntry
          /\ held' = [chunk |-> c, object |-> cache[c].object, content |-> cache[c].content]
          /\ UNCHANGED <<heap, deferred>>
       \/ /\ cache[c] = NoEntry
          /\ Found(c) # NoRow
          /\ \E o \in Objects :
                /\ heap[o] = Free
                /\ heap' = [heap EXCEPT ![o] = Found(c)]
                /\ deferred' = Defer(c, o)
                /\ held' = [chunk |-> c, object |-> o, content |-> Found(c).content]
       \/ /\ cache[c] = NoEntry
          /\ Found(c) = NoRow
          /\ held' = [chunk |-> c, object |-> NoObject, content |-> Base]
          /\ UNCHANGED <<heap, deferred>>
    /\ UNCHANGED <<row, inserted, cache, storedRefs, refs, refList, active, event>>

\* A LoD2 edit or a grounding reads the cells and saves nothing.
OnlyRead ==
    /\ held # Nothing
    /\ held' = Nothing
    /\ UNCHANGED <<row, inserted, heap, deferred, cache, storedRefs, refs, refList, active, event>>

\* Mutant: a snapshot that existed before the batch is not remembered.
RememberNew(c, o, s) ==
    IF heap[o] = Free THEN [cache EXCEPT ![c] = [object |-> o, content |-> s.content]] ELSE cache

\* remember_chunk.
Remember(c, o, s) == [cache EXCEPT ![c] = [object |-> o, content |-> s.content]]

\* A new snapshot is inserted at once, for the keys of its events.
Insert(c, o, s) == IF held.object = NoObject THEN [inserted EXCEPT ![c] = s] ELSE inserted

\* Mutant: a created reference does not enter the cached list.
LoadedOnly(c, e, list) == [refList EXCEPT ![c] = list]

\* chunk_refs loads the list once; remember_ref adds to it.
RefListAfter(c, e, list) == [refList EXCEPT ![c] = list \cup Adds[e]]

\* A child changes the chunk it loaded: _save_snapshot_after_mutation and the
\* references, which detach the cells of every reference in the list.
Save(e) ==
    LET c == held.chunk
        s == [content |-> Effect[e][held.content],
              revision |-> 1 + IF held.object = NoObject THEN 0 ELSE heap[held.object].revision]
        list == IF refList[c] = NotLoaded THEN refs[c] ELSE refList[c] IN
    /\ held # Nothing
    /\ s.revision <= MaxRevision
    /\ \E o \in Objects :
          /\ IF held.object = NoObject THEN heap[o] = Free ELSE o = held.object
          /\ heap' = [heap EXCEPT ![o] = s]
          /\ inserted' = Insert(c, o, s)
          /\ deferred' = Defer(c, o)
          /\ cache' = Remember(c, o, s)
    /\ refList' = RefListAfter(c, e, list)
    /\ refs' = [refs EXCEPT ![c] = (@ \ Drops[e]) \cup Adds[e]]
    /\ event' = [event EXCEPT ![c] = s]
    /\ held' = Nothing
    /\ UNCHANGED <<row, storedRefs, active>>

\* The remembered objects are added to the session and the route commits.
Commit ==
    /\ active
    /\ held = Nothing
    /\ row' = [c \in Chunks |-> IF deferred[c] = NoObject THEN Found(c) ELSE heap[deferred[c]]]
    /\ storedRefs' = refs
    /\ UNCHANGED refs
    /\ Reset

\* A child, or the request, fails at any step: the route rolls back.
Abort ==
    /\ active
    /\ refs' = storedRefs
    /\ UNCHANGED <<row, storedRefs>>
    /\ Reset

\* Another command of any process commits between two batches.
EditElsewhere(c, e) ==
    /\ ~active
    /\ RevisionOf(row[c]) < MaxRevision
    /\ row' = [row EXCEPT ![c] = [content |-> Effect[e][ContentOf(row[c])],
                                  revision |-> RevisionOf(row[c]) + 1]]
    /\ storedRefs' = [storedRefs EXCEPT ![c] = (@ \ Drops[e]) \cup Adds[e]]
    /\ refs' = storedRefs'
    /\ UNCHANGED <<inserted, memory, active, event>>

Next ==
    \/ Begin \/ OnlyRead \/ Commit \/ Abort
    \/ \E c \in Chunks : Load(c)
    \/ \E e \in Edits : Save(e)
    \/ \E c \in Chunks, e \in Edits : EditElsewhere(c, e)

Spec == Init /\ [][Next]_vars

-----------------------------------------------------------------------------

TypeOK ==
    /\ row \in [Chunks -> Rows \cup {NoRow}]
    /\ inserted \in [Chunks -> Rows \cup {NoRow}]
    /\ heap \in [Objects -> Rows \cup {Free}]
    /\ deferred \in [Chunks -> Objects \cup {NoObject}]
    /\ cache \in [Chunks -> [object: Objects \cup {NoObject}, content: Contents]]
    /\ held \in {Nothing} \cup [chunk: Chunks, object: Objects \cup {NoObject}, content: Contents]
    /\ storedRefs \in [Chunks -> SUBSET Refs]
    /\ refs \in [Chunks -> SUBSET Refs]
    /\ refList \in [Chunks -> {NotLoaded} \cup SUBSET Refs]
    /\ active \in BOOLEAN
    /\ event \in [Chunks -> Rows \cup {NoRow}]

\* The chunks as the batch has them so far.
View(c) == IF cache[c] = NoEntry THEN row[c] ELSE heap[cache[c].object]

Working == [c \in Chunks |-> View(c)]

Batch == INSTANCE BatchEdit WITH work <- Working

\* The snapshot objects, though several may exist for one row and all are out
\* of the session, keep one edited state of a chunk, which every later child
\* loads; commit and rollback are atomic.  "No cache survives the command".
ChildrenBuildOnEachOther == Batch!Spec

\* "New/changed refs enter the next operation correctly": the cached list has
\* every active reference, so no child overlooks one whose cells it takes.
NoRefOverlooked == \A c \in Chunks : refList[c] # NotLoaded => refs[c] \subseteq refList[c]

\* The last event of a chunk has the revision and the content that the commit
\* stores, though all rows but new ones are written only by it.
EventsDescribeRows ==
    [][active /\ ~active' /\ row' # row =>
          \A c \in Chunks : event[c] # NoRow => row'[c] = event[c]]_vars

-----------------------------------------------------------------------------
(* The inductive invariant. *)

\* The cached object is the one that will be written, and has the cached content.
CachedIsDeferred ==
    \A c \in Chunks : cache[c] # NoEntry =>
        /\ cache[c].object \in Objects /\ deferred[c] = cache[c].object
        /\ heap[deferred[c]] # Free
        /\ heap[deferred[c]].content = cache[c].content
        /\ event[c] = heap[deferred[c]]

\* A chunk without an entry is stored as it was, and so is its last object.
OthersAreStored ==
    \A c \in Chunks : cache[c] = NoEntry =>
        /\ inserted[c] = NoRow /\ event[c] = NoRow
        /\ deferred[c] # NoObject => row[c] # NoRow /\ heap[deferred[c]] = row[c]

OneChunkPerObject ==
    \A c, d \in Chunks : deferred[c] = deferred[d] /\ deferred[c] # NoObject => c = d

DeferredExist == \A c \in Chunks : deferred[c] # NoObject => heap[deferred[c]] # Free

\* The running child holds the current state of its chunk.
HeldIsCurrent ==
    held # Nothing =>
        LET c == held.chunk IN
        /\ active
        /\ cache[c] # NoEntry => held.object = cache[c].object /\ held.content = cache[c].content
        /\ cache[c] = NoEntry /\ row[c] = NoRow => held.object = NoObject /\ held.content = Base
        /\ cache[c] = NoEntry /\ row[c] # NoRow =>
              held.object # NoObject /\ held.object = deferred[c] /\ held.content = row[c].content

IdleIsEmpty ==
    ~active => /\ refs = storedRefs /\ held = Nothing
               /\ \A c \in Chunks : cache[c] = NoEntry /\ deferred[c] = NoObject
                                      /\ refList[c] = NotLoaded

BatchInv ==
    /\ TypeOK /\ CachedIsDeferred /\ OthersAreStored /\ OneChunkPerObject /\ DeferredExist
    /\ HeldIsCurrent /\ IdleIsEmpty /\ NoRefOverlooked
=============================================================================

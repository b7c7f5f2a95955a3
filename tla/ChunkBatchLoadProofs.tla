------------------------- MODULE ChunkBatchLoadProofs -------------------------
(* Any number of batches, commands and chunks, in any order. *)
EXTENDS ChunkBatchLoad, TLAPS

(* Helpers. *)

LEMMA ItemTypes ==
  /\ Unread \in Items /\ Failed \in Items /\ Unread # Failed
  /\ \A n \in Nat, b \in BOOLEAN :
        [content |-> n, created |-> b] \in Items \ {Unread, Failed}
  BY ConstantsAssumption DEF Items, Unread, Failed

\* A batch that works on an item works on the first one missing in its answer.
LEMMA PositionIsNext ==
  ASSUME TypeOK, QueueInv, NEW r \in Readers, pc[r] \in {"item", "key"}
  PROVE  /\ Position(r) \in 1..Len(batch[r].chunks) /\ Len(batch[r].chunks) \in Nat
         /\ Item(r) \in Chunks
         /\ \A j \in 1..Len(batch[r].chunks) :
               /\ batch[r].chunks[j] \in Chunks
               /\ answer[r][batch[r].chunks[j]] = Unread <=> Position(r) <= j
<1> DEFINE chunks == batch[r].chunks
           missing(i) == /\ answer[r][chunks[i]] = Unread
                         /\ \A j \in 1..(i - 1) : answer[r][chunks[j]] # Unread
<1>1. chunks \in Seq(Chunks) /\ Len(chunks) \in Nat
  BY ConstantsAssumption DEF TypeOK, BatchRecords
<1>2. PICK i \in 1..Len(chunks) :
         \A j \in 1..Len(chunks) : answer[r][chunks[j]] = Unread <=> i <= j
  BY DEF QueueInv
<1> HIDE DEF chunks
<1>3. missing(i)
  BY <1>1, <1>2
<1>4. ASSUME NEW k \in 1..Len(chunks), missing(k) PROVE k = i
  <2>1. i <= k
    BY <1>2, <1>4
  <2>2. ~(i < k)
    <3> SUFFICES ASSUME i < k PROVE FALSE
      OBVIOUS
    <3>1. i \in 1..(k - 1)
      BY <1>1
    <3> QED BY <1>2, <1>4, <3>1
  <2> QED BY <1>1, <2>1, <2>2
<1> HIDE DEF missing
<1>5. Position(r) = CHOOSE k \in 1..Len(chunks) : missing(k)
  BY DEF Position, missing, chunks
<1>6. Position(r) = i
  BY <1>3, <1>4, <1>5
<1>7. \A j \in 1..Len(chunks) : chunks[j] \in Chunks
  BY <1>1
<1> QED BY <1>1, <1>2, <1>6, <1>7 DEF Item, chunks

LEMMA WorldType ==
  ASSUME stored \in [Chunks -> Snapshots]
  PROVE  World \in [Chunks -> Nat]
  BY DEF World, Snapshots

\* What a batch needs of the state: its own variables, and the rows it inserted.
ReaderInv(s) ==
  /\ \A c \in Chunks : rowOwner[c] = s => stored[c] = NoSnapshot /\ ~broken[s]
  /\ pc[s] \in {"item", "key"} =>
        \E i \in 1..Len(batch[s].chunks) : \A j \in 1..Len(batch[s].chunks) :
            answer[s][batch[s].chunks[j]] = Unread <=> i <= j
  /\ pc[s] = "key" => Generates(s) /\ batch[s].materialize /\ rowOwner[Item(s)] = s
  /\ pc[s] \notin {"item", "key", "end"} => answer[s] = NoAnswer
  /\ broken[s] => Errors(s)
  /\ \A c \in Chunks :
        /\ answer[s][c].created /\ answer[s][c] # Failed /\ ~broken[s] => rowOwner[c] = s
        /\ answer[s][c].content # NoSnapshot =>
              answer[s][c].content = IF found[s][c] = NoSnapshot THEN 0 ELSE found[s][c]

LEMMA InvByReader ==
  QueueInv /\ AnswerInv /\ (\A r \in Readers, c \in Chunks :
       rowOwner[c] = r => stored[c] = NoSnapshot /\ ~broken[r])
  <=> \A s \in Readers : ReaderInv(s)
  BY DEF QueueInv, AnswerInv, ReaderInv

\* A step of another request that leaves a batch and its rows alone.
Undisturbed(s) ==
  /\ pc'[s] = pc[s] /\ batch'[s] = batch[s] /\ found'[s] = found[s]
  /\ answer'[s] = answer[s] /\ broken'[s] = broken[s]
  /\ \A c \in Chunks : rowOwner'[c] = s <=> rowOwner[c] = s
  /\ \A c \in Chunks : rowOwner[c] = s => stored'[c] = stored[c]

LEMMA ItemStable ==
  ASSUME NEW s, batch'[s] = batch[s], answer'[s] = answer[s]
  PROVE  Item(s)' = Item(s)
  BY DEF Item, Position

LEMMA UndisturbedKeeps ==
  ASSUME TransactionsInv, NEW s \in Readers, ReaderInv(s), Undisturbed(s)
  PROVE  ReaderInv(s)'
<1>1. Item(s)' = Item(s)
  BY ItemStable DEF Undisturbed
<1>2. pc[s] = "key" => Item(s) \in Chunks
  BY PositionIsNext DEF TransactionsInv
<1>3. Errors(s)' <=> Errors(s)
  BY DEF Errors, Undisturbed
<1>4. Generates(s)' <=> Generates(s)
  BY <1>1 DEF Generates, Found, Undisturbed
<1> QED BY <1>1, <1>2, <1>3, <1>4 DEF ReaderInv, Undisturbed

-----------------------------------------------------------------------------
(* What the steps have in common. *)

PcValues == {"idle", "prefetch", "item", "key", "end", "lock", "write", "done"}

\* A chunk gets its place in the answer and the batch keeps its rows.
Shows(r, item) ==
  /\ pc[r] = "item" /\ item \in Items \ {Unread}
  /\ item.created => item = Failed
  /\ item.content # NoSnapshot => item.content = IF Found(r) = NoSnapshot THEN 0 ELSE Found(r)
  /\ Report(r, item)
  /\ UNCHANGED <<stored, locks, batch, found, broken, todo>>

\* A batch ends and stores at most the rows it inserted.
Ends(r) ==
  /\ pc[r] \notin {"idle", "done"}
  /\ Done(r)
  /\ stored' \in [Chunks -> Snapshots]
  /\ \A c \in Chunks : rowOwner[c] # r => stored'[c] = stored[c]
  /\ UNCHANGED todo

ReaderStep(r) ==
  \/ Begin(r) \/ Prefetch(r) \/ InsertEntry(r) \/ CheckKey(r)
  \/ \E item \in Items : Shows(r, item)
  \/ pc[r] \in {"item", "key"} /\ FlushFails(r)
  \/ Ends(r)

WriterStep(w) ==
  BeginCommand(w) \/ LockWorld(w) \/ WriteChunk(w) \/ Commit(w) \/ Rollback(w)

LEMMA ShowsItem ==
  ASSUME TypeOK, QueueInv, NEW r \in Readers,
         ShowStored(r) \/ ShowGenerated(r) \/ ItemFails(r)
  PROVE  \E item \in Items : Shows(r, item)
<1>1. Found(r) \in Snapshots /\ 0 \in Nat
  BY PositionIsNext DEF TypeOK, Found, ShowStored, ShowGenerated, ItemFails
<1>2. CASE ShowStored(r)
  <2> DEFINE item == [content |-> Found(r), created |-> FALSE]
  <2>1. item \in Items \ {Unread, Failed}
    BY <1>1, <1>2, ItemTypes DEF ShowStored, Snapshots
  <2> QED BY <1>2, <2>1 DEF ShowStored, Shows
<1>3. CASE ShowGenerated(r)
  <2> DEFINE item == [content |-> 0, created |-> FALSE]
  <2>1. item \in Items \ {Unread, Failed}
    BY <1>1, ItemTypes
  <2> QED BY <1>3, <2>1 DEF ShowGenerated, Generates, Shows
<1>4. CASE ItemFails(r)
  BY <1>4, ItemTypes DEF ItemFails, Shows, Failed
<1> QED BY <1>2, <1>3, <1>4

LEMMA EndsBatch ==
  ASSUME TypeOK, NEW r \in Readers, End(r) \/ Abort(r)
  PROVE  Ends(r)
<1>1. CASE End(r)
  BY <1>1 DEF End, Ends, TypeOK, Snapshots
<1>2. CASE Abort(r)
  BY <1>2 DEF Abort, Ends, TypeOK
<1> QED BY <1>1, <1>2

LEMMA Steps ==
  ASSUME TypeOK, QueueInv, Act
  PROVE  (\E r \in Readers : ReaderStep(r)) \/ (\E w \in Writers : WriterStep(w))
<1>1. ASSUME NEW r \in Readers, Begin(r) \/ Read(r) \/ ItemFails(r) \/ Abort(r)
      PROVE  ReaderStep(r)
  <2>1. CASE Begin(r) \/ Prefetch(r) \/ InsertEntry(r) \/ CheckKey(r)
    BY <2>1 DEF ReaderStep
  <2>2. CASE ShowStored(r) \/ ShowGenerated(r) \/ ItemFails(r)
    BY <2>2, ShowsItem DEF ReaderStep
  <2>3. CASE Refuse(r)
    BY <2>3, ShowsItem DEF ReaderStep, Refuse
  <2>4. CASE Duplicate(r)
    BY <2>4 DEF ReaderStep, Duplicate
  <2>5. CASE End(r) \/ Abort(r)
    BY <2>5, EndsBatch DEF ReaderStep
  <2> QED BY <1>1, <2>1, <2>2, <2>3, <2>4, <2>5 DEF Read
<1>2. ASSUME NEW w \in Writers, BeginCommand(w) \/ Write(w) \/ Rollback(w)
      PROVE  WriterStep(w)
  BY <1>2 DEF Write, WriterStep
<1>3. CASE BreakDeadlock
  <2>1. PICK r \in Requests, s \in Requests :
          WaitsFor(r, s) /\ IF r \in Readers THEN FlushFails(r) ELSE Rollback(r)
    BY <1>3 DEF BreakDeadlock, Deadlocked
  <2>2. CASE r \in Readers
    BY <2>1, <2>2, ConstantsAssumption DEF WaitsFor, ReaderStep
  <2>3. CASE r \notin Readers
    BY <2>1, <2>3 DEF Requests, WriterStep
  <2> QED BY <2>2, <2>3
<1> QED BY <1>1, <1>2, <1>3 DEF Act

LEMMA ReportEffect ==
  ASSUME TypeOK, QueueInv, NEW r \in Readers, pc[r] \in {"item", "key"},
         NEW item \in Items, Report(r, item)
  PROVE  /\ pc' \in [Requests -> PcValues] /\ pc'[r] \in {"item", "end"}
         /\ \A s \in Requests \ {r} : pc'[s] = pc[s]
         /\ answer' \in [Readers -> [Chunks -> Items]]
         /\ \A s \in Readers \ {r} : answer'[s] = answer[s]
         /\ answer'[r] = [answer[r] EXCEPT ![Item(r)] = item]
         /\ LastItem(r) => pc'[r] = "end"
<1>1. Item(r) \in Chunks
  BY PositionIsNext
<1> QED BY <1>1 DEF Report, Goto, TypeOK, Requests, PcValues

LEMMA ReleaseEffect ==
  ASSUME TypeOK, NEW r \in Requests, Release(r)
  PROVE  /\ worldLock' \in Writers \cup {NoOne} /\ keyShare' \subseteq Readers
         /\ rowOwner' \in [Chunks -> Requests \cup {NoOne}]
         /\ r # worldLock' /\ r \notin keyShare' /\ \A c \in Chunks : rowOwner'[c] # r
         /\ worldLock' # NoOne => worldLock' = worldLock
         /\ worldLock = NoOne => worldLock' = NoOne
         /\ keyShare' \subseteq keyShare
         /\ \A s \in Requests \ {r} : \A c \in Chunks : rowOwner'[c] = s <=> rowOwner[c] = s
<1>1. r # NoOne
  BY ConstantsAssumption
<1> QED BY <1>1, ConstantsAssumption DEF Release, TypeOK

LEMMA DoneEffect ==
  ASSUME TypeOK, NEW r \in Readers, Done(r)
  PROVE  /\ pc' \in [Requests -> PcValues] /\ pc'[r] = "done"
         /\ \A s \in Requests \ {r} : pc'[s] = pc[s]
         /\ batch' \in [Readers -> BatchRecords]
         /\ \A s \in Readers : batch'[s] \in Batches[s]
         /\ found' \in [Readers -> [Chunks -> Snapshots]]
         /\ answer' \in [Readers -> [Chunks -> Items]]
         /\ broken' \in [Readers -> BOOLEAN]
         /\ answer'[r] = NoAnswer /\ ~broken'[r]
         /\ \A s \in Readers \ {r} :
               batch'[s] = batch[s] /\ found'[s] = found[s] /\ answer'[s] = answer[s]
               /\ broken'[s] = broken[s]
<1>1. NoBatch(r) \in Batches[r] /\ NoBatch(r) \in BatchRecords /\ Nothing \in [Chunks -> Snapshots]
  BY ConstantsAssumption DEF NoBatch, Nothing, Snapshots
<1>2. NoAnswer \in [Chunks -> Items]
  BY ItemTypes DEF NoAnswer
<1> QED BY <1>1, <1>2 DEF Done, Goto, TypeOK, Requests, PcValues

-----------------------------------------------------------------------------
(* The type invariant, but for the history, which is Watch's alone. *)

LEMMA StoredType ==
  ASSUME TypeOK, \/ \E r \in Readers : ReaderStep(r)
                 \/ \E w \in Writers : WriterStep(w)
  PROVE  stored' \in [Chunks -> Snapshots]
<1> USE DEF TypeOK, Snapshots, ReaderStep, Begin, Prefetch, InsertEntry, CheckKey, Shows,
        FlushFails, Ends, WriterStep, BeginCommand, LockWorld, WriteChunk, Rollback
<1>1. ASSUME NEW w \in Writers, Commit(w) PROVE stored' \in [Chunks -> Snapshots]
  BY <1>1, WorldType DEF Commit
<1> QED BY <1>1

LEMMA ReaderTypeOK ==
  ASSUME TypeOK, QueueInv, NEW r \in Readers, ReaderStep(r),
         during' \in [Readers -> SUBSET [Chunks -> Nat]]
  PROVE  TypeOK'
<1> r \in Requests
  BY DEF Requests
<1> USE DEF TypeOK, PcValues, locks, reading
<1>1. CASE Begin(r)
  <2>1. PICK b \in Batches[r] : batch' = [batch EXCEPT ![r] = b]
    BY <1>1 DEF Begin
  <2>2. batch' \in [Readers -> BatchRecords] /\ \A s \in Readers : batch'[s] \in Batches[s]
    BY <2>1, ConstantsAssumption
  <2> QED BY <1>1, <2>2 DEF Begin, Goto, Requests
<1>2. CASE Prefetch(r)
  BY <1>2 DEF Prefetch, Goto, PcValues, Nothing, Snapshots, Requests
<1>3. CASE InsertEntry(r)
  BY <1>3, PositionIsNext DEF InsertEntry, Goto, PcValues, Requests
<1>4. CASE CheckKey(r)
  <2>1. [content |-> 0, created |-> TRUE] \in Items
    BY ItemTypes
  <2> QED BY <1>4, <2>1, ReportEffect DEF CheckKey
<1>5. ASSUME NEW item \in Items, Shows(r, item) PROVE TypeOK'
  BY <1>5, ReportEffect DEF Shows
<1>6. CASE pc[r] \in {"item", "key"} /\ FlushFails(r)
  BY <1>6, ReportEffect, ReleaseEffect, ItemTypes DEF FlushFails
<1>7. CASE Ends(r)
  <2>1. Release(r)
    BY <1>7 DEF Ends, Done
  <2> QED BY <1>7, <2>1, DoneEffect, ReleaseEffect DEF Ends
<1> QED BY <1>1, <1>2, <1>3, <1>4, <1>5, <1>6, <1>7 DEF ReaderStep

LEMMA WriterTypeOK ==
  ASSUME TypeOK, NEW w \in Writers, WriterStep(w),
         during' \in [Readers -> SUBSET [Chunks -> Nat]]
  PROVE  TypeOK'
<1> w \in Requests
  BY DEF Requests
<1> USE DEF TypeOK, PcValues, locks, reading
<1>1. CASE BeginCommand(w)
  <2>1. PICK S \in Edits[w] : todo' = [todo EXCEPT ![w] = S]
    BY <1>1 DEF BeginCommand
  <2>2. todo' \in [Writers -> SUBSET Chunks]
    BY <2>1, ConstantsAssumption
  <2> QED BY <1>1, <2>2 DEF BeginCommand, Goto, PcValues
<1>2. CASE LockWorld(w)
  BY <1>2 DEF LockWorld, Goto, PcValues
<1>3. CASE WriteChunk(w)
  BY <1>3 DEF WriteChunk, PcValues
<1>4. CASE Commit(w)
  <2>1. stored' \in [Chunks -> Snapshots]
    BY <1>4, WorldType DEF Commit, Snapshots
  <2> QED BY <1>4, <2>1, ReleaseEffect DEF Commit, Goto, PcValues
<1>5. CASE Rollback(w)
  BY <1>5, ReleaseEffect DEF Rollback, Goto, PcValues
<1> QED BY <1>1, <1>2, <1>3, <1>4, <1>5 DEF WriterStep

-----------------------------------------------------------------------------
(* A request leaves the other batches alone, with what they have inserted. *)

LEMMA ReaderDisturbsNoOther ==
  ASSUME TypeOK, QueueInv, NEW r \in Readers, ReaderStep(r), NEW s \in Readers, s # r
  PROVE  Undisturbed(s)
<1> r \in Requests /\ s \in Requests /\ s # NoOne
  BY ConstantsAssumption DEF Requests
<1> USE DEF TypeOK, Undisturbed, locks, reading
<1>1. CASE Begin(r)
  BY <1>1 DEF Begin, Goto
<1>2. CASE Prefetch(r)
  BY <1>2 DEF Prefetch, Goto
<1>3. CASE InsertEntry(r)
  BY <1>3 DEF InsertEntry, Goto
<1>4. CASE CheckKey(r)
  BY <1>4 DEF CheckKey, Report, Goto
<1>5. ASSUME NEW item \in Items, Shows(r, item) PROVE Undisturbed(s)
  BY <1>5 DEF Shows, Report, Goto
<1>6. CASE pc[r] \in {"item", "key"} /\ FlushFails(r)
  BY <1>6, ReleaseEffect DEF FlushFails, Report, Goto
<1>7. CASE Ends(r)
  <2>1. Release(r)
    BY <1>7 DEF Ends, Done
  <2>2. \A c \in Chunks : rowOwner'[c] = s <=> rowOwner[c] = s
    BY <2>1, ReleaseEffect
  <2>3. \A c \in Chunks : rowOwner[c] = s => stored'[c] = stored[c]
    BY <1>7 DEF Ends
  <2>4. pc'[s] = pc[s] /\ batch'[s] = batch[s] /\ found'[s] = found[s]
        /\ answer'[s] = answer[s] /\ broken'[s] = broken[s]
    BY <1>7, DoneEffect DEF Ends
  <2> QED BY <2>2, <2>3, <2>4
<1> QED BY <1>1, <1>2, <1>3, <1>4, <1>5, <1>6, <1>7 DEF ReaderStep

LEMMA WriterDisturbsNone ==
  ASSUME TypeOK, NEW w \in Writers, WriterStep(w), NEW s \in Readers
  PROVE  Undisturbed(s)
<1> w \in Requests /\ s \in Requests /\ s # NoOne /\ s # w
  BY ConstantsAssumption DEF Requests
<1> USE DEF TypeOK, Undisturbed, locks, reading
<1>1. CASE BeginCommand(w)
  BY <1>1 DEF BeginCommand, Goto
<1>2. CASE LockWorld(w)
  BY <1>2 DEF LockWorld, Goto
<1>3. CASE WriteChunk(w)
  BY <1>3 DEF WriteChunk
<1>4. CASE Commit(w)
  BY <1>4, ReleaseEffect DEF Commit, Goto
<1>5. CASE Rollback(w)
  BY <1>5, ReleaseEffect DEF Rollback, Goto
<1> QED BY <1>1, <1>2, <1>3, <1>4, <1>5 DEF WriterStep

-----------------------------------------------------------------------------
(* What a batch's own step does to its answer. *)

\* No chunk is asked for twice, so the next one missing is the one after it.
LEMMA ReportMovesOn ==
  ASSUME TypeOK, QueueInv, NEW r \in Readers, pc[r] \in {"item", "key"},
         NEW item \in Items \ {Unread}, Report(r, item), batch'[r] = batch[r]
  PROVE  pc'[r] = "item" =>
           \E i \in 1..Len(batch'[r].chunks) : \A j \in 1..Len(batch'[r].chunks) :
               answer'[r][batch'[r].chunks[j]] = Unread <=> i <= j
<1> DEFINE chunks == batch[r].chunks
<1>1. /\ answer'[r] = [answer[r] EXCEPT ![Item(r)] = item]
      /\ answer[r] \in [Chunks -> Items]
      /\ LastItem(r) => pc'[r] = "end"
  BY ReportEffect DEF TypeOK
<1>2. /\ Position(r) \in 1..Len(chunks) /\ Len(chunks) \in Nat /\ Item(r) \in Chunks
      /\ \A j \in 1..Len(chunks) :
           chunks[j] \in Chunks /\ (answer[r][chunks[j]] = Unread <=> Position(r) <= j)
  BY PositionIsNext
<1>3. \A j \in 1..Len(chunks) : chunks[j] = Item(r) <=> j = Position(r)
  BY <1>2, ConstantsAssumption DEF TypeOK, Distinct, Item
<1> HIDE DEF chunks
<1>4. \A j \in 1..Len(chunks) : answer'[r][chunks[j]] = Unread <=> Position(r) + 1 <= j
  BY <1>1, <1>2, <1>3
<1>5. pc'[r] = "item" => Position(r) + 1 \in 1..Len(chunks)
  BY <1>1, <1>2 DEF LastItem, chunks
<1> QED BY <1>4, <1>5 DEF chunks

\* What is true of an answer stays true when an item that fits is put into it.
LEMMA ReportKeepsAnswer ==
  ASSUME TypeOK, QueueInv, NEW r \in Readers, ReaderInv(r), pc[r] \in {"item", "key"},
         NEW item \in Items \ {Unread}, Report(r, item), batch'[r] = batch[r],
         found'[r] = found[r], broken[r] => broken'[r], broken'[r] => broken[r] \/ item = Failed,
         \A c \in Chunks : rowOwner'[c] = r => rowOwner[c] = r,
         \A c \in Chunks : rowOwner'[c] = r => ~broken'[r] /\ stored'[c] = stored[c],
         ~broken'[r] => \A c \in Chunks : rowOwner[c] = r => rowOwner'[c] = r,
         item.created => item = Failed \/ broken'[r] \/ rowOwner[Item(r)] = r,
         item.content # NoSnapshot => item.content = IF Found(r) = NoSnapshot THEN 0 ELSE Found(r)
  PROVE  ReaderInv(r)'
<1>1. /\ pc'[r] \in {"item", "end"}
      /\ answer'[r] = [answer[r] EXCEPT ![Item(r)] = item]
      /\ answer[r] \in [Chunks -> Items]
  BY ReportEffect DEF TypeOK
<1>2. /\ Item(r) \in Chunks /\ answer[r][Item(r)] = Unread /\ Unread # Failed
  BY PositionIsNext, ItemTypes DEF Item
<1>3. broken'[r] => Errors(r)'
  <2>1. CASE item = Failed
    BY <1>1, <1>2, <2>1 DEF Errors
  <2>2. CASE item # Failed
    <3> SUFFICES ASSUME broken'[r] PROVE \E c \in Chunks : answer'[r][c] = Failed
      BY DEF Errors
    <3>1. PICK c \in Chunks : answer[r][c] = Failed
      BY <2>2 DEF ReaderInv, Errors
    <3> QED BY <1>1, <1>2, <3>1
  <2> QED BY <2>1, <2>2
<1>4. \A c \in Chunks : answer'[r][c] = IF c = Item(r) THEN item ELSE answer[r][c]
  BY <1>1
<1>5. \A c \in Chunks : answer'[r][c].created /\ answer'[r][c] # Failed /\ ~broken'[r]
        => rowOwner'[c] = r
  BY <1>2, <1>4 DEF ReaderInv
<1>6. \A c \in Chunks : answer'[r][c].content # NoSnapshot =>
        answer'[r][c].content = IF found'[r][c] = NoSnapshot THEN 0 ELSE found'[r][c]
  BY <1>4 DEF ReaderInv, Found
<1>7. \A c \in Chunks : rowOwner'[c] = r => stored'[c] = NoSnapshot /\ ~broken'[r]
  BY DEF ReaderInv
<1> QED BY <1>1, <1>3, <1>5, <1>6, <1>7, ReportMovesOn DEF ReaderInv

LEMMA EmptyAnswer ==
  ASSUME NEW r \in Readers, answer[r] = NoAnswer
  PROVE  /\ ~Errors(r) /\ (ReaderInv(r) => ~broken[r])
         /\ \A c \in Chunks : answer[r][c] = Unread /\ ~answer[r][c].created
                              /\ answer[r][c].content = NoSnapshot
<1>1. /\ ~Errors(r)
      /\ \A c \in Chunks : answer[r][c] = Unread /\ ~answer[r][c].created
                           /\ answer[r][c].content = NoSnapshot
  BY ItemTypes DEF NoAnswer, Unread, Errors
<1> QED BY <1>1 DEF ReaderInv

LEMMA ReaderKeepsItsOwn ==
  ASSUME TypeOK, LocksInv, QueueInv, NEW r \in Readers, ReaderInv(r), ReaderStep(r)
  PROVE  ReaderInv(r)'
<1> r \in Requests /\ r # NoOne
  BY ConstantsAssumption DEF Requests
<1> USE DEF locks, reading
<1>1. CASE Begin(r)
  <2>1. answer[r] = NoAnswer /\ answer' = answer /\ broken' = broken
        /\ stored' = stored /\ rowOwner' = rowOwner /\ pc'[r] = "prefetch"
    BY <1>1 DEF Begin, Goto, ReaderInv, TypeOK
  <2>2. ~broken[r]
    BY <2>1, EmptyAnswer DEF ReaderInv
  <2> QED BY <2>1, <2>2, EmptyAnswer DEF ReaderInv
<1>2. CASE Prefetch(r)
  <2> DEFINE chunks == batch[r].chunks
  <2>1. /\ answer[r] = NoAnswer /\ answer' = answer /\ broken' = broken /\ batch' = batch
        /\ stored' = stored /\ rowOwner' = rowOwner /\ pc'[r] \in {"item", "end"}
        /\ pc'[r] = "item" => chunks # << >>
    BY <1>2 DEF Prefetch, Goto, ReaderInv, TypeOK
  <2>2. ~broken[r] /\ \A c \in Chunks : answer[r][c] = Unread /\ ~answer[r][c].created
                                        /\ answer[r][c].content = NoSnapshot
    BY <2>1, EmptyAnswer
  <2>3. chunks \in Seq(Chunks)
    BY DEF TypeOK, BatchRecords
  <2> HIDE DEF chunks
  <2>4. \A j \in 1..Len(chunks) : answer[r][chunks[j]] = Unread /\ 1 <= j
    BY <2>2, <2>3
  <2>5. pc'[r] = "item" => 1 \in 1..Len(chunks)
    BY <2>1, <2>3
  <2>6. pc'[r] = "item" => \E i \in 1..Len(chunks) :
          \A j \in 1..Len(chunks) : answer[r][chunks[j]] = Unread <=> i <= j
    BY <2>4, <2>5
  <2>7. chunks' = chunks
    BY <2>1 DEF chunks
  <2> QED BY <2>1, <2>2, <2>6, <2>7 DEF ReaderInv, chunks
<1>3. CASE InsertEntry(r)
  <2>1. Item(r)' = Item(r) /\ Item(r) \in Chunks
    BY <1>3, ItemStable, PositionIsNext DEF InsertEntry
  <2>2. /\ rowOwner'[Item(r)] = r /\ pc'[r] = "key" /\ stored' = stored
        /\ \A c \in Chunks : rowOwner'[c] = r => c = Item(r) \/ rowOwner[c] = r
        /\ \A c \in Chunks : rowOwner[c] = r => rowOwner'[c] = r
        /\ batch' = batch /\ found' = found /\ answer' = answer /\ broken' = broken
    BY <1>3, <2>1 DEF InsertEntry, Goto, TypeOK
  <2>3. pc[r] = "item" /\ stored[Item(r)] = NoSnapshot /\ Generates(r) /\ batch[r].materialize
    BY <1>3 DEF InsertEntry, Taken
  <2>4. Generates(r)' /\ ~broken[r] /\ Errors(r)' = Errors(r)
    BY <2>1, <2>2, <2>3 DEF Generates, Found, Errors
  <2> QED BY <2>1, <2>2, <2>3, <2>4 DEF ReaderInv
<1>4. CASE CheckKey(r)
  <2> DEFINE item == [content |-> 0, created |-> TRUE]
  <2>1. item \in Items \ {Unread} /\ item.content = 0
    BY ItemTypes
  <2>2. rowOwner[Item(r)] = r /\ Found(r) = NoSnapshot /\ Report(r, item) /\ pc[r] = "key"
        /\ UNCHANGED <<stored, rowOwner, batch, found, broken>>
    BY <1>4 DEF CheckKey, ReaderInv, Generates
  <2>3. \A c \in Chunks : rowOwner'[c] = r => ~broken'[r]
    BY <2>2 DEF ReaderInv
  <2> HIDE DEF item
  <2> QED BY <2>1, <2>2, <2>3, ReportKeepsAnswer
<1>5. ASSUME NEW item \in Items, Shows(r, item) PROVE ReaderInv(r)'
  <2>1. \A c \in Chunks : rowOwner'[c] = r => ~broken'[r]
    BY <1>5 DEF Shows, ReaderInv
  <2> QED BY <1>5, <2>1, ReportKeepsAnswer DEF Shows
<1>6. CASE pc[r] \in {"item", "key"} /\ FlushFails(r)
  <2>1. Failed \in Items \ {Unread} /\ Failed.content = NoSnapshot
    BY ItemTypes DEF Failed
  <2>2. Report(r, Failed) /\ broken'[r] /\ UNCHANGED <<stored, batch, found>>
        /\ \A c \in Chunks : rowOwner'[c] # r
    BY <1>6, ReleaseEffect DEF FlushFails, TypeOK
  <2> QED BY <1>6, <2>1, <2>2, ReportKeepsAnswer
<1>7. CASE Ends(r)
  <2>1. answer'[r] = NoAnswer /\ ~broken'[r] /\ pc'[r] = "done"
    BY <1>7, DoneEffect DEF Ends
  <2>2. \A c \in Chunks : rowOwner'[c] # r
    BY <1>7, ReleaseEffect DEF Ends, Done
  <2>3. \A c \in Chunks : ~answer'[r][c].created /\ answer'[r][c].content = NoSnapshot
    BY <2>1 DEF NoAnswer, Unread
  <2> QED BY <2>1, <2>2, <2>3 DEF ReaderInv
<1> QED BY <1>1, <1>2, <1>3, <1>4, <1>5, <1>6, <1>7 DEF ReaderStep

-----------------------------------------------------------------------------
(* Locks. *)

\* A request that has not begun, or is over, holds nothing.
HoldsIfRunning(s) == pc[s] \in {"idle", "done"} =>
  s # worldLock /\ s \notin keyShare /\ \A c \in Chunks : rowOwner[c] # s

LEMMA ReaderKeepsLocks ==
  ASSUME TypeOK, LocksInv, QueueInv, NEW r \in Readers, ReaderStep(r)
  PROVE  /\ (keyShare # {} => worldLock = NoOne)'
         /\ \A s \in Requests : HoldsIfRunning(s)'
<1> r \in Requests /\ r # NoOne /\ \A s \in Requests : s # NoOne
  BY ConstantsAssumption DEF Requests
<1> USE DEF TypeOK, LocksInv, HoldsIfRunning, locks, reading
<1>1. CASE Begin(r) \/ Prefetch(r)
  BY <1>1 DEF Begin, Prefetch, Goto
<1>2. CASE InsertEntry(r)
  BY <1>2 DEF InsertEntry, Goto
<1>3. CASE CheckKey(r)
  <2>1. [content |-> 0, created |-> TRUE] \in Items
    BY ItemTypes
  <2> QED BY <1>3, <2>1, ReportEffect DEF CheckKey
<1>4. ASSUME NEW item \in Items, Shows(r, item)
      PROVE  /\ (keyShare # {} => worldLock = NoOne)'
             /\ \A s \in Requests : HoldsIfRunning(s)'
  BY <1>4, ReportEffect DEF Shows
<1>5. CASE pc[r] \in {"item", "key"} /\ FlushFails(r)
  <2>1. pc'[r] \in {"item", "end"} /\ \A s \in Requests \ {r} : pc'[s] = pc[s]
    BY <1>5, ReportEffect, ItemTypes DEF FlushFails
  <2>2. Release(r)
    BY <1>5 DEF FlushFails
  <2> QED BY <2>1, <2>2, ReleaseEffect
<1>6. CASE Ends(r)
  <2>1. Release(r)
    BY <1>6 DEF Ends, Done
  <2> QED BY <1>6, <2>1, DoneEffect, ReleaseEffect DEF Ends
<1> QED BY <1>1, <1>2, <1>3, <1>4, <1>5, <1>6 DEF ReaderStep

LEMMA WriterKeepsLocks ==
  ASSUME TypeOK, LocksInv, NEW w \in Writers, WriterStep(w)
  PROVE  /\ (keyShare # {} => worldLock = NoOne)'
         /\ \A s \in Requests : HoldsIfRunning(s)'
<1> w \in Requests /\ w \notin Readers /\ \A s \in Requests : s # NoOne
  BY ConstantsAssumption DEF Requests
<1> USE DEF TypeOK, LocksInv, HoldsIfRunning, locks, reading
<1>1. CASE BeginCommand(w)
  BY <1>1 DEF BeginCommand, Goto
<1>2. CASE LockWorld(w)
  BY <1>2 DEF LockWorld, Goto
<1>3. CASE WriteChunk(w)
  BY <1>3 DEF WriteChunk
<1>4. CASE Commit(w)
  BY <1>4, ReleaseEffect DEF Commit, Goto
<1>5. CASE Rollback(w)
  BY <1>5, ReleaseEffect DEF Rollback, Goto
<1> QED BY <1>1, <1>2, <1>3, <1>4, <1>5 DEF WriterStep

-----------------------------------------------------------------------------
(* The history. *)

\* A batch looks its chunks up once; what it found and was asked for stays.
LEMMA FoundOnce ==
  ASSUME TypeOK, NEW s \in Readers, pc'[s] \in {"item", "key", "end"},
         \/ Undisturbed(s) \/ ReaderStep(s)
  PROVE  /\ batch'[s] = batch[s]
         /\ \/ pc[s] \in {"item", "key", "end"} /\ found'[s] = found[s]
            \/ batch[s].preferSnapshot => found'[s] = stored
<1> s \in Requests
  BY DEF Requests
<1>1. CASE Undisturbed(s)
  BY <1>1 DEF Undisturbed
<1>2. CASE ReaderStep(s)
  BY <1>2 DEF ReaderStep, Begin, Prefetch, InsertEntry, CheckKey, Shows, FlushFails, Ends,
       Done, Goto, TypeOK, reading
<1> QED BY <1>1, <1>2

LEMMA WatchKeepsHistory ==
  ASSUME TypeOK, WatchInv, Watch, stored' \in [Chunks -> Snapshots],
         \A s \in Readers : Undisturbed(s) \/ ReaderStep(s)
  PROVE  during' \in [Readers -> SUBSET [Chunks -> Nat]] /\ WatchInv'
<1> DEFINE shown(s) == [c \in Chunks |-> IF found[s][c] = NoSnapshot THEN 0 ELSE found[s][c]]
<1>1. World \in [Chunks -> Nat] /\ World' \in [Chunks -> Nat]
  BY WorldType DEF TypeOK, World, Snapshots
<1>2. during' \in [Readers -> SUBSET [Chunks -> Nat]]
  BY <1>1 DEF Watch, TypeOK
<1>3. ASSUME NEW s \in Readers, batch'[s].preferSnapshot, pc'[s] \in {"item", "key", "end"}
      PROVE  shown(s)' \in during'[s]
  <2>1. during'[s] = during[s] \cup {World, World'}
    BY <1>3 DEF Watch
  <2>2. /\ batch'[s] = batch[s]
        /\ \/ pc[s] \in {"item", "key", "end"} /\ found'[s] = found[s]
           \/ batch[s].preferSnapshot => found'[s] = stored
    BY <1>3, FoundOnce
  <2>3. CASE pc[s] \in {"item", "key", "end"} /\ found'[s] = found[s]
    BY <1>3, <2>1, <2>2, <2>3 DEF WatchInv
  <2>4. CASE found'[s] = stored
    BY <2>1, <2>4 DEF World
  <2> QED BY <1>3, <2>2, <2>3, <2>4
<1> QED BY <1>2, <1>3 DEF WatchInv

-----------------------------------------------------------------------------
(* The inductive invariant. *)

LEMMA InvInit == Init => TransactionsInv
<1> SUFFICES ASSUME Init PROVE TransactionsInv
  OBVIOUS
<1>1. \A r \in Readers : NoBatch(r) \in Batches[r] /\ NoBatch(r) \in BatchRecords
  BY ConstantsAssumption DEF NoBatch
<1>2. NoAnswer \in [Chunks -> Items] /\ Nothing \in [Chunks -> Snapshots]
  BY ItemTypes DEF NoAnswer, Nothing, Snapshots
<1>3. TypeOK
  BY <1>1, <1>2 DEF Init, TypeOK
<1>4. \A r \in Readers : answer[r] = NoAnswer /\ pc[r] = "idle" /\ ~broken[r]
  BY DEF Init, Requests
<1>5. \A r \in Readers, c \in Chunks :
        ~answer[r][c].created /\ answer[r][c].content = NoSnapshot
  BY <1>4, EmptyAnswer
<1>6. LocksInv
  BY ConstantsAssumption, <1>4 DEF Init, LocksInv, Requests
<1>7. QueueInv /\ AnswerInv /\ WatchInv
  BY <1>4, <1>5 DEF QueueInv, AnswerInv, WatchInv
<1> QED BY <1>3, <1>6, <1>7 DEF TransactionsInv

LEMMA InvStep == TransactionsInv /\ [Next]_vars => TransactionsInv'
<1> SUFFICES ASSUME TransactionsInv, [Next]_vars PROVE TransactionsInv'
  OBVIOUS
<1>1. TypeOK /\ LocksInv /\ QueueInv /\ AnswerInv /\ WatchInv
  BY DEF TransactionsInv
<1>2. \A s \in Readers : ReaderInv(s)
  BY <1>1, InvByReader DEF LocksInv
<1>3. CASE UNCHANGED vars
  <2> USE <1>1, <1>3 DEF vars, locks, reading
  <2>1. TypeOK' /\ LocksInv' /\ WatchInv'
    BY DEF TypeOK, LocksInv, WatchInv
  <2>2. \A s \in Readers : ReaderInv(s)'
    BY <1>2, UndisturbedKeeps DEF Undisturbed, TransactionsInv
  <2>3. QueueInv' /\ AnswerInv'
    BY <2>2 DEF QueueInv, AnswerInv, ReaderInv
  <2> QED BY <2>1, <2>3 DEF TransactionsInv
<1>4. CASE Act /\ Watch
  <2>1. \/ \E r \in Readers : ReaderStep(r)
        \/ \E w \in Writers : WriterStep(w)
    BY <1>1, <1>4, Steps
  <2>2. stored' \in [Chunks -> Snapshots]
    BY <1>1, <2>1, StoredType
  <2>3. \A s \in Readers : Undisturbed(s) \/ ReaderStep(s)
    BY <1>1, <2>1, ReaderDisturbsNoOther, WriterDisturbsNone
  <2>4. during' \in [Readers -> SUBSET [Chunks -> Nat]] /\ WatchInv'
    BY <1>1, <1>4, <2>2, <2>3, WatchKeepsHistory
  <2>5. TypeOK'
    BY <1>1, <2>1, <2>4, ReaderTypeOK, WriterTypeOK
  <2>6. \A s \in Readers : ReaderInv(s)'
    BY <1>1, <1>2, <2>3, UndisturbedKeeps, ReaderKeepsItsOwn
  <2>7. QueueInv' /\ AnswerInv' /\ \A r \in Readers, c \in Chunks :
          rowOwner'[c] = r => stored'[c] = NoSnapshot /\ ~broken'[r]
    <3>1. QueueInv'
      BY <2>6 DEF QueueInv, ReaderInv
    <3>2. AnswerInv'
      BY <2>6 DEF AnswerInv, ReaderInv
    <3> QED BY <2>6, <3>1, <3>2 DEF ReaderInv
  <2>8. /\ (keyShare # {} => worldLock = NoOne)'
        /\ \A s \in Requests : HoldsIfRunning(s)'
    BY <1>1, <2>1, ReaderKeepsLocks, WriterKeepsLocks
  <2>9. LocksInv'
    BY <2>7, <2>8 DEF LocksInv, HoldsIfRunning
  <2> QED BY <2>4, <2>5, <2>7, <2>9 DEF TransactionsInv
<1> QED BY <1>3, <1>4 DEF Next, Terminated

-----------------------------------------------------------------------------
(* The theorems. *)

\* Whatever the batches and commands: a request that is over holds no lock, a
\* batch owns each row it reports as created, nobody else sees that row before
\* the batch ends, and the answer holds what one lookup found.
THEOREM TransactionsAreKept == Spec => []TransactionsInv
  BY InvInit, InvStep, PTL DEF Spec

\* The chunks of an answer are the world as it was at one moment, never half
\* of a command (the one lookup of post_project_world_chunks_batch).
THEOREM AnswersShowOneState == Spec => []AnswerShowsOneState
<1>1. TransactionsInv => AnswerShowsOneState
  <2> SUFFICES ASSUME TransactionsInv, NEW r \in Readers, batch[r].preferSnapshot,
                      answer[r] # NoAnswer
               PROVE  \E world \in during[r] : \A c \in Chunks :
                        answer[r][c].content # NoSnapshot => answer[r][c].content = world[c]
    BY DEF AnswerShowsOneState
  <2> DEFINE world == [c \in Chunks |-> IF found[r][c] = NoSnapshot THEN 0 ELSE found[r][c]]
  <2>1. world \in during[r]
    BY DEF TransactionsInv, AnswerInv, WatchInv
  <2>2. \A c \in Chunks : answer[r][c].content # NoSnapshot => answer[r][c].content = world[c]
    BY DEF TransactionsInv, AnswerInv
  <2> QED BY <2>1, <2>2
<1> QED BY <1>1, TransactionsAreKept, PTL

\* A batch without errors has stored every chunk it reports as created, one
\* with errors none, and neither changes what a client is shown.
THEOREM BatchesAreAllOrNothing == Spec => AllOrNothingStored
<1>1. ASSUME TransactionsInv, NEW r \in Readers, End(r)
      PROVE  /\ World' = World
             /\ IF \E c \in Chunks : answer[r][c] = Failed THEN stored' = stored
                ELSE \A c \in Chunks : answer[r][c].created => stored'[c] # NoSnapshot
  <2>1. stored' = IF Errors(r) THEN stored
                  ELSE [c \in Chunks |-> IF rowOwner[c] = r THEN 0 ELSE stored[c]]
    BY <1>1 DEF End
  <2>2. \A c \in Chunks : rowOwner[c] = r => stored[c] = NoSnapshot
    BY <1>1 DEF TransactionsInv, LocksInv
  <2>3. 0 # NoSnapshot
    BY ConstantsAssumption
  <2>4. World' = World
    BY <2>1, <2>2, <2>3 DEF World
  <2>5. CASE Errors(r)
    BY <2>1, <2>4, <2>5 DEF Errors
  <2>6. CASE ~Errors(r)
    <3>1. \A c \in Chunks : answer[r][c] # Failed
      BY <2>6 DEF Errors
    <3>2. \A c \in Chunks : answer[r][c].created => rowOwner[c] = r
      BY <1>1, <2>6, <3>1 DEF TransactionsInv, AnswerInv
    <3> QED BY <2>1, <2>3, <2>4, <2>6, <3>1, <3>2
  <2> QED BY <2>5, <2>6
<1>2. TransactionsInv /\ [Next]_vars => [\A r \in Readers : End(r) =>
          /\ World' = World
          /\ IF \E c \in Chunks : answer[r][c] = Failed THEN stored' = stored
             ELSE \A c \in Chunks : answer[r][c].created => stored'[c] # NoSnapshot]_vars
  BY <1>1
<1> QED BY <1>2, TransactionsAreKept, PTL DEF Spec, AllOrNothingStored
=============================================================================

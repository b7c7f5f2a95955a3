---------------------- MODULE BatchChunkMutationProofs ----------------------
(***************************************************************************)
(* Proofs about BatchChunkMutation, for every set of chunks, contents,      *)
(* edits, references and snapshot objects: the inductive invariant of the   *)
(* write-back cache, the implementation of BatchEdit, and the events.       *)
(***************************************************************************)
EXTENDS BatchChunkMutation, TLAPS

\* The empty entry of a chunk is told apart from every entry with an object.
LEMMA EntryWithObject ==
    ASSUME NEW o \in Objects, NEW x
    PROVE  [object |-> o, content |-> x] # NoEntry
  BY ValuesAssumption DEF NoEntry

\* Initially nothing is cached, held or changed.
LEMMA InitBatchInv == Init => BatchInv
  <1> USE ValuesAssumption, EffectAssumption
  <1> SUFFICES ASSUME Init PROVE BatchInv OBVIOUS
  <1>1. TypeOK
    BY DEF Init, TypeOK, Forgotten, NoEntry, Nothing
  <1>2. CachedIsDeferred /\ OthersAreStored /\ OneChunkPerObject /\ DeferredExist
    BY DEF Init, Forgotten, NoEntry, CachedIsDeferred, OthersAreStored, OneChunkPerObject, DeferredExist
  <1>3. HeldIsCurrent /\ IdleIsEmpty /\ NoRefOverlooked
    BY DEF Init, Forgotten, NoEntry, Nothing, HeldIsCurrent, IdleIsEmpty, NoRefOverlooked
  <1> QED BY <1>1, <1>2, <1>3 DEF BatchInv

\* A batch that ends leaves no object, entry or list behind.
LEMMA ResetEmpties ==
    ASSUME Reset, refs' = storedRefs',
           row' \in [Chunks -> Rows \cup {NoRow}], storedRefs' \in [Chunks -> SUBSET Refs]
    PROVE  BatchInv'
  <1> USE ValuesAssumption, EffectAssumption DEF Reset, AfterBatch, Forgotten
  <1>1. TypeOK'
    BY DEF TypeOK, NoEntry, Nothing
  <1>2. (CachedIsDeferred /\ OthersAreStored /\ OneChunkPerObject /\ DeferredExist)'
    BY DEF NoEntry, CachedIsDeferred, OthersAreStored, OneChunkPerObject, DeferredExist
  <1>3. (HeldIsCurrent /\ IdleIsEmpty /\ NoRefOverlooked)'
    BY DEF NoEntry, Nothing, HeldIsCurrent, IdleIsEmpty, NoRefOverlooked
  <1> QED BY <1>1, <1>2, <1>3 DEF BatchInv

\* The row of a chunk without an entry is the stored one.
LEMMA FoundIsStored ==
    ASSUME BatchInv, NEW c \in Chunks, cache[c] = NoEntry
    PROVE  Found(c) = row[c]
  BY DEF BatchInv, OthersAreStored, Found

\* A load makes a new object or takes the cached one.
LEMMA LoadStep ==
    ASSUME BatchInv, NEW c \in Chunks, Load(c)
    PROVE  BatchInv'
  <1> USE ValuesAssumption, EffectAssumption
  <1>1. CASE cache[c] # NoEntry /\ UNCHANGED <<heap, deferred>>
            /\ held' = [chunk |-> c, object |-> cache[c].object, content |-> cache[c].content]
    <2>1. TypeOK'
      BY <1>1 DEF BatchInv, TypeOK, Load
    <2>2. HeldIsCurrent'
      BY <1>1 DEF BatchInv, Load, HeldIsCurrent, Nothing
    <2> QED BY <1>1, <2>1, <2>2 DEF BatchInv, Load, CachedIsDeferred, OthersAreStored,
                 OneChunkPerObject, DeferredExist, IdleIsEmpty, NoRefOverlooked
  <1>2. CASE cache[c] = NoEntry /\ Found(c) # NoRow /\ \E o \in Objects :
                /\ heap[o] = Free
                /\ heap' = [heap EXCEPT ![o] = Found(c)]
                /\ deferred' = Defer(c, o)
                /\ held' = [chunk |-> c, object |-> o, content |-> Found(c).content]
    <2>1. PICK o \in Objects : /\ heap[o] = Free
                               /\ heap' = [heap EXCEPT ![o] = Found(c)]
                               /\ deferred' = Defer(c, o)
                               /\ held' = [chunk |-> c, object |-> o, content |-> Found(c).content]
      BY <1>2
    <2>2. Found(c) = row[c] /\ row[c] \in Rows
      BY <1>2, FoundIsStored DEF BatchInv, TypeOK
    <2>3. TypeOK'
      BY <2>1, <2>2 DEF BatchInv, TypeOK, Load, Defer, Rows
    <2>4. heap'[o] = row[c] /\ deferred'[c] = o
          /\ (\A p \in Objects : p # o => heap'[p] = heap[p])
          /\ (\A d \in Chunks : d # c => deferred'[d] = deferred[d])
          /\ (\A d \in Chunks : deferred[d] # o)
      BY <2>1, <2>2 DEF BatchInv, TypeOK, Defer, DeferredExist
    <2>5. UNCHANGED <<row, inserted, cache, event>>
      BY DEF Load
    <2>6. CachedIsDeferred'
      BY <1>2, <2>1, <2>4, <2>5 DEF BatchInv, CachedIsDeferred
    <2>7. OthersAreStored'
      BY <1>2, <2>2, <2>4, <2>5 DEF BatchInv, TypeOK, OthersAreStored
    <2>8. OneChunkPerObject'
      BY <2>4 DEF BatchInv, OneChunkPerObject
    <2>a. DeferredExist'
      BY <2>2, <2>4 DEF BatchInv, TypeOK, DeferredExist
    <2>9. HeldIsCurrent'
      BY <1>2, <2>1, <2>2, <2>4 DEF Load, HeldIsCurrent, Nothing
    <2> QED BY <2>3, <2>6, <2>7, <2>8, <2>a, <2>9 DEF BatchInv, Load, IdleIsEmpty, NoRefOverlooked
  <1>3. CASE cache[c] = NoEntry /\ Found(c) = NoRow /\ UNCHANGED <<heap, deferred>>
            /\ held' = [chunk |-> c, object |-> NoObject, content |-> Base]
    <2>1. row[c] = NoRow
      BY <1>3, FoundIsStored
    <2>2. TypeOK'
      BY <1>3 DEF BatchInv, TypeOK, Load
    <2>3. HeldIsCurrent'
      BY <1>3, <2>1 DEF BatchInv, Load, HeldIsCurrent, Nothing
    <2> QED BY <1>3, <2>2, <2>3 DEF BatchInv, Load, CachedIsDeferred, OthersAreStored,
                 OneChunkPerObject, DeferredExist, IdleIsEmpty, NoRefOverlooked
  <1> QED BY <1>1, <1>2, <1>3 DEF Load

\* What a child finds and leaves when it saves: the object it held, or a new
\* one, gets the next content and revision of the chunk and becomes the one
\* object of the chunk, and no other chunk uses it.
LEMMA SaveFacts ==
    ASSUME BatchInv, NEW e \in Edits, Save(e)
    PROVE  \E c \in Chunks, o \in Objects :
              LET s == [content |-> Effect[e][ContentOf(View(c))], revision |-> RevisionOf(View(c)) + 1] IN
              /\ c = held.chunk /\ s \in Rows
              /\ held.object = NoObject => heap[o] = Free
              /\ held.object # NoObject => o = held.object
              /\ heap' = [heap EXCEPT ![o] = s]
              /\ deferred' = [deferred EXCEPT ![c] = o]
              /\ cache' = [cache EXCEPT ![c] = [object |-> o, content |-> s.content]]
              /\ inserted' = Insert(c, o, s)
              /\ event' = [event EXCEPT ![c] = s]
              /\ \A d \in Chunks : d # c => deferred[d] # o
  <1> USE ValuesAssumption, EffectAssumption
  <1> DEFINE c == held.chunk
             s == [content |-> Effect[e][held.content],
                   revision |-> 1 + IF held.object = NoObject THEN 0 ELSE heap[held.object].revision]
  <1>1. /\ held # Nothing /\ c \in Chunks /\ held.content \in Contents /\ active
        /\ held.object \in Objects \cup {NoObject}
    BY DEF BatchInv, TypeOK, Save, HeldIsCurrent
  <1>2. held.object # NoObject =>
            /\ held.object = deferred[c]
            /\ heap[held.object] \in Rows
            /\ View(c) = heap[held.object]
            /\ held.content = heap[held.object].content
    <2> SUFFICES ASSUME held.object # NoObject
                 PROVE  /\ held.object = deferred[c]
                        /\ heap[held.object] \in Rows
                        /\ View(c) = heap[held.object]
                        /\ held.content = heap[held.object].content
      OBVIOUS
    <2>1. CASE cache[c] # NoEntry
      BY <1>1, <2>1 DEF BatchInv, TypeOK, HeldIsCurrent, CachedIsDeferred, View
    <2>2. CASE cache[c] = NoEntry
      <3>1. row[c] # NoRow
        BY <1>1, <2>2 DEF BatchInv, HeldIsCurrent
      <3>2. held.object = deferred[c] /\ held.content = row[c].content
        BY <1>1, <2>2, <3>1 DEF BatchInv, HeldIsCurrent
      <3>3. heap[deferred[c]] = row[c] /\ row[c] \in Rows
        BY <1>1, <2>2, <3>1, <3>2 DEF BatchInv, OthersAreStored, TypeOK
      <3> QED BY <2>2, <3>2, <3>3 DEF View
    <2> QED BY <2>1, <2>2
  <1>3. held.object = NoObject => View(c) = NoRow /\ held.content = Base
    BY <1>1 DEF BatchInv, HeldIsCurrent, CachedIsDeferred, View
  <1>4. s = [content |-> Effect[e][ContentOf(View(c))], revision |-> RevisionOf(View(c)) + 1]
        /\ s \in Rows
    <2>1. CASE held.object = NoObject
      BY <1>1, <1>3, <2>1 DEF ContentOf, RevisionOf, Rows
    <2>2. CASE held.object # NoObject
      <3>1. heap[held.object].revision \in Nat /\ View(c) # NoRow
        BY <1>2, <2>2 DEF Rows
      <3>2. ContentOf(View(c)) = held.content /\ RevisionOf(View(c)) = heap[held.object].revision
        BY <1>2, <2>2, <3>1 DEF ContentOf, RevisionOf
      <3>3. s.revision = RevisionOf(View(c)) + 1 /\ RevisionOf(View(c)) + 1 \in Nat
        BY <2>2, <3>1, <3>2
      <3>4. Effect[e][held.content] \in Contents
        BY <1>1
      <3> QED BY <2>2, <3>1, <3>2, <3>3, <3>4 DEF Rows
    <2> QED BY <2>1, <2>2
  <1>5. PICK o \in Objects :
          /\ IF held.object = NoObject THEN heap[o] = Free ELSE o = held.object
          /\ heap' = [heap EXCEPT ![o] = s]
          /\ inserted' = Insert(c, o, s)
          /\ deferred' = Defer(c, o)
          /\ cache' = Remember(c, o, s)
    BY DEF Save
  <1>6. \A d \in Chunks : d # c => deferred[d] # o
    BY <1>1, <1>2, <1>5 DEF BatchInv, TypeOK, DeferredExist, OneChunkPerObject
  <1>7. event' = [event EXCEPT ![c] = s]
    BY DEF Save
  <1> HIDE DEF s
  <1> QED BY <1>1, <1>4, <1>5, <1>6, <1>7 DEF Defer, Remember

\* A child that saves keeps one object per chunk, with the content it caches.
LEMMA SaveStep ==
    ASSUME BatchInv, NEW e \in Edits, Save(e)
    PROVE  BatchInv'
  <1> USE ValuesAssumption, EffectAssumption
  <1>0. PICK c \in Chunks, o \in Objects :
              LET s == [content |-> Effect[e][ContentOf(View(c))], revision |-> RevisionOf(View(c)) + 1] IN
              /\ c = held.chunk /\ s \in Rows
              /\ held.object = NoObject => heap[o] = Free
              /\ held.object # NoObject => o = held.object
              /\ heap' = [heap EXCEPT ![o] = s]
              /\ deferred' = [deferred EXCEPT ![c] = o]
              /\ cache' = [cache EXCEPT ![c] = [object |-> o, content |-> s.content]]
              /\ inserted' = Insert(c, o, s)
              /\ event' = [event EXCEPT ![c] = s]
              /\ \A d \in Chunks : d # c => deferred[d] # o
    BY SaveFacts
  <1> DEFINE s == [content |-> Effect[e][ContentOf(View(c))], revision |-> RevisionOf(View(c)) + 1]
  <1>1. /\ c = held.chunk /\ s \in Rows
        /\ held.object = NoObject => heap[o] = Free
        /\ held.object # NoObject => o = held.object
        /\ heap' = [heap EXCEPT ![o] = s]
        /\ deferred' = [deferred EXCEPT ![c] = o]
        /\ cache' = [cache EXCEPT ![c] = [object |-> o, content |-> s.content]]
        /\ inserted' = Insert(c, o, s)
        /\ event' = [event EXCEPT ![c] = s]
        /\ \A d \in Chunks : d # c => deferred[d] # o
    BY <1>0
  <1> HIDE DEF s
  <1>a. s # Free /\ s.content \in Contents
    BY <1>1 DEF Rows
  <1>b. held # Nothing /\ held' = Nothing /\ UNCHANGED <<row, storedRefs, active>>
    BY DEF Save
  <1>2. active /\ held # Nothing /\ s # Free /\ s.content \in Contents
        /\ held' = Nothing /\ UNCHANGED <<row, storedRefs, active>>
    BY <1>a, <1>b DEF BatchInv, HeldIsCurrent
  <1>3. /\ heap'[o] = s /\ deferred'[c] = o /\ event'[c] = s
        /\ cache'[c] = [object |-> o, content |-> s.content] /\ cache'[c] # NoEntry
        /\ \A d \in Chunks : d # c => deferred'[d] = deferred[d] /\ cache'[d] = cache[d]
                                      /\ event'[d] = event[d] /\ inserted'[d] = inserted[d]
        /\ \A p \in Objects : p # o => heap'[p] = heap[p]
    BY <1>1, EntryWithObject DEF BatchInv, TypeOK, Insert
  <1>4. TypeOK'
    <2>1. /\ heap' \in [Objects -> Rows \cup {Free}]
          /\ deferred' \in [Chunks -> Objects \cup {NoObject}]
          /\ cache' \in [Chunks -> [object: Objects \cup {NoObject}, content: Contents]]
          /\ inserted' \in [Chunks -> Rows \cup {NoRow}]
          /\ event' \in [Chunks -> Rows \cup {NoRow}]
      BY <1>1, <1>2 DEF BatchInv, TypeOK, Insert
    <2>2. /\ refList' \in [Chunks -> {NotLoaded} \cup SUBSET Refs]
          /\ refs' \in [Chunks -> SUBSET Refs]
      <3>1. Adds[e] \in SUBSET Refs /\ Drops[e] \in SUBSET Refs
        BY RefsAssumption
      <3> QED BY <1>1, <3>1 DEF BatchInv, TypeOK, Save, RefListAfter
    <2> QED BY <1>2, <2>1, <2>2 DEF BatchInv, TypeOK
  <1>5. CachedIsDeferred'
    BY <1>1, <1>2, <1>3 DEF BatchInv, TypeOK, CachedIsDeferred
  <1>6. OthersAreStored'
    BY <1>1, <1>2, <1>3 DEF BatchInv, TypeOK, OthersAreStored
  <1>7. OneChunkPerObject' /\ DeferredExist'
    BY <1>1, <1>2, <1>3 DEF BatchInv, TypeOK, OneChunkPerObject, DeferredExist
  <1>8. HeldIsCurrent' /\ IdleIsEmpty'
    BY <1>2 DEF HeldIsCurrent, IdleIsEmpty
  <1>9. NoRefOverlooked'
    <2> DEFINE list == IF refList[c] = NotLoaded THEN refs[c] ELSE refList[c]
    <2>1. /\ refList' = [refList EXCEPT ![c] = list \cup Adds[e]]
          /\ refs' = [refs EXCEPT ![c] = (@ \ Drops[e]) \cup Adds[e]]
      BY <1>1 DEF Save, RefListAfter
    <2>2. refs[c] \subseteq list
      BY <1>1 DEF BatchInv, NoRefOverlooked
    <2>3. refs'[c] \subseteq refList'[c]
      BY <1>1, <2>1, <2>2 DEF BatchInv, TypeOK
    <2>4. \A d \in Chunks : d # c => refs'[d] = refs[d] /\ refList'[d] = refList[d]
      BY <2>1 DEF BatchInv, TypeOK
    <2> QED BY <2>3, <2>4 DEF BatchInv, NoRefOverlooked
  <1> QED BY <1>4, <1>5, <1>6, <1>7, <1>8, <1>9 DEF BatchInv

\* A commit stores the batch's copy of every chunk.
LEMMA CommitStores ==
    ASSUME BatchInv, Commit
    PROVE  row' = Working
  <1> SUFFICES ASSUME NEW c \in Chunks
               PROVE  (IF deferred[c] = NoObject THEN Found(c) ELSE heap[deferred[c]]) = View(c)
    BY DEF Commit, Working
  <1>1. CASE cache[c] = NoEntry
    BY <1>1, FoundIsStored DEF BatchInv, OthersAreStored, View
  <1>2. CASE cache[c] # NoEntry
    BY <1>2, ValuesAssumption DEF BatchInv, CachedIsDeferred, View
  <1> QED BY <1>1, <1>2

\* Between batches another command's edit is one more stored row.
LEMMA EditElsewhereStep ==
    ASSUME BatchInv, NEW c \in Chunks, NEW e \in Edits, EditElsewhere(c, e)
    PROVE  BatchInv'
  <1> USE ValuesAssumption, EffectAssumption
  <1>1. ContentOf(row[c]) \in Contents /\ RevisionOf(row[c]) \in Nat
    BY DEF BatchInv, TypeOK, ContentOf, RevisionOf, Rows
  <1>2. row' \in [Chunks -> Rows \cup {NoRow}]
    <2>1. [content |-> Effect[e][ContentOf(row[c])], revision |-> RevisionOf(row[c]) + 1] \in Rows
      BY <1>1 DEF Rows
    <2> QED BY <2>1 DEF BatchInv, TypeOK, EditElsewhere
  <1>3. storedRefs' \in [Chunks -> SUBSET Refs]
    <2>1. Adds[e] \in SUBSET Refs /\ Drops[e] \in SUBSET Refs
      BY RefsAssumption
    <2> QED BY <2>1 DEF BatchInv, TypeOK, EditElsewhere
  <1>4. ~active /\ refs' = storedRefs' /\ UNCHANGED <<inserted, heap, deferred, cache, held, refList, active, event>>
    BY DEF EditElsewhere, memory
  <1>5. TypeOK'
    BY <1>2, <1>3, <1>4 DEF BatchInv, TypeOK
  <1>6. \A d \in Chunks : cache[d] = NoEntry /\ deferred[d] = NoObject /\ refList[d] = NotLoaded
    BY <1>4 DEF BatchInv, IdleIsEmpty
  <1>7. (CachedIsDeferred /\ OthersAreStored /\ OneChunkPerObject /\ DeferredExist)'
    BY <1>4, <1>6 DEF BatchInv, CachedIsDeferred, OthersAreStored, OneChunkPerObject, DeferredExist
  <1>8. (HeldIsCurrent /\ IdleIsEmpty /\ NoRefOverlooked)'
    BY <1>4, <1>6 DEF BatchInv, HeldIsCurrent, IdleIsEmpty, NoRefOverlooked
  <1> QED BY <1>5, <1>7, <1>8 DEF BatchInv

\* Every step keeps the inductive invariant.
LEMMA NextBatchInv == BatchInv /\ [Next]_vars => BatchInv'
  <1> SUFFICES ASSUME BatchInv, [Next]_vars PROVE BatchInv' OBVIOUS
  <1>1. CASE Begin
    <2>1. refs' \in [Chunks -> SUBSET Refs] /\ active' = TRUE
      BY <1>1 DEF Begin, BatchInv, TypeOK
    <2>2. refs' = refs /\ held = Nothing /\ \A c \in Chunks : refList[c] = NotLoaded
      BY <1>1 DEF Begin, BatchInv, IdleIsEmpty
    <2>3. UNCHANGED <<row, inserted, heap, deferred, cache, held, refList, storedRefs, event>>
      BY <1>1 DEF Begin, memory
    <2> QED BY <2>1, <2>2, <2>3 DEF BatchInv, TypeOK, CachedIsDeferred, OthersAreStored,
              OneChunkPerObject, DeferredExist, HeldIsCurrent, IdleIsEmpty, NoRefOverlooked
  <1>2. CASE OnlyRead
    BY <1>2 DEF OnlyRead, BatchInv, TypeOK, CachedIsDeferred, OthersAreStored,
       OneChunkPerObject, DeferredExist, HeldIsCurrent, IdleIsEmpty, NoRefOverlooked
  <1>3. CASE Commit
    <2>1. row' = Working /\ Reset /\ storedRefs' = refs /\ refs' = refs
      BY <1>3, CommitStores DEF Commit
    <2>2. Working \in [Chunks -> Rows \cup {NoRow}]
      <3>1. \A c \in Chunks : View(c) \in Rows \cup {NoRow}
        BY DEF View, BatchInv, TypeOK, CachedIsDeferred
      <3> QED BY <3>1 DEF Working
    <2>3. refs \in [Chunks -> SUBSET Refs]
      BY DEF BatchInv, TypeOK
    <2> QED BY <2>1, <2>2, <2>3, ResetEmpties
  <1>4. CASE Abort
    BY <1>4, ResetEmpties DEF Abort, BatchInv, TypeOK
  <1>5. ASSUME NEW c \in Chunks, Load(c) PROVE BatchInv'
    BY <1>5, LoadStep
  <1>6. ASSUME NEW e \in Edits, Save(e) PROVE BatchInv'
    BY <1>6, SaveStep
  <1>7. ASSUME NEW c \in Chunks, NEW e \in Edits, EditElsewhere(c, e) PROVE BatchInv'
    BY <1>7, EditElsewhereStep
  <1>8. CASE UNCHANGED vars
    BY <1>8 DEF vars, memory, BatchInv, TypeOK, CachedIsDeferred, OthersAreStored,
       OneChunkPerObject, DeferredExist, HeldIsCurrent, IdleIsEmpty, NoRefOverlooked
  <1> QED BY <1>1, <1>2, <1>3, <1>4, <1>5, <1>6, <1>7, <1>8 DEF Next

\* The cache of a batch keeps, for every chunk, one snapshot object with the
\* content later children load, and that object is the one written.
THEOREM CacheIsCoherent == Spec => []BatchInv
  <1> QED BY InitBatchInv, NextBatchInv, PTL DEF Spec

\* The cached list of a chunk's references lacks no active reference.
THEOREM ListsAreComplete == Spec => []NoRefOverlooked
  <1>1. BatchInv => NoRefOverlooked
    BY DEF BatchInv
  <1> QED BY CacheIsCoherent, <1>1, PTL

\* A save is one edit of the batch's copy.
LEMMA SaveIsEdit ==
    ASSUME BatchInv, NEW e \in Edits, Save(e)
    PROVE  \E c \in Chunks : Batch!Edit(c, e)
  <1> USE ValuesAssumption
  <1>0. PICK c \in Chunks, o \in Objects :
              LET s == [content |-> Effect[e][ContentOf(View(c))], revision |-> RevisionOf(View(c)) + 1] IN
              /\ c = held.chunk /\ s \in Rows
              /\ held.object = NoObject => heap[o] = Free
              /\ held.object # NoObject => o = held.object
              /\ heap' = [heap EXCEPT ![o] = s]
              /\ deferred' = [deferred EXCEPT ![c] = o]
              /\ cache' = [cache EXCEPT ![c] = [object |-> o, content |-> s.content]]
              /\ inserted' = Insert(c, o, s)
              /\ event' = [event EXCEPT ![c] = s]
              /\ \A d \in Chunks : d # c => deferred[d] # o
    BY SaveFacts
  <1> DEFINE s == [content |-> Effect[e][ContentOf(View(c))], revision |-> RevisionOf(View(c)) + 1]
  <1>1. /\ s \in Rows
        /\ heap' = [heap EXCEPT ![o] = s]
        /\ cache' = [cache EXCEPT ![c] = [object |-> o, content |-> s.content]]
        /\ \A d \in Chunks : d # c => deferred[d] # o
    BY <1>0
  <1>2. s = Batch!After(Working[c], e)
    BY DEF Working, ContentOf, RevisionOf, Batch!After, Batch!ContentOf, Batch!RevisionOf
  <1> HIDE DEF s
  <1>3. active /\ UNCHANGED <<row, active>>
    BY DEF Save, BatchInv, HeldIsCurrent
  <1>4. View(c)' = s
    <2>1. cache'[c] = [object |-> o, content |-> s.content]
      BY <1>1 DEF BatchInv, TypeOK
    <2>2. cache'[c] # NoEntry
      BY <2>1, EntryWithObject
    <2>3. heap'[o] = s
      BY <1>1 DEF BatchInv, TypeOK
    <2> QED BY <2>1, <2>2, <2>3 DEF View
  <1>5. ASSUME NEW d \in Chunks, d # c PROVE View(d)' = View(d)
    <2>1. cache'[d] = cache[d] /\ row' = row
      BY <1>1, <1>3, <1>5 DEF BatchInv, TypeOK
    <2>2. cache[d] # NoEntry => heap'[cache[d].object] = heap[cache[d].object]
      BY <1>1, <1>5 DEF BatchInv, TypeOK, CachedIsDeferred
    <2> QED BY <2>1, <2>2 DEF View
  <1>6. Working' = [Working EXCEPT ![c] = s]
    BY <1>4, <1>5 DEF Working
  <1> QED BY <1>2, <1>3, <1>6 DEF Batch!Edit

\* The batch's copy is the stored one when no batch runs.
LEMMA IdleWorking == BatchInv /\ ~active => Working = row
  BY DEF BatchInv, IdleIsEmpty, Working, View, TypeOK

\* Every step is one step of BatchEdit or leaves its state alone.
LEMMA StepRefines == BatchInv /\ [Next]_vars => [Batch!Next]_<<row, Working, active>>
  <1> SUFFICES ASSUME BatchInv, BatchInv', [Next]_vars
               PROVE  [Batch!Next]_<<row, Working, active>>
    BY NextBatchInv
  <1>1. CASE Begin
    <2>1. UNCHANGED <<row, heap, cache>> /\ ~active /\ active' = TRUE
      BY <1>1 DEF Begin, memory
    <2>2. Working' = Working
      BY <2>1 DEF Working, View
    <2> QED BY <2>1, <2>2 DEF Batch!Begin, Batch!Next
  <1>2. CASE OnlyRead
    <2>1. UNCHANGED <<row, heap, cache, active>>
      BY <1>2 DEF OnlyRead
    <2> QED BY <2>1 DEF Working, View
  <1>3. CASE Commit
    <2>1. active /\ active' = FALSE /\ row' = Working
      BY <1>3, CommitStores DEF Commit, Reset
    <2>2. Working' = row'
      BY <2>1, IdleWorking DEF BatchInv, IdleIsEmpty, Working, View, TypeOK
    <2> QED BY <2>1, <2>2 DEF Batch!Commit, Batch!Next
  <1>4. CASE Abort
    <2>1. active /\ active' = FALSE /\ row' = row
      BY <1>4 DEF Abort, Reset
    <2>2. Working' = row'
      BY <2>1 DEF BatchInv, IdleIsEmpty, Working, View, TypeOK
    <2> QED BY <2>1, <2>2 DEF Batch!Abort, Batch!Next
  <1>5. ASSUME NEW c \in Chunks, Load(c) PROVE UNCHANGED <<row, Working, active>>
    <2>1. UNCHANGED <<row, cache, active>>
      BY <1>5 DEF Load
    <2>2. \A o \in Objects : heap[o] # Free => heap'[o] = heap[o]
      BY <1>5 DEF Load, BatchInv, TypeOK
    <2>3. \A d \in Chunks : View(d)' = View(d)
      BY <2>1, <2>2 DEF View, BatchInv, CachedIsDeferred
    <2> QED BY <2>1, <2>3 DEF Working
  <1>6. ASSUME NEW e \in Edits, Save(e) PROVE Batch!Next
    BY <1>6, SaveIsEdit DEF Batch!Next
  <1>7. ASSUME NEW c \in Chunks, NEW e \in Edits, EditElsewhere(c, e) PROVE Batch!Next
    <2>1. ~active /\ active' = active /\ UNCHANGED <<heap, cache>>
          /\ row' = [row EXCEPT ![c] = Batch!After(row[c], e)]
      BY <1>7 DEF EditElsewhere, memory, Batch!After, Batch!ContentOf, Batch!RevisionOf, ContentOf, RevisionOf
    <2>2. Working' = row'
      BY <2>1 DEF BatchInv, IdleIsEmpty, Working, View, TypeOK
    <2> QED BY <2>1, <2>2 DEF Batch!EditElsewhere, Batch!Next
  <1>8. CASE UNCHANGED vars
    BY <1>8 DEF vars, memory, Working, View
  <1> QED BY <1>1, <1>2, <1>3, <1>4, <1>5, <1>6, <1>7, <1>8 DEF Next

\* The children of a batch edit one copy of the chunks in their order, and
\* commit and rollback are atomic: the cache implements BatchEdit.
THEOREM CacheImplementsBatchEdit == Spec => ChildrenBuildOnEachOther
  <1>1. Init => Batch!Init
    BY DEF Init, Forgotten, Batch!Init, Working, View
  <1> QED BY <1>1, StepRefines, CacheIsCoherent, PTL DEF Spec, ChildrenBuildOnEachOther, Batch!Spec

\* The last event of each chunk tells the revision and content the commit stores.
THEOREM EventsAreTrue == Spec => EventsDescribeRows
  <1>1. ASSUME BatchInv, [Next]_vars, active, ~active', row' # row,
               NEW c \in Chunks, event[c] # NoRow
        PROVE  row'[c] = event[c]
    <2>1. Commit
      BY <1>1 DEF Next, vars, Begin, OnlyRead, Load, Save, EditElsewhere, Abort
    <2>2. cache[c] # NoEntry
      BY <1>1 DEF BatchInv, OthersAreStored
    <2>3. View(c) = event[c]
      BY <1>1, <2>2 DEF BatchInv, CachedIsDeferred, View
    <2> QED BY <1>1, <2>1, <2>3, CommitStores DEF Working
  <1>2. BatchInv /\ [Next]_vars =>
          [active /\ ~active' /\ row' # row =>
              \A c \in Chunks : event[c] # NoRow => row'[c] = event[c]]_vars
    BY <1>1
  <1> QED BY <1>2, CacheIsCoherent, PTL DEF Spec, EventsDescribeRows
=============================================================================

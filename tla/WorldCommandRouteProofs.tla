----------------------- MODULE WorldCommandRouteProofs -----------------------
EXTENDS WorldCommandRoute, FiniteSetTheorems, WellFoundedInduction, TLAPS

(* A command visits its chunks in increasing order: a nonempty set of chunks
   has a least element, so NextChunk picks one of those left to visit. *)
LEMMA LeastChunk ==
    ASSUME NEW S, S \subseteq Nat, S # {}
    PROVE  \E c \in S : \A d \in S : c <= d
<1> DEFINE R == {ss \in Nat \X Nat : ss[1] < ss[2]}
<1>1. IsWellFoundedOn(R, Nat)
  BY NatLessThanWellFounded DEF OpToRel
<1>2. \E c \in S : \A d \in S : ~ (<<d, c>> \in R)
  <2> HIDE DEF R
  <2> QED BY <1>1, WFMin
<1>3. PICK c \in S : \A d \in S : ~ (<<d, c>> \in R)
  BY <1>2
<1>4. ASSUME NEW d \in S PROVE c <= d
  <2>1. ~ (d < c)
    BY <1>3
  <2> QED BY <2>1
<1> QED BY <1>4

-----------------------------------------------------------------------------
(* Helpers. *)

LEMMA NextChunkType ==
    ASSUME TypeOK, NEW r \in Requests, todo[r] # {}
    PROVE  NextChunk(r) \in todo[r] /\ NextChunk(r) \in Chunks
<1>1. todo[r] \subseteq Chunks /\ todo[r] \subseteq Nat
  BY ChunksAssumption DEF TypeOK
<1>2. \E c \in todo[r] : \A d \in todo[r] : c <= d
  BY <1>1, LeastChunk
<1> QED BY <1>1, <1>2 DEF NextChunk

LEMMA KeyType ==
    ASSUME TypeOK, NEW r \in Requests
    PROVE  Key(r) \in Keys /\ World(r) \in Worlds /\ payload[r] \in Payloads
BY DEF TypeOK, Key, World, Keys, Payloads

LEMMA ContentType ==
    ASSUME NEW c \in Chunks, NEW s \in MaybeSnapshot
    PROVE  ContentOf(c, s) \in SUBSET Cells
BY ChunksAssumption DEF ContentOf, MaybeSnapshot, Snapshots

LEMMA MutatedType ==
    ASSUME NEW s \in MaybeSnapshot, NEW content \in SUBSET Cells
    PROVE  Mutated(s, content) \in Snapshots
BY DEF Mutated, MaybeSnapshot, Snapshots

LEMMA EditType ==
    ASSUME NEW p \in Payloads, NEW content \in SUBSET Cells
    PROVE  Edit(p, content) \in SUBSET Cells
BY DEF Edit, Payloads

-----------------------------------------------------------------------------
(* Types, and what a request still has to visit. *)

TypeInv == TypeOK /\ WorkInv

\* Commit and rollback leave every lock and every request's own state typed.
LEMMA FinishTypes ==
    ASSUME TypeInv, NEW r \in Requests,
           NEW answer \in {"ok", "lost", "replayed", "rejected", "failed"},
           Finish(r, answer),
           snapshots' \in [Chunks -> MaybeSnapshot],
           events' \in [Chunks -> Seq(EventRecords)],
           receipts' \in [Keys -> Receipts \cup {NoReceipt}]
    PROVE  TypeInv'
<1>1. NoWrites \in [Chunks -> Writes \cup {NoWrite}]
  BY DEF NoWrites
<1>2. TypeOK'
  BY <1>1 DEF TypeInv, TypeOK, Finish, MaybeSnapshot
<1>3. WorkInv'
  BY DEF TypeInv, TypeOK, WorkInv, Finish, IsCommand
<1> QED BY <1>2, <1>3 DEF TypeInv

LEMMA RollbackTypes ==
    ASSUME TypeInv, NEW r \in Requests,
           NEW answer \in {"ok", "lost", "replayed", "rejected", "failed"},
           Rollback(r, answer)
    PROVE  TypeInv'
<1>1. /\ snapshots' \in [Chunks -> MaybeSnapshot]
      /\ events' \in [Chunks -> Seq(EventRecords)]
      /\ receipts' \in [Keys -> Receipts \cup {NoReceipt}]
  BY DEF Rollback, durable, TypeInv, TypeOK
<1> QED BY <1>1, FinishTypes DEF Rollback

LEMMA InitTypes == Init => TypeInv
<1> SUFFICES ASSUME Init PROVE TypeInv
  OBVIOUS
<1>1. \A r \in Requests : payload[r] \in Menu[r] /\ payload[r] \in Payloads
  BY MenuAssumption DEF Init, Offered
<1>2. payload \in [Requests -> Payloads]
  BY <1>1 DEF Init
<1>3. TypeOK
  BY <1>2 DEF Init, TypeOK, MaybeSnapshot, NoWrites
<1>4. WorkInv
  BY <1>1 DEF Init, WorkInv, IsCommand
<1> QED BY <1>3, <1>4 DEF TypeInv

LEMMA SaveTypes ==
    ASSUME TypeInv, NEW r \in Requests, SaveChunk(r)
    PROVE  TypeInv'
<1> DEFINE c == NextChunk(r)
           after == Edit(payload[r], ContentOf(c, view[r]))
<1>1. c \in todo[r] /\ c \in Chunks /\ view[r] \in MaybeSnapshot
  BY NextChunkType DEF SaveChunk, Step, TypeInv, TypeOK, WorkInv
<1>2. after \in SUBSET Cells
  BY <1>1, KeyType, ContentType, EditType DEF TypeInv
<1>3. [before |-> view[r], after |-> Mutated(view[r], after)] \in Writes
  BY <1>1, <1>2, MutatedType DEF Writes
<1>4. /\ IsCommand(r)
      /\ Step(r, "save", "load")
      /\ rowOwner' = [rowOwner EXCEPT ![c] = r]
      /\ pending' = [pending EXCEPT ![r][c] =
           [before |-> view[r], after |-> Mutated(view[r], after)]]
      /\ todo' = [todo EXCEPT ![r] = @ \ {c}]
      /\ UNCHANGED <<durable, worldLock, keyShare, logOwner, payload, view, reply>>
  BY DEF SaveChunk
<1> HIDE DEF c, after
<1>5. TypeOK'
  BY <1>1, <1>3, <1>4 DEF TypeInv, TypeOK, Step, durable
<1>6. WorkInv'
  BY <1>1, <1>4 DEF TypeInv, TypeOK, WorkInv, Step, IsCommand
<1> QED BY <1>5, <1>6 DEF TypeInv

LEMMA CommitTypes ==
    ASSUME TypeInv, NEW r \in Requests, Commit(r)
    PROVE  TypeInv'
<1> DEFINE event(c) == [key |-> Key(r), before |-> pending[r][c].before,
                        after |-> pending[r][c].after]
           receipt == [payload |-> payload[r],
                       status |-> IF Changed(r) = {} THEN "noop" ELSE "applied"]
<1>1. \A c \in Changed(r) : pending[r][c] \in Writes
  BY DEF Changed, TypeInv, TypeOK
<1>2. snapshots' \in [Chunks -> MaybeSnapshot]
  BY <1>1 DEF Commit, TypeInv, TypeOK, MaybeSnapshot, Writes
<1>3. events' \in [Chunks -> Seq(EventRecords)]
  <2>1. \A c \in Changed(r) : event(c) \in EventRecords
    BY <1>1, KeyType DEF TypeInv, EventRecords, Writes
  <2>2. \A c \in Changed(r) : Append(events[c], event(c)) \in Seq(EventRecords)
    <3> HIDE DEF event
    <3> QED BY <2>1 DEF Changed, TypeInv, TypeOK
  <2>3. events' = [c \in Chunks |->
            IF c \in Changed(r) THEN Append(events[c], event(c)) ELSE events[c]]
    BY DEF Commit
  <2> HIDE DEF event
  <2> QED BY <2>2, <2>3 DEF TypeInv, TypeOK
<1>4. receipts' \in [Keys -> Receipts \cup {NoReceipt}]
  <2>1. receipt \in Receipts
    BY KeyType DEF Receipts, TypeInv
  <2>2. receipts' = [receipts EXCEPT ![Key(r)] = receipt]
    BY DEF Commit
  <2> HIDE DEF receipt
  <2> QED BY <2>1, <2>2 DEF TypeInv, TypeOK
<1>5. PICK answer \in {"ok", "lost"} : Finish(r, answer)
  BY DEF Commit
<1> QED BY <1>2, <1>3, <1>4, <1>5, FinishTypes

LEMMA CommitMaterializedTypes ==
    ASSUME TypeInv, NEW r \in Requests, CommitMaterialized(r)
    PROVE  TypeInv'
<1> DEFINE c == NextChunk(r)
<1>1. c \in Chunks
  BY NextChunkType DEF CommitMaterialized, TypeInv, WorkInv
<1>2. Mutated(NoSnapshot, Base[c]) \in Snapshots
  BY <1>1, MutatedType, ChunksAssumption DEF MaybeSnapshot
<1>3. /\ snapshots' \in [Chunks -> MaybeSnapshot]
      /\ events' \in [Chunks -> Seq(EventRecords)]
      /\ receipts' \in [Keys -> Receipts \cup {NoReceipt}]
  <2>1. snapshots' = [snapshots EXCEPT ![c] = Mutated(NoSnapshot, Base[c])]
    BY DEF CommitMaterialized
  <2> HIDE DEF c
  <2> QED BY <1>1, <1>2, <2>1 DEF CommitMaterialized, TypeInv, TypeOK, MaybeSnapshot
<1> QED BY <1>3, FinishTypes DEF CommitMaterialized

\* The actions that end a request without a commit.
LEMMA EndWithoutCommit ==
    ASSUME NEW r \in Requests,
           \/ AnswerFromReceipt(r) \/ ReadStored(r) \/ DuplicateCommandId(r)
           \/ DuplicateChunk(r) \/ DeadlockAbort(r) \/ Abort(r)
    PROVE  \E answer \in {"ok", "replayed", "rejected", "failed"} : Rollback(r, answer)
BY DEF AnswerFromReceipt, ReadStored, DuplicateCommandId, DuplicateChunk, DeadlockAbort, Abort

\* Types and todo survive every step; one case per action.
LEMMA StepTypes == TypeInv /\ [Next]_vars => TypeInv'
<1> SUFFICES ASSUME TypeInv, [Next]_vars PROVE TypeInv'
  OBVIOUS
<1>1. ASSUME NEW r \in Requests, Begin(r) PROVE TypeInv'
  <2>1. TypeOK'
    BY <1>1 DEF TypeInv, TypeOK, Begin, Step, durable, locks, Payloads
  <2>2. ~IsCommand(r) => payload[r].chunks # {}
    BY MenuAssumption, KeyType DEF TypeInv, WorkInv, IsCommand, Payloads
  <2>3. WorkInv'
    BY <1>1, <2>2 DEF TypeInv, TypeOK, WorkInv, Begin, Step, durable, locks, IsCommand
  <2> QED BY <2>1, <2>3 DEF TypeInv
<1>2. ASSUME NEW r \in Requests, LockWorld(r) PROVE TypeInv'
  BY <1>2, KeyType DEF TypeInv, TypeOK, WorkInv, LockWorld, Step, durable, IsCommand
<1>3. ASSUME NEW r \in Requests, LookupReceipt(r) PROVE TypeInv'
  BY <1>3 DEF TypeInv, TypeOK, WorkInv, LookupReceipt, Step, durable, locks, IsCommand
<1>4. ASSUME NEW r \in Requests, InsertCommandLog(r) PROVE TypeInv'
  <2>1. TypeOK'
    BY <1>4, KeyType DEF TypeInv, TypeOK, InsertCommandLog, Step, durable
  <2>2. WorkInv'
    BY <1>4 DEF TypeInv, TypeOK, WorkInv, InsertCommandLog, Step, IsCommand
  <2> QED BY <2>1, <2>2 DEF TypeInv
<1>5. ASSUME NEW r \in Requests, LoadChunk(r) PROVE TypeInv'
  BY <1>5, NextChunkType
  DEF TypeInv, TypeOK, WorkInv, LoadChunk, Step, durable, locks, IsCommand
<1>6. ASSUME NEW r \in Requests, SkipChunk(r) PROVE TypeInv'
  BY <1>6 DEF TypeInv, TypeOK, WorkInv, SkipChunk, Step, durable, locks, IsCommand
<1>7. ASSUME NEW r \in Requests, GenerateForRead(r) PROVE TypeInv'
  BY <1>7 DEF TypeInv, TypeOK, WorkInv, GenerateForRead, Step, durable, locks, IsCommand
<1>8. ASSUME NEW r \in Requests, InsertMaterialized(r) PROVE TypeInv'
  <2>1. NextChunk(r) \in Chunks
    BY <1>8, NextChunkType DEF TypeInv, WorkInv, Step, InsertMaterialized
  <2> QED BY <1>8, <2>1
      DEF TypeInv, TypeOK, WorkInv, Step, InsertMaterialized, durable, IsCommand
<1>9. ASSUME NEW r \in Requests,
             NEW answer \in {"ok", "replayed", "rejected", "failed"}, Rollback(r, answer)
      PROVE  TypeInv'
  BY <1>9, RollbackTypes
<1>10. CASE UNCHANGED vars
  BY <1>10 DEF TypeInv, TypeOK, WorkInv, vars, durable, locks, local, IsCommand
<1> QED
  BY <1>1, <1>2, <1>3, <1>4, <1>5, <1>6, <1>7, <1>8, <1>9, <1>10,
     EndWithoutCommit, SaveTypes, CommitTypes, CommitMaterializedTypes
  DEF Next, Progress

(* Every variable keeps its type, whatever the clients send: no revision, no  *)
(* event and no lock owner is ever outside its column's domain.             *)
THEOREM TypeCorrect == Spec => []TypeOK
<1>1. Spec => []TypeInv
  BY InitTypes, StepTypes, PTL DEF Spec
<1>2. TypeInv => TypeOK
  BY DEF TypeInv
<1> QED BY <1>1, <1>2, PTL

-----------------------------------------------------------------------------
(* What the locks and the unique indexes guarantee.  A step of one request   *)
(* is described by what it does to the others: it leaves their state alone   *)
(* and takes no lock that another one holds.                                 *)

\* Whoever holds the world row keeps it, and no new holder sneaks in.
LEMMA StepLocks == TypeInv /\ LockInv /\ [Next]_vars => LockInv'
<1> SUFFICES ASSUME TypeInv, LockInv, [Next]_vars PROVE LockInv'
  OBVIOUS
<1> USE DEF Executing, IsCommand, World
<1>1. ASSUME NEW r \in Requests, Begin(r) PROVE LockInv'
  BY <1>1 DEF TypeInv, TypeOK, LockInv, Begin, Step, locks
<1>2. ASSUME NEW r \in Requests, LockWorld(r) PROVE LockInv'
  BY <1>2, AbsentValuesAssumption
  DEF TypeInv, TypeOK, WorkInv, LockInv, LockWorld, Step
<1>3. ASSUME NEW r \in Requests, LookupReceipt(r) PROVE LockInv'
  BY <1>3 DEF TypeInv, TypeOK, LockInv, LookupReceipt, Step, locks
<1>4. ASSUME NEW r \in Requests, InsertCommandLog(r) PROVE LockInv'
  BY <1>4 DEF TypeInv, TypeOK, WorkInv, LockInv, InsertCommandLog, ForeignKeyChecked, Step
<1>5. ASSUME NEW r \in Requests, LoadChunk(r) PROVE LockInv'
  BY <1>5 DEF TypeInv, TypeOK, LockInv, LoadChunk, Step, locks
<1>6. ASSUME NEW r \in Requests, SkipChunk(r) PROVE LockInv'
  BY <1>6 DEF TypeInv, TypeOK, LockInv, SkipChunk, Step, locks
<1>7. ASSUME NEW r \in Requests, SaveChunk(r) PROVE LockInv'
  BY <1>7 DEF TypeInv, TypeOK, LockInv, SaveChunk, Step
<1>8. ASSUME NEW r \in Requests, GenerateForRead(r) PROVE LockInv'
  BY <1>8 DEF TypeInv, TypeOK, LockInv, GenerateForRead, Step, locks
<1>9. ASSUME NEW r \in Requests, InsertMaterialized(r) PROVE LockInv'
  BY <1>9 DEF TypeInv, TypeOK, LockInv, InsertMaterialized, Step
<1>10. ASSUME NEW r \in Requests, NEW answer, Finish(r, answer) PROVE LockInv'
  BY <1>10, AbsentValuesAssumption DEF TypeInv, TypeOK, LockInv, Finish
<1>11. CASE UNCHANGED vars
  BY <1>11 DEF LockInv, vars, locks, local
<1> QED
  BY <1>1, <1>2, <1>3, <1>4, <1>5, <1>6, <1>7, <1>8, <1>9, <1>10, <1>11, EndWithoutCommit
  DEF Next, Progress, Commit, CommitMaterialized, Rollback

\* A command id that is being executed stays its owner's until the owner ends.
LEMMA StepLog == TypeInv /\ LogInv /\ [Next]_vars => LogInv'
<1> SUFFICES ASSUME TypeInv, LogInv, [Next]_vars PROVE LogInv'
  OBVIOUS
<1> USE DEF Executing, IsCommand, Key
<1>1. ASSUME NEW r \in Requests, Begin(r) PROVE LogInv'
  BY <1>1 DEF TypeInv, TypeOK, LogInv, Begin, Step, locks, durable
<1>2. ASSUME NEW r \in Requests, LockWorld(r) PROVE LogInv'
  BY <1>2 DEF TypeInv, TypeOK, LogInv, LockWorld, Step, durable
<1>3. ASSUME NEW r \in Requests, LookupReceipt(r) PROVE LogInv'
  BY <1>3 DEF TypeInv, TypeOK, LogInv, LookupReceipt, Step, locks, durable
<1>4. ASSUME NEW r \in Requests, InsertCommandLog(r) PROVE LogInv'
  BY <1>4, KeyType, AbsentValuesAssumption
  DEF TypeInv, TypeOK, LogInv, InsertCommandLog, IdTaken, Step, durable
<1>5. ASSUME NEW r \in Requests, LoadChunk(r) PROVE LogInv'
  BY <1>5 DEF TypeInv, TypeOK, LogInv, LoadChunk, Step, locks, durable
<1>6. ASSUME NEW r \in Requests, SkipChunk(r) PROVE LogInv'
  BY <1>6 DEF TypeInv, TypeOK, LogInv, SkipChunk, Step, locks, durable
<1>7. ASSUME NEW r \in Requests, SaveChunk(r) PROVE LogInv'
  BY <1>7 DEF TypeInv, TypeOK, LogInv, SaveChunk, Step, durable
<1>8. ASSUME NEW r \in Requests, GenerateForRead(r) PROVE LogInv'
  BY <1>8 DEF TypeInv, TypeOK, LogInv, GenerateForRead, Step, locks, durable
<1>9. ASSUME NEW r \in Requests, InsertMaterialized(r) PROVE LogInv'
  BY <1>9 DEF TypeInv, TypeOK, LogInv, InsertMaterialized, Step, durable
<1>10. ASSUME NEW r \in Requests, NEW answer, Finish(r, answer),
              \/ UNCHANGED receipts
              \/ Executing(r) /\ \E e : receipts' = [receipts EXCEPT ![Key(r)] = e]
       PROVE  LogInv'
  BY <1>10, KeyType DEF TypeInv, TypeOK, LogInv, Finish
<1>11. CASE UNCHANGED vars
  BY <1>11 DEF LogInv, vars, durable, locks, local
<1>12. ASSUME NEW r \in Requests, Commit(r) PROVE LogInv'
  BY <1>10, <1>12 DEF Commit
<1> QED
  BY <1>1, <1>2, <1>3, <1>4, <1>5, <1>6, <1>7, <1>8, <1>9, <1>10, <1>11, <1>12, EndWithoutCommit
  DEF Next, Progress, CommitMaterialized, Rollback, durable

\* A row with a pending write is its writer's until the writer ends.
LEMMA StepRows == TypeInv /\ RowInv /\ [Next]_vars => RowInv'
<1> SUFFICES ASSUME TypeInv, RowInv, [Next]_vars PROVE RowInv'
  OBVIOUS
<1> USE DEF Executing, IsCommand
<1>1. ASSUME NEW r \in Requests, Begin(r) PROVE RowInv'
  BY <1>1 DEF TypeInv, TypeOK, RowInv, Begin, Step, locks
<1>2. ASSUME NEW r \in Requests, LockWorld(r) PROVE RowInv'
  BY <1>2 DEF TypeInv, TypeOK, RowInv, LockWorld, Step
<1>3. ASSUME NEW r \in Requests, LookupReceipt(r) PROVE RowInv'
  BY <1>3 DEF TypeInv, TypeOK, RowInv, LookupReceipt, Step, locks
<1>4. ASSUME NEW r \in Requests, InsertCommandLog(r) PROVE RowInv'
  BY <1>4 DEF TypeInv, TypeOK, RowInv, InsertCommandLog, Step
<1>5. ASSUME NEW r \in Requests, LoadChunk(r) PROVE RowInv'
  BY <1>5 DEF TypeInv, TypeOK, RowInv, LoadChunk, Step, locks
<1>6. ASSUME NEW r \in Requests, SkipChunk(r) PROVE RowInv'
  BY <1>6 DEF TypeInv, TypeOK, RowInv, SkipChunk, Step, locks
<1>7. ASSUME NEW r \in Requests, SaveChunk(r) PROVE RowInv'
  <2> DEFINE c == NextChunk(r)
             write == [before |-> view[r],
                       after |-> Mutated(view[r], Edit(payload[r], ContentOf(c, view[r])))]
  <2>1. c \in todo[r] /\ c \in Chunks /\ c \in payload[r].chunks
    BY <1>7, NextChunkType DEF SaveChunk, Step, TypeInv, TypeOK, WorkInv
  <2>2. /\ Step(r, "save", "load") /\ IsCommand(r)
        /\ rowOwner[c] = NoRequest
        /\ rowOwner' = [rowOwner EXCEPT ![c] = r]
        /\ pending' = [pending EXCEPT ![r][c] = write]
        /\ UNCHANGED payload
    BY <1>7 DEF SaveChunk
  <2> HIDE DEF c, write
  <2> QED BY <2>1, <2>2, AbsentValuesAssumption DEF TypeInv, TypeOK, RowInv, Step
<1>8. ASSUME NEW r \in Requests, GenerateForRead(r) PROVE RowInv'
  BY <1>8 DEF TypeInv, TypeOK, RowInv, GenerateForRead, Step, locks
<1>9. ASSUME NEW r \in Requests, InsertMaterialized(r) PROVE RowInv'
  BY <1>9, AbsentValuesAssumption DEF TypeInv, TypeOK, RowInv, InsertMaterialized, Step
<1>10. ASSUME NEW r \in Requests, NEW answer, Finish(r, answer) PROVE RowInv'
  BY <1>10 DEF TypeInv, TypeOK, RowInv, Finish, NoWrites
<1>11. CASE UNCHANGED vars
  BY <1>11 DEF RowInv, vars, locks, local
<1> QED
  BY <1>1, <1>2, <1>3, <1>4, <1>5, <1>6, <1>7, <1>8, <1>9, <1>10, <1>11, EndWithoutCommit
  DEF Next, Progress, Commit, CommitMaterialized, Rollback

\* NextChunk depends on todo alone.
LEMMA NextChunkStable ==
    ASSUME NEW r \in Requests, todo'[r] = todo[r] PROVE NextChunk(r)' = NextChunk(r)
BY DEF NextChunk

\* A chunk whose row a read has inserted is stored by nobody else.
LEMMA StepMaterialize ==
    TypeInv /\ RowInv /\ MaterializeInv /\ [Next]_vars => MaterializeInv'
<1> SUFFICES ASSUME TypeInv, RowInv, MaterializeInv, [Next]_vars,
                    NEW s \in Requests, pc'[s] = "key"
             PROVE  rowOwner'[NextChunk(s)'] = s /\ snapshots'[NextChunk(s)'] = NoSnapshot
  BY DEF MaterializeInv
<1>a. pc[s] = "key" => /\ NextChunk(s) \in Chunks
                       /\ rowOwner[NextChunk(s)] = s
                       /\ snapshots[NextChunk(s)] = NoSnapshot
  BY NextChunkType DEF TypeInv, WorkInv, MaterializeInv
<1>b. todo'[s] = todo[s] => NextChunk(s)' = NextChunk(s)
  BY NextChunkStable
<1>1. ASSUME NEW r \in Requests,
             \/ Begin(r) \/ LookupReceipt(r) \/ LoadChunk(r) \/ SkipChunk(r) \/ GenerateForRead(r)
      PROVE  rowOwner'[NextChunk(s)'] = s /\ snapshots'[NextChunk(s)'] = NoSnapshot
  BY <1>1, <1>a, <1>b
  DEF TypeInv, TypeOK, Begin, LookupReceipt, LoadChunk, SkipChunk, GenerateForRead, Step, locks, durable
<1>2. ASSUME NEW r \in Requests, LockWorld(r) \/ InsertCommandLog(r)
      PROVE  rowOwner'[NextChunk(s)'] = s /\ snapshots'[NextChunk(s)'] = NoSnapshot
  BY <1>2, <1>a, <1>b DEF TypeInv, TypeOK, LockWorld, InsertCommandLog, Step, durable
<1>3. ASSUME NEW r \in Requests, SaveChunk(r)
      PROVE  rowOwner'[NextChunk(s)'] = s /\ snapshots'[NextChunk(s)'] = NoSnapshot
  <2>1. /\ pc[r] = "save" /\ pc' = [pc EXCEPT ![r] = "load"]
        /\ rowOwner[NextChunk(r)] = NoRequest
        /\ rowOwner' = [rowOwner EXCEPT ![NextChunk(r)] = r]
        /\ todo' = [todo EXCEPT ![r] = todo[r] \ {NextChunk(r)}]
        /\ UNCHANGED snapshots
    BY <1>3 DEF SaveChunk, Step, durable
  <2>2. s # r /\ pc[s] = "key" /\ todo'[s] = todo[s]
    BY <2>1 DEF TypeInv, TypeOK
  <2> QED BY <2>1, <2>2, <1>a, <1>b, AbsentValuesAssumption DEF TypeInv, TypeOK
<1>4. ASSUME NEW r \in Requests, InsertMaterialized(r)
      PROVE  rowOwner'[NextChunk(s)'] = s /\ snapshots'[NextChunk(s)'] = NoSnapshot
  <2>1. /\ pc[r] = "save" /\ pc' = [pc EXCEPT ![r] = "key"]
        /\ rowOwner[NextChunk(r)] = NoRequest
        /\ rowOwner' = [rowOwner EXCEPT ![NextChunk(r)] = r]
        /\ snapshots[NextChunk(r)] = NoSnapshot
        /\ UNCHANGED <<snapshots, todo>>
    BY <1>4 DEF InsertMaterialized, Step, durable
  <2>2. NextChunk(r) \in Chunks
    BY <2>1, NextChunkType DEF TypeInv, WorkInv
  <2> QED BY <2>1, <2>2, <1>a, <1>b, AbsentValuesAssumption DEF TypeInv, TypeOK
<1>5. ASSUME NEW r \in Requests, NEW answer, Finish(r, answer),
             \A c \in Chunks : snapshots'[c] # snapshots[c] => rowOwner[c] = r
      PROVE  rowOwner'[NextChunk(s)'] = s /\ snapshots'[NextChunk(s)'] = NoSnapshot
  <2>1. s # r /\ pc[s] = "key" /\ todo'[s] = todo[s]
    BY <1>5 DEF Finish, TypeInv, TypeOK
  <2> QED BY <1>5, <2>1, <1>a, <1>b DEF Finish
<1>6. ASSUME NEW r \in Requests, Commit(r)
      PROVE  rowOwner'[NextChunk(s)'] = s /\ snapshots'[NextChunk(s)'] = NoSnapshot
  <2>1. \A c \in Chunks : snapshots'[c] # snapshots[c] => rowOwner[c] = r
    BY <1>6 DEF Commit, Changed, RowInv
  <2> QED BY <1>5, <1>6, <2>1 DEF Commit
<1>7. ASSUME NEW r \in Requests, CommitMaterialized(r)
      PROVE  rowOwner'[NextChunk(s)'] = s /\ snapshots'[NextChunk(s)'] = NoSnapshot
  <2>1. \A c \in Chunks : snapshots'[c] # snapshots[c] => rowOwner[c] = r
    BY <1>7 DEF CommitMaterialized, MaterializeInv, TypeInv, TypeOK
  <2> QED BY <1>5, <1>7, <2>1 DEF CommitMaterialized
<1>8. CASE UNCHANGED vars
  BY <1>8, <1>a, <1>b DEF vars, durable, locks, local
<1> QED
  BY <1>1, <1>2, <1>3, <1>4, <1>5, <1>6, <1>7, <1>8, EndWithoutCommit
  DEF Next, Progress, Rollback, durable

LEMMA InitProtocol == Init => LockInv /\ LogInv /\ RowInv /\ MaterializeInv
BY AbsentValuesAssumption
DEF Init, LockInv, LogInv, RowInv, MaterializeInv, Executing, NoWrites

(* The world row, the command ids and the chunk rows are held as the code    *)
(* expects, whatever the clients send.                                       *)
THEOREM ProtocolCorrect == Spec => [](TypeInv /\ ProtocolInv)
<1>1. Init => TypeInv /\ ProtocolInv
  BY InitTypes, InitProtocol DEF TypeInv, ProtocolInv
<1>2. TypeInv /\ ProtocolInv /\ [Next]_vars => (TypeInv /\ ProtocolInv)'
  BY StepTypes, StepLocks, StepLog, StepRows, StepMaterialize DEF TypeInv, ProtocolInv
<1> QED BY <1>1, <1>2, PTL DEF Spec

\* What is committed changes only by a commit.
LEMMA OnlyCommitsStore ==
    ASSUME [Next]_vars
    PROVE  UNCHANGED durable \/ \E r \in Requests : Commit(r) \/ CommitMaterialized(r)
BY EndWithoutCommit
DEF Next, Progress, Begin, LockWorld, LookupReceipt, InsertCommandLog, LoadChunk, SkipChunk,
    SaveChunk, GenerateForRead, InsertMaterialized, Rollback, vars

(* While a request holds the world row FOR UPDATE, no other request stores a *)
(* chunk of that world: a writer needs the key share that FOR UPDATE denies. *)
THEOREM LockExcludesWriters == Spec => WorldLockExcludesWriters
<1>1. TypeInv /\ ProtocolInv /\ [Next]_vars =>
        \A c \in Chunks : snapshots'[c] # snapshots[c] =>
           worldLock[WorldOf[c]] \in {NoRequest} \cup {r \in Requests : pc'[r] # pc[r]}
  <2> SUFFICES ASSUME TypeInv, ProtocolInv, [Next]_vars,
                      NEW c \in Chunks, snapshots'[c] # snapshots[c]
               PROVE  worldLock[WorldOf[c]] \in {NoRequest} \cup {r \in Requests : pc'[r] # pc[r]}
    OBVIOUS
  <2>1. PICK r \in Requests : Commit(r) \/ CommitMaterialized(r)
    BY OnlyCommitsStore DEF durable
  <2>2. CASE Commit(r)
    <3>1. pc[r] = "load" /\ pc'[r] = "done" /\ Executing(r)
      BY <2>2 DEF Commit, Finish, Executing, TypeInv, TypeOK
    <3>2. c \in payload[r].chunks
      BY <2>2 DEF Commit, Changed, ProtocolInv, RowInv
    <3>3. WorldOf[c] = World(r) /\ World(r) \in Worlds
      BY <3>2, MenuAssumption, KeyType DEF TypeInv, WorkInv, World
    <3>4. worldLock[WorldOf[c]] \in {NoRequest, r}
      BY <3>1, <3>3 DEF ProtocolInv, LockInv
    <3> QED BY <3>1, <3>4
  <2>3. CASE CommitMaterialized(r)
    <3>1. c = NextChunk(r) /\ c \in payload[r].chunks
      BY <2>3, NextChunkType DEF CommitMaterialized, TypeInv, TypeOK, WorkInv
    <3>2. WorldOf[c] = World(r)
      BY <3>1, MenuAssumption, KeyType DEF TypeInv, WorkInv, World
    <3>3. pc'[r] # pc[r]
      BY <2>3 DEF CommitMaterialized, Finish, TypeInv, TypeOK
    <3> QED BY <2>3, <3>2, <3>3 DEF CommitMaterialized, ForeignKeyChecked
  <2> QED BY <2>1, <2>2, <2>3
<1> QED BY <1>1, ProtocolCorrect, PTL DEF Spec, WorldLockExcludesWriters

(* A command that was answered positively, executed or replayed, has its     *)
(* receipt in the log, and it is the receipt of this very payload.           *)
THEOREM AnswersStayDurable == Spec => []AnswersAreDurable
<1> USE DEF IsCommand, Key
<1>1. Init => AnswersAreDurable
  BY DEF Init, AnswersAreDurable
<1>2. TypeInv /\ ProtocolInv /\ AnswersAreDurable /\ [Next]_vars => AnswersAreDurable'
  <2> SUFFICES ASSUME TypeInv, ProtocolInv, AnswersAreDurable, [Next]_vars
               PROVE  AnswersAreDurable'
    OBVIOUS
  <2>1. CASE UNCHANGED <<receipts, reply, payload>>
    BY <2>1 DEF AnswersAreDurable
  <2>2. ASSUME NEW r \in Requests, AnswerFromReceipt(r) PROVE AnswersAreDurable'
    BY <2>2 DEF AnswerFromReceipt, Replayable, Rollback, Finish, durable,
                AnswersAreDurable, TypeInv, TypeOK
  <2>3. ASSUME NEW r \in Requests, ReadStored(r) \/ CommitMaterialized(r) PROVE AnswersAreDurable'
    <3>1. ~IsCommand(r)
      BY <2>3 DEF ReadStored, CommitMaterialized, TypeInv, WorkInv
    <3> QED BY <2>3, <3>1 DEF ReadStored, CommitMaterialized, Rollback, Finish, durable,
                              AnswersAreDurable, TypeInv, TypeOK
  <2>4. ASSUME NEW r \in Requests, Rollback(r, "failed") PROVE AnswersAreDurable'
    BY <2>4 DEF Rollback, Finish, durable, AnswersAreDurable, TypeInv, TypeOK
  <2>5. ASSUME NEW r \in Requests, Commit(r) PROVE AnswersAreDurable'
    <3> DEFINE receipt == [payload |-> payload[r],
                           status |-> IF Changed(r) = {} THEN "noop" ELSE "applied"]
    <3>1. receipts' = [receipts EXCEPT ![Key(r)] = receipt]
      BY <2>5 DEF Commit
    <3>2. receipt \in Receipts /\ receipt.payload = payload[r]
      BY KeyType DEF TypeInv, Receipts
    <3>3. receipts[Key(r)] = NoReceipt
      BY <2>5 DEF Commit, Executing, ProtocolInv, LogInv
    <3>4. PICK answer \in {"ok", "lost"} : Finish(r, answer)
      BY <2>5 DEF Commit
    <3> HIDE DEF receipt
    <3> QED BY <3>1, <3>2, <3>3, <3>4, KeyType, AbsentValuesAssumption
            DEF Finish, AnswersAreDurable, TypeInv, TypeOK
  <2> QED
    BY <2>1, <2>2, <2>3, <2>4, <2>5
    DEF Next, Progress, Begin, LockWorld, LookupReceipt, InsertCommandLog, LoadChunk, SkipChunk,
        SaveChunk, GenerateForRead, InsertMaterialized, DuplicateCommandId, DuplicateChunk,
        DeadlockAbort, Abort, vars, durable, local
<1> QED BY <1>1, <1>2, ProtocolCorrect, PTL DEF Spec

-----------------------------------------------------------------------------
(* What SafeLocking adds: commands of one world run one after the other.     *)

LEMMA WorldIsExclusive ==
    ASSUME SafeLocking, TypeInv, ProtocolInv, NEW r \in Requests, NEW s \in Requests,
           r # s, Executing(r), Executing(s)
    PROVE  World(r) # World(s)
<1> SUFFICES ASSUME World(r) = World(s) PROVE FALSE
  OBVIOUS
<1>1. NeedsLock(payload[r]) \/ NeedsLock(payload[s])
  BY DEF SafeLocking, TypeInv, WorkInv, World, Executing, IsCommand
<1>2. /\ NeedsLock(payload[r]) => worldLock[World(r)] = r
      /\ NeedsLock(payload[s]) => worldLock[World(s)] = s
  BY KeyType DEF ProtocolInv, LockInv, Executing, TypeInv
<1>3. r \in keyShare[World(r)] /\ s \in keyShare[World(s)]
  BY KeyType DEF ProtocolInv, LockInv, TypeInv
<1>4. worldLock[World(r)] \in {NoRequest, r} /\ worldLock[World(s)] \in {NoRequest, s}
  BY <1>3, KeyType DEF ProtocolInv, LockInv, TypeInv
<1> QED BY <1>1, <1>2, <1>4, AbsentValuesAssumption

\* Every kind of step as s sees it: s stays, ends, visits a chunk, starts
\* executing, or moves without executing.
Stays(s) == /\ pc'[s] = pc[s] /\ todo'[s] = todo[s]
            /\ view'[s] = view[s] /\ pending'[s] = pending[s]
Ends(s) == pc'[s] = "done" /\ pending'[s] = NoWrites
MovesOutside(s) == pending'[s] = pending[s] /\ ~Executing(s)'

LEMMA OwnStep ==
    ASSUME TypeInv, [Next]_vars, NEW s \in Requests
    PROVE  /\ payload' = payload
           /\ \/ Stays(s) \/ Ends(s) \/ MovesOutside(s)
              \/ InsertCommandLog(s) \/ LoadChunk(s) \/ SkipChunk(s) \/ SaveChunk(s)
<1> DEFINE Goal == /\ payload' = payload
                   /\ \/ Stays(s) \/ Ends(s) \/ MovesOutside(s)
                      \/ InsertCommandLog(s) \/ LoadChunk(s) \/ SkipChunk(s) \/ SaveChunk(s)
<1> USE DEF TypeInv, TypeOK, Step, Stays, local
<1>1. ASSUME NEW r \in Requests, NEW answer, Finish(r, answer) PROVE Goal
  BY <1>1 DEF Finish, Ends
<1>2. ASSUME NEW r \in Requests,
             Begin(r) \/ LockWorld(r) \/ LookupReceipt(r) \/ GenerateForRead(r) \/ InsertMaterialized(r)
      PROVE  Goal
  <2>1. r = s => ~Executing(s)'
    BY <1>2 DEF Begin, LockWorld, LookupReceipt, GenerateForRead, InsertMaterialized,
                Executing, IsCommand
  <2> QED BY <1>2, <2>1 DEF Begin, LockWorld, LookupReceipt, GenerateForRead,
                            InsertMaterialized, MovesOutside
<1>3. ASSUME NEW r \in Requests, InsertCommandLog(r) \/ LoadChunk(r) \/ SkipChunk(r) PROVE Goal
  BY <1>3 DEF InsertCommandLog, LoadChunk, SkipChunk
<1>4. ASSUME NEW r \in Requests, SaveChunk(r) PROVE Goal
  BY <1>4 DEF SaveChunk
<1>5. CASE UNCHANGED vars
  BY <1>5 DEF vars
<1> QED
  BY <1>1, <1>2, <1>3, <1>4, <1>5, EndWithoutCommit
  DEF Next, Progress, Commit, CommitMaterialized, Rollback

\* A chunk that a command edits is stored meanwhile only by that command, or by
\* a read that shows what was shown before.
LEMMA Undisturbed ==
    ASSUME SafeLocking, TypeInv, ProtocolInv, [Next]_vars,
           NEW s \in Requests, Executing(s), ~Ends(s),
           NEW c \in payload[s].chunks
    PROVE  /\ c \in Chunks
           /\ ContentOf(c, snapshots'[c]) = ContentOf(c, snapshots[c])
           /\ snapshots'[c] # snapshots[c] =>
                 snapshots[c] = NoSnapshot /\ pending[s][c] = NoWrite
<1>1. c \in Chunks
  BY KeyType DEF Payloads, TypeInv
<1>2. CASE snapshots'[c] = snapshots[c]
  BY <1>1, <1>2
<1>3. ASSUME snapshots'[c] # snapshots[c], NEW r \in Requests, Commit(r) PROVE FALSE
  <2>1. r # s
    BY <1>3 DEF Commit, Finish, Ends, TypeInv, TypeOK
  <2>2. Executing(r) /\ c \in payload[r].chunks
    BY <1>1, <1>3 DEF Commit, Changed, Executing, ProtocolInv, RowInv
  <2>3. World(r) = World(s)
    BY <2>2, MenuAssumption DEF TypeInv, WorkInv, World
  <2> QED BY <2>1, <2>2, <2>3, WorldIsExclusive
<1>4. ASSUME snapshots'[c] # snapshots[c], NEW r \in Requests, CommitMaterialized(r)
      PROVE  /\ ContentOf(c, snapshots'[c]) = ContentOf(c, snapshots[c])
             /\ snapshots[c] = NoSnapshot /\ pending[s][c] = NoWrite
  <2>1. c = NextChunk(r) /\ rowOwner[c] = r /\ snapshots[c] = NoSnapshot
    BY <1>1, <1>4 DEF CommitMaterialized, ProtocolInv, MaterializeInv, TypeInv, TypeOK
  <2>2. snapshots'[c] = Mutated(NoSnapshot, Base[c])
    BY <1>1, <1>4, <2>1 DEF CommitMaterialized, TypeInv, TypeOK
  <2>3. ContentOf(c, snapshots'[c]) = Base[c]
    BY <2>2, AbsentValuesAssumption DEF ContentOf, Mutated
  <2>4. r # s
    BY <1>4 DEF CommitMaterialized, Executing
  <2>5. pending[s][c] = NoWrite
    BY <1>1, <2>1, <2>4 DEF ProtocolInv, RowInv
  <2> QED BY <2>1, <2>3, <2>5 DEF ContentOf
<1> QED BY <1>1, <1>2, <1>3, <1>4, OnlyCommitsStore DEF durable

\* What a command loaded and decided is still what is stored when it commits.
LEMMA StepPending ==
    SafeLocking /\ TypeInv /\ ProtocolInv /\ PendingInv /\ ViewInv /\ [Next]_vars => PendingInv'
<1> SUFFICES ASSUME SafeLocking, TypeInv, ProtocolInv, PendingInv, ViewInv, [Next]_vars,
                    NEW s \in Requests, NEW c \in Chunks, pending'[s][c] # NoWrite
             PROVE  LET after == Edit(payload'[s], ContentOf(c, snapshots'[c])) IN
                    /\ pending'[s][c] = [before |-> snapshots'[c],
                                         after |-> Mutated(snapshots'[c], after)]
                    /\ after # ContentOf(c, snapshots'[c])
  BY DEF PendingInv
<1>1. payload' = payload /\ ~Ends(s)
  BY OwnStep DEF Ends, NoWrites
<1>2. CASE pending'[s] = pending[s]
  <2>1. Executing(s) /\ c \in payload[s].chunks
    BY <1>2 DEF ProtocolInv, RowInv
  <2>2. snapshots'[c] = snapshots[c]
    BY <1>1, <1>2, <2>1, Undisturbed
  <2> QED BY <1>1, <1>2, <2>2 DEF PendingInv
<1>3. CASE SaveChunk(s)
  <2> DEFINE d == NextChunk(s)
             after == Edit(payload[s], ContentOf(d, view[s]))
  <2>1. Executing(s) /\ d \in Chunks /\ UNCHANGED snapshots
    BY <1>3, NextChunkType DEF SaveChunk, Step, Executing, TypeInv, WorkInv, durable
  <2>2. view[s] = snapshots[d]
    BY <1>3, <2>1 DEF ViewInv, SaveChunk, Step
  <2>3. pending' = [pending EXCEPT ![s][d] =
             [before |-> view[s], after |-> Mutated(view[s], after)]]
    BY <1>3 DEF SaveChunk
  <2>4. after # ContentOf(d, view[s])
    BY <1>3 DEF SaveChunk
  <2>5. CASE c = d
    BY <1>1, <2>1, <2>2, <2>3, <2>4, <2>5 DEF TypeInv, TypeOK
  <2>6. CASE c # d
    <3>1. pending'[s][c] = pending[s][c]
      <4> HIDE DEF d, after
      <4> QED BY <2>3, <2>6 DEF TypeInv, TypeOK
    <3> QED BY <1>1, <2>1, <3>1 DEF PendingInv
  <2> QED BY <2>5, <2>6
<1> QED
  BY <1>1, <1>2, <1>3, OwnStep
  DEF Stays, MovesOutside, InsertCommandLog, LoadChunk, SkipChunk

\* A chunk that needed no change still needs none.
LEMMA StepSkipped ==
    SafeLocking /\ TypeInv /\ ProtocolInv /\ SkippedInv /\ ViewInv /\ [Next]_vars => SkippedInv'
<1> SUFFICES ASSUME SafeLocking, TypeInv, ProtocolInv, SkippedInv, ViewInv, [Next]_vars,
                    NEW s \in Requests, Executing(s)',
                    NEW c \in payload'[s].chunks \ todo'[s], pending'[s][c] = NoWrite
             PROVE  Edit(payload'[s], ContentOf(c, snapshots'[c])) = ContentOf(c, snapshots'[c])
  BY DEF SkippedInv
<1>1. payload' = payload /\ ~Ends(s) /\ ~MovesOutside(s)
  BY OwnStep DEF Ends, MovesOutside, Executing
<1>2. CASE Executing(s) /\ c \notin todo[s] /\ pending[s][c] = NoWrite
  BY <1>1, <1>2, Undisturbed DEF SkippedInv
<1>3. CASE Stays(s) \/ LoadChunk(s)
  <2>1. Executing(s)
    BY <1>1, <1>3 DEF Stays, LoadChunk, Step, Executing, IsCommand
  <2> QED BY <1>1, <1>2, <1>3, <2>1 DEF Stays, LoadChunk
<1>4. CASE InsertCommandLog(s)
  <2>1. todo'[s] = payload'[s].chunks
    BY <1>4 DEF InsertCommandLog, Step, TypeInv, WorkInv
  <2> QED BY <2>1
<1>5. CASE SkipChunk(s)
  <2> DEFINE d == NextChunk(s)
  <2>1. Executing(s) /\ UNCHANGED <<snapshots, pending>> /\ todo'[s] = todo[s] \ {d}
    BY <1>5 DEF SkipChunk, Step, Executing, durable, TypeInv, TypeOK
  <2>2. Edit(payload[s], ContentOf(d, snapshots[d])) = ContentOf(d, snapshots[d])
    BY <1>5, <2>1 DEF SkipChunk, Step, ViewInv
  <2> QED BY <1>1, <1>2, <2>1, <2>2
<1>6. CASE SaveChunk(s)
  <2> DEFINE d == NextChunk(s)
             write == [before |-> view[s],
                       after |-> Mutated(view[s], Edit(payload[s], ContentOf(d, view[s])))]
  <2>1. /\ Executing(s) /\ todo'[s] = todo[s] \ {d}
        /\ pending' = [pending EXCEPT ![s][d] = write]
    BY <1>6 DEF SaveChunk, Step, Executing, TypeInv, TypeOK
  <2>2. d \in Chunks /\ view[s] \in MaybeSnapshot /\ ContentOf(d, view[s]) \in SUBSET Cells
    BY <1>6, NextChunkType, ContentType DEF SaveChunk, Step, TypeInv, TypeOK, WorkInv
  <2>3. write \in Writes
    BY <2>2, EditType, MutatedType, KeyType DEF Writes, TypeInv
  <2>4. pending'[s][d] = write
    <3> HIDE DEF d, write
    <3> QED BY <2>1, <2>2 DEF TypeInv, TypeOK
  <2>5. c # d
    <3> HIDE DEF d, write
    <3> QED BY <2>3, <2>4, AbsentValuesAssumption
  <2>6. pending[s][c] = NoWrite
    <3> HIDE DEF d, write
    <3> QED BY <2>1, <2>5 DEF TypeInv, TypeOK
  <2> QED BY <1>1, <1>2, <2>1, <2>5, <2>6
<1> QED BY <1>1, <1>3, <1>4, <1>5, <1>6, OwnStep

\* Between the load and the save of a chunk at most a read stores it.
LEMMA StepView ==
    SafeLocking /\ TypeInv /\ ProtocolInv /\ ViewInv /\ [Next]_vars => ViewInv'
<1> SUFFICES ASSUME SafeLocking, TypeInv, ProtocolInv, ViewInv, [Next]_vars,
                    NEW s \in Requests, Executing(s)', pc'[s] = "save"
             PROVE  /\ view'[s] \in {NoSnapshot, snapshots'[NextChunk(s)']}
                    /\ ContentOf(NextChunk(s)', view'[s])
                         = ContentOf(NextChunk(s)', snapshots'[NextChunk(s)'])
  BY DEF ViewInv
<1>1. ~Ends(s) /\ ~MovesOutside(s)
  BY DEF Ends, MovesOutside
<1>2. CASE Stays(s)
  <2>1. payload' = payload /\ Executing(s) /\ pc[s] = "save" /\ NextChunk(s)' = NextChunk(s)
    BY <1>2, OwnStep, NextChunkStable DEF Stays, Executing, IsCommand
  <2>2. NextChunk(s) \in payload[s].chunks
    BY <2>1, NextChunkType DEF TypeInv, WorkInv
  <2> QED BY <1>1, <1>2, <2>1, <2>2, Undisturbed DEF Stays, ViewInv
<1>3. CASE LoadChunk(s)
  <2>1. NextChunk(s)' = NextChunk(s) /\ UNCHANGED snapshots
    BY <1>3, NextChunkStable DEF LoadChunk, durable
  <2>2. view'[s] = snapshots[NextChunk(s)]
    BY <1>3 DEF LoadChunk, TypeInv, TypeOK
  <2> QED BY <2>1, <2>2
<1>4. CASE InsertCommandLog(s) \/ SkipChunk(s) \/ SaveChunk(s)
  BY <1>4 DEF InsertCommandLog, SkipChunk, SaveChunk, Step, TypeInv, TypeOK
<1> QED BY <1>1, <1>2, <1>3, <1>4, OwnStep

\* What Commit stores in a chunk, and the event it appends.
LEMMA CommitStores ==
    ASSUME TypeInv, ProtocolInv, PendingInv, NEW r \in Requests, Commit(r), NEW c \in Chunks
    PROVE  \/ /\ pending[r][c] = NoWrite
              /\ snapshots'[c] = snapshots[c] /\ events'[c] = events[c]
           \/ /\ pending[r][c] # NoWrite /\ c \in payload[r].chunks
              /\ snapshots'[c] \in Snapshots
              /\ snapshots'[c].content = Edit(payload[r], ContentOf(c, snapshots[c]))
              /\ snapshots'[c].content # ContentOf(c, snapshots[c])
              /\ events'[c] = Append(events[c],
                    [key |-> Key(r), before |-> snapshots[c], after |-> snapshots'[c]])
<1>1. CASE pending[r][c] = NoWrite
  BY <1>1 DEF Commit, Changed
<1>2. CASE pending[r][c] # NoWrite
  <2>1. /\ c \in Changed(r) /\ c \in payload[r].chunks
        /\ pending[r][c] \in Writes
    BY <1>2 DEF Changed, ProtocolInv, RowInv, TypeInv, TypeOK
  <2>2. /\ pending[r][c].before = snapshots[c]
        /\ pending[r][c].after.content = Edit(payload[r], ContentOf(c, snapshots[c]))
        /\ pending[r][c].after.content # ContentOf(c, snapshots[c])
    <3> DEFINE after == Edit(payload[r], ContentOf(c, snapshots[c]))
    <3>1. /\ pending[r][c] = [before |-> snapshots[c], after |-> Mutated(snapshots[c], after)]
          /\ after # ContentOf(c, snapshots[c])
      BY <1>2 DEF PendingInv
    <3>2. Mutated(snapshots[c], after).content = after
      BY DEF Mutated
    <3> HIDE DEF after
    <3>3. pending[r][c].before = snapshots[c] /\ pending[r][c].after.content = after
      BY <3>1, <3>2
    <3> QED BY <3>1, <3>3 DEF after
  <2>3. snapshots'[c] = pending[r][c].after
    BY <2>1 DEF Commit
  <2>4. events'[c] = Append(events[c],
                [key |-> Key(r), before |-> pending[r][c].before, after |-> pending[r][c].after])
    BY <2>1 DEF Commit
  <2> QED BY <1>2, <2>1, <2>2, <2>3, <2>4 DEF Writes
<1> QED BY <1>1, <1>2

\* Each commit appends a link that starts where the chain ended.
LEMMA StepChain ==
    TypeInv /\ ProtocolInv /\ PendingInv /\ HistoryInv /\ UnbrokenRevisionChain /\ [Next]_vars
        => HistoryInv' /\ UnbrokenRevisionChain'
<1> SUFFICES ASSUME TypeInv, ProtocolInv, PendingInv, HistoryInv, UnbrokenRevisionChain,
                    [Next]_vars, NEW c \in Chunks
             PROVE  /\ snapshots'[c] = NoSnapshot => events'[c] = << >>
                    /\ \A i \in 2..Len(events'[c]) : events'[c][i].before = events'[c][i - 1].after
                    /\ events'[c] # << >> => snapshots'[c] = events'[c][Len(events'[c])].after
  BY DEF HistoryInv, UnbrokenRevisionChain
<1>1. CASE snapshots'[c] = snapshots[c] /\ events'[c] = events[c]
  BY <1>1 DEF HistoryInv, UnbrokenRevisionChain
<1>2. ASSUME NEW r \in Requests, Commit(r), pending[r][c] # NoWrite
      PROVE  /\ snapshots'[c] # NoSnapshot
             /\ \A i \in 2..Len(events'[c]) : events'[c][i].before = events'[c][i - 1].after
             /\ events'[c] # << >> => snapshots'[c] = events'[c][Len(events'[c])].after
  <2> DEFINE n == Len(events[c])
             event == [key |-> Key(r), before |-> snapshots[c], after |-> snapshots'[c]]
  <2>1. events'[c] = Append(events[c], event) /\ snapshots'[c] # NoSnapshot
    BY <1>2, CommitStores, AbsentValuesAssumption
  <2>2. events[c] \in Seq(EventRecords) /\ n \in Nat
    BY DEF TypeInv, TypeOK
  <2>3. event.before = snapshots[c] /\ event.after = snapshots'[c]
    OBVIOUS
  <2>4. \A i \in 2..n : events[c][i].before = events[c][i - 1].after
    BY DEF UnbrokenRevisionChain
  <2>5. n # 0 => events[c][n].after = snapshots[c]
    BY <2>2 DEF UnbrokenRevisionChain
  <2> HIDE DEF event
  <2>6. /\ Len(events'[c]) = n + 1 /\ events'[c][n + 1] = event
        /\ \A i \in 1..n : events'[c][i] = events[c][i]
    BY <2>1, <2>2
  <2>7. ASSUME NEW i \in 2..(n + 1) PROVE events'[c][i].before = events'[c][i - 1].after
    <3>1. CASE i = n + 1
      BY <2>2, <2>3, <2>5, <2>6, <3>1
    <3>2. CASE i # n + 1
      <4>1. i \in 2..n /\ i \in 1..n /\ i - 1 \in 1..n
        BY <2>2, <3>2
      <4> QED BY <2>4, <2>6, <4>1
    <3> QED BY <3>1, <3>2
  <2> QED BY <2>1, <2>2, <2>3, <2>6, <2>7
<1>3. ASSUME NEW r \in Requests, CommitMaterialized(r), snapshots'[c] # snapshots[c]
      PROVE  snapshots'[c] # NoSnapshot /\ events'[c] = << >>
  <2>1. c = NextChunk(r) /\ snapshots'[c] = Mutated(NoSnapshot, Base[c])
    BY <1>3 DEF CommitMaterialized, TypeInv, TypeOK
  <2>2. snapshots[c] = NoSnapshot
    BY <1>3, <2>1 DEF CommitMaterialized, ProtocolInv, MaterializeInv
  <2>3. Mutated(NoSnapshot, Base[c]) \in Snapshots
    BY MutatedType, ChunksAssumption DEF MaybeSnapshot
  <2> QED BY <1>3, <2>1, <2>2, <2>3, AbsentValuesAssumption DEF CommitMaterialized, HistoryInv
<1>4. ASSUME NEW r \in Requests, CommitMaterialized(r) PROVE UNCHANGED events
  BY <1>4 DEF CommitMaterialized
<1>5. CASE UNCHANGED durable
  BY <1>1, <1>5 DEF durable
<1>6. ASSUME NEW r \in Requests, Commit(r), pending[r][c] = NoWrite
      PROVE  snapshots'[c] = snapshots[c] /\ events'[c] = events[c]
  BY <1>6, CommitStores
<1>7. ASSUME NEW r \in Requests, CommitMaterialized(r), snapshots'[c] = snapshots[c]
      PROVE  snapshots'[c] = snapshots[c] /\ events'[c] = events[c]
  BY <1>4, <1>7
<1>8. UNCHANGED durable \/ \E r \in Requests : Commit(r) \/ CommitMaterialized(r)
  BY OnlyCommitsStore
<1>9. events'[c] = << >> =>
         \A i \in 2..Len(events'[c]) : events'[c][i].before = events'[c][i - 1].after
  OBVIOUS
<1> QED BY <1>1, <1>2, <1>3, <1>5, <1>6, <1>7, <1>8, <1>9

LEMMA InitSerial == Init => SerialInv
BY DEF Init, SerialInv, PendingInv, SkippedInv, ViewInv, HistoryInv, UnbrokenRevisionChain,
       Executing, NoWrites

LEMMA SerialInvariant ==
    ASSUME SafeLocking PROVE Spec => [](TypeInv /\ ProtocolInv /\ SerialInv)
<1>1. Init => SerialInv
  BY InitSerial
<1>2. TypeInv /\ ProtocolInv /\ SerialInv /\ [Next]_vars => SerialInv'
  BY StepPending, StepSkipped, StepView, StepChain DEF SerialInv
<1> QED BY <1>1, <1>2, ProtocolCorrect, PTL DEF Spec

(* When of two commands of one world at most one goes without the world lock *)
(* - every client sends a commandId, or LoD2 buildings are enabled - the      *)
(* events of a chunk form one unbroken chain that ends in its snapshot.      *)
THEOREM ChainStaysUnbroken == ASSUME SafeLocking PROVE Spec => []UnbrokenRevisionChain
<1>1. SerialInv => UnbrokenRevisionChain
  BY DEF SerialInv
<1> QED BY <1>1, SerialInvariant, PTL

(* Under the same hypothesis the route implements AtomicCommands: what       *)
(* readers are shown changes only as if every command ran alone, once.       *)
THEOREM RouteImplementsAtomicCommands == ASSUME SafeLocking PROVE Spec => ImplementsAtomicCommands
<1>1. Init => Abstract!Init
  <2> SUFFICES ASSUME Init PROVE VisibleContent = Base /\ receipts = [k \in Keys |-> NoReceipt]
    BY DEF Abstract!Init
  <2> QED BY ChunksAssumption DEF Init, VisibleContent, ContentOf
<1>2. TypeInv /\ ProtocolInv /\ SerialInv /\ [Next]_vars => [Abstract!Next]_(Abstract!vars)
  <2> SUFFICES ASSUME TypeInv, ProtocolInv, SerialInv, [Next]_vars
               PROVE  [Abstract!Next]_(Abstract!vars)
    OBVIOUS
  <2>1. CASE UNCHANGED durable
    BY <2>1 DEF durable, VisibleContent, Abstract!vars
  <2>2. ASSUME NEW r \in Requests, CommitMaterialized(r) PROVE UNCHANGED Abstract!vars
    <3> DEFINE c == NextChunk(r)
    <3>1. snapshots[c] = NoSnapshot /\ c \in Chunks
      BY <2>2, NextChunkType DEF CommitMaterialized, ProtocolInv, MaterializeInv, TypeInv, WorkInv
    <3>2. snapshots' = [snapshots EXCEPT ![c] = Mutated(NoSnapshot, Base[c])] /\ UNCHANGED receipts
      BY <2>2 DEF CommitMaterialized
    <3> HIDE DEF c
    <3>3. ContentOf(c, Mutated(NoSnapshot, Base[c])) = Base[c]
      BY DEF ContentOf, Mutated
    <3>4. \A d \in Chunks : ContentOf(d, snapshots'[d]) = ContentOf(d, snapshots[d])
      BY <3>1, <3>2, <3>3 DEF TypeInv, TypeOK, ContentOf
    <3> QED BY <3>2, <3>4 DEF VisibleContent, Abstract!vars
  <2>3. ASSUME NEW r \in Requests, Commit(r) PROVE Abstract!Next
    <3> DEFINE p == payload[r]
    <3>1. p \in Offered /\ Key(r) \in Keys /\ p.id \in {NoId, Key(r)}
      BY KeyType DEF TypeInv, WorkInv, Offered, Key
    <3>2. Executing(r) /\ todo[r] = {} /\ receipts[Key(r)] = NoReceipt
      BY <2>3 DEF Commit, Executing, ProtocolInv, LogInv
    <3>3. ASSUME NEW c \in Chunks
          PROVE  ContentOf(c, snapshots'[c]) = Abstract!Edited(p)[c]
      <4>1. Abstract!Edited(p)[c] = IF c \notin p.chunks THEN ContentOf(c, snapshots[c])
                                    ELSE Edit(p, ContentOf(c, snapshots[c]))
        BY DEF Abstract!Edited, VisibleContent, Edit
      <4>2. CASE pending[r][c] = NoWrite
        BY <2>3, <3>2, <4>1, <4>2, CommitStores DEF SerialInv, SkippedInv
      <4>3. CASE pending[r][c] # NoWrite
        BY <2>3, <4>1, <4>3, CommitStores, AbsentValuesAssumption DEF ContentOf, SerialInv
      <4> QED BY <4>2, <4>3
    <3>4. VisibleContent' = Abstract!Edited(p)
      BY <3>3 DEF VisibleContent, Abstract!Edited
    <3>5. Changed(r) = {} <=> Abstract!Edited(p) = VisibleContent
      <4>1. \A c \in Chunks : pending[r][c] # NoWrite => VisibleContent'[c] # VisibleContent[c]
        BY <2>3, CommitStores, AbsentValuesAssumption DEF VisibleContent, ContentOf, SerialInv
      <4>2. \A c \in Chunks : pending[r][c] = NoWrite => VisibleContent'[c] = VisibleContent[c]
        BY <2>3, CommitStores DEF VisibleContent, SerialInv
      <4>3. Changed(r) = {} <=> \A c \in Chunks : pending[r][c] = NoWrite
        BY DEF Changed
      <4>4. VisibleContent' = VisibleContent <=>
               \A c \in Chunks : VisibleContent'[c] = VisibleContent[c]
        BY DEF VisibleContent
      <4> QED BY <3>4, <4>1, <4>2, <4>3, <4>4
    <3>6. receipts' = [receipts EXCEPT ![Key(r)] =
             [payload |-> p, status |-> IF Abstract!Edited(p) = VisibleContent THEN "noop" ELSE "applied"]]
      BY <2>3, <3>5 DEF Commit
    <3>7. Abstract!Execute(Key(r), p)
      BY <3>2, <3>4, <3>6 DEF Abstract!Execute
    <3> QED BY <3>1, <3>7 DEF Abstract!Next
  <2> QED BY <2>1, <2>2, <2>3, OnlyCommitsStore
<1> QED BY <1>1, <1>2, SerialInvariant, PTL DEF Spec, ImplementsAtomicCommands, Abstract!Spec

-----------------------------------------------------------------------------
(* A command id stands for one execution.                                   *)

LEMMA AtMostOne ==
    ASSUME NEW n \in Nat, NEW S, S \subseteq 1..n, \A i, j \in S : i = j
    PROVE  Cardinality(S) <= 1
<1>1. CASE S = {}
  BY <1>1, FS_EmptySet
<1>2. CASE S # {}
  <2>1. PICK i \in S : TRUE
    BY <1>2
  <2>2. S = {i}
    BY <2>1
  <2> QED BY <2>2, FS_Singleton
<1> QED BY <1>1, <1>2

LEMMA ExecutionsAreSingle == TypeOK /\ ExecutionInv => OneExecutionPerCommandId
<1> SUFFICES ASSUME TypeOK, ExecutionInv, NEW k \in Keys
             PROVE  LET hits(c) == {i \in 1..Len(events[c]) : events[c][i].key = k}
                        chunks  == {c \in Chunks : hits(c) # {}} IN
                    /\ \A c \in Chunks : Cardinality(hits(c)) <= 1
                    /\ chunks = {} <=> receipts[k] = NoReceipt \/ receipts[k].status = "noop"
                    /\ chunks # {} => chunks \subseteq receipts[k].payload.chunks
  BY DEF OneExecutionPerCommandId
<1> DEFINE hits(c) == {i \in 1..Len(events[c]) : events[c][i].key = k}
           chunks  == {c \in Chunks : hits(c) # {}}
<1>1. ASSUME NEW c \in Chunks PROVE Cardinality(hits(c)) <= 1
  <2>1. Len(events[c]) \in Nat
    BY DEF TypeOK
  <2>2. \A i, j \in hits(c) : i = j
    BY DEF ExecutionInv
  <2>3. hits(c) \subseteq 1..Len(events[c])
    OBVIOUS
  <2> HIDE DEF hits
  <2> QED BY <2>1, <2>2, <2>3, AtMostOne
<1>2. chunks # {} <=> Applied(k)
  BY DEF ExecutionInv
<1>3. receipts[k] = NoReceipt \/ receipts[k].status \in {"applied", "noop"}
  BY DEF TypeOK, Receipts
<1>4. chunks \subseteq receipts[k].payload.chunks
  BY DEF ExecutionInv
<1> HIDE DEF chunks
<1>5. chunks = {} <=> receipts[k] = NoReceipt \/ receipts[k].status = "noop"
  BY <1>2, <1>3 DEF Applied
<1> QED BY <1>1, <1>4, <1>5 DEF chunks

\* What Commit does to the history of a chunk and to the log.
LEMMA CommitAppends ==
    ASSUME TypeInv, ProtocolInv, NEW r \in Requests, Commit(r)
    PROVE  /\ receipts[Key(r)] = NoReceipt /\ Key(r) \in Keys
           /\ receipts' = [receipts EXCEPT ![Key(r)] =
                 [payload |-> payload[r], status |-> IF Changed(r) = {} THEN "noop" ELSE "applied"]]
           /\ \A c \in Chunks \ Changed(r) : events'[c] = events[c]
           /\ \A c \in Changed(r) :
                 /\ c \in payload[r].chunks
                 /\ Len(events'[c]) = Len(events[c]) + 1
                 /\ events'[c][Len(events[c]) + 1].key = Key(r)
                 /\ \A i \in 1..Len(events[c]) : events'[c][i] = events[c][i]
<1>1. receipts[Key(r)] = NoReceipt /\ Key(r) \in Keys
  BY KeyType DEF Commit, Executing, ProtocolInv, LogInv, TypeInv
<1>2. receipts' = [receipts EXCEPT ![Key(r)] =
         [payload |-> payload[r], status |-> IF Changed(r) = {} THEN "noop" ELSE "applied"]]
  BY DEF Commit
<1>3. \A c \in Chunks \ Changed(r) : events'[c] = events[c]
  BY DEF Commit
<1>4. ASSUME NEW c \in Changed(r)
      PROVE  /\ c \in payload[r].chunks
             /\ Len(events'[c]) = Len(events[c]) + 1
             /\ events'[c][Len(events[c]) + 1].key = Key(r)
             /\ \A i \in 1..Len(events[c]) : events'[c][i] = events[c][i]
  <2> DEFINE event == [key |-> Key(r), before |-> pending[r][c].before,
                       after |-> pending[r][c].after]
  <2>1. c \in Chunks /\ c \in payload[r].chunks
    BY DEF Changed, ProtocolInv, RowInv
  <2>2. events'[c] = Append(events[c], event)
    BY <2>1 DEF Commit
  <2>3. event.key = Key(r)
    OBVIOUS
  <2>4. events[c] \in Seq(EventRecords)
    BY <2>1 DEF TypeInv, TypeOK
  <2> HIDE DEF event
  <2> QED BY <2>1, <2>2, <2>3, <2>4
<1> QED BY <1>1, <1>2, <1>3, <1>4

LEMMA StepExecution == TypeInv /\ ProtocolInv /\ ExecutionInv /\ [Next]_vars => ExecutionInv'
<1> SUFFICES ASSUME TypeInv, ProtocolInv, ExecutionInv, [Next]_vars PROVE ExecutionInv'
  OBVIOUS
<1>1. CASE UNCHANGED <<events, receipts>>
  BY <1>1 DEF ExecutionInv, Applied
<1>2. ASSUME NEW r \in Requests, Commit(r) PROVE ExecutionInv'
  <2> DEFINE receipt == [payload |-> payload[r],
                         status |-> IF Changed(r) = {} THEN "noop" ELSE "applied"]
             AppliedNext(k) == receipts'[k] # NoReceipt /\ receipts'[k].status = "applied"
  <2>1. /\ receipts[Key(r)] = NoReceipt /\ Key(r) \in Keys
        /\ receipts' = [receipts EXCEPT ![Key(r)] = receipt]
        /\ Changed(r) \subseteq Chunks
    BY <1>2, CommitAppends DEF Changed
  <2>2. receipt.payload = payload[r] /\ receipt # NoReceipt
        /\ (receipt.status = "applied" <=> Changed(r) # {})
    BY KeyType, AbsentValuesAssumption DEF TypeInv, Receipts
  <2> HIDE DEF receipt
  <2>3. \A k \in Keys : k # Key(r) => receipts'[k] = receipts[k]
    BY <2>1 DEF TypeInv, TypeOK
  <2>4. receipts'[Key(r)] = receipt
    BY <2>1 DEF TypeInv, TypeOK
  <2>5. \A c \in Chunks : \A i \in 1..Len(events[c]) :
           events[c][i].key \in Keys /\ events[c][i].key # Key(r)
    <3>1. ASSUME NEW c \in Chunks, NEW i \in 1..Len(events[c]) PROVE events[c][i].key \in Keys
      <4>1. events[c] \in Seq(EventRecords)
        BY DEF TypeInv, TypeOK
      <4>2. events[c][i] \in EventRecords
        BY <4>1
      <4> QED BY <4>2 DEF EventRecords
    <3> QED BY <2>1, <3>1 DEF ExecutionInv, Applied
  <2>6. ASSUME NEW c \in Chunks, NEW i \in 1..Len(events'[c])
        PROVE  /\ AppliedNext(events'[c][i].key)
               /\ c \in receipts'[events'[c][i].key].payload.chunks
               /\ \A j \in 1..Len(events'[c]) : events'[c][j].key = events'[c][i].key => j = i
    <3>1. CASE c \notin Changed(r)
      <4>1. events'[c] = events[c] /\ i \in 1..Len(events[c])
        BY <1>2, <3>1, CommitAppends
      <4>2. receipts'[events[c][i].key] = receipts[events[c][i].key]
        BY <2>3, <2>5, <4>1
      <4> QED BY <4>1, <4>2 DEF ExecutionInv, Applied
    <3>2. CASE c \in Changed(r)
      <4> DEFINE n == Len(events[c])
      <4>1. /\ c \in payload[r].chunks
            /\ Len(events'[c]) = n + 1 /\ events'[c][n + 1].key = Key(r)
            /\ \A j \in 1..n : events'[c][j] = events[c][j]
        BY <1>2, <3>2, CommitAppends
      <4>2. n \in Nat /\ \A j \in 1..(n + 1) : j \in 1..n \/ j = n + 1
        BY DEF TypeInv, TypeOK
      <4>3. \A j \in 1..n : events'[c][j].key # Key(r)
        BY <2>5, <4>1
      <4>4. CASE i = n + 1
        BY <2>2, <2>4, <3>2, <4>1, <4>2, <4>3, <4>4 DEF Applied
      <4>5. CASE i \in 1..n
        <5>1. receipts'[events'[c][i].key] = receipts[events[c][i].key]
          BY <2>3, <2>5, <4>1, <4>5
        <5>2. events'[c][i] = events[c][i]
          BY <4>1, <4>5
        <5>3. \A j \in 1..n : events'[c][j].key = events'[c][i].key => j = i
          BY <4>1, <4>5, <5>2 DEF ExecutionInv
        <5>4. events'[c][n + 1].key # events'[c][i].key
          BY <4>1, <4>3, <4>5
        <5>5. AppliedNext(events'[c][i].key) /\ c \in receipts'[events'[c][i].key].payload.chunks
          BY <4>5, <5>1, <5>2 DEF ExecutionInv, Applied
        <5> QED BY <4>1, <4>2, <5>3, <5>4, <5>5
      <4> QED BY <4>1, <4>2, <4>4, <4>5
    <3> QED BY <3>1, <3>2
  <2>7. ASSUME NEW k \in Keys, AppliedNext(k)
        PROVE  \E c \in Chunks : \E i \in 1..Len(events'[c]) : events'[c][i].key = k
    <3>1. CASE k = Key(r)
      <4>1. PICK c \in Changed(r) : TRUE
        BY <2>2, <2>4, <2>7, <3>1 DEF Applied
      <4>2. c \in Chunks /\ Len(events'[c]) = Len(events[c]) + 1
            /\ events'[c][Len(events[c]) + 1].key = Key(r)
        BY <1>2, <2>1, CommitAppends
      <4>3. Len(events[c]) \in Nat
        BY <4>2 DEF TypeInv, TypeOK
      <4> QED BY <3>1, <4>2, <4>3
    <3>2. CASE k # Key(r)
      <4>1. Applied(k)
        BY <2>3, <2>7, <3>2 DEF Applied
      <4>2. PICK c \in Chunks : \E i \in 1..Len(events[c]) : events[c][i].key = k
        BY <4>1 DEF ExecutionInv
      <4>3. PICK i \in 1..Len(events[c]) : events[c][i].key = k
        BY <4>2
      <4>4. events'[c] = events[c] \/ /\ Len(events'[c]) = Len(events[c]) + 1
                                      /\ events'[c][i] = events[c][i]
        BY <1>2, CommitAppends
      <4>5. Len(events[c]) \in Nat
        BY DEF TypeInv, TypeOK
      <4> QED BY <4>3, <4>4, <4>5
    <3> QED BY <3>1, <3>2
  <2> QED BY <2>6, <2>7 DEF ExecutionInv, Applied
<1>3. ASSUME NEW r \in Requests, CommitMaterialized(r) PROVE ExecutionInv'
  BY <1>1, <1>3 DEF CommitMaterialized
<1> QED BY <1>1, <1>2, <1>3, OnlyCommitsStore DEF durable

LEMMA ExecutionInvariant == Spec => [](TypeInv /\ ProtocolInv /\ ExecutionInv)
<1>1. Init => ExecutionInv
  BY DEF Init, ExecutionInv, Applied
<1> QED BY <1>1, StepExecution, ProtocolCorrect, PTL DEF Spec

(* Whatever the clients send, a command id stands for one execution: its     *)
(* events are those of its receipt, one at most in each chunk of the payload *)
(* (of commands other than ObjectBatch, whose children may write several),   *)
(* and none if it is a noop (unique=True on command_id, and the insert of    *)
(* the log row before the first chunk is loaded).                            *)
THEOREM CommandsRunOnce == Spec => []OneExecutionPerCommandId
<1>1. TypeInv /\ ExecutionInv => OneExecutionPerCommandId
  BY ExecutionsAreSingle DEF TypeInv
<1> QED BY <1>1, ExecutionInvariant, PTL

-----------------------------------------------------------------------------
(* No confirmed edit is lost.                                               *)

\* A function on 0..n that starts and steps like a recursive definition is what
\* the definition yields: induction on the length of the history.
LEMMA ReplayIsUnique ==
    ASSUME NEW n \in Nat, NEW f, NEW g,
           f[0] = g[0],
           \A i \in 1..n : f[i - 1] = g[i - 1] => f[i] = g[i]
    PROVE  f[n] = g[n]
<1> SUFFICES ASSUME f[n] # g[n] PROVE FALSE
  OBVIOUS
<1> DEFINE S == {i \in 0..n : f[i] # g[i]}
<1>1. S \subseteq Nat /\ S # {}
  OBVIOUS
<1>2. PICK i \in S : \A j \in S : i <= j
  <2> HIDE DEF S
  <2> QED BY <1>1, LeastChunk
<1>3. i \in 1..n /\ i - 1 \in 0..n /\ i - 1 \notin S
  BY <1>2
<1> QED BY <1>2, <1>3

LEMMA HistoryReplays == ReplayInv /\ UnbrokenRevisionChain /\ TypeOK => HistoryReplaysToSnapshot
<1> SUFFICES ASSUME ReplayInv, UnbrokenRevisionChain, TypeOK, NEW c \in Chunks
             PROVE  LET replayed[i \in 0..Len(events[c])] ==
                            IF i = 0 THEN Base[c]
                            ELSE Edit(receipts[events[c][i].key].payload, replayed[i - 1])
                    IN  replayed[Len(events[c])] = ContentOf(c, snapshots[c])
  BY DEF HistoryReplaysToSnapshot
<1> DEFINE n == Len(events[c])
           P(i) == receipts[events[c][i].key].payload
           F(g) == [i \in 0..n |-> IF i = 0 THEN Base[c] ELSE Edit(P(i), g[i - 1])]
           replayed == CHOOSE g : g = F(g)
           left == [i \in 0..n |-> IF i = 0 THEN Base[c] ELSE events[c][i].after.content]
<1>1. n \in Nat
  BY DEF TypeOK
<1>2. \A i \in 1..n : left[i] = Edit(P(i), left[i - 1])
  <2> SUFFICES ASSUME NEW i \in 1..n PROVE left[i] = Edit(P(i), left[i - 1])
    OBVIOUS
  <2>1. left[i] = events[c][i].after.content /\ left[i - 1] = Before(c, i)
    BY <1>1 DEF Before
  <2> QED BY <2>1 DEF ReplayInv
<1>3. left = F(left)
  <2>1. left[0] = Base[c] /\ \A i \in 0..n : i = 0 \/ i \in 1..n
    BY <1>1
  <2> DEFINE h == left
  <2>2. h = [i \in 0..n |-> h[i]]
    OBVIOUS
  <2> HIDE DEF P, left, n
  <2>3. \A i \in 0..n : left[i] = IF i = 0 THEN Base[c] ELSE Edit(P(i), left[i - 1])
    BY <1>2, <2>1
  <2> QED BY <2>2, <2>3
<1>4. replayed = F(replayed)
  <2> HIDE DEF F, left
  <2> QED BY <1>3
<1>5. left[n] = replayed[n]
  <2> HIDE DEF replayed
  <2>1. replayed[0] = Base[c] /\ \A i \in 1..n : replayed[i] = Edit(P(i), replayed[i - 1])
    <3> HIDE DEF P
    <3> QED BY <1>1, <1>4
  <2>2. left[0] = Base[c]
    BY <1>1
  <2> HIDE DEF left, P, n
  <2> QED BY <1>1, <1>2, <2>1, <2>2, ReplayIsUnique
<1>6. left[n] = ContentOf(c, snapshots[c])
  <2>1. CASE n = 0
    <3>1. events[c] = << >>
      BY <2>1 DEF TypeOK
    <3> QED BY <2>1, <3>1 DEF ReplayInv
  <2>2. CASE n # 0
    <3>1. events[c] # << >> /\ events[c][n] \in EventRecords
      BY <1>1, <2>2 DEF TypeOK
    <3>2. snapshots[c] = events[c][n].after
      BY <3>1 DEF UnbrokenRevisionChain
    <3>3. snapshots[c] # NoSnapshot
      BY <3>1, <3>2, AbsentValuesAssumption DEF EventRecords
    <3> QED BY <1>1, <2>2, <3>2, <3>3 DEF ContentOf
  <2> QED BY <2>1, <2>2
<1> QED BY <1>5, <1>6

LEMMA StepReplay ==
    ASSUME TypeInv, ProtocolInv, SerialInv, ExecutionInv, ReplayInv, [Next]_vars
    PROVE  ReplayInv'
<1>1. CASE UNCHANGED durable
  BY <1>1 DEF durable, ReplayInv, Before
<1>2. ASSUME NEW r \in Requests, CommitMaterialized(r) PROVE ReplayInv'
  <2> DEFINE c == NextChunk(r)
  <2>1. c \in Chunks /\ snapshots[c] = NoSnapshot
    BY <1>2, NextChunkType DEF CommitMaterialized, ProtocolInv, MaterializeInv, TypeInv, WorkInv
  <2>2. /\ snapshots' = [snapshots EXCEPT ![c] = Mutated(NoSnapshot, Base[c])]
        /\ UNCHANGED <<events, receipts>>
    BY <1>2 DEF CommitMaterialized
  <2> HIDE DEF c
  <2>3. ContentOf(c, Mutated(NoSnapshot, Base[c])) = Base[c]
    BY DEF ContentOf, Mutated
  <2>4. \A d \in Chunks : ContentOf(d, snapshots'[d]) = ContentOf(d, snapshots[d])
    BY <2>1, <2>2, <2>3 DEF TypeInv, TypeOK, ContentOf
  <2> QED BY <2>2, <2>4 DEF ReplayInv, Before
<1>3. ASSUME NEW r \in Requests, Commit(r) PROVE ReplayInv'
  <2>1. /\ receipts[Key(r)] = NoReceipt /\ Key(r) \in Keys
        /\ \A k \in Keys : k # Key(r) => receipts'[k] = receipts[k]
        /\ receipts'[Key(r)].payload = payload[r]
    BY <1>3, CommitAppends DEF TypeInv, TypeOK
  <2>2. ASSUME NEW c \in Chunks, NEW i \in 1..Len(events[c])
        PROVE  receipts'[events[c][i].key] = receipts[events[c][i].key]
    <3>1. events[c] \in Seq(EventRecords)
      BY DEF TypeInv, TypeOK
    <3>2. events[c][i] \in EventRecords
      BY <3>1
    <3>3. events[c][i].key # Key(r)
      BY <2>1 DEF ExecutionInv, Applied
    <3> QED BY <2>1, <3>2, <3>3 DEF EventRecords
  <2>3. ASSUME NEW c \in Chunks
        PROVE  /\ events'[c] = << >> => ContentOf(c, snapshots'[c]) = Base[c]
               /\ \A i \in 1..Len(events'[c]) : events'[c][i].after.content
                     = Edit(receipts'[events'[c][i].key].payload,
                            IF i = 1 THEN Base[c] ELSE events'[c][i - 1].after.content)
    <3>1. CASE c \notin Changed(r)
      <4>1. events'[c] = events[c] /\ snapshots'[c] = snapshots[c]
        BY <1>3, <3>1 DEF Commit
      <4> QED BY <2>2, <4>1 DEF ReplayInv, Before
    <3>2. CASE c \in Changed(r)
      <4> DEFINE n == Len(events[c])
                 left == IF n = 0 THEN Base[c] ELSE events[c][n].after.content
      <4>1. /\ snapshots'[c].content = Edit(payload[r], ContentOf(c, snapshots[c]))
            /\ events'[c] = Append(events[c],
                  [key |-> Key(r), before |-> snapshots[c], after |-> snapshots'[c]])
        BY <1>3, <3>2, CommitStores DEF SerialInv, Changed
      <4>2. n \in Nat /\ events[c] \in Seq(EventRecords)
        BY DEF TypeInv, TypeOK
      <4>3. /\ Len(events'[c]) = n + 1 /\ \A i \in 1..n : events'[c][i] = events[c][i]
            /\ events'[c][n + 1].key = Key(r) /\ events'[c][n + 1].after = snapshots'[c]
        BY <4>1, <4>2
      <4>4. ContentOf(c, snapshots[c]) = left
        <5>1. CASE n = 0
          <6>1. events[c] = << >>
            BY <4>2, <5>1
          <6> QED BY <5>1, <6>1 DEF ReplayInv
        <5>2. CASE n # 0
          <6>1. events[c] # << >> /\ events[c][n] \in EventRecords
            BY <4>2, <5>2
          <6>2. snapshots[c] = events[c][n].after
            BY <6>1 DEF SerialInv, UnbrokenRevisionChain
          <6>3. snapshots[c] # NoSnapshot
            BY <6>1, <6>2, AbsentValuesAssumption DEF EventRecords
          <6> QED BY <5>2, <6>2, <6>3 DEF ContentOf
        <5> QED BY <5>1, <5>2
      <4>5. ASSUME NEW i \in 1..(n + 1)
            PROVE  events'[c][i].after.content
                     = Edit(receipts'[events'[c][i].key].payload,
                            IF i = 1 THEN Base[c] ELSE events'[c][i - 1].after.content)
        <5>1. CASE i = n + 1
          <6>1. left = IF i = 1 THEN Base[c] ELSE events'[c][i - 1].after.content
            BY <4>2, <4>3, <5>1
          <6> QED BY <2>1, <4>1, <4>3, <4>4, <5>1, <6>1
        <5>2. CASE i \in 1..n
          <6>1. Before(c, i) = IF i = 1 THEN Base[c] ELSE events'[c][i - 1].after.content
            <7>1. i = 1 \/ i - 1 \in 1..n
              BY <4>2, <5>2
            <7> QED BY <4>3, <7>1 DEF Before
          <6> QED BY <2>2, <4>3, <5>2, <6>1 DEF ReplayInv
        <5> QED BY <4>2, <5>1, <5>2
      <4>6. events'[c] # << >>
        BY <4>2, <4>3
      <4> QED BY <4>3, <4>5, <4>6
    <3> QED BY <3>1, <3>2
  <2> QED BY <2>3 DEF ReplayInv, Before
<1> QED BY <1>1, <1>2, <1>3, OnlyCommitsStore

(* The complete inductive invariant holds as long as no two commands of a    *)
(* world run without its lock.                                               *)
THEOREM RouteIsCorrect == ASSUME SafeLocking PROVE Spec => []RouteInv
<1>1. Init => ReplayInv
  BY DEF Init, ReplayInv, ContentOf
<1>2. TypeInv /\ ProtocolInv /\ SerialInv /\ ExecutionInv /\ ReplayInv /\ [Next]_vars => ReplayInv'
  BY StepReplay
<1>3. TypeInv /\ ProtocolInv /\ SerialInv /\ ExecutionInv /\ ReplayInv => RouteInv
  BY DEF RouteInv, TypeInv
<1> QED BY <1>1, <1>2, <1>3, SerialInvariant, ExecutionInvariant, PTL DEF Spec

(* Under the same hypothesis no confirmed edit is lost: replaying the        *)
(* payloads of a chunk's events, in order, on what the provider generates    *)
(* gives what a reader of the chunk is shown.                                *)
THEOREM NoEditIsLost == ASSUME SafeLocking PROVE Spec => []HistoryReplaysToSnapshot
<1>1. RouteInv => HistoryReplaysToSnapshot
  BY HistoryReplays DEF RouteInv, SerialInv
<1> QED BY <1>1, RouteIsCorrect, PTL
-----------------------------------------------------------------------------
(* Who owns a command id or a chunk's row, and which of its chunks a request *)
(* has passed.                                                               *)

OwnersInv == LogOwnerInv /\ RowOwnerInv /\ VisitInv

\* Passing the least chunk left keeps the chunks passed below those left.
LEMMA PassChunk ==
    ASSUME TypeInv, VisitInv, NEW r \in Requests, todo[r] # {},
           todo' = [todo EXCEPT ![r] = @ \ {NextChunk(r)}], UNCHANGED payload
    PROVE  VisitInv'
<1>1. todo[r] \subseteq Nat /\ \A d \in todo[r] : NextChunk(r) <= d
  <2>1. todo[r] \subseteq Nat
    BY ChunksAssumption DEF TypeInv, TypeOK
  <2>2. \E c \in todo[r] : \A d \in todo[r] : c <= d
    BY <2>1, LeastChunk
  <2> QED BY <2>1, <2>2 DEF NextChunk
<1>2. NextChunk(r) \in todo[r] /\ NextChunk(r) \in Nat
  BY NextChunkType, ChunksAssumption DEF TypeInv
<1>3. ASSUME NEW d \in todo[r] \ {NextChunk(r)} PROVE NextChunk(r) < d
  BY <1>1, <1>2, <1>3
<1> HIDE DEF TypeInv
<1>4. todo \in [Requests -> SUBSET Chunks]
  BY DEF TypeInv, TypeOK
<1> QED BY <1>3, <1>4 DEF VisitInv

LEMMA StepVisit == TypeInv /\ VisitInv /\ [Next]_vars => VisitInv'
<1> SUFFICES ASSUME TypeInv, VisitInv, [Next]_vars PROVE VisitInv'
  OBVIOUS
<1>1. ASSUME NEW r \in Requests, Begin(r) PROVE VisitInv'
  BY <1>1 DEF TypeInv, TypeOK, VisitInv, Begin
<1>2. ASSUME NEW r \in Requests, SkipChunk(r) \/ SaveChunk(r) PROVE VisitInv'
  <2>1. todo[r] # {}
    BY <1>2 DEF SkipChunk, SaveChunk, Step, TypeInv, WorkInv
  <2> QED BY <1>2, <2>1, PassChunk DEF SkipChunk, SaveChunk
<1>3. ASSUME NEW r \in Requests, NEW answer, Finish(r, answer) PROVE VisitInv'
  BY <1>3 DEF TypeInv, TypeOK, VisitInv, Finish
<1>4. ASSUME UNCHANGED <<todo, payload>> PROVE VisitInv'
  BY <1>4 DEF VisitInv
<1>5. ASSUME NEW r \in Requests,
             \/ LockWorld(r) \/ LookupReceipt(r) \/ InsertCommandLog(r)
             \/ LoadChunk(r) \/ GenerateForRead(r) \/ InsertMaterialized(r)
      PROVE  UNCHANGED <<todo, payload>>
  BY <1>5 DEF LockWorld, LookupReceipt, InsertCommandLog, LoadChunk, GenerateForRead, InsertMaterialized
<1>6. CASE UNCHANGED vars
  BY <1>4, <1>6 DEF vars, local
<1> QED
  BY <1>1, <1>2, <1>3, <1>4, <1>5, <1>6, EndWithoutCommit
  DEF Next, Progress, Commit, CommitMaterialized, Rollback

LEMMA StepLogOwner == TypeInv /\ LogOwnerInv /\ [Next]_vars => LogOwnerInv'
<1> SUFFICES ASSUME TypeInv, LogOwnerInv, [Next]_vars PROVE LogOwnerInv'
  OBVIOUS
<1> USE DEF Executing, IsCommand, Key
<1>1. ASSUME NEW r \in Requests,
             \/ Begin(r) \/ LockWorld(r) \/ LookupReceipt(r) \/ LoadChunk(r) \/ SkipChunk(r)
             \/ SaveChunk(r) \/ GenerateForRead(r) \/ InsertMaterialized(r)
      PROVE  LogOwnerInv'
  <2>1. /\ UNCHANGED <<logOwner, payload>>
        /\ \A s \in Requests : s # r => pc'[s] = pc[s]
        /\ Executing(r) => pc'[r] \in {"load", "save"}
    BY <1>1
    DEF TypeInv, TypeOK, Begin, LockWorld, LookupReceipt, LoadChunk, SkipChunk, SaveChunk,
        GenerateForRead, InsertMaterialized, Step, locks
  <2> QED BY <2>1 DEF LogOwnerInv
<1>2. ASSUME NEW r \in Requests, InsertCommandLog(r) PROVE LogOwnerInv'
  BY <1>2, KeyType DEF TypeInv, TypeOK, WorkInv, LogOwnerInv, InsertCommandLog, Step
<1>3. ASSUME NEW r \in Requests, NEW answer, Finish(r, answer) PROVE LogOwnerInv'
  BY <1>3, AbsentValuesAssumption DEF TypeInv, TypeOK, LogOwnerInv, Finish
<1>4. CASE UNCHANGED vars
  BY <1>4 DEF LogOwnerInv, vars, locks, local
<1> QED
  BY <1>1, <1>2, <1>3, <1>4, EndWithoutCommit
  DEF Next, Progress, Commit, CommitMaterialized, Rollback

LEMMA StepRowOwner == TypeInv /\ RowOwnerInv /\ [Next]_vars => RowOwnerInv'
<1> SUFFICES ASSUME TypeInv, RowOwnerInv, [Next]_vars PROVE RowOwnerInv'
  OBVIOUS
<1> USE DEF Executing, IsCommand
<1>s. \A s \in Requests : todo'[s] = todo[s] => NextChunk(s)' = NextChunk(s)
  BY NextChunkStable
<1>1. ASSUME NEW r \in Requests,
             \/ Begin(r) \/ LockWorld(r) \/ LookupReceipt(r) \/ InsertCommandLog(r)
             \/ LoadChunk(r) \/ SkipChunk(r) \/ GenerateForRead(r)
      PROVE  RowOwnerInv'
  <2>1. /\ UNCHANGED <<rowOwner, payload>>
        /\ \A s \in Requests : s # r => pc'[s] = pc[s] /\ todo'[s] = todo[s]
        /\ Executing(r) => pc'[r] \in {"load", "save"} /\ todo'[r] \subseteq todo[r]
        /\ pc[r] # "key"
    BY <1>1
    DEF TypeInv, TypeOK, Begin, LockWorld, LookupReceipt, InsertCommandLog, LoadChunk, SkipChunk,
        GenerateForRead, Step, locks
  <2> QED BY <1>s, <2>1 DEF RowOwnerInv
<1>2. ASSUME NEW r \in Requests, SaveChunk(r) PROVE RowOwnerInv'
  <2>1. NextChunk(r) \in payload[r].chunks /\ NextChunk(r) \in Chunks
    BY <1>2, NextChunkType DEF SaveChunk, Step, TypeInv, WorkInv
  <2>2. /\ rowOwner' = [rowOwner EXCEPT ![NextChunk(r)] = r]
        /\ todo' = [todo EXCEPT ![r] = @ \ {NextChunk(r)}]
        /\ pc[r] = "save" /\ pc' = [pc EXCEPT ![r] = "load"]
        /\ IsCommand(r) /\ UNCHANGED payload
    BY <1>2 DEF SaveChunk, Step
  <2> QED BY <1>s, <2>1, <2>2 DEF TypeInv, TypeOK, RowOwnerInv
<1>3. ASSUME NEW r \in Requests, InsertMaterialized(r) PROVE RowOwnerInv'
  <2>1. NextChunk(r) \in Chunks
    BY <1>3, NextChunkType DEF InsertMaterialized, Step, TypeInv, WorkInv
  <2>2. /\ rowOwner' = [rowOwner EXCEPT ![NextChunk(r)] = r]
        /\ pc[r] = "save" /\ pc' = [pc EXCEPT ![r] = "key"]
        /\ ~IsCommand(r) /\ UNCHANGED <<todo, payload>>
    BY <1>3 DEF InsertMaterialized, Step
  <2> QED BY <1>s, <2>1, <2>2 DEF TypeInv, TypeOK, RowOwnerInv
<1>4. ASSUME NEW r \in Requests, NEW answer, Finish(r, answer) PROVE RowOwnerInv'
  <2>1. \A s \in Requests : s # r => pc'[s] = pc[s] /\ todo'[s] = todo[s]
    BY <1>4 DEF Finish, TypeInv, TypeOK
  <2> QED BY <1>4, <1>s, <2>1, AbsentValuesAssumption DEF RowOwnerInv, Finish
<1>5. CASE UNCHANGED vars
  BY <1>5, <1>s DEF RowOwnerInv, vars, locks, local
<1> QED
  BY <1>1, <1>2, <1>3, <1>4, <1>5, EndWithoutCommit
  DEF Next, Progress, Commit, CommitMaterialized, Rollback

LEMMA OwnersInvariant == Spec => [](TypeInv /\ ProtocolInv /\ OwnersInv)
<1>1. Init => OwnersInv
  BY AbsentValuesAssumption DEF Init, OwnersInv, LogOwnerInv, RowOwnerInv, VisitInv
<1>2. TypeInv /\ OwnersInv /\ [Next]_vars => OwnersInv'
  BY StepVisit, StepLogOwner, StepRowOwner DEF OwnersInv
<1> QED BY <1>1, <1>2, ProtocolCorrect, PTL DEF Spec

-----------------------------------------------------------------------------
(* Deadlocks. *)

\* A nonempty set of chunks with an upper bound has a greatest element.
LEMMA GreatestChunk ==
    ASSUME NEW S, S \subseteq Nat, S # {}, NEW b \in Nat, \A c \in S : c <= b
    PROVE  \E c \in S : \A d \in S : d <= c
<1> DEFINE T == {b - c : c \in S}
<1>1. T \subseteq Nat /\ T # {}
  <2>1. PICK c \in S : TRUE
    OBVIOUS
  <2>2. b - c \in T
    BY <2>1
  <2>3. \A d \in S : b - d \in Nat
    OBVIOUS
  <2> QED BY <2>2, <2>3
<1>2. PICK t \in T : \A u \in T : t <= u
  <2> HIDE DEF T
  <2> QED BY <1>1, LeastChunk
<1>3. PICK c \in S : t = b - c
  BY <1>2
<1>4. ASSUME NEW d \in S PROVE d <= c
  <2>1. b - c <= b - d
    BY <1>2, <1>3
  <2>2. b \in Nat /\ c \in Nat /\ d \in Nat
    OBVIOUS
  <2> HIDE DEF T
  <2> QED BY ONLY <2>1, <2>2
<1> QED BY <1>4

\* Who is waited for holds the world row, a command id or a chunk's row.
LEMMA WaitedFor ==
    ASSUME TypeInv, ProtocolInv, OwnersInv,
           NEW r \in Requests, NEW s \in Requests \ {r}, WaitsFor(r, s)
    PROVE  \/ IsCommand(s) /\ NeedsLock(payload[s]) /\ pc[s] \in {"lookup", "log", "load", "save"}
           \/ Executing(s)
           \/ pc[s] = "key"
<1>1. World(r) \in Worlds /\ Key(r) \in Keys
  BY KeyType DEF TypeInv
<1>2. pc[r] = "save" => NextChunk(r) \in Chunks
  BY NextChunkType DEF TypeInv, WorkInv
<1> QED BY <1>1, <1>2 DEF WaitsFor, ProtocolInv, LockInv, OwnersInv, LogOwnerInv, RowOwnerInv

\* A command that holds the world row waits for a chunk's row only behind a
\* read that waits for that world row.
LEMMA LockedSaverPairs ==
    ASSUME TypeInv, ProtocolInv, OwnersInv,
           NEW r \in Requests, NEW s \in Requests \ {r}, WaitsFor(r, s),
           pc[r] = "save", IsCommand(r), NeedsLock(payload[r])
    PROVE  WaitsFor(s, r)
<1> DEFINE c == NextChunk(r)
<1>1. c \in Chunks /\ c \in payload[r].chunks /\ rowOwner[c] = s
  BY NextChunkType DEF TypeInv, WorkInv, WaitsFor
<1>2. World(r) \in Worlds /\ worldLock[World(r)] = r
  BY KeyType DEF TypeInv, ProtocolInv, LockInv
<1>3. \A t \in Requests : c \in payload[t].chunks => WorldOf[c] = World(t)
  BY MenuAssumption DEF TypeInv, WorkInv, World
<1>4. ASSUME Executing(s), c \in payload[s].chunks PROVE FALSE
  <2>1. s \in keyShare[World(r)]
    BY <1>1, <1>2, <1>3, <1>4 DEF ProtocolInv, LockInv
  <2> QED BY <1>2, <2>1, AbsentValuesAssumption DEF ProtocolInv, LockInv
<1>5. pc[s] = "key" /\ c = NextChunk(s)
  BY <1>1, <1>4 DEF OwnersInv, RowOwnerInv
<1>6. c \in payload[s].chunks
  BY <1>5, NextChunkType DEF TypeInv, WorkInv
<1>7. World(s) = World(r)
  BY <1>1, <1>3, <1>6
<1> QED BY <1>2, <1>5, <1>7 DEF WaitsFor

\* A command that holds the world row waits to insert its log only behind a
\* command with the same commandId, which holds the row of another world.
LEMMA LockedLogger ==
    ASSUME TypeInv, ProtocolInv, OwnersInv,
           NEW r \in Requests, NEW s \in Requests \ {r}, WaitsFor(r, s),
           pc[r] = "log", NeedsLock(payload[r])
    PROVE  Executing(s) /\ NeedsLock(payload[s])
<1>1. World(r) \in Worlds /\ worldLock[World(r)] = r
  BY KeyType DEF TypeInv, WorkInv, ProtocolInv, LockInv
<1>2. logOwner[Key(r)] = s /\ Key(r) \in Keys
  BY <1>1, KeyType DEF WaitsFor, TypeInv
<1>3. Executing(s) /\ Key(s) = Key(r)
  BY <1>2 DEF OwnersInv, LogOwnerInv
<1>4. payload[s].id \in CommandIds \cup {NoId} /\ payload[r].id \in CommandIds \cup {NoId}
  BY KeyType DEF TypeInv, Payloads
<1> QED BY <1>3, <1>4, AbsentValuesAssumption DEF Key, NeedsLock

(* Whatever the clients send, requests that block each other include two that  *)
(* block one another: a circle of waits through the world rows closes between  *)
(* a locked command and a read, and waits for chunk rows alone rise with the   *)
(* chunks, which every command visits in increasing order (sorted(grouped) in  *)
(* _execute_world_edit).  So a detector that looks at pairs breaks every       *)
(* deadlock, for any number of requests.                                       *)
THEOREM EveryDeadlockIsAPair ==
    ASSUME NEW b \in Nat, \A c \in Chunks : c <= b PROVE Spec => []DeadlocksArePairs
<1>1. ASSUME TypeInv, ProtocolInv, OwnersInv, NEW S \in SUBSET Requests, Blocked(S),
             ~ \E r \in S : \E s \in S \ {r} : WaitsFor(r, s) /\ WaitsFor(s, r)
      PROVE  FALSE
  <2>1. \A r \in S : \E s \in S \ {r} : WaitsFor(r, s)
    BY <1>1 DEF Blocked
  <2>2. \A r \in S : pc[r] \in {"lock", "log", "save", "key"}
    BY <2>1 DEF WaitsFor
  <2>3. \A r \in S : ~ (pc[r] = "save" /\ IsCommand(r) /\ NeedsLock(payload[r]))
    BY <1>1, <2>1, LockedSaverPairs
  <2>4. ASSUME NEW r \in S, pc[r] = "log", NeedsLock(payload[r]) PROVE FALSE
    <3>1. PICK s \in S \ {r} : WaitsFor(r, s)
      BY <2>1
    <3>2. Executing(s) /\ NeedsLock(payload[s])
      BY <1>1, <2>4, <3>1, LockedLogger
    <3> QED BY <2>2, <2>3, <3>1, <3>2 DEF Executing
  <2>5. ASSUME NEW r \in S, pc[r] = "key" PROVE FALSE
    <3>1. PICK s \in S \ {r} : WaitsFor(r, s)
      BY <2>1
    <3>2. worldLock[World(r)] = s /\ World(r) \in Worlds
      BY <1>1, <2>5, <3>1, KeyType DEF WaitsFor, TypeInv
    <3>3. IsCommand(s) /\ NeedsLock(payload[s]) /\ pc[s] \in {"lookup", "log", "load", "save"}
      BY <1>1, <3>1, <3>2 DEF ProtocolInv, LockInv
    <3> QED BY <2>2, <2>3, <2>4, <3>1, <3>3
  <2> DEFINE T == {s \in S : \E r \in S \ {s} : WaitsFor(r, s)}
  <2>6. ASSUME NEW s \in T PROVE pc[s] = "save" /\ IsCommand(s)
    BY <1>1, <2>2, <2>4, <2>5, WaitedFor DEF Executing
  <2>7. ASSUME NEW s \in T PROVE \E u \in T : NextChunk(s) < NextChunk(u)
    <3>1. PICK u \in S \ {s} : WaitsFor(s, u)
      BY <2>1
    <3>2. u \in T
      BY <3>1
    <3>3. pc[u] = "save" /\ rowOwner[NextChunk(s)] = u
      BY <2>6, <3>1, <3>2 DEF WaitsFor
    <3>4. /\ NextChunk(s) \in Chunks
          /\ NextChunk(u) \in todo[u]
      BY <1>1, <2>6, <3>3, NextChunkType DEF TypeInv, WorkInv
    <3>5. NextChunk(s) \in payload[u].chunks \ todo[u]
      BY <1>1, <3>3, <3>4 DEF OwnersInv, RowOwnerInv
    <3> QED BY <1>1, <3>2, <3>4, <3>5 DEF OwnersInv, VisitInv
  <2>8. /\ \A s \in T : NextChunk(s) \in Chunks
        /\ T # {}
    <3>1. \A s \in T : NextChunk(s) \in Chunks
      BY <1>1, <2>6, NextChunkType DEF TypeInv, WorkInv
    <3>2. PICK r \in S : TRUE
      BY <1>1 DEF Blocked
    <3>3. PICK s \in S \ {r} : WaitsFor(r, s)
      BY <2>1
    <3>4. s \in T
      BY <3>3
    <3> QED BY <3>1, <3>4
  <2> DEFINE G == {NextChunk(s) : s \in T}
  <2> HIDE DEF T
  <2>9. G \subseteq Nat /\ G # {} /\ \A c \in G : c <= b
    BY <2>8, ChunksAssumption
  <2>10. PICK g \in G : \A d \in G : d <= g
    <3> HIDE DEF G
    <3> QED BY <2>9, GreatestChunk
  <2>11. PICK s \in T : g = NextChunk(s)
    BY <2>10
  <2>12. PICK u \in T : NextChunk(s) < NextChunk(u)
    BY <2>7
  <2>13. NextChunk(u) <= NextChunk(s)
    BY <2>10, <2>11
  <2>14. NextChunk(s) \in Nat /\ NextChunk(u) \in Nat
    BY <2>8, ChunksAssumption
  <2> QED BY <2>12, <2>13, <2>14
<1>2. TypeInv /\ ProtocolInv /\ OwnersInv => DeadlocksArePairs
  BY <1>1 DEF DeadlocksArePairs
<1> QED BY <1>2, OwnersInvariant, PTL
=============================================================================

----------------------- MODULE PlanningGenerationProofs -----------------------
(***************************************************************************)
(* Proofs about PlanningGeneration, for any workers, buildings, children    *)
(* and commands.  RequestInv holds whoever takes the world lock.  What was  *)
(* compared and listed (ComparedInv) stays true if those who replace a      *)
(* building take it: then they are alone between the log and the commit.    *)
(***************************************************************************)
EXTENDS PlanningGeneration, TLAPS

LEMMA JobTypes ==
    /\ \A j \in Menu :
          /\ j.serialized \in BOOLEAN /\ j # NoJob
          /\ j.kind \in {"save", "delete", "put", "drop"}
          /\ j.kind \in {"save", "delete"} => j.building \in Buildings /\ j.previous \in Loaded
          /\ j.kind = "save" =>
                /\ j.generation \in Generations /\ j.children \in SUBSET Children
                /\ \A c \in j.children : AreaOf[c] = j.building
          /\ j.kind \in {"put", "drop"} => j.object \in Objects
          /\ j.kind = "put" => j.generation \in Generations
<1> SUFFICES ASSUME NEW j \in Menu
    PROVE /\ j.serialized \in BOOLEAN /\ j # NoJob
          /\ j.kind \in {"save", "delete", "put", "drop"}
          /\ j.kind \in {"save", "delete"} => j.building \in Buildings /\ j.previous \in Loaded
          /\ j.kind = "save" =>
                /\ j.generation \in Generations /\ j.children \in SUBSET Children
                /\ \A c \in j.children : AreaOf[c] = j.building
          /\ j.kind \in {"put", "drop"} => j.object \in Objects
          /\ j.kind = "put" => j.generation \in Generations
  OBVIOUS
<1>1. j \in Jobs /\ j # NoJob
  BY MenuAssumption, AbsentValuesAssumption
<1>2. CASE j \in Saves
  BY <1>1, <1>2, MenuAssumption DEF Saves
<1>3. CASE j \in Deletes
  BY <1>1, <1>3 DEF Deletes
<1>4. CASE j \in Puts
  BY <1>1, <1>4 DEF Puts
<1>5. CASE j \in Drops
  BY <1>1, <1>5 DEF Drops
<1> QED BY <1>1, <1>2, <1>3, <1>4, <1>5 DEF Jobs

\* A worker that does something has one of the commands of the menu.
LEMMA BusyWorker ==
    ASSUME RequestInv, NEW t \in Workers, pc[t] # "idle"
    PROVE  job[t] \in Menu /\ job[t] # NoJob
BY JobTypes DEF RequestInv, TypeOK, LockInv

LEMMA RowRead ==
    ASSUME RequestInv, NEW t \in Workers, pc[t] = "write"
    PROVE  row[t].object \in Objects /\ row[t].write \in Writes
BY DEF RequestInv, TypeOK, WorkInv

\* The end of a request, if the rows that others have written but not committed
\* keep their status.
LEMMA FinishKeeps ==
    ASSUME RequestInv, NEW t \in Workers, Finish(t),
           status' \in [Objects -> {"none", "active", "removed"}],
           generation' \in [Buildings -> Loaded],
           \A s \in Workers \ {t}, o \in Objects : pending[s][o] # "none" => status'[o] = status[o],
           \A o \in Objects : status[o] # "none" => status'[o] # "none"
    PROVE  RequestInv'
<1>1. /\ pc'[t] = "idle" /\ job'[t] = NoJob /\ retire'[t] = {} /\ place'[t] = {}
      /\ row'[t] = NoRow /\ pending'[t] = NoWrites
      /\ \A s \in Workers \ {t} :
            /\ pc'[s] = pc[s] /\ job'[s] = job[s] /\ retire'[s] = retire[s] /\ place'[s] = place[s]
            /\ row'[s] = row[s] /\ pending'[s] = pending[s]
  BY DEF RequestInv, TypeOK, Finish
<1>2. TypeOK'
  BY DEF RequestInv, TypeOK, Finish, NoWrites
<1>3. LockInv'
  BY <1>1, AbsentValuesAssumption DEF RequestInv, TypeOK, LockInv, Finish, Executing
<1>4. WorkInv'
  BY <1>1 DEF RequestInv, WorkInv, Replaces, Removing, Placing
<1>5. RowInv'
  <2> SUFFICES ASSUME NEW s \in Workers
      PROVE /\ \A o \in Objects : pending'[s][o] # "none" =>
                  rowOwner'[o] = s /\ (pending'[s][o] = "insert" <=> status'[o] = "none")
            /\ pc'[s] = "write" /\ row'[s].write # "insert" => status'[row'[s].object] # "none"
    BY DEF RowInv
  <2>1. CASE s = t
    BY <1>1, <2>1 DEF NoWrites
  <2>2. CASE s # t
    BY <1>1, <2>2, RowRead DEF RequestInv, RowInv, Finish, TypeOK
  <2> QED BY <2>1, <2>2
<1> QED BY <1>2, <1>3, <1>4, <1>5 DEF RequestInv

LEMMA RollbackKeeps == ASSUME RequestInv, NEW t \in Workers, Rollback(t) PROVE RequestInv'
BY FinishKeeps DEF Rollback, rows, RequestInv, TypeOK

LEMMA InitHolds == Init => GenerationInv
<1> SUFFICES ASSUME Init PROVE GenerationInv
  OBVIOUS
<1>1. TypeOK
  BY DEF Init, TypeOK, NoWrites, Loaded
<1>2. LockInv /\ WorkInv /\ RowInv /\ ComparedInv
  BY AbsentValuesAssumption
     DEF Init, LockInv, WorkInv, RowInv, ComparedInv, Executing, NoWrites
<1> QED BY <1>1, <1>2 DEF GenerationInv, RequestInv

LEMMA BeginKeeps ==
    ASSUME RequestInv, NEW t \in Workers, NEW j \in Menu, Begin(t, j)
    PROVE  RequestInv'
<1>1. /\ pc[t] = "idle" /\ pc'[t] \in {"lock", "log"} /\ job'[t] = j
      /\ pc'[t] = "log" <=> ~j.serialized
      /\ \A s \in Workers \ {t} : pc'[s] = pc[s] /\ job'[s] = job[s]
      /\ UNCHANGED <<rows, locks, work>>
  BY JobTypes DEF Begin, Step, RequestInv, TypeOK
<1>2. TypeOK'
  BY DEF Begin, Step, RequestInv, TypeOK, rows, locks, work
<1>3. LockInv'
  BY <1>1, JobTypes DEF RequestInv, LockInv, Executing, locks
<1>4. WorkInv'
  BY <1>1 DEF RequestInv, WorkInv, Replaces, Removing, Placing, work
<1>5. RowInv'
  BY <1>1 DEF RequestInv, RowInv, locks, rows, work
<1> QED BY <1>2, <1>3, <1>4, <1>5 DEF RequestInv

LEMMA LockWorldKeeps == ASSUME RequestInv, NEW t \in Workers, LockWorld(t) PROVE RequestInv'
<1>1. /\ pc[t] = "lock" /\ pc'[t] = "log" /\ worldLock = NoWorker /\ keyShare = {} /\ worldLock' = t
      /\ \A s \in Workers \ {t} : pc'[s] = pc[s]
      /\ UNCHANGED <<rows, keyShare, rowOwner, job, work>>
  BY DEF LockWorld, Step, RequestInv, TypeOK
<1>2. TypeOK'
  BY DEF LockWorld, Step, RequestInv, TypeOK, rows, work
<1>3. LockInv'
  BY <1>1, AbsentValuesAssumption DEF RequestInv, LockInv, Executing
<1>4. WorkInv'
  BY <1>1 DEF RequestInv, WorkInv, Replaces, Removing, Placing, work
<1>5. RowInv'
  BY <1>1 DEF RequestInv, RowInv, rows, work
<1> QED BY <1>2, <1>3, <1>4, <1>5 DEF RequestInv

LEMMA InsertCommandLogKeeps ==
    ASSUME RequestInv, NEW t \in Workers, InsertCommandLog(t)
    PROVE  RequestInv'
<1>1. /\ pc[t] = "log" /\ worldLock \in {NoWorker, t} /\ keyShare' = keyShare \cup {t}
      /\ pc'[t] = IF job[t].kind \in {"save", "delete"} THEN "compare" ELSE "execute"
      /\ retire'[t] = IF job[t].kind = "drop" THEN {job[t].object} ELSE {}
      /\ place'[t] = IF job[t].kind = "put" THEN {job[t].object} ELSE {}
      /\ \A s \in Workers \ {t} :
            pc'[s] = pc[s] /\ retire'[s] = retire[s] /\ place'[s] = place[s]
      /\ UNCHANGED <<rows, worldLock, rowOwner, job, row, pending>>
  BY DEF InsertCommandLog, LogInsertPasses, Step, RequestInv, TypeOK
<1>2. /\ job[t] \in Menu /\ job[t] # NoJob
      /\ job[t].kind \in {"put", "drop"} => job[t].object \in Objects
      /\ job[t].kind \in {"save", "delete", "put", "drop"}
  BY <1>1, BusyWorker, JobTypes
<1>3. TypeOK'
  BY <1>1, <1>2 DEF InsertCommandLog, Step, RequestInv, TypeOK, rows
<1>4. LockInv'
  BY <1>1, AbsentValuesAssumption DEF RequestInv, LockInv, Executing
<1>5. WorkInv'
  BY <1>1, <1>2 DEF RequestInv, WorkInv, Replaces, Removing, Placing, NoWrites
<1>6. RowInv'
  BY <1>1 DEF RequestInv, RowInv, rows
<1> QED BY <1>3, <1>4, <1>5, <1>6 DEF RequestInv

LEMMA PlacedAndRetired ==
    ASSUME RequestInv, NEW j \in Menu, j.kind \in {"save", "delete"}
    PROVE  Retired(j) \in SUBSET Objects /\ Placed(j) \in SUBSET Objects
BY JobTypes DEF Retired, Placed, ActiveChildren, Objects

LEMMA PlanKeeps ==
    ASSUME RequestInv, NEW t \in Workers, CompareGeneration(t) \/ ListRetired(t)
    PROVE  RequestInv'
<1>1. /\ pc[t] \in {"compare", "list"} /\ pc'[t] \in {"list", "execute"}
      /\ pc'[t] = "list" => pc[t] = "compare" /\ retire'[t] = retire[t] /\ place'[t] = place[t]
      /\ pc'[t] = "execute" =>
            /\ retire'[t] = Retired(job[t]) /\ place'[t] = Placed(job[t])
            /\ retire'[t] \cap place'[t] = {}
      /\ \A s \in Workers \ {t} :
            pc'[s] = pc[s] /\ retire'[s] = retire[s] /\ place'[s] = place[s]
      /\ UNCHANGED <<rows, locks, job, row, pending>>
  BY DEF CompareGeneration, ListRetired, Step, RequestInv, TypeOK, work, locks
<1>2. job[t] \in Menu /\ Replaces(t)
  BY <1>1, BusyWorker DEF RequestInv, WorkInv
<1>3. Retired(job[t]) \in SUBSET Objects /\ Placed(job[t]) \in SUBSET Objects
  BY <1>2, PlacedAndRetired DEF Replaces
<1>4. TypeOK'
  <2>1. CASE CompareGeneration(t)
    BY <2>1 DEF CompareGeneration, Step, RequestInv, TypeOK, rows, locks, work
  <2>2. CASE ListRetired(t)
    BY <1>3, <2>2 DEF ListRetired, Step, RequestInv, TypeOK, rows, locks
  <2> QED BY <2>1, <2>2
<1>5. LockInv'
  BY <1>1 DEF RequestInv, LockInv, Executing, locks
<1>6. WorkInv'
  BY <1>1, <1>2, <1>3 DEF RequestInv, WorkInv, Replaces, Removing, Placing, NoWrites, Placed
<1>7. RowInv'
  BY <1>1 DEF RequestInv, RowInv, rows, locks
<1> QED BY <1>4, <1>5, <1>6, <1>7 DEF RequestInv

LEMMA SelectKeeps ==
    ASSUME RequestInv, NEW t \in Workers, NEW o \in Objects, SelectInstance(t, o)
    PROVE  RequestInv'
<1>1. /\ pc[t] = "execute" /\ pc'[t] = "write"
      /\ o \in retire[t] \cup place[t]
      /\ o \in retire[t] => status[o] = "active"
      /\ row'[t] = [object |-> o, write |-> WriteOf(t, o)]
      /\ \A s \in Workers \ {t} : pc'[s] = pc[s] /\ row'[s] = row[s]
      /\ UNCHANGED <<rows, locks, job, retire, place, pending>>
  BY DEF SelectInstance, Step, RequestInv, TypeOK
<1>2. /\ row'[t] \in [object: Objects, write: Writes] /\ row'[t] # NoRow
      /\ row'[t].object = o
      /\ row'[t].write = "remove" <=> o \in retire[t]
      /\ row'[t].write # "insert" => status[o] = "active"
  BY <1>1, AbsentValuesAssumption DEF WriteOf, Writes
<1>3. TypeOK'
  BY <1>2 DEF SelectInstance, Step, RequestInv, TypeOK, rows, locks
<1>4. LockInv'
  BY <1>1 DEF RequestInv, LockInv, Executing, locks
<1>5. WorkInv'
  BY <1>1, <1>2 DEF RequestInv, WorkInv, Replaces, Removing, Placing
<1>6. RowInv'
  BY <1>1, <1>2 DEF RequestInv, RowInv, rows, locks
<1> QED BY <1>3, <1>4, <1>5, <1>6 DEF RequestInv

LEMMA WriteKeepsPlan ==
    ASSUME RequestInv, NEW t \in Workers, WriteInstance(t)
    PROVE  Removing(t)' = Removing(t) /\ Placing(t)' = Placing(t)
<1> DEFINE o == row[t].object
<1>1. /\ pc[t] = "write" /\ o \in Objects /\ row[t].write \in {"insert", "update", "remove"}
      /\ row[t].write = "remove" <=> o \in retire[t]
      /\ o \in retire[t] \cup place[t] /\ retire[t] \cap place[t] = {} /\ pending[t][o] = "none"
  BY RowRead DEF WriteInstance, Step, RequestInv, WorkInv, Writes
<1>2. /\ retire'[t] = retire[t] \ {o} /\ place'[t] = place[t] \ {o}
      /\ \A x \in Objects : pending'[t][x] = IF x = o THEN row[t].write ELSE pending[t][x]
  BY <1>1 DEF WriteInstance, Step, RequestInv, TypeOK
<1> QED BY <1>1, <1>2 DEF Removing, Placing

LEMMA WriteKeeps == ASSUME RequestInv, NEW t \in Workers, WriteInstance(t) PROVE RequestInv'
<1> DEFINE o == row[t].object
<1>1. /\ pc[t] = "write" /\ pc'[t] = "execute" /\ rowOwner[o] \in {NoWorker, t}
      /\ row[t].write = "insert" => status[o] = "none"
      /\ \A s \in Workers \ {t} :
            pc'[s] = pc[s] /\ retire'[s] = retire[s] /\ place'[s] = place[s] /\ row'[s] = row[s]
               /\ row'[s] = row[s] /\ pending'[s] = pending[s]
      /\ retire'[t] = retire[t] \ {o} /\ place'[t] = place[t] \ {o} /\ row'[t] = NoRow
      /\ pending'[t] = [pending[t] EXCEPT ![o] = row[t].write]
      /\ rowOwner' = [rowOwner EXCEPT ![o] = t]
      /\ UNCHANGED <<rows, worldLock, keyShare, job>>
  BY DEF WriteInstance, RowFree, Insertable, Step, RequestInv, TypeOK
<1>2. /\ o \in Objects /\ row[t].write \in {"insert", "update", "remove"}
      /\ row[t].write = "remove" <=> o \in retire[t]
      /\ o \in retire[t] \cup place[t] /\ retire[t] \cap place[t] = {}
      /\ row[t].write # "insert" => status[o] # "none"
  BY <1>1, RowRead DEF RequestInv, WorkInv, RowInv, Writes
<1>8. \A x \in Objects : pending'[t][x] = IF x = o THEN row[t].write ELSE pending[t][x]
  BY <1>1, <1>2 DEF RequestInv, TypeOK
<1>3. TypeOK'
  BY <1>1, <1>2 DEF WriteInstance, Step, RequestInv, TypeOK, Writes, rows
<1>4. LockInv'
  BY <1>1 DEF RequestInv, LockInv, Executing
<1>5. /\ Removing(t)' = Removing(t) /\ Placing(t)' = Placing(t)
      /\ \A s \in Workers \ {t} : Removing(s)' = Removing(s) /\ Placing(s)' = Placing(s)
  <2>1. Removing(t)' = Removing(t) /\ Placing(t)' = Placing(t)
    BY WriteKeepsPlan
  <2> QED BY <1>1, <2>1 DEF Removing, Placing
<1>6. WorkInv'
  <2> SUFFICES ASSUME NEW s \in Workers PROVE WorkInv!(s)'
    BY DEF WorkInv
  <2>1. CASE s = t
    <3>1. Removing(s)' = Removing(s) /\ Placing(s)' = Placing(s)
      BY <1>5, <2>1
    <3>2. /\ pc[s] = "write" /\ pc'[s] = "execute" /\ row'[s] = NoRow /\ job' = job
          /\ retire'[s] \cap place'[s] = {}
      BY <1>1, <1>2, <2>1
    <3>3. \A x \in retire'[s] \cup place'[s] : pending'[s][x] = "none"
      <4>1. \A x \in retire[t] \cup place[t] : x \in Objects /\ pending[t][x] = "none"
        BY DEF RequestInv, WorkInv, TypeOK
      <4> QED BY <1>1, <1>8, <2>1, <4>1
    <3> QED BY <3>1, <3>2, <3>3 DEF RequestInv, WorkInv
  <2>2. CASE s # t
    BY <1>1, <1>5, <2>2 DEF RequestInv, WorkInv, Replaces
  <2> QED BY <2>1, <2>2
<1>7. RowInv'
  <2> SUFFICES ASSUME NEW s \in Workers PROVE RowInv!(s)'
    BY DEF RowInv
  <2>1. CASE s = t
    BY <1>1, <1>2, <1>8, <2>1 DEF RequestInv, RowInv, TypeOK, rows
  <2>2. CASE s # t
    BY <1>1, <1>2, <2>2, AbsentValuesAssumption DEF RequestInv, RowInv, TypeOK, rows
  <2> QED BY <2>1, <2>2
<1> QED BY <1>3, <1>4, <1>6, <1>7 DEF RequestInv

LEMMA CommitKeeps == ASSUME RequestInv, NEW t \in Workers, Commit(t) PROVE RequestInv'
<1>1. pc[t] = "execute" /\ job[t] \in Menu
  BY BusyWorker DEF Commit
<1>2. status' \in [Objects -> {"none", "active", "removed"}]
  BY DEF Commit, StatusAfter, RequestInv, TypeOK
<1>3. generation' \in [Buildings -> Loaded]
  <2>1. \A b \in Buildings : pending[t][b] \in {"insert", "update"} => job[t].generation \in Loaded
    BY <1>1, JobTypes DEF RequestInv, WorkInv, Placing, Loaded, Objects
  <2> QED BY <2>1 DEF Commit, RequestInv, TypeOK
<1>4. \A s \in Workers \ {t}, o \in Objects : pending[s][o] # "none" => status'[o] = status[o]
  BY DEF Commit, StatusAfter, RequestInv, RowInv
<1>5. \A o \in Objects : status[o] # "none" => status'[o] # "none"
  BY DEF Commit, StatusAfter
<1> QED BY <1>2, <1>3, <1>4, <1>5, FinishKeeps DEF Commit

LEMMA RequestStepKeeps == RequestInv /\ [Next]_vars => RequestInv'
<1> SUFFICES ASSUME RequestInv, [Next]_vars PROVE RequestInv'
  OBVIOUS
<1>1. ASSUME NEW t \in Workers, NEW j \in Menu, Begin(t, j) PROVE RequestInv'
  BY <1>1, BeginKeeps
<1>2. ASSUME NEW t \in Workers, LockWorld(t) PROVE RequestInv'
  BY <1>2, LockWorldKeeps
<1>3. ASSUME NEW t \in Workers, InsertCommandLog(t) PROVE RequestInv'
  BY <1>3, InsertCommandLogKeeps
<1>4. ASSUME NEW t \in Workers, CompareGeneration(t) \/ ListRetired(t) PROVE RequestInv'
  BY <1>4, PlanKeeps
<1>5. ASSUME NEW t \in Workers, NEW o \in Objects, SelectInstance(t, o) PROVE RequestInv'
  BY <1>5, SelectKeeps
<1>6. ASSUME NEW t \in Workers, WriteInstance(t) PROVE RequestInv'
  BY <1>6, WriteKeeps
<1>7. ASSUME NEW t \in Workers, Commit(t) PROVE RequestInv'
  BY <1>7, CommitKeeps
<1>8. ASSUME NEW t \in Workers, Rollback(t) PROVE RequestInv'
  BY <1>8, RollbackKeeps
<1>9. CASE UNCHANGED vars
  BY <1>9 DEF vars, rows, locks, work, RequestInv, TypeOK, LockInv, WorkInv, RowInv,
              Executing, Replaces, Removing, Placing
<1> QED BY <1>1, <1>2, <1>3, <1>4, <1>5, <1>6, <1>7, <1>8, <1>9
        DEF Next, RefuseStale, RefuseReuse, InstanceNotFound, DuplicateInstance, Abort

\* Rows change at a commit only.
LEMMA RowsChangeAtCommit ==
    ASSUME [Next]_vars
    PROVE  (\E t \in Workers : Commit(t)) \/ UNCHANGED rows
<1>1. ASSUME NEW t \in Workers, Rollback(t) PROVE UNCHANGED rows
  BY <1>1 DEF Rollback
<1>2. ASSUME NEW t \in Workers, NEW j \in Menu, Begin(t, j) PROVE UNCHANGED rows
  BY <1>2 DEF Begin
<1>3. ASSUME NEW t \in Workers, NEW o \in Objects, SelectInstance(t, o) PROVE UNCHANGED rows
  BY <1>3 DEF SelectInstance
<1>4. ASSUME NEW t \in Workers,
             LockWorld(t) \/ InsertCommandLog(t) \/ CompareGeneration(t) \/ ListRetired(t)
                \/ WriteInstance(t)
      PROVE  UNCHANGED rows
  BY <1>4 DEF LockWorld, InsertCommandLog, CompareGeneration, ListRetired, WriteInstance
<1>5. CASE UNCHANGED vars
  BY <1>5 DEF vars
<1> QED BY <1>1, <1>2, <1>3, <1>4, <1>5
        DEF Next, RefuseStale, RefuseReuse, InstanceNotFound, DuplicateInstance, Abort

(* Every variable keeps its type, whoever takes the lock. *)
THEOREM TypeCorrect == Spec => []TypeOK
<1>1. Init => RequestInv
  BY InitHolds DEF GenerationInv
<1>2. RequestInv => TypeOK
  BY DEF RequestInv
<1> QED BY <1>1, <1>2, RequestStepKeeps, PTL DEF Spec

(* What was removed never comes back, whoever takes the lock: a row that is
   being inserted had no predecessor, and an update does not revive one. *)
THEOREM RemovedStaysRemoved == Spec => RemovedForGood
<1>1. RequestInv /\ [Next]_vars =>
        [\A o \in Objects : status[o] = "removed" => status'[o] = "removed"]_vars
  <2> SUFFICES ASSUME RequestInv, [Next]_vars, NEW o \in Objects, status[o] = "removed"
               PROVE  status'[o] = "removed"
    OBVIOUS
  <2>1. ASSUME NEW t \in Workers, Commit(t) PROVE status'[o] = "removed"
    <3>1. pending[t][o] # "insert"
      BY DEF RequestInv, RowInv
    <3> QED BY <2>1, <3>1 DEF Commit, StatusAfter
  <2>2. CASE UNCHANGED rows
    BY <2>2 DEF rows
  <2> QED BY <2>1, <2>2, RowsChangeAtCommit
<1>2. Init => RequestInv
  BY InitHolds DEF GenerationInv
<1> QED BY <1>1, <1>2, RequestStepKeeps, PTL DEF Spec, RemovedForGood

\* Whoever replaces a building is alone from the log insert to the commit.
LEMMA ReplacesAlone ==
    ASSUME RequestInv, SafeLocking,
           NEW t \in Workers, Executing(t), Replaces(t), NEW s \in Workers, Executing(s)
    PROVE  s = t
<1>1. job[t] \in Menu /\ job[t].serialized
  BY BusyWorker DEF SafeLocking, Replaces, Executing
<1>2. worldLock = t
  BY <1>1, BusyWorker DEF RequestInv, LockInv, Executing
<1> QED BY <1>2, AbsentValuesAssumption DEF RequestInv, LockInv

\* A worker that keeps its command and its place in it, while no row changes,
\* keeps what it compared and listed.
LEMMA ComparedKept ==
    ASSUME GenerationInv, NEW t \in Workers, UNCHANGED rows,
           pc'[t] \in {"list", "execute", "write"}, Replaces(t)', job'[t] = job[t],
           pc'[t] = "list" => pc[t] = "list",
           pc'[t] # "list" => /\ pc[t] \in {"execute", "write"}
                              /\ Removing(t)' = Removing(t) /\ Placing(t)' = Placing(t)
                              /\ \A o \in Updating(t)' : o \in Updating(t) \/ status[o] = "active"
    PROVE  /\ Current(job[t])'
           /\ pc'[t] # "list" =>
                 /\ Removing(t)' = Retired(job[t])' /\ Placing(t)' = Placed(job[t])'
                 /\ (Retired(job[t]) \cap Placed(job[t]) = {})'
                 /\ \A o \in Updating(t)' : status'[o] = "active"
<1>1. Replaces(t)
  BY DEF Replaces
<1>2. Current(job[t])
  BY <1>1 DEF GenerationInv, ComparedInv
<1> QED BY <1>1, <1>2 DEF GenerationInv, ComparedInv, Current, Retired, Placed, ActiveChildren, rows

\* Nobody's step touches what another worker compared and listed.
LEMMA OthersKept ==
    ASSUME GenerationInv, SafeLocking, NEW t \in Workers, NEW s \in Workers, s # t,
           pc'[s] = pc[s], job'[s] = job[s], retire'[s] = retire[s], place'[s] = place[s],
           row'[s] = row[s], pending'[s] = pending[s],
           UNCHANGED rows \/ Executing(t)
    PROVE  ComparedInv!(s)'
<1> SUFFICES ASSUME pc'[s] \in {"list", "execute", "write"}, Replaces(s)' PROVE ComparedInv!(s)'
  OBVIOUS
<1>1. Replaces(s) /\ Executing(s)
  BY DEF Replaces, Executing
<1>2. UNCHANGED rows
  BY <1>1, ReplacesAlone DEF GenerationInv
<1>3. Removing(s)' = Removing(s) /\ Placing(s)' = Placing(s) /\ Updating(s)' = Updating(s)
  BY DEF Removing, Placing, Updating
<1> QED BY <1>2, <1>3, ComparedKept

LEMMA FinishCompared ==
    ASSUME GenerationInv, SafeLocking, NEW t \in Workers, Finish(t), UNCHANGED rows \/ Executing(t)
    PROVE  ComparedInv'
<1> SUFFICES ASSUME NEW s \in Workers PROVE ComparedInv!(s)'
  BY DEF ComparedInv
<1>1. CASE s = t
  BY <1>1 DEF Finish, GenerationInv, RequestInv, TypeOK
<1>2. CASE s # t
  BY <1>2, OthersKept DEF Finish, GenerationInv, RequestInv, TypeOK
<1> QED BY <1>1, <1>2

LEMMA EarlyStepsCompared ==
    ASSUME GenerationInv, SafeLocking, NEW t \in Workers,
           LockWorld(t) \/ InsertCommandLog(t) \/ \E j \in Menu : Begin(t, j)
    PROVE  ComparedInv'
<1> SUFFICES ASSUME NEW s \in Workers PROVE ComparedInv!(s)'
  BY DEF ComparedInv
<1>1. UNCHANGED rows
  BY DEF LockWorld, InsertCommandLog, Begin
<1>2. CASE s = t
  BY <1>2 DEF LockWorld, InsertCommandLog, Begin, Step, Replaces, GenerationInv, RequestInv, TypeOK
<1>3. CASE s # t
  <2>1. /\ pc'[s] = pc[s] /\ job'[s] = job[s] /\ retire'[s] = retire[s] /\ place'[s] = place[s]
        /\ row'[s] = row[s] /\ pending'[s] = pending[s]
    BY <1>3 DEF LockWorld, InsertCommandLog, Begin, Step, GenerationInv, RequestInv, TypeOK, work
  <2> QED BY <1>1, <1>3, <2>1, OthersKept
<1> QED BY <1>2, <1>3

LEMMA PlanCompared ==
    ASSUME GenerationInv, SafeLocking, NEW t \in Workers, CompareGeneration(t) \/ ListRetired(t)
    PROVE  ComparedInv'
<1> SUFFICES ASSUME NEW s \in Workers PROVE ComparedInv!(s)'
  BY DEF ComparedInv
<1>1. UNCHANGED rows /\ UNCHANGED job /\ pc[t] \in {"compare", "list"}
  BY DEF CompareGeneration, ListRetired, Step
<1>2. CASE s = t /\ CompareGeneration(t)
  BY <1>1, <1>2 DEF CompareGeneration, Step, Current, GenerationInv, RequestInv, TypeOK, rows
<1>3. CASE s = t /\ ListRetired(t)
  <2>1. /\ pc'[s] = "execute" /\ retire'[s] = Retired(job[s]) /\ place'[s] = Placed(job[s])
        /\ Retired(job[s]) \cap Placed(job[s]) = {}
        /\ pending'[s] = NoWrites
    BY <1>1, <1>3 DEF ListRetired, Step, GenerationInv, RequestInv, TypeOK, WorkInv
  <2>2. Removing(s)' = Retired(job[s]) /\ Placing(s)' = Placed(job[s]) /\ Updating(s)' = {}
    BY <2>1 DEF Removing, Placing, Updating, NoWrites
  <2>3. Current(job[s])
    BY <1>3 DEF ListRetired, Step, GenerationInv, ComparedInv, RequestInv, WorkInv
  <2>4. /\ Retired(job[s])' = Retired(job[s]) /\ Placed(job[s])' = Placed(job[s])
        /\ Current(job[s])' <=> Current(job[s])
    BY <1>1 DEF Retired, Placed, Current, ActiveChildren, rows
  <2> QED BY <2>1, <2>2, <2>3, <2>4
<1>4. CASE s # t
  <2>1. /\ pc'[s] = pc[s] /\ job'[s] = job[s] /\ retire'[s] = retire[s] /\ place'[s] = place[s]
        /\ row'[s] = row[s] /\ pending'[s] = pending[s]
    BY <1>4 DEF CompareGeneration, ListRetired, Step, GenerationInv, RequestInv, TypeOK, work
  <2> QED BY <1>1, <1>4, <2>1, OthersKept
<1> QED BY <1>2, <1>3, <1>4

LEMMA ExecutionCompared ==
    ASSUME GenerationInv, SafeLocking, NEW t \in Workers,
           WriteInstance(t) \/ \E o \in Objects : SelectInstance(t, o)
    PROVE  ComparedInv'
<1> SUFFICES ASSUME NEW s \in Workers PROVE ComparedInv!(s)'
  BY DEF ComparedInv
<1>1. /\ UNCHANGED rows /\ UNCHANGED job
      /\ pc[t] \in {"execute", "write"} /\ pc'[t] \in {"execute", "write"}
  BY DEF WriteInstance, SelectInstance, Step, GenerationInv, RequestInv, TypeOK
<1>2. Removing(t)' = Removing(t) /\ Placing(t)' = Placing(t)
  <2>1. CASE WriteInstance(t)
    BY <2>1, WriteKeepsPlan DEF GenerationInv
  <2>2. CASE \E o \in Objects : SelectInstance(t, o)
    BY <2>2 DEF SelectInstance, Removing, Placing
  <2> QED BY <2>1, <2>2
<1>5. \A o \in Updating(t)' : o \in Updating(t) \/ status[o] = "active"
  <2>1. CASE WriteInstance(t)
    <3>1. /\ pc[t] = "write" /\ pc'[t] = "execute" /\ row[t].object \in Objects
          /\ \A o \in Objects : pending'[t][o] =
                IF o = row[t].object THEN row[t].write ELSE pending[t][o]
      BY <2>1, RowRead DEF WriteInstance, Step, GenerationInv, RequestInv, TypeOK
    <3> QED BY <3>1 DEF Updating
  <2>2. ASSUME NEW x \in Objects, SelectInstance(t, x)
        PROVE  \A o \in Updating(t)' : o \in Updating(t) \/ status[o] = "active"
    <3>1. /\ row'[t] = [object |-> x, write |-> WriteOf(t, x)] /\ UNCHANGED pending
          /\ WriteOf(t, x) = "update" => status[x] = "active"
      BY <2>2 DEF SelectInstance, WriteOf, GenerationInv, RequestInv, TypeOK
    <3> QED BY <3>1 DEF Updating
  <2> QED BY <2>1, <2>2
<1>3. CASE s = t
  BY <1>1, <1>2, <1>3, <1>5, ComparedKept
<1>4. CASE s # t
  <2>1. /\ pc'[s] = pc[s] /\ job'[s] = job[s] /\ retire'[s] = retire[s] /\ place'[s] = place[s]
        /\ row'[s] = row[s] /\ pending'[s] = pending[s]
    BY <1>4 DEF WriteInstance, SelectInstance, Step, GenerationInv, RequestInv, TypeOK
  <2> QED BY <1>1, <1>4, <2>1, OthersKept
<1> QED BY <1>3, <1>4

LEMMA StepKeeps == ASSUME SafeLocking PROVE GenerationInv /\ [Next]_vars => GenerationInv'
<1> SUFFICES ASSUME GenerationInv, [Next]_vars PROVE ComparedInv'
  BY RequestStepKeeps DEF GenerationInv
<1>1. ASSUME NEW t \in Workers, LockWorld(t) \/ InsertCommandLog(t) \/ \E j \in Menu : Begin(t, j)
      PROVE  ComparedInv'
  BY <1>1, EarlyStepsCompared
<1>2. ASSUME NEW t \in Workers, CompareGeneration(t) \/ ListRetired(t) PROVE ComparedInv'
  BY <1>2, PlanCompared
<1>3. ASSUME NEW t \in Workers, WriteInstance(t) \/ \E o \in Objects : SelectInstance(t, o)
      PROVE  ComparedInv'
  BY <1>3, ExecutionCompared
<1>4. ASSUME NEW t \in Workers, Commit(t) PROVE ComparedInv'
  BY <1>4, FinishCompared DEF Commit, Executing
<1>5. ASSUME NEW t \in Workers, Rollback(t) PROVE ComparedInv'
  BY <1>5, FinishCompared DEF Rollback
<1>6. CASE UNCHANGED vars
  BY <1>6 DEF vars, rows, work, GenerationInv, ComparedInv, Current, Retired, Placed,
              ActiveChildren, Removing, Placing, Updating, Replaces
<1> QED BY <1>1, <1>2, <1>3, <1>4, <1>5, <1>6
        DEF Next, RefuseStale, RefuseReuse, InstanceNotFound, DuplicateInstance, Abort

(* The inductive invariant: what was compared and listed is still so, if
   whoever replaces or deletes a building takes the world lock. *)
THEOREM GenerationInvariant == ASSUME SafeLocking PROVE Spec => []GenerationInv
<1> QED BY InitHolds, StepKeeps, PTL DEF Spec

\* What a commit finds: the rows its pending writes start from.
LEMMA CommitFacts ==
    ASSUME GenerationInv, NEW t \in Workers, Commit(t)
    PROVE  /\ job[t] \in Menu /\ status' \in [Objects -> {"none", "active", "removed"}]
           /\ Removing(t) = {o \in Objects : pending[t][o] = "remove"}
           /\ Placing(t) = {o \in Objects : pending[t][o] \in {"insert", "update"}}
           /\ \A o \in Objects : status'[o] =
                 IF o \in Removing(t) THEN "removed"
                 ELSE IF o \in Placing(t) /\ status[o] = "none" THEN "active" ELSE status[o]
           /\ \A o \in Removing(t) : status[o] # "none"
<1>1. job[t] \in Menu
  BY BusyWorker DEF Commit, GenerationInv
<1>2. /\ Removing(t) = {o \in Objects : pending[t][o] = "remove"}
      /\ Placing(t) = {o \in Objects : pending[t][o] \in {"insert", "update"}}
  BY DEF Commit, Removing, Placing
<1>3. \A o \in Objects : pending[t][o] # "none" => (pending[t][o] = "insert" <=> status[o] = "none")
  BY DEF GenerationInv, RequestInv, RowInv
<1>4. \A o \in Objects : status'[o] = StatusAfter(status[o], pending[t][o])
  BY DEF Commit
<1>5. \A o \in Objects : pending[t][o] \in {"none", "insert", "update", "remove"}
  BY DEF GenerationInv, RequestInv, TypeOK, Writes
<1>6. status' \in [Objects -> {"none", "active", "removed"}]
  BY CommitKeeps DEF GenerationInv, RequestInv, TypeOK
<1> QED BY <1>1, <1>2, <1>3, <1>4, <1>5, <1>6 DEF StatusAfter

\* A commit that replaces or deletes a building, with what it compared.
LEMMA ReplacementFacts ==
    ASSUME GenerationInv, NEW t \in Workers, Commit(t), job[t].kind \in {"save", "delete"}
    PROVE  /\ Current(job[t]) /\ Removing(t) = Retired(job[t]) /\ Placing(t) = Placed(job[t])
           /\ Retired(job[t]) \cap Placed(job[t]) = {}
           /\ job[t].building \in Buildings
           /\ \A o \in Placing(t) : status[o] \in {"none", "active"}
<1>1. job[t] \in Menu /\ job[t] # NoJob /\ pc[t] = "execute" /\ Replaces(t)
  BY BusyWorker DEF Commit, GenerationInv, Replaces
<1>2. /\ Current(job[t]) /\ Removing(t) = Retired(job[t]) /\ Placing(t) = Placed(job[t])
      /\ Retired(job[t]) \cap Placed(job[t]) = {}
      /\ \A o \in Updating(t) : status[o] = "active"
  BY <1>1 DEF GenerationInv, ComparedInv
<1>3. \A o \in Placing(t) : status[o] \in {"none", "active"}
  <2> SUFFICES ASSUME NEW o \in Placing(t) PROVE status[o] \in {"none", "active"}
    OBVIOUS
  <2>1. o \in Objects /\ pending[t][o] \in {"insert", "update"}
    BY CommitFacts
  <2>2. CASE pending[t][o] = "insert"
    BY <2>1, <2>2 DEF GenerationInv, RequestInv, RowInv
  <2>3. CASE pending[t][o] = "update"
    BY <1>2, <2>1, <2>3 DEF Updating
  <2> QED BY <2>1, <2>2, <2>3
<1> QED BY <1>1, <1>2, <1>3, JobTypes

(* No old child waits for another call: a saved building has exactly the
   children of its new generation. *)
THEOREM SavesAreComplete == ASSUME SafeLocking PROVE Spec => NoOldRoofWaits
<1>1. GenerationInv /\ [Next]_vars =>
        [\A t \in Workers : Commit(t) /\ job[t].kind = "save" =>
            {c \in Children : AreaOf[c] = job[t].building /\ status'[c] = "active"}
                = job[t].children]_vars
  <2> SUFFICES ASSUME GenerationInv, NEW t \in Workers, Commit(t), job[t].kind = "save"
      PROVE  {c \in Children : AreaOf[c] = job[t].building /\ status'[c] = "active"}
                = job[t].children
    OBVIOUS
  <2> DEFINE b == job[t].building
  <2>1. /\ Removing(t) = ActiveChildren(b) /\ Placing(t) = job[t].children \cup {b}
        /\ Removing(t) \cap Placing(t) = {}
    BY ReplacementFacts DEF Retired, Placed
  <2>2. /\ job[t].children \subseteq Children /\ b \in Buildings
        /\ \A c \in job[t].children : AreaOf[c] = b
    BY CommitFacts, JobTypes
  <2>3. ASSUME NEW c \in Children, AreaOf[c] = b
        PROVE  status'[c] = "active" <=> c \in job[t].children
    <3>1. c \in Objects /\ c # b /\ status[c] \in {"none", "active", "removed"}
      BY <2>2, ObjectsAssumption DEF Objects, GenerationInv, RequestInv, TypeOK
    <3>2. CASE c \in job[t].children
      <4>1. c \in Placing(t) /\ c \notin ActiveChildren(b)
        BY <2>1, <3>2
      <4>2. status[c] = "none"
        BY <2>3, <4>1, ReplacementFacts DEF ActiveChildren
      <4> QED BY <2>1, <3>1, <3>2, <4>1, <4>2, CommitFacts
    <3>3. CASE c \notin job[t].children
      BY <2>1, <2>3, <3>1, <3>3, CommitFacts DEF ActiveChildren
    <3> QED BY <3>2, <3>3
  <2> QED BY <2>2, <2>3
<1> QED BY <1>1, GenerationInvariant, PTL DEF Spec, NoOldRoofWaits

(* A save or a deletion commits over the generation its client loaded. *)
THEOREM FirstSaverIsKept == ASSUME SafeLocking PROVE Spec => FirstSaverWins
<1>1. GenerationInv /\ [Next]_vars =>
        [\A t \in Workers : Commit(t) /\ job[t].kind \in {"save", "delete"} =>
            /\ status[job[t].building] # "removed"
            /\ ActiveGeneration[job[t].building] = job[t].previous]_vars
  <2> SUFFICES ASSUME GenerationInv, NEW t \in Workers, Commit(t), job[t].kind \in {"save", "delete"}
      PROVE  /\ status[job[t].building] # "removed"
             /\ ActiveGeneration[job[t].building] = job[t].previous
    OBVIOUS
  <2> QED BY ReplacementFacts DEF Current, ActiveGeneration
<1> QED BY <1>1, GenerationInvariant, PTL DEF Spec, FirstSaverWins

\* What a commit makes of the generations that clients are shown.
LEMMA GenerationsAfter ==
    ASSUME GenerationInv, NEW t \in Workers, Commit(t), NEW b \in Buildings
    PROVE  ActiveGeneration'[b] =
              IF b \in Removing(t) THEN NoGeneration
              ELSE IF b \in Placing(t) /\ status[b] # "removed" THEN job[t].generation
              ELSE ActiveGeneration[b]
<1>1. b \in Objects /\ status[b] \in {"none", "active", "removed"}
  BY DEF Objects, GenerationInv, RequestInv, TypeOK
<1>2. generation'[b] = IF b \in Placing(t) THEN job[t].generation ELSE generation[b]
  BY <1>1, CommitFacts DEF Commit
<1>3. ActiveGeneration'[b] = IF status'[b] = "active" THEN generation'[b] ELSE NoGeneration
  BY DEF ActiveGeneration
<1> QED BY <1>1, <1>2, <1>3, CommitFacts DEF ActiveGeneration

LEMMA SaveIsAtomic ==
    ASSUME GenerationInv, NEW t \in Workers, Commit(t), job[t].kind = "save"
    PROVE  Atomic!Save(job[t].building, job[t].generation, job[t].children)
<1> DEFINE b == job[t].building  S == job[t].children
<1>1. /\ Removing(t) = ActiveChildren(b) /\ Placing(t) = S \cup {b} /\ b \in Buildings
      /\ \A o \in S \cup {b} : status[o] \in {"none", "active"}
      /\ ActiveChildren(b) \cap (S \cup {b}) = {}
  BY ReplacementFacts DEF Retired, Placed
<1>2. S \subseteq Children /\ \A c \in S : AreaOf[c] = b
  BY CommitFacts, JobTypes
<1>3. \A c \in S : status[c] = "none"
  BY <1>1, <1>2 DEF ActiveChildren
<1>4. status' = [o \in Objects |->
          IF o \in S \cup {b} THEN "active"
          ELSE IF o \in ActiveChildren(b) THEN "removed" ELSE status[o]]
  <2>1. \A o \in Objects : status'[o] =
          IF o \in S \cup {b} THEN "active"
          ELSE IF o \in ActiveChildren(b) THEN "removed" ELSE status[o]
    BY <1>1, CommitFacts
  <2>2. status' \in [Objects -> {"none", "active", "removed"}]
    BY CommitFacts
  <2> QED BY <2>1, <2>2
<1>5. ActiveGeneration' = [ActiveGeneration EXCEPT ![b] = job[t].generation]
  <2>1. ASSUME NEW x \in Buildings
        PROVE  ActiveGeneration'[x] = IF x = b THEN job[t].generation ELSE ActiveGeneration[x]
    BY <1>1, <1>2, GenerationsAfter, ObjectsAssumption DEF ActiveChildren
  <2> QED BY <1>1, <2>1 DEF ActiveGeneration
<1>6. status[b] # "removed"
  BY <1>1
<1> QED BY <1>2, <1>3, <1>4, <1>5, <1>6
        DEF Atomic!Save, Atomic!Objects, Atomic!ActiveChildren, Objects, ActiveChildren

LEMMA DeleteIsAtomic ==
    ASSUME GenerationInv, NEW t \in Workers, Commit(t), job[t].kind = "delete"
    PROVE  Atomic!Delete(job[t].building)
<1> DEFINE b == job[t].building
<1>1. /\ Removing(t) = ActiveChildren(b) \cup {b} /\ Placing(t) = {} /\ b \in Buildings
      /\ status[b] = "active"
  BY ReplacementFacts DEF Retired, Placed, Current
<1>2. status' = [o \in Objects |-> IF o \in ActiveChildren(b) \cup {b} THEN "removed" ELSE status[o]]
  <2>1. status' \in [Objects -> {"none", "active", "removed"}]
    BY CommitFacts
  <2> QED BY <1>1, <2>1, CommitFacts
<1>3. ActiveGeneration' = [ActiveGeneration EXCEPT ![b] = NoGeneration]
  <2>1. ASSUME NEW x \in Buildings
        PROVE  ActiveGeneration'[x] = IF x = b THEN NoGeneration ELSE ActiveGeneration[x]
    BY <1>1, GenerationsAfter, ObjectsAssumption DEF ActiveChildren
  <2> QED BY <1>1, <2>1 DEF ActiveGeneration
<1> QED BY <1>1, <1>2, <1>3
        DEF Atomic!Delete, Atomic!Objects, Atomic!ActiveChildren, Objects, ActiveChildren

LEMMA SingleCommandIsAtomic ==
    ASSUME GenerationInv, NEW t \in Workers, Commit(t), job[t].kind \in {"put", "drop"}
    PROVE  \/ Atomic!Drop(job[t].object)
           \/ job[t].generation \in Generations /\ Atomic!Put(job[t].object, job[t].generation)
           \/ UNCHANGED <<status, ActiveGeneration>>
<1> DEFINE o == job[t].object
<1>1. o \in Objects /\ (job[t].kind = "put" => job[t].generation \in Generations)
  BY CommitFacts, JobTypes
<1>2. status' \in [Objects -> {"none", "active", "removed"}]
      /\ status \in [Objects -> {"none", "active", "removed"}]
  BY CommitFacts DEF GenerationInv, RequestInv, TypeOK
<1>3. /\ job[t].kind = "put" => Removing(t) = {} /\ Placing(t) = {o}
      /\ job[t].kind = "drop" => Removing(t) = {o} /\ Placing(t) = {}
  BY DEF Commit, GenerationInv, RequestInv, WorkInv
<1>4. CASE status[o] = "removed"
  <2>1. status' = status
    BY <1>2, <1>3, <1>4, CommitFacts
  <2>2. \A b \in Buildings : ActiveGeneration'[b] = ActiveGeneration[b]
    BY <1>3, <1>4, GenerationsAfter DEF ActiveGeneration
  <2>3. ActiveGeneration' = ActiveGeneration
    BY <2>2 DEF ActiveGeneration
  <2> QED BY <2>1, <2>3
<1>5. CASE status[o] # "removed" /\ job[t].kind = "put"
  <2>1. status' = [status EXCEPT ![o] = "active"]
    BY <1>1, <1>2, <1>3, <1>5, CommitFacts
  <2>2. \A b \in Buildings : ActiveGeneration'[b] =
           IF b = o THEN job[t].generation ELSE ActiveGeneration[b]
    BY <1>3, <1>5, GenerationsAfter
  <2>3. ActiveGeneration' = [b \in Buildings |->
           IF b = o THEN job[t].generation ELSE ActiveGeneration[b]]
    BY <2>2 DEF ActiveGeneration
  <2> QED BY <1>1, <1>5, <2>1, <2>3 DEF Atomic!Put
<1>6. CASE status[o] # "removed" /\ job[t].kind = "drop"
  <2>1. status[o] = "active" /\ status' = [status EXCEPT ![o] = "removed"]
    BY <1>1, <1>2, <1>3, <1>6, CommitFacts
  <2>2. \A b \in Buildings : ActiveGeneration'[b] =
           IF b = o THEN NoGeneration ELSE ActiveGeneration[b]
    BY <1>3, GenerationsAfter, <1>6
  <2>3. ActiveGeneration' = [b \in Buildings |->
           IF b = o THEN NoGeneration ELSE ActiveGeneration[b]]
    BY <2>2 DEF ActiveGeneration
  <2> QED BY <2>1, <2>3 DEF Atomic!Drop
<1> QED BY <1>4, <1>5, <1>6

(* Every save, deletion and single command takes effect as a whole. *)
THEOREM CommandsAreAtomic == ASSUME SafeLocking PROVE Spec => ImplementsBuildingGenerations
<1>1. Init => Atomic!Init
  BY DEF Init, Atomic!Init, Atomic!Objects, Objects, ActiveGeneration
<1>2. GenerationInv /\ [Next]_vars => [Atomic!Next]_(Atomic!vars)
  <2> SUFFICES ASSUME GenerationInv, [Next]_vars, ~UNCHANGED Atomic!vars PROVE Atomic!Next
    OBVIOUS
  <2>1. ~UNCHANGED rows
    BY DEF rows, Atomic!vars, ActiveGeneration
  <2>2. PICK t \in Workers : Commit(t)
    BY <2>1, RowsChangeAtCommit
  <2>3. job[t] \in Menu
    BY <2>2, CommitFacts
  <2>4. CASE job[t].kind = "save"
    BY <2>2, <2>3, <2>4, SaveIsAtomic, JobTypes DEF Atomic!Next
  <2>5. CASE job[t].kind = "delete"
    BY <2>2, <2>3, <2>5, DeleteIsAtomic, JobTypes DEF Atomic!Next
  <2>6. CASE job[t].kind \in {"put", "drop"}
    BY <2>2, <2>3, <2>6, SingleCommandIsAtomic, JobTypes
       DEF Atomic!Next, Atomic!Objects, Objects, Atomic!vars
  <2> QED BY <2>3, <2>4, <2>5, <2>6, JobTypes
<1> QED BY <1>1, <1>2, GenerationInvariant, PTL
        DEF Spec, ImplementsBuildingGenerations, Atomic!Spec
=============================================================================

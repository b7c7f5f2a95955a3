-------------------------- MODULE PlanningGeneration --------------------------
(***************************************************************************)
(* The compare-and-swap of a planned building: ObjectBatch commands with    *)
(* planningBuildingEdit (src/planning_generation.py) or                    *)
(* planningBuildingRemoval (src/planning_removal.py), beside PlaceObject    *)
(* and RemoveObject commands on single objects of the building.            *)
(*                                                                         *)
(* The server compares the generation the editor loaded with the stored    *)
(* parent, lists the children to retire, and then executes one child       *)
(* command after another in the same transaction.  Nothing checks again    *)
(* what was compared and listed: only the locks of WorldCommandRoute, the  *)
(* world row FOR UPDATE and the FOR KEY SHARE of the log insert, keep it    *)
(* true until the commit.                                                  *)
(*                                                                         *)
(* Chunks, geometry, receipts and the first conversion of a LoD2 building   *)
(* are left out; an identity belongs to one building for ever.             *)
(***************************************************************************)
EXTENDS FiniteSets

CONSTANTS
    Workers,     \* server threads, each handles one request after another
    Buildings,   \* the parents' object ids
    Children,    \* the children's object ids
    AreaOf,      \* metadata.generatedFromAreaId of a child
    Generations,
    Menu,        \* the commands clients may send: bounds the model
    NoGeneration, NoJob, NoWorker, NoRow

Objects == Buildings \cup Children
Loaded == Generations \cup {NoGeneration}

\* serialized: the command has a commandId, or the world LoD2 buildings.
Saves == [kind: {"save"}, serialized: BOOLEAN, building: Buildings, previous: Loaded,
          generation: Generations, children: SUBSET Children]
Deletes == [kind: {"delete"}, serialized: BOOLEAN, building: Buildings, previous: Loaded]
Puts == [kind: {"put"}, serialized: BOOLEAN, object: Objects, generation: Generations]
Drops == [kind: {"drop"}, serialized: BOOLEAN, object: Objects]
Jobs == Saves \cup Deletes \cup Puts \cup Drops

Writes == {"insert", "update", "remove"}

ASSUME ObjectsAssumption ==
    Buildings \cap Children = {} /\ AreaOf \in [Children -> Buildings]

\* "Every generated child must belong to the declared building."
ASSUME MenuAssumption ==
    /\ Menu \subseteq Jobs
    /\ \A j \in Menu \cap Saves : \A c \in j.children : AreaOf[c] = j.building

ASSUME AbsentValuesAssumption ==
    NoGeneration \notin Generations /\ NoJob \notin Jobs /\ NoWorker \notin Workers
        /\ NoRow \notin [object: Objects, write: Writes]

VARIABLES
    status,      \* world_object_instances, committed: none, active or removed
    generation,  \* metadata.generationId of a parent's row
    worldLock,   \* who holds the world row FOR UPDATE
    keyShare,    \* who holds it FOR KEY SHARE
    rowOwner,    \* whose uncommitted insert or update owns an instance's row
    pc, job,
    retire, place,   \* the RemoveObject and PlaceObject children still to execute
    row,         \* the instance of the current child command, and what becomes of it
    pending      \* the transaction's writes

rows  == <<status, generation>>
locks == <<worldLock, keyShare, rowOwner>>
work  == <<retire, place, row, pending>>
vars  == <<rows, locks, pc, job, work>>

-----------------------------------------------------------------------------

NoWrites == [o \in Objects |-> "none"]

ActiveChildren(b) == {c \in Children : AreaOf[c] = b /\ status[c] = "active"}

\* Mutant: any stored parent will do.
CurrentUnlessRemoved(j) == status[j.building] # "removed"

\* The stored parent has the generation that the client loaded.  Only a save may
\* find no parent.
Current(j) ==
    \/ status[j.building] = "none" /\ j.kind = "save" /\ j.previous = NoGeneration
    \/ status[j.building] = "active" /\ generation[j.building] = j.previous

\* Mutant: a new generation leaves the old children to the client.
RetiredByDeleteOnly(j) == IF j.kind = "save" THEN {} ELSE ActiveChildren(j.building) \cup {j.building}

\* The objects that a save or a deletion removes.
Retired(j) ==
    ActiveChildren(j.building) \cup IF j.kind = "delete" THEN {j.building} ELSE {}

\* The objects that a save places.
Placed(j) == IF j.kind = "save" THEN j.children \cup {j.building} ELSE {}

\* Mutant: the log's foreign key is not checked.
LogInsertNeverWaits(t) == TRUE

\* The foreign key check of the log insert waits for another's FOR UPDATE.
LogInsertPasses(t) == worldLock \in {NoWorker, t}

RowFree(t, o) == rowOwner[o] \in {NoWorker, t}

\* Mutant: placing a removed object restores it.
InsertableUnlessActive(o) == status[o] # "active"

\* uq_world_object_instances_world_object_instance_id: removed rows count too.
Insertable(o) == status[o] = "none"

\* An update sets the attributes it changes, and the status is not one of them.
StatusAfter(s, write) ==
    CASE write = "insert" -> "active" [] write = "remove" -> "removed" [] OTHER -> s

Step(t, from, to) == pc[t] = from /\ pc' = [pc EXCEPT ![t] = to]

\* The end of a request releases its locks; the thread takes another one.
Finish(t) ==
    /\ pc' = [pc EXCEPT ![t] = "idle"]
    /\ job' = [job EXCEPT ![t] = NoJob]
    /\ worldLock' = IF worldLock = t THEN NoWorker ELSE worldLock
    /\ keyShare' = keyShare \ {t}
    /\ rowOwner' = [o \in Objects |-> IF rowOwner[o] = t THEN NoWorker ELSE rowOwner[o]]
    /\ retire' = [retire EXCEPT ![t] = {}]
    /\ place' = [place EXCEPT ![t] = {}]
    /\ row' = [row EXCEPT ![t] = NoRow]
    /\ pending' = [pending EXCEPT ![t] = NoWrites]

Rollback(t) == Finish(t) /\ UNCHANGED rows

-----------------------------------------------------------------------------

Init ==
    /\ status = [o \in Objects |-> "none"]
    /\ generation = [b \in Buildings |-> NoGeneration]
    /\ worldLock = NoWorker
    /\ keyShare = {}
    /\ rowOwner = [o \in Objects |-> NoWorker]
    /\ pc = [t \in Workers |-> "idle"]
    /\ job = [t \in Workers |-> NoJob]
    /\ retire = [t \in Workers |-> {}]
    /\ place = [t \in Workers |-> {}]
    /\ row = [t \in Workers |-> NoRow]
    /\ pending = [t \in Workers |-> NoWrites]

Begin(t, j) ==
    /\ Step(t, "idle", IF j.serialized THEN "lock" ELSE "log")
    /\ job' = [job EXCEPT ![t] = j]
    /\ UNCHANGED <<rows, locks, work>>

LockWorld(t) ==
    /\ Step(t, "lock", "log")
    /\ worldLock = NoWorker /\ keyShare = {}
    /\ worldLock' = t
    /\ UNCHANGED <<rows, keyShare, rowOwner, job, work>>

\* A command on a single object is its own and only child.
InsertCommandLog(t) ==
    LET kind == job[t].kind IN
    /\ Step(t, "log", IF kind \in {"save", "delete"} THEN "compare" ELSE "execute")
    /\ LogInsertPasses(t)
    /\ keyShare' = keyShare \cup {t}
    /\ retire' = [retire EXCEPT ![t] = IF kind = "drop" THEN {job[t].object} ELSE {}]
    /\ place' = [place EXCEPT ![t] = IF kind = "put" THEN {job[t].object} ELSE {}]
    /\ UNCHANGED <<rows, worldLock, rowOwner, job, row, pending>>

\* The parent is read and its generation compared.
CompareGeneration(t) ==
    /\ Step(t, "compare", "list")
    /\ Current(job[t])
    /\ UNCHANGED <<rows, locks, job, work>>

\* "Das Gebaeude wurde inzwischen geaendert", or no longer exists.
RefuseStale(t) ==
    /\ pc[t] = "compare"
    /\ ~Current(job[t])
    /\ Rollback(t)

\* The children are listed; a replacement must use new identities.
ListRetired(t) ==
    /\ Step(t, "list", "execute")
    /\ Retired(job[t]) \cap Placed(job[t]) = {}
    /\ retire' = [retire EXCEPT ![t] = Retired(job[t])]
    /\ place' = [place EXCEPT ![t] = Placed(job[t])]
    /\ UNCHANGED <<rows, locks, job, row, pending>>

RefuseReuse(t) ==
    /\ pc[t] = "list"
    /\ Retired(job[t]) \cap Placed(job[t]) # {}
    /\ Rollback(t)

\* PlaceObject updates an active instance and inserts any other.
WriteOf(t, o) ==
    IF o \in retire[t] THEN "remove" ELSE IF status[o] = "active" THEN "update" ELSE "insert"

\* The child commands in order, removals first: select the active instance.
SelectInstance(t, o) ==
    /\ Step(t, "execute", "write")
    /\ o \in IF retire[t] # {} THEN retire[t] ELSE place[t]
    /\ o \in retire[t] => status[o] = "active"
    /\ row' = [row EXCEPT ![t] = [object |-> o, write |-> WriteOf(t, o)]]
    /\ UNCHANGED <<rows, locks, job, retire, place, pending>>

\* "Object instance ... was not found."
InstanceNotFound(t, o) ==
    /\ pc[t] = "execute"
    /\ o \in retire[t]
    /\ status[o] # "active"
    /\ Rollback(t)

\* The flush of an insert, of a geometry update or of a soft deletion.  The last
\* two address the row by its primary key, whatever became of it.
WriteInstance(t) ==
    LET o == row[t].object IN
    /\ Step(t, "write", "execute")
    /\ RowFree(t, o)
    /\ row[t].write = "insert" => Insertable(o)
    /\ rowOwner' = [rowOwner EXCEPT ![o] = t]
    /\ pending' = [pending EXCEPT ![t][o] = row[t].write]
    /\ retire' = [retire EXCEPT ![t] = @ \ {o}]
    /\ place' = [place EXCEPT ![t] = @ \ {o}]
    /\ row' = [row EXCEPT ![t] = NoRow]
    /\ UNCHANGED <<rows, worldLock, keyShare, job>>

DuplicateInstance(t) ==
    LET o == row[t].object IN
    /\ pc[t] = "write"
    /\ RowFree(t, o)
    /\ row[t].write = "insert" /\ ~Insertable(o)
    /\ Rollback(t)

Commit(t) ==
    /\ pc[t] = "execute"
    /\ retire[t] = {} /\ place[t] = {}
    /\ status' = [o \in Objects |-> StatusAfter(status[o], pending[t][o])]
    /\ generation' = [b \in Buildings |->
          IF pending[t][b] \in {"insert", "update"} THEN job[t].generation ELSE generation[b]]
    /\ Finish(t)

\* Another refusal of a child, an error or a lost connection.
Abort(t) == pc[t] # "idle" /\ Rollback(t)

Next == \E t \in Workers :
    \/ \E j \in Menu : Begin(t, j)
    \/ LockWorld(t) \/ InsertCommandLog(t)
    \/ CompareGeneration(t) \/ RefuseStale(t)
    \/ ListRetired(t) \/ RefuseReuse(t)
    \/ \E o \in Objects : SelectInstance(t, o) \/ InstanceNotFound(t, o)
    \/ WriteInstance(t) \/ DuplicateInstance(t)
    \/ Commit(t) \/ Abort(t)

Spec == Init /\ [][Next]_vars

-----------------------------------------------------------------------------
(* Properties *)

TypeOK ==
    /\ status \in [Objects -> {"none", "active", "removed"}]
    /\ generation \in [Buildings -> Loaded]
    /\ worldLock \in Workers \cup {NoWorker}
    /\ keyShare \in SUBSET Workers
    /\ rowOwner \in [Objects -> Workers \cup {NoWorker}]
    /\ pc \in [Workers -> {"idle", "lock", "log", "compare", "list", "execute", "write"}]
    /\ job \in [Workers -> Menu \cup {NoJob}]
    /\ retire \in [Workers -> SUBSET Objects]
    /\ place \in [Workers -> SUBSET Objects]
    /\ row \in [Workers -> [object: Objects, write: Writes] \cup {NoRow}]
    /\ pending \in [Workers -> [Objects -> Writes \cup {"none"}]]

\* "Atomic retirement": after a save the building has the children of the new
\* generation and no other, although they were listed before the commit.
NoOldRoofWaits ==
    [][\A t \in Workers : Commit(t) /\ job[t].kind = "save" =>
          {c \in Children : AreaOf[c] = job[t].building /\ status'[c] = "active"} = job[t].children]_vars

\* A retired child or a deleted building never comes back, not even when another
\* client places it again while it is being removed.
RemovedForGood ==
    [][\A o \in Objects : status[o] = "removed" => status'[o] = "removed"]_vars

\* The generation a client is shown.
ActiveGeneration == [b \in Buildings |->
    IF status[b] = "active" THEN generation[b] ELSE NoGeneration]

\* "Optimistic concurrency": whoever replaces or deletes a building commits over
\* the generation its client loaded, although it was compared long before.
FirstSaverWins ==
    [][\A t \in Workers : Commit(t) /\ job[t].kind \in {"save", "delete"} =>
          /\ status[job[t].building] # "removed"
          /\ ActiveGeneration[job[t].building] = job[t].previous]_vars

\* Every save, deletion and single command takes effect as a whole at its commit.
Atomic == INSTANCE BuildingGenerations WITH generation <- ActiveGeneration
ImplementsBuildingGenerations == Atomic!Spec

-----------------------------------------------------------------------------
(* The inductive invariant. *)

Executing(t) == pc[t] \in {"compare", "list", "execute", "write"}
Replaces(t) == job[t] # NoJob /\ job[t].kind \in {"save", "delete"}

\* Whoever replaces or deletes a building takes the world lock.  Commands on
\* single objects may go without.
SafeLocking == \A j \in Menu : j.kind \in {"save", "delete"} => j.serialized

LockInv ==
    /\ keyShare \subseteq {worldLock} \/ worldLock = NoWorker
    /\ \A t \in Workers :
          /\ t \in keyShare <=> Executing(t)
          /\ worldLock = t <=> job[t] # NoJob /\ job[t].serialized /\ pc[t] \notin {"idle", "lock"}
          /\ job[t] = NoJob <=> pc[t] = "idle"
          /\ pc[t] = "lock" => job[t].serialized

\* The objects that t has removed or placed or still will.
Removing(t) == retire[t] \cup {o \in Objects : pending[t][o] = "remove"}
Placing(t) == place[t] \cup {o \in Objects : pending[t][o] \in {"insert", "update"}}

WorkInv ==
    \A t \in Workers :
        /\ pc[t] \in {"compare", "list"} => Replaces(t)
        /\ pc[t] \notin {"execute", "write"} =>
              retire[t] = {} /\ place[t] = {} /\ pending[t] = NoWrites
        /\ row[t] # NoRow <=> pc[t] = "write"
        /\ pc[t] = "write" =>
              row[t].object \in IF row[t].write = "remove" THEN retire[t] ELSE place[t]
        /\ retire[t] \cap place[t] = {}
        /\ \A o \in retire[t] \cup place[t] : pending[t][o] = "none"
        /\ pc[t] \in {"execute", "write"} =>
              /\ job[t].kind = "put" => Removing(t) = {} /\ Placing(t) = {job[t].object}
              /\ job[t].kind = "drop" => Removing(t) = {job[t].object} /\ Placing(t) = {}
              /\ job[t].kind = "delete" => Placing(t) = {}

\* An uncommitted row is its writer's; it is new, or was found active before.
RowInv ==
    \A t \in Workers :
        /\ \A o \in Objects : pending[t][o] # "none" =>
              /\ rowOwner[o] = t
              /\ pending[t][o] = "insert" <=> status[o] = "none"
        /\ pc[t] = "write" /\ row[t].write # "insert" => status[row[t].object] # "none"

\* What holds whoever takes the lock.
RequestInv == TypeOK /\ LockInv /\ WorkInv /\ RowInv

\* The objects that t updates because it found them active.
Updating(t) == {o \in Objects :
    \/ pending[t][o] = "update"
    \/ pc[t] = "write" /\ row[t].object = o /\ row[t].write = "update"}

\* What was compared, listed and found is still so.
ComparedInv ==
    \A t \in Workers : pc[t] \in {"list", "execute", "write"} /\ Replaces(t) =>
        /\ Current(job[t])
        /\ pc[t] # "list" =>
              /\ Removing(t) = Retired(job[t]) /\ Placing(t) = Placed(job[t])
              /\ Retired(job[t]) \cap Placed(job[t]) = {}
              /\ \A o \in Updating(t) : status[o] = "active"

GenerationInv == RequestInv /\ ComparedInv
=============================================================================

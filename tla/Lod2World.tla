------------------------------ MODULE Lod2World ------------------------------
(***************************************************************************)
(* The LoD2 import of src/geodata/lod2_import.py beside users who edit the  *)
(* same world.                                                             *)
(*                                                                         *)
(* An import fills the wall cells of buildings, places their roofs and     *)
(* enters each building in a ledger, world.metadata_json["lod2Buildings"], *)
(* so that a later import skips it.  It must not put back what a user took *)
(* away.  The same JSON value holds the tombstones that RemoveObject with  *)
(* preserveLod2Facade leaves.  Whoever changes it writes all of it, as     *)
(* read before: by the import after it has locked the world row, by a      *)
(* command when the route resolved the world.                              *)
(*                                                                         *)
(* A command that needs no lock is kept apart from an import by the        *)
(* FOR KEY SHARE of its log insert alone; see WorldCommandRoute.  What a   *)
(* command or an import does between taking these locks and its commit is  *)
(* one step.  The facade metadata repair and the roof refinement, which    *)
(* lock and reread as the import does, are left out.                       *)
(***************************************************************************)
EXTENDS FiniteSets

CONSTANTS
    Users,       \* command requests; each arrives once
    Importers,   \* runs of apply_import
    Buildings,
    Roofs, BuildingOf,   \* the building of a roof
    Cells, WallOf,       \* the building whose outer wall has the cell
    Menu,        \* the jobs an actor may come with: bounds the model
    NoActor, NoConfig

Actors == Users \cup Importers

\* enabled: commands are serialised; ledger: materializedBuildings; tombstones:
\* removedRoofObjectIds.
Configs == [enabled: BOOLEAN, ledger: SUBSET Buildings, tombstones: SUBSET Roofs]

Edits    == [kind: {"edit"}, id: BOOLEAN, cell: Cells, fill: BOOLEAN]
Removals == [kind: {"remove"}, id: BOOLEAN, roof: Roofs, preserve: BOOLEAN]
Imports  == [kind: {"import"}, buildings: SUBSET Buildings]
Jobs     == Edits \cup Removals \cup Imports

ASSUME BuildingsAssumption ==
    BuildingOf \in [Roofs -> Buildings] /\ WallOf \in [Cells -> Buildings]

ASSUME JobsAssumption ==
    /\ Users \cap Importers = {} /\ NoActor \notin Actors /\ NoConfig \notin Configs
    /\ Menu \in [Actors -> SUBSET Jobs]
    /\ \A u \in Users : Menu[u] \subseteq Edits \cup Removals
    /\ \A i \in Importers : Menu[i] \subseteq Imports

VARIABLES
    config,     \* world.metadata_json["lod2Buildings"]
    roof,       \* the instance of each roof: its row's status
    filled,     \* the wall cells that hold a block
    logged,     \* the cells in affected_cells_json of the world's command logs
    worldLock,  \* who holds the world row FOR UPDATE
    keyShare,   \* who holds it FOR KEY SHARE
    pc, job,    \* each actor's progress and task
    seen,       \* the config an actor loaded
    protected,  \* the cells an import found logged
    touched     \* history: the cells a user changed

world == <<config, roof, filled, logged>>
locks == <<worldLock, keyShare>>
vars  == <<world, locks, pc, job, seen, protected, touched>>

-----------------------------------------------------------------------------

Enabled(c) == c # NoConfig /\ c.enabled
Ledger(c) == IF c = NoConfig THEN {} ELSE c.ledger
Tombstones(c) == IF c = NoConfig THEN {} ELSE c.tombstones

\* The condition of _execute_command, on the world row the route loaded.
NeedsLock(u, c) == job[u].id \/ Enabled(c)

\* The foreign key check of a log insert waits for another's FOR UPDATE.
LogInsertPasses(u) == worldLock \in {NoActor, u}

\* FOR UPDATE waits for every other holder.
RowFree == worldLock = NoActor /\ keyShare = {}

Step(a, from, to) == pc[a] = from /\ pc' = [pc EXCEPT ![a] = to]

\* Commit or rollback.
Finish(a) ==
    /\ pc' = [pc EXCEPT ![a] = "done"]
    /\ worldLock' = IF worldLock = a THEN NoActor ELSE worldLock
    /\ keyShare' = keyShare \ {a}
    /\ seen' = [seen EXCEPT ![a] = NoConfig]
    /\ protected' = [i \in Importers |-> IF i = a THEN {} ELSE protected[i]]
    /\ UNCHANGED job

Rollback(a) == Finish(a) /\ UNCHANGED <<world, touched>>

-----------------------------------------------------------------------------

Init ==
    /\ config \in {NoConfig, [enabled |-> TRUE, ledger |-> {}, tombstones |-> {}]}
    /\ roof = [r \in Roofs |-> "none"]
    /\ filled \in SUBSET Cells
    /\ logged = {}
    /\ worldLock = NoActor
    /\ keyShare = {}
    /\ pc = [a \in Actors |-> "idle"]
    /\ job \in {j \in [Actors -> UNION {Menu[a] : a \in Actors}] :
                   \A a \in Actors : j[a] \in Menu[a]}
    /\ seen = [a \in Actors |-> NoConfig]
    /\ protected = [i \in Importers |-> {}]
    /\ touched = {}

(* Commands. *)

\* The route resolves the world: its metadata is not read again.
Begin(u) ==
    /\ pc[u] = "idle"
    /\ seen' = [seen EXCEPT ![u] = config]
    /\ pc' = [pc EXCEPT ![u] = IF NeedsLock(u, config) THEN "lock" ELSE "log"]
    /\ UNCHANGED <<world, locks, job, protected, touched>>

LockWorld(u) ==
    /\ u \in Users
    /\ Step(u, "lock", "log")
    /\ RowFree
    /\ worldLock' = u
    /\ UNCHANGED <<world, keyShare, job, seen, protected, touched>>

InsertCommandLog(u) ==
    /\ Step(u, "log", "execute")
    /\ LogInsertPasses(u)
    /\ keyShare' = keyShare \cup {u}
    /\ UNCHANGED <<world, worldLock, job, seen, protected, touched>>

\* SetBlock or RemoveBlock of a wall cell; affected cells are those it changes.
EditCell(u) ==
    LET x == job[u].cell
        changes == job[u].fill # (x \in filled) IN
    /\ pc[u] = "execute" /\ job[u].kind = "edit"
    /\ filled' = IF job[u].fill THEN filled \cup {x} ELSE filled \ {x}
    /\ logged' = IF changes THEN logged \cup {x} ELSE logged
    /\ touched' = IF changes THEN touched \cup {x} ELSE touched
    /\ UNCHANGED <<config, roof>>
    /\ Finish(u)

\* RemoveObject of a roof.  With preserveLod2Facade the whole config is written,
\* as the loaded world had it.
RemoveRoof(u) ==
    LET r == job[u].roof
        c == seen[u] IN
    /\ pc[u] = "execute" /\ job[u].kind = "remove"
    /\ roof[r] = "active"
    /\ roof' = [roof EXCEPT ![r] = "removed"]
    /\ config' = IF ~job[u].preserve THEN config
                 ELSE [enabled |-> Enabled(c), ledger |-> Ledger(c),
                       tombstones |-> Tombstones(c) \cup {r}]
    /\ UNCHANGED <<filled, logged, touched>>
    /\ Finish(u)

\* "Object instance ... was not found."
RoofNotFound(u) ==
    /\ pc[u] = "execute" /\ job[u].kind = "remove"
    /\ roof[job[u].roof] # "active"
    /\ Rollback(u)

(* Imports. *)

\* SELECT ... FOR UPDATE, then refresh metadata_json.
LockForImport(i) ==
    /\ i \in Importers
    /\ Step(i, "idle", "inspect")
    /\ RowFree
    /\ worldLock' = i
    /\ seen' = [seen EXCEPT ![i] = config]
    /\ UNCHANGED <<world, keyShare, job, protected, touched>>

\* The buildings of the plan that no ledger entry covers.
New(i) == job[i].buildings \ Ledger(seen[i])

\* Mutant: only cells that hold a block are protected.
ProtectFilled == filled

\* Every cell that a command of the world ever changed is protected.
Protect == logged

Inspect(i) ==
    /\ Step(i, "inspect", "import")
    /\ New(i) # {}
    /\ protected' = [protected EXCEPT ![i] = Protect]
    /\ UNCHANGED <<world, locks, job, seen, touched>>

\* All buildings of the plan have a receipt.
NothingToImport(i) ==
    /\ pc[i] = "inspect"
    /\ New(i) = {}
    /\ Rollback(i)

NewRoofs(i) == {r \in Roofs : BuildingOf[r] \in New(i)}

\* Mutant: placing a removed object restores it.
RefusedNever(i) == FALSE

\* A removed roof keeps its row: placing it again violates the unique id.
Refused(i) == \E r \in NewRoofs(i) : roof[r] = "removed"

\* Mutant: the ledger is the plan's.
EnterOnly(c, S) ==
    [enabled |-> c = NoConfig \/ c.enabled, ledger |-> S, tombstones |-> Tombstones(c)]

\* The config with the buildings S entered.  A world without one is enabled.
Enter(c, S) ==
    [enabled |-> c = NoConfig \/ c.enabled, ledger |-> Ledger(c) \cup S,
     tombstones |-> Tombstones(c)]

\* Fill the free wall cells, place the roofs, enter the buildings; the caller
\* commits.  A chunk whose snapshot no command wrote is skipped.
Import(i) ==
    /\ pc[i] = "import"
    /\ ~Refused(i)
    /\ \E skipped \in SUBSET Cells :
          LET written == {x \in Cells : WallOf[x] \in New(i)}
                            \ (protected[i] \cup filled \cup skipped) IN
          /\ filled' = filled \cup written
          /\ logged' = logged \cup written
    /\ roof' = [r \in Roofs |-> IF r \in NewRoofs(i) THEN "active" ELSE roof[r]]
    /\ config' = Enter(seen[i], New(i))
    /\ UNCHANGED touched
    /\ Finish(i)

ImportFails(i) ==
    /\ pc[i] = "import"
    /\ Refused(i)
    /\ Rollback(i)

(* The operator and failures. *)

\* scripts/configure_lod2_project.py: one locked transaction that replaces the
\* whole config.
Configure ==
    /\ RowFree
    /\ config' = [enabled |-> TRUE, ledger |-> {}, tombstones |-> {}]
    /\ UNCHANGED <<roof, filled, logged, locks, pc, job, seen, protected, touched>>

Abort(a) == pc[a] \notin {"idle", "done"} /\ Rollback(a)

Next ==
    \/ \E u \in Users : Begin(u) \/ LockWorld(u) \/ InsertCommandLog(u)
                           \/ EditCell(u) \/ RemoveRoof(u) \/ RoofNotFound(u)
    \/ \E i \in Importers : LockForImport(i) \/ Inspect(i) \/ NothingToImport(i)
                               \/ Import(i) \/ ImportFails(i)
    \/ \E a \in Actors : Abort(a)
    \/ Configure

Spec == Init /\ [][Next]_vars

-----------------------------------------------------------------------------
(* Properties *)

TypeOK ==
    /\ config \in Configs \cup {NoConfig}
    /\ roof \in [Roofs -> {"none", "active", "removed"}]
    /\ filled \in SUBSET Cells
    /\ logged \in SUBSET Cells
    /\ worldLock \in Actors \cup {NoActor}
    /\ keyShare \in SUBSET Users
    /\ pc \in [Actors -> {"idle", "lock", "log", "execute", "inspect", "import", "done"}]
    /\ job \in [Actors -> Jobs]
    /\ seen \in [Actors -> Configs \cup {NoConfig}]
    /\ protected \in [Importers -> SUBSET Cells]
    /\ touched \in SUBSET Cells

\* What an import inspects is still so when it writes: no command of the world
\* commits while it runs, not even one that saw no LoD2 config and took no lock.
ImportsRunAlone ==
    [][\A i \in Importers : worldLock = i /\ worldLock' = i => UNCHANGED world]_vars

\* An import does not "restore an intentionally removed cell", nor change any
\* other cell a user changed, however the two are interleaved.
ImportKeepsEdits ==
    [][\A i \in Importers : pc[i] = "import" /\ pc'[i] # "import" =>
          \A x \in touched : x \in filled' <=> x \in filled]_vars

\* No import brings back a roof that was removed, receipts lost or not.
RemovalIsFinal == [][\A r \in Roofs : roof[r] = "removed" => roof'[r] = "removed"]_vars

\* A building in the ledger has been imported with all its roofs.
NoHalfBuildings ==
    \A r \in Roofs : BuildingOf[r] \in Ledger(config) => roof[r] # "none"

\* "A successful receipt survives roof deletion and block removal": only the
\* operator's new configuration takes a building out of the ledger.
ReceiptsSurvive == [][Configure \/ Ledger(config) \subseteq Ledger(config')]_vars

-----------------------------------------------------------------------------
(* The inductive invariant. *)

\* The locks exclude each other, and each is held for a part of the run.
LockInv ==
    /\ keyShare \subseteq {worldLock} \/ worldLock = NoActor
    /\ \A u \in Users : u \in keyShare <=> pc[u] = "execute"
    /\ \A a \in Actors : pc[a] \in {"idle", "done"} => worldLock # a
    /\ \A i \in Importers : pc[i] \in {"inspect", "import"} => worldLock = i
    /\ \A u \in Users : pc[u] \in {"idle", "lock", "log", "execute", "done"}
    /\ \A i \in Importers : pc[i] \in {"idle", "inspect", "import", "done"}

\* Every cell a user changed is in a log, and an import has found all of them.
EditsAreLogged ==
    /\ touched \subseteq logged
    /\ \A i \in Importers : pc[i] = "import" => touched \subseteq protected[i]

\* An import still sees the config it read.
ImportReadsConfig ==
    \A i \in Importers : pc[i] \in {"inspect", "import"} => seen[i] = config

\* The ledgers that commands loaded hold imported buildings too.
LoadedReceipts ==
    \A a \in Actors, r \in Roofs : BuildingOf[r] \in Ledger(seen[a]) => roof[r] # "none"

JobInv == \A a \in Actors : job[a] \in Menu[a]

Lod2Inv ==
    /\ TypeOK /\ JobInv /\ LockInv /\ EditsAreLogged
    /\ ImportReadsConfig /\ NoHalfBuildings /\ LoadedReceipts
=============================================================================

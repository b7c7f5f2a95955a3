--------------------------- MODULE Lod2WorldProofs ---------------------------
(***************************************************************************)
(* Proofs about Lod2World, for any users, imports, buildings and cells, and *)
(* about what RoofProjection shows of it to any number of viewers.          *)
(* The invariant Lod2Inv adds to the properties what carries them: the     *)
(* locks keep an import alone with the world, so the config and the edits  *)
(* it read are still those it writes over.                                 *)
(***************************************************************************)
EXTENDS RoofProjection, TLAPS

LEMMA ActorsAreApart ==
    /\ \A u \in Users : u \in Actors /\ u \notin Importers /\ u # NoActor
    /\ \A i \in Importers : i \in Actors /\ i \notin Users /\ i # NoActor
BY JobsAssumption DEF Actors

LEMMA ConfigTypes ==
    ASSUME NEW c \in Configs \cup {NoConfig}
    PROVE  /\ Enabled(c) \in BOOLEAN
           /\ Ledger(c) \in SUBSET Buildings
           /\ Tombstones(c) \in SUBSET Roofs
           /\ Ledger(NoConfig) = {}
           /\ \A S \in SUBSET Buildings :
                 /\ Enter(c, S) \in Configs
                 /\ Ledger(Enter(c, S)) = Ledger(c) \cup S
<1>1. Enabled(c) \in BOOLEAN /\ Ledger(c) \in SUBSET Buildings /\ Tombstones(c) \in SUBSET Roofs
  BY DEF Enabled, Ledger, Tombstones, Configs
<1>2. ASSUME NEW S \in SUBSET Buildings
      PROVE  Enter(c, S) \in Configs /\ Ledger(Enter(c, S)) = Ledger(c) \cup S
  <2>1. (c = NoConfig \/ c.enabled) \in BOOLEAN
    BY DEF Configs
  <2>2. Enter(c, S) \in Configs
    BY <1>1, <2>1 DEF Enter, Configs
  <2>3. Enter(c, S) # NoConfig
    BY <2>2, JobsAssumption
  <2> QED BY <2>2, <2>3 DEF Ledger, Enter
<1> QED BY <1>1, <1>2 DEF Ledger

LEMMA JobTypes ==
    ASSUME Lod2Inv
    PROVE  /\ \A u \in Users : job[u].kind = "remove" =>
                 job[u].roof \in Roofs /\ job[u].preserve \in BOOLEAN
           /\ \A u \in Users : job[u].kind = "edit" =>
                 job[u].cell \in Cells /\ job[u].fill \in BOOLEAN
           /\ \A i \in Importers : job[i].kind = "import" /\ New(i) \in SUBSET Buildings
<1>1. \A u \in Users : job[u] \in Edits \cup Removals
  BY JobsAssumption, ActorsAreApart DEF Lod2Inv, JobInv
<1>2. \A i \in Importers : job[i] \in Imports
  BY JobsAssumption, ActorsAreApart DEF Lod2Inv, JobInv
<1> QED BY <1>1, <1>2 DEF Edits, Removals, Imports, New

(* Only one who holds the row, or its key share while nobody else holds it,
   is beyond the locks. *)
LEMMA LockFacts ==
    ASSUME Lod2Inv
    PROVE  /\ \A u \in Users, i \in Importers :
                 pc[u] = "execute" => worldLock # i /\ pc[i] \notin {"inspect", "import"}
           /\ RowFree => \A i \in Importers : pc[i] \notin {"inspect", "import"}
           /\ \A i, j \in Importers :
                 pc[i] \in {"inspect", "import"} /\ j # i => pc[j] \notin {"inspect", "import"}
BY ActorsAreApart DEF Lod2Inv, LockInv, RowFree

(* The end of any actor keeps the locks in order. *)
LEMMA FinishKeeps ==
    ASSUME Lod2Inv, NEW a \in Actors, Finish(a),
           config' \in Configs \cup {NoConfig},
           roof' \in [Roofs -> {"none", "active", "removed"}],
           filled' \in SUBSET Cells, logged' \in SUBSET Cells, touched' \in SUBSET Cells
    PROVE  /\ TypeOK' /\ JobInv' /\ LockInv'
           /\ pc'[a] = "done" /\ \A b \in Actors : b # a => pc'[b] = pc[b] /\ seen'[b] = seen[b]
           /\ \A i \in Importers : i # a => protected'[i] = protected[i]
           /\ seen'[a] = NoConfig
<1> USE DEF Lod2Inv
<1>1. TypeOK'
  BY ActorsAreApart DEF TypeOK, Finish
<1>2. JobInv'
  BY DEF JobInv, Finish
<1>3. LockInv'
  BY ActorsAreApart, JobsAssumption DEF TypeOK, LockInv, Finish, Actors
<1> QED BY <1>1, <1>2, <1>3 DEF TypeOK, Finish, Actors

LEMMA RollbackKeeps == ASSUME Lod2Inv, NEW a \in Actors, Rollback(a) PROVE Lod2Inv'
<1>1. Finish(a) /\ UNCHANGED <<config, roof, filled, logged, touched>>
  BY DEF Rollback, world
<1>2. /\ TypeOK' /\ JobInv' /\ LockInv'
      /\ pc'[a] = "done" /\ \A b \in Actors : b # a => pc'[b] = pc[b] /\ seen'[b] = seen[b]
      /\ \A i \in Importers : i # a => protected'[i] = protected[i]
      /\ seen'[a] = NoConfig
  BY <1>1, FinishKeeps DEF Lod2Inv, TypeOK
<1>3. EditsAreLogged'
  BY <1>1, <1>2, ActorsAreApart DEF Lod2Inv, EditsAreLogged
<1>4. ImportReadsConfig'
  BY <1>1, <1>2, ActorsAreApart DEF Lod2Inv, ImportReadsConfig
<1>5. NoHalfBuildings'
  BY <1>1 DEF Lod2Inv, NoHalfBuildings
<1>6. LoadedReceipts'
  BY <1>1, <1>2 DEF Lod2Inv, LoadedReceipts, Ledger
<1> QED BY <1>2, <1>3, <1>4, <1>5, <1>6 DEF Lod2Inv

LEMMA InitHolds == Init => Lod2Inv
<1> SUFFICES ASSUME Init PROVE Lod2Inv
  OBVIOUS
<1>1. JobInv
  BY DEF Init, JobInv
<1>2. TypeOK
  <2>1. job \in [Actors -> Jobs]
    BY <1>1, JobsAssumption DEF Init, JobInv
  <2>2. config \in Configs \cup {NoConfig}
    <3>1. [enabled |-> TRUE, ledger |-> {}, tombstones |-> {}] \in Configs
      BY DEF Configs
    <3> QED BY <3>1 DEF Init
  <2>3. filled \in SUBSET Cells /\ logged \in SUBSET Cells /\ touched \in SUBSET Cells
    BY DEF Init
  <2>4. /\ roof \in [Roofs -> {"none", "active", "removed"}]
        /\ worldLock \in Actors \cup {NoActor} /\ keyShare \in SUBSET Users
        /\ pc \in [Actors -> {"idle", "lock", "log", "execute", "inspect", "import", "done"}]
    BY DEF Init
  <2>5. seen \in [Actors -> Configs \cup {NoConfig}] /\ protected \in [Importers -> SUBSET Cells]
    BY DEF Init
  <2> QED BY <2>1, <2>2, <2>3, <2>4, <2>5 DEF TypeOK
<1>3. LockInv /\ EditsAreLogged /\ ImportReadsConfig
  BY JobsAssumption DEF Init, LockInv, EditsAreLogged, ImportReadsConfig, Actors
<1>4. NoHalfBuildings /\ LoadedReceipts
  BY DEF Init, NoHalfBuildings, LoadedReceipts, Ledger
<1> QED BY <1>1, <1>2, <1>3, <1>4 DEF Lod2Inv

LEMMA BeginKeeps == ASSUME Lod2Inv, NEW u \in Users, Begin(u) PROVE Lod2Inv'
<1>1. TypeOK' /\ JobInv'
  BY ActorsAreApart DEF Lod2Inv, TypeOK, JobInv, Begin, world, locks
<1>2. LockInv' /\ EditsAreLogged' /\ ImportReadsConfig'
  BY ActorsAreApart DEF Lod2Inv, TypeOK, LockInv, EditsAreLogged, ImportReadsConfig, Begin, world, locks
<1>3. NoHalfBuildings' /\ LoadedReceipts'
  BY ActorsAreApart DEF Lod2Inv, TypeOK, NoHalfBuildings, LoadedReceipts, Begin, world, Ledger
<1> QED BY <1>1, <1>2, <1>3 DEF Lod2Inv

LEMMA CommandLocksKeep ==
    ASSUME Lod2Inv, NEW u \in Users, LockWorld(u) \/ InsertCommandLog(u)
    PROVE  Lod2Inv'
<1>1. TypeOK' /\ JobInv'
  BY ActorsAreApart DEF Lod2Inv, TypeOK, JobInv, LockWorld, InsertCommandLog, Step, world
<1>2. LockInv'
  BY ActorsAreApart DEF Lod2Inv, TypeOK, LockInv, LockWorld, InsertCommandLog, Step,
                        RowFree, LogInsertPasses
<1>3. EditsAreLogged' /\ ImportReadsConfig'
  BY ActorsAreApart
     DEF Lod2Inv, TypeOK, EditsAreLogged, ImportReadsConfig, LockWorld, InsertCommandLog, Step, world
<1>4. NoHalfBuildings' /\ LoadedReceipts'
  BY DEF Lod2Inv, NoHalfBuildings, LoadedReceipts, LockWorld, InsertCommandLog, world, Ledger
<1> QED BY <1>1, <1>2, <1>3, <1>4 DEF Lod2Inv

LEMMA EditCellKeeps == ASSUME Lod2Inv, NEW u \in Users, EditCell(u) PROVE Lod2Inv'
<1>1. /\ Finish(u) /\ UNCHANGED <<config, roof>> /\ pc[u] = "execute"
      /\ filled' \in SUBSET Cells /\ logged' \in SUBSET Cells /\ touched' \in SUBSET Cells
      /\ touched \subseteq logged => touched' \subseteq logged'
  BY JobTypes DEF EditCell, Lod2Inv, TypeOK
<1>2. /\ TypeOK' /\ JobInv' /\ LockInv'
      /\ pc'[u] = "done" /\ \A b \in Actors : b # u => pc'[b] = pc[b] /\ seen'[b] = seen[b]
      /\ \A i \in Importers : i # u => protected'[i] = protected[i]
      /\ seen'[u] = NoConfig
  BY <1>1, FinishKeeps, ActorsAreApart DEF Lod2Inv, TypeOK
<1>3. EditsAreLogged' /\ ImportReadsConfig'
  BY <1>1, <1>2, ActorsAreApart, LockFacts DEF Lod2Inv, EditsAreLogged, ImportReadsConfig
<1>4. NoHalfBuildings' /\ LoadedReceipts'
  BY <1>1, <1>2 DEF Lod2Inv, NoHalfBuildings, LoadedReceipts, Ledger
<1> QED BY <1>2, <1>3, <1>4 DEF Lod2Inv

LEMMA RemoveRoofKeeps == ASSUME Lod2Inv, NEW u \in Users, RemoveRoof(u) PROVE Lod2Inv'
<1>1. /\ Finish(u) /\ pc[u] = "execute"
      /\ UNCHANGED <<filled, logged, touched>>
      /\ roof' \in [Roofs -> {"none", "active", "removed"}]
      /\ \A r \in Roofs : roof[r] # "none" => roof'[r] # "none"
  BY JobTypes DEF RemoveRoof, Lod2Inv, TypeOK
<1>2. config' \in Configs \cup {NoConfig} /\ Ledger(config') \subseteq Ledger(config) \cup Ledger(seen[u])
  <2> DEFINE c == seen[u]
             written == [enabled |-> Enabled(c), ledger |-> Ledger(c),
                         tombstones |-> Tombstones(c) \cup {job[u].roof}]
  <2>1. CASE config' = config
    BY <2>1 DEF Lod2Inv, TypeOK
  <2>2. CASE config' = written
    <3>1. c \in Configs \cup {NoConfig} /\ job[u].roof \in Roofs
      BY ActorsAreApart, JobTypes DEF RemoveRoof, Lod2Inv, TypeOK
    <3>2. written \in Configs
      BY <3>1, ConfigTypes DEF Configs
    <3>3. Ledger(written) = Ledger(c)
      BY <3>2, JobsAssumption DEF Ledger
    <3> QED BY <2>2, <3>2, <3>3
  <2> QED BY <2>1, <2>2 DEF RemoveRoof
<1>3. /\ TypeOK' /\ JobInv' /\ LockInv'
      /\ pc'[u] = "done" /\ \A b \in Actors : b # u => pc'[b] = pc[b] /\ seen'[b] = seen[b]
      /\ \A i \in Importers : i # u => protected'[i] = protected[i]
      /\ seen'[u] = NoConfig
  BY <1>1, <1>2, FinishKeeps, ActorsAreApart DEF Lod2Inv, TypeOK
<1>4. EditsAreLogged' /\ ImportReadsConfig'
  BY <1>1, <1>3, ActorsAreApart, LockFacts DEF Lod2Inv, EditsAreLogged, ImportReadsConfig
<1>5. NoHalfBuildings'
  BY <1>1, <1>2, ActorsAreApart DEF Lod2Inv, NoHalfBuildings, LoadedReceipts
<1>6. LoadedReceipts'
  BY <1>1, <1>3 DEF Lod2Inv, LoadedReceipts, Ledger
<1> QED BY <1>3, <1>4, <1>5, <1>6 DEF Lod2Inv

LEMMA ImportStartKeeps ==
    ASSUME Lod2Inv, NEW i \in Importers, LockForImport(i) \/ Inspect(i)
    PROVE  Lod2Inv'
<1>1. TypeOK' /\ JobInv'
  BY ActorsAreApart DEF Lod2Inv, TypeOK, JobInv, LockForImport, Inspect, Step, Protect, world, locks
<1>2. LockInv'
  BY ActorsAreApart DEF Lod2Inv, TypeOK, LockInv, LockForImport, Inspect, Step, RowFree, locks
<1>3. EditsAreLogged' /\ ImportReadsConfig'
  BY ActorsAreApart DEF Lod2Inv, TypeOK, EditsAreLogged, ImportReadsConfig, LockForImport, Inspect,
                        Step, Protect, world
<1>4. NoHalfBuildings' /\ LoadedReceipts'
  BY ActorsAreApart
     DEF Lod2Inv, TypeOK, NoHalfBuildings, LoadedReceipts, LockForImport, Inspect, world, Ledger
<1> QED BY <1>1, <1>2, <1>3, <1>4 DEF Lod2Inv

LEMMA ImportKeeps == ASSUME Lod2Inv, NEW i \in Importers, Import(i) PROVE Lod2Inv'
<1>1. New(i) \in SUBSET Buildings /\ seen[i] \in Configs \cup {NoConfig} /\ pc[i] = "import"
  BY JobTypes, ActorsAreApart DEF Import, Lod2Inv, TypeOK
<1>2. /\ Finish(i) /\ UNCHANGED touched
      /\ filled' \in SUBSET Cells /\ logged' \in SUBSET Cells /\ logged \subseteq logged'
  BY DEF Import, Lod2Inv, TypeOK
<1>3. /\ roof' \in [Roofs -> {"none", "active", "removed"}]
      /\ \A r \in Roofs : roof[r] # "none" => roof'[r] # "none"
      /\ \A r \in Roofs : BuildingOf[r] \in New(i) => roof'[r] # "none"
  BY DEF Import, NewRoofs, Lod2Inv, TypeOK
<1>4. config' \in Configs /\ Ledger(config') = Ledger(seen[i]) \cup New(i)
  BY <1>1, ConfigTypes DEF Import
<1>5. /\ TypeOK' /\ JobInv' /\ LockInv'
      /\ pc'[i] = "done" /\ \A b \in Actors : b # i => pc'[b] = pc[b] /\ seen'[b] = seen[b]
      /\ \A j \in Importers : j # i => protected'[j] = protected[j]
      /\ seen'[i] = NoConfig
  BY <1>2, <1>3, <1>4, FinishKeeps, ActorsAreApart DEF Lod2Inv, TypeOK
<1>6. EditsAreLogged' /\ ImportReadsConfig'
  BY <1>1, <1>2, <1>5, ActorsAreApart, LockFacts DEF Lod2Inv, EditsAreLogged, ImportReadsConfig
<1>7. NoHalfBuildings'
  BY <1>3, <1>4, ActorsAreApart DEF Lod2Inv, NoHalfBuildings, LoadedReceipts
<1>8. LoadedReceipts'
  BY <1>3, <1>5 DEF Lod2Inv, LoadedReceipts, Ledger
<1> QED BY <1>5, <1>6, <1>7, <1>8 DEF Lod2Inv

LEMMA ConfigureKeeps == ASSUME Lod2Inv, Configure PROVE Lod2Inv'
<1>1. config' \in Configs /\ Ledger(config') = {}
  <2>1. config' \in Configs
    BY DEF Configure, Configs
  <2> QED BY <2>1, JobsAssumption DEF Configure, Ledger
<1>2. TypeOK' /\ JobInv' /\ LockInv' /\ EditsAreLogged'
  BY <1>1 DEF Lod2Inv, TypeOK, JobInv, LockInv, EditsAreLogged, Configure, locks
<1>3. ImportReadsConfig'
  BY LockFacts DEF Lod2Inv, ImportReadsConfig, Configure
<1>4. NoHalfBuildings' /\ LoadedReceipts'
  BY <1>1 DEF Lod2Inv, NoHalfBuildings, LoadedReceipts, Configure, Ledger
<1> QED BY <1>2, <1>3, <1>4 DEF Lod2Inv

LEMMA StepKeeps == Lod2Inv /\ [Next]_vars => Lod2Inv'
<1> SUFFICES ASSUME Lod2Inv, [Next]_vars PROVE Lod2Inv'
  OBVIOUS
<1>1. ASSUME NEW u \in Users, Begin(u) PROVE Lod2Inv'
  BY <1>1, BeginKeeps
<1>2. ASSUME NEW u \in Users, LockWorld(u) \/ InsertCommandLog(u) PROVE Lod2Inv'
  BY <1>2, CommandLocksKeep
<1>3. ASSUME NEW u \in Users, EditCell(u) PROVE Lod2Inv'
  BY <1>3, EditCellKeeps
<1>4. ASSUME NEW u \in Users, RemoveRoof(u) PROVE Lod2Inv'
  BY <1>4, RemoveRoofKeeps
<1>5. ASSUME NEW i \in Importers, LockForImport(i) \/ Inspect(i) PROVE Lod2Inv'
  BY <1>5, ImportStartKeeps
<1>6. ASSUME NEW i \in Importers, Import(i) PROVE Lod2Inv'
  BY <1>6, ImportKeeps
<1>7. ASSUME NEW a \in Actors, Rollback(a) PROVE Lod2Inv'
  BY <1>7, RollbackKeeps
<1>8. CASE Configure
  BY <1>8, ConfigureKeeps
<1>9. CASE UNCHANGED vars
  BY <1>9 DEF vars, world, locks, Lod2Inv, TypeOK, JobInv, LockInv, EditsAreLogged,
              ImportReadsConfig, NoHalfBuildings, LoadedReceipts
<1> QED BY <1>1, <1>2, <1>3, <1>4, <1>5, <1>6, <1>7, <1>8, <1>9, ActorsAreApart
        DEF Next, RoofNotFound, NothingToImport, ImportFails, Abort

(* The invariant of the import and the commands beside it. *)
THEOREM Lod2Invariant == Spec => []Lod2Inv
<1> QED BY InitHolds, StepKeeps, PTL DEF Spec

(* A building in the ledger has been imported with all its roofs, whichever
   config the last writer had loaded. *)
THEOREM ReceiptsAreWhole == Spec => []NoHalfBuildings
<1>1. Lod2Inv => NoHalfBuildings
  BY DEF Lod2Inv
<1> QED BY <1>1, Lod2Invariant, PTL

\* While an import holds the row, the only steps that change the world are its own.
LEMMA WorldStepHasLock ==
    ASSUME Lod2Inv, [Next]_vars, NEW i \in Importers, worldLock = i, worldLock' = i
    PROVE  UNCHANGED world
<1>1. ASSUME NEW u \in Users, EditCell(u) \/ RemoveRoof(u) PROVE FALSE
  BY <1>1, LockFacts DEF EditCell, RemoveRoof
<1>2. ASSUME NEW j \in Importers, Import(j) PROVE FALSE
  <2>1. worldLock = j
    BY <1>2 DEF Import, Lod2Inv, LockInv
  <2> QED BY <1>2, <2>1, ActorsAreApart DEF Import, Finish
<1>3. ~Configure
  BY ActorsAreApart DEF Configure, RowFree
<1>4. ASSUME NEW a \in Actors, Rollback(a) PROVE UNCHANGED world
  BY <1>4 DEF Rollback
<1>5. ASSUME NEW u \in Users, Begin(u) \/ LockWorld(u) \/ InsertCommandLog(u) PROVE UNCHANGED world
  BY <1>5 DEF Begin, LockWorld, InsertCommandLog
<1>6. ASSUME NEW j \in Importers, LockForImport(j) \/ Inspect(j) PROVE UNCHANGED world
  BY <1>6 DEF LockForImport, Inspect
<1>7. CASE UNCHANGED vars
  BY <1>7 DEF vars
<1> QED BY <1>1, <1>2, <1>3, <1>4, <1>5, <1>6, <1>7, ActorsAreApart
        DEF Next, RoofNotFound, NothingToImport, ImportFails, Abort

(* No command of the world commits while an import runs, even one that takes
   no lock because it saw no LoD2 config. *)
THEOREM ImportsAreAlone == Spec => ImportsRunAlone
<1>1. Lod2Inv /\ [Next]_vars =>
        [\A i \in Importers : worldLock = i /\ worldLock' = i => UNCHANGED world]_vars
  BY WorldStepHasLock
<1> QED BY <1>1, Lod2Invariant, PTL DEF Spec, ImportsRunAlone

\* The step that ends an import leaves the cells that users changed.
LEMMA EndOfImport ==
    ASSUME Lod2Inv, [Next]_vars, NEW i \in Importers, pc[i] = "import", pc'[i] # "import",
           NEW x \in touched
    PROVE  x \in filled' <=> x \in filled
<1>1. ASSUME NEW u \in Users, EditCell(u) \/ RemoveRoof(u) PROVE FALSE
  BY <1>1, LockFacts DEF EditCell, RemoveRoof
<1>2. ASSUME NEW j \in Importers, Import(j) PROVE x \in filled' <=> x \in filled
  <2>1. j = i
    BY <1>2, LockFacts DEF Import
  <2>2. x \in protected[i]
    BY DEF Lod2Inv, EditsAreLogged
  <2> QED BY <1>2, <2>1, <2>2 DEF Import
<1>3. ASSUME NEW a \in Actors, Rollback(a) PROVE filled' = filled
  BY <1>3 DEF Rollback, world
<1>4. ASSUME NEW u \in Users, Begin(u) \/ LockWorld(u) \/ InsertCommandLog(u) PROVE filled' = filled
  BY <1>4 DEF Begin, LockWorld, InsertCommandLog, world
<1>5. ASSUME NEW j \in Importers, LockForImport(j) \/ Inspect(j) PROVE filled' = filled
  BY <1>5 DEF LockForImport, Inspect, world
<1>6. CASE Configure
  BY <1>6 DEF Configure
<1>7. CASE UNCHANGED vars
  BY <1>7 DEF vars, world
<1> QED BY <1>1, <1>2, <1>3, <1>4, <1>5, <1>6, <1>7, ActorsAreApart
        DEF Next, RoofNotFound, NothingToImport, ImportFails, Abort

(* However commands and imports are interleaved, no import changes a wall cell
   that a user changed. *)
THEOREM EditsAreKept == Spec => ImportKeepsEdits
<1>1. Lod2Inv /\ [Next]_vars =>
        [\A i \in Importers : pc[i] = "import" /\ pc'[i] # "import" =>
            \A x \in touched : x \in filled' <=> x \in filled]_vars
  BY EndOfImport
<1> QED BY <1>1, Lod2Invariant, PTL DEF Spec, ImportKeepsEdits

LEMMA RemovedStays ==
    ASSUME Lod2Inv, [Next]_vars, NEW r \in Roofs, roof[r] = "removed"
    PROVE  roof'[r] = "removed"
<1>1. ASSUME NEW u \in Users, RemoveRoof(u) PROVE roof'[r] = "removed"
  BY <1>1 DEF RemoveRoof, Lod2Inv, TypeOK
<1>2. ASSUME NEW i \in Importers, Import(i) PROVE roof'[r] = "removed"
  BY <1>2 DEF Import, Refused, Lod2Inv, TypeOK
<1>3. ASSUME NEW u \in Users, Begin(u) \/ LockWorld(u) \/ InsertCommandLog(u) \/ EditCell(u)
      PROVE  roof' = roof
  BY <1>3 DEF Begin, LockWorld, InsertCommandLog, EditCell, world
<1>4. ASSUME NEW i \in Importers, LockForImport(i) \/ Inspect(i) PROVE roof' = roof
  BY <1>4 DEF LockForImport, Inspect, world
<1>5. ASSUME NEW a \in Actors, Rollback(a) PROVE roof' = roof
  BY <1>5 DEF Rollback, world
<1>6. CASE Configure
  BY <1>6 DEF Configure
<1>7. CASE UNCHANGED vars
  BY <1>7 DEF vars, world
<1> QED BY <1>1, <1>2, <1>3, <1>4, <1>5, <1>6, <1>7, ActorsAreApart
        DEF Next, RoofNotFound, NothingToImport, ImportFails, Abort

(* A removed roof stays removed. *)
THEOREM RemovalsAreFinal == Spec => RemovalIsFinal
<1>1. Lod2Inv /\ [Next]_vars => [\A r \in Roofs : roof[r] = "removed" => roof'[r] = "removed"]_vars
  BY RemovedStays
<1> QED BY <1>1, Lod2Invariant, PTL DEF Spec, RemovalIsFinal

\* No user's removal preserves a facade: none writes the config.
NoFacadeIsKept == \A u \in Users : \A j \in Menu[u] : j \in Removals => ~j.preserve

\* A step of the world that is not the operator's enters every roof it places.
LEMMA LedgerGrows ==
    ASSUME NoFacadeIsKept, Lod2Inv, [Next]_vars, ~Configure
    PROVE  /\ Ledger(config) \subseteq Ledger(config')
           /\ \A r \in Roofs : roof'[r] # "none" =>
                 roof[r] # "none" \/ BuildingOf[r] \in Ledger(config')
<1>1. ASSUME NEW u \in Users, RemoveRoof(u)
      PROVE  config' = config /\ \A r \in Roofs : roof'[r] # "none" => roof[r] # "none"
  <2>1. job[u] \in Removals
    <3>1. job[u] \in Edits \cup Removals /\ job[u].kind = "remove"
      BY <1>1, JobsAssumption, ActorsAreApart DEF RemoveRoof, Lod2Inv, JobInv
    <3> QED BY <3>1 DEF Edits, Removals
  <2>2. config' = config
    BY <1>1, <2>1, ActorsAreApart DEF RemoveRoof, Lod2Inv, JobInv, NoFacadeIsKept
  <2>3. \A r \in Roofs : roof'[r] # "none" => roof[r] # "none"
    BY <1>1 DEF RemoveRoof, Lod2Inv, TypeOK
  <2> QED BY <2>2, <2>3
<1>2. ASSUME NEW i \in Importers, Import(i)
      PROVE  /\ Ledger(config) \subseteq Ledger(config')
             /\ \A r \in Roofs : roof'[r] # "none" =>
                   roof[r] # "none" \/ BuildingOf[r] \in Ledger(config')
  <2>1. seen[i] = config
    BY <1>2 DEF Import, Lod2Inv, ImportReadsConfig
  <2>2. config \in Configs \cup {NoConfig} /\ New(i) \in SUBSET Buildings
    BY JobTypes DEF Lod2Inv, TypeOK
  <2>3. Ledger(config') = Ledger(config) \cup New(i)
    BY <1>2, <2>1, <2>2, ConfigTypes DEF Import
  <2>4. \A r \in Roofs : roof'[r] # "none" => roof[r] # "none" \/ BuildingOf[r] \in New(i)
    BY <1>2 DEF Import, NewRoofs
  <2> QED BY <2>3, <2>4
<1>3. ASSUME NEW u \in Users, Begin(u) \/ LockWorld(u) \/ InsertCommandLog(u) \/ EditCell(u)
      PROVE  config' = config /\ roof' = roof
  BY <1>3 DEF Begin, LockWorld, InsertCommandLog, EditCell, world
<1>4. ASSUME NEW i \in Importers, LockForImport(i) \/ Inspect(i) PROVE config' = config /\ roof' = roof
  BY <1>4 DEF LockForImport, Inspect, world
<1>5. ASSUME NEW a \in Actors, Rollback(a) PROVE config' = config /\ roof' = roof
  BY <1>5 DEF Rollback, world
<1>6. CASE UNCHANGED vars
  BY <1>6 DEF vars, world
<1>7. config' = config => Ledger(config) \subseteq Ledger(config')
  OBVIOUS
<1> QED BY <1>1, <1>2, <1>3, <1>4, <1>5, <1>6, <1>7, ActorsAreApart
        DEF Next, RoofNotFound, NothingToImport, ImportFails, Abort

(* Where no removal preserves a facade, only the operator's configuration takes
   a building out of the ledger. *)
THEOREM ReceiptsAreKept ==
    ASSUME NoFacadeIsKept
    PROVE  Spec => ReceiptsSurvive
<1>1. Lod2Inv /\ [Next]_vars => [Configure \/ Ledger(config) \subseteq Ledger(config')]_vars
  BY LedgerGrows
<1> QED BY <1>1, Lod2Invariant, PTL DEF Spec, ReceiptsSurvive

-----------------------------------------------------------------------------
(* What is shown of the roofs.  A roof that was gone when a request began is *)
(* still gone when it reads the chunk, so only the bundle could show it.     *)

GoneIsRemoved == \A v \in Viewers : \A r \in gone[v] : roof[r] = "removed"

PInv == Lod2Inv /\ ViewInv /\ GoneIsRemoved /\ RemovedRoofsStayHidden

LEMMA EditWorldKeeps == ASSUME NoFacadeIsKept, PInv, EditWorld PROVE PInv'
<1>1. Next /\ UNCHANGED <<selected, vpc, row, shown, gone>> /\ reset' \in BOOLEAN /\ (reset => reset')
  BY DEF EditWorld, views, PInv, ViewInv, PTypeOK
<1>2. Lod2Inv'
  BY <1>1, StepKeeps DEF PInv
<1>3. GoneIsRemoved'
  BY <1>1, RemovedStays DEF PInv, GoneIsRemoved, ViewInv, PTypeOK
<1>4. RemovedRoofsStayHidden'
  BY <1>1 DEF PInv, RemovedRoofsStayHidden
<1>5. PTypeOK'
  BY <1>1 DEF PInv, ViewInv, PTypeOK
<1>6. ASSUME ~reset'
      PROVE  \A r \in Roofs : roof'[r] # "none" => BuildingOf[r] \in Ledger(config')
  <2>1. ~reset /\ \A r \in Roofs : roof[r] # "none" => BuildingOf[r] \in Ledger(config)
    BY <1>1, <1>6 DEF PInv, ViewInv
  <2>2. CASE Configure
    <3>1. config' = config /\ roof' = roof
      BY <1>6, <2>2 DEF EditWorld, Configure
    <3> QED BY <2>1, <3>1
  <2>3. CASE ~Configure
    BY <1>1, <2>1, <2>3, LedgerGrows DEF PInv
  <2> QED BY <2>2, <2>3
<1>7. \A v \in Viewers : Hidden(v)' = Hidden(v)
  BY <1>1 DEF Hidden
<1>8. ViewInv'
  BY <1>1, <1>5, <1>6, <1>7 DEF PInv, ViewInv
<1> QED BY <1>2, <1>3, <1>4, <1>8 DEF PInv

LEMMA BeginViewKeeps == ASSUME PInv, NEW v \in Viewers, BeginView(v) PROVE PInv'
<1>1. UNCHANGED vars /\ UNCHANGED <<config, roof, selected, shown, reset>>
  BY DEF BeginView, vars, world
<1>2. Lod2Inv'
  BY <1>1, StepKeeps DEF PInv
<1>3. PTypeOK'
  BY DEF PInv, Lod2Inv, TypeOK, ViewInv, PTypeOK, BeginView
<1>4. GoneIsRemoved'
  BY <1>1 DEF PInv, ViewInv, PTypeOK, GoneIsRemoved, BeginView
<1>5. RemovedRoofsStayHidden'
  BY <1>1 DEF PInv, ViewInv, PTypeOK, RemovedRoofsStayHidden, BeginView
<1>6. ASSUME ~reset', NEW w \in Viewers, vpc'[w] # "idle" PROVE gone'[w] \subseteq Hidden(w)'
  <2>1. CASE w = v
    <3>1. gone'[v] = {r \in Roofs : roof[r] = "removed"} /\ row'[v] = config
      BY DEF BeginView, PInv, ViewInv, PTypeOK
    <3>2. \A r \in Roofs : roof[r] = "removed" => BuildingOf[r] \in Ledger(config)
      BY <1>1, <1>6 DEF PInv, ViewInv
    <3>3. Hidden(v)' = Tombstones(config) \cup {r \in Roofs : BuildingOf[r] \in Ledger(config)}
      BY <3>1 DEF Hidden, Tombstones, Ledger
    <3> QED BY <2>1, <3>1, <3>2, <3>3
  <2>2. CASE w # v
    <3>1. gone'[w] = gone[w] /\ row'[w] = row[w] /\ vpc'[w] = vpc[w]
      BY <2>2 DEF BeginView, PInv, ViewInv, PTypeOK
    <3>2. Hidden(w)' = Hidden(w)
      BY <3>1 DEF Hidden, Tombstones, Ledger
    <3> QED BY <1>1, <1>6, <3>1, <3>2 DEF PInv, ViewInv
  <2> QED BY <2>1, <2>2
<1>7. ViewInv'
  BY <1>1, <1>3, <1>6 DEF PInv, ViewInv
<1> QED BY <1>2, <1>4, <1>5, <1>7 DEF PInv

LEMMA ReadChunkKeeps == ASSUME PInv, NEW v \in Viewers, ReadChunk(v) PROVE PInv'
<1>1. UNCHANGED vars /\ UNCHANGED <<config, roof, selected, row, gone, reset>>
  BY DEF ReadChunk, vars, world
<1>2. Lod2Inv'
  BY <1>1, StepKeeps DEF PInv
<1>3. PTypeOK' /\ GoneIsRemoved'
  BY <1>1 DEF PInv, ViewInv, PTypeOK, GoneIsRemoved, ReadChunk
<1>4. \A w \in Viewers : Hidden(w)' = Hidden(w)
  BY <1>1 DEF Hidden
<1>5. ViewInv'
  BY <1>1, <1>3, <1>4 DEF PInv, ViewInv, PTypeOK, ReadChunk
<1>6. RemovedRoofsStayHidden'
  <2> SUFFICES ASSUME ~reset, NEW w \in Viewers, vpc'[w] = "answered"
               PROVE  shown'[w] \cap gone[w] = {}
    BY <1>1 DEF RemovedRoofsStayHidden
  <2>1. CASE w = v
    <3>1. gone[v] \subseteq Hidden(v)
      BY DEF PInv, ViewInv, ReadChunk
    <3>2. shown'[v] \subseteq {r \in Roofs : roof[r] = "active"} \cup (Roofs \ Hidden(v))
      BY DEF ReadChunk, PInv, ViewInv, PTypeOK
    <3>3. \A r \in gone[v] : roof[r] # "active"
      BY DEF PInv, GoneIsRemoved
    <3> QED BY <2>1, <3>1, <3>2, <3>3
  <2>2. CASE w # v
    BY <2>2 DEF ReadChunk, PInv, ViewInv, PTypeOK, RemovedRoofsStayHidden
  <2> QED BY <2>1, <2>2
<1> QED BY <1>2, <1>3, <1>5, <1>6 DEF PInv

LEMMA EndViewKeeps == ASSUME PInv, NEW v \in Viewers, EndView(v) PROVE PInv'
<1>1. UNCHANGED vars /\ UNCHANGED <<config, roof, selected, reset>>
  BY DEF EndView, vars, world
<1>2. Lod2Inv'
  BY <1>1, StepKeeps DEF PInv
<1>3. PTypeOK' /\ GoneIsRemoved'
  BY <1>1 DEF PInv, ViewInv, PTypeOK, GoneIsRemoved, EndView
<1>4. \A w \in Viewers : w # v =>
        /\ vpc'[w] = vpc[w] /\ gone'[w] = gone[w] /\ shown'[w] = shown[w]
        /\ row'[w] = row[w] /\ Hidden(w)' = Hidden(w)
  BY DEF EndView, Hidden, Tombstones, Ledger, PInv, ViewInv, PTypeOK
<1>5. vpc'[v] = "idle"
  BY DEF EndView, PInv, ViewInv, PTypeOK
<1>6. ViewInv'
  BY <1>1, <1>3, <1>4, <1>5 DEF PInv, ViewInv
<1>7. RemovedRoofsStayHidden'
  BY <1>1, <1>4, <1>5 DEF PInv, RemovedRoofsStayHidden
<1> QED BY <1>2, <1>3, <1>6, <1>7 DEF PInv

LEMMA ProjectionInvariant == ASSUME NoFacadeIsKept PROVE PSpec => []PInv
<1>1. PInit => PInv
  <2> SUFFICES ASSUME PInit PROVE PInv
    OBVIOUS
  <2>1. Lod2Inv
    BY InitHolds DEF PInit
  <2>2. PTypeOK /\ GoneIsRemoved /\ RemovedRoofsStayHidden
    BY DEF PInit, PTypeOK, GoneIsRemoved, RemovedRoofsStayHidden
  <2>3. ViewInv
    BY <2>2 DEF PInit, Init, ViewInv
  <2> QED BY <2>1, <2>2, <2>3 DEF PInv
<1>2. PInv /\ [PNext]_pvars => PInv'
  <2> SUFFICES ASSUME PInv, [PNext]_pvars PROVE PInv'
    OBVIOUS
  <2>1. CASE EditWorld
    BY <2>1, EditWorldKeeps
  <2>2. CASE Activate
    <3>1. UNCHANGED vars /\ UNCHANGED <<config, roof, vpc, row, shown, gone, reset>> /\ selected' = TRUE
      BY <2>2 DEF Activate, vars, world, views
    <3>2. Lod2Inv'
      BY <3>1, StepKeeps DEF PInv
    <3> QED BY <3>1, <3>2 DEF PInv, ViewInv, PTypeOK, GoneIsRemoved, RemovedRoofsStayHidden, Hidden
  <2>3. ASSUME NEW v \in Viewers, BeginView(v) \/ ReadChunk(v) \/ EndView(v) PROVE PInv'
    BY <2>3, BeginViewKeeps, ReadChunkKeeps, EndViewKeeps
  <2>4. CASE UNCHANGED pvars
    <3>1. UNCHANGED vars /\ UNCHANGED <<config, roof, vpc, row, shown, gone, reset, selected>>
      BY <2>4 DEF pvars, vars, world, views
    <3>2. Lod2Inv'
      BY <3>1, StepKeeps DEF PInv
    <3> QED BY <3>1, <3>2 DEF PInv, ViewInv, PTypeOK, GoneIsRemoved, RemovedRoofsStayHidden, Hidden
  <2> QED BY <2>1, <2>2, <2>3, <2>4 DEF PNext
<1> QED BY <1>1, <1>2, PTL DEF PSpec

(* Where no removal preserves a facade, the world row that a request loads has
   in its ledger every roof that was gone when the request began. *)
THEOREM ViewsAreOfLedger == ASSUME NoFacadeIsKept PROVE PSpec => []ViewInv
<1>1. PInv => ViewInv
  BY DEF PInv
<1> QED BY <1>1, ProjectionInvariant, PTL

(* Where no removal preserves a facade, no bundle shows a removed roof again
   before the operator replaces the ledger. *)
THEOREM RemovedRoofsAreHidden == ASSUME NoFacadeIsKept PROVE PSpec => []RemovedRoofsStayHidden
<1>1. PInv => RemovedRoofsStayHidden
  BY DEF PInv
<1> QED BY <1>1, ProjectionInvariant, PTL
=============================================================================

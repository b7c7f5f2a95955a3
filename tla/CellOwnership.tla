---------------------------- MODULE CellOwnership ----------------------------
(***************************************************************************)
(* Who owns a cell: the executors of SetBlock, ReplaceBlock, RemoveBlock,  *)
(* WorldEdit, PlaceObject and RemoveObject (routes/commands.py).           *)
(*                                                                         *)
(* An object leaves two records of the cells it occupies.  The chunk's     *)
(* content lists it in objectRefs with its cells (the runtime reference);  *)
(* world_object_chunk_refs has a row for it and the chunk, with a record   *)
(* of each cell it wrote (the persisted reference).  RemoveObject clears a *)
(* cell only if both name the object, so every command that overwrites a   *)
(* cell must keep the two in step.                                         *)
(*                                                                         *)
(* A command is one step here: WorldCommandRoute shows that commands which *)
(* hold the world lock take effect one after the other.  The cells stand   *)
(* for world coordinates, the objects for objectInstanceIds.  The facade   *)
(* that preserveLod2Facade leaves and the trees that a first removal       *)
(* materializes are left out.                                              *)
(***************************************************************************)
EXTENDS Integers, FiniteSets

CONSTANTS
    Objects,
    Generated,   \* objects placed with metadata.generatedFromAreaId
    Chunks,
    Cells,
    ChunkOf,     \* the chunk of a cell
    Blocks,
    Air,
    Terrain,     \* block types named system_terrain...
    Breakable,
    Ground,      \* what fills the cells before the first command
    Menu,        \* the placements an object may be sent with: bounds the model
    Edits,       \* the WorldEdit commands that may be sent: bounds the model
    NoShape, NoRecord, Nobody

\* A placement.  occupies: voxelOccupancy is not "none"; semantic: objectKind is
\* semantic_footprint or a parametric library object; kind: building_roof,
\* planning_build_area or any other objectTypeId.
Shapes == [cells: SUBSET Cells, fill: Blocks, kind: {"roof", "area", "other"},
           occupies: BOOLEAN, semantic: BOOLEAN]

\* A WorldEdit plan writes to[x] where the cell's block is in over: everything
\* for set, clear, cut and paste, air for fill, one type for replace.
EditPlans == [over: SUBSET (Blocks \cup {Air}),
              to: UNION {[S -> Blocks \cup {Air}] : S \in SUBSET Cells}]

ASSUME WorldAssumption ==
    /\ ChunkOf \in [Cells -> Chunks]
    /\ Terrain \subseteq Blocks
    /\ Breakable \subseteq Blocks
    /\ Generated \subseteq Objects
    /\ Ground \in [Cells -> Blocks \cup {Air}]

\* No building is filled with terrain.
ASSUME MenuAssumption ==
    /\ Menu \in [Objects -> SUBSET Shapes]
    /\ \A o \in Objects : \A s \in Menu[o] : s.cells # {} /\ s.fill \notin Terrain
    /\ Edits \subseteq EditPlans

ASSUME AbsentValuesAssumption ==
    /\ Air \notin Blocks
    /\ NoShape \notin Shapes
    /\ NoRecord \notin Blocks \cup {Air}
    /\ Nobody \notin Objects

VARIABLES
    block,         \* the chunk content's cells
    instance,      \* world_object_instances: the row's status
    shape,         \* what the object was last placed with
    listed,        \* the chunks whose objectRefs list the object
    runtimeCells,  \* occupiedCells of those references
    refChunks,     \* the chunks with an active persisted reference
    records,       \* its cell records: the terrain underlay of each cell, or air
    writer,        \* history: the object whose write of the cell is the last
    covered,       \* history: the terrain that lay there when the writer came
    edited         \* history: somebody has used WorldEdit

refs    == <<listed, runtimeCells, refChunks, records>>
history == <<writer, covered, edited>>
vars    == <<block, instance, shape, refs, history>>

-----------------------------------------------------------------------------

\* _group_world_cells_by_chunk.
ChunksOf(S) == {ChunkOf[x] : x \in S}
InChunks(C) == {x \in Cells : ChunkOf[x] \in C}

Active(o) == instance[o] = "active"
Occupies(o) == shape[o] # NoShape /\ shape[o].occupies
Occupying(o) == Active(o) /\ Occupies(o)

\* runtime_owner_index: the references that claim cell x; a metadata-only one
\* claims nothing.
Claims(o, x) == x \in runtimeCells[o] /\ Occupies(o)

Recorded(o, x) == records[o][x] # NoRecord

\* Mutant: the excluded object is the only one detached.
RuntimeDetachedFromItself(o, S) ==
    [p \in Objects |-> IF p = o THEN runtimeCells[p] \ S ELSE runtimeCells[p]]

\* _detach_cells_from_runtime_object_refs, excluding o.
RuntimeDetached(o, S) ==
    [p \in Objects |->
        IF p # o /\ Occupies(p) THEN runtimeCells[p] \ S ELSE runtimeCells[p]]

\* Mutant: the persisted references are left as they are.
RecordsKept(o, S) == records

\* _detach_cells_from_persisted_object_refs, excluding o.
RecordsDetached(o, S) ==
    [p \in Objects |-> [x \in Cells |->
        IF p # o /\ x \in S /\ ChunkOf[x] \in refChunks[p] THEN NoRecord ELSE records[p][x]]]

\* Mutant: an update may move the object.
CompatibleIfSameKind(old, new) == new.kind = old.kind

\* _apply_existing_object_geometry_update: a roof stays a roof, and only
\* a metadata-only roof or area may move.
CompatibleUpdate(old, new) ==
    /\ old.kind = "roof" => new.kind = "roof"
    /\ \/ new.cells = old.cells
       \/ /\ old.kind \in {"roof", "area"} /\ new.kind = old.kind
          /\ ~old.occupies /\ ~new.occupies

\* Mutant: an update records what the object itself wrote before.
UnderlayOfLastWrite(o, x) == IF block[x] \in Terrain THEN block[x] ELSE Air

\* capture_terrain_underlay: the terrain a write of o covers.  A generated object
\* that finds its own block keeps what it covered first.
Underlay(o, x) ==
    CASE block[x] \in Terrain -> block[x]
      [] o \in Generated /\ Recorded(o, x) /\ block[x] = shape[o].fill -> records[o][x]
      [] OTHER -> Air

\* Mutant: a cell is vacated if its block still is the object's.
VacatedByBlock(o) ==
    {x \in Cells : ChunkOf[x] \in refChunks[o] /\ Recorded(o, x) /\ block[x] = shape[o].fill}

\* The cells an object takes along: recorded in an active persisted reference,
\* claimed by its runtime reference, and still filled with its block.  Were a cell
\* claimed twice, the later reference in the list would win it.
Vacated(o) ==
    {x \in Cells : /\ ChunkOf[x] \in refChunks[o] /\ Recorded(o, x)
                   /\ Claims(o, x)
                   /\ block[x] = shape[o].fill}
Contested(o) == {x \in Cells : \E p \in Objects \ {o} : Claims(p, x)}

\* History: a user, or nobody, is the last writer of the cells S.
Disown(S) == writer' = [x \in Cells |-> IF x \in S THEN Nobody ELSE writer[x]]
Uncover(S) == covered' = [x \in Cells |-> IF x \in S THEN Air ELSE covered[x]]
Forget(S) == Disown(S) /\ Uncover(S)

-----------------------------------------------------------------------------

Init ==
    /\ block = Ground
    /\ instance = [o \in Objects |-> "none"]
    /\ shape = [o \in Objects |-> NoShape]
    /\ listed = [o \in Objects |-> {}]
    /\ runtimeCells = [o \in Objects |-> {}]
    /\ refChunks = [o \in Objects |-> {}]
    /\ records = [o \in Objects |-> [x \in Cells |-> NoRecord]]
    /\ writer = [x \in Cells |-> Nobody]
    /\ covered = [x \in Cells |-> Air]
    /\ edited = FALSE

\* History: a cell of o that RemoveBlock made nobody's and nobody wrote since.
TakesBack(o, x) == writer[x] = Nobody /\ Recorded(o, x)

\* The new placement of a voxel object: detach the other owners, write, record.
Occupy(o, s) ==
    /\ block' = [x \in Cells |-> IF x \in s.cells THEN s.fill ELSE block[x]]
    /\ runtimeCells' = [RuntimeDetached(o, s.cells) EXCEPT ![o] = s.cells]
    /\ records' = [RecordsDetached(o, s.cells) EXCEPT ![o] =
          [x \in Cells |-> IF x \in s.cells THEN Underlay(o, x) ELSE NoRecord]]
    /\ writer' = [x \in Cells |-> IF x \in s.cells THEN o ELSE writer[x]]
    /\ covered' = [x \in Cells |->
          IF x \notin s.cells \/ writer[x] = o THEN covered[x]
          ELSE IF block[x] \in Terrain THEN block[x]
          ELSE IF TakesBack(o, x) THEN covered[x] ELSE Air]

\* A metadata-only placement keeps its cells as routing anchors and clears what
\* an earlier voxel placement left (_clear_legacy_metadata_only_ref_voxels).
RouteOnly(o, s) ==
    \E lost \in SUBSET Contested(o) :
        LET cleared == Vacated(o) \ lost IN
        /\ block' = [x \in Cells |-> IF x \in cleared THEN Air ELSE block[x]]
        /\ runtimeCells' = [runtimeCells EXCEPT ![o] = s.cells]
        /\ records' = [records EXCEPT ![o] = [x \in Cells |-> NoRecord]]
        /\ Forget(cleared)

\* PlaceObject.  A removed object keeps its row and its unique id: placing it
\* again fails.  The references of chunks it leaves are dropped.
PlaceObject(o, s) ==
    /\ instance[o] # "removed"
    /\ Active(o) => CompatibleUpdate(shape[o], s)
    /\ instance' = [instance EXCEPT ![o] = "active"]
    /\ shape' = [shape EXCEPT ![o] = s]
    /\ listed' = [listed EXCEPT ![o] = ChunksOf(s.cells)]
    /\ refChunks' = [refChunks EXCEPT ![o] = ChunksOf(s.cells)]
    /\ IF s.occupies THEN Occupy(o, s) ELSE RouteOnly(o, s)
    /\ UNCHANGED edited

\* SetBlock and ReplaceBlock; writing the block that is there detaches too.
SetBlock(x, b) ==
    /\ block' = [block EXCEPT ![x] = b]
    /\ runtimeCells' = RuntimeDetached(Nobody, {x})
    /\ records' = RecordsDetached(Nobody, {x})
    /\ Forget({x})
    /\ UNCHANGED <<instance, shape, listed, refChunks, edited>>

\* The semantic objects that a removed block takes out of its chunk's objectRefs.
Dropped(x) == {o \in Objects : Claims(o, x) /\ shape[o].semantic}

\* RemoveBlock.  The other cells of a dropped object in this chunk stay as plain
\* blocks, and its rows and other chunks as they are.
RemoveBlock(x) ==
    LET gone == [o \in Objects |-> IF o \in Dropped(x) THEN {ChunkOf[x]} ELSE {}] IN
    /\ block[x] \in Breakable
    /\ block' = [block EXCEPT ![x] = Air]
    /\ listed' = [o \in Objects |-> listed[o] \ gone[o]]
    /\ runtimeCells' = [o \in Objects |-> RuntimeDetached(Nobody, {x})[o] \ InChunks(gone[o])]
    /\ records' = RecordsDetached(Nobody, {x})
    /\ Disown({x} \cup {y \in Cells : writer[y] \in Dropped(x) /\ ChunkOf[y] = ChunkOf[x]})
    /\ Uncover({x})
    /\ UNCHANGED <<instance, shape, refChunks, edited>>

\* WorldEdit: an unbreakable block refuses the whole command; the references of
\* objects are not touched.
WorldEdit(e) ==
    LET changed == {x \in DOMAIN e.to : block[x] \in e.over /\ block[x] # e.to[x]} IN
    /\ \A x \in changed : e.to[x] = Air => block[x] \in Breakable
    /\ block' = [x \in Cells |-> IF x \in changed THEN e.to[x] ELSE block[x]]
    /\ Forget(changed)
    /\ edited' = TRUE
    /\ UNCHANGED <<instance, shape, refs>>

\* RemoveObject.
RemoveObject(o) ==
    /\ Active(o)
    /\ \E lost \in SUBSET Contested(o) :
          LET cleared == IF Occupies(o) THEN Vacated(o) \ lost ELSE {} IN
          /\ block' = [x \in Cells |->
                IF x \notin cleared THEN block[x]
                ELSE IF o \in Generated THEN records[o][x] ELSE Air]
          /\ Forget(cleared)
    /\ instance' = [instance EXCEPT ![o] = "removed"]
    /\ listed' = [listed EXCEPT ![o] = @ \ refChunks[o]]
    /\ runtimeCells' = [runtimeCells EXCEPT ![o] = @ \ InChunks(refChunks[o])]
    /\ refChunks' = [refChunks EXCEPT ![o] = {}]
    /\ UNCHANGED <<shape, records, edited>>

Next ==
    \/ \E o \in Objects : \E s \in Menu[o] : PlaceObject(o, s)
    \/ \E o \in Objects : RemoveObject(o)
    \/ \E x \in Cells, b \in Blocks : SetBlock(x, b)
    \/ \E x \in Cells : RemoveBlock(x)
    \/ \E e \in Edits : WorldEdit(e)

Spec == Init /\ [][Next]_vars

-----------------------------------------------------------------------------
(* Properties *)

TypeOK ==
    /\ block \in [Cells -> Blocks \cup {Air}]
    /\ instance \in [Objects -> {"none", "active", "removed"}]
    /\ shape \in [Objects -> Shapes \cup {NoShape}]
    /\ listed \in [Objects -> SUBSET Chunks]
    /\ runtimeCells \in [Objects -> SUBSET Cells]
    /\ refChunks \in [Objects -> SUBSET Chunks]
    /\ records \in [Objects -> [Cells -> Terrain \cup {Air, NoRecord}]]
    /\ writer \in [Cells -> Objects \cup {Nobody}]
    /\ covered \in [Cells -> Terrain \cup {Air}]
    /\ edited \in BOOLEAN

\* The two records of an object's cells agree (the runtime reference may miss
\* a chunk that RemoveBlock dropped it from) and no two objects own one cell, in
\* either record, after any sequence of commands.
SoleClaim ==
    \A o, p \in Objects, x \in Cells :
        /\ Claims(o, x) /\ Claims(p, x) => o = p
        /\ Active(o) /\ Active(p) /\ Recorded(o, x) /\ Recorded(p, x) => o = p

RecordsAgree ==
    \A o \in Objects, x \in Cells : Active(o) =>
        /\ Claims(o, x) <=> Occupies(o) /\ Recorded(o, x) /\ ChunkOf[x] \in listed[o]
        /\ Recorded(o, x) => Occupies(o) /\ x \in shape[o].cells

\* An object that is not active, or no longer in a chunk, has left no reference.
NoStaleRefs ==
    \A o \in Objects :
        /\ refChunks[o] = IF Active(o) THEN ChunksOf(shape[o].cells) ELSE {}
        /\ listed[o] \subseteq refChunks[o]
        /\ runtimeCells[o] \subseteq InChunks(listed[o])

OwnershipAgrees == SoleClaim /\ RecordsAgree /\ NoStaleRefs

\* Object o stops occupying cells: it is removed, or placed again as metadata.
Leaves(o) == Occupying(o) /\ ~Occupying(o)'

\* Of an object that leaves, no cell it wrote last stays filled: each is air, or
\* terrain that a generated building restores ("no old roof waits").
LeavingLeavesNothing ==
    [][\A o \in Objects, x \in Cells : Leaves(o) /\ writer[x] = o =>
          block'[x] \in Terrain \cup {Air}]_vars

\* Until somebody uses WorldEdit, an object that leaves changes only cells it wrote
\* last ("a later RemoveObject cannot erase" what another writer put into a cell).
LeavingTakesOnlyOwnWrites ==
    [][~edited => \A o \in Objects, x \in Cells :
          Leaves(o) /\ block'[x] # block[x] => writer[x] = o]_vars

\* "Any explicit cell mutation is a newer writer": the same, WorldEdit included.
LeavingSparesNewerWrites ==
    [][\A o \in Objects, x \in Cells : Leaves(o) /\ block'[x] # block[x] => writer[x] = o]_vars

\* Until then the references decide exactly as the policy promises.
Policy == INSTANCE LastWriterWins WITH owner <- writer
ImplementsLastWriterWins == Policy!Init /\ [][~edited' => [Policy!Next]_Policy!vars]_vars

\* Placing an active object again "without stealing owned voxel cells": what
\* another object claims it keeps.
UpdateStealsNothing ==
    [][\A o, p \in Objects, x \in Cells :
          o # p /\ Occupying(o) /\ shape'[o] # shape[o] /\ Claims(p, x) => Claims(p, x)']_vars

-----------------------------------------------------------------------------
(* The inductive invariant. *)

\* What an object wrote last it still holds: in the references and in the block.
WriterHolds ==
    \A o \in Objects, x \in Cells : writer[x] = o =>
        Occupying(o) /\ Claims(o, x) /\ Recorded(o, x) /\ block[x] = shape[o].fill

\* Before the first WorldEdit the claims are those of the last writers, a recorded cell is
\* as the object left it, and a generated object's record is what it covered.
ClaimsAreLastWrites ==
    ~edited => \A o \in Objects, x \in Cells :
        /\ Claims(o, x) => writer[x] = o
        /\ Active(o) /\ Recorded(o, x) =>
              /\ writer[x] \in {o, Nobody} /\ block[x] = shape[o].fill
              /\ o \in Generated => records[o][x] = covered[x]

\* Only objects that were placed have a shape, one of the menu's, and records.
ShapeInv ==
    \A o \in Objects :
        /\ instance[o] = "none" <=> shape[o] = NoShape
        /\ shape[o] = NoShape => \A x \in Cells : ~Recorded(o, x)
        /\ shape[o] # NoShape => shape[o] \in Menu[o]

OwnershipInv ==
    TypeOK /\ ShapeInv /\ OwnershipAgrees /\ WriterHolds /\ ClaimsAreLastWrites
=============================================================================

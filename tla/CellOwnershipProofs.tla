-------------------------- MODULE CellOwnershipProofs --------------------------
EXTENDS CellOwnership, TLAPS

(* Helpers. *)

LEMMA MenuType ==
    ASSUME NEW o \in Objects, NEW s \in Menu[o]
    PROVE  /\ s \in Shapes /\ s # NoShape
           /\ s.cells \subseteq Cells /\ s.cells # {}
           /\ s.fill \in Blocks /\ s.fill \notin Terrain /\ s.fill # Air
           /\ s.occupies \in BOOLEAN /\ s.semantic \in BOOLEAN
<1>1. s \in Shapes /\ s.cells # {} /\ s.fill \notin Terrain
  BY MenuAssumption
<1>2. s.cells \subseteq Cells /\ s.fill \in Blocks /\ s.occupies \in BOOLEAN /\ s.semantic \in BOOLEAN
  BY <1>1 DEF Shapes
<1> QED BY <1>1, <1>2, AbsentValuesAssumption

LEMMA ChunkTypes ==
    /\ \A S \in SUBSET Cells : ChunksOf(S) \in SUBSET Chunks
    /\ \A C \in SUBSET Chunks : InChunks(C) \in SUBSET Cells
    /\ \A S \in SUBSET Cells : S \subseteq InChunks(ChunksOf(S))
    /\ \A x \in Cells : \A C : x \in InChunks(C) <=> ChunkOf[x] \in C
    /\ \A S : \A x \in S : ChunkOf[x] \in ChunksOf(S)
BY WorldAssumption DEF ChunksOf, InChunks

LEMMA UnderlayType ==
    ASSUME TypeOK, NEW o \in Objects, NEW x \in Cells
    PROVE  Underlay(o, x) \in Terrain \cup {Air} /\ Underlay(o, x) # NoRecord
<1>1. records[o][x] \in Terrain \cup {Air, NoRecord}
  BY DEF TypeOK
<1>2. Underlay(o, x) \in Terrain \cup {Air}
  BY <1>1 DEF Underlay, Recorded
<1> QED BY <1>2, AbsentValuesAssumption, WorldAssumption

(* A cell is vacated only by an object that claims and records it. *)
LEMMA VacatedFacts ==
    ASSUME NEW o \in Objects
    PROVE  /\ Vacated(o) \subseteq Cells
           /\ \A x \in Vacated(o) : Claims(o, x) /\ Recorded(o, x) /\ block[x] = shape[o].fill
BY DEF Vacated

(* A claim no other object shares is not contested. *)
LEMMA NotContested ==
    ASSUME SoleClaim, NEW o \in Objects, NEW x \in Cells, Claims(o, x)
    PROVE  x \notin Contested(o)
BY DEF SoleClaim, Contested

-----------------------------------------------------------------------------
(* What each command does to claims and records. *)

(* A placement claims and records exactly the cells of a voxel object, which
   every other object loses. *)
LEMMA PlaceEffect ==
    ASSUME TypeOK, ShapeInv, NEW o \in Objects, NEW s \in Menu[o], PlaceObject(o, s)
    PROVE  /\ shape' = [shape EXCEPT ![o] = s] /\ shape'[o] = s
           /\ instance' = [instance EXCEPT ![o] = "active"]
           /\ listed' = [listed EXCEPT ![o] = ChunksOf(s.cells)]
           /\ refChunks' = [refChunks EXCEPT ![o] = ChunksOf(s.cells)]
           /\ runtimeCells' \in [Objects -> SUBSET Cells]
           /\ runtimeCells'[o] = s.cells
           /\ \A x \in Cells : /\ Claims(o, x)' <=> s.occupies /\ x \in s.cells
                               /\ Recorded(o, x)' <=> s.occupies /\ x \in s.cells
           /\ \A p \in Objects \ {o}, x \in Cells :
                 /\ Occupies(p)' <=> Occupies(p)
                 /\ runtimeCells'[p] \subseteq runtimeCells[p]
                 /\ Claims(p, x)' <=> Claims(p, x) /\ ~(s.occupies /\ x \in s.cells)
                 /\ Recorded(p, x)' <=> Recorded(p, x) /\
                       ~(s.occupies /\ x \in s.cells /\ ChunkOf[x] \in refChunks[p])
                 /\ Recorded(p, x)' => records'[p][x] = records[p][x]
<1>1. /\ shape' = [shape EXCEPT ![o] = s] /\ shape'[o] = s
      /\ instance' = [instance EXCEPT ![o] = "active"]
      /\ listed' = [listed EXCEPT ![o] = ChunksOf(s.cells)]
      /\ refChunks' = [refChunks EXCEPT ![o] = ChunksOf(s.cells)]
  BY DEF PlaceObject, TypeOK
<1>2. Occupies(o)' <=> s.occupies
  BY <1>1, MenuType DEF Occupies
<1>3. \A p \in Objects \ {o} : Occupies(p)' <=> Occupies(p)
  BY <1>1 DEF Occupies, TypeOK
<1>4. CASE s.occupies
  <2>1. Occupy(o, s)
    BY <1>4 DEF PlaceObject
  <2>2. /\ runtimeCells' = [p \in Objects |-> IF p = o THEN s.cells
                             ELSE IF Occupies(p) THEN runtimeCells[p] \ s.cells ELSE runtimeCells[p]]
        /\ runtimeCells' \in [Objects -> SUBSET Cells]
    BY <2>1, MenuType DEF Occupy, RuntimeDetached, TypeOK
  <2>3. \A x \in Cells : records'[o][x] = IF x \in s.cells THEN Underlay(o, x) ELSE NoRecord
    BY <2>1 DEF Occupy, RecordsDetached
  <2>4. \A p \in Objects \ {o}, x \in Cells : records'[p][x] =
            IF x \in s.cells /\ ChunkOf[x] \in refChunks[p] THEN NoRecord ELSE records[p][x]
    BY <2>1 DEF Occupy, RecordsDetached
  <2>5. \A x \in Cells : Claims(o, x)' <=> x \in s.cells
    BY <1>2, <1>4, <2>2 DEF Claims
  <2>6. \A x \in Cells : Recorded(o, x)' <=> x \in s.cells
    BY <2>3, UnderlayType DEF Recorded
  <2>7. \A p \in Objects \ {o}, x \in Cells : Claims(p, x)' <=> Claims(p, x) /\ x \notin s.cells
    BY <1>3, <2>2 DEF Claims
  <2>8. \A p \in Objects \ {o}, x \in Cells :
            /\ Recorded(p, x)' <=> Recorded(p, x) /\ ~(x \in s.cells /\ ChunkOf[x] \in refChunks[p])
            /\ Recorded(p, x)' => records'[p][x] = records[p][x]
    BY <2>4 DEF Recorded
  <2>9. \A p \in Objects \ {o} : runtimeCells'[p] \subseteq runtimeCells[p]
    BY <2>2
  <2> QED BY <1>1, <1>3, <1>4, <2>2, <2>5, <2>6, <2>7, <2>8, <2>9
<1>5. CASE ~s.occupies
  <2>1. RouteOnly(o, s)
    BY <1>5 DEF PlaceObject
  <2>2. /\ runtimeCells' = [runtimeCells EXCEPT ![o] = s.cells]
        /\ records' = [records EXCEPT ![o] = [x \in Cells |-> NoRecord]]
    BY <2>1 DEF RouteOnly
  <2>3. \A x \in Cells : ~Claims(o, x)' /\ ~Recorded(o, x)'
    BY <1>2, <1>5, <2>2 DEF Claims, Recorded, TypeOK
  <2>4. \A p \in Objects \ {o}, x \in Cells :
            /\ Claims(p, x)' <=> Claims(p, x)
            /\ Recorded(p, x)' <=> Recorded(p, x)
            /\ records'[p][x] = records[p][x] /\ runtimeCells'[p] = runtimeCells[p]
    BY <1>3, <2>2 DEF Claims, Recorded, TypeOK
  <2>5. runtimeCells' \in [Objects -> SUBSET Cells] /\ runtimeCells'[o] = s.cells
    BY <2>2, MenuType DEF TypeOK
  <2>6. \A p \in Objects \ {o} : runtimeCells'[p] \subseteq runtimeCells[p]
    BY <2>2 DEF TypeOK
  <2> QED BY <1>1, <1>3, <1>5, <2>3, <2>4, <2>5, <2>6
<1> QED BY <1>4, <1>5, MenuType

(* Writing one cell: the cell is nobody's, all other claims and records stay
   but for objects dropped from the chunk. *)
LEMMA DetachEffect ==
    ASSUME TypeOK, NEW x \in Cells, UNCHANGED shape,
           records' = RecordsDetached(Nobody, {x}),
           NEW C \in [Objects -> SUBSET Chunks],
           runtimeCells' = [o \in Objects |-> RuntimeDetached(Nobody, {x})[o] \ InChunks(C[o])]
    PROVE  /\ runtimeCells' \in [Objects -> SUBSET Cells]
           /\ \A o \in Objects : runtimeCells'[o] \subseteq runtimeCells[o] \ InChunks(C[o])
           /\ \A o \in Objects, y \in Cells :
                 /\ Occupies(o)' <=> Occupies(o)
                 /\ Claims(o, y)' <=> Claims(o, y) /\ y # x /\ ChunkOf[y] \notin C[o]
                 /\ Recorded(o, y)' <=> Recorded(o, y) /\ ~(y = x /\ ChunkOf[x] \in refChunks[o])
                 /\ Recorded(o, y)' => records'[o][y] = records[o][y]
<1>1. \A o \in Objects : Occupies(o)' <=> Occupies(o)
  BY DEF Occupies
<1>2. \A o \in Objects : runtimeCells'[o] =
          (IF Occupies(o) THEN runtimeCells[o] \ {x} ELSE runtimeCells[o]) \ InChunks(C[o])
  BY AbsentValuesAssumption DEF RuntimeDetached
<1>3. \A o \in Objects, y \in Cells : records'[o][y] =
          IF y = x /\ ChunkOf[y] \in refChunks[o] THEN NoRecord ELSE records[o][y]
  BY AbsentValuesAssumption DEF RecordsDetached
<1>4. runtimeCells' \in [Objects -> SUBSET Cells]
  BY <1>2 DEF TypeOK
<1>5. \A o \in Objects, y \in Cells :
          Claims(o, y)' <=> Claims(o, y) /\ y # x /\ ChunkOf[y] \notin C[o]
  <2>1. \A o \in Objects, y \in Cells : y \in InChunks(C[o]) <=> ChunkOf[y] \in C[o]
    BY DEF InChunks
  <2> QED BY <1>1, <1>2, <2>1 DEF Claims
<1>6. \A o \in Objects, y \in Cells :
          /\ Recorded(o, y)' <=> Recorded(o, y) /\ ~(y = x /\ ChunkOf[x] \in refChunks[o])
          /\ Recorded(o, y)' => records'[o][y] = records[o][y]
  BY <1>3 DEF Recorded
<1>7. \A o \in Objects : runtimeCells'[o] \subseteq runtimeCells[o] \ InChunks(C[o])
  BY <1>2
<1> QED BY <1>1, <1>4, <1>5, <1>6, <1>7

-----------------------------------------------------------------------------
(* PlaceObject preserves the invariant. *)

LEMMA PlaceTyped ==
    ASSUME TypeOK, ShapeInv, NEW o \in Objects, NEW s \in Menu[o], PlaceObject(o, s)
    PROVE  TypeOK' /\ ShapeInv'
<1>1. /\ instance' \in [Objects -> {"none", "active", "removed"}]
      /\ shape' \in [Objects -> Shapes \cup {NoShape}]
      /\ listed' \in [Objects -> SUBSET Chunks]
      /\ refChunks' \in [Objects -> SUBSET Chunks]
      /\ runtimeCells' \in [Objects -> SUBSET Cells]
  <2>1. s \in Shapes /\ ChunksOf(s.cells) \in SUBSET Chunks
    BY MenuType, ChunkTypes
  <2>2. /\ instance' = [instance EXCEPT ![o] = "active"]
        /\ shape' = [shape EXCEPT ![o] = s]
    BY PlaceEffect
  <2>3. /\ listed' = [listed EXCEPT ![o] = ChunksOf(s.cells)]
        /\ refChunks' = [refChunks EXCEPT ![o] = ChunksOf(s.cells)]
        /\ runtimeCells' \in [Objects -> SUBSET Cells]
    BY PlaceEffect
  <2>4. instance' \in [Objects -> {"none", "active", "removed"}] /\ shape' \in [Objects -> Shapes \cup {NoShape}]
    BY <2>1, <2>2 DEF TypeOK
  <2>5. listed' \in [Objects -> SUBSET Chunks] /\ refChunks' \in [Objects -> SUBSET Chunks]
    BY <2>1, <2>3 DEF TypeOK
  <2> QED BY <2>3, <2>4, <2>5
<1>2. /\ block' \in [Cells -> Blocks \cup {Air}]
      /\ records' \in [Objects -> [Cells -> Terrain \cup {Air, NoRecord}]]
      /\ writer' \in [Cells -> Objects \cup {Nobody}]
      /\ covered' \in [Cells -> Terrain \cup {Air}]
  <2>1. CASE s.occupies
    <3>1. Occupy(o, s)
      BY <2>1 DEF PlaceObject
    <3>2. RecordsDetached(o, s.cells) \in [Objects -> [Cells -> Terrain \cup {Air, NoRecord}]]
      BY DEF RecordsDetached, TypeOK
    <3>3. [x \in Cells |-> IF x \in s.cells THEN Underlay(o, x) ELSE NoRecord]
             \in [Cells -> Terrain \cup {Air, NoRecord}]
      BY UnderlayType
    <3>4. records' \in [Objects -> [Cells -> Terrain \cup {Air, NoRecord}]]
      BY <3>1, <3>2, <3>3 DEF Occupy
    <3>5. block' \in [Cells -> Blocks \cup {Air}]
      BY <3>1, MenuType DEF Occupy, TypeOK
    <3>6. writer' \in [Cells -> Objects \cup {Nobody}] /\ covered' \in [Cells -> Terrain \cup {Air}]
      BY <3>1 DEF Occupy, TypeOK
    <3> QED BY <3>4, <3>5, <3>6
  <2>2. CASE ~s.occupies
    <3>1. RouteOnly(o, s)
      BY <2>2 DEF PlaceObject
    <3>2. PICK cleared \in SUBSET Vacated(o) :
             /\ block' = [x \in Cells |-> IF x \in cleared THEN Air ELSE block[x]]
             /\ records' = [records EXCEPT ![o] = [x \in Cells |-> NoRecord]]
             /\ Forget(cleared)
      BY <3>1 DEF RouteOnly
    <3>3. [x \in Cells |-> NoRecord] \in [Cells -> Terrain \cup {Air, NoRecord}]
      OBVIOUS
    <3>4. records' \in [Objects -> [Cells -> Terrain \cup {Air, NoRecord}]]
      BY <3>2, <3>3 DEF TypeOK
    <3>5. block' \in [Cells -> Blocks \cup {Air}]
      BY <3>2 DEF TypeOK
    <3>6. writer' \in [Cells -> Objects \cup {Nobody}] /\ covered' \in [Cells -> Terrain \cup {Air}]
      BY <3>2 DEF Forget, Disown, Uncover, TypeOK
    <3> QED BY <3>4, <3>5, <3>6
  <2> QED BY <2>1, <2>2, MenuType
<1>3. ShapeInv'
  <2> SUFFICES ASSUME NEW p \in Objects
               PROVE  /\ instance'[p] = "none" <=> shape'[p] = NoShape
                      /\ shape'[p] = NoShape => \A x \in Cells : ~Recorded(p, x)'
                      /\ shape'[p] # NoShape => shape'[p] \in Menu[p]
    BY DEF ShapeInv
  <2>1. instance'[p] = (IF p = o THEN "active" ELSE instance[p])
    BY PlaceEffect DEF TypeOK
  <2>2. shape'[p] = (IF p = o THEN s ELSE shape[p])
    BY PlaceEffect DEF TypeOK
  <2>3. shape'[p] = NoShape => \A x \in Cells : ~Recorded(p, x)'
    BY <2>2, PlaceEffect, MenuType DEF ShapeInv
  <2> QED BY <2>1, <2>2, <2>3, MenuType DEF ShapeInv
<1>4. edited' \in BOOLEAN
  BY DEF PlaceObject, TypeOK
<1> QED BY <1>1, <1>2, <1>3, <1>4 DEF TypeOK

LEMMA PlaceAgrees ==
    ASSUME TypeOK, ShapeInv, OwnershipAgrees, NEW o \in Objects, NEW s \in Menu[o],
           PlaceObject(o, s)
    PROVE  OwnershipAgrees'
<1>1. \A p \in Objects \ {o} : /\ Active(p)' <=> Active(p)
                               /\ shape'[p] = shape[p] /\ listed'[p] = listed[p]
                               /\ refChunks'[p] = refChunks[p]
  BY PlaceEffect DEF Active, TypeOK
<1>2. /\ Active(o)' /\ shape'[o] = s
      /\ listed'[o] = ChunksOf(s.cells) /\ refChunks'[o] = ChunksOf(s.cells)
      /\ Occupies(o)' <=> s.occupies
  BY PlaceEffect, MenuType DEF Active, TypeOK, Occupies
<1>3. \A p \in Objects, x \in Cells :
          Active(p) /\ Recorded(p, x) => ChunkOf[x] \in refChunks[p]
  BY ChunkTypes DEF OwnershipAgrees, RecordsAgree, NoStaleRefs
<1>4. SoleClaim'
  <2> SUFFICES ASSUME NEW p \in Objects, NEW q \in Objects, NEW x \in Cells
               PROVE  /\ Claims(p, x)' /\ Claims(q, x)' => p = q
                      /\ Active(p)' /\ Active(q)' /\ Recorded(p, x)' /\ Recorded(q, x)' => p = q
    BY DEF SoleClaim
  <2>1. Claims(p, x)' /\ Claims(q, x)' => p = q
    BY PlaceEffect DEF OwnershipAgrees, SoleClaim
  <2>2. Active(p)' /\ Active(q)' /\ Recorded(p, x)' /\ Recorded(q, x)' => p = q
    BY <1>1, <1>3, PlaceEffect DEF OwnershipAgrees, SoleClaim
  <2> QED BY <2>1, <2>2
<1>5. RecordsAgree'
  <2> SUFFICES ASSUME NEW p \in Objects, NEW x \in Cells, Active(p)'
               PROVE  /\ Claims(p, x)' <=> Occupies(p)' /\ Recorded(p, x)' /\ ChunkOf[x] \in listed'[p]
                      /\ Recorded(p, x)' => Occupies(p)' /\ x \in shape'[p].cells
    BY DEF RecordsAgree
  <2>1. CASE p = o
    BY <1>2, <2>1, PlaceEffect, ChunkTypes
  <2>2. CASE p # o
    BY <1>1, <1>3, <2>2, PlaceEffect DEF OwnershipAgrees, RecordsAgree
  <2> QED BY <2>1, <2>2
<1>6. NoStaleRefs'
  <2> SUFFICES ASSUME NEW p \in Objects
               PROVE  /\ refChunks'[p] = IF Active(p)' THEN ChunksOf(shape'[p].cells) ELSE {}
                      /\ listed'[p] \subseteq refChunks'[p]
                      /\ runtimeCells'[p] \subseteq InChunks(listed'[p])
    BY DEF NoStaleRefs, InChunks, ChunksOf
  <2>1. CASE p = o
    BY <1>2, <2>1, PlaceEffect, MenuType, ChunkTypes
  <2>2. CASE p # o
    BY <1>1, <2>2, PlaceEffect DEF OwnershipAgrees, NoStaleRefs
  <2> QED BY <2>1, <2>2
<1> QED BY <1>4, <1>5, <1>6 DEF OwnershipAgrees

(* A voxel object that is placed again covers every cell it wrote. *)
LEMMA UpdateCovers ==
    ASSUME TypeOK, ShapeInv, OwnershipAgrees, WriterHolds,
           NEW o \in Objects, NEW s \in Menu[o], PlaceObject(o, s), s.occupies,
           NEW x \in Cells, writer[x] = o
    PROVE  x \in s.cells
<1>1. Occupying(o) /\ x \in shape[o].cells
  BY DEF WriterHolds, OwnershipAgrees, RecordsAgree, Occupying
<1>2. CompatibleUpdate(shape[o], s)
  BY <1>1 DEF PlaceObject, Occupying
<1>3. shape[o].occupies
  BY <1>1 DEF Occupying, Occupies
<1> QED BY <1>1, <1>2, <1>3 DEF CompatibleUpdate

(* A metadata-only placement clears what the object vacates. *)
LEMMA RouteClears ==
    ASSUME SoleClaim, NEW o \in Objects, NEW s \in Menu[o], PlaceObject(o, s), ~s.occupies
    PROVE  /\ block' = [x \in Cells |-> IF x \in Vacated(o) THEN Air ELSE block[x]]
           /\ Forget(Vacated(o))
<1>1. RouteOnly(o, s)
  BY DEF PlaceObject
<1>2. PICK lost \in SUBSET Contested(o) :
         /\ block' = [x \in Cells |-> IF x \in Vacated(o) \ lost THEN Air ELSE block[x]]
         /\ Forget(Vacated(o) \ lost)
  BY <1>1 DEF RouteOnly
<1>3. Vacated(o) \ lost = Vacated(o)
  BY VacatedFacts, NotContested
<1> QED BY <1>2, <1>3

LEMMA PlaceHolds ==
    ASSUME OwnershipInv, NEW o \in Objects, NEW s \in Menu[o], PlaceObject(o, s)
    PROVE  WriterHolds' /\ ClaimsAreLastWrites'
<1> USE DEF OwnershipInv
<1>0. edited' = edited
  BY DEF PlaceObject
<1>1. /\ \A p \in Objects \ {o} : /\ Active(p)' <=> Active(p)
                                  /\ shape'[p] = shape[p]
      /\ Active(o)' /\ shape'[o] = s /\ (Occupies(o)' <=> s.occupies)
  BY PlaceEffect, MenuType DEF Active, Occupies, TypeOK
<1>2. \A p \in Objects, x \in Cells :
          Active(p) /\ Recorded(p, x) => ChunkOf[x] \in refChunks[p]
  BY ChunkTypes DEF OwnershipAgrees, RecordsAgree, NoStaleRefs
<1>3. CASE s.occupies
  <2>1. \A x \in Cells :
           /\ block'[x] = IF x \in s.cells THEN s.fill ELSE block[x]
           /\ writer'[x] = IF x \in s.cells THEN o ELSE writer[x]
           /\ covered'[x] = IF x \notin s.cells \/ writer[x] = o THEN covered[x]
                            ELSE IF block[x] \in Terrain THEN block[x]
                            ELSE IF TakesBack(o, x) THEN covered[x] ELSE Air
    BY <1>3 DEF PlaceObject, Occupy
  <2>2. \A x \in s.cells : records'[o][x] = Underlay(o, x)
    BY <1>3, MenuType DEF PlaceObject, Occupy, RecordsDetached, TypeOK
  <2>3. ASSUME NEW p \in Objects, NEW x \in Cells, writer'[x] = p
        PROVE  Occupying(p)' /\ Claims(p, x)' /\ Recorded(p, x)' /\ block'[x] = shape'[p].fill
    <3>1. CASE x \in s.cells
      BY <1>1, <1>3, <2>1, <2>3, <3>1, PlaceEffect DEF Occupying
    <3>2. CASE x \notin s.cells
      <4>1. writer[x] = p /\ p # o
        BY <1>3, <2>1, <2>3, <3>2, UpdateCovers
      <4> QED BY <1>1, <2>1, <3>2, <4>1, PlaceEffect DEF WriterHolds, Occupying
    <3> QED BY <3>1, <3>2
  <2>4. ASSUME ~edited, NEW p \in Objects, NEW x \in Cells, Claims(p, x)'
        PROVE  writer'[x] = p
    BY <1>3, <2>1, <2>4, PlaceEffect DEF ClaimsAreLastWrites
  <2>5. ASSUME ~edited, NEW p \in Objects, NEW x \in Cells, Active(p)', Recorded(p, x)'
        PROVE  /\ writer'[x] \in {p, Nobody} /\ block'[x] = shape'[p].fill
               /\ p \in Generated => records'[p][x] = covered'[x]
    <3>1. CASE p = o
      <4>1. x \in s.cells
        BY <2>5, <3>1, PlaceEffect
      <4>2. o \in Generated => Underlay(o, x) = covered'[x]
        <5>1. Active(o) \/ ~Recorded(o, x)
          BY DEF ShapeInv, PlaceObject, Active, TypeOK
        <5>2. writer[x] = o => Active(o) /\ Recorded(o, x)
          BY DEF WriterHolds, Occupying
        <5>3. Active(o) => shape[o].fill \notin Terrain
          BY MenuType DEF Active, ShapeInv
        <5> QED BY <2>1, <2>5, <4>1, <5>1, <5>2, <5>3 DEF Underlay, ClaimsAreLastWrites, TakesBack
      <4> QED BY <1>1, <2>1, <2>2, <3>1, <4>1, <4>2
    <3>2. CASE p # o
      <4>1. Active(p) /\ Recorded(p, x) /\ x \notin s.cells /\ records'[p][x] = records[p][x]
        BY <1>1, <1>2, <1>3, <2>5, <3>2, PlaceEffect
      <4> QED BY <1>1, <2>1, <2>5, <3>2, <4>1 DEF ClaimsAreLastWrites
    <3> QED BY <3>1, <3>2
  <2> QED BY <1>0, <2>3, <2>4, <2>5 DEF WriterHolds, ClaimsAreLastWrites
<1>4. CASE ~s.occupies
  <2>1. \A x \in Cells :
           /\ block'[x] = IF x \in Vacated(o) THEN Air ELSE block[x]
           /\ writer'[x] = IF x \in Vacated(o) THEN Nobody ELSE writer[x]
           /\ covered'[x] = IF x \in Vacated(o) THEN Air ELSE covered[x]
    BY <1>4, RouteClears DEF OwnershipAgrees, Forget, Disown, Uncover
  <2>2. ASSUME NEW p \in Objects, NEW x \in Cells, writer'[x] = p
        PROVE  Occupying(p)' /\ Claims(p, x)' /\ Recorded(p, x)' /\ block'[x] = shape'[p].fill
    <3>1. x \notin Vacated(o) /\ writer[x] = p
      BY <2>1, <2>2, AbsentValuesAssumption
    <3>2. p # o
      BY <1>2, <3>1 DEF WriterHolds, Vacated, Occupying
    <3> QED BY <1>1, <1>4, <2>1, <3>1, <3>2, PlaceEffect DEF WriterHolds, Occupying
  <2>3. \A p \in Objects \ {o}, x \in Cells :
           /\ Claims(p, x) => x \notin Vacated(o)
           /\ Active(p) /\ Recorded(p, x) => x \notin Vacated(o)
    BY VacatedFacts DEF OwnershipAgrees, SoleClaim, Vacated, NoStaleRefs
  <2>4. ASSUME ~edited, NEW p \in Objects, NEW x \in Cells, Claims(p, x)'
        PROVE  writer'[x] = p
    <3>1. p # o /\ Claims(p, x)
      BY <1>4, <2>4, PlaceEffect
    <3>2. x \notin Vacated(o)
      BY <2>3, <3>1
    <3>3. writer[x] = p
      BY <2>4, <3>1 DEF ClaimsAreLastWrites
    <3> QED BY <2>1, <3>2, <3>3
  <2>5. ASSUME ~edited, NEW p \in Objects, NEW x \in Cells, Active(p)', Recorded(p, x)'
        PROVE  /\ writer'[x] \in {p, Nobody} /\ block'[x] = shape'[p].fill
               /\ p \in Generated => records'[p][x] = covered'[x]
    <3>1. p # o /\ Active(p) /\ Recorded(p, x) /\ records'[p][x] = records[p][x]
      BY <1>1, <1>4, <2>5, PlaceEffect
    <3> QED BY <1>1, <2>1, <2>3, <2>5, <3>1 DEF ClaimsAreLastWrites
  <2> QED BY <1>0, <2>2, <2>4, <2>5 DEF WriterHolds, ClaimsAreLastWrites
<1> QED BY <1>3, <1>4, MenuType

-----------------------------------------------------------------------------
(* A write of one cell x, which may take objects o out of the chunks C[o]. *)

UserWrite(x, b, C) ==
    /\ block' = [block EXCEPT ![x] = b]
    /\ listed' = [o \in Objects |-> listed[o] \ C[o]]
    /\ runtimeCells' = [o \in Objects |-> RuntimeDetached(Nobody, {x})[o] \ InChunks(C[o])]
    /\ records' = RecordsDetached(Nobody, {x})
    /\ writer' = [y \in Cells |->
          IF y = x \/ (writer[y] \in Objects /\ ChunkOf[y] \in C[writer[y]]) THEN Nobody ELSE writer[y]]
    /\ covered' = [y \in Cells |-> IF y = x THEN Air ELSE covered[y]]
    /\ UNCHANGED <<instance, shape, refChunks, edited>>

LEMMA SetBlockIsUserWrite ==
    ASSUME TypeOK, NEW x \in Cells, NEW b \in Blocks, SetBlock(x, b)
    PROVE  UserWrite(x, b, [o \in Objects |-> {}])
<1> DEFINE C == [o \in Objects |-> {}]
<1>1. \A o \in Objects : InChunks(C[o]) = {} /\ listed[o] \ C[o] = listed[o]
  BY DEF InChunks
<1>2. listed' = [o \in Objects |-> listed[o] \ C[o]]
  BY <1>1 DEF SetBlock, TypeOK
<1>3. runtimeCells' = [o \in Objects |-> RuntimeDetached(Nobody, {x})[o] \ InChunks(C[o])]
  BY <1>1 DEF SetBlock, RuntimeDetached
<1>4. writer' = [y \in Cells |->
          IF y = x \/ (writer[y] \in Objects /\ ChunkOf[y] \in C[writer[y]]) THEN Nobody ELSE writer[y]]
  BY DEF SetBlock, Forget, Disown
<1>5. covered' = [y \in Cells |-> IF y = x THEN Air ELSE covered[y]]
  BY DEF SetBlock, Forget, Uncover
<1> QED BY <1>2, <1>3, <1>4, <1>5 DEF SetBlock, UserWrite

LEMMA RemoveBlockIsUserWrite ==
    ASSUME TypeOK, NEW x \in Cells, RemoveBlock(x)
    PROVE  \E C \in [Objects -> SUBSET Chunks] : UserWrite(x, Air, C)
<1> DEFINE C == [o \in Objects |-> IF o \in Dropped(x) THEN {ChunkOf[x]} ELSE {}]
<1>1. C \in [Objects -> SUBSET Chunks]
  BY WorldAssumption
<1>2. writer' = [y \in Cells |->
          IF y = x \/ (writer[y] \in Objects /\ ChunkOf[y] \in C[writer[y]]) THEN Nobody ELSE writer[y]]
  <2>1. \A y \in Cells : (writer[y] \in Dropped(x) /\ ChunkOf[y] = ChunkOf[x])
                           <=> (writer[y] \in Objects /\ ChunkOf[y] \in C[writer[y]])
    BY DEF Dropped
  <2>2. writer' = [y \in Cells |->
           IF y \in {x} \cup {z \in Cells : writer[z] \in Dropped(x) /\ ChunkOf[z] = ChunkOf[x]}
           THEN Nobody ELSE writer[y]]
    BY DEF RemoveBlock, Disown
  <2> QED BY <2>1, <2>2
<1>3. covered' = [y \in Cells |-> IF y = x THEN Air ELSE covered[y]]
  BY DEF RemoveBlock, Uncover
<1>4. UserWrite(x, Air, C)
  BY <1>2, <1>3 DEF RemoveBlock, UserWrite
<1> QED BY <1>1, <1>4

LEMMA UserWritePreserves ==
    ASSUME OwnershipInv, NEW x \in Cells, NEW b \in Blocks \cup {Air},
           NEW C \in [Objects -> SUBSET Chunks], UserWrite(x, b, C)
    PROVE  OwnershipInv'
<1> USE DEF OwnershipInv
<1>1. /\ runtimeCells' \in [Objects -> SUBSET Cells]
      /\ \A o \in Objects : runtimeCells'[o] \subseteq runtimeCells[o] \ InChunks(C[o])
      /\ \A o \in Objects, y \in Cells :
            /\ Occupies(o)' <=> Occupies(o)
            /\ Claims(o, y)' <=> Claims(o, y) /\ y # x /\ ChunkOf[y] \notin C[o]
            /\ Recorded(o, y)' <=> Recorded(o, y) /\ ~(y = x /\ ChunkOf[x] \in refChunks[o])
            /\ Recorded(o, y)' => records'[o][y] = records[o][y]
  BY DetachEffect DEF UserWrite
<1>2. \A o \in Objects : /\ Active(o)' <=> Active(o)
                         /\ listed'[o] = listed[o] \ C[o]
                         /\ shape'[o] = shape[o] /\ refChunks'[o] = refChunks[o]
  BY DEF UserWrite, Active
<1>3. \A o \in Objects, y \in Cells :
          Active(o) /\ Recorded(o, y) => ChunkOf[y] \in refChunks[o]
  BY ChunkTypes DEF OwnershipAgrees, RecordsAgree, NoStaleRefs
<1>4. TypeOK'
  <2>1. records' \in [Objects -> [Cells -> Terrain \cup {Air, NoRecord}]]
    BY DEF UserWrite, RecordsDetached, TypeOK
  <2>2. block' \in [Cells -> Blocks \cup {Air}] /\ listed' \in [Objects -> SUBSET Chunks]
    BY DEF UserWrite, TypeOK
  <2>3. writer' \in [Cells -> Objects \cup {Nobody}] /\ covered' \in [Cells -> Terrain \cup {Air}]
    BY DEF UserWrite, TypeOK
  <2>4. instance' = instance /\ shape' = shape /\ refChunks' = refChunks /\ edited' = edited
    BY DEF UserWrite
  <2> QED BY <1>1, <2>1, <2>2, <2>3, <2>4 DEF TypeOK
<1>5. ShapeInv'
  BY <1>1 DEF UserWrite, ShapeInv
<1>6. OwnershipAgrees'
  <2>1. SoleClaim'
    BY <1>1, <1>2 DEF OwnershipAgrees, SoleClaim
  <2>2. RecordsAgree'
    <3> SUFFICES ASSUME NEW o \in Objects, NEW y \in Cells, Active(o)'
                 PROVE  /\ Claims(o, y)' <=> Occupies(o)' /\ Recorded(o, y)' /\ ChunkOf[y] \in listed'[o]
                        /\ Recorded(o, y)' => Occupies(o)' /\ y \in shape'[o].cells
      BY DEF RecordsAgree
    <3> QED BY <1>1, <1>2, <1>3 DEF OwnershipAgrees, RecordsAgree
  <2>3. NoStaleRefs'
    <3> SUFFICES ASSUME NEW o \in Objects
                 PROVE  /\ refChunks'[o] = IF Active(o)' THEN ChunksOf(shape'[o].cells) ELSE {}
                        /\ listed'[o] \subseteq refChunks'[o]
                        /\ runtimeCells'[o] \subseteq InChunks(listed'[o])
      BY DEF NoStaleRefs, InChunks, ChunksOf
    <3>1. runtimeCells[o] \ InChunks(C[o]) \subseteq InChunks(listed[o] \ C[o])
      BY DEF OwnershipAgrees, NoStaleRefs, InChunks
    <3> QED BY <1>1, <1>2, <3>1 DEF OwnershipAgrees, NoStaleRefs
  <2> QED BY <2>1, <2>2, <2>3 DEF OwnershipAgrees
<1>7. \A y \in Cells : /\ block'[y] = IF y = x THEN b ELSE block[y]
                       /\ covered'[y] = IF y = x THEN Air ELSE covered[y]
                       /\ writer'[y] = IF y = x \/ (writer[y] \in Objects /\ ChunkOf[y] \in C[writer[y]])
                                       THEN Nobody ELSE writer[y]
  BY DEF UserWrite, TypeOK
<1>8. WriterHolds'
  <2> SUFFICES ASSUME NEW o \in Objects, NEW y \in Cells, writer'[y] = o
               PROVE  Occupying(o)' /\ Claims(o, y)' /\ Recorded(o, y)' /\ block'[y] = shape'[o].fill
    BY DEF WriterHolds
  <2>1. y # x /\ writer[y] = o /\ ChunkOf[y] \notin C[o]
    BY <1>7, AbsentValuesAssumption
  <2> QED BY <1>1, <1>2, <1>7, <2>1 DEF WriterHolds, Occupying
<1>9. ClaimsAreLastWrites'
  <2>1. ASSUME ~edited, NEW o \in Objects, NEW y \in Cells, Claims(o, y)'
        PROVE  writer'[y] = o
    BY <1>1, <1>7, <2>1 DEF ClaimsAreLastWrites
  <2>2. ASSUME ~edited, NEW o \in Objects, NEW y \in Cells, Active(o)', Recorded(o, y)'
        PROVE  /\ writer'[y] \in {o, Nobody} /\ block'[y] = shape'[o].fill
               /\ o \in Generated => records'[o][y] = covered'[y]
    <3>1. Active(o) /\ Recorded(o, y) /\ y # x /\ records'[o][y] = records[o][y]
      BY <1>1, <1>2, <1>3, <2>2
    <3> QED BY <1>2, <1>7, <2>2, <3>1 DEF ClaimsAreLastWrites
  <2>3. edited' = edited
    BY DEF UserWrite
  <2> QED BY <2>1, <2>2, <2>3 DEF ClaimsAreLastWrites
<1> QED BY <1>4, <1>5, <1>6, <1>8, <1>9

-----------------------------------------------------------------------------
(* WorldEdit writes cells and nothing else. *)

LEMMA WorldEditPreserves ==
    ASSUME OwnershipInv, NEW e \in Edits, WorldEdit(e)
    PROVE  OwnershipInv'
<1> DEFINE changed == {x \in DOMAIN e.to : block[x] \in e.over /\ block[x] # e.to[x]}
<1> USE DEF OwnershipInv
<1>1. PICK S \in SUBSET Cells : e.to \in [S -> Blocks \cup {Air}]
  BY MenuAssumption DEF EditPlans
<1>2. \A x \in Cells : /\ block'[x] = IF x \in changed THEN e.to[x] ELSE block[x]
                       /\ writer'[x] = IF x \in changed THEN Nobody ELSE writer[x]
                       /\ covered'[x] = IF x \in changed THEN Air ELSE covered[x]
  BY DEF WorldEdit, Forget, Disown, Uncover
<1>3. \A o \in Objects, x \in Cells :
         /\ Active(o)' <=> Active(o)
         /\ Occupies(o)' <=> Occupies(o)
         /\ Claims(o, x)' <=> Claims(o, x)
         /\ Recorded(o, x)' <=> Recorded(o, x)
         /\ shape'[o] = shape[o]
  <2>1. UNCHANGED <<instance, shape, runtimeCells, records>>
    BY DEF WorldEdit, refs
  <2> QED BY <2>1 DEF Active, Occupies, Claims, Recorded
<1>4. TypeOK'
  <2>1. block' \in [Cells -> Blocks \cup {Air}]
    BY <1>1 DEF WorldEdit, TypeOK
  <2>2. writer' \in [Cells -> Objects \cup {Nobody}] /\ covered' \in [Cells -> Terrain \cup {Air}]
    BY DEF WorldEdit, Forget, Disown, Uncover, TypeOK
  <2> QED BY <2>1, <2>2 DEF WorldEdit, refs, TypeOK
<1>5. ShapeInv'
  BY DEF WorldEdit, refs, ShapeInv, Recorded
<1>6. OwnershipAgrees'
  BY DEF WorldEdit, refs, OwnershipAgrees, SoleClaim, RecordsAgree, NoStaleRefs,
         Active, Occupies, Claims, Recorded
<1>7. WriterHolds'
  <2> SUFFICES ASSUME NEW o \in Objects, NEW x \in Cells, writer'[x] = o
               PROVE  Occupying(o)' /\ Claims(o, x)' /\ Recorded(o, x)' /\ block'[x] = shape'[o].fill
    BY DEF WriterHolds
  <2>1. x \notin changed /\ writer[x] = o
    BY <1>2, AbsentValuesAssumption
  <2> HIDE DEF changed
  <2> QED BY <1>2, <1>3, <2>1 DEF WriterHolds, Occupying
<1>8. ClaimsAreLastWrites'
  BY DEF ClaimsAreLastWrites, WorldEdit
<1> QED BY <1>4, <1>5, <1>6, <1>7, <1>8

-----------------------------------------------------------------------------
(* RemoveObject clears what the object vacates and drops its references. *)

LEMMA RemoveEffect ==
    ASSUME OwnershipInv, NEW o \in Objects, RemoveObject(o)
    PROVE  /\ \A x \in Cells :
                 /\ block'[x] = IF x \notin Vacated(o) THEN block[x]
                                ELSE IF o \in Generated THEN records[o][x] ELSE Air
                 /\ writer'[x] = IF x \in Vacated(o) THEN Nobody ELSE writer[x]
                 /\ covered'[x] = IF x \in Vacated(o) THEN Air ELSE covered[x]
           /\ \A p \in Objects :
                 /\ Active(p)' <=> Active(p) /\ p # o
                 /\ listed'[p] = IF p = o THEN {} ELSE listed[p]
                 /\ refChunks'[p] = IF p = o THEN {} ELSE refChunks[p]
                 /\ runtimeCells'[p] = IF p = o THEN {} ELSE runtimeCells[p]
                 /\ Occupies(p)' <=> Occupies(p)
           /\ \A p \in Objects, x \in Cells :
                 /\ Claims(p, x)' <=> Claims(p, x) /\ p # o
                 /\ Recorded(p, x)' <=> Recorded(p, x)
           /\ UNCHANGED <<shape, records, edited>>
<1> USE DEF OwnershipInv
<1>1. PICK lost \in SUBSET Contested(o) :
         LET cleared == IF Occupies(o) THEN Vacated(o) \ lost ELSE {} IN
         /\ block' = [x \in Cells |->
               IF x \notin cleared THEN block[x]
               ELSE IF o \in Generated THEN records[o][x] ELSE Air]
         /\ Forget(cleared)
  BY DEF RemoveObject
<1>2. (IF Occupies(o) THEN Vacated(o) \ lost ELSE {}) = Vacated(o)
  <2>1. Vacated(o) \ lost = Vacated(o)
    BY <1>1, VacatedFacts, NotContested DEF OwnershipAgrees
  <2>2. ~Occupies(o) => Vacated(o) = {}
    BY DEF Vacated, Claims
  <2> QED BY <2>1, <2>2
<1>3. \A x \in Cells :
         /\ block'[x] = IF x \notin Vacated(o) THEN block[x]
                        ELSE IF o \in Generated THEN records[o][x] ELSE Air
         /\ writer'[x] = IF x \in Vacated(o) THEN Nobody ELSE writer[x]
         /\ covered'[x] = IF x \in Vacated(o) THEN Air ELSE covered[x]
  BY <1>1, <1>2 DEF Forget, Disown, Uncover
<1>4. listed[o] \ refChunks[o] = {} /\ runtimeCells[o] \ InChunks(refChunks[o]) = {}
  BY DEF OwnershipAgrees, NoStaleRefs, InChunks
<1>5. \A p \in Objects :
         /\ Active(p)' <=> Active(p) /\ p # o
         /\ listed'[p] = IF p = o THEN {} ELSE listed[p]
         /\ refChunks'[p] = IF p = o THEN {} ELSE refChunks[p]
         /\ runtimeCells'[p] = IF p = o THEN {} ELSE runtimeCells[p]
         /\ Occupies(p)' <=> Occupies(p)
  BY <1>4 DEF RemoveObject, TypeOK, Active, Occupies
<1>6. UNCHANGED <<shape, records, edited>>
  BY DEF RemoveObject
<1>7. \A p \in Objects, x \in Cells :
         /\ Claims(p, x)' <=> Claims(p, x) /\ p # o
         /\ Recorded(p, x)' <=> Recorded(p, x)
  BY <1>5, <1>6 DEF Claims, Recorded
<1> QED BY <1>3, <1>5, <1>6, <1>7

LEMMA RemovePreserves ==
    ASSUME OwnershipInv, NEW o \in Objects, RemoveObject(o)
    PROVE  OwnershipInv'
<1> USE DEF OwnershipInv
<1>1. TypeOK'
  <2>1. block' \in [Cells -> Blocks \cup {Air}]
    <3>1. PICK cleared \in SUBSET Cells : block' = [x \in Cells |->
             IF x \notin cleared THEN block[x] ELSE IF o \in Generated THEN records[o][x] ELSE Air]
      BY VacatedFacts DEF RemoveObject
    <3>2. \A x \in Cells : block'[x] \in Blocks \cup {Air}
      <4> SUFFICES ASSUME NEW x \in Cells PROVE block'[x] \in Blocks \cup {Air}
        OBVIOUS
      <4>1. x \in Vacated(o) => records[o][x] \in Terrain \cup {Air}
        BY VacatedFacts DEF Recorded, TypeOK
      <4> QED BY <4>1, RemoveEffect, WorldAssumption DEF TypeOK
    <3> QED BY <3>1, <3>2
  <2>2. /\ instance' \in [Objects -> {"none", "active", "removed"}]
        /\ listed' \in [Objects -> SUBSET Chunks] /\ refChunks' \in [Objects -> SUBSET Chunks]
        /\ runtimeCells' \in [Objects -> SUBSET Cells]
        /\ UNCHANGED <<shape, records, edited>>
    BY DEF RemoveObject, TypeOK
  <2>3. writer' \in [Cells -> Objects \cup {Nobody}] /\ covered' \in [Cells -> Terrain \cup {Air}]
    BY DEF RemoveObject, Forget, Disown, Uncover, TypeOK
  <2> QED BY <2>1, <2>2, <2>3 DEF TypeOK
<1>2. ShapeInv'
  BY DEF RemoveObject, TypeOK, ShapeInv, Recorded, Active
<1>3. OwnershipAgrees'
  <2>1. SoleClaim'
    BY RemoveEffect DEF OwnershipAgrees, SoleClaim
  <2>2. RecordsAgree'
    BY RemoveEffect DEF OwnershipAgrees, RecordsAgree
  <2>3. NoStaleRefs'
    BY RemoveEffect DEF OwnershipAgrees, NoStaleRefs, InChunks, ChunksOf
  <2> QED BY <2>1, <2>2, <2>3 DEF OwnershipAgrees
<1>4. \A p \in Objects \ {o}, x \in Cells :
         /\ Claims(p, x) => x \notin Vacated(o)
         /\ Active(p) /\ Recorded(p, x) => x \notin Vacated(o)
  BY VacatedFacts DEF OwnershipAgrees, SoleClaim, RemoveObject
<1>5. ASSUME NEW p \in Objects, NEW x \in Cells, writer'[x] = p
      PROVE  Occupying(p)' /\ Claims(p, x)' /\ Recorded(p, x)' /\ block'[x] = shape'[p].fill
  <2>1. x \notin Vacated(o) /\ writer[x] = p
    BY <1>5, RemoveEffect, AbsentValuesAssumption
  <2>2. p # o
    BY <2>1, ChunkTypes DEF WriterHolds, Vacated, Occupying, OwnershipAgrees, RecordsAgree, NoStaleRefs
  <2> QED BY <2>1, <2>2, RemoveEffect DEF WriterHolds, Occupying
<1>6. ASSUME ~edited, NEW p \in Objects, NEW x \in Cells, Claims(p, x)'
      PROVE  writer'[x] = p
  <2>1. p # o /\ Claims(p, x)
    BY <1>6, RemoveEffect
  <2>2. x \notin Vacated(o)
    BY <1>4, <2>1
  <2>3. writer[x] = p
    BY <1>6, <2>1 DEF ClaimsAreLastWrites
  <2> QED BY <2>2, <2>3, RemoveEffect
<1>7. ASSUME ~edited, NEW p \in Objects, NEW x \in Cells, Active(p)', Recorded(p, x)'
      PROVE  /\ writer'[x] \in {p, Nobody} /\ block'[x] = shape'[p].fill
             /\ p \in Generated => records'[p][x] = covered'[x]
  <2>1. p # o /\ Active(p) /\ Recorded(p, x)
    BY <1>7, RemoveEffect
  <2>2. x \notin Vacated(o)
    BY <1>4, <2>1
  <2> QED BY <1>7, <2>1, <2>2, RemoveEffect DEF ClaimsAreLastWrites
<1> QED BY <1>1, <1>2, <1>3, <1>5, <1>6, <1>7, RemoveEffect DEF WriterHolds, ClaimsAreLastWrites

-----------------------------------------------------------------------------
(* The theorems. *)

LEMMA InitHolds == Init => OwnershipInv
<1> SUFFICES ASSUME Init PROVE OwnershipInv
  OBVIOUS
<1>1. TypeOK
  BY WorldAssumption DEF Init, TypeOK
<1>2. ShapeInv
  BY DEF Init, ShapeInv, Recorded
<1>3. OwnershipAgrees
  BY DEF Init, OwnershipAgrees, SoleClaim, RecordsAgree, NoStaleRefs, Claims, Recorded, Active
<1>4. WriterHolds /\ ClaimsAreLastWrites
  BY AbsentValuesAssumption DEF Init, WriterHolds, ClaimsAreLastWrites, Claims, Active
<1> QED BY <1>1, <1>2, <1>3, <1>4 DEF OwnershipInv

LEMMA NextPreserves == OwnershipInv /\ [Next]_vars => OwnershipInv'
<1> SUFFICES ASSUME OwnershipInv, [Next]_vars PROVE OwnershipInv'
  OBVIOUS
<1>1. ASSUME NEW o \in Objects, NEW s \in Menu[o], PlaceObject(o, s) PROVE OwnershipInv'
  BY <1>1, PlaceTyped, PlaceAgrees, PlaceHolds DEF OwnershipInv
<1>2. ASSUME NEW o \in Objects, RemoveObject(o) PROVE OwnershipInv'
  BY <1>2, RemovePreserves
<1>3. ASSUME NEW x \in Cells, NEW b \in Blocks, SetBlock(x, b) PROVE OwnershipInv'
  <2>1. [o \in Objects |-> {}] \in [Objects -> SUBSET Chunks]
    OBVIOUS
  <2>2. UserWrite(x, b, [o \in Objects |-> {}])
    BY <1>3, SetBlockIsUserWrite DEF OwnershipInv
  <2> QED BY <2>1, <2>2, UserWritePreserves
<1>4. ASSUME NEW x \in Cells, RemoveBlock(x) PROVE OwnershipInv'
  <2>1. PICK C \in [Objects -> SUBSET Chunks] : UserWrite(x, Air, C)
    BY <1>4, RemoveBlockIsUserWrite DEF OwnershipInv
  <2> QED BY <2>1, UserWritePreserves
<1>5. ASSUME NEW e \in Edits, WorldEdit(e) PROVE OwnershipInv'
  BY <1>5, WorldEditPreserves
<1>6. CASE UNCHANGED vars
  BY <1>6 DEF vars, refs, history, OwnershipInv, TypeOK, ShapeInv, OwnershipAgrees, SoleClaim,
     RecordsAgree, NoStaleRefs, WriterHolds, ClaimsAreLastWrites, Occupying, Active, Occupies,
     Claims, Recorded
<1> QED BY <1>1, <1>2, <1>3, <1>4, <1>5, <1>6 DEF Next

(* The inductive invariant holds of every behaviour, WorldEdit included. *)
THEOREM OwnershipInvariant == Spec => []OwnershipInv
<1> QED BY InitHolds, NextPreserves, PTL DEF Spec

(* Every variable stays in its type: in particular a cell record holds terrain
   or air, never the block of a building (terrain_object_underlay.py). *)
THEOREM TypeCorrect == Spec => []TypeOK
<1>1. OwnershipInv => TypeOK
  BY DEF OwnershipInv
<1> QED BY <1>1, OwnershipInvariant, PTL

(* The runtime references in the chunks and the persisted references never
   disagree on who owns a cell, and no two objects own it. *)
THEOREM ReferencesAgree == Spec => []OwnershipAgrees
<1>1. OwnershipInv => OwnershipAgrees
  BY DEF OwnershipInv
<1> QED BY <1>1, OwnershipInvariant, PTL

(* An object leaves by RemoveObject or by a metadata-only PlaceObject; it then
   writes exactly the cells it vacates. *)
LEMMA LeavingSteps ==
    ASSUME OwnershipInv, [Next]_vars, NEW o \in Objects, Leaves(o)
    PROVE  \A x \in Cells :
              /\ x \notin Vacated(o) => block'[x] = block[x]
              /\ x \in Vacated(o) => block'[x] \in {Air, records[o][x]}
<1>1. ASSUME NEW p \in Objects, NEW s \in Menu[p], PlaceObject(p, s)
      PROVE  p = o /\ ~s.occupies
  <2>1. p # o => (Occupying(o)' <=> Occupying(o))
    <3>1. instance' = [instance EXCEPT ![p] = "active"]
      BY <1>1 DEF PlaceObject
    <3>2. p # o => (Occupies(o)' <=> Occupies(o))
      BY <1>1 DEF PlaceObject, Occupies, OwnershipInv, TypeOK
    <3> QED BY <3>1, <3>2 DEF OwnershipInv, TypeOK, Occupying, Active
  <2>2. s.occupies => Occupying(p)'
    BY <1>1, PlaceEffect, MenuType DEF OwnershipInv, Occupying, Active, Occupies, TypeOK
  <2> QED BY <2>1, <2>2 DEF Leaves
<1>2. ASSUME NEW p \in Objects, RemoveObject(p)
      PROVE  p = o
  BY <1>2, RemoveEffect DEF Leaves, Occupying
<1>3. UNCHANGED <<instance, shape>> => FALSE
  BY DEF Leaves, Occupying, Active, Occupies
<1>4. \A x \in Cells, b \in Blocks : ~SetBlock(x, b)
  BY <1>3 DEF SetBlock
<1>5. (\A x \in Cells : ~RemoveBlock(x)) /\ (\A e \in Edits : ~WorldEdit(e)) /\ ~UNCHANGED vars
  BY <1>3 DEF RemoveBlock, WorldEdit, vars
<1>6. \/ RemoveObject(o)
      \/ \E s \in Menu[o] : PlaceObject(o, s) /\ ~s.occupies
  BY <1>1, <1>2, <1>4, <1>5 DEF Next
<1>7. CASE RemoveObject(o)
  BY <1>7, RemoveEffect
<1>8. ASSUME NEW s \in Menu[o], PlaceObject(o, s), ~s.occupies
      PROVE  \A x \in Cells : block'[x] = IF x \in Vacated(o) THEN Air ELSE block[x]
  BY <1>8, RouteClears DEF OwnershipInv, OwnershipAgrees
<1> QED BY <1>6, <1>7, <1>8

LEMMA WrittenIsVacated ==
    ASSUME OwnershipInv, NEW o \in Objects, NEW x \in Cells, writer[x] = o
    PROVE  x \in Vacated(o)
BY ChunkTypes DEF OwnershipInv, WriterHolds, OwnershipAgrees, RecordsAgree, NoStaleRefs,
   Occupying, Vacated

(* Whatever users and other objects did, WorldEdit included, an object that
   leaves keeps no cell filled that it wrote last. *)
THEOREM NothingStays == Spec => LeavingLeavesNothing
<1> DEFINE A == \A o \in Objects, x \in Cells : Leaves(o) /\ writer[x] = o =>
                   block'[x] \in Terrain \cup {Air}
<1>1. OwnershipInv /\ [Next]_vars => A
  <2> SUFFICES ASSUME OwnershipInv, [Next]_vars, NEW o \in Objects, NEW x \in Cells,
                      Leaves(o), writer[x] = o
               PROVE  block'[x] \in Terrain \cup {Air}
    OBVIOUS
  <2>1. x \in Vacated(o)
    BY WrittenIsVacated
  <2>2. records[o][x] \in Terrain \cup {Air}
    BY <2>1, VacatedFacts DEF Recorded, OwnershipInv, TypeOK
  <2> QED BY <2>1, <2>2, LeavingSteps
<1>2. OwnershipInv /\ [Next]_vars => [A]_vars
  BY <1>1
<1> HIDE DEF A
<1>3. Spec => [][A]_vars
  BY <1>2, OwnershipInvariant, PTL DEF Spec
<1> QED BY <1>3 DEF LeavingLeavesNothing, A

(* Until somebody uses WorldEdit, an object that leaves changes no cell that another
   object or a user wrote after it. *)
THEOREM OnlyOwnWrites == Spec => LeavingTakesOnlyOwnWrites
<1> DEFINE A == ~edited => \A o \in Objects, x \in Cells : Leaves(o) /\ block'[x] # block[x] => writer[x] = o
<1>1. OwnershipInv /\ [Next]_vars => A
  <2> SUFFICES ASSUME OwnershipInv, [Next]_vars, ~edited, NEW o \in Objects, NEW x \in Cells,
                      Leaves(o), block'[x] # block[x]
               PROVE  writer[x] = o
    OBVIOUS
  <2>1. x \in Vacated(o)
    BY LeavingSteps
  <2> QED BY <2>1, VacatedFacts DEF OwnershipInv, ClaimsAreLastWrites
<1>2. OwnershipInv /\ [Next]_vars => [A]_vars
  BY <1>1
<1> HIDE DEF A
<1>3. Spec => [][A]_vars
  BY <1>2, OwnershipInvariant, PTL DEF Spec
<1> QED BY <1>3 DEF LeavingTakesOnlyOwnWrites, A

-----------------------------------------------------------------------------
(* Refinement of LastWriterWins. *)

(* Before the first WorldEdit an active object vacates what it wrote last. *)
LEMMA VacatesOwned ==
    ASSUME OwnershipInv, ~edited, NEW o \in Objects
    PROVE  Vacated(o) = Policy!Owned(o)
<1>1. \A x \in Cells : x \in Vacated(o) <=> writer[x] = o
  BY WrittenIsVacated, VacatedFacts DEF OwnershipInv, ClaimsAreLastWrites
<1> QED BY <1>1, VacatedFacts DEF Policy!Owned

LEMMA PlaceImplements ==
    ASSUME OwnershipInv, ~edited, NEW o \in Objects, NEW s \in Menu[o], PlaceObject(o, s)
    PROVE  Policy!Next
<1>1. CASE s.occupies
  <2> DEFINE taken == {x \in s.cells : TakesBack(o, x) /\ block[x] \notin Terrain}
  <2>1. Occupy(o, s)
    BY <1>1 DEF PlaceObject
  <2>2. Policy!Owned(o) \subseteq s.cells
    BY <1>1, UpdateCovers DEF Policy!Owned, OwnershipInv
  <2>3. s.cells \subseteq Cells /\ s.fill \in Blocks
    BY MenuType
  <2>4. taken \in SUBSET (s.cells \cap Policy!Owned(Nobody))
    BY <2>3 DEF TakesBack, Policy!Owned
  <2>5. covered' = [x \in Cells |->
           IF x \in s.cells \ (Policy!Owned(o) \cup taken) THEN Policy!TerrainIn(x) ELSE covered[x]]
    <3>1. \A x \in Cells :
             (IF x \notin s.cells \/ writer[x] = o THEN covered[x]
              ELSE IF block[x] \in Terrain THEN block[x]
              ELSE IF TakesBack(o, x) THEN covered[x] ELSE Air)
             = (IF x \in s.cells \ (Policy!Owned(o) \cup taken) THEN Policy!TerrainIn(x) ELSE covered[x])
      BY AbsentValuesAssumption DEF Policy!Owned, Policy!TerrainIn, TakesBack
    <3>2. covered' = [x \in Cells |->
             IF x \notin s.cells \/ writer[x] = o THEN covered[x]
             ELSE IF block[x] \in Terrain THEN block[x]
             ELSE IF TakesBack(o, x) THEN covered[x] ELSE Air]
      BY <2>1 DEF Occupy
    <3> HIDE DEF taken
    <3> QED BY <3>1, <3>2
  <2>6. Policy!Place(o, s.cells, s.fill)
    <3> HIDE DEF taken
    <3> QED BY <2>1, <2>2, <2>4, <2>5 DEF Occupy, Policy!Place
  <2> QED BY <2>3, <2>6 DEF Policy!Next
<1>2. CASE ~s.occupies
  <2>1. /\ block' = [x \in Cells |-> IF x \in Vacated(o) THEN Air ELSE block[x]]
        /\ writer' = [x \in Cells |-> IF x \in Vacated(o) THEN Nobody ELSE writer[x]]
        /\ covered' = [x \in Cells |-> IF x \in Vacated(o) THEN Air ELSE covered[x]]
    BY <1>2, RouteClears DEF OwnershipInv, OwnershipAgrees, Forget, Disown, Uncover
  <2>2. Policy!Leave(o, FALSE)
    BY <2>1, VacatesOwned DEF Policy!Leave
  <2> QED BY <2>2 DEF Policy!Next
<1> QED BY <1>1, <1>2, MenuType

LEMMA RemoveImplements ==
    ASSUME OwnershipInv, ~edited, NEW o \in Objects, RemoveObject(o)
    PROVE  Policy!Next
<1> DEFINE restore == o \in Generated
<1>1. \A x \in Cells :
         /\ block'[x] = IF x \notin Policy!Owned(o) THEN block[x] ELSE IF restore THEN covered[x] ELSE Air
         /\ writer'[x] = IF x \in Policy!Owned(o) THEN Nobody ELSE writer[x]
         /\ covered'[x] = IF x \in Policy!Owned(o) THEN Air ELSE covered[x]
  <2>1. \A x \in Vacated(o) : restore => records[o][x] = covered[x]
    BY VacatedFacts DEF OwnershipInv, ClaimsAreLastWrites, RemoveObject, Vacated
  <2> QED BY <2>1, RemoveEffect, VacatesOwned
<1>2. /\ block' = [x \in Cells |-> block'[x]]
      /\ writer' = [x \in Cells |-> writer'[x]]
      /\ covered' = [x \in Cells |-> covered'[x]]
  BY RemovePreserves DEF OwnershipInv, TypeOK
<1> HIDE DEF restore
<1>3. /\ block' = [x \in Cells |->
             IF x \notin Policy!Owned(o) THEN block[x] ELSE IF restore THEN covered[x] ELSE Air]
      /\ writer' = [x \in Cells |-> IF x \in Policy!Owned(o) THEN Nobody ELSE writer[x]]
      /\ covered' = [x \in Cells |-> IF x \in Policy!Owned(o) THEN Air ELSE covered[x]]
  BY <1>1, <1>2
<1>4. restore \in BOOLEAN /\ (restore => o \in Generated)
  BY DEF restore
<1>5. Policy!Leave(o, restore)
  BY <1>3, <1>4 DEF Policy!Leave
<1> QED BY <1>4, <1>5 DEF Policy!Next

LEMMA WriteImplements ==
    ASSUME OwnershipInv, ~edited, NEW x \in Cells,
           NEW b \in Blocks \cup {Air}, NEW D \in SUBSET Cells,
           D \subseteq Policy!Owned(writer[x]) \cup {x},
           block' = [block EXCEPT ![x] = b], Disown(D \cup {x}), Uncover({x})
    PROVE  Policy!Next
<1>1. covered' = [covered EXCEPT ![x] = Air]
  BY DEF Uncover, OwnershipInv, TypeOK
<1>2. Policy!Write(x, b, D)
  BY <1>1 DEF Disown, Policy!Write
<1> QED BY <1>2 DEF Policy!Next

(* Until somebody uses WorldEdit, the executors implement the ownership policy: every
   placement, block command and removal is one step of LastWriterWins. *)
THEOREM Refinement == Spec => ImplementsLastWriterWins
<1>1. Init => Policy!Init
  BY DEF Init, Policy!Init
<1>2. OwnershipInv /\ [Next]_vars => (~edited' => [Policy!Next]_(Policy!vars))
  <2> SUFFICES ASSUME OwnershipInv, [Next]_vars, ~edited' PROVE [Policy!Next]_(Policy!vars)
    OBVIOUS
  <2>0. ~edited /\ \A e \in Edits : ~WorldEdit(e)
    <3>1. \A e \in Edits : ~WorldEdit(e)
      BY DEF WorldEdit
    <3>2. UNCHANGED vars => edited' = edited
      BY DEF vars, history
    <3>3. \A o \in Objects : \A s \in Menu[o] : PlaceObject(o, s) => edited' = edited
      BY DEF PlaceObject
    <3>4. /\ \A o \in Objects : RemoveObject(o) => edited' = edited
          /\ \A x \in Cells, b \in Blocks : SetBlock(x, b) => edited' = edited
          /\ \A x \in Cells : RemoveBlock(x) => edited' = edited
      BY DEF RemoveObject, SetBlock, RemoveBlock
    <3> QED BY <3>1, <3>2, <3>3, <3>4 DEF Next
  <2>1. ASSUME NEW o \in Objects, NEW s \in Menu[o], PlaceObject(o, s) PROVE Policy!Next
    BY <2>0, <2>1, PlaceImplements
  <2>2. ASSUME NEW o \in Objects, RemoveObject(o) PROVE Policy!Next
    BY <2>0, <2>2, RemoveImplements
  <2>3. ASSUME NEW x \in Cells, NEW b \in Blocks, SetBlock(x, b) PROVE Policy!Next
    <3>1. Disown({} \cup {x}) /\ Uncover({x}) /\ block' = [block EXCEPT ![x] = b]
      BY <2>3 DEF SetBlock, Forget, Disown
    <3> QED BY <2>0, <3>1, WriteImplements
  <2>4. ASSUME NEW x \in Cells, RemoveBlock(x) PROVE Policy!Next
    <3> DEFINE D == {y \in Cells : writer[y] \in Dropped(x) /\ ChunkOf[y] = ChunkOf[x]}
    <3>1. \A o \in Dropped(x) : writer[x] = o
      BY <2>0 DEF Dropped, OwnershipInv, ClaimsAreLastWrites
    <3>2. D \in SUBSET Cells /\ D \subseteq Policy!Owned(writer[x]) \cup {x}
      BY <3>1 DEF Policy!Owned
    <3>3. Disown(D \cup {x}) /\ Uncover({x}) /\ block' = [block EXCEPT ![x] = Air]
      BY <2>4 DEF RemoveBlock, Disown
    <3> HIDE DEF D
    <3> QED BY <2>0, <3>2, <3>3, WriteImplements
  <2>5. CASE UNCHANGED vars
    BY <2>5 DEF vars, history, Policy!vars
  <2> QED BY <2>0, <2>1, <2>2, <2>3, <2>4, <2>5 DEF Next
<1> QED BY <1>1, <1>2, OwnershipInvariant, PTL DEF Spec, ImplementsLastWriterWins
=============================================================================

---------------------------- MODULE LastWriterWins ----------------------------
(***************************************************************************)
(* What the ownership policy "last-writer-wins-v1" promises.  Every cell    *)
(* belongs to the object that wrote it last, or to nobody once a user has   *)
(* written it.  An object that leaves takes exactly the cells it owns: a    *)
(* generated building gives back the terrain it covered, every other object *)
(* leaves air.                                                              *)
(***************************************************************************)
CONSTANTS Objects, Cells, Blocks, Air, Terrain, Generated, Ground, Nobody

VARIABLES block,    \* what fills each cell
          owner,    \* the object that owns it
          covered   \* the terrain that lay there when the owner came

vars == <<block, owner, covered>>

Init ==
    /\ block = Ground
    /\ owner = [x \in Cells |-> Nobody]
    /\ covered = [x \in Cells |-> Air]

Owned(o) == {x \in Cells : owner[x] = o}

TerrainIn(x) == IF block[x] \in Terrain THEN block[x] ELSE Air

\* Object o comes, or is placed again, and fills the cells S.  It may take back
\* cells it had abandoned, with the terrain it covered there.
Place(o, S, b) ==
    /\ Owned(o) \subseteq S
    /\ block' = [x \in Cells |-> IF x \in S THEN b ELSE block[x]]
    /\ owner' = [x \in Cells |-> IF x \in S THEN o ELSE owner[x]]
    /\ \E taken \in SUBSET (S \cap Owned(Nobody)) :
          covered' = [x \in Cells |->
             IF x \in S \ (Owned(o) \cup taken) THEN TerrainIn(x) ELSE covered[x]]

\* A user writes cell x.  The object that owned it may abandon the cells D, which
\* stay as they are.
Write(x, b, D) ==
    /\ D \subseteq Owned(owner[x]) \cup {x}
    /\ block' = [block EXCEPT ![x] = b]
    /\ owner' = [y \in Cells |-> IF y \in D \cup {x} THEN Nobody ELSE owner[y]]
    /\ covered' = [covered EXCEPT ![x] = Air]

\* Object o leaves all its cells, restoring the terrain it covered or not.
Leave(o, restore) ==
    /\ restore => o \in Generated
    /\ block' = [x \in Cells |->
          IF x \notin Owned(o) THEN block[x] ELSE IF restore THEN covered[x] ELSE Air]
    /\ owner' = [x \in Cells |-> IF x \in Owned(o) THEN Nobody ELSE owner[x]]
    /\ covered' = [x \in Cells |-> IF x \in Owned(o) THEN Air ELSE covered[x]]

Next ==
    \/ \E o \in Objects, S \in SUBSET Cells, b \in Blocks : Place(o, S, b)
    \/ \E x \in Cells, b \in Blocks \cup {Air}, D \in SUBSET Cells : Write(x, b, D)
    \/ \E o \in Objects, restore \in BOOLEAN : Leave(o, restore)

Spec == Init /\ [][Next]_vars
=============================================================================

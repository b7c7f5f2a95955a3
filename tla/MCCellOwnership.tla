---------------------------- MODULE MCCellOwnership ----------------------------
(* Small instances of CellOwnership for TLC. *)
EXTENDS CellOwnership, TLC

CONSTANTS house, wall, soil, brick, glass

MCObjects == {house, wall}
MCCells == {1, 2, 3}
MCChunkOf == (1 :> "west") @@ (2 :> "west") @@ (3 :> "east")
MCGround == (1 :> soil) @@ (2 :> Air) @@ (3 :> soil)

Shape(cells, fill, kind, occupies, semantic) ==
    [cells |-> cells, fill |-> fill, kind |-> kind, occupies |-> occupies, semantic |-> semantic]

\* A planning area that becomes voxels, metadata or another route, and a semantic
\* object or a roof that overlaps it, in one chunk or two.
MCMenu ==
    (house :> {Shape({1, 2, 3}, brick, "area", TRUE, TRUE), Shape({1, 2, 3}, glass, "area", TRUE, FALSE),
               Shape({1, 2, 3}, brick, "area", FALSE, FALSE), Shape({2}, brick, "area", FALSE, FALSE),
               Shape({2}, brick, "area", TRUE, FALSE)})
 @@ (wall :> {Shape({1, 2}, brick, "other", TRUE, TRUE),
              Shape({1}, glass, "roof", TRUE, FALSE)})

\* Set, clear and replace.
Anything == Blocks \cup {Air}
MCEdits == {[over |-> Anything, to |-> (1 :> brick)],
            [over |-> Anything, to |-> (1 :> Air) @@ (3 :> Air)],
            [over |-> {brick}, to |-> [x \in Cells |-> glass]]}
NoEdits == {}
=============================================================================

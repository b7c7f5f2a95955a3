-------------------------- MODULE MCRoofProjection --------------------------
(* Small instances of RoofProjection for TLC: no wall cells. *)
EXTENDS RoofProjection, TLC

CONSTANTS alice, bob, import1, import2, villa, tower, r1, r2

MCUsers == {alice, bob}
MCImporters == {import1, import2}
MCBuildings == {villa, tower}
MCBuildingOf == (r1 :> villa) @@ (r2 :> tower)
MCWallOf == [x \in {} |-> villa]

RemovalOf(id, r, preserve) == [kind |-> "remove", id |-> id, roof |-> r, preserve |-> preserve]
ImportOf(S) == [kind |-> "import", buildings |-> S]

\* Overlapping imports, and users who remove the roofs.
MenuWith(removals) ==
    (alice :> removals) @@ (bob :> {RemovalOf(TRUE, r2, FALSE), RemovalOf(FALSE, r1, FALSE)})
    @@ (import1 :> {ImportOf({villa})}) @@ (import2 :> {ImportOf({villa, tower}), ImportOf({tower})})

PlainMenu == MenuWith({RemovalOf(FALSE, r1, FALSE), RemovalOf(TRUE, r2, FALSE)})
PreservingMenu == MenuWith({RemovalOf(FALSE, r1, TRUE)})
=============================================================================

----------------------------- MODULE MCLod2World -----------------------------
(* Small instances of Lod2World for TLC. *)
EXTENDS Lod2World, TLC

CONSTANTS alice, bob, import1, import2, villa, tower, r1, r2, c1, c2

MCUsers == {alice, bob}
MCImporters == {import1, import2}
MCBuildings == {villa, tower}
MCBuildingOf == (r1 :> villa) @@ (r2 :> tower)
MCWallOf == (c1 :> villa) @@ (c2 :> tower)

EditOf(id, cell, fill) == [kind |-> "edit", id |-> id, cell |-> cell, fill |-> fill]
RemovalOf(id, r, preserve) == [kind |-> "remove", id |-> id, roof |-> r, preserve |-> preserve]
ImportOf(S) == [kind |-> "import", buildings |-> S]

MCImports(i) == IF i = import1 THEN {ImportOf({villa}), ImportOf({villa, tower})}
                ELSE {ImportOf({villa, tower}), ImportOf({tower})}

\* Two users who edit the same wall or remove roofs, and two overlapping imports.
MCMenu == [a \in MCUsers \cup MCImporters |->
    IF a \in MCImporters THEN MCImports(a)
    ELSE {EditOf(FALSE, c1, FALSE), EditOf(TRUE, c1, TRUE), RemovalOf(TRUE, r1, FALSE)}
            \cup IF a = alice THEN {RemovalOf(FALSE, r1, TRUE)} ELSE {RemovalOf(FALSE, r2, TRUE)}]

\* The same without preserveLod2Facade.
PlainMenu == [a \in MCUsers \cup MCImporters |->
    IF a \in MCImporters THEN MCImports(a)
    ELSE {EditOf(FALSE, c1, FALSE), EditOf(TRUE, c2, TRUE),
          RemovalOf(TRUE, r1, FALSE), RemovalOf(FALSE, r2, FALSE)}]
=============================================================================

------------------------- MODULE MCWorldCommandRoute -------------------------
(* Small instances of WorldCommandRoute for TLC. *)
EXTENDS WorldCommandRoute, TLC

CONSTANTS r1, r2, r3, k1, k2, w1, w2, a, b

MCRequests == {r1, r2, r3}
MCIds == {k1, k2}
MCWorlds == {w1, w2}
MCChunks == {1, 2, 3}
MCWorldOf == (1 :> w1) @@ (2 :> w1) @@ (3 :> w2)
MCBase == (1 :> {}) @@ (2 :> {a}) @@ (3 :> {})

Command(id, world, chunks, fill) ==
    [kind |-> "command", id |-> id, world |-> world, chunks |-> chunks, cell |-> a, fill |-> fill]
Materialize(world, chunk) ==
    [kind |-> "materialize", id |-> NoId, world |-> world, chunks |-> {chunk}, cell |-> a, fill |-> TRUE]

\* r1 and r2 may be a command and its retry, two commands of one world or the
\* same id in two worlds; r3 is a command without id, a read that materializes,
\* or a third command.
MCMenu ==
    (r1 :> {Command(k1, w1, {1, 2}, TRUE), Command(k1, w1, {2}, FALSE), Command(k2, w2, {3}, TRUE)})
 @@ (r2 :> {Command(k1, w1, {1, 2}, TRUE), Command(k1, w2, {3}, TRUE),
            Command(k2, w1, {1, 2}, FALSE), Materialize(w1, 1)})
 @@ (r3 :> {Command(NoId, w1, {1, 2}, FALSE), Command(NoId, w1, {1}, TRUE),
            [Command(k2, w1, {1}, TRUE) EXCEPT !.cell = b], Command(NoId, w2, {3}, FALSE),
            Materialize(w1, 2)})

\* Two commands without id in a world without LoD2 buildings.
UnlockedMenu == [r \in MCRequests |->
    {Command(NoId, w1, {1}, TRUE), Command(NoId, w1, {1}, FALSE),
     [Command(NoId, w1, {1}, TRUE) EXCEPT !.cell = b]}]

\* A command that changes nothing, and its retries.
NoopMenu == [r \in MCRequests |-> {Command(k1, w1, {2}, TRUE)}]
=============================================================================

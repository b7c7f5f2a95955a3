------------------------ MODULE MCPlanningGeneration ------------------------
(* Small instances of PlanningGeneration for TLC. *)
EXTENDS PlanningGeneration, TLC

CONSTANTS t1, t2, house, barn, c1, c2, c3, d1, g1, g2, g3

MCWorkers == {t1, t2}
MCBuildings == {house, barn}
MCChildren == {c1, c2, c3, d1}
MCAreaOf == (c1 :> house) @@ (c2 :> house) @@ (c3 :> house) @@ (d1 :> barn)
MCGenerations == {g1, g2, g3}

Save(building, previous, new, children) ==
    [kind |-> "save", serialized |-> TRUE, building |-> building, previous |-> previous,
     generation |-> new, children |-> children]
Delete(building, previous) ==
    [kind |-> "delete", serialized |-> TRUE, building |-> building, previous |-> previous]
Put(o, new) == [kind |-> "put", serialized |-> FALSE, object |-> o, generation |-> new]
Drop(o) == [kind |-> "drop", serialized |-> FALSE, object |-> o]

\* Two editors of one house, a second building, a deletion, a roof edited or
\* removed on its own, and a repair of the parent's metadata.
MCMenu == {Save(house, NoGeneration, g1, {c1, c2}), Save(house, g1, g2, {c3}),
           Save(house, g1, g3, {c2}), Save(barn, NoGeneration, g1, {d1}),
           Delete(house, g2), Put(c1, g1), Put(house, g3), Drop(c1), Drop(house)}

\* Saves whose clients send no commandId.
UnlockedMenu == {[j EXCEPT !.serialized = FALSE] :
    j \in {Save(house, NoGeneration, g1, {c1}), Save(house, g1, g2, {c2}), Save(house, g1, g3, {c3})}}
=============================================================================

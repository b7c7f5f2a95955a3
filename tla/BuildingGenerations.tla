------------------------- MODULE BuildingGenerations -------------------------
(***************************************************************************)
(* What clients see of a planned building, a parent object and the children *)
(* generated from it.  A save puts a complete new generation in the place   *)
(* of everything the building has; a deletion leaves nothing of it.  Other  *)
(* clients may place or remove a single object at any time.  What was       *)
(* removed never comes back.                                               *)
(***************************************************************************)
CONSTANTS Buildings, Children, AreaOf, Generations, NoGeneration

VARIABLES status,      \* of every object: none, active or removed
          generation   \* of every active building

vars == <<status, generation>>

Objects == Buildings \cup Children
ActiveChildren(b) == {c \in Children : AreaOf[c] = b /\ status[c] = "active"}

Init ==
    /\ status = [o \in Objects |-> "none"]
    /\ generation = [b \in Buildings |-> NoGeneration]

\* The generation gen of b, with the children S, replaces what b has.
Save(b, gen, S) ==
    /\ status[b] # "removed"
    /\ \A c \in S : AreaOf[c] = b /\ status[c] = "none"
    /\ status' = [o \in Objects |->
          IF o \in S \cup {b} THEN "active"
          ELSE IF o \in ActiveChildren(b) THEN "removed" ELSE status[o]]
    /\ generation' = [generation EXCEPT ![b] = gen]

Delete(b) ==
    /\ status[b] = "active"
    /\ status' = [o \in Objects |->
          IF o \in ActiveChildren(b) \cup {b} THEN "removed" ELSE status[o]]
    /\ generation' = [generation EXCEPT ![b] = NoGeneration]

\* A single object is placed, or placed again.
Put(o, gen) ==
    /\ status[o] # "removed"
    /\ status' = [status EXCEPT ![o] = "active"]
    /\ generation' = [b \in Buildings |-> IF b = o THEN gen ELSE generation[b]]

\* A single object is removed.
Drop(o) ==
    /\ status[o] = "active"
    /\ status' = [status EXCEPT ![o] = "removed"]
    /\ generation' = [b \in Buildings |-> IF b = o THEN NoGeneration ELSE generation[b]]

Next ==
    \/ \E b \in Buildings :
          \/ \E g \in Generations, S \in SUBSET Children : Save(b, g, S)
          \/ Delete(b)
    \/ \E o \in Objects : Drop(o) \/ \E g \in Generations : Put(o, g)

Spec == Init /\ [][Next]_vars
=============================================================================

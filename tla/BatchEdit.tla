------------------------------ MODULE BatchEdit ------------------------------
(***************************************************************************)
(* What an object batch promises: its children edit one private copy of    *)
(* the chunks in their order, each seeing what the ones before it did, and *)
(* the copy replaces the stored chunks in one step or not at all.          *)
(***************************************************************************)
EXTENDS Naturals

CONSTANTS Chunks, Contents, Base, Edits, Effect, NoRow

VARIABLES
    row,     \* the stored snapshot of each chunk
    work,    \* the batch's copy
    active   \* a batch runs

ContentOf(s) == IF s = NoRow THEN Base ELSE s.content
RevisionOf(s) == IF s = NoRow THEN 0 ELSE s.revision

\* A snapshot after the edit e.
After(s, e) == [content |-> Effect[e][ContentOf(s)], revision |-> RevisionOf(s) + 1]

Init == row = [c \in Chunks |-> NoRow] /\ work = row /\ active = FALSE

Begin == ~active /\ active' = TRUE /\ UNCHANGED <<row, work>>

Edit(c, e) ==
    /\ active
    /\ work' = [work EXCEPT ![c] = After(work[c], e)]
    /\ UNCHANGED <<row, active>>

Commit == active /\ row' = work /\ active' = FALSE /\ UNCHANGED work

Abort == active /\ work' = row /\ active' = FALSE /\ UNCHANGED row

\* Another command, between batches.
EditElsewhere(c, e) ==
    /\ ~active
    /\ row' = [row EXCEPT ![c] = After(row[c], e)]
    /\ work' = row'
    /\ UNCHANGED active

Next ==
    \/ Begin \/ Commit \/ Abort
    \/ \E c \in Chunks, e \in Edits : Edit(c, e) \/ EditElsewhere(c, e)

Spec == Init /\ [][Next]_<<row, work, active>>
=============================================================================

---------------------------- MODULE AtomicCommands ----------------------------
(***************************************************************************)
(* What the command route promises: every command that takes effect edits  *)
(* all of its chunks in one indivisible step, based on what every earlier  *)
(* command left, and leaves one receipt under its command id, which never  *)
(* executes again.                                                         *)
(***************************************************************************)
CONSTANTS Chunks, Base, Keys, Payloads, NoId, NoReceipt

VARIABLES content,   \* the cells a reader of a chunk is shown
          receipts

vars == <<content, receipts>>

Init == content = Base /\ receipts = [k \in Keys |-> NoReceipt]

Edited(p) == [c \in Chunks |->
    IF c \notin p.chunks THEN content[c]
    ELSE IF p.fill THEN content[c] \cup {p.cell} ELSE content[c] \ {p.cell}]

Execute(k, p) ==
    /\ receipts[k] = NoReceipt
    /\ content' = Edited(p)
    /\ receipts' = [receipts EXCEPT ![k] =
          [payload |-> p, status |-> IF Edited(p) = content THEN "noop" ELSE "applied"]]

Next == \E k \in Keys, p \in Payloads : p.id \in {NoId, k} /\ Execute(k, p)

Spec == Init /\ [][Next]_vars
=============================================================================

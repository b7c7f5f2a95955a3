------------------------ MODULE MCBatchChunkMutation ------------------------
(* A small instance of BatchChunkMutation for TLC. *)
EXTENDS BatchChunkMutation, TLC

CONSTANTS place, remove, r

\* One cell per chunk: an object is placed or removed.
MCEffect == (place :> [x \in {"empty", "filled"} |-> "filled"])
            @@ (remove :> [x \in {"empty", "filled"} |-> "empty"])
MCAdds == (place :> {r}) @@ (remove :> {})
MCDrops == (place :> {}) @@ (remove :> {r})
=============================================================================

-------------------------- MODULE MCChunkBatchLoad --------------------------
(* Small instances of ChunkBatchLoad for TLC. *)
EXTENDS ChunkBatchLoad, TLC

CONSTANTS r1, r2, w1, w2

MCReaders == {r1, r2}
MCWriters == {w1, w2}

Batch(chunks, prefer, allow, materialize, continue) ==
    [chunks |-> chunks, preferSnapshot |-> prefer, allowGenerated |-> allow,
     materialize |-> materialize, continueOnError |-> continue]

\* Both orders of the chunks, and every flag on and off.
MCBatches ==
    (r1 :> {Batch(<<1, 2>>, TRUE, TRUE, FALSE, FALSE), Batch(<<1, 2>>, TRUE, FALSE, FALSE, TRUE),
            Batch(<<1, 2>>, TRUE, TRUE, TRUE, TRUE)})
 @@ (r2 :> {Batch(<<2, 1>>, TRUE, TRUE, TRUE, FALSE), Batch(<< >>, TRUE, TRUE, TRUE, TRUE),
            Batch(<<2, 1>>, FALSE, TRUE, TRUE, TRUE)})

MCEdits == (w1 :> {{1, 2}}) @@ (w2 :> {{2}})
=============================================================================

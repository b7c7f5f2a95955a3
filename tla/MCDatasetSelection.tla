------------------------- MODULE MCDatasetSelection -------------------------
(* A small instance of DatasetSelection for TLC. *)
EXTENDS DatasetSelection, TLC

CONSTANTS first, second, r1, r2, p1

\* Both selector files have one size, as bundles with equally long names do.
MCSizeOf == (first :> 300) @@ (second :> 300)

\* Two threads of one process: processes do not meet but in the files.
MCProcessOf == (r1 :> p1) @@ (r2 :> p1)
=============================================================================

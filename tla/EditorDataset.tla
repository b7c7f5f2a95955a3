---------------------------- MODULE EditorDataset ----------------------------
(***************************************************************************)
(* The writers of bundles and the scripts and server processes that select *)
(* and load one of them, on one directory: what DatasetSelection sees       *)
(* published in one step is here written by the processes of BundleWriter,  *)
(* one system call at a time, failing and killed at any of them.           *)
(***************************************************************************)
EXTENDS BundleWriter, DatasetSelection

editorVars == <<vars, writerVars>>

EditorInit == WriterInit /\ Init

WriterActs ==
    /\ WriterNext
    /\ UNCHANGED <<now, selector, activations, imported, scripts, cache, loads, active>>

SelectionActs == SelectionStep /\ UNCHANGED <<lockFile, pc, target, written>>

EditorNext == WriterActs \/ SelectionActs

EditorSpec == EditorInit /\ [][EditorNext]_editorVars
=============================================================================

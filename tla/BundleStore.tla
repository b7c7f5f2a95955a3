----------------------------- MODULE BundleStore -----------------------------
(***************************************************************************)
(* What the publication of an editor dataset promises: a bundle appears    *)
(* under its name in one step, with all of its files, and is never         *)
(* replaced or changed afterwards.                                         *)
(***************************************************************************)
EXTENDS Naturals

CONSTANTS
    Names,     \* the directories a bundle may be written to
    Writers,   \* runs of scripts/build_editor_dataset.py
    Files,     \* how many files a bundle has
    NoBundle

VARIABLE bundle

Whole(w) == [by |-> w, files |-> Files]

StoreInit == bundle = [n \in Names |-> NoBundle]

Publish(n, w) ==
    /\ bundle[n] = NoBundle
    /\ bundle' = [bundle EXCEPT ![n] = Whole(w)]

StoreNext == \E n \in Names, w \in Writers : Publish(n, w)

StoreSpec == StoreInit /\ [][StoreNext]_bundle
=============================================================================

------------------------- MODULE EditorDatasetProofs -------------------------
(***************************************************************************)
(* Any number of names, writers, files, scripts, processes and threads: the *)
(* writers of bundles (BundleWriter, here W), the selection of one of them  *)
(* (DatasetSelection), and both on one directory.                          *)
(***************************************************************************)
EXTENDS EditorDataset, TLAPS

-----------------------------------------------------------------------------
(* The writers. *)

LEMMA WritersInit ==
  WriterInit => WriterInv
  BY FilesAssumption, WritersAssumption
  DEF WriterInit, WriterInv, WriterTypeOK, LockHasItsWriter, NothingToOverwrite, Phases, Ended, Holding

\* Only the writer named in the lock file fills and publishes its target.
LEMMA OneHolder ==
  ASSUME LockHasItsWriter, WriterTypeOK, NEW w \in Writers, NEW v \in Writers,
         pc[w] \in Holding, pc[v] \in Holding, target[w] = target[v]
  PROVE  w = v
  BY DEF LockHasItsWriter, WriterTypeOK

LEMMA WritersStep ==
  ASSUME WriterInv, [WriterNext]_writerVars
  PROVE  WriterInv'
<1> USE FilesAssumption, WritersAssumption
<1> USE DEF WriterInv, WriterTypeOK, LockHasItsWriter, NothingToOverwrite, Step, Phases, Ended, Holding
<1>1. ASSUME NEW w \in Writers, LookAtTarget(w) PROVE WriterInv'
  <2> PICK n \in Names :
        /\ target' = [target EXCEPT ![w] = n]
        /\ pc' = [pc EXCEPT ![w] = IF bundle[n] = NoBundle THEN "locking" ELSE "refused"]
    BY <1>1 DEF LookAtTarget
  <2>1. UNCHANGED <<bundle, lockFile, written>> /\ pc[w] \in Ended
    BY <1>1 DEF LookAtTarget
  <2>2. WriterTypeOK'
    BY <2>1
  <2>3. LockHasItsWriter'
    BY <2>1
  <2>4. NothingToOverwrite'
    BY <2>1
  <2> QED BY <2>2, <2>3, <2>4
<1>2. ASSUME NEW w \in Writers, CreateLock(w) PROVE WriterInv'
  <2>1. WriterTypeOK'
    BY <1>2 DEF CreateLock
  <2>2. LockHasItsWriter'
    BY <1>2 DEF CreateLock, LockCreated
  <2>3. NothingToOverwrite'
    BY <1>2 DEF CreateLock
  <2> QED BY <2>1, <2>2, <2>3
<1>3. ASSUME NEW w \in Writers, LockExists(w) PROVE WriterInv'
  BY <1>3 DEF LockExists
<1>4. ASSUME NEW w \in Writers, WriteFile(w) PROVE WriterInv'
  BY <1>4 DEF WriteFile
<1>5. ASSUME NEW w \in Writers, LookAgain(w) PROVE WriterInv'
  BY <1>5 DEF LookAgain, MayPublish
<1>6. ASSUME NEW w \in Writers, Rename(w) PROVE WriterInv'
  <2>1. WriterTypeOK'
    BY <1>6 DEF Rename
  <2>2. LockHasItsWriter'
    BY <1>6 DEF Rename
  <2>3. ASSUME NEW v \in Writers, pc'[v] = "publishing"
        PROVE  bundle'[target'[v]] = NoBundle /\ written'[v] = Files
    <3>1. v # w /\ pc[v] = "publishing"
      BY <1>6, <2>3 DEF Rename
    <3>2. target[v] # target[w]
      BY <1>6, <3>1, OneHolder DEF Rename
    <3> QED BY <1>6, <3>1, <3>2 DEF Rename
  <2> QED BY <2>1, <2>2, <2>3
<1>7. ASSUME NEW w \in Writers, Fail(w) PROVE WriterInv'
  BY <1>7 DEF Fail
<1>8. ASSUME NEW w \in Writers, Discard(w) PROVE WriterInv'
  BY <1>8 DEF Discard
<1>9. ASSUME NEW w \in Writers, Unlock(w) PROVE WriterInv'
  <2> /\ pc[w] \in {"unlocking", "renamed"}
      /\ pc' \in {[pc EXCEPT ![w] = "failed"], [pc EXCEPT ![w] = "published"]}
      /\ lockFile' = [lockFile EXCEPT ![target[w]] = NoWriter]
      /\ UNCHANGED <<bundle, target, written>>
    BY <1>9 DEF Unlock, Unlinked
  <2> HIDE <1>9
  <2>1. WriterTypeOK'
    OBVIOUS
  <2>2. LockHasItsWriter'
    OBVIOUS
  <2>3. NothingToOverwrite'
    OBVIOUS
  <2> QED BY <2>1, <2>2, <2>3
<1>10. ASSUME NEW w \in Writers, Kill(w) PROVE WriterInv'
  <2>1. WriterTypeOK'
    BY <1>10 DEF Kill
  <2>2. LockHasItsWriter'
    BY <1>10 DEF Kill
  <2>3. NothingToOverwrite'
    BY <1>10 DEF Kill
  <2> QED BY <2>1, <2>2, <2>3
<1>11. CASE UNCHANGED writerVars
  BY <1>11 DEF writerVars
<1> QED
  BY <1>1, <1>2, <1>3, <1>4, <1>5, <1>6, <1>7, <1>8, <1>9, <1>10, <1>11 DEF WriterNext, Proceed

\* Two writers never fill or publish one name at a time, and who publishes has
\* every file and overwrites nothing (the inductive invariant).
THEOREM WritersTakeTurns == WriterSpec => []WriterInv
  BY WritersInit, WritersStep, PTL DEF WriterSpec

LEMMA WritersPublishWhole ==
  ASSUME WriterInv, [WriterNext]_writerVars PROVE [StoreNext]_bundle
<1> SUFFICES ASSUME WriterNext PROVE StoreNext \/ UNCHANGED bundle
  BY DEF writerVars
<1>1. ASSUME NEW w \in Writers, Rename(w) PROVE StoreNext
  <2>1. bundle[target[w]] = NoBundle /\ written[w] = Files /\ target[w] \in Names
    BY <1>1 DEF Rename, Step, WriterInv, WriterTypeOK, NothingToOverwrite
  <2> QED BY <1>1, <2>1 DEF Rename, StoreNext, Publish, Whole
<1>2. ASSUME NEW w \in Writers, ~Rename(w), LookAtTarget(w) \/ Proceed(w) \/ Kill(w)
      PROVE  UNCHANGED bundle
  BY <1>2 DEF LookAtTarget, Proceed, CreateLock, LockExists, WriteFile, LookAgain,
              Fail, Discard, Unlock, Kill
<1> QED BY <1>1, <1>2 DEF WriterNext

\* Every step of the writers publishes a whole bundle under a free name or
\* changes no bundle.
THEOREM BundlesAreImmutable == WriterSpec => BundlesAppearWhole
<1>1. WriterInit => StoreInit
  BY DEF WriterInit, StoreInit
<1> QED
  BY <1>1, WritersPublishWhole, WritersTakeTurns, PTL DEF WriterSpec, BundlesAppearWhole, StoreSpec

\* The lock file of a killed writer stays and keeps every later run from
\* publishing under its name.
THEOREM OrphansBlock == WriterSpec => OrphanBlocksName
<1>1. WriterInv /\ [WriterNext]_writerVars =>
        [\A n \in Names : lockFile[n] = Orphan =>
             lockFile'[n] = Orphan /\ bundle'[n] = bundle[n]]_writerVars
  <2> SUFFICES ASSUME WriterInv, WriterNext, NEW n \in Names, lockFile[n] = Orphan
               PROVE  lockFile'[n] = Orphan /\ bundle'[n] = bundle[n]
    OBVIOUS
  <2> USE WritersAssumption
      DEF WriterInv, WriterTypeOK, LockHasItsWriter, Step, Holding, Ended
  <2>1. ASSUME NEW w \in Writers, pc[w] \in Holding PROVE target[w] # n
    BY <2>1
  <2>2. ASSUME NEW w \in Writers, CreateLock(w) PROVE lockFile'[n] = Orphan /\ bundle'[n] = bundle[n]
    BY <2>2 DEF CreateLock, LockCreated
  <2>3. ASSUME NEW w \in Writers, Rename(w) \/ Unlock(w)
        PROVE  lockFile'[n] = Orphan /\ bundle'[n] = bundle[n]
    <3>1. pc[w] \in Holding
      BY <2>3 DEF Rename, Unlock
    <3>2. target[w] # n
      BY <2>1, <3>1
    <3> QED BY <2>3, <3>2 DEF Rename, Unlock, Unlinked
  <2>4. ASSUME NEW w \in Writers,
               LookAtTarget(w) \/ LockExists(w) \/ WriteFile(w) \/ LookAgain(w) \/ Fail(w) \/ Discard(w)
        PROVE  lockFile'[n] = Orphan /\ bundle'[n] = bundle[n]
    BY <2>4 DEF LookAtTarget, LockExists, WriteFile, LookAgain, Fail, Discard
  <2>5. ASSUME NEW w \in Writers, Kill(w) PROVE lockFile'[n] = Orphan /\ bundle'[n] = bundle[n]
    BY <2>5 DEF Kill
  <2> QED BY <2>2, <2>3, <2>4, <2>5 DEF WriterNext, Proceed
<1> QED
  BY <1>1, WritersTakeTurns, PTL DEF WriterSpec, OrphanBlocksName

-----------------------------------------------------------------------------
(* The selection. *)

LEMMA InitEstablishes == Init => SelectionInv
  BY NamesAssumption
  DEF Init, StoreInit, SelectionInv, TypeOK, SelectorIsLatest, ScriptsInOrder, EntriesInOrder,
      LoadsWatched, Stamps

\* Selecting adds to the history and leaves what is in it.
LEMMA HistoryGrows ==
  ASSUME activations \subseteq activations', NEW name, NEW tick, NoOlderThanStamp(name, tick)
  PROVE  NoOlderThanStamp(name, tick)'
  BY DEF NoOlderThanStamp

LEMMA WatchesStay ==
  ASSUME LoadsWatched, UNCHANGED <<activations, rpc, seen, active>>
  PROVE  LoadsWatched'
  BY DEF LoadsWatched

LEMMA PublishKeepsInv == ASSUME SelectionInv, PublishBundle PROVE SelectionInv'
<1>1. PICK n \in Names, w \in Writers :
        bundle[n] = NoBundle /\ bundle' = [bundle EXCEPT ![n] = Whole(w)]
  BY DEF PublishBundle, StoreNext, Publish
<1>2. UNCHANGED <<now, selector, activations, imported, scripts, cache, loads, active>>
  BY DEF PublishBundle
<1> USE DEF SelectionInv, TypeOK, scripts, loads
<1>3. TypeOK'
  BY <1>1, <1>2
<1>4. \A m \in Names : bundle[m] # NoBundle => bundle'[m] # NoBundle
  BY <1>1
<1>5. SelectorIsLatest' /\ ScriptsInOrder'
  BY <1>2, <1>4 DEF SelectorIsLatest, ScriptsInOrder
<1>6. EntriesInOrder' /\ LoadsWatched'
  BY <1>2, WatchesStay DEF EntriesInOrder, NoOlderThanStamp
<1> QED BY <1>3, <1>5, <1>6

LEMMA TickKeepsInv == ASSUME SelectionInv, Tick PROVE SelectionInv'
<1>1. now' = now + 1 /\ UNCHANGED <<bundle, selector, activations, imported, scripts, cache, loads, active>>
  BY DEF Tick
<1> USE <1>1 DEF SelectionInv, TypeOK, scripts, loads
<1>2. TypeOK'
  OBVIOUS
<1>3. SelectorIsLatest' /\ ScriptsInOrder'
  BY DEF SelectorIsLatest, ScriptsInOrder
<1>4. EntriesInOrder' /\ LoadsWatched'
  BY WatchesStay DEF EntriesInOrder, NoOlderThanStamp
<1> QED BY <1>2, <1>3, <1>4

LEMMA ScriptsKeepInv ==
  ASSUME SelectionInv, NEW a \in Activators, Validate(a) \/ ImportBundle(a) \/ Leave(a)
  PROVE  SelectionInv'
<1> USE NamesAssumption DEF SelectionInv, TypeOK
<1>1. UNCHANGED <<bundle, now, selector, activations, cache, loads, active>>
  BY DEF Validate, ImportBundle, Leave, files
<1>2. SelectorIsLatest'
  BY <1>1 DEF SelectorIsLatest
<1>3. EntriesInOrder' /\ LoadsWatched'
  BY <1>1, WatchesStay DEF EntriesInOrder, NoOlderThanStamp, loads
<1>4. CASE Validate(a)
  <2>1. PICK n \in Names, import \in BOOLEAN :
          /\ bundle[n] # NoBundle
          /\ chosen' = [chosen EXCEPT ![a] = n]
          /\ apply' = [apply EXCEPT ![a] = import]
          /\ apc' = [apc EXCEPT ![a] = IF import THEN "import" ELSE "select"]
    BY <1>4 DEF Validate
  <2>2. imported' = imported
    BY <1>4 DEF Validate, files
  <2>3. TypeOK'
    BY <1>1, <2>1, <2>2 DEF loads
  <2>4. ScriptsInOrder'
    BY <1>1, <2>1, <2>2 DEF ScriptsInOrder
  <2> QED BY <1>2, <1>3, <2>3, <2>4
<1>5. CASE ImportBundle(a)
  <2>1. PICK ok \in BOOLEAN :
          /\ imported' = IF ok THEN imported \cup {chosen[a]} ELSE imported
          /\ apc' = [apc EXCEPT ![a] = AfterImport(ok)]
    BY <1>5 DEF ImportBundle
  <2>2. UNCHANGED <<chosen, apply>> /\ apc[a] = "import" /\ chosen[a] \in Names
    BY <1>5 DEF ImportBundle, ScriptsInOrder
  <2>3. TypeOK'
    BY <1>1, <2>1, <2>2 DEF loads, AfterImport
  <2>4. ScriptsInOrder'
    BY <1>1, <2>1, <2>2 DEF ScriptsInOrder, AfterImport
  <2> QED BY <1>2, <1>3, <2>3, <2>4
<1>6. CASE Leave(a)
  <2>1. TypeOK'
    BY <1>1, <1>6 DEF Leave, loads, files
  <2>2. ScriptsInOrder'
    BY <1>1, <1>6 DEF Leave, ScriptsInOrder, files
  <2> QED BY <1>2, <1>3, <2>1, <2>2
<1> QED BY <1>4, <1>5, <1>6

LEMMA SelectKeepsInv ==
  ASSUME SelectionInv, NEW a \in Activators, Select(a)
  PROVE  SelectionInv'
<1> DEFINE new == [name |-> chosen[a], tick |-> now]
<1>1. /\ selector' = new
      /\ activations' = activations \cup {new}
      /\ active' = [r \in Readers |-> IF rpc[r] = "idle" THEN {} ELSE active[r] \cup {chosen[a]}]
      /\ apc' = [apc EXCEPT ![a] = "selected"]
      /\ apc[a] = "select"
      /\ UNCHANGED <<bundle, now, imported, chosen, apply, cache, rpc, seen, got>>
  BY DEF Select, loads
<1>2. chosen[a] \in Names /\ bundle[chosen[a]] # NoBundle
  BY <1>1 DEF SelectionInv, ScriptsInOrder
<1> USE <1>1, <1>2 DEF SelectionInv, TypeOK
<1>3. new \in [name: Names, tick: Nat] /\ new # NoSelector /\ new.tick = now /\ new.name = chosen[a]
  BY NamesAssumption
<1> HIDE DEF new
<1>4. TypeOK'
  BY <1>3
<1>5. SelectorIsLatest'
  BY <1>3 DEF SelectorIsLatest
<1>6. ScriptsInOrder'
  BY DEF ScriptsInOrder
<1>7. EntriesInOrder'
  BY DEF EntriesInOrder, NoOlderThanStamp
<1>8. LoadsWatched'
  BY <1>3 DEF LoadsWatched
<1> QED BY <1>4, <1>5, <1>6, <1>7, <1>8

LEMMA LoadsKeepInv ==
  ASSUME SelectionInv, NEW r \in Readers,
         BeginLoad(r) \/ LookUp(r) \/ ReadSelector(r) \/ StoreEntry(r) \/ EndLoad(r)
  PROVE  SelectionInv'
<1> USE NamesAssumption, ReadersAssumption DEF SelectionInv, TypeOK, Stamps
<1>1. UNCHANGED <<files, scripts>>
  BY DEF BeginLoad, LookUp, ReadSelector, StoreEntry, EndLoad
<1>2. SelectorIsLatest' /\ ScriptsInOrder'
  BY <1>1 DEF SelectorIsLatest, ScriptsInOrder, files, scripts
<1>3. CASE BeginLoad(r)
  <2> USE <1>1, <1>3 DEF BeginLoad, files, scripts, Stamp
  <2>1. TypeOK'
    OBVIOUS
  <2>2. EntriesInOrder'
    BY DEF EntriesInOrder, NoOlderThanStamp
  <2>3. LoadsWatched'
    BY DEF LoadsWatched, SelectorIsLatest
  <2> QED BY <1>2, <2>1, <2>2, <2>3
<1>4. CASE LookUp(r)
  <2> USE <1>1, <1>4 DEF LookUp, files, scripts
  <2>1. TypeOK'
    BY DEF Fresh
  <2>2. EntriesInOrder'
    BY DEF EntriesInOrder, NoOlderThanStamp, Fresh
  <2>3. LoadsWatched'
    BY DEF LoadsWatched
  <2> QED BY <1>2, <2>1, <2>2, <2>3
<1>5. CASE ReadSelector(r)
  <2> USE <1>1, <1>5 DEF ReadSelector, files, scripts
  <2>1. selector # NoSelector /\ selector \in activations /\ selector.tick >= seen[r].tick
    BY DEF SelectorIsLatest, LoadsWatched
  <2>2. TypeOK'
    BY <2>1
  <2>3. EntriesInOrder'
    BY <2>1 DEF EntriesInOrder, NoOlderThanStamp
  <2>4. LoadsWatched'
    BY DEF LoadsWatched
  <2> QED BY <1>2, <2>2, <2>3, <2>4
<1>6. CASE StoreEntry(r)
  <2> USE <1>1, <1>6 DEF StoreEntry, StampOfLoad, files, scripts
  <2>1. got[r] \in Names /\ NoOlderThanStamp(got[r], seen[r].tick)
    BY DEF EntriesInOrder, NoOlderThanStamp
  <2>2. TypeOK'
    BY <2>1
  <2>3. EntriesInOrder'
    BY <2>1 DEF EntriesInOrder, NoOlderThanStamp
  <2>4. LoadsWatched'
    BY DEF LoadsWatched
  <2> QED BY <1>2, <2>2, <2>3, <2>4
<1>7. CASE EndLoad(r)
  <2> USE <1>1, <1>7 DEF EndLoad, files, scripts
  <2>1. TypeOK'
    OBVIOUS
  <2>2. EntriesInOrder'
    BY DEF EntriesInOrder, NoOlderThanStamp
  <2>3. LoadsWatched'
    BY DEF LoadsWatched
  <2> QED BY <1>2, <2>1, <2>2, <2>3
<1> QED BY <1>3, <1>4, <1>5, <1>6, <1>7

LEMMA RestartKeepsInv ==
  ASSUME SelectionInv, NEW p \in Processes, Restart(p)
  PROVE  SelectionInv'
<1> USE NamesAssumption, ReadersAssumption DEF SelectionInv, TypeOK, Stamps, Restart, files, scripts
<1>1. TypeOK'
  OBVIOUS
<1>2. SelectorIsLatest' /\ ScriptsInOrder'
  BY DEF SelectorIsLatest, ScriptsInOrder
<1>3. EntriesInOrder'
  BY DEF EntriesInOrder, NoOlderThanStamp
<1>4. LoadsWatched'
  BY DEF LoadsWatched
<1> QED BY <1>1, <1>2, <1>3, <1>4

\* The selector moves forward in time and entries are no older than their
\* stamps (the inductive invariant).
THEOREM SelectionMovesForward == Spec => []SelectionInv
<1>1. SelectionInv /\ UNCHANGED vars => SelectionInv'
  <2> SUFFICES ASSUME SelectionInv, UNCHANGED vars PROVE SelectionInv'
    OBVIOUS
  <2> USE DEF vars, files, scripts, loads
  <2>1. TypeOK'
    BY DEF SelectionInv, TypeOK
  <2>2. SelectorIsLatest' /\ ScriptsInOrder' /\ EntriesInOrder' /\ LoadsWatched'
    BY DEF SelectionInv, SelectorIsLatest, ScriptsInOrder, EntriesInOrder, LoadsWatched, NoOlderThanStamp
  <2> QED BY <2>1, <2>2 DEF SelectionInv
<1>2. SelectionInv /\ [Next]_vars => SelectionInv'
  BY <1>1, PublishKeepsInv, TickKeepsInv, ScriptsKeepInv, SelectKeepsInv, LoadsKeepInv,
     RestartKeepsInv DEF Next, SelectionStep
<1> QED BY <1>2, InitEstablishes, PTL DEF Spec

\* A load answers with a bundle that was selected while it ran, unless two
\* bundles were selected within one tick of the clock.
THEOREM AnswersAreCurrent == Spec => []AnswerWasActive
<1>1. SelectionInv => AnswerWasActive
  <2> SUFFICES ASSUME SelectionInv, ~SameTick, NEW r \in Readers, rpc[r] = "answered"
               PROVE  got[r] \in active[r]
    BY DEF AnswerWasActive
  <2> USE DEF SelectionInv, TypeOK, Stamps
  <2>1. PICK x \in activations : x.name = got[r] /\ x.tick >= seen[r].tick
    BY DEF EntriesInOrder, NoOlderThanStamp
  <2>2. PICK y \in activations : y.tick = seen[r].tick /\ y.name \in active[r]
    BY DEF LoadsWatched
  <2>3. CASE x.tick > seen[r].tick
    BY <2>1, <2>3 DEF LoadsWatched
  <2>4. CASE x.tick = seen[r].tick
    BY <2>1, <2>2, <2>4 DEF SameTick
  <2>5. x.tick \in Nat /\ seen[r].tick \in Nat /\ x.tick >= seen[r].tick
    BY <2>1
  <2>6. x.tick > seen[r].tick \/ x.tick = seen[r].tick
    <3> HIDE DEF SelectionInv, TypeOK, Stamps
    <3> QED BY <2>5
  <2> QED BY <2>3, <2>4, <2>6
<1> QED BY <1>1, SelectionMovesForward, PTL

\* The importing script selects no bundle whose import is not committed.
THEOREM SelectionFollowsImport == Spec => SelectedAfterImport
<1>1. SelectionInv /\ [Next]_vars =>
        [\A a \in Activators :
            apc[a] = "select" /\ apc'[a] = "selected" /\ apply[a] =>
                selector'.name \in imported]_vars
  <2> SUFFICES ASSUME SelectionInv, Next, NEW a \in Activators,
                      apc[a] = "select", apc'[a] = "selected", apply[a]
               PROVE  selector'.name \in imported
    OBVIOUS
  <2> USE DEF SelectionInv, TypeOK
  <2>1. chosen[a] \in imported
    BY DEF ScriptsInOrder
  <2>2. PICK b \in Activators : Select(b)
    <3>1. ASSUME NEW b \in Activators, Validate(b) \/ ImportBundle(b) \/ Leave(b) PROVE FALSE
      BY <3>1 DEF Validate, ImportBundle, Leave, AfterImport
    <3>2. ASSUME UNCHANGED scripts PROVE FALSE
      BY <3>2 DEF scripts
    <3> QED BY <3>1, <3>2 DEF Next, PublishBundle, SelectionStep, Tick, BeginLoad, LookUp, ReadSelector, StoreEntry,
                              EndLoad, Restart
  <2>3. b = a
    BY <2>2 DEF Select
  <2> QED BY <2>1, <2>2, <2>3 DEF Select
<1> QED BY <1>1, SelectionMovesForward, PTL DEF Spec, SelectedAfterImport

-----------------------------------------------------------------------------
(* Both on one directory. *)

LEMMA SelectionKeepsBundles ==
  ASSUME SelectionStep PROVE UNCHANGED bundle
  BY DEF SelectionStep, Tick, Validate, ImportBundle, Select, Leave, BeginLoad, LookUp,
         ReadSelector, StoreEntry, EndLoad, Restart, files

LEMMA EditorRunsWriters ==
  ASSUME [EditorNext]_editorVars PROVE [WriterNext]_writerVars
  BY SelectionKeepsBundles DEF EditorNext, WriterActs, SelectionActs, editorVars, writerVars

\* Selecting bundles beside them is no concern of the writers.
THEOREM EditorWrites == EditorSpec => WriterSpec
  BY EditorRunsWriters, PTL DEF EditorSpec, EditorInit, WriterSpec

\* Beside running, failing and killed writers, a selection behaves as if each
\* bundle were published in one step.
THEOREM EditorSelects == EditorSpec => Spec
<1>1. WriterInv /\ [EditorNext]_editorVars => [Next]_vars
  <2> SUFFICES ASSUME WriterInv, [EditorNext]_editorVars PROVE [Next]_vars
    OBVIOUS
  <2>1. CASE WriterActs
    <3>1. [StoreNext]_bundle
      BY <2>1, WritersPublishWhole DEF WriterActs
    <3> QED BY <2>1, <3>1 DEF WriterActs, Next, PublishBundle, vars, files
  <2>2. CASE SelectionActs
    BY <2>2 DEF SelectionActs, Next
  <2>3. CASE UNCHANGED editorVars
    BY <2>3 DEF editorVars
  <2> QED BY <2>1, <2>2, <2>3 DEF EditorNext
<1>2. EditorSpec => []WriterInv
  BY EditorWrites, WritersTakeTurns
<1> QED BY <1>1, <1>2, PTL DEF EditorSpec, EditorInit, Spec

\* So the answers of the server are current whatever the writers do.
COROLLARY EditorAnswersAreCurrent ==
  EditorSpec => []AnswerWasActive /\ SelectedAfterImport
  BY EditorSelects, AnswersAreCurrent, SelectionFollowsImport
=============================================================================

---------------------------- MODULE BundleWriter ----------------------------
(***************************************************************************)
(* write_editor_dataset of src/editor_dataset/pipeline.py: processes that   *)
(* publish bundles in one directory, without a server between them.        *)
(*                                                                         *)
(* A writer looks whether its target exists, creates the lock file of that *)
(* name, fills a directory of its own, looks at the target again, renames  *)
(* its directory to the target and unlinks the lock file.  Another writer  *)
(* may act between any two of these system calls, any of them may fail,    *)
(* and the process may be killed; a killed writer cleans nothing up, and   *)
(* nobody else removes its lock file.                                      *)
(***************************************************************************)
EXTENDS BundleStore

CONSTANTS
    NoWriter,   \* no lock file
    Orphan      \* the lock file of a process that no longer runs

ASSUME FilesAssumption == Files \in Nat \ {0}

ASSUME WritersAssumption ==
    /\ NoWriter \notin Writers /\ Orphan \notin Writers /\ NoWriter # Orphan
    /\ \A w \in Writers, k \in 0..Files : NoBundle # [by |-> w, files |-> k]

VARIABLES
    lockFile,   \* whose lock file exists
    pc, target, \* each writer's progress and the name it writes to
    written     \* how many files are in its temporary directory

writerVars == <<bundle, lockFile, pc, target, written>>

Ended == {"idle", "refused", "published", "failed", "killed"}
Holding == {"writing", "publishing", "discarding", "unlocking", "renamed"}
Phases == Ended \cup Holding \cup {"locking"}

Step(w, from, to) == pc[w] = from /\ pc' = [pc EXCEPT ![w] = to]

-----------------------------------------------------------------------------

WriterInit ==
    /\ bundle = [n \in Names |-> NoBundle]
    /\ lockFile = [n \in Names |-> NoWriter]
    /\ pc = [w \in Writers |-> "idle"]
    /\ target \in [Writers -> Names]
    /\ written = [w \in Writers |-> 0]

\* A run of the script, or another run after one that ended, looks at its target.
LookAtTarget(w) ==
    /\ pc[w] \in Ended
    /\ \E n \in Names :
          /\ target' = [target EXCEPT ![w] = n]
          /\ pc' = [pc EXCEPT ![w] = IF bundle[n] = NoBundle THEN "locking" ELSE "refused"]
    /\ UNCHANGED <<bundle, lockFile, written>>

\* Mutant: O_EXCL is missing, so an existing lock file is opened.
OpenAnyLock(w) == TRUE

\* O_CREAT | O_EXCL succeeds only if the file does not exist.
LockCreated(w) == lockFile[target[w]] = NoWriter

CreateLock(w) ==
    /\ Step(w, "locking", "writing")
    /\ LockCreated(w)
    /\ lockFile' = [lockFile EXCEPT ![target[w]] = w]
    /\ written' = [written EXCEPT ![w] = 0]
    /\ UNCHANGED <<bundle, target>>

\* "Editor dataset bundle is already being written".
LockExists(w) ==
    /\ Step(w, "locking", "refused")
    /\ ~LockCreated(w)
    /\ UNCHANGED <<bundle, lockFile, target, written>>

\* One more file of the temporary directory; the manifest is the last.
WriteFile(w) ==
    /\ pc[w] = "writing"
    /\ written[w] < Files
    /\ written' = [written EXCEPT ![w] = @ + 1]
    /\ UNCHANGED <<bundle, lockFile, pc, target>>

\* Mutant: the target is not looked at again under the lock.
NoSecondLook(w) == written[w] = Files

\* All files are written and the target still does not exist.
MayPublish(w) == bundle[target[w]] = NoBundle /\ written[w] = Files

LookAgain(w) ==
    /\ Step(w, "writing", "publishing")
    /\ MayPublish(w)
    /\ UNCHANGED <<bundle, lockFile, target, written>>

\* os.rename has no guard here: that it never meets a target is shown.
Rename(w) ==
    /\ Step(w, "publishing", "renamed")
    /\ bundle' = [bundle EXCEPT ![target[w]] = [by |-> w, files |-> written[w]]]
    /\ UNCHANGED <<lockFile, target, written>>

\* The target appeared meanwhile, or a system call fails.
Fail(w) ==
    /\ pc[w] \in {"writing", "publishing"}
    /\ pc' = [pc EXCEPT ![w] = "discarding"]
    /\ UNCHANGED <<bundle, lockFile, target, written>>

\* rmtree of its own temporary directory.
Discard(w) ==
    /\ Step(w, "discarding", "unlocking")
    /\ written' = [written EXCEPT ![w] = 0]
    /\ UNCHANGED <<bundle, lockFile, target>>

\* Mutant: the lock file is kept when the bundle was not published.
UnlockIfPublished(w) ==
    IF pc[w] = "renamed" THEN [lockFile EXCEPT ![target[w]] = NoWriter] ELSE lockFile

\* The finally clause unlinks the path, whoever created the file.
Unlinked(w) == [lockFile EXCEPT ![target[w]] = NoWriter]

Unlock(w) ==
    /\ \/ Step(w, "unlocking", "failed")
       \/ Step(w, "renamed", "published")
    /\ lockFile' = Unlinked(w)
    /\ UNCHANGED <<bundle, target, written>>

\* SIGKILL or an exhausted container; the file system keeps what was written.
Kill(w) ==
    /\ pc[w] \notin Ended
    /\ pc' = [pc EXCEPT ![w] = "killed"]
    /\ lockFile' = [n \in Names |-> IF lockFile[n] = w THEN Orphan ELSE lockFile[n]]
    /\ UNCHANGED <<bundle, target, written>>

Proceed(w) ==
    \/ CreateLock(w) \/ LockExists(w) \/ WriteFile(w) \/ LookAgain(w)
    \/ Rename(w) \/ Fail(w) \/ Discard(w) \/ Unlock(w)

WriterNext == \E w \in Writers : LookAtTarget(w) \/ Proceed(w) \/ Kill(w)

WriterSpec == WriterInit /\ [][WriterNext]_writerVars

\* A process that is not killed makes its next system call.
FairSpec == WriterSpec /\ \A w \in Writers : WF_writerVars(Proceed(w))

-----------------------------------------------------------------------------

WriterTypeOK ==
    /\ bundle \in [Names -> [by: Writers, files: 0..Files] \cup {NoBundle}]
    /\ lockFile \in [Names -> Writers \cup {NoWriter, Orphan}]
    /\ pc \in [Writers -> Phases]
    /\ target \in [Writers -> Names]
    /\ written \in [Writers -> 0..Files]

\* A lock file that is not orphaned belongs to a running writer of that name,
\* and a running writer past its creation owns one: two never fill or publish
\* the same name at a time, though the unlink names a path and no owner.
LockHasItsWriter ==
    \A n \in Names, w \in Writers :
        lockFile[n] = w <=> pc[w] \in Holding /\ target[w] = n

\* A writer about to rename has every file, and nothing took its target since
\* it looked: only the holder of the lock could have.
NothingToOverwrite ==
    \A w \in Writers : pc[w] = "publishing" =>
        bundle[target[w]] = NoBundle /\ written[w] = Files

\* The inductive invariant of the writers.
WriterInv == WriterTypeOK /\ LockHasItsWriter /\ NothingToOverwrite

\* The two looks at the target and the lock together keep a bundle from being
\* replaced, and the rename shows it with all its files: the docs promise
\* that an existing target is never overwritten nor written in part.
BundlesAppearWhole == StoreSpec

\* A killed writer changes no bundle, and its lock file blocks the name for
\* good: no later run, whatever it does, publishes there.
OrphanBlocksName ==
    [][\A n \in Names : lockFile[n] = Orphan =>
           lockFile'[n] = Orphan /\ bundle'[n] = bundle[n]]_writerVars

\* No writer keeps the lock file of a name: it is unlinked at the end of the
\* call, whatever failed, or the process is killed and the file orphaned.
LockIsReleased ==
    \A n \in Names, w \in Writers :
        lockFile[n] = w ~> lockFile[n] # w
=============================================================================

------------------------- MODULE ProjectGraphProofs -------------------------
(***************************************************************************)
(* Theorems about ProjectGraph, for any users, processes and requests.      *)
(***************************************************************************)
EXTENDS ProjectGraph, TLAPS

-----------------------------------------------------------------------------
(* The order of the rows.                                                  *)

\* A request of kind k comes to row r.
OnPath(k, r) ==
    /\ r \in Locks
    /\ r \in {"universe", "world"} => k \in {"ensure", "delete"}
    /\ r = "roles" => k # "revoke"

LEMMA PathFacts ==
    ASSUME NEW k \in Kinds, NEW r \in Locks, OnPath(k, r)
    PROVE  /\ r \notin Before(k, r)
           /\ Before(k, After(k, r)) = Before(k, r) \cup {r}
           /\ After(k, r) \in (Locks \ {"project"}) \cup {"commit"}
           /\ After(k, r) \in Locks => OnPath(k, After(k, r))
  BY DEF OnPath, Kinds, Before, After, Locks, Rows, Parts

LEMMA CommitFacts ==
    ASSUME NEW k \in Kinds
    PROVE  /\ "project" \in Before(k, "commit") /\ "assignments" \in Before(k, "commit")
           /\ k \in {"ensure", "delete"} => Before(k, "commit") = Locks
           /\ k \in {"initialize", "assign"} => "roles" \in Before(k, "commit")
  BY DEF Kinds, Before, Locks, Rows, Parts

LEMMA BeforeFacts ==
    ASSUME NEW k \in Kinds, NEW r \in Locks
    PROVE  /\ Before(k, "project") = {}
           /\ r # "project" => "project" \in Before(k, r)
           /\ Before(k, r) \subseteq Locks
  BY DEF Kinds, Before, Locks, Rows, Parts

LEMMA RequestFacts ==
    ASSUME TypeOK, NEW p \in Processes
    PROVE  /\ request[p] \in RequestRecords /\ request[p].kind \in Kinds
           /\ request[p].user \in Users
           /\ request[p].replace \in BOOLEAN /\ request[p].restore \in BOOLEAN
  BY ConstantsAssumption DEF TypeOK, RequestRecords

LEMMA NoRequestFacts == NoRequest \in Requests
  BY ConstantsAssumption DEF NoRequest

-----------------------------------------------------------------------------
(* Every step is one of these.                                             *)

GoInsert(p) ==
    /\ pc[p] = "project" /\ Is(p, "ensure") /\ row["project"] = "none"
    /\ pc' = [pc EXCEPT ![p] = "insert"]
    /\ UNCHANGED <<committed, lock, request, changes, seen, retried>>

BeginAgain(p) ==
    /\ pc[p] = "insert" /\ row["project"] # "none"
    /\ pc' = [pc EXCEPT ![p] = "project"]
    /\ retried' = [retried EXCEPT ![p] = TRUE]
    /\ UNCHANGED <<committed, lock, request, changes, seen>>

TakeProject(p) ==
    /\ pc[p] = "project" /\ ~Is(p, "delete") /\ row["project"] # "none" /\ Acceptable(p)
    /\ LockRow(p, "project")
    /\ changes' = [changes EXCEPT ![p] = {"project"} \ {r \in Rows : row[r] = "live"}]
    /\ Advance(p)
    /\ UNCHANGED <<committed, request, seen, retried>>

TakePart(p) ==
    /\ pc[p] \in Parts /\ ~Is(p, "delete")
    /\ Is(p, "assign") => row[pc[p]] = "live"
    /\ LockRow(p, pc[p])
    /\ changes' = [changes EXCEPT ![p] = @ \cup ({pc[p]} \ LiveParts)]
    /\ Advance(p)
    /\ UNCHANGED <<committed, request, seen, retried>>

TakeAssignments(p) ==
    /\ pc[p] = "assignments" /\ ~Is(p, "delete") /\ ~Refused(p)
    /\ LockRow(p, "assignments")
    /\ seen' = [seen EXCEPT ![p] = assigned]
    /\ Advance(p)
    /\ UNCHANGED <<committed, request, changes, retried>>

LEMMA NextCases ==
    ASSUME Next
    PROVE  \E p \in Processes :
              \/ Rollback(p) \/ Begin(p) \/ BeginDelete(p) \/ GoInsert(p) \/ BeginAgain(p)
              \/ Insert(p) \/ TakeProject(p) \/ TakePart(p) \/ TakeAssignments(p)
              \/ DeleteRow(p) \/ DeleteAssignments(p) \/ DeleteRoles(p)
              \/ Commit(p) \/ CommitDelete(p)
<1>1. CASE BreakDeadlock
  BY <1>1 DEF BreakDeadlock
<1>2. ASSUME NEW p \in Processes, Fail(p)
      PROVE  Rollback(p)
  BY <1>2 DEF Fail
<1>3. ASSUME NEW p \in Processes, FindNothing(p)
      PROVE  Rollback(p) \/ GoInsert(p)
  BY <1>3 DEF FindNothing, GoInsert, Unknown
<1>4. ASSUME NEW p \in Processes, UniqueViolation(p)
      PROVE  Rollback(p) \/ BeginAgain(p)
  BY <1>4 DEF UniqueViolation, BeginAgain
<1>5. ASSUME NEW p \in Processes, LockProject(p)
      PROVE  Rollback(p) \/ TakeProject(p)
  BY <1>5 DEF LockProject, TakeProject, Unknown
<1>6. ASSUME NEW p \in Processes, LockPart(p)
      PROVE  Rollback(p) \/ TakePart(p)
  BY <1>6 DEF LockPart, TakePart
<1>7. ASSUME NEW p \in Processes, LockAssignments(p)
      PROVE  Rollback(p) \/ TakeAssignments(p)
  BY <1>7 DEF LockAssignments, TakeAssignments
<1> QED BY <1>1, <1>2, <1>3, <1>4, <1>5, <1>6, <1>7 DEF Next, Proceed

LEMMA InitType == Init => TypeOK
<1> SUFFICES ASSUME Init PROVE TypeOK
  OBVIOUS
<1>1. halved \in BOOLEAN /\ diverged \in BOOLEAN
  BY DEF Init
<1>2. /\ row \in [Rows -> RowStatus] /\ owner \in Users \cup {NoUser}
      /\ assigned \in [Users -> Assignment] /\ seen \in [Processes -> [Users -> Assignment]]
  BY DEF Init, RowStatus, Assignment, NoAssignments
<1>3. /\ lock \in [Locks -> Processes \cup {NoProcess}] /\ pc \in [Processes -> Phases]
      /\ request \in [Processes -> Requests] /\ changes \in [Processes -> SUBSET Rows]
      /\ retried \in [Processes -> BOOLEAN]
  BY NoRequestFacts DEF Init, Phases
<1> QED BY <1>1, <1>2, <1>3 DEF TypeOK

LEMMA EndType ==
    ASSUME TypeOK, NEW p \in Processes, End(p)
    PROVE  /\ pc' \in [Processes -> Phases] /\ lock' \in [Locks -> Processes \cup {NoProcess}]
           /\ request' \in [Processes -> Requests] /\ changes' \in [Processes -> SUBSET Rows]
           /\ seen' \in [Processes -> [Users -> Assignment]]
           /\ retried' \in [Processes -> BOOLEAN]
  BY NoRequestFacts DEF TypeOK, End, Released, Phases, NoAssignments, Assignment

LEMMA GrantedType ==
    ASSUME TypeOK, NEW p \in Processes
    PROVE  Granted(p) \in [Users -> Assignment]
<1> DEFINE u == request[p].user
<1>1. u \in Users /\ assigned \in [Users -> Assignment] /\ seen[p] \in [Users -> Assignment]
  BY RequestFacts DEF TypeOK
<1> HIDE DEF u
<1>2. [assigned EXCEPT ![u] = "active"] \in [Users -> Assignment]
  BY <1>1 DEF Assignment
<1>3. [assigned EXCEPT ![u] = IF seen[p][u] = "active" THEN "revoked" ELSE @] \in [Users -> Assignment]
  BY <1>1 DEF Assignment
<1>4. [v \in Users |-> IF v = u THEN "active" ELSE IF seen[p][v] = "active" THEN "revoked"
                       ELSE assigned[v]] \in [Users -> Assignment]
  BY <1>1 DEF Assignment
<1> QED BY <1>2, <1>3, <1>4 DEF Granted, u

Step(p) ==
    \/ Rollback(p) \/ Begin(p) \/ BeginDelete(p) \/ GoInsert(p) \/ BeginAgain(p)
    \/ Insert(p) \/ TakeProject(p) \/ TakePart(p) \/ TakeAssignments(p)
    \/ DeleteRow(p) \/ DeleteAssignments(p) \/ DeleteRoles(p)
    \/ Commit(p) \/ CommitDelete(p)

LEMMA AdvanceType ==
    ASSUME TypeOK, NEW p \in Processes, Advance(p), pc[p] \in Locks
    PROVE  /\ pc' \in [Processes -> Phases]
           /\ pc'[p] = After(request[p].kind, pc[p])
           /\ pc'[p] \in Locks \cup {"commit"}
<1> DEFINE k == request[p].kind
           r == pc[p]
<1>1. After(k, r) \in Locks \cup {"commit"}
  BY DEF After, Locks, Rows, Parts
<1>2. pc' = [pc EXCEPT ![p] = After(k, r)]
  BY DEF Advance
<1> HIDE DEF k, r
<1> QED BY <1>1, <1>2 DEF TypeOK, Phases, k, r

LEMMA LockRowType ==
    ASSUME TypeOK, NEW p \in Processes, NEW r \in Locks, LockRow(p, r)
    PROVE  lock' \in [Locks -> Processes \cup {NoProcess}]
  BY DEF TypeOK, LockRow

LEMMA StepType ==
    ASSUME TypeOK, NEW p \in Processes, Step(p)
    PROVE  TypeOK'
<1>1. CASE Rollback(p)
  BY <1>1, EndType DEF Rollback, committed, TypeOK
<1>2. CASE Begin(p)
  BY <1>2 DEF Begin, committed, TypeOK, Phases, Locks, Rows
<1>3. CASE BeginDelete(p)
  BY <1>3 DEF BeginDelete, committed, TypeOK, Phases, Locks, Rows
<1>4. CASE GoInsert(p)
  BY <1>4 DEF GoInsert, committed, TypeOK, Phases
<1>5. CASE BeginAgain(p)
  BY <1>5 DEF BeginAgain, committed, TypeOK, Phases, Locks, Rows
<1>6. CASE Insert(p)
  BY <1>6 DEF Insert, committed, TypeOK, Phases, Locks, Rows, Parts
<1>7. CASE TakeProject(p)
  <2>1. pc[p] \in Locks /\ LockRow(p, "project") /\ "project" \in Locks /\ Advance(p)
    BY <1>7 DEF TakeProject, Locks, Rows
  <2>2. changes' \in [Processes -> SUBSET Rows]
    BY <1>7 DEF TakeProject, TypeOK, Rows
  <2>3. lock' \in [Locks -> Processes \cup {NoProcess}] /\ pc' \in [Processes -> Phases]
    BY <2>1, AdvanceType, LockRowType
  <2> QED BY <1>7, <2>2, <2>3 DEF TakeProject, TypeOK, committed
<1>8. CASE TakePart(p)
  <2>1. pc[p] \in Locks /\ pc[p] \in Rows /\ LockRow(p, pc[p]) /\ Advance(p)
    BY <1>8 DEF TakePart, Locks, Rows
  <2>2. changes' \in [Processes -> SUBSET Rows]
    BY <1>8, <2>1 DEF TakePart, TypeOK
  <2>3. lock' \in [Locks -> Processes \cup {NoProcess}] /\ pc' \in [Processes -> Phases]
    BY <2>1, AdvanceType, LockRowType
  <2> QED BY <1>8, <2>2, <2>3 DEF TakePart, TypeOK, committed
<1>9. CASE TakeAssignments(p)
  <2>1. pc[p] \in Locks /\ "assignments" \in Locks /\ LockRow(p, "assignments") /\ Advance(p)
    BY <1>9 DEF TakeAssignments, Locks
  <2> QED BY <1>9, <2>1, AdvanceType, LockRowType DEF TakeAssignments, TypeOK, committed
<1>10. CASE DeleteRow(p)
  <2>1. pc[p] \in Locks /\ LockRow(p, pc[p]) /\ Advance(p) /\ LiveParts \subseteq Rows
    BY <1>10 DEF DeleteRow, Locks, Rows, Parts, LiveParts
  <2> QED BY <1>10, <2>1, AdvanceType, LockRowType DEF DeleteRow, TypeOK, committed
<1>11. CASE DeleteAssignments(p)
  <2>1. pc[p] \in Locks /\ "assignments" \in Locks /\ LockRow(p, "assignments") /\ Advance(p)
    BY <1>11 DEF DeleteAssignments, Locks
  <2> QED BY <1>11, <2>1, AdvanceType, LockRowType DEF DeleteAssignments, TypeOK, committed
<1>12. CASE DeleteRoles(p)
  <2>1. pc[p] \in Locks /\ "roles" \in Locks /\ LockRow(p, "roles") /\ Advance(p)
        /\ LiveParts \subseteq Rows
    BY <1>12 DEF DeleteRoles, Locks, Rows, Parts, LiveParts
  <2> QED BY <1>12, <2>1, AdvanceType, LockRowType DEF DeleteRoles, TypeOK, committed
<1>13. CASE Commit(p)
  <2>1. row' \in [Rows -> RowStatus]
    BY <1>13 DEF Commit, TypeOK, RowStatus
  <2>2. owner' \in Users \cup {NoUser}
    BY <1>13, RequestFacts DEF Commit, TypeOK
  <2>3. assigned' \in [Users -> Assignment] /\ End(p)
    BY <1>13, GrantedType DEF Commit, TypeOK
  <2>4. halved' \in BOOLEAN /\ diverged' \in BOOLEAN
    BY <1>13 DEF Commit
  <2> QED BY <2>1, <2>2, <2>3, <2>4, EndType DEF TypeOK
<1>14. CASE CommitDelete(p)
  <2>1. row' \in [Rows -> RowStatus]
    BY <1>14 DEF CommitDelete, TypeOK, RowStatus
  <2>2. assigned' \in [Users -> Assignment]
    BY <1>14 DEF CommitDelete, TypeOK, Assignment
  <2>3. owner' \in Users \cup {NoUser} /\ End(p)
        /\ halved' \in BOOLEAN /\ diverged' \in BOOLEAN
    BY <1>14 DEF CommitDelete, TypeOK
  <2> QED BY <2>1, <2>2, <2>3, EndType DEF TypeOK
<1> QED BY <1>1, <1>2, <1>3, <1>4, <1>5, <1>6, <1>7, <1>8, <1>9, <1>10, <1>11, <1>12,
           <1>13, <1>14 DEF Step

-----------------------------------------------------------------------------
(* What a step of one process leaves to the others.                        *)

Same(q) ==
    /\ pc'[q] = pc[q] /\ request'[q] = request[q] /\ changes'[q] = changes[q]
    /\ seen'[q] = seen[q] /\ retried'[q] = retried[q]

LEMMA OthersStay ==
    ASSUME TypeOK, NEW p \in Processes, Step(p), NEW q \in Processes, q # p
    PROVE  Same(q)
<1>1. CASE Rollback(p) \/ Commit(p) \/ CommitDelete(p)
  BY <1>1 DEF Rollback, Commit, CommitDelete, End, Same, TypeOK
<1>2. CASE Begin(p) \/ BeginDelete(p) \/ GoInsert(p) \/ BeginAgain(p) \/ Insert(p)
  BY <1>2 DEF Begin, BeginDelete, GoInsert, BeginAgain, Insert, Same, TypeOK
<1>3. CASE TakeProject(p) \/ TakePart(p) \/ TakeAssignments(p)
  BY <1>3 DEF TakeProject, TakePart, TakeAssignments, Advance, Same, TypeOK
<1>4. CASE DeleteRow(p) \/ DeleteAssignments(p) \/ DeleteRoles(p)
  BY <1>4 DEF DeleteRow, DeleteAssignments, DeleteRoles, Advance, Same, TypeOK
<1> QED BY <1>1, <1>2, <1>3, <1>4 DEF Step

(* Another process keeps its locks, and no lock changes hands in one step. *)
LEMMA LocksOfOthers ==
    ASSUME TypeOK, NEW p \in Processes, Step(p), NEW q \in Processes, q # p, NEW r \in Locks
    PROVE  lock'[r] = q <=> lock[r] = q
<1>0. p # NoProcess /\ q # NoProcess
  BY ConstantsAssumption
<1>1. CASE Rollback(p) \/ Commit(p) \/ CommitDelete(p)
  BY <1>0, <1>1 DEF Rollback, Commit, CommitDelete, End, Released, TypeOK
<1>2. CASE Begin(p) \/ BeginDelete(p) \/ GoInsert(p) \/ BeginAgain(p)
  BY <1>2 DEF Begin, BeginDelete, GoInsert, BeginAgain
<1>3. CASE Insert(p)
  BY <1>0, <1>3 DEF Insert, TypeOK
<1>4. ASSUME NEW s \in Locks, LockRow(p, s)
      PROVE  lock'[r] = q <=> lock[r] = q
  BY <1>0, <1>4 DEF LockRow, TypeOK
<1>5. CASE TakeProject(p) \/ TakePart(p) \/ TakeAssignments(p)
  BY <1>4, <1>5 DEF TakeProject, TakePart, TakeAssignments, Locks, Rows
<1>6. CASE DeleteRow(p) \/ DeleteAssignments(p) \/ DeleteRoles(p)
  BY <1>4, <1>6 DEF DeleteRow, DeleteAssignments, DeleteRoles, Locks, Rows, Parts
<1> QED BY <1>1, <1>2, <1>3, <1>5, <1>6 DEF Step

-----------------------------------------------------------------------------
(* Phases and locks.                                                       *)

HeldOf(p) == \A r \in Locks : lock[r] = p <=> r \in Passed(p) /\ NeedsLock(p, r)

LEMMA AdvancePassed ==
    ASSUME TypeOK, NEW p \in Processes, InPhase(p), pc[p] \in Locks, Advance(p),
           request' = request
    PROVE  /\ Passed(p) = Before(request[p].kind, pc[p]) /\ Passed(p) \subseteq Locks
           /\ pc[p] \notin Passed(p)
           /\ Passed(p)' = Passed(p) \cup {pc[p]}
           /\ pc'[p] \notin {"idle", "insert", "project"}
           /\ pc'[p] \in {"universe", "world"} => request[p].kind \in {"ensure", "delete"}
           /\ pc'[p] = "roles" => ~Is(p, "revoke")
<1> DEFINE k == request[p].kind
           r == pc[p]
<1>1. k \in Kinds /\ request'[p].kind = k
  BY RequestFacts
<1>2. OnPath(k, r) /\ r \in Locks
  BY DEF InPhase, OnPath, Is
<1>3. pc'[p] = After(k, r)
  BY AdvanceType
<1>4. r \notin {"idle", "insert"}
  BY <1>2 DEF Locks, Rows, Parts
<1>5. Passed(p) = Before(k, r) /\ Passed(p) \subseteq Locks
  BY <1>1, <1>2, <1>4, BeforeFacts DEF Passed
<1>6. After(k, r) \in (Locks \ {"project"}) \cup {"commit"}
      /\ r \notin Before(k, r) /\ Before(k, After(k, r)) = Before(k, r) \cup {r}
      /\ (After(k, r) \in Locks => OnPath(k, After(k, r)))
  BY <1>1, <1>2, PathFacts
<1> HIDE DEF k, r
<1>7. After(k, r) \notin {"idle", "insert", "project"}
  BY <1>6 DEF Locks, Rows, Parts
<1>8. Passed(p)' = Before(k, After(k, r))
  BY <1>1, <1>3, <1>7 DEF Passed, k
<1>9. /\ After(k, r) \in {"universe", "world"} => k \in {"ensure", "delete"}
      /\ After(k, r) = "roles" => k # "revoke"
  BY <1>6 DEF OnPath, Locks, Rows, Parts
<1> QED BY <1>3, <1>5, <1>6, <1>7, <1>8, <1>9 DEF k, r, Is

(* A request that takes the lock of the row it has come to holds the rows it
   has passed, if what it is going to change among them stays the same. *)
LEMMA TakeHolds ==
    ASSUME TypeOK, NEW p \in Processes, InPhase(p), HeldOf(p), pc[p] \in Locks, Advance(p),
           request' = request, LockRow(p, pc[p]),
           Is(p, "delete") => changes'[p] \cap (Passed(p) \cup {pc[p]}) \cap {"project", "universe", "world"}
                              = changes[p] \cap (Passed(p) \cup {pc[p]}) \cap {"project", "universe", "world"}
    PROVE  HeldOf(p)'
<1> DEFINE r == pc[p]
<1>0. p # NoProcess
  BY ConstantsAssumption
<1>1. Passed(p)' = Passed(p) \cup {r} /\ r \notin Passed(p) /\ r \in Locks
  BY AdvancePassed
<1>2. \A s \in Passed(p) \cup {r} : NeedsLock(p, s)' <=> NeedsLock(p, s)
  BY <1>1 DEF NeedsLock, Is
<1>3. \A s \in Locks : lock'[s] = p <=> lock[s] = p \/ (s = r /\ NeedsLock(p, r))
  BY <1>0, <1>1 DEF LockRow, TypeOK
<1> HIDE DEF r
<1> QED BY <1>1, <1>2, <1>3 DEF HeldOf

LEMMA EndHolds ==
    ASSUME TypeOK, NEW p \in Processes, End(p)
    PROVE  InPhase(p)' /\ HeldOf(p)' /\ pc'[p] = "idle"
<1>0. p # NoProcess
  BY ConstantsAssumption
<1>1. pc'[p] = "idle" /\ changes'[p] = {} /\ retried'[p] = FALSE
  BY DEF End, TypeOK
<1>2. Passed(p)' = {}
  BY <1>1 DEF Passed
<1>3. \A r \in Locks : lock'[r] # p
  BY <1>0 DEF End, Released, TypeOK
<1> QED BY <1>1, <1>2, <1>3 DEF InPhase, HeldOf, Is

LEMMA ProjectStays ==
    ASSUME TypeOK, NEW p \in Processes, Step(p), row["project"] # "none"
    PROVE  row'["project"] # "none"
<1>1. CASE Commit(p) \/ CommitDelete(p)
  BY <1>1 DEF Commit, CommitDelete, Rows
<1>2. CASE ~(Commit(p) \/ CommitDelete(p))
  BY <1>2 DEF Step, Rollback, Begin, BeginDelete, GoInsert, BeginAgain, Insert, TakeProject,
              TakePart, TakeAssignments, DeleteRow, DeleteAssignments, DeleteRoles, committed
<1> QED BY <1>1, <1>2

(* A process that has passed nothing holds nothing. *)
LEMMA NothingHeld ==
    ASSUME TypeOK, NEW p \in Processes, HeldOf(p), lock' = lock,
           Passed(p) = {}, Passed(p)' = {}
    PROVE  HeldOf(p)'
  BY DEF HeldOf

LEMMA BeginHolds ==
    ASSUME TypeOK, NEW p \in Processes, InPhase(p), HeldOf(p), Begin(p) \/ BeginDelete(p)
    PROVE  InPhase(p)' /\ HeldOf(p)'
<1>1. /\ pc[p] = "idle" /\ pc'[p] = "project" /\ lock' = lock /\ row' = row
      /\ retried'[p] = retried[p] /\ request'[p] \in Requests
  BY DEF Begin, BeginDelete, TypeOK, committed
<1>2. Passed(p) = {} /\ changes[p] = {}
  BY <1>1 DEF Passed, InPhase, TypeOK, Rows, Parts
<1>3. changes'[p] \subseteq IF Is(p, "delete")' THEN {"project"} ELSE {}
  <2>1. CASE Begin(p)
    BY <1>2, <2>1 DEF Begin
  <2>2. CASE BeginDelete(p)
    BY <2>2 DEF BeginDelete, TypeOK, Is
  <2> QED BY <2>1, <2>2
<1>4. Passed(p)' = {}
  BY <1>1 DEF Passed, Before
<1>5. Is(p, "delete")' => row["project"] # "none"
  BY DEF Begin, BeginDelete, TypeOK, Is
<1>6. HeldOf(p)'
  BY <1>1, <1>2, <1>4, NothingHeld
<1>7. (retried[p] \/ (Is(p, "delete") /\ pc[p] # "idle") => row["project"] # "none")'
  BY <1>1, <1>5 DEF InPhase
<1>8. (changes[p] \subseteq Passed(p) \cup IF Is(p, "delete") THEN {pc[p]} ELSE {})'
  BY <1>1, <1>3, <1>4
<1> QED BY <1>1, <1>6, <1>7, <1>8 DEF InPhase

LEMMA RetryHolds ==
    ASSUME TypeOK, NEW p \in Processes, InPhase(p), HeldOf(p), GoInsert(p) \/ BeginAgain(p)
    PROVE  InPhase(p)' /\ HeldOf(p)'
<1>1. /\ pc[p] \in {"project", "insert"} /\ pc'[p] \in {"project", "insert"}
      /\ lock' = lock /\ row' = row /\ request' = request /\ changes' = changes
      /\ retried'[p] => row["project"] # "none"
      /\ Is(p, "ensure")
  BY DEF GoInsert, BeginAgain, TypeOK, InPhase, committed
<1>2. Passed(p) = {} /\ Passed(p)' = {}
  BY <1>1 DEF Passed, Before
<1>3. changes[p] = {}
  BY <1>1, <1>2 DEF InPhase, Is
<1> QED BY <1>1, <1>2, <1>3, NothingHeld DEF InPhase, Is

LEMMA InsertHolds ==
    ASSUME TypeOK, NEW p \in Processes, InPhase(p), HeldOf(p), Insert(p)
    PROVE  InPhase(p)' /\ HeldOf(p)' /\ Passed(p)' = {"project"}
<1>0. p # NoProcess
  BY ConstantsAssumption
<1>1. /\ pc[p] = "insert" /\ pc'[p] = "roles" /\ request' = request /\ Is(p, "ensure")
      /\ changes'[p] = {"project"} /\ row' = row /\ retried' = retried
      /\ \A s \in Locks : lock'[s] = p <=> lock[s] = p \/ s = "project"
  BY <1>0 DEF Insert, TypeOK, InPhase, committed, Locks, Rows
<1>2. Passed(p) = {} /\ Passed(p)' = {"project"}
  BY <1>1 DEF Passed, Before, Is
<1>3. \A s \in Locks : NeedsLock(p, s)'
  BY <1>1 DEF NeedsLock, Is
<1>4. "project" \in Locks
  BY DEF Locks, Rows
<1> QED BY <1>1, <1>2, <1>3, <1>4 DEF InPhase, HeldOf, Is

LEMMA OwnTakes ==
    ASSUME TypeOK, NEW p \in Processes, InPhase(p), HeldOf(p),
           \/ TakeProject(p) \/ TakePart(p) \/ TakeAssignments(p)
           \/ DeleteRow(p) \/ DeleteAssignments(p) \/ DeleteRoles(p)
    PROVE  InPhase(p)' /\ HeldOf(p)'
<1> DEFINE r == pc[p]
           Three == {"project", "universe", "world"}
<1>1. /\ r \in Locks /\ Advance(p) /\ request' = request /\ LockRow(p, r)
      /\ row' = row /\ retried' = retried
  <2>1. CASE TakeProject(p)
    BY <2>1 DEF TakeProject, committed, Locks, Rows
  <2>2. CASE TakePart(p)
    BY <2>2 DEF TakePart, committed, Locks, Rows
  <2>3. CASE TakeAssignments(p)
    BY <2>3 DEF TakeAssignments, committed, Locks
  <2>4. CASE DeleteRow(p)
    BY <2>4 DEF DeleteRow, committed, Locks, Rows, Parts
  <2>5. CASE DeleteAssignments(p)
    BY <2>5 DEF DeleteAssignments, committed, Locks
  <2>6. CASE DeleteRoles(p)
    BY <2>6 DEF DeleteRoles, committed, Locks, Rows, Parts
  <2> QED BY <2>1, <2>2, <2>3, <2>4, <2>5, <2>6
<1>2. /\ Passed(p)' = Passed(p) \cup {r} /\ r \notin Passed(p)
      /\ pc'[p] \notin {"idle", "insert", "project"}
      /\ pc'[p] \in {"universe", "world"} => request[p].kind \in {"ensure", "delete"}
      /\ pc'[p] = "roles" => ~Is(p, "revoke")
      /\ Passed(p) = Before(request[p].kind, r)
  BY <1>1, AdvancePassed
<1>3. pc'[p] = After(request[p].kind, r)
  BY <1>1, AdvanceType
<1>6. /\ (pc[p] = "insert" => Is(p, "ensure"))'
      /\ (pc[p] \in {"universe", "world"} => request[p].kind \in {"ensure", "delete"})'
      /\ (pc[p] = "roles" => ~Is(p, "revoke"))'
      /\ (Is(p, "delete")' <=> Is(p, "delete"))
  BY <1>1, <1>2 DEF Is
<1>7. (retried[p] \/ (Is(p, "delete") /\ pc[p] # "idle") => row["project"] # "none")'
  BY <1>1, <1>2 DEF InPhase, Is, Locks, Rows, Parts
<1>4. CASE ~Is(p, "delete")
  <2>1. changes'[p] \subseteq changes[p] \cup {r}
    <3>1. CASE TakeProject(p)
      BY <3>1 DEF TakeProject, TypeOK
    <3>2. CASE TakePart(p)
      BY <3>2 DEF TakePart, TypeOK
    <3>3. CASE TakeAssignments(p)
      BY <3>3 DEF TakeAssignments
    <3> QED BY <1>4, <3>1, <3>2, <3>3 DEF DeleteRow, DeleteAssignments, DeleteRoles
  <2>2. HeldOf(p)'
    BY <1>1, <1>4, TakeHolds
  <2>3. (changes[p] \subseteq Passed(p) \cup IF Is(p, "delete") THEN {pc[p]} ELSE {})'
    BY <1>1, <1>2, <1>4, <2>1 DEF InPhase, Is
  <2> QED BY <1>6, <1>7, <2>2, <2>3 DEF InPhase
<1>5. CASE Is(p, "delete")
  <2>1. \/ DeleteRow(p) /\ changes'[p] = changes[p] \cup (LiveParts \cap {After("delete", r)})
        \/ DeleteAssignments(p) /\ changes'[p] = changes[p]
        \/ DeleteRoles(p) /\ r = "roles" /\ changes'[p] = changes[p] \cup (LiveParts \cap {"roles"})
    BY <1>5 DEF TakeProject, TakePart, TakeAssignments, DeleteRow, DeleteAssignments, DeleteRoles,
                TypeOK
  <2>2. changes'[p] \subseteq changes[p] \cup {r, pc'[p]}
    BY <1>3, <1>5, <2>1 DEF Is
  <2>3. pc'[p] \notin Passed(p) \cup {r}
    BY <1>1, <1>2, <1>3, <1>5 DEF After, Before, Is, Locks, Rows, Parts
  <2>4. changes'[p] \cap (Passed(p) \cup {r}) \cap Three = changes[p] \cap (Passed(p) \cup {r}) \cap Three
    BY <1>3, <1>5, <2>1, <2>3 DEF Is
  <2>5. HeldOf(p)'
    BY <1>1, <2>4, TakeHolds
  <2>6. (changes[p] \subseteq Passed(p) \cup IF Is(p, "delete") THEN {pc[p]} ELSE {})'
    BY <1>1, <1>2, <1>5, <2>2 DEF InPhase, Is
  <2> QED BY <1>6, <1>7, <2>5, <2>6 DEF InPhase
<1> QED BY <1>4, <1>5

LEMMA OwnHolds ==
    ASSUME TypeOK, NEW p \in Processes, InPhase(p), HeldOf(p), Step(p)
    PROVE  InPhase(p)' /\ HeldOf(p)'
<1>1. CASE Rollback(p) \/ Commit(p) \/ CommitDelete(p)
  BY <1>1, EndHolds DEF Rollback, Commit, CommitDelete
<1> QED BY <1>1, BeginHolds, RetryHolds, InsertHolds, OwnTakes DEF Step

LEMMA PhasesHold ==
    ASSUME TypeOK, PhaseInv, HeldInv, NEW p \in Processes, Step(p)
    PROVE  PhaseInv' /\ HeldInv'
<1>1. \A q \in Processes : InPhase(q) /\ HeldOf(q)
  BY DEF PhaseInv, HeldInv, HeldOf
<1>2. InPhase(p)' /\ HeldOf(p)'
  BY <1>1, OwnHolds
<1>3. ASSUME NEW q \in Processes, q # p
      PROVE  InPhase(q)' /\ HeldOf(q)'
  <2>1. Same(q)
    BY <1>3, OthersStay
  <2>2. Passed(q)' = Passed(q)
    BY <2>1 DEF Same, Passed
  <2>3. InPhase(q)'
    BY <1>1, <2>1, <2>2, ProjectStays DEF InPhase, Same, Is
  <2>4. \A r \in Locks : (lock'[r] = q <=> lock[r] = q) /\ (NeedsLock(q, r)' <=> NeedsLock(q, r))
    BY <1>3, <2>1, LocksOfOthers DEF NeedsLock, Same, Is
  <2>5. HeldOf(q)'
    BY <1>1, <2>2, <2>4 DEF HeldOf
  <2> QED BY <2>3, <2>5
<1> QED BY <1>2, <1>3 DEF PhaseInv, HeldInv, HeldOf

-----------------------------------------------------------------------------
(* What a step changes of the committed state.                             *)

Ends(p) == Commit(p) \/ CommitDelete(p)

LEMMA OnlyCommitsWrite ==
    ASSUME NEW p \in Processes, Step(p), ~Ends(p)
    PROVE  /\ row' = row /\ owner' = owner /\ assigned' = assigned
           /\ halved' = halved /\ diverged' = diverged
<1>1. UNCHANGED committed
  BY DEF Step, Ends, Rollback, Begin, BeginDelete, GoInsert, BeginAgain, Insert, TakeProject,
         TakePart, TakeAssignments, DeleteRow, DeleteAssignments, DeleteRoles
<1> QED BY <1>1 DEF committed

(* A request that commits holds what it writes. *)
LEMMA WritesAreLocked ==
    ASSUME TypeOK, NEW p \in Processes, InPhase(p), HeldOf(p), Ends(p)
    PROVE  /\ lock["assignments"] = p
           /\ \A r \in Rows : row'[r] # row[r] => lock[r] = p
           /\ owner' # owner => lock["project"] = p
           /\ ~Is(p, "delete") \/ "project" \in changes[p] => lock["project"] = p
<1>1. pc[p] = "commit" /\ request[p].kind \in Kinds /\ changes[p] \subseteq Rows
  BY RequestFacts DEF Ends, Commit, CommitDelete, TypeOK
<1>2. /\ Passed(p) = Before(request[p].kind, "commit")
      /\ "project" \in Passed(p) /\ "assignments" \in Passed(p)
  BY <1>1, CommitFacts DEF Passed
<1>3. changes[p] \subseteq Passed(p)
  BY <1>1 DEF InPhase, Rows, Parts
<1>4. \A r \in Rows : row'[r] # row[r] => r \in changes[p]
  BY DEF Ends, Commit, CommitDelete, TypeOK
<1>5. \A r \in changes[p] : NeedsLock(p, r)
  BY DEF NeedsLock
<1>6. Rows \subseteq Locks /\ "assignments" \in Locks /\ "project" \in Locks
  BY DEF Rows, Locks
<1>7. lock["assignments"] = p
  BY <1>2, <1>6 DEF HeldOf, NeedsLock
<1>8. \A r \in changes[p] : lock[r] = p
  BY <1>1, <1>3, <1>5, <1>6 DEF HeldOf
<1>9. ~Is(p, "delete") => lock["project"] = p
  BY <1>2, <1>6 DEF HeldOf, NeedsLock
<1>10. Is(p, "delete") => owner' = owner
  BY DEF Ends, Commit, CommitDelete
<1> QED BY <1>4, <1>7, <1>8, <1>9, <1>10

(* The rows a process holds are not written by the others. *)
LEMMA HeldRowsStay ==
    ASSUME TypeOK, PhaseInv, HeldInv, NEW p \in Processes, Step(p), NEW q \in Processes, q # p
    PROVE  /\ \A r \in Rows : lock[r] = q => row'[r] = row[r]
           /\ lock["project"] = q => owner' = owner
           /\ lock["assignments"] = q => assigned' = assigned
<1>1. InPhase(p) /\ HeldOf(p)
  BY DEF PhaseInv, HeldInv, HeldOf
<1>2. CASE Ends(p)
  BY <1>1, <1>2, WritesAreLocked
<1>3. CASE ~Ends(p)
  BY <1>3, OnlyCommitsWrite
<1> QED BY <1>2, <1>3

-----------------------------------------------------------------------------
(* What was read under a lock.                                             *)

LEMMA OthersFresh ==
    ASSUME TypeOK, PhaseInv, HeldInv, NEW p \in Processes, Step(p),
           NEW q \in Processes, q # p, ~Is(q, "delete"), Fresh(q)
    PROVE  Fresh(q)'
<1>1. Same(q) /\ Passed(q)' = Passed(q)
  BY OthersStay DEF Same, Passed
<1>2. \A r \in Locks : r \in Passed(q) => lock[r] = q
  BY DEF HeldInv, NeedsLock
<1>3. Rows \subseteq Locks /\ "assignments" \in Locks /\ "project" \in Locks /\ "project" \in Rows
  BY DEF Rows, Locks
<1>4. /\ \A r \in Rows \cap Passed(q) : row'[r] = row[r]
      /\ "project" \in Passed(q) => owner' = owner
      /\ "assignments" \in Passed(q) => assigned' = assigned
  BY <1>2, <1>3, HeldRowsStay
<1>5. \A r \in (Rows \cap Passed(q))' : row'[r] = "live" \/ r \in changes'[q]
  BY <1>1, <1>4 DEF Fresh, Same
<1>6. /\ Is(q, "initialize")' => changes'[q] \subseteq {"roles"}
      /\ Is(q, "assign")' \/ Is(q, "revoke")' => changes'[q] = {}
  BY <1>1 DEF Fresh, Same, Is
<1>7. "project" \in Passed(q)' =>
          /\ ~Is(q, "ensure")' => row'["project"] = "live"
          /\ Is(q, "assign")' => request'[q].user = owner'
          /\ Is(q, "revoke")' => request'[q].user # owner'
  BY <1>1, <1>3, <1>4 DEF Fresh, Same, Is
<1>8. "assignments" \in Passed(q)' => seen'[q] = assigned' /\ ~Conflict(q)'
  BY <1>1, <1>4 DEF Fresh, Same, Conflict, Active
<1> QED BY <1>5, <1>6, <1>7, <1>8 DEF Fresh

(* A request that has passed nothing has nothing to write. *)
LEMMA NothingPassed ==
    ASSUME NEW p \in Processes, InPhase(p)', Passed(p)' = {}, ~Is(p, "delete")'
    PROVE  Fresh(p)'
<1>1. changes'[p] = {}
  BY DEF InPhase
<1> QED BY <1>1 DEF Fresh

LEMMA OwnFresh ==
    ASSUME TypeOK, NEW p \in Processes, InPhase(p), HeldOf(p), Step(p),
           ~Is(p, "delete") => Fresh(p), ~Is(p, "delete")'
    PROVE  Fresh(p)'
<1>1. CASE Passed(p)' = {}
  BY <1>1, OwnHolds, NothingPassed
<1>2. CASE Rollback(p) \/ Ends(p)
  <2>1. pc'[p] = "idle"
    BY <1>2, EndHolds DEF Rollback, Ends, Commit, CommitDelete
  <2> QED BY <1>1, <2>1 DEF Passed
<1>3. CASE Begin(p) \/ BeginDelete(p) \/ GoInsert(p) \/ BeginAgain(p)
  <2>1. pc'[p] \in {"project", "insert"}
    BY <1>3 DEF Begin, BeginDelete, GoInsert, BeginAgain, TypeOK
  <2> QED BY <1>1, <2>1 DEF Passed, Before
<1>4. CASE Insert(p)
  <2>1. Passed(p)' = {"project"} /\ Is(p, "ensure") /\ request' = request
        /\ changes'[p] = {"project"}
    BY <1>4, InsertHolds DEF Insert, InPhase, TypeOK
  <2> QED BY <2>1 DEF Fresh, Is
<1>5. CASE TakeProject(p)
  <2>1. pc[p] \in Locks /\ pc[p] = "project" /\ Advance(p) /\ request' = request
        /\ ~Is(p, "delete")
    BY <1>5 DEF TakeProject, Locks, Rows
  <2>2. Passed(p)' = {"project"}
    BY <2>1, AdvancePassed DEF Before
  <2>3. /\ changes'[p] = {"project"} \ {r \in Rows : row[r] = "live"}
        /\ row' = row /\ owner' = owner /\ Acceptable(p)
    BY <1>5 DEF TakeProject, TypeOK, committed
  <2>4. \A r \in (Rows \cap Passed(p))' : row'[r] = "live" \/ r \in changes'[p]
    BY <2>2, <2>3
  <2>5. /\ ~Is(p, "ensure") => row["project"] = "live"
        /\ Is(p, "assign") => request[p].user = owner
        /\ Is(p, "revoke") => request[p].user # owner
    <3>1. request[p].kind \in Kinds
      BY RequestFacts
    <3> QED BY <2>1, <2>3, <3>1 DEF Acceptable, Is, Kinds
  <2>6. ~Is(p, "ensure") => changes'[p] = {}
    BY <2>3, <2>5 DEF Rows
  <2> QED BY <2>1, <2>2, <2>3, <2>4, <2>5, <2>6 DEF Fresh, Is
<1>6. CASE TakePart(p)
  <2>1. pc[p] \in Locks /\ pc[p] \in Parts /\ Advance(p) /\ request' = request
        /\ ~Is(p, "delete")
    BY <1>6 DEF TakePart, Locks, Rows
  <2>2. Passed(p)' = Passed(p) \cup {pc[p]}
    BY <2>1, AdvancePassed
  <2>3. /\ changes'[p] = changes[p] \cup ({pc[p]} \ LiveParts)
        /\ row' = row /\ owner' = owner /\ assigned' = assigned /\ seen' = seen
    BY <1>6 DEF TakePart, TypeOK, committed
  <2>4. \A r \in (Rows \cap Passed(p))' : row'[r] = "live" \/ r \in changes'[p]
    BY <2>1, <2>2, <2>3 DEF Fresh, LiveParts
  <2>5. /\ "project" \in Passed(p)' => "project" \in Passed(p)
        /\ "assignments" \in Passed(p)' => "assignments" \in Passed(p)
    BY <2>1, <2>2 DEF Parts
  <2>6. /\ Is(p, "initialize")' => changes'[p] \subseteq {"roles"}
        /\ Is(p, "assign")' \/ Is(p, "revoke")' => changes'[p] = {}
    BY <1>6, <2>1, <2>3 DEF Fresh, Is, InPhase, TakePart, LiveParts, Parts
  <2> QED BY <2>1, <2>3, <2>4, <2>5, <2>6 DEF Fresh, Is, Conflict, Active
<1>7. CASE TakeAssignments(p)
  <2>1. pc[p] \in Locks /\ pc[p] = "assignments" /\ Advance(p) /\ request' = request
        /\ ~Is(p, "delete") /\ ~Refused(p)
    BY <1>7 DEF TakeAssignments, Locks
  <2>2. Passed(p)' = Passed(p) \cup {"assignments"}
    BY <2>1, AdvancePassed
  <2>3. /\ changes' = changes /\ seen'[p] = assigned
        /\ row' = row /\ owner' = owner /\ assigned' = assigned
    BY <1>7 DEF TakeAssignments, TypeOK, committed
  <2>4. \A r \in (Rows \cap Passed(p))' : row'[r] = "live" \/ r \in changes'[p]
    BY <2>1, <2>2, <2>3 DEF Fresh, Rows, Parts
  <2>5. ~Conflict(p)'
    BY <2>1, <2>3 DEF Refused, Conflict, Active
  <2> QED BY <2>1, <2>2, <2>3, <2>4, <2>5 DEF Fresh, Is
<1>8. CASE DeleteRow(p) \/ DeleteAssignments(p) \/ DeleteRoles(p)
  BY <1>8 DEF DeleteRow, DeleteAssignments, DeleteRoles, Is
<1> QED BY <1>2, <1>3, <1>4, <1>5, <1>6, <1>7, <1>8 DEF Step, Ends

LEMMA FreshHolds ==
    ASSUME TypeOK, PhaseInv, HeldInv, FreshInv, NEW p \in Processes, Step(p)
    PROVE  FreshInv'
<1>1. InPhase(p) /\ HeldOf(p)
  BY DEF PhaseInv, HeldInv, HeldOf
<1>2. ~Is(p, "delete")' => Fresh(p)'
  BY <1>1, OwnFresh DEF FreshInv
<1>3. ASSUME NEW q \in Processes, q # p, ~Is(q, "delete")'
      PROVE  Fresh(q)'
  <2>1. ~Is(q, "delete")
    BY <1>3, OthersStay DEF Same, Is
  <2> QED BY <1>3, <2>1, OthersFresh DEF FreshInv
<1> QED BY <1>2, <1>3 DEF FreshInv

-----------------------------------------------------------------------------
(* A deletion of a project in use: the others only take from what it has read. *)

OfProjectInUse(p) == Is(p, "delete") /\ "project" \in changes[p]

LEMMA OwnUndisturbed ==
    ASSUME TypeOK, NEW p \in Processes, InPhase(p), HeldOf(p), Step(p),
           OfProjectInUse(p) => Undisturbed(p), OfProjectInUse(p)'
    PROVE  Undisturbed(p)'
<1>1. CASE Rollback(p) \/ Ends(p)
  BY <1>1 DEF Rollback, Ends, Commit, CommitDelete, End, OfProjectInUse, TypeOK
<1>2. CASE Begin(p)
  BY <1>2 DEF Begin, OfProjectInUse, Is, TypeOK
<1>3. CASE BeginDelete(p)
  <2>1. pc'[p] = "project"
    BY <1>3 DEF BeginDelete, TypeOK
  <2>2. Passed(p)' = {}
    BY <2>1 DEF Passed, Before
  <2> QED BY <2>1, <2>2 DEF Undisturbed, LiveParts, Parts
<1>4. CASE GoInsert(p) \/ BeginAgain(p) \/ Insert(p)
  BY <1>4 DEF GoInsert, BeginAgain, Insert, InPhase, OfProjectInUse, Is
<1>5. CASE TakeProject(p) \/ TakePart(p) \/ TakeAssignments(p)
  BY <1>5 DEF TakeProject, TakePart, TakeAssignments, OfProjectInUse, Is
<1>6. CASE DeleteRow(p)
  <2>1. /\ pc[p] \in {"project", "universe", "world"} /\ pc[p] \in Locks /\ Advance(p)
        /\ request' = request /\ Is(p, "delete") /\ row' = row /\ assigned' = assigned
        /\ changes'[p] = changes[p] \cup (LiveParts \cap {After("delete", pc[p])})
        /\ seen'[p] = IF pc[p] = "world" THEN assigned ELSE seen[p]
    BY <1>6 DEF DeleteRow, committed, Locks, Rows, Parts, TypeOK
  <2>2. Passed(p)' = Passed(p) \cup {pc[p]} /\ Passed(p) = Before("delete", pc[p])
        /\ pc'[p] = After("delete", pc[p])
    BY <2>1, AdvancePassed, AdvanceType DEF Is
  <2>3. Undisturbed(p) /\ LiveParts' = LiveParts /\ pc[p] # "roles"
    BY <2>1 DEF OfProjectInUse, LiveParts, Locks, Rows, Parts
  <2>4. LiveParts \cap Passed(p)' \subseteq changes'[p]
        /\ LiveParts \cap {pc'[p]} \subseteq changes'[p]
    BY <2>1, <2>2, <2>3 DEF Undisturbed
  <2>5. "world" \in Passed(p)' => \A u \in Active(assigned') : seen'[p][u] # "none"
    BY <2>1, <2>2 DEF Before, Active
  <2> QED BY <2>3, <2>4, <2>5 DEF Undisturbed, Active
<1>7. CASE DeleteAssignments(p)
  <2>1. /\ pc[p] = "assignments" /\ pc[p] \in Locks /\ Advance(p)
        /\ request' = request /\ Is(p, "delete") /\ row' = row /\ assigned' = assigned
        /\ changes' = changes /\ seen' = seen
    BY <1>7 DEF DeleteAssignments, committed, Locks
  <2>2. Passed(p)' = Passed(p) \cup {pc[p]} /\ pc'[p] = After("delete", pc[p])
    BY <2>1, AdvancePassed, AdvanceType DEF Is
  <2>3. Undisturbed(p) /\ LiveParts' = LiveParts /\ pc'[p] = "roles"
        /\ Active(assigned)' = Active(assigned)
    BY <2>1, <2>2 DEF OfProjectInUse, Is, LiveParts, After, Active
  <2> QED BY <2>1, <2>2, <2>3 DEF Undisturbed, LiveParts, Parts
<1>8. CASE DeleteRoles(p)
  <2>1. /\ pc[p] = "roles" /\ pc[p] \in Locks /\ Advance(p)
        /\ request' = request /\ Is(p, "delete") /\ row' = row /\ assigned' = assigned
        /\ changes'[p] = changes[p] \cup (LiveParts \cap {"roles"}) /\ seen' = seen
    BY <1>8 DEF DeleteRoles, committed, Locks, Rows, Parts, TypeOK
  <2>2. Passed(p)' = Passed(p) \cup {pc[p]} /\ pc'[p] = After("delete", pc[p])
    BY <2>1, AdvancePassed, AdvanceType DEF Is
  <2>3. Undisturbed(p) /\ LiveParts' = LiveParts /\ pc'[p] = "commit"
        /\ Active(assigned)' = Active(assigned)
    BY <2>1, <2>2 DEF OfProjectInUse, Is, LiveParts, After, Active
  <2> QED BY <2>1, <2>2, <2>3 DEF Undisturbed, LiveParts, Parts
<1> QED BY <1>1, <1>2, <1>3, <1>4, <1>5, <1>6, <1>7, <1>8 DEF Step, Ends

(* What a deletion commits, of whatever project: parts and owners are only lost. *)
LEMMA DeletionsTake ==
    ASSUME TypeOK, NEW p \in Processes, CommitDelete(p)
    PROVE  /\ LiveParts' \subseteq LiveParts /\ Active(assigned') \subseteq Active(assigned)
           /\ LiveParts' = LiveParts \ changes[p]
           /\ Active(assigned') = {u \in Active(assigned) : seen[p][u] = "none"}
           /\ row'["project"] = IF "project" \in changes[p] THEN "deleted" ELSE row["project"]
           /\ owner' = owner
<1>1. /\ row' = [r \in Rows |-> IF r \in changes[p] THEN "deleted" ELSE row[r]]
      /\ assigned' = [u \in Users |-> IF seen[p][u] = "none" THEN assigned[u] ELSE "deleted"]
      /\ owner' = owner
  BY DEF CommitDelete
<1>2. LiveParts' = LiveParts \ changes[p]
  BY <1>1 DEF LiveParts, Rows
<1>3. Active(assigned') = {u \in Active(assigned) : seen[p][u] = "none"}
  BY <1>1 DEF Active
<1> QED BY <1>1, <1>2, <1>3 DEF Rows

LEMMA OthersUndisturbed ==
    ASSUME TypeOK, PhaseInv, HeldInv, NEW p \in Processes, Step(p),
           NEW q \in Processes, q # p, OfProjectInUse(q), Undisturbed(q)
    PROVE  Undisturbed(q)'
<1>1. Same(q) /\ Passed(q)' = Passed(q)
  BY OthersStay DEF Same, Passed
<1>2. CASE ~Ends(p)
  BY <1>1, <1>2, OnlyCommitsWrite DEF Undisturbed, Same, LiveParts, Active
<1>3. CASE lock["project"] = p
  <2>1. "project" \notin Passed(q)
    BY <1>3 DEF HeldInv, NeedsLock, OfProjectInUse, Locks, Rows
  <2>2. request[q].kind = "delete" /\ pc[q] \in Phases /\ pc[q] \notin {"idle", "insert"}
    BY DEF TypeOK, PhaseInv, InPhase, Is, OfProjectInUse, Passed, Rows, Parts
  <2>3. pc[q] = "project"
    BY <2>1, <2>2, BeforeFacts, CommitFacts DEF Passed, Phases, Kinds
  <2>4. Passed(q) = {}
    BY <2>3 DEF Passed, Before
  <2> QED BY <1>1, <2>3, <2>4 DEF Undisturbed, Same, LiveParts, Parts
<1>4. CASE Ends(p) /\ lock["project"] # p
  <2>1. pc[p] = "commit" /\ InPhase(p) /\ HeldOf(p)
    BY <1>4 DEF Ends, Commit, CommitDelete, PhaseInv, HeldInv, HeldOf
  <2>2. CommitDelete(p)
    BY <1>4, <2>1, WritesAreLocked DEF Ends, Commit
  <2>3. LiveParts' \subseteq LiveParts /\ Active(assigned') \subseteq Active(assigned)
    BY <2>2, DeletionsTake
  <2> QED BY <1>1, <2>3 DEF Undisturbed, Same, Active
<1> QED BY <1>2, <1>3, <1>4

LEMMA DeleteHolds ==
    ASSUME TypeOK, PhaseInv, HeldInv, DeleteInv, NEW p \in Processes, Step(p)
    PROVE  DeleteInv'
<1> SUFFICES ASSUME NEW q \in Processes, OfProjectInUse(q)'
             PROVE  Undisturbed(q)'
  BY DEF DeleteInv, OfProjectInUse
<1>1. CASE q = p
  <2>1. InPhase(p) /\ HeldOf(p)
    BY DEF PhaseInv, HeldInv, HeldOf
  <2> QED BY <1>1, <2>1, OwnUndisturbed DEF DeleteInv, OfProjectInUse
<1>2. CASE q # p
  <2>1. OfProjectInUse(q)
    BY <1>2, OthersStay DEF Same, Is, OfProjectInUse
  <2> QED BY <1>2, <2>1, OthersUndisturbed DEF DeleteInv, OfProjectInUse
<1> QED BY <1>1, <1>2

-----------------------------------------------------------------------------
(* What a commit leaves behind.                                            *)

LEMMA GrantedFacts ==
    ASSUME TypeOK, NEW p \in Processes, seen[p] = assigned, Commit(p)
    PROVE  LET u == request[p].user IN
           /\ Is(p, "assign") => Active(assigned') = Active(assigned) \cup {u}
           /\ Is(p, "revoke") => Active(assigned') = Active(assigned) \ {u}
           /\ ~Is(p, "assign") /\ ~Is(p, "revoke") => Active(assigned') = {u}
<1> DEFINE u == request[p].user
<1>1. u \in Users /\ assigned \in [Users -> Assignment] /\ assigned' = Granted(p)
  BY RequestFacts DEF TypeOK, Commit
<1> HIDE DEF u
<1>2. CASE Is(p, "assign")
  <2>1. assigned' = [assigned EXCEPT ![u] = "active"]
    BY <1>1, <1>2 DEF Granted, u, Is
  <2>2. Active(assigned') = Active(assigned) \cup {u}
    BY <1>1, <2>1 DEF Active
  <2> QED BY <1>2, <2>2 DEF Is, u
<1>3. CASE Is(p, "revoke")
  <2>1. assigned' = [assigned EXCEPT ![u] = IF assigned[u] = "active" THEN "revoked" ELSE @]
    BY <1>1, <1>3 DEF Granted, u, Is
  <2>2. Active(assigned') = Active(assigned) \ {u}
    BY <1>1, <2>1 DEF Active
  <2> QED BY <1>3, <2>2 DEF Is, u
<1>4. CASE ~Is(p, "assign") /\ ~Is(p, "revoke")
  <2>1. assigned' = [v \in Users |-> IF v = u THEN "active"
                                     ELSE IF assigned[v] = "active" THEN "revoked"
                                     ELSE assigned[v]]
    BY <1>1, <1>4 DEF Granted, u
  <2>2. Active(assigned') = {u}
    BY <1>1, <2>1 DEF Active
  <2> QED BY <1>4, <2>2 DEF u
<1> QED BY <1>2, <1>3, <1>4

LEMMA EnsureCommits ==
    ASSUME GraphInv, NEW p \in Processes, Commit(p), Is(p, "ensure")
    PROVE  /\ \A r \in Rows : row'[r] = "live"
           /\ owner' = request[p].user /\ Active(assigned') = {request[p].user}
<1>1. Fresh(p) /\ TypeOK /\ pc[p] = "commit"
  BY DEF GraphInv, FreshInv, Is, Commit
<1>2. Passed(p) = Locks
  BY <1>1, RequestFacts, CommitFacts DEF Passed, Is
<1>3. \A r \in Rows : row[r] = "live" \/ r \in changes[p]
  BY <1>1, <1>2 DEF Fresh, Locks
<1>4. seen[p] = assigned
  BY <1>1, <1>2 DEF Fresh, Locks
<1> QED BY <1>1, <1>3, <1>4, GrantedFacts DEF Commit, Is

(* What the access routes commit: the project itself stays as it is. *)
LEMMA AccessCommits ==
    ASSUME GraphInv, NEW p \in Processes, Commit(p), ~Is(p, "ensure")
    PROVE  LET u == request[p].user IN
           /\ row["project"] = "live" /\ row'["project"] = "live" /\ owner' = owner
           /\ halved' = halved /\ diverged' = (diverged \/ MakesAnotherOwner(p))
           /\ Is(p, "initialize") \/ Is(p, "assign") \/ Is(p, "revoke")
           /\ Is(p, "initialize") =>
                 /\ LiveParts' = LiveParts \cup {"roles"} /\ Active(assigned') = {u}
                 /\ u = owner \/ MakesAnotherOwner(p) \/ Active(assigned) \subseteq {u}
           /\ Is(p, "assign") =>
                 /\ LiveParts' = LiveParts /\ "roles" \in LiveParts
                 /\ Active(assigned') = Active(assigned) \cup {owner}
           /\ Is(p, "revoke") =>
                 /\ LiveParts' = LiveParts /\ u # owner
                 /\ Active(assigned') = Active(assigned) \ {u}
<1> DEFINE u == request[p].user
<1>1. /\ Fresh(p) /\ TypeOK /\ pc[p] = "commit" /\ ~Is(p, "delete")
  BY DEF GraphInv, FreshInv, Is, Commit
<1>2. /\ "project" \in Passed(p) /\ "assignments" \in Passed(p)
      /\ Is(p, "initialize") \/ Is(p, "assign") => "roles" \in Passed(p)
  BY <1>1, RequestFacts, CommitFacts DEF Passed, Is
<1>3. /\ row["project"] = "live" /\ (Is(p, "assign") => u = owner)
      /\ (Is(p, "revoke") => u # owner)
      /\ seen[p] = assigned /\ ~Conflict(p)
      /\ Is(p, "initialize") => changes[p] \subseteq {"roles"}
      /\ Is(p, "assign") \/ Is(p, "revoke") => changes[p] = {}
      /\ Is(p, "initialize") \/ Is(p, "assign") => row["roles"] = "live" \/ "roles" \in changes[p]
  BY <1>1, <1>2 DEF Fresh, Rows, Parts
<1>4. /\ row' = [r \in Rows |-> IF r \in changes[p] THEN "live" ELSE row[r]]
      /\ owner' = owner /\ halved' = halved /\ diverged' = (diverged \/ MakesAnotherOwner(p))
  BY <1>1 DEF Commit, TypeOK
<1>5. Is(p, "assign") \/ Is(p, "revoke") \/ Is(p, "initialize")
  BY <1>1, RequestFacts DEF Kinds, Is
<1>6. row'["project"] = "live"
  BY <1>3, <1>4 DEF Rows
<1>7. /\ Is(p, "initialize") => LiveParts' = LiveParts \cup {"roles"}
      /\ Is(p, "assign") \/ Is(p, "revoke") => LiveParts' = LiveParts
      /\ Is(p, "assign") => "roles" \in LiveParts
  BY <1>3, <1>4 DEF LiveParts, Rows, Parts
<1>8. /\ Is(p, "assign") => Active(assigned') = Active(assigned) \cup {u}
      /\ Is(p, "revoke") => Active(assigned') = Active(assigned) \ {u}
      /\ Is(p, "initialize") => Active(assigned') = {u}
  BY <1>1, <1>3, GrantedFacts DEF Is
<1>9. Is(p, "initialize") => u = owner \/ MakesAnotherOwner(p) \/ Active(assigned) \subseteq {u}
  BY <1>1, <1>3, RequestFacts DEF MakesAnotherOwner, Conflict, Is
<1> QED BY <1>3, <1>4, <1>5, <1>6, <1>7, <1>8, <1>9

(* A deletion of a project in use leaves nothing of it. *)
LEMMA DeleteCommits ==
    ASSUME GraphInv, NEW p \in Processes, CommitDelete(p), "project" \in changes[p]
    PROVE  /\ row'["project"] = "deleted" /\ LiveParts' = {} /\ Active(assigned') = {}
           /\ owner' = owner /\ halved' = halved /\ diverged' = diverged
<1>1. Undisturbed(p) /\ TypeOK /\ pc[p] = "commit" /\ Is(p, "delete")
  BY DEF GraphInv, DeleteInv, CommitDelete
<1>2. Passed(p) = Locks
  BY <1>1, RequestFacts, CommitFacts DEF Passed, Is
<1>3. LiveParts \subseteq changes[p] /\ \A u \in Active(assigned) : seen[p][u] # "none"
  BY <1>1, <1>2 DEF Undisturbed, LiveParts, Locks, Rows, Parts
<1>4. halved' = halved /\ diverged' = diverged
  BY <1>1 DEF CommitDelete, DeletesLate, TypeOK
<1> QED BY <1>1, <1>3, <1>4, DeletionsTake

(* One of a deleted project leaves the project as it is. *)
LEMMA LateCommits ==
    ASSUME GraphInv, NEW p \in Processes, CommitDelete(p), "project" \notin changes[p]
    PROVE  /\ DeletesLate(p) /\ row["project"] \in {"live", "deleted"}
           /\ row'["project"] = row["project"] /\ owner' = owner /\ diverged' = diverged
           /\ LiveParts' \subseteq LiveParts /\ Active(assigned') \subseteq Active(assigned)
           /\ halved' = (halved \/ row["project"] = "live")
<1>1. TypeOK /\ pc[p] = "commit" /\ Is(p, "delete") /\ row["project"] # "none"
  BY DEF GraphInv, PhaseInv, InPhase, CommitDelete
<1>2. row["project"] \in RowStatus
  BY <1>1 DEF TypeOK, Rows
<1>3. DeletesLate(p)
  BY <1>1 DEF DeletesLate
<1>4. halved' = (halved \/ row["project"] = "live") /\ diverged' = diverged
  BY <1>3 DEF CommitDelete
<1> QED BY <1>1, <1>2, <1>3, <1>4, DeletionsTake DEF RowStatus

LEMMA EnsureHistory ==
    ASSUME NEW p \in Processes, Commit(p), Is(p, "ensure")
    PROVE  halved' = FALSE /\ diverged' = FALSE
  BY DEF Commit

LEMMA TogetherHolds ==
    ASSUME GraphInv, NEW p \in Processes, Step(p)
    PROVE  Together'
<1>1. TypeOK /\ Together
  BY DEF GraphInv
<1>0. Active(assigned)' = Active(assigned')
  BY DEF Active
<1>2. CASE ~Ends(p)
  BY <1>1, <1>2, OnlyCommitsWrite DEF Together, LiveParts, Active
<1>3. CASE Commit(p) /\ Is(p, "ensure")
  <2>1. (\A r \in Rows : row'[r] = "live") /\ Active(assigned') = {owner'}
    BY <1>3, EnsureCommits
  <2>2. LiveParts' = Parts /\ row'["project"] = "live"
    BY <2>1 DEF LiveParts, Rows
  <2> QED BY <1>0, <2>1, <2>2 DEF Together
<1>4. CASE Commit(p) /\ ~Is(p, "ensure")
  <2> DEFINE u == request[p].user
  <2>1. /\ row["project"] = "live" /\ row'["project"] = "live" /\ owner' = owner
        /\ halved' = halved /\ diverged' = (diverged \/ MakesAnotherOwner(p))
    BY <1>4, AccessCommits
  <2>2. ~halved => LiveParts = Parts
    BY <1>1, <2>1 DEF Together
  <2>3. LiveParts' = LiveParts \/ LiveParts' = LiveParts \cup {"roles"}
    BY <1>4, AccessCommits
  <2>4. ~halved' => LiveParts' = Parts
    BY <2>1, <2>2, <2>3 DEF Parts
  <2>5. ASSUME ~halved', ~diverged'
        PROVE  Active(assigned') = {owner}
    <3>1. Active(assigned) = {owner} /\ ~MakesAnotherOwner(p)
      BY <1>1, <2>1, <2>5 DEF Together
    <3>2. CASE Is(p, "initialize")
      BY <1>4, <3>1, <3>2, AccessCommits
    <3>3. CASE Is(p, "assign")
      BY <1>4, <3>1, <3>3, AccessCommits
    <3>4. CASE Is(p, "revoke")
      BY <1>4, <3>1, <3>4, AccessCommits
    <3> QED BY <1>4, <3>2, <3>3, <3>4, AccessCommits
  <2> QED BY <1>0, <2>1, <2>4, <2>5 DEF Together
<1>5. CASE CommitDelete(p) /\ "project" \in changes[p]
  BY <1>0, <1>5, DeleteCommits DEF Together
<1>6. CASE CommitDelete(p) /\ "project" \notin changes[p]
  BY <1>0, <1>1, <1>6, LateCommits DEF Together
<1> QED BY <1>2, <1>3, <1>4, <1>5, <1>6 DEF Ends

LEMMA StepHolds ==
    ASSUME GraphInv, NEW p \in Processes, Step(p)
    PROVE  GraphInv'
<1>1. TypeOK /\ PhaseInv /\ HeldInv /\ FreshInv /\ DeleteInv
  BY DEF GraphInv
<1> QED BY <1>1, StepType, PhasesHold, FreshHolds, DeleteHolds, TogetherHolds DEF GraphInv

LEMMA StutterHolds == GraphInv /\ UNCHANGED vars => GraphInv'
<1> SUFFICES ASSUME GraphInv, UNCHANGED vars PROVE GraphInv'
  OBVIOUS
<1>1. /\ row' = row /\ owner' = owner /\ assigned' = assigned /\ lock' = lock /\ pc' = pc
      /\ request' = request /\ changes' = changes /\ seen' = seen /\ retried' = retried
      /\ halved' = halved /\ diverged' = diverged
  BY DEF vars, committed, local
<1>2. TypeOK'
  BY <1>1 DEF GraphInv, TypeOK
<1>3. \A p \in Processes : Passed(p)' = Passed(p)
  BY <1>1 DEF Passed
<1>4. PhaseInv' /\ HeldInv'
  BY <1>1, <1>3 DEF GraphInv, PhaseInv, InPhase, HeldInv, NeedsLock, Is
<1>5. FreshInv'
  BY <1>1, <1>3 DEF GraphInv, FreshInv, Fresh, Conflict, Active, Is
<1>6. DeleteInv' /\ Together'
  BY <1>1, <1>3 DEF GraphInv, DeleteInv, Undisturbed, LiveParts, Is, Together, Active
<1> QED BY <1>2, <1>4, <1>5, <1>6 DEF GraphInv

LEMMA InitHolds == Init => GraphInv
<1> SUFFICES ASSUME Init PROVE GraphInv
  OBVIOUS
<1>1. TypeOK
  BY InitType
<1>2. \A p \in Processes : pc[p] = "idle" /\ changes[p] = {} /\ ~retried[p] /\ Passed(p) = {}
  BY DEF Init, Passed
<1>3. PhaseInv
  BY <1>2 DEF PhaseInv, InPhase
<1>4. HeldInv
  BY <1>2, ConstantsAssumption DEF HeldInv, Init
<1>5. FreshInv /\ DeleteInv
  BY <1>2 DEF FreshInv, Fresh, DeleteInv
<1>6. Together
  BY DEF Init, Together, LiveParts, Active, NoAssignments, Rows, Parts
<1> QED BY <1>1, <1>3, <1>4, <1>5, <1>6 DEF GraphInv

-----------------------------------------------------------------------------
(* The theorems.                                                           *)

(* What GraphInv says of every reachable state of src/world_state/provisioning.py,
   src/project_access/service.py and routes/projects.py: a request holds what it
   has passed, what it has read under a lock is still so, a project that is not in
   use has nothing in use, and one in use is whole, but for what late deletions
   and access/initialize have done to it since the last ensure. *)
THEOREM GraphInvariant == Spec => []GraphInv
<1>1. Init => GraphInv
  BY InitHolds
<1>2. GraphInv /\ [Next]_vars => GraphInv'
  BY NextCases, StepHolds, StutterHolds DEF Step
<1> QED BY <1>1, <1>2, PTL DEF Spec

(* An ensure that begins again after a unique violation finds the project
   (ensure_chunk_project_for_app_project). *)
THEOREM RetryIsEnough == Spec => []OneRetryIsEnough
<1>1. Init => OneRetryIsEnough
  BY DEF Init, OneRetryIsEnough
<1>2. ASSUME GraphInv, OneRetryIsEnough, NEW p \in Processes, Step(p)
      PROVE  OneRetryIsEnough'
  <2> SUFFICES ASSUME NEW q \in Processes, retried'[q]
               PROVE  pc'[q] # "insert"
    BY DEF OneRetryIsEnough
  <2>1. TypeOK /\ InPhase(p)
    BY <1>2 DEF GraphInv, PhaseInv
  <2>2. CASE q # p
    BY <1>2, <2>1, <2>2, OthersStay DEF Same, OneRetryIsEnough
  <2>3. CASE q = p /\ GoInsert(p)
    BY <2>1, <2>3 DEF GoInsert, InPhase
  <2>4. CASE q = p /\ (Rollback(p) \/ Ends(p))
    BY <2>1, <2>4, EndHolds DEF Rollback, Ends, Commit, CommitDelete
  <2>5. CASE q = p /\ (Begin(p) \/ BeginDelete(p) \/ BeginAgain(p) \/ Insert(p))
    BY <2>1, <2>5 DEF Begin, BeginDelete, BeginAgain, Insert, TypeOK
  <2>6. CASE q = p /\ \/ TakeProject(p) \/ TakePart(p) \/ TakeAssignments(p)
                      \/ DeleteRow(p) \/ DeleteAssignments(p) \/ DeleteRoles(p)
    <3>1. Advance(p) /\ pc[p] \in Locks
      BY <2>6 DEF TakeProject, TakePart, TakeAssignments, DeleteRow, DeleteAssignments,
                  DeleteRoles, Locks, Rows, Parts
    <3> QED BY <2>1, <2>6, <3>1, AdvanceType DEF Locks, Rows, Parts
  <2> QED BY <1>2, <2>2, <2>3, <2>4, <2>5, <2>6 DEF Step, Ends
<1>3. OneRetryIsEnough /\ UNCHANGED vars => OneRetryIsEnough'
  BY DEF OneRetryIsEnough, vars, local
<1>4. GraphInv /\ OneRetryIsEnough /\ [Next]_vars => OneRetryIsEnough'
  BY <1>2, <1>3, NextCases DEF Step
<1> QED BY <1>1, <1>4, GraphInvariant, PTL DEF Spec

(* What provisioning answers for is in use, with all its parts and the
   requested owner, for any number of users and requests (_provision_once). *)
THEOREM EnsureIsWhole == Spec => EnsureAnswersWhole
<1>1. GraphInv => \A p \in Processes : Commit(p) /\ Is(p, "ensure") =>
          /\ \A r \in Rows : row'[r] = "live"
          /\ owner' = request[p].user /\ Active(assigned') = {request[p].user}
  BY EnsureCommits
<1> QED BY <1>1, GraphInvariant, PTL DEF Spec, EnsureAnswersWhole

Late == \E q \in Processes : DeletesLate(q)

(* Only a deletion that begins with a deleted project is late, and it is late
   until it ends. *)
LEMMA LateChanges ==
    ASSUME GraphInv, NEW p \in Processes, Step(p)
    PROVE  /\ Late' = Late \/ BeginDelete(p) \/ ((Ends(p) \/ Rollback(p)) /\ DeletesLate(p))
           /\ Late' \in BOOLEAN /\ Late \in BOOLEAN
<1>1. TypeOK /\ InPhase(p)
  BY DEF GraphInv, PhaseInv
<1>2. \A q \in Processes \ {p} : DeletesLate(q)' <=> DeletesLate(q)
  BY <1>1, OthersStay DEF Same, DeletesLate, Is
<1>3. SUFFICES ASSUME ~BeginDelete(p), ~((Ends(p) \/ Rollback(p)) /\ DeletesLate(p))
               PROVE  DeletesLate(p)' <=> DeletesLate(p)
  BY <1>2 DEF Late
<1>4. CASE Ends(p) \/ Rollback(p)
  BY <1>1, <1>3, <1>4, EndHolds DEF Ends, Rollback, Commit, CommitDelete, DeletesLate
<1>5. CASE Begin(p)
  BY <1>1, <1>5 DEF Begin, DeletesLate, Is, TypeOK
<1>6. CASE GoInsert(p) \/ BeginAgain(p) \/ Insert(p)
  BY <1>1, <1>6 DEF GoInsert, BeginAgain, Insert, InPhase, DeletesLate, Is
<1>7. CASE TakeProject(p) \/ TakePart(p) \/ TakeAssignments(p)
  BY <1>7 DEF TakeProject, TakePart, TakeAssignments, DeletesLate, Is
<1>8. CASE DeleteRow(p) \/ DeleteAssignments(p) \/ DeleteRoles(p)
  <2>1. /\ Advance(p) /\ request' = request /\ pc[p] \in Locks
        /\ "project" \in changes'[p] <=> "project" \in changes[p]
    BY <1>1, <1>8 DEF DeleteRow, DeleteAssignments, DeleteRoles, TypeOK, LiveParts, Parts, Locks, Rows
  <2>2. pc[p] # "idle" /\ pc'[p] # "idle"
    BY <1>1, <2>1, AdvancePassed DEF Locks, Rows, Parts
  <2> QED BY <2>1, <2>2 DEF DeletesLate, Is
<1> QED BY <1>3, <1>4, <1>5, <1>6, <1>7, <1>8 DEF Step, Ends

(* The rows of a project change as one record, whatever its clients ask: where
   deletions of a deleted project and access/initialize take it apart, no more is
   lost than ProjectRecord says (_soft_delete_project_graph_response and
   initialize_project_access), and an ensure makes it whole. *)
THEOREM GraphImplementsProjectRecord == Spec => ImplementsProjectRecord
<1>1. Init => Record!Init
  BY DEF Init, Record!Init, LiveParts, Active, NoAssignments, Rows, Parts, DeletesLate
<1>2. ASSUME GraphInv, NEW p \in Processes, Step(p)
      PROVE  [Record!Next]_Record!record
  <2> DEFINE Others == row'["project"] = row["project"] /\ owner' = owner /\ LiveParts' = LiveParts
                       /\ Active(assigned)' = Active(assigned)
                       /\ halved' = halved /\ diverged' = diverged
             u == request[p].user
  <2>1. TypeOK /\ Together /\ u \in Users /\ row["project"] \in RowStatus
    BY <1>2, RequestFacts DEF GraphInv, TypeOK, Rows
  <2>2. /\ Late' = Late \/ BeginDelete(p) \/ ((Ends(p) \/ Rollback(p)) /\ DeletesLate(p))
        /\ Late' \in BOOLEAN /\ Late \in BOOLEAN
    BY <1>2, LateChanges
  <2>3. Active(assigned)' = Active(assigned')
    BY DEF Active
  <2>4. DeletesLate(p) => Late
    BY DEF Late
  <2>5. Commit(p) => Late' = Late
    BY <2>2 DEF Commit, DeletesLate, BeginDelete
  <2>6. CASE ~Ends(p)
    <3>1. Others
      BY <1>2, <2>6, OnlyCommitsWrite DEF LiveParts, Active
    <3>2. CASE Late' = Late
      BY <3>1, <3>2 DEF Record!record, Late
    <3>3. CASE BeginDelete(p) /\ Late' # Late
      <4>1. Late' /\ DeletesLate(p)' /\ row["project"] = "deleted"
        <5>1. \A q \in Processes \ {p} : DeletesLate(q)' <=> DeletesLate(q)
          BY <1>2, <2>1, OthersStay DEF Same, DeletesLate, Is
        <5>2. ~DeletesLate(p)
          BY <3>3 DEF BeginDelete, DeletesLate
        <5>3. DeletesLate(p)'
          BY <3>3, <5>1, <5>2 DEF Late
        <5>4. row["project"] \notin {"none", "live"}
          BY <2>1, <3>3, <5>3 DEF BeginDelete, DeletesLate, TypeOK, Rows
        <5> QED BY <2>1, <5>3, <5>4 DEF Late, RowStatus
      <4> QED BY <3>1, <4>1 DEF Record!Next, Record!BeginLate, Late
    <3>4. CASE Late /\ ~Late'
      BY <3>1, <3>4 DEF Record!Next, Record!EndLate, Late
    <3> QED BY <2>2, <2>4, <2>6, <3>2, <3>3, <3>4
  <2>7. CASE Commit(p) /\ Is(p, "ensure")
    <3>1. /\ \A r \in Rows : row'[r] = "live"
          /\ owner' = u /\ Active(assigned)' = {u} /\ halved' = FALSE /\ diverged' = FALSE
      BY <1>2, <2>3, <2>7, EnsureCommits, EnsureHistory
    <3>2. Record!InUse(u)
      BY <2>5, <2>7, <3>1 DEF Record!InUse, LiveParts, Rows, Late
    <3> QED BY <2>1, <3>2 DEF Record!Next, Record!Create, Record!HandOver, Record!Restore, RowStatus
  <2>8. CASE Commit(p) /\ ~Is(p, "ensure")
    <3>1. /\ row["project"] = "live" /\ row'["project"] = "live" /\ owner' = owner
          /\ halved' = halved /\ diverged' = (diverged \/ MakesAnotherOwner(p))
          /\ Late' = Late
      BY <1>2, <2>5, <2>8, AccessCommits
    <3>2. CASE Is(p, "initialize")
      <4>1. /\ LiveParts' = LiveParts \cup {"roles"} /\ Active(assigned)' = {u}
            /\ u = owner \/ Active(assigned) \subseteq {u} \/ MakesAnotherOwner(p)
        BY <1>2, <2>3, <2>8, <3>2, AccessCommits
      <4>2. diverged' \in BOOLEAN /\ (diverged => diverged')
            /\ (MakesAnotherOwner(p) => diverged')
        BY <3>1
      <4>3. Record!Appoint(u)
        BY <3>1, <4>1, <4>2 DEF Record!Appoint, Late
      <4> QED BY <2>1, <4>3 DEF Record!Next
    <3>3. CASE ~Is(p, "initialize")
      <4>1. diverged' = diverged
        BY <2>1, <3>1, <3>3 DEF MakesAnotherOwner, TypeOK
      <4>2. CASE Is(p, "assign")
        <5>1. /\ LiveParts' = LiveParts /\ "roles" \in LiveParts
              /\ Active(assigned)' = Active(assigned) \cup {owner}
          BY <1>2, <2>3, <2>8, <4>2, AccessCommits
        <5> QED BY <3>1, <4>1, <5>1 DEF Record!Next, Record!Grant, Late
      <4>3. CASE Is(p, "revoke")
        <5>1. LiveParts' = LiveParts /\ u # owner /\ Active(assigned)' = Active(assigned) \ {u}
          BY <1>2, <2>3, <2>8, <4>3, AccessCommits
        <5>2. Record!Revoke(u)
          BY <3>1, <4>1, <5>1 DEF Record!Revoke, Late
        <5> QED BY <2>1, <5>2 DEF Record!Next
      <4> QED BY <1>2, <2>8, <3>3, <4>2, <4>3, AccessCommits
    <3> QED BY <3>2, <3>3
  <2>9. CASE CommitDelete(p) /\ "project" \in changes[p]
    <3>1. /\ row'["project"] = "deleted" /\ LiveParts' = {} /\ Active(assigned)' = {}
          /\ owner' = owner /\ halved' = halved /\ diverged' = diverged
      BY <1>2, <2>3, <2>9, DeleteCommits
    <3>2. row["project"] # "none" /\ Late' = Late
      BY <1>2, <2>2, <2>9 DEF GraphInv, PhaseInv, InPhase, CommitDelete, DeletesLate, BeginDelete
    <3>3. CASE row["project"] = "live"
      BY <3>1, <3>2, <3>3 DEF Record!Next, Record!Delete, Late
    <3>4. CASE row["project"] = "deleted"
      BY <2>1, <3>1, <3>2, <3>4 DEF Together, Record!record, Late
    <3> QED BY <2>1, <3>2, <3>3, <3>4 DEF RowStatus
  <2>10. CASE CommitDelete(p) /\ "project" \notin changes[p]
    <3>1. /\ Late /\ row["project"] \in {"live", "deleted"}
          /\ row'["project"] = row["project"] /\ owner' = owner /\ diverged' = diverged
          /\ LiveParts' \subseteq LiveParts /\ Active(assigned)' \subseteq Active(assigned)
          /\ halved' = (halved \/ row["project"] = "live")
      BY <1>2, <2>3, <2>4, <2>10, LateCommits
    <3>2. CASE row["project"] = "live"
      BY <2>2, <3>1, <3>2 DEF Record!Next, Record!DeleteLate, Late
    <3>3. CASE row["project"] = "deleted"
      <4>1. LiveParts = {} /\ Active(assigned) = {} /\ halved' = halved
        BY <2>1, <3>1, <3>3 DEF Together, TypeOK
      <4>2. Others
        BY <3>1, <4>1
      <4>3. CASE Late'
        BY <3>1, <4>2, <4>3 DEF Record!record, Late
      <4>4. CASE ~Late'
        BY <3>1, <4>2, <4>4 DEF Record!Next, Record!EndLate, Late
      <4> QED BY <4>3, <4>4
    <3> QED BY <3>1, <3>2, <3>3
  <2> QED BY <2>6, <2>7, <2>8, <2>9, <2>10 DEF Ends
<1>3. UNCHANGED vars => [Record!Next]_Record!record
  <2> SUFFICES ASSUME UNCHANGED vars PROVE Record!record' = Record!record
    OBVIOUS
  <2>1. /\ row' = row /\ owner' = owner /\ assigned' = assigned
        /\ halved' = halved /\ diverged' = diverged
        /\ request' = request /\ pc' = pc /\ changes' = changes
    BY DEF vars, committed, local
  <2> QED BY <2>1 DEF Record!record, LiveParts, Active, DeletesLate, Is
<1>4. GraphInv /\ [Next]_vars => [Record!Next]_Record!record
  BY <1>2, <1>3, NextCases DEF Step
<1> QED BY <1>1, <1>4, GraphInvariant, PTL DEF Spec, ImplementsProjectRecord, Record!Spec
=============================================================================

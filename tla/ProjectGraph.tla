---------------------------- MODULE ProjectGraph ----------------------------
(***************************************************************************)
(* One App project in PostgreSQL (READ COMMITTED): its row, its roles, its  *)
(* universe, its world and the assignments of its Owner role, changed by    *)
(* requests that run side by side.                                          *)
(*                                                                         *)
(*   ensure      provisioning: PUT /projects/by-app/<id>, /projects/ensure  *)
(*   initialize  PUT /projects/<id>/access/initialize                       *)
(*   assign      POST /projects/<id>/assignments, for the Owner role        *)
(*   revoke      DELETE /projects/<id>/assignments/<id>, of the Owner role  *)
(*   delete      DELETE /projects/<id> and /projects/by-app/<id>            *)
(*                                                                         *)
(* A request is one transaction.  It locks rows as it reads or writes them  *)
(* and keeps the locks; what it writes is seen when it commits.  All but    *)
(* delete begin by reading the project row FOR UPDATE.  delete reads it     *)
(* without a lock and only locks it if it has to change it; it takes the    *)
(* other rows in the opposite order.  The roles count as one row, and so do *)
(* the assignments; other rows of the access tables, archived rows and      *)
(* colliding public ids are left out.                                       *)
(***************************************************************************)
EXTENDS Naturals, FiniteSets

CONSTANTS
    Users, NoUser,
    Processes, NoProcess,
    Requests    \* what the clients may ask for

Kinds == {"ensure", "initialize", "assign", "revoke", "delete"}

\* replace: allowOwnerReplacement, replaceExistingOwner; restore: restoreDeletedProject.
RequestRecords == [kind : Kinds, user : Users, replace : BOOLEAN, restore : BOOLEAN]

ASSUME ConstantsAssumption ==
    Requests \subseteq RequestRecords /\ Requests # {} /\ NoUser \notin Users /\ NoProcess \notin Processes

Parts == {"roles", "universe", "world"}
Rows  == {"project"} \cup Parts
Locks == Rows \cup {"assignments"}

RowStatus == {"none", "live", "deleted"}
Assignment == {"none", "active", "revoked", "deleted"}
Phases == {"idle", "insert", "commit"} \cup Locks

VARIABLES
    row,        \* the status of the project and of its parts
    owner,      \* owner_id of the project
    assigned,   \* each user's assignment of the Owner role
    lock,       \* who holds the lock of each row
    pc,         \* the row each process is about to lock, and the phases around it
    request,    \* what it works on
    changes,    \* the rows it is going to change when it commits
    seen,       \* the assignments as it read them
    retried,    \* it begins again after a unique violation
    halved,     \* history since the last ensure: a late deletion has hit the project in use
    diverged    \* history since the last ensure: initialize has made another owner

committed == <<row, owner, assigned, halved, diverged>>
local == <<pc, request, changes, seen, retried>>
vars == <<committed, lock, local>>

Active(a) == {u \in Users : a[u] = "active"}
LiveParts == {r \in Parts : row[r] = "live"}
NoAssignments == [u \in Users |-> "none"]
NoRequest == CHOOSE q \in Requests : TRUE    \* what an idle process has, of no meaning

Is(p, kind) == request[p].kind = kind

\* The project was already deleted when this deletion read it.
DeletesLate(p) == Is(p, "delete") /\ pc[p] # "idle" /\ "project" \notin changes[p]

Record == INSTANCE ProjectRecord WITH
    status <- row["project"], owners <- Active(assigned), live <- LiveParts,
    Roles <- "roles", late <- \E p \in Processes : DeletesLate(p)

-----------------------------------------------------------------------------

Init ==
    /\ row = [r \in Rows |-> "none"]
    /\ owner = NoUser
    /\ assigned = NoAssignments
    /\ lock = [r \in Locks |-> NoProcess]
    /\ pc = [p \in Processes |-> "idle"]
    /\ request = [p \in Processes |-> NoRequest]
    /\ changes = [p \in Processes |-> {}]
    /\ seen = [p \in Processes |-> NoAssignments]
    /\ retried = [p \in Processes |-> FALSE]
    /\ halved = FALSE /\ diverged = FALSE

\* Mutant: the worlds are left out when a project is deleted.
WithoutWorlds(kind, r) ==
    CASE r = "project"     -> IF kind = "delete" THEN "universe"
                              ELSE IF kind = "revoke" THEN "assignments" ELSE "roles"
      [] r = "roles"       -> IF kind = "delete" THEN "commit" ELSE "assignments"
      [] r = "assignments" -> IF kind = "ensure" THEN "universe"
                              ELSE IF kind = "delete" THEN "roles" ELSE "commit"
      [] r = "universe"    -> IF kind = "delete" THEN "assignments" ELSE "world"
      [] OTHER             -> "commit"

\* The order in which a request of each kind comes to the rows.
After(kind, r) ==
    CASE r = "project"     -> IF kind = "delete" THEN "universe"
                              ELSE IF kind = "revoke" THEN "assignments" ELSE "roles"
      [] r = "roles"       -> IF kind = "delete" THEN "commit" ELSE "assignments"
      [] r = "assignments" -> IF kind = "ensure" THEN "universe"
                              ELSE IF kind = "delete" THEN "roles" ELSE "commit"
      [] r = "universe"    -> "world"
      [] OTHER             -> IF kind = "delete" THEN "assignments" ELSE "commit"

Advance(p) == pc' = [pc EXCEPT ![p] = After(request[p].kind, pc[p])]

\* Mutant: the roles are read without FOR UPDATE.
ReadsRolesUnlocked(p, r) ==
    IF Is(p, "delete") THEN r \in {"project", "universe", "world"} => r \in changes[p]
    ELSE r # "roles"

\* delete takes the lock of these rows only by changing them.
NeedsLock(p, r) ==
    Is(p, "delete") /\ r \in {"project", "universe", "world"} => r \in changes[p]

\* The statement waits until the row is free.
LockRow(p, r) ==
    IF NeedsLock(p, r)
    THEN lock[r] = NoProcess /\ lock' = [lock EXCEPT ![r] = p]
    ELSE UNCHANGED lock

\* Mutant: a failed request leaves its transaction open.
StillHeld(p) == lock

Released(p) == [r \in Locks |-> IF lock[r] = p THEN NoProcess ELSE lock[r]]

\* The transaction is over, committed or not.
End(p) ==
    /\ pc' = [pc EXCEPT ![p] = "idle"]
    /\ lock' = Released(p)
    /\ changes' = [changes EXCEPT ![p] = {}]
    /\ seen' = [seen EXCEPT ![p] = NoAssignments]
    /\ request' = [request EXCEPT ![p] = NoRequest]
    /\ retried' = [retried EXCEPT ![p] = FALSE]

Rollback(p) == End(p) /\ UNCHANGED committed

-----------------------------------------------------------------------------
(* Provisioning and the access routes.                                     *)

Begin(p) ==
    /\ pc[p] = "idle"
    /\ \E q \in Requests :
          /\ q.kind # "delete"
          /\ request' = [request EXCEPT ![p] = q]
    /\ pc' = [pc EXCEPT ![p] = "project"]
    /\ UNCHANGED <<committed, lock, changes, seen, retried>>

\* Mutant: the lookup ignores deleted projects.
NotInUse == row["project"] # "live"

Unknown == row["project"] = "none"

\* There is no such project: ensure is going to insert it, the others answer 404.
FindNothing(p) ==
    /\ pc[p] = "project" /\ ~Is(p, "delete") /\ Unknown
    /\ IF Is(p, "ensure")
       THEN pc' = [pc EXCEPT ![p] = "insert"]
            /\ UNCHANGED <<committed, lock, request, changes, seen, retried>>
       ELSE Rollback(p)

\* The INSERT waits for another one of the same id, whose row nobody sees yet.
Insert(p) ==
    /\ pc[p] = "insert" /\ row["project"] = "none"
    /\ lock["project"] = NoProcess
    /\ lock' = [lock EXCEPT !["project"] = p]
    /\ changes' = [changes EXCEPT ![p] = {"project"}]
    /\ pc' = [pc EXCEPT ![p] = "roles"]
    /\ UNCHANGED <<committed, request, seen, retried>>

\* The id is taken: begin again once, then give up.
UniqueViolation(p) ==
    /\ pc[p] = "insert" /\ row["project"] # "none"
    /\ IF retried[p]
       THEN Rollback(p)
       ELSE /\ pc' = [pc EXCEPT ![p] = "project"]
            /\ retried' = [retried EXCEPT ![p] = TRUE]
            /\ UNCHANGED <<committed, lock, request, changes, seen>>

\* Mutant: the access routes work on a deleted project.
DeletedToo(p) ==
    LET q == request[p] IN
    CASE q.kind = "ensure" ->
            (row["project"] = "live" \/ q.restore) /\ (owner = q.user \/ q.replace)
      [] q.kind = "initialize" -> TRUE
      [] q.kind = "assign"     -> q.user = owner
      [] OTHER                 -> q.user # owner

\* What the checks of each route demand of the project row.
Acceptable(p) ==
    LET q == request[p] IN
    CASE q.kind = "ensure" ->
            (row["project"] = "live" \/ q.restore) /\ (owner = q.user \/ q.replace)
      [] q.kind = "initialize" -> row["project"] = "live"
      [] q.kind = "assign"     -> row["project"] = "live" /\ q.user = owner
      [] OTHER                 -> row["project"] = "live" /\ q.user # owner

LockProject(p) ==
    /\ pc[p] = "project" /\ ~Is(p, "delete") /\ ~Unknown
    /\ lock["project"] = NoProcess
    /\ IF Acceptable(p)
       THEN /\ LockRow(p, "project")
            /\ changes' = [changes EXCEPT ![p] = {"project"} \ {r \in Rows : row[r] = "live"}]
            /\ Advance(p)
            /\ UNCHANGED <<committed, request, seen, retried>>
       ELSE Rollback(p)

\* Roles, universe and world are created or restored; assign wants the role as it is.
LockPart(p) ==
    /\ pc[p] \in Parts /\ ~Is(p, "delete")
    /\ LET r == pc[p] IN
       IF Is(p, "assign") /\ row[r] # "live"
       THEN lock[r] = NoProcess /\ Rollback(p)
       ELSE /\ LockRow(p, r)
            /\ changes' = [changes EXCEPT ![p] = @ \cup ({r} \ LiveParts)]
            /\ Advance(p)
            /\ UNCHANGED <<committed, request, seen, retried>>

\* Another active owner is a conflict, unless it may be replaced.
Conflict(p) ==
    /\ request[p].kind \in {"ensure", "initialize"} /\ ~request[p].replace
    /\ Active(assigned) \ {request[p].user} # {}

Refused(p) ==
    \/ Conflict(p)
    \/ Is(p, "revoke") /\ assigned[request[p].user] = "none"

LockAssignments(p) ==
    /\ pc[p] = "assignments" /\ ~Is(p, "delete")
    /\ lock["assignments"] = NoProcess
    /\ IF Refused(p)
       THEN Rollback(p)
       ELSE /\ LockRow(p, "assignments")
            /\ seen' = [seen EXCEPT ![p] = assigned]
            /\ Advance(p)
            /\ UNCHANGED <<committed, request, changes, retried>>

\* The assignments after the request, which writes only those that change.
Granted(p) ==
    LET u == request[p].user
        old(v) == seen[p][v]
    IN  CASE Is(p, "assign") -> [assigned EXCEPT ![u] = "active"]
          [] Is(p, "revoke") -> [assigned EXCEPT ![u] = IF old(u) = "active" THEN "revoked" ELSE @]
          [] OTHER -> [v \in Users |-> IF v = u THEN "active"
                                       ELSE IF old(v) = "active" THEN "revoked"
                                       ELSE assigned[v]]

MakesAnotherOwner(p) ==
    Is(p, "initialize") /\ request[p].replace /\ request[p].user # owner

Commit(p) ==
    /\ pc[p] = "commit" /\ ~Is(p, "delete")
    /\ row' = [r \in Rows |-> IF r \in changes[p] THEN "live" ELSE row[r]]
    /\ owner' = IF Is(p, "ensure") THEN request[p].user ELSE owner
    /\ assigned' = Granted(p)
    /\ halved' = (halved /\ ~Is(p, "ensure"))
    /\ diverged' = (~Is(p, "ensure") /\ (diverged \/ MakesAnotherOwner(p)))
    /\ End(p)

-----------------------------------------------------------------------------
(* Deleting the project.                                                   *)

\* The project is read without a lock, and changed only if it is in use.
BeginDelete(p) ==
    /\ pc[p] = "idle" /\ row["project"] # "none"
    /\ \E q \in Requests :
          /\ q.kind = "delete"
          /\ request' = [request EXCEPT ![p] = q]
    /\ pc' = [pc EXCEPT ![p] = "project"]
    /\ changes' = [changes EXCEPT ![p] = {"project"} \cap {r \in Rows : row[r] = "live"}]
    /\ UNCHANGED <<committed, lock, seen, retried>>

\* The pending change of one table is written before the next one is read.
DeleteRow(p) ==
    /\ pc[p] \in {"project", "universe", "world"} /\ Is(p, "delete")
    /\ LockRow(p, pc[p])
    /\ Advance(p)
    /\ changes' = [changes EXCEPT ![p] = @ \cup (LiveParts \cap {After("delete", pc[p])})]
    /\ seen' = [seen EXCEPT ![p] = IF pc[p] = "world" THEN assigned ELSE @]
    /\ UNCHANGED <<committed, request, retried>>

DeleteAssignments(p) ==
    /\ pc[p] = "assignments" /\ Is(p, "delete")
    /\ LockRow(p, "assignments")
    /\ Advance(p)
    /\ UNCHANGED <<committed, request, changes, seen, retried>>

DeleteRoles(p) ==
    /\ pc[p] = "roles" /\ Is(p, "delete")
    /\ LockRow(p, "roles")
    /\ changes' = [changes EXCEPT ![p] = @ \cup (LiveParts \cap {"roles"})]
    /\ Advance(p)
    /\ UNCHANGED <<committed, request, seen, retried>>

\* Assignments that were inserted while the statement waited stay as they are.
CommitDelete(p) ==
    /\ pc[p] = "commit" /\ Is(p, "delete")
    /\ row' = [r \in Rows |-> IF r \in changes[p] THEN "deleted" ELSE row[r]]
    /\ assigned' = [u \in Users |-> IF seen[p][u] = "none" THEN assigned[u] ELSE "deleted"]
    /\ halved' = (halved \/ (DeletesLate(p) /\ row["project"] = "live"))
    /\ UNCHANGED <<owner, diverged>>
    /\ End(p)

-----------------------------------------------------------------------------

\* Any statement may fail, or the process may be stopped.
Fail(p) == pc[p] # "idle" /\ Rollback(p)

Waiting(p) ==
    pc[p] \in Locks /\ NeedsLock(p, pc[p]) /\ lock[pc[p]] \in Processes \ {p}

Deadlocked(S) ==
    /\ S # {}
    /\ \A p \in S : Waiting(p) /\ lock[pc[p]] \in S
    /\ \A p \in S : \E q \in S : lock[pc[q]] = p

\* PostgreSQL ends one of the transactions that wait for each other.
BreakDeadlock == \E S \in SUBSET Processes : Deadlocked(S) /\ \E p \in S : Rollback(p)

Proceed(p) ==
    \/ FindNothing(p) \/ Insert(p) \/ UniqueViolation(p) \/ LockProject(p)
    \/ LockPart(p) \/ LockAssignments(p) \/ Commit(p)
    \/ DeleteRow(p) \/ DeleteAssignments(p) \/ DeleteRoles(p) \/ CommitDelete(p)

Next ==
    \/ BreakDeadlock
    \/ \E p \in Processes : Begin(p) \/ BeginDelete(p) \/ Proceed(p) \/ Fail(p)

Spec == Init /\ [][Next]_vars

\* Lock queues are fair: a statement that finds its row free again and again gets it.
FairSpec == Spec /\ WF_vars(BreakDeadlock) /\ \A p \in Processes : SF_vars(Proceed(p))

-----------------------------------------------------------------------------

TypeOK ==
    /\ row \in [Rows -> RowStatus]
    /\ owner \in Users \cup {NoUser}
    /\ assigned \in [Users -> Assignment]
    /\ lock \in [Locks -> Processes \cup {NoProcess}]
    /\ pc \in [Processes -> Phases]
    /\ request \in [Processes -> Requests]
    /\ changes \in [Processes -> SUBSET Rows]
    /\ seen \in [Processes -> [Users -> Assignment]]
    /\ retried \in [Processes -> BOOLEAN]
    /\ halved \in BOOLEAN /\ diverged \in BOOLEAN

-----------------------------------------------------------------------------
(* The inductive invariant.                                                *)

\* A project that is not in use has nothing in use.  One in use has all its parts,
\* unless a late deletion has hit it, and then its owner and no other, unless
\* someone else has been made owner.
Together ==
    /\ row["project"] # "live" => LiveParts = {} /\ Active(assigned) = {}
    /\ row["project"] = "live" /\ ~halved => LiveParts = Parts
    /\ row["project"] = "live" /\ ~halved /\ ~diverged => Active(assigned) = {owner}

\* The rows that a request of a kind comes to before another one.
Before(kind, r) ==
    CASE r = "project"     -> {}
      [] r = "roles"       -> IF kind = "delete" THEN Locks \ {"roles"} ELSE {"project"}
      [] r = "assignments" -> IF kind = "delete" THEN {"project", "universe", "world"}
                              ELSE {"project"} \cup IF kind = "revoke" THEN {} ELSE {"roles"}
      [] r = "universe"    -> {"project"} \cup
                              IF kind = "delete" THEN {} ELSE {"roles", "assignments"}
      [] r = "world"       -> {"project", "universe"} \cup
                              IF kind = "delete" THEN {} ELSE {"roles", "assignments"}
      [] OTHER             -> IF kind \in {"ensure", "delete"} THEN Locks
                              ELSE {"project", "assignments"} \cup
                                   IF kind = "revoke" THEN {} ELSE {"roles"}

Passed(p) == IF pc[p] \in {"idle", "insert"} THEN {} ELSE Before(request[p].kind, pc[p])

InPhase(p) ==
    /\ pc[p] = "insert" => Is(p, "ensure")
    /\ pc[p] \in {"universe", "world"} => request[p].kind \in {"ensure", "delete"}
    /\ pc[p] = "roles" => ~Is(p, "revoke")
    /\ changes[p] \subseteq Passed(p) \cup IF Is(p, "delete") THEN {pc[p]} ELSE {}
    /\ retried[p] \/ (Is(p, "delete") /\ pc[p] # "idle") => row["project"] # "none"

PhaseInv == \A p \in Processes : InPhase(p)

\* A process holds the locks of the rows it has passed.
HeldInv ==
    \A p \in Processes, r \in Locks :
        lock[r] = p <=> r \in Passed(p) /\ NeedsLock(p, r)

\* What a request read under a lock is still so.
Fresh(p) ==
    /\ \A r \in Rows \cap Passed(p) : row[r] = "live" \/ r \in changes[p]
    /\ "project" \in Passed(p) =>
          /\ ~Is(p, "ensure") => row["project"] = "live"
          /\ Is(p, "assign") => request[p].user = owner
          /\ Is(p, "revoke") => request[p].user # owner
    /\ Is(p, "initialize") => changes[p] \subseteq {"roles"}
    /\ Is(p, "assign") \/ Is(p, "revoke") => changes[p] = {}
    /\ "assignments" \in Passed(p) => seen[p] = assigned /\ ~Conflict(p)

FreshInv == \A p \in Processes : ~Is(p, "delete") => Fresh(p)

\* What a deletion of a project in use has read is at least what is there: the
\* project's lock keeps all others away but late deletions, which only take.
Undisturbed(p) ==
    /\ LiveParts \cap Passed(p) \subseteq changes[p]
    /\ pc[p] # "roles" => LiveParts \cap {pc[p]} \subseteq changes[p]
    /\ "world" \in Passed(p) => \A u \in Active(assigned) : seen[p][u] # "none"

DeleteInv ==
    \A p \in Processes : Is(p, "delete") /\ "project" \in changes[p] => Undisturbed(p)

GraphInv == TypeOK /\ PhaseInv /\ HeldInv /\ FreshInv /\ DeleteInv /\ Together

-----------------------------------------------------------------------------

\* An ensure that finds its id taken finds the project when it begins again
\* (ensure_chunk_project_for_app_project retries once).
OneRetryIsEnough == \A p \in Processes : retried[p] => pc[p] # "insert"

\* A project that provisioning answers for is in use, with all its parts, and
\* the requested user is its only active owner, whatever runs beside it.
EnsureAnswersWhole ==
    [][\A p \in Processes : Commit(p) /\ Is(p, "ensure") =>
          /\ \A r \in Rows : row'[r] = "live"
          /\ owner' = request[p].user /\ Active(assigned') = {request[p].user}]_vars

\* The tables of a project change as one record.  Where clients take its parts
\* apart, by deleting a deleted project or through access/initialize, no more is
\* lost than ProjectRecord says, and the next ensure makes the project whole.
ImplementsProjectRecord == Record!Spec

\* Every request ends, also when two of them wait for each other.
EveryRequestEnds == \A p \in Processes : pc[p] # "idle" ~> pc[p] = "idle"

\* At no time has a project two active owners
\* (ensure_owner_role_assignment of src/project_access/service.py).
OneOwner == Cardinality(Active(assigned)) <= 1

\* A project in use has its universe, world, roles and owner
\* (_soft_delete_project_graph_response deletes them with it).
NoHalfDeletedProject ==
    IF row["project"] = "live"
    THEN LiveParts = Parts /\ Active(assigned) = {owner}
    ELSE LiveParts = {} /\ Active(assigned) = {}
=============================================================================

--------------------------- MODULE ProjectRecord ---------------------------
(***************************************************************************)
(* What an App project's clients count on: the project, its roles, universe *)
(* and world, and its owner's assignment come, change and go together.  Two *)
(* requests take parts of it apart, and the next ensure puts them together: *)
(* access/initialize may appoint another owner than the project names, and  *)
(* a deletion of a deleted project may hit it after it has been restored.   *)
(***************************************************************************)
CONSTANTS
    Users, NoUser,
    Parts,
    Roles       \* one of the parts

VARIABLES
    status,     \* of the project
    owner,      \* the user the project names as its owner
    owners,     \* the users whose assignment of the Owner role is active
    live,       \* the parts of the project in use
    late,       \* a deletion of a deleted project is under way
    halved,     \* such a deletion has hit the project in use, since the last ensure
    diverged    \* someone has been appointed who is not owner, since the last ensure

record == <<status, owner, owners, live, late, halved, diverged>>

Init ==
    /\ status = "none" /\ owner = NoUser /\ owners = {} /\ live = {}
    /\ ~late /\ ~halved /\ ~diverged

InUse(u) ==
    /\ status' = "live" /\ owner' = u /\ owners' = {u} /\ live' = Parts
    /\ ~halved' /\ ~diverged'
    /\ UNCHANGED late

Create(u) == status = "none" /\ InUse(u)

HandOver(u) == status = "live" /\ InUse(u)

Restore(u) == status = "deleted" /\ InUse(u)

Delete ==
    /\ status = "live"
    /\ status' = "deleted" /\ owners' = {} /\ live' = {}
    /\ UNCHANGED <<owner, late, halved, diverged>>

\* The appointed user is then the only owner; unless it is the project's, there
\* was no other one or the project and its owners diverge.
Appoint(u) ==
    /\ status = "live"
    /\ owners' = {u} /\ live' = live \cup {Roles}
    /\ diverged => diverged'
    /\ diverged' \in BOOLEAN
    /\ u = owner \/ owners \subseteq {u} \/ diverged'
    /\ UNCHANGED <<status, owner, late, halved>>

Grant ==
    /\ status = "live" /\ Roles \in live
    /\ owners' = owners \cup {owner}
    /\ UNCHANGED <<status, owner, live, late, halved, diverged>>

Revoke(u) ==
    /\ status = "live" /\ u # owner
    /\ owners' = owners \ {u}
    /\ UNCHANGED <<status, owner, live, late, halved, diverged>>

BeginLate ==
    /\ status = "deleted" /\ late' = TRUE
    /\ UNCHANGED <<status, owner, owners, live, halved, diverged>>

EndLate ==
    /\ late /\ late' = FALSE
    /\ UNCHANGED <<status, owner, owners, live, halved, diverged>>

\* Only parts and owners are lost, and only by a deletion that began too late.
DeleteLate ==
    /\ late /\ status = "live"
    /\ live' \subseteq live /\ owners' \subseteq owners
    /\ halved' = TRUE /\ late' \in BOOLEAN
    /\ UNCHANGED <<status, owner, diverged>>

Next ==
    \/ Delete \/ Grant \/ BeginLate \/ EndLate \/ DeleteLate
    \/ \E u \in Users : Create(u) \/ HandOver(u) \/ Restore(u) \/ Appoint(u) \/ Revoke(u)

Spec == Init /\ [][Next]_record
=============================================================================

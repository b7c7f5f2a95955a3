--------------------------- MODULE RoofProjection ---------------------------
(***************************************************************************)
(* What a reader of chunks is shown of the roofs, when an editor dataset is *)
(* active in a world that imports and edits LoD2 buildings (Lod2World).     *)
(*                                                                         *)
(* attach_active_editor_dataset of src/editor_dataset/runtime.py adds the   *)
(* roofs of the immutable bundle to the stored object references.  A roof   *)
(* that a user removed has no reference any more; only the ledger and the   *)
(* tombstones of the world row keep it from being added again.  The row is  *)
(* loaded when the request begins and the references are read later.  Roofs *)
(* are seen here in a chunk that holds no facade source of a removed one.   *)
(***************************************************************************)
EXTENDS Lod2World

CONSTANTS Viewers

ASSUME ViewersAssumption == Viewers \cap Actors = {}

VARIABLES
    selected,   \* a bundle with all the roofs is active
    vpc,        \* each chunk request's progress
    row,        \* the config in the world row it loaded
    shown,      \* the roofs it answers with
    gone,       \* history: the roofs removed before it began
    reset       \* history: the operator replaced the config

views  == <<vpc, row, shown, gone>>
pvars  == <<vars, selected, views, reset>>

PInit ==
    /\ Init
    /\ selected = FALSE
    /\ vpc = [v \in Viewers |-> "idle"]
    /\ row = [v \in Viewers |-> NoConfig]
    /\ shown = [v \in Viewers |-> {}]
    /\ gone = [v \in Viewers |-> {}]
    /\ reset = FALSE

\* A command, an import or the operator.  Configure is the one step that
\* changes the config and belongs to no actor.
EditWorld ==
    /\ Next
    /\ reset' = (reset \/ (config' # config /\ pc' = pc))
    /\ UNCHANGED <<selected, views>>

\* activate_editor_dataset: a selector is written and stays.
Activate ==
    /\ ~selected
    /\ selected' = TRUE
    /\ UNCHANGED <<vars, views, reset>>

\* The chunk route resolves the world.
BeginView(v) ==
    /\ vpc[v] = "idle"
    /\ row' = [row EXCEPT ![v] = config]
    /\ gone' = [gone EXCEPT ![v] = {r \in Roofs : roof[r] = "removed"}]
    /\ vpc' = [vpc EXCEPT ![v] = "begun"]
    /\ UNCHANGED <<vars, selected, shown, reset>>

\* Mutant: only tombstones hide a removed roof.
HiddenByTombstone(v) == Tombstones(row[v])

\* Roofs with a tombstone, and those of buildings the world has imported.
Hidden(v) == Tombstones(row[v]) \cup {r \in Roofs : BuildingOf[r] \in Ledger(row[v])}

\* The stored references and what the bundle adds to them.
ReadChunk(v) ==
    LET stored == {r \in Roofs : roof[r] = "active"} IN
    /\ vpc[v] = "begun"
    /\ shown' = [shown EXCEPT ![v] = stored \cup IF selected THEN Roofs \ Hidden(v) ELSE {}]
    /\ vpc' = [vpc EXCEPT ![v] = "answered"]
    /\ UNCHANGED <<vars, selected, row, gone, reset>>

EndView(v) ==
    /\ vpc[v] = "answered"
    /\ vpc' = [vpc EXCEPT ![v] = "idle"]
    /\ row' = [row EXCEPT ![v] = NoConfig]
    /\ shown' = [shown EXCEPT ![v] = {}]
    /\ gone' = [gone EXCEPT ![v] = {}]
    /\ UNCHANGED <<vars, selected, reset>>

PNext == EditWorld \/ Activate \/ \E v \in Viewers : BeginView(v) \/ ReadChunk(v) \/ EndView(v)

PSpec == PInit /\ [][PNext]_pvars

-----------------------------------------------------------------------------

PTypeOK ==
    /\ selected \in BOOLEAN /\ reset \in BOOLEAN
    /\ vpc \in [Viewers -> {"idle", "begun", "answered"}]
    /\ row \in [Viewers -> Configs \cup {NoConfig}]
    /\ shown \in [Viewers -> SUBSET Roofs]
    /\ gone \in [Viewers -> SUBSET Roofs]

\* Every roof that was ever placed has its building in the ledger, and every
\* request loaded a row that hides what was gone when it began.
ViewInv ==
    /\ PTypeOK
    /\ reset \/
        /\ \A r \in Roofs : roof[r] # "none" => BuildingOf[r] \in Ledger(config)
        /\ \A v \in Viewers : vpc[v] # "idle" => gone[v] \subseteq Hidden(v)

\* "Prevent immutable bundle projection from reviving that deleted roof in
\* another streamed chunk": a roof removed before a request began is not in
\* its answer, unless the operator replaced the config that hides it.
RemovedRoofsStayHidden ==
    reset \/ \A v \in Viewers : vpc[v] = "answered" => shown[v] \cap gone[v] = {}
=============================================================================

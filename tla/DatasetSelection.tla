-------------------------- MODULE DatasetSelection --------------------------
(***************************************************************************)
(* The active editor dataset of one world: src/editor_dataset/runtime.py    *)
(* and the two scripts that select a bundle.                               *)
(*                                                                         *)
(* A script replaces the selector file.  Nothing tells the server           *)
(* processes: each keeps the bundle it loaded with the stamp of the         *)
(* selector, its modification time and size, and looks at the stamp at      *)
(* every load.  Threads of one process share this entry.  The stamp is      *)
(* taken before the file is read, and validating a manifest of megabytes    *)
(* lies between the two, so a load may see two different selectors.         *)
(*                                                                         *)
(* The bundle's own manifest is stamped too; bundles are immutable (see     *)
(* BundleWriter), so this stamp always agrees and is left out.              *)
(***************************************************************************)
EXTENDS BundleStore

CONSTANTS
    SizeOf,      \* the size of the selector file that names a bundle
    Activators,  \* runs of the scripts
    Processes, Readers, ProcessOf,   \* server processes and their threads
    MaxTick,     \* the last reading of the file system's clock: bounds the model
    NoSelector, NoEntry, NoName

ASSUME ReadersAssumption == ProcessOf \in [Readers -> Processes]

ASSUME NamesAssumption ==
    /\ SizeOf \in [Names -> Nat] /\ MaxTick \in Nat /\ NoName \notin Names
    /\ NoEntry \notin [tick: Nat, size: Nat, name: Names]
    /\ NoSelector \notin [name: Names, tick: Nat]
    /\ \A w \in Writers : NoBundle # [by |-> w, files |-> Files]

VARIABLES
    now,          \* the clock that modification times come from
    selector,     \* active.json: its content and modification time
    activations,  \* history: every selector there ever was
    imported,     \* bundles whose LoD2 import was committed
    apc, chosen, apply,  \* each script's progress, bundle, and whether it imports
    cache,        \* the entry of each process in _active_cache
    rpc, seen,    \* each load's progress and the stamp it took
    got,          \* the bundle it read or was given
    active        \* history: the bundles selected since it began

files   == <<bundle, now, selector, activations, imported>>
scripts == <<apc, chosen, apply>>
loads   == <<rpc, seen, got>>
vars    == <<files, scripts, cache, loads, active>>

-----------------------------------------------------------------------------

Init ==
    /\ StoreInit
    /\ now = 0
    /\ selector = NoSelector
    /\ activations = {}
    /\ imported = {}
    /\ apc = [a \in Activators |-> "idle"]
    /\ chosen = [a \in Activators |-> NoName]
    /\ apply = [a \in Activators |-> FALSE]
    /\ cache = [p \in Processes |-> NoEntry]
    /\ rpc = [r \in Readers |-> "idle"]
    /\ seen = [r \in Readers |-> [tick |-> 0, size |-> 0]]
    /\ got = [r \in Readers |-> NoName]
    /\ active = [r \in Readers |-> {}]

PublishBundle ==
    /\ StoreNext
    /\ UNCHANGED <<now, selector, activations, imported, scripts, cache, loads, active>>

Tick ==
    /\ now < MaxTick
    /\ now' = now + 1
    /\ UNCHANGED <<bundle, selector, activations, imported, scripts, cache, loads, active>>

(* The scripts. *)

\* The bundle is loaded and validated.  activate_editor_dataset.py --apply
\* imports it first; build_editor_dataset.py --activate does not.
Validate(a) ==
    /\ apc[a] = "idle"
    /\ \E n \in Names, import \in BOOLEAN :
          /\ bundle[n] # NoBundle
          /\ chosen' = [chosen EXCEPT ![a] = n]
          /\ apply' = [apply EXCEPT ![a] = import]
          /\ apc' = [apc EXCEPT ![a] = IF import THEN "import" ELSE "select"]
    /\ UNCHANGED <<files, cache, loads, active>>

\* Mutant: the selector is written whatever became of the import.
SelectAnyway(ok) == "select"

AfterImport(ok) == IF ok THEN "select" ELSE "idle"

\* apply_import and its commit, or its failure.
ImportBundle(a) ==
    /\ apc[a] = "import"
    /\ \E ok \in BOOLEAN :
          /\ imported' = IF ok THEN imported \cup {chosen[a]} ELSE imported
          /\ apc' = [apc EXCEPT ![a] = AfterImport(ok)]
    /\ UNCHANGED <<bundle, now, selector, activations, chosen, apply, cache, loads, active>>

\* os.replace of active.json.  The temporary file written before it is seen by
\* no reader, and a script that fails to write it Leaves.
Select(a) ==
    LET new == [name |-> chosen[a], tick |-> now] IN
    /\ apc[a] = "select"
    /\ selector' = new
    /\ activations' = activations \cup {new}
    /\ active' = [r \in Readers |-> IF rpc[r] = "idle" THEN {} ELSE active[r] \cup {chosen[a]}]
    /\ apc' = [apc EXCEPT ![a] = "selected"]
    /\ UNCHANGED <<bundle, now, imported, chosen, apply, cache, loads>>

\* The script ends, or is killed before the selector is written.
Leave(a) ==
    /\ apc[a] # "idle"
    /\ apc' = [apc EXCEPT ![a] = "idle"]
    /\ chosen' = [chosen EXCEPT ![a] = NoName]
    /\ apply' = [apply EXCEPT ![a] = FALSE]
    /\ UNCHANGED <<files, cache, loads, active>>

(* load_active_editor_dataset. *)

\* Mutant: two selectors of one size are taken for the same.
StampSizeOnly(s) == [tick |-> 0, size |-> SizeOf[s.name]]

Stamp(s) == [tick |-> s.tick, size |-> SizeOf[s.name]]

\* A world without a selector has no dataset.
BeginLoad(r) ==
    /\ rpc[r] = "idle"
    /\ selector # NoSelector
    /\ seen' = [seen EXCEPT ![r] = Stamp(selector)]
    /\ active' = [active EXCEPT ![r] = {selector.name}]
    /\ rpc' = [rpc EXCEPT ![r] = "lookup"]
    /\ UNCHANGED <<files, scripts, cache, got>>

Fresh(r) ==
    LET entry == cache[ProcessOf[r]] IN
    entry # NoEntry /\ seen[r] = [tick |-> entry.tick, size |-> entry.size]

LookUp(r) ==
    /\ rpc[r] = "lookup"
    /\ IF Fresh(r)
       THEN /\ got' = [got EXCEPT ![r] = cache[ProcessOf[r]].name]
            /\ rpc' = [rpc EXCEPT ![r] = "answered"]
       ELSE /\ rpc' = [rpc EXCEPT ![r] = "read"]
            /\ UNCHANGED got
    /\ UNCHANGED <<files, scripts, cache, seen, active>>

\* active.json is read now, whatever the stamp said, and its bundle validated.
ReadSelector(r) ==
    /\ rpc[r] = "read"
    /\ got' = [got EXCEPT ![r] = selector.name]
    /\ rpc' = [rpc EXCEPT ![r] = "store"]
    /\ UNCHANGED <<files, scripts, cache, seen, active>>

StampOfLoad(r) == seen[r]

StoreEntry(r) ==
    /\ rpc[r] = "store"
    /\ cache' = [cache EXCEPT ![ProcessOf[r]] =
          [tick |-> StampOfLoad(r).tick, size |-> StampOfLoad(r).size, name |-> got[r]]]
    /\ rpc' = [rpc EXCEPT ![r] = "answered"]
    /\ UNCHANGED <<files, scripts, seen, got, active>>

EndLoad(r) ==
    /\ rpc[r] = "answered"
    /\ rpc' = [rpc EXCEPT ![r] = "idle"]
    /\ seen' = [seen EXCEPT ![r] = [tick |-> 0, size |-> 0]]
    /\ got' = [got EXCEPT ![r] = NoName]
    /\ active' = [active EXCEPT ![r] = {}]
    /\ UNCHANGED <<files, scripts, cache>>

\* A server process is replaced: its memory and its requests are gone.
Restart(p) ==
    LET idle(r) == ProcessOf[r] = p IN
    /\ cache' = [cache EXCEPT ![p] = NoEntry]
    /\ rpc' = [r \in Readers |-> IF idle(r) THEN "idle" ELSE rpc[r]]
    /\ seen' = [r \in Readers |-> IF idle(r) THEN [tick |-> 0, size |-> 0] ELSE seen[r]]
    /\ got' = [r \in Readers |-> IF idle(r) THEN NoName ELSE got[r]]
    /\ active' = [r \in Readers |-> IF idle(r) THEN {} ELSE active[r]]
    /\ UNCHANGED <<files, scripts>>

SelectionStep ==
    \/ Tick
    \/ \E a \in Activators : Validate(a) \/ ImportBundle(a) \/ Select(a) \/ Leave(a)
    \/ \E r \in Readers : BeginLoad(r) \/ LookUp(r) \/ ReadSelector(r)
                             \/ StoreEntry(r) \/ EndLoad(r)
    \/ \E p \in Processes : Restart(p)

Next == PublishBundle \/ SelectionStep

Spec == Init /\ [][Next]_vars

-----------------------------------------------------------------------------

Stamps == [tick: Nat, size: Nat]

TypeOK ==
    /\ bundle \in [Names -> {Whole(w) : w \in Writers} \cup {NoBundle}]
    /\ now \in Nat
    /\ selector \in [name: Names, tick: Nat] \cup {NoSelector}
    /\ activations \subseteq [name: Names, tick: Nat]
    /\ imported \subseteq Names
    /\ apc \in [Activators -> {"idle", "import", "select", "selected"}]
    /\ chosen \in [Activators -> Names \cup {NoName}]
    /\ apply \in [Activators -> BOOLEAN]
    /\ cache \in [Processes -> [tick: Nat, size: Nat, name: Names] \cup {NoEntry}]
    /\ rpc \in [Readers -> {"idle", "lookup", "read", "store", "answered"}]
    /\ seen \in [Readers -> Stamps]
    /\ got \in [Readers -> Names \cup {NoName}]
    /\ active \in [Readers -> SUBSET Names]

\* The clock and the selector only move forward, and a selected bundle exists.
SelectorIsLatest ==
    /\ selector = NoSelector => activations = {}
    /\ selector # NoSelector => selector \in activations
    /\ \A x \in activations :
          /\ x.tick <= now /\ x.tick <= selector.tick
          /\ bundle[x.name] # NoBundle

\* What a script that imports is about to select was committed.
ScriptsInOrder ==
    \A a \in Activators :
        /\ apc[a] # "idle" => chosen[a] \in Names /\ bundle[chosen[a]] # NoBundle
        /\ apc[a] \in {"select", "selected"} /\ apply[a] => chosen[a] \in imported

\* The bundle of an entry or of a load was selected no earlier than its stamp.
NoOlderThanStamp(name, tick) == \E x \in activations : x.name = name /\ x.tick >= tick

EntriesInOrder ==
    /\ \A p \in Processes : cache[p] # NoEntry =>
          NoOlderThanStamp(cache[p].name, cache[p].tick)
    /\ \A r \in Readers : rpc[r] \in {"store", "answered"} =>
          NoOlderThanStamp(got[r], seen[r].tick)

\* A load knows every bundle selected since it took its stamp.
LoadsWatched ==
    \A r \in Readers : rpc[r] # "idle" =>
        /\ \E x \in activations : x.tick = seen[r].tick /\ x.name \in active[r]
        /\ \A x \in activations : x.tick > seen[r].tick => x.name \in active[r]

\* The inductive invariant.
SelectionInv ==
    TypeOK /\ SelectorIsLatest /\ ScriptsInOrder /\ EntriesInOrder /\ LoadsWatched

\* Two bundles were selected within one tick of the file system's clock.
SameTick ==
    \E x, y \in activations : x.name # y.name /\ x.tick = y.tick

\* A load answers with a bundle that was selected at some moment of the load,
\* though its process keeps an entry, other threads overwrite it with older
\* loads, and the selector changes between stamp and read.  The exception is
\* a second activation within one tick of the clock.
AnswerWasActive ==
    SameTick \/ \A r \in Readers : rpc[r] = "answered" => got[r] \in active[r]

\* activate_editor_dataset.py selects a bundle only after its import was
\* committed: killed or failing at any point, it never selects one that the
\* world does not hold.
SelectedAfterImport ==
    [][\A a \in Activators :
          apc[a] = "select" /\ apc'[a] = "selected" /\ apply[a] =>
              selector'.name \in imported]_vars
=============================================================================

----------------------------- MODULE ServerStack -----------------------------
(***************************************************************************)
(* Generated server stacks (internal/server, the server commands of        *)
(* internal/cli): their directories and the Docker resources of their      *)
(* Compose projects.  Init publishes a directory entry by entry, others    *)
(* may see and use it meanwhile; Up and Down load it, look who owns what   *)
(* is there, and call Compose.  Users copy, edit and remove directories    *)
(* and resources as they like.  A project bears the name of the Init that  *)
(* made it.                                                                *)
(***************************************************************************)
EXTENDS Naturals, FiniteSets

CONSTANTS
    StackDirs,
    Projects,        \* calls of Init, each with a random identity
    Missing,         \* no such entry, no such owner, no project
    Lifecycles,      \* calls of Up and Down
    MaxBegun         \* bound: calls, and what users do by hand

ASSUME ServerStackAssumption ==
    /\ StackDirs # {} /\ Missing \notin StackDirs \cup Projects \cup {"edited"}
    /\ MaxBegun \in Nat

VARIABLES
    tree,        \* the directories; Missing in all entries but "dir" of an empty one
    init,        \* calls of Init: where, how far, what is still staged
    engine,      \* Docker: who owns the containers and volumes of a project
    lifecycle,   \* calls of Up and Down
    begun

stackVars == <<tree, init, engine, lifecycle, begun>>

Entries == {"compose.yaml", "secrets", "stack.json"}
Directory == [dir : BOOLEAN, entry : [Entries -> Projects \cup {Missing, "edited"}]]
NoDirectory == [dir |-> FALSE, entry |-> [e \in Entries |-> Missing]]
Owners == StackDirs \cup {Missing}

SomeDir == CHOOSE d \in StackDirs : TRUE
NoLifecycle == [at |-> "idle", kind |-> "up", dir |-> SomeDir, project |-> Missing,
                overtaken |-> FALSE]       \* history: another directory's came in between

StackInit ==
    /\ tree = [d \in StackDirs |-> NoDirectory]
    /\ init = [p \in Projects |-> [at |-> "idle", dir |-> SomeDir, staged |-> {}]]
    /\ engine = [p \in Projects |-> [containers |-> Missing, volumes |-> Missing]]
    /\ lifecycle = [c \in Lifecycles |-> NoLifecycle]
    /\ begun = 0

-----------------------------------------------------------------------------
Begin == begun < MaxBegun /\ begun' = begun + 1

(* Init: secrets, rendered files and receipt go to a staging directory.    *)

StageStack(p, d) ==
    /\ Begin /\ init[p].at = "idle" /\ ~tree[d].dir
    /\ init' = [init EXCEPT ![p] = [at |-> "staged", dir |-> d, staged |-> Entries]]
    /\ UNCHANGED <<tree, engine, lifecycle>>

(* os.Mkdir fails if somebody else has made it.                            *)
ReserveDirectory(p) ==
    /\ init[p].at = "staged" /\ ~tree[init[p].dir].dir
    /\ tree' = [tree EXCEPT ![init[p].dir].dir = TRUE]
    /\ init' = [init EXCEPT ![p].at = "moving"]
    /\ UNCHANGED <<engine, lifecycle, begun>>

(* Mutant: the receipt is moved like any other entry. *)
MovableAnytime(p) == init[p].staged

Movable(p) ==
    IF init[p].staged = {"stack.json"} THEN init[p].staged ELSE init[p].staged \ {"stack.json"}

MoveEntry(p, e) ==
    LET d == init[p].dir IN
    /\ init[p].at = "moving" /\ e \in Movable(p) /\ tree[d].dir
    /\ tree' = [tree EXCEPT ![d].entry[e] = p]
    /\ init' = [init EXCEPT ![p].staged = @ \ {e},
                            ![p].at = IF init[p].staged = {e} THEN "made" ELSE @]
    /\ UNCHANGED <<engine, lifecycle, begun>>

(* A step fails or the program ends: what was moved stays.                 *)
StopInit(p) ==
    /\ init[p].at \in {"staged", "moving"}
    /\ init' = [init EXCEPT ![p].at = "failed", ![p].staged = {}]
    /\ UNCHANGED <<tree, engine, lifecycle, begun>>

-----------------------------------------------------------------------------
(* Load: the digests of the receipt, which has none of secrets.            *)

Loadable(d) ==
    /\ tree[d].entry["stack.json"] \in Projects
    /\ tree[d].entry["compose.yaml"] = tree[d].entry["stack.json"]

Comes(c, at) == lifecycle' = [lifecycle EXCEPT ![c].at = at]

LoadStack(c, d, kind) ==
    /\ Begin /\ lifecycle[c].at = "idle" /\ Loadable(d)
    /\ lifecycle' = [lifecycle EXCEPT ![c] = [NoLifecycle EXCEPT !.at = "loaded", !.kind = kind,
                              !.dir = d, !.project = tree[d].entry["stack.json"]]]
    /\ UNCHANGED <<tree, init, engine>>

(* Manager.checked loads again; whoever is refused is done.                *)
CheckStack(c) ==
    LET s == lifecycle[c] IN
    /\ s.at = "loaded"
    /\ IF Loadable(s.dir) /\ tree[s.dir].entry["stack.json"] = s.project
       THEN Comes(c, "checked") ELSE lifecycle' = [lifecycle EXCEPT ![c] = NoLifecycle]
    /\ UNCHANGED <<tree, init, engine, begun>>

(* preflight: docker ps, then docker volume inspect.                       *)
MayUse(c, owner) == owner \in {Missing, lifecycle[c].dir}

Preflight(c) ==
    LET owned == engine[lifecycle[c].project] IN
    /\ \/ lifecycle[c].at = "checked" /\ MayUse(c, owned.containers) /\ Comes(c, "inspected")
       \/ lifecycle[c].at = "inspected" /\ MayUse(c, owned.volumes) /\ Comes(c, "ready")
    /\ UNCHANGED <<tree, init, engine, begun>>

(* Others of the project that have started their preflight do not see it.  *)
Acted(c) ==
    lifecycle' = [x \in Lifecycles |->
        IF x = c THEN NoLifecycle
        ELSE [lifecycle[x] EXCEPT !.overtaken =
                 @ \/ /\ lifecycle[x].at \in {"inspected", "ready"}
                      /\ lifecycle[x].project = lifecycle[c].project
                      /\ lifecycle[x].dir # lifecycle[c].dir]]

(* docker compose up makes what is missing and replaces the containers; it *)
(* may fail after the volumes.                                             *)
ComposeUp(c) ==
    LET d == lifecycle[c].dir IN
    /\ lifecycle[c].at = "ready" /\ lifecycle[c].kind = "up"
    /\ \E containers \in BOOLEAN :
         engine' = [engine EXCEPT ![lifecycle[c].project] =
                      [containers |-> IF containers THEN d ELSE @.containers,
                       volumes |-> IF @.volumes = Missing THEN d ELSE @.volumes]]
    /\ Acted(c)
    /\ UNCHANGED <<tree, init, begun>>

(* docker compose down keeps the volumes.                                  *)
ComposeDown(c) ==
    /\ lifecycle[c].at = "ready" /\ lifecycle[c].kind = "down"
    /\ engine' = [engine EXCEPT ![lifecycle[c].project].containers = Missing]
    /\ Acted(c)
    /\ UNCHANGED <<tree, init, begun>>

(* Refused, cancelled, timed out, no engine.                               *)
GiveUpLifecycle(c) ==
    /\ lifecycle[c].at # "idle"
    /\ lifecycle' = [lifecycle EXCEPT ![c] = NoLifecycle]
    /\ UNCHANGED <<tree, init, engine, begun>>

-----------------------------------------------------------------------------
(* Users.                                                                  *)

CopyStack(d, copy) ==
    /\ Begin /\ tree[d].dir /\ ~tree[copy].dir
    /\ tree' = [tree EXCEPT ![copy] = tree[d]]
    /\ UNCHANGED <<init, engine, lifecycle>>

EditStack(d, e) ==
    /\ Begin /\ e # "stack.json" /\ tree[d].entry[e] \notin {Missing, "edited"}
    /\ tree' = [tree EXCEPT ![d].entry[e] = "edited"]
    /\ UNCHANGED <<init, engine, lifecycle>>

(* Nobody removes a directory under the Init that fills it.                *)
RemoveStack(d) ==
    /\ Begin /\ tree[d].dir
    /\ \A p \in Projects : init[p].at = "moving" => init[p].dir # d
    /\ tree' = [tree EXCEPT ![d] = NoDirectory]
    /\ UNCHANGED <<init, engine, lifecycle>>

RemoveResources(p) ==
    /\ Begin /\ engine[p].volumes # Missing
    /\ \E volumes \in BOOLEAN :
         engine' = [engine EXCEPT ![p] = [containers |-> Missing,
                                          volumes |-> IF volumes THEN Missing ELSE @.volumes]]
    /\ UNCHANGED <<tree, init, lifecycle>>

StackNext ==
    \/ \E p \in Projects :
        \/ ReserveDirectory(p) \/ StopInit(p) \/ RemoveResources(p)
        \/ \E e \in Entries : MoveEntry(p, e)
        \/ \E d \in StackDirs : StageStack(p, d)
    \/ \E c \in Lifecycles :
        \/ CheckStack(c) \/ Preflight(c) \/ ComposeUp(c) \/ ComposeDown(c) \/ GiveUpLifecycle(c)
        \/ \E d \in StackDirs, kind \in {"up", "down"} : LoadStack(c, d, kind)
    \/ \E d \in StackDirs :
        \/ RemoveStack(d)
        \/ \E copy \in StackDirs : CopyStack(d, copy)
        \/ \E e \in Entries : EditStack(d, e)

StackSpec == StackInit /\ [][StackNext]_stackVars

-----------------------------------------------------------------------------
(* Properties.                                                             *)

StackTypeOK ==
    /\ tree \in [StackDirs -> Directory]
    /\ init \in [Projects -> [at : {"idle", "staged", "moving", "made", "failed"},
                              dir : StackDirs, staged : SUBSET Entries]]
    /\ engine \in [Projects -> [containers : Owners, volumes : Owners]]
    /\ lifecycle \in [Lifecycles ->
           [at : {"idle", "loaded", "checked", "inspected", "ready"}, kind : {"up", "down"},
            dir : StackDirs, project : Projects \cup {Missing}, overtaken : BOOLEAN]]
    /\ begun \in 0..MaxBegun

(* A directory that loads is whole, though nothing checks its secrets:     *)
(* whatever was published halfway, by one Init or by two, does not load.   *)
StacksAreWhole ==
    \A d \in StackDirs : Loadable(d) =>
        \A e \in Entries : tree[d].entry[e] \in {tree[d].entry["stack.json"], "edited"}

(* Up and Down leave alone the containers and volumes that a copy of their *)
(* directory owns, unless that copy was faster between look and call: then *)
(* the project may end up with two owners, and both are refused.           *)
ResourcesStay(c) ==
    LET owned == engine[lifecycle[c].project] IN
    lifecycle[c].at = "ready" /\ ~lifecycle[c].overtaken /\ engine' # engine
       /\ lifecycle'[c].at = "idle" =>
         {owned.containers, owned.volumes} \subseteq {Missing, lifecycle[c].dir}

(* No step of a command, a user or the engine leads away from either.      *)
StacksAreSafe == [][StacksAreWhole' /\ \A c \in Lifecycles : ResourcesStay(c)]_stackVars
=============================================================================

-------------------------- MODULE DatasetWorkspace --------------------------
(***************************************************************************)
(* The dataset workspace of a terminal                                     *)
(* (internal/tui/workspace_datasets.go) and the scan behind it             *)
(* (internal/core/datasets.go): which runs use datasets, experiment by     *)
(* experiment, while runs and experiments are deleted and restored.        *)
(*                                                                         *)
(* Of one connected target; every run uses a dataset.  Grouping, searching *)
(* and moving among the rows are left out.  External: the server lists     *)
(* experiments and runs in some order, in pages of any size, and a token   *)
(* of it is a place in that order: what is listed may change between two   *)
(* pages, and then moves over the place.                                   *)
(***************************************************************************)
EXTENDS Naturals, FiniteSets

CONSTANTS
    Home,        \* the experiment of each run
    Nobody,      \* no run
    LoadedRuns,  \* bound: the sets of runs that the lists may have loaded
    Deletable,   \* bound: the runs and experiments that are deleted and restored
    MaxRequests, \* bound: scans and jumps
    MaxDeletions \* bound: deletions and restorations

ASSUME WorkspaceAssumption ==
    /\ Nobody \notin DOMAIN Home \cup {Home[r] : r \in DOMAIN Home}
    /\ DOMAIN Home \cap {Home[r] : r \in DOMAIN Home} = {}
    /\ LoadedRuns \subseteq SUBSET DOMAIN Home
    /\ Deletable \subseteq DOMAIN Home \cup {Home[r] : r \in DOMAIN Home}
    /\ MaxRequests \in Nat /\ MaxDeletions \in Nat

LoggedRuns == DOMAIN Home
Homes == {Home[r] : r \in LoggedRuns}

VARIABLES
    living,      \* the runs and experiments that are not deleted
    catalog,     \* catalogState
    sweep,       \* ScanDatasets under way, with its channel
    late,        \* its messages on their way when it was cancelled
    jumps,       \* GetRun for a run of the catalog
    destination, \* the run the terminal last jumped to
    requested,   \* m.seq: scans and jumps so far
    deletions    \* deletions and restorations so far

workspaceVars == <<living, catalog, sweep, late, jumps, destination, requested, deletions>>

ViewTypes == {"ACTIVE_ONLY", "ALL", "DELETED_ONLY"}
NextView == [v \in ViewTypes |-> CASE v = "ACTIVE_ONLY" -> "ALL" [] v = "ALL" -> "DELETED_ONLY"
                                   [] OTHER -> "ACTIVE_ONLY"]
InView(x, alive, v) == v = "ALL" \/ (x \in alive <=> v = "ACTIVE_ONLY")

(* The runs of a lifecycle: an active one is in a living experiment.      *)
Found(r, alive, v) ==
    CASE v = "ACTIVE_ONLY" -> {r, Home[r]} \subseteq alive
      [] v = "DELETED_ONLY" -> r \notin alive
      [] OTHER -> TRUE

(* What a catalog holds, and the runs it had to hold if it were complete:  *)
(* those that were in view all through its scan, but for the ones that the *)
(* server moved to where its pages had been read already.                  *)
Value == [runs : SUBSET LoggedRuns, view : ViewTypes, scope : {"loaded_runs", "target"},
          complete : BOOLEAN, throughout : SUBSET LoggedRuns]
NoValue == [runs |-> {}, view |-> "ACTIVE_ONLY", scope |-> "loaded_runs", complete |-> FALSE,
            throughout |-> {}]

Gens == 0..(MaxRequests + 1)
Event == [gen : Gens, value : Value, done : BOOLEAN]
Says(s, done) == [gen |-> s.gen, value |-> s.value, done |-> done]
NoEvent == [gen |-> 0, value |-> NoValue, done |-> FALSE]

(* token: of the list that is read, what to ask the next page with; behind: *)
(* what is on the pages before it.                                         *)
NoSweep ==
    [gen |-> 0, at |-> "none", value |-> NoValue, failed |-> FALSE, todo |-> {}, home |-> Nobody,
     token |-> "first", behind |-> {}, throughout |-> {}, event |-> NoEvent]

WorkspaceInit ==
    /\ living = LoggedRuns \cup Homes
    /\ catalog = [open |-> FALSE, gen |-> 0, runGen |-> 0, pending |-> FALSE,
                  view |-> "ACTIVE_ONLY", value |-> NoValue, stale |-> FALSE, asked |-> Nobody]
    /\ sweep = NoSweep /\ late = {} /\ jumps = {} /\ destination = Nobody
    /\ requested = 0 /\ deletions = 0

-----------------------------------------------------------------------------
(* ScanDatasets, in its goroutine: it goes on when its channel of one has  *)
(* room.                                                                   *)

(* Mutant: deleted runs are looked for in deleted experiments. *)
SameView(v) == v

(* Deleted runs can belong to active experiments.                          *)
ExperimentView(v) == IF v = "DELETED_ONLY" THEN "ALL" ELSE v

Emit(s, done) == sweep' = [s EXCEPT !.event = Says(s, done)]
HasRoom(place) == sweep.at = place /\ sweep.event = NoEvent

(* What the server lists, all pages together.                              *)
Listing(s, alive) ==
    IF s.at = "experiments" THEN {e \in Homes : InView(e, alive, ExperimentView(s.value.view))}
    ELSE {r \in LoggedRuns : Home[r] = s.home /\ InView(r, alive, s.value.view)}

(* One request of a list: a page, and whether there are more; an error; or *)
(* a page with a token that was given before.                              *)
IsPage(s, page, next, failed) ==
    LET ahead == Listing(s, living) \ s.behind IN
    /\ page \subseteq ahead
    /\ \/ ~failed /\ (page = {} => ahead = {}) /\ (next = "none" <=> page = ahead)
       \/ failed /\ next = "none" /\ (page = {} \/ s.token = "next")

Turned(s, page, next, failed) ==
    [s EXCEPT !.token = next, !.failed = @ \/ failed,
              !.behind = IF next = "none" THEN {} ELSE @ \cup page]

FindExperiments ==
    /\ sweep.at = "experiments" /\ sweep.token # "none"
    /\ \E page \in SUBSET Homes, next \in {"next", "none"}, failed \in BOOLEAN :
         /\ IsPage(sweep, page, next, failed)
         /\ sweep' = [Turned(sweep, page, next, failed) EXCEPT !.todo = @ \cup page]
    /\ UNCHANGED <<living, catalog, late, jumps, destination, requested, deletions>>

TellExperiments ==
    /\ HasRoom("experiments") /\ sweep.token = "none"
    /\ Emit([sweep EXCEPT !.at = "runs"], FALSE)
    /\ UNCHANGED <<living, catalog, late, jumps, destination, requested, deletions>>

(* A page of the runs of one experiment.                                   *)
SearchExperiment(e) ==
    LET s == IF sweep.home = e THEN sweep
             ELSE [sweep EXCEPT !.home = e, !.token = "first", !.behind = {}, !.todo = @ \ {e}] IN
    /\ sweep.at = "runs" /\ sweep.home \in {e, Nobody} /\ s.token # "none"
    /\ sweep.home = Nobody => e \in sweep.todo
    /\ \E page \in SUBSET LoggedRuns, next \in {"next", "none"}, failed \in BOOLEAN :
         /\ IsPage(s, page, next, failed)
         /\ LET t == [Turned(s, page, next, failed) EXCEPT !.value.runs = @ \cup page] IN
            \/ failed /\ page = {} /\ sweep' = t
            \/ HasRoom("runs") /\ Emit(t, FALSE)
    /\ UNCHANGED <<living, catalog, late, jumps, destination, requested, deletions>>

(* What one experiment fails to answer does not stop the others.           *)
LeaveExperiment ==
    /\ HasRoom("runs") /\ sweep.home # Nobody /\ sweep.token = "none"
    /\ Emit([sweep EXCEPT !.home = Nobody], FALSE)
    /\ UNCHANGED <<living, catalog, late, jumps, destination, requested, deletions>>

(* finish tells the end as progress, and then as the answer.               *)
FinishScan ==
    /\ HasRoom("runs") /\ sweep.todo = {} /\ sweep.home = Nobody
    /\ Emit([sweep EXCEPT !.at = "finished", !.value.complete = ~sweep.failed,
                         !.value.throughout = IF sweep.failed THEN {} ELSE sweep.throughout], FALSE)
    /\ UNCHANGED <<living, catalog, late, jumps, destination, requested, deletions>>

AnswerScan ==
    /\ HasRoom("finished")
    /\ Emit([sweep EXCEPT !.at = "answered"], TRUE)
    /\ UNCHANGED <<living, catalog, late, jumps, destination, requested, deletions>>

-----------------------------------------------------------------------------
(* The workspace.                                                          *)

(* The first time, and until a scan has told more, it holds what the lists *)
(* of runs have loaded.                                                    *)
OpenCatalog(loaded) ==
    /\ ~catalog.open
    /\ catalog' = [catalog EXCEPT !.open = TRUE, !.asked = Nobody,
                     !.value = IF catalog.value.scope = "loaded_runs"
                               THEN [NoValue EXCEPT !.runs = loaded] ELSE @]
    /\ UNCHANGED <<living, sweep, late, jumps, destination, requested, deletions>>

(* Its context is cancelled; one more message may come of it, on its way   *)
(* or sent when both were possible.                                        *)
Cancelled ==
    late' = late \cup CASE sweep.event # NoEvent -> {sweep.event}
                        [] sweep.at = "none" -> {}
                        [] OTHER -> {Says(sweep, FALSE)}

Partial(value) == [value EXCEPT !.complete = FALSE, !.throughout = {}]
Uncompleted(c) == [c EXCEPT !.gen = @ + 1, !.pending = FALSE, !.value = Partial(@)]

(* Ctrl+X, also when nothing is being scanned.                             *)
CancelCatalog ==
    /\ catalog.open /\ catalog.gen <= MaxRequests
    /\ catalog' = Uncompleted(catalog) /\ Cancelled /\ sweep' = NoSweep
    /\ UNCHANGED <<living, jumps, destination, requested, deletions>>

Away(c) == [c EXCEPT !.open = FALSE, !.runGen = @ + 1]

CloseCatalog ==
    /\ catalog.open /\ catalog.gen <= MaxRequests /\ catalog.runGen <= MaxRequests
    /\ IF catalog.pending
       THEN catalog' = Uncompleted(Away(catalog)) /\ Cancelled /\ sweep' = NoSweep
       ELSE catalog' = Away(catalog) /\ UNCHANGED <<sweep, late>>
    /\ UNCHANGED <<living, jumps, destination, requested, deletions>>

StartCatalogScan(c) ==
    /\ requested < MaxRequests /\ requested' = requested + 1
    /\ catalog' = [c EXCEPT !.gen = requested', !.pending = TRUE]
    /\ Cancelled
    /\ sweep' = [NoSweep EXCEPT !.gen = requested', !.at = "experiments",
                   !.value.view = c.view, !.value.scope = "target",
                   !.throughout = {r \in LoggedRuns : Found(r, living, c.view)}]
    /\ UNCHANGED <<living, jumps, destination, deletions>>

ScanCatalog == catalog.open /\ StartCatalogScan(catalog)

(* V cancels, and scans for the next lifecycle.                            *)
ChangeView ==
    /\ catalog.open
    /\ StartCatalogScan([Uncompleted(catalog) EXCEPT !.view = NextView[@]])

(* Rows of the same lifecycle outlast a scan that found none and is not    *)
(* complete.                                                               *)
Kept(v) ==
    /\ v.runs = {} /\ catalog.value.runs # {} /\ ~v.complete /\ catalog.value.view = v.view

(* Of another scan, or of one that was cancelled, nothing is accepted.     *)
AcceptCatalog(v) ==
    /\ v # NoEvent
    /\ catalog' = IF v.gen # catalog.gen THEN catalog
                  ELSE [catalog EXCEPT !.stale = Kept(v.value), !.pending = ~v.done,
                          !.value = IF Kept(v.value) THEN Partial(@) ELSE v.value]
    /\ late' = late \ {v}
    /\ sweep' = CASE v # sweep.event -> sweep
                  [] v = sweep.event /\ v.done -> NoSweep
                  [] OTHER -> [sweep EXCEPT !.event = NoEvent]
    /\ UNCHANGED <<living, jumps, destination, requested, deletions>>

-----------------------------------------------------------------------------
(* Jumping to a run of the catalog.                                        *)

JumpCatalogRun(r) ==
    /\ catalog.open /\ r \in catalog.value.runs
    /\ requested < MaxRequests /\ requested' = requested + 1
    /\ catalog' = [catalog EXCEPT !.runGen = requested', !.asked = r]
    /\ jumps' = jumps \cup {[gen |-> requested', run |-> r]}
    /\ UNCHANGED <<living, sweep, late, destination, deletions>>

(* It closes the workspace, and leaves a status when it failed.            *)
AcceptCatalogRun(j) ==
    LET expected == catalog.open /\ catalog.runGen = j.gen IN
    /\ j \in jumps /\ jumps' = jumps \ {j}
    /\ \/ UNCHANGED <<catalog, sweep, late, destination>>
       \/ /\ expected /\ destination' = j.run
          /\ IF catalog.pending
             THEN catalog' = Uncompleted(Away(catalog)) /\ Cancelled /\ sweep' = NoSweep
             ELSE catalog' = Away(catalog) /\ UNCHANGED <<sweep, late>>
    /\ UNCHANGED <<living, requested, deletions>>

-----------------------------------------------------------------------------
(* Somebody deletes or restores.  The token of a list that is being read   *)
(* is a place: what leaves the list before the place brings the next one   *)
(* from behind it to before it, and what comes in before it the reverse.   *)
Shifts(x, alive) ==
    LET was == Listing(sweep, living)
        is == Listing(sweep, alive)
        ahead == is \ sweep.behind
        left == sweep.behind \ {x} IN
    IF x \in sweep.behind \ is /\ ahead # {} THEN {left \cup {y} : y \in ahead}
    ELSE IF x \in is \ was THEN {sweep.behind} \cup {{x} \cup (left \ {y}) : y \in left}
    ELSE {sweep.behind \cap is}

(* Neither found before nor on a page that is still to be read.            *)
Skipped(x, behind) ==
    (behind \ (sweep.behind \cup {x})) \ (sweep.todo \cup sweep.value.runs)

ChangeLifecycle(x) ==
    /\ deletions < MaxDeletions /\ deletions' = deletions + 1
    /\ living' = IF x \in living THEN living \ {x} ELSE living \cup {x}
    /\ \E behind \in Shifts(x, living') :
         sweep' = [sweep EXCEPT !.behind = behind,
                     !.throughout = {r \in @ : /\ Found(r, living', sweep.value.view)
                                               /\ {r, Home[r]} \cap Skipped(x, behind) = {}}]
    /\ UNCHANGED <<catalog, late, jumps, destination, requested>>

WorkspaceNext ==
    \/ FindExperiments \/ TellExperiments \/ LeaveExperiment \/ FinishScan \/ AnswerScan
    \/ CancelCatalog \/ CloseCatalog \/ ScanCatalog \/ ChangeView
    \/ \E e \in Homes : SearchExperiment(e)
    \/ \E loaded \in LoadedRuns : OpenCatalog(loaded)
    \/ \E v \in late \cup {sweep.event} : AcceptCatalog(v)
    \/ \E r \in LoggedRuns : JumpCatalogRun(r)
    \/ \E j \in jumps : AcceptCatalogRun(j)
    \/ \E x \in Deletable : ChangeLifecycle(x)

WorkspaceSpec == WorkspaceInit /\ [][WorkspaceNext]_workspaceVars

-----------------------------------------------------------------------------
(* Properties.                                                             *)

WorkspaceTypeOK ==
    /\ living \subseteq LoggedRuns \cup Homes
    /\ catalog \in [open : BOOLEAN, gen : Gens, runGen : Gens, pending : BOOLEAN,
                    view : ViewTypes, value : Value, stale : BOOLEAN,
                    asked : LoggedRuns \cup {Nobody}]
    /\ sweep \in [gen : Gens, at : {"none", "experiments", "runs", "finished", "answered"},
                  value : Value, failed : BOOLEAN, todo : SUBSET Homes,
                  home : Homes \cup {Nobody}, token : {"first", "next", "none"},
                  behind : SUBSET (LoggedRuns \cup Homes),
                  throughout : SUBSET LoggedRuns, event : Event]
    /\ late \subseteq Event
    /\ jumps \subseteq [gen : Gens, run : LoggedRuns]
    /\ destination \in LoggedRuns \cup {Nobody} /\ requested \in 0..MaxRequests
    /\ deletions \in 0..MaxDeletions

(* A catalog called complete holds every run that was in view all through  *)
(* its scan, whatever failed, was cancelled or was kept from before; but   *)
(* for those that a deletion between two pages moved to a page that had    *)
(* been read: no scan finds these, and none can tell.                      *)
CompleteIsAll ==
    catalog.value.complete =>
        catalog.value.throughout \subseteq catalog.value.runs /\ ~catalog.stale

(* A catalog that says it is scanning hears of a scan, and only of its own.*)
ScanningIsHeard ==
    catalog.pending => sweep.at # "none" /\ sweep.gen = catalog.gen

(* A jump goes where the user last asked to, from an open workspace.       *)
JumpsAreAsked ==
    destination' # destination => catalog.open /\ destination' = catalog.asked

CatalogsAreHonest == [][CompleteIsAll' /\ ScanningIsHeard' /\ JumpsAreAsked]_workspaceVars
=============================================================================

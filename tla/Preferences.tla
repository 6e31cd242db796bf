---------------------------- MODULE Preferences ----------------------------
(***************************************************************************)
(* What a terminal remembers in the local database (internal/tui/          *)
(* preferences.go, run_pins.go, activity_settings.go over                  *)
(* internal/localstate): the view of an experiment, its activity policy,   *)
(* the visibility of a run and a pinned run.                               *)
(*                                                                         *)
(* The terminal shows a choice at once and queues a job; flushes write the *)
(* queue, one at a time.  The view and the policy share a row: the view's  *)
(* job writes both as they were when it was queued, the policy's job reads *)
(* the row and puts the policy in.  The user's choices are numbered.       *)
(***************************************************************************)
EXTENDS Naturals, FiniteSets

CONSTANTS
    Savers,        \* flush commands; a choice starts one that is idle, if any
    MaxChoices,    \* bound: choices of the user
    MaxFailures,   \* bound: writes and reads that fail
    Elsewhere,     \* fields that another process sets once
    Unloaded       \* sets of rows one of which is not yet loaded

Fields == {"view", "policy", "visibility", "pin"}

ASSUME PreferencesAssumption ==
    /\ MaxChoices \in Nat /\ MaxFailures \in Nat
    /\ Elsewhere \subseteq {"visibility", "pin"}    \* rows of their own
    /\ {"loader", "exit"} \cap Savers = {}
    /\ Unloaded # {} /\ Unloaded \subseteq SUBSET {"view", "visibility", "pin"}

VARIABLES
    shown,      \* what the terminal shows of each field
    choice,     \* history: the user's last choice, 0 for none
    disk,
    jobs,       \* stateWriter.jobs
    flush,      \* the flushes under way
    load,       \* reads under way, and what was read
    failures,
    program     \* "running", "leaving", or how it ended

preferenceVars == <<shown, choice, disk, jobs, flush, load, failures, program>>

(* A row of the database, its first loads and the field it is named for.   *)
Row == [f \in Fields |-> IF f \in {"view", "policy"} THEN {"view", "policy"} ELSE {f}]
Loads == {"view", "visibility", "pin"}
RowOf(f) == CHOOSE g \in Loads : f \in Row[g]

Flushers == Savers \cup {"loader", "exit"}
Other == MaxChoices + 1                  \* another process's choice
Values == 0..Other
Job == UNION {[d -> Values] : d \in {{}, {"policy"}} \cup {Row[f] : f \in Fields}}
NoJob == [f \in {} |-> 0]                \* a job maps fields to their values

Flush == [state : {"idle", "waiting", "writing"}, batch : [Fields -> Job],
          failed : BOOLEAN]
NoFlush == [state |-> "idle", batch |-> [f \in Fields |-> NoJob], failed |-> FALSE]

Load == [state : {"idle", "flushing", "asked", "read"},
         known : BOOLEAN,                \* requested; of pins, accepted
         stale : BOOLEAN,                \* chosen since: another revision, or touched
         value : Job]

NoLoads(unloaded) ==
    [f \in Loads |-> [state |-> "idle", known |-> f \notin unloaded, stale |-> FALSE,
                      value |-> NoJob]]

PreferencesInit ==
    /\ shown = [f \in Fields |-> 0] /\ choice = shown /\ disk = shown
    /\ jobs = [f \in Fields |-> NoJob]
    /\ flush = [w \in Flushers |-> NoFlush]
    /\ \E unloaded \in Unloaded : load = NoLoads(unloaded)
    /\ failures = 0
    /\ program = "running"

-----------------------------------------------------------------------------
(* stateWriter.                                                            *)

(* add: a later job of the same key takes the place of an earlier one.     *)
JobOf(f) == [g \in IF f = "policy" THEN {f} ELSE Row[f] |-> shown'[g]]

Start(w) == flush' = [flush EXCEPT ![w].state = "waiting"]

(* Only one flush holds the gate.                                          *)
GateIsFree == \A w \in Flushers : flush[w].state # "writing"

TakeJobs(w, failed) ==
    /\ flush' = [flush EXCEPT ![w] = [state |-> "writing", batch |-> jobs, failed |-> failed]]
    /\ jobs' = [f \in Fields |-> NoJob]

Enter(w) ==
    /\ flush[w].state = "waiting" /\ GateIsFree
    /\ TakeJobs(w, FALSE)
    /\ UNCHANGED <<shown, choice, disk, load, failures, program>>

Batch(w) == {f \in Fields : flush[w].batch[f] # NoJob}

(* Jobs of a batch come in the order of a Go map: any.                     *)
Write(w, f) ==
    /\ flush[w].state = "writing" /\ f \in Batch(w)
    /\ disk' = [g \in Fields |-> IF g \in DOMAIN flush[w].batch[f]
                                 THEN flush[w].batch[f][g] ELSE disk[g]]
    /\ flush' = [flush EXCEPT ![w].batch[f] = NoJob]
    /\ UNCHANGED <<shown, choice, jobs, load, failures, program>>

(* Mutant: what failed takes the place of what was queued since. *)
RequeuedFirst(f, job) == [jobs EXCEPT ![f] = job]

Requeued(f, job) == [jobs EXCEPT ![f] = IF @ = NoJob THEN job ELSE @]

WriteFails(w, f) ==
    /\ flush[w].state = "writing" /\ f \in Batch(w) /\ failures < MaxFailures
    /\ jobs' = Requeued(f, flush[w].batch[f])
    /\ flush' = [flush EXCEPT ![w].batch[f] = NoJob, ![w].failed = TRUE]
    /\ failures' = failures + 1
    /\ UNCHANGED <<shown, choice, disk, load, program>>

(* How a flush ends is an error, or an empty queue.                        *)
Ended(w, ok) ==
    IF w = "exit" THEN program' = (IF ok THEN "saved" ELSE "unsaved") /\ UNCHANGED load
    ELSE /\ UNCHANGED program
         /\ load' = IF w # "loader" \/ program # "running" THEN load
                    ELSE [load EXCEPT !["pin"].state = IF ok THEN "asked" ELSE "idle"]

NextRound(w) ==
    /\ flush[w].state = "writing" /\ Batch(w) = {}
    /\ IF ~flush[w].failed /\ \E f \in Fields : jobs[f] # NoJob
       THEN TakeJobs(w, FALSE) /\ UNCHANGED <<load, program>>
       ELSE /\ flush' = [flush EXCEPT ![w] = NoFlush]
            /\ Ended(w, ~flush[w].failed) /\ UNCHANGED jobs
    /\ UNCHANGED <<shown, choice, disk, failures>>

(* Its context ends while it waits for the gate.                           *)
GiveUp(w) ==
    /\ flush[w].state = "waiting" /\ ~GateIsFree
    /\ flush' = [flush EXCEPT ![w] = NoFlush]
    /\ Ended(w, FALSE)
    /\ UNCHANGED <<shown, choice, disk, jobs, failures>>

-----------------------------------------------------------------------------
(* Choices.  The view is asked for before its user can change it, and pins *)
(* can be toggled once they are there (toggleRunPin).                      *)

MayChoose(f) ==
    CASE f = "view" -> load[f].known \/ failures > 0
      [] f = "pin" -> load[f].known
      [] OTHER -> TRUE

Choose(f, w) ==
    /\ program = "running" /\ MayChoose(f)
    /\ \E n \in 1..MaxChoices :
         /\ \A g \in Fields : choice[g] < n
         /\ n = 1 \/ \E g \in Fields : choice[g] = n - 1
         /\ choice' = [choice EXCEPT ![f] = n] /\ shown' = [shown EXCEPT ![f] = n]
    /\ jobs' = [jobs EXCEPT ![f] = JobOf(f)]
    /\ IF flush[w].state = "idle" THEN Start(w) ELSE UNCHANGED flush
    /\ load' = [load EXCEPT ![RowOf(f)].stale = TRUE]
    /\ UNCHANGED <<disk, failures, program>>

OtherProcess(f) ==
    /\ f \in Elsewhere /\ disk[f] # Other /\ program = "running"
    /\ disk' = [disk EXCEPT ![f] = Other]
    /\ UNCHANGED <<shown, choice, jobs, flush, load, failures, program>>

-----------------------------------------------------------------------------
(* Loads.  The view and the visibility are asked for once, or again after  *)
(* an error; a load of pins flushes first.  The view and the pins compare  *)
(* revisions; of the visibility, what was ever touched is kept.            *)

StartLoad(f, state) ==
    [load EXCEPT ![f] = [load[f] EXCEPT !.state = state, !.known = @ \/ f # "pin",
                                        !.stale = @ /\ f = "visibility"]]

LoadRow(f) ==
    /\ program = "running" /\ f \in {"view", "visibility"} /\ ~load[f].known
    /\ load' = StartLoad(f, "asked")
    /\ UNCHANGED <<shown, choice, disk, jobs, flush, failures, program>>

LoadRunPins ==
    /\ program = "running" /\ load["pin"].state = "idle"
    /\ load' = StartLoad("pin", "flushing")
    /\ Start("loader")
    /\ UNCHANGED <<shown, choice, disk, jobs, failures, program>>

ReadRow(f) ==
    /\ load[f].state = "asked"
    /\ load' = [load EXCEPT ![f].state = "read", ![f].value = [g \in Row[f] |-> disk[g]]]
    /\ UNCHANGED <<shown, choice, disk, jobs, flush, failures, program>>

ReadFails(f) ==
    /\ load[f].state = "asked" /\ failures < MaxFailures
    /\ load' = [load EXCEPT ![f].state = "idle", ![f].known = @ /\ f = "pin"]
    /\ failures' = failures + 1
    /\ UNCHANGED <<shown, choice, disk, jobs, flush, program>>

(* acceptView, acceptVisibility, updateRunPins: a stale answer is dropped, *)
(* and pins are asked for again.                                           *)
Accept(f) ==
    /\ load[f].state = "read" /\ program = "running"
    /\ LET done == [load[f] EXCEPT !.state = "idle", !.known = TRUE, !.value = NoJob]
       IN IF ~load[f].stale
          THEN /\ shown' = [g \in Fields |-> IF g \in Row[f] THEN load[f].value[g] ELSE shown[g]]
               /\ load' = [load EXCEPT ![f] = done]
               /\ UNCHANGED flush
          ELSE /\ IF f = "pin"
                  THEN /\ load' = [load EXCEPT ![f] = [@ EXCEPT !.state = "flushing",
                                              !.stale = FALSE, !.value = NoJob]]
                       /\ Start("loader")
                  ELSE load' = [load EXCEPT ![f] = done] /\ UNCHANGED flush
               /\ UNCHANGED shown
    /\ UNCHANGED <<choice, disk, jobs, failures, program>>

-----------------------------------------------------------------------------
(* Run: the last flush comes after the event loop; nobody takes the answer *)
(* of a read any more.                                                     *)

Quit ==
    /\ program = "running"
    /\ program' = "leaving"
    /\ Start("exit")
    /\ load' = NoLoads(Loads)
    /\ UNCHANGED <<shown, choice, disk, jobs, failures>>

Alive == program \in {"running", "leaving"}

PreferencesNext ==
    /\ Alive
    /\ \/ Quit \/ LoadRunPins
       \/ \E w \in Flushers :
            \/ Enter(w) \/ NextRound(w) \/ GiveUp(w)
            \/ \E f \in Fields : Write(w, f) \/ WriteFails(w, f)
       \/ \E f \in Loads : LoadRow(f) \/ ReadRow(f) \/ ReadFails(f) \/ Accept(f)
       \/ \E f \in Fields : OtherProcess(f) \/ \E w \in Savers : Choose(f, w)

PreferencesSpec == PreferencesInit /\ [][PreferencesNext]_preferenceVars

-----------------------------------------------------------------------------
(* Properties.                                                             *)

PreferencesTypeOK ==
    /\ shown \in [Fields -> Values] /\ choice \in [Fields -> 0..MaxChoices]
    /\ disk \in [Fields -> Values] /\ jobs \in [Fields -> Job]
    /\ flush \in [Flushers -> Flush] /\ load \in [Loads -> Load]
    /\ failures \in 0..MaxFailures
    /\ program \in {"running", "leaving", "saved", "unsaved"}

(* A program that ends without an error has saved what its user chose      *)
(* last, unless another process chose since: no flush, failure or retry    *)
(* leaves an older choice behind.  Not so the policy, which an older job   *)
(* of the view may undo, since jobs of a batch run in any order.           *)
ExitSavesChoices ==
    program = "saved" =>
        \A f \in Fields \ {"policy"} : choice[f] # 0 => disk[f] \in {choice[f], Other}

(* A value that was read before a choice was made, or before it was        *)
(* written, never takes its place on the screen.  Not so the view, whose   *)
(* load can be repeated after an error without writing the queue first.    *)
ChoicesStand ==
    \A f \in {"visibility", "pin"} : choice[f] # 0 => shown[f] \in {choice[f], Other}

(* What the user chose is on the screen, and in the database when the      *)
(* program has ended well.                                                 *)
ChoicesAreKept == ExitSavesChoices /\ ChoicesStand
=============================================================================

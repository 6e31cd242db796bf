----------------------------- MODULE RunDetails -----------------------------
(***************************************************************************)
(* The details of a run that a terminal keeps beside the records of its    *)
(* activity (internal/tui/activity.go, run_pins.go): looked up for the     *)
(* selected run, refreshed with the pins, or remembered from pages of      *)
(* other lists, while snapshots bring what scans have observed.  All are   *)
(* dated, and answers come in any order.                                   *)
(*                                                                         *)
(* A run finishes once.  A request finds it as it is at some time after    *)
(* the request started.                                                    *)
(***************************************************************************)
EXTENDS Naturals, FiniteSets

CONSTANTS
    DetailedRuns,
    MaxTime        \* bound: the clock

ASSUME RunDetailsAssumption == MaxTime \in Nat \ {0}

VARIABLES
    clock,
    finishedAt,    \* when a run finished on the server, 0 for not yet
    observed,      \* the records of the snapshot shown
    details,       \* Runs, MetadataAt and the pins' FetchedAt
    lookup,        \* the requests under way
    pinned

detailVars == <<clock, finishedAt, observed, details, lookup, pinned>>

Times == 0..MaxTime

(* Of one run: loadActivityRun.  Of all pins: refreshPinnedMetadata.  Of   *)
(* whatever the server returns: a page.                                    *)
LookupKinds == {"run", "pins", "page"}

Observation == [at : Times, finished : BOOLEAN]                \* at 0: no record
Detail == [at : Times, known : BOOLEAN, finished : BOOLEAN, fetched : Times,
           paged : BOOLEAN]                                    \* history: dated by a page
Lookup == [stage : {"none", "asked", "done"}, runs : SUBSET DetailedRuns,
           started : Times, finished : SUBSET DetailedRuns]

NoLookup == [stage |-> "none", runs |-> {}, started |-> 0, finished |-> {}]

DetailsInit ==
    /\ clock = 1
    /\ finishedAt = [r \in DetailedRuns |-> 0]
    /\ observed = [r \in DetailedRuns |-> [at |-> 0, finished |-> FALSE]]
    /\ details = [r \in DetailedRuns |-> [at |-> 0, known |-> FALSE, finished |-> FALSE,
                                          fetched |-> 0, paged |-> FALSE]]
    /\ lookup = [k \in LookupKinds |-> NoLookup]
    /\ pinned = {}

-----------------------------------------------------------------------------
(* The server and its clock.                                               *)

PassTime ==
    /\ clock < MaxTime /\ clock' = clock + 1
    /\ UNCHANGED <<finishedAt, observed, details, lookup, pinned>>

FinishRun(r) ==
    /\ finishedAt[r] = 0 /\ finishedAt' = [finishedAt EXCEPT ![r] = clock]
    /\ UNCHANGED <<clock, observed, details, lookup, pinned>>

FinishedBefore(r, t) == finishedAt[r] # 0 /\ finishedAt[r] < t

MayFind(r, t) == {b \in BOOLEAN : (FinishedBefore(r, t) => b) /\ (b => finishedAt[r] # 0)}

-----------------------------------------------------------------------------
(* acceptActivitySnapshot: records are replaced by later ones.             *)

(* mergeActivityMetadata, and MetadataAt, which also counts runs without   *)
(* details.                                                                *)
Merged(detail, record) ==
    IF record.at = 0 \/ record.at < detail.at THEN detail
    ELSE [detail EXCEPT !.at = record.at, !.finished = detail.known /\ record.finished,
                        !.paged = FALSE]

AcceptRecord(r, t) ==
    /\ t >= observed[r].at
    /\ \E found \in MayFind(r, t) :
         observed' = [observed EXCEPT ![r] = [at |-> t, finished |-> found]]
    /\ details' = [details EXCEPT ![r] = Merged(@, observed'[r])]
    /\ UNCHANGED <<clock, finishedAt, lookup, pinned>>

-----------------------------------------------------------------------------
(* Lookups.  One for a run supersedes the one before it, as a page does;   *)
(* pins are refreshed one at a time.                                       *)

LookUp(k, runs) ==
    /\ runs # {}
    /\ k = "run" => Cardinality(runs) = 1 /\ lookup[k].runs # runs
    /\ k = "pins" => runs = pinned /\ lookup[k].stage = "none"
    /\ lookup' = [lookup EXCEPT ![k] =
                    [stage |-> "asked", runs |-> runs, started |-> clock, finished |-> {}]]
    /\ UNCHANGED <<clock, finishedAt, observed, details, pinned>>

LookupAnswers(k) ==
    /\ lookup[k].stage = "asked"
    /\ \E found \in SUBSET lookup[k].runs :
         /\ \A r \in lookup[k].runs : (r \in found) \in MayFind(r, lookup[k].started)
         /\ lookup' = [lookup EXCEPT ![k].stage = "done", ![k].finished = found]
    /\ UNCHANGED <<clock, finishedAt, observed, details, pinned>>

(* Mutant: an answer is dated when it arrives. *)
DatedOnArrival(k) == clock

(* A page is dated when it arrives, an answer when it was asked for.       *)
ReadAt(k) == IF k = "page" THEN clock ELSE lookup[k].started

(* What was observed later than that is put over an answer.                *)
Detailed(k, r) ==
    LET fresh == [known |-> TRUE, finished |-> r \in lookup[k].finished, at |-> ReadAt(k),
                  fetched |-> ReadAt(k), paged |-> k = "page"] IN
    IF k # "page" /\ observed[r].at > fresh.at THEN Merged(fresh, observed[r]) ELSE fresh

(* An answer is dropped if a later one was taken.  With pins, those that   *)
(* were unpinned meanwhile are.                                            *)
Applies(k, r) ==
    /\ k # "page" => details[r].fetched <= lookup[k].started
    /\ k = "pins" => r \in pinned

AcceptLookup(k) ==
    /\ lookup[k].stage = "done"
    /\ details' = [r \in DetailedRuns |->
                     IF r \in lookup[k].runs /\ Applies(k, r)
                     THEN Detailed(k, r) ELSE details[r]]
    /\ lookup' = [lookup EXCEPT ![k] = NoLookup]
    /\ UNCHANGED <<clock, finishedAt, observed, pinned>>

(* A request fails, or nobody waits for it any more (stopActivity, another *)
(* list or target).                                                        *)
DropLookup(k) ==
    /\ lookup[k].stage # "none"
    /\ lookup' = [lookup EXCEPT ![k] = NoLookup]
    /\ UNCHANGED <<clock, finishedAt, observed, details, pinned>>

(* toggleRunPin: the lookup of a run that is unpinned is dropped.          *)
PinRun(r) ==
    /\ pinned' = IF r \in pinned THEN pinned \ {r} ELSE pinned \cup {r}
    /\ IF r \in pinned
       THEN /\ details' = [details EXCEPT ![r].fetched = 0]
            /\ lookup' = [lookup EXCEPT !["run"] = IF @.runs = {r} THEN NoLookup ELSE @]
       ELSE UNCHANGED <<details, lookup>>
    /\ UNCHANGED <<clock, finishedAt, observed>>

DetailsNext ==
    \/ PassTime
    \/ \E r \in DetailedRuns :
         FinishRun(r) \/ PinRun(r) \/ \E t \in 1..clock : AcceptRecord(r, t)
    \/ \E k \in LookupKinds :
         \/ LookupAnswers(k) \/ AcceptLookup(k) \/ DropLookup(k)
         \/ \E runs \in SUBSET DetailedRuns : LookUp(k, runs)

DetailsSpec == DetailsInit /\ [][DetailsNext]_detailVars

-----------------------------------------------------------------------------
(* Properties.                                                             *)

DetailsTypeOK ==
    /\ clock \in 1..MaxTime /\ finishedAt \in [DetailedRuns -> Times]
    /\ observed \in [DetailedRuns -> Observation] /\ details \in [DetailedRuns -> Detail]
    /\ lookup \in [LookupKinds -> Lookup] /\ pinned \subseteq DetailedRuns

(* Details of a run are as new as the time they are dated: no order of     *)
(* lookups, refreshed pins and snapshots keeps an older status that is     *)
(* taken for a newer one, which no later snapshot would repair.  Only a    *)
(* page, dated when it comes, may be older.                                *)
DetailsAreDated ==
    \A r \in DetailedRuns :
        details[r].known /\ ~details[r].paged /\ FinishedBefore(r, details[r].at)
            => details[r].finished
=============================================================================

---------------------------- MODULE ChartHistories ----------------------------
(***************************************************************************)
(* Metric histories behind the charts of one run (internal/tui/chart.go,   *)
(* chart_transform.go, chart_profile.go and the keys of inspection.go):    *)
(* which ones are wanted follows from what is on screen; they are asked    *)
(* for, cancelled, refreshed, transformed and evicted from a small cache   *)
(* while answers come in any order.                                        *)
(*                                                                         *)
(* Generations and tickets are counted per entry of the cache, and begin   *)
(* again when an evicted entry is made again: an answer that the entry     *)
(* before it gave up can be taken for its own.                             *)
(***************************************************************************)
EXTENDS Naturals, FiniteSets

CONSTANTS
    Charts,        \* metrics of the run, or of the runs that are compared
    MaxCache,      \* histories kept besides those on screen
    MaxAsked,      \* bound: requests and transforms of an entry, and its evictions
    MaxRefreshes,  \* bound: refreshes of the run
    MaxChanges     \* bound: other charts, windows, targets and profiles

ASSUME ChartAssumption == MaxCache \in Nat /\ MaxAsked \in Nat /\ MaxRefreshes \in Nat
       /\ MaxChanges \in Nat

VARIABLES
    page,          \* table preview, curve, overlay or dashboard: the charts on it
    cover,         \* what lies over it
    profile,       \* as logged, or smoothed and normalized
    entry,         \* the cache
    requests,      \* MetricHistory under way
    transforms,    \* transforms under way
    refresh,       \* the run itself is asked for again
    refreshes,     \* refreshes of the run that were accepted
    lost,          \* history: charts of the page that are not asked for since they came
                   \* on it, or since they were given up under a cover
    changes        \* other charts, windows, targets and profiles

chartVars == <<page, cover, profile, entry, requests, transforms, refresh, refreshes, lost,
               changes>>

(* Dialogs of the inspection and of the workspace ask for what is on       *)
(* screen when they close, but for the sort picker under the mouse; help,  *)
(* pickers, palettes and the window of one value do not ("help").          *)
Covers == {"none", "inspection", "workspace", "help", "other target"}
CurveProfiles == {"raw", "smooth"}
Counts == 0..MaxAsked
Key == [revision : Counts, profile : CurveProfiles]
NoKey == [revision |-> 0, profile |-> "raw"]

Entry == [kept : BOOLEAN, gen : Counts, pending : BOOLEAN, needsRefresh : BOOLEAN,
          err : BOOLEAN, updated : BOOLEAN, revision : Counts, data : 0..MaxRefreshes,
          ticket : Counts, busy : BOOLEAN, key : Key, derived : Key, from : 0..MaxRefreshes,
          era : Counts,             \* history: how often it was evicted
          foreign : SUBSET {"history", "curve"}, \* history: what was asked for before that
          cut : BOOLEAN]            \* history: it was being loaded again when it was given up
Empty == [kept |-> FALSE, gen |-> 0, pending |-> FALSE, needsRefresh |-> FALSE,
          err |-> FALSE, updated |-> FALSE, revision |-> 0, data |-> 0,
          ticket |-> 0, busy |-> FALSE, key |-> NoKey, derived |-> NoKey, from |-> 0,
          era |-> 0, foreign |-> {}, cut |-> FALSE]

ChartsInit ==
    /\ page = {} /\ cover = "none" /\ profile = "raw"
    /\ entry = [c \in Charts |-> Empty]
    /\ requests = {} /\ transforms = {}
    /\ refresh = FALSE /\ refreshes = 0 /\ lost = {} /\ changes = 0

-----------------------------------------------------------------------------
(* ensureHistories on the cache e, for what lies under a cover c.          *)

DesiredHistories(p, c) == IF c = "none" THEN p ELSE {}

(* Loaded, being loaded or failed; and the curve, smoothed or being so.    *)
Served(e, p) ==
    LET key == [revision |-> e.revision, profile |-> p] IN
    /\ e.kept /\ (e.pending \/ e.err \/ (e.updated /\ ~e.needsRefresh))
    /\ \/ p = "raw" \/ ~e.updated \/ (e.busy /\ e.key = key) \/ e.derived = key
       \/ "curve" \in e.foreign

(* What nobody looks at any more is cancelled; cancelUnusedHistories.      *)
Unwanted(e, desired) ==
    [c \in Charts |-> IF c \in desired \/ ~e[c].pending THEN e[c]
                      ELSE [e[c] EXCEPT !.gen = @ + 1, !.pending = FALSE, !.cut = e[c].updated]]

Asked(e, force) ==
    IF e.pending THEN [e EXCEPT !.needsRefresh = @ \/ force]
    ELSE IF ~force /\ ~e.needsRefresh /\ (e.updated \/ e.err) THEN e
    ELSE [e EXCEPT !.kept = TRUE, !.gen = @ + 1, !.pending = TRUE, !.needsRefresh = FALSE,
                   !.err = FALSE, !.cut = FALSE]

(* evictHistories: those nobody looks at or waits for, as few as bring the *)
(* cache to its size, more when they are large.                            *)
Evictions(e, desired) ==
    LET kept == {c \in Charts : e[c].kept}
        inactive == {c \in kept \ desired : ~e[c].pending /\ ~e[c].busy} IN
    {gone \in SUBSET inactive : Cardinality(kept \ gone) <= MaxCache \/ gone = inactive}

Evicted(e, gone) ==
    [c \in Charts |-> IF c \in gone THEN [Empty EXCEPT !.era = e[c].era + 1] ELSE e[c]]

(* History: what an answer brings, to the entry that asked for it or not.  *)
Brought(e, part, era) == [e EXCEPT !.foreign = IF era = e.era THEN @ \ {part} ELSE @ \cup {part}]

(* ensureChartTransforms.                                                  *)

(* Mutant: the transform of an older history goes on. *)
TransformedOnce(e, wanted, p) ==
    LET key == [revision |-> e.revision, profile |-> p]
        needed == wanted /\ p # "raw" /\ e.updated
    IN IF ~needed \/ e.busy \/ e.derived = key THEN e
       ELSE [e EXCEPT !.busy = TRUE, !.key = key, !.ticket = @ + 1]

Transformed(e, wanted, p) ==
    LET key == [revision |-> e.revision, profile |-> p]
        needed == wanted /\ p # "raw" /\ e.updated
        stopped == IF e.busy /\ (~needed \/ e.key # key)
                   THEN [e EXCEPT !.ticket = @ + 1, !.busy = FALSE] ELSE e
    IN IF ~needed \/ stopped.busy \/ e.derived = key THEN stopped
       ELSE [stopped EXCEPT !.busy = TRUE, !.key = key, !.ticket = @ + 1]

EnsureHistories(e, p, c, prof, force, open) ==
    LET desired == DesiredHistories(p, c)
        unused == Unwanted(e, desired)
        asked == [x \in Charts |-> IF x \in desired THEN Asked(unused[x], force) ELSE unused[x]]
    IN \E gone \in Evictions(asked, desired) :
         LET kept == Evicted(asked, gone)
             done == [x \in Charts |->
                        IF kept[x].kept THEN Transformed(kept[x], x \in desired, prof)
                        ELSE kept[x]] IN
         /\ entry' = done
         /\ requests' = open \cup
              {[chart |-> x, gen |-> done[x].gen, data |-> refreshes', era |-> done[x].era] :
                 x \in {y \in desired : done[y].gen # unused[y].gen}}
         /\ transforms' = transforms \cup
              {[chart |-> x, ticket |-> done[x].ticket, key |-> done[x].key,
                data |-> done[x].data, era |-> done[x].era] :
                 x \in {y \in desired : done[y].busy /\ done[y].ticket # unused[y].ticket}}
         /\ lost' = IF c = "none" THEN {} ELSE lost \cup {x \in p : ~Served(done[x], prof)}
         /\ page' = p /\ cover' = c /\ profile' = prof

Changing == changes < MaxChanges /\ changes' = changes + 1

Bounded ==
    \A c \in Charts : /\ entry[c].gen < MaxAsked /\ entry[c].ticket + 1 < MaxAsked
                      /\ entry[c].era < MaxAsked

-----------------------------------------------------------------------------
(* The user.                                                               *)

(* Moving, tabs, dashboard, curve, overlay; and resizing the window, which *)
(* it also sees under a cover.                                             *)
ShowCharts(p) ==
    /\ Bounded /\ Changing /\ cover \in {"none", "inspection", "help"}
    /\ cover = "none" => p # page
    /\ UNCHANGED <<refresh, refreshes>>
    /\ EnsureHistories(entry, p, cover, profile, FALSE, requests)

(* Zooming, moving the borders of panes, and entering or leaving a         *)
(* comparison ask for nothing, and cancel nothing.                         *)
Rearrange(p) ==
    /\ page' = p /\ cover' = "none" /\ lost' = lost \cup {x \in p : ~Served(entry[x], profile)}
    /\ UNCHANGED <<profile, entry, requests, transforms, refresh, refreshes>>

RearrangeCharts(p) == Changing /\ p # page /\ cover = "none" /\ Rearrange(p)

(* performChartAction, or changeChartOption under its dialog.              *)
ChangeProfile(p) ==
    /\ Bounded /\ Changing /\ cover \in {"none", "inspection"} /\ p # profile
    /\ UNCHANGED <<refresh, refreshes>>
    /\ EnsureHistories(entry, page, cover, p, FALSE, requests)

OpenCover(c) ==
    /\ Bounded /\ Changing /\ cover = "none" /\ cover' = c
    /\ entry' = IF c = "workspace" THEN Unwanted(entry, {}) ELSE entry
    /\ lost' = IF c = "workspace" THEN {x \in page : ~Served(entry'[x], profile)} ELSE lost
    /\ UNCHANGED <<page, profile, requests, transforms, refresh, refreshes>>

CloseCover ==
    /\ Bounded /\ cover \in {"inspection", "workspace"}
    /\ UNCHANGED <<refresh, refreshes, changes>>
    /\ \E p \in IF cover = "inspection" THEN SUBSET Charts ELSE {page} :
         EnsureHistories(entry, p, "none", profile, FALSE, requests)

(* The help; and with the mouse a sort order of the inspection.            *)
UncoverCharts(p) ==
    /\ cover = "inspection" \/ (cover = "help" /\ p = page)
    /\ UNCHANGED changes /\ Rearrange(p)

(* Another target: stopInspection cancels everything; back at this one,    *)
(* charts are asked for with the runs.                                     *)
LeaveTarget ==
    /\ Bounded /\ Changing /\ cover = "none" /\ cover' = "other target"
    /\ entry' = [c \in Charts |-> IF ~entry[c].kept THEN entry[c] ELSE
                   [entry[c] EXCEPT !.gen = @ + 1, !.pending = FALSE,
                                    !.cut = @ \/ (entry[c].pending /\ entry[c].updated),
                                    !.ticket = @ + 1, !.busy = FALSE]]
    /\ refresh' = FALSE
    /\ UNCHANGED <<page, profile, requests, transforms, refreshes, lost>>

ReturnToTarget ==
    /\ Bounded /\ cover = "other target"
    /\ UNCHANGED <<refresh, refreshes, changes>>
    /\ EnsureHistories(entry, page, "none", profile, FALSE, requests)

(* By hand or by the timer, which waits while something lies over it.      *)
RefreshInspection ==
    /\ cover = "none" /\ page # {} /\ ~refresh /\ refresh' = TRUE
    /\ UNCHANGED <<page, cover, profile, entry, requests, transforms, refreshes, lost, changes>>

-----------------------------------------------------------------------------
(* Answers.                                                                *)

AcceptInspectionRuns ==
    /\ Bounded /\ refresh /\ refresh' = FALSE /\ refreshes < MaxRefreshes
    /\ refreshes' = refreshes + 1 /\ UNCHANGED changes
    /\ EnsureHistories([c \in Charts |-> [entry[c] EXCEPT !.needsRefresh = entry[c].kept]],
                       page, cover, profile, TRUE, requests)

(* It failed, or another run has been selected.                            *)
RefuseInspectionRuns ==
    /\ refresh /\ refresh' = FALSE
    /\ UNCHANGED <<page, cover, profile, entry, requests, transforms, refreshes, lost, changes>>

Expects(r) ==
    /\ entry[r.chart].kept /\ entry[r.chart].gen = r.gen /\ entry[r.chart].pending
    /\ cover # "other target"

AcceptMetric(r) ==
    /\ Bounded /\ Expects(r) /\ entry[r.chart].revision < MaxAsked
    /\ UNCHANGED <<refresh, refreshes, changes>>
    /\ LET loaded == [Brought(entry[r.chart], "history", r.era) EXCEPT
                         !.pending = FALSE, !.err = FALSE, !.updated = TRUE, !.data = r.data,
                         !.revision = @ + 1] IN
       EnsureHistories([entry EXCEPT ![r.chart] = loaded], page, cover, profile, FALSE,
                       requests \ {r})

(* What it failed to read is not asked for again by itself.                *)
AcceptMetricError(r) ==
    /\ Expects(r)
    /\ entry' = [entry EXCEPT ![r.chart].pending = FALSE, ![r.chart].err = TRUE]
    /\ requests' = requests \ {r}
    /\ UNCHANGED <<page, cover, profile, transforms, refresh, refreshes, lost, changes>>

(* Only the end of the program stops one that is still expected.           *)
AcceptChartTransform(t) ==
    LET e == entry[t.chart]
        done == [Brought(e, "curve", t.era) EXCEPT !.busy = FALSE, !.derived = t.key,
                                                   !.from = t.data]
        ended == [entry EXCEPT ![t.chart] = done] IN
    /\ Bounded /\ e.kept /\ e.busy /\ e.ticket = t.ticket /\ cover # "other target"
    /\ \E gone \in Evictions(ended, DesiredHistories(page, cover)) :
         /\ entry' = Evicted(ended, gone)
         /\ lost' = lost \cup {x \in page : cover # "none" /\ ~Served(entry'[x], profile)}
    /\ transforms' = transforms \ {t}
    /\ UNCHANGED <<page, cover, profile, requests, refresh, refreshes, changes>>

ChartsNext ==
    \/ \E p \in SUBSET Charts : ShowCharts(p) \/ RearrangeCharts(p) \/ UncoverCharts(p)
    \/ \E p \in CurveProfiles : ChangeProfile(p)
    \/ \E c \in {"inspection", "workspace", "help"} : OpenCover(c)
    \/ CloseCover \/ LeaveTarget \/ ReturnToTarget
    \/ RefreshInspection \/ AcceptInspectionRuns \/ RefuseInspectionRuns
    \/ \E r \in requests : AcceptMetric(r) \/ AcceptMetricError(r)
    \/ \E t \in transforms : AcceptChartTransform(t)

ChartsSpec == ChartsInit /\ [][ChartsNext]_chartVars

-----------------------------------------------------------------------------
(* Properties.                                                             *)

ChartsTypeOK ==
    /\ page \subseteq Charts /\ cover \in Covers /\ profile \in CurveProfiles
    /\ entry \in [Charts -> Entry]
    /\ refresh \in BOOLEAN /\ refreshes \in 0..MaxRefreshes /\ lost \subseteq Charts

(* A chart on screen that was asked for since it came there is loaded,     *)
(* being loaded, or failed: nothing waits for an answer that was dropped.  *)
(* A page that was only rearranged can show charts that nothing asks for,  *)
(* until the next answer, refresh or key that does; and so can one whose   *)
(* charts were given up under a cover that closed without asking.          *)
ShownIsServed ==
    \A c \in DesiredHistories(page, cover) \ lost :
        /\ Served(entry[c], profile)
        /\ entry[c].pending =>
             \E r \in requests :
               r.chart = c /\ r.era = entry[c].era /\ r.gen = entry[c].gen

(* Once a refresh of the run is accepted, what its charts show, and is not *)
(* being asked for, was asked for after it; unless they were left while it *)
(* was on its way (see FinalRefreshComes), or an answer to the entry of    *)
(* the cache before theirs was taken for their own.                        *)
RefreshIsSeen ==
    \A c \in DesiredHistories(page, cover) \ lost :
        \/ entry[c].pending \/ entry[c].err \/ "history" \in entry[c].foreign \/ entry[c].cut
        \/ entry[c].data = refreshes

(* A smoothed curve is drawn from the history under it, but for one that   *)
(* was smoothed for the entry before.                                      *)
DerivedIsOfItsHistory ==
    \A c \in Charts :
        LET e == entry[c] IN
        /\ e.kept /\ "curve" \notin e.foreign
        /\ e.derived = [revision |-> e.revision, profile |-> "smooth"]
        => e.from = e.data

ChartsAreServed == ShownIsServed /\ RefreshIsSeen /\ DerivedIsOfItsHistory

(* "Completed runs receive one final refresh" (README.md:531): what was    *)
(* asked for when the run was found finished comes to its charts.  To look *)
(* away for a moment cancels it, and nothing asks again (chart.go:156).    *)
FinalRefreshComes ==
    \A c \in DesiredHistories(page, cover) \ lost :
        \/ entry[c].pending \/ entry[c].err \/ "history" \in entry[c].foreign
        \/ entry[c].data = refreshes
=============================================================================

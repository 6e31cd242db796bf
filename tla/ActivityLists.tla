---------------------------- MODULE ActivityLists ----------------------------
(***************************************************************************)
(* The virtual lists over a source's activity (internal/tui/activity.go):  *)
(* Running keeps the selected run after it has ended, Unread stands for    *)
(* the lists that follow their predicate.  Snapshots come in the           *)
(* background; the user moves, searches, hides and refreshes.              *)
(***************************************************************************)
EXTENDS Naturals, Sequences, FiniteSets, Rows

Sequence == INSTANCE SequencesExt

CONSTANTS
    RunOrder,      \* the runs, in the order of the lists
    NoRun,
    Searches       \* the sets of runs that a search may find or a filter show

ListRuns == {RunOrder[i] : i \in DOMAIN RunOrder}

ASSUME ActivityListsAssumption ==
    /\ RunOrder \in Seq(ListRuns) /\ NoRun \notin ListRuns
    /\ Searches \subseteq SUBSET ListRuns

VARIABLES
    records,       \* the snapshot: status of each run, and the unread ones
    hidden,        \* runs that the terminal's visibility excludes
    tui            \* activityState: Views, Scope, RetainedRun, Inspect, the
                   \* scope of a manual refresh; and the focus

listVars == <<records, hidden, tui>>

ListScopes == {"running", "unread"}
RunStatus == {"none", "running", "ended", "deleted"}

ListsInit ==
    /\ records = [status |-> [r \in ListRuns |-> "none"], unread |-> {}]
    /\ hidden = {}
    /\ tui = [lists |-> [s \in ListScopes |-> [rows |-> <<>>, selected |-> NoRun,
                                               index |-> 1, found |-> ListRuns]],
              scope |-> "experiment", retained |-> NoRun, inspect |-> NoRun,
              manual |-> "none", details |-> FALSE]

-----------------------------------------------------------------------------
(* rebuildActivityViews.                                                   *)

Positions(rows, r) == {i \in DOMAIN rows : rows[i] = r}
IsIn(rows, r) == Positions(rows, r) # {}

(* core.ActivityRecords and the visibility.                                *)
Members(s, recs, hid) ==
    Among(RunOrder, (IF s = "running" THEN {r \in ListRuns : recs.status[r] = "running"}
                     ELSE recs.unread) \ hid)

(* Mutant: a row that was kept once is not kept again. *)
KeepsOnce(t, recs, hid) ==
    LET list == t.lists["running"] IN
    /\ t.scope = "running" /\ list.selected # NoRun
    /\ recs.status[list.selected] = "ended" /\ list.selected \notin hid
    /\ IsIn(list.rows, list.selected) /\ t.retained # list.selected

Keeps(t, recs, hid) ==
    LET list == t.lists["running"] IN
    /\ t.scope = "running" /\ list.selected # NoRun
    /\ recs.status[list.selected] = "ended" /\ list.selected \notin hid
    /\ IsIn(list.rows, list.selected) \/ t.retained = list.selected

AtMost(n, limit) == IF n > limit THEN limit ELSE n

(* The row of a run that has ended is put back at its place.               *)
RowsOf(s, t, recs, hid) ==
    LET members == Members(s, recs, hid)
        list == t.lists[s] IN
    IF s = "running" /\ Keeps(t, recs, hid)
    THEN Sequence!InsertAt(members, AtMost(list.index, Len(members) + 1), list.selected)
    ELSE members

(* activityPresentationRows: what is retained needs not match the search.  *)
Presented(t, s, hid) ==
    LET kept == IF t.scope = "running" THEN {t.retained} ELSE {} IN
    Among(t.lists[s].rows, (t.lists[s].found \cup kept) \ hid)

At(rows, list) ==
    LET place == Positions(rows, list.selected) IN
    IF place # {} THEN CHOOSE i \in place : TRUE
    ELSE IF rows = <<>> THEN 1 ELSE AtMost(list.index, Len(rows))

SelectedAt(list, rows, i) ==
    [list EXCEPT !.index = i, !.selected = IF rows = <<>> THEN NoRun ELSE rows[i]]

(* A selection that is gone gives way to the row at its place, except one  *)
(* whose details are being read.                                           *)
Reselected(t, s, hid) ==
    LET list == t.lists[s]
        rows == Presented(t, s, hid) IN
    IF /\ ~IsIn(rows, list.selected) /\ s # "running" /\ t.scope = s
       /\ t.inspect # NoRun /\ t.inspect = list.selected /\ t.details
    THEN list ELSE SelectedAt(list, rows, At(rows, list))

Filled(t, recs, hid) ==
    [t EXCEPT !.lists = [s \in ListScopes |-> [t.lists[s] EXCEPT !.rows = RowsOf(s, t, recs, hid)]],
              !.retained = IF Keeps(t, recs, hid) THEN t.lists["running"].selected
                           ELSE IF t.scope = "running" /\ @ = t.lists["running"].selected
                           THEN NoRun ELSE @]

Chosen(t, hid) == [t EXCEPT !.lists = [s \in ListScopes |-> Reselected(t, s, hid)]]

Rebuilt(t, recs, hid) == Chosen(Filled(t, recs, hid), hid)

(* releaseActivityRetention: what was kept goes, and is not kept again.    *)
Released(t, recs, hid) ==
    LET free == [t EXCEPT !.manual = "none", !.retained = NoRun,
                          !.inspect = IF @ = t.retained THEN NoRun ELSE @]
        members == [free EXCEPT !.lists =
                      [s \in ListScopes |-> [t.lists[s] EXCEPT !.rows = Members(s, recs, hid)]]]
    IN IF t.retained = NoRun THEN [t EXCEPT !.manual = "none"] ELSE Chosen(members, hid)

-----------------------------------------------------------------------------
(* Snapshots, details and refreshes.                                       *)

Later(status) ==
    CASE status \in {"none", "running"} -> RunStatus \ {"none"}
      [] OTHER -> {status, "deleted"}

AcceptSnapshot(r, status, unread) ==
    /\ status \in Later(records.status[r])
    /\ status = "deleted" => ~unread
    /\ records' = [status |-> [records.status EXCEPT ![r] = status],
                   unread |-> IF unread THEN records.unread \cup {r} ELSE records.unread \ {r}]
    /\ tui' = Rebuilt(tui, records', hidden)
    /\ UNCHANGED hidden

(* Details of the selected run arrive, or it is marked as read.            *)
InspectSelected ==
    /\ tui.scope \in ListScopes /\ tui.lists[tui.scope].selected # NoRun
    /\ tui' = [tui EXCEPT !.inspect = tui.lists[tui.scope].selected]
    /\ UNCHANGED <<records, hidden>>

(* refreshActivityManually, and the end of that poll: what is kept in the  *)
(* list it was asked for goes.                                             *)
RefreshByHand ==
    /\ tui.scope \in ListScopes
    /\ tui' = [tui EXCEPT !.manual = tui.scope]
    /\ UNCHANGED <<records, hidden>>

FinishRefresh ==
    /\ tui.manual # "none"
    /\ tui' = [IF tui.scope = tui.manual THEN Released(tui, records, hidden) ELSE tui
               EXCEPT !.manual = "none"]
    /\ UNCHANGED <<records, hidden>>

-----------------------------------------------------------------------------
(* The user.                                                               *)

OpenActivity(s) ==
    /\ tui.scope # s
    /\ tui' = Rebuilt([Released(tui, records, hidden) EXCEPT !.scope = s], records, hidden)
    /\ UNCHANGED <<records, hidden>>

LeaveActivity ==
    /\ tui.scope # "experiment"
    /\ tui' = [Released(tui, records, hidden) EXCEPT !.scope = "experiment", !.inspect = NoRun]
    /\ UNCHANGED <<records, hidden>>

(* selectRun: another selection releases.                                  *)
SelectedRow(t, rows, i, recs, hid) ==
    LET moved == [t EXCEPT !.lists[t.scope] = SelectedAt(@, rows, i)] IN
    IF moved.lists[t.scope].selected = t.lists[t.scope].selected THEN moved
    ELSE Released(moved, recs, hid)

SelectRun(i) ==
    LET rows == Presented(tui, tui.scope, hidden) IN
    /\ tui.scope \in ListScopes /\ i \in DOMAIN rows
    /\ tui' = SelectedRow(tui, rows, i, records, hidden)
    /\ UNCHANGED <<records, hidden>>

(* setLocal: a search starts at its first row.                             *)
SetLocal(found) ==
    LET free == Released(tui, records, hidden)
        sought == [free EXCEPT !.lists[tui.scope].found = found, !.lists[tui.scope].index = 1] IN
    /\ tui.scope \in ListScopes /\ tui.lists[tui.scope].found # found
    /\ tui' = SelectedRow(sought, Presented(sought, tui.scope, hidden), 1, records, hidden)
    /\ UNCHANGED <<records, hidden>>

NextUnread(i) ==
    LET rows == Presented(Rebuilt(tui, records, hidden), "unread", hidden)
        free == Released(Rebuilt(tui, records, hidden), records, hidden)
        there == Rebuilt([free EXCEPT !.scope = "unread", !.inspect = NoRun, !.details = FALSE],
                         records, hidden) IN
    /\ i \in DOMAIN rows
    /\ tui' = [there EXCEPT !.lists["unread"] = [@ EXCEPT !.selected = rows[i], !.index = i],
                            !.inspect = rows[i]]
    /\ UNCHANGED <<records, hidden>>

(* setVisibility hides the selected run: the rows stay, the selection is   *)
(* made anew.                                                              *)
HideSelected ==
    LET r == tui.lists[tui.scope].selected
        free == Released(tui, records, hidden)
        list == free.lists[tui.scope]
        rows == Presented(free, tui.scope, hidden') IN
    /\ tui.scope \in ListScopes /\ tui.lists[tui.scope].selected # NoRun
    /\ hidden' = hidden \cup {r}
    /\ tui' = SelectedRow(free, rows, At(rows, list), records, hidden')
    /\ UNCHANGED records

(* Visibility that is read from the database.                              *)
LoadedVisibility(hid) ==
    /\ hidden' = hid
    /\ tui' = Rebuilt(tui, records, hid)
    /\ UNCHANGED records

FocusDetails ==
    /\ tui' = [tui EXCEPT !.details = ~@]
    /\ UNCHANGED <<records, hidden>>

ListsNext ==
    \/ InspectSelected \/ RefreshByHand \/ FinishRefresh \/ LeaveActivity \/ FocusDetails
    \/ HideSelected
    \/ \E s \in ListScopes : OpenActivity(s)
    \/ \E r \in ListRuns, status \in RunStatus, unread \in BOOLEAN :
         AcceptSnapshot(r, status, unread)
    \/ \E i \in DOMAIN RunOrder : SelectRun(i) \/ NextUnread(i)
    \/ \E runs \in Searches : SetLocal(runs) \/ LoadedVisibility(ListRuns \ runs)

ListsSpec == ListsInit /\ [][ListsNext]_listVars

-----------------------------------------------------------------------------
(* Properties.                                                             *)

ListsTypeOK ==
    /\ records \in [status : [ListRuns -> RunStatus], unread : SUBSET ListRuns]
    /\ hidden \subseteq ListRuns
    /\ \A s \in ListScopes :
         LET list == tui.lists[s] IN
         /\ list.selected \in ListRuns \cup {NoRun} /\ list.index \in 1..Len(RunOrder) \cup {1}
         /\ list.rows \in Seq(ListRuns) /\ Len(list.rows) <= Len(RunOrder)
         /\ list.found \subseteq ListRuns
    /\ tui.scope \in ListScopes \cup {"experiment"} /\ tui.manual \in ListScopes \cup {"none"}
    /\ {tui.retained, tui.inspect} \subseteq ListRuns \cup {NoRun} /\ tui.details \in BOOLEAN

(* A run is kept after its end only while it is the selected row of the    *)
(* Running list on the screen.                                             *)
OnlySelectedIsRetained ==
    tui.retained # NoRun =>
        /\ tui.scope = "running"
        /\ tui.lists["running"].selected = tui.retained
        /\ records.status[tui.retained] = "ended"
        /\ IsIn(tui.lists["running"].rows, tui.retained)

(* No snapshot moves the selection off a run that is still in the list,    *)
(* that has ended while it was selected in Running, or whose details are   *)
(* being read.                                                             *)
SnapshotsKeepSelection ==
    [][records' # records /\ tui.scope \in ListScopes =>
         LET s == tui.scope
             list == tui.lists[s]
             r == list.selected IN
         /\ r # NoRun /\ r \notin hidden
         /\ \/ r \in list.found /\ IsIn(Members(s, records', hidden), r)
            \/ s = "running" /\ records.status[r] = "running" /\ records'.status[r] = "ended"
            \/ r = tui.retained /\ records'.status[r] = "ended"
            \/ s # "running" /\ tui.inspect = r /\ tui.details
         => tui'.lists[s].selected = r]_listVars

(* A run stays where its reader is, and no longer than he is there.        *)
ReadersKeepTheirPlace == []OnlySelectedIsRetained /\ SnapshotsKeepSelection
=============================================================================

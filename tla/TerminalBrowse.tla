--------------------------- MODULE TerminalBrowse ---------------------------
(***************************************************************************)
(* The experiments of one connected target in the terminal (internal/tui)  *)
(* and the run list of one of them.  The event loop handles one message at *)
(* a time; requests run as commands whose answers come back in any order,  *)
(* also after they were cancelled or superseded.                           *)
(*                                                                         *)
(* The code numbers its requests (Gen) and drops an answer whose number is *)
(* not the list's; numbers only grow, so here a request is current until   *)
(* the list takes another number.  A run list is the sequence of its       *)
(* pages, a page the query and the place in its result; a query is a       *)
(* filter with a server order.  The experiments come in one page.  Lists   *)
(* of other experiments matter to this one by being selected and loaded.   *)
(* What the timer of the automatic refresh and the refresh key do depends  *)
(* on where the user is, and that is a place here.                         *)
(***************************************************************************)
EXTENDS Naturals, Sequences, FiniteSets

CONSTANTS
    Exps,
    Mine,          \* the experiment whose list is modelled
    Queries,
    DefaultQuery,
    Searches,      \* the sets of experiments that search texts let through
    MaxPages,      \* bound: pages of a query's result
    MaxRequests,   \* bound: requests under way after a user's or the timer's step
    None

ASSUME BrowseAssumption ==
    /\ DefaultQuery \in Queries /\ Mine \in Exps /\ None \notin Exps
    /\ Searches \subseteq SUBSET Exps
    /\ MaxPages \in Nat \ {0} /\ MaxRequests \in Nat \ {0}

VARIABLES
    experiments,   \* s.Experiments
    match,         \* what s.Local lets through
    selected,      \* s.Selected
    run,           \* s.Runs[Mine]
    requests,      \* commands whose answer has not been handled
    typing,        \* a search of experiments is being typed
    place,         \* where the user is
    held           \* a comparison or a folder of artifacts is asked for

vars == <<experiments, match, selected, run, requests, typing, place, held>>

(* "runs" has the tabs of a run but Metrics and Artifacts; these, the      *)
(* comparison, dialogs, pickers, forms and the workspace are "aside", and  *)
(* so are the lists while the cursor is on a run whose folder of artifacts *)
(* was asked for, left, and its answer dropped: it waits for ever.  In     *)
(* "activity" the run list is that of an activity scope or of the pins.    *)
Places == {"experiments", "runs", "aside", "activity"}

Run == [query : Queries, rows : Seq(Queries \X (1..MaxPages)),
        next : 0..MaxPages,                  \* the page token, 0 for none
        seen : SUBSET (1..MaxPages),         \* SeenPageTokens
        pending : BOOLEAN, err : BOOLEAN, loadingAll : BOOLEAN,
        viewRequested : BOOLEAN,
        overtaken : BOOLEAN]  \* history: the stored view came while another
                              \* list was selected
NewRun == [query |-> DefaultQuery, rows |-> <<>>, next |-> 0, seen |-> {},
           pending |-> FALSE, err |-> FALSE, loadingAll |-> FALSE,
           viewRequested |-> FALSE, overtaken |-> FALSE]

RunsRequest == [kind : {"runs"}, query : Queries, page : 1..MaxPages, current : BOOLEAN]
ViewRequest == [kind : {"view"}, current : BOOLEAN]
ListRequest == [kind : {"experiments"}, current : BOOLEAN]

TypeOK ==
    /\ experiments \in {{}, Exps} /\ match \in Searches \cup {Exps}
    /\ selected \in (experiments \cap match) \cup {None}
    /\ run \in Run
    /\ requests \subseteq RunsRequest \cup ViewRequest \cup ListRequest
    /\ typing \in BOOLEAN
    /\ place \in Places /\ held \in BOOLEAN

-----------------------------------------------------------------------------
(* Requests.                                                               *)

Current == {q \in requests : q.kind = "runs" /\ q.current}

(* Another number for the list, or another revision of its view.           *)
Outdate(reqs, kind) ==
    {IF q.kind = kind THEN [q EXCEPT !.current = FALSE] ELSE q : q \in reqs}

Restart(r) ==
    [r EXCEPT !.next = 0, !.seen = {}, !.loadingAll = FALSE, !.overtaken = FALSE]

Loading(r, more) ==
    [IF more THEN [r EXCEPT !.seen = @ \cup {r.next}] ELSE Restart(r)
     EXCEPT !.pending = TRUE, !.err = FALSE, !.viewRequested = TRUE]

(* loadRuns past its early returns; the first one asks for the view too.   *)
Asked(r, reqs, more) ==
    Outdate(reqs, "runs")
      \cup {[kind |-> "runs", query |-> r.query,
             page |-> IF more THEN r.next ELSE 1, current |-> TRUE]}
      \cup IF r.viewRequested THEN {} ELSE {[kind |-> "view", current |-> TRUE]}

LoadRuns(r, reqs, more) ==
    /\ run' = Loading(r, more)
    /\ requests' = Asked(r, reqs, more)

LoadMore(r, reqs) ==
    \/ ~r.pending /\ ~r.err /\ r.next # 0 /\ LoadRuns(r, reqs, TRUE)
    \/ /\ ~r.pending /\ (r.err \/ r.next = 0)
       /\ run' = [r EXCEPT !.loadingAll = FALSE]
       /\ requests' = reqs

(* Whichever list is loaded, no other one is waited for.                   *)
LoadSelected(e, reqs) ==
    \/ e = Mine /\ LoadRuns(run, reqs, FALSE)
    \/ e \in Exps \ {Mine} /\ run' = [run EXCEPT !.pending = FALSE] /\ requests' = reqs
    \/ e = None /\ requests' = reqs /\ UNCHANGED run

(* In an activity scope loadRuns shows the rows of the scope again.        *)
Reload(e, reqs) ==
    \/ place # "activity" /\ LoadSelected(e, reqs)
    \/ place = "activity" /\ requests' = reqs /\ UNCHANGED run

LoadExperiments ==
    /\ requests' = Outdate(requests, "experiments")
                     \cup {[kind |-> "experiments", current |-> TRUE]}
    /\ UNCHANGED run

(* selectExperiment keeps the identity if it can, else the index, which is *)
(* some visible experiment.                                                *)
SomeOf(visible) == IF visible = {} THEN {None} ELSE visible

Selections(visible) == IF selected \in visible THEN {selected} ELSE SomeOf(visible)

-----------------------------------------------------------------------------
(* What the user does.                                                     *)

Bounded == Cardinality(requests') =< MaxRequests
Rows == UNCHANGED <<experiments, match, selected, typing>>
Still == Rows /\ UNCHANGED place
Lists == Still /\ UNCHANGED held
OnMine == ~typing /\ selected = Mine /\ place # "activity" /\ Lists

(* The arrow keys work while a search is typed, too; they and the mouse    *)
(* leave an activity scope, and the mouse loads what was selected.         *)
Select(e) ==
    /\ e \in experiments \cap match /\ (typing => e # selected \/ place = "activity")
    /\ selected' = e /\ place' = "experiments"
    /\ LoadSelected(e, requests) /\ Bounded
    /\ UNCHANGED <<experiments, match, typing, held>>

OpenActivity ==
    /\ place' = "activity"
    /\ Rows /\ UNCHANGED <<run, requests, held>>

(* The panes and tabs, what opens and closes over them, and the cursor of  *)
(* the run list that comes to a run whose folder waits, or leaves it.      *)
Go(p) ==
    /\ ~typing /\ place # "activity" /\ p # "activity"
    /\ place' = p
    /\ Rows /\ UNCHANGED <<run, requests, held>>

(* The Enter key in the pane of experiments.                               *)
OpenRuns ==
    /\ ~typing /\ place = "experiments" /\ place' = "runs"
    /\ LoadSelected(selected, requests) /\ Bounded
    /\ Rows /\ UNCHANGED held

(* refresh: what is reloaded depends on the place.  The comparison and the *)
(* Artifacts tab ask for theirs, as they do when they are opened.          *)
Refresh ==
    /\ \/ place = "experiments" /\ LoadExperiments /\ UNCHANGED held
       \/ place = "runs" /\ LoadSelected(selected, requests) /\ UNCHANGED held
       \/ place = "aside" /\ held' = TRUE /\ UNCHANGED <<run, requests>>
    /\ Still /\ Bounded

(* The key works on lists that the timer leaves alone, too.                *)
RefreshKey ==
    /\ ~typing
    /\ \/ Refresh
       \/ /\ place = "aside" /\ Lists
          /\ LoadExperiments \/ LoadSelected(selected, requests)
          /\ Bounded

(* In the pane of experiments the key asks for more of those.              *)
More == OnMine /\ place # "experiments" /\ LoadMore(run, requests) /\ Bounded

LoadAll ==
    /\ OnMine /\ ~run.pending /\ ~run.err
    /\ IF run.rows = <<>> /\ run.next = 0
       THEN /\ run' = [Loading(run, FALSE) EXCEPT !.loadingAll = TRUE]
            /\ requests' = Asked(run, requests, FALSE)
       ELSE LoadMore([run EXCEPT !.loadingAll = TRUE], requests)
    /\ Bounded

(* Mutant: a list that is given up goes on waiting. *)
StoppedPending(r) == [r EXCEPT !.loadingAll = FALSE]

Stopped(r) == [r EXCEPT !.pending = FALSE, !.loadingAll = FALSE]

Stop(reqs) == run' = Stopped(run) /\ requests' = Outdate(reqs, "runs")

CancelAll == OnMine /\ run.loadingAll /\ Stop(requests)

(* A filter or a server order: the view is saved, so one that is still     *)
(* being loaded comes too late.                                            *)
SetQuery(q) ==
    /\ OnMine /\ place # "experiments"
    /\ LoadRuns([run EXCEPT !.query = q], Outdate(requests, "view"), FALSE)
    /\ Bounded

(* Any other order sorts what is loaded, and gives up what was asked.      *)
SortLocally == OnMine /\ place # "experiments" /\ Stop(Outdate(requests, "view"))

(* Another list that is selected loads its first or its next page.         *)
Elsewhere ==
    /\ selected \notin {Mine, None} /\ place # "activity"
    /\ run' = [run EXCEPT !.pending = FALSE] /\ UNCHANGED requests /\ Lists

(* Every change of the text selects again, and loads nothing.              *)
Type(S) ==
    /\ place \in {"experiments", "activity"}
    /\ match' = S /\ typing' = TRUE
    /\ selected' \in SomeOf(experiments \cap S)
    /\ UNCHANGED <<experiments, run, requests, place, held>>

Enter ==
    /\ typing /\ typing' = FALSE
    /\ Reload(selected, requests)
    /\ UNCHANGED <<experiments, match, selected, place, held>>

Esc ==
    /\ typing /\ typing' = FALSE
    /\ match' = Exps
    /\ selected' \in SomeOf(experiments)
    /\ UNCHANGED <<experiments, run, requests, place, held>>

-----------------------------------------------------------------------------
(* Messages.                                                               *)

(* Mutant: a list that failed is not refreshed. *)
BusyOrFailed == selected = Mine /\ (run.pending \/ run.err)

Busy == selected = Mine /\ run.pending

(* The automatic refresh waits for what is pending and for inputs.  Where  *)
(* the handler only sets the timer again, and where it reloads what is not *)
(* modelled, nothing happens here.                                         *)
Tick ==
    /\ ~typing /\ ~Busy /\ ~held
    /\ \A q \in requests : q.kind = "experiments" => ~q.current
    /\ Refresh

AcceptExperiments(q) ==
    \E e \in Selections(match) :
       /\ experiments' = Exps
       /\ selected' = e
       /\ Reload(e, requests \ {q})
       /\ UNCHANGED <<match, typing, place, held>>

(* Mutant: the server's tokens are trusted. *)
NeverRepeats(r, next) == FALSE

Repeats(r, next) == next # 0 /\ next \in r.seen

Accepted(q, r, next) ==
    LET page == <<q.query, q.page>>
        rows == IF q.page = 1 THEN <<page>>
                ELSE IF \E i \in DOMAIN r.rows : r.rows[i] = page THEN r.rows
                ELSE Append(r.rows, page)
        t == [r EXCEPT !.pending = FALSE, !.err = FALSE, !.rows = rows]
    IN  IF Repeats(r, next)
        THEN [t EXCEPT !.next = 0, !.err = TRUE, !.loadingAll = FALSE]
        ELSE [t EXCEPT !.next = next, !.seen = @ \cup ({next} \ {0})]

(* A server gives the token of the next page or none, or repeats one.      *)
Tokens(page) == {0} \cup (2..(IF page < MaxPages THEN page + 1 ELSE page))

(* In an activity scope "load all" does not ask for the next page.         *)
AcceptPage(q, next) ==
    LET r == Accepted(q, run, next)
    IN  IF r.loadingAll /\ (place = "activity" => r.next = 0)
        THEN LoadMore(r, requests \ {q})
        ELSE run' = r /\ requests' = requests \ {q}

AcceptRunsError(q) ==
    /\ run' = [run EXCEPT !.pending = FALSE, !.err = TRUE, !.loadingAll = FALSE]
    /\ requests' = requests \ {q}

(* The stored view's filter and order; the selected list is loaded again.  *)
AcceptView(q, query) ==
    LET r == [run EXCEPT !.query = query]
    IN  IF selected = Mine /\ place # "activity" THEN LoadRuns(r, requests \ {q}, FALSE)
        ELSE /\ run' = [r EXCEPT !.overtaken = TRUE]
             /\ requests' = requests \ {q}

AcceptViewError(q) ==
    /\ run' = [run EXCEPT !.viewRequested = FALSE]
    /\ requests' = requests \ {q}

(* Superseded, failed or not found.                                        *)
Drop(q) == requests' = requests \ {q} /\ UNCHANGED run

(* Mutant: an answer is taken whatever it answers. *)
WantedAlways(q) == q.kind = "runs" => selected = Mine

Wanted(q) == q.current /\ (q.kind = "runs" => selected = Mine)

AnswerExperiments(q) ==
    /\ q.kind = "experiments"
    /\ \/ Wanted(q) /\ AcceptExperiments(q)
       \/ Drop(q) /\ Lists

AnswerRuns(q) ==
    /\ q.kind = "runs" /\ Lists
    /\ \/ Wanted(q) /\ \E next \in Tokens(q.page) : AcceptPage(q, next)
       \/ Wanted(q) /\ AcceptRunsError(q)
       \/ ~Wanted(q) /\ Drop(q)

AnswerView(q) ==
    /\ q.kind = "view" /\ Lists
    /\ \/ Wanted(q) /\ \E query \in Queries : AcceptView(q, query)
       \/ Wanted(q) /\ AcceptViewError(q)
       \/ Drop(q)

(* The comparison or the folder that was asked for.                        *)
AnswerAside ==
    /\ held /\ held' = FALSE
    /\ Still /\ UNCHANGED <<run, requests>>

Init ==
    /\ experiments = {} /\ match = Exps /\ selected = None
    /\ run = NewRun
    /\ requests = {[kind |-> "experiments", current |-> TRUE]}
    /\ typing = FALSE
    /\ place = "experiments" /\ held = FALSE

User ==
    \/ \E e \in Exps : Select(e)
    \/ OpenActivity \/ OpenRuns \/ \E p \in Places : Go(p)
    \/ RefreshKey \/ More \/ LoadAll \/ CancelAll \/ SortLocally
    \/ \E q \in Queries : SetQuery(q)
    \/ \E S \in Searches : Type(S)
    \/ Enter \/ Esc

Answer ==
    \/ \E q \in requests : AnswerExperiments(q) \/ AnswerRuns(q) \/ AnswerView(q)
    \/ AnswerAside

Next == User \/ Tick \/ Answer \/ Elsewhere

Spec == Init /\ [][Next]_vars

(* The server answers, with a page sometimes; the timer of the automatic   *)
(* refresh (tui.refresh_seconds) is set again whatever its message finds.  *)
PageArrives == \E q \in requests : /\ q.kind = "runs" /\ Wanted(q) /\ Lists
                                   /\ \E next \in Tokens(q.page) : AcceptPage(q, next)
ExperimentsArrive ==
    \E q \in requests : q.kind = "experiments" /\ Wanted(q) /\ AcceptExperiments(q)

FairSpec ==
    /\ Spec
    /\ WF_vars(Answer) /\ WF_vars(Tick)
    /\ SF_vars(PageArrives) /\ SF_vars(ExperimentsArrive)
-----------------------------------------------------------------------------

OneQuery(rows) == \E q \in Queries : \A i \in DOMAIN rows : rows[i] = <<q, i>>

(* The list waits for nothing: the search moved away and back, and the     *)
(* answer in between was dropped.                                          *)
Lost == run.pending /\ Current = {}

(* A list never comes to mix pages: they are the first pages of one query, *)
(* none missing and none twice, however refreshes, filters, page requests, *)
(* cancellations and late answers interleave; one whose stored view came   *)
(* while a search had moved elsewhere has to be loaded again first.        *)
PagesStayTogether ==
    [][OneQuery(run.rows) /\ ~run.overtaken => OneQuery(run'.rows)]_vars

(* What a list waits for is under way: as long as it stays selected, a     *)
(* list that says it is updating has a request whose answer it will take.  *)
PendingIsServed ==
    [][selected = Mine /\ selected' = Mine /\ ~Lost => ~Lost']_vars

(* "Load all" comes to an end, even if the server repeats its tokens.  One *)
(* that an activity scope was opened over stops where it is, and still     *)
(* says that it is loading if a search selects the list again.             *)
LoadAllEnds ==
    selected = Mine /\ run.loadingAll /\ run.pending ~>
        (selected # Mine \/ ~run.loadingAll \/ Lost \/ place = "activity")

OnLists == place \in {"experiments", "runs"} /\ ~typing

(* The automatic refresh mends what races and failures left: once the user *)
(* does nothing, resting on the experiments, the runs or a tab of a run    *)
(* that does not reload itself, the selected list shows what it says it    *)
(* shows.  The timer leaves the lists alone everywhere else, and where a   *)
(* folder of artifacts waits for an answer that was dropped.               *)
EventuallyFresh ==
    <>[][Tick \/ Answer]_vars =>
    <>[](OnLists /\ selected = Mine /\ ~Lost =>
            run.rows # <<>> /\ OneQuery(run.rows) /\ run.rows[1][1] = run.query)

-----------------------------------------------------------------------------

(* "Sorted %d loaded runs locally; A loads all matching results" and "All  *)
(* runs are loaded": the list for which A says so shows its own query.     *)
AllLoadedIsTrue ==
    /\ selected = Mine /\ ~typing /\ run.rows # <<>>
    /\ ~run.pending /\ ~run.err /\ run.next = 0
    => run.rows[1] = <<run.query, 1>>
=============================================================================

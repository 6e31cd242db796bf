------------------------ MODULE TerminalBrowseProofs ------------------------
(***************************************************************************)
(* Theorems of TerminalBrowse, for any number of experiments, queries,     *)
(* pages and requests under way.                                           *)
(*                                                                         *)
(* The invariant says what makes an answer fit: at most one request of the *)
(* list is current, it asks for the list's own query, and a later page     *)
(* continues rows that are the pages before it.  The tokens seen so far    *)
(* leave the server only the page that follows.                            *)
(***************************************************************************)
EXTENDS TerminalBrowse, TLAPS

Requests == RunsRequest \cup ViewRequest \cup ListRequest

CurrentOf(reqs) == {q \in reqs : q.kind = "runs" /\ q.current}

InOrder(r) == \A i \in DOMAIN r.rows : r.rows[i] = <<r.query, i>>

Continues(r, page) ==
    InOrder(r) /\ Len(r.rows) > 0 /\ page = Len(r.rows) + 1 /\ 2..page \subseteq r.seen

Asks(r, q) == q.query = r.query /\ (q.page = 1 \/ Continues(r, q.page))

ListOK(r, reqs) ==
    ~r.overtaken => /\ r.next # 0 => Continues(r, r.next)
                    /\ \A q \in CurrentOf(reqs) : Asks(r, q)

One(reqs) == \A p, q \in CurrentOf(reqs) : p = q

Inv == TypeOK /\ One(requests) /\ ListOK(run, requests)

-----------------------------------------------------------------------------
(* Requests.                                                               *)

LEMMA OutdateFacts ==
    ASSUME NEW reqs \in SUBSET Requests, NEW kind \in {"runs", "view", "experiments"}
    PROVE  /\ Outdate(reqs, kind) \subseteq Requests
           /\ kind = "runs" => CurrentOf(Outdate(reqs, kind)) = {}
           /\ kind # "runs" => CurrentOf(Outdate(reqs, kind)) = CurrentOf(reqs)
<1>1. ASSUME NEW q \in Requests
      PROVE  /\ [q EXCEPT !.current = FALSE] \in Requests
             /\ [q EXCEPT !.current = FALSE].kind = q.kind
             /\ ~[q EXCEPT !.current = FALSE].current
  <2>1. CASE q \in RunsRequest
    BY <2>1 DEF RunsRequest, Requests
  <2>2. CASE q \in ViewRequest
    BY <2>2 DEF ViewRequest, Requests
  <2>3. CASE q \in ListRequest
    BY <2>3 DEF ListRequest, Requests
  <2> QED
    BY <2>1, <2>2, <2>3 DEF Requests
<1>2. Outdate(reqs, kind) \subseteq Requests
  BY <1>1 DEF Outdate
<1>3. ASSUME kind = "runs" PROVE CurrentOf(Outdate(reqs, kind)) = {}
  BY <1>1, <1>3 DEF Outdate, CurrentOf
<1>4. ASSUME kind # "runs" PROVE CurrentOf(Outdate(reqs, kind)) = CurrentOf(reqs)
  BY <1>1, <1>4 DEF Outdate, CurrentOf
<1> QED
  BY <1>2, <1>3, <1>4

(* loadRuns leaves exactly one current request, which fits its list.       *)
LEMMA LoadRunsFacts ==
    ASSUME NEW r \in Run, NEW reqs \in SUBSET Requests, NEW more \in BOOLEAN,
           more => r.next # 0 /\ (~r.overtaken => Continues(r, r.next)),
           LoadRuns(r, reqs, more)
    PROVE  /\ run' \in Run /\ requests' \subseteq Requests
           /\ One(requests') /\ CurrentOf(requests') # {} /\ ListOK(run', requests')
           /\ run'.rows = r.rows
<1> DEFINE page == IF more THEN r.next ELSE 1
           asked == [kind |-> "runs", query |-> r.query, page |-> page, current |-> TRUE]
           view == [kind |-> "view", current |-> TRUE]
<1>1. page \in 1..MaxPages
  BY BrowseAssumption DEF Run
<1>2. asked \in Requests /\ view \in Requests
  BY <1>1 DEF Requests, RunsRequest, ViewRequest, Run
<1>3. requests' = Outdate(reqs, "runs") \cup {asked} \cup
                    IF r.viewRequested THEN {} ELSE {view}
  BY DEF LoadRuns, Asked
<1>4. requests' \subseteq Requests
  BY <1>2, <1>3, OutdateFacts
<1>5. CurrentOf(requests') = {asked}
  <2>1. CurrentOf(Outdate(reqs, "runs")) = {}
    BY OutdateFacts
  <2> QED
    BY <1>3, <2>1 DEF CurrentOf
<1>6. /\ run' \in Run /\ run'.query = r.query /\ run'.rows = r.rows
      /\ run'.next = IF more THEN r.next ELSE 0
      /\ run'.seen = IF more THEN r.seen \cup {r.next} ELSE {}
      /\ run'.overtaken <=> (more /\ r.overtaken)
  <2>1. run' = [IF more THEN [r EXCEPT !.seen = @ \cup {r.next}] ELSE Restart(r)
                EXCEPT !.pending = TRUE, !.err = FALSE, !.viewRequested = TRUE]
    BY DEF LoadRuns, Loading
  <2>2. CASE more
    <3>1. r.next \in 1..MaxPages
      BY <1>1, <2>2
    <3>2. run' = [[r EXCEPT !.seen = @ \cup {r.next}]
                  EXCEPT !.pending = TRUE, !.err = FALSE, !.viewRequested = TRUE]
      BY <2>1, <2>2
    <3> QED
      BY <2>2, <3>1, <3>2 DEF Run
  <2>3. CASE ~more
    <3>1. run' = [Restart(r) EXCEPT !.pending = TRUE, !.err = FALSE, !.viewRequested = TRUE]
      BY <2>1, <2>3
    <3>2. 0 \in 0..MaxPages
      BY BrowseAssumption
    <3>3. /\ Restart(r) \in Run /\ Restart(r).query = r.query /\ Restart(r).rows = r.rows
          /\ Restart(r).next = 0 /\ Restart(r).seen = {} /\ Restart(r).overtaken = FALSE
      BY <3>2 DEF Restart, Run
    <3>4. /\ run' \in Run /\ run'.query = Restart(r).query /\ run'.rows = Restart(r).rows
          /\ run'.next = Restart(r).next /\ run'.seen = Restart(r).seen
          /\ run'.overtaken = Restart(r).overtaken
      BY <3>1, <3>3 DEF Run
    <3> QED
      BY <2>3, <3>3, <3>4
  <2> QED
    BY <2>2, <2>3
<1>7. ListOK(run', requests')
  BY <1>5, <1>6 DEF ListOK, Asks, Continues, InOrder
<1> QED
  BY <1>4, <1>5, <1>6, <1>7 DEF One

(* The list as it was, with the same requests or fewer.                    *)
LEMMA SameListFacts ==
    ASSUME NEW r \in Run, NEW s \in Run, NEW reqs, NEW fewer,
           s.rows = r.rows, s.query = r.query, s.next = r.next, s.seen = r.seen,
           s.overtaken <=> r.overtaken,
           CurrentOf(fewer) \subseteq CurrentOf(reqs), ListOK(r, reqs), One(reqs)
    PROVE  ListOK(s, fewer) /\ One(fewer)
BY DEF ListOK, One, Asks, Continues, InOrder

LEMMA LoadMoreFacts ==
    ASSUME NEW r \in Run, NEW reqs \in SUBSET Requests, One(reqs), ListOK(r, reqs),
           LoadMore(r, reqs)
    PROVE  /\ run' \in Run /\ requests' \subseteq Requests
           /\ One(requests') /\ ListOK(run', requests')
           /\ run'.rows = r.rows
           /\ run'.pending => CurrentOf(requests') # {}
<1>1. CASE r.next # 0 /\ LoadRuns(r, reqs, TRUE)
  <2>1. ~r.overtaken => Continues(r, r.next)
    BY <1>1 DEF ListOK
  <2> QED
    BY <1>1, <2>1, LoadRunsFacts
<1>2. CASE ~r.pending /\ run' = [r EXCEPT !.loadingAll = FALSE] /\ requests' = reqs
  <2>1. /\ run' \in Run /\ ~run'.pending /\ run'.rows = r.rows /\ run'.query = r.query
        /\ run'.next = r.next /\ run'.seen = r.seen /\ run'.overtaken = r.overtaken
    BY <1>2 DEF Run
  <2> QED
    BY <1>2, <2>1, SameListFacts
<1> QED
  BY <1>1, <1>2 DEF LoadMore

LEMMA LoadSelectedFacts ==
    ASSUME Inv, NEW e \in Exps \cup {None}, NEW reqs \in SUBSET Requests,
           CurrentOf(reqs) \subseteq CurrentOf(requests), LoadSelected(e, reqs)
    PROVE  /\ run' \in Run /\ requests' \subseteq Requests
           /\ One(requests') /\ ListOK(run', requests')
           /\ run'.rows = run.rows
           /\ e = Mine => CurrentOf(requests') # {}
<1> USE BrowseAssumption
<1>1. run \in Run
  BY DEF Inv, TypeOK
<1>2. CASE e = Mine
  BY <1>1, <1>2, LoadRunsFacts DEF LoadSelected
<1>3. CASE e # Mine /\ e # None
  <2>1. run' = [run EXCEPT !.pending = FALSE] /\ requests' = reqs
    BY <1>3 DEF LoadSelected
  <2>2. /\ run' \in Run /\ run'.rows = run.rows /\ run'.query = run.query
        /\ run'.next = run.next /\ run'.seen = run.seen /\ run'.overtaken = run.overtaken
    BY <1>1, <2>1 DEF Run
  <2> QED
    BY <1>1, <1>3, <2>1, <2>2, SameListFacts DEF Inv
<1>4. CASE e = None
  BY <1>1, <1>4, SameListFacts DEF LoadSelected, Inv
<1> QED
  BY <1>2, <1>3, <1>4
-----------------------------------------------------------------------------
(* Steps.  Each keeps the invariant, the pages together, and what is       *)
(* waited for under way.                                                   *)

Together == OneQuery(run.rows) /\ ~run.overtaken => OneQuery(run'.rows)

Served == selected = Mine /\ selected' = Mine /\ ~Lost => ~Lost'

Place ==
    /\ experiments \in {{}, Exps} /\ match \in Searches \cup {Exps}
    /\ selected \in (experiments \cap match) \cup {None}
    /\ typing \in BOOLEAN
    /\ place \in Places /\ held \in BOOLEAN

Good == Inv' /\ Together /\ Served

LEMMA Types == TypeOK <=> Place /\ run \in Run /\ requests \subseteq Requests
BY DEF TypeOK, Place, Requests

(* The rows and what matters of the list are the same, as are the requests *)
(* that are current, and the list does not start to wait.                  *)
LEMMA QuietStep ==
    ASSUME Inv, Place', run' \in Run, requests' \subseteq Requests,
           run'.rows = run.rows, run'.query = run.query, run'.next = run.next,
           run'.seen = run.seen, run'.overtaken <=> run.overtaken,
           CurrentOf(requests') \subseteq CurrentOf(requests),
           run'.pending => run.pending /\ (selected = Mine => CurrentOf(requests') = CurrentOf(requests))
    PROVE  Good
<1>1. ListOK(run', requests') /\ One(requests')
  BY SameListFacts DEF Inv, TypeOK
<1>2. TypeOK'
  BY DEF TypeOK, Place, Requests
<1>3. Together
  BY DEF Together
<1>4. Served
  BY DEF Served, Lost, Current, CurrentOf
<1> QED
  BY <1>1, <1>2, <1>3, <1>4 DEF Good, Inv

(* The list asks for pages, and has a current request if it waits.         *)
LEMMA AskingStep ==
    ASSUME Inv, Place', run' \in Run, requests' \subseteq Requests,
           run'.rows = run.rows, One(requests'), ListOK(run', requests'),
           selected' = Mine /\ run'.pending => CurrentOf(requests') # {}
    PROVE  Good
<1>1. TypeOK'
  BY DEF TypeOK, Place, Requests
<1>2. Together /\ Served
  BY DEF Together, Served, Lost, Current, CurrentOf
<1> QED
  BY <1>1, <1>2 DEF Good, Inv

LEMMA PlaceFacts ==
    ASSUME Inv
    PROVE  /\ Place /\ run \in Run /\ requests \in SUBSET Requests
           /\ selected \in Exps \cup {None}
           /\ Rows /\ place' \in Places /\ held' \in BOOLEAN => Place'
           /\ Lists => Place'
           /\ CurrentOf(requests) \subseteq CurrentOf(requests)
BY Types DEF Inv, Place, Lists, Still, Rows

LEMMA SelectStep == ASSUME Inv, NEW e \in Exps, Select(e) PROVE Good
<1>1. LoadSelected(e, requests) /\ Place'
  BY PlaceFacts DEF Select, Place, Places
<1>2. selected' = e
  BY DEF Select
<1> QED
  BY <1>1, <1>2, PlaceFacts, LoadSelectedFacts, AskingStep

(* Only the place changes, or what else is asked for.                      *)
LEMMA MovingStep ==
    ASSUME Inv, Rows, place' \in Places, held' \in BOOLEAN, UNCHANGED <<run, requests>>
    PROVE  Good
<1>1. Place'
  BY PlaceFacts
<1> QED
  BY <1>1, PlaceFacts, QuietStep

LEMMA GoStep ==
    ASSUME Inv, OpenActivity \/ (\E p \in Places : Go(p)) \/ AnswerAside
    PROVE  Good
<1>1. /\ Rows /\ place' \in Places /\ held' \in BOOLEAN
      /\ UNCHANGED <<run, requests>>
  BY PlaceFacts DEF OpenActivity, Go, AnswerAside, Still, Places, Place
<1> QED
  BY <1>1, MovingStep

LEMMA OpenRunsStep == ASSUME Inv, OpenRuns PROVE Good
<1>1. LoadSelected(selected, requests) /\ selected' = selected /\ Place'
  BY PlaceFacts DEF OpenRuns, Rows, Place, Places
<1> QED
  BY <1>1, PlaceFacts, LoadSelectedFacts, AskingStep

LEMMA ListingStep == ASSUME Inv, LoadExperiments, Lists PROVE Good
<1>1. /\ Outdate(requests, "experiments") \subseteq Requests
      /\ CurrentOf(Outdate(requests, "experiments")) = CurrentOf(requests)
  BY PlaceFacts, OutdateFacts
<1>2. [kind |-> "experiments", current |-> TRUE] \in Requests
  BY DEF Requests, ListRequest
<1>3. requests' \subseteq Requests /\ run' = run
  BY <1>1, <1>2 DEF LoadExperiments
<1>4. CurrentOf(requests') = CurrentOf(requests)
  BY <1>1 DEF LoadExperiments, CurrentOf
<1> QED
  BY <1>3, <1>4, PlaceFacts, QuietStep

LEMMA ReloadingStep == ASSUME Inv, LoadSelected(selected, requests), Lists PROVE Good
<1>1. Place' /\ selected' = selected
  BY PlaceFacts DEF Lists, Still, Rows
<1> QED
  BY <1>1, PlaceFacts, LoadSelectedFacts, AskingStep

LEMMA RefreshStep == ASSUME Inv, Refresh \/ RefreshKey PROVE Good
<1>1. CASE LoadSelected(selected, requests) /\ Lists
  BY <1>1, ReloadingStep
<1>2. CASE LoadExperiments /\ Lists
  BY <1>2, ListingStep
<1>3. CASE held' = TRUE /\ UNCHANGED <<run, requests>> /\ Still
  BY <1>3, MovingStep, PlaceFacts DEF Still, Place
<1> QED
  BY <1>1, <1>2, <1>3 DEF Refresh, RefreshKey, Lists

LEMMA MoreStep == ASSUME Inv, More PROVE Good
<1>1. LoadMore(run, requests) /\ Lists
  BY DEF More, OnMine
<1>2. One(requests) /\ ListOK(run, requests)
  BY DEF Inv
<1> QED
  BY <1>1, <1>2, PlaceFacts, LoadMoreFacts, AskingStep

LEMMA LoadAllStep == ASSUME Inv, LoadAll PROVE Good
<1>1. Lists
  BY DEF LoadAll, OnMine
<1>2. CASE run.rows = <<>> /\ run.next = 0
  <2> DEFINE s == Loading(run, FALSE)
  <2>1. /\ run' = [s EXCEPT !.loadingAll = TRUE]
        /\ requests' = Asked(run, requests, FALSE)
    BY <1>2 DEF LoadAll
  <2>2. /\ s \in Run /\ s.rows = run.rows /\ s.next = 0 /\ s.overtaken = FALSE
        /\ s.query = run.query
    <3>1. run \in Run /\ 0 \in 0..MaxPages
      BY PlaceFacts, BrowseAssumption
    <3>2. s = [Restart(run) EXCEPT !.pending = TRUE, !.err = FALSE, !.viewRequested = TRUE]
      BY DEF Loading
    <3>3. /\ Restart(run) \in Run /\ Restart(run).query = run.query
          /\ Restart(run).rows = run.rows /\ Restart(run).next = 0
          /\ Restart(run).overtaken = FALSE
      BY <3>1 DEF Restart, Run
    <3> QED
      BY <3>2, <3>3 DEF Run
  <2>3. /\ run' \in Run /\ run'.rows = run.rows /\ run'.next = 0 /\ run'.query = run.query
        /\ run'.overtaken = FALSE
    BY <2>1, <2>2 DEF Run
  <2> DEFINE asked == [kind |-> "runs", query |-> run.query, page |-> 1, current |-> TRUE]
             view == [kind |-> "view", current |-> TRUE]
  <2>4. asked \in Requests /\ view \in Requests
    BY PlaceFacts, BrowseAssumption DEF Requests, RunsRequest, ViewRequest, Run
  <2>5. requests' = Outdate(requests, "runs") \cup {asked}
                       \cup IF run.viewRequested THEN {} ELSE {view}
    BY <2>1 DEF Asked
  <2>6. /\ Outdate(requests, "runs") \subseteq Requests
        /\ CurrentOf(Outdate(requests, "runs")) = {}
    BY PlaceFacts, OutdateFacts
  <2>7. requests' \subseteq Requests /\ CurrentOf(requests') = {asked}
    <3>1. requests' \subseteq Requests
      BY <2>4, <2>5, <2>6
    <3>2. CurrentOf(requests') = {asked}
      BY <2>5, <2>6 DEF CurrentOf
    <3> QED
      BY <3>1, <3>2
  <2>8. One(requests') /\ ListOK(run', requests')
    BY <2>3, <2>7 DEF One, ListOK, Asks
  <2> QED
    BY <1>1, <2>3, <2>7, <2>8, PlaceFacts, AskingStep
<1>3. CASE ~(run.rows = <<>> /\ run.next = 0)
  <2> DEFINE s == [run EXCEPT !.loadingAll = TRUE]
  <2>1. LoadMore(s, requests)
    BY <1>3 DEF LoadAll
  <2>2. /\ s \in Run /\ s.rows = run.rows /\ s.query = run.query /\ s.next = run.next
        /\ s.seen = run.seen /\ s.overtaken = run.overtaken
    BY PlaceFacts DEF Run
  <2> HIDE DEF s
  <2>3. One(requests) /\ ListOK(s, requests)
    BY <2>2, PlaceFacts, SameListFacts DEF Inv
  <2> QED
    BY <1>1, <2>1, <2>2, <2>3, PlaceFacts, LoadMoreFacts, AskingStep
<1> QED
  BY <1>2, <1>3

LEMMA StopStep ==
    ASSUME Inv, Lists, NEW reqs \in SUBSET Requests, Stop(reqs)
    PROVE  Good
<1>1. /\ Outdate(reqs, "runs") \subseteq Requests
      /\ CurrentOf(Outdate(reqs, "runs")) = {}
  BY OutdateFacts
<1>2. run' = Stopped(run) /\ requests' = Outdate(reqs, "runs")
  BY DEF Stop
<1>3. /\ run' \in Run /\ run'.rows = run.rows /\ run'.query = run.query
      /\ run'.next = run.next /\ run'.seen = run.seen /\ run'.overtaken = run.overtaken
      /\ run'.pending = FALSE
  BY <1>2, PlaceFacts DEF Stopped, Run
<1> QED
  BY <1>1, <1>2, <1>3, PlaceFacts, QuietStep

LEMMA SetQueryStep == ASSUME Inv, NEW q \in Queries, SetQuery(q) PROVE Good
<1> DEFINE s == [run EXCEPT !.query = q]
           reqs == Outdate(requests, "view")
<1>1. Lists /\ LoadRuns(s, reqs, FALSE)
  BY DEF SetQuery, OnMine
<1>2. s \in Run /\ s.rows = run.rows
  BY PlaceFacts DEF Run
<1>3. reqs \subseteq Requests
  BY PlaceFacts, OutdateFacts
<1> HIDE DEF s, reqs
<1> QED
  BY <1>1, <1>2, <1>3, PlaceFacts, LoadRunsFacts, AskingStep

LEMMA ElsewhereStep == ASSUME Inv, Elsewhere PROVE Good
<1>1. Lists /\ run' = [run EXCEPT !.pending = FALSE] /\ requests' = requests
  BY DEF Elsewhere
<1>2. /\ run' \in Run /\ run'.rows = run.rows /\ run'.query = run.query
      /\ run'.next = run.next /\ run'.seen = run.seen /\ run'.overtaken = run.overtaken
      /\ run'.pending = FALSE
  BY <1>1, PlaceFacts DEF Run
<1> QED
  BY <1>1, <1>2, PlaceFacts, QuietStep

LEMMA SearchStep ==
    ASSUME Inv, (\E S \in Searches : Type(S)) \/ Esc
    PROVE  Good
<1>1. run' = run /\ requests' = requests
  BY DEF Type, Esc
<1>2. Place'
  BY PlaceFacts, BrowseAssumption DEF Type, Esc, Place, Places, SomeOf
<1> QED
  BY <1>1, <1>2, PlaceFacts, QuietStep

LEMMA EnterStep == ASSUME Inv, Enter PROVE Good
<1>1. Reload(selected, requests) /\ selected' = selected /\ Place'
  BY PlaceFacts DEF Enter, Place
<1>2. CASE LoadSelected(selected, requests)
  BY <1>1, <1>2, PlaceFacts, LoadSelectedFacts, AskingStep
<1>3. CASE UNCHANGED run /\ requests' = requests
  BY <1>1, <1>3, PlaceFacts, QuietStep
<1> QED
  BY <1>1, <1>2, <1>3 DEF Reload

-----------------------------------------------------------------------------
(* Answers.                                                                *)

LEMMA AnswerFacts ==
    ASSUME Inv, NEW q \in requests
    PROVE  /\ requests \ {q} \in SUBSET Requests
           /\ CurrentOf(requests \ {q}) \subseteq CurrentOf(requests)
           /\ q \notin CurrentOf(requests) => CurrentOf(requests \ {q}) = CurrentOf(requests)
BY PlaceFacts DEF CurrentOf

(* A dropped answer of the list was not current, or the list not selected. *)
LEMMA DropStep ==
    ASSUME Inv, Lists, NEW q \in requests, Drop(q), q.kind = "runs" => ~Wanted(q)
    PROVE  Good
<1>1. run' = run /\ requests' = requests \ {q}
  BY DEF Drop
<1>2. selected = Mine => q \notin CurrentOf(requests)
  BY DEF Wanted, CurrentOf
<1> QED
  BY <1>1, <1>2, PlaceFacts, AnswerFacts, QuietStep

LEMMA AcceptExperimentsStep ==
    ASSUME Inv, NEW q \in requests, q.kind = "experiments", AcceptExperiments(q)
    PROVE  Good
<1>1. PICK e \in Selections(match) :
        /\ experiments' = Exps /\ selected' = e
        /\ Reload(e, requests \ {q})
        /\ UNCHANGED <<match, typing, place, held>>
  BY DEF AcceptExperiments
<1>2. e \in (Exps \cap match) \cup {None} /\ Place'
  BY <1>1, PlaceFacts, BrowseAssumption DEF Selections, SomeOf, Place
<1>3. CASE LoadSelected(e, requests \ {q})
  BY <1>1, <1>2, <1>3, AnswerFacts, LoadSelectedFacts, AskingStep
<1>4. CASE UNCHANGED run /\ requests' = requests \ {q}
  <2>1. q \notin CurrentOf(requests)
    BY DEF CurrentOf
  <2> QED
    BY <1>2, <1>4, <2>1, PlaceFacts, AnswerFacts, QuietStep
<1> QED
  BY <1>1, <1>3, <1>4 DEF Reload

(* The server's page fits: what the list becomes if it takes it.           *)
LEMMA AcceptedFacts ==
    ASSUME Inv, NEW q \in requests, q.kind = "runs", Wanted(q), NEW next \in Tokens(q.page)
    PROVE  /\ Accepted(q, run, next) \in Run
           /\ One(requests \ {q}) /\ ListOK(Accepted(q, run, next), requests \ {q})
           /\ ~Accepted(q, run, next).pending
           /\ OneQuery(run.rows) /\ ~run.overtaken => OneQuery(Accepted(q, run, next).rows)
<1> DEFINE page == <<q.query, q.page>>
           rows == IF q.page = 1 THEN <<page>>
                   ELSE IF \E i \in DOMAIN run.rows : run.rows[i] = page THEN run.rows
                   ELSE Append(run.rows, page)
           t == [run EXCEPT !.pending = FALSE, !.err = FALSE, !.rows = rows]
           s == Accepted(q, run, next)
<1>1. q \in RunsRequest /\ run \in Run /\ q \in CurrentOf(requests)
  BY PlaceFacts DEF Requests, ViewRequest, ListRequest, Wanted, CurrentOf
<1>2. q.page \in 1..MaxPages /\ q.query \in Queries /\ page \in Queries \X (1..MaxPages)
  BY <1>1 DEF RunsRequest
<1>3. next \in 0..MaxPages /\ (next = 0 \/ next \in 2..q.page + 1)
  BY <1>2, BrowseAssumption DEF Tokens
<1>4. rows \in Seq(Queries \X (1..MaxPages))
  <2>1. run.rows \in Seq(Queries \X (1..MaxPages))
    BY <1>1 DEF Run
  <2>2. <<page>> \in Seq(Queries \X (1..MaxPages))
    BY <1>2
  <2>3. Append(run.rows, page) \in Seq(Queries \X (1..MaxPages))
    BY <1>2, <2>1
  <2> HIDE DEF page
  <2> QED
    BY <2>1, <2>2, <2>3
<1>5. /\ t \in Run /\ t.rows = rows /\ t.query = run.query /\ t.seen = run.seen
      /\ t.overtaken = run.overtaken /\ t.pending = FALSE
  BY <1>1, <1>4 DEF Run
<1>6. s = IF Repeats(run, next)
          THEN [t EXCEPT !.next = 0, !.err = TRUE, !.loadingAll = FALSE]
          ELSE [t EXCEPT !.next = next, !.seen = @ \cup ({next} \ {0})]
  BY DEF Accepted
<1> HIDE DEF s, t, rows
<1>7. /\ s \in Run /\ s.rows = rows /\ s.query = run.query
      /\ s.overtaken = run.overtaken /\ s.pending = FALSE
      /\ Repeats(run, next) => s.next = 0
      /\ ~Repeats(run, next) => s.next = next /\ s.seen = run.seen \cup ({next} \ {0})
  <2>1. CASE Repeats(run, next)
    <3>1. s = [t EXCEPT !.next = 0, !.err = TRUE, !.loadingAll = FALSE]
      BY <1>6, <2>1
    <3>2. 0 \in 0..MaxPages
      BY BrowseAssumption
    <3> QED
      BY <1>5, <2>1, <3>1, <3>2 DEF Run
  <2>2. CASE ~Repeats(run, next)
    <3>1. s = [t EXCEPT !.next = next, !.seen = @ \cup ({next} \ {0})]
      BY <1>6, <2>2
    <3>2. {next} \ {0} \subseteq 1..MaxPages
      BY <1>3, BrowseAssumption
    <3>3. t.seen \cup ({next} \ {0}) \in SUBSET (1..MaxPages)
      BY <1>5, <3>2 DEF Run
    <3> QED
      BY <1>3, <1>5, <2>2, <3>1, <3>3 DEF Run
  <2> QED
    BY <2>1, <2>2
<1>8. One(requests) /\ CurrentOf(requests \ {q}) = {}
  BY <1>1 DEF Inv, One, CurrentOf
<1>9. ASSUME ~run.overtaken
      PROVE  /\ InOrder(s) /\ Len(rows) = q.page
             /\ q.page > 1 => 2..q.page \subseteq run.seen
  <2>1. Asks(run, q)
    BY <1>1, <1>9 DEF Inv, ListOK
  <2>2. CASE q.page = 1
    <3>1. rows = <<page>>
      BY <2>2 DEF rows
    <3> QED
      BY <3>1, <2>1, <2>2, <1>7 DEF InOrder, Asks
  <2>3. CASE q.page # 1
    <3>1. /\ \A i \in DOMAIN run.rows : run.rows[i] = <<run.query, i>>
          /\ q.page = Len(run.rows) + 1 /\ 2..q.page \subseteq run.seen
          /\ q.query = run.query
      BY <2>1, <2>3 DEF Asks, Continues, InOrder
    <3>2. run.rows \in Seq(Queries \X (1..MaxPages))
      BY <1>1 DEF Run
    <3>3. \A i \in DOMAIN run.rows : i # q.page
      BY <3>1, <3>2
    <3>4. rows = Append(run.rows, page)
      BY <2>3, <3>1, <3>3 DEF rows
    <3>5. Len(rows) = q.page /\ \A i \in DOMAIN rows : rows[i] = <<run.query, i>>
      BY <3>1, <3>2, <3>4, <1>2
    <3> QED
      BY <3>1, <3>5, <1>7 DEF InOrder
  <2> QED
    BY <2>2, <2>3
<1>10. ListOK(s, requests \ {q})
  <2> SUFFICES ASSUME ~s.overtaken, s.next # 0 PROVE Continues(s, s.next)
    BY <1>8 DEF ListOK
  <2>1. /\ InOrder(s) /\ Len(s.rows) = q.page
        /\ q.page > 1 => 2..q.page \subseteq run.seen
    BY <1>7, <1>9
  <2>2. ~Repeats(run, next) /\ s.next = next /\ s.seen = run.seen \cup {next}
    BY <1>7
  <2>3. next \in 2..q.page + 1 /\ next \notin run.seen
    BY <1>3, <2>2 DEF Repeats
  <2>4. next = q.page + 1
    BY <1>2, <2>1, <2>3
  <2>5. 2..next \subseteq s.seen
    BY <1>2, <2>1, <2>2, <2>4
  <2> QED
    BY <1>2, <2>1, <2>2, <2>4, <2>5 DEF Continues
<1>11. ~run.overtaken => OneQuery(s.rows)
  BY <1>7, <1>9, <1>1 DEF InOrder, OneQuery, Run
<1>12. One(requests \ {q})
  BY <1>8 DEF One
<1> QED
  BY <1>7, <1>10, <1>11, <1>12 DEF s

LEMMA AcceptPageStep ==
    ASSUME Inv, Lists, NEW q \in requests, q.kind = "runs", Wanted(q),
           NEW next \in Tokens(q.page), AcceptPage(q, next)
    PROVE  Good
<1> DEFINE s == Accepted(q, run, next)
<1>1. /\ s \in Run /\ ~s.pending
      /\ One(requests \ {q}) /\ ListOK(s, requests \ {q})
      /\ OneQuery(run.rows) /\ ~run.overtaken => OneQuery(s.rows)
  BY AcceptedFacts
<1>2. CASE LoadMore(s, requests \ {q})
  <2>1. LoadMore(s, requests \ {q})
    BY <1>2
  <2>2. /\ run' \in Run /\ requests' \subseteq Requests
        /\ One(requests') /\ ListOK(run', requests') /\ run'.rows = s.rows
        /\ run'.pending => CurrentOf(requests') # {}
    BY <1>1, <2>1, AnswerFacts, LoadMoreFacts
  <2> HIDE DEF s
  <2>3. Together /\ Served
    BY <1>1, <2>2 DEF Together, Served, Lost, Current, CurrentOf
  <2> QED
    BY <2>2, <2>3, PlaceFacts DEF Good, Inv, TypeOK, Place, Requests
<1>3. CASE run' = s /\ requests' = requests \ {q}
  <2>1. run' = s /\ requests' = requests \ {q}
    BY <1>3
  <2> HIDE DEF s
  <2>2. Together /\ Served
    BY <1>1, <2>1 DEF Together, Served, Lost
  <2>3. requests' \subseteq Requests
    BY <2>1, AnswerFacts
  <2> QED
    BY <1>1, <2>1, <2>2, <2>3, PlaceFacts DEF Good, Inv, TypeOK, Place, Requests
<1> QED
  BY <1>2, <1>3 DEF AcceptPage

LEMMA AcceptRunsErrorStep ==
    ASSUME Inv, Lists, NEW q \in requests, AcceptRunsError(q)
    PROVE  Good
<1>1. /\ run' = [run EXCEPT !.pending = FALSE, !.err = TRUE, !.loadingAll = FALSE]
      /\ requests' = requests \ {q}
  BY DEF AcceptRunsError
<1>2. /\ run' \in Run /\ run'.rows = run.rows /\ run'.query = run.query
      /\ run'.next = run.next /\ run'.seen = run.seen /\ run'.overtaken = run.overtaken
      /\ run'.pending = FALSE
  BY <1>1, PlaceFacts DEF Run
<1> QED
  BY <1>1, <1>2, PlaceFacts, AnswerFacts, QuietStep

LEMMA AcceptViewStep ==
    ASSUME Inv, Lists, NEW q \in requests, q.kind = "view", NEW query \in Queries,
           AcceptView(q, query)
    PROVE  Good
<1> DEFINE s == [run EXCEPT !.query = query]
<1>1. s \in Run /\ s.rows = run.rows /\ s.pending = run.pending
  BY PlaceFacts DEF Run
<1>2. CASE selected = Mine /\ place # "activity"
  <2>1. LoadRuns(s, requests \ {q}, FALSE)
    BY <1>2 DEF AcceptView
  <2> HIDE DEF s
  <2> QED
    BY <1>1, <2>1, PlaceFacts, AnswerFacts, LoadRunsFacts, AskingStep
<1>3. CASE ~(selected = Mine /\ place # "activity")
  <2>1. run' = [s EXCEPT !.overtaken = TRUE] /\ requests' = requests \ {q}
    BY <1>3 DEF AcceptView
  <2>2. /\ run' \in Run /\ run'.rows = run.rows /\ run'.overtaken = TRUE
        /\ run'.pending = run.pending
    BY <1>1, <2>1 DEF Run
  <2>3. ListOK(run', requests') /\ One(requests')
    BY <2>1, <2>2, AnswerFacts DEF ListOK, One, Inv
  <2>4. CurrentOf(requests') = CurrentOf(requests)
    BY <2>1, AnswerFacts DEF CurrentOf
  <2>5. TypeOK'
    BY <2>1, <2>2, PlaceFacts, AnswerFacts DEF TypeOK, Place, Requests
  <2>6. Together /\ Served
    BY <2>2, <2>4 DEF Together, Served, Lost, Current, CurrentOf
  <2> QED
    BY <2>3, <2>5, <2>6 DEF Good, Inv
<1> QED
  BY <1>2, <1>3

LEMMA AcceptViewErrorStep ==
    ASSUME Inv, Lists, NEW q \in requests, q.kind = "view", AcceptViewError(q)
    PROVE  Good
<1>1. run' = [run EXCEPT !.viewRequested = FALSE] /\ requests' = requests \ {q}
  BY DEF AcceptViewError
<1>2. /\ run' \in Run /\ run'.rows = run.rows /\ run'.query = run.query
      /\ run'.next = run.next /\ run'.seen = run.seen /\ run'.overtaken = run.overtaken
      /\ run'.pending = run.pending
  BY <1>1, PlaceFacts DEF Run
<1>3. q \notin CurrentOf(requests)
  BY DEF CurrentOf
<1> QED
  BY <1>1, <1>2, <1>3, PlaceFacts, AnswerFacts, QuietStep

LEMMA AnswerStep == ASSUME Inv, Answer PROVE Good
<1> SUFFICES ASSUME ~AnswerAside PROVE Good
  BY GoStep
<1>1. PICK q \in requests : AnswerExperiments(q) \/ AnswerRuns(q) \/ AnswerView(q)
  BY DEF Answer
<1>2. CASE AnswerExperiments(q)
  BY <1>2, AcceptExperimentsStep, DropStep DEF AnswerExperiments
<1>3. CASE AnswerRuns(q)
  BY <1>3, AcceptPageStep, AcceptRunsErrorStep, DropStep DEF AnswerRuns
<1>4. CASE AnswerView(q)
  BY <1>4, AcceptViewStep, AcceptViewErrorStep, DropStep DEF AnswerView
<1> QED
  BY <1>1, <1>2, <1>3, <1>4

-----------------------------------------------------------------------------

LEMMA StepGood == Inv /\ [Next]_vars => Good
<1> SUFFICES ASSUME Inv, [Next]_vars PROVE Good
  OBVIOUS
<1>1. CASE User
  <2>1. CASE \E e \in Exps : Select(e)
    BY <2>1, SelectStep
  <2>2. CASE RefreshKey \/ More \/ LoadAll
    BY <2>2, RefreshStep, MoreStep, LoadAllStep
  <2>3. CASE CancelAll
    BY <2>3, PlaceFacts, StopStep DEF CancelAll, OnMine
  <2>4. CASE SortLocally
    <3>1. Outdate(requests, "view") \in SUBSET Requests
      BY PlaceFacts, OutdateFacts
    <3> QED
      BY <2>4, <3>1, StopStep DEF SortLocally, OnMine
  <2>5. CASE \E q \in Queries : SetQuery(q)
    BY <2>5, SetQueryStep
  <2>6. CASE (\E S \in Searches : Type(S)) \/ Esc
    BY <2>6, SearchStep
  <2>7. CASE Enter
    BY <2>7, EnterStep
  <2>8. CASE OpenActivity \/ (\E p \in Places : Go(p)) \/ OpenRuns
    BY <2>8, GoStep, OpenRunsStep
  <2> QED
    BY <1>1, <2>1, <2>2, <2>3, <2>4, <2>5, <2>6, <2>7, <2>8 DEF User
<1>2. CASE Tick
  BY <1>2, RefreshStep DEF Tick
<1>3. CASE Answer
  BY <1>3, AnswerStep
<1>4. CASE Elsewhere
  BY <1>4, ElsewhereStep
<1>5. CASE UNCHANGED vars
  <2>1. UNCHANGED <<experiments, match, selected, typing, place, held, run, requests>>
    BY <1>5 DEF vars
  <2> QED
    BY <2>1, PlaceFacts, QuietStep DEF Lists, Still, Rows
<1> QED
  BY <1>1, <1>2, <1>3, <1>4, <1>5 DEF Next

LEMMA InitInv == Init => Inv
<1> SUFFICES ASSUME Init PROVE Inv
  OBVIOUS
<1>1. /\ NewRun \in Run /\ NewRun.next = 0
  BY BrowseAssumption DEF NewRun, Run
<1>2. requests \subseteq Requests /\ CurrentOf(requests) = {}
  BY DEF Init, Requests, ListRequest, CurrentOf
<1>3. TypeOK
  BY <1>1, <1>2 DEF Init, TypeOK, Requests, Places
<1>4. One(requests) /\ ListOK(run, requests)
  BY <1>1, <1>2 DEF Init, One, ListOK
<1> QED
  BY <1>3, <1>4 DEF Inv

LEMMA AlwaysInv == Spec => []Inv
<1>1. Inv /\ [Next]_vars => Inv'
  BY StepGood DEF Good
<1> QED
  BY InitInv, <1>1, PTL DEF Spec

(* The types of the lists; what is selected is always listed and let       *)
(* through by the search.                                                  *)
THEOREM TypeCorrect == Spec => []TypeOK
<1>1. Inv => TypeOK
  BY DEF Inv
<1> QED
  BY <1>1, AlwaysInv, PTL

(* However answers are delayed and reordered, a list that was not          *)
(* overtaken by its stored view never comes to mix pages.                  *)
THEOREM PagesAreOneQuery == Spec => PagesStayTogether
<1>1. Inv /\ [Next]_vars =>
        [OneQuery(run.rows) /\ ~run.overtaken => OneQuery(run'.rows)]_vars
  BY StepGood DEF Good, Together
<1> QED
  BY <1>1, AlwaysInv, PTL DEF Spec, PagesStayTogether

(* A selected list that waits has a request whose answer it will take, as  *)
(* long as it stays selected: only a search can lose it.                   *)
THEOREM NothingWaitsInVain == Spec => PendingIsServed
<1>1. Inv /\ [Next]_vars => [selected = Mine /\ selected' = Mine /\ ~Lost => ~Lost']_vars
  BY StepGood DEF Good, Served
<1> QED
  BY <1>1, AlwaysInv, PTL DEF Spec, PendingIsServed
=============================================================================

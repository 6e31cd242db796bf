--------------------------- MODULE ActivityRefresh ---------------------------
(***************************************************************************)
(* Refreshes of the activity inbox (internal/activity/service.go) racing   *)
(* over one tracking server and one local store.  A refresher is one call  *)
(* of Refresh: the terminal's poll, its background full scan, or a         *)
(* command of another process.  Each server request and each transaction   *)
(* is a step, so runs start, end and disappear between any two of them.    *)
(*                                                                         *)
(* External: the MLflow server and the training programs, reduced to the   *)
(* answers the requests of src/ can get.  Runs carry no metrics here       *)
(* (MCActivityAlerts has them), a search is answered at one moment, and    *)
(* experiments stay active.                                                *)
(***************************************************************************)
EXTENDS ActivityStore

CONSTANTS
    Refreshers,
    FullRefreshers,  \* the refreshers with Options.Full
    Recurring,       \* the refreshers that a timer starts again and again
    Overlap,         \* how far a poll looks behind its checkpoint
    Window,          \* InitialUnreadDays
    RecentLimit,     \* rows of the recent query
    DefaultPolicy,   \* the effective policy of every experiment
    MaxLag,          \* how late a program reports its own start or end
    MaxTime,         \* bound: the clock
    MaxFaults,       \* bound: failed requests
    Outcomes,        \* the terminal statuses runs end with
    Removals         \* "delete", "purge": how runs may leave the server

ASSUME RefreshAssumption ==
    /\ FullRefreshers \subseteq Refreshers /\ Recurring \subseteq Refreshers
    /\ Overlap \in Nat /\ Window \in Nat /\ MaxLag \in Nat
    /\ RecentLimit \in Nat /\ MaxTime \in Nat \ {0} /\ MaxFaults \in Nat
    /\ DefaultPolicy \in Policy /\ Removals \subseteq {"delete", "purge"}
    /\ Outcomes \subseteq Status \ {"RUNNING"}

VARIABLES
    now,      \* the clock, in units of Overlap
    server,   \* server[r]: the run as the server has it
    since,    \* since[r]: when the server learned the run's last change
    faults,   \* failed requests so far
    task      \* task[p]: the locals of refresher p

refreshVars == <<db, view, now, server, since, faults, task>>

-----------------------------------------------------------------------------
(* The server.                                                             *)

(* The server answers for the runs of these stages; "absent" and "purged"  *)
(* are the ones it does not know yet, or no more.                          *)
OnServer(r) == server[r].stage \in Stage
Listed(r)   == server[r].stage = "active"

(* Stamps are chosen by the program that logs the run.                     *)
Stamps == {t \in 1..now : t >= now - MaxLag}

NewRun(e, stamp) ==
    [exp |-> e, status |-> "RUNNING", start |-> stamp, end |-> 0,
     stage |-> "active", metrics |-> [k \in MetricKeys |-> NotLogged]]

Changed(r) == since' = [since EXCEPT ![r] = now] /\ UNCHANGED <<db, view, now, faults, task>>

StartRun(r) ==
    /\ server[r].stage = "absent"
    /\ \E e \in Exps, t \in Stamps : server' = [server EXCEPT ![r] = NewRun(e, t)]
    /\ Changed(r)

EndRun(r) ==
    /\ Listed(r) /\ server[r].status = "RUNNING"
    /\ \E s \in Outcomes, t \in Stamps :
          /\ t >= server[r].start
          /\ server' = [server EXCEPT ![r].status = s, ![r].end = t]
    /\ Changed(r)

DeleteRun(r) ==
    /\ "delete" \in Removals /\ Listed(r)
    /\ server' = [server EXCEPT ![r].stage = "deleted"]
    /\ Changed(r)

(* mlflow gc: the server no longer knows the run ID.                       *)
PurgeRun(r) ==
    /\ "purge" \in Removals /\ server[r].stage = "deleted"
    /\ server' = [server EXCEPT ![r].stage = "purged"]
    /\ Changed(r)

Tick ==
    /\ now < MaxTime
    /\ now' = now + 1
    /\ UNCHANGED <<db, view, server, since, faults, task>>

-----------------------------------------------------------------------------
(* A refresher.                                                            *)

NoScan == [e \in {} |-> {}]
NoRuns == [r \in {} |-> {}]

Idle == [pc |-> "idle", started |-> 0, from |-> 0, known |-> {}, exps |-> {},
         observed |-> NoRuns, running |-> {}, failed |-> FALSE,
         pending |-> {}, scans |-> NoScan, failures |-> FALSE]

(* scans[e] is what the worker of experiment e has: when it started, and   *)
(* the rows once it has read them.                                         *)
Goto(p, pc) == task' = [task EXCEPT ![p].pc = pc]
Moved(p, t) == task' = [task EXCEPT ![p] = t]
Local == UNCHANGED <<db, view, now, server, since, faults>>

(* The store's Version saturates: no step of this module reads more of it  *)
(* than whether the source has a row.                                      *)
Capped(d) == [d EXCEPT !.version = LesserOf(@, MaxVersion)]
Commit(b) == db' = Capped(ObserveActivity(db, b)) /\ UNCHANGED <<view, now, server, since>>

EmptyBatch(at) ==
    [startedAt |-> at, observedAt |-> at, checkpoint |-> 0, complete |-> FALSE,
     fullScanComplete |-> FALSE, initialUnreadSince |-> 0, forceUnreadSince |-> 0,
     replaceExperiments |-> FALSE, experiments |-> {}, completeExperiments |-> {},
     observations |-> NoRuns, policies |-> NoScan]

Policies(es) == [e \in es |-> DefaultPolicy]
RecordExps(ids) == {db.records[r].run.exp : r \in ids}

Begin(p) ==
    /\ task[p].pc = "idle"
    /\ Moved(p, [Idle EXCEPT !.pc = "load", !.started = now])
    /\ Local

(* Mutant: programs that report their start or end late are not found. *)
SearchFromCheckpoint(d) ==
    IF d.initialized THEN d.checkpoint ELSE d.initialUnreadSince

(* The searches look behind the checkpoint, the first one at the window.   *)
SearchFrom(d) ==
    IF d.initialized THEN GreaterOf(0, d.checkpoint - Overlap) ELSE d.initialUnreadSince

(* What the rest of the call uses of the loaded snapshot. *)
Loaded(p, d) ==
    [task[p] EXCEPT
        !.pc = "discover",
        !.from = SearchFrom(d),
        !.known = {r \in Runs : d.records[r].known},
        !.running = {r \in Runs : d.records[r].known
                                   /\ d.records[r].run.status = "RUNNING"
                                   /\ d.records[r].run.stage # "deleted"}]

Load(p) ==
    /\ task[p].pc = "load"
    /\ IF db.initialUnreadSince = 0 THEN Goto(p, "baseline")
       ELSE Moved(p, Loaded(p, db))
    /\ Local

(* The first-use window is fixed before any server request; a source that  *)
(* has none has no row yet, so its Complete is false.                      *)
FixBaseline(p) ==
    /\ task[p].pc = "baseline"
    /\ Commit([EmptyBatch(task[p].started) EXCEPT
                  !.initialUnreadSince = GreaterOf(1, task[p].started - Window)])
    /\ Moved(p, Loaded(p, db'))
    /\ UNCHANGED faults

Fault == faults < MaxFaults /\ faults' = faults + 1

(* failed(): an error before the run searches leaves only its mark; the    *)
(* policies of the records are replayed if they were all resolved.         *)
FailDiscovery(p) ==
    /\ task[p].pc = "discover"
    /\ Fault
    /\ \E es \in {{}, RecordExps(task[p].known)} :
          Commit([EmptyBatch(task[p].started) EXCEPT !.policies = Policies(es)])
    /\ Moved(p, Idle)

(* The four searches.                                                      *)
Found(p, Match(_)) ==
    {r \in Runs : Listed(r) /\ server[r].exp \in task[p].exps /\ Match(server[r])}

RunningRows == {r \in Runs : Listed(r) /\ server[r].status = "RUNNING"}
StartedRows(p) == Found(p, LAMBDA run : run.start >= task[p].from)
EndedRows(p)   == Found(p, LAMBDA run : run.end >= GreaterOf(1, task[p].from))
AnyEnded(p)    == Found(p, LAMBDA run : run.end > 0)

(* end_time DESC up to the limit *)
RecentRows(p) ==
    {S \in SUBSET AnyEnded(p) :
        /\ Cardinality(S) = LesserOf(RecentLimit, Cardinality(AnyEnded(p)))
        /\ \A r \in S, q \in AnyEnded(p) \ S : server[r].end >= server[q].end}

With(observed, S) ==
    [r \in DOMAIN observed \cup S |-> IF r \in S THEN server[r] ELSE observed[r]]

Query(p, t, pc, S, next) ==
    /\ task[p].pc = pc
    /\ \/ Moved(p, [t EXCEPT !.pc = next, !.observed = With(@, S)]) /\ Local
       \/ \E part \in SUBSET S :   \* a later page failed
            /\ Fault
            /\ Moved(p, [t EXCEPT !.pc = "get", !.failed = TRUE,
                                        !.observed = With(@, part)])
            /\ UNCHANGED <<db, view, now, server, since>>

(* The experiments are listed (they do not change here), then the running  *)
(* runs are; those are none to ask for by ID later.                        *)
QueryRunning(p) ==
    LET t == [task[p] EXCEPT !.exps = Exps, !.running = @ \ RunningRows]
    IN  Query(p, t, "discover", RunningRows, "query2")
QueryStarted(p) == Query(p, task[p], "query2", StartedRows(p), "query3")
QueryEnded(p)   == Query(p, task[p], "query3", EndedRows(p), "query4")
QueryRecent(p)  == \E S \in RecentRows(p) : Query(p, task[p], "query4", S, "get")


ToGet(p) ==
    {r \in task[p].running :
        r \in DOMAIN task[p].observed => task[p].observed[r].status = "RUNNING"}

GetRun(p, r) ==
    /\ task[p].pc = "get" /\ ~task[p].failed /\ r \in ToGet(p)
    /\ \/ /\ OnServer(r)
          /\ Moved(p, [task[p] EXCEPT !.observed = With(@, {r}), !.running = @ \ {r}])
          /\ Local
       \/ /\ IF OnServer(r) THEN Fault ELSE UNCHANGED faults
          /\ Moved(p, [task[p] EXCEPT !.failed = TRUE])
          /\ UNCHANGED <<db, view, now, server, since>>

OldFor(run, t) == run.status # "RUNNING" /\ run.start < t /\ run.end < t

Observations(runs, t, retain) ==
    [r \in DOMAIN runs |-> [run |-> runs[r], policy |-> DefaultPolicy,
                            cacheOnly |-> OldFor(runs[r], t), retain |-> retain]]

(* Mutant: a failed query does not make the batch incomplete. *)
CompleteAnyway(t) == TRUE

Complete(t) == ~t.failed

CommitDiscovery(p) ==
    LET t == task[p]
        batch == [EmptyBatch(t.started) EXCEPT
                    !.initialUnreadSince = db.initialUnreadSince,
                    !.complete = Complete(t),
                    !.checkpoint = IF Complete(t) THEN t.started ELSE 0,
                    !.replaceExperiments = Complete(t),
                    !.experiments = t.exps,
                    !.observations = Observations(t.observed, t.from, TRUE),
                    !.policies = Policies(t.exps \cup RecordExps(t.known))]
    IN  /\ t.pc = "get" /\ (t.failed \/ ToGet(p) = {})
        /\ Commit(batch)
        /\ UNCHANGED faults
        /\ IF t.failed \/ p \notin FullRefreshers THEN Moved(p, Idle)
           ELSE Moved(p, [t EXCEPT !.pc = "scan", !.pending = t.exps])

(* The full scan has two workers, whose results commit one by one: two     *)
(* wait in the channel while one is committed, and with more of them the   *)
(* workers wait.                                                           *)
WorkerIsFree(scans) ==
    /\ Cardinality({e \in DOMAIN scans : ~scans[e].read}) < 2
    /\ Cardinality(DOMAIN scans) < 5

StartScan(p, e) ==
    /\ task[p].pc = "scan" /\ e \in task[p].pending
    /\ WorkerIsFree(task[p].scans)
    /\ Moved(p, [task[p] EXCEPT
                    !.pending = @ \ {e},
                    !.scans = [x \in DOMAIN @ \cup {e} |->
                        IF x = e THEN [started |-> now, read |-> FALSE, runs |-> NoRuns]
                        ELSE @[x]]])
    /\ Local

DropScan(scans, e) == [x \in DOMAIN scans \ {e} |-> scans[x]]

ReadScan(p, e) ==
    /\ task[p].pc = "scan" /\ e \in DOMAIN task[p].scans /\ ~task[p].scans[e].read
    /\ \/ /\ Moved(p, [task[p] EXCEPT
                    !.scans[e].read = TRUE,
                    !.scans[e].runs = With(NoRuns, {r \in Runs : Listed(r) /\ server[r].exp = e})])
          /\ Local
       \/ /\ Fault
          /\ Moved(p, [task[p] EXCEPT !.failures = TRUE, !.scans = DropScan(@, e)])
          /\ UNCHANGED <<db, view, now, server, since>>

CommitScan(p, e) ==
    LET scan == task[p].scans[e]
    IN  /\ task[p].pc = "scan" /\ e \in DOMAIN task[p].scans /\ scan.read
        /\ Commit([EmptyBatch(scan.started) EXCEPT
                     !.complete = TRUE, !.completeExperiments = {e},
                     !.initialUnreadSince = db.initialUnreadSince,
                     !.observations =
                        Observations(scan.runs, db.initialUnreadSince, FALSE)])
        /\ Moved(p, [task[p] EXCEPT !.scans = DropScan(@, e)])
        /\ UNCHANGED faults

FinishScan(p) ==
    /\ task[p].pc = "scan" /\ task[p].pending = {} /\ DOMAIN task[p].scans = {}
    /\ Commit([EmptyBatch(now) EXCEPT !.complete = ~task[p].failures,
                                     !.fullScanComplete = ~task[p].failures])
    /\ Moved(p, Idle)
    /\ UNCHANGED faults

(* Cancellation, a crash, or a transaction that failed.                    *)
Abandon(p) ==
    /\ task[p].pc # "idle"
    /\ Fault
    /\ Moved(p, Idle)
    /\ UNCHANGED <<db, view, now, server, since>>

RefreshStep(p) ==
    \/ Begin(p) \/ Load(p) \/ FixBaseline(p)
    \/ QueryRunning(p) \/ QueryStarted(p) \/ QueryEnded(p) \/ QueryRecent(p)
    \/ \E r \in Runs : GetRun(p, r)
    \/ CommitDiscovery(p)
    \/ \E e \in Exps : StartScan(p, e) \/ ReadScan(p, e) \/ CommitScan(p, e)
    \/ FinishScan(p)

(* A client reads everything its snapshot shows. *)
Look(c) ==
    /\ LoadActivity(c)
    /\ UNCHANGED <<now, server, since, faults, task>>

ReadAll(c) ==
    /\ db' = Capped(MarkActivityRead(db, Receipts(c, Shown(c))))
    /\ UNCHANGED <<view, now, server, since, faults, task>>

RefreshInit ==
    /\ Init
    /\ now = 1
    /\ server = [r \in Runs |-> [NewRun(NoExp, 0) EXCEPT !.stage = "absent"]]
    /\ since = [r \in Runs |-> 0]
    /\ faults = 0
    /\ task = [p \in Refreshers |-> Idle]

RefreshNext ==
    \/ \E r \in Runs : StartRun(r) \/ EndRun(r) \/ DeleteRun(r) \/ PurgeRun(r)
    \/ Tick
    \/ \E p \in Refreshers : RefreshStep(p) \/ FailDiscovery(p) \/ Abandon(p)
    \/ \E c \in Clients : Look(c) \/ ReadAll(c)

RefreshSpec == RefreshInit /\ [][RefreshNext]_refreshVars

(* The terminal's poll recurs (activityTick), its requests are answered or *)
(* time out, and the clock runs to its bound.  The other refreshers, such  *)
(* as the background scan that the terminal starts once for an experiment  *)
(* without a complete count, or a command, need not begin, go on or end.   *)
(* A step of RefreshStep(p) is enabled in every state and changes task[p], *)
(* and the other steps of p are bounded by MaxFaults, so the third         *)
(* conjunct is weak fairness of RefreshStep(p), stated without ENABLED.    *)
FairRefreshSpec ==
    /\ RefreshSpec
    /\ WF_refreshVars(Tick)
    /\ \A p \in Recurring : []<><<task'[p] # task[p]>>_task
-----------------------------------------------------------------------------
(* What the inbox promises.                                                *)

RefreshTypeOK ==
    /\ TypeOK
    /\ now \in 1..MaxTime /\ faults \in 0..MaxFaults
    /\ \A r \in Runs : server[r].stage \in Stage \cup {"absent", "purged"}
    /\ \A p \in Refreshers : task[p].pc \in
          {"idle", "load", "baseline", "discover", "query2", "query3", "query4",
           "get", "scan"} /\ task[p].from \in Nat

(* The run's last change was on the server before the checkpoint, and the  *)
(* run is running or falls in the first-use window.                        *)
Settled(r) ==
    /\ Listed(r) /\ since[r] < db.checkpoint
    /\ server[r].status = "RUNNING" \/ Since(server[r], db.initialUnreadSince)

(* The checkpoint is honest: whatever the interleaving of polls, full      *)
(* scans, failed requests and abandoned calls, a run whose last change     *)
(* precedes the checkpoint is recorded as the server has it and was        *)
(* announced (its revision is above the silent baseline).  The next poll   *)
(* looks only behind the checkpoint, so a run missed here is lost.         *)
CheckpointIsHonest ==
    \A r \in Runs : Settled(r) =>
        /\ db.records[r].known
        /\ db.records[r].run = server[r]
        /\ db.records[r].revision > 1

(* Such a run is unread, or some client has shown that very revision.      *)
SettledIsUnreadOrShown ==
    \A r \in Runs : Settled(r) =>
        \/ Unread(db.records[r])
        \/ \E c \in Clients : view[c][r] >= db.records[r].revision

(* The status index counts such a run, under its status: pruning by a full *)
(* scan and late rows of older requests do not take it away.               *)
IndexIsHonest ==
    \A r \in Runs : Settled(r) =>
        db.runCache[r].cached /\ db.runCache[r].status = server[r].status

(* The inbox converges: once the programs stop, the poll that recurs brings *)
(* every record the inbox is about back in line with the server, whatever  *)
(* stale data races, failures and wrong tombstones left behind.            *)
EventuallyInSync ==
    <>[](\A r \in Runs :
        Listed(r) /\ (server[r].status = "RUNNING" \/ Since(server[r], db.initialUnreadSince))
            => db.records[r].known /\ db.records[r].run = server[r])

ListedAsRunning(r) == Visible(db, r) /\ db.records[r].run.status = "RUNNING"

(* The step that ends a full refresh of p whose scans all succeeded.       *)
Completes(p) == FinishScan(p) /\ ~task[p].failures


-----------------------------------------------------------------------------
(* What the documentation, the comments and the tests say, and racing      *)
(* refreshes break.                                                        *)

(* "Later scans retain unread entries until read": a listed unread row     *)
(* leaves the list only when a client read it or its run was deleted.      *)
UnreadIsRetained ==
    [][\A r \in UnreadRows(db) :
        \/ r \in UnreadRows(db')
        \/ ~Unread(db'.records[r])
        \/ ~Listed(r)]_refreshVars

(* "activity refresh --full reconciles the target": with full refreshes    *)
(* that recur and requests that are answered, a run the server no longer   *)
(* has does not stay listed as running.                                    *)
RemovedRunsAreReconciled ==
    \A r \in Runs :
        server[r].stage = "purged" ~> ~ListedAsRunning(r)
=============================================================================

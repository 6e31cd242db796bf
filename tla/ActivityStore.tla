---------------------------- MODULE ActivityStore ----------------------------
(***************************************************************************)
(* The activity tables of one source in the local SQLite state             *)
(* (internal/localstate/activity.go).  Every operation is one immediate    *)
(* transaction, so it is one action on db; LoadActivity gives a client     *)
(* (a terminal or a command) the snapshot its later receipts come from.    *)
(* The batches are those of the set Batches, in any order and any number   *)
(* of times: refreshes of several processes race, and late ones arrive.    *)
(***************************************************************************)
EXTENDS ActivityReducer

CONSTANTS
    Clients,      \* terminals and commands that show snapshots
    Batches,      \* the batches refreshes may deliver
    MaxVersion    \* bound: transactions committed in a behaviour

(* What a batch is.  Its observations are a partial function from runs (a   *)
(* batch observes a run once at most), its policies (PolicyUpdates) one    *)
(* from experiments.                                                       *)
IsBatch(b) ==
    /\ b.startedAt \in Nat /\ b.observedAt \in Nat \ {0} /\ b.checkpoint \in Nat
    /\ b.startedAt <= b.observedAt   \* every batch of src/ stamps both alike
    /\ b.complete \in BOOLEAN /\ b.fullScanComplete \in BOOLEAN
    /\ b.initialUnreadSince \in Nat /\ b.forceUnreadSince \in Nat
    /\ b.replaceExperiments \in BOOLEAN /\ b.experiments \subseteq Exps
    /\ b.completeExperiments \subseteq Exps
    /\ \A r \in DOMAIN b.observations : b.observations[r] \in Observation
    /\ \A e \in DOMAIN b.policies : b.policies[e] \in Policy
    /\ \A r \in DOMAIN b.observations :   \* a refresh resolves a policy once
         LET obs == b.observations[r] IN
         obs.run.exp \in DOMAIN b.policies => b.policies[obs.run.exp] = obs.policy

ASSUME BatchesAssumption  == \A b \in Batches : IsBatch(b)
ASSUME ExpsAssumption     == Exps # {}
ASSUME VersionAssumption  == MaxVersion \in Nat

VARIABLES
    db,     \* the rows of the source
    view    \* view[c]: the record revisions of the snapshot client c shows

vars == <<db, view>>

(* A row of activity_run_cache. *)
CacheRow == [cached : BOOLEAN, exp : Exps, status : Status, observedAt : Nat]

(* counts[e] is the ScannedAt of the activity_count_cache row, 0 for none. *)
Database == [records : [Runs -> Record], runCache : [Runs -> CacheRow],
             counts : [Exps -> Nat], experiments : SUBSET Exps,
             checkpoint : Nat, initialized : BOOLEAN, initialUnreadSince : Nat,
             lastFullScan : Nat, updatedAt : Nat, complete : BOOLEAN,
             version : Nat]

TypeOK == db \in Database /\ view \in [Clients -> [Runs -> Nat]]

-----------------------------------------------------------------------------

NoExp == CHOOSE e \in Exps : TRUE

NotLogged == [value |-> "none", step |-> 0]

NoRecord ==
    [known |-> FALSE,
     run |-> [exp |-> NoExp, status |-> "RUNNING", start |-> 0, end |-> 0,
              stage |-> "active", metrics |-> [k \in MetricKeys |-> NotLogged]],
     revision |-> 0, readRevision |-> 0, reasons |-> {},
     alerts |-> [id \in AlertIds |-> NoAlert], observedAt |-> 0,
     baselines |-> [s \in Subscription |-> Unset]]

NoRow == [cached |-> FALSE, exp |-> NoExp, status |-> "RUNNING", observedAt |-> 0]

NewActivitySnapshot ==
    [records |-> [r \in Runs |-> NoRecord], runCache |-> [r \in Runs |-> NoRow],
     counts |-> [e \in Exps |-> 0], experiments |-> {}, checkpoint |-> 0,
     initialized |-> FALSE, initialUnreadSince |-> 0, lastFullScan |-> 0,
     updatedAt |-> 0, complete |-> FALSE, version |-> 0]

Init == db = NewActivitySnapshot /\ view = [c \in Clients |-> [r \in Runs |-> 0]]

-----------------------------------------------------------------------------
(* ObserveActivity, stage by stage: d is the database the transaction      *)
(* read, b the batch.                                                      *)

(* Mutant: the newest refresh is whichever commits last. *)
CommitsLast(d, b) == TRUE

Current(d, b) == b.observedAt >= d.updatedAt

InitialSince(d, b) ==
    IF d.initialUnreadSince = 0 THEN b.initialUnreadSince ELSE d.initialUnreadSince

(* Mutant: a scan replaces the newer rows too. *)
PrunedRowAnyAge(d, b, r) ==
    IF d.runCache[r].cached /\ d.runCache[r].exp \in b.completeExperiments
    THEN NoRow ELSE d.runCache[r]

(* The rows of a scanned experiment are replaced, the newer ones excepted. *)
PrunedRow(d, b, r) ==
    LET row == d.runCache[r]
    IN  IF row.cached /\ row.exp \in b.completeExperiments
                      /\ row.observedAt <= b.startedAt
        THEN NoRow ELSE row

NextRow(d, b, r) ==
    LET row == PrunedRow(d, b, r)
        run == b.observations[r].run
    IN  IF r \notin DOMAIN b.observations \/ (row.cached /\ row.observedAt > b.observedAt)
        THEN row
        ELSE IF run.stage = "deleted" THEN NoRow
        ELSE [cached |-> TRUE, exp |-> run.exp, status |-> run.status,
              observedAt |-> b.observedAt]

(* History without alerts is counted, not kept. *)
CountedOnly(d, obs, r) ==
    /\ obs.cacheOnly /\ ~obs.retain /\ ~d.records[r].known
    /\ DetectActivityAlerts(obs.run, obs.policy) = {}

(* Mutant: a run once seen deleted is not looked at again. *)
ObservedUnlessDeleted(d, b, r) ==
    IF r \notin DOMAIN b.observations \/ CountedOnly(d, b.observations[r], r)
                                      \/ d.records[r].run.stage = "deleted"
    THEN d.records[r]
    ELSE ObserveActivityRecord(d.records[r], b.observations[r], b.observedAt,
                               InitialSince(d, b), b.forceUnreadSince, d.initialized)

ObservedRecord(d, b, r) ==
    IF r \notin DOMAIN b.observations \/ CountedOnly(d, b.observations[r], r)
    THEN d.records[r]
    ELSE ObserveActivityRecord(d.records[r], b.observations[r], b.observedAt,
                               InitialSince(d, b), b.forceUnreadSince, d.initialized)

(* Mutant: a complete scan also hides the records that are newer than it.  *)
ReconciledRecordAnyAge(d, b, r) ==
    LET rec == ObservedRecord(d, b, r)
    IN  IF /\ rec.known /\ rec.run.exp \in b.completeExperiments
           /\ r \notin DOMAIN b.observations
        THEN [rec EXCEPT !.run.stage = "deleted", !.observedAt = b.observedAt]
        ELSE rec

(* A run a complete scan of its experiment did not return is gone. *)
ReconciledRecord(d, b, r) ==
    LET rec == ObservedRecord(d, b, r)
    IN  IF /\ rec.known /\ rec.run.exp \in b.completeExperiments
           /\ r \notin DOMAIN b.observations /\ rec.observedAt <= b.startedAt
        THEN [rec EXCEPT !.run.stage = "deleted", !.observedAt = b.observedAt]
        ELSE rec

(* A policy is applied to the cached evidence, which does not get younger. *)
ReplayedPolicy(b, rec) ==
    [ObserveActivityRecord(rec,
        [run |-> rec.run, policy |-> b.policies[rec.run.exp],
         cacheOnly |-> TRUE, retain |-> TRUE], b.observedAt, 0, 0, TRUE)
     EXCEPT !.observedAt = rec.observedAt]

NextRecord(d, b, r) ==
    LET rec == ReconciledRecord(d, b, r)
    IN  IF /\ Current(d, b) /\ rec.known /\ rec.run.stage # "deleted"
           /\ rec.run.exp \in DOMAIN b.policies
        THEN ReplayedPolicy(b, rec)
        ELSE rec

Advances(d, b) == b.complete /\ b.checkpoint > d.checkpoint

ObserveActivity(d, b) ==
    [records  |-> [r \in Runs |-> NextRecord(d, b, r)],
     runCache |-> [r \in Runs |-> NextRow(d, b, r)],
     counts   |-> [e \in Exps |->
                    IF e \in b.completeExperiments /\ d.counts[e] <= b.observedAt
                    THEN b.observedAt ELSE d.counts[e]],
     experiments |-> IF b.replaceExperiments /\ Current(d, b)
                     THEN b.experiments ELSE d.experiments,
     checkpoint  |-> IF Advances(d, b) THEN b.checkpoint ELSE d.checkpoint,
     initialized |-> d.initialized \/ Advances(d, b),
     initialUnreadSince |-> InitialSince(d, b),
     lastFullScan |-> IF b.fullScanComplete /\ b.observedAt > d.lastFullScan
                      THEN b.observedAt ELSE d.lastFullScan,
     updatedAt |-> IF Current(d, b) THEN b.observedAt ELSE d.updatedAt,
     complete  |-> IF Current(d, b) THEN b.complete ELSE d.complete,
     version   |-> d.version + 1]

-----------------------------------------------------------------------------
(* changeActivity: receipts is a partial function from runs to revisions.  *)
(* Nothing is written before the source has a row, or for unknown runs.    *)

ChangeActivity(d, receipts, Change(_, _)) ==
    IF d.version = 0 THEN d
    ELSE [d EXCEPT !.records = [r \in Runs |->
                        IF r \in DOMAIN receipts /\ @[r].known
                        THEN Change(@[r], receipts[r]) ELSE @[r]],
                   !.version = @ + 1]

MarkActivityRead(d, receipts) == ChangeActivity(d, receipts, MarkReadRecord)

MarkActivityUnread(d, ids) ==
    ChangeActivity(d, [r \in ids |-> 0],
                   LAMBDA rec, receipt : MarkUnreadRecord(rec))

AcknowledgeActivity(d, receipts, acknowledged) ==
    ChangeActivity(d, receipts,
                   LAMBDA rec, receipt : AcknowledgeRecord(rec, receipt, acknowledged))

ClearActivityCache(d) ==
    [d EXCEPT !.runCache = [r \in Runs |-> NoRow],
              !.counts = [e \in Exps |-> 0],
              !.version = IF @ = 0 THEN 0 ELSE @ + 1]

-----------------------------------------------------------------------------
(* Derived rows of a loaded snapshot.                                      *)

Visible(d, r) ==
    /\ d.records[r].known /\ d.records[r].run.stage # "deleted"
    /\ d.initialized => d.records[r].run.exp \in d.experiments

UnreadRows(d) == {r \in Runs : Visible(d, r) /\ Unread(d.records[r])}

-----------------------------------------------------------------------------
(* The transactions as actions.  A transaction that fails (SQLITE_BUSY     *)
(* past its retries, cancellation) rolls back and is no step.              *)

MayCommit == db.version < MaxVersion

(* What client c can acknowledge: rows of its snapshot, at the shown       *)
(* revisions.                                                              *)
Shown(c) == {r \in Runs : view[c][r] > 0}
Receipts(c, S) == [r \in S |-> view[c][r]]

LoadActivity(c) ==
    /\ view' = [view EXCEPT ![c] = [r \in Runs |-> db.records[r].revision]]
    /\ UNCHANGED db

Observe(b) ==
    /\ MayCommit
    /\ db' = ObserveActivity(db, b)
    /\ UNCHANGED view

MarkRead(c, S) ==
    /\ MayCommit
    /\ db' = MarkActivityRead(db, Receipts(c, S))
    /\ UNCHANGED view

MarkUnread(c, S) ==
    /\ MayCommit
    /\ db' = MarkActivityUnread(db, S)
    /\ UNCHANGED view

Acknowledge(c, S, acknowledged) ==
    /\ MayCommit
    /\ db' = AcknowledgeActivity(db, Receipts(c, S), acknowledged)
    /\ UNCHANGED view

ClearCache ==
    /\ MayCommit
    /\ db' = ClearActivityCache(db)
    /\ UNCHANGED view

Personal(c) ==
    \/ LoadActivity(c)
    \/ \E S \in SUBSET Shown(c) :
         \/ MarkRead(c, S)
         \/ MarkUnread(c, S)
         \/ \E acknowledged \in BOOLEAN : Acknowledge(c, S, acknowledged)

Next ==
    \/ \E b \in Batches : Observe(b)
    \/ \E c \in Clients : Personal(c)
    \/ ClearCache

Spec == Init /\ [][Next]_vars
-----------------------------------------------------------------------------
(* What the store promises.                                                *)

(* Reading consumes only what was shown: every read revision above the     *)
(* baseline 1 is one that some client's snapshot displayed (MarkActivity-  *)
(* Read caps a receipt at the revision the client loaded).                 *)
ReadWasShown ==
    \A r \in Runs : db.records[r].readRevision > 1 =>
        \E c \in Clients : db.records[r].readRevision <= view[c][r]

(* An acknowledged episode was on some client's screen: an old receipt     *)
(* never silences an episode that began after its snapshot.                *)
AcknowledgedWasShown ==
    \A r \in Runs, id \in AlertIds :
        LET a == db.records[r].alerts[id]
        IN  a.present /\ a.acknowledged => \E c \in Clients : a.episode <= view[c][r]

(* A record tells why it is unread, and a read record keeps no stale       *)
(* reason: the reducer, the receipts and the unread mark agree.            *)
ReasonsMatchUnread ==
    \A r \in Runs : Unread(db.records[r]) <=> db.records[r].reasons # {}

(* An episode never starts above its record's revision, so a receipt for   *)
(* the current revision always covers it; records stay between 1 and their *)
(* revision.                                                               *)
EpisodesWithinRevision ==
    \A r \in Runs :
        LET rec == db.records[r]
        IN  /\ rec.known => 1 <= rec.readRevision /\ rec.readRevision <= rec.revision
            /\ \A id \in AlertIds : rec.alerts[id].present =>
                  rec.known /\ 1 <= rec.alerts[id].episode
                            /\ rec.alerts[id].episode <= rec.revision

(* Whatever the order in which batches of racing refreshes arrive, no      *)
(* durable cursor moves back: the discovery checkpoint, the scan times,    *)
(* the first-use cutoff, the version that orders snapshots, and for each   *)
(* run its revisions, receipts and observation time.                       *)
CursorsNeverMoveBack ==
    /\ db.checkpoint <= db'.checkpoint
    /\ db.lastFullScan <= db'.lastFullScan
    /\ db.updatedAt <= db'.updatedAt
    /\ db.initialized => db'.initialized
    /\ db.initialUnreadSince # 0 => db'.initialUnreadSince = db.initialUnreadSince
    /\ db # db' => db.version < db'.version
    /\ \A r \in Runs :
          /\ db.records[r].revision <= db'.records[r].revision
          /\ db.records[r].readRevision <= db'.records[r].readRevision
          /\ db.records[r].observedAt <= db'.records[r].observedAt
NeverMovesBack == [][CursorsNeverMoveBack]_vars

(* Continued trouble stays in one episode, a new episode is announced, and *)
(* only the user's restore undoes an acknowledgement: an alert changes its *)
(* episode only after it was inactive or failed again at another end time, *)
(* and then with a higher revision that is unread.                         *)
EpisodeStep(r, id) ==
    LET a == db.records[r].alerts[id]
        b == db'.records[r].alerts[id]
    IN  a.present =>
        /\ b.present
        /\ a.episode # b.episode =>
             /\ ~a.active \/ db'.records[r].run.end # db.records[r].run.end
             /\ b.episode > db.records[r].revision
             /\ Unread(db'.records[r])
             /\ ~b.acknowledged
        /\ a.acknowledged /\ ~b.acknowledged /\ a.episode = b.episode =>
             \E c \in Clients, S \in SUBSET Runs : Acknowledge(c, S, FALSE)
EpisodesContinue == [][\A r \in Runs, id \in AlertIds : EpisodeStep(r, id)]_vars

(* Missing metrics, disabled rules and late data are no recovery: an       *)
(* active alert becomes inactive only in the step that records a run where *)
(* the metric is logged and finite again, or that no longer fails.         *)
RecoveryStep(r, id) ==
    LET a == db.records[r].alerts[id]
        b == db'.records[r].alerts[id]
        run == db'.records[r].run
    IN  a.present /\ a.active /\ ~b.active =>
        IF id = "failed" THEN run.status # "FAILED"
        ELSE run.metrics[id].value \in {"finite", "other"}
RecoveryNeedsEvidence == [][\A r \in Runs, id \in AlertIds : RecoveryStep(r, id)]_vars

(* A run whose status or end time differs from the one a client last read  *)
(* is unread: a change of what the record says about the run's fate always *)
(* comes with a higher revision.                                           *)
StatusStep(r) ==
    LET old == db.records[r]
        new == db'.records[r]
    IN  old.known /\ (old.run.status # new.run.status \/ old.run.end # new.run.end) =>
        new.revision > old.revision /\ <<"status">> \in new.reasons
StatusChangesAreUnread == [][\A r \in Runs : StatusStep(r)]_vars

(* A subscribed metric never changes its baseline in silence, and a metric *)
(* that stops being reported keeps it: while a subscription is in force,   *)
(* its baseline moves only to a logged value, with the reason named and    *)
(* the revision raised; so a gap in the log hides no change.               *)
MetricStep(r, sub) ==
    LET old == db.records[r]
        new == db'.records[r]
    IN  old.baselines[sub] # Unset /\ new.baselines[sub] \notin {Unset, old.baselines[sub]} =>
        /\ new.baselines[sub] # <<>>
        /\ <<"metric", sub[2]>> \in new.reasons
        /\ new.revision > old.revision
MetricChangesAreUnread == [][\A r \in Runs, sub \in Subscription : MetricStep(r, sub)]_vars

(* The store keeps the promise of the inbox: its transactions post         *)
(* revisions and catch receipts up, and nothing else touches them.         *)
Inbox == INSTANCE ActivityInbox WITH
    posted <- [r \in Runs |-> db.records[r].revision],
    read   <- [r \in Runs |-> db.records[r].readRevision],
    shown  <- view
KeepsInboxPromise == Inbox!Spec
=============================================================================

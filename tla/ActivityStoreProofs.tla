------------------------- MODULE ActivityStoreProofs -------------------------
(***************************************************************************)
(* Theorems of ActivityStore, for every set of runs, experiments, metric   *)
(* keys, clients and batches.                                              *)
(***************************************************************************)
EXTENDS ActivityStore, TLAPS

-----------------------------------------------------------------------------
(* What the operators of the reducer return.                               *)

LEMMA FingerprintType ==
    ASSUME NEW run \in Run, NEW sub \in Subscription
    PROVE  SubFingerprint(run, sub) \in Fingerprint
<1>1. sub[2] \in MetricKeys
  BY DEF Subscription
<1>2. run.metrics[sub[2]] \in Sample
  BY <1>1 DEF Run
<1>3. /\ run.metrics[sub[2]].value \in Value
      /\ run.metrics[sub[2]].step \in Nat
  BY <1>2 DEF Sample
<1> QED
  BY <1>3 DEF SubFingerprint, Fingerprint

LEMMA BaselinesType ==
    ASSUME NEW prev \in Record, NEW obs \in Observation
    PROVE  NextBaselines(prev, obs) \in [Subscription -> Fingerprint]
<1>1. ASSUME NEW sub \in Subscription
      PROVE  /\ prev.baselines[sub] \in Fingerprint
             /\ SubFingerprint(obs.run, sub) \in Fingerprint
             /\ Unset \in Fingerprint
  BY FingerprintType DEF Record, Observation, Fingerprint
<1> QED
  BY <1>1 DEF NextBaselines

LEMMA NextAlertType ==
    ASSUME NEW prev \in Record, NEW obs \in Observation,
           NEW revision \in Nat, NEW id \in AlertIds
    PROVE  NextAlert(prev, obs, revision, id) \in Alert
<1>1. prev.alerts[id] \in Alert
  BY DEF Record
<1>2. Enabled(obs.policy, id) \in BOOLEAN /\ Recovered(obs.run, id) \in BOOLEAN
  BY DEF Enabled, Watched, Recovered, Logged, NonFinite, Observation, Policy
<1> QED
  BY <1>1, <1>2 DEF NextAlert, Alert

LEMMA EventReasonsType ==
    ASSUME NEW prev, NEW obs \in Observation, NEW i, NEW f, NEW initialized
    PROVE  EventReasons(prev, obs, i, f, initialized) \subseteq Reason
<1>1. ChangedSubs(prev, obs) \subseteq Subscription
  BY DEF ChangedSubs, Observation, Policy
<1>2. \A sub \in Subscription : sub[2] \in MetricKeys
  BY DEF Subscription
<1>3. NewEpisodes(prev, obs) \subseteq AlertIds
  BY DEF NewEpisodes, DetectActivityAlerts
<1> QED
  BY <1>1, <1>2, <1>3 DEF EventReasons, Reason

LEMMA ReducerType ==
    ASSUME NEW prev \in Record, NEW obs \in Observation, NEW now \in Nat,
           NEW i, NEW f, NEW initialized
    PROVE  ObserveActivityRecord(prev, obs, now, i, f, initialized) \in Record
<1> DEFINE reasons == EventReasons(prev, obs, i, f, initialized)
           base == IF prev.revision = 0 THEN 1 ELSE prev.revision
           revision == IF reasons = {} THEN base ELSE base + 1
<1>1. CASE prev.observedAt > now
  BY <1>1 DEF ObserveActivityRecord
<1>2. CASE ~(prev.observedAt > now)
  <2>1. reasons \in SUBSET Reason /\ prev.reasons \in SUBSET Reason
    BY EventReasonsType DEF Record
  <2>2. revision \in Nat /\ prev.readRevision \in Nat
    BY DEF Record
  <2>3. [id \in AlertIds |-> NextAlert(prev, obs, revision, id)] \in [AlertIds -> Alert]
    BY <2>2, NextAlertType
  <2>4. NextBaselines(prev, obs) \in [Subscription -> Fingerprint]
    BY BaselinesType
  <2>5. obs.run \in Run
    BY DEF Observation
  <2> HIDE DEF reasons, revision
  <2> QED
    BY <1>2, <2>1, <2>2, <2>3, <2>4, <2>5 DEF ObserveActivityRecord, Record, reasons, revision, base
<1> QED
  BY <1>1, <1>2

-----------------------------------------------------------------------------
(* One record.                                                             *)

(* The inductive part of the invariants that speaks of one record.         *)
RecordInv(rec) ==
    /\ ~rec.known => /\ rec.revision = 0 /\ rec.readRevision = 0
                     /\ \A id \in AlertIds : ~rec.alerts[id].present
                     /\ \A sub \in Subscription : rec.baselines[sub] = Unset
    /\ rec.known => 1 <= rec.readRevision /\ rec.readRevision <= rec.revision
    /\ Unread(rec) <=> rec.reasons # {}
    /\ \A id \in AlertIds : rec.alerts[id].present =>
          1 <= rec.alerts[id].episode /\ rec.alerts[id].episode <= rec.revision

(* What an observation may make of a record: it posts news, it never       *)
(* reads or acknowledges.                                                  *)
Follows(old, new) ==
    /\ new \in Record /\ RecordInv(new)
    /\ old.revision <= new.revision
    /\ new.readRevision = IF old.revision = 0 /\ new.revision > 0
                          THEN 1 ELSE old.readRevision
    /\ old.observedAt <= new.observedAt
    /\ \A id \in AlertIds : new.alerts[id].present /\ new.alerts[id].acknowledged =>
          /\ old.alerts[id].present /\ old.alerts[id].acknowledged
          /\ old.alerts[id].episode = new.alerts[id].episode

LEMMA FollowsItself ==
    ASSUME NEW rec \in Record, RecordInv(rec)
    PROVE  Follows(rec, rec)
BY DEF Follows, Record

LEMMA FollowsTransitive ==
    ASSUME NEW a \in Record, NEW b, NEW c, Follows(a, b), Follows(b, c)
    PROVE  Follows(a, c)
<1>1. b \in Record /\ c \in Record /\ RecordInv(c)
  BY DEF Follows
<1>2. /\ a.revision <= c.revision
      /\ a.observedAt <= c.observedAt
      /\ c.readRevision = IF a.revision = 0 /\ c.revision > 0
                          THEN 1 ELSE a.readRevision
  BY <1>1 DEF Follows, Record
<1>3. \A id \in AlertIds : c.alerts[id].present /\ c.alerts[id].acknowledged =>
          /\ a.alerts[id].present /\ a.alerts[id].acknowledged
          /\ a.alerts[id].episode = c.alerts[id].episode
  BY DEF Follows
<1> QED
  BY <1>1, <1>2, <1>3 DEF Follows

(* An alert after an observation: an older one, or one of this revision.   *)
LEMMA NextAlertStep ==
    ASSUME NEW prev \in Record, NEW obs \in Observation,
           NEW revision \in Nat, NEW id \in AlertIds
    PROVE  LET old == prev.alerts[id]
               new == NextAlert(prev, obs, revision, id)
           IN  \/ /\ id \in NewEpisodes(prev, obs)
                  /\ new.episode = revision /\ ~new.acknowledged
               \/ /\ id \notin NewEpisodes(prev, obs)
                  /\ new.present = old.present /\ new.episode = old.episode
                  /\ new.acknowledged = old.acknowledged
<1>1. prev.alerts[id] \in Alert
  BY DEF Record
<1>2. CASE id \in NewEpisodes(prev, obs)
  BY <1>2 DEF NextAlert
<1>3. CASE id \notin NewEpisodes(prev, obs)
  BY <1>1, <1>3 DEF NextAlert, Alert
<1> QED
  BY <1>2, <1>3

LEMMA ReducerFollows ==
    ASSUME NEW prev \in Record, RecordInv(prev), NEW obs \in Observation,
           NEW now \in Nat, NEW i, NEW f, NEW initialized
    PROVE  Follows(prev, ObserveActivityRecord(prev, obs, now, i, f, initialized))
<1> DEFINE new == ObserveActivityRecord(prev, obs, now, i, f, initialized)
           reasons == EventReasons(prev, obs, i, f, initialized)
           base == IF prev.revision = 0 THEN 1 ELSE prev.revision
           revision == IF reasons = {} THEN base ELSE base + 1
<1>1. CASE prev.observedAt > now
  BY <1>1, FollowsItself DEF ObserveActivityRecord
<1>2. CASE ~(prev.observedAt > now)
  <2>1. new \in Record
    BY ReducerType
  <2>2. /\ new.known /\ new.revision = revision /\ new.observedAt = now
        /\ new.readRevision = IF prev.revision = 0 THEN 1 ELSE prev.readRevision
        /\ new.reasons = IF reasons = {} THEN prev.reasons
                         ELSE IF Unread(prev) THEN prev.reasons \cup reasons
                         ELSE reasons
        /\ new.alerts = [id \in AlertIds |-> NextAlert(prev, obs, revision, id)]
    BY <1>2 DEF ObserveActivityRecord
  <2>3. /\ prev.revision \in Nat /\ prev.readRevision \in Nat /\ prev.observedAt \in Nat
        /\ prev.known \in BOOLEAN
    BY DEF Record
  <2>4. /\ revision \in Nat /\ revision >= prev.revision /\ revision >= 1
        /\ reasons # {} => revision > prev.revision /\ revision > 1
        /\ reasons = {} => revision = base
    BY <2>3
  <2>5. 1 <= new.readRevision /\ new.readRevision <= new.revision
    BY <2>2, <2>3, <2>4 DEF RecordInv
  <2>6. Unread(new) <=> new.reasons # {}
    <3> HIDE DEF reasons, revision
    <3>1. Unread(prev) <=> prev.reasons # {}
      BY DEF RecordInv
    <3>2. prev.revision = 0 => prev.reasons = {}
      BY <2>3, <3>1 DEF Unread
    <3>3. prev.readRevision <= prev.revision
      BY <2>3 DEF RecordInv
    <3>4. CASE reasons = {}
      BY <3>1, <3>2, <3>3, <3>4, <2>2, <2>3, <2>4 DEF Unread, base
    <3>5. CASE reasons # {}
      BY <3>3, <3>5, <2>2, <2>3, <2>4 DEF Unread
    <3> QED
      BY <3>4, <3>5
  <2>7. ASSUME NEW id \in AlertIds
        PROVE  /\ new.alerts[id].present =>
                    1 <= new.alerts[id].episode /\ new.alerts[id].episode <= new.revision
               /\ new.alerts[id].present /\ new.alerts[id].acknowledged =>
                    /\ prev.alerts[id].present /\ prev.alerts[id].acknowledged
                    /\ prev.alerts[id].episode = new.alerts[id].episode
    <3> HIDE DEF revision, reasons
    <3>1. new.alerts[id] = NextAlert(prev, obs, revision, id)
      BY <2>2
    <3>2. prev.alerts[id] \in Alert
      BY DEF Record
    <3>3. CASE id \in NewEpisodes(prev, obs)
      BY <3>1, <3>3, <2>2, <2>4, NextAlertStep
    <3>4. CASE id \notin NewEpisodes(prev, obs)
      <4>1. /\ new.alerts[id].present = prev.alerts[id].present
            /\ new.alerts[id].episode = prev.alerts[id].episode
            /\ new.alerts[id].acknowledged = prev.alerts[id].acknowledged
        BY <3>1, <3>4, <2>4, NextAlertStep
      <4>2. prev.alerts[id].present =>
              1 <= prev.alerts[id].episode /\ prev.alerts[id].episode <= prev.revision
        BY DEF RecordInv
      <4> QED
        BY <4>1, <4>2, <3>2, <2>2, <2>3, <2>4 DEF Alert
    <3> QED
      BY <3>3, <3>4
  <2>8. RecordInv(new)
    BY <2>2, <2>5, <2>6, <2>7 DEF RecordInv
  <2>9. /\ prev.revision <= new.revision /\ prev.observedAt <= new.observedAt
        /\ new.readRevision = IF prev.revision = 0 /\ new.revision > 0
                              THEN 1 ELSE prev.readRevision
    BY <1>2, <2>2, <2>3, <2>4
  <2>10. Follows(prev, new)
    <3> HIDE DEF new
    <3> QED
      BY <2>1, <2>7, <2>8, <2>9 DEF Follows
  <2> QED
    BY <2>10
<1> QED
  BY <1>1, <1>2

-----------------------------------------------------------------------------
(* ObserveActivity.                                                        *)

LEMMA BatchType ==
    ASSUME NEW b \in Batches
    PROVE  IsBatch(b)
BY BatchesAssumption

LEMMA ObservedFollows ==
    ASSUME NEW d \in Database, NEW b, IsBatch(b), NEW r \in Runs,
           RecordInv(d.records[r])
    PROVE  Follows(d.records[r], ObservedRecord(d, b, r))
<1>1. d.records[r] \in Record
  BY DEF Database
<1>2. CASE r \notin DOMAIN b.observations \/ CountedOnly(d, b.observations[r], r)
  BY <1>1, <1>2, FollowsItself DEF ObservedRecord
<1>3. CASE ~(r \notin DOMAIN b.observations \/ CountedOnly(d, b.observations[r], r))
  <2>1. b.observations[r] \in Observation /\ b.observedAt \in Nat
    BY <1>3 DEF IsBatch
  <2> QED
    BY <1>1, <1>3, <2>1, ReducerFollows DEF ObservedRecord
<1> QED
  BY <1>2, <1>3

LEMMA ReconciledFollows ==
    ASSUME NEW d \in Database, NEW b, IsBatch(b), NEW r \in Runs,
           RecordInv(d.records[r])
    PROVE  Follows(d.records[r], ReconciledRecord(d, b, r))
<1> DEFINE rec == ObservedRecord(d, b, r)
<1>1. Follows(d.records[r], rec)
  BY ObservedFollows
<1>2. rec \in Record /\ RecordInv(rec) /\ d.records[r] \in Record
  BY <1>1 DEF Follows, Database
<1>3. /\ b.startedAt \in Nat /\ b.observedAt \in Nat /\ b.startedAt <= b.observedAt
  BY DEF IsBatch
<1>4. CASE ReconciledRecord(d, b, r) = rec
  BY <1>1, <1>4
<1>5. CASE ReconciledRecord(d, b, r) # rec
  <2> DEFINE new == [rec EXCEPT !.run.stage = "deleted", !.observedAt = b.observedAt]
  <2>1. ReconciledRecord(d, b, r) = new /\ rec.observedAt <= b.startedAt
    BY <1>5 DEF ReconciledRecord
  <2> HIDE DEF rec
  <2>2. /\ new.known = rec.known /\ new.revision = rec.revision
        /\ new.readRevision = rec.readRevision /\ new.reasons = rec.reasons
        /\ new.alerts = rec.alerts /\ new.observedAt = b.observedAt
        /\ new.baselines = rec.baselines
        /\ new.run = [rec.run EXCEPT !.stage = "deleted"]
    BY <1>2 DEF Record
  <2>3. new \in Record
    <3>1. [rec.run EXCEPT !.stage = "deleted"] \in Run
      BY <1>2 DEF Record, Run, Stage
    <3> QED
      BY <1>2, <1>3, <3>1 DEF Record
  <2>4. RecordInv(new)
    BY <1>2, <2>2 DEF RecordInv, Unread
  <2>5. Follows(rec, new)
    <3> HIDE DEF new
    <3> QED
      BY <1>2, <1>3, <2>1, <2>2, <2>3, <2>4 DEF Follows, Record
  <2> QED
    BY <1>1, <1>2, <2>1, <2>5, FollowsTransitive
<1> QED
  BY <1>4, <1>5

LEMMA ReplayFollows ==
    ASSUME NEW b, IsBatch(b), NEW rec \in Record, RecordInv(rec),
           rec.run.exp \in DOMAIN b.policies
    PROVE  Follows(rec, ReplayedPolicy(b, rec))
<1> DEFINE obs == [run |-> rec.run, policy |-> b.policies[rec.run.exp],
                   cacheOnly |-> TRUE, retain |-> TRUE]
           seen == ObserveActivityRecord(rec, obs, b.observedAt, 0, 0, TRUE)
           new == [seen EXCEPT !.observedAt = rec.observedAt]
<1>1. obs \in Observation /\ b.observedAt \in Nat
  BY DEF IsBatch, Observation, Record
<1>2. Follows(rec, seen)
  BY <1>1, ReducerFollows
<1>3. ReplayedPolicy(b, rec) = new
  BY DEF ReplayedPolicy
<1> HIDE DEF seen
<1>4. seen \in Record /\ RecordInv(seen)
  BY <1>2 DEF Follows
<1>5. /\ new.known = seen.known /\ new.revision = seen.revision
      /\ new.readRevision = seen.readRevision /\ new.reasons = seen.reasons
      /\ new.alerts = seen.alerts /\ new.observedAt = rec.observedAt
      /\ new \in Record
  BY <1>4 DEF Record
<1>6. RecordInv(new)
  BY <1>4, <1>5 DEF RecordInv, Unread
<1>7. Follows(rec, new)
  <2> HIDE DEF new
  <2> QED
    BY <1>2, <1>5, <1>6 DEF Follows, Record
<1> QED
  BY <1>3, <1>7

LEMMA NextRecordFollows ==
    ASSUME NEW d \in Database, NEW b, IsBatch(b), NEW r \in Runs,
           RecordInv(d.records[r])
    PROVE  Follows(d.records[r], NextRecord(d, b, r))
<1>1. Follows(d.records[r], ReconciledRecord(d, b, r))
  BY ReconciledFollows
<1>2. /\ ReconciledRecord(d, b, r) \in Record /\ RecordInv(ReconciledRecord(d, b, r))
      /\ d.records[r] \in Record
  BY <1>1 DEF Follows, Database
<1>3. CASE NextRecord(d, b, r) = ReconciledRecord(d, b, r)
  BY <1>1, <1>3
<1>4. CASE NextRecord(d, b, r) # ReconciledRecord(d, b, r)
  <2>1. /\ NextRecord(d, b, r) = ReplayedPolicy(b, ReconciledRecord(d, b, r))
        /\ ReconciledRecord(d, b, r).run.exp \in DOMAIN b.policies
    BY <1>4 DEF NextRecord
  <2> QED
    BY <1>1, <1>2, <2>1, ReplayFollows, FollowsTransitive
<1> QED
  BY <1>3, <1>4

LEMMA RowType ==
    ASSUME NEW d \in Database, NEW b, IsBatch(b), NEW r \in Runs
    PROVE  NextRow(d, b, r) \in CacheRow
<1>1. NoExp \in Exps
  BY ExpsAssumption DEF NoExp
<1>2. NoRow \in CacheRow
  BY <1>1 DEF NoRow, CacheRow, Status
<1>3. d.runCache[r] \in CacheRow
  BY DEF Database
<1>4. PrunedRow(d, b, r) \in CacheRow
  BY <1>2, <1>3 DEF PrunedRow
<1>5. CASE r \notin DOMAIN b.observations
  BY <1>4, <1>5 DEF NextRow
<1>6. CASE r \in DOMAIN b.observations
  <2>1. b.observations[r] \in Observation /\ b.observedAt \in Nat
    BY <1>6 DEF IsBatch
  <2>2. /\ b.observations[r].run.exp \in Exps
        /\ b.observations[r].run.status \in Status
    BY <2>1 DEF Observation, Run
  <2> QED
    BY <1>2, <1>4, <2>1, <2>2 DEF NextRow, CacheRow
<1> QED
  BY <1>5, <1>6

LEMMA ObserveType ==
    ASSUME NEW d \in Database, NEW b, IsBatch(b),
           \A r \in Runs : RecordInv(d.records[r])
    PROVE  ObserveActivity(d, b) \in Database
<1> DEFINE new == ObserveActivity(d, b)
<1>1. new.records \in [Runs -> Record]
  BY NextRecordFollows DEF Follows, ObserveActivity
<1>2. new.runCache \in [Runs -> CacheRow]
  BY RowType DEF ObserveActivity
<1>3. /\ b.observedAt \in Nat /\ b.checkpoint \in Nat /\ b.initialUnreadSince \in Nat
      /\ b.complete \in BOOLEAN /\ b.experiments \subseteq Exps
  BY DEF IsBatch
<1>4. new.counts \in [Exps -> Nat]
  BY <1>3 DEF ObserveActivity, Database
<1>5. new.experiments \in SUBSET Exps
  BY <1>3 DEF ObserveActivity, Database
<1>6. /\ new.checkpoint \in Nat /\ new.initialUnreadSince \in Nat
      /\ new.lastFullScan \in Nat /\ new.updatedAt \in Nat /\ new.version \in Nat
      /\ new.complete \in BOOLEAN /\ new.initialized \in BOOLEAN
  BY <1>3 DEF ObserveActivity, Database, InitialSince, Advances
<1> QED
  BY <1>1, <1>2, <1>4, <1>5, <1>6 DEF ObserveActivity, Database

-----------------------------------------------------------------------------
(* The personal changes.                                                   *)

LEMMA MarkReadStep ==
    ASSUME NEW rec \in Record, RecordInv(rec), rec.known, NEW receipt \in Nat
    PROVE  LET new == MarkReadRecord(rec, receipt)
           IN  /\ new \in Record /\ RecordInv(new)
               /\ new.known = rec.known /\ new.revision = rec.revision
               /\ new.observedAt = rec.observedAt /\ new.alerts = rec.alerts
               /\ new.readRevision = GreaterOf(rec.readRevision, LesserOf(receipt, rec.revision))
<1> DEFINE new == MarkReadRecord(rec, receipt)
           read == GreaterOf(rec.readRevision, LesserOf(receipt, rec.revision))
<1>1. /\ rec.revision \in Nat /\ rec.readRevision \in Nat
      /\ rec.reasons \in SUBSET Reason
  BY DEF Record
<1>2. /\ read \in Nat /\ rec.readRevision <= read
      /\ 1 <= read /\ read <= rec.revision
  BY <1>1 DEF GreaterOf, LesserOf, RecordInv
<1>3. /\ new.known = rec.known /\ new.run = rec.run /\ new.revision = rec.revision
      /\ new.readRevision = read /\ new.alerts = rec.alerts
      /\ new.reasons = IF rec.revision > read THEN rec.reasons ELSE {}
      /\ new.observedAt = rec.observedAt /\ new.baselines = rec.baselines
  BY DEF MarkReadRecord, Record
<1>4. new \in Record
  BY <1>1, <1>2 DEF MarkReadRecord, Record
<1>5. Unread(new) <=> new.reasons # {}
  <2>1. rec.revision > read => rec.revision > rec.readRevision
    BY <1>1, <1>2
  <2>2. rec.revision > read => rec.reasons # {}
    BY <2>1 DEF RecordInv, Unread
  <2> HIDE DEF read
  <2> QED
    BY <1>3, <2>2 DEF Unread
<1>6. RecordInv(new)
  <2> HIDE DEF new, read
  <2> QED
    BY <1>2, <1>3, <1>5 DEF RecordInv
<1> QED
  BY <1>3, <1>4, <1>6

LEMMA MarkUnreadStep ==
    ASSUME NEW rec \in Record, RecordInv(rec), rec.known
    PROVE  LET new == MarkUnreadRecord(rec)
           IN  /\ new \in Record /\ RecordInv(new)
               /\ new.known = rec.known /\ new.revision = rec.revision + 1
               /\ new.observedAt = rec.observedAt /\ new.alerts = rec.alerts
               /\ new.readRevision = rec.readRevision
<1> DEFINE new == MarkUnreadRecord(rec)
<1>1. /\ rec.revision \in Nat /\ rec.readRevision \in Nat
      /\ rec.reasons \in SUBSET Reason /\ rec.alerts \in [AlertIds -> Alert]
  BY DEF Record
<1>2. /\ new.known = rec.known /\ new.run = rec.run /\ new.revision = rec.revision + 1
      /\ new.readRevision = rec.readRevision /\ new.alerts = rec.alerts
      /\ new.reasons = rec.reasons \cup {<<"marked_unread">>}
      /\ new.observedAt = rec.observedAt /\ new.baselines = rec.baselines
  BY DEF MarkUnreadRecord, Record
<1>3. new \in Record
  <2> DEFINE reasons == rec.reasons \cup {<<"marked_unread">>}
  <2>1. reasons \in SUBSET Reason
    BY <1>1 DEF Reason
  <2>2. new = [rec EXCEPT !.revision = rec.revision + 1, !.reasons = reasons]
    BY DEF MarkUnreadRecord
  <2> HIDE DEF reasons, new
  <2>3. rec.revision + 1 \in Nat
    BY <1>1
  <2>4. [rec EXCEPT !.revision = rec.revision + 1, !.reasons = reasons] \in Record
    BY <2>1, <2>3 DEF Record
  <2> QED
    BY <2>2, <2>4
<1>4. RecordInv(new)
  <2> HIDE DEF new
  <2>1. Unread(new) /\ new.reasons # {}
    <3>1. <<"marked_unread">> \in new.reasons
      BY <1>2
    <3>2. new.revision > new.readRevision
      BY <1>1, <1>2 DEF RecordInv
    <3> QED
      BY <3>1, <3>2 DEF Unread
  <2>2. ASSUME NEW id \in AlertIds, new.alerts[id].present
        PROVE  1 <= new.alerts[id].episode /\ new.alerts[id].episode <= new.revision
    <3>1. rec.alerts[id] \in Alert /\ rec.alerts[id].present
      BY <1>1, <1>2, <2>2
    <3> QED
      BY <1>1, <1>2, <3>1 DEF RecordInv, Alert
  <2>3. 1 <= new.readRevision /\ new.readRevision <= new.revision
    BY <1>1, <1>2 DEF RecordInv
  <2> QED
    BY <1>2, <2>1, <2>2, <2>3 DEF RecordInv
<1> QED
  BY <1>2, <1>3, <1>4

LEMMA AcknowledgeStep ==
    ASSUME NEW rec \in Record, RecordInv(rec), rec.known, NEW receipt \in Nat,
           NEW acknowledged \in BOOLEAN
    PROVE  LET new == AcknowledgeRecord(rec, receipt, acknowledged)
           IN  /\ new \in Record /\ RecordInv(new)
               /\ new.known = rec.known /\ new.revision = rec.revision
               /\ new.observedAt = rec.observedAt
               /\ new.readRevision = rec.readRevision
               /\ \A id \in AlertIds :
                     /\ new.alerts[id].present = rec.alerts[id].present
                     /\ new.alerts[id].episode = rec.alerts[id].episode
                     /\ new.alerts[id].acknowledged =>
                           rec.alerts[id].acknowledged \/ rec.alerts[id].episode <= receipt
<1> DEFINE new == AcknowledgeRecord(rec, receipt, acknowledged)
           alert(id) == IF rec.alerts[id].present /\ rec.alerts[id].episode <= receipt
                        THEN [rec.alerts[id] EXCEPT !.acknowledged = acknowledged]
                        ELSE rec.alerts[id]
<1>1. new = [rec EXCEPT !.alerts = [id \in AlertIds |-> alert(id)]]
  BY DEF AcknowledgeRecord
<1>2. ASSUME NEW id \in AlertIds
      PROVE  /\ alert(id) \in Alert
             /\ alert(id).present = rec.alerts[id].present
             /\ alert(id).episode = rec.alerts[id].episode
             /\ alert(id).acknowledged =>
                   rec.alerts[id].acknowledged \/ rec.alerts[id].episode <= receipt
  BY DEF Record, Alert
<1> HIDE DEF alert
<1>3. /\ new.known = rec.known /\ new.run = rec.run /\ new.revision = rec.revision
      /\ new.readRevision = rec.readRevision /\ new.reasons = rec.reasons
      /\ new.alerts = [id \in AlertIds |-> alert(id)]
      /\ new.observedAt = rec.observedAt /\ new.baselines = rec.baselines
  BY <1>1 DEF Record
<1>4. new \in Record
  BY <1>1, <1>2 DEF Record
<1>5. RecordInv(new)
  <2> HIDE DEF new
  <2> QED
    BY <1>2, <1>3 DEF RecordInv, Unread
<1> QED
  <2> HIDE DEF new
  <2>1. \A id \in AlertIds : new.alerts[id] = alert(id)
    BY <1>3
  <2>2. \A id \in AlertIds :
          /\ new.alerts[id].present = rec.alerts[id].present
          /\ new.alerts[id].episode = rec.alerts[id].episode
          /\ new.alerts[id].acknowledged =>
                rec.alerts[id].acknowledged \/ rec.alerts[id].episode <= receipt
    BY <1>2, <2>1
  <2> QED
    BY <1>3, <1>4, <1>5, <2>2 DEF new

-----------------------------------------------------------------------------
(* The inductive invariant.  A client never shows a revision the store     *)
(* does not have, so a receipt stays below the record it is applied to;    *)
(* and a source without a row (version 0) has nothing to change.           *)
ViewIsPast == \A c \in Clients, r \in Runs : view[c][r] <= db.records[r].revision
Safe ==
    /\ TypeOK
    /\ \A r \in Runs : RecordInv(db.records[r])
    /\ ViewIsPast
    /\ ReadWasShown
    /\ AcknowledgedWasShown
    /\ db.version = 0 => db = NewActivitySnapshot

LEMMA NoRecordOK == NoRecord \in Record /\ RecordInv(NoRecord)
<1>1. NoExp \in Exps
  BY ExpsAssumption DEF NoExp
<1>2. NotLogged \in Sample /\ NoAlert \in Alert /\ Unset \in Fingerprint
  BY DEF NotLogged, Sample, Value, NoAlert, Alert, Fingerprint
<1>3. NoRecord.run \in Run
  BY <1>1, <1>2 DEF NoRecord, Run, Status, Stage
<1>4. NoRecord.alerts \in [AlertIds -> Alert]
  BY <1>2 DEF NoRecord
<1>5. NoRecord.baselines \in [Subscription -> Fingerprint]
  BY <1>2 DEF NoRecord
<1>6. NoRecord \in Record
  BY <1>3, <1>4, <1>5 DEF NoRecord, Record
<1>7. RecordInv(NoRecord)
  BY DEF NoRecord, NoAlert, RecordInv, Unread
<1> QED
  BY <1>6, <1>7

LEMMA InitSafe == Init => Safe
<1> SUFFICES ASSUME Init PROVE Safe
  OBVIOUS
<1>1. db = NewActivitySnapshot /\ view = [c \in Clients |-> [r \in Runs |-> 0]]
  BY DEF Init
<1>2. \A r \in Runs : db.records[r] = NoRecord
  BY <1>1 DEF NewActivitySnapshot
<1>3. NoRow \in CacheRow
  BY ExpsAssumption DEF NoRow, CacheRow, NoExp, Status
<1>4. TypeOK
  BY <1>1, <1>3, NoRecordOK DEF TypeOK, Database, NewActivitySnapshot
<1>5. /\ NoRecord.revision = 0 /\ NoRecord.readRevision = 0
      /\ \A id \in AlertIds : ~NoRecord.alerts[id].present
  BY DEF NoRecord, NoAlert
<1>6. ViewIsPast /\ ReadWasShown /\ AcknowledgedWasShown
  BY <1>1, <1>2, <1>5 DEF ViewIsPast, ReadWasShown, AcknowledgedWasShown
<1> QED
  BY <1>1, <1>2, <1>4, <1>6, NoRecordOK DEF Safe

(* A client that shows the newest revisions still covers what was read and *)
(* acknowledged before.                                                    *)
LEMMA LoadSafe ==
    ASSUME Safe, NEW c \in Clients, LoadActivity(c)
    PROVE  Safe'
<1>1. /\ db' = db
      /\ view' = [view EXCEPT ![c] = [r \in Runs |-> db.records[r].revision]]
  BY DEF LoadActivity
<1>2. view \in [Clients -> [Runs -> Nat]] /\ db \in Database
  BY DEF Safe, TypeOK
<1>3. \A r \in Runs : db.records[r].revision \in Nat
  BY <1>2 DEF Database, Record
<1>4. TypeOK'
  BY <1>1, <1>2, <1>3 DEF TypeOK
<1>5. \A x \in Clients, r \in Runs :
        /\ view[x][r] \in Nat /\ view'[x][r] \in Nat
        /\ view[x][r] <= view'[x][r]
        /\ view'[x][r] <= db.records[r].revision
  BY <1>1, <1>2, <1>3 DEF Safe, ViewIsPast
<1>6. ViewIsPast'
  BY <1>1, <1>5 DEF ViewIsPast
<1>7. ReadWasShown'
  <2>1. \A r \in Runs : db.records[r].readRevision \in Nat
    BY <1>2 DEF Database, Record
  <2> QED
    BY <1>1, <1>5, <2>1 DEF Safe, ReadWasShown
<1>8. AcknowledgedWasShown'
  <2>1. \A r \in Runs, id \in AlertIds : db.records[r].alerts[id].episode \in Nat
    BY <1>2 DEF Database, Record, Alert
  <2> SUFFICES ASSUME NEW r \in Runs, NEW id \in AlertIds,
                      db.records[r].alerts[id].present, db.records[r].alerts[id].acknowledged
               PROVE  \E x \in Clients : db.records[r].alerts[id].episode <= view'[x][r]
    BY <1>1 DEF AcknowledgedWasShown
  <2>2. PICK x \in Clients : db.records[r].alerts[id].episode <= view[x][r]
    BY DEF Safe, AcknowledgedWasShown
  <2> QED
    BY <1>5, <2>1, <2>2
<1> QED
  BY <1>1, <1>4, <1>6, <1>7, <1>8 DEF Safe

LEMMA ObserveSafe ==
    ASSUME Safe, NEW b \in Batches, Observe(b)
    PROVE  Safe'
<1>1. db' = ObserveActivity(db, b) /\ view' = view
  BY DEF Observe
<1>2. view \in [Clients -> [Runs -> Nat]] /\ db \in Database
  BY DEF Safe, TypeOK
<1>3. TypeOK'
  BY <1>1, <1>2, BatchType, ObserveType DEF Safe, TypeOK
<1>4. ASSUME NEW r \in Runs
      PROVE  Follows(db.records[r], db'.records[r])
  BY <1>1, <1>2, BatchType, NextRecordFollows DEF Safe, ObserveActivity
<1>5. \A r \in Runs : db.records[r] \in Record /\ db'.records[r] \in Record
  BY <1>2, <1>3 DEF TypeOK, Database
<1>6. \A r \in Runs : RecordInv(db'.records[r])
  BY <1>4 DEF Follows
<1>7. ViewIsPast'
  <2>1. \A r \in Runs : /\ db.records[r].revision \in Nat
                        /\ db'.records[r].revision \in Nat
                        /\ db.records[r].revision <= db'.records[r].revision
    BY <1>4, <1>5 DEF Follows, Record
  <2> QED
    BY <1>1, <1>2, <2>1 DEF Safe, ViewIsPast
<1>8. ReadWasShown'
  <2> SUFFICES ASSUME NEW r \in Runs, db'.records[r].readRevision > 1
               PROVE  \E c \in Clients : db'.records[r].readRevision <= view[c][r]
    BY <1>1 DEF ReadWasShown
  <2>1. db'.records[r].readRevision = db.records[r].readRevision
    BY <1>4 DEF Follows
  <2> QED
    BY <2>1 DEF Safe, ReadWasShown
<1>9. AcknowledgedWasShown'
  BY <1>1, <1>4 DEF Safe, AcknowledgedWasShown, Follows
<1>10. db'.version # 0
  BY <1>1, <1>2 DEF ObserveActivity, Database
<1> QED
  BY <1>3, <1>6, <1>7, <1>8, <1>9, <1>10 DEF Safe

(* What a personal change may make of the record of run r: a receipt the   *)
(* change sets, or an alert it acknowledges, is covered by some client's   *)
(* snapshot.                                                               *)
MayBecome(r, old, new) ==
    /\ new \in Record /\ RecordInv(new)
    /\ old.revision <= new.revision
    /\ old.readRevision <= new.readRevision
    /\ old.observedAt = new.observedAt
    /\ \/ new.readRevision = old.readRevision
       \/ \E c \in Clients : new.readRevision <= view[c][r]
    /\ \A id \in AlertIds : new.alerts[id].present /\ new.alerts[id].acknowledged =>
         \/ /\ old.alerts[id].present /\ old.alerts[id].acknowledged
            /\ old.alerts[id].episode = new.alerts[id].episode
         \/ \E c \in Clients : new.alerts[id].episode <= view[c][r]

ChangesRecords(f) ==
    /\ f \in [Runs -> Record]
    /\ db' = [db EXCEPT !.records = f, !.version = db.version + 1]
    /\ \A r \in Runs : MayBecome(r, db.records[r], f[r])

LEMMA ChangedItself ==
    ASSUME NEW r \in Runs, NEW rec \in Record, RecordInv(rec)
    PROVE  MayBecome(r, rec, rec)
BY DEF MayBecome, Record

LEMMA MarkReadChanges ==
    ASSUME Safe, NEW c \in Clients, NEW S \in SUBSET Shown(c), MarkRead(c, S), db' # db
    PROVE  \E f : ChangesRecords(f)
<1> DEFINE new(r) == MarkReadRecord(db.records[r], view[c][r])
           f == [r \in Runs |-> IF r \in S /\ db.records[r].known
                                THEN new(r) ELSE db.records[r]]
<1>1. db' = [db EXCEPT !.records = f, !.version = db.version + 1]
  BY DEF MarkRead, MarkActivityRead, ChangeActivity, Receipts, Safe, TypeOK, Database, Shown
<1>2. ASSUME NEW r \in Runs
      PROVE  /\ db.records[r] \in Record /\ RecordInv(db.records[r])
             /\ view[c][r] \in Nat
  BY DEF Safe, TypeOK, Database
<1>3. ASSUME NEW r \in Runs, db.records[r].known
      PROVE  MayBecome(r, db.records[r], new(r))
  <2>1. /\ new(r) \in Record /\ RecordInv(new(r))
        /\ new(r).revision = db.records[r].revision
        /\ new(r).observedAt = db.records[r].observedAt
        /\ new(r).alerts = db.records[r].alerts
        /\ new(r).readRevision =
              GreaterOf(db.records[r].readRevision, LesserOf(view[c][r], db.records[r].revision))
    BY <1>2, <1>3, MarkReadStep
  <2>2. /\ db.records[r].revision \in Nat /\ db.records[r].readRevision \in Nat
    BY <1>2 DEF Record
  <2>3. /\ db.records[r].readRevision <= new(r).readRevision
        /\ \/ new(r).readRevision = db.records[r].readRevision
           \/ new(r).readRevision <= view[c][r]
    BY <1>2, <2>1, <2>2 DEF GreaterOf, LesserOf
  <2> HIDE DEF new
  <2> QED
    BY <2>1, <2>2, <2>3 DEF MayBecome
<1>4. ASSUME NEW r \in Runs
      PROVE  MayBecome(r, db.records[r], f[r])
  <2> HIDE DEF new
  <2>1. CASE r \in S /\ db.records[r].known
    BY <1>3, <2>1
  <2>2. CASE ~(r \in S /\ db.records[r].known)
    BY <1>2, <2>2, ChangedItself
  <2> QED
    BY <2>1, <2>2
<1>5. f \in [Runs -> Record]
  <2>1. \A r \in Runs : f[r] \in Record
    BY <1>4 DEF MayBecome
  <2> QED
    BY <2>1
<1> QED
  BY <1>1, <1>4, <1>5 DEF ChangesRecords

LEMMA MarkUnreadChanges ==
    ASSUME Safe, NEW c \in Clients, NEW S \in SUBSET Shown(c), MarkUnread(c, S), db' # db
    PROVE  \E f : ChangesRecords(f)
<1> DEFINE new(r) == MarkUnreadRecord(db.records[r])
           f == [r \in Runs |-> IF r \in S /\ db.records[r].known
                                THEN new(r) ELSE db.records[r]]
<1>1. db' = [db EXCEPT !.records = f, !.version = db.version + 1]
  BY DEF MarkUnread, MarkActivityUnread, ChangeActivity, Safe, TypeOK, Database, Shown
<1>2. ASSUME NEW r \in Runs
      PROVE  db.records[r] \in Record /\ RecordInv(db.records[r])
  BY DEF Safe, TypeOK, Database
<1>3. ASSUME NEW r \in Runs, db.records[r].known
      PROVE  MayBecome(r, db.records[r], new(r))
  <2>1. /\ new(r) \in Record /\ RecordInv(new(r))
        /\ new(r).revision = db.records[r].revision + 1
        /\ new(r).observedAt = db.records[r].observedAt
        /\ new(r).alerts = db.records[r].alerts
        /\ new(r).readRevision = db.records[r].readRevision
    BY <1>2, <1>3, MarkUnreadStep
  <2>2. /\ db.records[r].revision \in Nat /\ db.records[r].readRevision \in Nat
    BY <1>2 DEF Record
  <2> HIDE DEF new
  <2> QED
    BY <2>1, <2>2 DEF MayBecome
<1>4. ASSUME NEW r \in Runs
      PROVE  MayBecome(r, db.records[r], f[r])
  <2> HIDE DEF new
  <2>1. CASE r \in S /\ db.records[r].known
    BY <1>3, <2>1
  <2>2. CASE ~(r \in S /\ db.records[r].known)
    BY <1>2, <2>2, ChangedItself
  <2> QED
    BY <2>1, <2>2
<1>5. f \in [Runs -> Record]
  <2>1. \A r \in Runs : f[r] \in Record
    BY <1>4 DEF MayBecome
  <2> QED
    BY <2>1
<1> QED
  BY <1>1, <1>4, <1>5 DEF ChangesRecords

LEMMA AcknowledgeChanges ==
    ASSUME Safe, NEW c \in Clients, NEW S \in SUBSET Shown(c), NEW ack \in BOOLEAN,
           Acknowledge(c, S, ack), db' # db
    PROVE  \E f : ChangesRecords(f)
<1> DEFINE new(r) == AcknowledgeRecord(db.records[r], view[c][r], ack)
           f == [r \in Runs |-> IF r \in S /\ db.records[r].known
                                THEN new(r) ELSE db.records[r]]
<1>1. db' = [db EXCEPT !.records = f, !.version = db.version + 1]
  BY DEF Acknowledge, AcknowledgeActivity, ChangeActivity, Receipts, Safe, TypeOK,
         Database, Shown
<1>2. ASSUME NEW r \in Runs
      PROVE  /\ db.records[r] \in Record /\ RecordInv(db.records[r])
             /\ view[c][r] \in Nat
  BY DEF Safe, TypeOK, Database
<1>3. ASSUME NEW r \in Runs, db.records[r].known
      PROVE  MayBecome(r, db.records[r], new(r))
  <2>1. /\ new(r) \in Record /\ RecordInv(new(r))
        /\ new(r).revision = db.records[r].revision
        /\ new(r).observedAt = db.records[r].observedAt
        /\ new(r).readRevision = db.records[r].readRevision
        /\ \A id \in AlertIds :
              /\ new(r).alerts[id].present = db.records[r].alerts[id].present
              /\ new(r).alerts[id].episode = db.records[r].alerts[id].episode
              /\ new(r).alerts[id].acknowledged =>
                    \/ db.records[r].alerts[id].acknowledged
                    \/ db.records[r].alerts[id].episode <= view[c][r]
    BY <1>2, <1>3, AcknowledgeStep
  <2>2. /\ db.records[r].revision \in Nat /\ db.records[r].readRevision \in Nat
    BY <1>2 DEF Record
  <2> HIDE DEF new
  <2> QED
    BY <2>1, <2>2 DEF MayBecome
<1>4. ASSUME NEW r \in Runs
      PROVE  MayBecome(r, db.records[r], f[r])
  <2> HIDE DEF new
  <2>1. CASE r \in S /\ db.records[r].known
    BY <1>3, <2>1
  <2>2. CASE ~(r \in S /\ db.records[r].known)
    BY <1>2, <2>2, ChangedItself
  <2> QED
    BY <2>1, <2>2
<1>5. f \in [Runs -> Record]
  <2>1. \A r \in Runs : f[r] \in Record
    BY <1>4 DEF MayBecome
  <2> QED
    BY <2>1
<1> QED
  BY <1>1, <1>4, <1>5 DEF ChangesRecords

LEMMA ChangesSafe ==
    ASSUME Safe, view' = view, NEW f, ChangesRecords(f)
    PROVE  Safe'
<1>1. db \in Database /\ view \in [Clients -> [Runs -> Nat]]
  BY DEF Safe, TypeOK
<1>2. /\ db' \in Database /\ db'.records = f /\ db'.version = db.version + 1
  <2>1. f \in [Runs -> Record] /\ db.version + 1 \in Nat
    BY <1>1 DEF ChangesRecords, Database
  <2>2. db' = [db EXCEPT !.records = f, !.version = db.version + 1]
    BY DEF ChangesRecords
  <2> QED
    BY <1>1, <2>1, <2>2 DEF Database
<1>3. ASSUME NEW r \in Runs
      PROVE  /\ MayBecome(r, db.records[r], db'.records[r])
             /\ db.records[r] \in Record /\ db'.records[r] \in Record
  BY <1>1, <1>2 DEF ChangesRecords, Database
<1>4. TypeOK'
  BY <1>1, <1>2 DEF TypeOK
<1>5. \A r \in Runs : RecordInv(db'.records[r])
  BY <1>3 DEF MayBecome
<1>6. ViewIsPast'
  <2>1. \A r \in Runs : /\ db.records[r].revision \in Nat
                        /\ db'.records[r].revision \in Nat
                        /\ db.records[r].revision <= db'.records[r].revision
    BY <1>3 DEF MayBecome, Record
  <2> QED
    BY <1>1, <2>1 DEF Safe, ViewIsPast
<1>7. ReadWasShown'
  <2> SUFFICES ASSUME NEW r \in Runs, db'.records[r].readRevision > 1
               PROVE  \E c \in Clients : db'.records[r].readRevision <= view[c][r]
    BY DEF ReadWasShown
  <2>1. CASE db'.records[r].readRevision = db.records[r].readRevision
    BY <2>1 DEF Safe, ReadWasShown
  <2>2. CASE db'.records[r].readRevision # db.records[r].readRevision
    BY <1>3, <2>2 DEF MayBecome
  <2> QED
    BY <2>1, <2>2
<1>8. AcknowledgedWasShown'
  <2> SUFFICES ASSUME NEW r \in Runs, NEW id \in AlertIds,
                      db'.records[r].alerts[id].present,
                      db'.records[r].alerts[id].acknowledged
               PROVE  \E c \in Clients : db'.records[r].alerts[id].episode <= view[c][r]
    BY DEF AcknowledgedWasShown
  <2> QED
    BY <1>3 DEF MayBecome, Safe, AcknowledgedWasShown
<1>9. db'.version # 0
  BY <1>1, <1>2 DEF Database
<1> QED
  BY <1>4, <1>5, <1>6, <1>7, <1>8, <1>9 DEF Safe

(* Before the source has a row there is no cache to clear.                 *)
LEMMA ClearedDatabase ==
    ASSUME Safe, ClearCache
    PROVE  /\ db' \in Database /\ db'.records = db.records
           /\ db'.checkpoint = db.checkpoint /\ db'.initialized = db.initialized
           /\ db'.initialUnreadSince = db.initialUnreadSince
           /\ db'.lastFullScan = db.lastFullScan /\ db'.updatedAt = db.updatedAt
           /\ db.version = 0 => db' = db
           /\ db.version # 0 => db'.version = db.version + 1
<1>1. db \in Database /\ NoRow \in CacheRow
  BY ExpsAssumption DEF Safe, TypeOK, NoRow, CacheRow, NoExp, Status
<1>2. db' = [db EXCEPT !.runCache = [r \in Runs |-> NoRow],
                       !.counts = [e \in Exps |-> 0],
                       !.version = IF db.version = 0 THEN 0 ELSE db.version + 1]
  BY DEF ClearCache, ClearActivityCache
<1>3. db.version = 0 => db' = db
  <2> SUFFICES ASSUME db.version = 0 PROVE db' = db
    OBVIOUS
  <2>1. /\ db.runCache = [r \in Runs |-> NoRow] /\ db.counts = [e \in Exps |-> 0]
    BY DEF Safe, NewActivitySnapshot
  <2>2. db' = [db EXCEPT !.runCache = db.runCache, !.counts = db.counts,
                         !.version = db.version]
    BY <1>2, <2>1
  <2> QED
    BY <1>1, <2>2 DEF Database
<1>4. (IF db.version = 0 THEN 0 ELSE db.version + 1) \in Nat
  BY <1>1 DEF Database
<1>5. db' \in Database
  BY <1>1, <1>2, <1>4 DEF Database
<1> QED
  BY <1>1, <1>2, <1>3, <1>5 DEF Database

LEMMA ClearSafe ==
    ASSUME Safe, ClearCache
    PROVE  Safe'
<1>1. view' = view /\ db'.records = db.records /\ db' \in Database
  BY ClearedDatabase DEF ClearCache
<1>2. db'.version = 0 => db' = NewActivitySnapshot
  BY ClearedDatabase DEF Safe, TypeOK, Database
<1> QED
  BY <1>1, <1>2 DEF Safe, TypeOK, ViewIsPast, ReadWasShown, AcknowledgedWasShown

(* Every step is one of five kinds. *)
LEMMA StepKinds ==
    ASSUME Safe, [Next]_vars
    PROVE  \/ \E b \in Batches : Observe(b)
           \/ \E c \in Clients : LoadActivity(c)
           \/ view' = view /\ \E f : ChangesRecords(f)
           \/ ClearCache
           \/ db' = db /\ view' = view
<1>1. CASE UNCHANGED vars
  BY <1>1 DEF vars
<1>2. ASSUME NEW c \in Clients, NEW S \in SUBSET Shown(c), MarkRead(c, S)
      PROVE  view' = view /\ (db' = db \/ \E f : ChangesRecords(f))
  BY <1>2, MarkReadChanges DEF MarkRead
<1>3. ASSUME NEW c \in Clients, NEW S \in SUBSET Shown(c), MarkUnread(c, S)
      PROVE  view' = view /\ (db' = db \/ \E f : ChangesRecords(f))
  BY <1>3, MarkUnreadChanges DEF MarkUnread
<1>4. ASSUME NEW c \in Clients, NEW S \in SUBSET Shown(c), NEW ack \in BOOLEAN,
             Acknowledge(c, S, ack)
      PROVE  view' = view /\ (db' = db \/ \E f : ChangesRecords(f))
  BY <1>4, AcknowledgeChanges DEF Acknowledge
<1> QED
  BY <1>1, <1>2, <1>3, <1>4 DEF Next, Personal

LEMMA StepSafe ==
    ASSUME Safe, [Next]_vars
    PROVE  Safe'
<1>1. CASE \E b \in Batches : Observe(b)
  BY <1>1, ObserveSafe
<1>2. CASE \E c \in Clients : LoadActivity(c)
  BY <1>2, LoadSafe
<1>3. CASE view' = view /\ \E f : ChangesRecords(f)
  BY <1>3, ChangesSafe
<1>4. CASE ClearCache
  BY <1>4, ClearSafe
<1>5. CASE db' = db /\ view' = view
  BY <1>5 DEF Safe, TypeOK, ViewIsPast, ReadWasShown, AcknowledgedWasShown
<1> QED
  BY <1>1, <1>2, <1>3, <1>4, <1>5, StepKinds

THEOREM AlwaysSafe == Spec => []Safe
BY InitSafe, StepSafe, PTL DEF Spec

-----------------------------------------------------------------------------
(* The theorems a reader should know of.                                   *)

(* The database of a source and the shown snapshots keep their types.      *)
THEOREM TypeCorrect == Spec => []TypeOK
<1>1. Safe => TypeOK
  BY DEF Safe
<1> QED
  BY <1>1, AlwaysSafe, PTL

(* MarkActivityRead never consumes a revision that no client had shown.    *)
THEOREM OnlyShownIsRead == Spec => []ReadWasShown
<1>1. Safe => ReadWasShown
  BY DEF Safe
<1> QED
  BY <1>1, AlwaysSafe, PTL

(* AcknowledgeActivity never silences an episode no client had shown.      *)
THEOREM OnlyShownIsAcknowledged == Spec => []AcknowledgedWasShown
<1>1. Safe => AcknowledgedWasShown
  BY DEF Safe
<1> QED
  BY <1>1, AlwaysSafe, PTL

(* A record has reasons exactly while it is unread.                        *)
THEOREM ReasonsTellUnread == Spec => []ReasonsMatchUnread
<1>1. Safe => ReasonsMatchUnread
  BY DEF Safe, RecordInv, ReasonsMatchUnread
<1> QED
  BY <1>1, AlwaysSafe, PTL

(* Revisions, receipts and episodes stay in order: 1 <= read <= revision,  *)
(* and no episode is newer than its record.                                *)
THEOREM EpisodesAreCovered == Spec => []EpisodesWithinRevision
<1>1. Safe => EpisodesWithinRevision
  BY DEF Safe, RecordInv, EpisodesWithinRevision
<1> QED
  BY <1>1, AlwaysSafe, PTL

-----------------------------------------------------------------------------
(* No cursor moves back.                                                   *)

LEMMA ObserveCursors ==
    ASSUME Safe, NEW b \in Batches, Observe(b)
    PROVE  CursorsNeverMoveBack
<1>1. db \in Database /\ db' = ObserveActivity(db, b)
  BY DEF Observe, Safe, TypeOK
<1>2. /\ b.observedAt \in Nat /\ b.checkpoint \in Nat /\ b.initialUnreadSince \in Nat
  BY BatchType DEF IsBatch
<1>3. /\ db.checkpoint \in Nat /\ db.lastFullScan \in Nat /\ db.updatedAt \in Nat
      /\ db.version \in Nat
  BY <1>1 DEF Database
<1>4. /\ db'.checkpoint = IF Advances(db, b) THEN b.checkpoint ELSE db.checkpoint
      /\ db'.lastFullScan = IF b.fullScanComplete /\ b.observedAt > db.lastFullScan
                            THEN b.observedAt ELSE db.lastFullScan
      /\ db'.updatedAt = IF Current(db, b) THEN b.observedAt ELSE db.updatedAt
      /\ db'.initialized = (db.initialized \/ Advances(db, b))
      /\ db'.initialUnreadSince = InitialSince(db, b)
      /\ db'.version = db.version + 1
      /\ db'.records = [r \in Runs |-> NextRecord(db, b, r)]
  BY <1>1 DEF ObserveActivity
<1>5. /\ db.checkpoint <= db'.checkpoint /\ db.lastFullScan <= db'.lastFullScan
      /\ db.updatedAt <= db'.updatedAt /\ db.version < db'.version
  BY <1>2, <1>3, <1>4 DEF Advances, Current
<1>6. db.initialized => db'.initialized
  BY <1>4
<1>7. db.initialUnreadSince # 0 => db'.initialUnreadSince = db.initialUnreadSince
  BY <1>4 DEF InitialSince
<1>8. ASSUME NEW r \in Runs
      PROVE  /\ db.records[r].revision <= db'.records[r].revision
             /\ db.records[r].readRevision <= db'.records[r].readRevision
             /\ db.records[r].observedAt <= db'.records[r].observedAt
  <2>1. Follows(db.records[r], db'.records[r])
    BY <1>1, <1>4, BatchType, NextRecordFollows DEF Safe
  <2>2. db.records[r] \in Record /\ RecordInv(db.records[r])
    BY <1>1 DEF Safe, Database
  <2>3. db.records[r].revision = 0 => db.records[r].readRevision = 0
    BY <2>2 DEF RecordInv, Record
  <2> QED
    BY <2>1, <2>2, <2>3 DEF Follows, Record
<1> QED
  BY <1>5, <1>6, <1>7, <1>8 DEF CursorsNeverMoveBack

LEMMA ChangesCursors ==
    ASSUME Safe, NEW f, ChangesRecords(f)
    PROVE  CursorsNeverMoveBack
<1>1. db \in Database
  BY DEF Safe, TypeOK
<1>2. /\ db'.checkpoint = db.checkpoint /\ db'.lastFullScan = db.lastFullScan
      /\ db'.updatedAt = db.updatedAt /\ db'.initialized = db.initialized
      /\ db'.initialUnreadSince = db.initialUnreadSince
      /\ db'.version = db.version + 1 /\ db'.records = f
  BY <1>1 DEF ChangesRecords, Database
<1>3. /\ db.checkpoint \in Nat /\ db.lastFullScan \in Nat /\ db.updatedAt \in Nat
      /\ db.version \in Nat
  BY <1>1 DEF Database
<1>4. ASSUME NEW r \in Runs
      PROVE  /\ db.records[r].revision <= db'.records[r].revision
             /\ db.records[r].readRevision <= db'.records[r].readRevision
             /\ db.records[r].observedAt <= db'.records[r].observedAt
  <2>1. MayBecome(r, db.records[r], f[r]) /\ db.records[r] \in Record
    BY <1>1 DEF ChangesRecords, Database
  <2> QED
    BY <1>2, <2>1 DEF MayBecome, Record
<1> QED
  BY <1>2, <1>3, <1>4 DEF CursorsNeverMoveBack

LEMMA SameCursors ==
    ASSUME Safe, db'.records = db.records,
           db'.checkpoint = db.checkpoint, db'.initialized = db.initialized,
           db'.initialUnreadSince = db.initialUnreadSince,
           db'.lastFullScan = db.lastFullScan, db'.updatedAt = db.updatedAt,
           db' = db \/ db'.version = db.version + 1
    PROVE  CursorsNeverMoveBack
<1>1. /\ db.checkpoint \in Nat /\ db.lastFullScan \in Nat /\ db.updatedAt \in Nat
      /\ db.version \in Nat
      /\ \A r \in Runs : db.records[r] \in Record
  BY DEF Safe, TypeOK, Database
<1> QED
  BY <1>1 DEF CursorsNeverMoveBack, Record

LEMMA StepCursors ==
    ASSUME Safe, [Next]_vars
    PROVE  [CursorsNeverMoveBack]_vars
<1>1. CASE \E b \in Batches : Observe(b)
  BY <1>1, ObserveCursors
<1>2. CASE \E c \in Clients : LoadActivity(c)
  <2>1. db' = db
    BY <1>2 DEF LoadActivity
  <2> QED
    BY <2>1, SameCursors
<1>3. CASE view' = view /\ \E f : ChangesRecords(f)
  BY <1>3, ChangesCursors
<1>4. CASE ClearCache
  BY <1>4, ClearedDatabase, SameCursors
<1>5. CASE db' = db /\ view' = view
  BY <1>5 DEF vars
<1> QED
  BY <1>1, <1>2, <1>3, <1>4, <1>5, StepKinds

(* Whatever the order in which the batches of racing refreshes commit, no  *)
(* durable cursor, revision, receipt or observation time moves back.       *)
THEOREM CursorsOnlyAdvance == Spec => NeverMovesBack
<1>1. Safe /\ [Next]_vars => [CursorsNeverMoveBack]_vars
  BY StepCursors
<1> QED
  BY <1>1, AlwaysSafe, PTL DEF Spec, NeverMovesBack

-----------------------------------------------------------------------------
(* What a step tells the user of.                                          *)

(* An alert whose trouble is over.                                         *)
Evidence(run, id) ==
    IF id = "failed" THEN run.status # "FAILED" ELSE run.metrics[id].value \in {"finite", "other"}

EpisodeTold(old, new, id) ==
    LET a == old.alerts[id]
        b == new.alerts[id]
    IN  a.present =>
        /\ b.present
        /\ a.episode = b.episode => b.acknowledged = a.acknowledged
        /\ a.episode # b.episode =>
             /\ ~a.active \/ new.run.end # old.run.end
             /\ b.episode > old.revision /\ Unread(new) /\ ~b.acknowledged
             /\ ~Evidence(new.run, id)

RecoveryTold(old, new, id) ==
    old.alerts[id].present /\ old.alerts[id].active /\ ~new.alerts[id].active =>
        Evidence(new.run, id)

StatusTold(old, new) ==
    old.known /\ (old.run.status # new.run.status \/ old.run.end # new.run.end) =>
        new.revision > old.revision /\ <<"status">> \in new.reasons

MetricTold(old, new, sub) ==
    old.baselines[sub] # Unset /\ new.baselines[sub] \notin {Unset, old.baselines[sub]} =>
        /\ new.baselines[sub] # <<>>
        /\ <<"metric", sub[2]>> \in new.reasons
        /\ new.revision > old.revision

Tells(old, new) ==
    /\ \A id \in AlertIds : EpisodeTold(old, new, id) /\ RecoveryTold(old, new, id)
    /\ StatusTold(old, new)
    /\ \A sub \in Subscription : MetricTold(old, new, sub)

LEMMA TellsItself ==
    ASSUME NEW rec
    PROVE  Tells(rec, rec)
BY DEF Tells, EpisodeTold, RecoveryTold, StatusTold, MetricTold

(* Whatever the reducer has a reason for is unread with that reason.       *)
LEMMA ReducerNews ==
    ASSUME NEW prev \in Record, RecordInv(prev), NEW obs \in Observation,
           NEW now \in Nat, NEW i, NEW f, NEW initialized, ~(prev.observedAt > now)
    PROVE  LET new == ObserveActivityRecord(prev, obs, now, i, f, initialized)
               reasons == EventReasons(prev, obs, i, f, initialized)
           IN  /\ new.run = obs.run /\ new.baselines = NextBaselines(prev, obs)
               /\ new.revision \in Nat
               /\ \A id \in AlertIds : new.alerts[id] = NextAlert(prev, obs, new.revision, id)
               /\ \A x \in reasons :
                    new.revision > prev.revision /\ x \in new.reasons /\ Unread(new)
               /\ Unread(prev) => prev.reasons \subseteq new.reasons
<1> DEFINE new == ObserveActivityRecord(prev, obs, now, i, f, initialized)
           reasons == EventReasons(prev, obs, i, f, initialized)
           base == IF prev.revision = 0 THEN 1 ELSE prev.revision
           revision == IF reasons = {} THEN base ELSE base + 1
<1>1. /\ new.run = obs.run /\ new.baselines = NextBaselines(prev, obs)
      /\ new.revision = revision
      /\ new.reasons = IF reasons = {} THEN prev.reasons
                       ELSE IF Unread(prev) THEN prev.reasons \cup reasons
                       ELSE reasons
      /\ new.alerts = [id \in AlertIds |-> NextAlert(prev, obs, revision, id)]
  BY DEF ObserveActivityRecord
<1>2. prev.revision \in Nat /\ RecordInv(new)
  BY ReducerFollows DEF Record, Follows
<1>3. revision \in Nat /\ (reasons # {} => revision > prev.revision)
  BY <1>2
<1> HIDE DEF new, reasons, revision
<1>4. ASSUME NEW x \in reasons
      PROVE  new.revision > prev.revision /\ x \in new.reasons /\ Unread(new)
  <2>1. x \in new.reasons
    BY <1>1
  <2> QED
    BY <1>1, <1>2, <1>3, <2>1 DEF RecordInv
<1>5. Unread(prev) => prev.reasons \subseteq new.reasons
  BY <1>1
<1>6. \A id \in AlertIds : new.alerts[id] = NextAlert(prev, obs, new.revision, id)
  BY <1>1
<1> QED
  BY <1>1, <1>3, <1>4, <1>5, <1>6 DEF new, reasons

LEMMA FingerprintOfLogged ==
    ASSUME NEW run \in Run, NEW sub \in Subscription
    PROVE  /\ SubFingerprint(run, sub) # Unset
           /\ Logged(run, sub[2]) => SubFingerprint(run, sub) # <<>>
<1>1. run.metrics[sub[2]] \in Sample
  BY DEF Run, Subscription
<1>2. run.metrics[sub[2]].value \in Value
  BY <1>1 DEF Sample
<1>3. <<run.metrics[sub[2]].value>> # <<"unset">>
  BY <1>2 DEF Value
<1> QED
  BY <1>3 DEF SubFingerprint, Unset

(* A new episode is of trouble that is seen, and what is seen to be over   *)
(* is why an alert ends.                                                   *)
LEMMA ReducerTellsAlerts ==
    ASSUME NEW prev \in Record, RecordInv(prev), NEW obs \in Observation,
           NEW new \in Record, RecordInv(new), NEW id \in AlertIds, new.run = obs.run,
           new.alerts[id] = NextAlert(prev, obs, new.revision, id),
           id \in NewEpisodes(prev, obs) /\ prev.known =>
             new.revision > prev.revision /\ Unread(new)
    PROVE  EpisodeTold(prev, new, id) /\ RecoveryTold(prev, new, id)
<1>1. /\ prev.alerts[id] \in Alert /\ new.revision \in Nat /\ prev.revision \in Nat
      /\ obs.run \in Run /\ prev.known \in BOOLEAN
  BY DEF Record, Observation
<1>2. prev.alerts[id].present => prev.known
  BY DEF RecordInv
<1>3. prev.alerts[id].present => prev.alerts[id].episode <= prev.revision
  BY DEF RecordInv
<1>4. id # "failed" => obs.run.metrics[id].value \in Value
  BY <1>1 DEF AlertIds, Run, Sample
<1>5. Detected(obs.run, obs.policy, id) => ~Evidence(obs.run, id)
  BY DEF Detected, NonFinite, Evidence
<1>6. CASE id \in NewEpisodes(prev, obs)
  <2>1. new.alerts[id] = [present |-> TRUE, active |-> TRUE, acknowledged |-> FALSE,
                          suppressed |-> FALSE, episode |-> new.revision]
    BY <1>6 DEF NextAlert
  <2>2. Detected(obs.run, obs.policy, id) /\ ~Continued(prev, obs.run, id)
    BY <1>6 DEF NewEpisodes, DetectActivityAlerts
  <2>3. prev.alerts[id].present => ~prev.alerts[id].active \/ prev.run.end # obs.run.end
    BY <2>2 DEF Continued, NewFailure
  <2>4. RecoveryTold(prev, new, id)
    BY <2>1 DEF RecoveryTold
  <2>5. ASSUME prev.alerts[id].present
        PROVE  /\ new.revision > prev.revision /\ Unread(new)
               /\ prev.alerts[id].episode < new.revision
    <3>1. new.revision > prev.revision /\ Unread(new)
      BY <1>2, <1>6, <2>5
    <3>2. prev.alerts[id].episode <= prev.revision /\ prev.alerts[id].episode \in Nat
      BY <1>1, <1>3, <2>5 DEF Alert
    <3> QED
      BY <1>1, <3>1, <3>2
  <2>6. ~Evidence(new.run, id)
    BY <1>5, <2>2
  <2>7. /\ new.alerts[id].present /\ ~new.alerts[id].acknowledged
        /\ new.alerts[id].episode = new.revision
    BY <2>1
  <2>8. EpisodeTold(prev, new, id)
    <3>1. CASE prev.alerts[id].present
      <4>1. prev.alerts[id].episode # new.alerts[id].episode
        BY <1>1, <1>3, <2>5, <2>7, <3>1 DEF Alert
      <4> QED
        BY <2>3, <2>5, <2>6, <2>7, <3>1, <4>1 DEF EpisodeTold
    <3>2. CASE ~prev.alerts[id].present
      BY <3>2 DEF EpisodeTold
    <3> QED
      BY <3>1, <3>2
  <2> QED
    BY <2>4, <2>8
<1>7. CASE id \notin NewEpisodes(prev, obs)
  <2>1. /\ new.alerts[id].present = prev.alerts[id].present
        /\ new.alerts[id].episode = prev.alerts[id].episode
        /\ new.alerts[id].acknowledged = prev.alerts[id].acknowledged
    BY <1>1, <1>7, NextAlertStep
  <2>2. prev.alerts[id].present /\ prev.alerts[id].active /\ ~new.alerts[id].active =>
          /\ ~Detected(obs.run, obs.policy, id)
          /\ Enabled(obs.policy, id) /\ Recovered(obs.run, id)
    BY <1>1, <1>7 DEF NextAlert, Alert
  <2>3. ~Detected(obs.run, obs.policy, id) /\ Enabled(obs.policy, id) /\ Recovered(obs.run, id)
          => Evidence(obs.run, id)
    BY <1>4 DEF Detected, Recovered, Logged, NonFinite, Evidence, Value
  <2> QED
    BY <2>1, <2>2, <2>3 DEF EpisodeTold, RecoveryTold
<1> QED
  BY <1>6, <1>7

LEMMA ReducerTells ==
    ASSUME NEW prev \in Record, RecordInv(prev), NEW obs \in Observation,
           NEW now \in Nat, NEW i, NEW f, NEW initialized
    PROVE  Tells(prev, ObserveActivityRecord(prev, obs, now, i, f, initialized))
<1> DEFINE new == ObserveActivityRecord(prev, obs, now, i, f, initialized)
           reasons == EventReasons(prev, obs, i, f, initialized)
<1>1. CASE prev.observedAt > now
  BY <1>1, TellsItself DEF ObserveActivityRecord
<1>2. CASE ~(prev.observedAt > now)
  <2>1. new \in Record /\ RecordInv(new)
    BY ReducerFollows DEF Follows
  <2>2. /\ new.run = obs.run /\ new.baselines = NextBaselines(prev, obs)
        /\ \A id \in AlertIds : new.alerts[id] = NextAlert(prev, obs, new.revision, id)
        /\ \A x \in reasons :
             new.revision > prev.revision /\ x \in new.reasons /\ Unread(new)
    BY <1>2, ReducerNews
  <2> HIDE DEF new
  <2>3. ASSUME NEW id \in AlertIds
        PROVE  EpisodeTold(prev, new, id) /\ RecoveryTold(prev, new, id)
    <3>1. id \in NewEpisodes(prev, obs) /\ prev.known => <<"alert", id>> \in reasons
      BY DEF EventReasons
    <3> QED
      BY <2>1, <2>2, <3>1, ReducerTellsAlerts
  <2>4. StatusTold(prev, new)
    <3>1. StatusChanged(prev, obs.run) => <<"status">> \in reasons
      BY DEF EventReasons
    <3> QED
      BY <2>2, <3>1 DEF StatusTold, StatusChanged
  <2>5. ASSUME NEW sub \in Subscription
        PROVE  MetricTold(prev, new, sub)
    <3>1. SUFFICES ASSUME prev.baselines[sub] # Unset,
                          new.baselines[sub] \notin {Unset, prev.baselines[sub]}
                   PROVE  /\ new.baselines[sub] # <<>>
                          /\ <<"metric", sub[2]>> \in new.reasons
                          /\ new.revision > prev.revision
      BY DEF MetricTold
    <3>2. /\ sub \in obs.policy.subs /\ Logged(obs.run, sub[2])
          /\ new.baselines[sub] = SubFingerprint(obs.run, sub)
      BY <2>2, <3>1 DEF NextBaselines
    <3>3. prev.known
      BY <3>1 DEF RecordInv
    <3>4. sub \in ChangedSubs(prev, obs)
      BY <3>1, <3>2, <3>3 DEF ChangedSubs
    <3>5. <<"metric", sub[2]>> \in reasons
      BY <3>4 DEF EventReasons
    <3> QED
      BY <2>2, <3>2, <3>5, FingerprintOfLogged DEF Observation
  <2> QED
    BY <2>3, <2>4, <2>5 DEF Tells, new
<1> QED
  BY <1>1, <1>2

(* A policy that is replayed on what was just observed takes back nothing  *)
(* of what the observation told.                                           *)
LEMMA TellsAndReplays ==
    ASSUME NEW old \in Record, RecordInv(old), NEW mid, NEW new,
           Follows(old, mid), Follows(mid, new), Tells(old, mid), Tells(mid, new), new.run = mid.run,
           Unread(mid) => mid.reasons \subseteq new.reasons,
           \A sub \in Subscription :
             old.baselines[sub] # Unset /\ mid.baselines[sub] = Unset =>
               new.baselines[sub] = Unset
    PROVE  Tells(old, new)
<1>1. /\ mid \in Record /\ new \in Record /\ RecordInv(mid) /\ RecordInv(new)
      /\ old.revision <= mid.revision /\ mid.revision <= new.revision
  BY DEF Follows
<1>2. /\ old.revision \in Nat /\ mid.revision \in Nat /\ new.revision \in Nat
      /\ mid.readRevision \in Nat /\ new.readRevision \in Nat
  BY <1>1 DEF Record
<1>3. \A x \in mid.reasons : x \in new.reasons
  BY <1>1 DEF RecordInv
<1>4. Unread(mid) => Unread(new)
  BY <1>1, <1>3 DEF RecordInv
<1>5. ASSUME NEW id \in AlertIds
      PROVE  EpisodeTold(old, new, id) /\ RecoveryTold(old, new, id)
  <2> DEFINE a == old.alerts[id]
             m == mid.alerts[id]
             b == new.alerts[id]
  <2>1. /\ EpisodeTold(old, mid, id) /\ EpisodeTold(mid, new, id)
        /\ RecoveryTold(old, mid, id) /\ RecoveryTold(mid, new, id)
    BY DEF Tells
  <2>2. /\ a \in Alert /\ m \in Alert /\ b \in Alert
    BY <1>1 DEF Record
  <2>3. b.present /\ b.acknowledged => m.acknowledged /\ m.episode = b.episode
    BY DEF Follows
  <2>4. RecoveryTold(old, new, id)
    BY <2>1 DEF RecoveryTold, EpisodeTold
  <2>5. EpisodeTold(old, new, id)
    <3>1. SUFFICES ASSUME a.present
                   PROVE  /\ b.present
                          /\ a.episode = b.episode => b.acknowledged = a.acknowledged
                          /\ a.episode # b.episode =>
                               /\ ~a.active \/ new.run.end # old.run.end
                               /\ b.episode > old.revision /\ Unread(new) /\ ~b.acknowledged
                               /\ ~Evidence(new.run, id)
      BY DEF EpisodeTold
    <3>2. /\ m.present /\ b.present
          /\ a.episode = m.episode => m.acknowledged = a.acknowledged
          /\ m.episode = b.episode => b.acknowledged = m.acknowledged
      BY <2>1, <3>1 DEF EpisodeTold
    <3>3. /\ a.episode # m.episode =>
               /\ ~a.active \/ mid.run.end # old.run.end
               /\ m.episode > old.revision /\ Unread(mid) /\ ~m.acknowledged
               /\ ~Evidence(mid.run, id)
          /\ m.episode # b.episode =>
               /\ ~m.active
               /\ b.episode > mid.revision /\ Unread(new) /\ ~b.acknowledged
               /\ ~Evidence(new.run, id)
      BY <2>1, <3>1, <3>2 DEF EpisodeTold
    <3>4. a.episode <= old.revision
      BY <3>1 DEF RecordInv
    <3>5. CASE m.episode = b.episode
      BY <1>4, <3>2, <3>3, <3>5
    <3>6. CASE m.episode # b.episode
      <4>1. a.active => m.active \/ Evidence(mid.run, id)
        BY <2>1, <3>1 DEF RecoveryTold
      <4>2. a.active /\ a.episode = m.episode => FALSE
        BY <3>3, <3>6, <4>1
      <4>3. b.episode > old.revision
        BY <1>1, <1>2, <2>2, <3>3, <3>6 DEF Alert
      <4>4. a.episode # b.episode
        BY <1>2, <2>2, <3>4, <4>3 DEF Alert
      <4> QED
        BY <3>2, <3>3, <3>6, <4>2, <4>3, <4>4
    <3> QED
      BY <3>5, <3>6
  <2> QED
    BY <2>4, <2>5
<1>6. StatusTold(old, new)
  BY <1>1, <1>2, <1>3 DEF Tells, StatusTold
<1>7. ASSUME NEW sub \in Subscription
      PROVE  MetricTold(old, new, sub)
  <2>1. MetricTold(old, mid, sub) /\ MetricTold(mid, new, sub)
    BY DEF Tells
  <2> QED
    BY <1>1, <1>2, <1>3, <2>1 DEF MetricTold
<1> QED
  BY <1>5, <1>6, <1>7 DEF Tells

LEMMA ObservedTells ==
    ASSUME NEW d \in Database, NEW b, IsBatch(b), NEW r \in Runs,
           RecordInv(d.records[r])
    PROVE  LET old == d.records[r]
               mid == ObservedRecord(d, b, r)
           IN  /\ Tells(old, mid)
               /\ r \notin DOMAIN b.observations => mid = old
               /\ mid.known /\ mid # old =>
                    /\ r \in DOMAIN b.observations
                    /\ mid.run = b.observations[r].run
                    /\ mid.baselines = NextBaselines(old, b.observations[r])
<1> DEFINE old == d.records[r]
           obs == b.observations[r]
           seen == ObserveActivityRecord(old, obs, b.observedAt, InitialSince(d, b),
                                         b.forceUnreadSince, d.initialized)
<1>1. old \in Record /\ RecordInv(old)
  BY DEF Database
<1>2. CASE ObservedRecord(d, b, r) = old
  BY <1>2, TellsItself
<1>3. CASE ObservedRecord(d, b, r) # old
  <2>1. ObservedRecord(d, b, r) = seen /\ r \in DOMAIN b.observations
    BY <1>3 DEF ObservedRecord
  <2>2. obs \in Observation /\ b.observedAt \in Nat
    BY <2>1 DEF IsBatch
  <2>3. Tells(old, seen)
    BY <1>1, <2>2, ReducerTells
  <2>4. ~(old.observedAt > b.observedAt)
    BY <1>3, <2>1 DEF ObserveActivityRecord
  <2>5. seen.run = obs.run /\ seen.baselines = NextBaselines(old, obs)
    BY <1>1, <2>2, <2>4, ReducerNews
  <2> QED
    BY <2>1, <2>3, <2>5
<1> QED
  BY <1>2, <1>3

LEMMA ReplayTells ==
    ASSUME NEW b, IsBatch(b), NEW rec \in Record, RecordInv(rec),
           rec.run.exp \in DOMAIN b.policies
    PROVE  LET new == ReplayedPolicy(b, rec)
           IN  /\ Tells(rec, new) /\ new.run = rec.run
               /\ Unread(rec) => rec.reasons \subseteq new.reasons
               /\ \A sub \in Subscription :
                    rec.baselines[sub] = Unset /\ new.baselines[sub] # Unset =>
                      sub \in b.policies[rec.run.exp].subs
<1> DEFINE obs == [run |-> rec.run, policy |-> b.policies[rec.run.exp],
                   cacheOnly |-> TRUE, retain |-> TRUE]
           seen == ObserveActivityRecord(rec, obs, b.observedAt, 0, 0, TRUE)
           new == [seen EXCEPT !.observedAt = rec.observedAt]
<1>1. obs \in Observation /\ b.observedAt \in Nat
  BY DEF IsBatch, Observation, Record
<1>2. Tells(rec, seen) /\ seen \in Record
  BY <1>1, ReducerTells, ReducerFollows DEF Follows
<1>3. /\ seen.run = rec.run
      /\ Unread(rec) => rec.reasons \subseteq seen.reasons
      /\ \A sub \in Subscription :
           rec.baselines[sub] = Unset /\ seen.baselines[sub] # Unset =>
             sub \in obs.policy.subs
  <2>1. CASE rec.observedAt > b.observedAt
    <3>1. seen = rec
      BY <2>1 DEF ObserveActivityRecord
    <3> QED
      BY <3>1
  <2>2. CASE ~(rec.observedAt > b.observedAt)
    <3>1. obs.run = rec.run
      OBVIOUS
    <3> HIDE DEF obs
    <3>2. /\ seen.run = obs.run /\ seen.baselines = NextBaselines(rec, obs)
          /\ Unread(rec) => rec.reasons \subseteq seen.reasons
      BY <2>2 DEF ObserveActivityRecord
    <3> HIDE DEF seen
    <3> QED
      BY <3>1, <3>2 DEF NextBaselines
  <2> QED
    BY <2>1, <2>2
<1>4. ReplayedPolicy(b, rec) = new
  BY DEF ReplayedPolicy
<1> HIDE DEF seen
<1>5. /\ new.known = seen.known /\ new.run = seen.run /\ new.revision = seen.revision
      /\ new.readRevision = seen.readRevision /\ new.reasons = seen.reasons
      /\ new.alerts = seen.alerts /\ new.baselines = seen.baselines
  BY <1>2 DEF Record
<1> HIDE DEF new
<1>6. Tells(rec, new)
  BY <1>2, <1>5 DEF Tells, EpisodeTold, RecoveryTold, StatusTold, MetricTold, Unread
<1> QED
  BY <1>3, <1>4, <1>5, <1>6

(* What a scan hides keeps all it told.                                    *)
LEMMA ReconciledTells ==
    ASSUME NEW d \in Database, NEW b, IsBatch(b), NEW r \in Runs,
           RecordInv(d.records[r]), r \notin DOMAIN b.observations
    PROVE  Tells(d.records[r], ReconciledRecord(d, b, r))
<1> DEFINE old == d.records[r]
           new == [old EXCEPT !.run.stage = "deleted", !.observedAt = b.observedAt]
<1>1. old \in Record /\ ObservedRecord(d, b, r) = old
  BY ObservedTells DEF Database
<1>2. ReconciledRecord(d, b, r) = old \/ ReconciledRecord(d, b, r) = new
  BY <1>1 DEF ReconciledRecord
<1>3. /\ new.known = old.known /\ new.revision = old.revision
      /\ new.readRevision = old.readRevision /\ new.reasons = old.reasons
      /\ new.alerts = old.alerts /\ new.baselines = old.baselines
      /\ new.run = [old.run EXCEPT !.stage = "deleted"]
  BY <1>1 DEF Record
<1>4. new.run.status = old.run.status /\ new.run.end = old.run.end
  BY <1>1, <1>3 DEF Record, Run
<1> HIDE DEF new
<1>5. Tells(old, new)
  BY <1>3, <1>4 DEF Tells, EpisodeTold, RecoveryTold, StatusTold, MetricTold
<1> QED
  BY <1>2, <1>5, TellsItself

LEMMA NextRecordTells ==
    ASSUME NEW d \in Database, NEW b, IsBatch(b), NEW r \in Runs,
           RecordInv(d.records[r])
    PROVE  Tells(d.records[r], NextRecord(d, b, r))
<1> DEFINE old == d.records[r]
           mid == ReconciledRecord(d, b, r)
           new == ReplayedPolicy(b, mid)
<1>1. old \in Record /\ Follows(old, mid) /\ mid \in Record /\ RecordInv(mid)
  BY ReconciledFollows DEF Follows, Database
<1>2. Tells(old, mid)
  <2>1. CASE r \notin DOMAIN b.observations
    BY <2>1, ReconciledTells
  <2>2. CASE r \in DOMAIN b.observations
    <3>1. mid = ObservedRecord(d, b, r)
      BY <2>2 DEF ReconciledRecord
    <3> QED
      BY <3>1, ObservedTells
  <2> QED
    BY <2>1, <2>2
<1>3. CASE NextRecord(d, b, r) = mid
  BY <1>2, <1>3
<1>4. CASE NextRecord(d, b, r) # mid
  <2>1. /\ NextRecord(d, b, r) = new /\ mid.known
        /\ mid.run.stage # "deleted" /\ mid.run.exp \in DOMAIN b.policies
    BY <1>4 DEF NextRecord
  <2>2. /\ Follows(mid, new) /\ Tells(mid, new) /\ new.run = mid.run
        /\ Unread(mid) => mid.reasons \subseteq new.reasons
        /\ \A sub \in Subscription :
             mid.baselines[sub] = Unset /\ new.baselines[sub] # Unset =>
               sub \in b.policies[mid.run.exp].subs
    BY <1>1, <2>1, ReplayFollows, ReplayTells
  <2>3. mid = ObservedRecord(d, b, r)
    <3>1. [ObservedRecord(d, b, r) EXCEPT !.run.stage = "deleted",
                                          !.observedAt = b.observedAt].run.stage = "deleted"
      <4>1. ObservedRecord(d, b, r) \in Record
        BY ObservedFollows DEF Follows
      <4> QED
        BY <4>1 DEF Record, Run
    <3> QED
      BY <2>1, <3>1 DEF ReconciledRecord
  <2>4. ASSUME NEW sub \in Subscription, old.baselines[sub] # Unset,
               mid.baselines[sub] = Unset
        PROVE  new.baselines[sub] = Unset
    <3> DEFINE obs == b.observations[r]
    <3>1. /\ r \in DOMAIN b.observations /\ mid.run = obs.run
          /\ mid.baselines = NextBaselines(old, obs)
      BY <2>1, <2>3, <2>4, ObservedTells
    <3>2. obs \in Observation /\ b.policies[mid.run.exp] = obs.policy
      BY <2>1, <3>1 DEF IsBatch
    <3>3. SubFingerprint(obs.run, sub) # Unset
      BY <3>2, FingerprintOfLogged DEF Observation
    <3>4. sub \notin obs.policy.subs
      BY <2>4, <3>1, <3>3 DEF NextBaselines
    <3> QED
      BY <2>2, <2>4, <3>2, <3>4
  <2> HIDE DEF new, mid, old
  <2>5. RecordInv(old)
    BY DEF old
  <2>6. Tells(old, new)
    BY <1>1, <1>2, <2>2, <2>4, <2>5, TellsAndReplays
  <2> QED
    BY <2>1, <2>6 DEF old, new
<1> QED
  BY <1>3, <1>4

(* The personal changes say nothing of the run: they keep what is known of *)
(* it, and only an acknowledgement changes whether an alert is quiet.      *)
Keeps(old, new) ==
    /\ new.run = old.run /\ new.baselines = old.baselines
    /\ \A id \in AlertIds : /\ new.alerts[id].present = old.alerts[id].present
                            /\ new.alerts[id].active = old.alerts[id].active
                            /\ new.alerts[id].episode = old.alerts[id].episode

Quiets(old, new) ==
    \A id \in AlertIds : old.alerts[id].acknowledged => new.alerts[id].acknowledged

LEMMA KeepsItself ==
    ASSUME NEW rec
    PROVE  Keeps(rec, rec) /\ Quiets(rec, rec)
BY DEF Keeps, Quiets

LEMMA ReadKeeps ==
    ASSUME Safe, NEW c \in Clients, NEW S \in SUBSET Shown(c), NEW r \in Runs,
           MarkRead(c, S) \/ MarkUnread(c, S)
    PROVE  LET old == db.records[r]
               new == db'.records[r]
           IN  Keeps(old, new) /\ Quiets(old, new)
<1> DEFINE old == db.records[r]
           new == db'.records[r]
<1>1. old \in Record /\ db \in Database
  BY DEF Safe, TypeOK, Database
<1>2. CASE MarkRead(c, S)
  <2>1. new \in {old, MarkReadRecord(old, view[c][r])}
    BY <1>1, <1>2 DEF MarkRead, MarkActivityRead, ChangeActivity, Receipts, Database, Shown
  <2>2. /\ MarkReadRecord(old, view[c][r]).run = old.run
        /\ MarkReadRecord(old, view[c][r]).alerts = old.alerts
        /\ MarkReadRecord(old, view[c][r]).baselines = old.baselines
    BY <1>1 DEF MarkReadRecord, Record
  <2> QED
    BY <2>1, <2>2 DEF Keeps, Quiets
<1>3. CASE MarkUnread(c, S)
  <2>1. new \in {old, MarkUnreadRecord(old)}
    BY <1>1, <1>3 DEF MarkUnread, MarkActivityUnread, ChangeActivity, Database, Shown
  <2>2. /\ MarkUnreadRecord(old).run = old.run
        /\ MarkUnreadRecord(old).alerts = old.alerts
        /\ MarkUnreadRecord(old).baselines = old.baselines
    BY <1>1 DEF MarkUnreadRecord, Record
  <2> QED
    BY <2>1, <2>2 DEF Keeps, Quiets
<1> QED
  BY <1>2, <1>3

LEMMA AcknowledgeKeeps ==
    ASSUME Safe, NEW c \in Clients, NEW S \in SUBSET Shown(c), NEW ack \in BOOLEAN,
           NEW r \in Runs, Acknowledge(c, S, ack)
    PROVE  LET old == db.records[r]
               new == db'.records[r]
           IN  Keeps(old, new) /\ (ack => Quiets(old, new))
<1> DEFINE old == db.records[r]
           new == db'.records[r]
           done == AcknowledgeRecord(old, view[c][r], ack)
<1>1. old \in Record /\ db \in Database
  BY DEF Safe, TypeOK, Database
<1>2. new \in {old, done}
  BY <1>1 DEF Acknowledge, AcknowledgeActivity, ChangeActivity, Receipts, Database, Shown
<1>3. /\ done.run = old.run /\ done.baselines = old.baselines
      /\ \A id \in AlertIds :
           done.alerts[id] \in {old.alerts[id], [old.alerts[id] EXCEPT !.acknowledged = ack]}
  BY <1>1 DEF AcknowledgeRecord, Record
<1>4. ASSUME NEW id \in AlertIds
      PROVE  /\ done.alerts[id].present = old.alerts[id].present
             /\ done.alerts[id].active = old.alerts[id].active
             /\ done.alerts[id].episode = old.alerts[id].episode
             /\ ack /\ old.alerts[id].acknowledged => done.alerts[id].acknowledged
  <2>1. old.alerts[id] \in Alert
    BY <1>1 DEF Record
  <2> HIDE DEF done
  <2> QED
    BY <1>3, <2>1 DEF Alert
<1> HIDE DEF done
<1>5. Keeps(old, done) /\ (ack => Quiets(old, done))
  BY <1>3, <1>4 DEF Keeps, Quiets
<1> QED
  BY <1>2, <1>5, KeepsItself

LEMMA StepTells ==
    ASSUME Safe, [Next]_vars, NEW r \in Runs
    PROVE  LET old == db.records[r]
               new == db'.records[r]
           IN  \/ Tells(old, new)
               \/ /\ Keeps(old, new)
                  /\ Quiets(old, new) \/ \E c \in Clients, S \in SUBSET Runs :
                                            Acknowledge(c, S, FALSE)
<1>1. ASSUME NEW b \in Batches, Observe(b)
      PROVE  Tells(db.records[r], db'.records[r])
  <2>1. db \in Database /\ RecordInv(db.records[r]) /\ db' = ObserveActivity(db, b)
    BY <1>1 DEF Safe, TypeOK, Observe
  <2>2. db'.records[r] = NextRecord(db, b, r)
    BY <2>1 DEF ObserveActivity
  <2> QED
    BY <2>1, <2>2, BatchType, NextRecordTells
<1>2. ASSUME NEW c \in Clients, NEW S \in SUBSET Shown(c), NEW ack \in BOOLEAN,
             Acknowledge(c, S, ack)
      PROVE  /\ Keeps(db.records[r], db'.records[r])
             /\ \/ Quiets(db.records[r], db'.records[r])
                \/ \E k \in Clients, R \in SUBSET Runs : Acknowledge(k, R, FALSE)
  <2>1. S \in SUBSET Runs
    BY DEF Shown
  <2>2. /\ Keeps(db.records[r], db'.records[r])
        /\ ack => Quiets(db.records[r], db'.records[r])
    BY <1>2, AcknowledgeKeeps
  <2>3. CASE ack = TRUE
    BY <2>2, <2>3
  <2>4. CASE ack = FALSE
    BY <1>2, <2>1, <2>2, <2>4
  <2> QED
    BY <2>3, <2>4
<1>3. ASSUME db' = db
      PROVE  Tells(db.records[r], db'.records[r])
  BY <1>3, TellsItself
<1>4. ASSUME ClearCache
      PROVE  Tells(db.records[r], db'.records[r])
  BY <1>4, ClearedDatabase, TellsItself
<1>5. ASSUME NEW c \in Clients, NEW S \in SUBSET Shown(c), MarkRead(c, S) \/ MarkUnread(c, S)
      PROVE  /\ Keeps(db.records[r], db'.records[r])
             /\ Quiets(db.records[r], db'.records[r])
  BY <1>5, ReadKeeps
<1>6. CASE Next
  BY <1>1, <1>2, <1>3, <1>4, <1>5, <1>6 DEF Next, Personal, LoadActivity
<1>7. CASE UNCHANGED vars
  BY <1>3, <1>7 DEF vars
<1> QED
  BY <1>6, <1>7

(* An alert's episode goes on until it was inactive or failed again, a new *)
(* episode is above the old revision and unread, and only the user undoes  *)
(* an acknowledgement.                                                     *)
THEOREM EpisodesAlwaysContinue == Spec => EpisodesContinue
<1>1. ASSUME Safe, [Next]_vars, NEW r \in Runs, NEW id \in AlertIds
      PROVE  EpisodeStep(r, id)
  <2>1. CASE Tells(db.records[r], db'.records[r])
    BY <2>1 DEF Tells, EpisodeTold, EpisodeStep
  <2>2. CASE /\ Keeps(db.records[r], db'.records[r])
             /\ Quiets(db.records[r], db'.records[r])
               \/ \E c \in Clients, S \in SUBSET Runs : Acknowledge(c, S, FALSE)
    BY <2>2 DEF Keeps, Quiets, EpisodeStep
  <2> QED
    BY <1>1, <2>1, <2>2, StepTells
<1>2. Safe /\ [Next]_vars => [\A r \in Runs, id \in AlertIds : EpisodeStep(r, id)]_vars
  BY <1>1
<1> QED
  BY <1>2, AlwaysSafe, PTL DEF Spec, EpisodesContinue

(* No alert ends for want of data: only a run that is seen without the     *)
(* trouble makes it inactive.                                              *)
THEOREM RecoveryAlwaysHasEvidence == Spec => RecoveryNeedsEvidence
<1>1. ASSUME Safe, [Next]_vars, NEW r \in Runs, NEW id \in AlertIds
      PROVE  RecoveryStep(r, id)
  <2>1. RecoveryTold(db.records[r], db'.records[r], id)
    BY <1>1, StepTells DEF Tells, Keeps, RecoveryTold
  <2> QED
    BY <2>1 DEF RecoveryTold, RecoveryStep, Evidence
<1>2. Safe /\ [Next]_vars => [\A r \in Runs, id \in AlertIds : RecoveryStep(r, id)]_vars
  BY <1>1
<1> QED
  BY <1>2, AlwaysSafe, PTL DEF Spec, RecoveryNeedsEvidence

(* A run's new status or end time is never recorded in silence.            *)
THEOREM StatusIsAlwaysTold == Spec => StatusChangesAreUnread
<1>1. ASSUME Safe, [Next]_vars, NEW r \in Runs
      PROVE  StatusStep(r)
  <2>1. StatusTold(db.records[r], db'.records[r])
    BY <1>1, StepTells DEF Tells, Keeps, StatusTold
  <2> QED
    BY <2>1 DEF StatusTold, StatusStep
<1>2. Safe /\ [Next]_vars => [\A r \in Runs : StatusStep(r)]_vars
  BY <1>1
<1> QED
  BY <1>2, AlwaysSafe, PTL DEF Spec, StatusChangesAreUnread

(* A subscribed metric moves its baseline only to a logged value, and      *)
(* never in silence.                                                       *)
THEOREM MetricsAreAlwaysTold == Spec => MetricChangesAreUnread
<1>1. ASSUME Safe, [Next]_vars, NEW r \in Runs, NEW sub \in Subscription
      PROVE  MetricStep(r, sub)
  <2>1. MetricTold(db.records[r], db'.records[r], sub)
    BY <1>1, StepTells DEF Tells, Keeps, MetricTold
  <2> QED
    BY <2>1 DEF MetricTold, MetricStep
<1>2. Safe /\ [Next]_vars => [\A r \in Runs, sub \in Subscription : MetricStep(r, sub)]_vars
  BY <1>1
<1> QED
  BY <1>2, AlwaysSafe, PTL DEF Spec, MetricChangesAreUnread

-----------------------------------------------------------------------------
(* The store implements the inbox.                                         *)

LEMMA RevisionTypes ==
    ASSUME db \in Database, NEW r \in Runs
    PROVE  /\ db.records[r] \in Record
           /\ db.records[r].revision \in Nat /\ db.records[r].readRevision \in Nat
BY DEF Database, Record

LEMMA InboxInit ==
    ASSUME Init
    PROVE  Inbox!Init
BY DEF Init, Inbox!Init, NewActivitySnapshot, NoRecord

LEMMA PostStep ==
    ASSUME Safe, Safe', view' = view,
           \A r \in Runs :
              /\ db.records[r].revision <= db'.records[r].revision
              /\ db'.records[r].readRevision =
                    IF db.records[r].revision = 0 /\ db'.records[r].revision > 0
                    THEN 1 ELSE db.records[r].readRevision
    PROVE  Inbox!Next
<1>1. \A r \in Runs : db'.records[r].revision \in Nat
  BY RevisionTypes DEF Safe, TypeOK, Database, Record
<1>2. Inbox!Post
  BY <1>1 DEF Inbox!Post
<1> QED
  BY <1>2 DEF Inbox!Next

LEMMA SameRevisions ==
    ASSUME view' = view,
           \A r \in Runs : /\ db'.records[r].revision = db.records[r].revision
                           /\ db'.records[r].readRevision = db.records[r].readRevision
    PROVE  UNCHANGED Inbox!inboxVars
BY DEF Inbox!inboxVars

LEMMA InboxRead ==
    ASSUME Safe, NEW c \in Clients, NEW S \in SUBSET Shown(c), MarkRead(c, S), db' # db
    PROVE  Inbox!Next
<1>1. db' = [db EXCEPT
               !.records = [r \in Runs |->
                   IF r \in S /\ db.records[r].known
                   THEN MarkReadRecord(db.records[r], view[c][r]) ELSE db.records[r]],
               !.version = db.version + 1]
  BY DEF MarkRead, MarkActivityRead, ChangeActivity, Receipts, Safe, TypeOK, Database, Shown
<1>2. ASSUME NEW r \in Runs
      PROVE  /\ db'.records[r].revision = db.records[r].revision
             /\ db'.records[r].readRevision =
                   IF r \in S /\ view[c][r] > db.records[r].readRevision
                   THEN view[c][r] ELSE db.records[r].readRevision
  <2>1. db'.records[r] = IF r \in S /\ db.records[r].known
                         THEN MarkReadRecord(db.records[r], view[c][r]) ELSE db.records[r]
    BY <1>1 DEF Safe, TypeOK, Database
  <2>2. /\ db.records[r] \in Record /\ RecordInv(db.records[r])
        /\ db.records[r].revision \in Nat /\ db.records[r].readRevision \in Nat
        /\ view[c][r] \in Nat /\ view[c][r] <= db.records[r].revision
    BY RevisionTypes DEF Safe, TypeOK, ViewIsPast
  <2>3. CASE r \in S /\ db.records[r].known
    <3>1. /\ db'.records[r].revision = db.records[r].revision
          /\ db'.records[r].readRevision =
               GreaterOf(db.records[r].readRevision, LesserOf(view[c][r], db.records[r].revision))
      BY <2>1, <2>2, <2>3, MarkReadStep
    <3> QED
      BY <2>2, <2>3, <3>1 DEF GreaterOf, LesserOf
  <2>4. CASE r \in S /\ ~db.records[r].known
    <3>1. db.records[r].revision = 0 /\ view[c][r] > 0
      BY <2>2, <2>4 DEF RecordInv, Shown
    <3> QED
      BY <2>2, <3>1
  <2>5. CASE r \notin S
    BY <2>1, <2>5
  <2> QED
    BY <2>3, <2>4, <2>5
<1>3. view' = view /\ S \in SUBSET Runs
  BY DEF MarkRead, Shown
<1>4. Inbox!Read(c, S)
  BY <1>2, <1>3 DEF Inbox!Read
<1> QED
  BY <1>3, <1>4 DEF Inbox!Next

LEMMA InboxUnread ==
    ASSUME Safe, NEW c \in Clients, NEW S \in SUBSET Shown(c), MarkUnread(c, S), db' # db
    PROVE  Inbox!Next
<1>1. db' = [db EXCEPT
               !.records = [r \in Runs |->
                   IF r \in S /\ db.records[r].known
                   THEN MarkUnreadRecord(db.records[r]) ELSE db.records[r]],
               !.version = db.version + 1]
  BY DEF MarkUnread, MarkActivityUnread, ChangeActivity, Safe, TypeOK, Database, Shown
<1>2. ASSUME NEW r \in Runs
      PROVE  /\ db.records[r].revision <= db'.records[r].revision
             /\ db'.records[r].readRevision =
                    IF db.records[r].revision = 0 /\ db'.records[r].revision > 0
                    THEN 1 ELSE db.records[r].readRevision
  <2>1. db'.records[r] = IF r \in S /\ db.records[r].known
                         THEN MarkUnreadRecord(db.records[r]) ELSE db.records[r]
    BY <1>1 DEF Safe, TypeOK, Database
  <2>2. /\ db.records[r] \in Record /\ RecordInv(db.records[r])
        /\ db.records[r].revision \in Nat /\ db.records[r].readRevision \in Nat
    BY RevisionTypes DEF Safe, TypeOK
  <2>3. CASE r \in S /\ db.records[r].known
    <3>1. /\ db'.records[r].revision = db.records[r].revision + 1
          /\ db'.records[r].readRevision = db.records[r].readRevision
      BY <2>1, <2>2, <2>3, MarkUnreadStep
    <3>2. db.records[r].revision > 0
      BY <2>2, <2>3 DEF RecordInv
    <3> QED
      BY <2>2, <3>1, <3>2
  <2>4. CASE ~(r \in S /\ db.records[r].known)
    BY <2>1, <2>2, <2>4
  <2> QED
    BY <2>3, <2>4
<1>3. view' = view
  BY DEF MarkUnread
<1>4. Safe'
  BY <1>3, MarkUnreadChanges, ChangesSafe
<1> QED
  BY <1>2, <1>3, <1>4, PostStep

LEMMA InboxAcknowledge ==
    ASSUME Safe, NEW c \in Clients, NEW S \in SUBSET Shown(c), NEW ack \in BOOLEAN,
           Acknowledge(c, S, ack), db' # db
    PROVE  UNCHANGED Inbox!inboxVars
<1>1. db' = [db EXCEPT
               !.records = [r \in Runs |->
                   IF r \in S /\ db.records[r].known
                   THEN AcknowledgeRecord(db.records[r], view[c][r], ack)
                   ELSE db.records[r]],
               !.version = db.version + 1]
  BY DEF Acknowledge, AcknowledgeActivity, ChangeActivity, Receipts, Safe, TypeOK,
         Database, Shown
<1>2. ASSUME NEW r \in Runs
      PROVE  /\ db'.records[r].revision = db.records[r].revision
             /\ db'.records[r].readRevision = db.records[r].readRevision
  <2>1. db'.records[r] = IF r \in S /\ db.records[r].known
                         THEN AcknowledgeRecord(db.records[r], view[c][r], ack)
                         ELSE db.records[r]
    BY <1>1 DEF Safe, TypeOK, Database
  <2>2. /\ db.records[r] \in Record /\ RecordInv(db.records[r]) /\ view[c][r] \in Nat
    BY RevisionTypes DEF Safe, TypeOK
  <2> QED
    BY <2>1, <2>2, AcknowledgeStep
<1>3. view' = view
  BY DEF Acknowledge
<1> QED
  BY <1>2, <1>3, SameRevisions

LEMMA InboxStep ==
    ASSUME Safe, [Next]_vars
    PROVE  [Inbox!Next]_Inbox!inboxVars
<1>1. ASSUME db' = db, view' = view
      PROVE  UNCHANGED Inbox!inboxVars
  BY <1>1, SameRevisions
<1>2. ASSUME NEW b \in Batches, Observe(b)
      PROVE  Inbox!Next
  <2>1. Safe' /\ view' = view
    BY <1>2, ObserveSafe DEF Observe
  <2>2. \A r \in Runs : Follows(db.records[r], db'.records[r])
    BY <1>2, BatchType, NextRecordFollows DEF Safe, TypeOK, Observe, ObserveActivity
  <2> QED
    BY <2>1, <2>2, PostStep DEF Follows
<1>3. ASSUME NEW c \in Clients, LoadActivity(c)
      PROVE  Inbox!Next
  <2>1. Inbox!Show(c)
    BY <1>3 DEF LoadActivity, Inbox!Show
  <2> QED
    BY <2>1 DEF Inbox!Next
<1>4. ASSUME NEW c \in Clients, NEW S \in SUBSET Shown(c), MarkRead(c, S)
      PROVE  [Inbox!Next]_Inbox!inboxVars
  BY <1>1, <1>4, InboxRead DEF MarkRead
<1>5. ASSUME NEW c \in Clients, NEW S \in SUBSET Shown(c), MarkUnread(c, S)
      PROVE  [Inbox!Next]_Inbox!inboxVars
  BY <1>1, <1>5, InboxUnread DEF MarkUnread
<1>6. ASSUME NEW c \in Clients, NEW S \in SUBSET Shown(c), NEW ack \in BOOLEAN,
             Acknowledge(c, S, ack)
      PROVE  [Inbox!Next]_Inbox!inboxVars
  BY <1>1, <1>6, InboxAcknowledge DEF Acknowledge
<1>7. CASE ClearCache
  <2>1. db'.records = db.records /\ view' = view
    BY <1>7, ClearedDatabase DEF ClearCache
  <2> QED
    BY <2>1, SameRevisions
<1>8. CASE UNCHANGED vars
  BY <1>1, <1>8 DEF vars
<1> QED
  BY <1>2, <1>3, <1>4, <1>5, <1>6, <1>7, <1>8 DEF Next, Personal

(* The store implements the abstract inbox: observations only post, a      *)
(* snapshot only shows, and only MarkActivityRead catches a read mark up,  *)
(* to exactly what its client showed.                                      *)
THEOREM ImplementsInbox == Spec => KeepsInboxPromise
<1>1. Init => Inbox!Init
  BY InboxInit
<1>2. Safe /\ [Next]_vars => [Inbox!Next]_Inbox!inboxVars
  BY InboxStep
<1> QED
  BY <1>1, <1>2, AlwaysSafe, PTL DEF Spec, KeepsInboxPromise, Inbox!Spec
=============================================================================

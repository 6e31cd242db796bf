--------------------------- MODULE ActivityReducer ---------------------------
(***************************************************************************)
(* The activity record of one run and the deterministic reducer that folds *)
(* an observation of the run into it (internal/core/activity.go), with the *)
(* three personal changes the store applies to a record (MarkActivityRead, *)
(* MarkActivityUnread, AcknowledgeActivity of internal/localstate).        *)
(*                                                                         *)
(* Names, links and display times (FirstSeen, LastSeen, UpdatedAt of a     *)
(* record) are left out: no decision reads them.  A metric key has at most *)
(* one latest sample, so the fingerprint of a metric is the sample itself. *)
(***************************************************************************)
EXTENDS Integers, FiniteSets

CONSTANTS
    Runs,         \* run IDs
    Exps,         \* experiment IDs
    MetricKeys,   \* exact metric keys (strings other than "failed")
    SystemKeys    \* the keys with the prefix "system/"

ASSUME KeysAssumption == SystemKeys \subseteq MetricKeys /\ "failed" \notin MetricKeys

-----------------------------------------------------------------------------
(* The data.  A run as the server returns it, with the latest sample of    *)
(* each metric; a metric that is not logged has the value "none".          *)

Status   == {"RUNNING", "FINISHED", "FAILED"}
Stage    == {"active", "deleted"}
Value    == {"none", "finite", "other", "nan"}
Sample   == [value : Value, step : Nat]

Run == [exp : Exps, status : Status, start : Nat, end : Nat,
        stage : Stage, metrics : [MetricKeys -> Sample]]

AlertIds == {"failed"} \cup MetricKeys

Subscription == {"value", "sample"} \X MetricKeys

(* failed .. exclude are AlertSettings with every default resolved; subs   *)
(* are the exact-key subscriptions <<mode, key>>.                          *)
Policy == [metricUpdates : BOOLEAN, failed : BOOLEAN, nonFinite : BOOLEAN,
           includeSystem : BOOLEAN, include : SUBSET MetricKeys,
           exclude : SUBSET MetricKeys,
           subs : SUBSET Subscription]

Observation == [run : Run, policy : Policy, cacheOnly : BOOLEAN, retain : BOOLEAN]

Alert == [present : BOOLEAN, active : BOOLEAN, acknowledged : BOOLEAN,
          suppressed : BOOLEAN, episode : Nat]

NoAlert == [present |-> FALSE, active |-> FALSE, acknowledged |-> FALSE,
            suppressed |-> FALSE, episode |-> 0]

(* Fingerprints are tuples: <<>> is "missing", Unset a subscription that    *)
(* has no baseline yet.                                                    *)
Unset == <<"unset">>
Fingerprint == {<<>>, Unset} \cup {<<v>> : v \in Value} \cup (Value \X Nat)

Reason == {<<"new_run">>, <<"status">>, <<"metrics">>, <<"marked_unread">>}
            \cup {<<"metric", k>> : k \in MetricKeys}
            \cup {<<"alert", id>> : id \in AlertIds}

Record == [known : BOOLEAN, run : Run, revision : Nat, readRevision : Nat,
           reasons : SUBSET Reason, alerts : [AlertIds -> Alert],
           observedAt : Nat, baselines : [Subscription -> Fingerprint]]

Unread(rec) == rec.revision > rec.readRevision

-----------------------------------------------------------------------------
(* Detection.                                                              *)

Watched(policy, k) ==
    /\ policy.nonFinite
    /\ policy.includeSystem \/ k \notin SystemKeys
    /\ policy.include = {} \/ k \in policy.include
    /\ k \notin policy.exclude

Logged(run, k)    == run.metrics[k].value # "none"
NonFinite(run, k) == run.metrics[k].value = "nan"

Enabled(policy, id) ==
    IF id = "failed" THEN policy.failed ELSE Watched(policy, id)

Detected(run, policy, id) ==
    /\ Enabled(policy, id)
    /\ IF id = "failed" THEN run.status = "FAILED" ELSE NonFinite(run, id)

DetectActivityAlerts(run, policy) == {id \in AlertIds : Detected(run, policy, id)}

(* Mutant: a metric that is no longer logged counts as recovered. *)
RecoveredWhenMissing(run, id) == IF id = "failed" THEN TRUE ELSE ~NonFinite(run, id)

(* Evidence of recovery: missing data is none. *)
Recovered(run, id) ==
    IF id = "failed" THEN TRUE ELSE Logged(run, id) /\ ~NonFinite(run, id)

(* A failure that ended at another time is another failure. *)
NewFailure(prev, run, id) ==
    id = "failed" /\ prev.run.end # run.end /\ run.end > 0

(* Mutant: re-enabling a rule opens another episode of what goes on. *)
ContinuedUnlessSuppressed(prev, run, id) ==
    /\ prev.alerts[id].present /\ prev.alerts[id].active
    /\ ~prev.alerts[id].suppressed /\ ~NewFailure(prev, run, id)

Continued(prev, run, id) ==
    prev.alerts[id].present /\ prev.alerts[id].active /\ ~NewFailure(prev, run, id)

NewEpisodes(prev, obs) ==
    {id \in DetectActivityAlerts(obs.run, obs.policy) : ~Continued(prev, obs.run, id)}

NextAlert(prev, obs, revision, id) ==
    LET old == prev.alerts[id]
        enabled == Enabled(obs.policy, id)
    IN  IF id \in NewEpisodes(prev, obs)
        THEN [present |-> TRUE, active |-> TRUE, acknowledged |-> FALSE,
              suppressed |-> FALSE, episode |-> revision]
        ELSE IF Detected(obs.run, obs.policy, id)
        THEN [old EXCEPT !.suppressed = FALSE]
        ELSE IF old.present
        THEN [old EXCEPT !.active = @ /\ ~(enabled /\ Recovered(obs.run, id)),
                         !.suppressed = ~enabled]
        ELSE old

-----------------------------------------------------------------------------
(* Subscriptions and metric notifications.                                 *)

ModelMetrics(run) ==
    [k \in MetricKeys \ SystemKeys |-> run.metrics[k]]

SubFingerprint(run, sub) ==
    IF ~Logged(run, sub[2]) THEN <<>>
    ELSE IF sub[1] = "value" THEN <<run.metrics[sub[2]].value>>
    ELSE <<run.metrics[sub[2]].value, run.metrics[sub[2]].step>>

(* Mutant: a gap in the log resets the baseline. *)
BaselinesWithGaps(prev, obs) ==
    [sub \in Subscription |->
        IF sub \notin obs.policy.subs THEN Unset ELSE SubFingerprint(obs.run, sub)]

(* A metric that is not logged keeps the baseline it had; a subscription   *)
(* the policy no longer names loses it.                                    *)
NextBaselines(prev, obs) ==
    [sub \in Subscription |->
        IF sub \notin obs.policy.subs THEN Unset
        ELSE IF ~Logged(obs.run, sub[2]) /\ prev.baselines[sub] # Unset
        THEN prev.baselines[sub]
        ELSE SubFingerprint(obs.run, sub)]

ChangedSubs(prev, obs) ==
    {sub \in obs.policy.subs :
        /\ prev.known /\ prev.baselines[sub] # Unset
        /\ Logged(obs.run, sub[2])
        /\ prev.baselines[sub] # SubFingerprint(obs.run, sub)}

-----------------------------------------------------------------------------
(* The reducer.                                                            *)

Since(run, t) == t > 0 /\ (run.start >= t \/ run.end >= t)

(* Mutant: a second failure with the same status is not noticed. *)
OnlyStatusChanged(prev, run) == prev.known /\ prev.run.status # run.status

StatusChanged(prev, run) ==
    prev.known /\ (prev.run.status # run.status \/ prev.run.end # run.end)

EventReasons(prev, obs, initialSince, forceSince, initialized) ==
    LET run == obs.run
    IN  {rs \in {<<"new_run">>} :
            ~prev.known /\ ~obs.cacheOnly
            /\ (initialized \/ run.status = "RUNNING" \/ Since(run, initialSince))}
        \cup {rs \in {<<"status">>} : StatusChanged(prev, run)}
        \cup {rs \in {<<"metrics">>} :
            prev.known /\ obs.policy.metricUpdates
            /\ ModelMetrics(prev.run) # ModelMetrics(run)}
        \cup {<<"metric", sub[2]>> : sub \in ChangedSubs(prev, obs)}
        \cup {<<"alert", id>> : id \in {i \in NewEpisodes(prev, obs) :
                prev.known \/ (~obs.cacheOnly /\ initialized)}}
        \cup {rs \in {<<"marked_unread">>} : Since(run, forceSince)}

ObserveActivityRecord(prev, obs, now, initialSince, forceSince, initialized) ==
    IF prev.observedAt > now THEN prev
    ELSE
    LET reasons  == EventReasons(prev, obs, initialSince, forceSince, initialized)
        first    == prev.revision = 0
        base     == IF first THEN 1 ELSE prev.revision
        revision == IF reasons = {} THEN base ELSE base + 1
    IN  [known        |-> TRUE,
         run          |-> obs.run,
         revision     |-> revision,
         readRevision |-> IF first THEN 1 ELSE prev.readRevision,
         reasons      |-> IF reasons = {} THEN prev.reasons
                          ELSE IF Unread(prev) THEN prev.reasons \cup reasons
                          ELSE reasons,
         alerts       |-> [id \in AlertIds |-> NextAlert(prev, obs, revision, id)],
         observedAt   |-> now,
         baselines    |-> NextBaselines(prev, obs)]

-----------------------------------------------------------------------------
(* The personal changes.                                                   *)

LesserOf(a, b)  == IF a < b THEN a ELSE b
GreaterOf(a, b) == IF a > b THEN a ELSE b

(* Mutants: reading reads whatever is newest; reading keeps the reasons.   *)
MarkNewestRead(rec, receipt) ==
    [rec EXCEPT !.readRevision = rec.revision, !.reasons = {}]
MarkReadKeepingReasons(rec, receipt) ==
    [rec EXCEPT !.readRevision = GreaterOf(@, LesserOf(receipt, rec.revision))]

MarkReadRecord(rec, receipt) ==
    LET read == GreaterOf(rec.readRevision, LesserOf(receipt, rec.revision))
    IN  [rec EXCEPT !.readRevision = read,
                    !.reasons = IF rec.revision > read THEN @ ELSE {}]

(* Mutant: marking unread takes the receipt back. *)
MarkUnreadByRewinding(rec) ==
    [rec EXCEPT !.readRevision = rec.revision - 1,
                !.reasons = @ \cup {<<"marked_unread">>}]

MarkUnreadRecord(rec) ==
    [rec EXCEPT !.revision = @ + 1, !.reasons = @ \cup {<<"marked_unread">>}]

(* Mutant: the receipt is not compared with the episode. *)
AcknowledgeAll(rec, receipt, acknowledged) ==
    [rec EXCEPT !.alerts = [id \in AlertIds |->
        IF @[id].present THEN [@[id] EXCEPT !.acknowledged = acknowledged] ELSE @[id]]]

AcknowledgeRecord(rec, receipt, acknowledged) ==
    [rec EXCEPT !.alerts = [id \in AlertIds |->
        IF @[id].present /\ @[id].episode <= receipt
        THEN [@[id] EXCEPT !.acknowledged = acknowledged]
        ELSE @[id]]]
=============================================================================

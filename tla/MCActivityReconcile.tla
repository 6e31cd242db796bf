------------------------- MODULE MCActivityReconcile -------------------------
(***************************************************************************)
(* One run as fast polls, full scans, requests by ID and failed refreshes  *)
(* report it, in any order, while clients read, mark unread and clear the  *)
(* cache.                                                                  *)
(***************************************************************************)
EXTENDS ActivityStore

CONSTANTS run1, exp1, Times

Quiet == [metricUpdates |-> FALSE, failed |-> TRUE, nonFinite |-> TRUE,
          includeSystem |-> TRUE, include |-> {}, exclude |-> {}, subs |-> {}]

RunAs(status, end) ==
    [exp |-> exp1, status |-> status, start |-> 0, end |-> end, stage |-> "active",
     metrics |-> [k \in MetricKeys |-> NotLogged]]

Obs(run, policy, cacheOnly) ==
    [run |-> run, policy |-> policy, cacheOnly |-> cacheOnly, retain |-> ~cacheOnly]

None == [r \in {} |-> {}]
One(obs) == [r \in {run1} |-> obs]

Attempt(t) == [startedAt |-> t, observedAt |-> t, checkpoint |-> 0,
               complete |-> FALSE, fullScanComplete |-> FALSE,
               initialUnreadSince |-> t, forceUnreadSince |-> 0,
               replaceExperiments |-> FALSE, experiments |-> {},
               completeExperiments |-> {}, observations |-> None,
               policies |-> [e \in {} |-> {}]]

Poll(t, obs) == [Attempt(t) EXCEPT !.complete = TRUE, !.checkpoint = t,
                   !.replaceExperiments = TRUE, !.experiments = {exp1},
                   !.observations = obs]

Scan(t, obs) == [Attempt(t) EXCEPT !.complete = TRUE, !.completeExperiments = {exp1},
                   !.observations = obs]

(* The run at every stage of its life, under every kind of batch.          *)
StatusBatches ==
    UNION {{Attempt(t), Poll(t, None), Scan(t, None),
            [Attempt(t) EXCEPT !.complete = TRUE, !.fullScanComplete = TRUE],
            [Poll(t, One(Obs(RunAs("FINISHED", 1), Quiet, FALSE)))
                EXCEPT !.forceUnreadSince = 1],
            Poll(t, One(Obs([RunAs("RUNNING", 0) EXCEPT !.stage = "deleted"],
                            Quiet, FALSE))),
            [Poll(t, None) EXCEPT !.experiments = {}]}
           \cup {Poll(t, One(Obs(RunAs(f[1], f[2]), Quiet, FALSE))) : f \in
                   {<<"RUNNING", 0>>, <<"FAILED", 1>>, <<"FAILED", 2>>}}
           \cup {Scan(t, One(Obs(RunAs(f[1], f[2]), Quiet, f[2] > 0))) : f \in
                   {<<"RUNNING", 0>>, <<"FINISHED", 1>>}} : t \in Times}
=============================================================================

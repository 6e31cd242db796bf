--------------------------- MODULE MCActivityAlerts ---------------------------
(***************************************************************************)
(* One run whose failure and NaN alerts come and go, and whose subscribed  *)
(* metric changes and disappears, while rules and subscriptions are        *)
(* switched off and on, observations arrive late and one client reads,     *)
(* acknowledges and restores.                                              *)
(***************************************************************************)
EXTENDS ActivityStore

CONSTANTS run1, exp1, Times

On  == [metricUpdates |-> FALSE, failed |-> TRUE, nonFinite |-> TRUE,
        includeSystem |-> TRUE, include |-> {}, exclude |-> {},
        subs |-> {"value"} \X MetricKeys]
Off == [On EXCEPT !.failed = FALSE, !.exclude = MetricKeys, !.subs = {}]

(* The latest values the run can report: none, finite, NaN.                *)
Logs == {[k \in MetricKeys |-> [value |-> v, step |-> 0]] : v \in {"none", "finite", "nan"}}

(* Running, then failed at 1; failed again at 2 after a retry.             *)
Fates == {<<"RUNNING", 0>>, <<"FAILED", 1>>, <<"FAILED", 2>>}

Observed == {[run |-> [exp |-> exp1, status |-> f[1], start |-> 0, end |-> f[2],
                       stage |-> "active", metrics |-> m],
              policy |-> p, cacheOnly |-> FALSE, retain |-> TRUE] :
             f \in Fates, m \in Logs, p \in {On, Off}}

BatchAt(t) == [startedAt |-> t, observedAt |-> t, checkpoint |-> t,
               complete |-> TRUE, fullScanComplete |-> FALSE,
               initialUnreadSince |-> 1, forceUnreadSince |-> 0,
               replaceExperiments |-> TRUE, experiments |-> Exps,
               completeExperiments |-> {},
               observations |-> [r \in {} |-> {}], policies |-> [e \in {} |-> {}]]

(* A refresh that saw the run, or one whose discovery failed but whose     *)
(* policies apply to the cached evidence.                                  *)
AlertBatches ==
    {[BatchAt(t) EXCEPT !.observations = [r \in {run1} |-> o]] : t \in Times, o \in Observed}
    \cup
    {[BatchAt(t) EXCEPT !.policies = [e \in {exp1} |-> p], !.complete = FALSE,
                        !.checkpoint = 0, !.replaceExperiments = FALSE] :
      t \in Times, p \in {On, Off}}
=============================================================================

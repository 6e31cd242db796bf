-------------------------- MODULE MCActivityRefresh --------------------------
(***************************************************************************)
(* Small instances of racing refreshes.                                    *)
(***************************************************************************)
EXTENDS ActivityRefresh

NoBatches == {}

AllOn == [metricUpdates |-> FALSE, failed |-> TRUE, nonFinite |-> TRUE,
          includeSystem |-> TRUE, include |-> {}, exclude |-> {}, subs |-> {}]
=============================================================================

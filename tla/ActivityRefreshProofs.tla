----------------------- MODULE ActivityRefreshProofs -----------------------
(***************************************************************************)
(* Theorems of ActivityRefresh, for every number of runs, experiments,     *)
(* refreshers and clients, and every bound: what racing refreshes record   *)
(* before the checkpoint is what the server has.                           *)
(*                                                                         *)
(* What a refresher has read may be stale when it is committed.  ReadAfter *)
(* says how stale: it is what the server has, unless the run changed since *)
(* the refresher started.  A row says when it was observed, and whatever   *)
(* was observed after the run's last change is right (TrueRecord), so a    *)
(* stale batch, which is older, is not applied over it.  The checkpoint    *)
(* moves to the start of a refresher that has found all the runs that had  *)
(* changed by then and that it does not know yet (Searched, LooksBack).    *)
(***************************************************************************)
EXTENDS ActivityRefresh, ActivityStoreProofs

(* The next poll looks back at least as far as programs report late.       *)
LookBack == MaxLag <= Overlap

-----------------------------------------------------------------------------
(* Types.                                                                  *)

SomeRuns == UNION {[S -> Run] : S \in SUBSET Runs}

Scan == [started : Nat, read : BOOLEAN, runs : SomeRuns]

SomeScans == UNION {[S -> Scan] : S \in SUBSET Exps}

Places == {"idle", "load", "baseline", "discover", "query2", "query3", "query4",
           "get", "scan"}

Task == [pc : Places, started : Nat, from : Nat, known : SUBSET Runs,
         exps : SUBSET Exps, observed : SomeRuns, running : SUBSET Runs,
         failed : BOOLEAN, pending : SUBSET Exps, scans : SomeScans,
         failures : BOOLEAN]

ServerRun == [exp : Exps, status : Status, start : Nat, end : Nat,
              stage : Stage \cup {"absent", "purged"},
              metrics : [MetricKeys -> Sample]]

WorldType ==
    /\ now \in 1..MaxTime /\ faults \in 0..MaxFaults
    /\ server \in [Runs -> ServerRun] /\ since \in [Runs -> Nat]
    /\ task \in [Refreshers -> Task]

-----------------------------------------------------------------------------
(* The inductive invariant.                                                *)

(* An end is reported at most MaxLag late.                                 *)
ServerOK(r) ==
    /\ since[r] <= now
    /\ server[r].status = "RUNNING" => server[r].end = 0
    /\ server[r].status # "RUNNING" => server[r].end >= 1
    /\ server[r].status # "RUNNING" /\ Listed(r) => server[r].end + MaxLag >= since[r]

(* run is what the server has of r, or had before r ended.                 *)
Was(run, r) ==
    /\ server[r].stage # "absent"
    /\ run.exp = server[r].exp /\ run.start = server[r].start
    /\ \/ run.status = "RUNNING" /\ run.end = 0
       \/ run.status = server[r].status /\ run.end = server[r].end

(* What was read after time t is what the server has, or r changed since.  *)
ReadAfter(run, r, t) ==
    Was(run, r) /\ (Listed(r) => run = server[r] \/ since[r] >= t)

(* The runs the inbox announces.                                           *)
Announced(r) ==
    server[r].status = "RUNNING" \/ Since(server[r], db.initialUnreadSince)

SameEnd(run, r) == run.status = server[r].status /\ run.end = server[r].end

(* A record that was observed after the run's last change has it, and one  *)
(* that has the run's end is no silent one.                                *)
TrueRecord(rec, r) ==
    /\ rec.observedAt <= now
    /\ ~rec.known => rec.observedAt = 0
    /\ rec.known => Was(rec.run, r)
    /\ rec.known /\ Listed(r) /\ rec.observedAt > since[r] => rec.run = server[r]
    /\ rec.known /\ Listed(r) /\ Announced(r) /\ SameEnd(rec.run, r) => rec.revision > 1

TrueRow(row, r) ==
    /\ row.cached => /\ row.observedAt <= now
                     /\ server[r].stage # "absent" /\ row.exp = server[r].exp
    /\ row.cached /\ Listed(r) /\ row.observedAt > since[r] => row.status = server[r].status

(* What precedes the checkpoint was observed after its last change.        *)
RecordOK(r) ==
    /\ TrueRecord(db.records[r], r)
    /\ Settled(r) => db.records[r].known /\ db.records[r].observedAt > since[r]

RowOK(r) ==
    /\ TrueRow(db.runCache[r], r)
    /\ Settled(r) => db.runCache[r].cached /\ db.runCache[r].observedAt > since[r]

DatabaseOK ==
    /\ TypeOK
    /\ \A r \in Runs : RecordInv(db.records[r])
    /\ ViewIsPast /\ ReadWasShown
    /\ db.checkpoint <= now
    /\ db.initialUnreadSince = 0 =>
          /\ db.checkpoint = 0
          /\ \A r \in Runs : ~db.records[r].known /\ ~db.runCache[r].cached

(* A poll looks back to the window, to the beginning, or behind the        *)
(* checkpoint.                                                             *)
LooksBack(from) ==
    from = db.initialUnreadSince \/ from = 0 \/ from + Overlap <= db.checkpoint

(* What the searches that are done have found of the runs that did not     *)
(* change since the refresher started.                                     *)
Searched(t) ==
    \A r \in Runs : Listed(r) /\ since[r] < t.started =>
        /\ server[r].status = "RUNNING" => r \in DOMAIN t.observed
        /\ t.pc # "query2" /\ server[r].start >= t.from => r \in DOMAIN t.observed
        /\ t.pc \in {"query4", "get"} /\ server[r].end >= 1 /\ server[r].end >= t.from =>
              r \in DOMAIN t.observed

ScanOK(scan, e) ==
    /\ 1 <= scan.started /\ scan.started <= now
    /\ \A r \in DOMAIN scan.runs : ReadAfter(scan.runs[r], r, scan.started)
    /\ scan.read => \A r \in Runs :
          Listed(r) /\ server[r].exp = e /\ r \notin DOMAIN scan.runs =>
              since[r] >= scan.started

TaskOK(t) ==
    /\ t.started <= now /\ (t.pc # "idle" => 1 <= t.started)
    /\ t.pc \notin {"idle", "load", "baseline"} =>
          db.initialUnreadSince # 0 /\ LooksBack(t.from)
    /\ \A r \in DOMAIN t.observed : ReadAfter(t.observed[r], r, t.started)
    /\ t.pc \in {"query2", "query3", "query4", "get"} =>
          t.exps = Exps /\ (t.failed \/ Searched(t))
    /\ \A e \in DOMAIN t.scans : ScanOK(t.scans[e], e)

RefreshInv ==
    /\ WorldType /\ DatabaseOK
    /\ \A r \in Runs : ServerOK(r) /\ RecordOK(r) /\ RowOK(r)
    /\ \A p \in Refreshers : TaskOK(task[p])

-----------------------------------------------------------------------------
(* A batch of a refresher.  It has what the server had when the refresher  *)
(* asked; it is silent only of runs that are not announced or are known;   *)
(* and it moves the checkpoint only past what it has.                      *)
HonestObservation(obs, r, t) ==
    /\ ReadAfter(obs.run, r, t)
    /\ obs.cacheOnly /\ Listed(r) /\ Announced(r) /\ SameEnd(obs.run, r) =>
          db.records[r].known

Honest(b) ==
    /\ IsBatch(b) /\ b.startedAt = b.observedAt /\ b.observedAt <= now
    /\ db.initialUnreadSince # 0 /\ InitialSince(db, b) = db.initialUnreadSince
    /\ \A r \in Runs :
          /\ r \in DOMAIN b.observations =>
                HonestObservation(b.observations[r], r, b.observedAt)
          /\ r \notin DOMAIN b.observations /\ Listed(r)
                /\ server[r].exp \in b.completeExperiments => since[r] >= b.observedAt
    /\ Advances(db, b) =>
          /\ b.checkpoint <= b.observedAt
          /\ \A r \in Runs :
                Listed(r) /\ Announced(r) /\ since[r] < b.checkpoint =>
                  \/ since[r] < db.checkpoint
                  \/ r \in DOMAIN b.observations /\ b.observations[r].retain

LEMMA RunTypes ==
    ASSUME WorldType, TypeOK, NEW r \in Runs
    PROVE  /\ db.records[r] \in Record /\ db.records[r].observedAt \in Nat
           /\ db.records[r].revision \in Nat /\ db.records[r].known \in BOOLEAN
           /\ db.runCache[r] \in CacheRow /\ db.runCache[r].observedAt \in Nat
           /\ server[r] \in ServerRun /\ server[r].start \in Nat /\ server[r].end \in Nat
           /\ since[r] \in Nat /\ now \in Nat /\ now >= 1
           /\ db.checkpoint \in Nat /\ db.initialUnreadSince \in Nat
<1>1. db.records[r] \in Record /\ db.runCache[r] \in CacheRow
  BY DEF TypeOK, Database
<1>2. server[r] \in ServerRun
  BY DEF WorldType
<1> QED
  BY <1>1, <1>2, RefreshAssumption
     DEF WorldType, TypeOK, Database, Record, CacheRow, ServerRun

(* What the reducer has a reason for is announced.                         *)
LEMMA ReducerAnnounces ==
    ASSUME NEW prev \in Record, NEW obs \in Observation, NEW t \in Nat,
           NEW i, NEW f, NEW initialized, ~(prev.observedAt > t)
    PROVE  LET new == ObserveActivityRecord(prev, obs, t, i, f, initialized)
           IN  /\ new.known /\ new.run = obs.run /\ new.observedAt = t
               /\ new.revision \in Nat /\ new.revision >= prev.revision
               /\ EventReasons(prev, obs, i, f, initialized) # {} => new.revision > 1
<1> DEFINE new == ObserveActivityRecord(prev, obs, t, i, f, initialized)
           reasons == EventReasons(prev, obs, i, f, initialized)
           base == IF prev.revision = 0 THEN 1 ELSE prev.revision
           revision == IF reasons = {} THEN base ELSE base + 1
<1>1. /\ new.known /\ new.run = obs.run /\ new.observedAt = t
      /\ new.revision = revision
  BY DEF ObserveActivityRecord
<1>2. prev.revision \in Nat
  BY DEF Record
<1> HIDE DEF new, reasons
<1> QED
  BY <1>1, <1>2 DEF new, reasons

LEMMA ObservedTrue ==
    ASSUME WorldType, DatabaseOK, NEW r \in Runs, TrueRecord(db.records[r], r),
           NEW b, Honest(b)
    PROVE  LET old == db.records[r]
               new == ObservedRecord(db, b, r)
           IN  /\ TrueRecord(new, r)
               /\ old.known => new.known
               /\ r \notin DOMAIN b.observations => new = old
               /\ r \in DOMAIN b.observations /\ b.observations[r].retain =>
                     new.known /\ new.observedAt >= b.observedAt
<1> DEFINE old == db.records[r]
           obs == b.observations[r]
           i == InitialSince(db, b)
           new == ObserveActivityRecord(old, obs, b.observedAt, i,
                                        b.forceUnreadSince, db.initialized)
<1>1. /\ old \in Record /\ old.observedAt \in Nat /\ old.revision \in Nat
      /\ since[r] \in Nat /\ server[r].start \in Nat /\ server[r].end \in Nat
      /\ db.initialUnreadSince \in Nat /\ now \in Nat
      /\ b.observedAt \in Nat /\ b.observedAt <= now /\ i = db.initialUnreadSince
  BY RunTypes DEF DatabaseOK, Honest, IsBatch
<1>2. CASE r \notin DOMAIN b.observations
  BY <1>2 DEF ObservedRecord
<1>3. CASE r \in DOMAIN b.observations /\ CountedOnly(db, obs, r)
  BY <1>3 DEF ObservedRecord, CountedOnly
<1>4. CASE r \in DOMAIN b.observations /\ ~CountedOnly(db, obs, r)
  <2>1. ObservedRecord(db, b, r) = new /\ obs \in Observation
    BY <1>4 DEF ObservedRecord, Honest, IsBatch
  <2>2. HonestObservation(obs, r, b.observedAt)
    BY <1>4 DEF Honest
  <2>3. CASE old.observedAt > b.observedAt
    <3>1. new = old
      BY <2>3 DEF ObserveActivityRecord
    <3>2. old.known
      <4>1. old.observedAt # 0
        BY <1>1, <2>3
      <4> QED
        BY <4>1 DEF TrueRecord
    <3> QED
      BY <1>1, <1>4, <2>1, <2>3, <3>1, <3>2
  <2>4. CASE ~(old.observedAt > b.observedAt)
    <3>1. /\ new.known /\ new.run = obs.run /\ new.observedAt = b.observedAt
          /\ new.revision \in Nat /\ new.revision >= old.revision
          /\ EventReasons(old, obs, i, b.forceUnreadSince, db.initialized) # {} =>
                new.revision > 1
      BY <1>1, <2>1, <2>4, ReducerAnnounces
    <3> HIDE DEF new, i
    <3>2. Was(obs.run, r)
      BY <2>2 DEF HonestObservation, ReadAfter
    <3>3. Listed(r) /\ b.observedAt > since[r] => obs.run = server[r]
      BY <1>1, <2>2 DEF HonestObservation, ReadAfter
    <3>4. ASSUME Listed(r), Announced(r), SameEnd(obs.run, r)
          PROVE  new.revision > 1
      <4>1. CASE old.known /\ SameEnd(old.run, r)
        <5>1. old.revision > 1
          BY <3>4, <4>1 DEF TrueRecord
        <5> QED
          BY <1>1, <3>1, <5>1
      <4>2. CASE old.known /\ ~SameEnd(old.run, r)
        <5>1. StatusChanged(old, obs.run)
          BY <3>4, <4>2 DEF StatusChanged, SameEnd
        <5>2. <<"status">> \in EventReasons(old, obs, i, b.forceUnreadSince, db.initialized)
          BY <5>1 DEF EventReasons
        <5> QED
          BY <3>1, <5>2
      <4>3. CASE ~old.known
        <5>1. ~obs.cacheOnly
          BY <2>2, <3>4, <4>3 DEF HonestObservation
        <5>2. obs.run.status = "RUNNING" \/ Since(obs.run, i)
          BY <1>1, <3>2, <3>4 DEF Announced, Since, SameEnd, Was
        <5>3. <<"new_run">> \in EventReasons(old, obs, i, b.forceUnreadSince, db.initialized)
          BY <4>3, <5>1, <5>2 DEF EventReasons
        <5> QED
          BY <3>1, <5>3
      <4> QED
        BY <4>1, <4>2, <4>3
    <3>5. TrueRecord(new, r)
      BY <1>1, <3>1, <3>2, <3>3, <3>4 DEF TrueRecord
    <3>6. new.observedAt >= b.observedAt
      BY <1>1, <3>1
    <3> QED
      BY <1>4, <2>1, <3>1, <3>5, <3>6
  <2> QED
    BY <2>3, <2>4
<1> QED
  BY <1>2, <1>3, <1>4

(* A scan hides only runs that are gone or came after it.                  *)
LEMMA ReconciledTrue ==
    ASSUME WorldType, DatabaseOK, NEW r \in Runs, TrueRecord(db.records[r], r),
           NEW b, Honest(b)
    PROVE  LET old == db.records[r]
               new == ReconciledRecord(db, b, r)
           IN  /\ TrueRecord(new, r)
               /\ old.known => new.known
               /\ r \in DOMAIN b.observations /\ b.observations[r].retain =>
                     new.known /\ new.observedAt >= b.observedAt
<1> DEFINE rec == ObservedRecord(db, b, r)
           gone == [rec EXCEPT !.run.stage = "deleted", !.observedAt = b.observedAt]
<1>1. /\ TrueRecord(rec, r)
      /\ db.records[r].known => rec.known
      /\ r \in DOMAIN b.observations /\ b.observations[r].retain =>
           rec.known /\ rec.observedAt >= b.observedAt
  BY ObservedTrue
<1>2. IsBatch(b) /\ db \in Database /\ RecordInv(db.records[r])
  BY DEF Honest, DatabaseOK, TypeOK
<1>3. rec \in Record
  BY <1>2, ObservedFollows DEF Follows
<1>4. CASE ReconciledRecord(db, b, r) = rec
  BY <1>1, <1>4
<1>5. CASE ReconciledRecord(db, b, r) # rec
  <2>1. /\ ReconciledRecord(db, b, r) = gone /\ rec.known
        /\ rec.run.exp \in b.completeExperiments /\ r \notin DOMAIN b.observations
    BY <1>5 DEF ReconciledRecord
  <2> HIDE DEF rec
  <2>2. /\ gone.known = rec.known /\ gone.revision = rec.revision
        /\ gone.observedAt = b.observedAt
        /\ gone.run = [rec.run EXCEPT !.stage = "deleted"]
    BY <1>3 DEF Record
  <2>3. /\ gone.run.exp = rec.run.exp /\ gone.run.start = rec.run.start
        /\ gone.run.status = rec.run.status /\ gone.run.end = rec.run.end
    BY <1>3, <2>2 DEF Record, Run
  <2> HIDE DEF gone
  <2>4. Was(rec.run, r) /\ Was(gone.run, r)
    BY <1>1, <2>1, <2>3 DEF TrueRecord, Was
  <2>5. Listed(r) => since[r] >= b.observedAt
    BY <2>1, <2>4 DEF Honest, Was
  <2>6. since[r] \in Nat /\ b.observedAt \in Nat /\ b.observedAt <= now
    BY RunTypes DEF Honest, IsBatch, DatabaseOK
  <2>7. ~(Listed(r) /\ gone.observedAt > since[r])
    BY <2>2, <2>5, <2>6
  <2>8. TrueRecord(gone, r)
    BY <1>1, <2>1, <2>2, <2>3, <2>4, <2>6, <2>7 DEF TrueRecord, SameEnd
  <2> QED
    BY <2>1, <2>2, <2>8
<1> QED
  BY <1>4, <1>5

LEMMA ReplayTrue ==
    ASSUME NEW b, IsBatch(b), NEW rec \in Record, rec.known,
           rec.run.exp \in DOMAIN b.policies
    PROVE  LET new == ReplayedPolicy(b, rec)
           IN  /\ new.known /\ new.run = rec.run /\ new.observedAt = rec.observedAt
               /\ new.revision >= rec.revision /\ new.revision \in Nat
<1> DEFINE obs == [run |-> rec.run, policy |-> b.policies[rec.run.exp],
                   cacheOnly |-> TRUE, retain |-> TRUE]
           seen == ObserveActivityRecord(rec, obs, b.observedAt, 0, 0, TRUE)
           new == [seen EXCEPT !.observedAt = rec.observedAt]
<1>1. obs \in Observation /\ b.observedAt \in Nat /\ rec.revision \in Nat
  BY DEF IsBatch, Observation, Record
<1>2. seen \in Record
  BY <1>1, ReducerType
<1>3. seen.known /\ seen.run = rec.run /\ seen.revision >= rec.revision
  <2>1. CASE rec.observedAt > b.observedAt
    <3>1. seen = rec
      BY <2>1 DEF ObserveActivityRecord
    <3> HIDE DEF seen
    <3> QED
      BY <1>1, <3>1
  <2>2. CASE ~(rec.observedAt > b.observedAt)
    <3> DEFINE base == IF rec.revision = 0 THEN 1 ELSE rec.revision
    <3>1. obs.run = rec.run
      OBVIOUS
    <3> HIDE DEF obs
    <3>2. seen.known /\ seen.run = obs.run
      BY <2>2 DEF ObserveActivityRecord
    <3>3. seen.revision = base \/ seen.revision = base + 1
      BY <2>2 DEF ObserveActivityRecord
    <3> HIDE DEF seen
    <3> QED
      BY <1>1, <3>1, <3>2, <3>3
  <2> QED
    BY <2>1, <2>2
<1>4. ReplayedPolicy(b, rec) = new
  BY DEF ReplayedPolicy
<1> HIDE DEF seen
<1>5. /\ new.known = seen.known /\ new.run = seen.run
      /\ new.revision = seen.revision /\ new.observedAt = rec.observedAt
      /\ seen.revision \in Nat
  BY <1>2 DEF Record
<1> QED
  BY <1>3, <1>4, <1>5

LEMMA NextRecordTrue ==
    ASSUME WorldType, DatabaseOK, NEW r \in Runs, TrueRecord(db.records[r], r),
           NEW b, Honest(b)
    PROVE  LET old == db.records[r]
               new == NextRecord(db, b, r)
           IN  /\ TrueRecord(new, r)
               /\ old.known => new.known
               /\ old.observedAt <= new.observedAt
               /\ r \in DOMAIN b.observations /\ b.observations[r].retain =>
                     new.known /\ new.observedAt >= b.observedAt
<1> DEFINE old == db.records[r]
           rec == ReconciledRecord(db, b, r)
           new == ReplayedPolicy(b, rec)
<1>1. /\ TrueRecord(rec, r)
      /\ old.known => rec.known
      /\ r \in DOMAIN b.observations /\ b.observations[r].retain =>
           rec.known /\ rec.observedAt >= b.observedAt
  BY ReconciledTrue
<1>2. IsBatch(b) /\ db \in Database /\ RecordInv(old)
  BY DEF Honest, DatabaseOK, TypeOK
<1>3. rec \in Record /\ old.observedAt <= rec.observedAt
  BY <1>2, ReconciledFollows DEF Follows
<1>4. CASE NextRecord(db, b, r) = rec
  BY <1>1, <1>3, <1>4
<1>5. CASE NextRecord(db, b, r) # rec
  <2>1. NextRecord(db, b, r) = new /\ rec.known /\ rec.run.exp \in DOMAIN b.policies
    BY <1>5 DEF NextRecord
  <2> HIDE DEF rec
  <2>2. /\ new.known /\ new.run = rec.run /\ new.observedAt = rec.observedAt
        /\ new.revision >= rec.revision /\ new.revision \in Nat
    BY <1>2, <1>3, <2>1, ReplayTrue
  <2>3. rec.revision \in Nat
    BY <1>3 DEF Record
  <2> HIDE DEF new
  <2>4. TrueRecord(new, r)
    BY <1>1, <2>1, <2>2, <2>3 DEF TrueRecord
  <2> QED
    BY <1>1, <1>3, <2>1, <2>2, <2>4
<1> QED
  BY <1>4, <1>5

(* The row of the index follows the same way.                              *)
LEMMA NextRowTrue ==
    ASSUME WorldType, DatabaseOK, NEW r \in Runs, TrueRow(db.runCache[r], r),
           NEW b, Honest(b)
    PROVE  LET old == db.runCache[r]
               new == NextRow(db, b, r)
           IN  /\ TrueRow(new, r)
               /\ Listed(r) /\ old.cached /\ old.observedAt > since[r] =>
                     new.cached /\ new.observedAt > since[r]
               /\ Listed(r) /\ since[r] < b.observedAt /\ r \in DOMAIN b.observations =>
                     new.cached /\ new.observedAt >= b.observedAt
<1> DEFINE old == db.runCache[r]
           row == PrunedRow(db, b, r)
           run == b.observations[r].run
           new == NextRow(db, b, r)
<1>1. /\ old \in CacheRow /\ old.observedAt \in Nat /\ since[r] \in Nat /\ now \in Nat
      /\ b.observedAt \in Nat /\ b.observedAt <= now /\ b.startedAt = b.observedAt
  BY RunTypes DEF DatabaseOK, Honest, IsBatch
<1>2. ~NoRow.cached
  BY DEF NoRow
<1>3. /\ row = old \/ row = NoRow
      /\ row # old => /\ old.cached /\ old.exp \in b.completeExperiments
                      /\ old.observedAt <= b.observedAt
  BY <1>1 DEF PrunedRow
<1>4. r \in DOMAIN b.observations =>
        Was(run, r) /\ (Listed(r) => run = server[r] \/ since[r] >= b.observedAt)
  BY DEF Honest, HonestObservation, ReadAfter
<1>5. r \notin DOMAIN b.observations /\ Listed(r)
        /\ server[r].exp \in b.completeExperiments => since[r] >= b.observedAt
  BY DEF Honest
<1>6. TrueRow(row, r)
  BY <1>2, <1>3 DEF TrueRow
<1>7. CASE new = row
  <2>1. CASE r \notin DOMAIN b.observations
    <3>1. Listed(r) /\ old.cached /\ old.observedAt > since[r] => row = old
      BY <1>1, <1>3, <1>5, <2>1 DEF TrueRow
    <3> QED
      BY <1>6, <1>7, <2>1, <3>1
  <2>2. CASE r \in DOMAIN b.observations /\ row.cached /\ row.observedAt > b.observedAt
    <3>1. row = old
      BY <1>2, <1>3, <2>2
    <3> QED
      BY <1>1, <1>6, <1>7, <2>2, <3>1
  <2>3. CASE r \in DOMAIN b.observations /\ ~(row.cached /\ row.observedAt > b.observedAt)
    <3>1. CASE run.stage = "deleted"
      <4>1. new = NoRow
        BY <2>3, <3>1 DEF NextRow
      <4>2. Listed(r) => since[r] >= b.observedAt
        BY <1>4, <2>3, <3>1 DEF Listed
      <4>3. Listed(r) /\ old.cached => ~(old.observedAt > since[r])
        BY <1>1, <1>2, <1>3, <1>7, <2>3, <4>1, <4>2
      <4> QED
        BY <1>1, <1>6, <1>7, <4>2, <4>3
    <3>2. CASE run.stage # "deleted"
      <4>1. new = [cached |-> TRUE, exp |-> run.exp, status |-> run.status,
                   observedAt |-> b.observedAt]
        BY <2>3, <3>2 DEF NextRow
      <4>2. new.cached /\ new.observedAt = b.observedAt
        BY <4>1
      <4>3. row = old
        BY <1>2, <1>3, <1>7, <4>2
      <4> QED
        BY <1>1, <1>6, <1>7, <4>2, <4>3
    <3> QED
      BY <3>1, <3>2
  <2> QED
    BY <2>1, <2>2, <2>3
<1>8. CASE new # row
  <2>1. /\ r \in DOMAIN b.observations
        /\ ~(row.cached /\ row.observedAt > b.observedAt)
    BY <1>8 DEF NextRow
  <2>2. Listed(r) /\ old.cached /\ old.observedAt > since[r] => since[r] < b.observedAt
    BY <1>1, <1>3, <2>1
  <2>3. CASE run.stage = "deleted"
    <3>1. new = NoRow
      BY <2>1, <2>3 DEF NextRow
    <3>2. Listed(r) => since[r] >= b.observedAt
      BY <1>4, <2>1, <2>3 DEF Listed
    <3>3. TrueRow(new, r)
      BY <1>2, <3>1 DEF TrueRow
    <3> QED
      BY <1>1, <2>2, <3>2, <3>3
  <2>4. CASE run.stage # "deleted"
    <3>1. new = [cached |-> TRUE, exp |-> run.exp, status |-> run.status,
                 observedAt |-> b.observedAt]
      BY <2>1, <2>4 DEF NextRow
    <3>2. /\ new.cached /\ new.exp = run.exp /\ new.status = run.status
          /\ new.observedAt = b.observedAt
      BY <3>1
    <3>3. Was(run, r) /\ (Listed(r) => run = server[r] \/ since[r] >= b.observedAt)
      BY <1>4, <2>1
    <3>4. TrueRow(new, r)
      <4> HIDE DEF new, run, row
      <4> QED
        BY <1>1, <3>2, <3>3 DEF TrueRow, Was
    <3>5. new.observedAt >= b.observedAt
      BY <1>1, <3>2
    <3>6. ASSUME Listed(r), old.cached, old.observedAt > since[r]
          PROVE  new.observedAt > since[r]
      BY <1>1, <2>2, <3>2, <3>6
    <3> QED
      BY <3>2, <3>4, <3>5, <3>6
  <2> QED
    BY <2>3, <2>4
<1> QED
  BY <1>7, <1>8

-----------------------------------------------------------------------------
(* The world goes on: runs change as programs change them, and what a      *)
(* refresher relies on of the store stays.                                 *)

RunGoesOn(r) ==
    \/ server'[r] = server[r] /\ since'[r] = since[r]
    \/ /\ since'[r] = now /\ server'[r].stage # "absent"
       /\ server[r].stage # "absent" =>
             /\ server'[r].exp = server[r].exp /\ server'[r].start = server[r].start
             /\ \/ server[r].status = "RUNNING" /\ server[r].end = 0
                \/ server'[r].status = server[r].status /\ server'[r].end = server[r].end

GoesOn ==
    /\ now <= now'
    /\ db.checkpoint <= db'.checkpoint
    /\ db.initialUnreadSince # 0 =>
          db'.initialUnreadSince = db.initialUnreadSince
    /\ \A r \in Runs : RunGoesOn(r)

-----------------------------------------------------------------------------
(* A transaction.                                                          *)

CommitType ==
    /\ db' \in Database /\ view' = view /\ now' = now
    /\ server' = server /\ since' = since

(* What an honest batch leaves of the invariant of the store.              *)
LEMMA CommitStore ==
    ASSUME WorldType, DatabaseOK, NEW b, IsBatch(b), Commit(b)
    PROVE  /\ CommitType
           /\ \A r \in Runs : /\ db'.records[r] = NextRecord(db, b, r)
                              /\ db'.runCache[r] = NextRow(db, b, r)
                              /\ Follows(db.records[r], db'.records[r])
           /\ db'.checkpoint = IF Advances(db, b) THEN b.checkpoint ELSE db.checkpoint
           /\ db'.initialUnreadSince = InitialSince(db, b)
           /\ TypeOK' /\ ViewIsPast' /\ ReadWasShown'
           /\ \A r \in Runs : RecordInv(db'.records[r])
<1> DEFINE new == ObserveActivity(db, b)
<1>1. db \in Database /\ view \in [Clients -> [Runs -> Nat]]
  BY DEF DatabaseOK, TypeOK
<1>2. new \in Database
  BY <1>1, ObserveType DEF DatabaseOK
<1>3. /\ db' = [new EXCEPT !.version = LesserOf(new.version, MaxVersion)]
      /\ view' = view /\ now' = now /\ server' = server /\ since' = since
  BY DEF Commit, Capped
<1>4. /\ new.records = [r \in Runs |-> NextRecord(db, b, r)]
      /\ new.runCache = [r \in Runs |-> NextRow(db, b, r)]
      /\ new.checkpoint = IF Advances(db, b) THEN b.checkpoint ELSE db.checkpoint
      /\ new.initialUnreadSince = InitialSince(db, b)
  BY DEF ObserveActivity
<1> HIDE DEF new
<1>5. LesserOf(new.version, MaxVersion) \in Nat
  BY <1>2, VersionAssumption DEF LesserOf, Database
<1>6. /\ db' \in Database /\ db'.records = new.records /\ db'.runCache = new.runCache
      /\ db'.checkpoint = new.checkpoint
      /\ db'.initialUnreadSince = new.initialUnreadSince
  BY <1>2, <1>3, <1>5 DEF Database
<1>7. \A r \in Runs : /\ db'.records[r] = NextRecord(db, b, r)
                      /\ db'.runCache[r] = NextRow(db, b, r)
  BY <1>4, <1>6
<1>8. \A r \in Runs : Follows(db.records[r], db'.records[r])
  BY <1>1, <1>7, NextRecordFollows DEF DatabaseOK
<1>9. TypeOK'
  BY <1>1, <1>3, <1>6 DEF TypeOK
<1>10. \A r \in Runs : /\ RecordInv(db'.records[r])
                       /\ db.records[r].revision \in Nat /\ db'.records[r].revision \in Nat
                       /\ db.records[r].revision <= db'.records[r].revision
  BY <1>1, <1>8 DEF Follows, Database, Record
<1>11. ViewIsPast'
  BY <1>1, <1>3, <1>10 DEF DatabaseOK, ViewIsPast
<1>12. ReadWasShown'
  <2> SUFFICES ASSUME NEW r \in Runs, db'.records[r].readRevision > 1
               PROVE  \E c \in Clients : db'.records[r].readRevision <= view[c][r]
    BY <1>3 DEF ReadWasShown
  <2>1. db'.records[r].readRevision = db.records[r].readRevision
    BY <1>8 DEF Follows
  <2> QED
    BY <2>1 DEF DatabaseOK, ReadWasShown
<1> QED
  BY <1>3, <1>4, <1>6, <1>7, <1>8, <1>9, <1>10, <1>11, <1>12 DEF CommitType

RunsOK == \A r \in Runs : ServerOK(r) /\ RecordOK(r) /\ RowOK(r)

LEMMA CommitHonest ==
    ASSUME WorldType, DatabaseOK, RunsOK, NEW b, Honest(b), Commit(b)
    PROVE  CommitType /\ DatabaseOK' /\ RunsOK' /\ GoesOn
<1>1. IsBatch(b)
  BY DEF Honest
<1>2. /\ CommitType
      /\ \A r \in Runs : /\ db'.records[r] = NextRecord(db, b, r)
                         /\ db'.runCache[r] = NextRow(db, b, r)
      /\ db'.checkpoint = IF Advances(db, b) THEN b.checkpoint ELSE db.checkpoint
      /\ db'.initialUnreadSince = InitialSince(db, b)
      /\ TypeOK' /\ ViewIsPast' /\ ReadWasShown'
      /\ \A r \in Runs : RecordInv(db'.records[r])
  BY <1>1, CommitStore
<1>3. /\ db'.initialUnreadSince = db.initialUnreadSince
      /\ b.observedAt \in Nat /\ b.observedAt <= now
      /\ now' = now /\ server' = server /\ since' = since
  BY <1>1, <1>2 DEF Honest, IsBatch, CommitType
<1>4. /\ db'.checkpoint \in Nat /\ db.checkpoint \in Nat /\ now \in Nat
      /\ db'.checkpoint <= now /\ db.checkpoint <= db'.checkpoint
      /\ db'.checkpoint # db.checkpoint =>
            Advances(db, b) /\ db'.checkpoint = b.checkpoint
            /\ b.checkpoint <= b.observedAt
  <2>1. b.checkpoint \in Nat /\ db.checkpoint \in Nat /\ now \in Nat /\ db.checkpoint <= now
    BY <1>1, RefreshAssumption DEF IsBatch, DatabaseOK, TypeOK, Database, WorldType
  <2> QED
    BY <1>2, <1>3, <2>1 DEF Advances, Honest
<1>5. ASSUME NEW r \in Runs
      PROVE  /\ (Listed(r)' <=> Listed(r)) /\ (Announced(r)' <=> Announced(r))
             /\ Settled(r)' /\ ~Settled(r) =>
                  /\ Advances(db, b) /\ since[r] < b.checkpoint /\ Listed(r)
                  /\ r \in DOMAIN b.observations /\ b.observations[r].retain
                  /\ since[r] < b.observedAt
             /\ Settled(r)' => Listed(r)
  <2>1. (Listed(r)' <=> Listed(r)) /\ (Announced(r)' <=> Announced(r))
    BY <1>3 DEF Listed, Announced
  <2>2. ASSUME Settled(r)'
        PROVE  Listed(r) /\ Announced(r) /\ since[r] < db'.checkpoint
    BY <1>3, <2>1, <2>2 DEF Settled, Announced
  <2>3. Listed(r) /\ Announced(r) /\ since[r] < db.checkpoint => Settled(r)
    BY DEF Settled, Announced
  <2>4. since[r] \in Nat /\ b.checkpoint \in Nat
    BY <1>1 DEF WorldType, IsBatch
  <2> QED
    BY <1>3, <1>4, <2>1, <2>2, <2>3, <2>4 DEF Honest
<1>6. ASSUME NEW r \in Runs
      PROVE  RecordOK(r)'
  <2> DEFINE old == db.records[r]
             new == NextRecord(db, b, r)
  <2>1. /\ TrueRecord(new, r)
        /\ old.known => new.known
        /\ old.observedAt <= new.observedAt
        /\ r \in DOMAIN b.observations /\ b.observations[r].retain =>
              new.known /\ new.observedAt >= b.observedAt
    BY NextRecordTrue DEF RunsOK, RecordOK
  <2>2. db'.records[r] = new
    BY <1>2
  <2>3. /\ old.observedAt \in Nat /\ db'.records[r].observedAt \in Nat
        /\ since[r] \in Nat
    BY <1>2, RunTypes DEF DatabaseOK, TypeOK, Database, Record
  <2>4. Settled(r) => old.known /\ old.observedAt > since[r]
    BY DEF RunsOK, RecordOK
  <2> HIDE DEF new
  <2>5. Settled(r)' => new.known /\ new.observedAt > since[r]
    BY <1>3, <1>5, <2>1, <2>2, <2>3, <2>4
  <2> QED
    BY <1>3, <1>5, <2>1, <2>2, <2>5 DEF RecordOK, TrueRecord, Was, SameEnd
<1>7. ASSUME NEW r \in Runs
      PROVE  RowOK(r)'
  <2> DEFINE old == db.runCache[r]
             new == NextRow(db, b, r)
  <2>1. /\ TrueRow(new, r)
        /\ Listed(r) /\ old.cached /\ old.observedAt > since[r] =>
              new.cached /\ new.observedAt > since[r]
        /\ Listed(r) /\ since[r] < b.observedAt /\ r \in DOMAIN b.observations =>
              new.cached /\ new.observedAt >= b.observedAt
    BY NextRowTrue DEF RunsOK, RowOK
  <2>2. db'.runCache[r] = new
    BY <1>2
  <2>3. db'.runCache[r].observedAt \in Nat /\ since[r] \in Nat
    BY <1>2, RunTypes DEF DatabaseOK, TypeOK, Database, CacheRow
  <2>4. Settled(r) => old.cached /\ old.observedAt > since[r]
    BY DEF RunsOK, RowOK
  <2> HIDE DEF new
  <2>5. Settled(r)' => new.cached /\ new.observedAt > since[r]
    BY <1>3, <1>5, <2>1, <2>2, <2>3, <2>4
  <2> QED
    BY <1>3, <1>5, <2>1, <2>2, <2>5 DEF RowOK, TrueRow
<1>8. \A r \in Runs : ServerOK(r)'
  BY <1>3 DEF RunsOK, ServerOK, Listed
<1>9. db'.initialUnreadSince # 0
  BY <1>3 DEF Honest
<1>10. DatabaseOK'
  BY <1>2, <1>3, <1>4, <1>9 DEF DatabaseOK
<1>11. GoesOn
  BY <1>3, <1>4 DEF GoesOn, RunGoesOn
<1> QED
  BY <1>2, <1>6, <1>7, <1>8, <1>10, <1>11 DEF RunsOK

-----------------------------------------------------------------------------
(* The batches of a refresher are honest.                                  *)

ObservesRuns(obs, runs, t) ==
    /\ DOMAIN obs = DOMAIN runs
    /\ \A r \in DOMAIN runs :
          /\ runs[r] \in Run
          /\ obs[r] \in Observation
          /\ obs[r].run = runs[r] /\ obs[r].policy = DefaultPolicy
          /\ obs[r].cacheOnly => OldFor(runs[r], t)

LEMMA ObservationsType ==
    ASSUME NEW runs \in SomeRuns, NEW t \in Nat
    PROVE  /\ ObservesRuns(Observations(runs, t, FALSE), runs, t)
           /\ ObservesRuns(Observations(runs, t, TRUE), runs, t)
           /\ \A r \in DOMAIN runs : Observations(runs, t, TRUE)[r].retain
<1>1. ASSUME NEW r \in DOMAIN runs
      PROVE  runs[r] \in Run /\ OldFor(runs[r], t) \in BOOLEAN
  BY DEF SomeRuns, OldFor
<1> QED
  BY <1>1, RefreshAssumption DEF Observations, Observation, ObservesRuns

LEMMA TaskTypes ==
    ASSUME WorldType, NEW p \in Refreshers
    PROVE  LET t == task[p]
           IN  /\ t \in Task /\ t.pc \in Places /\ t.started \in Nat /\ t.from \in Nat
               /\ t.known \in SUBSET Runs /\ t.exps \in SUBSET Exps
               /\ t.observed \in SomeRuns /\ t.running \in SUBSET Runs
               /\ t.failed \in BOOLEAN /\ t.pending \in SUBSET Exps
               /\ t.scans \in SomeScans /\ t.failures \in BOOLEAN
               /\ DOMAIN t.observed \subseteq Runs /\ DOMAIN t.scans \subseteq Exps
               /\ \A e \in DOMAIN t.scans :
                     /\ t.scans[e] \in Scan /\ t.scans[e].runs \in SomeRuns
                     /\ t.scans[e].started \in Nat /\ t.scans[e].read \in BOOLEAN
                     /\ DOMAIN t.scans[e].runs \subseteq Runs
<1> DEFINE t == task[p]
<1>1. t \in Task
  BY DEF WorldType
<1>2. /\ t.pc \in Places /\ t.started \in Nat /\ t.from \in Nat
      /\ t.known \in SUBSET Runs /\ t.exps \in SUBSET Exps
      /\ t.observed \in SomeRuns /\ t.running \in SUBSET Runs
      /\ t.failed \in BOOLEAN /\ t.pending \in SUBSET Exps
      /\ t.scans \in SomeScans /\ t.failures \in BOOLEAN
  BY <1>1 DEF Task
<1> HIDE DEF t
<1>3. DOMAIN t.observed \subseteq Runs
  BY <1>2 DEF SomeRuns
<1>4. DOMAIN t.scans \subseteq Exps /\ \A e \in DOMAIN t.scans : t.scans[e] \in Scan
  BY <1>2 DEF SomeScans
<1>5. ASSUME NEW s \in Scan
      PROVE  /\ s.runs \in SomeRuns /\ s.started \in Nat /\ s.read \in BOOLEAN
             /\ DOMAIN s.runs \subseteq Runs
  BY DEF Scan, SomeRuns
<1>6. \A e \in DOMAIN t.scans :
        /\ t.scans[e].runs \in SomeRuns
        /\ t.scans[e].started \in Nat /\ t.scans[e].read \in BOOLEAN
        /\ DOMAIN t.scans[e].runs \subseteq Runs
  BY <1>4, <1>5
<1> QED
  BY <1>1, <1>2, <1>3, <1>4, <1>6 DEF t

(* Batches that observe nothing and move no checkpoint.                    *)
LEMMA SilentBatch ==
    ASSUME WorldType, DatabaseOK, NEW b,
           b.startedAt \in Nat, b.startedAt >= 1, b.startedAt <= now,
           b.observedAt = b.startedAt, b.checkpoint = 0,
           b.complete \in BOOLEAN, b.fullScanComplete \in BOOLEAN,
           b.initialUnreadSince \in Nat, b.forceUnreadSince = 0,
           b.replaceExperiments \in BOOLEAN, b.experiments = {},
           b.completeExperiments = {}, b.observations = NoRuns,
           \A e \in DOMAIN b.policies : b.policies[e] = DefaultPolicy
    PROVE  /\ IsBatch(b) /\ ~Advances(db, b)
           /\ db.initialUnreadSince # 0 => Honest(b)
<1>1. DOMAIN b.observations = {}
  BY DEF NoRuns
<1>2. db.checkpoint \in Nat
  BY DEF DatabaseOK, TypeOK, Database
<1>3. IsBatch(b)
  BY <1>1, RefreshAssumption DEF IsBatch
<1>4. ~Advances(db, b)
  BY <1>2 DEF Advances
<1> QED
  BY <1>1, <1>3, <1>4 DEF Honest, InitialSince

LEMMA FailHonest ==
    ASSUME RefreshInv, NEW p \in Refreshers, FailDiscovery(p)
    PROVE  \E b : Honest(b) /\ Commit(b)
<1> DEFINE t == task[p]
           batch(es) == [EmptyBatch(t.started) EXCEPT !.policies = Policies(es)]
<1>1. PICK es : Commit(batch(es))
  BY DEF FailDiscovery
<1>2. /\ t.started \in Nat /\ 1 <= t.started /\ t.started <= now
      /\ db.initialUnreadSince # 0
  BY TaskTypes DEF FailDiscovery, RefreshInv, TaskOK
<1>3. \A e \in DOMAIN Policies(es) : Policies(es)[e] = DefaultPolicy
  BY DEF Policies
<1> DEFINE b == batch(es)
<1>4. /\ b.startedAt = t.started /\ b.observedAt = t.started /\ b.checkpoint = 0
      /\ b.complete \in BOOLEAN /\ b.fullScanComplete \in BOOLEAN
      /\ b.initialUnreadSince = 0 /\ b.forceUnreadSince = 0
      /\ b.replaceExperiments \in BOOLEAN /\ b.experiments = {}
      /\ b.completeExperiments = {} /\ b.observations = NoRuns
      /\ b.policies = Policies(es)
  BY DEF EmptyBatch
<1> HIDE DEF b
<1>5. Honest(b)
  BY <1>2, <1>3, <1>4, SilentBatch DEF RefreshInv
<1> QED
  BY <1>1, <1>5 DEF b

LEMMA FinishHonest ==
    ASSUME RefreshInv, NEW p \in Refreshers, FinishScan(p)
    PROVE  \E b : Honest(b) /\ Commit(b)
<1> DEFINE t == task[p]
           b == [EmptyBatch(now) EXCEPT !.complete = ~t.failures,
                                        !.fullScanComplete = ~t.failures]
<1>1. Commit(b)
  BY DEF FinishScan
<1>2. db.initialUnreadSince # 0 /\ now \in Nat /\ now >= 1 /\ t.failures \in BOOLEAN
  BY TaskTypes, RefreshAssumption DEF FinishScan, RefreshInv, TaskOK, WorldType
<1>3. \A e \in DOMAIN NoScan : NoScan[e] = DefaultPolicy
  BY DEF NoScan
<1>4. /\ b.startedAt = now /\ b.observedAt = now /\ b.checkpoint = 0
      /\ b.complete \in BOOLEAN /\ b.fullScanComplete \in BOOLEAN
      /\ b.initialUnreadSince = 0 /\ b.forceUnreadSince = 0
      /\ b.replaceExperiments \in BOOLEAN /\ b.experiments = {}
      /\ b.completeExperiments = {} /\ b.observations = NoRuns
      /\ b.policies = NoScan
  BY DEF EmptyBatch
<1> HIDE DEF b
<1>5. Honest(b)
  BY <1>2, <1>3, <1>4, SilentBatch DEF RefreshInv
<1> QED
  BY <1>1, <1>5

(* The batch of one scanned experiment.                                    *)
LEMMA ScanHonest ==
    ASSUME RefreshInv, NEW p \in Refreshers, NEW e \in Exps, CommitScan(p, e)
    PROVE  \E b : Honest(b) /\ Commit(b)
<1> DEFINE scan == task[p].scans[e]
           i == db.initialUnreadSince
           b == [EmptyBatch(scan.started) EXCEPT
                   !.complete = TRUE, !.completeExperiments = {e},
                   !.initialUnreadSince = i,
                   !.observations = Observations(scan.runs, i, FALSE)]
<1>1. Commit(b) /\ e \in DOMAIN task[p].scans /\ scan.read /\ task[p].pc = "scan"
  BY DEF CommitScan
<1>2. /\ WorldType /\ DatabaseOK /\ TaskOK(task[p])
      /\ \A r \in Runs : ServerOK(r) /\ RecordOK(r)
  BY DEF RefreshInv
<1>3. /\ scan \in Scan /\ scan.runs \in SomeRuns /\ scan.started \in Nat
      /\ DOMAIN scan.runs \subseteq Runs
  BY <1>1, <1>2, TaskTypes
<1>4. i # 0 /\ ScanOK(scan, e)
  BY <1>1, <1>2 DEF TaskOK
<1>5. i \in Nat /\ db.checkpoint \in Nat /\ now \in Nat
  BY <1>2, RefreshAssumption DEF DatabaseOK, TypeOK, Database, WorldType
<1> DEFINE obs == Observations(scan.runs, i, FALSE)
<1>6. /\ DOMAIN obs = DOMAIN scan.runs
      /\ \A r \in DOMAIN scan.runs :
            /\ scan.runs[r] \in Run /\ obs[r] \in Observation
            /\ obs[r].run = scan.runs[r] /\ obs[r].policy = DefaultPolicy
            /\ obs[r].cacheOnly => OldFor(scan.runs[r], i)
  BY <1>3, <1>5, ObservationsType DEF ObservesRuns
<1> HIDE DEF obs
<1>7. /\ b.startedAt = scan.started /\ b.observedAt = scan.started /\ b.checkpoint = 0
      /\ b.complete \in BOOLEAN /\ b.fullScanComplete \in BOOLEAN
      /\ b.initialUnreadSince = i /\ b.forceUnreadSince = 0
      /\ b.replaceExperiments \in BOOLEAN /\ b.experiments = {}
      /\ b.completeExperiments = {e} /\ b.observations = obs
      /\ b.policies = NoScan
  BY DEF EmptyBatch, obs
<1> HIDE DEF b, scan, i
<1>8. DOMAIN NoScan = {}
  BY DEF NoScan
<1>9. 1 <= scan.started /\ scan.started <= now
  BY <1>4 DEF ScanOK
<1>10. IsBatch(b)
  BY <1>3, <1>5, <1>6, <1>7, <1>8, <1>9 DEF IsBatch
<1>11. ASSUME NEW r \in Runs, r \in DOMAIN obs
       PROVE  HonestObservation(obs[r], r, scan.started)
  <2>1. ReadAfter(scan.runs[r], r, scan.started)
    BY <1>4, <1>6, <1>11 DEF ScanOK
  <2>2. ASSUME OldFor(scan.runs[r], i), Announced(r), SameEnd(scan.runs[r], r)
        PROVE  FALSE
    <3>1. /\ scan.runs[r].start \in Nat /\ scan.runs[r].end \in Nat
          /\ scan.runs[r].start = server[r].start
      BY <1>6, <1>11, <2>1 DEF Run, ReadAfter, Was
    <3> QED
      BY <1>5, <2>2, <3>1 DEF OldFor, Announced, Since, SameEnd, i
  <2> QED
    BY <1>6, <1>11, <2>1, <2>2 DEF HonestObservation
<1>12. ASSUME NEW r \in Runs, r \notin DOMAIN obs, Listed(r), server[r].exp \in {e}
       PROVE  since[r] >= scan.started
  BY <1>1, <1>4, <1>6, <1>12 DEF ScanOK
<1>13. ~Advances(db, b)
  BY <1>5, <1>7 DEF Advances
<1>14. InitialSince(db, b) = db.initialUnreadSince
  BY <1>7 DEF InitialSince, i
<1>15. Honest(b)
  BY <1>4, <1>7, <1>9, <1>10, <1>11, <1>12, <1>13, <1>14 DEF Honest, i
<1> QED
  BY <1>1, <1>15

(* The batch of the searches: a run that is settled by it, and not before, *)
(* was found, and one that it hides was settled before.                    *)
LEMMA DiscoveryHonest ==
    ASSUME RefreshInv, LookBack, NEW p \in Refreshers, CommitDiscovery(p)
    PROVE  \E b : Honest(b) /\ Commit(b)
<1> DEFINE t == task[p]
           i == db.initialUnreadSince
           obs == Observations(t.observed, t.from, TRUE)
           pols == Policies(t.exps \cup RecordExps(t.known))
           b == [EmptyBatch(t.started) EXCEPT
                    !.initialUnreadSince = i,
                    !.complete = Complete(t),
                    !.checkpoint = IF Complete(t) THEN t.started ELSE 0,
                    !.replaceExperiments = Complete(t),
                    !.experiments = t.exps,
                    !.observations = obs,
                    !.policies = pols]
<1>1. Commit(b) /\ t.pc = "get"
  BY DEF CommitDiscovery
<1>2. /\ WorldType /\ DatabaseOK /\ TaskOK(t)
      /\ \A r \in Runs : ServerOK(r) /\ RecordOK(r)
  BY DEF RefreshInv
<1>3. /\ t.started \in Nat /\ t.from \in Nat /\ t.exps \in SUBSET Exps
      /\ t.observed \in SomeRuns /\ t.failed \in BOOLEAN
      /\ DOMAIN t.observed \subseteq Runs
  BY <1>2, TaskTypes
<1>4. /\ i # 0 /\ LooksBack(t.from) /\ 1 <= t.started /\ t.started <= now
      /\ \A r \in DOMAIN t.observed : ReadAfter(t.observed[r], r, t.started)
      /\ t.failed \/ Searched(t)
  BY <1>1, <1>2 DEF TaskOK
<1>5. i \in Nat /\ db.checkpoint \in Nat /\ now \in Nat
  BY <1>2, RefreshAssumption DEF DatabaseOK, TypeOK, Database, WorldType
<1>6. /\ DOMAIN obs = DOMAIN t.observed
      /\ \A r \in DOMAIN t.observed :
            /\ t.observed[r] \in Run /\ obs[r] \in Observation
            /\ obs[r].run = t.observed[r] /\ obs[r].policy = DefaultPolicy
            /\ obs[r].cacheOnly => OldFor(t.observed[r], t.from)
            /\ obs[r].retain
  BY <1>3, ObservationsType DEF ObservesRuns
<1>7. \A e \in DOMAIN pols : pols[e] = DefaultPolicy
  BY DEF Policies
<1> HIDE DEF obs, pols
<1>8. /\ b.startedAt = t.started /\ b.observedAt = t.started
      /\ b.checkpoint = (IF ~t.failed THEN t.started ELSE 0)
      /\ b.complete \in BOOLEAN /\ b.fullScanComplete \in BOOLEAN
      /\ b.complete => ~t.failed
      /\ b.initialUnreadSince = i /\ b.forceUnreadSince = 0
      /\ b.replaceExperiments \in BOOLEAN /\ b.experiments = t.exps
      /\ b.completeExperiments = {} /\ b.observations = obs
      /\ b.policies = pols
  BY DEF EmptyBatch, Complete
<1> HIDE DEF b, t
<1>9. IsBatch(b)
  BY <1>3, <1>4, <1>5, <1>6, <1>7, <1>8, RefreshAssumption DEF IsBatch, i
<1>10. ASSUME NEW r \in Runs, server[r].status # "RUNNING", Listed(r), Announced(r)
       PROVE  /\ since[r] \in Nat /\ server[r].start \in Nat /\ server[r].end \in Nat
              /\ server[r].end >= 1
              /\ since[r] <= server[r].end + MaxLag /\ MaxLag \in Nat /\ Overlap \in Nat
              /\ MaxLag <= Overlap
              /\ server[r].start >= i \/ server[r].end >= i
  <2>1. since[r] \in Nat /\ server[r].start \in Nat /\ server[r].end \in Nat
    BY <1>2, RunTypes DEF DatabaseOK
  <2> QED
    BY <1>2, <1>10, <2>1, RefreshAssumption
       DEF ServerOK, Announced, Since, LookBack, i
<1>11. ASSUME NEW r \in Runs, r \in DOMAIN obs
       PROVE  HonestObservation(obs[r], r, t.started)
  <2>1. ReadAfter(t.observed[r], r, t.started)
    BY <1>4, <1>6, <1>11
  <2>2. ASSUME OldFor(t.observed[r], t.from), Listed(r), Announced(r),
               SameEnd(t.observed[r], r)
        PROVE  db.records[r].known
    <3>1. /\ t.observed[r].start = server[r].start /\ t.observed[r].end = server[r].end
          /\ server[r].status # "RUNNING"
          /\ server[r].start < t.from /\ server[r].end < t.from
      BY <2>1, <2>2 DEF ReadAfter, Was, OldFor, SameEnd
    <3>2. since[r] < db.checkpoint
      BY <1>3, <1>4, <1>5, <1>10, <2>2, <3>1 DEF LooksBack, i
    <3>3. Settled(r)
      BY <2>2, <3>2 DEF Settled, Announced
    <3> QED
      BY <1>2, <3>3 DEF RecordOK
  <2> QED
    BY <1>6, <1>11, <2>1, <2>2 DEF HonestObservation
<1>12. ASSUME Advances(db, b)
       PROVE  /\ b.checkpoint <= b.observedAt
              /\ \A r \in Runs :
                    Listed(r) /\ Announced(r) /\ since[r] < b.checkpoint =>
                      \/ since[r] < db.checkpoint
                      \/ r \in DOMAIN obs /\ obs[r].retain
  <2>1. ~t.failed /\ b.checkpoint = t.started
    BY <1>3, <1>8, <1>12 DEF Advances
  <2>2. Searched(t)
    BY <1>4, <2>1
  <2>3. ASSUME NEW r \in Runs, Listed(r), Announced(r), since[r] < t.started,
               ~(since[r] < db.checkpoint)
        PROVE  r \in DOMAIN t.observed
    <3>1. CASE server[r].status = "RUNNING"
      BY <2>2, <2>3, <3>1 DEF Searched
    <3>2. CASE server[r].status # "RUNNING"
      <4>1. \/ server[r].start >= t.from
            \/ server[r].end >= 1 /\ server[r].end >= t.from
        BY <1>3, <1>4, <1>5, <1>10, <2>3, <3>2 DEF LooksBack, i
      <4>2. t.pc # "query2" /\ t.pc \in {"query4", "get"}
        BY <1>1 DEF t
      <4> QED
        BY <2>2, <2>3, <4>1, <4>2 DEF Searched
    <3> QED
      BY <3>1, <3>2
  <2>4. b.checkpoint <= b.observedAt
    BY <1>3, <1>8, <2>1
  <2> QED
    BY <1>6, <2>1, <2>3, <2>4
<1>13. b.startedAt = b.observedAt /\ b.observedAt <= now
  BY <1>4, <1>8
<1>14. InitialSince(db, b) = db.initialUnreadSince
  BY <1>8 DEF InitialSince, i
<1>15. Honest(b)
  BY <1>4, <1>8, <1>9, <1>11, <1>12, <1>13, <1>14 DEF Honest, i
<1> QED
  BY <1>1, <1>15

(* The baseline a refresher commits first is of a source that has nothing  *)
(* yet, or one that another refresher has given its baseline already.      *)
LEMMA BaselineKeeps ==
    ASSUME RefreshInv, NEW p \in Refreshers, FixBaseline(p)
    PROVE  /\ CommitType /\ DatabaseOK' /\ RunsOK'
           /\ db.checkpoint <= db'.checkpoint /\ db'.initialUnreadSince # 0
           /\ db.initialUnreadSince # 0 =>
                 db'.initialUnreadSince = db.initialUnreadSince
<1> DEFINE t == task[p]
           i == GreaterOf(1, t.started - Window)
           b == [EmptyBatch(t.started) EXCEPT !.initialUnreadSince = i]
<1>1. Commit(b) /\ t.pc = "baseline"
  BY DEF FixBaseline
<1>2. WorldType /\ DatabaseOK /\ RunsOK /\ TaskOK(t)
  BY DEF RefreshInv, RunsOK
<1>3. t.started \in Nat /\ 1 <= t.started /\ t.started <= now
  BY <1>1, <1>2, TaskTypes DEF TaskOK
<1>4. i \in Nat /\ i >= 1
  BY <1>3, RefreshAssumption DEF GreaterOf
<1> HIDE DEF i
<1>5. /\ b.startedAt = t.started /\ b.observedAt = t.started /\ b.checkpoint = 0
      /\ b.complete \in BOOLEAN /\ b.fullScanComplete \in BOOLEAN
      /\ b.initialUnreadSince = i /\ b.forceUnreadSince = 0
      /\ b.replaceExperiments \in BOOLEAN /\ b.experiments = {}
      /\ b.completeExperiments = {} /\ b.observations = NoRuns
      /\ b.policies = NoScan
  BY DEF EmptyBatch
<1> HIDE DEF b, t
<1>6. \A e \in DOMAIN NoScan : NoScan[e] = DefaultPolicy
  BY DEF NoScan
<1>7. /\ IsBatch(b) /\ ~Advances(db, b)
      /\ db.initialUnreadSince # 0 => Honest(b)
  BY <1>2, <1>3, <1>4, <1>5, <1>6, SilentBatch
<1>8. /\ CommitType
      /\ \A r \in Runs : /\ db'.records[r] = NextRecord(db, b, r)
                         /\ db'.runCache[r] = NextRow(db, b, r)
                         /\ Follows(db.records[r], db'.records[r])
      /\ db'.checkpoint = db.checkpoint
      /\ db'.initialUnreadSince = InitialSince(db, b)
      /\ TypeOK' /\ ViewIsPast' /\ ReadWasShown'
      /\ \A r \in Runs : RecordInv(db'.records[r])
  BY <1>1, <1>2, <1>7, CommitStore
<1>9. db.checkpoint \in Nat
  BY <1>2 DEF DatabaseOK, TypeOK, Database
<1>10. CASE db.initialUnreadSince # 0
  BY <1>1, <1>2, <1>7, <1>8, <1>9, <1>10, CommitHonest DEF InitialSince
<1>11. CASE db.initialUnreadSince = 0
  <2>1. /\ db.checkpoint = 0
        /\ \A r \in Runs : ~db.records[r].known /\ ~db.runCache[r].cached
    BY <1>2, <1>11 DEF DatabaseOK
  <2>2. DOMAIN b.observations = {} /\ DOMAIN b.policies = {}
    BY <1>5 DEF NoRuns, NoScan
  <2>3. ASSUME NEW r \in Runs
        PROVE  db'.records[r] = db.records[r] /\ db'.runCache[r] = db.runCache[r]
    <3>1. NextRecord(db, b, r) = db.records[r]
      BY <1>5, <2>1, <2>2 DEF NextRecord, ReconciledRecord, ObservedRecord
    <3>2. NextRow(db, b, r) = db.runCache[r]
      BY <1>5, <2>1, <2>2 DEF NextRow, PrunedRow
    <3> QED
      BY <1>8, <3>1, <3>2
  <2>4. db'.initialUnreadSince # 0
    BY <1>4, <1>5, <1>8, <1>11 DEF InitialSince
  <2>5. now' = now /\ server' = server /\ since' = since
    BY <1>8 DEF CommitType
  <2>6. DatabaseOK'
    BY <1>2, <1>8, <2>4, <2>5 DEF DatabaseOK
  <2>7. ASSUME NEW r \in Runs
        PROVE  ServerOK(r)' /\ RecordOK(r)' /\ RowOK(r)'
    <3>1. ~Settled(r)'
      <4>1. since[r] \in Nat
        BY <1>2 DEF WorldType
      <4>2. ~(since'[r] < db'.checkpoint)
        BY <1>8, <2>1, <2>5, <4>1
      <4> QED
        BY <4>2 DEF Settled
    <3>2. ServerOK(r)'
      BY <1>2, <2>5 DEF RunsOK, ServerOK, Listed
    <3>3. /\ ~db'.records[r].known /\ ~db'.runCache[r].cached
          /\ db'.records[r].observedAt = db.records[r].observedAt
          /\ ~db.records[r].known /\ TrueRecord(db.records[r], r)
      BY <1>2, <2>1, <2>3 DEF RunsOK, RecordOK
    <3>4. TrueRecord(db.records[r], r)'
      BY <2>5, <3>3 DEF TrueRecord
    <3>5. TrueRow(db.runCache[r], r)'
      BY <3>3 DEF TrueRow
    <3> QED
      BY <3>1, <3>2, <3>4, <3>5 DEF RecordOK, RowOK
  <2>8. RunsOK'
    BY <2>7 DEF RunsOK
  <2> QED
    BY <1>8, <1>9, <1>11, <2>4, <2>6, <2>8
<1> QED
  BY <1>10, <1>11

-----------------------------------------------------------------------------
(* What goes on around a refresher.                                        *)

LEMMA WasStays ==
    ASSUME NEW r \in Runs, RunGoesOn(r), NEW run, Was(run, r)
    PROVE  Was(run, r)'
  BY DEF RunGoesOn, Was

LEMMA ReadAfterStays ==
    ASSUME NEW r \in Runs, RunGoesOn(r), NEW run, NEW t, t <= now, ReadAfter(run, r, t),
           t \in Nat, now \in Nat
    PROVE  ReadAfter(run, r, t)'
<1>1. Was(run, r)'
  BY WasStays DEF ReadAfter
<1>2. Listed(r)' => run = server'[r] \/ since'[r] >= t
  BY DEF RunGoesOn, ReadAfter, Listed
<1> QED
  BY <1>1, <1>2 DEF ReadAfter

LEMMA TaskLasts ==
    ASSUME WorldType, DatabaseOK, TypeOK', now' \in Nat, GoesOn, NEW t \in Task, TaskOK(t)
    PROVE  TaskOK(t)'
<1>1. /\ now \in Nat /\ now <= now' /\ t.started \in Nat /\ t.from \in Nat
      /\ db.checkpoint \in Nat /\ db'.checkpoint \in Nat /\ db.checkpoint <= db'.checkpoint
      /\ t.observed \in SomeRuns /\ t.scans \in SomeScans
      /\ Overlap \in Nat /\ \A r \in Runs : since[r] \in Nat
  BY RefreshAssumption DEF DatabaseOK, TypeOK, Database, WorldType, Task, GoesOn
<1>2. /\ DOMAIN t.observed \subseteq Runs /\ DOMAIN t.scans \subseteq Exps
      /\ \A e \in DOMAIN t.scans : t.scans[e] \in Scan
  BY <1>1 DEF SomeRuns, SomeScans
<1>3. /\ t.started <= now /\ t.started <= now'
      /\ t.pc # "idle" => 1 <= t.started
  BY <1>1 DEF TaskOK
<1>4. ASSUME t.pc \notin {"idle", "load", "baseline"}
      PROVE  db'.initialUnreadSince # 0 /\ LooksBack(t.from)'
  <2>1. /\ db.initialUnreadSince # 0 /\ LooksBack(t.from)
        /\ db'.initialUnreadSince = db.initialUnreadSince
    BY <1>4 DEF TaskOK, GoesOn
  <2> QED
    BY <1>1, <2>1 DEF LooksBack
<1>5. ASSUME NEW r \in DOMAIN t.observed
      PROVE  ReadAfter(t.observed[r], r, t.started)'
  <2>1. ReadAfter(t.observed[r], r, t.started) /\ r \in Runs /\ RunGoesOn(r)
    BY <1>2 DEF TaskOK, GoesOn
  <2> QED
    BY <1>1, <1>3, <2>1, ReadAfterStays
<1>6. ASSUME t.pc \in {"query2", "query3", "query4", "get"}
      PROVE  t.exps = Exps /\ (t.failed \/ Searched(t)')
  <2>1. t.exps = Exps /\ (t.failed \/ Searched(t))
    BY <1>6 DEF TaskOK
  <2>2. ASSUME Searched(t), NEW r \in Runs, Listed(r)', since'[r] < t.started
        PROVE  server'[r] = server[r] /\ Listed(r) /\ since[r] < t.started
    <3>1. since'[r] # now
      BY <1>1, <1>3, <2>2
    <3> QED
      BY <2>2, <3>1 DEF GoesOn, RunGoesOn, Listed
  <2>3. Searched(t) => Searched(t)'
    BY <2>2 DEF Searched
  <2> QED
    BY <2>1, <2>3
<1>7. ASSUME NEW e \in DOMAIN t.scans
      PROVE  ScanOK(t.scans[e], e)'
  <2> DEFINE scan == t.scans[e]
  <2>1. ScanOK(scan, e) /\ scan \in Scan
    BY <1>2 DEF TaskOK
  <2> HIDE DEF scan
  <2>2. scan.started \in Nat /\ DOMAIN scan.runs \subseteq Runs
    BY <2>1 DEF Scan, SomeRuns
  <2>3. 1 <= scan.started /\ scan.started <= now /\ scan.started <= now'
    BY <1>1, <2>1, <2>2 DEF ScanOK
  <2>4. \A r \in DOMAIN scan.runs : ReadAfter(scan.runs[r], r, scan.started)'
    BY <1>1, <2>1, <2>2, <2>3, ReadAfterStays DEF ScanOK, GoesOn
  <2>5. ASSUME scan.read, NEW r \in Runs, Listed(r)', server'[r].exp = e,
               r \notin DOMAIN scan.runs
        PROVE  since'[r] >= scan.started
    <3>1. CASE since'[r] = now
      BY <1>1, <2>2, <2>3, <3>1
    <3>2. CASE server'[r] = server[r] /\ since'[r] = since[r]
      BY <2>1, <2>5, <3>2 DEF ScanOK, Listed
    <3> QED
      BY <3>1, <3>2 DEF GoesOn, RunGoesOn
  <2>6. ScanOK(scan, e)'
    BY <2>3, <2>4, <2>5 DEF ScanOK
  <2> QED
    BY <2>6 DEF scan
<1> QED
  BY <1>3, <1>4, <1>5, <1>6, <1>7 DEF TaskOK

(* A run that changes is news: no record has its new state yet, and no     *)
(* claim is made of it before the next poll.                               *)
LEMMA ChangeKeeps ==
    ASSUME WorldType, DatabaseOK, RunsOK, NEW r \in Runs, NEW new \in ServerRun,
           server' = [server EXCEPT ![r] = new], Changed(r), RunGoesOn(r), ServerOK(r)',
           \A run : Was(run, r) /\ Listed(r)' => ~SameEnd(run, r)'
    PROVE  WorldType' /\ DatabaseOK' /\ RunsOK' /\ GoesOn
<1>1. /\ db' = db /\ view' = view /\ now' = now /\ faults' = faults /\ task' = task
      /\ server'[r] = new /\ since'[r] = now
      /\ \A q \in Runs \ {r} : server'[q] = server[q] /\ since'[q] = since[q]
      /\ server' \in [Runs -> ServerRun] /\ since' \in [Runs -> Nat] /\ now \in Nat
  BY RefreshAssumption DEF Changed, WorldType
<1>2. WorldType'
  BY <1>1 DEF WorldType
<1>3. DatabaseOK'
  BY <1>1 DEF DatabaseOK, TypeOK, ViewIsPast, ReadWasShown
<1>4. db.checkpoint \in Nat /\ db.checkpoint <= now
  BY DEF DatabaseOK, TypeOK, Database
<1>5. ASSUME NEW q \in Runs \ {r}
      PROVE  ServerOK(q)' /\ RecordOK(q)' /\ RowOK(q)'
  <2>1. (Listed(q)' <=> Listed(q)) /\ (Settled(q)' <=> Settled(q))
        /\ (Announced(q)' <=> Announced(q))
    BY <1>1, <1>5 DEF Settled, Listed, Announced
  <2>2. ServerOK(q) /\ RecordOK(q) /\ RowOK(q)
    BY <1>5 DEF RunsOK
  <2>3. db' = db /\ now' = now /\ server'[q] = server[q] /\ since'[q] = since[q]
    BY <1>1
  <2> QED
    BY <2>1, <2>2, <2>3 DEF ServerOK, RecordOK, RowOK, TrueRecord, TrueRow, Was, SameEnd
<1>6. RecordOK(r)' /\ RowOK(r)'
  <2> DEFINE rec == db.records[r]
             row == db.runCache[r]
  <2>1. TrueRecord(rec, r) /\ TrueRow(row, r)
    BY DEF RunsOK, RecordOK, RowOK
  <2>2. rec.observedAt \in Nat /\ row.observedAt \in Nat
    BY RunTypes DEF DatabaseOK
  <2>3. ~Settled(r)'
    <3>1. ~(since'[r] < db'.checkpoint)
      BY <1>1, <1>4
    <3> QED
      BY <3>1 DEF Settled
  <2>4. rec.known => Was(rec.run, r) /\ Was(rec.run, r)'
    BY <1>1, <2>1, WasStays DEF TrueRecord
  <2>5. rec.observedAt <= now /\ ~(rec.observedAt > since'[r])
    BY <1>1, <2>1, <2>2 DEF TrueRecord
  <2>6. TrueRecord(rec, r)'
    BY <1>1, <2>1, <2>4, <2>5 DEF TrueRecord
  <2>7. row.cached => row.observedAt <= now /\ ~(row.observedAt > since'[r])
    BY <1>1, <2>1, <2>2 DEF TrueRow
  <2>8. TrueRow(row, r)'
    BY <1>1, <2>1, <2>7 DEF TrueRow, RunGoesOn
  <2> QED
    BY <2>3, <2>6, <2>8 DEF RecordOK, RowOK
<1>7. RunsOK'
  BY <1>5, <1>6 DEF RunsOK
<1>8. GoesOn
  <2>1. \A q \in Runs \ {r} : RunGoesOn(q)
    BY <1>1 DEF RunGoesOn
  <2> QED
    BY <1>1, <1>4, <2>1 DEF GoesOn
<1> QED
  BY <1>2, <1>3, <1>7, <1>8

LEMMA RunSteps ==
    ASSUME WorldType, DatabaseOK, RunsOK, NEW r \in Runs,
           StartRun(r) \/ EndRun(r) \/ DeleteRun(r) \/ PurgeRun(r)
    PROVE  WorldType' /\ DatabaseOK' /\ RunsOK' /\ GoesOn
<1>1. /\ server \in [Runs -> ServerRun] /\ server[r] \in ServerRun
      /\ since \in [Runs -> Nat] /\ now \in Nat /\ MaxLag \in Nat
  BY RefreshAssumption DEF WorldType
<1>2. ServerOK(r)
  BY DEF RunsOK
<1>3. CASE StartRun(r)
  <2>1. PICK e \in Exps, t \in Stamps : server' = [server EXCEPT ![r] = NewRun(e, t)]
    BY <1>3 DEF StartRun
  <2> DEFINE new == NewRun(e, t)
  <2>2. t \in Nat
    BY DEF Stamps
  <2>3. /\ new \in ServerRun /\ new.status = "RUNNING" /\ new.end = 0
        /\ new.stage # "absent"
    BY <2>2 DEF NewRun, ServerRun, Status, Stage, Sample, Value, NotLogged
  <2> HIDE DEF new
  <2>4. server'[r] = new /\ since'[r] = now /\ now' = now /\ server[r].stage = "absent"
    BY <1>1, <1>3, <2>1 DEF StartRun, Changed, new
  <2>5. RunGoesOn(r) /\ ServerOK(r)' /\ \A run : ~Was(run, r)
    <3>1. RunGoesOn(r)
      BY <2>3, <2>4 DEF RunGoesOn
    <3>2. ServerOK(r)'
      BY <1>1, <2>3, <2>4 DEF ServerOK
    <3> QED
      BY <2>4, <3>1, <3>2 DEF Was
  <2>6. server' = [server EXCEPT ![r] = new] /\ Changed(r)
    BY <1>3, <2>1 DEF StartRun, new
  <2> QED
    BY <2>3, <2>5, <2>6, ChangeKeeps
<1>4. CASE EndRun(r)
  <2>1. PICK s \in Outcomes, t \in Stamps :
          server' = [server EXCEPT ![r].status = s, ![r].end = t]
    BY <1>4 DEF EndRun
  <2> DEFINE new == [server[r] EXCEPT !.status = s, !.end = t]
  <2>2. t \in Nat /\ t >= 1 /\ t + MaxLag >= now
    BY <1>1 DEF Stamps
  <2>3. s \in Status /\ s # "RUNNING"
    BY RefreshAssumption
  <2>4. /\ new \in ServerRun /\ new.status = s /\ new.end = t /\ new.exp = server[r].exp
        /\ new.start = server[r].start /\ new.stage = server[r].stage
    BY <1>1, <2>2, <2>3 DEF ServerRun
  <2>5. server' = [server EXCEPT ![r] = new]
    BY <1>1, <2>1
  <2> HIDE DEF new
  <2>6. /\ server'[r] = new /\ since'[r] = now /\ now' = now
        /\ server[r].stage = "active" /\ server[r].status = "RUNNING" /\ server[r].end = 0
        /\ Changed(r)
    BY <1>1, <1>2, <1>4, <2>5 DEF EndRun, Changed, Listed, ServerOK
  <2>7. RunGoesOn(r) /\ ServerOK(r)'
    BY <1>1, <2>2, <2>3, <2>4, <2>6 DEF RunGoesOn, ServerOK
  <2>8. ASSUME NEW run, Was(run, r) PROVE ~SameEnd(run, r)'
    BY <2>3, <2>4, <2>6, <2>8 DEF Was, SameEnd
  <2> QED
    BY <2>4, <2>5, <2>6, <2>7, <2>8, ChangeKeeps
<1>5. ASSUME NEW stage \in {"deleted", "purged"}, server[r].stage # "absent",
             server' = [server EXCEPT ![r].stage = stage], Changed(r)
      PROVE  WorldType' /\ DatabaseOK' /\ RunsOK' /\ GoesOn
  <2> DEFINE new == [server[r] EXCEPT !.stage = stage]
  <2>1. /\ new \in ServerRun /\ new.stage = stage
        /\ new.exp = server[r].exp /\ new.start = server[r].start
        /\ new.status = server[r].status /\ new.end = server[r].end
    BY <1>1 DEF ServerRun, Stage
  <2>2. server' = [server EXCEPT ![r] = new]
    BY <1>1, <1>5
  <2> HIDE DEF new
  <2>3. server'[r] = new /\ since'[r] = now /\ now' = now
    BY <1>1, <1>5, <2>2 DEF Changed
  <2>4. ~Listed(r)'
    BY <2>1, <2>3 DEF Listed
  <2>5. RunGoesOn(r) /\ ServerOK(r)'
    BY <1>1, <1>2, <1>5, <2>1, <2>3, <2>4 DEF RunGoesOn, ServerOK
  <2> QED
    BY <1>5, <2>1, <2>2, <2>4, <2>5, ChangeKeeps
<1>6. CASE DeleteRun(r)
  BY <1>5, <1>6 DEF DeleteRun, Listed
<1>7. CASE PurgeRun(r)
  BY <1>5, <1>7 DEF PurgeRun
<1> QED
  BY <1>3, <1>4, <1>6, <1>7

LEMMA TickKeeps ==
    ASSUME WorldType, DatabaseOK, RunsOK, Tick
    PROVE  WorldType' /\ DatabaseOK' /\ RunsOK' /\ GoesOn
<1>1. /\ db' = db /\ view' = view /\ server' = server /\ since' = since
      /\ now \in Nat /\ now' = now + 1 /\ faults' = faults /\ task' = task
      /\ now' \in 1..MaxTime
  BY RefreshAssumption DEF Tick, WorldType
<1>2. db.checkpoint \in Nat /\ db.checkpoint <= now
  BY DEF DatabaseOK, TypeOK, Database
<1>3. WorldType'
  BY <1>1 DEF WorldType
<1>4. DatabaseOK'
  BY <1>1, <1>2 DEF DatabaseOK, TypeOK, ViewIsPast, ReadWasShown
<1>5. GoesOn
  BY <1>1, <1>2 DEF GoesOn, RunGoesOn
<1>6. ASSUME NEW r \in Runs
      PROVE  ServerOK(r)' /\ RecordOK(r)' /\ RowOK(r)'
  <2>1. ServerOK(r) /\ RecordOK(r) /\ RowOK(r)
    BY DEF RunsOK
  <2>2. /\ db.records[r].observedAt \in Nat /\ db.runCache[r].observedAt \in Nat
        /\ since[r] \in Nat
    BY RunTypes DEF DatabaseOK
  <2>3. (Listed(r)' <=> Listed(r)) /\ (Settled(r)' <=> Settled(r))
        /\ (Announced(r)' <=> Announced(r))
    BY <1>1 DEF Settled, Listed, Announced
  <2>4. ServerOK(r)'
    BY <1>1, <2>1, <2>2, <2>3 DEF ServerOK
  <2>5. db.records[r].observedAt <= now'
    BY <1>1, <2>1, <2>2 DEF RecordOK, TrueRecord
  <2>6. RecordOK(r)'
    BY <1>1, <2>1, <2>3, <2>5 DEF RecordOK, TrueRecord, Was, SameEnd
  <2>7. db.runCache[r].cached => db.runCache[r].observedAt <= now'
    BY <1>1, <2>1, <2>2 DEF RowOK, TrueRow
  <2>8. RowOK(r)'
    BY <1>1, <2>1, <2>3, <2>7 DEF RowOK, TrueRow
  <2> QED
    BY <2>4, <2>6, <2>8
<1> QED
  BY <1>3, <1>4, <1>5, <1>6 DEF RunsOK

-----------------------------------------------------------------------------
(* The clients.                                                            *)

LEMMA LookKeeps ==
    ASSUME WorldType, DatabaseOK, RunsOK, NEW c \in Clients, Look(c)
    PROVE  WorldType' /\ DatabaseOK' /\ RunsOK' /\ GoesOn
<1>1. /\ db' = db /\ now' = now /\ server' = server /\ since' = since
      /\ faults' = faults /\ task' = task
      /\ view' = [view EXCEPT ![c] = [r \in Runs |-> db.records[r].revision]]
  BY DEF Look, LoadActivity
<1>2. view \in [Clients -> [Runs -> Nat]] /\ db \in Database
  BY DEF DatabaseOK, TypeOK
<1>3. \A r \in Runs : db.records[r].revision \in Nat /\ db.records[r].readRevision \in Nat
  BY <1>2 DEF Database, Record
<1>4. TypeOK'
  BY <1>1, <1>2, <1>3 DEF TypeOK
<1>5. \A x \in Clients, r \in Runs :
        /\ view[x][r] \in Nat /\ view'[x][r] \in Nat
        /\ view[x][r] <= view'[x][r]
        /\ view'[x][r] <= db.records[r].revision
  BY <1>1, <1>2, <1>3 DEF DatabaseOK, ViewIsPast
<1>6. ViewIsPast' /\ ReadWasShown'
  BY <1>1, <1>3, <1>5 DEF DatabaseOK, ViewIsPast, ReadWasShown
<1>7. DatabaseOK'
  BY <1>1, <1>4, <1>6 DEF DatabaseOK
<1>8. RunsOK'
  BY <1>1 DEF RunsOK, ServerOK, RecordOK, RowOK, TrueRecord, TrueRow, Settled, Announced,
              Listed, Was, SameEnd
<1>9. WorldType'
  BY <1>1 DEF WorldType
<1>10. GoesOn
  BY <1>1, RefreshAssumption
     DEF GoesOn, RunGoesOn, WorldType, DatabaseOK, TypeOK, Database
<1> QED
  BY <1>7, <1>8, <1>9, <1>10

LEMMA ReadAllKeeps ==
    ASSUME WorldType, DatabaseOK, RunsOK, NEW c \in Clients, ReadAll(c)
    PROVE  WorldType' /\ DatabaseOK' /\ RunsOK' /\ GoesOn
<1> DEFINE reads(r) == MarkReadRecord(db.records[r], view[c][r])
           f == [r \in Runs |-> IF r \in Shown(c) /\ db.records[r].known
                                THEN reads(r) ELSE db.records[r]]
           d == MarkActivityRead(db, Receipts(c, Shown(c)))
<1>1. /\ db' = Capped(d) /\ view' = view /\ now' = now /\ server' = server
      /\ since' = since /\ faults' = faults /\ task' = task
  BY DEF ReadAll
<1>2. view \in [Clients -> [Runs -> Nat]] /\ db \in Database /\ db.version \in Nat
  BY DEF DatabaseOK, TypeOK, Database
<1>3. ASSUME NEW r \in Runs, db.records[r].known
      PROVE  LET new == reads(r)
             IN  /\ new \in Record /\ RecordInv(new)
                 /\ new.known = db.records[r].known /\ new.run = db.records[r].run
                 /\ new.revision = db.records[r].revision
                 /\ new.observedAt = db.records[r].observedAt
                 /\ \/ new.readRevision = db.records[r].readRevision
                    \/ new.readRevision <= view[c][r]
  <2>1. db.records[r] \in Record /\ RecordInv(db.records[r]) /\ view[c][r] \in Nat
    BY <1>2 DEF Database, DatabaseOK
  <2>2. /\ reads(r) \in Record /\ RecordInv(reads(r))
        /\ reads(r).known = db.records[r].known
        /\ reads(r).revision = db.records[r].revision
        /\ reads(r).observedAt = db.records[r].observedAt
        /\ reads(r).readRevision =
              GreaterOf(db.records[r].readRevision, LesserOf(view[c][r], db.records[r].revision))
    BY <1>3, <2>1, MarkReadStep
  <2>3. reads(r).run = db.records[r].run
    BY <2>1 DEF MarkReadRecord, Record
  <2>4. db.records[r].revision \in Nat /\ db.records[r].readRevision \in Nat
    BY <2>1 DEF Record
  <2> HIDE DEF reads
  <2> QED
    BY <2>1, <2>2, <2>3, <2>4 DEF GreaterOf, LesserOf
<1>4. ASSUME NEW r \in Runs
      PROVE  /\ f[r] \in Record /\ RecordInv(f[r])
             /\ f[r].known = db.records[r].known /\ f[r].run = db.records[r].run
             /\ f[r].revision = db.records[r].revision
             /\ f[r].observedAt = db.records[r].observedAt
             /\ \/ f[r].readRevision = db.records[r].readRevision
                \/ f[r].readRevision <= view[c][r]
  <2>1. db.records[r] \in Record /\ RecordInv(db.records[r])
    BY <1>2 DEF Database, DatabaseOK
  <2> HIDE DEF reads
  <2> QED
    BY <1>3, <2>1
<1>5. f \in [Runs -> Record]
  BY <1>4
<1>6. \/ db.version = 0 /\ d = db
      \/ db.version # 0 /\ d = [db EXCEPT !.records = f, !.version = db.version + 1]
  BY <1>2 DEF MarkActivityRead, ChangeActivity, Receipts, Database, Shown
<1> HIDE DEF f, d
<1>7. /\ db' \in Database /\ db'.runCache = db.runCache /\ db'.checkpoint = db.checkpoint
      /\ db'.initialUnreadSince = db.initialUnreadSince
      /\ \/ db'.records = db.records
         \/ db'.records = f
  <2>1. /\ d \in Database /\ d.runCache = db.runCache /\ d.checkpoint = db.checkpoint
        /\ d.initialUnreadSince = db.initialUnreadSince
        /\ \/ d.records = db.records
           \/ d.records = f
    <3>1. CASE d = db
      BY <1>2, <3>1
    <3>2. CASE d = [db EXCEPT !.records = f, !.version = db.version + 1]
      <4>1. db.version + 1 \in Nat
        BY <1>2
      <4> QED
        BY <1>2, <1>5, <3>2, <4>1 DEF Database
    <3> QED
      BY <1>6, <3>1, <3>2
  <2>2. LesserOf(d.version, MaxVersion) \in Nat
    BY <2>1, VersionAssumption DEF LesserOf, Database
  <2>3. db' = [d EXCEPT !.version = LesserOf(d.version, MaxVersion)]
    BY <1>1 DEF Capped
  <2> HIDE DEF f, d
  <2> QED
    BY <2>1, <2>2, <2>3 DEF Database
<1>8. ASSUME NEW r \in Runs
      PROVE  /\ RecordInv(db'.records[r])
             /\ db'.records[r].known = db.records[r].known
             /\ db'.records[r].run = db.records[r].run
             /\ db'.records[r].revision = db.records[r].revision
             /\ db'.records[r].observedAt = db.records[r].observedAt
             /\ \/ db'.records[r].readRevision = db.records[r].readRevision
                \/ db'.records[r].readRevision <= view[c][r]
  BY <1>4, <1>7 DEF DatabaseOK
<1>9. ViewIsPast'
  <2>1. \A x \in Clients, r \in Runs : view'[x][r] <= db'.records[r].revision
    BY <1>1, <1>8 DEF DatabaseOK, ViewIsPast
  <2> QED
    BY <2>1 DEF ViewIsPast
<1>10. ReadWasShown'
  BY <1>1, <1>8 DEF DatabaseOK, ReadWasShown
<1>11. DatabaseOK'
  BY <1>1, <1>2, <1>7, <1>8, <1>9, <1>10 DEF DatabaseOK, TypeOK
<1>12. WorldType'
  BY <1>1 DEF WorldType
<1>13. GoesOn
  BY <1>1, <1>7, RefreshAssumption
     DEF GoesOn, RunGoesOn, WorldType, DatabaseOK, TypeOK, Database
<1>14. ASSUME NEW r \in Runs
       PROVE  ServerOK(r)' /\ RecordOK(r)' /\ RowOK(r)'
  <2>1. ServerOK(r) /\ RecordOK(r) /\ RowOK(r)
    BY DEF RunsOK
  <2>2. (Listed(r)' <=> Listed(r)) /\ (Settled(r)' <=> Settled(r))
        /\ (Announced(r)' <=> Announced(r))
    BY <1>1, <1>7 DEF Settled, Listed, Announced
  <2>3. ServerOK(r)' /\ RowOK(r)'
    BY <1>1, <1>7, <2>1, <2>2 DEF ServerOK, RowOK, TrueRow
  <2> DEFINE old == db.records[r]
             new == db'.records[r]
  <2>4. /\ TrueRecord(old, r) /\ new.known = old.known /\ new.run = old.run
        /\ new.revision = old.revision /\ new.observedAt = old.observedAt
        /\ Settled(r) => old.known /\ old.observedAt > since[r]
    BY <1>8, <2>1 DEF RecordOK
  <2>5. /\ TrueRecord(new, r)
        /\ Settled(r) => new.known /\ new.observedAt > since[r]
    <3> HIDE DEF old, new
    <3> QED
      BY <2>4 DEF TrueRecord, SameEnd
  <2>6. RecordOK(r)'
    BY <1>1, <2>2, <2>5 DEF RecordOK, TrueRecord, Was, SameEnd
  <2> QED
    BY <2>3, <2>6
<1> QED
  BY <1>11, <1>12, <1>13, <1>14 DEF RunsOK

-----------------------------------------------------------------------------
(* The steps of a refresher.                                               *)

LEMMA LocalKeeps ==
    ASSUME WorldType, DatabaseOK, RunsOK, UNCHANGED <<db, view, now, server, since>>
    PROVE  DatabaseOK' /\ RunsOK' /\ GoesOn
<1>1. DatabaseOK'
  BY DEF DatabaseOK, TypeOK, ViewIsPast, ReadWasShown
<1>2. RunsOK'
  BY DEF RunsOK, ServerOK, RecordOK, RowOK, TrueRecord, TrueRow, Settled, Announced,
         Listed, Was, SameEnd
<1>3. GoesOn
  BY RefreshAssumption
     DEF GoesOn, RunGoesOn, WorldType, DatabaseOK, TypeOK, Database
<1> QED
  BY <1>1, <1>2, <1>3

(* The others only see the world go on.                                    *)
LEMMA TaskStep ==
    ASSUME RefreshInv, NEW p \in Refreshers, DatabaseOK', RunsOK', GoesOn,
           now' = now, server' = server, since' = since, faults' \in 0..MaxFaults,
           NEW t \in Task, Moved(p, t), TaskOK(t)'
    PROVE  RefreshInv'
<1>1. /\ WorldType /\ DatabaseOK /\ \A q \in Refreshers : TaskOK(task[q])
      /\ task \in [Refreshers -> Task] /\ now \in Nat
  BY RefreshAssumption DEF RefreshInv, WorldType
<1>2. /\ task' \in [Refreshers -> Task] /\ task'[p] = t
      /\ \A q \in Refreshers \ {p} : task'[q] = task[q] /\ task[q] \in Task
  BY <1>1 DEF Moved
<1>3. WorldType'
  BY <1>1, <1>2 DEF WorldType
<1>4. ASSUME NEW q \in Refreshers \ {p}
      PROVE  TaskOK(task[q])'
  <2>1. TypeOK' /\ now' \in Nat
    BY <1>1 DEF DatabaseOK
  <2>2. TaskOK(task'[q])
    BY <1>1, <1>2
  <2>3. task'[q] \in Task
    BY <1>2
  <2> QED
    BY <1>1, <2>1, <2>2, <2>3, TaskLasts
<1>5. TaskOK(task[p])'
  BY <1>2
<1> QED
  BY <1>3, <1>4, <1>5 DEF RefreshInv, RunsOK

LEMMA IdleTask ==
    ASSUME now' \in Nat
    PROVE  Idle \in Task /\ TaskOK(Idle)'
<1>1. /\ Idle.pc = "idle" /\ Idle.started = 0 /\ Idle.observed = NoRuns
      /\ Idle.scans = NoScan
  BY DEF Idle
<1>2. DOMAIN NoRuns = {} /\ DOMAIN NoScan = {}
  BY DEF NoRuns, NoScan
<1>3. NoRuns \in SomeRuns /\ NoScan \in SomeScans
  <2>1. NoRuns \in [{} -> Run] /\ NoScan \in [{} -> Scan]
    BY DEF NoRuns, NoScan
  <2> QED
    BY <2>1 DEF SomeRuns, SomeScans
<1>4. Idle \in Task
  BY <1>3 DEF Idle, Task, Places
<1>5. TaskOK(Idle)'
  BY <1>1, <1>2 DEF TaskOK
<1> QED
  BY <1>4, <1>5

LEMMA WithType ==
    ASSUME WorldType, NEW o \in SomeRuns, NEW S \in SUBSET Runs, \A r \in S : OnServer(r)
    PROVE  /\ With(o, S) \in SomeRuns
           /\ DOMAIN With(o, S) = DOMAIN o \cup S
           /\ \A r \in S : With(o, S)[r] = server[r]
           /\ \A r \in DOMAIN o \ S : With(o, S)[r] = o[r]
<1>1. DOMAIN o \subseteq Runs /\ \A r \in DOMAIN o : o[r] \in Run
  BY DEF SomeRuns
<1>2. ASSUME NEW r \in S PROVE server[r] \in Run
  <2>1. server[r] \in ServerRun /\ server[r].stage \in Stage
    BY DEF WorldType, OnServer
  <2> QED
    BY <2>1 DEF ServerRun, Run
<1>3. With(o, S) \in [DOMAIN o \cup S -> Run]
  BY <1>1, <1>2 DEF With
<1> QED
  BY <1>1, <1>3 DEF With, SomeRuns

(* What is read now is what the server has.                                *)
LEMMA SeenNow ==
    ASSUME WorldType, NEW o \in SomeRuns, NEW S \in SUBSET Runs, \A r \in S : OnServer(r),
           NEW t, \A r \in DOMAIN o : ReadAfter(o[r], r, t)
    PROVE  \A r \in DOMAIN With(o, S) : ReadAfter(With(o, S)[r], r, t)
<1>1. ASSUME NEW r \in S PROVE ReadAfter(server[r], r, t)
  BY DEF ReadAfter, Was, OnServer, Stage
<1> QED
  BY <1>1, WithType

LEMMA ListedIsOnServer == \A r : Listed(r) => OnServer(r)
  BY DEF Listed, OnServer, Stage

(* A search adds what it found; the next one may start when it found all,  *)
(* and a failed one ends the searches.                                     *)
LEMMA QueryKeeps ==
    ASSUME RefreshInv, NEW p \in Refreshers, NEW t \in Task, TaskOK(t), t.exps = Exps,
           t.pc \notin {"idle", "load", "baseline"}, NEW pc,
           NEW S \in SUBSET Runs, \A r \in S : Listed(r),
           NEW next \in {"query2", "query3", "query4", "get"},
           Query(p, t, pc, S, next),
           Searched([t EXCEPT !.pc = next, !.observed = With(t.observed, S)]) \/ t.failed
    PROVE  RefreshInv'
<1>1. /\ WorldType /\ DatabaseOK /\ RunsOK /\ now \in Nat /\ faults \in 0..MaxFaults
  BY RefreshAssumption DEF RefreshInv, RunsOK, WorldType
<1>2. DatabaseOK' /\ RunsOK' /\ GoesOn /\ UNCHANGED <<db, view, now, server, since>>
  BY <1>1, LocalKeeps DEF Query, Local
<1>3. /\ t.observed \in SomeRuns /\ t.scans \in SomeScans
      /\ \A r \in DOMAIN t.observed : ReadAfter(t.observed[r], r, t.started)
      /\ \A e \in DOMAIN t.scans : ScanOK(t.scans[e], e)
      /\ t.started <= now /\ 1 <= t.started /\ db.initialUnreadSince # 0 /\ LooksBack(t.from)
  BY DEF Task, TaskOK
<1>4. CASE /\ Moved(p, [t EXCEPT !.pc = next, !.observed = With(t.observed, S)])
           /\ UNCHANGED faults
  <2> PICK n : n = [t EXCEPT !.pc = next, !.observed = With(t.observed, S)]
    OBVIOUS
  <2>1. /\ With(t.observed, S) \in SomeRuns
        /\ \A r \in DOMAIN With(t.observed, S) :
              ReadAfter(With(t.observed, S)[r], r, t.started)
    BY <1>1, <1>3, ListedIsOnServer, WithType, SeenNow
  <2>2. /\ n \in Task /\ n.pc = next /\ n.started = t.started /\ n.from = t.from
        /\ n.exps = t.exps /\ n.observed = With(t.observed, S) /\ n.scans = t.scans
        /\ n.failed = t.failed
    BY <2>1 DEF Task, Places
  <2>3. Searched(n) \/ n.failed
    BY <2>2
  <2>4. TaskOK(n)
    BY <1>3, <2>1, <2>2, <2>3 DEF TaskOK
  <2>5. TaskOK(n)'
    BY <1>1, <1>2, <2>2, <2>4, TaskLasts DEF DatabaseOK
  <2>6. Moved(p, n)
    BY <1>4
  <2> QED
    BY <1>1, <1>2, <1>4, <2>2, <2>5, <2>6, TaskStep
<1>5. ASSUME NEW part \in SUBSET S, Fault,
             Moved(p, [t EXCEPT !.pc = "get", !.failed = TRUE,
                                !.observed = With(t.observed, part)])
      PROVE  RefreshInv'
  <2> PICK n : n = [t EXCEPT !.pc = "get", !.failed = TRUE,
                             !.observed = With(t.observed, part)]
    OBVIOUS
  <2>1. /\ With(t.observed, part) \in SomeRuns
        /\ \A r \in DOMAIN With(t.observed, part) :
              ReadAfter(With(t.observed, part)[r], r, t.started)
    BY <1>1, <1>3, ListedIsOnServer, WithType, SeenNow
  <2>2. /\ n \in Task /\ n.pc = "get" /\ n.started = t.started /\ n.from = t.from
        /\ n.exps = t.exps /\ n.observed = With(t.observed, part) /\ n.scans = t.scans
        /\ n.failed
    BY <2>1 DEF Task, Places
  <2>3. TaskOK(n)
    BY <1>3, <2>1, <2>2 DEF TaskOK
  <2>4. TaskOK(n)'
    BY <1>1, <1>2, <2>2, <2>3, TaskLasts DEF DatabaseOK
  <2>5. Moved(p, n) /\ faults' \in 0..MaxFaults
    BY <1>1, <1>5, RefreshAssumption DEF Fault
  <2> QED
    BY <1>1, <1>2, <2>2, <2>4, <2>5, TaskStep
<1> QED
  BY <1>4, <1>5 DEF Query, Local

LEMMA SearchKeeps ==
    ASSUME RefreshInv, NEW p \in Refreshers,
           QueryRunning(p) \/ QueryStarted(p) \/ QueryEnded(p) \/ QueryRecent(p)
    PROVE  RefreshInv'
<1> DEFINE t == task[p]
<1>1. /\ WorldType /\ TaskOK(t) /\ \A r \in Runs : server[r].exp \in Exps
      /\ \A r \in Runs : server[r].start \in Nat /\ server[r].end \in Nat
      /\ t \in Task /\ t.observed \in SomeRuns /\ t.running \in SUBSET Runs
      /\ t.from \in Nat /\ t.failed \in BOOLEAN
  BY TaskTypes DEF RefreshInv, WorldType, ServerRun
<1> HIDE DEF t
<1>2. ASSUME NEW S \in SUBSET Runs, \A r \in S : Listed(r)
      PROVE  DOMAIN With(t.observed, S) = DOMAIN t.observed \cup S
  BY <1>1, <1>2, ListedIsOnServer, WithType
<1>3. CASE QueryRunning(p)
  <2> PICK n : n = [t EXCEPT !.exps = Exps, !.running = t.running \ RunningRows]
    OBVIOUS
  <2>1. t.pc = "discover" /\ Query(p, n, "discover", RunningRows, "query2")
    BY <1>3 DEF QueryRunning, Query, t
  <2>2. /\ n \in Task /\ n.pc = t.pc /\ n.started = t.started /\ n.from = t.from
        /\ n.exps = Exps /\ n.observed = t.observed /\ n.scans = t.scans
    BY <1>1 DEF Task
  <2>3. TaskOK(n)
    BY <1>1, <2>1, <2>2 DEF TaskOK
  <2>4. RunningRows \in SUBSET Runs /\ \A r \in RunningRows : Listed(r)
    BY DEF RunningRows
  <2> PICK m : m = [n EXCEPT !.pc = "query2", !.observed = With(n.observed, RunningRows)]
    OBVIOUS
  <2>5. /\ m.pc = "query2" /\ m.started = n.started /\ m.from = n.from
        /\ m.observed = With(n.observed, RunningRows)
    BY <2>2 DEF Task
  <2>6. Searched(m)
    BY <1>2, <2>2, <2>4, <2>5 DEF Searched, RunningRows
  <2> QED
    BY <2>1, <2>2, <2>3, <2>4, <2>6, QueryKeeps
<1>4. ASSUME t.pc \in {"query2", "query3", "query4"}
      PROVE  t.exps = Exps /\ (t.failed \/ Searched(t))
  BY <1>1, <1>4 DEF TaskOK
<1>5. CASE QueryStarted(p)
  <2> DEFINE S == StartedRows(p)
  <2>1. t.pc = "query2" /\ Query(p, t, "query2", S, "query3")
    BY <1>5 DEF QueryStarted, Query, t
  <2>2. S = {r \in Runs : Listed(r) /\ server[r].start >= t.from}
    BY <1>1, <1>4, <2>1 DEF StartedRows, Found, t
  <2>3. S \in SUBSET Runs /\ \A r \in S : Listed(r)
    BY <2>2
  <2> HIDE DEF S
  <2> PICK m : m = [t EXCEPT !.pc = "query3", !.observed = With(t.observed, S)]
    OBVIOUS
  <2>4. /\ m.pc = "query3" /\ m.started = t.started /\ m.from = t.from
        /\ m.observed = With(t.observed, S)
    BY <1>1 DEF Task
  <2>5. t.failed \/ Searched(m)
    BY <1>2, <1>4, <2>1, <2>2, <2>3, <2>4 DEF Searched
  <2> QED
    BY <1>1, <1>4, <2>1, <2>3, <2>5, QueryKeeps
<1>6. CASE QueryEnded(p)
  <2> DEFINE S == EndedRows(p)
  <2>1. t.pc = "query3" /\ Query(p, t, "query3", S, "query4")
    BY <1>6 DEF QueryEnded, Query, t
  <2>2. S = {r \in Runs : Listed(r) /\ server[r].end >= GreaterOf(1, t.from)}
    BY <1>1, <1>4, <2>1 DEF EndedRows, Found, t
  <2>3. S \in SUBSET Runs /\ \A r \in S : Listed(r)
    BY <2>2
  <2>4. \A r \in Runs : Listed(r) /\ server[r].end >= 1 /\ server[r].end >= t.from => r \in S
    BY <1>1, <2>2 DEF GreaterOf
  <2> HIDE DEF S
  <2> PICK m : m = [t EXCEPT !.pc = "query4", !.observed = With(t.observed, S)]
    OBVIOUS
  <2>5. /\ m.pc = "query4" /\ m.started = t.started /\ m.from = t.from
        /\ m.observed = With(t.observed, S)
    BY <1>1 DEF Task
  <2>6. t.failed \/ Searched(m)
    BY <1>2, <1>4, <2>1, <2>3, <2>4, <2>5 DEF Searched
  <2> QED
    BY <1>1, <1>4, <2>1, <2>3, <2>6, QueryKeeps
<1>7. CASE QueryRecent(p)
  <2>1. PICK S \in RecentRows(p) : Query(p, t, "query4", S, "get")
    BY <1>7 DEF QueryRecent, t
  <2>2. t.pc = "query4"
    BY <2>1 DEF Query, t
  <2>3. S \in SUBSET Runs /\ \A r \in S : Listed(r)
    BY DEF RecentRows, AnyEnded, Found
  <2> PICK m : m = [t EXCEPT !.pc = "get", !.observed = With(t.observed, S)]
    OBVIOUS
  <2>4. /\ m.pc = "get" /\ m.started = t.started /\ m.from = t.from
        /\ m.observed = With(t.observed, S)
    BY <1>1 DEF Task
  <2>5. t.failed \/ Searched(m)
    BY <1>2, <1>4, <2>2, <2>3, <2>4 DEF Searched
  <2> QED
    BY <1>1, <1>4, <2>1, <2>2, <2>3, <2>5, QueryKeeps
<1> QED
  BY <1>3, <1>5, <1>6, <1>7

(* A step that only moves the refresher to n, or gives up.                 *)
LEMMA LocalStep ==
    ASSUME RefreshInv, NEW p \in Refreshers, NEW n \in Task, TaskOK(n), Moved(p, n),
           UNCHANGED <<db, view, now, server, since>>, Fault \/ UNCHANGED faults
    PROVE  RefreshInv'
<1>1. /\ WorldType /\ DatabaseOK /\ RunsOK /\ now \in Nat /\ faults \in 0..MaxFaults
  BY RefreshAssumption DEF RefreshInv, RunsOK, WorldType
<1>2. DatabaseOK' /\ RunsOK' /\ GoesOn
  BY <1>1, LocalKeeps
<1>3. TaskOK(n)'
  BY <1>1, <1>2, TaskLasts DEF DatabaseOK
<1>4. faults' \in 0..MaxFaults
  BY <1>1, RefreshAssumption DEF Fault
<1> QED
  BY <1>2, <1>3, <1>4, TaskStep

LEMMA AbandonKeeps ==
    ASSUME RefreshInv, NEW p \in Refreshers, Abandon(p)
    PROVE  RefreshInv'
<1>1. Idle \in Task /\ TaskOK(Idle)'
  BY IdleTask, RefreshAssumption DEF Abandon, RefreshInv, WorldType
<1>2. /\ WorldType /\ DatabaseOK /\ RunsOK /\ faults \in 0..MaxFaults
  BY DEF RefreshInv, RunsOK, WorldType
<1>3. DatabaseOK' /\ RunsOK' /\ GoesOn
  BY <1>2, LocalKeeps DEF Abandon
<1>4. faults' \in 0..MaxFaults
  BY <1>2, RefreshAssumption DEF Abandon, Fault
<1> QED
  BY <1>1, <1>3, <1>4, TaskStep DEF Abandon

LEMMA BeginKeeps ==
    ASSUME RefreshInv, NEW p \in Refreshers, Begin(p)
    PROVE  RefreshInv'
<1> PICK n : n = [Idle EXCEPT !.pc = "load", !.started = now]
  OBVIOUS
<1>1. now \in Nat /\ now >= 1
  BY RefreshAssumption DEF RefreshInv, WorldType
<1>2. NoRuns \in SomeRuns /\ NoScan \in SomeScans
  <2>1. NoRuns \in [{} -> Run] /\ NoScan \in [{} -> Scan]
    BY DEF NoRuns, NoScan
  <2> QED
    BY <2>1 DEF SomeRuns, SomeScans
<1>3. /\ n.pc = "load" /\ n.started = now /\ n.observed = NoRuns /\ n.scans = NoScan
      /\ n \in Task
  BY <1>1, <1>2 DEF Idle, Task, Places
<1>4. TaskOK(n)
  BY <1>1, <1>3 DEF TaskOK, NoRuns, NoScan
<1> QED
  BY <1>3, <1>4, LocalStep DEF Begin, Local

(* The searches of a call look back from the database it loaded.           *)
LEMMA LoadedOK ==
    ASSUME RefreshInv, NEW p \in Refreshers, task[p].pc \in {"load", "baseline"},
           NEW d \in Database, d.initialUnreadSince # 0, NEW n, n = Loaded(p, d)
    PROVE  /\ n \in Task /\ n.pc = "discover" /\ n.started = task[p].started
           /\ n.observed = task[p].observed /\ n.scans = task[p].scans
           /\ \/ n.from = d.initialUnreadSince
              \/ n.from = 0
              \/ n.from + Overlap <= d.checkpoint
<1>1. task[p] \in Task
  BY TaskTypes DEF RefreshInv
<1>2. d.checkpoint \in Nat /\ d.initialUnreadSince \in Nat /\ Overlap \in Nat
  BY RefreshAssumption DEF Database
<1>3. /\ SearchFrom(d) \in Nat
      /\ \/ SearchFrom(d) = d.initialUnreadSince
         \/ SearchFrom(d) = 0
         \/ SearchFrom(d) + Overlap <= d.checkpoint
  BY <1>2 DEF SearchFrom, GreaterOf
<1>4. /\ n \in Task /\ n.pc = "discover" /\ n.started = task[p].started
      /\ n.observed = task[p].observed /\ n.scans = task[p].scans
      /\ n.from = SearchFrom(d)
  BY <1>1, <1>3 DEF Loaded, Task, Places
<1> QED
  BY <1>3, <1>4

LEMMA LoadKeeps ==
    ASSUME RefreshInv, NEW p \in Refreshers, Load(p)
    PROVE  RefreshInv'
<1>1. task[p] \in Task /\ TaskOK(task[p]) /\ task[p].pc = "load" /\ db \in Database
  BY TaskTypes DEF RefreshInv, Load, DatabaseOK, TypeOK
<1>2. CASE db.initialUnreadSince = 0
  <2> PICK n : n = [task[p] EXCEPT !.pc = "baseline"]
    OBVIOUS
  <2>1. /\ n \in Task /\ n.pc = "baseline" /\ n.started = task[p].started
        /\ n.observed = task[p].observed /\ n.scans = task[p].scans
    BY <1>1 DEF Task, Places
  <2>2. TaskOK(n)
    BY <1>1, <2>1 DEF TaskOK
  <2>3. Moved(p, n)
    <3>1. task' = [task EXCEPT ![p].pc = "baseline"]
      BY <1>2 DEF Load, Goto
    <3>2. task \in [Refreshers -> Task]
      BY DEF RefreshInv, WorldType
    <3> QED
      BY <3>1, <3>2 DEF Moved
  <2> QED
    BY <2>1, <2>2, <2>3, LocalStep DEF Load, Local
<1>3. CASE db.initialUnreadSince # 0
  <2> PICK n : n = Loaded(p, db)
    OBVIOUS
  <2>1. /\ n \in Task /\ n.pc = "discover" /\ n.started = task[p].started
        /\ n.observed = task[p].observed /\ n.scans = task[p].scans /\ LooksBack(n.from)
    BY <1>1, <1>3, LoadedOK DEF LooksBack
  <2>2. TaskOK(n)
    BY <1>1, <1>3, <2>1 DEF TaskOK
  <2>3. Moved(p, n)
    BY <1>3 DEF Load
  <2> QED
    BY <2>1, <2>2, <2>3, LocalStep DEF Load, Local
<1> QED
  BY <1>2, <1>3

LEMMA BaselineStep ==
    ASSUME RefreshInv, NEW p \in Refreshers, FixBaseline(p)
    PROVE  RefreshInv'
<1>1. /\ CommitType /\ DatabaseOK' /\ RunsOK'
      /\ db.checkpoint <= db'.checkpoint /\ db'.initialUnreadSince # 0
      /\ db.initialUnreadSince # 0 =>
            db'.initialUnreadSince = db.initialUnreadSince
  BY BaselineKeeps
<1>2. /\ WorldType /\ DatabaseOK /\ TaskOK(task[p]) /\ task[p] \in Task
      /\ task[p].pc = "baseline" /\ now \in Nat /\ faults \in 0..MaxFaults
  BY TaskTypes, RefreshAssumption DEF RefreshInv, WorldType, FixBaseline
<1>3. GoesOn /\ now' = now /\ server' = server /\ since' = since
  BY <1>1, <1>2 DEF GoesOn, RunGoesOn, CommitType
<1>4. PICK t : t = task[p]
  OBVIOUS
<1>5. TaskOK(t)'
  BY <1>1, <1>2, <1>3, <1>4, TaskLasts DEF DatabaseOK
<1>6. PICK d : d = db' /\ d \in Database
  BY <1>1 DEF CommitType
<1>7. PICK n : n = Loaded(p, d)
  OBVIOUS
<1>8. /\ n \in Task /\ n.pc = "discover" /\ n.started = t.started
      /\ n.observed = t.observed /\ n.scans = t.scans
      /\ \/ n.from = d.initialUnreadSince
         \/ n.from = 0
         \/ n.from + Overlap <= d.checkpoint
  BY <1>1, <1>2, <1>4, <1>6, <1>7, LoadedOK
<1>9. TaskOK(n)'
  <2>1. LooksBack(n.from)' /\ db'.initialUnreadSince # 0
    BY <1>1, <1>6, <1>8 DEF LooksBack
  <2> QED
    BY <1>2, <1>4, <1>5, <1>8, <2>1 DEF TaskOK
<1>10. Moved(p, n) /\ faults' = faults
  BY <1>6, <1>7 DEF FixBaseline
<1> QED
  BY <1>1, <1>2, <1>3, <1>8, <1>9, <1>10, TaskStep

LEMMA GetKeeps ==
    ASSUME RefreshInv, NEW p \in Refreshers, NEW r \in Runs, GetRun(p, r)
    PROVE  RefreshInv'
<1> DEFINE t == task[p]
<1>1. /\ WorldType /\ TaskOK(t) /\ t \in Task /\ t.observed \in SomeRuns
      /\ t.running \in SUBSET Runs /\ t.pc = "get"
  BY TaskTypes DEF RefreshInv, GetRun
<1> HIDE DEF t
<1>2. CASE /\ OnServer(r) /\ Local
           /\ Moved(p, [t EXCEPT !.observed = With(t.observed, {r}),
                                 !.running = t.running \ {r}])
  <2> PICK n : n = [t EXCEPT !.observed = With(t.observed, {r}),
                             !.running = t.running \ {r}]
    OBVIOUS
  <2>1. /\ With(t.observed, {r}) \in SomeRuns
        /\ DOMAIN With(t.observed, {r}) = DOMAIN t.observed \cup {r}
        /\ \A q \in DOMAIN With(t.observed, {r}) :
              ReadAfter(With(t.observed, {r})[q], q, t.started)
    BY <1>1, <1>2, WithType, SeenNow DEF TaskOK
  <2>2. /\ n \in Task /\ n.pc = t.pc /\ n.started = t.started /\ n.from = t.from
        /\ n.exps = t.exps /\ n.observed = With(t.observed, {r}) /\ n.scans = t.scans
        /\ n.failed = t.failed
    BY <1>1, <2>1 DEF Task
  <2>3. Searched(t) => Searched(n)
    BY <2>1, <2>2 DEF Searched
  <2>4. TaskOK(n)
    BY <1>1, <2>1, <2>2, <2>3 DEF TaskOK
  <2>5. Moved(p, n)
    BY <1>2
  <2> QED
    BY <1>2, <2>2, <2>4, <2>5, LocalStep DEF Local
<1>3. CASE /\ Moved(p, [t EXCEPT !.failed = TRUE])
           /\ UNCHANGED <<db, view, now, server, since>>
           /\ Fault \/ UNCHANGED faults
  <2> PICK n : n = [t EXCEPT !.failed = TRUE]
    OBVIOUS
  <2>1. /\ n \in Task /\ n.pc = t.pc /\ n.started = t.started /\ n.from = t.from
        /\ n.exps = t.exps /\ n.observed = t.observed /\ n.scans = t.scans
        /\ n.failed
    BY <1>1 DEF Task
  <2>2. TaskOK(n)
    BY <1>1, <2>1 DEF TaskOK
  <2>3. Moved(p, n)
    BY <1>3
  <2> QED
    BY <1>3, <2>1, <2>2, <2>3, LocalStep
<1> QED
  BY <1>2, <1>3 DEF GetRun, t

(* A committed step ends the call, or goes on to the full scan.            *)
LEMMA CommitStep ==
    ASSUME RefreshInv, NEW p \in Refreshers, \E b : Honest(b) /\ Commit(b),
           NEW n \in Task, Moved(p, n), Fault \/ UNCHANGED faults,
           TaskOK(n) \/ n = Idle
    PROVE  RefreshInv'
<1>1. /\ WorldType /\ DatabaseOK /\ RunsOK /\ now \in Nat /\ faults \in 0..MaxFaults
  BY RefreshAssumption DEF RefreshInv, RunsOK, WorldType
<1>2. PICK b : Honest(b) /\ Commit(b)
  OBVIOUS
<1>3. CommitType /\ DatabaseOK' /\ RunsOK' /\ GoesOn
  BY <1>1, <1>2, CommitHonest
<1>4. now' = now /\ server' = server /\ since' = since
  BY <1>3 DEF CommitType
<1>5. TaskOK(n)'
  BY <1>1, <1>3, <1>4, TaskLasts, IdleTask DEF DatabaseOK
<1>6. faults' \in 0..MaxFaults
  BY <1>1, RefreshAssumption DEF Fault
<1> QED
  BY <1>3, <1>4, <1>5, <1>6, TaskStep

LEMMA DiscoveryKeeps ==
    ASSUME RefreshInv, LookBack, NEW p \in Refreshers, CommitDiscovery(p)
    PROVE  RefreshInv'
<1>1. \E b : Honest(b) /\ Commit(b)
  BY DiscoveryHonest
<1>2. Idle \in Task
  BY RefreshAssumption, IdleTask DEF CommitDiscovery, Commit, RefreshInv, WorldType
<1>3. task[p] \in Task /\ task[p].exps \in SUBSET Exps /\ TaskOK(task[p])
  BY TaskTypes DEF RefreshInv
<1>4. CASE Moved(p, Idle)
  <2> PICK n : n = Idle
    OBVIOUS
  <2> QED
    BY <1>1, <1>2, <1>4, CommitStep DEF CommitDiscovery
<1>5. CASE Moved(p, [task[p] EXCEPT !.pc = "scan", !.pending = task[p].exps])
  <2> PICK n : n = [task[p] EXCEPT !.pc = "scan", !.pending = task[p].exps]
    OBVIOUS
  <2>1. /\ n \in Task /\ n.pc = "scan" /\ n.started = task[p].started
        /\ n.from = task[p].from /\ n.observed = task[p].observed
        /\ n.scans = task[p].scans
    BY <1>3 DEF Task, Places
  <2>2. task[p].pc = "get"
    BY DEF CommitDiscovery
  <2>3. TaskOK(n)
    BY <1>3, <2>1, <2>2 DEF TaskOK
  <2> QED
    BY <1>1, <1>5, <2>1, <2>3, CommitStep DEF CommitDiscovery
<1> QED
  BY <1>4, <1>5 DEF CommitDiscovery

LEMMA EndsKeep ==
    ASSUME RefreshInv, NEW p \in Refreshers, FailDiscovery(p) \/ FinishScan(p)
    PROVE  RefreshInv'
<1>1. \E b : Honest(b) /\ Commit(b)
  BY FailHonest, FinishHonest
<1>2. /\ Idle \in Task /\ Moved(p, Idle)
      /\ Fault \/ UNCHANGED faults
  BY RefreshAssumption, IdleTask
     DEF FailDiscovery, FinishScan, Commit, RefreshInv, WorldType
<1> PICK n : n = Idle
  OBVIOUS
<1> QED
  BY <1>1, <1>2, CommitStep

LEMMA ScansType ==
    ASSUME NEW scans \in SomeScans, NEW e \in Exps
    PROVE  /\ DropScan(scans, e) \in SomeScans
           /\ DOMAIN DropScan(scans, e) = DOMAIN scans \ {e}
           /\ \A x \in DOMAIN scans \ {e} : DropScan(scans, e)[x] = scans[x]
<1>1. DOMAIN scans \subseteq Exps /\ \A x \in DOMAIN scans : scans[x] \in Scan
  BY DEF SomeScans
<1>2. DropScan(scans, e) \in [DOMAIN scans \ {e} -> Scan]
  BY <1>1 DEF DropScan
<1> QED
  BY <1>1, <1>2 DEF DropScan, SomeScans

(* A refresher at its scan may drop a worker.                              *)
LEMMA DropOK ==
    ASSUME NEW t \in Task, TaskOK(t), t.pc = "scan", NEW e \in Exps,
           NEW n \in Task, n.pc = t.pc, n.started = t.started, n.from = t.from,
           n.observed = t.observed, n.scans = DropScan(t.scans, e)
    PROVE  TaskOK(n)
<1>1. t.scans \in SomeScans
  BY DEF Task
<1>2. /\ DOMAIN n.scans = DOMAIN t.scans \ {e}
      /\ \A x \in DOMAIN t.scans \ {e} : n.scans[x] = t.scans[x]
  <2>1. /\ DOMAIN DropScan(t.scans, e) = DOMAIN t.scans \ {e}
        /\ \A x \in DOMAIN t.scans \ {e} : DropScan(t.scans, e)[x] = t.scans[x]
    BY <1>1, ScansType
  <2> QED
    BY <2>1
<1>3. \A x \in DOMAIN n.scans : ScanOK(n.scans[x], x)
  BY <1>2 DEF TaskOK
<1> QED
  BY <1>3 DEF TaskOK

LEMMA CommitScanKeeps ==
    ASSUME RefreshInv, NEW p \in Refreshers, NEW e \in Exps, CommitScan(p, e)
    PROVE  RefreshInv'
<1>1. \E b : Honest(b) /\ Commit(b)
  BY ScanHonest
<1>2. /\ task[p] \in Task /\ TaskOK(task[p]) /\ task[p].pc = "scan"
      /\ DropScan(task[p].scans, e) \in SomeScans
  BY TaskTypes, ScansType DEF RefreshInv, CommitScan
<1> PICK n : n = [task[p] EXCEPT !.scans = DropScan(task[p].scans, e)]
  OBVIOUS
<1>3. /\ n \in Task /\ n.pc = task[p].pc /\ n.started = task[p].started
      /\ n.from = task[p].from /\ n.observed = task[p].observed
      /\ n.scans = DropScan(task[p].scans, e)
  BY <1>2 DEF Task
<1>4. TaskOK(n)
  BY <1>2, <1>3, DropOK
<1>5. Moved(p, n) /\ UNCHANGED faults
  BY DEF CommitScan
<1> QED
  BY <1>1, <1>3, <1>4, <1>5, CommitStep

LEMMA StartScanKeeps ==
    ASSUME RefreshInv, NEW p \in Refreshers, NEW e \in Exps, StartScan(p, e)
    PROVE  RefreshInv'
<1> DEFINE t == task[p]
           scan == [started |-> now, read |-> FALSE, runs |-> NoRuns]
           scans == [x \in DOMAIN t.scans \cup {e} |-> IF x = e THEN scan ELSE t.scans[x]]
<1>1. /\ t \in Task /\ TaskOK(t) /\ t.pc = "scan" /\ t.pending \in SUBSET Exps
      /\ t.scans \in SomeScans /\ now \in Nat /\ now >= 1
  BY TaskTypes, RefreshAssumption DEF RefreshInv, StartScan, WorldType
<1>2. scan \in Scan
  <2>1. NoRuns \in [{} -> Run]
    BY DEF NoRuns
  <2> QED
    BY <1>1, <2>1 DEF Scan, SomeRuns
<1>3. ScanOK(scan, e)
  BY <1>1 DEF ScanOK, NoRuns
<1>4. DOMAIN t.scans \subseteq Exps /\ \A x \in DOMAIN t.scans : t.scans[x] \in Scan
  BY <1>1 DEF SomeScans
<1> HIDE DEF scan
<1>5. /\ scans \in SomeScans /\ DOMAIN scans = DOMAIN t.scans \cup {e}
      /\ scans[e] = scan /\ \A x \in DOMAIN t.scans \ {e} : scans[x] = t.scans[x]
  <2>1. scans \in [DOMAIN t.scans \cup {e} -> Scan]
    BY <1>2, <1>4
  <2> QED
    BY <1>4, <2>1 DEF SomeScans
<1> PICK n : n = [t EXCEPT !.pending = t.pending \ {e}, !.scans = scans]
  OBVIOUS
<1>6. Moved(p, n) /\ Local
  BY DEF StartScan, scan
<1> HIDE DEF scans, t
<1>7. /\ n \in Task /\ n.pc = t.pc /\ n.started = t.started
      /\ n.from = t.from /\ n.observed = t.observed /\ n.scans = scans
  BY <1>1, <1>5 DEF Task
<1>8. \A x \in DOMAIN scans : ScanOK(scans[x], x)
  BY <1>1, <1>3, <1>5 DEF TaskOK
<1>9. TaskOK(n)
  BY <1>1, <1>7, <1>8 DEF TaskOK
<1> QED
  BY <1>6, <1>7, <1>9, LocalStep DEF Local

LEMMA ReadScanKeeps ==
    ASSUME RefreshInv, NEW p \in Refreshers, NEW e \in Exps, ReadScan(p, e)
    PROVE  RefreshInv'
<1> DEFINE t == task[p]
           S == {r \in Runs : Listed(r) /\ server[r].exp = e}
           scans == [t.scans EXCEPT ![e].read = TRUE, ![e].runs = With(NoRuns, S)]
<1>1. /\ WorldType /\ t \in Task /\ TaskOK(t) /\ t.pc = "scan"
      /\ t.scans \in SomeScans /\ e \in DOMAIN t.scans
  BY TaskTypes DEF RefreshInv, ReadScan
<1>2. DOMAIN t.scans \subseteq Exps /\ \A x \in DOMAIN t.scans : t.scans[x] \in Scan
  BY <1>1 DEF SomeScans
<1>3. CASE /\ Moved(p, [t EXCEPT !.scans[e].read = TRUE,
                                 !.scans[e].runs = With(NoRuns, S)])
           /\ Local
  <2> DEFINE scan == [t.scans[e] EXCEPT !.read = TRUE, !.runs = With(NoRuns, S)]
  <2>1. NoRuns \in SomeRuns /\ DOMAIN NoRuns = {}
    <3>1. NoRuns \in [{} -> Run]
      BY DEF NoRuns
    <3> QED
      BY <3>1 DEF SomeRuns
  <2>2. S \in SUBSET Runs /\ \A r \in S : OnServer(r)
    BY ListedIsOnServer
  <2> HIDE DEF S
  <2>3. /\ With(NoRuns, S) \in SomeRuns /\ DOMAIN With(NoRuns, S) = S
        /\ \A r \in S : ReadAfter(With(NoRuns, S)[r], r, t.scans[e].started)
    <3>1. \A r \in DOMAIN NoRuns : ReadAfter(NoRuns[r], r, t.scans[e].started)
      BY <2>1
    <3>2. With(NoRuns, S) \in SomeRuns /\ DOMAIN With(NoRuns, S) = DOMAIN NoRuns \cup S
      BY <1>1, <2>1, <2>2, WithType
    <3>3. \A r \in DOMAIN With(NoRuns, S) :
            ReadAfter(With(NoRuns, S)[r], r, t.scans[e].started)
      BY <1>1, <2>1, <2>2, <3>1, SeenNow
    <3> QED
      BY <2>1, <3>2, <3>3
  <2>4. /\ scan \in Scan /\ scan.started = t.scans[e].started /\ scan.read
        /\ scan.runs = With(NoRuns, S)
    BY <1>1, <1>2, <2>3 DEF Scan
  <2>5. scans = [t.scans EXCEPT ![e] = scan]
    BY <1>1, <1>2 DEF Scan
  <2> HIDE DEF scan, scans
  <2>6. ScanOK(scan, e)
    <3>1. ScanOK(t.scans[e], e)
      BY <1>1 DEF TaskOK
    <3>2. \A r \in Runs : Listed(r) /\ server[r].exp = e => r \in S
      BY DEF S
    <3> QED
      BY <2>3, <2>4, <3>1, <3>2 DEF ScanOK
  <2>7. /\ scans \in SomeScans /\ DOMAIN scans = DOMAIN t.scans
        /\ \A x \in DOMAIN scans : ScanOK(scans[x], x)
    <3>1. /\ DOMAIN scans = DOMAIN t.scans /\ scans[e] = scan
          /\ \A x \in DOMAIN t.scans \ {e} : scans[x] = t.scans[x]
          /\ scans \in [DOMAIN t.scans -> Scan]
      BY <1>1, <1>2, <2>4, <2>5 DEF SomeScans
    <3> QED
      BY <1>1, <1>2, <2>6, <3>1 DEF TaskOK, SomeScans
  <2>8. task' = [task EXCEPT ![p] = [t EXCEPT !.scans = scans]]
    BY <1>1, <1>3 DEF Moved, scans, Task
  <2> HIDE DEF t
  <2> PICK n : n = [t EXCEPT !.scans = scans]
    OBVIOUS
  <2>9. /\ n \in Task /\ n.pc = t.pc /\ n.started = t.started
        /\ n.from = t.from /\ n.observed = t.observed /\ n.scans = scans
    BY <1>1, <2>7 DEF Task
  <2>10. TaskOK(n)
    BY <1>1, <2>7, <2>9 DEF TaskOK
  <2>11. Moved(p, n)
    BY <2>8 DEF Moved
  <2> QED
    BY <1>3, <2>9, <2>10, <2>11, LocalStep DEF Local
<1>4. CASE /\ Moved(p, [t EXCEPT !.failures = TRUE, !.scans = DropScan(t.scans, e)])
           /\ Fault /\ UNCHANGED <<db, view, now, server, since>>
  <2> PICK n : n = [t EXCEPT !.failures = TRUE, !.scans = DropScan(t.scans, e)]
    OBVIOUS
  <2>1. DropScan(t.scans, e) \in SomeScans
    BY <1>1, ScansType
  <2>2. /\ n \in Task /\ n.pc = t.pc /\ n.started = t.started
        /\ n.from = t.from /\ n.observed = t.observed /\ n.scans = DropScan(t.scans, e)
    BY <1>1, <2>1 DEF Task
  <2>3. TaskOK(n)
    BY <1>1, <2>2, DropOK
  <2> QED
    BY <1>4, <2>2, <2>3, LocalStep
<1> QED
  BY <1>3, <1>4 DEF ReadScan

-----------------------------------------------------------------------------
(* The theorems.                                                           *)

LEMMA InitRefresh == RefreshInit => RefreshInv
<1> SUFFICES ASSUME RefreshInit PROVE RefreshInv
  OBVIOUS
<1>1. Safe
  BY InitSafe DEF RefreshInit
<1>2. /\ db = NewActivitySnapshot /\ now = 1 /\ faults = 0
      /\ server = [r \in Runs |-> [NewRun(NoExp, 0) EXCEPT !.stage = "absent"]]
      /\ since = [r \in Runs |-> 0] /\ task = [p \in Refreshers |-> Idle]
  BY DEF RefreshInit, Init
<1>3. NoExp \in Exps
  BY ExpsAssumption DEF NoExp
<1> DEFINE run == [NewRun(NoExp, 0) EXCEPT !.stage = "absent"]
<1>4. /\ run \in ServerRun /\ run.stage = "absent" /\ run.status = "RUNNING"
      /\ run.end = 0
  BY <1>3 DEF NewRun, ServerRun, Status, Stage, Sample, Value, NotLogged
<1> HIDE DEF run
<1>5. server = [r \in Runs |-> run]
  BY <1>2 DEF run
<1>6. Idle \in Task /\ Idle.pc = "idle" /\ Idle.started = 0
      /\ Idle.observed = NoRuns /\ Idle.scans = NoScan
  <2>1. NoRuns \in [{} -> Run] /\ NoScan \in [{} -> Scan]
    BY DEF NoRuns, NoScan
  <2> QED
    BY <2>1 DEF Idle, Task, Places, SomeRuns, SomeScans
<1>7. WorldType
  BY <1>2, <1>4, <1>5, <1>6, RefreshAssumption DEF WorldType
<1>8. /\ db.checkpoint = 0 /\ db.initialUnreadSince = 0
      /\ \A r \in Runs : /\ ~db.records[r].known /\ db.records[r].observedAt = 0
                         /\ ~db.runCache[r].cached
  BY <1>2 DEF NewActivitySnapshot, NoRecord, NoRow
<1>9. DatabaseOK
  BY <1>1, <1>2, <1>8 DEF Safe, DatabaseOK
<1>10. ASSUME NEW r \in Runs
       PROVE  ServerOK(r) /\ RecordOK(r) /\ RowOK(r)
  BY <1>2, <1>4, <1>5, <1>8 DEF ServerOK, RecordOK, RowOK, TrueRecord, TrueRow, Settled, Listed
<1>11. TaskOK(Idle)
  BY <1>2, <1>6 DEF TaskOK, NoRuns, NoScan
<1> QED
  BY <1>2, <1>7, <1>9, <1>10, <1>11 DEF RefreshInv

LEMMA StepRefresh ==
    ASSUME RefreshInv, LookBack, [RefreshNext]_refreshVars
    PROVE  RefreshInv'
<1>1. WorldType /\ DatabaseOK /\ RunsOK /\ \A p \in Refreshers : TaskOK(task[p])
  BY DEF RefreshInv, RunsOK
<1>2. ASSUME WorldType', DatabaseOK', RunsOK', GoesOn, task' = task
      PROVE  RefreshInv'
  <2>1. \A p \in Refreshers : task[p] \in Task /\ now' \in Nat /\ TypeOK'
    BY <1>1, <1>2, RefreshAssumption DEF WorldType, DatabaseOK
  <2>2. ASSUME NEW p \in Refreshers PROVE TaskOK(task[p])'
    <3> PICK t : t = task[p]
      OBVIOUS
    <3>1. TaskOK(t)'
      BY <1>1, <1>2, <2>1, TaskLasts
    <3> QED
      BY <1>2, <3>1
  <2> QED
    BY <1>2, <2>2 DEF RefreshInv, RunsOK
<1>3. ASSUME NEW r \in Runs, StartRun(r) \/ EndRun(r) \/ DeleteRun(r) \/ PurgeRun(r)
      PROVE  RefreshInv'
  <2>1. task' = task
    BY <1>3 DEF StartRun, EndRun, DeleteRun, PurgeRun, Changed
  <2> QED
    BY <1>1, <1>2, <1>3, <2>1, RunSteps
<1>4. CASE Tick
  BY <1>1, <1>2, <1>4, TickKeeps DEF Tick
<1>5. ASSUME NEW p \in Refreshers, RefreshStep(p) \/ FailDiscovery(p) \/ Abandon(p)
      PROVE  RefreshInv'
  <2>1. CASE RefreshStep(p)
    BY <2>1, BeginKeeps, LoadKeeps, BaselineStep, SearchKeeps, GetKeeps, DiscoveryKeeps,
       StartScanKeeps, ReadScanKeeps, CommitScanKeeps, EndsKeep
       DEF RefreshStep
  <2> QED
    BY <1>5, <2>1, EndsKeep, AbandonKeeps
<1>6. ASSUME NEW c \in Clients, Look(c) \/ ReadAll(c)
      PROVE  RefreshInv'
  <2>1. task' = task
    BY <1>6 DEF Look, ReadAll
  <2> QED
    BY <1>1, <1>2, <1>6, <2>1, LookKeeps, ReadAllKeeps
<1>7. CASE UNCHANGED refreshVars
  <2>1. UNCHANGED <<db, view, now, server, since>> /\ task' = task /\ faults' = faults
    BY <1>7 DEF refreshVars
  <2>2. WorldType'
    BY <1>1, <2>1 DEF WorldType
  <2> QED
    BY <1>1, <1>2, <2>1, <2>2, LocalKeeps
<1> QED
  BY <1>3, <1>4, <1>5, <1>6, <1>7 DEF RefreshNext

(* What every state of the racing refreshers satisfies.                    *)
THEOREM RefreshAlwaysHonest == LookBack => (RefreshSpec => []RefreshInv)
<1> SUFFICES ASSUME LookBack PROVE RefreshSpec => []RefreshInv
  OBVIOUS
<1>1. RefreshInit => RefreshInv
  BY InitRefresh
<1>2. RefreshInv /\ [RefreshNext]_refreshVars => RefreshInv'
  BY StepRefresh
<1> QED
  BY <1>1, <1>2, PTL DEF RefreshSpec

(* The state of the refreshers and of the store they share keeps its types *)
(* whatever the searches, scans, failures and clients do.                  *)
THEOREM RefreshTypeCorrect == LookBack => (RefreshSpec => []RefreshTypeOK)
<1> SUFFICES ASSUME LookBack PROVE RefreshSpec => []RefreshTypeOK
  OBVIOUS
<1>1. RefreshInv => RefreshTypeOK
  <2> SUFFICES ASSUME RefreshInv PROVE RefreshTypeOK
    OBVIOUS
  <2>1. TypeOK /\ now \in 1..MaxTime /\ faults \in 0..MaxFaults
    BY DEF RefreshInv, WorldType, DatabaseOK
  <2>2. \A r \in Runs : server[r].stage \in Stage \cup {"absent", "purged"}
    BY DEF RefreshInv, WorldType, ServerRun
  <2>3. \A p \in Refreshers : task[p].pc \in Places /\ task[p].from \in Nat
    BY DEF RefreshInv, WorldType, Task
  <2> QED
    BY <2>1, <2>2, <2>3 DEF RefreshTypeOK, Places
<1>2. RefreshSpec => []RefreshInv
  BY RefreshAlwaysHonest
<1> QED
  BY <1>1, <1>2, PTL

(* What precedes the checkpoint is recorded as the server has it, and was  *)
(* announced, if polls look back as far as programs report late.           *)
LEMMA SettledIsTrue ==
    ASSUME RefreshInv, NEW r \in Runs, Settled(r)
    PROVE  /\ db.records[r].known /\ db.records[r].run = server[r]
           /\ db.records[r].revision > 1
<1>1. /\ TrueRecord(db.records[r], r) /\ db.records[r].known
      /\ db.records[r].observedAt > since[r]
  BY DEF RefreshInv, RecordOK
<1>2. Listed(r) /\ Announced(r)
  BY DEF Settled, Announced
<1>3. db.records[r].run = server[r]
  BY <1>1, <1>2 DEF TrueRecord
<1> QED
  BY <1>1, <1>2, <1>3 DEF TrueRecord, SameEnd

THEOREM CheckpointIsAlwaysHonest == LookBack => (RefreshSpec => []CheckpointIsHonest)
<1> SUFFICES ASSUME LookBack PROVE RefreshSpec => []CheckpointIsHonest
  OBVIOUS
<1>1. RefreshInv => CheckpointIsHonest
  BY SettledIsTrue DEF CheckpointIsHonest
<1>2. RefreshSpec => []RefreshInv
  BY RefreshAlwaysHonest
<1> QED
  BY <1>1, <1>2, PTL

(* The status index counts what precedes the checkpoint, whatever full     *)
(* scans prune and late rows arrive.                                       *)
THEOREM IndexIsAlwaysHonest == LookBack => (RefreshSpec => []IndexIsHonest)
<1> SUFFICES ASSUME LookBack PROVE RefreshSpec => []IndexIsHonest
  OBVIOUS
<1>1. RefreshInv => IndexIsHonest
  <2> SUFFICES ASSUME RefreshInv, NEW r \in Runs, Settled(r)
               PROVE  db.runCache[r].cached /\ db.runCache[r].status = server[r].status
    BY DEF IndexIsHonest
  <2>1. /\ TrueRow(db.runCache[r], r) /\ db.runCache[r].cached
        /\ db.runCache[r].observedAt > since[r]
    BY DEF RefreshInv, RowOK
  <2> QED
    BY <2>1 DEF TrueRow, Settled
<1>2. RefreshSpec => []RefreshInv
  BY RefreshAlwaysHonest
<1> QED
  BY <1>1, <1>2, PTL

(* No announced run is lost between a poll and its reader: until a client  *)
(* has shown the revision, the run is unread.                              *)
THEOREM SettledIsAlwaysUnreadOrShown ==
    LookBack => (RefreshSpec => []SettledIsUnreadOrShown)
<1> SUFFICES ASSUME LookBack PROVE RefreshSpec => []SettledIsUnreadOrShown
  OBVIOUS
<1>1. RefreshInv => SettledIsUnreadOrShown
  <2> SUFFICES ASSUME RefreshInv, NEW r \in Runs, Settled(r), ~Unread(db.records[r])
               PROVE  \E c \in Clients : view[c][r] >= db.records[r].revision
    BY DEF SettledIsUnreadOrShown
  <2>1. db.records[r].revision > 1
    BY SettledIsTrue
  <2>2. /\ db.records[r].revision \in Nat /\ db.records[r].readRevision \in Nat
        /\ view \in [Clients -> [Runs -> Nat]] /\ ReadWasShown
    BY DEF RefreshInv, DatabaseOK, TypeOK, Database, Record
  <2>3. db.records[r].readRevision >= db.records[r].revision
    BY <2>2 DEF Unread
  <2>4. PICK c \in Clients : db.records[r].readRevision <= view[c][r]
    BY <2>1, <2>2, <2>3 DEF ReadWasShown
  <2>5. view[c][r] \in Nat
    BY <2>2
  <2> QED
    BY <2>2, <2>3, <2>4, <2>5
<1>2. RefreshSpec => []RefreshInv
  BY RefreshAlwaysHonest
<1> QED
  BY <1>1, <1>2, PTL
=============================================================================

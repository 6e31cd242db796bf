--------------------------- MODULE WorkspaceProofs --------------------------
(***************************************************************************)
(* Theorems of ChartHistories, ArtifactPreview and DatasetWorkspace:       *)
(* caches and windows fed by requests under way.                           *)
(***************************************************************************)
EXTENDS ChartHistories, ArtifactPreview, DatasetWorkspace, TLAPS

-----------------------------------------------------------------------------
(* The charts of ChartHistories, for any charts and any number of requests.*)
(*                                                                         *)
(* While an entry is not evicted its generations and tickets only grow, so *)
(* of the answers to its own requests it accepts the one it asked for last:*)
(* of the run as last refreshed unless it is to be asked for again, or of  *)
(* the history that it has.  Whatever was just looked through by           *)
(* ensureHistories is served if it is on screen, and waits for nothing if  *)
(* it is not.                                                              *)

Request == [chart : Charts, gen : Counts, data : 0..MaxRefreshes, era : Counts]
Transform == [chart : Charts, ticket : Counts, key : Key, data : 0..MaxRefreshes, era : Counts]

RequestsOf(c, e, asked, n) ==
    \A r \in asked : r.chart = c =>
        /\ r.era <= e.era
        /\ r.era = e.era => r.gen <= e.gen
        /\ r.era = e.era /\ r.gen = e.gen /\ e.pending => e.needsRefresh \/ r.data = n

TransformsOf(c, e, begun) ==
    \A t \in begun : t.chart = c =>
        /\ t.era <= e.era
        /\ t.era = e.era => t.ticket <= e.ticket
        /\ t.era = e.era /\ t.ticket = e.ticket /\ e.busy =>
             t.key = e.key /\ (e.key.revision = e.revision => t.data = e.data)

DerivedOK(e) ==
    "curve" \notin e.foreign =>
        /\ e.derived.revision <= e.revision
        /\ e.derived = [revision |-> e.revision, profile |-> "smooth"] => e.from = e.data

RefreshOK(e, n) ==
    "history" \notin e.foreign =>
        e.needsRefresh \/ e.pending \/ ~e.updated \/ e.err \/ e.cut \/ e.data = n

(* An entry whose transform may be of another revision or profile.         *)
Whole(c, e, asked, begun, n) ==
    /\ e.pending \/ e.updated \/ e.err \/ e.busy => e.kept
    /\ e.pending => \E r \in asked : r.chart = c /\ r.era = e.era /\ r.gen = e.gen
    /\ DerivedOK(e) /\ RefreshOK(e, n)
    /\ RequestsOf(c, e, asked, n) /\ TransformsOf(c, e, begun)

KeyOK(e, p) == e.busy => e.key = [revision |-> e.revision, profile |-> p]

ChartsInv ==
    /\ ChartsTypeOK /\ requests \subseteq Request /\ transforms \subseteq Transform
    /\ \A c \in Charts : /\ Whole(c, entry[c], requests, transforms, refreshes)
                         /\ KeyOK(entry[c], profile)
    /\ cover \in {"none", "help"} => \A c \in page \ lost : Served(entry[c], profile)

-----------------------------------------------------------------------------
(* What ensureHistories does to one entry, step by step.                   *)

LEMMA Numbers == MaxAsked \in Nat /\ MaxRefreshes \in Nat
BY ChartAssumption

(* A request that is given up.                                             *)
GivenUp(e) == [e EXCEPT !.gen = e.gen + 1, !.pending = FALSE, !.cut = e.updated]

LEMMA UnwantedKeeps ==
  ASSUME NEW c \in Charts, NEW e \in Entry, NEW asked \in SUBSET Request,
         NEW begun \in SUBSET Transform, NEW n, Whole(c, e, asked, begun, n),
         e.gen < MaxAsked, NEW u, u = GivenUp(e)
  PROVE  /\ u \in Entry /\ Whole(c, u, asked, begun, n)
         /\ ~u.pending /\ u.busy = e.busy /\ u.key = e.key /\ u.ticket = e.ticket
         /\ u.revision = e.revision /\ u.gen = e.gen + 1 /\ u.era = e.era
<1>1. /\ u.kept = e.kept /\ u.gen = e.gen + 1 /\ ~u.pending /\ u.needsRefresh = e.needsRefresh
      /\ u.err = e.err /\ u.updated = e.updated /\ u.revision = e.revision /\ u.data = e.data
      /\ u.ticket = e.ticket /\ u.busy = e.busy /\ u.key = e.key /\ u.derived = e.derived
      /\ u.from = e.from /\ u.era = e.era /\ u.foreign = e.foreign /\ u.cut = e.updated
  BY DEF Entry, GivenUp
<1>2. u \in Entry
  <2>1. e.gen \in Counts /\ e.updated \in BOOLEAN
    BY DEF Entry
  <2>2. e.gen + 1 \in Counts
    BY <2>1, Numbers DEF Counts
  <2> QED
    BY <2>1, <2>2 DEF Entry, GivenUp
<1>3. DerivedOK(u) /\ TransformsOf(c, u, begun)
  BY <1>1 DEF Whole, DerivedOK, TransformsOf
<1>4. RefreshOK(u, n)
  BY <1>1 DEF RefreshOK
<1>5. RequestsOf(c, u, asked, n)
  <2>1. e.gen \in Nat /\ \A r \in asked : r.gen \in Nat
    BY DEF Entry, Counts, Request
  <2> QED
    BY <1>1, <2>1 DEF Whole, RequestsOf
<1> QED
  BY <1>1, <1>2, <1>3, <1>4, <1>5 DEF Whole

(* Of one chart nothing is asked, or begun, but what its entry waits for.   *)
OnlyAsked(c, e, a, asked, now, n) ==
    /\ asked \subseteq now
    /\ \A r \in now : \/ r \in asked
                      \/ r.chart # c
                      \/ a.gen # e.gen /\ r.gen = a.gen /\ r.data = n /\ r.era = a.era
    /\ a.gen # e.gen => \E r \in now : r.chart = c /\ r.era = a.era /\ r.gen = a.gen

OnlyBegun(c, e, f, begun, now) ==
    /\ begun \subseteq now
    /\ \A t \in now : \/ t \in begun
                      \/ t.chart # c
                      \/ /\ f.ticket # e.ticket /\ f.busy
                         /\ t.ticket = f.ticket /\ t.key = f.key /\ t.data = f.data
                         /\ t.era = f.era

(* The history is there, on its way, or failed; and the curve.             *)
HasHistory(e) == e.pending \/ e.err \/ (e.updated /\ ~e.needsRefresh)
HasCurve(f, p) ==
    f.updated /\ p # "raw" =>
      LET key == [revision |-> f.revision, profile |-> p] IN
      (f.busy /\ f.key = key) \/ f.derived = key

(* A history that is asked for, or not; whatever is asked for the others.  *)
LEMMA AskedKeeps ==
  ASSUME NEW c \in Charts, NEW e \in Entry, NEW asked \in SUBSET Request,
         NEW begun \in SUBSET Transform, NEW n \in 0..MaxRefreshes,
         Whole(c, e, asked, begun, n), e.gen < MaxAsked, NEW force \in BOOLEAN,
         NEW a, a = Asked(e, force), NEW now \in SUBSET Request,
         OnlyAsked(c, e, a, asked, now, n)
  PROVE  /\ a \in Entry /\ Whole(c, a, now, begun, n) /\ a.kept
         /\ HasHistory(a)
         /\ a.ticket = e.ticket /\ a.busy = e.busy /\ a.key = e.key /\ a.revision = e.revision
<1> USE DEF OnlyAsked, HasHistory
<1>1. /\ e.gen \in Nat /\ e.era \in Nat
      /\ \A r \in now : r.gen \in Nat /\ r.era \in Nat
  BY DEF Entry, Counts, Request
<1>2. CASE e.pending
  <2>1. PICK b \in BOOLEAN : b <=> (e.needsRefresh \/ force)
    OBVIOUS
  <2>2. a = [e EXCEPT !.needsRefresh = b]
    BY <1>2, <2>1 DEF Asked, Entry
  <2>3. /\ a.kept = e.kept /\ a.gen = e.gen /\ a.pending = e.pending /\ a.needsRefresh = b
        /\ a.err = e.err /\ a.updated = e.updated /\ a.revision = e.revision /\ a.data = e.data
        /\ a.ticket = e.ticket /\ a.busy = e.busy /\ a.key = e.key /\ a.derived = e.derived
        /\ a.from = e.from /\ a.era = e.era /\ a.foreign = e.foreign /\ a.cut = e.cut
    BY <2>2 DEF Entry
  <2>4. a \in Entry
    BY <2>2 DEF Entry
  <2>5. DerivedOK(a) /\ TransformsOf(c, a, begun) /\ RefreshOK(a, n)
    BY <1>2, <2>3 DEF Whole, DerivedOK, TransformsOf, RefreshOK
  <2>6. RequestsOf(c, a, now, n)
    BY <2>1, <2>3 DEF Whole, RequestsOf
  <2>7. a.pending => \E r \in now : r.chart = c /\ r.era = a.era /\ r.gen = a.gen
    BY <2>3 DEF Whole
  <2> QED
    BY <1>2, <2>3, <2>4, <2>5, <2>6, <2>7 DEF Whole
<1>3. CASE ~e.pending /\ ~force /\ ~e.needsRefresh /\ (e.updated \/ e.err)
  <2>1. a = e
    BY <1>3 DEF Asked
  <2>2. RequestsOf(c, e, now, n)
    BY <2>1 DEF Whole, RequestsOf
  <2> QED
    BY <1>3, <2>1, <2>2 DEF Whole
<1>4. CASE ~e.pending /\ ~(~force /\ ~e.needsRefresh /\ (e.updated \/ e.err))
  <2>1. a = [e EXCEPT !.kept = TRUE, !.gen = e.gen + 1, !.pending = TRUE,
                      !.needsRefresh = FALSE, !.err = FALSE, !.cut = FALSE]
    BY <1>4 DEF Asked, Entry
  <2>2. /\ a.kept /\ a.gen = e.gen + 1 /\ a.pending
        /\ a.updated = e.updated /\ a.revision = e.revision /\ a.data = e.data
        /\ a.ticket = e.ticket /\ a.busy = e.busy /\ a.key = e.key /\ a.derived = e.derived
        /\ a.from = e.from /\ a.era = e.era /\ a.foreign = e.foreign
    BY <2>1 DEF Entry
  <2>3. a \in Entry
    <3>1. e.gen + 1 \in Counts
      BY <1>1, Numbers DEF Counts
    <3> QED
      BY <2>1, <3>1 DEF Entry
  <2>4. DerivedOK(a) /\ TransformsOf(c, a, begun) /\ RefreshOK(a, n)
    BY <2>2 DEF Whole, DerivedOK, TransformsOf, RefreshOK
  <2>5. RequestsOf(c, a, now, n)
    <3> SUFFICES ASSUME NEW r \in now, r.chart = c
                 PROVE  /\ r.era <= a.era
                        /\ r.era = a.era => r.gen <= a.gen /\ (r.gen = a.gen => r.data = n)
      BY DEF RequestsOf
    <3>1. CASE r \in asked
      <4>1. r.era <= e.era /\ (r.era = e.era => r.gen <= e.gen)
        BY <2>2, <3>1 DEF Whole, RequestsOf
      <4> QED
        BY <1>1, <2>2, <4>1
    <3>2. CASE r \notin asked
      BY <1>1, <2>2, <3>2
    <3> QED
      BY <3>1, <3>2
  <2>6. \E r \in now : r.chart = c /\ r.era = a.era /\ r.gen = a.gen
    BY <1>1, <2>2
  <2> QED
    BY <2>2, <2>3, <2>4, <2>5, <2>6 DEF Whole
<1> QED
  BY <1>2, <1>3, <1>4

(* A curve that is transformed, or no longer.                              *)
LEMMA TransformedKeeps ==
  ASSUME NEW c \in Charts, NEW e \in Entry, NEW asked \in SUBSET Request,
         NEW begun \in SUBSET Transform, NEW n \in 0..MaxRefreshes,
         Whole(c, e, asked, begun, n), e.kept, e.ticket + 1 < MaxAsked,
         NEW wanted \in BOOLEAN, NEW p \in CurveProfiles, NEW f, f = Transformed(e, wanted, p),
         NEW now \in SUBSET Transform,
         OnlyBegun(c, e, f, begun, now)
  PROVE  /\ f \in Entry /\ Whole(c, f, asked, now, n) /\ KeyOK(f, p)
         /\ f.kept /\ (HasHistory(e) => HasHistory(f))
         /\ wanted => HasCurve(f, p)
<1> USE DEF OnlyBegun
<1>1. PICK key \in Key : key = [revision |-> e.revision, profile |-> p]
  BY DEF Key, Entry
<1>2. PICK needed \in BOOLEAN : needed <=> (wanted /\ p # "raw" /\ e.updated)
  OBVIOUS
<1>3. e.ticket \in Nat /\ e.ticket + 1 \in Counts /\ e.ticket + 2 \in Counts
  BY Numbers DEF Entry, Counts
<1>4. PICK s : s = IF e.busy /\ (~(wanted /\ p # "raw" /\ e.updated) \/ e.key # key)
                   THEN [e EXCEPT !.ticket = e.ticket + 1, !.busy = FALSE] ELSE e
  OBVIOUS
<1>5. /\ s.kept = e.kept /\ s.gen = e.gen /\ s.pending = e.pending
      /\ s.needsRefresh = e.needsRefresh
      /\ s.err = e.err /\ s.updated = e.updated /\ s.revision = e.revision /\ s.data = e.data
      /\ s.key = e.key /\ s.derived = e.derived
      /\ s.from = e.from /\ s.era = e.era /\ s.foreign = e.foreign /\ s.cut = e.cut
      /\ s.busy => s = e /\ needed /\ e.key = key
      /\ s.ticket = e.ticket \/ (~s.busy /\ s.ticket = e.ticket + 1)
  BY <1>2, <1>4 DEF Entry
<1>6. s \in Entry
  BY <1>3, <1>4 DEF Entry
<1>7. f = IF ~needed \/ s.busy \/ e.derived = key THEN s
          ELSE [s EXCEPT !.busy = TRUE, !.key = key, !.ticket = s.ticket + 1]
  <2>1. f = IF ~(wanted /\ p # "raw" /\ e.updated) \/ s.busy \/ e.derived = key THEN s
            ELSE [s EXCEPT !.busy = TRUE, !.key = key, !.ticket = s.ticket + 1]
    BY <1>1, <1>4 DEF Transformed
  <2> QED
    BY <1>2, <2>1
<1>8. CASE ~needed \/ s.busy \/ e.derived = key
  <2>1. f = s
    BY <1>7, <1>8
  <2>2. KeyOK(s, p)
    BY <1>1, <1>5 DEF KeyOK
  <2>3. TransformsOf(c, s, now)
    <3> SUFFICES ASSUME NEW t \in now, t.chart = c
                 PROVE  /\ t.era <= s.era
                        /\ t.era = s.era => t.ticket <= s.ticket
                        /\ t.era = s.era /\ t.ticket = s.ticket /\ s.busy =>
                             t.key = s.key /\ (s.key.revision = s.revision => t.data = s.data)
      BY DEF TransformsOf
    <3>1. t \in begun
      BY <1>5, <2>1
    <3>2. /\ t.era <= e.era /\ (t.era = e.era => t.ticket <= e.ticket) /\ t.ticket \in Nat
          /\ t.era = e.era /\ t.ticket = e.ticket /\ e.busy =>
               t.key = e.key /\ (e.key.revision = e.revision => t.data = e.data)
      BY <1>5, <3>1 DEF Whole, TransformsOf, Transform, Counts
    <3> QED
      BY <1>3, <1>5, <3>2
  <2>4. DerivedOK(s) /\ RefreshOK(s, n) /\ RequestsOf(c, s, asked, n)
    BY <1>5 DEF Whole, DerivedOK, RefreshOK, RequestsOf
  <2>5. Whole(c, s, asked, now, n)
    BY <1>5, <2>3, <2>4 DEF Whole
  <2>6. wanted /\ s.updated /\ p # "raw" => (s.busy /\ s.key = key) \/ s.derived = key
    BY <1>2, <1>5, <1>8
  <2> QED
    BY <1>1, <1>5, <1>6, <2>1, <2>2, <2>5, <2>6 DEF HasCurve, HasHistory
<1>9. CASE ~(~needed \/ s.busy \/ e.derived = key)
  <2>1. f = [s EXCEPT !.busy = TRUE, !.key = key, !.ticket = s.ticket + 1]
    BY <1>7, <1>9
  <2>2. /\ f.kept = e.kept /\ f.gen = e.gen /\ f.pending = e.pending
        /\ f.needsRefresh = e.needsRefresh
        /\ f.err = e.err /\ f.updated = e.updated /\ f.revision = e.revision /\ f.data = e.data
        /\ f.key = key /\ f.derived = e.derived /\ f.busy
        /\ f.from = e.from /\ f.era = e.era /\ f.foreign = e.foreign /\ f.cut = e.cut /\ f.ticket = s.ticket + 1
    <3>1. /\ f.kept = s.kept /\ f.gen = s.gen /\ f.pending = s.pending
          /\ f.needsRefresh = s.needsRefresh
          /\ f.err = s.err /\ f.updated = s.updated /\ f.revision = s.revision
          /\ f.data = s.data /\ f.key = key /\ f.derived = s.derived /\ f.busy
          /\ f.from = s.from /\ f.era = s.era /\ f.foreign = s.foreign /\ f.cut = s.cut
          /\ f.ticket = s.ticket + 1
      BY <1>6, <2>1 DEF Entry
    <3> QED
      BY <1>5, <3>1
  <2>3. s.ticket + 1 \in Counts
    BY <1>3, <1>5
  <2>4. f \in Entry
    BY <1>6, <2>1, <2>3 DEF Entry
  <2>5. KeyOK(f, p)
    BY <1>1, <2>2 DEF KeyOK
  <2>6. TransformsOf(c, f, now)
    <3> SUFFICES ASSUME NEW t \in now, t.chart = c
                 PROVE  /\ t.era <= f.era
                        /\ t.era = f.era => /\ t.ticket <= f.ticket
                                            /\ t.ticket = f.ticket =>
                                                 t.key = f.key /\ t.data = f.data
      BY DEF TransformsOf
    <3>1. CASE t \in begun
      <4>1. t.era <= e.era /\ (t.era = e.era => t.ticket <= e.ticket) /\ t.ticket \in Nat
        BY <2>2, <3>1 DEF Whole, TransformsOf, Transform, Counts
      <4> QED
        BY <1>3, <1>5, <2>2, <4>1
    <3>2. CASE t \notin begun
      <4>1. t.ticket = f.ticket /\ t.key = f.key /\ t.data = f.data /\ t.era = f.era
        BY <3>2
      <4>2. f.ticket \in Nat /\ f.era \in Nat
        BY <2>2, <2>3, <2>4 DEF Counts, Entry
      <4> QED
        BY <4>1, <4>2
    <3> QED
      BY <3>1, <3>2
  <2>7. DerivedOK(f) /\ RefreshOK(f, n) /\ RequestsOf(c, f, asked, n)
    BY <2>2 DEF Whole, DerivedOK, RefreshOK, RequestsOf
  <2>8. Whole(c, f, asked, now, n)
    BY <1>2, <1>9, <2>2, <2>6, <2>7 DEF Whole
  <2> QED
    BY <1>1, <2>2, <2>4, <2>5, <2>8 DEF HasCurve, HasHistory
<1> QED
  BY <1>8, <1>9

(* What remains of an evicted entry.                                       *)
Remains(e) == [Empty EXCEPT !.era = e.era + 1]

LEMMA EmptyIsEntry == Empty \in Entry
<1>1. 0 \in Counts /\ 0 \in 0..MaxRefreshes /\ NoKey \in Key
  BY Numbers DEF Counts, NoKey, Key, CurveProfiles
<1> QED
  BY <1>1 DEF Empty, Entry

LEMMA RemainsOfEntry ==
  ASSUME NEW e \in Entry, e.era < MaxAsked
  PROVE  /\ Remains(e) \in Entry /\ Remains(e).era = e.era + 1 /\ Remains(e).foreign = {}
         /\ ~Remains(e).kept /\ ~Remains(e).pending /\ ~Remains(e).busy
         /\ ~Remains(e).updated /\ ~Remains(e).err /\ Remains(e).derived = NoKey
         /\ Remains(e).revision = 0
<1>1. e.era + 1 \in Counts
  BY Numbers DEF Entry, Counts
<1>2. PICK era \in Counts : era = e.era + 1
  BY <1>1
<1>3. PICK f : f = [Empty EXCEPT !.era = era]
  OBVIOUS
<1>4. /\ f \in Entry /\ f.era = era /\ f.foreign = {} /\ ~f.kept /\ ~f.pending /\ ~f.busy
      /\ ~f.updated /\ ~f.err /\ f.derived = NoKey /\ f.revision = 0
  <2>1. /\ ~Empty.kept /\ ~Empty.pending /\ ~Empty.busy /\ ~Empty.updated /\ ~Empty.err
        /\ Empty.derived = NoKey /\ Empty.revision = 0 /\ Empty.foreign = {}
    BY DEF Empty
  <2> QED
    BY <1>3, <2>1, EmptyIsEntry DEF Entry
<1> QED
  BY <1>2, <1>3, <1>4 DEF Remains

LEMMA RemainsWhole ==
  ASSUME NEW c \in Charts, NEW e \in Entry, e.era < MaxAsked, NEW asked \in SUBSET Request,
         NEW begun \in SUBSET Transform, NEW n,
         RequestsOf(c, e, asked, n), TransformsOf(c, e, begun)
  PROVE  Whole(c, Remains(e), asked, begun, n)
<1>1. PICK f \in Entry :
        /\ f = Remains(e) /\ f.era = e.era + 1 /\ f.foreign = {}
        /\ ~f.kept /\ ~f.pending /\ ~f.busy /\ ~f.updated /\ ~f.err /\ f.derived = NoKey
        /\ f.revision = 0
  BY RemainsOfEntry
<1>2. /\ e.era \in Nat /\ (\A r \in asked : r.era \in Nat) /\ \A t \in begun : t.era \in Nat
  BY DEF Entry, Request, Transform, Counts
<1>3. DerivedOK(f)
  BY <1>1 DEF DerivedOK, NoKey
<1>4. RefreshOK(f, n)
  BY <1>1 DEF RefreshOK
<1>5. RequestsOf(c, f, asked, n)
  <2>1. \A r \in asked : r.chart = c => r.era <= e.era
    BY DEF RequestsOf
  <2> QED
    BY <1>1, <1>2, <2>1 DEF RequestsOf
<1>6. TransformsOf(c, f, begun)
  <2>1. \A t \in begun : t.chart = c => t.era <= e.era
    BY DEF TransformsOf
  <2> QED
    BY <1>1, <1>2, <2>1 DEF TransformsOf
<1> QED
  BY <1>1, <1>3, <1>4, <1>5, <1>6 DEF Whole

(* What is on screen and was looked through is served.                     *)
LEMMA ServedByEnsure ==
  ASSUME NEW f, NEW p, f.kept, HasHistory(f), HasCurve(f, p)
  PROVE  Served(f, p)
BY DEF Served, HasHistory, HasCurve

LEMMA AskedTyped ==
  ASSUME NEW e \in Entry, e.gen < MaxAsked, NEW force \in BOOLEAN
  PROVE  /\ Asked(e, force) \in Entry /\ Asked(e, force).ticket = e.ticket
         /\ Asked(e, force).era = e.era
<1>1. e.gen + 1 \in Counts
  BY Numbers DEF Entry, Counts
<1>2. PICK b \in BOOLEAN : b <=> (e.needsRefresh \/ force)
  OBVIOUS
<1>3. \/ Asked(e, force) = [e EXCEPT !.needsRefresh = b]
      \/ Asked(e, force) = e
      \/ Asked(e, force) = [e EXCEPT !.kept = TRUE, !.gen = e.gen + 1, !.pending = TRUE,
                                     !.needsRefresh = FALSE, !.err = FALSE, !.cut = FALSE]
  BY <1>2 DEF Asked, Entry
<1> QED
  BY <1>1, <1>3 DEF Entry

LEMMA TransformedTyped ==
  ASSUME NEW e \in Entry, e.ticket + 1 < MaxAsked, NEW wanted \in BOOLEAN, NEW p \in CurveProfiles
  PROVE  /\ Transformed(e, wanted, p) \in Entry
         /\ Transformed(e, wanted, p).gen = e.gen /\ Transformed(e, wanted, p).kept = e.kept
         /\ Transformed(e, wanted, p).pending = e.pending
         /\ Transformed(e, wanted, p).era = e.era
         /\ ~wanted => ~Transformed(e, wanted, p).busy
<1>1. PICK key \in Key : key = [revision |-> e.revision, profile |-> p]
  BY DEF Key, Entry
<1>2. e.ticket \in Nat /\ e.ticket + 1 \in Counts /\ e.ticket + 2 \in Counts
  BY Numbers DEF Entry, Counts
<1>3. PICK s : s = IF e.busy /\ (~(wanted /\ p # "raw" /\ e.updated) \/ e.key # key)
                   THEN [e EXCEPT !.ticket = e.ticket + 1, !.busy = FALSE] ELSE e
  OBVIOUS
<1>4. s \in Entry /\ s.ticket + 1 \in Counts
  <2>1. s \in Entry /\ (s.ticket = e.ticket \/ s.ticket = e.ticket + 1)
    BY <1>2, <1>3 DEF Entry
  <2>2. e.ticket + 1 + 1 = e.ticket + 2
    BY <1>2
  <2> QED
    BY <1>2, <2>1, <2>2
<1>5. /\ s.gen = e.gen /\ s.kept = e.kept /\ s.pending = e.pending /\ s.era = e.era
      /\ ~wanted => ~s.busy
  <2>1. CASE wanted
    BY <1>3, <2>1 DEF Entry
  <2>2. CASE ~wanted
    BY <1>3, <2>2 DEF Entry
  <2> QED
    BY <2>1, <2>2
<1>6. PICK f : f = Transformed(e, wanted, p)
  OBVIOUS
<1>7. f = IF ~(wanted /\ p # "raw" /\ e.updated) \/ s.busy \/ e.derived = key THEN s
          ELSE [s EXCEPT !.busy = TRUE, !.key = key, !.ticket = s.ticket + 1]
  BY <1>1, <1>3, <1>6 DEF Transformed
<1>8. /\ f \in Entry /\ f.gen = s.gen /\ f.kept = s.kept /\ f.pending = s.pending
      /\ f.era = s.era
  BY <1>4, <1>7 DEF Entry
<1>9. ~wanted => f = s
  BY <1>7
<1> QED
  BY <1>5, <1>6, <1>8, <1>9

(* ensureHistories, on entries that it may find when it is called.         *)
Ready(e, asked, begun, n) ==
    \A x \in Charts : /\ Whole(x, e[x], asked, begun, n)
                      /\ e[x].gen < MaxAsked /\ e[x].ticket + 1 < MaxAsked /\ e[x].era < MaxAsked

LEMMA EnsureKeeps ==
  ASSUME ChartsInv, refresh' \in BOOLEAN, refreshes' \in 0..MaxRefreshes,
         NEW e \in [Charts -> Entry], NEW open \in SUBSET Request, NEW p \in SUBSET Charts,
         NEW c \in Covers, NEW prof \in CurveProfiles, NEW force \in BOOLEAN,
         Ready(e, open, transforms, refreshes'),
         EnsureHistories(e, p, c, prof, force, open)
  PROVE  ChartsInv'
<1>0. \A x \in Charts : /\ Whole(x, e[x], open, transforms, refreshes')
                        /\ e[x].gen < MaxAsked /\ e[x].ticket + 1 < MaxAsked /\ e[x].era < MaxAsked
  BY DEF Ready
<1> DEFINE desired == DesiredHistories(p, c)
           unused == Unwanted(e, desired)
           asked == [x \in Charts |-> IF x \in desired THEN Asked(unused[x], force)
                                      ELSE unused[x]]
<1>1. PICK gone \in Evictions(asked, desired) :
        LET kept == Evicted(asked, gone)
            done == [x \in Charts |->
                       IF kept[x].kept THEN Transformed(kept[x], x \in desired, prof)
                       ELSE kept[x]] IN
        /\ entry' = done
        /\ requests' = open \cup
             {[chart |-> x, gen |-> done[x].gen, data |-> refreshes', era |-> done[x].era] :
                x \in {y \in desired : done[y].gen # unused[y].gen}}
        /\ transforms' = transforms \cup
             {[chart |-> x, ticket |-> done[x].ticket, key |-> done[x].key,
               data |-> done[x].data, era |-> done[x].era] :
                x \in {y \in desired : done[y].busy /\ done[y].ticket # unused[y].ticket}}
        /\ lost' = IF c = "none" THEN {} ELSE lost \cup {x \in p : ~Served(done[x], prof)}
        /\ page' = p /\ cover' = c /\ profile' = prof
  BY DEF EnsureHistories
<1> DEFINE kept == Evicted(asked, gone)
           done == [x \in Charts |->
                      IF kept[x].kept THEN Transformed(kept[x], x \in desired, prof)
                      ELSE kept[x]]
<1>2. PICK n \in 0..MaxRefreshes : n = refreshes'
  OBVIOUS
<1>3. /\ entry' = done
      /\ requests' = open \cup
           {[chart |-> x, gen |-> done[x].gen, data |-> refreshes', era |-> done[x].era] :
              x \in {y \in desired : done[y].gen # unused[y].gen}}
      /\ transforms' = transforms \cup
           {[chart |-> x, ticket |-> done[x].ticket, key |-> done[x].key,
             data |-> done[x].data, era |-> done[x].era] :
              x \in {y \in desired : done[y].busy /\ done[y].ticket # unused[y].ticket}}
      /\ lost' = IF c = "none" THEN {} ELSE lost \cup {x \in p : ~Served(done[x], prof)}
      /\ page' = p /\ cover' = c /\ profile' = prof
  BY <1>1
<1>4. desired \subseteq Charts /\ gone \subseteq Charts \ desired
  BY <1>1 DEF DesiredHistories, Evictions
<1>9. PICK begun \in SUBSET Transform : begun = transforms
  BY DEF ChartsInv
<1>10. ASSUME NEW x \in Charts
       PROVE  /\ Whole(x, e[x], open, begun, n)
              /\ unused[x] = IF x \in desired \/ ~e[x].pending THEN e[x]
                             ELSE GivenUp(e[x])
              /\ asked[x] = IF x \in desired THEN Asked(unused[x], force) ELSE unused[x]
              /\ kept[x] = IF x \in gone THEN Remains(asked[x]) ELSE asked[x]
              /\ done[x] = IF kept[x].kept THEN Transformed(kept[x], x \in desired, prof)
                           ELSE kept[x]
  BY <1>0, <1>2, <1>9 DEF Unwanted, Evicted, Remains, GivenUp
<1> HIDE DEF desired, unused, asked, kept, done
<1>11. ASSUME NEW x \in Charts
       PROVE  /\ unused[x] \in Entry /\ Whole(x, unused[x], open, begun, n)
              /\ unused[x].ticket = e[x].ticket /\ unused[x].era = e[x].era
              /\ x \in desired => unused[x].gen < MaxAsked
              /\ x \notin desired => ~unused[x].pending
  <2>1. e[x] \in Entry /\ e[x].gen < MaxAsked /\ Whole(x, e[x], open, begun, n)
    BY <1>0, <1>10
  <2>2. CASE x \in desired \/ ~e[x].pending
    BY <1>4, <1>10, <2>1, <2>2
  <2>3. CASE ~(x \in desired \/ ~e[x].pending)
    <3>1. PICK was \in Entry : was = e[x]
      BY <2>1
    <3>2. PICK u : u = unused[x]
      OBVIOUS
    <3>3. u = GivenUp(was)
      BY <1>10, <2>3, <3>1, <3>2
    <3>4. was.gen < MaxAsked /\ Whole(x, was, open, begun, n)
      BY <2>1, <3>1
    <3>5. u \in Entry /\ Whole(x, u, open, begun, n) /\ ~u.pending /\ u.ticket = was.ticket
          /\ u.era = was.era
      BY <3>3, <3>4, UnwantedKeeps
    <3> QED
      BY <2>3, <3>1, <3>2, <3>5
  <2> QED
    BY <2>2, <2>3
<1>12. ASSUME NEW x \in Charts
       PROVE  asked[x] \in Entry /\ asked[x].ticket = e[x].ticket /\ asked[x].era = e[x].era
  <2>1. PICK u \in Entry : u = unused[x]
    BY <1>11
  <2>2. x \in desired => /\ Asked(u, force) \in Entry /\ Asked(u, force).ticket = u.ticket
                         /\ Asked(u, force).era = u.era
    BY <1>11, <2>1, AskedTyped
  <2> QED
    BY <1>10, <1>11, <2>1, <2>2
<1>13. ASSUME NEW x \in Charts
       PROVE  /\ done[x] \in Entry /\ done[x].gen = kept[x].gen /\ done[x].era = kept[x].era
              /\ x \notin desired => ~done[x].pending /\ ~done[x].busy
  <2>0. /\ asked[x] \in Entry /\ asked[x].era < MaxAsked
        /\ Remains(asked[x]) \in Entry /\ ~Remains(asked[x]).kept
        /\ ~Remains(asked[x]).pending /\ ~Remains(asked[x]).busy
    BY <1>0, <1>12, RemainsOfEntry
  <2>1. kept[x] \in Entry
    BY <1>10, <2>0
  <2>2. CASE kept[x].kept
    <3>1. x \notin gone
      BY <1>10, <2>0, <2>2
    <3>2. kept[x] = asked[x]
      BY <1>10, <3>1
    <3>3. kept[x].ticket + 1 < MaxAsked
      BY <1>0, <1>12, <3>2
    <3>4. PICK wanted \in BOOLEAN : wanted <=> x \in desired
      OBVIOUS
    <3>5. done[x] = Transformed(kept[x], wanted, prof)
      BY <1>10, <2>2, <3>4
    <3>6. x \notin desired => ~kept[x].pending
      BY <1>10, <1>11, <3>2
    <3> QED
      BY <2>1, <3>3, <3>4, <3>5, <3>6, TransformedTyped
  <2>3. CASE ~kept[x].kept
    <3>1. done[x] = kept[x]
      BY <1>10, <2>3
    <3>2. CASE x \in gone
      BY <1>10, <2>0, <2>1, <3>1, <3>2
    <3>3. CASE x \notin gone
      <4>1. kept[x] = asked[x]
        BY <1>10, <3>3
      <4>2. CASE x \notin desired
        <5>1. ~unused[x].kept => ~unused[x].pending /\ ~unused[x].busy
          BY <1>11 DEF Whole
        <5> QED
          BY <1>10, <2>1, <2>3, <3>1, <4>1, <4>2, <5>1
      <4> QED
        BY <2>1, <3>1, <4>2
    <3> QED
      BY <3>2, <3>3
  <2> QED
    BY <2>2, <2>3
<1>14. PICK open1 \in SUBSET Request :
         /\ open1 = requests' /\ open \subseteq open1
         /\ \A r \in open1 : \/ r \in open
                             \/ /\ r.chart \in desired /\ r.data = n
                                /\ done[r.chart].gen # unused[r.chart].gen
                                /\ r.gen = done[r.chart].gen /\ r.era = done[r.chart].era
         /\ \A x \in desired : done[x].gen # unused[x].gen =>
              \E r \in open1 : r.chart = x /\ r.era = done[x].era /\ r.gen = done[x].gen
  <2>1. \A x \in desired : [chart |-> x, gen |-> done[x].gen, data |-> n, era |-> done[x].era] \in Request
    <3> TAKE x \in desired
    <3>1. x \in Charts /\ done[x] \in Entry
      BY <1>4, <1>13
    <3> QED
      BY <3>1 DEF Request, Entry
  <2>2. requests' = open \cup
          {[chart |-> x, gen |-> done[x].gen, data |-> n, era |-> done[x].era] :
             x \in {y \in desired : done[y].gen # unused[y].gen}}
    BY <1>2, <1>3
  <2>3. requests' \in SUBSET Request /\ open \subseteq requests'
    BY <2>1, <2>2
  <2>4. ASSUME NEW new \in requests', new \notin open
        PROVE  /\ new.chart \in desired /\ new.data = n
               /\ done[new.chart].gen # unused[new.chart].gen
               /\ new.gen = done[new.chart].gen /\ new.era = done[new.chart].era
    <3>1. PICK x \in desired : /\ done[x].gen # unused[x].gen
                               /\ new = [chart |-> x, gen |-> done[x].gen, data |-> n, era |-> done[x].era]
      BY <2>2, <2>4
    <3> QED
      BY <3>1
  <2>5. ASSUME NEW y \in desired, done[y].gen # unused[y].gen
        PROVE  \E new \in requests' : /\ new.chart = y /\ new.era = done[y].era
                                      /\ new.gen = done[y].gen
    <3>1. PICK new : new = [chart |-> y, gen |-> done[y].gen, data |-> n, era |-> done[y].era]
      OBVIOUS
    <3>2. new \in requests'
      BY <2>2, <2>5, <3>1
    <3> QED
      BY <3>1, <3>2
  <2> QED
    BY <2>3, <2>4, <2>5
<1>15. PICK begun1 \in SUBSET Transform :
         /\ begun1 = transforms' /\ begun \subseteq begun1
         /\ \A t \in begun1 : \/ t \in begun
                              \/ /\ t.chart \in desired /\ done[t.chart].busy
                                 /\ done[t.chart].ticket # unused[t.chart].ticket
                                 /\ t.ticket = done[t.chart].ticket
                                 /\ t.key = done[t.chart].key /\ t.data = done[t.chart].data
                                 /\ t.era = done[t.chart].era
  <2>1. \A x \in desired : [chart |-> x, ticket |-> done[x].ticket, key |-> done[x].key,
                            data |-> done[x].data, era |-> done[x].era] \in Transform
    <3> TAKE x \in desired
    <3>1. x \in Charts /\ done[x] \in Entry
      BY <1>4, <1>13
    <3> QED
      BY <3>1 DEF Transform, Entry
  <2>2. transforms' = begun \cup
          {[chart |-> x, ticket |-> done[x].ticket, key |-> done[x].key, data |-> done[x].data, era |-> done[x].era] :
             x \in {y \in desired : done[y].busy /\ done[y].ticket # unused[y].ticket}}
    BY <1>3, <1>9
  <2>3. transforms' \in SUBSET Transform /\ begun \subseteq transforms'
    BY <2>1, <2>2
  <2>4. ASSUME NEW new \in transforms', new \notin begun
        PROVE  /\ new.chart \in desired /\ done[new.chart].busy
               /\ done[new.chart].ticket # unused[new.chart].ticket
               /\ new.ticket = done[new.chart].ticket
               /\ new.key = done[new.chart].key /\ new.data = done[new.chart].data
               /\ new.era = done[new.chart].era
    <3>1. PICK x \in desired : /\ done[x].busy /\ done[x].ticket # unused[x].ticket
                               /\ new = [chart |-> x, ticket |-> done[x].ticket,
                                       key |-> done[x].key, data |-> done[x].data, era |-> done[x].era]
      BY <2>2, <2>4
    <3> QED
      BY <3>1
  <2> QED
    BY <2>3, <2>4
<1>16. ASSUME NEW x \in Charts
       PROVE  /\ Whole(x, done[x], open1, begun1, n) /\ KeyOK(done[x], prof)
              /\ x \in desired => Served(done[x], prof)
  <2>0. /\ n \in 0..MaxRefreshes /\ begun \in SUBSET Transform /\ begun1 \in SUBSET Transform
        /\ open1 \in SUBSET Request
    BY <1>2, <1>9, <1>14, <1>15
  <2>1. PICK u \in Entry : u = unused[x]
    BY <1>11
  <2>2. Whole(x, u, open, begun, n) /\ (x \in desired => u.gen < MaxAsked)
    BY <1>11, <2>1
  <2>3. PICK f \in Entry : f = done[x]
    BY <1>13
  <2>4. \A r \in open1 : \/ r \in open
                         \/ r.chart # x
                         \/ x \in desired /\ f.gen # u.gen /\ r.gen = f.gen /\ r.data = n /\ r.era = f.era
    BY <1>14, <2>1, <2>3
  <2>5. \A t \in begun1 : \/ t \in begun
                          \/ t.chart # x
                          \/ /\ x \in desired /\ f.ticket # u.ticket /\ f.busy
                             /\ t.ticket = f.ticket /\ t.key = f.key /\ t.data = f.data
                             /\ t.era = f.era
    BY <1>15, <2>1, <2>3
  <2>6. CASE x \in desired
    <3>0. u.gen < MaxAsked
      BY <2>2, <2>6
    <3>1. PICK a \in Entry : a = Asked(u, force)
      BY <3>0, <2>1, AskedTyped
    <3>2. kept[x] = a
      BY <1>4, <1>10, <2>1, <2>6, <3>1
    <3>3. f.gen = a.gen /\ f.era = a.era
      BY <1>13, <2>3, <3>2
    <3>4. a.gen # u.gen => \E r \in open1 : r.chart = x /\ r.era = a.era /\ r.gen = a.gen
      BY <1>14, <2>1, <2>3, <2>6, <3>3
    <3>5. OnlyAsked(x, u, a, open, open1, n)
      BY <1>14, <2>4, <3>3, <3>4 DEF OnlyAsked
    <3>6. Whole(x, u, open, begun, n)
      BY <2>2
    <3>7. /\ Whole(x, a, open1, begun, n) /\ a.kept /\ HasHistory(a)
          /\ a.ticket = u.ticket
      <4>1. Whole(x, a, open1, begun, n)
        BY <2>0, <2>1, <3>0, <3>1, <3>5, <3>6, AskedKeeps
      <4>2. a.kept /\ HasHistory(a)
        BY <2>0, <2>1, <3>0, <3>1, <3>5, <3>6, AskedKeeps
      <4>3. a.ticket = u.ticket
        BY <2>1, <3>0, <3>1, AskedTyped
      <4> QED
        BY <4>1, <4>2, <4>3
    <3>8. PICK wanted \in BOOLEAN : wanted
      OBVIOUS
    <3>9. f = Transformed(a, wanted, prof)
      BY <1>10, <2>3, <2>6, <3>2, <3>7, <3>8
    <3>10. a.ticket + 1 < MaxAsked
      BY <1>0, <1>11, <2>1, <3>7
    <3>11. OnlyBegun(x, a, f, begun, begun1)
      BY <1>15, <2>5, <3>7 DEF OnlyBegun
    <3>14. Whole(x, a, open1, begun, n) /\ a.kept
      BY <3>7
    <3>12. Whole(x, f, open1, begun1, n) /\ KeyOK(f, prof)
      BY <2>0, <3>1, <3>8, <3>9, <3>10, <3>11, <3>14, TransformedKeeps
    <3>15. f.kept /\ HasHistory(f) /\ HasCurve(f, prof)
      BY <2>0, <3>1, <3>7, <3>8, <3>9, <3>10, <3>11, <3>14, TransformedKeeps
    <3>13. Served(f, prof)
      BY <3>15, ServedByEnsure
    <3> QED
      BY <2>3, <3>12, <3>13
  <2>7. CASE x \in gone
    <3>1. x \notin desired /\ asked[x] = u
      BY <1>4, <1>10, <2>1, <2>7
    <3>2. u.era < MaxAsked
      BY <1>0, <1>11, <2>1
    <3>3. PICK o \in Entry : o = Remains(u) /\ ~o.kept /\ ~o.busy
      BY <3>2, RemainsOfEntry
    <3>4. f = o
      BY <1>10, <2>3, <2>7, <3>1, <3>3
    <3>5. RequestsOf(x, u, open1, n)
      BY <2>2, <2>4, <3>1 DEF Whole, RequestsOf
    <3>6. TransformsOf(x, u, begun1)
      BY <2>2, <2>5, <3>1 DEF Whole, TransformsOf
    <3>7. Whole(x, o, open1, begun1, n)
      BY <2>0, <3>2, <3>3, <3>5, <3>6, RemainsWhole
    <3> QED
      BY <2>3, <3>1, <3>3, <3>4, <3>7 DEF KeyOK
  <2>8. CASE x \notin desired /\ x \notin gone
    <3>1. kept[x] = u
      BY <1>10, <2>1, <2>8
    <3>2. \A r \in open1 : r \in open \/ r.chart # x
      BY <2>4, <2>8
    <3>3. \A t \in begun1 : t \in begun \/ t.chart # x
      BY <2>5, <2>8
    <3>4. Whole(x, u, open1, begun, n) /\ Whole(x, u, open1, begun1, n)
      <4>1. RequestsOf(x, u, open1, n)
        BY <2>2, <3>2 DEF Whole, RequestsOf
      <4>2. TransformsOf(x, u, begun1)
        BY <2>2, <3>3 DEF Whole, TransformsOf
      <4>3. u.pending => \E r \in open1 : r.chart = x /\ r.era = u.era /\ r.gen = u.gen
        BY <1>14, <2>2 DEF Whole
      <4> QED
        BY <2>2, <4>1, <4>2, <4>3 DEF Whole
    <3>5. CASE u.kept
      <4>1. PICK wanted \in BOOLEAN : ~wanted
        OBVIOUS
      <4>2. f = Transformed(u, wanted, prof)
        BY <1>10, <2>3, <2>8, <3>1, <3>5, <4>1
      <4>3. u.ticket + 1 < MaxAsked
        BY <1>0, <1>11, <2>1
      <4>4. OnlyBegun(x, u, f, begun, begun1)
        BY <1>15, <3>3 DEF OnlyBegun
      <4>5. Whole(x, f, open1, begun1, n) /\ KeyOK(f, prof)
        BY <2>0, <2>1, <3>4, <3>5, <4>1, <4>2, <4>3, <4>4, TransformedKeeps
      <4> QED
        BY <2>3, <2>8, <4>5
    <3>6. CASE ~u.kept
      <4>1. f = u
        BY <1>10, <2>3, <3>1, <3>6
      <4>2. ~f.busy
        BY <1>13, <2>3, <2>8
      <4> QED
        BY <2>3, <2>8, <3>4, <4>1, <4>2 DEF KeyOK
    <3> QED
      BY <3>5, <3>6
  <2> QED
    BY <2>6, <2>7, <2>8
<1>17. lost' \in SUBSET Charts
  BY <1>3 DEF ChartsInv, ChartsTypeOK
<1>18. c \in {"none", "help"} => \A x \in p \ lost' : Served(entry'[x], prof)
  <2>1. CASE c = "none"
    <3>1. desired = p
      BY <2>1 DEF desired, DesiredHistories
    <3> QED
      BY <1>3, <1>16, <3>1
  <2>2. CASE c = "help"
    <3>1. lost' = lost \cup {x \in p : ~Served(done[x], prof)}
      BY <1>3, <2>2
    <3> QED
      BY <1>3, <3>1
  <2> QED
    BY <2>1, <2>2
<1>19. entry' \in [Charts -> Entry]
  <2>1. done = [x \in Charts |-> done[x]]
    BY DEF done
  <2> QED
    BY <1>3, <1>13, <2>1
<1>20. /\ requests' \in SUBSET Request /\ transforms' \in SUBSET Transform
       /\ page' = p /\ cover' = c /\ profile' = prof
  BY <1>3, <1>14, <1>15
<1>21. ASSUME NEW x \in Charts
       PROVE  Whole(x, entry'[x], requests', transforms', refreshes') /\ KeyOK(entry'[x], prof)
  BY <1>2, <1>3, <1>14, <1>15, <1>16
<1>22. /\ \A x \in Charts : /\ Whole(x, entry'[x], requests', transforms', refreshes')
                            /\ KeyOK(entry'[x], profile')
       /\ cover' \in {"none", "help"} => \A x \in page' \ lost' : Served(entry'[x], profile')
  BY <1>18, <1>20, <1>21
<1>23. ChartsTypeOK'
  BY <1>17, <1>19, <1>20 DEF ChartsTypeOK
<1> QED
  BY <1>20, <1>22, <1>23 DEF ChartsInv

-----------------------------------------------------------------------------
(* The actions that end in ensureHistories.                                *)

(* It is called with what there is.                                        *)
LEMMA LookingKeepsInv ==
  ASSUME ChartsInv, Bounded, UNCHANGED <<refresh, refreshes>>,
         NEW p \in SUBSET Charts, NEW c \in Covers, NEW prof \in CurveProfiles,
         EnsureHistories(entry, p, c, prof, FALSE, requests)
  PROVE  ChartsInv'
<1>1. PICK e \in [Charts -> Entry] : e = entry
  BY DEF ChartsInv, ChartsTypeOK
<1>2. PICK open \in SUBSET Request : open = requests
  BY DEF ChartsInv
<1>3. PICK force \in BOOLEAN : force <=> FALSE
  OBVIOUS
<1>4. force = FALSE
  BY <1>3
<1>5. refresh' \in BOOLEAN /\ refreshes' \in 0..MaxRefreshes
  BY DEF ChartsInv, ChartsTypeOK
<1>6. Ready(e, open, transforms, refreshes')
  BY <1>1, <1>2 DEF ChartsInv, Bounded, Ready
<1>7. EnsureHistories(e, p, c, prof, force, open)
  BY <1>1, <1>2, <1>4
<1> QED
  BY <1>5, <1>6, <1>7, EnsureKeeps

LEMMA ShowChartsKeeps ==
  ASSUME ChartsInv, NEW p \in SUBSET Charts, ShowCharts(p)
  PROVE  ChartsInv'
<1>1. cover \in Covers /\ profile \in CurveProfiles
  BY DEF ChartsInv, ChartsTypeOK
<1>2. Bounded /\ UNCHANGED <<refresh, refreshes>>
      /\ EnsureHistories(entry, p, cover, profile, FALSE, requests)
  BY DEF ShowCharts
<1> QED
  BY <1>1, <1>2, LookingKeepsInv

LEMMA ChangeProfileKeeps ==
  ASSUME ChartsInv, NEW p \in CurveProfiles, ChangeProfile(p)
  PROVE  ChartsInv'
<1>1. cover \in Covers /\ page \in SUBSET Charts
  BY DEF Covers, ChartsInv, ChartsTypeOK
<1>2. Bounded /\ UNCHANGED <<refresh, refreshes>>
      /\ EnsureHistories(entry, page, cover, p, FALSE, requests)
  BY DEF ChangeProfile
<1> QED
  BY <1>1, <1>2, LookingKeepsInv

LEMMA ReturnToTargetKeeps ==
  ASSUME ChartsInv, ReturnToTarget
  PROVE  ChartsInv'
<1>1. "none" \in Covers /\ profile \in CurveProfiles /\ page \in SUBSET Charts
  BY DEF Covers, ChartsInv, ChartsTypeOK
<1>2. Bounded /\ UNCHANGED <<refresh, refreshes>>
      /\ EnsureHistories(entry, page, "none", profile, FALSE, requests)
  BY DEF ReturnToTarget
<1> QED
  BY <1>1, <1>2, LookingKeepsInv

LEMMA CloseCoverKeeps ==
  ASSUME ChartsInv, CloseCover
  PROVE  ChartsInv'
<1>1. /\ "none" \in Covers /\ profile \in CurveProfiles /\ page \in SUBSET Charts
      /\ Bounded /\ UNCHANGED <<refresh, refreshes>>
  BY DEF Covers, ChartsInv, ChartsTypeOK, CloseCover
<1>2. CASE \E p \in SUBSET Charts : EnsureHistories(entry, p, "none", profile, FALSE, requests)
  BY <1>1, <1>2, LookingKeepsInv
<1> QED
  BY <1>1, <1>2 DEF CloseCover

(* What is only rearranged is served, or known not to be asked for.        *)
LEMMA RearrangeKeeps ==
  ASSUME ChartsInv, NEW p \in SUBSET Charts, Rearrange(p)
  PROVE  ChartsInv'
<1>1. /\ UNCHANGED <<profile, entry, requests, transforms, refresh, refreshes>>
      /\ page' = p /\ cover' = "none" /\ lost' = lost \cup {x \in p : ~Served(entry[x], profile)}
  BY DEF Rearrange
<1>2. ChartsTypeOK'
  BY <1>1 DEF ChartsInv, ChartsTypeOK, Covers
<1> QED
  BY <1>1, <1>2 DEF ChartsInv

(* The run was found anew: whatever is kept is to be asked for again.      *)
LEMMA AcceptInspectionRunsKeeps ==
  ASSUME ChartsInv, AcceptInspectionRuns
  PROVE  ChartsInv'
<1>1. /\ cover \in Covers /\ profile \in CurveProfiles /\ page \in SUBSET Charts
      /\ refresh' \in BOOLEAN /\ refreshes \in 0..MaxRefreshes /\ refreshes' = refreshes + 1
      /\ refreshes' \in 0..MaxRefreshes
  <2>1. /\ cover \in Covers /\ profile \in CurveProfiles /\ page \in SUBSET Charts
        /\ refreshes \in 0..MaxRefreshes
    BY DEF ChartsInv, ChartsTypeOK
  <2>2. refresh' = FALSE /\ refreshes < MaxRefreshes /\ refreshes' = refreshes + 1
    BY DEF AcceptInspectionRuns
  <2>3. refreshes' \in 0..MaxRefreshes
    BY <2>1, <2>2, Numbers
  <2> QED
    BY <2>1, <2>2, <2>3
<1>2. PICK was \in [Charts -> Entry] : was = entry
  BY DEF ChartsInv, ChartsTypeOK
<1>3. PICK open \in SUBSET Request : open = requests
  BY DEF ChartsInv
<1>4. PICK begun \in SUBSET Transform : begun = transforms
  BY DEF ChartsInv
<1>5. PICK force \in BOOLEAN : force
  OBVIOUS
<1>6. PICK e : e = [c \in Charts |-> [was[c] EXCEPT !.needsRefresh = was[c].kept]]
  OBVIOUS
<1>7. ASSUME NEW x \in Charts, NEW n
      PROVE  /\ e[x] \in Entry
             /\ Whole(x, was[x], open, begun, refreshes) => Whole(x, e[x], open, begun, n)
             /\ e[x].gen = was[x].gen /\ e[x].ticket = was[x].ticket
             /\ e[x].era = was[x].era
  <2>1. PICK o \in Entry : o = was[x]
    BY <1>2
  <2>2. PICK f : f = [o EXCEPT !.needsRefresh = o.kept]
    OBVIOUS
  <2>3. e[x] = f
    BY <1>6, <2>1, <2>2
  <2>4. /\ f.kept = o.kept /\ f.gen = o.gen /\ f.pending = o.pending
        /\ f.needsRefresh = o.kept /\ f.err = o.err /\ f.updated = o.updated
        /\ f.revision = o.revision /\ f.data = o.data
        /\ f.ticket = o.ticket /\ f.busy = o.busy /\ f.key = o.key /\ f.derived = o.derived
        /\ f.from = o.from /\ f.era = o.era /\ f.foreign = o.foreign
    BY <2>2 DEF Entry
  <2>5. f \in Entry
    BY <2>2 DEF Entry
  <2>6. ASSUME Whole(x, o, open, begun, refreshes)
        PROVE  Whole(x, f, open, begun, n)
    <3>1. o.pending \/ o.updated => o.kept
      BY <2>6 DEF Whole
    <3>2. DerivedOK(f) /\ TransformsOf(x, f, begun)
      BY <2>4, <2>6 DEF Whole, DerivedOK, TransformsOf
    <3>3. RefreshOK(f, n)
      BY <2>4, <3>1 DEF RefreshOK
    <3>4. RequestsOf(x, f, open, n)
      BY <2>4, <2>6, <3>1 DEF Whole, RequestsOf
    <3> QED
      BY <2>4, <2>6, <3>2, <3>3, <3>4 DEF Whole
  <2> QED
    BY <2>1, <2>3, <2>4, <2>5, <2>6
<1>8. e \in [Charts -> Entry]
  BY <1>6, <1>7
<1>9. Ready(e, open, transforms, refreshes')
  <2>1. \A x \in Charts : /\ Whole(x, was[x], open, begun, refreshes)
                          /\ was[x].gen < MaxAsked /\ was[x].ticket + 1 < MaxAsked /\ was[x].era < MaxAsked
    BY <1>2, <1>3, <1>4 DEF ChartsInv, AcceptInspectionRuns, Bounded
  <2> QED
    BY <1>4, <1>7, <2>1 DEF Ready
<1>10. EnsureHistories(e, page, cover, profile, force, open)
  <2>1. EnsureHistories([c \in Charts |-> [entry[c] EXCEPT !.needsRefresh = entry[c].kept]],
                        page, cover, profile, TRUE, requests)
    BY DEF AcceptInspectionRuns
  <2>2. force = TRUE
    BY <1>5
  <2>3. e = [c \in Charts |-> [entry[c] EXCEPT !.needsRefresh = entry[c].kept]]
    BY <1>2, <1>6
  <2> QED
    BY <1>3, <2>1, <2>2, <2>3
<1> QED
  BY <1>1, <1>8, <1>9, <1>10, EnsureKeeps

(* The answer that an entry waits for.                                     *)
LEMMA AcceptMetricKeeps ==
  ASSUME ChartsInv, NEW r \in requests, AcceptMetric(r)
  PROVE  ChartsInv'
<1>1. /\ cover \in Covers /\ profile \in CurveProfiles /\ page \in SUBSET Charts
      /\ refreshes \in 0..MaxRefreshes
  BY DEF ChartsInv, ChartsTypeOK
<1>2. PICK was \in [Charts -> Entry] : was = entry
  BY DEF ChartsInv, ChartsTypeOK
<1>3. PICK asked \in SUBSET Request : asked = requests
  BY DEF ChartsInv
<1>4. PICK begun \in SUBSET Transform : begun = transforms
  BY DEF ChartsInv
<1>5. PICK o \in Entry : o = was[r.chart] /\ r \in Request /\ r \in asked
  BY <1>2, <1>3 DEF Request
<1>6. r.chart \in Charts /\ r.gen \in Counts /\ r.data \in 0..MaxRefreshes /\ r.era \in Counts
  BY <1>5 DEF Request
<1>7. /\ refresh' \in BOOLEAN /\ refreshes' = refreshes
      /\ o.kept /\ o.gen = r.gen /\ o.pending /\ o.revision < MaxAsked
  BY <1>2, <1>5 DEF AcceptMetric, Expects, ChartsInv, ChartsTypeOK
<1>20. PICK foreign \in SUBSET {"history", "curve"} :
         foreign = IF r.era = o.era THEN o.foreign \ {"history"}
                   ELSE o.foreign \cup {"history"}
  BY DEF Entry
<1>8. PICK f : f = [o EXCEPT !.foreign = foreign, !.pending = FALSE, !.err = FALSE,
                             !.updated = TRUE, !.data = r.data, !.revision = o.revision + 1]
  OBVIOUS
<1>9. PICK e : e = [was EXCEPT ![r.chart] = f]
  OBVIOUS
<1>10. PICK open \in SUBSET Request : open = asked \ {r}
  OBVIOUS
<1>11. f \in Entry
  <2>1. o.revision + 1 \in Counts
    BY <1>7, Numbers DEF Entry, Counts
  <2> QED
    BY <1>6, <1>8, <2>1 DEF Entry
<1>12. /\ f.kept = o.kept /\ f.gen = o.gen /\ ~f.pending /\ f.updated /\ ~f.err
       /\ f.needsRefresh = o.needsRefresh
       /\ f.revision = o.revision + 1 /\ f.data = r.data
       /\ f.ticket = o.ticket /\ f.busy = o.busy /\ f.key = o.key /\ f.derived = o.derived
       /\ f.from = o.from /\ f.era = o.era /\ f.foreign = foreign
  BY <1>8 DEF Entry
<1>13. e \in [Charts -> Entry] /\ e[r.chart] = f
       /\ \A x \in Charts \ {r.chart} : e[x] = was[x]
  BY <1>6, <1>9, <1>11
<1>14. \A x \in Charts : /\ Whole(x, was[x], asked, begun, refreshes)
                         /\ KeyOK(was[x], profile)
                         /\ was[x].gen < MaxAsked /\ was[x].ticket + 1 < MaxAsked /\ was[x].era < MaxAsked
  BY <1>2, <1>3, <1>4 DEF ChartsInv, AcceptMetric, Bounded
<1>15. Whole(r.chart, f, open, begun, refreshes)
  <2>1. Whole(r.chart, o, asked, begun, refreshes) /\ KeyOK(o, profile)
    BY <1>5, <1>6, <1>14
  <2>2. o.revision \in Nat /\ o.derived.revision \in Nat
    BY DEF Entry, Key, Counts
  <2>3. DerivedOK(f)
    <3>1. f.derived = [revision |-> f.revision, profile |-> "smooth"]
            => o.derived.revision = o.revision + 1
      BY <1>12
    <3>2. "curve" \notin o.foreign => o.derived.revision <= o.revision
      BY <2>1 DEF Whole, DerivedOK
    <3> QED
      BY <1>12, <1>20, <2>2, <3>1, <3>2 DEF DerivedOK
  <2>4. RefreshOK(f, refreshes)
    BY <1>5, <1>7, <1>12, <1>20, <2>1 DEF Whole, RequestsOf, RefreshOK
  <2>5. RequestsOf(r.chart, f, open, refreshes)
    BY <1>10, <1>12, <2>1 DEF Whole, RequestsOf
  <2>6. TransformsOf(r.chart, f, begun)
    <3>1. o.busy => o.key.revision = o.revision
      BY <2>1 DEF KeyOK
    <3>2. o.busy => f.key.revision # f.revision
      BY <1>12, <2>2, <3>1
    <3> QED
      BY <1>12, <2>1, <3>2 DEF Whole, TransformsOf
  <2> QED
    BY <1>7, <1>12, <2>3, <2>4, <2>5, <2>6 DEF Whole
<1>16. ASSUME NEW x \in Charts, x # r.chart
       PROVE  Whole(x, was[x], open, begun, refreshes)
  <2>1. Whole(x, was[x], asked, begun, refreshes)
    BY <1>14
  <2> QED
    BY <1>10, <1>16, <2>1 DEF Whole, RequestsOf
<1>17. Ready(e, open, transforms, refreshes')
  <2>1. ASSUME NEW x \in Charts
        PROVE  /\ Whole(x, e[x], open, begun, refreshes)
               /\ e[x].gen < MaxAsked /\ e[x].ticket + 1 < MaxAsked /\ e[x].era < MaxAsked
    <3>1. CASE x = r.chart
      BY <1>5, <1>12, <1>13, <1>14, <1>15, <3>1
    <3>2. CASE x # r.chart
      BY <1>13, <1>14, <1>16, <3>2
    <3> QED
      BY <3>1, <3>2
  <2> QED
    BY <1>4, <1>7, <2>1 DEF Ready
<1>18. PICK force \in BOOLEAN : ~force
  OBVIOUS
<1>19. EnsureHistories(e, page, cover, profile, force, open)
  <2>1. /\ f = [Brought(entry[r.chart], "history", r.era) EXCEPT
                  !.pending = FALSE, !.err = FALSE, !.updated = TRUE, !.data = r.data,
                  !.revision = @ + 1]
        /\ e = [entry EXCEPT ![r.chart] = f]
    BY <1>2, <1>5, <1>8, <1>9, <1>20 DEF Entry, Brought
  <2>2. EnsureHistories([entry EXCEPT ![r.chart] = f], page, cover, profile, FALSE,
                        requests \ {r})
    BY <2>1 DEF AcceptMetric
  <2>3. force = FALSE
    BY <1>18
  <2> QED
    BY <1>3, <1>10, <2>1, <2>2, <2>3
<1> QED
  BY <1>1, <1>7, <1>13, <1>17, <1>19, EnsureKeeps

-----------------------------------------------------------------------------
(* The others.                                                             *)

(* What they leave of the screen and of the cache is all that matters.     *)
LEMMA EntriesSuffice ==
  ASSUME ChartsInv, UNCHANGED <<page, profile, refreshes>>, cover' \in Covers, refresh' \in BOOLEAN,
         lost' \in SUBSET Charts, requests' \in SUBSET Request, transforms' \in SUBSET Transform,
         NEW e \in [Charts -> Entry], entry' = e,
         \A x \in Charts : /\ Whole(x, e[x], requests', transforms', refreshes)
                           /\ KeyOK(e[x], profile),
         cover' \in {"none", "help"} => \A x \in page \ lost' : Served(e[x], profile)
  PROVE  ChartsInv'
<1>1. ChartsTypeOK'
  BY DEF ChartsInv, ChartsTypeOK
<1> QED
  BY <1>1 DEF ChartsInv

LEMMA OpenCoverKeeps ==
  ASSUME ChartsInv, NEW c \in {"inspection", "workspace", "help"}, OpenCover(c)
  PROVE  ChartsInv'
<1>1. /\ page \in SUBSET Charts /\ entry \in [Charts -> Entry] /\ refresh \in BOOLEAN
      /\ lost \in SUBSET Charts
  BY DEF ChartsInv, ChartsTypeOK
<1>2. /\ cover = "none" /\ cover' = c /\ c \in Covers
      /\ UNCHANGED <<page, profile, requests, transforms, refresh, refreshes>>
  BY DEF OpenCover, Covers
<1>3. lost' \in SUBSET Charts
  BY <1>1 DEF OpenCover
<1>4. CASE c # "workspace"
  <2>1. UNCHANGED <<entry, lost>>
    BY <1>4 DEF OpenCover
  <2>2. ChartsTypeOK'
    BY <1>2, <2>1 DEF ChartsInv, ChartsTypeOK
  <2> QED
    BY <1>2, <2>1, <2>2 DEF ChartsInv
<1>5. CASE c = "workspace"
  <2>1. PICK was \in [Charts -> Entry] : was = entry
    BY <1>1
  <2>2. PICK asked \in SUBSET Request : asked = requests
    BY DEF ChartsInv
  <2>3. PICK begun \in SUBSET Transform : begun = transforms
    BY DEF ChartsInv
  <2>4. PICK e : e = [x \in Charts |-> IF ~was[x].pending THEN was[x] ELSE GivenUp(was[x])]
    OBVIOUS
  <2>5. entry' = e
    BY <1>5, <2>1, <2>4 DEF OpenCover, Unwanted, GivenUp
  <2>6. \A x \in Charts : /\ Whole(x, was[x], asked, begun, refreshes) /\ KeyOK(was[x], profile)
                          /\ was[x].gen < MaxAsked
    BY <2>1, <2>2, <2>3 DEF ChartsInv, OpenCover, Bounded
  <2>7. ASSUME NEW x \in Charts
        PROVE  e[x] \in Entry /\ Whole(x, e[x], asked, begun, refreshes) /\ KeyOK(e[x], profile)
    <3>1. CASE ~was[x].pending
      BY <2>4, <2>6, <3>1
    <3>2. CASE was[x].pending
      <4>1. PICK o \in Entry : o = was[x]
        OBVIOUS
      <4>2. PICK u : u = GivenUp(o)
        OBVIOUS
      <4>3. Whole(x, o, asked, begun, refreshes) /\ o.gen < MaxAsked /\ KeyOK(o, profile)
        BY <2>6, <4>1
      <4>4. u \in Entry /\ Whole(x, u, asked, begun, refreshes)
        BY <4>2, <4>3, UnwantedKeeps
      <4>5. u.busy = o.busy /\ u.key = o.key /\ u.revision = o.revision
        BY <4>2 DEF GivenUp, Entry
      <4>6. KeyOK(u, profile)
        BY <4>3, <4>5 DEF KeyOK
      <4>7. e[x] = u
        BY <2>4, <3>2, <4>1, <4>2
      <4> QED
        BY <4>4, <4>6, <4>7
    <3> QED
      BY <3>1, <3>2
  <2>8. e \in [Charts -> Entry]
    BY <2>4, <2>7
  <2> QED
    BY <1>1, <1>2, <1>3, <1>5, <2>2, <2>3, <2>5, <2>7, <2>8, EntriesSuffice
<1> QED
  BY <1>4, <1>5

(* stopInspection cancels whatever is under way.                           *)
LEMMA LeaveTargetKeeps ==
  ASSUME ChartsInv, LeaveTarget
  PROVE  ChartsInv'
<1>1. /\ page \in SUBSET Charts /\ entry \in [Charts -> Entry] /\ refresh' \in BOOLEAN
      /\ lost' \in SUBSET Charts /\ cover' = "other target" /\ cover' \in Covers
      /\ UNCHANGED <<page, profile, requests, transforms, refreshes>>
  BY DEF ChartsInv, ChartsTypeOK, LeaveTarget, Covers
<1>2. PICK was \in [Charts -> Entry] : was = entry
  BY <1>1
<1>3. PICK asked \in SUBSET Request : asked = requests
  BY DEF ChartsInv
<1>4. PICK begun \in SUBSET Transform : begun = transforms
  BY DEF ChartsInv
<1>5. PICK e : e = [x \in Charts |->
                      IF ~was[x].kept THEN was[x] ELSE
                        [was[x] EXCEPT !.gen = was[x].gen + 1, !.pending = FALSE,
                           !.cut = was[x].cut \/ (was[x].pending /\ was[x].updated),
                           !.ticket = was[x].ticket + 1, !.busy = FALSE]]
  OBVIOUS
<1>6. entry' = e
  BY <1>2, <1>5 DEF LeaveTarget
<1>7. \A x \in Charts : /\ Whole(x, was[x], asked, begun, refreshes) /\ KeyOK(was[x], profile)
                        /\ was[x].gen < MaxAsked /\ was[x].ticket + 1 < MaxAsked /\ was[x].era < MaxAsked
  BY <1>2, <1>3, <1>4 DEF ChartsInv, LeaveTarget, Bounded
<1>8. ASSUME NEW x \in Charts
      PROVE  e[x] \in Entry /\ Whole(x, e[x], asked, begun, refreshes) /\ KeyOK(e[x], profile)
  <2>1. CASE ~was[x].kept
    BY <1>5, <1>7, <2>1
  <2>2. CASE was[x].kept
    <3>1. PICK o \in Entry : o = was[x]
      OBVIOUS
    <3>2. PICK b \in BOOLEAN : b <=> (o.cut \/ (o.pending /\ o.updated))
      OBVIOUS
    <3>3. PICK u : u = [o EXCEPT !.gen = o.gen + 1, !.pending = FALSE, !.cut = b,
                                 !.ticket = o.ticket + 1, !.busy = FALSE]
      OBVIOUS
    <3>4. e[x] = u
      BY <1>5, <2>2, <3>1, <3>2, <3>3 DEF Entry
    <3>5. /\ Whole(x, o, asked, begun, refreshes) /\ o.kept
          /\ o.gen < MaxAsked /\ o.ticket + 1 < MaxAsked
      BY <1>7, <2>2, <3>1
    <3>6. /\ u.kept = o.kept /\ u.gen = o.gen + 1 /\ ~u.pending
          /\ u.needsRefresh = o.needsRefresh /\ u.err = o.err /\ u.updated = o.updated
          /\ u.revision = o.revision /\ u.data = o.data
          /\ u.ticket = o.ticket + 1 /\ ~u.busy /\ u.key = o.key /\ u.derived = o.derived
          /\ u.from = o.from /\ u.era = o.era /\ u.foreign = o.foreign /\ u.cut = b
      BY <3>3 DEF Entry
    <3>7. o.gen \in Nat /\ o.gen + 1 \in Counts /\ o.ticket \in Nat /\ o.ticket + 1 \in Counts
      BY <3>5, Numbers DEF Entry, Counts
    <3>8. u \in Entry
      BY <3>3, <3>7 DEF Entry
    <3>9. DerivedOK(u)
      BY <3>5, <3>6 DEF Whole, DerivedOK
    <3>10. RefreshOK(u, refreshes)
      BY <3>2, <3>5, <3>6 DEF Whole, RefreshOK
    <3>11. RequestsOf(x, u, asked, refreshes)
      <4>1. \A q \in asked : q.gen \in Nat
        BY DEF Request, Counts
      <4> QED
        BY <3>5, <3>6, <3>7, <4>1 DEF Whole, RequestsOf
    <3>12. TransformsOf(x, u, begun)
      <4>1. \A t \in begun : t.ticket \in Nat
        BY DEF Transform, Counts
      <4> QED
        BY <3>5, <3>6, <3>7, <4>1 DEF Whole, TransformsOf
    <3>13. Whole(x, u, asked, begun, refreshes) /\ KeyOK(u, profile)
      BY <3>5, <3>6, <3>9, <3>10, <3>11, <3>12 DEF Whole, KeyOK
    <3> QED
      BY <3>4, <3>8, <3>13
  <2> QED
    BY <2>1, <2>2
<1>9. e \in [Charts -> Entry]
  BY <1>5, <1>8
<1> QED
  BY <1>1, <1>3, <1>4, <1>6, <1>8, <1>9, EntriesSuffice

LEMMA RefreshesKeep ==
  ASSUME ChartsInv, RefreshInspection \/ RefuseInspectionRuns
  PROVE  ChartsInv'
<1>1. /\ UNCHANGED <<page, cover, profile, entry, requests, transforms, refreshes, lost>>
      /\ refresh' \in BOOLEAN
  BY DEF RefreshInspection, RefuseInspectionRuns
<1>2. ChartsTypeOK'
  BY <1>1 DEF ChartsInv, ChartsTypeOK
<1> QED
  BY <1>1, <1>2 DEF ChartsInv

LEMMA AcceptMetricErrorKeeps ==
  ASSUME ChartsInv, NEW r \in requests, AcceptMetricError(r)
  PROVE  ChartsInv'
<1>1. /\ page \in SUBSET Charts /\ entry \in [Charts -> Entry] /\ cover' \in Covers
      /\ refresh' \in BOOLEAN /\ lost' \in SUBSET Charts /\ lost' = lost /\ cover' = cover
      /\ UNCHANGED <<page, profile, transforms, refreshes>>
  BY DEF ChartsInv, ChartsTypeOK, AcceptMetricError
<1>2. PICK was \in [Charts -> Entry] : was = entry
  BY <1>1
<1>3. PICK asked \in SUBSET Request : asked = requests
  BY DEF ChartsInv
<1>4. PICK begun \in SUBSET Transform : begun = transforms
  BY DEF ChartsInv
<1>5. PICK o \in Entry : o = was[r.chart] /\ r \in Request /\ r \in asked
  BY <1>2, <1>3 DEF Request
<1>6. r.chart \in Charts /\ r.gen \in Counts
  BY <1>5 DEF Request
<1>7. o.kept /\ o.gen = r.gen /\ o.pending
  BY <1>2, <1>5 DEF AcceptMetricError, Expects
<1>8. PICK f : f = [o EXCEPT !.pending = FALSE, !.err = TRUE]
  OBVIOUS
<1>9. PICK e : e = [was EXCEPT ![r.chart] = f]
  OBVIOUS
<1>10. PICK open \in SUBSET Request : open = asked \ {r}
  OBVIOUS
<1>11. entry' = e /\ requests' = open
  BY <1>2, <1>3, <1>5, <1>6, <1>8, <1>9, <1>10 DEF AcceptMetricError
<1>12. /\ f.kept = o.kept /\ f.gen = o.gen /\ ~f.pending /\ f.updated = o.updated /\ f.err
       /\ f.needsRefresh = o.needsRefresh
       /\ f.revision = o.revision /\ f.data = o.data
       /\ f.ticket = o.ticket /\ f.busy = o.busy /\ f.key = o.key /\ f.derived = o.derived
       /\ f.from = o.from /\ f.era = o.era /\ f.foreign = o.foreign
  BY <1>8 DEF Entry
<1>13. f \in Entry /\ e \in [Charts -> Entry] /\ e[r.chart] = f
       /\ \A x \in Charts \ {r.chart} : e[x] = was[x]
  <2>1. f \in Entry
    BY <1>8 DEF Entry
  <2> QED
    BY <1>6, <1>9, <2>1
<1>14. \A x \in Charts : /\ Whole(x, was[x], asked, begun, refreshes)
                         /\ KeyOK(was[x], profile)
  BY <1>2, <1>3, <1>4 DEF ChartsInv
<1>15. Whole(r.chart, f, open, begun, refreshes) /\ KeyOK(f, profile)
  <2>1. Whole(r.chart, o, asked, begun, refreshes) /\ KeyOK(o, profile)
    BY <1>5, <1>6, <1>14
  <2>2. DerivedOK(f) /\ TransformsOf(r.chart, f, begun)
    BY <1>12, <2>1 DEF Whole, DerivedOK, TransformsOf
  <2>3. RefreshOK(f, refreshes)
    BY <1>12 DEF RefreshOK
  <2>4. RequestsOf(r.chart, f, open, refreshes)
    BY <1>10, <1>12, <2>1 DEF Whole, RequestsOf
  <2> QED
    BY <1>7, <1>12, <2>1, <2>2, <2>3, <2>4 DEF Whole, KeyOK
<1>16. ASSUME NEW x \in Charts, x # r.chart
       PROVE  Whole(x, was[x], open, begun, refreshes)
  <2>1. Whole(x, was[x], asked, begun, refreshes)
    BY <1>14
  <2> QED
    BY <1>10, <1>16, <2>1 DEF Whole, RequestsOf
<1>17. ASSUME NEW x \in Charts
       PROVE  Whole(x, e[x], open, begun, refreshes) /\ KeyOK(e[x], profile)
  <2>1. CASE x = r.chart
    BY <1>13, <1>15, <2>1
  <2>2. CASE x # r.chart
    BY <1>13, <1>14, <1>16, <2>2
  <2> QED
    BY <2>1, <2>2
<1>18. cover' \in {"none", "help"} => \A x \in page \ lost' : Served(e[x], profile)
  <2>1. Served(o, profile) => Served(f, profile)
    BY <1>12 DEF Served
  <2>2. cover' \in {"none", "help"} => \A x \in page \ lost' : Served(was[x], profile)
    BY <1>1, <1>2 DEF ChartsInv
  <2> QED
    BY <1>1, <1>5, <1>13, <2>1, <2>2
<1>19. transforms' = begun /\ transforms' \in SUBSET Transform
  BY <1>1, <1>4
<1> QED
  BY <1>1, <1>11, <1>13, <1>17, <1>18, <1>19, EntriesSuffice

LEMMA AcceptChartTransformKeeps ==
  ASSUME ChartsInv, NEW t \in transforms, AcceptChartTransform(t)
  PROVE  ChartsInv'
<1>1. /\ page \in SUBSET Charts /\ entry \in [Charts -> Entry] /\ cover' \in Covers
      /\ refresh' \in BOOLEAN /\ cover' = cover /\ lost \in SUBSET Charts
      /\ UNCHANGED <<page, profile, requests, refreshes>>
  BY DEF ChartsInv, ChartsTypeOK, AcceptChartTransform
<1>2. PICK was \in [Charts -> Entry] : was = entry
  BY <1>1
<1>3. PICK asked \in SUBSET Request : asked = requests
  BY DEF ChartsInv
<1>4. PICK begun \in SUBSET Transform : begun = transforms
  BY DEF ChartsInv
<1>5. PICK o \in Entry : o = was[t.chart] /\ t \in Transform /\ t \in begun
  BY <1>2, <1>4 DEF Transform
<1>6. t.chart \in Charts /\ t.key \in Key /\ t.data \in 0..MaxRefreshes /\ t.era \in Counts
  BY <1>5 DEF Transform
<1>7. o.kept /\ o.ticket = t.ticket /\ o.busy
  BY <1>2, <1>5 DEF AcceptChartTransform
<1>30. PICK foreign \in SUBSET {"history", "curve"} :
         foreign = IF t.era = o.era THEN o.foreign \ {"curve"} ELSE o.foreign \cup {"curve"}
  BY DEF Entry
<1>8. PICK f : f = [o EXCEPT !.foreign = foreign, !.busy = FALSE, !.derived = t.key,
                             !.from = t.data]
  OBVIOUS
<1>9. PICK ended : ended = [was EXCEPT ![t.chart] = f]
  OBVIOUS
<1>10. PICK desired : desired = DesiredHistories(page, cover)
  OBVIOUS
<1>11. PICK gone \in Evictions(ended, desired) :
         /\ entry' = Evicted(ended, gone)
         /\ lost' = lost \cup {x \in page : cover # "none" /\ ~Served(entry'[x], profile)}
  <2>1. /\ f = [Brought(entry[t.chart], "curve", t.era) EXCEPT
                  !.busy = FALSE, !.derived = t.key, !.from = t.data]
        /\ ended = [entry EXCEPT ![t.chart] = f]
    BY <1>2, <1>5, <1>8, <1>9, <1>30 DEF Entry, Brought
  <2> QED
    BY <1>10, <2>1 DEF AcceptChartTransform
<1>12. gone \subseteq Charts \ desired
  BY DEF Evictions
<1>13. PICK e : e = [x \in Charts |-> IF x \in gone THEN Remains(ended[x]) ELSE ended[x]]
  OBVIOUS
<1>14. entry' = e
  BY <1>11, <1>13 DEF Evicted, Remains
<1>15. /\ f.kept = o.kept /\ f.gen = o.gen /\ f.pending = o.pending /\ f.updated = o.updated
       /\ f.err = o.err /\ f.needsRefresh = o.needsRefresh
       /\ f.revision = o.revision /\ f.data = o.data
       /\ f.ticket = o.ticket /\ ~f.busy /\ f.key = o.key /\ f.derived = t.key
       /\ f.from = t.data /\ f.era = o.era /\ f.foreign = foreign /\ f.cut = o.cut
  BY <1>8 DEF Entry
<1>16. f \in Entry
  BY <1>6, <1>8 DEF Entry
<1>17. ended \in [Charts -> Entry] /\ ended[t.chart] = f
       /\ \A x \in Charts \ {t.chart} : ended[x] = was[x]
  BY <1>6, <1>9, <1>16
<1>18. \A x \in Charts : /\ Whole(x, was[x], asked, begun, refreshes)
                         /\ KeyOK(was[x], profile) /\ was[x].era < MaxAsked
  BY <1>2, <1>3, <1>4 DEF ChartsInv, AcceptChartTransform, Bounded
<1>19. PICK left \in SUBSET Transform : left = begun \ {t}
  OBVIOUS
<1>20. transforms' = left
  BY <1>4, <1>19 DEF AcceptChartTransform
<1>21. Whole(t.chart, o, asked, begun, refreshes) /\ KeyOK(o, profile)
  BY <1>5, <1>6, <1>18
<1>22. t.era = o.era => /\ t.key = [revision |-> o.revision, profile |-> profile]
                        /\ t.key = o.key /\ o.key.revision = o.revision /\ t.data = o.data
  <2>1. t.era = o.era => t.key = o.key /\ (o.key.revision = o.revision => t.data = o.data)
    BY <1>5, <1>7, <1>21 DEF Whole, TransformsOf
  <2>2. o.key = [revision |-> o.revision, profile |-> profile]
    BY <1>7, <1>21 DEF KeyOK
  <2>3. o.key.revision = o.revision
    BY <2>2
  <2> QED
    BY <2>1, <2>2, <2>3
<1>23. Whole(t.chart, f, asked, left, refreshes) /\ KeyOK(f, profile)
  <2>1. o.revision \in Nat
    BY DEF Entry, Counts
  <2>2. DerivedOK(f)
    BY <1>15, <1>22, <1>30, <2>1 DEF DerivedOK
  <2>3. RefreshOK(f, refreshes) /\ RequestsOf(t.chart, f, asked, refreshes)
    BY <1>15, <1>21, <1>30 DEF Whole, RefreshOK, RequestsOf
  <2>4. TransformsOf(t.chart, f, left)
    BY <1>15, <1>19, <1>21 DEF Whole, TransformsOf
  <2> QED
    BY <1>7, <1>15, <1>21, <2>2, <2>3, <2>4 DEF Whole, KeyOK
<1>24. ASSUME NEW x \in Charts
       PROVE  /\ e[x] \in Entry
              /\ Whole(x, e[x], asked, left, refreshes) /\ KeyOK(e[x], profile)
  <2>0. /\ ended[x] \in Entry /\ ended[x].era < MaxAsked
        /\ RequestsOf(x, ended[x], asked, refreshes) /\ TransformsOf(x, ended[x], left)
    <3>1. CASE x = t.chart
      BY <1>15, <1>16, <1>17, <1>18, <1>5, <1>23, <3>1 DEF Whole
    <3>2. CASE x # t.chart
      BY <1>17, <1>18, <1>19, <3>2 DEF Whole, TransformsOf
    <3> QED
      BY <3>1, <3>2
  <2>1. CASE x \in gone
    <3>1. e[x] = Remains(ended[x])
      BY <1>13, <2>1
    <3>2. Remains(ended[x]) \in Entry /\ ~Remains(ended[x]).busy
      BY <2>0, RemainsOfEntry
    <3>3. Whole(x, Remains(ended[x]), asked, left, refreshes)
      BY <2>0, RemainsWhole
    <3> QED
      BY <3>1, <3>2, <3>3 DEF KeyOK
  <2>2. CASE x \notin gone /\ x = t.chart
    BY <1>13, <1>16, <1>17, <1>23, <2>2
  <2>3. CASE x \notin gone /\ x # t.chart
    <3>1. e[x] = was[x]
      BY <1>13, <1>17, <2>3
    <3>2. Whole(x, was[x], asked, begun, refreshes)
      BY <1>18
    <3>3. Whole(x, was[x], asked, left, refreshes)
      BY <1>19, <3>2 DEF Whole, TransformsOf
    <3> QED
      BY <1>18, <3>1, <3>3
  <2> QED
    BY <2>1, <2>2, <2>3
<1>25. e \in [Charts -> Entry]
  BY <1>13, <1>24
<1>26. lost' \in SUBSET Charts
  BY <1>1, <1>11
<1>27. cover' \in {"none", "help"} => \A x \in page \ lost' : Served(e[x], profile)
  <2>1. CASE cover = "help"
    BY <1>1, <1>11, <1>14, <2>1
  <2>2. CASE cover = "none"
    <3>1. desired = page
      BY <1>10, <2>2 DEF DesiredHistories
    <3>2. \A x \in page \ lost : Served(was[x], profile) /\ x \notin gone
      BY <1>2, <1>12, <2>2, <3>1 DEF ChartsInv
    <3>3. ASSUME Served(o, profile)
          PROVE  Served(f, profile)
      <4>1. CASE t.era # o.era
        BY <1>15, <1>30, <3>3, <4>1 DEF Served
      <4>2. CASE t.era = o.era
        BY <1>15, <1>22, <3>3, <4>2 DEF Served
      <4> QED
        BY <4>1, <4>2
    <3>4. \A x \in page \ lost : Served(e[x], profile)
      BY <1>1, <1>5, <1>13, <1>17, <3>2, <3>3
    <3> QED
      BY <1>11, <3>4
  <2>3. CASE cover \notin {"none", "help"}
    BY <1>1, <2>3
  <2> QED
    BY <2>1, <2>2, <2>3
<1>28. requests' = asked /\ requests' \in SUBSET Request /\ transforms' \in SUBSET Transform
  BY <1>1, <1>3, <1>20
<1>29. UNCHANGED <<page, profile, refreshes>> /\ cover' \in Covers /\ refresh' \in BOOLEAN
  BY <1>1
<1> QED
  BY <1>14, <1>20, <1>24, <1>25, <1>26, <1>27, <1>28, <1>29, EntriesSuffice

-----------------------------------------------------------------------------
(* What holds of every run.                                                *)

LEMMA ChartsInvInit == ChartsInit => ChartsInv
<1> SUFFICES ASSUME ChartsInit PROVE ChartsInv
  OBVIOUS
<1>1. entry \in [Charts -> Entry] /\ \A c \in Charts : entry[c] = Empty
  BY EmptyIsEntry DEF ChartsInit
<1>2. ChartsTypeOK
  <2>1. /\ page = {} /\ cover \in Covers /\ profile \in CurveProfiles
        /\ refresh \in BOOLEAN /\ lost = {}
    BY DEF ChartsInit, Covers, CurveProfiles
  <2>2. refreshes \in 0..MaxRefreshes
    BY Numbers DEF ChartsInit
  <2> QED
    BY <1>1, <2>1, <2>2 DEF ChartsTypeOK
<1>3. ~Empty.pending /\ ~Empty.updated /\ ~Empty.err /\ ~Empty.busy
      /\ Empty.derived = NoKey /\ Empty.revision = 0
      /\ NoKey.revision = 0 /\ NoKey.profile = "raw"
  BY DEF Empty, NoKey
<1>4. DerivedOK(Empty)
  BY <1>3 DEF DerivedOK
<1>5. \A c \in Charts : Whole(c, Empty, {}, {}, 0) /\ KeyOK(Empty, profile)
  BY <1>3, <1>4 DEF Whole, RefreshOK, RequestsOf, TransformsOf, KeyOK
<1> QED
  BY <1>1, <1>2, <1>5 DEF ChartsInit, ChartsInv

LEMMA ChartsInvNext == ChartsInv /\ [ChartsNext]_chartVars => ChartsInv'
<1> SUFFICES ASSUME ChartsInv, [ChartsNext]_chartVars PROVE ChartsInv'
  OBVIOUS
<1>1. CASE UNCHANGED chartVars
  <2>1. ChartsTypeOK'
    BY <1>1 DEF ChartsInv, ChartsTypeOK, chartVars
  <2> QED
    BY <1>1, <2>1 DEF ChartsInv, chartVars
<1>2. CASE ChartsNext
  BY <1>2, ShowChartsKeeps, ChangeProfileKeeps, OpenCoverKeeps, CloseCoverKeeps, LeaveTargetKeeps,
     RearrangeKeeps, ReturnToTargetKeeps, RefreshesKeep, AcceptInspectionRunsKeeps, AcceptMetricKeeps,
     AcceptMetricErrorKeeps, AcceptChartTransformKeeps
     DEF ChartsNext, RearrangeCharts, UncoverCharts
<1> QED
  BY <1>1, <1>2

LEMMA InvHolds == ChartsSpec => []ChartsInv
<1> QED
  BY ChartsInvInit, ChartsInvNext, PTL DEF ChartsSpec

(* The values of the cache, of what is asked for and of the screen.        *)
THEOREM ChartsTypeCorrect == ChartsSpec => []ChartsTypeOK
<1>1. ChartsInv => ChartsTypeOK
  BY DEF ChartsInv
<1> QED
  BY <1>1, InvHolds, PTL

(* A chart on screen is loaded, failed, or waits for an answer that will be*)
(* accepted (chart.go:130-178); what it shows was asked for after the last *)
(* refresh of its run, unless the user looked away from that; and a        *)
(* smoothed curve is that of the history under it.                         *)
THEOREM ChartsAreAlwaysServed == ChartsSpec => []ChartsAreServed
<1>1. ChartsInv => ChartsAreServed
  <2> SUFFICES ASSUME ChartsInv PROVE ChartsAreServed
    OBVIOUS
  <2>1. ASSUME NEW c \in DesiredHistories(page, cover) \ lost
        PROVE  /\ Served(entry[c], profile) /\ c \in Charts
               /\ Whole(c, entry[c], requests, transforms, refreshes)
    BY DEF DesiredHistories, ChartsInv, ChartsTypeOK
  <2>2. ShownIsServed
    BY <2>1 DEF ShownIsServed, Whole
  <2>3. RefreshIsSeen
    BY <2>1 DEF RefreshIsSeen, Served, Whole, RefreshOK
  <2>4. DerivedIsOfItsHistory
    BY DEF DerivedIsOfItsHistory, ChartsInv, Whole, DerivedOK
  <2> QED
    BY <2>2, <2>3, <2>4 DEF ChartsAreServed
<1> QED
  BY <1>1, InvHolds, PTL

-----------------------------------------------------------------------------
(* The previews of ArtifactPreview, for any limit, sizes and number of     *)
(* reads.                                                                  *)
(*                                                                         *)
(* A window has a generation of its own.  A read of that generation is what*)
(* it waits for, and was begun with the permission the window has; a pager *)
(* of that generation is the only one that nobody has cancelled, and is    *)
(* where the window says it is.                                            *)

ReadRecord == [gen : 1..MaxPreviews, allow : BOOLEAN, at : ReadPlaces, local : BOOLEAN,
               size : SUBSET Sizes, body : Sizes, truncated : BOOLEAN,
               document : PreviewDocument]
Pager == [id : 1..MaxPreviews, gen : 1..MaxPreviews, at : PagerPlaces, cancelled : BOOLEAN,
          file : BOOLEAN]
Window == [open : BOOLEAN, gen : 0..MaxPreviews, pending : BOOLEAN, approval : BOOLEAN,
           allow : BOOLEAN, read : BOOLEAN, document : PreviewDocument,
           pager : {"none", "preparing", "external"}]

HonestDocument(d, allow) ==
    /\ d.shown <= Limit
    /\ ~d.truncated => d.shown = d.whole
    /\ ~allow => ~d.truncated

WindowOK(w, n) ==
    /\ w.open => w.gen \in 1..n
    /\ w.pending \/ w.approval \/ w.read \/ w.pager # "none" => w.open
    /\ w.approval \/ w.pager # "none" => ~w.pending
    /\ w.pager # "none" => ~w.approval
    /\ w.read => HonestDocument(w.document, w.allow)

ReadOK(r, w, n) ==
    /\ r.gen <= n
    /\ r.at = "document" => HonestDocument(r.document, r.allow)
    /\ w.open /\ r.gen = w.gen => w.pending /\ (r.allow <=> w.allow)

InPlace(p, w) ==
    \/ w.pager = "preparing" /\ p.at \in {"preparing", "prepared", "failed"}
    \/ w.pager = "external" /\ p.at \in {"handed over", "running", "ended"}

PagerOK(p, w, n) ==
    /\ p.gen <= n
    /\ p.cancelled <=> ~(w.open /\ p.gen = w.gen)
    /\ ~p.cancelled => InPlace(p, w)
    /\ ~p.cancelled /\ p.at \in {"prepared", "handed over", "running"} => p.file
    /\ p.at = "running" => ~p.cancelled

Awaited(w, asked, begun) ==
    /\ w.pending => \E r \in asked : r.gen = w.gen
    /\ w.pager # "none" => \E p \in begun : ~p.cancelled

Single(asked, begun) ==
    /\ \A r, s \in asked : r.gen = s.gen => r = s
    /\ \A p, q \in begun : ~p.cancelled /\ ~q.cancelled => p = q

PreviewInv ==
    /\ artifact \in Sizes /\ previews \in 0..MaxPreviews /\ window \in Window
    /\ reads \subseteq ReadRecord /\ pagers \subseteq Pager
    /\ WindowOK(window, previews)
    /\ \A r \in reads : ReadOK(r, window, previews)
    /\ \A p \in pagers : PagerOK(p, window, previews)
    /\ Awaited(window, reads, pagers) /\ Single(reads, pagers)

LEMMA PreviewNumbers == Limit \in Nat /\ MaxSize \in Nat /\ MaxPreviews \in Nat
BY PreviewAssumption

-----------------------------------------------------------------------------
(* Reads.                                                                  *)

(* A read that goes on keeps its generation and its permission.            *)
LEMMA BecomeKeeps ==
  ASSUME PreviewInv, UNCHANGED <<artifact, window, pagers, previews>>,
         NEW r \in reads, NEW s \in ReadRecord, s.gen = r.gen, s.allow <=> r.allow,
         s.at = "document" => HonestDocument(s.document, s.allow), Become(r, s)
  PROVE  PreviewInv'
<1>1. reads' = (reads \ {r}) \cup {s} /\ reads' \subseteq ReadRecord
  BY DEF PreviewInv, Become
<1>2. PICK w \in Window : w = window
  BY DEF PreviewInv
<1>3. PICK n : n = previews
  OBVIOUS
<1>4. ReadOK(s, w, n)
  <2>1. ReadOK(r, w, n)
    BY <1>2, <1>3 DEF PreviewInv
  <2> QED
    BY <2>1 DEF ReadOK
<1>5. \A t \in reads' : ReadOK(t, w, n)
  BY <1>1, <1>2, <1>3, <1>4 DEF PreviewInv
<1>6. Awaited(w, reads', pagers)
  <2>1. Awaited(w, reads, pagers)
    BY <1>2 DEF PreviewInv
  <2> QED
    BY <1>1, <2>1 DEF Awaited
<1>7. Single(reads', pagers)
  <2>1. Single(reads, pagers)
    BY DEF PreviewInv
  <2> QED
    BY <1>1, <2>1 DEF Single
<1> QED
  BY <1>1, <1>2, <1>3, <1>5, <1>6, <1>7 DEF PreviewInv

LEMMA AnsweredOf ==
  ASSUME NEW r \in ReadRecord, NEW place \in ReadPlaces
  PROVE  /\ Answered(r, place) \in ReadRecord /\ Answered(r, place).gen = r.gen
         /\ Answered(r, place).allow = r.allow /\ Answered(r, place).at = place
<1>1. NoDocument \in PreviewDocument /\ 0 \in Sizes /\ UnknownSize \in SUBSET Sizes
      /\ "asked" \in ReadPlaces
  BY PreviewNumbers DEF NoDocument, PreviewDocument, Sizes, UnknownSize, ReadPlaces
<1> QED
  BY <1>1 DEF Answered, AskedFor, ReadRecord

LEMMA CheckedOf ==
  ASSUME NEW r \in ReadRecord, NEW size \in SUBSET Sizes, NEW place \in {"approved", "open"}
  PROVE  /\ Checked(r, size, place) \in ReadRecord /\ Checked(r, size, place).gen = r.gen
         /\ Checked(r, size, place).allow = r.allow
         /\ Checked(r, size, place).at # "document"
<1>1. "approval" \in ReadPlaces /\ place \in ReadPlaces
  BY DEF ReadPlaces
<1>2. CASE NeedsApproval(size, r.allow)
  <2>1. Checked(r, size, place) = Answered(r, "approval")
    BY <1>2 DEF Checked
  <2> QED
    BY <1>1, <2>1, AnsweredOf
<1>3. CASE ~NeedsApproval(size, r.allow)
  <2>1. Checked(r, size, place) = [r EXCEPT !.size = size, !.at = place]
    BY <1>3 DEF Checked
  <2> QED
    BY <1>1, <2>1 DEF ReadRecord
<1> QED
  BY <1>2, <1>3

LEMMA ResolveKeeps ==
  ASSUME PreviewInv, NEW r \in reads, Resolve(r)
  PROVE  PreviewInv'
<1>1. r \in ReadRecord /\ artifact \in Sizes
  BY DEF PreviewInv
<1>2. PICK local \in BOOLEAN :
        \E size \in {Known(artifact)} \cup IF local THEN {} ELSE {UnknownSize} :
          Become(r, Checked([r EXCEPT !.local = local], size, "approved"))
  BY DEF Resolve
<1>3. PICK size \in {Known(artifact)} \cup IF local THEN {} ELSE {UnknownSize} :
        Become(r, Checked([r EXCEPT !.local = local], size, "approved"))
  BY <1>2
<1>4. size \in SUBSET Sizes
  BY <1>1 DEF Known, UnknownSize
<1>5. PICK a : a = [r EXCEPT !.local = local]
  OBVIOUS
<1>6. a \in ReadRecord /\ a.gen = r.gen /\ a.allow = r.allow
  BY <1>1, <1>5 DEF ReadRecord
<1>7. PICK s : s = Checked(a, size, "approved")
  OBVIOUS
<1>8. s \in ReadRecord /\ s.gen = r.gen /\ (s.allow <=> r.allow) /\ s.at # "document"
  BY <1>4, <1>6, <1>7, CheckedOf
<1>9. Become(r, s) /\ UNCHANGED <<artifact, window, pagers, previews>>
  BY <1>3, <1>5, <1>7 DEF Resolve
<1> QED
  BY <1>8, <1>9, BecomeKeeps

LEMMA OpenArtifactKeeps ==
  ASSUME PreviewInv, NEW r \in reads, OpenArtifact(r)
  PROVE  PreviewInv'
<1>1. r \in ReadRecord /\ artifact \in Sizes
  BY DEF PreviewInv
<1>2. PICK b \in BOOLEAN : b <=> artifact > Limit + 1
  OBVIOUS
<1>3. PICK answered : answered = [r EXCEPT !.body = artifact]
  OBVIOUS
<1>4. PICK first : first = [answered EXCEPT !.truncated = b]
  OBVIOUS
<1>5. PICK part : part = [answered EXCEPT !.truncated = TRUE]
  OBVIOUS
<1>6. /\ answered \in ReadRecord /\ answered.gen = r.gen /\ answered.allow = r.allow
      /\ first \in ReadRecord /\ first.gen = r.gen /\ first.allow = r.allow
      /\ part \in ReadRecord /\ part.gen = r.gen /\ part.allow = r.allow
  <2>1. answered \in ReadRecord /\ answered.gen = r.gen /\ answered.allow = r.allow
    BY <1>1, <1>3 DEF ReadRecord
  <2>2. first \in ReadRecord /\ first.gen = r.gen /\ first.allow = r.allow
    BY <1>4, <2>1 DEF ReadRecord
  <2>3. part \in ReadRecord /\ part.gen = r.gen /\ part.allow = r.allow
    BY <1>5, <2>1 DEF ReadRecord
  <2> QED
    BY <2>1, <2>2, <2>3
<1>7. Known(artifact) \in SUBSET Sizes /\ UnknownSize \in SUBSET Sizes
      /\ r.size \in SUBSET Sizes
  BY <1>1 DEF Known, UnknownSize, ReadRecord
<1>8. \E a \in ReadRecord : \E size \in SUBSET Sizes :
        /\ a.gen = r.gen /\ a.allow = r.allow
        /\ Become(r, Checked(a, size, "open"))
  <2>1. \/ Become(r, Checked(answered, Known(artifact), "open"))
        \/ Become(r, Checked(answered, r.size, "open"))
        \/ Become(r, Checked(first, Known(artifact), "open"))
        \/ Become(r, Checked(part, UnknownSize, "open"))
    <3>1. (artifact > Limit + 1) = b
      BY <1>2
    <3> QED
      BY <1>3, <1>4, <1>5, <3>1 DEF OpenArtifact
  <2> QED
    BY <1>6, <1>7, <2>1
<1>9. PICK a \in ReadRecord : \E size \in SUBSET Sizes :
        /\ a.gen = r.gen /\ a.allow = r.allow
        /\ Become(r, Checked(a, size, "open"))
  BY <1>8
<1>10. PICK size \in SUBSET Sizes : /\ a.gen = r.gen /\ a.allow = r.allow
                                    /\ Become(r, Checked(a, size, "open"))
  BY <1>9
<1>11. PICK s : s = Checked(a, size, "open")
  OBVIOUS
<1>12. s \in ReadRecord /\ s.gen = r.gen /\ (s.allow <=> r.allow) /\ s.at # "document"
  BY <1>10, <1>11, CheckedOf
<1>13. Become(r, s) /\ UNCHANGED <<artifact, window, pagers, previews>>
  BY <1>10, <1>11 DEF OpenArtifact
<1> QED
  BY <1>12, <1>13, BecomeKeeps

(* One byte more than is shown tells whether there is more.                *)
LEMMA BytesReadTell ==
  ASSUME NEW whole \in Sizes
  PROVE  /\ BytesRead(whole) \in Nat
         /\ BytesRead(whole) <= Limit => BytesRead(whole) = whole
BY PreviewNumbers DEF BytesRead, Sizes

LEMMA ReadBodyKeeps ==
  ASSUME PreviewInv, NEW r \in reads, ReadBody(r)
  PROVE  PreviewInv'
<1>1. r \in ReadRecord /\ artifact \in Sizes
  BY DEF PreviewInv
<1>2. PICK whole : whole = IF r.local THEN artifact ELSE r.body
  OBVIOUS
<1>3. whole \in Sizes
  BY <1>1, <1>2 DEF ReadRecord
<1>4. PICK n \in Nat : n = BytesRead(whole)
  BY <1>3, BytesReadTell
<1>5. PICK b \in BOOLEAN : b <=> (r.truncated \/ n > Limit \/ \E x \in r.size : x > n)
  OBVIOUS
<1>6. PICK d : d = [shown |-> IF n < Limit THEN n ELSE Limit, whole |-> whole, truncated |-> b]
  OBVIOUS
<1>7. PICK s : s = IF b /\ ~r.allow THEN Answered(r, "approval")
                   ELSE [Answered(r, "document") EXCEPT !.document = d]
  OBVIOUS
<1>8. Become(r, s) /\ UNCHANGED <<artifact, window, pagers, previews>>
  <2>1. (r.truncated \/ n > Limit \/ \E x \in r.size : x > n) = b
    BY <1>5
  <2> QED
    BY <1>2, <1>4, <1>6, <1>7, <2>1 DEF ReadBody
<1>9. d \in PreviewDocument /\ d.shown <= Limit /\ (d.truncated <=> b) /\ (~b => d.shown = d.whole)
  <2>1. (IF n < Limit THEN n ELSE Limit) \in 0..Limit
    BY PreviewNumbers
  <2>2. ~b => n <= Limit
    BY <1>4, <1>5, PreviewNumbers
  <2>3. ~b => (IF n < Limit THEN n ELSE Limit) = whole
    BY <1>3, <1>4, <2>2, BytesReadTell, PreviewNumbers
  <2>4. d \in PreviewDocument
    BY <1>3, <1>6, <2>1 DEF PreviewDocument
  <2>5. d.shown <= Limit
    BY <1>6, <2>1, PreviewNumbers
  <2> QED
    BY <1>6, <2>3, <2>4, <2>5
<1>10. CASE b /\ ~r.allow
  <2>1. s = Answered(r, "approval") /\ "approval" \in ReadPlaces
    BY <1>7, <1>10 DEF ReadPlaces
  <2>2. s \in ReadRecord /\ s.gen = r.gen /\ (s.allow <=> r.allow) /\ s.at # "document"
    BY <1>1, <2>1, AnsweredOf
  <2> QED
    BY <1>8, <2>2, BecomeKeeps
<1>11. CASE ~(b /\ ~r.allow)
  <2>1. PICK a \in ReadRecord : a = Answered(r, "document") /\ a.gen = r.gen /\ a.allow = r.allow
    BY <1>1, AnsweredOf DEF ReadPlaces
  <2>2. s = [a EXCEPT !.document = d]
    BY <1>7, <1>11, <2>1
  <2>3. s \in ReadRecord /\ s.gen = r.gen /\ (s.allow <=> r.allow) /\ s.document = d
    BY <1>9, <2>1, <2>2 DEF ReadRecord
  <2>4. HonestDocument(s.document, s.allow)
    BY <1>9, <1>11, <2>3 DEF HonestDocument
  <2> QED
    BY <1>8, <2>3, <2>4, BecomeKeeps
<1> QED
  BY <1>10, <1>11

LEMMA FailReadKeeps ==
  ASSUME PreviewInv, NEW r \in reads, FailRead(r)
  PROVE  PreviewInv'
<1>1. PICK s : s = Answered(r, "error")
  OBVIOUS
<1>2. s \in ReadRecord /\ s.gen = r.gen /\ (s.allow <=> r.allow) /\ s.at # "document"
  BY <1>1, AnsweredOf DEF PreviewInv, ReadPlaces
<1> QED
  BY <1>1, <1>2, BecomeKeeps DEF FailRead

-----------------------------------------------------------------------------
(* The window.                                                             *)

(* Nobody is cancelled but those whose window is gone.                     *)
LEMMA NobodyElse ==
  ASSUME PreviewInv, window.pager = "none"
  PROVE  \A p \in pagers : p.cancelled
BY DEF PreviewInv, PagerOK, InPlace

(* A read is begun, in a window without a pager.                           *)
LEMMA ReadKeeps ==
  ASSUME PreviewInv, Listening, UNCHANGED <<artifact, pagers>>, window.pager = "none",
         NEW w \in Window, w.open, w.pager = "none",
         w.read => HonestDocument(w.document, w.allow), Read(w)
  PROVE  PreviewInv'
<1>1. PICK n \in 0..MaxPreviews : n = previews
  BY DEF PreviewInv
<1>2. n + 1 \in 1..MaxPreviews /\ previews' = n + 1
  BY <1>1, PreviewNumbers DEF Listening, Read
<1>3. PICK v : v = [w EXCEPT !.gen = n + 1, !.pending = TRUE, !.approval = FALSE]
  OBVIOUS
<1>4. window' = v
  BY <1>2, <1>3 DEF Read
<1>5. /\ v.open /\ v.gen = n + 1 /\ v.pending /\ ~v.approval /\ v.allow = w.allow
      /\ v.read = w.read /\ v.document = w.document /\ v.pager = "none"
  BY <1>3 DEF Window
<1>6. v \in Window
  <2>1. n + 1 \in 0..MaxPreviews
    BY <1>2, PreviewNumbers
  <2> QED
    BY <1>3, <2>1 DEF Window
<1>7. PICK s : s = AskedFor(n + 1, w.allow)
  OBVIOUS
<1>8. reads' = reads \cup {s}
  BY <1>2, <1>7 DEF Read
<1>9. s.gen = n + 1 /\ s.allow = w.allow /\ s.at = "asked"
  BY <1>7 DEF AskedFor
<1>10. s \in ReadRecord
  <2>1. NoDocument \in PreviewDocument /\ 0 \in Sizes /\ UnknownSize \in SUBSET Sizes
        /\ "asked" \in ReadPlaces /\ w.allow \in BOOLEAN
    BY PreviewNumbers DEF NoDocument, PreviewDocument, Sizes, UnknownSize, ReadPlaces, Window
  <2> QED
    BY <1>2, <1>7, <2>1 DEF AskedFor, ReadRecord
<1>11. WindowOK(v, n + 1)
  BY <1>1, <1>5 DEF WindowOK
<1>12. \A r \in reads : r \in ReadRecord /\ r.gen \in Nat /\ ReadOK(r, window, n) /\ r.gen <= n
  BY <1>1 DEF PreviewInv, ReadRecord, ReadOK
<1>13. \A r \in reads' : ReadOK(r, v, n + 1)
  <2>1. ReadOK(s, v, n + 1)
    BY <1>1, <1>5, <1>9 DEF ReadOK
  <2>2. ASSUME NEW r \in reads
        PROVE  ReadOK(r, v, n + 1)
    <3>1. r.gen <= n + 1 /\ r.gen # v.gen
      BY <1>1, <1>5, <1>12
    <3> QED
      BY <1>12, <3>1 DEF ReadOK
  <2> QED
    BY <1>8, <2>1, <2>2
<1>14. \A p \in pagers : p.cancelled /\ p \in Pager /\ PagerOK(p, window, n)
  BY <1>1, NobodyElse DEF PreviewInv
<1>15. \A p \in pagers : PagerOK(p, v, n + 1)
  <2> SUFFICES ASSUME NEW p \in pagers PROVE PagerOK(p, v, n + 1)
    OBVIOUS
  <2>0. p.gen \in Nat
    BY <1>14 DEF Pager
  <2>1. p.gen <= n /\ p.cancelled /\ p.at # "running" /\ p.gen \in Nat
    BY <1>14, <2>0 DEF PagerOK
  <2>2. p.gen <= n + 1 /\ p.gen # v.gen
    BY <1>1, <1>5, <2>1
  <2> QED
    BY <2>1, <2>2 DEF PagerOK
<1>16. Awaited(v, reads', pagers)
  BY <1>5, <1>8, <1>9 DEF Awaited
<1>17. Single(reads', pagers)
  <2>1. \A r \in reads : r.gen # s.gen
    BY <1>1, <1>9, <1>12
  <2>2. Single(reads, pagers)
    BY DEF PreviewInv
  <2> QED
    BY <1>8, <2>1, <2>2 DEF Single
<1>18. /\ artifact' \in Sizes /\ previews' \in 0..MaxPreviews /\ window' \in Window
       /\ reads' \subseteq ReadRecord /\ pagers' = pagers /\ pagers' \subseteq Pager
  BY <1>2, <1>4, <1>6, <1>8, <1>10, PreviewNumbers DEF PreviewInv
<1> QED
  BY <1>2, <1>4, <1>11, <1>13, <1>15, <1>16, <1>17, <1>18 DEF PreviewInv

LEMMA ClosedIsWindow ==
  /\ ClosedWindow \in Window /\ ~ClosedWindow.open /\ ~ClosedWindow.pending
  /\ ~ClosedWindow.approval /\ ~ClosedWindow.read /\ ClosedWindow.pager = "none"
<1>1. NoDocument \in PreviewDocument /\ 0 \in 0..MaxPreviews
  BY PreviewNumbers DEF NoDocument, PreviewDocument, Sizes
<1> QED
  BY <1>1 DEF ClosedWindow, Window

LEMMA OpenPreviewKeeps ==
  ASSUME PreviewInv, OpenPreview
  PROVE  PreviewInv'
<1>1. PICK w : w = [ClosedWindow EXCEPT !.open = TRUE]
  OBVIOUS
<1>2. w \in Window /\ w.open /\ w.pager = "none" /\ ~w.read
  BY <1>1, ClosedIsWindow DEF Window
<1>3. window.pager = "none"
  BY DEF PreviewInv, WindowOK, OpenPreview
<1>4. Listening /\ UNCHANGED <<artifact, pagers>> /\ Read(w)
  BY <1>1 DEF OpenPreview
<1> QED
  BY <1>2, <1>3, <1>4, ReadKeeps

LEMMA ConfirmPreviewKeeps ==
  ASSUME PreviewInv, ConfirmPreview
  PROVE  PreviewInv'
<1>1. PICK old \in Window : old = window
  BY DEF PreviewInv
<1>2. PICK w : w = [old EXCEPT !.allow = TRUE]
  OBVIOUS
<1>3. WindowOK(old, previews) /\ old.approval
  BY <1>1 DEF PreviewInv, ConfirmPreview
<1>4. w \in Window /\ w.open = old.open /\ w.pager = old.pager /\ w.read = old.read
      /\ w.allow /\ w.document = old.document
  BY <1>2 DEF Window
<1>5. w.open /\ w.pager = "none" /\ window.pager = "none"
  BY <1>1, <1>3, <1>4 DEF WindowOK
<1>6. w.read => HonestDocument(w.document, w.allow)
  BY <1>3, <1>4 DEF WindowOK, HonestDocument
<1>7. Listening /\ UNCHANGED <<artifact, pagers>> /\ Read(w)
  BY <1>1, <1>2 DEF ConfirmPreview
<1> QED
  BY <1>4, <1>5, <1>6, <1>7, ReadKeeps

LEMMA RefreshPreviewKeeps ==
  ASSUME PreviewInv, RefreshPreview
  PROVE  PreviewInv'
<1>1. PICK w \in Window : w = window
  BY DEF PreviewInv
<1>2. w.open /\ w.pager = "none" /\ window.pager = "none"
  BY <1>1 DEF RefreshPreview, MayRefresh
<1>3. w.read => HonestDocument(w.document, w.allow)
  BY <1>1 DEF PreviewInv, WindowOK
<1>4. Listening /\ UNCHANGED <<artifact, pagers>> /\ Read(w)
  BY <1>1 DEF RefreshPreview
<1> QED
  BY <1>2, <1>3, <1>4, ReadKeeps

(* All pagers that there are, cancelled.                                   *)
LEMMA StoppedOf ==
  ASSUME PreviewInv
  PROVE  /\ Stopped \subseteq Pager
         /\ \A q \in Stopped : /\ q.cancelled
                               /\ \E p \in pagers : q.gen = p.gen /\ q.at = p.at
<1> SUFFICES ASSUME NEW q \in Stopped
             PROVE  /\ q \in Pager /\ q.cancelled
                    /\ \E p \in pagers : q.gen = p.gen /\ q.at = p.at
  OBVIOUS
<1>1. PICK p \in pagers : q = [p EXCEPT !.cancelled = TRUE]
  BY DEF Stopped
<1>2. p \in Pager
  BY DEF PreviewInv
<1> QED
  BY <1>1, <1>2 DEF Pager

LEMMA StopPreviewKeeps ==
  ASSUME PreviewInv, StopPreview
  PROVE  PreviewInv'
<1>1. /\ window' = ClosedWindow /\ pagers' = Stopped /\ UNCHANGED <<artifact, reads, previews>>
      /\ \A p \in pagers : p.at # "running"
  BY DEF StopPreview, Listening
<1>2. PICK n : n = previews
  OBVIOUS
<1>3. PICK v \in Window : /\ v = ClosedWindow /\ ~v.open /\ ~v.pending /\ ~v.approval
                          /\ ~v.read /\ v.pager = "none"
  BY ClosedIsWindow
<1>4. WindowOK(v, n)
  BY <1>3 DEF WindowOK
<1>5. \A r \in reads : ReadOK(r, v, n)
  BY <1>2, <1>3 DEF PreviewInv, ReadOK
<1>6. ASSUME NEW q \in Stopped
      PROVE  PagerOK(q, v, n)
  <2>1. PICK p \in pagers : q.gen = p.gen /\ q.at = p.at
    BY StoppedOf
  <2>2. p.gen <= n
    BY <1>2 DEF PreviewInv, PagerOK
  <2>3. q.cancelled
    BY StoppedOf
  <2> QED
    BY <1>1, <1>3, <2>1, <2>2, <2>3 DEF PagerOK
<1>7. Awaited(v, reads, Stopped)
  BY <1>3 DEF Awaited
<1>8. Single(reads, Stopped)
  BY StoppedOf DEF PreviewInv, Single
<1>9. Stopped \subseteq Pager
  BY StoppedOf
<1>10. /\ artifact' \in Sizes /\ previews' \in 0..MaxPreviews /\ window' = v
       /\ reads' = reads /\ pagers' = Stopped /\ previews' = n
       /\ reads \subseteq ReadRecord
  BY <1>1, <1>2, <1>3 DEF PreviewInv
<1> QED
  BY <1>3, <1>4, <1>5, <1>6, <1>7, <1>8, <1>9, <1>10 DEF PreviewInv

(* The answer of a read that the window no longer waits for is left alone. *)
LEMMA AcceptPreviewKeeps ==
  ASSUME PreviewInv, NEW r \in reads, AcceptPreview(r)
  PROVE  PreviewInv'
<1>1. /\ r.at \in {"document", "approval", "error"} /\ reads' = reads \ {r}
      /\ UNCHANGED <<artifact, pagers, previews>>
      /\ r \in ReadRecord /\ reads \subseteq ReadRecord
  BY DEF PreviewInv, AcceptPreview
<1>2. PICK w \in Window : w = window
  BY DEF PreviewInv
<1>3. PICK n : n = previews
  OBVIOUS
<1>4. /\ WindowOK(w, n) /\ ReadOK(r, w, n)
      /\ \A s \in reads : ReadOK(s, w, n)
      /\ \A p \in pagers : PagerOK(p, w, n)
      /\ Awaited(w, reads, pagers) /\ Single(reads, pagers)
  BY <1>2, <1>3 DEF PreviewInv
<1>5. Single(reads', pagers)
  BY <1>1, <1>4 DEF Single
<1>6. CASE ~w.open \/ w.gen # r.gen
  <2>1. window' = w
    BY <1>2, <1>6 DEF AcceptPreview
  <2>2. w.pending => w.open
    BY <1>4 DEF WindowOK
  <2>3. Awaited(w, reads', pagers)
    BY <1>1, <1>4, <1>6, <2>2 DEF Awaited
  <2>4. \A s \in reads' : ReadOK(s, w, n)
    BY <1>1, <1>4
  <2> QED
    BY <1>1, <1>2, <1>3, <1>4, <1>5, <2>1, <2>3, <2>4 DEF PreviewInv
<1>7. CASE w.open /\ w.gen = r.gen
  <2>1. w.pending /\ (r.allow <=> w.allow)
    BY <1>4, <1>7 DEF ReadOK
  <2>2. w.pager = "none" /\ ~w.approval
    BY <1>4, <2>1 DEF WindowOK
  <2>3. PICK v : v = CASE r.at = "document" -> [w EXCEPT !.pending = FALSE, !.read = TRUE,
                                                         !.document = r.document]
                       [] r.at = "approval" -> [w EXCEPT !.pending = FALSE, !.approval = TRUE]
                       [] OTHER -> [w EXCEPT !.pending = FALSE]
    OBVIOUS
  <2>4. window' = v
    BY <1>2, <1>7, <2>3 DEF AcceptPreview
  <2>5. /\ v \in Window /\ v.open = w.open /\ v.gen = w.gen /\ ~v.pending /\ v.allow = w.allow
        /\ v.pager = "none"
        /\ v.read => HonestDocument(v.document, v.allow)
    <3>1. r.document \in PreviewDocument
      BY <1>1 DEF ReadRecord
    <3>2. w.read => HonestDocument(w.document, w.allow)
      BY <1>4 DEF WindowOK
    <3>3. CASE r.at = "document"
      <4>1. v = [w EXCEPT !.pending = FALSE, !.read = TRUE, !.document = r.document]
        BY <2>3, <3>3
      <4>2. /\ v \in Window /\ v.open = w.open /\ v.gen = w.gen /\ ~v.pending
            /\ v.allow = w.allow /\ v.pager = w.pager /\ v.document = r.document
        BY <3>1, <4>1 DEF Window
      <4>3. HonestDocument(r.document, r.allow)
        BY <1>4, <3>3 DEF ReadOK
      <4>4. HonestDocument(v.document, v.allow)
        BY <2>1, <4>2, <4>3 DEF HonestDocument
      <4> QED
        BY <2>2, <4>2, <4>4
    <3>4. CASE r.at = "approval"
      <4>1. v = [w EXCEPT !.pending = FALSE, !.approval = TRUE]
        BY <2>3, <3>4
      <4>2. /\ v \in Window /\ v.open = w.open /\ v.gen = w.gen /\ ~v.pending
            /\ v.allow = w.allow /\ v.pager = w.pager /\ v.document = w.document
            /\ v.read = w.read
        BY <4>1 DEF Window
      <4> QED
        BY <2>2, <3>2, <4>2
    <3>5. CASE r.at = "error"
      <4>1. v = [w EXCEPT !.pending = FALSE]
        BY <2>3, <3>5
      <4>2. /\ v \in Window /\ v.open = w.open /\ v.gen = w.gen /\ ~v.pending
            /\ v.allow = w.allow /\ v.pager = w.pager /\ v.document = w.document
            /\ v.read = w.read
        BY <4>1 DEF Window
      <4> QED
        BY <2>2, <3>2, <4>2
    <3> QED
      BY <1>1, <3>3, <3>4, <3>5
  <2>6. WindowOK(v, n)
    BY <1>4, <1>7, <2>5 DEF WindowOK
  <2>7. \A s \in reads' : ReadOK(s, v, n)
    <3> SUFFICES ASSUME NEW s \in reads' PROVE ReadOK(s, v, n)
      OBVIOUS
    <3>1. s \in reads /\ s # r
      BY <1>1
    <3>2. s.gen # r.gen
      BY <1>4, <3>1 DEF Single
    <3> QED
      BY <1>4, <1>7, <2>5, <3>1, <3>2 DEF ReadOK
  <2>8. \A p \in pagers : PagerOK(p, v, n)
    <3>1. \A p \in pagers : p.cancelled
      BY <1>2, <2>2, NobodyElse
    <3> QED
      BY <1>4, <2>5, <3>1 DEF PagerOK
  <2>9. Awaited(v, reads', pagers)
    BY <2>5 DEF Awaited
  <2>10. v \in Window
    BY <2>5
  <2> QED
    BY <1>1, <1>3, <1>5, <2>4, <2>6, <2>7, <2>8, <2>9, <2>10 DEF PreviewInv
<1> QED
  BY <1>6, <1>7

-----------------------------------------------------------------------------
(* Pagers.                                                                 *)

(* Of the window, nothing but the place of its pager.                      *)
OnlyPager(w, old) ==
    /\ w.open = old.open /\ w.gen = old.gen /\ w.pending = old.pending
    /\ w.approval = old.approval /\ w.allow = old.allow /\ w.read = old.read
    /\ w.document = old.document

LEMMA PagersSuffice ==
  ASSUME PreviewInv, UNCHANGED <<artifact, reads, previews>>,
         NEW w \in Window, window' = w, OnlyPager(w, window),
         w.pager # "none" => window.pager # "none",
         NEW now \in SUBSET Pager, pagers' = now,
         \A p \in now : PagerOK(p, w, previews),
         w.pager # "none" => \E p \in now : ~p.cancelled,
         \A p, q \in now : ~p.cancelled /\ ~q.cancelled => p = q
  PROVE  PreviewInv'
<1>1. PICK old \in Window : old = window
  BY DEF PreviewInv
<1>2. PICK n : n = previews
  OBVIOUS
<1>3. OnlyPager(w, old) /\ (w.pager # "none" => old.pager # "none")
  BY <1>1
<1>4. /\ WindowOK(old, n) /\ Awaited(old, reads, pagers) /\ Single(reads, pagers)
      /\ \A r \in reads : ReadOK(r, old, n)
  BY <1>1, <1>2 DEF PreviewInv
<1>5. WindowOK(w, n)
  BY <1>3, <1>4 DEF WindowOK, OnlyPager
<1>6. \A r \in reads : ReadOK(r, w, n)
  BY <1>3, <1>4 DEF ReadOK, OnlyPager
<1>7. Awaited(w, reads, now)
  BY <1>3, <1>4 DEF Awaited, OnlyPager
<1>8. Single(reads, now)
  BY <1>4 DEF Single
<1>9. /\ artifact' \in Sizes /\ previews' \in 0..MaxPreviews /\ previews' = n
      /\ reads' = reads /\ reads \subseteq ReadRecord
  BY <1>2 DEF PreviewInv
<1> QED
  BY <1>2, <1>5, <1>6, <1>7, <1>8, <1>9 DEF PreviewInv

(* A pager that goes on, in a window that stays.                           *)
LEMMA TurnKeeps ==
  ASSUME PreviewInv, UNCHANGED <<artifact, window, reads, previews>>,
         NEW p \in pagers, NEW q \in Pager, q.cancelled <=> p.cancelled,
         PagerOK(q, window, previews), Turn(p, q)
  PROVE  PreviewInv'
<1>1. PICK w \in Window : w = window
  BY DEF PreviewInv
<1>2. PICK now \in SUBSET Pager : now = (pagers \ {p}) \cup {q}
  BY DEF PreviewInv
<1>3. pagers' = now /\ window' = w
  BY <1>1, <1>2 DEF Turn
<1>4. /\ Awaited(w, reads, pagers) /\ Single(reads, pagers)
      /\ \A x \in pagers : PagerOK(x, w, previews)
  BY <1>1 DEF PreviewInv
<1>5. \A x \in now : PagerOK(x, w, previews)
  BY <1>1, <1>2, <1>4
<1>6. w.pager # "none" => \E x \in now : ~x.cancelled
  BY <1>2, <1>4 DEF Awaited
<1>7. \A x, y \in now : ~x.cancelled /\ ~y.cancelled => x = y
  BY <1>2, <1>4 DEF Single
<1>8. OnlyPager(w, window) /\ (w.pager # "none" => window.pager # "none")
  BY <1>1 DEF OnlyPager
<1> QED
  BY <1>3, <1>5, <1>6, <1>7, <1>8, PagersSuffice

(* One that was cancelled goes.                                            *)
LEMMA GoneKeeps ==
  ASSUME PreviewInv, UNCHANGED <<artifact, window, reads, previews>>,
         NEW p \in pagers, p.cancelled, pagers' = pagers \ {p}
  PROVE  PreviewInv'
<1>1. PICK w \in Window : w = window
  BY DEF PreviewInv
<1>2. PICK now \in SUBSET Pager : now = pagers \ {p}
  BY DEF PreviewInv
<1>3. pagers' = now /\ window' = w
  BY <1>1, <1>2
<1>4. /\ Awaited(w, reads, pagers) /\ Single(reads, pagers)
      /\ \A x \in pagers : PagerOK(x, w, previews)
  BY <1>1 DEF PreviewInv
<1>5. \A x \in now : PagerOK(x, w, previews)
  BY <1>2, <1>4
<1>6. w.pager # "none" => \E x \in now : ~x.cancelled
  BY <1>2, <1>4 DEF Awaited
<1>7. \A x, y \in now : ~x.cancelled /\ ~y.cancelled => x = y
  BY <1>2, <1>4 DEF Single
<1>8. OnlyPager(w, window) /\ (w.pager # "none" => window.pager # "none")
  BY <1>1 DEF OnlyPager
<1> QED
  BY <1>3, <1>5, <1>6, <1>7, <1>8, PagersSuffice

(* The window's own one ends, and the window waits for none.               *)
LEMMA OwnGoneKeeps ==
  ASSUME PreviewInv, UNCHANGED <<artifact, reads, previews>>,
         NEW p \in pagers, ~p.cancelled, pagers' = pagers \ {p},
         window' = [window EXCEPT !.pager = "none"]
  PROVE  PreviewInv'
<1>1. PICK old \in Window : old = window
  BY DEF PreviewInv
<1>2. PICK now \in SUBSET Pager : now = pagers \ {p}
  BY DEF PreviewInv
<1>3. PICK w : w = [old EXCEPT !.pager = "none"]
  OBVIOUS
<1>4. w \in Window /\ OnlyPager(w, old) /\ w.pager = "none"
  BY <1>3 DEF Window, OnlyPager
<1>5. /\ Single(reads, pagers) /\ \A x \in pagers : PagerOK(x, old, previews)
  BY <1>1 DEF PreviewInv
<1>6. \A x \in now : x.cancelled
  BY <1>2, <1>5 DEF Single
<1>7. \A x \in now : PagerOK(x, w, previews)
  BY <1>2, <1>4, <1>5, <1>6 DEF PagerOK, OnlyPager
<1>8. window' = w /\ OnlyPager(w, window)
  BY <1>1, <1>3, <1>4
<1> QED
  BY <1>2, <1>4, <1>6, <1>7, <1>8, PagersSuffice

LEMMA OpenPagerKeeps ==
  ASSUME PreviewInv, OpenPager
  PROVE  PreviewInv'
<1>1. PICK old \in Window : old = window
  BY DEF PreviewInv
<1>2. PICK n \in 0..MaxPreviews : n = previews
  BY DEF PreviewInv
<1>3. /\ n + 1 \in 1..MaxPreviews /\ previews' = n + 1 /\ UNCHANGED <<artifact, reads>>
      /\ old.open /\ ~old.approval /\ ~old.pending /\ old.pager = "none"
      /\ \A p \in pagers : p.at # "running"
  BY <1>1, <1>2, PreviewNumbers DEF OpenPager, Listening
<1>4. PICK w : w = [old EXCEPT !.pager = "preparing"]
  OBVIOUS
<1>5. w \in Window /\ OnlyPager(w, old) /\ w.pager = "preparing" /\ window' = w
  BY <1>1, <1>4 DEF Window, OnlyPager, OpenPager
<1>6. /\ WindowOK(old, n) /\ \A r \in reads : ReadOK(r, old, n)
      /\ \A p \in pagers : PagerOK(p, old, n) /\ p \in Pager
      /\ Single(reads, pagers)
  BY <1>1, <1>2 DEF PreviewInv
<1>7. old.gen \in 1..n /\ old.gen \in 1..MaxPreviews
  BY <1>2, <1>3, <1>6, PreviewNumbers DEF WindowOK
<1>8. PICK q : q = [id |-> n + 1, gen |-> old.gen, at |-> "preparing", cancelled |-> FALSE,
                    file |-> FALSE]
  OBVIOUS
<1>9. pagers' = Stopped \cup {q}
  BY <1>1, <1>2, <1>3, <1>8 DEF OpenPager
<1>10. q \in Pager /\ q.gen = old.gen /\ q.at = "preparing" /\ ~q.cancelled
  BY <1>3, <1>7, <1>8 DEF Pager, PagerPlaces
<1>11. WindowOK(w, n + 1)
  <2>1. w.gen \in 1..(n + 1)
    BY <1>2, <1>5, <1>7 DEF OnlyPager
  <2> QED
    BY <1>3, <1>5, <1>6, <2>1 DEF WindowOK, OnlyPager
<1>12. \A r \in reads : ReadOK(r, w, n + 1)
  <2> SUFFICES ASSUME NEW r \in reads PROVE ReadOK(r, w, n + 1)
    OBVIOUS
  <2>1. r.gen \in Nat
    BY DEF PreviewInv, ReadRecord
  <2>2. r.gen <= n + 1
    BY <1>2, <1>6, <2>1 DEF ReadOK
  <2> QED
    BY <1>5, <1>6, <2>2 DEF ReadOK, OnlyPager
<1>13. \A p \in pagers : p.cancelled
  BY <1>1, <1>3, NobodyElse
<1>14. \A p \in pagers' : PagerOK(p, w, n + 1)
  <2>1. PagerOK(q, w, n + 1)
    <3>1. q.gen <= n + 1
      BY <1>2, <1>7, <1>10
    <3> QED
      BY <1>3, <1>5, <1>10, <3>1 DEF PagerOK, InPlace, OnlyPager
  <2>2. ASSUME NEW s \in Stopped
        PROVE  PagerOK(s, w, n + 1)
    <3>1. PICK p \in pagers : s.gen = p.gen /\ s.at = p.at
      BY StoppedOf
    <3>2. p.gen <= n /\ p.gen \in Nat /\ p.gen # old.gen
      <4>1. p.gen \in Nat
        BY <1>6 DEF Pager
      <4> QED
        BY <1>3, <1>6, <1>13, <4>1 DEF PagerOK
    <3>3. s.cancelled /\ s.at # "running" /\ s.gen <= n + 1 /\ s.gen # w.gen
      BY <1>2, <1>3, <1>5, <3>1, <3>2, StoppedOf DEF OnlyPager
    <3> QED
      BY <3>3 DEF PagerOK
  <2> QED
    BY <1>9, <2>1, <2>2
<1>15. Awaited(w, reads, pagers')
  BY <1>3, <1>5, <1>9, <1>10 DEF Awaited, OnlyPager
<1>16. Single(reads, pagers')
  BY <1>6, <1>9, StoppedOf DEF Single
<1>17. /\ artifact' \in Sizes /\ previews' \in 0..MaxPreviews /\ previews' = n + 1
       /\ reads' = reads /\ reads \subseteq ReadRecord /\ pagers' \subseteq Pager
  BY <1>3, <1>9, <1>10, PreviewNumbers, StoppedOf DEF PreviewInv
<1> QED
  BY <1>5, <1>11, <1>12, <1>14, <1>15, <1>16, <1>17 DEF PreviewInv

LEMMA PreparePagerKeeps ==
  ASSUME PreviewInv, NEW p \in pagers, PreparePager(p)
  PROVE  PreviewInv'
<1>1. /\ p \in Pager /\ PagerOK(p, window, previews) /\ p.at = "preparing"
      /\ UNCHANGED <<artifact, window, reads, previews>>
  BY DEF PreviewInv, PreparePager
<1>2. \E q \in Pager : /\ q.gen = p.gen /\ (q.cancelled <=> p.cancelled) /\ Turn(p, q)
                       /\ q.at \in {"prepared", "failed"}
                       /\ q.at = "prepared" => q.file
  <2>1. CASE Turn(p, [p EXCEPT !.at = "failed"])
    <3>1. PICK q : q = [p EXCEPT !.at = "failed"]
      OBVIOUS
    <3>2. q \in Pager /\ q.gen = p.gen /\ q.cancelled = p.cancelled /\ q.at = "failed"
      BY <1>1, <3>1 DEF Pager, PagerPlaces
    <3> QED
      BY <2>1, <3>1, <3>2
  <2>2. CASE Turn(p, [p EXCEPT !.at = "prepared", !.file = TRUE])
    <3>1. PICK q : q = [p EXCEPT !.at = "prepared", !.file = TRUE]
      OBVIOUS
    <3>2. q \in Pager /\ q.gen = p.gen /\ q.cancelled = p.cancelled /\ q.at = "prepared" /\ q.file
      BY <1>1, <3>1 DEF Pager, PagerPlaces
    <3> QED
      BY <2>2, <3>1, <3>2
  <2> QED
    BY <2>1, <2>2 DEF PreparePager
<1>3. PICK q \in Pager : /\ q.gen = p.gen /\ (q.cancelled <=> p.cancelled) /\ Turn(p, q)
                         /\ q.at \in {"prepared", "failed"}
                         /\ q.at = "prepared" => q.file
  BY <1>2
<1>4. PagerOK(q, window, previews)
  BY <1>1, <1>3 DEF PagerOK, InPlace
<1> QED
  BY <1>1, <1>3, <1>4, TurnKeeps

LEMMA CleanUpPagerKeeps ==
  ASSUME PreviewInv, NEW p \in pagers, CleanUpPager(p)
  PROVE  PreviewInv'
<1>1. /\ p \in Pager /\ PagerOK(p, window, previews)
      /\ UNCHANGED <<artifact, window, reads, previews>>
  BY DEF PreviewInv, CleanUpPager
<1>2. CASE p.at = "dropped" /\ pagers' = pagers \ {p}
  <2>1. p.cancelled
    BY <1>1, <1>2 DEF PagerOK, InPlace
  <2> QED
    BY <1>1, <1>2, <2>1, GoneKeeps
<1>3. CASE p.cancelled /\ Turn(p, [p EXCEPT !.file = FALSE])
  <2>1. PICK q : q = [p EXCEPT !.file = FALSE]
    OBVIOUS
  <2>2. q \in Pager /\ q.gen = p.gen /\ q.cancelled = p.cancelled /\ q.at = p.at
    BY <1>1, <2>1 DEF Pager
  <2>3. PagerOK(q, window, previews)
    BY <1>1, <1>3, <2>2 DEF PagerOK
  <2>4. Turn(p, q) /\ (q.cancelled <=> p.cancelled)
    BY <1>3, <2>1, <2>2
  <2> QED
    BY <1>1, <2>2, <2>3, <2>4, TurnKeeps
<1> QED
  BY <1>2, <1>3 DEF CleanUpPager

LEMMA AcceptPagerKeeps ==
  ASSUME PreviewInv, NEW p \in pagers, AcceptPager(p)
  PROVE  PreviewInv'
<1>1. /\ p \in Pager /\ PagerOK(p, window, previews) /\ p.at \in {"prepared", "failed"}
      /\ UNCHANGED <<artifact, reads, previews>>
  BY DEF PreviewInv, AcceptPager
<1>2. p.cancelled <=> ~(window.open /\ window.gen = p.gen)
  BY <1>1 DEF PagerOK
<1>3. CASE p.cancelled
  <2>1. window' = window
    BY <1>2, <1>3 DEF AcceptPager
  <2>2. CASE ~p.file
    <3>1. pagers' = pagers \ {p}
      BY <1>2, <1>3, <2>2 DEF AcceptPager
    <3> QED
      BY <1>1, <1>3, <2>1, <3>1, GoneKeeps
  <2>3. CASE p.file
    <3>1. PICK q : q = [p EXCEPT !.at = "dropped"]
      OBVIOUS
    <3>2. q \in Pager /\ q.gen = p.gen /\ q.cancelled = p.cancelled /\ q.at = "dropped"
      BY <1>1, <3>1 DEF Pager, PagerPlaces
    <3>3. Turn(p, q) /\ (q.cancelled <=> p.cancelled)
      BY <1>2, <1>3, <2>3, <3>1, <3>2 DEF AcceptPager
    <3>4. PagerOK(q, window, previews)
      BY <1>1, <1>3, <3>2 DEF PagerOK
    <3> QED
      BY <1>1, <2>1, <3>2, <3>3, <3>4, TurnKeeps
  <2> QED
    BY <2>2, <2>3
<1>4. CASE ~p.cancelled /\ p.at = "failed"
  <2>1. window' = [window EXCEPT !.pager = "none"] /\ pagers' = pagers \ {p}
    BY <1>2, <1>4 DEF AcceptPager
  <2> QED
    BY <1>1, <1>4, <2>1, OwnGoneKeeps
<1>5. CASE ~p.cancelled /\ p.at = "prepared"
  <2>1. PICK old \in Window : old = window
    BY DEF PreviewInv
  <2>2. PICK w : w = [old EXCEPT !.pager = "external"]
    OBVIOUS
  <2>3. w \in Window /\ OnlyPager(w, old) /\ w.pager = "external"
    BY <2>2 DEF Window, OnlyPager
  <2>4. PICK q : q = [p EXCEPT !.at = "handed over"]
    OBVIOUS
  <2>5. /\ q \in Pager /\ q.gen = p.gen /\ q.cancelled = p.cancelled /\ q.at = "handed over"
        /\ q.file = p.file
    BY <1>1, <2>4 DEF Pager, PagerPlaces
  <2>6. PICK now \in SUBSET Pager : now = (pagers \ {p}) \cup {q}
    BY <2>5 DEF PreviewInv
  <2>7. pagers' = now /\ window' = w /\ OnlyPager(w, window)
    BY <1>2, <1>5, <2>1, <2>2, <2>3, <2>4, <2>6 DEF AcceptPager, Turn
  <2>8. /\ Single(reads, pagers) /\ \A x \in pagers : PagerOK(x, old, previews)
    BY <2>1 DEF PreviewInv
  <2>9. \A x \in pagers \ {p} : x.cancelled
    BY <1>5, <2>8 DEF Single
  <2>10. PagerOK(q, w, previews)
    BY <1>1, <1>5, <2>1, <2>3, <2>5 DEF PagerOK, InPlace, OnlyPager
  <2>11. \A x \in pagers \ {p} : PagerOK(x, w, previews)
    BY <2>3, <2>8, <2>9 DEF PagerOK, OnlyPager
  <2>12. \A x \in now : PagerOK(x, w, previews)
    BY <2>6, <2>10, <2>11
  <2>13. \E x \in now : ~x.cancelled
    BY <1>5, <2>5, <2>6
  <2>14. \A x, y \in now : ~x.cancelled /\ ~y.cancelled => x = y
    BY <2>6, <2>9
  <2>15. window.pager # "none"
    BY <1>1, <1>5 DEF PagerOK, InPlace
  <2> QED
    BY <1>1, <2>3, <2>7, <2>12, <2>13, <2>14, <2>15, PagersSuffice
<1> QED
  BY <1>1, <1>3, <1>4, <1>5

LEMMA RunPagerKeeps ==
  ASSUME PreviewInv, NEW p \in pagers, RunPager(p)
  PROVE  PreviewInv'
<1>1. /\ p \in Pager /\ PagerOK(p, window, previews) /\ p.at = "handed over"
      /\ UNCHANGED <<artifact, window, reads, previews>>
  BY DEF PreviewInv, RunPager
<1>2. CASE p.cancelled
  <2>1. PICK q : q = [p EXCEPT !.at = "ended", !.file = FALSE]
    OBVIOUS
  <2>2. q \in Pager /\ q.gen = p.gen /\ q.cancelled = p.cancelled /\ q.at = "ended"
    BY <1>1, <2>1 DEF Pager, PagerPlaces
  <2>3. Turn(p, q) /\ (q.cancelled <=> p.cancelled)
    BY <1>2, <2>1, <2>2 DEF RunPager
  <2>4. PagerOK(q, window, previews)
    BY <1>1, <1>2, <2>2 DEF PagerOK
  <2> QED
    BY <1>1, <2>2, <2>3, <2>4, TurnKeeps
<1>3. CASE ~p.cancelled
  <2>1. PICK q : q = [p EXCEPT !.at = "running"]
    OBVIOUS
  <2>2. q \in Pager /\ q.gen = p.gen /\ q.cancelled = p.cancelled /\ q.at = "running"
        /\ q.file = p.file
    BY <1>1, <2>1 DEF Pager, PagerPlaces
  <2>3. Turn(p, q) /\ (q.cancelled <=> p.cancelled)
    BY <1>3, <2>1, <2>2 DEF RunPager
  <2>4. PagerOK(q, window, previews)
    BY <1>1, <1>3, <2>2 DEF PagerOK, InPlace
  <2> QED
    BY <1>1, <2>2, <2>3, <2>4, TurnKeeps
<1> QED
  BY <1>2, <1>3

LEMMA PagerEndsKeeps ==
  ASSUME PreviewInv, NEW p \in pagers, PagerEnds(p)
  PROVE  PreviewInv'
<1>1. /\ p \in Pager /\ PagerOK(p, window, previews) /\ p.at = "running"
      /\ UNCHANGED <<artifact, window, reads, previews>>
  BY DEF PreviewInv, PagerEnds
<1>2. PICK q : q = [p EXCEPT !.at = "ended", !.file = FALSE]
  OBVIOUS
<1>3. q \in Pager /\ q.gen = p.gen /\ q.cancelled = p.cancelled /\ q.at = "ended"
  BY <1>1, <1>2 DEF Pager, PagerPlaces
<1>4. Turn(p, q) /\ (q.cancelled <=> p.cancelled)
  BY <1>2, <1>3 DEF PagerEnds
<1>5. PagerOK(q, window, previews)
  BY <1>1, <1>3 DEF PagerOK, InPlace
<1> QED
  BY <1>1, <1>3, <1>4, <1>5, TurnKeeps

LEMMA AcceptPagerFinishedKeeps ==
  ASSUME PreviewInv, NEW p \in pagers, AcceptPagerFinished(p)
  PROVE  PreviewInv'
<1>1. /\ p \in Pager /\ PagerOK(p, window, previews) /\ pagers' = pagers \ {p}
      /\ UNCHANGED <<artifact, reads, previews>>
  BY DEF PreviewInv, AcceptPagerFinished
<1>2. p.cancelled <=> ~(window.open /\ window.gen = p.gen)
  BY <1>1 DEF PagerOK
<1>3. CASE p.cancelled
  <2>1. window' = window
    BY <1>2, <1>3 DEF AcceptPagerFinished
  <2> QED
    BY <1>1, <1>3, <2>1, GoneKeeps
<1>4. CASE ~p.cancelled
  <2>1. window' = [window EXCEPT !.pager = "none"]
    BY <1>2, <1>4 DEF AcceptPagerFinished
  <2> QED
    BY <1>1, <1>4, <2>1, OwnGoneKeeps
<1> QED
  BY <1>3, <1>4

-----------------------------------------------------------------------------
(* What holds of every run.                                                *)

LEMMA PreviewInvInit == PreviewInit => PreviewInv
<1> SUFFICES ASSUME PreviewInit PROVE PreviewInv
  OBVIOUS
<1>1. PICK w \in Window : /\ w = window /\ ~w.open /\ ~w.pending /\ ~w.approval
                          /\ ~w.read /\ w.pager = "none"
  BY ClosedIsWindow DEF PreviewInit
<1>2. WindowOK(w, 0) /\ Awaited(w, {}, {})
  BY <1>1 DEF WindowOK, Awaited
<1>3. Single({}, {})
  BY DEF Single
<1>4. 0 \in 0..MaxPreviews
  BY PreviewNumbers
<1> QED
  BY <1>1, <1>2, <1>3, <1>4 DEF PreviewInit, PreviewInv

LEMMA PreviewInvNext == PreviewInv /\ [PreviewNext]_previewVars => PreviewInv'
<1> SUFFICES ASSUME PreviewInv, [PreviewNext]_previewVars PROVE PreviewInv'
  OBVIOUS
<1>1. CASE UNCHANGED previewVars
  BY <1>1 DEF PreviewInv, previewVars
<1>2. CASE \E n \in Sizes : WriteArtifact(n)
  BY <1>2 DEF PreviewInv, WriteArtifact
<1>3. CASE OpenPreview \/ ConfirmPreview \/ RefreshPreview \/ StopPreview \/ OpenPager
  BY <1>3, OpenPreviewKeeps, ConfirmPreviewKeeps, RefreshPreviewKeeps, StopPreviewKeeps,
     OpenPagerKeeps
<1>4. CASE \E r \in reads : \/ Resolve(r) \/ OpenArtifact(r) \/ ReadBody(r) \/ FailRead(r)
                            \/ AcceptPreview(r)
  BY <1>4, ResolveKeeps, OpenArtifactKeeps, ReadBodyKeeps, FailReadKeeps, AcceptPreviewKeeps
<1>5. CASE \E p \in pagers : \/ PreparePager(p) \/ CleanUpPager(p) \/ AcceptPager(p)
                             \/ RunPager(p) \/ PagerEnds(p) \/ AcceptPagerFinished(p)
  BY <1>5, PreparePagerKeeps, CleanUpPagerKeeps, AcceptPagerKeeps, RunPagerKeeps,
     PagerEndsKeeps, AcceptPagerFinishedKeeps
<1> QED
  BY <1>1, <1>2, <1>3, <1>4, <1>5 DEF PreviewNext

LEMMA PreviewInvHolds == PreviewSpec => []PreviewInv
<1> QED
  BY PreviewInvInit, PreviewInvNext, PTL DEF PreviewSpec

(* The values of the window, and the places of reads and pagers.           *)
THEOREM PreviewTypeCorrect == PreviewSpec => []PreviewTypeOK
<1>1. PreviewInv => PreviewTypeOK
  <2> SUFFICES ASSUME PreviewInv PROVE PreviewTypeOK
    OBVIOUS
  <2>1. artifact \in Sizes /\ previews \in 0..MaxPreviews /\ window \in Window
    BY DEF PreviewInv
  <2>2. (\A r \in reads : r.at \in ReadPlaces) /\ \A p \in pagers : p.at \in PagerPlaces
    BY DEF PreviewInv, ReadRecord, Pager
  <2> QED
    BY <2>1, <2>2 DEF PreviewTypeOK, Window
<1> QED
  BY <1>1, PreviewInvHolds, PTL

(* Whatever becomes of the artifact between the three looks at it: what a  *)
(* window shows is all there was or says that it is not, no prefix is shown*)
(* that the user has not agreed to, and neither a window nor a temporary   *)
(* file waits for somebody who does not come (mlflow/preview.go,           *)
(* tui/artifact_preview.go).                                               *)
THEOREM PreviewsAreAlwaysHonest == PreviewSpec => []PreviewsAreHonest
<1>1. PreviewInv => PreviewsAreHonest
  <2> SUFFICES ASSUME PreviewInv PROVE PreviewsAreHonest
    OBVIOUS
  <2>1. /\ WindowOK(window, previews) /\ Awaited(window, reads, pagers)
        /\ \A p \in pagers : PagerOK(p, window, previews)
    BY DEF PreviewInv
  <2>2. PrefixesAreAgreed
    BY <2>1 DEF PrefixesAreAgreed, WindowOK, HonestDocument
  <2>3. WaitingEnds
    BY <2>1 DEF WaitingEnds, Awaited, PagerOK, InPlace
  <2>4. PagerFilesAreOwned
    BY <2>1 DEF PagerFilesAreOwned, PagerOK, InPlace
  <2> QED
    BY <2>2, <2>3, <2>4 DEF PreviewsAreHonest
<1> QED
  BY <1>1, PreviewInvHolds, PTL

-----------------------------------------------------------------------------
(* The catalogs of DatasetWorkspace, for any runs and experiments.         *)
(*                                                                         *)
(* A terminal numbers its scans and jumps from one counter, and steps over *)
(* numbers when it cancels; so what is late has a smaller number than what *)
(* it hears of.  A scan that did not fail has found the runs that were in  *)
(* view since it began, or has still to find them: their experiments to    *)
(* search, or a page to read that they are on.                             *)

ValueOK(v) == v.complete => v.throughout \subseteq v.runs

CatalogOK == 
    /\ ValueOK(catalog.value) /\ (catalog.stale => ~catalog.value.complete)
    /\ catalog.pending <=> sweep.at # "none"

SweepOK ==
    /\ sweep.at = "none" => sweep.event = NoEvent
    /\ sweep.at # "none" => sweep.gen \in 1..requested /\ sweep.gen = catalog.gen
    /\ sweep.event # NoEvent => sweep.event.gen = sweep.gen /\ ValueOK(sweep.event.value)
    /\ ValueOK(sweep.value)

ToFind(s, r) ==
    \/ r \in s.value.runs \/ Home[r] \in s.todo
    \/ s.at = "experiments" /\ s.token # "none" /\ Home[r] \notin s.behind
    \/ s.at = "runs" /\ s.token # "none" /\ Home[r] = s.home /\ r \notin s.behind

Covered(s) ==
    s.at \in {"experiments", "runs"} /\ ~s.failed => \A r \in s.throughout : ToFind(s, r)

FoundOK == Covered(sweep) /\ \A r \in sweep.throughout : Found(r, living, sweep.value.view)

LateOK == \A v \in late : v.gen < catalog.gen /\ v.gen <= requested

JumpsOK ==
    \A j \in jumps : 
        /\ j.gen <= catalog.runGen /\ j.gen <= requested
        /\ j.gen = catalog.runGen => catalog.open /\ j.run = catalog.asked

DatasetsInv == WorkspaceTypeOK /\ CatalogOK /\ SweepOK /\ FoundOK /\ LateOK /\ JumpsOK

-----------------------------------------------------------------------------
(* The records, and what the steps make of them.                           *)

Catalog == [open : BOOLEAN, gen : Gens, runGen : Gens, pending : BOOLEAN,
            view : ViewTypes, value : Value, stale : BOOLEAN, asked : LoggedRuns \cup {Nobody}]
Places == {"none", "experiments", "runs", "finished", "answered"}
Tokens == {"first", "next", "none"}
Sweep == [gen : Gens, at : Places, value : Value, failed : BOOLEAN, todo : SUBSET Homes,
          home : Homes \cup {Nobody}, token : Tokens, behind : SUBSET (LoggedRuns \cup Homes),
          throughout : SUBSET LoggedRuns, event : Event]

LEMMA DatasetsNumbers ==
    /\ MaxRequests \in Nat /\ MaxDeletions \in Nat
    /\ \A n \in Gens : n \in Nat /\ (n <= MaxRequests => n + 1 \in Gens)
    /\ \A n \in 0..MaxRequests : n \in Gens
BY WorkspaceAssumption DEF Gens

LEMMA Records ==
    /\ NoValue \in Value /\ NoEvent \in Event /\ NoSweep \in Sweep
    /\ ValueOK(NoValue) /\ NoValue.complete = FALSE /\ NoValue.scope = "loaded_runs"
    /\ NoSweep.at = "none" /\ NoSweep.event = NoEvent /\ NoSweep.value = NoValue
    /\ NoSweep.throughout = {} /\ NoSweep.token = "first" /\ NoSweep.behind = {}
<1>1. NoValue \in Value /\ NoValue.complete = FALSE /\ NoValue.scope = "loaded_runs"
  BY DEF NoValue, Value, ViewTypes
<1>2. 0 \in Gens BY WorkspaceAssumption DEF Gens
<1>3. NoEvent \in Event BY <1>1, <1>2 DEF NoEvent, Event
<1>4. /\ NoSweep \in Sweep /\ NoSweep.at = "none" /\ NoSweep.event = NoEvent
      /\ NoSweep.value = NoValue /\ NoSweep.throughout = {}
      /\ NoSweep.token = "first" /\ NoSweep.behind = {}
  BY <1>1, <1>2, <1>3 DEF NoSweep, Sweep, Places, Tokens
<1>. QED BY <1>1, <1>3, <1>4 DEF ValueOK

LEMMA Types ==
    WorkspaceTypeOK <=>
        /\ living \subseteq LoggedRuns \cup Homes /\ catalog \in Catalog /\ sweep \in Sweep
        /\ late \subseteq Event /\ jumps \subseteq [gen : Gens, run : LoggedRuns]
        /\ destination \in LoggedRuns \cup {Nobody} /\ requested \in 0..MaxRequests
        /\ deletions \in 0..MaxDeletions
BY DEF WorkspaceTypeOK, Catalog, Sweep, Places, Tokens

LEMMA PartialValue ==
    ASSUME NEW v \in Value
    PROVE  Partial(v) \in Value /\ Partial(v).complete = FALSE
<1>1. PICK n : n = Partial(v) OBVIOUS
<1>2. n \in Value /\ n.complete = FALSE BY <1>1 DEF Partial, Value
<1>. QED BY <1>1, <1>2

LEMMA UncompletedCatalog ==
    ASSUME NEW c \in Catalog, c.gen <= MaxRequests
    PROVE  /\ Uncompleted(c) \in Catalog
           /\ Uncompleted(c).gen = c.gen + 1 /\ Uncompleted(c).pending = FALSE
           /\ Uncompleted(c).value = Partial(c.value)
           /\ Uncompleted(c).open = c.open /\ Uncompleted(c).runGen = c.runGen
           /\ Uncompleted(c).asked = c.asked /\ Uncompleted(c).view = c.view
<1>1. PICK value : value = Partial(c.value) OBVIOUS
<1>2. c.value \in Value /\ c.gen \in Gens BY DEF Catalog
<1>3. value \in Value BY <1>1, <1>2, PartialValue
<1>4. PICK gen \in Gens : gen = c.gen + 1 BY <1>2, DatasetsNumbers
<1>5. PICK n : n = [c EXCEPT !.gen = gen, !.pending = FALSE, !.value = value] OBVIOUS
<1>6. n = Uncompleted(c) BY <1>1, <1>4, <1>5 DEF Uncompleted
<1>7. /\ n \in Catalog /\ n.gen = gen /\ n.pending = FALSE /\ n.value = value /\ n.open = c.open
      /\ n.runGen = c.runGen /\ n.asked = c.asked /\ n.view = c.view
  BY <1>3, <1>5 DEF Catalog
<1>. QED BY <1>1, <1>4, <1>6, <1>7

LEMMA AwayCatalog ==
    ASSUME NEW c \in Catalog, c.runGen <= MaxRequests
    PROVE  /\ Away(c) \in Catalog /\ Away(c).open = FALSE /\ Away(c).runGen = c.runGen + 1
           /\ Away(c).gen = c.gen /\ Away(c).pending = c.pending /\ Away(c).value = c.value
           /\ Away(c).stale = c.stale
<1>1. c.runGen \in Gens BY DEF Catalog
<1>2. PICK gen \in Gens : gen = c.runGen + 1 BY <1>1, DatasetsNumbers
<1>3. PICK n : n = [c EXCEPT !.open = FALSE, !.runGen = gen] OBVIOUS
<1>4. n = Away(c) BY <1>2, <1>3 DEF Away
<1>5. /\ n \in Catalog /\ n.open = FALSE /\ n.runGen = gen /\ n.gen = c.gen
      /\ n.pending = c.pending /\ n.value = c.value /\ n.stale = c.stale
  BY <1>3 DEF Catalog
<1>. QED BY <1>2, <1>4, <1>5

(* Whatever is cancelled has, or had, the number the catalog waits for.    *)
LEMMA LateAfterCancel ==
    ASSUME WorkspaceTypeOK, SweepOK, LateOK, Cancelled
    PROVE  /\ late' \subseteq Event
           /\ \A v \in late' : v.gen <= catalog.gen /\ v.gen <= requested
           /\ sweep.at = "none" => late' = late
<1>1. sweep \in Sweep /\ late \subseteq Event /\ catalog \in Catalog /\ requested \in 0..MaxRequests
  BY Types
<1>2. ASSUME sweep.at # "none"
      PROVE  /\ Says(sweep, FALSE) \in Event
             /\ Says(sweep, FALSE).gen = sweep.gen
  BY <1>1 DEF Says, Event, Sweep
<1>3. /\ sweep.event \in Event
      /\ \A v \in late : v.gen \in Nat
      /\ catalog.gen \in Nat
  BY <1>1, DatasetsNumbers DEF Sweep, Event, Catalog
<1>4. \A v \in late : v.gen <= catalog.gen /\ v.gen <= requested
  BY <1>1, <1>3 DEF LateOK
<1>5. CASE sweep.at = "none"
  <2>1. sweep.event = NoEvent BY <1>5 DEF SweepOK
  <2>2. late' = late BY <1>5, <2>1 DEF Cancelled
  <2>. QED BY <1>1, <1>4, <2>2
<1>6. CASE sweep.at # "none"
  <2>1. PICK v \in Event : late' = late \cup {v} /\ v.gen = sweep.gen
    BY <1>2, <1>3, <1>6 DEF Cancelled, SweepOK
  <2>2. v.gen <= catalog.gen /\ v.gen <= requested
    BY <2>1, <1>1, <1>3, <1>6 DEF SweepOK
  <2>. QED BY <2>1, <2>2, <1>1, <1>4, <1>6
<1>. QED BY <1>5, <1>6

(* Where the catalog stops hearing of its scan.                            *)
LEMMA ScanStops ==
    ASSUME DatasetsInv, Cancelled, sweep' = NoSweep, NEW c \in Catalog, catalog' = c,
           c.gen = catalog.gen + 1, c.pending = FALSE, c.value = Partial(catalog.value),
           UNCHANGED <<living, requested, deletions>>
    PROVE  /\ catalog' \in Catalog /\ sweep' \in Sweep /\ late' \subseteq Event
           /\ CatalogOK' /\ SweepOK' /\ FoundOK' /\ LateOK'
<1>1. /\ WorkspaceTypeOK /\ SweepOK /\ LateOK BY DEF DatasetsInv
<1>2. catalog \in Catalog /\ requested \in 0..MaxRequests BY <1>1, Types
<1>3. /\ late' \subseteq Event /\ \A v \in late' : v.gen <= catalog.gen /\ v.gen <= requested
  BY <1>1, LateAfterCancel
<1>4. catalog.gen \in Nat /\ \A v \in late' : v.gen \in Nat
  BY <1>2, <1>3, DatasetsNumbers DEF Catalog, Event
<1>5. LateOK' BY <1>2, <1>3, <1>4 DEF LateOK
<1>6. c.value.complete = FALSE BY <1>2, PartialValue DEF Catalog
<1>7. CatalogOK' BY <1>6, Records DEF CatalogOK, ValueOK
<1>8. SweepOK' BY Records DEF SweepOK
<1>9. FoundOK' BY Records DEF FoundOK, Covered
<1>. QED BY <1>3, <1>5, <1>7, <1>8, <1>9, Records

-----------------------------------------------------------------------------
(* The scan.                                                               *)

LEMMA Emitted ==
    ASSUME NEW s \in Sweep, NEW done \in BOOLEAN, Emit(s, done)
    PROVE  \E v \in Event : /\ v.gen = s.gen /\ v.value = s.value
                            /\ sweep' = [s EXCEPT !.event = v]
<1>1. PICK v : v = Says(s, done) OBVIOUS
<1>2. v \in Event /\ v.gen = s.gen /\ v.value = s.value BY <1>1 DEF Says, Event, Sweep
<1>. QED BY <1>1, <1>2 DEF Emit

(* A step of the scan, whether or not it tells of it.                      *)
LEMMA ScanMoves ==
    ASSUME DatasetsInv, NEW s \in Sweep, sweep.at # "none", s.at # "none", s.gen = sweep.gen,
           s.throughout = sweep.throughout, s.value.view = sweep.value.view, ValueOK(s.value),
           Covered(s), NEW v \in Event, sweep' = [s EXCEPT !.event = v],
           v = NoEvent \/ (v.gen = s.gen /\ ValueOK(v.value)),
           UNCHANGED <<living, catalog, late, jumps, destination, requested, deletions>>
    PROVE  DatasetsInv'
<1>1. /\ sweep' \in Sweep /\ sweep'.at = s.at /\ sweep'.gen = s.gen /\ sweep'.value = s.value
      /\ sweep'.failed = s.failed /\ sweep'.todo = s.todo /\ sweep'.home = s.home
      /\ sweep'.token = s.token /\ sweep'.behind = s.behind
      /\ sweep'.throughout = s.throughout /\ sweep'.event = v
  BY DEF Sweep
<1>2. WorkspaceTypeOK' BY <1>1 DEF DatasetsInv, WorkspaceTypeOK, Sweep, Places, Tokens
<1>3. CatalogOK' BY <1>1 DEF DatasetsInv, CatalogOK
<1>4. SweepOK' BY <1>1 DEF DatasetsInv, SweepOK
<1>5. FoundOK' BY <1>1 DEF DatasetsInv, FoundOK, Covered, ToFind
<1>6. LateOK' /\ JumpsOK' BY DEF DatasetsInv, LateOK, JumpsOK
<1>. QED BY <1>2, <1>3, <1>4, <1>5, <1>6 DEF DatasetsInv

LEMMA ScanGoesOn ==
    ASSUME DatasetsInv, NEW s \in Sweep, NEW done \in BOOLEAN, Emit(s, done), sweep.at # "none",
           s.at # "none", s.gen = sweep.gen, s.throughout = sweep.throughout,
           s.value.view = sweep.value.view, ValueOK(s.value), Covered(s),
           UNCHANGED <<living, catalog, late, jumps, destination, requested, deletions>>
    PROVE  DatasetsInv'
<1>1. PICK v \in Event : /\ v.gen = s.gen /\ v.value = s.value
                         /\ sweep' = [s EXCEPT !.event = v]
  BY Emitted
<1>. QED BY <1>1, ScanMoves

(* What is in view is on the list that is read for it.                     *)
LEMMA Listed ==
    ASSUME NEW s \in Sweep, NEW r \in LoggedRuns, Found(r, living, s.value.view)
    PROVE  /\ s.at = "experiments" => Home[r] \in Listing(s, living)
           /\ s.at = "runs" /\ Home[r] = s.home => r \in Listing(s, living)
<1>1. s.value.view \in ViewTypes BY DEF Sweep, Value
<1>2. Home[r] \in Homes BY DEF Homes
<1>3. InView(Home[r], living, ExperimentView(s.value.view)) /\ InView(r, living, s.value.view)
  BY <1>1 DEF Found, InView, ExperimentView, ViewTypes
<1>. QED BY <1>2, <1>3 DEF Listing

(* What is ahead is on the page, or on a page that there is still to read. *)
LEMMA PageRead ==
    ASSUME NEW s \in Sweep, NEW sheet \in SUBSET (LoggedRuns \cup Homes),
           NEW next \in {"next", "none"}, NEW failed \in BOOLEAN, IsPage(s, sheet, next, failed)
    PROVE  ~failed => \A x \in Listing(s, living) \ s.behind :
                         x \in sheet \/ (next # "none" /\ x \notin s.behind \cup sheet)
<1>1. ASSUME ~failed, NEW x \in Listing(s, living) \ s.behind
      PROVE  x \in sheet \/ (next # "none" /\ x \notin s.behind \cup sheet)
  <2>1. next = "none" <=> sheet = Listing(s, living) \ s.behind BY <1>1 DEF IsPage
  <2>. QED BY <2>1, <1>1
<1>. QED BY <1>1

LEMMA FindNext == ASSUME DatasetsInv, FindExperiments PROVE DatasetsInv'
<1>1. sweep \in Sweep BY Types DEF DatasetsInv
<1>2. sweep.at = "experiments" /\ sweep.token # "none" BY DEF FindExperiments
<1>3. PICK sheet \in SUBSET Homes, next \in {"next", "none"}, failed \in BOOLEAN :
        /\ IsPage(sweep, sheet, next, failed)
        /\ sweep' = [Turned(sweep, sheet, next, failed) EXCEPT !.todo = @ \cup sheet]
  BY DEF FindExperiments
<1>4. PICK behind \in SUBSET (LoggedRuns \cup Homes) :
        behind = IF next = "none" THEN {} ELSE sweep.behind \cup sheet
  BY <1>1 DEF Sweep
<1>5. PICK bad \in BOOLEAN : bad = (sweep.failed \/ failed) BY <1>1 DEF Sweep
<1>6. PICK todo \in SUBSET Homes : todo = sweep.todo \cup sheet BY <1>1 DEF Sweep
<1>7. PICK s : s = [sweep EXCEPT !.token = next, !.failed = bad, !.behind = behind, !.todo = todo]
  OBVIOUS
<1>8. /\ s \in Sweep /\ s.at = sweep.at /\ s.gen = sweep.gen /\ s.value = sweep.value
      /\ s.throughout = sweep.throughout /\ s.token = next /\ s.failed = bad
      /\ s.behind = behind /\ s.todo = todo /\ s.event = sweep.event /\ s.home = sweep.home
  BY <1>1, <1>7 DEF Sweep, Tokens
<1>9. ~failed => \A x \in Listing(sweep, living) \ sweep.behind :
                   x \in sheet \/ (next # "none" /\ x \notin sweep.behind \cup sheet)
  <2>1. sheet \in SUBSET (LoggedRuns \cup Homes) OBVIOUS
  <2>. QED BY <2>1, <1>1, <1>3, PageRead
<1>10. sweep' = s BY <1>1, <1>3, <1>4, <1>5, <1>6, <1>7 DEF Sweep, Turned
<1>11. ASSUME ~bad, NEW r \in sweep.throughout PROVE ToFind(s, r)
  <2>1. ToFind(sweep, r) BY <1>2, <1>5, <1>11 DEF DatasetsInv, FoundOK, Covered
  <2>2. r \in LoggedRuns /\ Found(r, living, sweep.value.view) BY <1>1 DEF DatasetsInv, FoundOK, Sweep
  <2>3. Home[r] \in Listing(sweep, living) BY <1>1, <1>2, <2>2, Listed
  <2>4. CASE r \in sweep.value.runs \/ Home[r] \in sweep.todo
    BY <2>4, <1>6, <1>8 DEF ToFind
  <2>5. CASE Home[r] \notin sweep.behind
    <3>1. Home[r] \in sheet \/ (next # "none" /\ Home[r] \notin sweep.behind \cup sheet)
      BY <2>3, <2>5, <1>5, <1>9, <1>11
    <3>. QED BY <3>1, <1>2, <1>4, <1>6, <1>8 DEF ToFind
  <2>. QED BY <2>1, <2>4, <2>5, <1>2 DEF ToFind
<1>12. Covered(s) BY <1>8, <1>11 DEF Covered
<1>13. ValueOK(s.value) /\ sweep.event \in Event BY <1>1, <1>8 DEF DatasetsInv, SweepOK, Sweep
<1>14. sweep.event = NoEvent \/ (sweep.event.gen = s.gen /\ ValueOK(sweep.event.value))
  BY <1>8 DEF DatasetsInv, SweepOK
<1>15. sweep' = [s EXCEPT !.event = sweep.event] BY <1>8, <1>10 DEF Sweep
<1>. QED BY <1>2, <1>8, <1>12, <1>13, <1>14, <1>15, ScanMoves DEF FindExperiments

LEMMA TellNext == ASSUME DatasetsInv, TellExperiments PROVE DatasetsInv'
<1>1. sweep \in Sweep BY Types DEF DatasetsInv
<1>2. sweep.at = "experiments" /\ sweep.token = "none" BY DEF TellExperiments, HasRoom
<1>3. PICK s : s = [sweep EXCEPT !.at = "runs"] OBVIOUS
<1>4. /\ s \in Sweep /\ s.at = "runs" /\ s.gen = sweep.gen /\ s.value = sweep.value
      /\ s.throughout = sweep.throughout /\ s.todo = sweep.todo /\ s.failed = sweep.failed
  BY <1>1, <1>3 DEF Sweep, Places
<1>5. PICK done \in BOOLEAN : done = FALSE OBVIOUS
<1>6. Emit(s, done) BY <1>3, <1>5 DEF TellExperiments
<1>7. Covered(s) BY <1>2, <1>4 DEF DatasetsInv, FoundOK, Covered, ToFind
<1>8. ValueOK(s.value) BY <1>4 DEF DatasetsInv, SweepOK
<1>. QED BY <1>2, <1>4, <1>6, <1>7, <1>8, ScanGoesOn DEF TellExperiments

(* The search of an experiment as it is before a page of it is read.       *)
LEMMA Searching ==
    ASSUME DatasetsInv, NEW e \in Homes, sweep.at = "runs", sweep.home \in {e, Nobody}, NEW s,
           s = IF sweep.home = e THEN sweep
               ELSE [sweep EXCEPT !.home = e, !.token = "first", !.behind = {}, !.todo = @ \ {e}],
           s.token # "none"
    PROVE  /\ s \in Sweep /\ s.at = "runs" /\ s.gen = sweep.gen /\ s.value = sweep.value
           /\ s.throughout = sweep.throughout /\ s.failed = sweep.failed /\ s.home = e
           /\ s.event = sweep.event /\ Covered(s)
<1>1. sweep \in Sweep BY Types DEF DatasetsInv
<1>2. CASE sweep.home = e BY <1>1, <1>2 DEF DatasetsInv, FoundOK
<1>3. CASE sweep.home # e
  <2>1. PICK todo \in SUBSET Homes : todo = sweep.todo \ {e} BY <1>1 DEF Sweep
  <2>2. s = [sweep EXCEPT !.home = e, !.token = "first", !.behind = {}, !.todo = todo]
    BY <1>1, <1>3, <2>1 DEF Sweep
  <2>3. /\ s \in Sweep /\ s.at = "runs" /\ s.gen = sweep.gen /\ s.value = sweep.value
        /\ s.throughout = sweep.throughout /\ s.failed = sweep.failed /\ s.home = e
        /\ s.event = sweep.event /\ s.token = "first" /\ s.behind = {} /\ s.todo = todo
    BY <1>1, <2>2 DEF Sweep, Tokens
  <2>4. ASSUME ~sweep.failed, NEW r \in sweep.throughout PROVE ToFind(s, r)
    <3>1. r \in LoggedRuns BY <1>1 DEF Sweep
    <3>2. Home[r] # Nobody BY <3>1, WorkspaceAssumption DEF LoggedRuns
    <3>3. ToFind(sweep, r) BY <2>4 DEF DatasetsInv, FoundOK, Covered
    <3>4. r \in sweep.value.runs \/ Home[r] \in sweep.todo BY <1>3, <3>2, <3>3 DEF ToFind
    <3>. QED BY <3>4, <2>1, <2>3 DEF ToFind
  <2>5. Covered(s) BY <2>3, <2>4 DEF Covered
  <2>. QED BY <2>3, <2>5
<1>. QED BY <1>2, <1>3

LEMMA SearchNext == ASSUME DatasetsInv, NEW e \in Homes, SearchExperiment(e) PROVE DatasetsInv'
<1>. DEFINE s == IF sweep.home = e THEN sweep
               ELSE [sweep EXCEPT !.home = e, !.token = "first", !.behind = {}, !.todo = @ \ {e}]
<1>1. s = IF sweep.home = e THEN sweep
          ELSE [sweep EXCEPT !.home = e, !.token = "first", !.behind = {}, !.todo = @ \ {e}]
  OBVIOUS
<1>2. /\ sweep.at = "runs" /\ sweep.home \in {e, Nobody} /\ s.token # "none"
      /\ \E sheet \in SUBSET LoggedRuns, next \in {"next", "none"}, failed \in BOOLEAN :
           /\ IsPage(s, sheet, next, failed)
           /\ LET t == [Turned(s, sheet, next, failed) EXCEPT !.value.runs = @ \cup sheet] IN
              \/ failed /\ sheet = {} /\ sweep' = t
              \/ HasRoom("runs") /\ Emit(t, FALSE)
      /\ UNCHANGED <<living, catalog, late, jumps, destination, requested, deletions>>
  BY Zenon DEF SearchExperiment
<1>. HIDE DEF s
<1>3. /\ s \in Sweep /\ s.at = "runs" /\ s.gen = sweep.gen /\ s.value = sweep.value
      /\ s.throughout = sweep.throughout /\ s.failed = sweep.failed /\ s.home = e
      /\ s.event = sweep.event /\ Covered(s)
  BY <1>1, <1>2, Searching
<1>4. PICK sheet \in SUBSET LoggedRuns, next \in {"next", "none"}, failed \in BOOLEAN :
        /\ IsPage(s, sheet, next, failed)
        /\ \/ sweep' = [Turned(s, sheet, next, failed) EXCEPT !.value.runs = @ \cup sheet]
           \/ Emit([Turned(s, sheet, next, failed) EXCEPT !.value.runs = @ \cup sheet], FALSE)
  BY <1>2
<1>5. PICK behind \in SUBSET (LoggedRuns \cup Homes) :
        behind = IF next = "none" THEN {} ELSE s.behind \cup sheet
  BY <1>3 DEF Sweep
<1>6. PICK bad \in BOOLEAN : bad = (s.failed \/ failed) BY <1>3 DEF Sweep
<1>7. PICK value : value = [s.value EXCEPT !.runs = @ \cup sheet] OBVIOUS
<1>8. /\ value \in Value /\ value.runs = s.value.runs \cup sheet /\ value.view = s.value.view
      /\ value.complete = s.value.complete /\ value.throughout = s.value.throughout
  BY <1>3, <1>7 DEF Value, Sweep
<1>9. PICK t : t = [s EXCEPT !.token = next, !.failed = bad, !.behind = behind, !.value = value]
  OBVIOUS
<1>10. /\ t \in Sweep /\ t.at = "runs" /\ t.gen = sweep.gen /\ t.value = value
       /\ t.throughout = sweep.throughout /\ t.token = next /\ t.failed = bad
       /\ t.behind = behind /\ t.todo = s.todo /\ t.event = sweep.event /\ t.home = e
  BY <1>3, <1>8, <1>9 DEF Sweep, Tokens
<1>11. ~failed => \A x \in Listing(s, living) \ s.behind :
                    x \in sheet \/ (next # "none" /\ x \notin s.behind \cup sheet)
  <2>1. sheet \in SUBSET (LoggedRuns \cup Homes) OBVIOUS
  <2>. QED BY <2>1, <1>3, <1>4, PageRead
<1>12. t = [Turned(s, sheet, next, failed) EXCEPT !.value.runs = @ \cup sheet]
  BY <1>3, <1>5, <1>6, <1>7, <1>9 DEF Sweep, Turned
<1>13. ASSUME ~bad, NEW r \in sweep.throughout PROVE ToFind(t, r)
  <2>1. ToFind(s, r) BY <1>3, <1>6, <1>13 DEF Covered
  <2>2. r \in LoggedRuns /\ Found(r, living, s.value.view) BY <1>3 DEF DatasetsInv, FoundOK, Sweep
  <2>3. CASE r \in s.value.runs \/ Home[r] \in s.todo BY <2>3, <1>8, <1>10 DEF ToFind
  <2>4. CASE Home[r] = s.home /\ r \notin s.behind
    <3>1. r \in Listing(s, living) BY <1>3, <2>2, <2>4, Listed
    <3>2. r \in sheet \/ (next # "none" /\ r \notin s.behind \cup sheet)
      BY <3>1, <2>4, <1>6, <1>11, <1>13
    <3>. QED BY <3>2, <2>4, <1>3, <1>5, <1>8, <1>10 DEF ToFind
  <2>. QED BY <2>1, <2>3, <2>4, <1>3 DEF ToFind
<1>14. Covered(t) BY <1>10, <1>13 DEF Covered
<1>15. ValueOK(t.value)
  <2>1. ValueOK(sweep.value) BY DEF DatasetsInv, SweepOK
  <2>. QED BY <2>1, <1>3, <1>8, <1>10 DEF ValueOK
<1>16. t.value.view = sweep.value.view BY <1>3, <1>8, <1>10
<1>17. CASE sweep' = t
  <2>1. sweep.event \in Event BY Types DEF DatasetsInv, Sweep
  <2>2. sweep.event = NoEvent \/ (sweep.event.gen = t.gen /\ ValueOK(sweep.event.value))
    BY <1>10 DEF DatasetsInv, SweepOK
  <2>3. sweep' = [t EXCEPT !.event = sweep.event] BY <1>10, <1>17 DEF Sweep
  <2>. QED BY <2>1, <2>2, <2>3, <1>2, <1>10, <1>14, <1>15, <1>16, ScanMoves
<1>18. CASE Emit(t, FALSE)
  <2>1. PICK done \in BOOLEAN : done = FALSE OBVIOUS
  <2>2. Emit(t, done) BY <2>1, <1>18
  <2>. QED BY <2>2, <1>2, <1>10, <1>14, <1>15, <1>16, ScanGoesOn
<1>. QED BY <1>4, <1>12, <1>17, <1>18

LEMMA LeaveNext == ASSUME DatasetsInv, LeaveExperiment PROVE DatasetsInv'
<1>1. sweep \in Sweep BY Types DEF DatasetsInv
<1>2. sweep.at = "runs" /\ sweep.token = "none" BY DEF LeaveExperiment, HasRoom
<1>3. PICK s : s = [sweep EXCEPT !.home = Nobody] OBVIOUS
<1>4. /\ s \in Sweep /\ s.at = "runs" /\ s.gen = sweep.gen /\ s.value = sweep.value
      /\ s.throughout = sweep.throughout /\ s.todo = sweep.todo /\ s.failed = sweep.failed
  BY <1>1, <1>2, <1>3 DEF Sweep
<1>5. PICK done \in BOOLEAN : done = FALSE OBVIOUS
<1>6. Emit(s, done) BY <1>3, <1>5 DEF LeaveExperiment
<1>7. Covered(s) BY <1>2, <1>4 DEF DatasetsInv, FoundOK, Covered, ToFind
<1>8. ValueOK(s.value) BY <1>4 DEF DatasetsInv, SweepOK
<1>. QED BY <1>2, <1>4, <1>6, <1>7, <1>8, ScanGoesOn DEF LeaveExperiment

LEMMA FinishNext == ASSUME DatasetsInv, FinishScan PROVE DatasetsInv'
<1>1. sweep \in Sweep BY Types DEF DatasetsInv
<1>2. sweep.at = "runs" /\ sweep.todo = {} /\ sweep.home = Nobody BY DEF FinishScan, HasRoom
<1>3. PICK complete \in BOOLEAN : complete = ~sweep.failed OBVIOUS
<1>4. PICK throughout \in SUBSET LoggedRuns :
        throughout = IF sweep.failed THEN {} ELSE sweep.throughout
  BY <1>1 DEF Sweep
<1>5. PICK value : value = [sweep.value EXCEPT !.complete = complete, !.throughout = throughout]
  OBVIOUS
<1>6. sweep.value \in Value BY <1>1 DEF Sweep
<1>7. /\ value \in Value /\ value.complete = complete /\ value.throughout = throughout
      /\ value.runs = sweep.value.runs /\ value.view = sweep.value.view
  BY <1>5, <1>6 DEF Value
<1>8. PICK s : s = [sweep EXCEPT !.at = "finished", !.value = value] OBVIOUS
<1>9. /\ s \in Sweep /\ s.at = "finished" /\ s.gen = sweep.gen /\ s.value = value
      /\ s.throughout = sweep.throughout
  BY <1>1, <1>7, <1>8 DEF Sweep, Places
<1>10. PICK done \in BOOLEAN : done = FALSE OBVIOUS
<1>11. Emit(s, done)
  BY <1>1, <1>3, <1>4, <1>5, <1>8, <1>10 DEF FinishScan, Sweep
<1>12. ValueOK(s.value)
  <2>1. sweep.failed \in BOOLEAN BY <1>1 DEF Sweep
  <2>2. ASSUME ~sweep.failed, NEW r \in sweep.throughout PROVE r \in sweep.value.runs
    <3>1. r \in LoggedRuns BY <1>1 DEF Sweep
    <3>2. Home[r] # Nobody BY <3>1, WorkspaceAssumption DEF LoggedRuns
    <3>. QED BY <3>2, <2>2, <1>2 DEF DatasetsInv, FoundOK, Covered, ToFind
  <2>. QED BY <2>1, <2>2, <1>3, <1>4, <1>7, <1>9 DEF ValueOK
<1>13. Covered(s) /\ s.value.view = sweep.value.view /\ sweep.at # "none" /\ s.at # "none"
  BY <1>2, <1>7, <1>9 DEF Covered
<1>. QED BY <1>9, <1>11, <1>12, <1>13, ScanGoesOn DEF FinishScan

LEMMA AnswerNext == ASSUME DatasetsInv, AnswerScan PROVE DatasetsInv'
<1>1. sweep \in Sweep BY Types DEF DatasetsInv
<1>2. sweep.at # "none" BY DEF AnswerScan, HasRoom
<1>3. PICK s : s = [sweep EXCEPT !.at = "answered"] OBVIOUS
<1>4. /\ s \in Sweep /\ s.at = "answered" /\ s.gen = sweep.gen /\ s.value = sweep.value
      /\ s.throughout = sweep.throughout
  BY <1>1, <1>3 DEF Sweep, Places
<1>5. PICK done \in BOOLEAN : done = TRUE OBVIOUS
<1>6. Emit(s, done) BY <1>3, <1>5 DEF AnswerScan
<1>7. ValueOK(s.value) /\ Covered(s) BY <1>4 DEF DatasetsInv, SweepOK, Covered
<1>. QED BY <1>2, <1>4, <1>6, <1>7, ScanGoesOn DEF AnswerScan

-----------------------------------------------------------------------------
(* The workspace.                                                          *)

LEMMA OpenNext == ASSUME DatasetsInv, NEW loaded \in LoadedRuns, OpenCatalog(loaded) PROVE DatasetsInv'
<1>1. catalog \in Catalog /\ ~catalog.open BY Types DEF DatasetsInv, OpenCatalog
<1>0. loaded \in SUBSET LoggedRuns BY WorkspaceAssumption DEF LoggedRuns
<1>2. PICK first : first = [NoValue EXCEPT !.runs = loaded] OBVIOUS
<1>3. first \in Value /\ first.complete = FALSE BY <1>0, <1>2, Records DEF Value
<1>4. PICK value \in {first, catalog.value} :
        value = IF catalog.value.scope = "loaded_runs" THEN first ELSE catalog.value OBVIOUS
<1>5. value \in Value BY <1>1, <1>3, <1>4 DEF Catalog
<1>6. PICK c : c = [catalog EXCEPT !.open = TRUE, !.asked = Nobody, !.value = value] OBVIOUS
<1>7. /\ c \in Catalog /\ c.open = TRUE /\ c.gen = catalog.gen /\ c.runGen = catalog.runGen
      /\ c.pending = catalog.pending /\ c.value = value /\ c.stale = catalog.stale
  BY <1>1, <1>5, <1>6 DEF Catalog
<1>8. catalog' = c BY <1>1, <1>2, <1>4, <1>6 DEF OpenCatalog, Catalog
<1>9. UNCHANGED <<living, sweep, late, jumps, destination, requested, deletions>>
  BY DEF OpenCatalog
<1>10. CatalogOK' BY <1>3, <1>4, <1>7, <1>8, <1>9 DEF DatasetsInv, CatalogOK, ValueOK
<1>11. SweepOK' /\ FoundOK' /\ LateOK' BY <1>7, <1>8, <1>9 DEF DatasetsInv, SweepOK, FoundOK, Covered,
  ToFind, LateOK
<1>12. \A j \in jumps : j.gen # catalog.runGen BY <1>1 DEF DatasetsInv, JumpsOK
<1>13. JumpsOK' BY <1>7, <1>8, <1>9, <1>12 DEF DatasetsInv, JumpsOK
<1>14. WorkspaceTypeOK' BY <1>7, <1>8, <1>9 DEF DatasetsInv, WorkspaceTypeOK, Catalog
<1>. QED BY <1>10, <1>11, <1>13, <1>14 DEF DatasetsInv

(* A jump that was under way is not expected when the workspace is left.   *)
LEMMA JumpsEnd ==
    ASSUME DatasetsInv, catalog'.runGen = catalog.runGen + 1, jumps' \subseteq jumps, UNCHANGED requested
    PROVE  JumpsOK'
<1>1. catalog \in Catalog /\ jumps \subseteq [gen : Gens, run : LoggedRuns] BY Types DEF DatasetsInv
<1>2. catalog.runGen \in Nat /\ \A j \in jumps : j.gen \in Nat BY <1>1, DatasetsNumbers DEF Catalog
<1>3. \A j \in jumps : j.gen <= catalog.runGen /\ j.gen <= requested BY DEF DatasetsInv, JumpsOK
<1>4. \A j \in jumps : j.gen <= catalog.runGen + 1 /\ j.gen # catalog.runGen + 1 BY <1>2, <1>3
<1>. QED BY <1>3, <1>4 DEF JumpsOK

LEMMA CancelNext == ASSUME DatasetsInv, CancelCatalog PROVE DatasetsInv'
<1>1. catalog \in Catalog /\ catalog.gen <= MaxRequests BY Types DEF DatasetsInv, CancelCatalog
<1>2. PICK c \in Catalog :
        /\ c = Uncompleted(catalog) /\ c.gen = catalog.gen + 1 /\ c.pending = FALSE
        /\ c.value = Partial(catalog.value) /\ c.open = catalog.open
        /\ c.runGen = catalog.runGen /\ c.asked = catalog.asked
  BY <1>1, UncompletedCatalog
<1>3. /\ catalog' = c /\ Cancelled /\ sweep' = NoSweep
      /\ UNCHANGED <<living, jumps, destination, requested, deletions>>
  BY <1>2 DEF CancelCatalog
<1>4. /\ catalog' \in Catalog /\ sweep' \in Sweep /\ late' \subseteq Event
      /\ CatalogOK' /\ SweepOK' /\ FoundOK' /\ LateOK'
  BY <1>2, <1>3, ScanStops
<1>5. JumpsOK' BY <1>2, <1>3 DEF DatasetsInv, JumpsOK
<1>6. WorkspaceTypeOK' BY <1>3, <1>4 DEF DatasetsInv, WorkspaceTypeOK, Catalog, Sweep, Places, Tokens
<1>. QED BY <1>4, <1>5, <1>6 DEF DatasetsInv

(* Closing, by a key or because a jump arrived.                            *)
LEMMA Closes ==
    ASSUME DatasetsInv, catalog.gen <= MaxRequests, catalog.runGen <= MaxRequests,
           IF catalog.pending
           THEN catalog' = Uncompleted(Away(catalog)) /\ Cancelled /\ sweep' = NoSweep
           ELSE catalog' = Away(catalog) /\ UNCHANGED <<sweep, late>>,
           jumps' \subseteq jumps, destination' \in LoggedRuns \cup {Nobody},
           UNCHANGED <<living, requested, deletions>>
    PROVE  DatasetsInv'
<1>1. catalog \in Catalog BY Types DEF DatasetsInv
<1>2. PICK away \in Catalog :
        /\ away = Away(catalog) /\ away.open = FALSE /\ away.runGen = catalog.runGen + 1
        /\ away.gen = catalog.gen /\ away.pending = catalog.pending
        /\ away.value = catalog.value /\ away.stale = catalog.stale
  BY <1>1, AwayCatalog
<1>3. CASE catalog.pending
  <2>1. PICK c \in Catalog :
          /\ c = Uncompleted(away) /\ c.gen = away.gen + 1 /\ c.pending = FALSE
          /\ c.value = Partial(away.value) /\ c.runGen = away.runGen
    BY <1>2, UncompletedCatalog
  <2>2. catalog' = c /\ Cancelled /\ sweep' = NoSweep BY <1>2, <1>3, <2>1
  <2>3. /\ catalog' \in Catalog /\ sweep' \in Sweep /\ late' \subseteq Event
        /\ CatalogOK' /\ SweepOK' /\ FoundOK' /\ LateOK'
    BY <1>2, <2>1, <2>2, ScanStops
  <2>4. JumpsOK' BY <1>2, <2>1, <2>2, JumpsEnd
  <2>5. WorkspaceTypeOK'
    BY <2>2, <2>3, Types DEF DatasetsInv, WorkspaceTypeOK, Catalog, Sweep, Places, Tokens
  <2>. QED BY <2>3, <2>4, <2>5 DEF DatasetsInv
<1>4. CASE ~catalog.pending
  <2>1. catalog' = away /\ UNCHANGED <<sweep, late>> BY <1>2, <1>4
  <2>2. CatalogOK' /\ SweepOK' /\ FoundOK' /\ LateOK'
    BY <1>2, <2>1 DEF DatasetsInv, CatalogOK, SweepOK, FoundOK, Covered, ToFind, LateOK
  <2>3. JumpsOK' BY <1>2, <2>1, JumpsEnd
  <2>4. WorkspaceTypeOK' BY <1>2, <2>1 DEF DatasetsInv, WorkspaceTypeOK, Catalog
  <2>. QED BY <2>2, <2>3, <2>4 DEF DatasetsInv
<1>. QED BY <1>3, <1>4

LEMMA CloseNext == ASSUME DatasetsInv, CloseCatalog PROVE DatasetsInv'
<1>1. destination \in LoggedRuns \cup {Nobody} BY Types DEF DatasetsInv
<1>. QED BY <1>1, Closes DEF CloseCatalog

(* What may come of the scan before has a smaller number.                  *)
Renumbered == [open : BOOLEAN, gen : Nat, runGen : Gens, pending : BOOLEAN, view : ViewTypes,
               value : Value, stale : BOOLEAN, asked : LoggedRuns \cup {Nobody}]

LEMMA ScanStarts ==
    ASSUME DatasetsInv, NEW c \in Renumbered, StartCatalogScan(c), c.open = catalog.open,
           c.runGen = catalog.runGen, c.asked = catalog.asked,
           ValueOK(c.value), c.stale => ~c.value.complete
    PROVE  DatasetsInv'
<1>1. requested' \in 1..MaxRequests /\ requested' = requested + 1 /\ requested \in 0..MaxRequests
  BY Types, DatasetsNumbers DEF DatasetsInv, StartCatalogScan
<1>2. requested' \in Gens BY <1>1, DatasetsNumbers
<1>3. PICK n : n = [c EXCEPT !.gen = requested', !.pending = TRUE] OBVIOUS
<1>4. /\ n \in Catalog /\ n.gen = requested' /\ n.pending = TRUE /\ n.value = c.value
      /\ n.open = c.open /\ n.runGen = c.runGen /\ n.asked = c.asked /\ n.stale = c.stale
  BY <1>2, <1>3 DEF Catalog, Renumbered
<1>5. catalog' = n /\ Cancelled /\ UNCHANGED <<living, jumps, destination, deletions>>
  BY <1>3 DEF StartCatalogScan
<1>6. PICK throughout \in SUBSET LoggedRuns :
        throughout = {r \in LoggedRuns : Found(r, living, c.view)} OBVIOUS
<1>7. c.view \in ViewTypes BY DEF Renumbered
<1>8. PICK value : value = [NoValue EXCEPT !.view = c.view, !.scope = "target"] OBVIOUS
<1>9. value \in Value /\ value.view = c.view /\ value.complete = FALSE
  BY <1>7, <1>8, Records DEF Value
<1>10. PICK s : s = [NoSweep EXCEPT !.gen = requested', !.at = "experiments", !.value = value,
                                    !.throughout = throughout] OBVIOUS
<1>11. /\ s \in Sweep /\ s.gen = requested' /\ s.at = "experiments" /\ s.value = value
       /\ s.throughout = throughout /\ s.event = NoEvent
       /\ s.token = "first" /\ s.behind = {}
  BY <1>2, <1>9, <1>10, Records DEF Sweep, Places, Tokens
<1>12. sweep' = s BY <1>6, <1>8, <1>10, Records DEF StartCatalogScan, Sweep
<1>13. /\ late' \subseteq Event
       /\ \A v \in late' : v.gen <= catalog.gen /\ v.gen <= requested
  BY <1>5, LateAfterCancel DEF DatasetsInv
<1>14. \A v \in late' : v.gen \in Nat BY <1>13, DatasetsNumbers DEF Event
<1>15. LateOK' BY <1>1, <1>4, <1>5, <1>13, <1>14 DEF LateOK
<1>16. CatalogOK' BY <1>4, <1>5, <1>11, <1>12 DEF CatalogOK
<1>17. SweepOK' BY <1>1, <1>4, <1>5, <1>9, <1>11, <1>12 DEF SweepOK, ValueOK
<1>18. FoundOK' BY <1>5, <1>6, <1>9, <1>11, <1>12 DEF FoundOK, Covered, ToFind
<1>19. JumpsOK'
  <2>1. \A j \in jumps : j.gen \in Nat BY Types, DatasetsNumbers DEF DatasetsInv
  <2>. QED BY <2>1, <1>1, <1>4, <1>5 DEF DatasetsInv, JumpsOK
<1>20. WorkspaceTypeOK'
  BY <1>1, <1>4, <1>5, <1>11, <1>12, <1>13 DEF DatasetsInv, WorkspaceTypeOK, Catalog, Sweep, Places, Tokens
<1>. QED BY <1>15, <1>16, <1>17, <1>18, <1>19, <1>20 DEF DatasetsInv

LEMMA ScanNext == ASSUME DatasetsInv, ScanCatalog PROVE DatasetsInv'
<1>1. catalog \in Catalog BY Types DEF DatasetsInv
<1>2. catalog \in Renumbered BY <1>1, DatasetsNumbers DEF Catalog, Renumbered
<1>. QED BY <1>2, ScanStarts DEF ScanCatalog, DatasetsInv, CatalogOK

LEMMA ViewNext == ASSUME DatasetsInv, ChangeView PROVE DatasetsInv'
<1>1. catalog \in Catalog BY Types DEF DatasetsInv
<1>2. catalog.gen \in Nat /\ catalog.view \in ViewTypes /\ catalog.value \in Value
  BY <1>1, DatasetsNumbers DEF Catalog
<1>3. PICK value \in Value : value = Partial(catalog.value) /\ value.complete = FALSE
  BY <1>2, PartialValue
<1>4. PICK gen \in Nat : gen = catalog.gen + 1 BY <1>2
<1>5. PICK o : o = [catalog EXCEPT !.gen = gen, !.pending = FALSE, !.value = value] OBVIOUS
<1>6. o = Uncompleted(catalog) BY <1>3, <1>4, <1>5 DEF Uncompleted
<1>7. /\ o \in Renumbered /\ o.value = value /\ o.open = catalog.open /\ o.view = catalog.view
      /\ o.runGen = catalog.runGen /\ o.asked = catalog.asked
  BY <1>1, <1>5 DEF Catalog, Renumbered
<1>8. PICK view \in ViewTypes : view = NextView[catalog.view] BY <1>2 DEF NextView, ViewTypes
<1>9. PICK c : c = [o EXCEPT !.view = view] OBVIOUS
<1>10. /\ c \in Renumbered /\ c.value = value /\ c.open = catalog.open
       /\ c.runGen = catalog.runGen /\ c.asked = catalog.asked
  BY <1>7, <1>9 DEF Renumbered
<1>11. StartCatalogScan(c)
  <2>1. c = [Uncompleted(catalog) EXCEPT !.view = NextView[@]] BY <1>6, <1>7, <1>8, <1>9
  <2>. QED BY <2>1 DEF ChangeView
<1>12. ValueOK(c.value) /\ c.value.complete = FALSE BY <1>3, <1>10 DEF ValueOK
<1>. QED BY <1>10, <1>11, <1>12, ScanStarts

(* Only messages of the scan it waits for get past the number.             *)
LEMMA AcceptNext ==
    ASSUME DatasetsInv, NEW v \in late \cup {sweep.event}, AcceptCatalog(v) PROVE DatasetsInv'
<1>0. /\ catalog \in Catalog /\ sweep \in Sweep /\ late \subseteq Event
  BY Types DEF DatasetsInv
<1>1. v # NoEvent /\ UNCHANGED <<living, jumps, destination, requested, deletions>>
  BY DEF AcceptCatalog
<1>2. v \in Event BY <1>0 DEF Sweep
<1>3. v \in late => v.gen # catalog.gen
  <2>1. v.gen \in Nat /\ catalog.gen \in Nat BY <1>0, <1>2, DatasetsNumbers DEF Event, Catalog
  <2>. QED BY <2>1 DEF DatasetsInv, LateOK
<1>4. v = sweep.event => sweep.at # "none" /\ v.gen = catalog.gen /\ ValueOK(v.value)
  BY <1>1 DEF DatasetsInv, SweepOK
<1>5. late' \subseteq late BY DEF AcceptCatalog
<1>6. CASE v # sweep.event
  <2>1. v.gen # catalog.gen BY <1>3, <1>6
  <2>2. UNCHANGED <<catalog, sweep>> BY <1>6, <2>1 DEF AcceptCatalog
  <2>3. CatalogOK' /\ SweepOK' /\ FoundOK' /\ JumpsOK'
    BY <2>2, <1>1 DEF DatasetsInv, CatalogOK, SweepOK, FoundOK, Covered, ToFind, JumpsOK
  <2>4. LateOK' BY <2>2, <1>1, <1>5 DEF DatasetsInv, LateOK
  <2>5. WorkspaceTypeOK' BY <2>2, <1>1, <1>5 DEF DatasetsInv, WorkspaceTypeOK
  <2>. QED BY <2>3, <2>4, <2>5 DEF DatasetsInv
<1>7. CASE v = sweep.event
  <2>1. PICK value : value = IF Kept(v.value) THEN Partial(catalog.value) ELSE v.value OBVIOUS
  <2>2. PICK stale \in BOOLEAN : stale = Kept(v.value) BY DEF Kept
  <2>3. v.value \in Value /\ v.done \in BOOLEAN /\ catalog.value \in Value
    BY <1>0, <1>2 DEF Event, Catalog
  <2>4. value \in Value /\ ValueOK(value) /\ (stale => ~value.complete)
    <3>1. CASE Kept(v.value) BY <3>1, <2>1, <2>3, PartialValue DEF ValueOK
    <3>2. CASE ~Kept(v.value) BY <3>2, <2>1, <2>2, <2>3, <1>4, <1>7
    <3>. QED BY <3>1, <3>2
  <2>5. PICK pending \in BOOLEAN : pending = ~v.done OBVIOUS
  <2>6. PICK c : c = [catalog EXCEPT !.stale = stale, !.pending = pending, !.value = value]
    OBVIOUS
  <2>7. /\ c \in Catalog /\ c.stale = stale /\ c.pending = pending /\ c.value = value
        /\ c.gen = catalog.gen /\ c.runGen = catalog.runGen /\ c.open = catalog.open
        /\ c.asked = catalog.asked
    BY <2>4, <2>6, <1>0 DEF Catalog
  <2>8. catalog' = c BY <2>1, <2>2, <2>5, <2>6, <1>4, <1>7 DEF AcceptCatalog
  <2>9. PICK heard : heard = [sweep EXCEPT !.event = NoEvent] OBVIOUS
  <2>10. /\ heard \in Sweep /\ heard.at = sweep.at /\ heard.gen = sweep.gen
         /\ heard.value = sweep.value /\ heard.failed = sweep.failed /\ heard.todo = sweep.todo
         /\ heard.throughout = sweep.throughout /\ heard.event = NoEvent
         /\ heard.home = sweep.home /\ heard.token = sweep.token /\ heard.behind = sweep.behind
    BY <2>9, <1>0, Records DEF Sweep
  <2>11. sweep' = IF v.done THEN NoSweep ELSE heard BY <2>9, <1>7 DEF AcceptCatalog
  <2>12. CatalogOK'
    BY <2>3, <2>4, <2>5, <2>7, <2>8, <2>10, <2>11, <1>4, <1>7, Records DEF CatalogOK
  <2>13. SweepOK' BY <2>7, <2>8, <2>10, <2>11, <1>1, Records DEF DatasetsInv, SweepOK
  <2>14. FoundOK' BY <2>10, <2>11, <1>1, Records DEF DatasetsInv, FoundOK, Covered, ToFind
  <2>15. LateOK' /\ JumpsOK' BY <2>7, <2>8, <1>1, <1>5 DEF DatasetsInv, LateOK, JumpsOK
  <2>16. sweep' \in Sweep BY <2>10, <2>11, Records
  <2>17. WorkspaceTypeOK'
    BY <2>7, <2>8, <2>16, <1>0, <1>1, <1>5 DEF DatasetsInv, WorkspaceTypeOK, Catalog, Sweep, Places, Tokens
  <2>. QED BY <2>12, <2>13, <2>14, <2>15, <2>17 DEF DatasetsInv
<1>. QED BY <1>6, <1>7

LEMMA JumpNext == ASSUME DatasetsInv, NEW r \in LoggedRuns, JumpCatalogRun(r) PROVE DatasetsInv'
<1>0. catalog \in Catalog /\ requested \in 0..MaxRequests
      /\ jumps \subseteq [gen : Gens, run : LoggedRuns]
  BY Types DEF DatasetsInv
<1>1. requested' = requested + 1 /\ requested' \in 0..MaxRequests /\ requested' \in Gens
  BY <1>0, DatasetsNumbers DEF JumpCatalogRun
<1>2. PICK c : c = [catalog EXCEPT !.runGen = requested', !.asked = r] OBVIOUS
<1>3. /\ c \in Catalog /\ c.open = catalog.open /\ c.runGen = requested' /\ c.asked = r
      /\ c.gen = catalog.gen /\ c.pending = catalog.pending /\ c.value = catalog.value
      /\ c.stale = catalog.stale
  BY <1>0, <1>1, <1>2 DEF Catalog
<1>4. PICK j \in [gen : Gens, run : LoggedRuns] : j = [gen |-> requested', run |-> r] BY <1>1
<1>5. /\ catalog' = c /\ jumps' = jumps \cup {j} /\ catalog.open
      /\ UNCHANGED <<living, sweep, late, destination, deletions>>
  BY <1>2, <1>4 DEF JumpCatalogRun
<1>6. CatalogOK' BY <1>3, <1>5 DEF DatasetsInv, CatalogOK
<1>7. SweepOK'
  <2>1. sweep.gen \in Nat BY Types, DatasetsNumbers DEF DatasetsInv, Sweep
  <2>. QED BY <2>1, <1>0, <1>1, <1>3, <1>5 DEF DatasetsInv, SweepOK
<1>8. FoundOK' BY <1>5 DEF DatasetsInv, FoundOK, Covered, ToFind
<1>9. LateOK'
  <2>1. \A v \in late : v.gen \in Nat BY Types, DatasetsNumbers DEF DatasetsInv, Event
  <2>. QED BY <2>1, <1>0, <1>1, <1>3, <1>5 DEF DatasetsInv, LateOK
<1>10. JumpsOK'
  <2>1. \A i \in jumps : i.gen \in Nat /\ i.gen <= requested BY <1>0, DatasetsNumbers DEF DatasetsInv, JumpsOK
  <2>2. \A i \in jumps : i.gen <= requested' /\ i.gen # requested' BY <2>1, <1>0, <1>1
  <2>3. j.gen = requested' /\ j.run = r /\ requested' <= requested' BY <1>0, <1>1, <1>4
  <2>. QED BY <2>2, <2>3, <1>3, <1>5 DEF JumpsOK
<1>11. WorkspaceTypeOK'
    BY <1>0, <1>1, <1>3, <1>5 DEF DatasetsInv, WorkspaceTypeOK, Catalog, Sweep, Places, Tokens
<1>. QED BY <1>6, <1>7, <1>8, <1>9, <1>10, <1>11 DEF DatasetsInv

LEMMA AcceptRunNext ==
    ASSUME DatasetsInv, NEW j \in jumps, AcceptCatalogRun(j)
    PROVE  /\ DatasetsInv'
           /\ destination' # destination => catalog.open /\ destination' = catalog.asked
<1>0. /\ catalog \in Catalog /\ requested \in 0..MaxRequests /\ sweep \in Sweep
      /\ jumps \subseteq [gen : Gens, run : LoggedRuns]
  BY Types DEF DatasetsInv
<1>1. jumps' \subseteq jumps /\ UNCHANGED <<living, requested, deletions>>
  BY DEF AcceptCatalogRun
<1>2. CASE UNCHANGED <<catalog, sweep, late, destination>>
  <2>1. CatalogOK' /\ SweepOK' /\ FoundOK' /\ LateOK' /\ JumpsOK'
    BY <1>1, <1>2 DEF DatasetsInv, CatalogOK, SweepOK, FoundOK, Covered, ToFind, LateOK,
     JumpsOK
  <2>2. WorkspaceTypeOK' BY <1>1, <1>2 DEF DatasetsInv, WorkspaceTypeOK
  <2>. QED BY <1>2, <2>1, <2>2 DEF DatasetsInv
<1>3. CASE /\ catalog.open /\ catalog.runGen = j.gen /\ destination' = j.run
           /\ IF catalog.pending
              THEN catalog' = Uncompleted(Away(catalog)) /\ Cancelled /\ sweep' = NoSweep
              ELSE catalog' = Away(catalog) /\ UNCHANGED <<sweep, late>>
  <2>1. j.run = catalog.asked /\ j.gen <= requested BY <1>3 DEF DatasetsInv, JumpsOK
  <2>2. catalog.runGen <= MaxRequests
    <3>1. j.gen \in Nat BY <1>0, DatasetsNumbers
    <3>. QED BY <3>1, <2>1, <1>0, <1>3, DatasetsNumbers
  <2>3. destination' \in LoggedRuns \cup {Nobody} BY <1>0, <1>3
  <2>4. CASE catalog.pending
    <3>1. catalog.gen \in 1..requested BY <2>4 DEF DatasetsInv, CatalogOK, SweepOK
    <3>2. catalog.gen <= MaxRequests BY <3>1, <1>0, DatasetsNumbers
    <3>. QED BY <3>2, <1>1, <1>3, <2>1, <2>2, <2>3, Closes
  <2>5. CASE ~catalog.pending
    <3>1. PICK away \in Catalog :
            /\ away = Away(catalog) /\ away.open = FALSE /\ away.runGen = catalog.runGen + 1
            /\ away.gen = catalog.gen /\ away.pending = catalog.pending
            /\ away.value = catalog.value /\ away.stale = catalog.stale
      BY <1>0, <2>2, AwayCatalog
    <3>2. catalog' = away /\ UNCHANGED <<sweep, late>> BY <1>3, <2>5, <3>1
    <3>3. CatalogOK' /\ SweepOK' /\ FoundOK' /\ LateOK'
      BY <1>1, <3>1, <3>2 DEF DatasetsInv, CatalogOK, SweepOK, FoundOK, Covered, ToFind, LateOK
    <3>4. JumpsOK' BY <1>1, <3>1, <3>2, JumpsEnd
    <3>5. WorkspaceTypeOK' BY <1>1, <2>3, <3>1, <3>2 DEF DatasetsInv, WorkspaceTypeOK, Catalog
    <3>. QED BY <1>3, <2>1, <3>3, <3>4, <3>5 DEF DatasetsInv
  <2>. QED BY <2>4, <2>5
<1>. QED BY <1>2, <1>3 DEF AcceptCatalogRun

(* A change shifts what is before the place in the list: only what it      *)
(* skips, or what it changes, comes to be behind it.                       *)
LEMMA Shifted ==
    ASSUME NEW x, NEW alive, NEW behind \in Shifts(x, alive), NEW y \in Listing(sweep, living),
           y \notin sweep.behind, y \in behind, y \notin sweep.todo \cup sweep.value.runs
    PROVE  y \in Skipped(x, behind)
<1>1. CASE x \in sweep.behind \ Listing(sweep, alive)
  BY <1>1 DEF Shifts, Skipped
<1>2. CASE x \notin sweep.behind \ Listing(sweep, alive)
  <2>1. CASE x \in Listing(sweep, alive) \ Listing(sweep, living)
    BY <1>2, <2>1 DEF Shifts, Skipped
  <2>2. CASE x \notin Listing(sweep, alive) \ Listing(sweep, living)
    BY <1>2, <2>2 DEF Shifts, Skipped
  <2>. QED BY <2>1, <2>2
<1>. QED BY <1>1, <1>2

LEMMA ShiftsType ==
    ASSUME sweep \in Sweep, NEW x \in LoggedRuns \cup Homes, NEW alive,
           NEW behind \in Shifts(x, alive)
    PROVE  behind \subseteq LoggedRuns \cup Homes
<1>1. sweep.behind \subseteq LoggedRuns \cup Homes BY DEF Sweep
<1>2. Listing(sweep, alive) \subseteq LoggedRuns \cup Homes BY DEF Listing
<1>. QED BY <1>1, <1>2 DEF Shifts

(* What leaves the view of a scan, or is skipped, need not be found by it. *)
LEMMA LifecycleNext == ASSUME DatasetsInv, NEW x \in Deletable, ChangeLifecycle(x) PROVE DatasetsInv'
<1>0. /\ sweep \in Sweep /\ deletions \in 0..MaxDeletions /\ living \subseteq LoggedRuns \cup Homes
      /\ x \in LoggedRuns \cup Homes
  BY Types, WorkspaceAssumption DEF DatasetsInv, LoggedRuns, Homes
<1>1. PICK behind \in Shifts(x, living') :
        sweep' = [sweep EXCEPT !.behind = behind,
                    !.throughout = {r \in @ : /\ Found(r, living', sweep.value.view)
                                              /\ {r, Home[r]} \cap Skipped(x, behind) = {}}]
  BY DEF ChangeLifecycle
<1>2. PICK throughout \in SUBSET LoggedRuns :
        throughout = {r \in sweep.throughout : /\ Found(r, living', sweep.value.view)
                                               /\ {r, Home[r]} \cap Skipped(x, behind) = {}}
  BY <1>0 DEF Sweep
<1>3. behind \in SUBSET (LoggedRuns \cup Homes) BY <1>0, ShiftsType
<1>4. PICK s : s = [sweep EXCEPT !.behind = behind, !.throughout = throughout] OBVIOUS
<1>5. /\ s \in Sweep /\ s.at = sweep.at /\ s.gen = sweep.gen /\ s.value = sweep.value
      /\ s.failed = sweep.failed /\ s.todo = sweep.todo /\ s.throughout = throughout
      /\ s.event = sweep.event /\ s.home = sweep.home /\ s.token = sweep.token
      /\ s.behind = behind
  BY <1>0, <1>3, <1>4 DEF Sweep
<1>6. sweep' = s /\ UNCHANGED <<catalog, late, jumps, destination, requested>>
  BY <1>0, <1>1, <1>2, <1>4 DEF ChangeLifecycle, Sweep
<1>7. CatalogOK' /\ SweepOK' /\ LateOK' /\ JumpsOK'
  BY <1>5, <1>6 DEF DatasetsInv, CatalogOK, SweepOK, LateOK, JumpsOK
<1>8. ASSUME sweep.at \in {"experiments", "runs"}, ~sweep.failed, NEW r \in throughout
      PROVE  ToFind(s, r)
  <2>1. r \in sweep.throughout /\ {r, Home[r]} \cap Skipped(x, behind) = {} BY <1>2
  <2>2. ToFind(sweep, r) /\ Found(r, living, sweep.value.view)
    BY <2>1, <1>8 DEF DatasetsInv, FoundOK, Covered
  <2>3. r \in LoggedRuns /\ Home[r] \in Homes BY <1>0, <2>1 DEF Sweep, Homes
  <2>4. r \notin sweep.todo /\ Home[r] \notin sweep.value.runs
    BY <1>0, <2>3, WorkspaceAssumption DEF Sweep, Value, Homes, LoggedRuns
  <2>5. CASE r \in sweep.value.runs \/ Home[r] \in sweep.todo BY <2>5, <1>5 DEF ToFind
  <2>6. CASE /\ ~(r \in sweep.value.runs \/ Home[r] \in sweep.todo)
             /\ sweep.at = "experiments" /\ sweep.token # "none" /\ Home[r] \notin sweep.behind
    <3>1. Home[r] \in Listing(sweep, living) BY <1>0, <2>2, <2>3, <2>6, Listed
    <3>2. Home[r] \notin behind BY <3>1, <2>1, <2>4, <2>6, Shifted
    <3>. QED BY <3>2, <2>6, <1>5 DEF ToFind
  <2>7. CASE /\ ~(r \in sweep.value.runs \/ Home[r] \in sweep.todo)
             /\ sweep.at = "runs" /\ sweep.token # "none" /\ Home[r] = sweep.home
             /\ r \notin sweep.behind
    <3>1. r \in Listing(sweep, living) BY <1>0, <2>2, <2>3, <2>7, Listed
    <3>2. r \notin behind BY <3>1, <2>1, <2>4, <2>7, Shifted
    <3>. QED BY <3>2, <2>7, <1>5 DEF ToFind
  <2>. QED BY <2>2, <2>5, <2>6, <2>7 DEF ToFind
<1>9. FoundOK'
  <2>1. Covered(sweep)' BY <1>5, <1>6, <1>8 DEF Covered, ToFind
  <2>. QED BY <2>1, <1>2, <1>5, <1>6 DEF FoundOK
<1>10. deletions' \in 0..MaxDeletions /\ living' \subseteq LoggedRuns \cup Homes
  BY <1>0, DatasetsNumbers DEF ChangeLifecycle
<1>11. WorkspaceTypeOK'
    BY <1>5, <1>6, <1>10 DEF DatasetsInv, WorkspaceTypeOK, Catalog, Sweep, Places, Tokens
<1>. QED BY <1>7, <1>9, <1>11 DEF DatasetsInv

-----------------------------------------------------------------------------
(* All steps.                                                              *)

LEMMA DatasetsInvInit == WorkspaceInit => DatasetsInv
<1>. SUFFICES ASSUME WorkspaceInit PROVE DatasetsInv OBVIOUS
<1>1. 0 \in Gens /\ 0 \in 0..MaxRequests /\ 0 \in 0..MaxDeletions BY DatasetsNumbers DEF Gens
<1>2. catalog \in Catalog BY <1>1, Records DEF WorkspaceInit, Catalog, ViewTypes
<1>3. WorkspaceTypeOK BY <1>1, <1>2, Records, Types DEF WorkspaceInit
<1>4. CatalogOK /\ SweepOK /\ FoundOK /\ LateOK /\ JumpsOK
  BY Records DEF WorkspaceInit, CatalogOK, SweepOK, FoundOK, Covered, ToFind, LateOK,
     JumpsOK
<1>. QED BY <1>3, <1>4 DEF DatasetsInv

LEMMA DatasetsInvNext == ASSUME DatasetsInv, [WorkspaceNext]_workspaceVars PROVE DatasetsInv'
<1>1. CASE FindExperiments BY <1>1, FindNext
<1>2. CASE FinishScan BY <1>2, FinishNext
<1>3. CASE AnswerScan BY <1>3, AnswerNext
<1>4. CASE CancelCatalog BY <1>4, CancelNext
<1>5. CASE CloseCatalog BY <1>5, CloseNext
<1>6. CASE ScanCatalog BY <1>6, ScanNext
<1>7. CASE ChangeView BY <1>7, ViewNext
<1>8. CASE \E e \in Homes : SearchExperiment(e) BY <1>8, SearchNext
<1>9. CASE \E loaded \in LoadedRuns : OpenCatalog(loaded) BY <1>9, OpenNext
<1>10. CASE \E v \in late \cup {sweep.event} : AcceptCatalog(v) BY <1>10, AcceptNext
<1>11. CASE \E r \in LoggedRuns : JumpCatalogRun(r) BY <1>11, JumpNext
<1>12. CASE \E j \in jumps : AcceptCatalogRun(j) BY <1>12, AcceptRunNext
<1>13. CASE \E x \in Deletable : ChangeLifecycle(x) BY <1>13, LifecycleNext
<1>14. CASE UNCHANGED workspaceVars
  BY <1>14 DEF workspaceVars, DatasetsInv, WorkspaceTypeOK, CatalogOK, SweepOK, FoundOK, Covered, ToFind,
     LateOK, JumpsOK
<1>15. CASE TellExperiments BY <1>15, TellNext
<1>16. CASE LeaveExperiment BY <1>16, LeaveNext
<1>. QED BY <1>1, <1>2, <1>3, <1>4, <1>5, <1>6, <1>7, <1>8, <1>9, <1>10, <1>11, <1>12, <1>13,
           <1>14, <1>15, <1>16 DEF WorkspaceNext

LEMMA JumpsWereAsked == ASSUME DatasetsInv, [WorkspaceNext]_workspaceVars PROVE JumpsAreAsked
<1>1. CASE \E j \in jumps : AcceptCatalogRun(j) BY <1>1, AcceptRunNext DEF JumpsAreAsked
<1>2. CASE UNCHANGED destination BY <1>2 DEF JumpsAreAsked
<1>. QED
  BY <1>1, <1>2 DEF WorkspaceNext, workspaceVars, FindExperiments, TellExperiments,
     LeaveExperiment, FinishScan, AnswerScan,
     CancelCatalog, CloseCatalog, ScanCatalog, ChangeView, StartCatalogScan, SearchExperiment,
     OpenCatalog, AcceptCatalog, JumpCatalogRun, ChangeLifecycle

(* Where catalogs, scans and messages stay within their types.             *)
THEOREM CatalogsTypeCorrect == WorkspaceSpec => []WorkspaceTypeOK
<1>1. DatasetsInv => WorkspaceTypeOK BY DEF DatasetsInv
<1>. QED BY <1>1, DatasetsInvInit, DatasetsInvNext, PTL DEF WorkspaceSpec

(* CatalogsAreHonest: a complete catalog has every run that was in view    *)
(* all through its scan, a pending one hears of its own scan, and the      *)
(* terminal jumps only where the user last asked to.                       *)
THEOREM CatalogsAreAlwaysHonest == WorkspaceSpec => CatalogsAreHonest
<1>1. DatasetsInv => CompleteIsAll /\ ScanningIsHeard
  BY DEF DatasetsInv, CatalogOK, ValueOK, SweepOK, CompleteIsAll, ScanningIsHeard
<1>2. ASSUME DatasetsInv, [WorkspaceNext]_workspaceVars
      PROVE  [CompleteIsAll' /\ ScanningIsHeard' /\ JumpsAreAsked]_workspaceVars
  <2>1. DatasetsInv' BY <1>2, DatasetsInvNext
  <2>2. CompleteIsAll' /\ ScanningIsHeard' BY <1>1, <2>1, PTL
  <2>3. JumpsAreAsked BY <1>2, JumpsWereAsked
  <2>. QED BY <2>2, <2>3
<1>. QED BY <1>2, DatasetsInvInit, DatasetsInvNext, PTL DEF WorkspaceSpec, CatalogsAreHonest
=============================================================================

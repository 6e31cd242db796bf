---------------------------- MODULE ScreenProofs ----------------------------
(***************************************************************************)
(* Theorems of Rows, RunDetails, ActivityLists, TerminalTargets,           *)
(* ActivityScreen and Summaries: answers that arrive late, or out of order. *)
(***************************************************************************)
EXTENDS Rows, RunDetails, ActivityLists, TerminalTargets, ActivityScreen, Summaries, SequenceTheorems, WellFoundedInduction, TLAPS

-----------------------------------------------------------------------------
(* Among, for any rows and any runs: what of them it has, and how much.    *)
(* It is the last of a sequence of filters, each of one row more, so what  *)
(* it is takes induction over the rows.                                    *)

(* Induction over the numbers, for a set of them.                          *)
LEMMA NatSetInduction ==
  ASSUME NEW S, 0 \in S, \A n \in Nat : n \in S => n + 1 \in S
  PROVE  Nat \subseteq S
<1> DEFINE R == {ss \in Nat \X Nat : ss[1] < ss[2]}
<1>1. IsWellFoundedOn(R, Nat)
  BY NatLessThanWellFounded DEF OpToRel
<1>2. SUFFICES ASSUME Nat \ S # {} PROVE FALSE
  OBVIOUS
<1>3. PICK x \in Nat \ S : \A y \in Nat \ S : ~ (<<y, x>> \in R)
  <2> HIDE DEF R
  <2> QED BY <1>1, <1>2, WFMin
<1>4. x # 0 /\ x - 1 \in Nat
  BY <1>3
<1>5. <<x - 1, x>> \in R
  BY <1>4
<1>6. x - 1 \in S
  BY <1>3, <1>4, <1>5
<1> QED
  BY <1>3, <1>4, <1>6

(* f is the filter of rows by S up to n.                                   *)
Filter(f, n, rows, S) ==
    f = [k \in 0..n |->
           IF k = 0 THEN <<>>
           ELSE IF rows[k] \in S THEN Append(f[k - 1], rows[k]) ELSE f[k - 1]]

(* Such a function exists, so that the one Among chooses is one.           *)
LEMMA FilterExists ==
  ASSUME NEW rows, NEW S
  PROVE  \A n \in Nat : \E f : Filter(f, n, rows, S)
<1> DEFINE Done == {n \in Nat : \E f : Filter(f, n, rows, S)}
<1>1. 0 \in Done
  <2>1. Filter([k \in 0..0 |-> <<>>], 0, rows, S)
    BY DEF Filter
  <2> QED
    BY <2>1
<1>2. ASSUME NEW n \in Nat, n \in Done PROVE n + 1 \in Done
  <2>1. PICK f : Filter(f, n, rows, S)
    BY <1>2
  <2>2. PICK g : g = [k \in 0..(n + 1) |->
          IF k = n + 1 THEN IF rows[k] \in S THEN Append(f[n], rows[k]) ELSE f[n] ELSE f[k]]
    OBVIOUS
  <2>3. ASSUME NEW k \in 0..(n + 1)
        PROVE  g[k] = IF k = 0 THEN <<>>
                      ELSE IF rows[k] \in S THEN Append(g[k - 1], rows[k]) ELSE g[k - 1]
    <3>1. CASE k = n + 1
      <4>1. k # 0 /\ k - 1 = n /\ g[k - 1] = f[n]
        BY <2>2, <3>1
      <4>2. g[k] = IF rows[k] \in S THEN Append(f[n], rows[k]) ELSE f[n]
        BY <2>2, <3>1
      <4> QED
        BY <4>1, <4>2
    <3>2. CASE k # n + 1
      <4>1. k \in 0..n /\ g[k] = f[k] /\ (k # 0 => k - 1 \in 0..n /\ g[k - 1] = f[k - 1])
        BY <2>2, <3>2
      <4>2. f[k] = IF k = 0 THEN <<>>
                   ELSE IF rows[k] \in S THEN Append(f[k - 1], rows[k]) ELSE f[k - 1]
        BY <2>1, <4>1 DEF Filter
      <4> QED
        BY <4>1, <4>2
    <3> QED
      BY <3>1, <3>2
  <2>4. Filter(g, n + 1, rows, S)
    BY <2>2, <2>3 DEF Filter
  <2> QED
    BY <2>4
<1> HIDE DEF Done
<1>3. Nat \subseteq Done
  BY <1>1, <1>2, NatSetInduction
<1> QED
  BY <1>3 DEF Done

LEMMA AmongIsFilter ==
  ASSUME NEW Q, NEW rows \in Seq(Q), NEW S
  PROVE  \E h : Filter(h, Len(rows), rows, S) /\ Among(rows, S) = h[Len(rows)]
<1>1. Len(rows) \in Nat
  OBVIOUS
<1>2. PICK g : Filter(g, Len(rows), rows, S)
  BY <1>1, FilterExists
<1>3. PICK f : f = CHOOSE h : Filter(h, Len(rows), rows, S)
  OBVIOUS
<1>4. Filter(f, Len(rows), rows, S)
  BY <1>2, <1>3
<1>5. Among(rows, S) = f[Len(rows)]
  BY <1>3 DEF Among, Filter
<1> QED
  BY <1>4, <1>5

(* How much of the rows the filter has after n of them.                    *)
Filtered(q, n, rows, S) ==
    /\ q \in Seq({rows[i] : i \in 1..n} \cap S)
    /\ \A i \in 1..n : rows[i] \in S => \E j \in DOMAIN q : q[j] = rows[i]
    /\ Len(q) <= n
    /\ (\E i \in 1..n : rows[i] \notin S) => Len(q) < n

LEMMA AmongIsFiltered ==
  ASSUME NEW Q, NEW rows \in Seq(Q), NEW S
  PROVE  Filtered(Among(rows, S), Len(rows), rows, S)
<1>1. PICK f : Filter(f, Len(rows), rows, S) /\ Among(rows, S) = f[Len(rows)]
  BY AmongIsFilter
<1>2. Len(rows) \in Nat
  OBVIOUS
<1> DEFINE Done == {n \in Nat : n <= Len(rows) => Filtered(f[n], n, rows, S)}
<1>3. 0 \in Done
  <2>1. f[0] = <<>>
    BY <1>1, <1>2 DEF Filter
  <2>2. <<>> \in Seq({rows[i] : i \in 1..0} \cap S) /\ Len(<<>>) = 0
    BY EmptySeq
  <2>3. 1..0 = {}
    OBVIOUS
  <2>4. Filtered(<<>>, 0, rows, S)
    BY <2>2, <2>3 DEF Filtered
  <2> QED
    BY <2>1, <2>4
<1>4. ASSUME NEW n \in Nat, n \in Done PROVE n + 1 \in Done
  <2> SUFFICES ASSUME n + 1 <= Len(rows) PROVE Filtered(f[n + 1], n + 1, rows, S)
    OBVIOUS
  <2>1. Filtered(f[n], n, rows, S)
    BY <1>2, <1>4
  <2>2. f[n + 1] = IF rows[n + 1] \in S THEN Append(f[n], rows[n + 1]) ELSE f[n]
    <3>1. n + 1 \in 0..Len(rows) /\ n + 1 # 0 /\ (n + 1) - 1 = n
      BY <1>2
    <3> QED
      BY <1>1, <3>1 DEF Filter
  <2>3. PICK A : A = {rows[i] : i \in 1..n} \cap S
    OBVIOUS
  <2>4. PICK B : B = {rows[i] : i \in 1..(n + 1)} \cap S
    OBVIOUS
  <2>5. A \subseteq B
    BY <2>3, <2>4
  <2>6. PICK q \in Seq(B) : q = f[n]
    BY <2>1, <2>3, <2>5, SeqMonotonic DEF Filtered
  <2>7. CASE rows[n + 1] \in S
    <3>1. PICK x \in B : x = rows[n + 1]
      BY <2>4, <2>7
    <3>2. f[n + 1] = Append(q, x)
      BY <2>2, <2>6, <2>7, <3>1
    <3>3. /\ Append(q, x) \in Seq(B) /\ Len(Append(q, x)) = Len(q) + 1 /\ Len(q) \in Nat
          /\ Append(q, x)[Len(q) + 1] = x
          /\ \A j \in 1..Len(q) : Append(q, x)[j] = q[j]
      BY AppendProperties
    <3>4. ASSUME NEW i \in 1..(n + 1), rows[i] \in S
          PROVE  \E j \in 1..(Len(q) + 1) : Append(q, x)[j] = rows[i]
      <4>1. CASE i = n + 1
        BY <3>1, <3>3, <4>1
      <4>2. CASE i # n + 1
        <5>1. i \in 1..n
          BY <4>2
        <5>2. PICK j \in DOMAIN q : q[j] = rows[i]
          BY <2>1, <2>6, <3>4, <5>1 DEF Filtered
        <5> QED
          BY <3>3, <5>2
      <4> QED
        BY <4>1, <4>2
    <3>5. DOMAIN Append(q, x) = 1..(Len(q) + 1)
      BY <3>3
    <3>6. Len(q) + 1 <= n + 1
      BY <2>1, <2>6, <3>3 DEF Filtered
    <3>7. (\E i \in 1..(n + 1) : rows[i] \notin S) => Len(q) + 1 < n + 1
      BY <2>1, <2>6, <2>7, <3>3 DEF Filtered
    <3> QED
      BY <2>4, <3>2, <3>3, <3>4, <3>5, <3>6, <3>7 DEF Filtered
  <2>8. CASE rows[n + 1] \notin S
    <3>1. f[n + 1] = q /\ Len(q) \in Nat
      BY <2>2, <2>6, <2>8
    <3>2. ASSUME NEW i \in 1..(n + 1), rows[i] \in S
          PROVE  \E j \in DOMAIN q : q[j] = rows[i]
      BY <2>1, <2>6, <2>8, <3>2 DEF Filtered
    <3>3. Len(q) <= n
      BY <2>1, <2>6 DEF Filtered
    <3> QED
      BY <2>4, <3>1, <3>2, <3>3 DEF Filtered
  <2> QED
    BY <2>7, <2>8
<1> HIDE DEF Done
<1>5. Nat \subseteq Done
  BY <1>3, <1>4, NatSetInduction
<1> QED
  BY <1>1, <1>2, <1>5 DEF Done

-----------------------------------------------------------------------------
(***************************************************************************)
(* Theorems of RunDetails: what is shown of a run is as new as its date,   *)
(* for any runs and lookups and any order of their answers.                *)
(*                                                                         *)
(* A date never lies ahead of the clock, so a run that finishes now makes  *)
(* nothing wrong that is dated already.  What bears a date was found after *)
(* it: an answer, a record, and by that whatever is merged from them.      *)
(***************************************************************************)

(* A status found at some time after t, of a run that finishes once.       *)
Knows(r, t, finished) == FinishedBefore(r, t) => finished

ClockInv == \A r \in DetailedRuns : finishedAt[r] <= clock

RecordOK(r) == observed[r].at <= clock /\ Knows(r, observed[r].at, observed[r].finished)

DetailOK(r) ==
    /\ details[r].at <= clock
    /\ details[r].known /\ ~details[r].paged => Knows(r, details[r].at, details[r].finished)

LookupOK(k) ==
    /\ lookup[k].started <= clock
    /\ lookup[k].stage = "done" =>
         \A r \in lookup[k].runs : Knows(r, lookup[k].started, r \in lookup[k].finished)

DetailsInv ==
    /\ DetailsTypeOK /\ ClockInv
    /\ \A r \in DetailedRuns : RecordOK(r) /\ DetailOK(r)
    /\ \A k \in LookupKinds : LookupOK(k)

-----------------------------------------------------------------------------
(* What is found, and what becomes of it.                                  *)

LEMMA FoundIsKnown ==
    ASSUME NEW r \in DetailedRuns, NEW t, NEW b \in MayFind(r, t)
    PROVE  b \in BOOLEAN /\ Knows(r, t, b)
BY DEF MayFind, Knows

(* A run that finishes now has not finished before any date.               *)
LEMMA KnowsStays ==
    ASSUME DetailsTypeOK, NEW r \in DetailedRuns, NEW t \in Times, NEW b \in BOOLEAN,
           Knows(r, t, b), t <= clock,
           finishedAt'[r] = finishedAt[r] \/ (finishedAt[r] = 0 /\ finishedAt'[r] = clock)
    PROVE  Knows(r, t, b)'
BY DEF Knows, FinishedBefore, DetailsTypeOK, Times

LEMMA TypeInv == DetailsTypeOK => clock \in Times
BY RunDetailsAssumption DEF DetailsTypeOK, Times

LEMMA MergedIsDated ==
    ASSUME NEW r \in DetailedRuns, NEW d \in Detail, NEW o \in Observation, NEW now \in Times,
           d.at <= now, o.at <= now,
           d.known /\ ~d.paged => Knows(r, d.at, d.finished), Knows(r, o.at, o.finished)
    PROVE  /\ Merged(d, o) \in Detail /\ Merged(d, o).at <= now
           /\ Merged(d, o).known /\ ~Merged(d, o).paged =>
                Knows(r, Merged(d, o).at, Merged(d, o).finished)
<1>1. CASE o.at = 0 \/ o.at < d.at
  BY <1>1 DEF Merged
<1>2. CASE ~(o.at = 0 \/ o.at < d.at)
  <2>1. PICK m : m = [d EXCEPT !.at = o.at, !.finished = d.known /\ o.finished, !.paged = FALSE]
    OBVIOUS
  <2>2. Merged(d, o) = m
    BY <1>2, <2>1 DEF Merged
  <2>3. d.known \in BOOLEAN /\ o.finished \in BOOLEAN /\ o.at \in Times
    BY DEF Detail, Observation
  <2>4. m \in Detail /\ m.at = o.at /\ m.known = d.known /\ m.finished = (d.known /\ o.finished)
    BY <2>1 DEF Detail, Observation
  <2>5. m.known => m.finished = o.finished
    BY <2>4 DEF Detail, Observation
  <2> QED
    BY <2>2, <2>4, <2>5 DEF Knows
<1> QED
  BY <1>1, <1>2

(* Dates that are right, and not ahead of the clock, stay so.              *)
KeepsDates ==
    /\ clock' \in 1..MaxTime /\ clock <= clock'
    /\ \A r \in DetailedRuns, t \in Times, b \in BOOLEAN :
          Knows(r, t, b) /\ t <= clock => Knows(r, t, b)' /\ t <= clock'

LEMMA DatesStay ==
    ASSUME DetailsInv,
           clock' = clock \/ (clock' = clock + 1 /\ clock < MaxTime),
           \A r \in DetailedRuns :
              finishedAt'[r] = finishedAt[r] \/ (finishedAt[r] = 0 /\ finishedAt'[r] = clock),
           finishedAt' \in [DetailedRuns -> Times]
    PROVE  KeepsDates /\ ClockInv'
<1>1. /\ clock' \in 1..MaxTime /\ clock <= clock' /\ clock \in Nat /\ clock' \in Nat
  BY RunDetailsAssumption DEF DetailsInv, DetailsTypeOK
<1>2. ClockInv'
  BY <1>1 DEF DetailsInv, ClockInv, DetailsTypeOK, Times
<1>3. ASSUME NEW r \in DetailedRuns, NEW t \in Times, NEW b \in BOOLEAN,
             Knows(r, t, b), t <= clock
      PROVE  Knows(r, t, b)' /\ t <= clock'
  BY <1>1, <1>3, KnowsStays DEF DetailsInv, Times
<1> QED
  BY <1>1, <1>2, <1>3 DEF KeepsDates

LEMMA RecordStays ==
    ASSUME DetailsInv, KeepsDates, NEW r \in DetailedRuns, observed'[r] = observed[r] PROVE RecordOK(r)'
<1>1. observed[r].at \in Times /\ observed[r].finished \in BOOLEAN
  BY DEF DetailsInv, DetailsTypeOK, Observation
<1>2. PICK t \in Times : t = observed[r].at
  BY <1>1
<1>3. PICK b \in BOOLEAN : b = observed[r].finished
  BY <1>1
<1>4. Knows(r, t, b) /\ t <= clock
  BY <1>2, <1>3 DEF DetailsInv, RecordOK
<1>5. Knows(r, t, b)' /\ t <= clock'
  BY <1>4 DEF KeepsDates
<1> QED
  BY <1>2, <1>3, <1>5 DEF Knows, RecordOK

LEMMA DetailStays ==
    ASSUME DetailsInv, KeepsDates, NEW r \in DetailedRuns, details'[r] = details[r] PROVE DetailOK(r)'
<1>1. details[r].at \in Times /\ details[r].finished \in BOOLEAN
  BY DEF DetailsInv, DetailsTypeOK, Detail
<1>2. PICK t \in Times : t = details[r].at
  BY <1>1
<1>3. PICK b \in BOOLEAN : b = details[r].finished
  BY <1>1
<1>4. t <= clock /\ (details[r].known /\ ~details[r].paged => Knows(r, t, b))
  BY <1>2, <1>3 DEF DetailsInv, DetailOK
<1>5. t <= clock'
  BY <1>4, RunDetailsAssumption DEF Times, DetailsInv, DetailsTypeOK, KeepsDates
<1>6. details[r].known /\ ~details[r].paged => Knows(r, t, b)'
  BY <1>4 DEF KeepsDates
<1> QED
  BY <1>2, <1>3, <1>5, <1>6 DEF Knows, DetailOK

LEMMA LookupStays ==
    ASSUME DetailsInv, KeepsDates, NEW k \in LookupKinds, lookup'[k] = lookup[k] PROVE LookupOK(k)'
<1>1. lookup[k].started \in Times /\ lookup[k].runs \subseteq DetailedRuns
  BY DEF DetailsInv, DetailsTypeOK, Lookup
<1>2. PICK t \in Times : t = lookup[k].started
  BY <1>1
<1>3. t <= clock
  BY <1>2 DEF DetailsInv, LookupOK
<1>4. t <= clock'
  BY <1>3, RunDetailsAssumption DEF Times, DetailsInv, DetailsTypeOK, KeepsDates
<1>5. ASSUME lookup[k].stage = "done", NEW r \in lookup[k].runs
      PROVE  Knows(r, lookup[k].started, r \in lookup[k].finished)'
  <2>1. PICK b \in BOOLEAN : b <=> r \in lookup[k].finished
    OBVIOUS
  <2>2. Knows(r, t, b)
    BY <1>2, <1>5, <2>1 DEF DetailsInv, LookupOK, Knows
  <2>3. Knows(r, t, b)'
    BY <1>1, <1>3, <1>5, <2>2 DEF KeepsDates
  <2> QED
    BY <1>2, <2>1, <2>3 DEF Knows
<1> QED
  BY <1>2, <1>4, <1>5 DEF LookupOK

-----------------------------------------------------------------------------
(* The steps.                                                              *)

LEMMA KeepsNow ==
    ASSUME DetailsInv, UNCHANGED <<clock, finishedAt>> PROVE KeepsDates /\ ClockInv'
BY DatesStay DEF DetailsInv, DetailsTypeOK

LEMMA InvPassTime == ASSUME DetailsInv, PassTime PROVE DetailsInv'
<1>1. KeepsDates /\ ClockInv'
  BY DatesStay DEF PassTime, DetailsInv, DetailsTypeOK
<1>2. DetailsTypeOK'
  BY <1>1 DEF PassTime, DetailsInv, DetailsTypeOK, KeepsDates
<1> QED
  BY <1>1, <1>2, RecordStays, DetailStays, LookupStays DEF PassTime, DetailsInv

LEMMA InvFinishRun == ASSUME DetailsInv, NEW r \in DetailedRuns, FinishRun(r) PROVE DetailsInv'
<1>1. /\ finishedAt' \in [DetailedRuns -> Times]
      /\ \A q \in DetailedRuns :
           finishedAt'[q] = finishedAt[q] \/ (finishedAt[q] = 0 /\ finishedAt'[q] = clock)
  BY TypeInv DEF FinishRun, DetailsInv, DetailsTypeOK
<1>2. KeepsDates /\ ClockInv'
  BY <1>1, DatesStay DEF FinishRun
<1>3. DetailsTypeOK'
  BY <1>1 DEF FinishRun, DetailsInv, DetailsTypeOK
<1> QED
  BY <1>2, <1>3, RecordStays, DetailStays, LookupStays DEF FinishRun, DetailsInv

LEMMA InvAcceptRecord ==
    ASSUME DetailsInv, NEW r \in DetailedRuns, NEW t \in 1..clock, AcceptRecord(r, t) PROVE DetailsInv'
<1>1. KeepsDates /\ ClockInv'
  BY KeepsNow DEF AcceptRecord
<1>2. t \in Times /\ t <= clock /\ clock \in Times
  BY TypeInv, RunDetailsAssumption DEF DetailsInv, DetailsTypeOK, Times
<1>3. PICK found \in MayFind(r, t) :
        observed' = [observed EXCEPT ![r] = [at |-> t, finished |-> found]]
  BY DEF AcceptRecord
<1>4. found \in BOOLEAN /\ Knows(r, t, found)
  BY <1>3, FoundIsKnown
<1>5. PICK o : o = [at |-> t, finished |-> found]
  OBVIOUS
<1>6. o \in Observation /\ o.at = t /\ Knows(r, o.at, o.finished)
  BY <1>2, <1>4, <1>5 DEF Observation
<1>7. /\ observed' \in [DetailedRuns -> Observation] /\ observed'[r] = o
      /\ \A q \in DetailedRuns \ {r} : observed'[q] = observed[q]
  BY <1>3, <1>5, <1>6 DEF DetailsInv, DetailsTypeOK
<1>8. PICK d : d = Merged(details[r], o)
  OBVIOUS
<1>9. /\ d \in Detail /\ d.at <= clock
      /\ d.known /\ ~d.paged => Knows(r, d.at, d.finished)
  <2>1. /\ details[r] \in Detail /\ details[r].at <= clock
        /\ details[r].known /\ ~details[r].paged => Knows(r, details[r].at, details[r].finished)
    BY DEF DetailsInv, DetailsTypeOK, DetailOK
  <2> QED
    BY <1>2, <1>6, <1>8, <2>1, MergedIsDated
<1>10. details' = [details EXCEPT ![r] = d]
  BY <1>7, <1>8 DEF AcceptRecord
<1>11. /\ details' \in [DetailedRuns -> Detail] /\ details'[r] = d
       /\ \A q \in DetailedRuns \ {r} : details'[q] = details[q]
  BY <1>9, <1>10 DEF DetailsInv, DetailsTypeOK
<1>12. DetailsTypeOK'
  BY <1>7, <1>11 DEF AcceptRecord, DetailsInv, DetailsTypeOK
<1>13. ASSUME NEW q \in DetailedRuns PROVE RecordOK(q)' /\ DetailOK(q)'
  <2>1. CASE q = r
    BY <1>2, <1>6, <1>7, <1>9, <1>11, <2>1
       DEF RecordOK, DetailOK, Knows, FinishedBefore, AcceptRecord
  <2>2. CASE q # r
    BY <1>1, <1>7, <1>11, <2>2, RecordStays, DetailStays
  <2> QED
    BY <2>1, <2>2
<1>14. \A k \in LookupKinds : LookupOK(k)'
  BY <1>1, LookupStays DEF AcceptRecord
<1> QED
  BY <1>1, <1>12, <1>13, <1>14 DEF DetailsInv

(* A step of one lookup.                                                   *)
LEMMA LookupMoves ==
    ASSUME DetailsInv, NEW k \in LookupKinds, NEW l \in Lookup, lookup' = [lookup EXCEPT ![k] = l],
           l.started <= clock,
           l.stage = "done" => \A r \in l.runs : Knows(r, l.started, r \in l.finished),
           UNCHANGED <<clock, finishedAt>>
    PROVE  /\ lookup' \in [LookupKinds -> Lookup] /\ KeepsDates /\ ClockInv'
           /\ \A j \in LookupKinds : LookupOK(j)'
<1>1. /\ lookup' \in [LookupKinds -> Lookup] /\ lookup'[k] = l
      /\ \A j \in LookupKinds \ {k} : lookup'[j] = lookup[j]
  BY DEF DetailsInv, DetailsTypeOK
<1>2. KeepsDates /\ ClockInv'
  BY KeepsNow
<1>3. LookupOK(k)'
  BY <1>1 DEF LookupOK, Knows, FinishedBefore
<1> QED
  BY <1>1, <1>2, <1>3, LookupStays

LEMMA NoLookupFits ==
    /\ NoLookup \in Lookup /\ NoLookup.started = 0 /\ NoLookup.stage = "none"
BY RunDetailsAssumption DEF NoLookup, Lookup, Times

LEMMA OnlyLookups ==
    ASSUME DetailsInv, KeepsDates, ClockInv', lookup' \in [LookupKinds -> Lookup],
           \A j \in LookupKinds : LookupOK(j)',
           UNCHANGED <<clock, finishedAt, observed, details, pinned>>
    PROVE  DetailsInv'
<1>1. DetailsTypeOK'
  BY DEF DetailsInv, DetailsTypeOK
<1> QED
  BY <1>1, RecordStays, DetailStays DEF DetailsInv

LEMMA InvLookUp ==
    ASSUME DetailsInv, NEW k \in LookupKinds, NEW runs \in SUBSET DetailedRuns, LookUp(k, runs)
    PROVE  DetailsInv'
<1>1. PICK l : l = [stage |-> "asked", runs |-> runs, started |-> clock, finished |-> {}]
  OBVIOUS
<1>2. l \in Lookup /\ l.stage = "asked" /\ l.started = clock
  BY <1>1, TypeInv DEF DetailsInv, Lookup
<1>3. l.started <= clock
  BY <1>2 DEF DetailsInv, DetailsTypeOK
<1>4. lookup' = [lookup EXCEPT ![k] = l]
  BY <1>1 DEF LookUp
<1>5. /\ lookup' \in [LookupKinds -> Lookup] /\ KeepsDates /\ ClockInv'
      /\ \A j \in LookupKinds : LookupOK(j)'
  BY <1>2, <1>3, <1>4, LookupMoves DEF LookUp
<1> QED
  BY <1>5, OnlyLookups DEF LookUp

LEMMA InvLookupAnswers ==
    ASSUME DetailsInv, NEW k \in LookupKinds, LookupAnswers(k) PROVE DetailsInv'
<1>1. PICK found \in SUBSET lookup[k].runs :
         /\ \A r \in lookup[k].runs : (r \in found) \in MayFind(r, lookup[k].started)
         /\ lookup' = [lookup EXCEPT ![k].stage = "done", ![k].finished = found]
  BY DEF LookupAnswers
<1>2. lookup[k] \in Lookup /\ lookup[k].started <= clock
  BY DEF DetailsInv, DetailsTypeOK, LookupOK
<1>3. PICK l : l = [lookup[k] EXCEPT !.stage = "done", !.finished = found]
  OBVIOUS
<1>4. /\ l \in Lookup /\ l.stage = "done" /\ l.started = lookup[k].started
      /\ l.runs = lookup[k].runs /\ l.finished = found
  BY <1>2, <1>3 DEF Lookup
<1>5. lookup' = [lookup EXCEPT ![k] = l]
  BY <1>1, <1>3 DEF DetailsInv, DetailsTypeOK
<1>6. \A r \in l.runs : Knows(r, l.started, r \in l.finished)
  BY <1>1, <1>4 DEF MayFind, Knows
<1>7. /\ lookup' \in [LookupKinds -> Lookup] /\ KeepsDates /\ ClockInv'
      /\ \A j \in LookupKinds : LookupOK(j)'
  BY <1>2, <1>4, <1>5, <1>6, LookupMoves DEF LookupAnswers
<1> QED
  BY <1>7, OnlyLookups DEF LookupAnswers

LEMMA InvDropLookup ==
    ASSUME DetailsInv, NEW k \in LookupKinds, DropLookup(k) PROVE DetailsInv'
<1>1. 0 <= clock
  BY DEF DetailsInv, DetailsTypeOK
<1>2. /\ lookup' \in [LookupKinds -> Lookup] /\ KeepsDates /\ ClockInv'
      /\ \A j \in LookupKinds : LookupOK(j)'
  BY <1>1, NoLookupFits, LookupMoves DEF DropLookup
<1> QED
  BY <1>2, OnlyLookups DEF DropLookup

(* What an answer becomes.                                                 *)
LEMMA DetailedIsDated ==
    ASSUME DetailsInv, NEW k \in LookupKinds, lookup[k].stage = "done", NEW r \in lookup[k].runs
    PROVE  /\ Detailed(k, r) \in Detail /\ Detailed(k, r).at <= clock
           /\ Detailed(k, r).known /\ ~Detailed(k, r).paged =>
                Knows(r, Detailed(k, r).at, Detailed(k, r).finished)
<1>1. r \in DetailedRuns /\ lookup[k].started \in Times /\ clock \in Times
  BY TypeInv DEF DetailsInv, DetailsTypeOK, Lookup
<1>2. lookup[k].started <= clock /\ Knows(r, lookup[k].started, r \in lookup[k].finished)
  BY DEF DetailsInv, LookupOK
<1>3. ReadAt(k) \in Times /\ ReadAt(k) <= clock
  BY <1>1, <1>2 DEF ReadAt, Times
<1>4. (r \in lookup[k].finished) \in BOOLEAN /\ (k = "page") \in BOOLEAN
  OBVIOUS
<1>5. PICK fresh : fresh = [known |-> TRUE, finished |-> r \in lookup[k].finished,
                            at |-> ReadAt(k), fetched |-> ReadAt(k), paged |-> k = "page"]
  OBVIOUS
<1>6. /\ fresh \in Detail /\ fresh.at = ReadAt(k) /\ (fresh.paged <=> k = "page")
      /\ fresh.finished <=> r \in lookup[k].finished
  <2>1. /\ fresh.at = ReadAt(k) /\ fresh.finished = (r \in lookup[k].finished)
        /\ fresh.paged = (k = "page")
    BY <1>5
  <2>2. fresh \in Detail
    BY <1>3, <1>4, <1>5 DEF Detail
  <2> QED
    BY <2>1, <2>2
<1>7. ~fresh.paged => Knows(r, fresh.at, fresh.finished)
  BY <1>2, <1>6 DEF ReadAt, Knows
<1>8. CASE k # "page" /\ observed[r].at > fresh.at
  <2>1. Detailed(k, r) = Merged(fresh, observed[r])
    BY <1>5, <1>8 DEF Detailed
  <2>2. /\ observed[r] \in Observation /\ observed[r].at <= clock
        /\ Knows(r, observed[r].at, observed[r].finished)
    BY <1>1 DEF DetailsInv, DetailsTypeOK, RecordOK
  <2>3. fresh.at <= clock
    BY <1>3, <1>6
  <2> QED
    BY <1>1, <1>6, <1>7, <2>1, <2>2, <2>3, MergedIsDated
<1>9. CASE ~(k # "page" /\ observed[r].at > fresh.at)
  <2>1. Detailed(k, r) = fresh
    BY <1>5, <1>9 DEF Detailed
  <2> QED
    BY <1>3, <1>6, <1>7, <2>1
<1> QED
  BY <1>8, <1>9

LEMMA InvAcceptLookup ==
    ASSUME DetailsInv, NEW k \in LookupKinds, AcceptLookup(k) PROVE DetailsInv'
<1>1. 0 <= clock
  BY DEF DetailsInv, DetailsTypeOK
<1>2. /\ lookup' \in [LookupKinds -> Lookup] /\ KeepsDates /\ ClockInv'
      /\ \A j \in LookupKinds : LookupOK(j)'
  BY <1>1, NoLookupFits, LookupMoves DEF AcceptLookup
<1>3. ASSUME NEW r \in DetailedRuns
      PROVE  details'[r] \in Detail /\ DetailOK(r)' /\ RecordOK(r)'
  <2>1. RecordOK(r)'
    BY <1>2, RecordStays DEF AcceptLookup
  <2>2. CASE r \in lookup[k].runs /\ Applies(k, r)
    <3>1. details'[r] = Detailed(k, r)
      BY <2>2 DEF AcceptLookup
    <3>2. PICK d : d = Detailed(k, r)
      OBVIOUS
    <3>3. d \in Detail /\ d.at <= clock /\ (d.known /\ ~d.paged => Knows(r, d.at, d.finished))
      BY <2>2, <3>2, DetailedIsDated DEF AcceptLookup
    <3> QED
      BY <2>1, <3>1, <3>2, <3>3 DEF AcceptLookup, DetailOK, Knows, FinishedBefore
  <2>3. CASE ~(r \in lookup[k].runs /\ Applies(k, r))
    <3>1. details'[r] = details[r]
      BY <2>3 DEF AcceptLookup
    <3> QED
      BY <1>2, <2>1, <3>1, DetailStays DEF DetailsInv, DetailsTypeOK
  <2> QED
    BY <2>2, <2>3
<1>4. details' \in [DetailedRuns -> Detail]
  BY <1>3 DEF AcceptLookup
<1>5. DetailsTypeOK'
  BY <1>2, <1>4 DEF AcceptLookup, DetailsInv, DetailsTypeOK
<1> QED
  BY <1>2, <1>3, <1>5 DEF DetailsInv

LEMMA InvPinRun ==
    ASSUME DetailsInv, NEW r \in DetailedRuns, PinRun(r) PROVE DetailsInv'
<1>1. pinned' \subseteq DetailedRuns
  BY DEF PinRun, DetailsInv, DetailsTypeOK
<1>2. CASE r \notin pinned
  <2>1. UNCHANGED <<clock, finishedAt, observed, details, lookup>>
    BY <1>2 DEF PinRun
  <2>2. KeepsDates /\ ClockInv'
    BY <2>1, KeepsNow
  <2>3. DetailsTypeOK'
    BY <1>1, <2>1 DEF DetailsInv, DetailsTypeOK
  <2> QED
    BY <2>1, <2>2, <2>3, RecordStays, DetailStays, LookupStays DEF DetailsInv
<1>3. CASE r \in pinned
  <2>1. PICK d : d = [details[r] EXCEPT !.fetched = 0]
    OBVIOUS
  <2>2. /\ d \in Detail /\ d.at = details[r].at /\ d.known = details[r].known
        /\ d.paged = details[r].paged /\ d.finished = details[r].finished
    BY <2>1, RunDetailsAssumption DEF DetailsInv, DetailsTypeOK, Detail, Times
  <2>3. details' = [details EXCEPT ![r] = d]
    BY <1>3, <2>1 DEF PinRun, DetailsInv, DetailsTypeOK
  <2>4. /\ details' \in [DetailedRuns -> Detail] /\ details'[r] = d
        /\ \A q \in DetailedRuns \ {r} : details'[q] = details[q]
    BY <2>2, <2>3 DEF DetailsInv, DetailsTypeOK
  <2>5. PICK l : l = IF lookup["run"].runs = {r} THEN NoLookup ELSE lookup["run"]
    OBVIOUS
  <2>6. "run" \in LookupKinds /\ lookup' = [lookup EXCEPT !["run"] = l]
    BY <1>3, <2>5 DEF PinRun, LookupKinds, DetailsInv, DetailsTypeOK
  <2>7. UNCHANGED <<clock, finishedAt, observed>>
    BY DEF PinRun
  <2>8. /\ l \in Lookup /\ l.started <= clock
        /\ l.stage = "done" => \A q \in l.runs : Knows(q, l.started, q \in l.finished)
    <3>1. 0 <= clock
      BY DEF DetailsInv, DetailsTypeOK
    <3> QED
      BY <2>5, <2>6, <3>1, NoLookupFits DEF DetailsInv, DetailsTypeOK, LookupOK
  <2>9. /\ lookup' \in [LookupKinds -> Lookup] /\ KeepsDates /\ ClockInv'
        /\ \A j \in LookupKinds : LookupOK(j)'
    BY <2>6, <2>7, <2>8, LookupMoves
  <2>10. ASSUME NEW q \in DetailedRuns PROVE DetailOK(q)' /\ RecordOK(q)'
    <3>1. RecordOK(q)'
      BY <2>7, <2>9, RecordStays
    <3>2. CASE q = r
      <4>1. DetailOK(r)
        BY DEF DetailsInv
      <4> QED
        BY <2>2, <2>4, <2>7, <3>1, <3>2, <4>1 DEF DetailOK, Knows, FinishedBefore
    <3>3. CASE q # r
      BY <2>4, <2>9, <3>1, <3>3, DetailStays
    <3> QED
      BY <3>2, <3>3
  <2>11. DetailsTypeOK'
    BY <1>1, <2>4, <2>7, <2>9 DEF DetailsInv, DetailsTypeOK
  <2> QED
    BY <2>9, <2>10, <2>11 DEF DetailsInv
<1> QED
  BY <1>2, <1>3

-----------------------------------------------------------------------------
(* The theorems.                                                           *)

LEMMA DetailsInvInit == DetailsInit => DetailsInv
<1> SUFFICES ASSUME DetailsInit PROVE DetailsInv
  OBVIOUS
<1> USE DEF DetailsInit
<1>1. 0 \in Times /\ clock \in 1..MaxTime /\ 0 <= clock
  BY RunDetailsAssumption DEF Times
<1>2. DetailsTypeOK
  BY <1>1, NoLookupFits DEF DetailsTypeOK, Observation, Detail
<1>3. ClockInv /\ \A r \in DetailedRuns : RecordOK(r) /\ DetailOK(r)
  BY <1>1 DEF ClockInv, RecordOK, DetailOK, Knows, FinishedBefore
<1>4. \A k \in LookupKinds : LookupOK(k)
  BY <1>1, NoLookupFits DEF LookupOK
<1> QED
  BY <1>2, <1>3, <1>4 DEF DetailsInv

LEMMA DetailsInvNext == DetailsInv /\ [DetailsNext]_detailVars => DetailsInv'
<1> SUFFICES ASSUME DetailsInv, [DetailsNext]_detailVars PROVE DetailsInv'
  OBVIOUS
<1>1. CASE UNCHANGED detailVars
  <2>1. UNCHANGED <<clock, finishedAt, observed, details, lookup, pinned>>
    BY <1>1 DEF detailVars
  <2>2. KeepsDates /\ ClockInv'
    BY <2>1, KeepsNow
  <2>3. DetailsTypeOK'
    BY <2>1 DEF DetailsInv, DetailsTypeOK
  <2> QED
    BY <2>1, <2>2, <2>3, RecordStays, DetailStays, LookupStays DEF DetailsInv
<1>2. CASE PassTime
  BY <1>2, InvPassTime
<1>3. ASSUME NEW r \in DetailedRuns, FinishRun(r) \/ PinRun(r) PROVE DetailsInv'
  BY <1>3, InvFinishRun, InvPinRun
<1>4. ASSUME NEW r \in DetailedRuns, NEW t \in 1..clock, AcceptRecord(r, t) PROVE DetailsInv'
  BY <1>4, InvAcceptRecord
<1>5. ASSUME NEW k \in LookupKinds, LookupAnswers(k) \/ AcceptLookup(k) \/ DropLookup(k)
      PROVE  DetailsInv'
  BY <1>5, InvLookupAnswers, InvAcceptLookup, InvDropLookup
<1>6. ASSUME NEW k \in LookupKinds, NEW runs \in SUBSET DetailedRuns, LookUp(k, runs)
      PROVE  DetailsInv'
  BY <1>6, InvLookUp
<1> QED
  BY <1>1, <1>2, <1>3, <1>4, <1>5, <1>6 DEF DetailsNext

LEMMA InvAlways == DetailsSpec => []DetailsInv
BY DetailsInvInit, DetailsInvNext, PTL DEF DetailsSpec

(* Every variable has its type, whatever is looked up, pinned or observed. *)
THEOREM DetailsTypeCorrect == DetailsSpec => []DetailsTypeOK
<1>1. DetailsInv => DetailsTypeOK
  BY DEF DetailsInv
<1> QED
  BY <1>1, InvAlways, PTL

(* Details of a run are as new as their date, but for those of a page:     *)
(* in any order of lookups, pins and snapshots (mergeActivityMetadata,     *)
(* acceptActivityRun, refreshPinnedMetadata).                              *)
THEOREM DetailsAreAlwaysDated == DetailsSpec => []DetailsAreDated
<1>1. DetailsInv => DetailsAreDated
  BY DEF DetailsInv, DetailOK, Knows, DetailsAreDated
<1> QED
  BY <1>1, InvAlways, PTL

-----------------------------------------------------------------------------
(***************************************************************************)
(* Theorems of ActivityLists, for any runs and searches: a run stays where *)
(* its reader is.                                                          *)
(*                                                                         *)
(* The selection of Running is always one of its rows, also when its run   *)
(* ends: then it is kept in them, and what is kept is in what is presented *)
(* whatever the search.  So whoever looks for the selection finds it.      *)
(***************************************************************************)

-----------------------------------------------------------------------------
(* The rows of a list.                                                     *)

(* What Among has of the rows, and how much.                               *)
LEMMA AmongRows ==
  ASSUME NEW rows \in Seq(ListRuns), NEW S
  PROVE  /\ Among(rows, S) \in Seq(ListRuns)
         /\ \A r : IsIn(Among(rows, S), r) <=> IsIn(rows, r) /\ r \in S
         /\ Len(Among(rows, S)) <= Len(rows)
         /\ \A r : IsIn(rows, r) /\ r \notin S => Len(Among(rows, S)) < Len(rows)
<1>1. PICK q : q = Among(rows, S)
  OBVIOUS
<1>2. Filtered(q, Len(rows), rows, S)
  BY <1>1, AmongIsFiltered
<1>3. DOMAIN rows = 1..Len(rows) /\ \A i \in 1..Len(rows) : rows[i] \in ListRuns
  OBVIOUS
<1>4. {rows[i] : i \in 1..Len(rows)} \cap S \subseteq ListRuns
  BY <1>3
<1>5. q \in Seq(ListRuns)
  BY <1>2, <1>4, SeqMonotonic DEF Filtered
<1>6. \A j \in DOMAIN q : q[j] \in {rows[i] : i \in 1..Len(rows)} \cap S
  BY <1>2, ElementOfSeq DEF Filtered
<1>7. \A r : IsIn(q, r) <=> IsIn(rows, r) /\ r \in S
  BY <1>2, <1>3, <1>6 DEF Filtered, IsIn, Positions
<1>8. \A r : IsIn(rows, r) /\ r \notin S => Len(q) < Len(rows)
  BY <1>2, <1>3 DEF Filtered, IsIn, Positions
<1> QED
  BY <1>1, <1>2, <1>5, <1>7, <1>8 DEF Filtered

(* A row put between others is there, and they are.                        *)
LEMMA InsertedRow ==
  ASSUME NEW rows \in Seq(ListRuns), NEW i \in 1..(Len(rows) + 1), NEW e \in ListRuns
  PROVE  /\ Sequence!InsertAt(rows, i, e) \in Seq(ListRuns)
         /\ Len(Sequence!InsertAt(rows, i, e)) = Len(rows) + 1
         /\ \A r : IsIn(Sequence!InsertAt(rows, i, e), r) <=> r = e \/ IsIn(rows, r)
<1>1. PICK front : front = SubSeq(rows, 1, i - 1)
  OBVIOUS
<1>2. PICK back : back = SubSeq(rows, i, Len(rows))
  OBVIOUS
<1>3. PICK all : all = (front \o <<e>>) \o back
  OBVIOUS
<1>4. Sequence!InsertAt(rows, i, e) = all
  BY <1>1, <1>2, <1>3 DEF Sequence!InsertAt
<1>5. /\ front \in Seq(ListRuns) /\ Len(front) = i - 1
      /\ \A j \in 1..(i - 1) : front[j] = rows[j]
  BY <1>1
<1>6. /\ back \in Seq(ListRuns) /\ Len(back) = Len(rows) - i + 1
      /\ \A j \in 1..(Len(rows) - i + 1) : back[j] = rows[j + i - 1]
  BY <1>2
<1>7. /\ all \in Seq(ListRuns) /\ Len(all) = Len(rows) + 1
      /\ \A j \in 1..(i - 1) : all[j] = rows[j]
      /\ all[i] = e
      /\ \A j \in (i + 1)..(Len(rows) + 1) : all[j] = rows[j - 1]
  <2>1. PICK left : left = Append(front, e)
    OBVIOUS
  <2>2. /\ left \in Seq(ListRuns) /\ Len(left) = i
        /\ \A j \in 1..(i - 1) : left[j] = rows[j]
        /\ left[i] = e
    BY <1>5, <2>1, AppendProperties
  <2>3. all = left \o back
    BY <1>3, <1>5, <2>1, AppendIsConcat
  <2>4. /\ left \o back \in Seq(ListRuns) /\ Len(left \o back) = Len(left) + Len(back)
        /\ \A j \in 1..(Len(left) + Len(back)) :
             (left \o back)[j] = IF j <= Len(left) THEN left[j] ELSE back[j - Len(left)]
    BY <1>6, <2>2, ConcatProperties
  <2>5. Len(rows) \in Nat
    OBVIOUS
  <2>6. Len(all) = Len(rows) + 1 /\ all \in Seq(ListRuns)
    BY <1>6, <2>2, <2>3, <2>4, <2>5
  <2>7. \A j \in 1..i : all[j] = left[j]
    BY <1>6, <2>2, <2>3, <2>4, <2>5
  <2>8. ASSUME NEW j \in (i + 1)..(Len(rows) + 1) PROVE all[j] = rows[j - 1]
    <3>1. all[j] = back[j - i] /\ j - i \in 1..(Len(rows) - i + 1)
      BY <1>6, <2>2, <2>3, <2>4, <2>5
    <3>2. (j - i) + i - 1 = j - 1
      BY <2>5
    <3> QED
      BY <1>6, <3>1, <3>2
  <2> QED
    BY <2>2, <2>6, <2>7, <2>8
<1>8. ASSUME NEW r PROVE IsIn(all, r) <=> r = e \/ IsIn(rows, r)
  <2>1. DOMAIN all = 1..(Len(rows) + 1) /\ DOMAIN rows = 1..Len(rows)
    BY <1>7
  <2>2. ASSUME IsIn(all, r) PROVE r = e \/ IsIn(rows, r)
    <3>1. PICK j \in 1..(Len(rows) + 1) : all[j] = r
      BY <2>1, <2>2 DEF IsIn, Positions
    <3>2. CASE j < i
      BY <1>7, <2>1, <3>1, <3>2 DEF IsIn, Positions
    <3>3. CASE j = i
      BY <1>7, <3>1, <3>3
    <3>4. CASE j > i
      <4>1. rows[j - 1] = r /\ j - 1 \in 1..Len(rows)
        BY <1>7, <3>1, <3>4
      <4> QED
        BY <2>1, <4>1 DEF IsIn, Positions
    <3> QED
      BY <3>2, <3>3, <3>4
  <2>3. ASSUME r = e PROVE IsIn(all, r)
    BY <1>7, <2>1, <2>3 DEF IsIn, Positions
  <2>4. ASSUME IsIn(rows, r) PROVE IsIn(all, r)
    <3>1. PICK j \in 1..Len(rows) : rows[j] = r
      BY <2>1, <2>4 DEF IsIn, Positions
    <3>2. CASE j < i
      BY <1>7, <2>1, <3>1, <3>2 DEF IsIn, Positions
    <3>3. CASE j >= i
      <4>1. j + 1 \in (i + 1)..(Len(rows) + 1) /\ all[j + 1] = rows[(j + 1) - 1]
        BY <1>7, <3>3
      <4>2. all[j + 1] = r /\ j + 1 \in DOMAIN all
        BY <2>1, <3>1, <4>1
      <4> QED
        BY <4>2 DEF IsIn, Positions
    <3> QED
      BY <3>2, <3>3
  <2> QED
    BY <2>2, <2>3, <2>4
<1> QED
  BY <1>4, <1>7, <1>8

-----------------------------------------------------------------------------
(* Types, and what is true of the lists in every state.                    *)

Recs == [status : [ListRuns -> RunStatus], unread : SUBSET ListRuns]

List == [rows : Seq(ListRuns), selected : ListRuns \cup {NoRun},
         index : 1..Len(RunOrder) \cup {1}, found : SUBSET ListRuns]

Tui == [lists : [ListScopes -> List], scope : ListScopes \cup {"experiment"},
        retained : ListRuns \cup {NoRun}, inspect : ListRuns \cup {NoRun},
        manual : ListScopes \cup {"none"}, details : BOOLEAN]

Short(t) == t \in Tui /\ \A s \in ListScopes : Len(t.lists[s].rows) <= Len(RunOrder)

SelectedIsRow(t) ==
    LET list == t.lists["running"] IN
    list.selected = NoRun \/ IsIn(list.rows, list.selected)

(* What is kept is the selection of the list on the screen.                *)
KeptIsSelected(t) ==
    t.retained # NoRun => t.scope = "running" /\ t.lists["running"].selected = t.retained

KeptHasEnded(t, recs) == t.retained # NoRun => recs.status[t.retained] = "ended"

TuiOK(t, recs) == Short(t) /\ SelectedIsRow(t) /\ KeptIsSelected(t) /\ KeptHasEnded(t, recs)

ListsInv == records \in Recs /\ hidden \subseteq ListRuns /\ TuiOK(tui, records)

LEMMA OrderIsRows ==
  /\ RunOrder \in Seq(ListRuns) /\ Len(RunOrder) \in Nat /\ NoRun \notin ListRuns
  /\ \A r : IsIn(RunOrder, r) <=> r \in ListRuns
BY ActivityListsAssumption DEF ListRuns, IsIn, Positions

-----------------------------------------------------------------------------
(* Members, what is shown of them, and what is selected.                   *)

LEMMA MembersRows ==
  ASSUME NEW s \in ListScopes, NEW recs \in Recs, NEW hid
  PROVE  /\ Members(s, recs, hid) \in Seq(ListRuns)
         /\ Len(Members(s, recs, hid)) <= Len(RunOrder)
         /\ \A r : IsIn(Members(s, recs, hid), r) <=>
                     /\ r \in ListRuns /\ r \notin hid
                     /\ IF s = "running" THEN recs.status[r] = "running" ELSE r \in recs.unread
         /\ \A r \in ListRuns : ~IsIn(Members(s, recs, hid), r) =>
              Len(Members(s, recs, hid)) < Len(RunOrder)
<1>1. PICK S : S = (IF s = "running" THEN {r \in ListRuns : recs.status[r] = "running"}
                    ELSE recs.unread) \ hid
  OBVIOUS
<1>2. Members(s, recs, hid) = Among(RunOrder, S)
  BY <1>1 DEF Members
<1>3. PICK q : q = Among(RunOrder, S)
  OBVIOUS
<1>4. /\ q \in Seq(ListRuns) /\ Len(q) <= Len(RunOrder)
      /\ \A r : IsIn(q, r) <=> IsIn(RunOrder, r) /\ r \in S
      /\ \A r : IsIn(RunOrder, r) /\ r \notin S => Len(q) < Len(RunOrder)
  BY <1>3, AmongRows, OrderIsRows
<1>5. \A r : r \in ListRuns => (r \in S <=>
               /\ r \notin hid
               /\ IF s = "running" THEN recs.status[r] = "running" ELSE r \in recs.unread)
  BY <1>1
<1> QED
  BY <1>2, <1>3, <1>4, <1>5, OrderIsRows

LEMMA PresentedRows ==
  ASSUME NEW t \in Tui, NEW s \in ListScopes, NEW hid
  PROVE  /\ Presented(t, s, hid) \in Seq(ListRuns)
         /\ Len(Presented(t, s, hid)) <= Len(t.lists[s].rows)
         /\ \A r : IsIn(Presented(t, s, hid), r) => IsIn(t.lists[s].rows, r)
         /\ \A r : /\ IsIn(t.lists[s].rows, r) /\ r \notin hid
                   /\ r \in t.lists[s].found \/ (t.scope = "running" /\ t.retained = r)
                   => IsIn(Presented(t, s, hid), r)
<1>1. PICK S : S = (t.lists[s].found
                      \cup (IF t.scope = "running" THEN {t.retained} ELSE {})) \ hid
  OBVIOUS
<1>2. Presented(t, s, hid) = Among(t.lists[s].rows, S)
  BY <1>1 DEF Presented
<1>3. t.lists[s].rows \in Seq(ListRuns)
  BY DEF Tui, List
<1>4. PICK rows \in Seq(ListRuns) : rows = t.lists[s].rows
  BY <1>3
<1>5. /\ Among(rows, S) \in Seq(ListRuns)
      /\ Len(Among(rows, S)) <= Len(rows)
      /\ \A r : IsIn(Among(rows, S), r) <=> IsIn(rows, r) /\ r \in S
  BY <1>4, AmongRows
<1>6. \A r : /\ r \notin hid
             /\ r \in t.lists[s].found \/ (t.scope = "running" /\ t.retained = r)
             => r \in S
  BY <1>1
<1> QED
  BY <1>2, <1>4, <1>5, <1>6

LEMMA AtRow ==
  ASSUME NEW rows \in Seq(ListRuns), NEW list \in List
  PROVE  /\ At(rows, list) \in DOMAIN rows \cup {1}
         /\ IsIn(rows, list.selected) => rows # <<>> /\ rows[At(rows, list)] = list.selected
<1>1. CASE Positions(rows, list.selected) # {}
  <2>1. At(rows, list) \in Positions(rows, list.selected)
    BY <1>1 DEF At
  <2> QED
    BY <2>1 DEF Positions
<1>2. CASE Positions(rows, list.selected) = {} /\ rows = <<>>
  BY <1>2 DEF At, IsIn
<1>3. CASE Positions(rows, list.selected) = {} /\ rows # <<>>
  <2>1. list.index \in Nat \ {0}
    BY OrderIsRows DEF List
  <2>2. Len(rows) \in Nat \ {0} /\ DOMAIN rows = 1..Len(rows)
    BY <1>3, EmptySeq
  <2>3. At(rows, list) = AtMost(list.index, Len(rows))
    BY <1>3 DEF At
  <2>4. AtMost(list.index, Len(rows)) \in 1..Len(rows)
    BY <2>1, <2>2 DEF AtMost
  <2> QED
    BY <1>3, <2>2, <2>3, <2>4 DEF IsIn
<1> QED
  BY <1>1, <1>2, <1>3

LEMMA SelectedRowIsList ==
  ASSUME NEW rows \in Seq(ListRuns), Len(rows) <= Len(RunOrder), NEW list \in List,
         NEW i \in DOMAIN rows \cup {1}
  PROVE  LET new == SelectedAt(list, rows, i) IN
         /\ new \in List /\ new.rows = list.rows /\ new.found = list.found
         /\ new.selected = IF rows = <<>> THEN NoRun ELSE rows[i]
         /\ new.selected = NoRun \/ IsIn(rows, new.selected)
<1>1. PICK r : r = IF rows = <<>> THEN NoRun ELSE rows[i]
  OBVIOUS
<1>2. Len(rows) \in Nat /\ Len(RunOrder) \in Nat /\ DOMAIN rows = 1..Len(rows)
  BY OrderIsRows
<1>3. rows # <<>> => Len(rows) # 0
  BY EmptySeq
<1>4. rows # <<>> => i \in DOMAIN rows
  BY <1>2, <1>3
<1>5. r \in ListRuns \cup {NoRun} /\ (r = NoRun \/ IsIn(rows, r))
  <2>1. CASE rows = <<>>
    BY <1>1, <2>1
  <2>2. CASE rows # <<>>
    BY <1>1, <1>4, <2>2, ElementOfSeq DEF IsIn, Positions
  <2> QED
    BY <2>1, <2>2
<1>6. i \in 1..Len(RunOrder) \cup {1}
  BY <1>2
<1>7. PICK new : new = [list EXCEPT !.index = i, !.selected = r]
  OBVIOUS
<1>8. SelectedAt(list, rows, i) = new
  BY <1>1, <1>7 DEF SelectedAt
<1>9. new \in List /\ new.rows = list.rows /\ new.found = list.found /\ new.selected = r
  BY <1>5, <1>6, <1>7 DEF List
<1> QED
  BY <1>1, <1>5, <1>8, <1>9

LEMMA ReselectedList ==
  ASSUME NEW t, Short(t), NEW s \in ListScopes, NEW hid
  PROVE  LET new == Reselected(t, s, hid)
             list == t.lists[s] IN
         /\ new \in List /\ new.rows = list.rows /\ new.found = list.found
         /\ s = "running" => new.selected = NoRun \/ IsIn(list.rows, new.selected)
         /\ IsIn(Presented(t, s, hid), list.selected) => new.selected = list.selected
         /\ /\ s # "running" /\ t.scope = s /\ t.details
            /\ t.inspect # NoRun /\ t.inspect = list.selected
            => new.selected = list.selected
<1>1. PICK list \in List : list = t.lists[s]
  BY DEF Short, Tui
<1>2. PICK rows \in Seq(ListRuns) : rows = Presented(t, s, hid)
  BY PresentedRows DEF Short
<1>3. Len(rows) <= Len(RunOrder) /\ \A r : IsIn(rows, r) => IsIn(list.rows, r)
  <2>1. Len(rows) <= Len(list.rows) /\ Len(list.rows) <= Len(RunOrder)
        /\ \A r : IsIn(rows, r) => IsIn(list.rows, r)
    BY <1>1, <1>2, PresentedRows DEF Short
  <2>2. Len(rows) \in Nat /\ Len(list.rows) \in Nat /\ Len(RunOrder) \in Nat
    BY <1>1, <1>2, OrderIsRows DEF List
  <2> QED
    BY <2>1, <2>2
<1>4. PICK i \in DOMAIN rows \cup {1} : i = At(rows, list)
  BY <1>1, <1>2, AtRow
<1>5. PICK new : new = SelectedAt(list, rows, i)
  OBVIOUS
<1>6. /\ new \in List /\ new.rows = list.rows /\ new.found = list.found
      /\ new.selected = IF rows = <<>> THEN NoRun ELSE rows[i]
      /\ new.selected = NoRun \/ IsIn(rows, new.selected)
  BY <1>1, <1>2, <1>3, <1>4, <1>5, SelectedRowIsList
<1>7. IsIn(rows, list.selected) => new.selected = list.selected
  BY <1>1, <1>2, <1>4, <1>6, AtRow
<1>8. CASE /\ ~IsIn(rows, list.selected) /\ s # "running" /\ t.scope = s
           /\ t.inspect # NoRun /\ t.inspect = list.selected /\ t.details
  <2>1. Reselected(t, s, hid) = list
    BY <1>1, <1>2, <1>8 DEF Reselected
  <2> QED
    BY <1>1, <1>2, <1>8, <2>1
<1>9. CASE ~(/\ ~IsIn(rows, list.selected) /\ s # "running" /\ t.scope = s
             /\ t.inspect # NoRun /\ t.inspect = list.selected /\ t.details)
  <2>1. Reselected(t, s, hid) = new
    BY <1>1, <1>2, <1>4, <1>5, <1>9 DEF Reselected
  <2> QED
    BY <1>1, <1>2, <1>3, <1>6, <1>7, <1>9, <2>1
<1> QED
  BY <1>8, <1>9

-----------------------------------------------------------------------------
(* rebuildActivityViews, in its two parts.                                 *)

SameBut(u, t) ==
    u.scope = t.scope /\ u.inspect = t.inspect /\ u.manual = t.manual /\ (u.details <=> t.details)

LEMMA ChosenLists ==
  ASSUME NEW t, Short(t), NEW hid
  PROVE  LET u == Chosen(t, hid) IN
         /\ Short(u) /\ SelectedIsRow(u) /\ SameBut(u, t) /\ u.retained = t.retained
         /\ \A s \in ListScopes :
              /\ u.lists[s].rows = t.lists[s].rows
              /\ IsIn(Presented(t, s, hid), t.lists[s].selected) =>
                   u.lists[s].selected = t.lists[s].selected
              /\ /\ s # "running" /\ t.scope = s /\ t.details
                 /\ t.inspect # NoRun /\ t.inspect = t.lists[s].selected
                 => u.lists[s].selected = t.lists[s].selected
<1>1. PICK new : new = [s \in ListScopes |-> Reselected(t, s, hid)]
  OBVIOUS
<1>2. ASSUME NEW s \in ListScopes
      PROVE  /\ new[s] \in List /\ new[s].rows = t.lists[s].rows
             /\ s = "running" => new[s].selected = NoRun \/ IsIn(t.lists[s].rows, new[s].selected)
             /\ IsIn(Presented(t, s, hid), t.lists[s].selected) =>
                  new[s].selected = t.lists[s].selected
             /\ /\ s # "running" /\ t.scope = s /\ t.details
                /\ t.inspect # NoRun /\ t.inspect = t.lists[s].selected
                => new[s].selected = t.lists[s].selected
  BY <1>1, ReselectedList
<1>3. new \in [ListScopes -> List]
  BY <1>1, <1>2
<1>4. PICK u : u = Chosen(t, hid)
  OBVIOUS
<1>5. u = [t EXCEPT !.lists = new]
  BY <1>1, <1>4 DEF Chosen
<1>6. u \in Tui /\ u.lists = new /\ SameBut(u, t) /\ u.retained = t.retained
  BY <1>3, <1>5 DEF Short, Tui, SameBut
<1>7. Short(u)
  BY <1>2, <1>6 DEF Short
<1>8. SelectedIsRow(u)
  BY <1>2, <1>6 DEF SelectedIsRow, ListScopes
<1> QED
  BY <1>2, <1>4, <1>6, <1>7, <1>8

LEMMA RowsOfRows ==
  ASSUME NEW t, Short(t), NEW s \in ListScopes, NEW recs \in Recs, NEW hid
  PROVE  LET rows == RowsOf(s, t, recs, hid) IN
         /\ rows \in Seq(ListRuns) /\ Len(rows) <= Len(RunOrder)
         /\ \A r : IsIn(Members(s, recs, hid), r) => IsIn(rows, r)
         /\ s = "running" /\ Keeps(t, recs, hid) => IsIn(rows, t.lists[s].selected)
<1>1. PICK list \in List : list = t.lists[s]
  BY DEF Short, Tui
<1>2. PICK members \in Seq(ListRuns) : members = Members(s, recs, hid)
  BY MembersRows
<1>3. CASE s = "running" /\ Keeps(t, recs, hid)
  <2>1. /\ list.selected \in ListRuns /\ recs.status[list.selected] = "ended"
    BY <1>1, <1>3 DEF Keeps, List
  <2>2. ~IsIn(members, list.selected)
    BY <1>2, <1>3, <2>1, MembersRows
  <2>3. Len(members) < Len(RunOrder) /\ Len(members) \in Nat /\ Len(RunOrder) \in Nat
    BY <1>2, <2>1, <2>2, MembersRows, OrderIsRows
  <2>4. PICK i : i = AtMost(list.index, Len(members) + 1)
    OBVIOUS
  <2>5. i \in 1..(Len(members) + 1)
    BY <2>3, <2>4, OrderIsRows DEF AtMost, List
  <2>6. RowsOf(s, t, recs, hid) = Sequence!InsertAt(members, i, list.selected)
    BY <1>1, <1>2, <1>3, <2>4 DEF RowsOf
  <2>7. PICK rows : rows = Sequence!InsertAt(members, i, list.selected)
    OBVIOUS
  <2>8. /\ rows \in Seq(ListRuns) /\ Len(rows) = Len(members) + 1
        /\ \A r : IsIn(rows, r) <=> r = list.selected \/ IsIn(members, r)
    BY <2>1, <2>5, <2>7, InsertedRow
  <2>9. Len(rows) <= Len(RunOrder)
    BY <2>3, <2>8
  <2> QED
    BY <1>1, <1>2, <2>6, <2>7, <2>8, <2>9
<1>4. CASE ~(s = "running" /\ Keeps(t, recs, hid))
  <2>1. RowsOf(s, t, recs, hid) = members
    BY <1>2, <1>4 DEF RowsOf
  <2> QED
    BY <1>2, <1>4, <2>1, MembersRows
<1> QED
  BY <1>3, <1>4

KeptThen(t, recs, hid) ==
    IF Keeps(t, recs, hid) THEN t.lists["running"].selected
    ELSE IF t.scope = "running" /\ t.retained = t.lists["running"].selected
    THEN NoRun ELSE t.retained

LEMMA FilledLists ==
  ASSUME NEW t, Short(t), NEW recs \in Recs, NEW hid
  PROVE  LET u == Filled(t, recs, hid) IN
         /\ Short(u) /\ SameBut(u, t) /\ u.retained = KeptThen(t, recs, hid)
         /\ \A s \in ListScopes :
              /\ u.lists[s].rows = RowsOf(s, t, recs, hid)
              /\ u.lists[s].selected = t.lists[s].selected
              /\ u.lists[s].found = t.lists[s].found
<1>1. PICK new : new = [s \in ListScopes |-> [t.lists[s] EXCEPT !.rows = RowsOf(s, t, recs, hid)]]
  OBVIOUS
<1>2. ASSUME NEW s \in ListScopes
      PROVE  /\ new[s] \in List /\ new[s].rows = RowsOf(s, t, recs, hid)
             /\ new[s].selected = t.lists[s].selected /\ new[s].found = t.lists[s].found
             /\ Len(new[s].rows) <= Len(RunOrder)
  <2>1. PICK list \in List : list = t.lists[s]
    BY DEF Short, Tui
  <2>2. PICK rows \in Seq(ListRuns) : rows = RowsOf(s, t, recs, hid) /\ Len(rows) <= Len(RunOrder)
    BY RowsOfRows
  <2>3. new[s] = [list EXCEPT !.rows = rows]
    BY <1>1, <2>1, <2>2
  <2>4. new[s] \in List /\ new[s].rows = rows /\ new[s].selected = list.selected
        /\ new[s].found = list.found
    BY <2>3 DEF List
  <2> QED
    BY <2>1, <2>2, <2>4
<1>3. new \in [ListScopes -> List]
  BY <1>1, <1>2
<1>4. PICK kept : kept = KeptThen(t, recs, hid)
  OBVIOUS
<1>5. kept \in ListRuns \cup {NoRun}
  BY <1>4 DEF KeptThen, Short, Tui, List, ListScopes
<1>6. PICK u : u = Filled(t, recs, hid)
  OBVIOUS
<1>7. u = [t EXCEPT !.lists = new, !.retained = kept]
  BY <1>1, <1>4, <1>6 DEF Filled, KeptThen
<1>8. u \in Tui /\ u.lists = new /\ SameBut(u, t) /\ u.retained = kept
  BY <1>3, <1>5, <1>7 DEF Short, Tui, SameBut
<1>9. Short(u)
  BY <1>2, <1>8 DEF Short
<1> QED
  BY <1>2, <1>4, <1>6, <1>8, <1>9

(* After both, all is well: what was kept before may have been of another  *)
(* snapshot.                                                               *)
LEMMA RebuiltOK ==
  ASSUME NEW t, Short(t), KeptIsSelected(t), NEW recs \in Recs, NEW hid
  PROVE  LET u == Rebuilt(t, recs, hid) IN
         /\ TuiOK(u, recs) /\ SameBut(u, t)
         /\ Keeps(t, recs, hid) => u.lists["running"].selected = t.lists["running"].selected
         /\ \A s \in ListScopes : LET r == t.lists[s].selected IN
              /\ r \notin hid /\ r \in t.lists[s].found /\ IsIn(Members(s, recs, hid), r) =>
                   u.lists[s].selected = r
              /\ s # "running" /\ t.scope = s /\ t.details /\ t.inspect # NoRun /\ t.inspect = r =>
                   u.lists[s].selected = r
<1>1. PICK f : f = Filled(t, recs, hid)
  OBVIOUS
<1>2. /\ Short(f) /\ SameBut(f, t) /\ f.retained = KeptThen(t, recs, hid)
      /\ \A s \in ListScopes : /\ f.lists[s].rows = RowsOf(s, t, recs, hid)
                               /\ f.lists[s].selected = t.lists[s].selected
                               /\ f.lists[s].found = t.lists[s].found
  BY <1>1, FilledLists
<1>3. PICK u : u = Chosen(f, hid)
  OBVIOUS
<1>4. /\ Short(u) /\ SelectedIsRow(u) /\ SameBut(u, f) /\ u.retained = f.retained
      /\ \A s \in ListScopes :
           /\ u.lists[s].rows = f.lists[s].rows
           /\ IsIn(Presented(f, s, hid), f.lists[s].selected) =>
                u.lists[s].selected = f.lists[s].selected
           /\ /\ s # "running" /\ f.scope = s /\ f.details
              /\ f.inspect # NoRun /\ f.inspect = f.lists[s].selected
              => u.lists[s].selected = f.lists[s].selected
  BY <1>2, <1>3, ChosenLists
<1>5. u = Rebuilt(t, recs, hid)
  BY <1>1, <1>3 DEF Rebuilt
<1>6. "running" \in ListScopes
  BY DEF ListScopes
<1>7. ASSUME Keeps(t, recs, hid)
      PROVE  /\ u.lists["running"].selected = t.lists["running"].selected
             /\ u.scope = "running" /\ u.retained = t.lists["running"].selected
             /\ recs.status[u.retained] = "ended"
  <2>1. PICK r : r = t.lists["running"].selected
    OBVIOUS
  <2>2. /\ t.scope = "running" /\ r # NoRun /\ recs.status[r] = "ended" /\ r \notin hid
    BY <1>7, <2>1 DEF Keeps
  <2>3. f.retained = r /\ f.scope = "running" /\ f.lists["running"].selected = r
    BY <1>2, <1>6, <1>7, <2>1, <2>2 DEF KeptThen, SameBut
  <2>4. IsIn(f.lists["running"].rows, r)
    BY <1>2, <1>6, <1>7, <2>1, RowsOfRows
  <2>5. f \in Tui
    BY <1>2 DEF Short
  <2>6. IsIn(Presented(f, "running", hid), r)
    BY <1>6, <2>2, <2>3, <2>4, <2>5, PresentedRows
  <2> QED
    BY <1>4, <1>6, <2>1, <2>2, <2>3, <2>6 DEF SameBut
<1>8. ASSUME Keeps(t, recs, hid) PROVE TuiOK(u, recs)
  BY <1>4, <1>7, <1>8 DEF TuiOK, KeptIsSelected, KeptHasEnded
<1>9. ASSUME ~Keeps(t, recs, hid) PROVE u.retained = NoRun
  BY <1>2, <1>4, <1>9 DEF KeptThen, KeptIsSelected
<1>10. TuiOK(u, recs)
  BY <1>4, <1>8, <1>9 DEF TuiOK, KeptIsSelected, KeptHasEnded
<1>11. ASSUME NEW s \in ListScopes
       PROVE  LET r == t.lists[s].selected IN
              /\ r \notin hid /\ r \in t.lists[s].found /\ IsIn(Members(s, recs, hid), r) =>
                   u.lists[s].selected = r
              /\ s # "running" /\ t.scope = s /\ t.details /\ t.inspect # NoRun /\ t.inspect = r =>
                   u.lists[s].selected = r
  <2>1. PICK r : r = t.lists[s].selected
    OBVIOUS
  <2>2. f.lists[s].selected = r /\ f.lists[s].found = t.lists[s].found /\ f \in Tui
    BY <1>2, <2>1 DEF Short
  <2>3. ASSUME r \notin hid, r \in t.lists[s].found, IsIn(Members(s, recs, hid), r)
        PROVE  u.lists[s].selected = r
    <3>1. IsIn(f.lists[s].rows, r)
      BY <1>2, <2>3, RowsOfRows
    <3>2. IsIn(Presented(f, s, hid), r)
      BY <2>2, <2>3, <3>1, PresentedRows
    <3> QED
      BY <1>4, <2>2, <3>2
  <2>4. ASSUME s # "running", t.scope = s, t.details, t.inspect # NoRun, t.inspect = r
        PROVE  u.lists[s].selected = r
    <3>1. f.scope = s /\ f.details /\ f.inspect = r
      BY <1>2, <2>4 DEF SameBut
    <3> QED
      BY <1>4, <2>2, <2>4, <3>1
  <2> QED
    BY <2>1, <2>3, <2>4
<1>12. SameBut(u, t)
  BY <1>2, <1>4 DEF SameBut
<1> QED
  BY <1>5, <1>7, <1>10, <1>11, <1>12

-----------------------------------------------------------------------------
(* releaseActivityRetention and selectRun.                                 *)

LEMMA ReleasedOK ==
  ASSUME NEW t, Short(t), SelectedIsRow(t), NEW recs \in Recs, NEW hid
  PROVE  LET u == Released(t, recs, hid) IN
         TuiOK(u, recs) /\ u.scope = t.scope /\ u.retained = NoRun
<1>1. PICK u : u = Released(t, recs, hid)
  OBVIOUS
<1>2. "none" \in ListScopes \cup {"none"}
  OBVIOUS
<1>3. CASE t.retained = NoRun
  <2>1. u = [t EXCEPT !.manual = "none"]
    BY <1>1, <1>3 DEF Released
  <2>2. u \in Tui /\ u.lists = t.lists /\ u.scope = t.scope /\ u.retained = t.retained
    BY <1>2, <2>1 DEF Short, Tui
  <2>3. Short(u) /\ SelectedIsRow(u)
    BY <2>2 DEF Short, SelectedIsRow
  <2> QED
    BY <1>1, <1>3, <2>2, <2>3 DEF TuiOK, KeptIsSelected, KeptHasEnded
<1>4. CASE t.retained # NoRun
  <2>1. PICK new : new = [s \in ListScopes |-> [t.lists[s] EXCEPT !.rows = Members(s, recs, hid)]]
    OBVIOUS
  <2>2. ASSUME NEW s \in ListScopes
        PROVE  new[s] \in List /\ Len(new[s].rows) <= Len(RunOrder)
    <3>1. PICK list \in List : list = t.lists[s]
      BY DEF Short, Tui
    <3>2. PICK rows \in Seq(ListRuns) : rows = Members(s, recs, hid) /\ Len(rows) <= Len(RunOrder)
      BY MembersRows
    <3>3. new[s] = [list EXCEPT !.rows = rows]
      BY <2>1, <3>1, <3>2
    <3>4. new[s] \in List /\ new[s].rows = rows
      BY <3>3 DEF List
    <3> QED
      BY <3>2, <3>4
  <2>3. new \in [ListScopes -> List]
    BY <2>1, <2>2
  <2>4. PICK inspect : inspect = IF t.inspect = t.retained THEN NoRun ELSE t.inspect
    OBVIOUS
  <2>5. inspect \in ListRuns \cup {NoRun}
    BY <2>4 DEF Short, Tui
  <2>6. PICK free : free = [t EXCEPT !.manual = "none", !.retained = NoRun, !.inspect = inspect]
    OBVIOUS
  <2>7. free \in Tui /\ free.scope = t.scope /\ free.retained = NoRun
    BY <1>2, <2>5, <2>6 DEF Short, Tui
  <2>8. PICK m : m = [free EXCEPT !.lists = new]
    OBVIOUS
  <2>9. m \in Tui /\ m.lists = new /\ m.scope = t.scope /\ m.retained = NoRun
    BY <2>3, <2>7, <2>8 DEF Tui
  <2>10. Short(m)
    BY <2>2, <2>9 DEF Short
  <2>11. u = Chosen(m, hid)
    BY <1>1, <1>4, <2>1, <2>4, <2>6, <2>8 DEF Released
  <2>12. Short(u) /\ SelectedIsRow(u) /\ SameBut(u, m) /\ u.retained = m.retained
    BY <2>10, <2>11, ChosenLists
  <2> QED
    BY <1>1, <2>9, <2>12 DEF TuiOK, SameBut, KeptIsSelected, KeptHasEnded
<1> QED
  BY <1>3, <1>4

LEMMA SelectedRowOK ==
  ASSUME NEW t, NEW recs \in Recs, TuiOK(t, recs), t.scope \in ListScopes, NEW hid, NEW shown,
         NEW i \in DOMAIN Presented(t, t.scope, shown) \cup {1}
  PROVE  TuiOK(SelectedRow(t, Presented(t, t.scope, shown), i, recs, hid), recs)
<1>1. PICK s \in ListScopes : s = t.scope
  OBVIOUS
<1>2. PICK list \in List : list = t.lists[s]
  BY DEF TuiOK, Short, Tui
<1>3. PICK rows \in Seq(ListRuns) : rows = Presented(t, s, shown)
  BY PresentedRows DEF TuiOK, Short
<1>4. Len(rows) <= Len(RunOrder) /\ \A r : IsIn(rows, r) => IsIn(list.rows, r)
  <2>1. Len(rows) <= Len(list.rows) /\ Len(list.rows) <= Len(RunOrder)
        /\ \A r : IsIn(rows, r) => IsIn(list.rows, r)
    BY <1>2, <1>3, PresentedRows DEF TuiOK, Short
  <2>2. Len(rows) \in Nat /\ Len(list.rows) \in Nat /\ Len(RunOrder) \in Nat
    BY <1>2, <1>3, OrderIsRows DEF List
  <2> QED
    BY <2>1, <2>2
<1>5. PICK new : new = SelectedAt(list, rows, i)
  OBVIOUS
<1>6. /\ new \in List /\ new.rows = list.rows
      /\ new.selected = NoRun \/ IsIn(rows, new.selected)
  BY <1>1, <1>2, <1>3, <1>4, <1>5, SelectedRowIsList
<1>7. PICK m : m = [t EXCEPT !.lists[s] = new]
  OBVIOUS
<1>8. /\ m \in Tui /\ m.lists[s] = new /\ m.scope = t.scope /\ m.retained = t.retained
      /\ \A j \in ListScopes : j # s => m.lists[j] = t.lists[j]
  BY <1>6, <1>7 DEF TuiOK, Short, Tui
<1>9. Short(m)
  BY <1>2, <1>6, <1>8 DEF TuiOK, Short
<1>10. "running" \in ListScopes
  BY DEF ListScopes
<1>11. SelectedIsRow(m)
  BY <1>2, <1>4, <1>6, <1>8, <1>10 DEF TuiOK, SelectedIsRow
<1>12. SelectedRow(t, Presented(t, t.scope, shown), i, recs, hid) =
         IF new.selected = list.selected THEN m ELSE Released(m, recs, hid)
  <2>1. m = [t EXCEPT !.lists[t.scope] = SelectedAt(@, rows, i)]
    BY <1>1, <1>2, <1>5, <1>7
  <2>2. m.lists[t.scope].selected = new.selected /\ t.lists[t.scope].selected = list.selected
    BY <1>1, <1>2, <1>8
  <2> QED
    BY <1>1, <1>3, <2>1, <2>2 DEF SelectedRow
<1>13. CASE new.selected = list.selected
  <2>1. m.lists["running"].selected = t.lists["running"].selected
    BY <1>2, <1>8, <1>10, <1>13
  <2>2. TuiOK(m, recs)
    BY <1>8, <1>9, <1>11, <2>1 DEF TuiOK, KeptIsSelected, KeptHasEnded
  <2> QED
    BY <1>12, <1>13, <2>2
<1>14. CASE new.selected # list.selected
  BY <1>9, <1>11, <1>12, <1>14, ReleasedOK
<1> QED
  BY <1>13, <1>14

(* What has no bearing on what is kept.                                    *)
LEMMA OtherFields ==
  ASSUME NEW t, NEW u, NEW recs, TuiOK(t, recs), u \in Tui,
         u.lists = t.lists, u.retained = t.retained,
         u.retained # NoRun => u.scope = t.scope
  PROVE  TuiOK(u, recs)
BY DEF TuiOK, Short, SelectedIsRow, KeptIsSelected, KeptHasEnded

-----------------------------------------------------------------------------
(* The actions.                                                            *)

LEMMA SnapshotOK ==
  ASSUME ListsInv, NEW r \in ListRuns, NEW status \in RunStatus, NEW unread \in BOOLEAN,
         AcceptSnapshot(r, status, unread)
  PROVE  ListsInv'
<1>1. records' \in Recs
  BY DEF AcceptSnapshot, ListsInv, Recs
<1>2. TuiOK(Rebuilt(tui, records', hidden), records')
  BY <1>1, RebuiltOK DEF ListsInv, TuiOK
<1> QED
  BY <1>1, <1>2 DEF AcceptSnapshot, ListsInv

LEMMA SmallStepsOK ==
  ASSUME ListsInv, InspectSelected \/ RefreshByHand \/ FocusDetails
  PROVE  ListsInv'
<1>1. tui \in Tui
  BY DEF ListsInv, TuiOK, Short
<1>2. CASE InspectSelected
  <2>1. tui.lists[tui.scope].selected \in ListRuns \cup {NoRun}
    BY <1>1, <1>2 DEF InspectSelected, Tui, List
  <2>2. tui' \in Tui /\ tui'.lists = tui.lists /\ tui'.retained = tui.retained
        /\ tui'.scope = tui.scope
    BY <1>1, <1>2, <2>1 DEF InspectSelected, Tui
  <2> QED
    BY <1>2, <2>2, OtherFields DEF ListsInv, InspectSelected
<1>3. CASE RefreshByHand
  <2>1. tui' \in Tui /\ tui'.lists = tui.lists /\ tui'.retained = tui.retained
        /\ tui'.scope = tui.scope
    BY <1>1, <1>3 DEF RefreshByHand, Tui
  <2> QED
    BY <1>3, <2>1, OtherFields DEF ListsInv, RefreshByHand
<1>4. CASE FocusDetails
  <2>1. tui' \in Tui /\ tui'.lists = tui.lists /\ tui'.retained = tui.retained
        /\ tui'.scope = tui.scope
    BY <1>1, <1>4 DEF FocusDetails, Tui
  <2> QED
    BY <1>4, <2>1, OtherFields DEF ListsInv, FocusDetails
<1> QED
  BY <1>2, <1>3, <1>4

LEMMA ReleasedTui ==
  ASSUME ListsInv
  PROVE  LET u == Released(tui, records, hidden) IN
         u \in Tui /\ TuiOK(u, records) /\ u.scope = tui.scope /\ u.retained = NoRun
BY ReleasedOK DEF ListsInv, TuiOK, Short

LEMMA FinishOK == ListsInv /\ FinishRefresh => ListsInv'
<1> SUFFICES ASSUME ListsInv, FinishRefresh PROVE ListsInv'
  OBVIOUS
<1>1. PICK u : u = IF tui.scope = tui.manual THEN Released(tui, records, hidden) ELSE tui
  OBVIOUS
<1>2. TuiOK(u, records) /\ u \in Tui
  BY <1>1, ReleasedTui DEF ListsInv, TuiOK, Short
<1>3. tui' = [u EXCEPT !.manual = "none"]
  BY <1>1 DEF FinishRefresh
<1>4. tui' \in Tui /\ tui'.lists = u.lists /\ tui'.retained = u.retained /\ tui'.scope = u.scope
  BY <1>2, <1>3 DEF Tui
<1> QED
  BY <1>2, <1>4, OtherFields DEF ListsInv, FinishRefresh

LEMMA OpenOK == ASSUME ListsInv, NEW s \in ListScopes, OpenActivity(s) PROVE ListsInv'
<1>1. PICK u : u = Released(tui, records, hidden)
  OBVIOUS
<1>2. u \in Tui /\ TuiOK(u, records) /\ u.retained = NoRun
  BY <1>1, ReleasedTui
<1>3. PICK t : t = [u EXCEPT !.scope = s]
  OBVIOUS
<1>4. t \in Tui /\ t.lists = u.lists /\ t.retained = u.retained
  BY <1>2, <1>3 DEF Tui
<1>5. TuiOK(t, records)
  BY <1>2, <1>4, OtherFields
<1>6. tui' = Rebuilt(t, records, hidden)
  BY <1>1, <1>3 DEF OpenActivity
<1>7. TuiOK(tui', records)
  BY <1>5, <1>6, RebuiltOK DEF ListsInv, TuiOK
<1> QED
  BY <1>7 DEF ListsInv, OpenActivity

LEMMA LeaveOK == ListsInv /\ LeaveActivity => ListsInv'
<1> SUFFICES ASSUME ListsInv, LeaveActivity PROVE ListsInv'
  OBVIOUS
<1>1. PICK u : u = Released(tui, records, hidden)
  OBVIOUS
<1>2. u \in Tui /\ TuiOK(u, records) /\ u.retained = NoRun
  BY <1>1, ReleasedTui
<1>3. tui' = [u EXCEPT !.scope = "experiment", !.inspect = NoRun]
  BY <1>1 DEF LeaveActivity
<1>4. tui' \in Tui /\ tui'.lists = u.lists /\ tui'.retained = u.retained
  BY <1>2, <1>3 DEF Tui
<1> QED
  BY <1>2, <1>4, OtherFields DEF ListsInv, LeaveActivity

LEMMA SelectOK == ASSUME ListsInv, NEW i, SelectRun(i) PROVE ListsInv'
<1>1. TuiOK(tui', records)
  BY SelectedRowOK DEF ListsInv, SelectRun
<1> QED
  BY <1>1 DEF ListsInv, SelectRun

LEMMA SearchOK == ASSUME ListsInv, NEW runs \in Searches, SetLocal(runs) PROVE ListsInv'
<1>1. PICK u : u = Released(tui, records, hidden)
  OBVIOUS
<1>2. u \in Tui /\ TuiOK(u, records) /\ u.retained = NoRun /\ u.scope = tui.scope
  BY <1>1, ReleasedTui
<1>3. PICK s \in ListScopes : s = tui.scope
  BY DEF SetLocal
<1>4. PICK t : t = [u EXCEPT !.lists[s].found = runs, !.lists[s].index = 1]
  OBVIOUS
<1>5. PICK list \in List : list = u.lists[s]
  BY <1>2 DEF Tui
<1>6. PICK new : new = [list EXCEPT !.found = runs, !.index = 1]
  OBVIOUS
<1>7. new \in List /\ new.rows = list.rows /\ new.selected = list.selected
  BY <1>6, ActivityListsAssumption DEF List
<1>8. PICK lists : lists = [u.lists EXCEPT ![s] = new]
  OBVIOUS
<1>9. lists \in [ListScopes -> List] /\ lists[s] = new
      /\ \A j \in ListScopes : j # s => lists[j] = u.lists[j]
  BY <1>2, <1>7, <1>8 DEF Tui
<1>10. t = [u EXCEPT !.lists = lists]
  BY <1>2, <1>4, <1>5, <1>6, <1>8 DEF Tui
<1>11. t \in Tui /\ t.lists = lists /\ t.scope = u.scope /\ t.retained = NoRun
  BY <1>2, <1>9, <1>10 DEF Tui
<1>12. /\ t.lists["running"].selected = u.lists["running"].selected
       /\ t.lists["running"].rows = u.lists["running"].rows
       /\ \A j \in ListScopes : t.lists[j].rows = u.lists[j].rows
  BY <1>5, <1>7, <1>9, <1>11 DEF ListScopes
<1>13. TuiOK(t, records)
  BY <1>2, <1>11, <1>12 DEF TuiOK, Short, SelectedIsRow, KeptIsSelected, KeptHasEnded
<1>14. tui' = SelectedRow(t, Presented(t, t.scope, hidden), 1, records, hidden)
  <2>1. t = [u EXCEPT !.lists[tui.scope].found = runs, !.lists[tui.scope].index = 1]
    BY <1>3, <1>4
  <2>2. t.scope = tui.scope
    BY <1>2, <1>11
  <2> QED
    BY <1>1, <2>1, <2>2 DEF SetLocal
<1>15. TuiOK(tui', records)
  BY <1>2, <1>3, <1>11, <1>13, <1>14, SelectedRowOK DEF ListsInv
<1> QED
  BY <1>15 DEF ListsInv, SetLocal

LEMMA NextUnreadOK == ASSUME ListsInv, NEW i, NextUnread(i) PROVE ListsInv'
<1>1. PICK b : b = Rebuilt(tui, records, hidden)
  OBVIOUS
<1>2. TuiOK(b, records) /\ Short(b) /\ SelectedIsRow(b) /\ b \in Tui
  BY <1>1, RebuiltOK DEF ListsInv, TuiOK, Short
<1>3. PICK free : free = Released(b, records, hidden)
  OBVIOUS
<1>4. free \in Tui /\ TuiOK(free, records) /\ free.retained = NoRun
  BY <1>2, <1>3, ReleasedOK DEF ListsInv, TuiOK, Short
<1>5. PICK t : t = [free EXCEPT !.scope = "unread", !.inspect = NoRun, !.details = FALSE]
  OBVIOUS
<1>6. t \in Tui /\ t.lists = free.lists /\ t.retained = free.retained
  BY <1>4, <1>5 DEF Tui, ListScopes
<1>7. TuiOK(t, records)
  BY <1>4, <1>6, OtherFields
<1>8. PICK there : there = Rebuilt(t, records, hidden)
  OBVIOUS
<1>9. TuiOK(there, records) /\ there \in Tui
  BY <1>7, <1>8, RebuiltOK DEF ListsInv, TuiOK, Short
<1>10. PICK rows : rows = Presented(b, "unread", hidden)
  OBVIOUS
<1>11. i \in DOMAIN rows /\ "unread" \in ListScopes /\ "running" \in ListScopes
  BY <1>1, <1>10 DEF NextUnread, ListScopes
<1>12. rows \in Seq(ListRuns) /\ Len(rows) <= Len(RunOrder)
  <2>1. rows \in Seq(ListRuns) /\ Len(rows) <= Len(b.lists["unread"].rows)
    BY <1>2, <1>10, <1>11, PresentedRows
  <2>2. b.lists["unread"].rows \in Seq(ListRuns) /\ Len(b.lists["unread"].rows) <= Len(RunOrder)
    BY <1>2, <1>11 DEF Short, Tui, List
  <2>3. /\ Len(rows) \in Nat /\ Len(b.lists["unread"].rows) \in Nat /\ Len(RunOrder) \in Nat
    BY <2>1, <2>2, OrderIsRows
  <2> QED
    BY <2>1, <2>2, <2>3
<1>13. rows[i] \in ListRuns /\ i \in 1..Len(RunOrder)
  <2>1. DOMAIN rows = 1..Len(rows) /\ Len(rows) \in Nat /\ Len(RunOrder) \in Nat
    BY <1>12, OrderIsRows
  <2> QED
    BY <1>11, <1>12, <2>1, ElementOfSeq
<1>14. PICK list \in List : list = there.lists["unread"]
  BY <1>9, <1>11 DEF Tui
<1>15. PICK new : new = [list EXCEPT !.selected = rows[i], !.index = i]
  OBVIOUS
<1>16. new \in List /\ new.rows = list.rows
  BY <1>13, <1>15 DEF List
<1>17. PICK lists : lists = [there.lists EXCEPT !["unread"] = new]
  OBVIOUS
<1>18. lists \in [ListScopes -> List] /\ lists["running"] = there.lists["running"]
       /\ \A s \in ListScopes : lists[s].rows = there.lists[s].rows
  BY <1>9, <1>11, <1>14, <1>16, <1>17 DEF Tui
<1>19. tui' = [there EXCEPT !.lists = lists, !.inspect = rows[i]]
  BY <1>1, <1>3, <1>5, <1>8, <1>10, <1>14, <1>15, <1>17 DEF NextUnread
<1>20. tui' \in Tui /\ tui'.lists = lists /\ tui'.scope = there.scope
       /\ tui'.retained = there.retained
  BY <1>9, <1>13, <1>18, <1>19 DEF Tui
<1>21. TuiOK(tui', records)
  BY <1>9, <1>18, <1>20 DEF TuiOK, Short, SelectedIsRow, KeptIsSelected, KeptHasEnded
<1> QED
  BY <1>21 DEF ListsInv, NextUnread

LEMMA HideOK == ListsInv /\ HideSelected => ListsInv'
<1> SUFFICES ASSUME ListsInv, HideSelected PROVE ListsInv'
  OBVIOUS
<1>1. PICK u : u = Released(tui, records, hidden)
  OBVIOUS
<1>2. u \in Tui /\ TuiOK(u, records) /\ u.scope = tui.scope
  BY <1>1, ReleasedTui
<1>3. PICK s \in ListScopes : s = tui.scope
  BY DEF HideSelected
<1>4. PICK hid : hid = hidden'
  OBVIOUS
<1>5. PICK rows : rows = Presented(u, s, hid)
  OBVIOUS
<1>6. rows \in Seq(ListRuns) /\ u.lists[s] \in List
  BY <1>2, <1>5, PresentedRows DEF Tui
<1>7. At(rows, u.lists[s]) \in DOMAIN rows \cup {1}
  BY <1>6, AtRow
<1>8. tui' = SelectedRow(u, Presented(u, u.scope, hid), At(rows, u.lists[s]), records, hid)
  BY <1>1, <1>2, <1>3, <1>4, <1>5 DEF HideSelected
<1>9. TuiOK(tui', records)
  BY <1>2, <1>3, <1>5, <1>7, <1>8, SelectedRowOK DEF ListsInv
<1>10. hidden' \subseteq ListRuns
  <2>1. tui.lists[s].selected \in ListRuns
    BY <1>3 DEF HideSelected, ListsInv, TuiOK, Short, Tui, List
  <2> QED
    BY <1>3, <2>1 DEF HideSelected, ListsInv
<1> QED
  BY <1>9, <1>10 DEF ListsInv, HideSelected

LEMMA VisibilityOK == ASSUME ListsInv, NEW hid \in SUBSET ListRuns, LoadedVisibility(hid) PROVE ListsInv'
<1>1. TuiOK(tui', records)
  BY RebuiltOK DEF ListsInv, TuiOK, LoadedVisibility
<1> QED
  BY <1>1 DEF ListsInv, LoadedVisibility

LEMMA ListsInitInv == ListsInit => ListsInv
<1> SUFFICES ASSUME ListsInit PROVE ListsInv
  OBVIOUS
<1>1. PICK none \in BOOLEAN : none = FALSE
  OBVIOUS
<1>2. <<>> \in Seq(ListRuns) /\ Len(<<>>) = 0
  BY EmptySeq
<1>3. PICK list : list = [rows |-> <<>>, selected |-> NoRun, index |-> 1, found |-> ListRuns]
  OBVIOUS
<1>4. list \in List /\ list.selected = NoRun /\ list.rows = <<>>
  BY <1>2, <1>3 DEF List
<1>5. tui = [lists |-> [s \in ListScopes |-> list], scope |-> "experiment", retained |-> NoRun,
             inspect |-> NoRun, manual |-> "none", details |-> none]
  BY <1>1, <1>3 DEF ListsInit
<1>6. tui \in Tui /\ tui.retained = NoRun /\ \A s \in ListScopes : tui.lists[s] = list
  BY <1>4, <1>5 DEF Tui
<1>7. Short(tui)
  BY <1>2, <1>4, <1>6, OrderIsRows DEF Short
<1>8. SelectedIsRow(tui)
  BY <1>4, <1>6 DEF SelectedIsRow, ListScopes
<1>9. TuiOK(tui, records)
  BY <1>6, <1>7, <1>8 DEF TuiOK, KeptIsSelected, KeptHasEnded
<1>10. records \in Recs /\ hidden \subseteq ListRuns
  BY DEF ListsInit, Recs, RunStatus
<1> QED
  BY <1>9, <1>10 DEF ListsInv

LEMMA ListsNextInv == ListsInv /\ [ListsNext]_listVars => ListsInv'
<1> SUFFICES ASSUME ListsInv, [ListsNext]_listVars PROVE ListsInv'
  OBVIOUS
<1>1. CASE UNCHANGED listVars
  BY <1>1 DEF ListsInv, listVars
<1>2. ASSUME NEW runs \in Searches, LoadedVisibility(ListRuns \ runs) PROVE ListsInv'
  <2>1. ListRuns \ runs \in SUBSET ListRuns
    OBVIOUS
  <2> QED
    BY <1>2, <2>1, VisibilityOK
<1> QED
  BY <1>1, <1>2, SmallStepsOK, FinishOK, LeaveOK, HideOK, OpenOK, SnapshotOK, SelectOK,
     NextUnreadOK, SearchOK DEF ListsNext

-----------------------------------------------------------------------------
(* A snapshot leaves the selection where the property says.                *)
LEMMA SelectionStays ==
  ASSUME ListsInv, [ListsNext]_listVars, records' # records, tui.scope \in ListScopes
  PROVE  LET s == tui.scope
             list == tui.lists[s]
             r == list.selected IN
         /\ r # NoRun /\ r \notin hidden
         /\ \/ r \in list.found /\ IsIn(Members(s, records', hidden), r)
            \/ s = "running" /\ records.status[r] = "running" /\ records'.status[r] = "ended"
            \/ r = tui.retained /\ records'.status[r] = "ended"
            \/ s # "running" /\ tui.inspect = r /\ tui.details
         => tui'.lists[s].selected = r
<1>1. PICK q \in ListRuns, status \in RunStatus, unread \in BOOLEAN :
        AcceptSnapshot(q, status, unread)
  BY DEF ListsNext, listVars, InspectSelected, RefreshByHand, FinishRefresh, LeaveActivity,
     FocusDetails, HideSelected, OpenActivity, SelectRun, NextUnread, SetLocal, LoadedVisibility
<1>2. records' \in Recs /\ tui' = Rebuilt(tui, records', hidden)
  BY <1>1 DEF AcceptSnapshot, ListsInv, Recs
<1>3. PICK recs \in Recs : recs = records'
  BY <1>2
<1>4. PICK u : u = Rebuilt(tui, recs, hidden)
  OBVIOUS
<1>5. PICK s \in ListScopes : s = tui.scope
  OBVIOUS
<1>6. PICK r : r = tui.lists[s].selected
  OBVIOUS
<1>7. /\ Keeps(tui, recs, hidden) => u.lists["running"].selected = tui.lists["running"].selected
      /\ r \notin hidden /\ r \in tui.lists[s].found /\ IsIn(Members(s, recs, hidden), r) =>
           u.lists[s].selected = r
      /\ s # "running" /\ tui.details /\ tui.inspect # NoRun /\ tui.inspect = r =>
           u.lists[s].selected = r
  BY <1>3, <1>4, <1>5, <1>6, RebuiltOK DEF ListsInv, TuiOK
<1>8. ASSUME r # NoRun, r \notin hidden, recs.status[r] = "ended", s = "running"
      PROVE  u.lists[s].selected = r
  <2>1. IsIn(tui.lists["running"].rows, r)
    BY <1>6, <1>8 DEF ListsInv, TuiOK, SelectedIsRow
  <2>2. Keeps(tui, recs, hidden)
    BY <1>5, <1>6, <1>8, <2>1 DEF Keeps
  <2> QED
    BY <1>6, <1>7, <1>8, <2>2
<1>9. r # NoRun /\ r = tui.retained => s = "running"
  BY <1>5 DEF ListsInv, TuiOK, KeptIsSelected
<1> QED
  BY <1>2, <1>3, <1>4, <1>5, <1>6, <1>7, <1>8, <1>9

-----------------------------------------------------------------------------
(* Any number of runs, in any order, keep the types of the two lists.      *)
THEOREM ListsTypeCorrect == ListsSpec => []ListsTypeOK
<1>1. ListsInv => ListsTypeOK
  <2> SUFFICES ASSUME ListsInv PROVE ListsTypeOK
    OBVIOUS
  <2>1. tui \in Tui /\ \A s \in ListScopes : Len(tui.lists[s].rows) <= Len(RunOrder)
    BY DEF ListsInv, TuiOK, Short
  <2>2. ASSUME NEW s \in ListScopes
        PROVE  LET list == tui.lists[s] IN
               /\ list.selected \in ListRuns \cup {NoRun}
               /\ list.index \in 1..Len(RunOrder) \cup {1}
               /\ list.rows \in Seq(ListRuns) /\ Len(list.rows) <= Len(RunOrder)
               /\ list.found \subseteq ListRuns
    BY <2>1 DEF Tui, List
  <2>3. /\ tui.scope \in ListScopes \cup {"experiment"} /\ tui.manual \in ListScopes \cup {"none"}
        /\ {tui.retained, tui.inspect} \subseteq ListRuns \cup {NoRun} /\ tui.details \in BOOLEAN
    BY <2>1 DEF Tui
  <2> QED
    BY <2>2, <2>3 DEF ListsInv, Recs, ListsTypeOK
<1> QED
  BY <1>1, ListsInitInv, ListsNextInv, PTL DEF ListsSpec

(* For any runs, searches and snapshots: a run that has ended is kept only *)
(* while it is the selected row of Running on the screen, and no snapshot  *)
(* moves the selection off a run that is still in the list, ends while it  *)
(* is selected or is being read (rebuildActivityViews).                    *)
THEOREM ReadersAlwaysKeepTheirPlace == ListsSpec => ReadersKeepTheirPlace
<1>1. ListsInv => OnlySelectedIsRetained
  BY DEF ListsInv, TuiOK, KeptIsSelected, KeptHasEnded, SelectedIsRow, OnlySelectedIsRetained
<1>2. ListsSpec => SnapshotsKeepSelection
  BY SelectionStays, ListsInitInv, ListsNextInv, PTL DEF ListsSpec, SnapshotsKeepSelection
<1> QED
  BY <1>1, <1>2, ListsInitInv, ListsNextInv, PTL DEF ListsSpec, ReadersKeepTheirPlace

-----------------------------------------------------------------------------
(***************************************************************************)
(* Theorems of TerminalTargets: a target's session was opened for it, with *)
(* its configuration, and is open, for any targets, configurations and     *)
(* commands.                                                               *)
(*                                                                         *)
(* One command at most will be heard, and it was made for the active       *)
(* target as it is now.  The session that an edit retires is dead, no      *)
(* longer live and never open again, before that command opens another;    *)
(* so what a late command still closes is nobody's.                        *)
(***************************************************************************)

Opened(p) == sessions[p] # "unused"

(* Closed for good: what is connecting without an entry can only fail.     *)
Dead(p) == sessions[p] # "open" /\ \A t \in TargetIDs : live[t] # p

ForTarget(p, t) == Opened(p) /\ command[p].target = t

(* A command that is current, and what it has got so far.                  *)
CurrentOK(c) ==
    LET t == command[c].target
        e == command[c].entry IN
    /\ t = activeTarget /\ command[c].config = targets[t]
    /\ command[c].at \notin {"unused", "done"}
    /\ command[c].at = "begun" => command[c].prior = tabs[t].retiring
    /\ command[c].at # "begun" /\ tabs[t].retiring # Absent => Dead(tabs[t].retiring)
    /\ ~overtaken /\ command[c].at = "waiting" => live[t] = e \/ sessions[e] = "failed"
    /\ ~overtaken /\ command[c].at = "answered" /\ e # Absent =>
         live[t] = e /\ sessions[e] = "open"

CommandOK(c) ==
    LET t == command[c].target
        e == command[c].entry
        p == command[c].prior IN
    /\ Opened(c) => command[c].at \in {"waiting", "answered", "done"}
    /\ command[c].at = "begun" =>
         p # Absent /\ ForTarget(p, t) /\ (Dead(p) \/ p = tabs[t].retiring)
    /\ command[c].at = "waiting" => e # Absent
    /\ command[c].at \in {"waiting", "answered"} /\ e # Absent =>
         ForTarget(e, t) /\ command[e].config = command[c].config
    /\ command[c].current => CurrentOK(c)

Fresh(t) == tabs[t].session = Absent /\ tabs[t].retiring = Absent /\ ~tabs[t].pending

TabOK(t) ==
    LET s == tabs[t].session
        p == tabs[t].retiring IN
    /\ s # Absent =>
         /\ ForTarget(s, t) /\ command[s].config = targets[t] /\ p = Absent
         /\ ~overtaken => live[t] = s /\ sessions[s] = "open"
    /\ p # Absent => ForTarget(p, t)
    /\ targets[t] = Absent => Fresh(t)
    /\ tabs[t].pending => t = activeTarget /\ \E c \in Commands : command[c].current

LiveOK(t) ==
    live[t] # Absent => ForTarget(live[t], t) /\ sessions[live[t]] \in {"connecting", "open"}

OneCurrent == \A c, d \in Commands : command[c].current /\ command[d].current => c = d

(* A target set up while a form is saved is not in the form's list.        *)
FormOK ==
    form.at = "saving" =>
        /\ form.list[form.target] \in Configs
        /\ \A u \in TargetIDs \ {form.target} :
             \/ form.list[u] = targets[u]
             \/ form.list[u] = Absent /\ Fresh(u) /\ u # activeTarget

TargetsInv ==
    /\ TargetsTypeOK /\ targets[activeTarget] # Absent
    /\ \A c \in Commands : CommandOK(c)
    /\ \A t \in TargetIDs : TabOK(t) /\ LiveOK(t)
    /\ OneCurrent /\ FormOK

-----------------------------------------------------------------------------
(* What every step keeps of what has been opened.                          *)

Grows ==
    /\ \A p \in Commands, t \in TargetIDs : ForTarget(p, t) => ForTarget(p, t)'
    /\ \A p \in Commands :
         Opened(p) => /\ Dead(p) => Dead(p)'
                      /\ command'[p].config = command[p].config

LEMMA Constants ==
    /\ Absent \notin Commands /\ Absent \notin Configs
    /\ First \in TargetIDs /\ FirstConfig \in Configs
    /\ NoForm.at = "none" /\ NoForm.list \in TargetList /\ NoForm.target = First
    /\ NewTab \in Tab /\ NewTab.session = Absent /\ NewTab.retiring = Absent /\ ~NewTab.pending
BY TerminalTargetsAssumption DEF First, FirstConfig, NoForm, TargetList, NewTab, Tab, Sessions

LEMMA Types ==
    ASSUME TargetsInv
    PROVE  /\ targets \in TargetList /\ form.list \in TargetList
           /\ \A t \in TargetIDs :
                /\ tabs[t] \in Tab /\ tabs[t].session \in Sessions /\ tabs[t].retiring \in Sessions
                /\ tabs[t].pending \in BOOLEAN /\ live[t] \in Sessions
           /\ \A c \in Commands :
                /\ command[c] \in Command /\ command[c].target \in TargetIDs
                /\ command[c].prior \in Sessions /\ command[c].entry \in Sessions
                /\ command[c].current \in BOOLEAN /\ command[c].config \in Configs
                /\ sessions[c] \in {"unused", "connecting", "open", "failed", "closed"}
BY DEF TargetsInv, TargetsTypeOK, Tab, Command

LEMMA GrowsWith ==
    ASSUME TargetsInv,
           \A p \in Commands : Opened(p) =>
              command'[p].target = command[p].target /\ command'[p].config = command[p].config,
           \A p \in Commands : Opened(p) => Opened(p)',
           \A p \in Commands : Opened(p) =>
              /\ sessions'[p] = "open" => sessions[p] = "open" \/ \E t \in TargetIDs : live[t] = p
              /\ \A t \in TargetIDs : live'[t] = p => live[t] = p
    PROVE  Grows
<1>1. ASSUME NEW p \in Commands, NEW t \in TargetIDs, ForTarget(p, t) PROVE ForTarget(p, t)'
  BY <1>1 DEF ForTarget
<1>2. ASSUME NEW p \in Commands, Opened(p), Dead(p) PROVE Dead(p)'
  BY <1>2 DEF Dead
<1> QED
  BY <1>1, <1>2 DEF Grows

(* A command that did nothing.                                             *)
LEMMA CommandStays ==
    ASSUME TargetsInv, Grows, NEW d \in Commands,
           command'[d] = command[d] \/ command'[d] = [command[d] EXCEPT !.current = FALSE],
           Opened(d)' => Opened(d),
           \/ tabs'[command[d].target].retiring = tabs[command[d].target].retiring
           \/ /\ tabs[command[d].target].retiring # Absent
              /\ Dead(tabs[command[d].target].retiring)
           \/ tabs[command[d].target].retiring = Absent,
           command'[d].current => CurrentOK(d)'
    PROVE  CommandOK(d)'
<1> DEFINE t == command[d].target
           e == command[d].entry
           p == command[d].prior
<1>1. /\ command[d] \in Command /\ t \in TargetIDs /\ p \in Sessions /\ e \in Sessions
      /\ tabs[t].retiring \in Sessions
  BY Types
<1>5. /\ command'[d].at = command[d].at /\ command'[d].target = command[d].target
      /\ command'[d].prior = command[d].prior /\ command'[d].entry = command[d].entry
      /\ command'[d].config = command[d].config
  BY <1>1 DEF Command
<1>2. CommandOK(d)
  BY DEF TargetsInv
<1>3. command[d].at = "begun" =>
         p # Absent /\ ForTarget(p, t)' /\ (Dead(p)' \/ p = tabs'[t].retiring)
  <2>1. SUFFICES ASSUME command[d].at = "begun"
                 PROVE  p # Absent /\ ForTarget(p, t)' /\ (Dead(p)' \/ p = tabs'[t].retiring)
    OBVIOUS
  <2>2. p # Absent /\ ForTarget(p, t) /\ (Dead(p) \/ p = tabs[t].retiring)
    BY <1>2, <2>1 DEF CommandOK
  <2>3. p \in Commands /\ Opened(p)
    BY <1>1, <2>2 DEF Sessions, ForTarget
  <2>4. ForTarget(p, t)' /\ (Dead(p) => Dead(p)')
    BY <1>1, <1>5, <2>2, <2>3 DEF Grows
  <2> QED
    BY <1>5, <2>2, <2>4
<1>4. command[d].at \in {"waiting", "answered"} /\ e # Absent =>
         ForTarget(e, t)' /\ command'[e].config = command[d].config
  <2>1. SUFFICES ASSUME command[d].at \in {"waiting", "answered"}, e # Absent
                 PROVE  ForTarget(e, t)' /\ command'[e].config = command[d].config
    OBVIOUS
  <2>2. ForTarget(e, t) /\ command[e].config = command[d].config /\ e \in Commands
    BY <1>1, <1>2, <2>1 DEF CommandOK, Sessions
  <2> QED
    BY <1>1, <1>5, <2>2 DEF Grows, ForTarget
<1> QED
  BY <1>2, <1>3, <1>4, <1>5 DEF CommandOK, ForTarget, Dead, Opened

(* A tab that did not change, of a target that did not.                    *)
LEMMA TabStays ==
    ASSUME TargetsInv, Grows, NEW t \in TargetIDs,
           targets'[t] = targets[t],
           tabs'[t] = tabs[t] \/ tabs'[t] = [tabs[t] EXCEPT !.pending = FALSE],
           tabs'[t].pending => t = activeTarget' /\ \E c \in Commands : command'[c].current,
           ~overtaken' => /\ ~overtaken
                          /\ tabs[t].session # Absent /\ live[t] = tabs[t].session
                             /\ sessions[tabs[t].session] = "open" =>
                               live'[t] = live[t] /\ sessions'[tabs[t].session] = "open"
    PROVE  TabOK(t)'
<1>1. tabs[t] \in Tab /\ TabOK(t) /\ tabs[t].session \in Sessions /\ tabs[t].retiring \in Sessions
  BY Types DEF TargetsInv
<1>2. tabs'[t].session = tabs[t].session /\ tabs'[t].retiring = tabs[t].retiring
  BY <1>1 DEF Tab
<1>3. Fresh(t) => Fresh(t)'
  <2>1. [tabs[t] EXCEPT !.pending = FALSE].pending = FALSE
    BY <1>1 DEF Tab
  <2> QED
    BY <1>2, <2>1 DEF Fresh
<1>4. tabs[t].session # Absent =>
        /\ ForTarget(tabs[t].session, t)' /\ command'[tabs[t].session].config = targets'[t]
        /\ tabs[t].retiring = Absent
        /\ ~overtaken' => live'[t] = tabs[t].session /\ sessions'[tabs[t].session] = "open"
  BY <1>1, <1>2 DEF TabOK, Grows, Sessions, ForTarget
<1>5. tabs[t].retiring # Absent => ForTarget(tabs[t].retiring, t)'
  BY <1>1, <1>2 DEF TabOK, Grows, Sessions
<1>6. targets'[t] = Absent => Fresh(t)'
  BY <1>1, <1>3 DEF TabOK
<1> QED
  BY <1>2, <1>4, <1>5, <1>6 DEF TabOK, ForTarget, Opened

LEMMA LiveStays ==
    ASSUME TargetsInv, Grows, NEW t \in TargetIDs, live'[t] = live[t] \/ live'[t] = Absent,
           live'[t] # Absent => sessions'[live[t]] \in {"connecting", "open"}
    PROVE  LiveOK(t)'
<1>1. live[t] \in Sessions /\ LiveOK(t)
  BY Types DEF TargetsInv
<1>2. CASE live'[t] = Absent
  BY <1>2 DEF LiveOK
<1>3. CASE live'[t] # Absent
  <2>1. live'[t] = live[t] /\ ForTarget(live[t], t)
    BY <1>1, <1>3 DEF LiveOK
  <2>2. ForTarget(live[t], t)'
    BY <1>1, <1>3, <2>1 DEF Grows, Sessions
  <2> QED
    BY <1>3, <2>1, <2>2 DEF LiveOK, ForTarget, Opened
<1> QED
  BY <1>2, <1>3

-----------------------------------------------------------------------------
(* Forms and setups begin: the commands and tabs stay as they are.         *)

Quiet == UNCHANGED <<targets, activeTarget, tabs, command, sessions, live, overtaken>>

LEMMA QuietStays ==
    ASSUME TargetsInv, Quiet
    PROVE  /\ targets' = targets /\ activeTarget' = activeTarget
           /\ targets'[activeTarget'] # Absent
           /\ \A c \in Commands : CommandOK(c)'
           /\ \A t \in TargetIDs : TabOK(t)' /\ LiveOK(t)' /\ (Fresh(t) => Fresh(t)')
           /\ OneCurrent'
<1>1. \A c \in Commands : CommandOK(c)'
  BY DEF Quiet, TargetsInv, CommandOK, CurrentOK, ForTarget, Opened, Dead
<1>2. \A t \in TargetIDs : TabOK(t)' /\ LiveOK(t)' /\ (Fresh(t) => Fresh(t)')
  BY DEF Quiet, TargetsInv, TabOK, LiveOK, ForTarget, Opened, Fresh
<1>3. OneCurrent' /\ targets' = targets /\ activeTarget' = activeTarget
      /\ targets'[activeTarget'] # Absent
  BY DEF Quiet, TargetsInv, OneCurrent
<1> QED
  BY <1>1, <1>2, <1>3

LEMMA FormStays ==
    ASSUME TargetsInv, UNCHANGED <<form, targets, activeTarget>>,
           \A t \in TargetIDs \ {activeTarget} : Fresh(t) => Fresh(t)'
    PROVE  FormOK'
BY DEF TargetsInv, FormOK

LEMMA InvSaveTarget ==
    ASSUME TargetsInv, NEW t \in TargetIDs, NEW config \in Configs, SaveTarget(t, config) PROVE TargetsInv'
<1>1. PICK list : list = [targets EXCEPT ![t] = config]
  OBVIOUS
<1>2. /\ list \in TargetList /\ list[t] = config
      /\ \A u \in TargetIDs \ {t} : list[u] = targets[u]
  BY <1>1, Types DEF TargetList
<1>3. form' = [at |-> "saving", target |-> t, list |-> list] /\ targets' = targets
  BY <1>1 DEF SaveTarget
<1>4. form'.at = "saving" /\ form'.target = t /\ form'.list = list
  BY <1>3
<1>5. FormOK'
  BY <1>2, <1>3, <1>4 DEF FormOK
<1>6. saves' \in 0..MaxSaves
  BY TerminalTargetsAssumption DEF SaveTarget, TargetsInv, TargetsTypeOK
<1>7. Quiet
  BY DEF SaveTarget, Quiet
<1>8. TargetsTypeOK'
  BY <1>2, <1>4, <1>6 DEF SaveTarget, TargetsInv, TargetsTypeOK
<1> QED
  BY <1>5, <1>7, <1>8, QuietStays DEF TargetsInv

LEMMA InvBeginSetup ==
    ASSUME TargetsInv, NEW t \in TargetIDs, NEW config \in Configs, BeginSetup(t, config) PROVE TargetsInv'
<1>1. Quiet /\ form' = form
  BY DEF BeginSetup, Quiet
<1>2. saves' \in 0..MaxSaves
  BY TerminalTargetsAssumption DEF BeginSetup, TargetsInv, TargetsTypeOK
<1>3. TargetsTypeOK'
  BY <1>2 DEF BeginSetup, TargetsInv, TargetsTypeOK
<1>4. FormOK'
  BY <1>1, QuietStays, FormStays
<1> QED
  BY <1>1, <1>3, <1>4, QuietStays DEF TargetsInv

-----------------------------------------------------------------------------
(* Steps of a command.                                                     *)

LEMMA CommandMoves ==
    ASSUME TargetsInv, NEW c \in Commands, NEW r \in Command, command' = [command EXCEPT ![c] = r]
    PROVE  /\ command' \in [Commands -> Command] /\ command'[c] = r
           /\ \A d \in Commands \ {c} : command'[d] = command[d]
BY DEF TargetsInv, TargetsTypeOK

(* Steps that leave sessions and tabs alone.                               *)
LEMMA OnlyCommand ==
    ASSUME TargetsInv, NEW c \in Commands, NEW r \in Command, command' = [command EXCEPT ![c] = r],
           r.target = command[c].target, r.config = command[c].config,
           r.current = command[c].current,
           UNCHANGED <<targets, activeTarget, tabs, sessions, live, form, setup, overtaken, saves>>,
           CommandOK(c)'
    PROVE  TargetsInv'
<1>1. /\ command' \in [Commands -> Command] /\ command'[c] = r
      /\ \A d \in Commands \ {c} : command'[d] = command[d]
  BY CommandMoves
<1>2. \A p \in Commands : /\ command'[p].target = command[p].target
                          /\ command'[p].config = command[p].config
                          /\ command'[p].current = command[p].current
  BY <1>1
<1>3. Grows
  BY <1>2, GrowsWith DEF Opened
<1>4. ASSUME NEW d \in Commands \ {c} PROVE CommandOK(d)'
  <2>1. command[d].current => CurrentOK(d)'
    <3>1. command[d].current => CurrentOK(d)
      BY DEF TargetsInv, CommandOK
    <3> QED
      BY <1>1, <3>1 DEF CurrentOK, Dead
  <2> QED
    BY <1>1, <1>3, <2>1, CommandStays DEF Opened
<1>5. ASSUME NEW t \in TargetIDs PROVE TabOK(t)' /\ LiveOK(t)'
  <2>1. TabOK(t) /\ LiveOK(t)
    BY DEF TargetsInv
  <2>2. tabs'[t].pending => t = activeTarget' /\ \E d \in Commands : command'[d].current
    BY <1>2, <2>1 DEF TabOK
  <2>3. TabOK(t)'
    BY <1>3, <2>2, TabStays
  <2>4. live'[t] # Absent => sessions'[live[t]] \in {"connecting", "open"}
    BY <2>1 DEF LiveOK
  <2> QED
    BY <1>3, <2>3, <2>4, LiveStays
<1>6. OneCurrent'
  BY <1>2 DEF TargetsInv, OneCurrent
<1>7. FormOK'
  BY FormStays DEF Fresh
<1>8. TargetsTypeOK'
  BY <1>1 DEF TargetsInv, TargetsTypeOK
<1> QED
  BY <1>4, <1>5, <1>6, <1>7, <1>8 DEF TargetsInv

LEMMA InvCheckCancelled ==
    ASSUME TargetsInv, NEW c \in Commands, CheckCancelled(c) PROVE TargetsInv'
<1>1. PICK r : r = [command[c] EXCEPT !.at = IF command[c].current THEN "opening" ELSE "done"]
  OBVIOUS
<1>2. /\ r \in Command /\ r.target = command[c].target /\ r.config = command[c].config
      /\ r.current = command[c].current /\ r.prior = command[c].prior
      /\ r.at = IF command[c].current THEN "opening" ELSE "done"
  BY <1>1, Types DEF Command
<1>3. command' = [command EXCEPT ![c] = r]
  BY <1>1 DEF CheckCancelled, TargetsInv, TargetsTypeOK
<1>4. command'[c] = r
  BY <1>2, <1>3, CommandMoves
<1>5. CommandOK(c) /\ command[c].at = "checking"
  BY DEF TargetsInv, CheckCancelled
<1>6. CommandOK(c)'
  BY <1>2, <1>4, <1>5 DEF CheckCancelled, CommandOK, CurrentOK, Dead, Opened
<1> QED
  BY <1>2, <1>3, <1>6, OnlyCommand DEF CheckCancelled

LEMMA InvOpenReturns ==
    ASSUME TargetsInv, NEW c \in Commands, OpenReturns(c) PROVE TargetsInv'
<1>6. PICK e : e = command[c].entry
  OBVIOUS
<1>7. PICK t : t = command[c].target
  OBVIOUS
<1>1. /\ command[c].at = "waiting" /\ command[c] \in Command /\ t \in TargetIDs
      /\ CommandOK(c) /\ e \in Sessions
  BY <1>6, <1>7, Types DEF OpenReturns, TargetsInv
<1>2. e \in Commands /\ ForTarget(e, t) /\ command[e].config = command[c].config
  BY <1>6, <1>7, <1>1 DEF CommandOK, Sessions
<1>3. /\ sessions[e] \in {"unused", "connecting", "open", "failed", "closed"}
      /\ LiveOK(t) /\ command[e].config \in Configs
  BY <1>6, <1>7, <1>1, <1>2, Types DEF TargetsInv
<1>4. CASE command[c].current /\ sessions[e] # "connecting"
           /\ command' = [command EXCEPT ![c].at = "answered",
                            ![c].entry = IF sessions[e] = "failed" THEN Absent ELSE @]
  <2>1. PICK r : r = [command[c] EXCEPT !.at = "answered",
                                  !.entry = IF sessions[e] = "failed" THEN Absent ELSE e]
    OBVIOUS
  <2>2. /\ r \in Command /\ r.target = t /\ r.config = command[c].config
        /\ r.current = command[c].current /\ r.prior = command[c].prior
        /\ r.at = "answered" /\ r.entry = IF sessions[e] = "failed" THEN Absent ELSE e
    BY <1>6, <1>7, <1>1, <2>1 DEF Command, Sessions
  <2>3. command' = [command EXCEPT ![c] = r]
    BY <1>6, <1>7, <1>4, <2>1 DEF TargetsInv, TargetsTypeOK
  <2>4. /\ command'[c] = r /\ \A d \in Commands \ {c} : command'[d] = command[d]
    BY <1>6, <1>7, <2>2, <2>3, CommandMoves
  <2>5. command'[e].target = command[e].target /\ command'[e].config = command[e].config
    BY <1>6, <1>7, <1>2, <2>2, <2>4
  <2>6. UNCHANGED <<targets, activeTarget, tabs, sessions, live, overtaken>>
    BY DEF OpenReturns
  <2>7. CurrentOK(c)'
    <3>1. CurrentOK(c)
      BY <1>6, <1>7, <1>1, <1>4 DEF CommandOK
    <3>2. ~overtaken /\ sessions[e] # "failed" => live[t] = e /\ sessions[e] = "open"
      <4>1. e # Absent
        BY <1>6, <1>7, <1>2, Constants
      <4>2. ~overtaken /\ sessions[e] # "failed" => live[t] = e
        BY <1>6, <1>7, <1>1, <3>1 DEF CurrentOK
      <4>3. live[t] = e => sessions[e] = "open"
        BY <1>6, <1>7, <1>3, <1>4, <4>1 DEF LiveOK
      <4> QED
        BY <1>6, <1>7, <4>2, <4>3
    <3>3. command[c].at # "begun"
      BY <1>6, <1>7, <1>1
    <3>4. /\ t = activeTarget /\ command[c].config = targets[t]
          /\ tabs[t].retiring # Absent => Dead(tabs[t].retiring)
      BY <1>6, <1>7, <3>1, <3>3 DEF CurrentOK
    <3>5. command'[c].target = t /\ command'[c].config = command[c].config
          /\ command'[c].at = "answered"
      BY <1>6, <1>7, <2>2, <2>4
    <3>6. tabs[t].retiring # Absent => Dead(tabs[t].retiring)'
      BY <1>6, <1>7, <2>6, <3>4 DEF Dead
    <3>7. ~overtaken /\ command'[c].entry # Absent =>
            command'[c].entry = e /\ live[t] = e /\ sessions[e] = "open"
      BY <1>6, <1>7, <2>2, <2>4, <3>2
    <3> QED
      BY <1>6, <1>7, <2>6, <3>4, <3>5, <3>6, <3>7 DEF CurrentOK, Dead
  <2>8. CommandOK(c)'
    BY <1>6, <1>7, <1>1, <1>2, <2>2, <2>4, <2>5, <2>6, <2>7 DEF CommandOK, ForTarget, Opened
  <2> QED
    BY <1>6, <1>7, <2>2, <2>3, <2>8, OnlyCommand DEF OpenReturns
<1>5. CASE ~command[c].current /\ command' = [command EXCEPT ![c].at = "done"]
  <2>1. PICK r : r = [command[c] EXCEPT !.at = "done"]
    OBVIOUS
  <2>2. /\ r \in Command /\ r.target = t /\ r.config = command[c].config
        /\ r.current = command[c].current /\ r.at = "done"
    BY <1>6, <1>7, <1>1, <2>1 DEF Command
  <2>3. command' = [command EXCEPT ![c] = r]
    BY <1>6, <1>7, <1>5, <2>1 DEF TargetsInv, TargetsTypeOK
  <2>4. command'[c] = r
    BY <1>6, <1>7, <2>2, <2>3, CommandMoves
  <2>5. CommandOK(c)'
    BY <1>6, <1>7, <1>5, <2>2, <2>4 DEF CommandOK
  <2> QED
    BY <1>6, <1>7, <2>2, <2>3, <2>5, OnlyCommand DEF OpenReturns
<1> QED
  BY <1>6, <1>7, <1>4, <1>5 DEF OpenReturns

LEMMA InvClosePrior ==
    ASSUME TargetsInv, NEW c \in Commands, ClosePrior(c) PROVE TargetsInv'
<1>1. PICK p : p = command[c].prior
  OBVIOUS
<1>2. PICK t : t = command[c].target
  OBVIOUS
<1>3. /\ command[c] \in Command /\ t \in TargetIDs /\ command[c].at = "begun"
      /\ p \in Commands /\ ForTarget(p, t) /\ (Dead(p) \/ p = tabs[t].retiring)
  <2>1. CommandOK(c) /\ command[c].at = "begun" /\ command[c].prior \in Sessions
    BY Types DEF TargetsInv, ClosePrior
  <2> QED
    BY <1>1, <1>2, <2>1, Types DEF CommandOK, Sessions
<1>4. PICK r : r = [command[c] EXCEPT !.at = "checking", !.prior = Absent]
  OBVIOUS
<1>5. /\ r \in Command /\ r.target = t /\ r.config = command[c].config
      /\ r.current = command[c].current /\ r.at = "checking"
  BY <1>2, <1>3, <1>4 DEF Command, Sessions
<1>6. command' = [command EXCEPT ![c] = r]
  BY <1>4 DEF ClosePrior, TargetsInv, TargetsTypeOK
<1>7. /\ command' \in [Commands -> Command] /\ command'[c] = r
      /\ \A d \in Commands \ {c} : command'[d] = command[d]
  BY <1>5, <1>6, CommandMoves
<1>8. \A d \in Commands : /\ command'[d].target = command[d].target
                          /\ command'[d].config = command[d].config
                          /\ command'[d].current = command[d].current
  BY <1>2, <1>5, <1>7
<1>9. UNCHANGED <<targets, activeTarget, tabs, form, setup, overtaken, saves>>
  BY DEF ClosePrior
<1>10. /\ sessions' \in [Commands -> {"unused", "connecting", "open", "failed", "closed"}]
       /\ sessions'[p] = IF sessions[p] = "open" THEN "closed" ELSE sessions[p]
       /\ \A q \in Commands \ {p} : sessions'[q] = sessions[q]
  BY <1>1, <1>3 DEF ClosePrior, Closed, TargetsInv, TargetsTypeOK
<1>11. /\ live' \in [TargetIDs -> Sessions]
       /\ \A u \in TargetIDs : live'[u] = IF live[u] = p THEN Absent ELSE live[u]
  BY <1>1, Types DEF ClosePrior, WithoutEntry, Sessions
<1>12. Grows
  <2>1. \A q \in Commands : Opened(q) => Opened(q)'
    BY <1>10 DEF Opened
  <2>2. ASSUME NEW q \in Commands
        PROVE  /\ sessions'[q] = "open" => sessions[q] = "open"
               /\ \A u \in TargetIDs : live'[u] = q => live[u] = q
    BY <1>10, <1>11, Constants
  <2> QED
    BY <1>8, <2>1, <2>2, GrowsWith
<1>13. Dead(p)'
  BY <1>3, <1>10, <1>11, Constants DEF Dead
(* Nobody has the session that it closes.                                  *)
<1>14. ASSUME NEW u \in TargetIDs, live[u] = tabs[u].session,
              tabs[u].session # Absent, sessions[tabs[u].session] = "open"
       PROVE  tabs[u].session # p
  <2>1. TabOK(u) /\ TabOK(t)
    BY <1>3 DEF TargetsInv
  <2>2. SUFFICES ASSUME tabs[u].session = p PROVE FALSE
    OBVIOUS
  <2>3. ~Dead(p)
    BY <1>14, <2>2 DEF Dead
  <2>4. u = t
    BY <1>3, <1>14, <2>1, <2>2 DEF TabOK, ForTarget
  <2> QED
    BY <1>3, <1>14, <2>1, <2>3, <2>4, Constants DEF TabOK
<1>15. ASSUME NEW d \in Commands \ {c} PROVE CommandOK(d)'
  <2>1. command[d].current => CurrentOK(d)'
    <3>1. SUFFICES ASSUME command[d].current PROVE CurrentOK(d)'
      OBVIOUS
    <3>2. CurrentOK(d) /\ CommandOK(d)
      BY <3>1 DEF TargetsInv, CommandOK
    <3>3. PICK u : u = command[d].target
      OBVIOUS
    <3>4. PICK e : e = command[d].entry
      OBVIOUS
    <3>5. u \in TargetIDs /\ e \in Sessions /\ tabs[u].retiring \in Sessions /\ TabOK(u)
      BY <3>3, <3>4, Types DEF TargetsInv
    <3>6. command[d].at # "begun" /\ tabs[u].retiring # Absent => Dead(tabs[u].retiring)'
      <4>1. tabs[u].retiring # Absent => tabs[u].retiring \in Commands /\ Opened(tabs[u].retiring)
        BY <3>5 DEF TabOK, ForTarget, Sessions
      <4>2. PICK q : q = tabs[u].retiring
        OBVIOUS
      <4>3. command[d].at # "begun" /\ q # Absent => Dead(q)'
        BY <1>12, <3>2, <3>3, <4>1, <4>2 DEF CurrentOK, Grows
      <4> QED
        BY <1>9, <4>2, <4>3 DEF Dead
    <3>7. ASSUME ~overtaken, command[d].at \in {"waiting", "answered"}, e # Absent, live[u] = e
          PROVE  e # p
      <4>1. SUFFICES ASSUME e = p PROVE FALSE
        OBVIOUS
      <4>2. ~Dead(p) /\ p = tabs[t].retiring
        BY <1>3, <3>5, <3>7, <4>1 DEF Dead
      <4>3. u = t
        BY <1>3, <3>2, <3>3, <3>4, <3>7, <4>1 DEF CommandOK, ForTarget
      <4> QED
        BY <1>3, <3>2, <3>3, <3>7, <4>1, <4>2, <4>3 DEF CurrentOK
    <3>8. ~overtaken /\ command[d].at = "waiting" => live'[u] = e \/ sessions'[e] = "failed"
      <4>1. command[d].at = "waiting" => e # Absent /\ e \in Commands
        BY <3>2, <3>4, <3>5 DEF CommandOK, Sessions
      <4>2. ~overtaken /\ command[d].at = "waiting" => live[u] = e \/ sessions[e] = "failed"
        BY <3>2, <3>3, <3>4 DEF CurrentOK
      <4>3. sessions[e] = "failed" /\ e \in Commands => sessions'[e] = "failed"
        BY <1>10
      <4> QED
        BY <1>11, <3>5, <3>7, <4>1, <4>2, <4>3
    <3>9. ~overtaken /\ command[d].at = "answered" /\ e # Absent =>
            live'[u] = e /\ sessions'[e] = "open"
      BY <1>10, <1>11, <3>2, <3>3, <3>4, <3>5, <3>7 DEF CurrentOK, Sessions
    <3> QED
      BY <1>7, <1>9, <3>2, <3>3, <3>4, <3>6, <3>8, <3>9 DEF CurrentOK, Dead
  <2> QED
    BY <1>7, <1>9, <1>10, <1>12, <2>1, CommandStays DEF Opened
<1>16. CommandOK(c)'
  <2>1. command[c].current => CurrentOK(c)'
    <3>1. command[c].current => /\ t = activeTarget /\ command[c].config = targets[t]
                                /\ p = tabs[t].retiring
      BY <1>1, <1>2, <1>3 DEF TargetsInv, CommandOK, CurrentOK
    <3> QED
      BY <1>5, <1>7, <1>9, <1>13, <3>1 DEF CurrentOK, Dead
  <2>2. ~Opened(c)'
    BY <1>3, <1>10 DEF TargetsInv, CommandOK, Opened
  <2> QED
    BY <1>5, <1>7, <2>1, <2>2 DEF CommandOK
<1>17. ASSUME NEW u \in TargetIDs PROVE TabOK(u)' /\ LiveOK(u)'
  <2>1. TabOK(u) /\ LiveOK(u) /\ live[u] \in Sessions /\ tabs[u].session \in Sessions
    BY Types DEF TargetsInv
  <2>2. tabs'[u].pending => u = activeTarget' /\ \E d \in Commands : command'[d].current
    BY <1>8, <1>9, <2>1 DEF TabOK
  <2>3. tabs[u].session # Absent /\ live[u] = tabs[u].session
            /\ sessions[tabs[u].session] = "open" =>
          live'[u] = live[u] /\ sessions'[tabs[u].session] = "open"
    BY <1>10, <1>11, <1>14, <2>1 DEF Sessions
  <2>4. TabOK(u)'
    BY <1>9, <1>12, <2>2, <2>3, TabStays
  <2>5. live'[u] # Absent => sessions'[live[u]] \in {"connecting", "open"}
    BY <1>10, <1>11, <2>1 DEF LiveOK, Sessions
  <2> QED
    BY <1>11, <1>12, <2>4, <2>5, LiveStays
<1>18. OneCurrent'
  BY <1>8 DEF TargetsInv, OneCurrent
<1>19. FormOK'
  BY <1>9, FormStays DEF Fresh
<1>20. TargetsTypeOK'
  BY <1>7, <1>9, <1>10, <1>11 DEF TargetsInv, TargetsTypeOK
<1> QED
  BY <1>9, <1>15, <1>16, <1>17, <1>18, <1>19, <1>20 DEF TargetsInv

(* The current command, when another one moves.                            *)
LEMMA CurrentStays ==
    ASSUME TargetsInv, Grows, NEW d \in Commands, command[d].current, command'[d] = command[d],
           UNCHANGED <<targets, activeTarget, tabs>>,
           ~overtaken' => ~overtaken,
           command[d].entry # Absent /\ ~overtaken' =>
              /\ live[command[d].target] = command[d].entry =>
                   \/ live'[command[d].target] = command[d].entry
                   \/ /\ command[d].at # "answered"
                      /\ sessions'[command[d].entry] = "failed"
              /\ sessions[command[d].entry] = "failed" => sessions'[command[d].entry] = "failed"
              /\ sessions[command[d].entry] = "open" => sessions'[command[d].entry] = "open"
    PROVE  CurrentOK(d)'
<1>1. CurrentOK(d) /\ CommandOK(d)
  BY DEF TargetsInv, CommandOK
<1>2. PICK u : u = command[d].target
  OBVIOUS
<1>3. PICK e : e = command[d].entry
  OBVIOUS
<1>4. PICK q : q = tabs[u].retiring
  OBVIOUS
<1>5. u \in TargetIDs /\ e \in Sessions /\ q \in Sessions /\ TabOK(u)
  BY <1>2, <1>3, <1>4, Types DEF TargetsInv
<1>6. command[d].at # "begun" /\ q # Absent => Dead(q)'
  <2>1. q # Absent => q \in Commands /\ Opened(q)
    BY <1>4, <1>5 DEF TabOK, ForTarget, Sessions
  <2> QED
    BY <1>1, <1>2, <1>4, <2>1 DEF CurrentOK, Grows
<1>7. ~overtaken' => ~overtaken
  OBVIOUS
<1>8. command[d].at = "waiting" => e # Absent
  BY <1>1, <1>3 DEF CommandOK
<1>9. ~overtaken' /\ command[d].at = "waiting" => live'[u] = e \/ sessions'[e] = "failed"
  <2>1. SUFFICES ASSUME ~overtaken', command[d].at = "waiting"
                 PROVE  live'[u] = e \/ sessions'[e] = "failed"
    OBVIOUS
  <2>2. live[u] = e \/ sessions[e] = "failed"
    BY <1>1, <1>2, <1>3, <1>7, <2>1 DEF CurrentOK
  <2> QED
    BY <1>2, <1>3, <1>8, <2>1, <2>2
<1>10. ~overtaken' /\ command[d].at = "answered" /\ e # Absent =>
         live'[u] = e /\ sessions'[e] = "open"
  <2>1. SUFFICES ASSUME ~overtaken', command[d].at = "answered", e # Absent
                 PROVE  live'[u] = e /\ sessions'[e] = "open"
    OBVIOUS
  <2>2. live[u] = e /\ sessions[e] = "open"
    BY <1>1, <1>2, <1>3, <1>7, <2>1 DEF CurrentOK
  <2> QED
    BY <1>2, <1>3, <2>1, <2>2
<1>11. /\ u = activeTarget' /\ command'[d].config = targets'[u]
       /\ command'[d].at \notin {"unused", "done"}
       /\ command'[d].at = "begun" => command'[d].prior = tabs'[u].retiring
  BY <1>1, <1>2 DEF CurrentOK
<1>12. /\ command'[d].target = u /\ command'[d].entry = e /\ tabs'[u].retiring = q
       /\ command'[d].at = command[d].at
  BY <1>2, <1>3, <1>4
<1>13. command'[d].at # "begun" /\ tabs'[u].retiring # Absent => Dead(tabs[u].retiring)'
  BY <1>6, <1>12 DEF Dead
<1> QED
  BY <1>9, <1>10, <1>11, <1>12, <1>13 DEF CurrentOK, Dead

LEMMA InvConnected ==
    ASSUME TargetsInv, NEW c \in Commands, Connected(c) PROVE TargetsInv'
<1>1. PICK result \in {"open", "failed"} : sessions' = [sessions EXCEPT ![c] = result]
  BY DEF Connected
<1>2. /\ sessions' \in [Commands -> {"unused", "connecting", "open", "failed", "closed"}]
      /\ sessions'[c] = result /\ \A q \in Commands \ {c} : sessions'[q] = sessions[q]
  BY <1>1 DEF TargetsInv, TargetsTypeOK
<1>3. /\ live' \in [TargetIDs -> Sessions]
      /\ \A u \in TargetIDs :
           \/ live'[u] = live[u] /\ (result = "open" \/ live[u] # c)
           \/ live'[u] = Absent /\ live[u] = c /\ result = "failed"
      /\ result = "open" => live[command[c].target] = c
  <2>1. CASE live[command[c].target] = c /\ sessions' = [sessions EXCEPT ![c] = "open"] /\ live' = live
    <3>1. sessions'[c] = "open"
      BY <2>1 DEF TargetsInv, TargetsTypeOK
    <3>2. live \in [TargetIDs -> Sessions] /\ result = "open"
      BY <1>2, <3>1 DEF TargetsInv, TargetsTypeOK
    <3> QED
      BY <2>1, <3>2
  <2>2. CASE sessions' = [sessions EXCEPT ![c] = "failed"] /\ live' = WithoutEntry(c)
    <3>1. sessions'[c] = "failed"
      BY <2>2 DEF TargetsInv, TargetsTypeOK
    <3>2. result = "failed"
      BY <1>2, <3>1
    <3> QED
      BY <2>2, <3>2, Types DEF WithoutEntry, Sessions
  <2> QED
    BY <2>1, <2>2 DEF Connected
<1>4. /\ UNCHANGED <<targets, activeTarget, tabs, command, form, setup, overtaken, saves>>
      /\ sessions[c] = "connecting" /\ command[c].target \in TargetIDs
  BY Types DEF Connected
<1>5. Grows
  <2>1. \A q \in Commands : Opened(q) => Opened(q)'
    BY <1>2, <1>4 DEF Opened
  <2>2. ASSUME NEW q \in Commands
        PROVE  /\ sessions'[q] = "open" => sessions[q] = "open" \/ \E u \in TargetIDs : live[u] = q
               /\ \A u \in TargetIDs : live'[u] = q => live[u] = q
    BY <1>2, <1>3, <1>4, Constants
  <2> QED
    BY <1>4, <2>1, <2>2, GrowsWith
<1>6. ASSUME NEW d \in Commands PROVE CommandOK(d)'
  <2>1. ASSUME command[d].current PROVE CurrentOK(d)'
    <3>1. PICK e \in Sessions : e = command[d].entry
      BY Types
    <3>2. PICK u \in TargetIDs : u = command[d].target
      BY Types
    <3>3. CommandOK(d) /\ CurrentOK(d)
      BY <2>1 DEF TargetsInv, CommandOK
    <3>4. ASSUME e # Absent, ~overtaken, live[u] = e
          PROVE  live'[u] = e \/ (command[d].at # "answered" /\ sessions'[e] = "failed")
      <4>1. CASE live'[u] = Absent /\ live[u] = c /\ result = "failed"
        BY <1>2, <1>4, <3>1, <3>2, <3>3, <3>4, <4>1 DEF CurrentOK
      <4> QED
        BY <1>3, <3>4, <4>1
    <3>5. e \in Commands =>
             /\ sessions[e] = "failed" => sessions'[e] = "failed"
             /\ sessions[e] = "open" => sessions'[e] = "open"
      BY <1>2, <1>4
    <3>6. e # Absent => e \in Commands
      BY DEF Sessions
    <3>7. overtaken \in BOOLEAN
      BY DEF TargetsInv, TargetsTypeOK
    <3> QED
      BY <1>4, <1>5, <2>1, <3>1, <3>2, <3>4, <3>5, <3>6, <3>7, CurrentStays
  <2> QED
    BY <1>2, <1>4, <1>5, <2>1, CommandStays DEF Opened
<1>7. ASSUME NEW u \in TargetIDs PROVE TabOK(u)' /\ LiveOK(u)'
  <2>1. TabOK(u) /\ LiveOK(u) /\ live[u] \in Sessions /\ tabs[u].session \in Sessions
    BY Types DEF TargetsInv
  <2>2. tabs'[u].pending => u = activeTarget' /\ \E d \in Commands : command'[d].current
    BY <1>4, <2>1 DEF TabOK
  <2>3. tabs[u].session # Absent /\ live[u] = tabs[u].session
            /\ sessions[tabs[u].session] = "open" =>
          live'[u] = live[u] /\ sessions'[tabs[u].session] = "open"
    BY <1>2, <1>3, <1>4, <2>1 DEF Sessions
  <2>4. TabOK(u)'
    BY <1>4, <1>5, <2>2, <2>3, TabStays
  <2>5. live'[u] # Absent => sessions'[live[u]] \in {"connecting", "open"}
    BY <1>2, <1>3, <2>1 DEF LiveOK, Sessions
  <2>6. live'[u] = live[u] \/ live'[u] = Absent
    BY <1>3
  <2> QED
    BY <1>5, <2>4, <2>5, <2>6, LiveStays
<1>8. OneCurrent'
  BY <1>4 DEF TargetsInv, OneCurrent
<1>9. FormOK'
  BY <1>4, FormStays DEF Fresh
<1>10. TargetsTypeOK'
  BY <1>2, <1>3, <1>4 DEF TargetsInv, TargetsTypeOK
<1> QED
  BY <1>4, <1>6, <1>7, <1>8, <1>9, <1>10 DEF TargetsInv

LEMMA InvAcceptSetup ==
    ASSUME TargetsInv, AcceptSetup PROVE TargetsInv'
<1>1. PICK t : t = setup.target
  OBVIOUS
<1>2. t \in TargetIDs /\ setup.config \in Configs
  BY <1>1 DEF TargetsInv, TargetsTypeOK
<1>3. /\ UNCHANGED <<activeTarget, command, sessions, live, form, overtaken, saves>>
      /\ setup'.at = "done" /\ setup'.target \in TargetIDs /\ setup'.config \in Configs
  BY Constants DEF AcceptSetup, NoSetup
<1>4. CASE UNCHANGED <<targets, tabs>>
  <2>1. Quiet
    BY <1>3, <1>4 DEF Quiet
  <2>2. TargetsTypeOK'
    BY <1>3, <1>4 DEF TargetsInv, TargetsTypeOK
  <2>3. FormOK'
    BY <1>3, <2>1, QuietStays, FormStays
  <2> QED
    BY <2>1, <2>2, <2>3, QuietStays DEF TargetsInv
<1>5. CASE /\ targets[t] = Absent
           /\ targets' = [targets EXCEPT ![t] = setup.config]
           /\ tabs' = [tabs EXCEPT ![t] = NewTab]
  <2>1. /\ targets' \in TargetList /\ targets'[t] \in Configs
        /\ \A u \in TargetIDs \ {t} : targets'[u] = targets[u]
    BY <1>2, <1>5, Types DEF TargetList
  <2>2. /\ tabs' \in [TargetIDs -> Tab] /\ tabs'[t] = NewTab
        /\ \A u \in TargetIDs \ {t} : tabs'[u] = tabs[u]
    BY <1>2, <1>5, Constants DEF TargetsInv, TargetsTypeOK
  <2>3. Fresh(t) /\ t # activeTarget /\ Fresh(t)'
    BY <1>2, <1>5, <2>2, Constants DEF TargetsInv, TabOK, Fresh
  <2>4. Grows
    BY <1>3, GrowsWith DEF Opened
  <2>5. ASSUME NEW d \in Commands PROVE CommandOK(d)'
    <3>1. ASSUME command[d].current PROVE CurrentOK(d)'
      <4>1. CurrentOK(d)
        BY <3>1 DEF TargetsInv, CommandOK
      <4>2. command[d].target # t /\ command[d].target \in TargetIDs
        BY <2>3, <4>1, Types DEF CurrentOK
      <4> QED
        BY <1>3, <2>1, <2>2, <4>1, <4>2 DEF CurrentOK, Dead
    <3>2. tabs'[command[d].target].retiring = tabs[command[d].target].retiring
      BY <2>2, <2>3, Types DEF Fresh
    <3> QED
      BY <1>3, <2>4, <3>1, <3>2, CommandStays DEF Opened
  <2>6. ASSUME NEW u \in TargetIDs PROVE TabOK(u)' /\ LiveOK(u)'
    <3>1. TabOK(u) /\ LiveOK(u)
      BY DEF TargetsInv
    <3>2. LiveOK(u)'
      BY <1>3, <3>1 DEF LiveOK, ForTarget, Opened
    <3>3. CASE u = t
      BY <2>1, <2>3, <3>2, <3>3, Constants DEF TabOK, Fresh
    <3>4. CASE u # t
      BY <1>3, <2>1, <2>2, <3>1, <3>2, <3>4 DEF TabOK, ForTarget, Opened, Fresh
    <3> QED
      BY <3>3, <3>4
  <2>7. OneCurrent'
    BY <1>3 DEF TargetsInv, OneCurrent
  <2>8. FormOK'
    <3>1. SUFFICES ASSUME form.at = "saving"
                   PROVE  /\ form.list[form.target] \in Configs
                          /\ \A u \in TargetIDs \ {form.target} :
                               \/ form.list[u] = targets'[u]
                               \/ form.list[u] = Absent /\ Fresh(u)' /\ u # activeTarget
      BY <1>3 DEF FormOK
    <3>2. /\ form.list[form.target] \in Configs
          /\ \A u \in TargetIDs \ {form.target} :
                               \/ form.list[u] = targets[u]
                               \/ form.list[u] = Absent /\ Fresh(u) /\ u # activeTarget
      BY <3>1 DEF TargetsInv, FormOK
    <3>3. ASSUME NEW u \in TargetIDs \ {form.target}
          PROVE  \/ form.list[u] = targets'[u]
                 \/ form.list[u] = Absent /\ Fresh(u)' /\ u # activeTarget
      <4>1. CASE u = t
        BY <1>5, <2>3, <3>2, <4>1
      <4>2. CASE u # t
        BY <2>1, <2>2, <3>2, <4>2 DEF Fresh
      <4> QED
        BY <4>1, <4>2
    <3> QED
      BY <3>2, <3>3
  <2>9. TargetsTypeOK'
    BY <1>3, <2>1, <2>2 DEF TargetsInv, TargetsTypeOK
  <2>10. targets'[activeTarget'] # Absent
    BY <1>3, <2>1, <2>3 DEF TargetsInv, TargetsTypeOK
  <2> QED
    BY <2>5, <2>6, <2>7, <2>8, <2>9, <2>10 DEF TargetsInv
<1> QED
  BY <1>1, <1>4, <1>5 DEF AcceptSetup

LEMMA InvOpenSession ==
    ASSUME TargetsInv, NEW c \in Commands, OpenSession(c) PROVE TargetsInv'
<1>1. PICK t : t = command[c].target
  OBVIOUS
<1>2. PICK e : e = live[t]
  OBVIOUS
<1>3. /\ command[c] \in Command /\ t \in TargetIDs /\ e \in Sessions
      /\ command[c].at = "opening" /\ CommandOK(c) /\ LiveOK(t) /\ sessions[c] = "unused"
  <2>1. command[c].at = "opening" /\ CommandOK(c)
    BY DEF OpenSession, TargetsInv
  <2> QED
    BY <1>1, <1>2, <2>1, Types DEF CommandOK, Opened, TargetsInv
<1>4. /\ UNCHANGED <<targets, activeTarget, tabs, form, setup, saves>>
      /\ overtaken' = (overtaken \/ ~command[c].current)
  BY DEF OpenSession
<1>5. overtaken' \in BOOLEAN /\ (~overtaken' => ~overtaken /\ command[c].current)
  BY <1>4 DEF TargetsInv, TargetsTypeOK
<1>6. e # Absent => e \in Commands /\ ForTarget(e, t) /\ e # c
  BY <1>2, <1>3 DEF LiveOK, Sessions, ForTarget, Opened
<1>7. FormOK'
  BY <1>4, FormStays DEF Fresh
<1>8. CASE e # Absent /\ command[e].config = command[c].config
  <2>1. PICK r : r = [command[c] EXCEPT !.at = "waiting", !.entry = e]
    OBVIOUS
  <2>2. /\ r \in Command /\ r.target = t /\ r.config = command[c].config
        /\ r.current = command[c].current /\ r.at = "waiting" /\ r.entry = e
    BY <1>1, <1>3, <2>1 DEF Command
  <2>3. command' = [command EXCEPT ![c] = r] /\ UNCHANGED <<sessions, live>>
    BY <1>1, <1>2, <1>8, <2>1 DEF OpenSession, TargetsInv, TargetsTypeOK
  <2>4. /\ command' \in [Commands -> Command] /\ command'[c] = r
        /\ \A d \in Commands \ {c} : command'[d] = command[d]
    BY <2>2, <2>3, CommandMoves
  <2>5. \A d \in Commands : /\ command'[d].target = command[d].target
                            /\ command'[d].config = command[d].config
                            /\ command'[d].current = command[d].current
    BY <1>1, <2>2, <2>4
  <2>6. Grows
    BY <2>3, <2>5, GrowsWith DEF Opened
  <2>7. ASSUME NEW d \in Commands \ {c} PROVE CommandOK(d)'
    <3>1. command[d].current => CurrentOK(d)'
      BY <1>4, <1>5, <2>3, <2>4, <2>6, CurrentStays
    <3> QED
      BY <1>4, <2>3, <2>4, <2>6, <3>1, CommandStays DEF Opened
  <2>8. CommandOK(c)'
    <3>1. ASSUME command[c].current PROVE CurrentOK(c)'
      <4>1. CurrentOK(c)
        BY <1>3, <3>1 DEF CommandOK
      <4> QED
        BY <1>1, <1>2, <1>3, <1>4, <1>8, <2>2, <2>3, <2>4, <4>1 DEF CurrentOK, Dead
    <3>2. ForTarget(e, t)' /\ command'[e].config = command[c].config
      BY <1>3, <1>6, <1>8, <2>5, <2>6 DEF Grows
    <3> QED
      BY <1>3, <1>8, <2>2, <2>3, <2>4, <3>1, <3>2 DEF CommandOK, ForTarget, Opened
  <2>9. ASSUME NEW u \in TargetIDs PROVE TabOK(u)' /\ LiveOK(u)'
    <3>1. TabOK(u) /\ LiveOK(u)
      BY DEF TargetsInv
    <3>2. tabs'[u].pending => u = activeTarget' /\ \E d \in Commands : command'[d].current
      BY <1>4, <2>5, <3>1 DEF TabOK
    <3>3. TabOK(u)'
      BY <1>4, <1>5, <2>3, <2>6, <3>2, TabStays
    <3>4. live'[u] # Absent => sessions'[live[u]] \in {"connecting", "open"}
      BY <2>3, <3>1 DEF LiveOK
    <3> QED
      BY <2>3, <2>6, <3>3, <3>4, LiveStays
  <2>10. OneCurrent'
    BY <2>5 DEF TargetsInv, OneCurrent
  <2>11. TargetsTypeOK'
    BY <1>4, <1>5, <2>3, <2>4 DEF TargetsInv, TargetsTypeOK
  <2> QED
    BY <1>4, <1>7, <2>7, <2>8, <2>9, <2>10, <2>11 DEF TargetsInv
<1>9. CASE ~(e # Absent /\ command[e].config = command[c].config)
  <2>1. PICK r : r = [command[c] EXCEPT !.at = "waiting", !.entry = c]
    OBVIOUS
  <2>2. /\ r \in Command /\ r.target = t /\ r.config = command[c].config
        /\ r.current = command[c].current /\ r.at = "waiting" /\ r.entry = c
    BY <1>1, <1>3, <2>1 DEF Command, Sessions
  <2>3. /\ command' = [command EXCEPT ![c] = r] /\ live' = [live EXCEPT ![t] = c]
        /\ sessions' = [s \in Commands |-> IF s = c THEN "connecting"
                                           ELSE IF s = e THEN Closed(s) ELSE sessions[s]]
    BY <1>1, <1>2, <1>9, <2>1 DEF OpenSession, TargetsInv, TargetsTypeOK
  <2>4. /\ command' \in [Commands -> Command] /\ command'[c] = r
        /\ \A d \in Commands \ {c} : command'[d] = command[d]
    BY <2>2, <2>3, CommandMoves
  <2>5. \A d \in Commands : /\ command'[d].target = command[d].target
                            /\ command'[d].config = command[d].config
                            /\ command'[d].current = command[d].current
    BY <1>1, <2>2, <2>4
  <2>6. /\ live' \in [TargetIDs -> Sessions] /\ live'[t] = c
        /\ \A u \in TargetIDs \ {t} : live'[u] = live[u]
    BY <1>3, <2>3 DEF TargetsInv, TargetsTypeOK, Sessions
  <2>7. /\ sessions' \in [Commands -> {"unused", "connecting", "open", "failed", "closed"}]
        /\ sessions'[c] = "connecting"
        /\ \A s \in Commands \ {c} :
             /\ s # e => sessions'[s] = sessions[s]
             /\ sessions'[s] = sessions[s] \/ (sessions[s] = "open" /\ sessions'[s] = "closed")
    BY <2>3 DEF Closed, TargetsInv, TargetsTypeOK
  <2>8. Grows
    <3>1. \A q \in Commands : Opened(q) => Opened(q)'
      BY <1>3, <2>7 DEF Opened
    <3>2. \A q \in Commands : Opened(q) =>
              /\ sessions'[q] = "open" => sessions[q] = "open" \/ \E u \in TargetIDs : live[u] = q
              /\ \A u \in TargetIDs : live'[u] = q => live[u] = q
      BY <1>3, <2>6, <2>7 DEF Opened
    <3> QED
      BY <2>5, <3>1, <3>2, GrowsWith
  <2>9. ASSUME NEW d \in Commands \ {c} PROVE CommandOK(d)'
    <3>1. ASSUME command[d].current PROVE CurrentOK(d)'
      <4>1. ~command[c].current
        BY <3>1 DEF TargetsInv, OneCurrent
      <4>2. overtaken'
        BY <1>4, <4>1
      <4> QED
        BY <1>4, <2>4, <2>8, <3>1, <4>2, CurrentStays
    <3>2. Opened(d)' => Opened(d)
      BY <2>7 DEF Opened
    <3> QED
      BY <1>4, <2>4, <2>8, <3>1, <3>2, CommandStays
  <2>10. CommandOK(c)'
    <3>1. ASSUME command[c].current PROVE CurrentOK(c)'
      <4>1. CurrentOK(c)
        BY <1>3, <3>1 DEF CommandOK
      <4>2. PICK q : q = tabs[t].retiring
        OBVIOUS
      <4>3. /\ t = activeTarget /\ command[c].config = targets[t]
            /\ q # Absent => Dead(q)
        BY <1>1, <1>3, <4>1, <4>2 DEF CurrentOK
      <4>4. q # Absent => q \in Commands /\ Opened(q)
        BY <1>3, <4>2, Types DEF TargetsInv, TabOK, ForTarget, Sessions
      <4>5. q # Absent => Dead(q)'
        BY <2>8, <4>3, <4>4 DEF Grows
      <4> QED
        BY <1>4, <2>2, <2>4, <2>6, <4>2, <4>3, <4>5 DEF CurrentOK, Dead
    <3>2. ForTarget(c, t)' /\ c # Absent
      BY <2>2, <2>4, <2>7, Constants DEF ForTarget, Opened
    <3> QED
      BY <2>2, <2>4, <3>1, <3>2 DEF CommandOK, ForTarget, Opened
  <2>11. ASSUME NEW u \in TargetIDs PROVE TabOK(u)'
    <3>1. TabOK(u) /\ LiveOK(u) /\ tabs[u].session \in Sessions
      BY Types DEF TargetsInv
    <3>2. tabs'[u].pending => u = activeTarget' /\ \E d \in Commands : command'[d].current
      BY <1>4, <2>5, <3>1 DEF TabOK
    <3>3. ASSUME ~overtaken', tabs[u].session # Absent, live[u] = tabs[u].session,
                 sessions[tabs[u].session] = "open"
          PROVE  live'[u] = live[u] /\ sessions'[tabs[u].session] = "open"
      <4>1. ForTarget(tabs[u].session, u) /\ command[tabs[u].session].config = targets[u]
        BY <3>1, <3>3 DEF TabOK
      <4>2. u # t
        <5>1. SUFFICES ASSUME u = t PROVE FALSE
          OBVIOUS
        <5>2. CurrentOK(c)
          BY <1>3, <1>5, <3>3 DEF CommandOK
        <5>3. command[c].config = targets[t]
          BY <1>1, <5>2 DEF CurrentOK
        <5> QED
          BY <1>2, <1>9, <3>3, <4>1, <5>1, <5>3
      <4>3. tabs[u].session # e
        BY <1>6, <3>3, <4>1, <4>2 DEF ForTarget
      <4>4. tabs[u].session # c /\ tabs[u].session \in Commands
        BY <1>3, <3>1, <3>3, <4>1 DEF ForTarget, Opened, Sessions
      <4> QED
        BY <2>6, <2>7, <3>3, <4>2, <4>3, <4>4
    <3> QED
      BY <1>4, <1>5, <2>8, <3>2, <3>3, TabStays
  <2>12. ASSUME NEW u \in TargetIDs PROVE LiveOK(u)'
    <3>1. CASE u = t
      BY <2>2, <2>4, <2>6, <2>7, <3>1 DEF LiveOK, ForTarget, Opened
    <3>2. CASE u # t
      <4>1. LiveOK(u) /\ live[u] \in Sessions
        BY Types DEF TargetsInv
      <4>2. live[u] # Absent => live[u] # e /\ live[u] # c
        BY <1>3, <1>6, <3>2, <4>1 DEF LiveOK, ForTarget, Opened
      <4>3. live'[u] # Absent => sessions'[live[u]] \in {"connecting", "open"}
        BY <2>6, <2>7, <3>2, <4>1, <4>2 DEF LiveOK, Sessions
      <4> QED
        BY <2>6, <2>8, <3>2, <4>3, LiveStays
    <3> QED
      BY <3>1, <3>2
  <2>13. OneCurrent'
    BY <2>5 DEF TargetsInv, OneCurrent
  <2>14. TargetsTypeOK'
    BY <1>4, <1>5, <2>4, <2>6, <2>7 DEF TargetsInv, TargetsTypeOK
  <2> QED
    BY <1>4, <1>7, <2>9, <2>10, <2>11, <2>12, <2>13, <2>14 DEF TargetsInv
<1> QED
  BY <1>8, <1>9

LEMMA InvAcceptConnected ==
    ASSUME TargetsInv, NEW c \in Commands, AcceptConnected(c) PROVE TargetsInv'
<1>1. PICK t : t = command[c].target
  OBVIOUS
<1>2. PICK e : e = command[c].entry
  OBVIOUS
<1>3. /\ command[c] \in Command /\ t \in TargetIDs /\ e \in Sessions
      /\ command[c].at = "answered" /\ CommandOK(c)
  BY <1>1, <1>2, Types DEF AcceptConnected, TargetsInv
<1>4. UNCHANGED <<targets, activeTarget, sessions, live, form, setup, overtaken, saves>>
  BY DEF AcceptConnected
<1>5. PICK r : r = [command[c] EXCEPT !.at = "done", !.current = FALSE]
  OBVIOUS
<1>6. /\ r \in Command /\ r.target = t /\ r.config = command[c].config
      /\ r.at = "done" /\ ~r.current
  BY <1>1, <1>3, <1>5 DEF Command
<1>7. command' = [command EXCEPT ![c] = r]
  BY <1>5 DEF AcceptConnected, TargetsInv, TargetsTypeOK
<1>8. /\ command' \in [Commands -> Command] /\ command'[c] = r
      /\ \A d \in Commands \ {c} : command'[d] = command[d]
  BY <1>6, <1>7, CommandMoves
<1>9. \A d \in Commands : /\ command'[d].target = command[d].target
                          /\ command'[d].config = command[d].config
                          /\ command'[d].current => d # c /\ command[d].current
  BY <1>1, <1>6, <1>8
<1>10. Grows
  BY <1>4, <1>9, GrowsWith DEF Opened
<1>11. CommandOK(c)'
  BY <1>6, <1>8 DEF CommandOK
<1>12. OneCurrent'
  BY <1>9 DEF TargetsInv, OneCurrent
<1>13. \A u \in TargetIDs : LiveOK(u)'
  BY <1>4, <1>10, LiveStays DEF TargetsInv, LiveOK
<1>14. CASE ~Expected(c)
  <2>1. tabs' = tabs
    BY <1>14 DEF AcceptConnected
  <2>2. ASSUME NEW d \in Commands \ {c} PROVE CommandOK(d)'
    <3>1. command[d].current => CurrentOK(d)'
      BY <1>4, <1>8, <1>10, <2>1, CurrentStays
    <3> QED
      BY <1>4, <1>8, <1>10, <2>1, <3>1, CommandStays DEF Opened
  <2>3. ASSUME NEW u \in TargetIDs PROVE TabOK(u)'
    <3>1. TabOK(u)
      BY DEF TargetsInv
    <3>2. tabs'[u].pending => u = activeTarget' /\ \E d \in Commands : command'[d].current
      <4>1. ASSUME NEW d \in Commands, command[d].current PROVE command'[d].current
        <5>1. CurrentOK(d)
          BY <4>1 DEF TargetsInv, CommandOK
        <5>2. d # c
          BY <1>14, <4>1, <5>1 DEF CurrentOK, Expected
        <5> QED
          BY <1>8, <4>1, <5>2
      <4> QED
        BY <1>4, <2>1, <3>1, <4>1 DEF TabOK
    <3> QED
      BY <1>4, <1>10, <2>1, <3>2, TabStays
  <2>4. FormOK'
    BY <1>4, <2>1, FormStays DEF Fresh
  <2>5. TargetsTypeOK'
    BY <1>4, <1>8, <2>1 DEF TargetsInv, TargetsTypeOK
  <2> QED
    BY <1>4, <1>11, <1>12, <1>13, <2>2, <2>3, <2>4, <2>5 DEF TargetsInv
<1>15. CASE Expected(c)
  <2>1. CurrentOK(c) /\ t = activeTarget
    BY <1>1, <1>3, <1>15 DEF Expected, CommandOK
  <2>2. \A d \in Commands \ {c} : ~command[d].current
    BY <1>15 DEF Expected, TargetsInv, OneCurrent
  <2>3. PICK p : p = tabs[t].retiring
    OBVIOUS
  <2>4. p # Absent => Dead(p)
    BY <1>1, <1>3, <2>1, <2>3 DEF CurrentOK
  <2>5. PICK b : b = [tabs[t] EXCEPT !.pending = FALSE, !.session = e,
                                     !.retiring = IF e = Absent THEN p ELSE Absent]
    OBVIOUS
  <2>6. tabs[t] \in Tab /\ p \in Sessions /\ TabOK(t)
    BY <1>3, <2>3, Types DEF TargetsInv
  <2>7. /\ b \in Tab /\ b.session = e /\ ~b.pending
        /\ b.retiring = IF e = Absent THEN p ELSE Absent
    BY <1>3, <2>5, <2>6 DEF Tab, Sessions
  <2>8. tabs' = [tabs EXCEPT ![t] = b]
    BY <1>1, <1>2, <1>15, <2>3, <2>5 DEF AcceptConnected, TargetsInv, TargetsTypeOK
  <2>9. /\ tabs' \in [TargetIDs -> Tab] /\ tabs'[t] = b
        /\ \A u \in TargetIDs \ {t} : tabs'[u] = tabs[u]
    BY <1>3, <2>7, <2>8 DEF TargetsInv, TargetsTypeOK
  <2>10. ASSUME NEW d \in Commands \ {c} PROVE CommandOK(d)'
    <3>1. PICK u \in TargetIDs : u = command[d].target
      BY Types
    <3>2. \/ tabs'[u].retiring = tabs[u].retiring
          \/ tabs[u].retiring # Absent /\ Dead(tabs[u].retiring)
          \/ tabs[u].retiring = Absent
      BY <2>3, <2>4, <2>9
    <3>3. ~command'[d].current
      BY <1>9, <2>2
    <3> QED
      BY <1>4, <1>8, <1>10, <3>1, <3>2, <3>3, CommandStays DEF Opened
  <2>11. TabOK(t)'
    <3>1. e # Absent => /\ e \in Commands /\ ForTarget(e, t) /\ command[e].config = targets[t]
                        /\ ~overtaken => live[t] = e /\ sessions[e] = "open"
      BY <1>1, <1>2, <1>3, <2>1 DEF CommandOK, CurrentOK, Sessions
    <3>2. e # Absent => ForTarget(e, t)' /\ command'[e].config = targets'[t]
      BY <1>3, <1>4, <1>9, <1>10, <3>1 DEF Grows
    <3>3. p # Absent => ForTarget(p, t)'
      <4>1. p # Absent => p \in Commands /\ ForTarget(p, t)
        BY <2>3, <2>6 DEF TabOK, Sessions
      <4> QED
        BY <1>3, <1>10, <4>1 DEF Grows
    <3>4. targets'[t] # Absent
      BY <1>4, <2>1 DEF TargetsInv
    <3> QED
      BY <1>4, <2>7, <2>9, <3>1, <3>2, <3>3, <3>4 DEF TabOK, ForTarget, Opened
  <2>12. ASSUME NEW u \in TargetIDs \ {t} PROVE TabOK(u)'
    <3>1. ~tabs[u].pending
      BY <2>1 DEF TargetsInv, TabOK
    <3> QED
      BY <1>4, <1>10, <2>9, <3>1, TabStays
  <2>13. FormOK'
    BY <1>4, <2>1, <2>9, FormStays DEF Fresh
  <2>14. TargetsTypeOK'
    BY <1>4, <1>8, <2>9 DEF TargetsInv, TargetsTypeOK
  <2> QED
    BY <1>4, <1>11, <1>12, <1>13, <2>10, <2>11, <2>12, <2>13, <2>14 DEF TargetsInv
<1> QED
  BY <1>14, <1>15

-----------------------------------------------------------------------------
(* A new command, which the ones before it give way to.                    *)

LEMMA RetiredCommands ==
    ASSUME TargetsInv
    PROVE  /\ Retired(command) \in [Commands -> Command]
           /\ \A d \in Commands :
                /\ Retired(command)[d] = [command[d] EXCEPT !.current = FALSE]
                /\ Retired(command)[d].target = command[d].target
                /\ Retired(command)[d].config = command[d].config
                /\ ~Retired(command)[d].current
<1>1. \A d \in Commands : command[d] \in Command
  BY Types
<1>2. \A d \in Commands :
         /\ [command[d] EXCEPT !.current = FALSE] \in Command
         /\ [command[d] EXCEPT !.current = FALSE].target = command[d].target
         /\ [command[d] EXCEPT !.current = FALSE].config = command[d].config
         /\ [command[d] EXCEPT !.current = FALSE].current = FALSE
  BY <1>1 DEF Command
<1> QED
  BY <1>2 DEF Retired

LEMMA Unpending ==
    ASSUME TargetsInv, NEW u \in TargetIDs
    PROVE  /\ [tabs[u] EXCEPT !.pending = FALSE] \in Tab
           /\ [tabs[u] EXCEPT !.pending = FALSE].session = tabs[u].session
           /\ [tabs[u] EXCEPT !.pending = FALSE].retiring = tabs[u].retiring
           /\ ~[tabs[u] EXCEPT !.pending = FALSE].pending
<1>1. tabs[u] \in Tab
  BY Types
<1> QED
  BY <1>1 DEF Tab

LEMMA NewCommandKeeps ==
    ASSUME TargetsInv, NEW t \in TargetIDs, NEW list \in TargetList, NEW tab \in Tab,
           NewCommand(t, list, tab), list[t] \in Configs,
           targets' = list, activeTarget' = t,
           \A u \in TargetIDs \ {t} : list[u] = targets[u] \/ (list[u] = Absent /\ Fresh(u)),
           tab.session = Absent,
           tab.retiring # Absent => ForTarget(tab.retiring, t),
           tab.retiring = tabs[t].retiring \/ tabs[t].retiring = Absent,
           UNCHANGED <<sessions, live, overtaken>>
    PROVE  /\ command' \in [Commands -> Command] /\ tabs' \in [TargetIDs -> Tab]
           /\ targets'[activeTarget'] # Absent /\ OneCurrent'
           /\ \A c \in Commands : CommandOK(c)'
           /\ \A u \in TargetIDs : TabOK(u)' /\ LiveOK(u)'
           /\ \A u \in TargetIDs \ {t} : Fresh(u) => Fresh(u)'
<1>1. PICK c \in Commands :
         /\ command[c].at = "unused"
         /\ command' = [Retired(command) EXCEPT ![c] = NewCommandRecord(t, list[t], tab.retiring)]
  BY DEF NewCommand
<1>2. PICK r : r = NewCommandRecord(t, list[t], tab.retiring)
  OBVIOUS
<1>3. PICK p : p = tab.retiring
  OBVIOUS
<1>4. /\ r \in Command /\ r.at = (IF p = Absent THEN "checking" ELSE "begun")
      /\ r.target = t /\ r.config = list[t] /\ r.prior = p /\ r.entry = Absent /\ r.current
  <2>1. r = [at |-> IF p = Absent THEN "checking" ELSE "begun", target |-> t,
             config |-> list[t], prior |-> p, entry |-> Absent, current |-> TRUE]
    BY <1>2, <1>3 DEF NewCommandRecord
  <2>2. p \in Sessions /\ Absent \in Sessions
    BY <1>3 DEF Tab, Sessions
  <2> QED
    BY <2>1, <2>2 DEF Command
<1>5. /\ command' \in [Commands -> Command] /\ command'[c] = r
      /\ \A d \in Commands \ {c} :
           /\ command'[d] = [command[d] EXCEPT !.current = FALSE]
           /\ command'[d].target = command[d].target /\ command'[d].config = command[d].config
           /\ ~command'[d].current
  BY <1>1, <1>2, <1>4, RetiredCommands
<1>6. sessions[c] = "unused"
  BY <1>1 DEF TargetsInv, CommandOK, Opened
<1>7. Grows
  <2>1. \A q \in Commands : Opened(q) =>
           command'[q].target = command[q].target /\ command'[q].config = command[q].config
    BY <1>5, <1>6 DEF Opened
  <2> QED
    BY <2>1, GrowsWith DEF Opened
<1>8. PICK b : b = [tab EXCEPT !.pending = TRUE]
  OBVIOUS
<1>9. b \in Tab /\ b.session = Absent /\ b.retiring = p /\ b.pending
  BY <1>3, <1>8 DEF Tab
<1>10. /\ tabs' \in [TargetIDs -> Tab] /\ tabs'[t] = b
       /\ \A u \in TargetIDs \ {t} :
            /\ tabs'[u] = [tabs[u] EXCEPT !.pending = FALSE]
            /\ tabs'[u].session = tabs[u].session /\ tabs'[u].retiring = tabs[u].retiring
            /\ ~tabs'[u].pending
  BY <1>8, <1>9, Unpending DEF NewCommand
<1>11. targets'[activeTarget'] # Absent
  BY Constants
<1>12. OneCurrent'
  BY <1>5 DEF OneCurrent
<1>13. ASSUME NEW d \in Commands \ {c} PROVE CommandOK(d)'
  <2>1. PICK u \in TargetIDs : u = command[d].target
    BY Types
  <2>2. tabs'[u].retiring = tabs[u].retiring \/ tabs[u].retiring = Absent
    BY <1>3, <1>9, <1>10
  <2>3. ~command'[d].current
    BY <1>5
  <2> QED
    BY <1>5, <1>7, <2>1, <2>2, <2>3, CommandStays DEF Opened
<1>14. p # Absent => ForTarget(p, t)' /\ p \in Commands
  <2>1. p # Absent => p \in Commands /\ ForTarget(p, t)
    BY <1>3 DEF Tab, Sessions
  <2> QED
    BY <1>7, <2>1 DEF Grows
<1>15. CommandOK(c)'
  <2>1. CurrentOK(c)'
    BY <1>4, <1>5, <1>9, <1>10 DEF CurrentOK
  <2>2. ~Opened(c)'
    BY <1>6 DEF Opened
  <2> QED
    BY <1>4, <1>5, <1>9, <1>10, <1>14, <2>1, <2>2 DEF CommandOK, ForTarget, Opened
<1>16. TabOK(t)'
  BY <1>4, <1>5, <1>9, <1>10, <1>11, <1>14 DEF TabOK, ForTarget, Opened
<1>17. ASSUME NEW u \in TargetIDs \ {t} PROVE TabOK(u)'
  <2>1. CASE list[u] = targets[u]
    BY <1>7, <1>10, <2>1, TabStays
  <2>2. CASE list[u] = Absent /\ Fresh(u)
    BY <1>10, <2>2 DEF TabOK, Fresh
  <2> QED
    BY <2>1, <2>2
<1>18. \A u \in TargetIDs : LiveOK(u)'
  BY <1>7, LiveStays DEF TargetsInv, LiveOK
<1>19. \A u \in TargetIDs \ {t} : Fresh(u) => Fresh(u)'
  BY <1>10 DEF Fresh
<1> QED
  BY <1>5, <1>10, <1>11, <1>12, <1>13, <1>15, <1>16, <1>17, <1>18, <1>19

LEMMA NoFormFits == ASSUME form' = NoForm PROVE FormOK'
BY Constants DEF FormOK

LEMMA InvReconnect == ASSUME TargetsInv, Reconnect PROVE TargetsInv'
<1>1. PICK t : t = activeTarget
  OBVIOUS
<1>2. PICK tab : tab = tabs[t]
  OBVIOUS
<1>3. /\ t \in TargetIDs /\ targets \in TargetList /\ targets[t] \in Configs /\ tab \in Tab
      /\ tab.session = Absent /\ TabOK(t)
  BY <1>1, <1>2, Types DEF Reconnect, TargetsInv, TargetsTypeOK, TargetList
<1>4. tab.retiring # Absent => ForTarget(tab.retiring, t)
  BY <1>2, <1>3 DEF TabOK
<1>5. /\ NewCommand(t, targets, tab) /\ activeTarget' = t
      /\ UNCHANGED <<targets, sessions, live, form, setup, overtaken, saves>>
  BY <1>1, <1>2 DEF Reconnect
<1>6. PICK list \in TargetList : list = targets
  BY <1>3
<1>7. /\ NewCommand(t, list, tab) /\ list[t] \in Configs /\ targets' = list
      /\ \A u \in TargetIDs \ {t} : list[u] = targets[u]
  BY <1>3, <1>5, <1>6
<1>8. /\ command' \in [Commands -> Command] /\ tabs' \in [TargetIDs -> Tab]
      /\ targets'[activeTarget'] # Absent /\ OneCurrent'
      /\ \A c \in Commands : CommandOK(c)'
      /\ \A u \in TargetIDs : TabOK(u)' /\ LiveOK(u)'
  BY <1>2, <1>3, <1>4, <1>5, <1>7, NewCommandKeeps
<1>9. FormOK'
  BY <1>5 DEF Reconnect, FormOK
<1>10. TargetsTypeOK'
  BY <1>3, <1>5, <1>8 DEF TargetsInv, TargetsTypeOK
<1> QED
  BY <1>8, <1>9, <1>10 DEF TargetsInv

LEMMA InvSwitchTarget ==
    ASSUME TargetsInv, NEW t \in TargetIDs, SwitchTarget(t) PROVE TargetsInv'
<1>1. /\ targets \in TargetList /\ targets[t] \in Configs /\ tabs[t] \in Tab /\ TabOK(t)
      /\ activeTarget' = t /\ form.at = "none"
      /\ UNCHANGED <<targets, sessions, live, form, setup, overtaken, saves>>
  BY Types DEF SwitchTarget, TargetsInv, TargetList
<1>2. FormOK'
  BY <1>1 DEF FormOK
<1>3. CASE tabs[t].session # Absent
  <2>1. /\ command' = Retired(command)
        /\ tabs' = [u \in TargetIDs |-> [tabs[u] EXCEPT !.pending = FALSE]]
    BY <1>3 DEF SwitchTarget
  <2>2. /\ command' \in [Commands -> Command]
        /\ \A d \in Commands :
             /\ command'[d] = [command[d] EXCEPT !.current = FALSE]
             /\ command'[d].target = command[d].target /\ command'[d].config = command[d].config
             /\ ~command'[d].current
    BY <2>1, RetiredCommands
  <2>3. /\ tabs' \in [TargetIDs -> Tab]
        /\ \A u \in TargetIDs :
             /\ tabs'[u] = [tabs[u] EXCEPT !.pending = FALSE]
             /\ tabs'[u].session = tabs[u].session /\ tabs'[u].retiring = tabs[u].retiring
             /\ ~tabs'[u].pending
    BY <2>1, Unpending
  <2>4. Grows
    BY <1>1, <2>2, GrowsWith DEF Opened
  <2>5. ASSUME NEW d \in Commands PROVE CommandOK(d)'
    <3>1. command[d].target \in TargetIDs
      BY Types
    <3> QED
      BY <1>1, <2>2, <2>3, <2>4, <3>1, CommandStays DEF Opened
  <2>6. \A u \in TargetIDs : TabOK(u)'
    BY <1>1, <2>3, <2>4, TabStays
  <2>7. \A u \in TargetIDs : LiveOK(u)'
    BY <1>1, <2>4, LiveStays DEF TargetsInv, LiveOK
  <2>8. OneCurrent' /\ targets'[activeTarget'] # Absent
    BY <1>1, <2>2, Constants DEF OneCurrent
  <2>9. TargetsTypeOK'
    BY <1>1, <2>2, <2>3 DEF TargetsInv, TargetsTypeOK
  <2> QED
    BY <1>2, <2>5, <2>6, <2>7, <2>8, <2>9 DEF TargetsInv
<1>4. CASE tabs[t].session = Absent
  <2>1. PICK tab \in Tab : tab = tabs[t]
    BY <1>1
  <2>2. PICK list \in TargetList : list = targets
    BY <1>1
  <2>3. /\ NewCommand(t, list, tab) /\ list[t] \in Configs /\ targets' = list
        /\ \A u \in TargetIDs \ {t} : list[u] = targets[u]
        /\ tab.session = Absent /\ tab.retiring = tabs[t].retiring
        /\ tab.retiring # Absent => ForTarget(tab.retiring, t)
    BY <1>1, <1>4, <2>1, <2>2 DEF SwitchTarget, TabOK
  <2>4. /\ command' \in [Commands -> Command] /\ tabs' \in [TargetIDs -> Tab]
        /\ targets'[activeTarget'] # Absent /\ OneCurrent'
        /\ \A c \in Commands : CommandOK(c)'
        /\ \A u \in TargetIDs : TabOK(u)' /\ LiveOK(u)'
    BY <1>1, <2>3, NewCommandKeeps
  <2>5. TargetsTypeOK'
    BY <1>1, <2>4 DEF TargetsInv, TargetsTypeOK
  <2> QED
    BY <1>2, <2>4, <2>5 DEF TargetsInv
<1> QED
  BY <1>3, <1>4

LEMMA InvAcceptSaved == ASSUME TargetsInv, AcceptSaved PROVE TargetsInv'
<1>1. PICK t : t = form.target
  OBVIOUS
<1>2. PICK list : list = form.list
  OBVIOUS
<1>3. /\ t \in TargetIDs /\ list \in TargetList /\ list[t] \in Configs /\ form.at = "saving"
      /\ \A u \in TargetIDs \ {t} : list[u] = targets[u] \/ (list[u] = Absent /\ Fresh(u))
  BY <1>1, <1>2 DEF AcceptSaved, TargetsInv, TargetsTypeOK, FormOK
<1>4. form' = NoForm /\ UNCHANGED <<sessions, live, setup, overtaken, saves>>
  BY DEF AcceptSaved
<1>5. FormOK' /\ form'.at = "none" /\ form'.target \in TargetIDs /\ form'.list \in TargetList
  BY <1>4, NoFormFits, Constants
<1>6. CASE UNCHANGED <<targets, activeTarget, tabs, command>>
  <2>1. Quiet
    BY <1>4, <1>6 DEF Quiet
  <2>2. TargetsTypeOK'
    BY <1>4, <1>5, <1>6 DEF TargetsInv, TargetsTypeOK
  <2> QED
    BY <1>5, <2>1, <2>2, QuietStays DEF TargetsInv
<1>7. CASE /\ targets' = form.list /\ activeTarget' = form.target
           /\ NewCommand(form.target, targets', EditedTab(form.target))
  <2>1. tabs[t] \in Tab /\ TabOK(t) /\ tabs[t].session \in Sessions /\ tabs[t].retiring \in Sessions
    BY <1>3, Types DEF TargetsInv
  <2>2. PICK tab : tab = EditedTab(t)
    OBVIOUS
  <2>3. PICK p \in Sessions :
          p = IF tabs[t].session # Absent THEN tabs[t].session ELSE tabs[t].retiring
    BY <2>1
  <2>4. tab \in Tab /\ tab.session = Absent /\ tab.retiring = p
    BY <2>2, <2>3, Constants DEF EditedTab, Tab
  <2>5. /\ p # Absent => ForTarget(p, t)
        /\ p = tabs[t].retiring \/ tabs[t].retiring = Absent
    BY <2>1, <2>3 DEF TabOK
  <2>6. NewCommand(t, list, tab) /\ targets' = list /\ activeTarget' = t
    BY <1>1, <1>2, <1>7, <2>2
  <2>7. /\ command' \in [Commands -> Command] /\ tabs' \in [TargetIDs -> Tab]
        /\ targets'[activeTarget'] # Absent /\ OneCurrent'
        /\ \A c \in Commands : CommandOK(c)'
        /\ \A u \in TargetIDs : TabOK(u)' /\ LiveOK(u)'
    BY <1>3, <1>4, <2>4, <2>5, <2>6, NewCommandKeeps
  <2>8. TargetsTypeOK'
    BY <1>3, <1>4, <1>5, <2>6, <2>7 DEF TargetsInv, TargetsTypeOK
  <2> QED
    BY <1>5, <2>7, <2>8 DEF TargetsInv
<1> QED
  BY <1>6, <1>7 DEF AcceptSaved

-----------------------------------------------------------------------------
(* The theorems.                                                           *)

LEMMA TargetsInvInit == TargetsInit => TargetsInv
<1> SUFFICES ASSUME TargetsInit PROVE TargetsInv
  OBVIOUS
<1> USE DEF TargetsInit
<1>1. PICK listed \in SUBSET TargetIDs :
         /\ First \in listed
         /\ targets = [t \in TargetIDs |-> IF t \in listed THEN FirstConfig ELSE Absent]
  OBVIOUS
<1>2. targets \in TargetList /\ targets[activeTarget] # Absent
  BY <1>1, Constants DEF TargetList
<1>3. /\ Unused \in Command /\ Unused.at = "unused" /\ Unused.current = FALSE
  <2>1. NewCommandRecord(First, FirstConfig, Absent) \in Command
    BY Constants DEF NewCommandRecord, Command, Sessions
  <2> QED
    BY <2>1 DEF Unused, Command
<1>4. TargetsTypeOK
  <2>1. form.at = "none" /\ form.target \in TargetIDs /\ form.list \in TargetList
    BY Constants DEF NoForm, TargetList
  <2>2. setup.at = "none" /\ setup.target \in TargetIDs /\ setup.config \in Configs
    BY Constants DEF NoSetup
  <2>3. NewTab \in Tab
    BY DEF NewTab, Tab, Sessions
  <2>4. tabs \in [TargetIDs -> Tab] /\ command \in [Commands -> Command]
    BY <1>3, <2>3
  <2>5. /\ sessions \in [Commands -> {"unused", "connecting", "open", "failed", "closed"}]
        /\ live \in [TargetIDs -> Sessions]
    BY DEF Sessions
  <2>6. overtaken \in BOOLEAN
    OBVIOUS
  <2>7. saves \in 0..MaxSaves
    <3>1. saves = 0 /\ MaxSaves \in Nat
      BY TerminalTargetsAssumption
    <3> QED
      BY <3>1
  <2> QED
    BY <1>2, <2>1, <2>2, <2>4, <2>5, <2>6, <2>7, Constants DEF TargetsTypeOK
<1>5. ASSUME NEW c \in Commands PROVE CommandOK(c)
  BY <1>3 DEF CommandOK, Opened
<1>6. ASSUME NEW t \in TargetIDs PROVE TabOK(t) /\ LiveOK(t)
  BY Constants DEF TabOK, LiveOK, Fresh
<1>7. OneCurrent /\ FormOK
  BY <1>3, Constants DEF OneCurrent, FormOK
<1> QED
  BY <1>2, <1>4, <1>5, <1>6, <1>7 DEF TargetsInv

LEMMA TargetsInvNext == TargetsInv /\ [TargetsNext]_targetVars => TargetsInv'
<1> SUFFICES ASSUME TargetsInv, [TargetsNext]_targetVars PROVE TargetsInv'
  OBVIOUS
<1>1. CASE UNCHANGED targetVars
  <2>1. Quiet /\ form' = form
    BY <1>1 DEF targetVars, Quiet
  <2>2. TargetsTypeOK'
    BY <1>1 DEF targetVars, TargetsInv, TargetsTypeOK
  <2>3. FormOK'
    BY <2>1, QuietStays, FormStays
  <2> QED
    BY <2>1, <2>2, <2>3, QuietStays DEF TargetsInv
<1>2. CASE Reconnect
  BY <1>2, InvReconnect
<1>3. CASE AcceptSaved
  BY <1>3, InvAcceptSaved
<1>4. CASE AcceptSetup
  BY <1>4, InvAcceptSetup
<1>5. ASSUME NEW c \in Commands, ClosePrior(c) \/ CheckCancelled(c) \/ OpenSession(c) PROVE TargetsInv'
  BY <1>5, InvClosePrior, InvCheckCancelled, InvOpenSession
<1>6. ASSUME NEW c \in Commands, Connected(c) \/ OpenReturns(c) \/ AcceptConnected(c) PROVE TargetsInv'
  BY <1>6, InvConnected, InvOpenReturns, InvAcceptConnected
<1>7. ASSUME NEW t \in TargetIDs, SwitchTarget(t) PROVE TargetsInv'
  BY <1>7, InvSwitchTarget
<1>8. ASSUME NEW t \in TargetIDs, NEW config \in Configs,
             SaveTarget(t, config) \/ BeginSetup(t, config)
      PROVE  TargetsInv'
  BY <1>8, InvSaveTarget, InvBeginSetup
<1> QED
  BY <1>1, <1>2, <1>3, <1>4, <1>5, <1>6, <1>7, <1>8 DEF TargetsNext

LEMMA TargetsInvAlways == TargetsSpec => []TargetsInv
BY TargetsInvInit, TargetsInvNext, PTL DEF TargetsSpec

(* Every variable has its type, for any targets and any number of commands. *)
THEOREM TargetsTypeCorrect == TargetsSpec => []TargetsTypeOK
<1>1. TargetsInv => TargetsTypeOK
  BY DEF TargetsInv
<1> QED
  BY <1>1, TargetsInvAlways, PTL

(* A target's session was opened for it and its configuration, and is not  *)
(* one that was closed or replaced; a target that is shown as connecting   *)
(* is the active one, and its answer will be heard (connect,               *)
(* acceptConnected, acceptSaved, acceptSetup).                             *)
THEOREM TargetsAreAlwaysConnected == TargetsSpec => []TargetsAreConnected
<1>1. ASSUME TargetsInv PROVE SessionsAreCurrent /\ SessionsAreOpen
  BY <1>1 DEF TargetsInv, TabOK, ForTarget, SessionsAreCurrent, SessionsAreOpen
<1>2. ASSUME TargetsInv PROVE ConnectIsAwaited
  <2>1. SUFFICES ASSUME NEW t \in TargetIDs, tabs[t].pending
                 PROVE  t = activeTarget /\ \E c \in Commands : Expected(c) /\ command[c].at # "done"
    BY DEF ConnectIsAwaited
  <2>2. t = activeTarget /\ \E c \in Commands : command[c].current
    BY <1>2, <2>1 DEF TargetsInv, TabOK
  <2>3. ASSUME NEW c \in Commands, command[c].current PROVE Expected(c) /\ command[c].at # "done"
    BY <1>2, <2>3 DEF TargetsInv, CommandOK, CurrentOK, Expected
  <2> QED
    BY <2>2, <2>3
<1>3. TargetsInv => TargetsAreConnected
  BY <1>1, <1>2 DEF TargetsAreConnected
<1> QED
  BY <1>3, TargetsInvAlways, PTL

-----------------------------------------------------------------------------
(***************************************************************************)
(* Theorems of ActivityScreen: a terminal keeps up with the store, for any *)
(* runs, any number of changes and any order of the snapshots.             *)
(*                                                                         *)
(* The store only grows, and every snapshot is a copy of what it was once. *)
(* So of two snapshots the one with the higher version has all that the    *)
(* other has, and to show the newest is to lose nothing.                   *)
(***************************************************************************)

(* Every record of a is at least as far in b.                              *)
Within(a, b) ==
    \A r \in TrackedRuns : /\ a.records[r].revision <= b.records[r].revision
                           /\ a.records[r].read <= b.records[r].read

Before(a, b) == a.version <= b.version => Within(a, b)

(* Whatever snapshot there is.                                             *)
Held == {inbox, NoSnapshot, seen.snapshot} \cup {scan[k].snapshot : k \in ScanKinds}
          \cup {change[c].snapshot : c \in Changes}

HeldOK == \A x \in Held : x.version <= inbox.version /\ \A y \in Held : Before(x, y)

(* How far the store has taken the receipts of a change.                   *)
ChangeOK(c) ==
    \A r \in TrackedRuns :
      LET n == change[c].receipts[r] IN
      /\ change[c].stage = "asked" => n <= inbox.records[r].revision
      /\ change[c].stage = "marked" => n <= inbox.records[r].read
      /\ change[c].stage = "done" => n <= change[c].snapshot.records[r].read

ScreenInv ==
    /\ ScreenTypeOK /\ HeldOK /\ PendingIsScanned
    /\ \A r \in TrackedRuns : inbox.records[r].revision <= inbox.version
    /\ \A c \in Changes : ChangeOK(c)

-----------------------------------------------------------------------------
(* The store.                                                              *)

LEMMA HeldTypeOK == ScreenTypeOK => Held \subseteq Snapshot
BY ActivityScreenAssumption DEF ScreenTypeOK, Held, Snapshot, Record, NoSnapshot, Scan, Change

ScreenGrows ==
    /\ inbox' \in Snapshot
    /\ \A r \in TrackedRuns : inbox'.records[r].revision <= inbox'.version
    /\ inbox' = inbox \/ inbox'.version = inbox.version + 1
    /\ Within(inbox, inbox')

LEMMA StaysGrows == ScreenInv /\ UNCHANGED inbox => ScreenGrows
<1> SUFFICES ASSUME ScreenInv, UNCHANGED inbox PROVE ScreenGrows
  OBVIOUS
<1>1. inbox \in Snapshot /\ \A r \in TrackedRuns : inbox.records[r] \in Record
  BY DEF ScreenInv, ScreenTypeOK, Snapshot
<1> QED
  BY <1>1, ActivityScreenAssumption DEF ScreenInv, ScreenGrows, Within, Record

LEMMA CommitGrows ==
  ASSUME ScreenInv, MayCommitInbox, NEW recs \in [TrackedRuns -> Record], Commit(recs),
         \A r \in TrackedRuns : /\ inbox.records[r].revision <= recs[r].revision
                                /\ inbox.records[r].read <= recs[r].read
                                /\ recs[r].revision <= inbox.version + 1
  PROVE  ScreenGrows
<1>1. inbox.version \in 0..MaxVersion /\ inbox.version < MaxVersion /\ MaxVersion \in Nat
  BY ActivityScreenAssumption DEF ScreenInv, ScreenTypeOK, Snapshot, MayCommitInbox
<1>2. inbox' = [version |-> inbox.version + 1, records |-> recs]
  BY DEF Commit
<1>3. inbox.version + 1 \in 0..MaxVersion
  BY <1>1
<1> QED
  BY <1>2, <1>3 DEF ScreenGrows, Within, Snapshot

LEMMA ScanGrows == ScreenInv /\ CommitScan => ScreenGrows
<1> SUFFICES ASSUME ScreenInv, CommitScan PROVE ScreenGrows
  OBVIOUS
<1>1. PICK news \in SUBSET TrackedRuns :
        Commit([r \in TrackedRuns |->
                  IF r \in news THEN [inbox.records[r] EXCEPT !.revision = @ + 1]
                  ELSE inbox.records[r]])
  BY DEF CommitScan
<1>2. PICK recs : recs = [r \in TrackedRuns |->
                  IF r \in news THEN [inbox.records[r] EXCEPT !.revision = @ + 1]
                  ELSE inbox.records[r]]
  OBVIOUS
<1>3. inbox.version \in 0..MaxVersion /\ inbox.version < MaxVersion /\ MaxVersion \in Nat
  BY ActivityScreenAssumption DEF ScreenInv, ScreenTypeOK, Snapshot, MayCommitInbox, CommitScan
<1>4. ASSUME NEW r \in TrackedRuns
      PROVE  /\ recs[r] \in Record
             /\ inbox.records[r].revision <= recs[r].revision
             /\ inbox.records[r].read <= recs[r].read
             /\ recs[r].revision <= inbox.version + 1
  <2>1. inbox.records[r] \in Record /\ inbox.records[r].revision <= inbox.version
    BY DEF ScreenInv, ScreenTypeOK, Snapshot
  <2>2. CASE r \notin news
    BY <1>2, <1>3, <2>1, <2>2 DEF Record
  <2>3. CASE r \in news
    <3>1. recs[r] = [revision |-> inbox.records[r].revision + 1, read |-> inbox.records[r].read]
      BY <1>2, <2>1, <2>3 DEF Record
    <3>2. inbox.records[r].revision \in 0..MaxVersion /\ inbox.records[r].read \in 0..MaxVersion
      BY <2>1 DEF Record
    <3> QED
      BY <1>3, <2>1, <3>1, <3>2 DEF Record
  <2> QED
    BY <2>2, <2>3
<1>5. recs \in [TrackedRuns -> Record]
  BY <1>2, <1>4
<1> QED
  BY <1>1, <1>2, <1>4, <1>5, CommitGrows DEF CommitScan

LEMMA MarkGrows ==
  ASSUME ScreenInv, NEW receipts \in [TrackedRuns -> 0..MaxVersion], MarkRead(receipts)
  PROVE  /\ ScreenGrows
         /\ \A r \in TrackedRuns : receipts[r] <= inbox.records[r].revision =>
              receipts[r] <= inbox'.records[r].read
<1>1. PICK recs : recs = [r \in TrackedRuns |->
                 LET record == inbox.records[r] IN
                 [record EXCEPT !.read =
                    IF receipts[r] > @ /\ receipts[r] <= record.revision THEN receipts[r] ELSE @]]
  OBVIOUS
<1>2. MayCommitInbox /\ Commit(recs)
  BY <1>1 DEF MarkRead
<1>3. MaxVersion \in Nat /\ inbox.version \in 0..MaxVersion
  BY ActivityScreenAssumption DEF ScreenInv, ScreenTypeOK, Snapshot
<1>4. ASSUME NEW r \in TrackedRuns
      PROVE  /\ recs[r] \in Record
             /\ inbox.records[r].revision <= recs[r].revision
             /\ inbox.records[r].read <= recs[r].read
             /\ recs[r].revision <= inbox.version + 1
             /\ receipts[r] <= inbox.records[r].revision => receipts[r] <= recs[r].read
  <2>1. inbox.records[r] \in Record /\ inbox.records[r].revision <= inbox.version
    BY DEF ScreenInv, ScreenTypeOK, Snapshot
  <2>2. recs[r] = [revision |-> inbox.records[r].revision,
                      read |-> IF receipts[r] > inbox.records[r].read
                                    /\ receipts[r] <= inbox.records[r].revision
                               THEN receipts[r] ELSE inbox.records[r].read]
    BY <1>1, <2>1 DEF Record
  <2>3. /\ inbox.records[r].revision \in 0..MaxVersion /\ inbox.records[r].read \in 0..MaxVersion
        /\ receipts[r] \in 0..MaxVersion
    BY <2>1 DEF Record
  <2> QED
    BY <1>3, <2>1, <2>2, <2>3 DEF Record
<1>5. recs \in [TrackedRuns -> Record]
  BY <1>1, <1>4
<1>6. inbox'.records = recs
  BY <1>2 DEF Commit
<1> QED
  BY <1>2, <1>4, <1>5, <1>6, CommitGrows

-----------------------------------------------------------------------------
(* What a step of the store, or of one window, leaves as it was.           *)

LEMMA HeldGrows ==
  ASSUME ScreenInv, ScreenTypeOK', ScreenGrows, Held' \subseteq Held \cup {inbox'}
  PROVE  HeldOK'
<1>1. Held \subseteq Snapshot /\ inbox' \in Snapshot /\ inbox \in Snapshot
  BY HeldTypeOK DEF ScreenInv, ScreenGrows, ScreenTypeOK
<1>2. inbox.version \in Nat /\ inbox'.version \in Nat /\ inbox.version <= inbox'.version
  BY <1>1, ActivityScreenAssumption DEF ScreenGrows, Snapshot
<1>3. ASSUME NEW x \in Held
      PROVE  /\ x.version <= inbox.version /\ x.version \in Nat /\ Within(x, inbox)
             /\ \A y \in Held : Before(x, y)
  <2>1. x.version \in Nat
    BY <1>1, ActivityScreenAssumption DEF Snapshot
  <2>2. inbox \in Held
    BY DEF Held
  <2> QED
    BY <2>1, <2>2 DEF ScreenInv, HeldOK, Before
<1>4. ASSUME NEW x \in Held, NEW r \in TrackedRuns
      PROVE  x.records[r].revision \in Nat /\ x.records[r].read \in Nat
  BY <1>1, ActivityScreenAssumption DEF Snapshot, Record
<1>5. ASSUME NEW r \in TrackedRuns
      PROVE  inbox'.records[r].revision \in Nat /\ inbox'.records[r].read \in Nat
  BY <1>1, ActivityScreenAssumption DEF Snapshot, Record
<1>6. inbox \in Held
  BY DEF Held
<1>7. ASSUME NEW x \in Held
      PROVE  x.version <= inbox'.version /\ Within(x, inbox')
  <2>1. x.version <= inbox'.version
    BY <1>2, <1>3
  <2>2. ASSUME NEW r \in TrackedRuns
        PROVE  /\ x.records[r].revision <= inbox'.records[r].revision
               /\ x.records[r].read <= inbox'.records[r].read
    BY <1>3, <1>4, <1>5, <1>6 DEF ScreenGrows, Within
  <2> QED
    BY <2>1, <2>2 DEF Within
<1>8. ASSUME NEW x \in Held' PROVE x.version <= inbox'.version
  BY <1>2, <1>7
<1>9. ASSUME NEW x \in Held', NEW y \in Held' PROVE Before(x, y)
  <2>1. CASE x \in Held /\ y \in Held
    BY <1>3, <2>1
  <2>2. CASE x \in Held /\ y = inbox'
    BY <1>7, <2>2 DEF Before
  <2>3. CASE x = inbox' /\ y = inbox'
    BY <1>5, <2>3 DEF Before, Within
  <2>4. CASE x = inbox' /\ y \in Held
    <3>1. CASE inbox' = inbox
      BY <1>3, <1>6, <2>4, <3>1
    <3>2. CASE inbox'.version = inbox.version + 1
      BY <1>2, <1>3, <2>4, <3>2 DEF Before
    <3> QED
      BY <3>1, <3>2 DEF ScreenGrows
  <2> QED
    BY <2>1, <2>2, <2>3, <2>4
<1> QED
  BY <1>8, <1>9 DEF HeldOK, Before, Within

LEMMA ChangeStays ==
  ASSUME ScreenInv, ScreenGrows, NEW c \in Changes, change'[c] = change[c]
  PROVE  ChangeOK(c)'
<1> SUFFICES ASSUME NEW r \in TrackedRuns
             PROVE  LET n == change[c].receipts[r] IN
                    /\ change[c].stage = "asked" => n <= inbox'.records[r].revision
                    /\ change[c].stage = "marked" => n <= inbox'.records[r].read
                    /\ change[c].stage = "done" => n <= change[c].snapshot.records[r].read
  BY DEF ChangeOK
<1>1. /\ inbox.records[r].revision \in Nat /\ inbox.records[r].read \in Nat
      /\ inbox'.records[r].revision \in Nat /\ inbox'.records[r].read \in Nat
      /\ change[c].receipts[r] \in Nat
  BY ActivityScreenAssumption DEF ScreenInv, ScreenTypeOK, ScreenGrows, Snapshot, Record, Change
<1> QED
  BY <1>1 DEF ScreenInv, ChangeOK, ScreenGrows, Within

(* What is asked for, reported and taken of scans.                         *)
LEMMA ScreenStep ==
  ASSUME ScreenInv, ScreenTypeOK', ScreenGrows, Held' \subseteq Held \cup {inbox'}, PendingIsScanned',
         \A c \in Changes : change'[c] # change[c] => ChangeOK(c)'
  PROVE  ScreenInv'
<1>1. HeldOK'
  BY HeldGrows
<1>2. \A c \in Changes : ChangeOK(c)'
  BY ChangeStays
<1>3. \A r \in TrackedRuns : inbox'.records[r].revision <= inbox'.version
  BY DEF ScreenGrows
<1> QED
  BY <1>1, <1>2, <1>3 DEF ScreenInv

LEMMA ShownIsHeld ==
  ASSUME ScreenInv, NEW x \in Held
  PROVE  /\ Shown(x) \in Held /\ Shown(x) \in Snapshot
         /\ Within(seen.snapshot, Shown(x)) /\ Within(x, Shown(x))
<1>1. seen.snapshot \in Held /\ Held \subseteq Snapshot
  BY HeldTypeOK DEF ScreenInv, Held
<1>2. /\ x.version \in Nat /\ seen.snapshot.version \in Nat
      /\ Before(x, seen.snapshot) /\ Before(seen.snapshot, x)
      /\ Before(x, x) /\ Before(seen.snapshot, seen.snapshot)
  BY <1>1, ActivityScreenAssumption DEF ScreenInv, HeldOK, Snapshot
<1>3. CASE Newer(x)
  <2>1. seen.snapshot.version <= x.version
    BY <1>2, <1>3 DEF Newer
  <2> QED
    BY <1>1, <1>2, <1>3, <2>1 DEF Shown, Before
<1>4. CASE ~Newer(x)
  <2>1. x.version <= seen.snapshot.version
    BY <1>2, <1>4 DEF Newer
  <2> QED
    BY <1>1, <1>2, <1>4, <2>1 DEF Shown, Before
<1> QED
  BY <1>3, <1>4

-----------------------------------------------------------------------------
(* The initial state, and one lemma for the actions of each kind.          *)

LEMMA ScreenInitInv == ScreenInit => ScreenInv
<1> SUFFICES ASSUME ScreenInit PROVE ScreenInv
  OBVIOUS
<1>1. MaxVersion \in Nat /\ 0 \in 0..MaxVersion
  BY ActivityScreenAssumption
<1>2. NoSnapshot \in Snapshot /\ NoScan \in Scan /\ NoChange \in Change
  BY <1>1 DEF NoSnapshot, Snapshot, Record, NoScan, Scan, NoChange, Change
<1>3. ScreenTypeOK
  BY <1>2 DEF ScreenInit, ScreenTypeOK
<1>4. \A x \in Held : x = NoSnapshot
  BY <1>2 DEF ScreenInit, Held, NoScan, NoChange
<1>5. Before(NoSnapshot, NoSnapshot) /\ NoSnapshot.version <= NoSnapshot.version
  BY DEF Before, Within, NoSnapshot
<1>6. HeldOK /\ \A r \in TrackedRuns : inbox.records[r].revision <= inbox.version
  <2>1. inbox = NoSnapshot
    BY DEF ScreenInit
  <2>2. HeldOK
    BY <1>4, <1>5, <2>1 DEF HeldOK
  <2> QED
    BY <2>1, <2>2 DEF NoSnapshot
<1>7. PendingIsScanned /\ \A c \in Changes : ChangeOK(c)
  BY DEF ScreenInit, PendingIsScanned, ChangeOK, NoChange
<1> QED
  BY <1>3, <1>6, <1>7 DEF ScreenInv

LEMMA NoScanIsScan == NoScan \in Scan /\ NoScan.snapshot \in Held
BY ActivityScreenAssumption DEF NoScan, Scan, NoSnapshot, Snapshot, Record, Held

(* Scans are asked for, report, end and are answered.                      *)
LEMMA ScansChange ==
  ASSUME ScreenInv, ScreenGrows, UNCHANGED change,
         NEW loaded \in BOOLEAN, NEW pending \in [ScanKinds -> BOOLEAN], NEW shown \in Held,
         seen' = [loaded |-> loaded, pending |-> pending, snapshot |-> shown],
         scan' \in [ScanKinds -> Scan],
         \A k \in ScanKinds : /\ scan'[k].snapshot \in Held \cup {inbox'}
                              /\ pending[k] => scan'[k].stage # "none"
  PROVE  ScreenInv'
<1>1. shown \in Snapshot
  BY HeldTypeOK DEF ScreenInv
<1>2. ScreenTypeOK'
  BY <1>1 DEF ScreenInv, ScreenGrows, ScreenTypeOK
<1>3. Held' \subseteq Held \cup {inbox'}
  BY DEF Held
<1>4. PendingIsScanned'
  BY DEF PendingIsScanned
<1>5. \A c \in Changes : change'[c] = change[c]
  OBVIOUS
<1> QED
  BY <1>2, <1>3, <1>4, <1>5, ScreenStep

LEMMA SeenFields ==
  ASSUME ScreenInv
  PROVE  /\ seen.loaded \in BOOLEAN /\ seen.pending \in [ScanKinds -> BOOLEAN]
         /\ seen.snapshot \in Held /\ inbox \in Held
         /\ seen = [loaded |-> seen.loaded, pending |-> seen.pending, snapshot |-> seen.snapshot]
         /\ \A k \in ScanKinds : scan[k] \in Scan /\ scan[k].snapshot \in Held
         /\ \A k \in ScanKinds : seen.pending[k] => scan[k].stage # "none"
BY DEF ScreenInv, ScreenTypeOK, Held, PendingIsScanned

(* One scan is now s.                                                      *)
LEMMA ScanBecomes ==
  ASSUME ScreenInv, ScreenGrows, UNCHANGED change, NEW k \in ScanKinds, NEW s \in Scan,
         scan' = [scan EXCEPT ![k] = s], s.snapshot \in Held \cup {inbox'},
         NEW p \in BOOLEAN, p => s.stage # "none", NEW shown \in Held,
         seen' = [loaded |-> seen.loaded, pending |-> [seen.pending EXCEPT ![k] = p],
                  snapshot |-> shown]
  PROVE  ScreenInv'
<1>1. scan \in [ScanKinds -> Scan]
  BY DEF ScreenInv, ScreenTypeOK
<1>2. PICK pending \in [ScanKinds -> BOOLEAN] : pending = [seen.pending EXCEPT ![k] = p]
  BY SeenFields
<1>3. scan' \in [ScanKinds -> Scan]
  BY <1>1
<1>4. ASSUME NEW j \in ScanKinds
      PROVE  /\ scan'[j].snapshot \in Held \cup {inbox'}
             /\ pending[j] => scan'[j].stage # "none"
  BY <1>1, <1>2, SeenFields
<1> QED
  BY <1>2, <1>3, <1>4, SeenFields, ScansChange

(* One change is now s; what is shown is what was there.                   *)
LEMMA ChangeBecomes ==
  ASSUME ScreenInv, ScreenGrows, UNCHANGED scan, NEW c \in Changes, NEW s \in Change,
         change' = [change EXCEPT ![c] = s], s.snapshot \in Held \cup {inbox'},
         NEW shown \in Held,
         seen' = [loaded |-> seen.loaded, pending |-> seen.pending, snapshot |-> shown],
         \A r \in TrackedRuns :
           /\ s.stage = "asked" => s.receipts[r] <= inbox'.records[r].revision
           /\ s.stage = "marked" => s.receipts[r] <= inbox'.records[r].read
           /\ s.stage = "done" => s.receipts[r] <= s.snapshot.records[r].read
  PROVE  ScreenInv'
<1>1. change \in [Changes -> Change] /\ scan \in [ScanKinds -> Scan]
  BY DEF ScreenInv, ScreenTypeOK
<1>2. shown \in Snapshot
  BY HeldTypeOK DEF ScreenInv
<1>3. change'[c] = s /\ \A d \in Changes : d # c => change'[d] = change[d]
  BY <1>1
<1>4. ScreenTypeOK'
  BY <1>1, <1>2, SeenFields DEF ScreenGrows, ScreenTypeOK
<1>5. Held' \subseteq Held \cup {inbox'}
  BY <1>3 DEF Held
<1>6. PendingIsScanned'
  BY SeenFields DEF PendingIsScanned
<1>7. ChangeOK(c)'
  BY <1>3 DEF ChangeOK
<1> QED
  BY <1>3, <1>4, <1>5, <1>6, <1>7, ScreenStep

-----------------------------------------------------------------------------
(* The actions.                                                            *)

LEMMA OthersKeepScreen == ScreenInv /\ OtherClientOfInbox => ScreenInv'
<1> SUFFICES ASSUME ScreenInv, OtherClientOfInbox PROVE ScreenInv'
  OBVIOUS
<1>1. ScreenGrows
  <2>1. CASE CommitScan
    BY <2>1, ScanGrows
  <2>2. CASE MarkRead([r \in TrackedRuns |-> inbox.records[r].revision])
    <3>1. [r \in TrackedRuns |-> inbox.records[r].revision] \in [TrackedRuns -> 0..MaxVersion]
      BY DEF ScreenInv, ScreenTypeOK, Snapshot, Record
    <3> QED
      BY <2>2, <3>1, MarkGrows
  <2> QED
    BY <2>1, <2>2 DEF OtherClientOfInbox
<1>2. scan \in [ScanKinds -> Scan]
  BY DEF ScreenInv, ScreenTypeOK
<1> QED
  BY <1>1, <1>2, SeenFields, ScansChange DEF OtherClientOfInbox

LEMMA StartKeepsScreen ==
  ASSUME ScreenInv, NEW k \in ScanKinds, StartScan(k), UNCHANGED <<inbox, change>>
  PROVE  ScreenInv'
<1>1. PICK s : s = [NoScan EXCEPT !.stage = "asked"]
  OBVIOUS
<1>2. s \in Scan /\ s.snapshot \in Held /\ s.stage # "none"
  BY <1>1, NoScanIsScan DEF NoScan, Scan
<1>3. scan' = [scan EXCEPT ![k] = s]
  BY <1>1 DEF StartScan
<1>4. seen' = [loaded |-> seen.loaded, pending |-> [seen.pending EXCEPT ![k] = TRUE],
               snapshot |-> seen.snapshot]
  BY SeenFields DEF StartScan
<1>5. PICK p \in BOOLEAN : p
  OBVIOUS
<1>6. seen' = [loaded |-> seen.loaded, pending |-> [seen.pending EXCEPT ![k] = p],
               snapshot |-> seen.snapshot]
  BY <1>4, <1>5
<1>7. ScreenGrows
  BY StaysGrows
<1> QED
  BY <1>2, <1>3, <1>6, <1>7, SeenFields, ScanBecomes

LEMMA ScanGoesOn ==
  ASSUME ScreenInv, ScreenGrows, UNCHANGED <<seen, change>>, NEW k \in ScanKinds, NEW s \in Scan,
         scan' = [scan EXCEPT ![k] = s], s.snapshot \in Held \cup {inbox'}, s.stage # "none"
  PROVE  ScreenInv'
<1>1. PICK p \in BOOLEAN : p = seen.pending[k]
  BY SeenFields
<1>2. seen.pending = [seen.pending EXCEPT ![k] = p]
  BY <1>1, SeenFields
<1>3. seen' = [loaded |-> seen.loaded, pending |-> [seen.pending EXCEPT ![k] = p],
               snapshot |-> seen.snapshot]
  BY <1>2, SeenFields
<1> QED
  BY <1>3, SeenFields, ScanBecomes

LEMMA LoadKeepsScreen == ScreenInv /\ LoadFromInbox => ScreenInv'
<1> SUFFICES ASSUME ScreenInv, LoadFromInbox PROVE ScreenInv'
  OBVIOUS
<1>1. PICK s : s = [stage |-> "done", snapshot |-> inbox]
  OBVIOUS
<1>2. s \in Scan /\ s.snapshot = inbox' /\ s.stage # "none"
  BY <1>1 DEF ScreenInv, ScreenTypeOK, Scan, LoadFromInbox
<1>3. ScreenGrows
  BY StaysGrows DEF LoadFromInbox
<1>4. "load" \in ScanKinds
  BY DEF ScanKinds
<1> QED
  BY <1>1, <1>2, <1>3, <1>4, ScanGoesOn DEF LoadFromInbox

LEMMA StoresKeepsScreen == ASSUME ScreenInv, NEW k \in ScanKinds, ScanStores(k) PROVE ScreenInv'
<1>1. ScreenGrows
  BY ScanGrows DEF ScanStores
<1>2. PICK stage \in {"progress", "done"} :
        scan' = [scan EXCEPT ![k] = [stage |-> stage, snapshot |-> inbox']]
  BY DEF ScanStores
<1>3. PICK s : s = [stage |-> stage, snapshot |-> inbox']
  OBVIOUS
<1>4. s \in Scan /\ s.snapshot = inbox' /\ s.stage # "none"
  BY <1>1, <1>3 DEF ScreenGrows, Scan
<1> QED
  BY <1>1, <1>2, <1>3, <1>4, ScanGoesOn DEF ScanStores

LEMMA FailsKeepsScreen == ASSUME ScreenInv, NEW k \in ScanKinds, ScanFails(k) PROVE ScreenInv'
<1>1. PICK s : s = [scan[k] EXCEPT !.stage = "failed"]
  OBVIOUS
<1>2. s \in Scan /\ s.snapshot \in Held /\ s.stage # "none"
  BY <1>1, SeenFields DEF Scan
<1>3. scan' = [scan EXCEPT ![k] = s]
  BY <1>1 DEF ScanFails
<1>4. ScreenGrows
  BY StaysGrows DEF ScanFails
<1> QED
  BY <1>2, <1>3, <1>4, ScanGoesOn DEF ScanFails

LEMMA StopKeepsScreen == ScreenInv /\ StopActivity => ScreenInv'
<1> SUFFICES ASSUME ScreenInv, StopActivity PROVE ScreenInv'
  OBVIOUS
<1>1. PICK none : none = NonePending
  OBVIOUS
<1>2. none \in [ScanKinds -> BOOLEAN] /\ \A k \in ScanKinds : ~none[k]
  BY <1>1 DEF NonePending
<1>3. seen' = [loaded |-> seen.loaded, pending |-> none, snapshot |-> seen.snapshot]
  BY <1>1, SeenFields DEF StopActivity
<1>4. scan' \in [ScanKinds -> Scan] /\ \A k \in ScanKinds : scan'[k].snapshot \in Held
  BY NoScanIsScan DEF StopActivity
<1>5. ScreenGrows
  BY StaysGrows DEF StopActivity
<1> QED
  BY <1>2, <1>3, <1>4, <1>5, SeenFields, ScansChange DEF StopActivity

LEMMA AcceptKeepsScreen == ASSUME ScreenInv, NEW k \in ScanKinds, AcceptScan(k) PROVE ScreenInv'
<1>1. PICK done \in BOOLEAN : done = (scan[k].stage = "done")
  OBVIOUS
<1>2. PICK s : s = IF done THEN NoScan ELSE [NoScan EXCEPT !.stage = "asked"]
  OBVIOUS
<1>3. s \in Scan /\ s.snapshot \in Held /\ (~done => s.stage # "none")
  BY <1>2, NoScanIsScan DEF NoScan, Scan
<1>4. scan' = [scan EXCEPT ![k] = s]
  BY <1>1, <1>2 DEF AcceptScan
<1>5. PICK shown \in Held : shown = Shown(scan[k].snapshot)
  BY SeenFields, ShownIsHeld
<1>6. PICK p \in BOOLEAN : p = ~done
  BY <1>1
<1>7. seen' = [loaded |-> seen.loaded, pending |-> [seen.pending EXCEPT ![k] = p],
               snapshot |-> shown]
  BY <1>1, <1>5, <1>6, SeenFields DEF AcceptScan
<1>8. ScreenGrows
  BY StaysGrows DEF AcceptScan
<1> QED
  BY <1>3, <1>4, <1>6, <1>7, <1>8, ScanBecomes DEF AcceptScan

LEMMA AcceptLoadKeepsScreen == ScreenInv /\ AcceptLoad => ScreenInv'
<1> SUFFICES ASSUME ScreenInv, AcceptLoad PROVE ScreenInv'
  OBVIOUS
<1>1. "load" \in ScanKinds /\ "fast" \in ScanKinds /\ "load" # "fast"
  BY DEF ScanKinds
<1>2. PICK pending : pending = [seen.pending EXCEPT !["load"] = FALSE, !["fast"] = TRUE]
  OBVIOUS
<1>3. pending \in [ScanKinds -> BOOLEAN] /\ ~pending["load"]
      /\ \A k \in ScanKinds \ {"load", "fast"} : pending[k] = seen.pending[k]
  BY <1>1, <1>2, SeenFields
<1>4. PICK shown \in Held : shown = Shown(scan["load"].snapshot)
  BY <1>1, SeenFields, ShownIsHeld
<1>5. PICK loaded \in BOOLEAN : loaded
  OBVIOUS
<1>6. seen' = [loaded |-> loaded, pending |-> pending, snapshot |-> shown]
  BY <1>2, <1>4, <1>5, SeenFields DEF AcceptLoad
<1>7. PICK s : s = [NoScan EXCEPT !.stage = "asked"]
  OBVIOUS
<1>8. s \in Scan /\ s.snapshot \in Held /\ s.stage # "none"
  BY <1>7, NoScanIsScan DEF NoScan, Scan
<1>9. scan' = [scan EXCEPT !["load"] = NoScan, !["fast"] = s] /\ scan \in [ScanKinds -> Scan]
  BY <1>7 DEF AcceptLoad, ScreenInv, ScreenTypeOK
<1>10. scan' \in [ScanKinds -> Scan]
  BY <1>8, <1>9, NoScanIsScan
<1>11. ASSUME NEW k \in ScanKinds
       PROVE  scan'[k].snapshot \in Held /\ (pending[k] => scan'[k].stage # "none")
  <2>1. CASE k = "load"
    BY <1>1, <1>3, <1>9, <2>1, NoScanIsScan
  <2>2. CASE k = "fast"
    BY <1>1, <1>8, <1>9, <2>2
  <2>3. CASE k # "load" /\ k # "fast"
    BY <1>3, <1>9, <2>3, SeenFields
  <2> QED
    BY <2>1, <2>2, <2>3
<1>12. ScreenGrows
  BY StaysGrows DEF AcceptLoad
<1> QED
  BY <1>3, <1>4, <1>5, <1>6, <1>10, <1>11, <1>12, ScansChange DEF AcceptLoad

LEMMA AcceptFailedKeepsScreen == ASSUME ScreenInv, NEW k \in ScanKinds, AcceptFailedScan(k) PROVE ScreenInv'
<1>1. PICK p \in BOOLEAN : ~p
  OBVIOUS
<1>2. seen' = [loaded |-> seen.loaded, pending |-> [seen.pending EXCEPT ![k] = p],
               snapshot |-> seen.snapshot]
  <2>1. seen' = [seen EXCEPT !.pending[k] = FALSE] /\ p = FALSE
    BY <1>1 DEF AcceptFailedScan
  <2> QED
    BY <2>1, SeenFields
<1>3. ScreenGrows
  BY StaysGrows DEF AcceptFailedScan
<1> QED
  BY <1>1, <1>2, <1>3, NoScanIsScan, SeenFields, ScanBecomes DEF AcceptFailedScan

-----------------------------------------------------------------------------
(* The user's changes.                                                     *)

LEMMA ReadKeepsScreen ==
  ASSUME ScreenInv, NEW c \in Changes, NEW runs \in SUBSET TrackedRuns, ReadRuns(c, runs)
  PROVE  ScreenInv'
<1>1. PICK recs : recs = seen.snapshot.records
  OBVIOUS
<1>2. PICK receipts :
        receipts = [r \in TrackedRuns |->
          IF r \in {q \in runs : recs[q].revision > recs[q].read}
          THEN recs[r].revision ELSE 0]
  OBVIOUS
<1>3. PICK s : s = [NoChange EXCEPT !.stage = "asked", !.receipts = receipts]
  OBVIOUS
<1>4. change' = [change EXCEPT ![c] = s]
  BY <1>1, <1>2, <1>3 DEF ReadRuns
<1>5. recs \in [TrackedRuns -> Record] /\ MaxVersion \in Nat
  BY <1>1, ActivityScreenAssumption DEF ScreenInv, ScreenTypeOK, Snapshot
<1>6. receipts \in [TrackedRuns -> 0..MaxVersion]
  BY <1>2, <1>5 DEF Record
<1>7. s \in Change /\ s.stage = "asked" /\ s.receipts = receipts /\ s.snapshot \in Held
  BY <1>3, <1>6, NoScanIsScan DEF NoChange, Change, NoScan, Scan
<1>8. ScreenGrows /\ inbox' = inbox
  BY StaysGrows DEF ReadRuns
<1>9. Within(seen.snapshot, inbox)
  BY SeenFields DEF ScreenInv, HeldOK, Before
<1>10. ASSUME NEW r \in TrackedRuns PROVE receipts[r] <= inbox'.records[r].revision
  <2>1. recs[r].revision <= inbox.records[r].revision
    BY <1>1, <1>9 DEF Within
  <2>2. inbox.records[r].revision \in Nat
    BY <1>5 DEF ScreenInv, ScreenTypeOK, Snapshot, Record
  <2> QED
    BY <1>2, <1>8, <2>1, <2>2
<1> QED
  BY <1>4, <1>7, <1>8, <1>10, SeenFields, ChangeBecomes DEF ReadRuns

LEMMA PerformKeepsScreen == ASSUME ScreenInv, NEW c \in Changes, PerformChange(c) PROVE ScreenInv'
<1>1. UNCHANGED <<seen, scan>>
  BY DEF PerformChange
<1>2. change[c] \in Change /\ change[c].receipts \in [TrackedRuns -> 0..MaxVersion]
      /\ change[c].snapshot \in Held /\ change[c].snapshot \in Snapshot
  BY DEF ScreenInv, ScreenTypeOK, Change, Held
<1>3. CASE change[c].stage = "asked" /\ MarkRead(change[c].receipts)
           /\ change' = [change EXCEPT ![c].stage = "marked"]
  <2>1. PICK s : s = [change[c] EXCEPT !.stage = "marked"]
    OBVIOUS
  <2>2. s \in Change /\ s.stage = "marked" /\ s.receipts = change[c].receipts
        /\ s.snapshot = change[c].snapshot
    BY <1>2, <2>1 DEF Change
  <2>3. ScreenGrows /\ \A r \in TrackedRuns : change[c].receipts[r] <= inbox'.records[r].read
    BY <1>2, <1>3, MarkGrows DEF ScreenInv, ChangeOK
  <2>4. change' = [change EXCEPT ![c] = s]
    BY <1>3, <2>1
  <2> QED
    BY <1>1, <1>2, <2>2, <2>3, <2>4, SeenFields, ChangeBecomes
<1>4. CASE /\ change[c].stage = "marked" /\ UNCHANGED inbox
           /\ change' = [change EXCEPT ![c].stage = "done", ![c].snapshot = inbox]
  <2>1. PICK s : s = [change[c] EXCEPT !.stage = "done", !.snapshot = inbox]
    OBVIOUS
  <2>2. s \in Change /\ s.stage = "done" /\ s.receipts = change[c].receipts /\ s.snapshot = inbox
    BY <1>2, <2>1 DEF Change, ScreenInv, ScreenTypeOK
  <2>3. ScreenGrows
    BY <1>4, StaysGrows
  <2>4. change' = [change EXCEPT ![c] = s]
    BY <1>4, <2>1 DEF ScreenInv, ScreenTypeOK
  <2>5. \A r \in TrackedRuns : s.receipts[r] <= s.snapshot.records[r].read
    BY <1>4, <2>2 DEF ScreenInv, ChangeOK
  <2> QED
    BY <1>1, <2>2, <2>3, <2>4, <2>5, SeenFields, ChangeBecomes
<1>5. CASE UNCHANGED inbox /\ change' = [change EXCEPT ![c] = [NoChange EXCEPT !.stage = "failed"]]
  <2>1. PICK s : s = [NoChange EXCEPT !.stage = "failed"]
    OBVIOUS
  <2>2. s \in Change /\ s.stage = "failed" /\ s.snapshot \in Held
    BY <2>1, NoScanIsScan, ActivityScreenAssumption DEF NoChange, Change, NoScan, Scan
  <2>3. ScreenGrows
    BY <1>5, StaysGrows
  <2> QED
    BY <1>1, <1>5, <2>1, <2>2, <2>3, SeenFields, ChangeBecomes
<1> QED
  BY <1>3, <1>4, <1>5 DEF PerformChange

LEMMA AnswerKeepsScreen == ASSUME ScreenInv, NEW c \in Changes, AcceptChange(c) PROVE ScreenInv'
<1>1. NoChange \in Change /\ NoChange.stage = "none" /\ NoChange.snapshot \in Held
  BY NoScanIsScan, ActivityScreenAssumption DEF NoChange, Change, NoScan, Scan
<1>2. PICK shown \in Held :
        shown = IF change[c].stage = "done" THEN Shown(change[c].snapshot) ELSE seen.snapshot
  <2>1. change[c].snapshot \in Held
    BY DEF Held
  <2> QED
    BY <2>1, SeenFields, ShownIsHeld
<1>3. seen' = [loaded |-> seen.loaded, pending |-> seen.pending, snapshot |-> shown]
  BY <1>2, SeenFields DEF AcceptChange
<1>4. ScreenGrows
  BY StaysGrows DEF AcceptChange
<1> QED
  BY <1>1, <1>2, <1>3, <1>4, ChangeBecomes DEF AcceptChange

LEMMA ScreenNextInv == ScreenInv /\ [ScreenNext]_screenVars => ScreenInv'
<1> SUFFICES ASSUME ScreenInv, [ScreenNext]_screenVars PROVE ScreenInv'
  OBVIOUS
<1>1. CASE UNCHANGED screenVars
  BY <1>1, StaysGrows, SeenFields, ScansChange DEF screenVars, ScreenInv, ScreenTypeOK
<1>2. CASE RefreshActivityManually
  <2>1. "fast" \in ScanKinds
    BY DEF ScanKinds
  <2> QED
    BY <1>2, <2>1, StartKeepsScreen DEF RefreshActivityManually
<1>3. ASSUME NEW k \in ScanKinds, RefreshActivity(k) PROVE ScreenInv'
  BY <1>3, StartKeepsScreen DEF RefreshActivity
<1> QED
  BY <1>1, <1>2, <1>3, OthersKeepScreen, LoadKeepsScreen, AcceptLoadKeepsScreen, StopKeepsScreen,
     StoresKeepsScreen, FailsKeepsScreen, AcceptKeepsScreen, AcceptFailedKeepsScreen,
     ReadKeepsScreen, PerformKeepsScreen, AnswerKeepsScreen DEF ScreenNext

-----------------------------------------------------------------------------
(* A step shows the snapshot it showed, or a newer one; the answer to a    *)
(* change shows at least what the change has marked.                       *)
LEMMA ShowsNoLess ==
  ASSUME ScreenInv, [ScreenNext]_screenVars
  PROVE  /\ Within(seen.snapshot, seen'.snapshot)
         /\ \A c \in Changes : change[c].stage = "done" /\ change'[c].stage = "none" =>
              Within(change[c].snapshot, seen'.snapshot)
<1>1. Within(seen.snapshot, seen.snapshot)
  BY SeenFields DEF ScreenInv, HeldOK, Before, ScreenTypeOK, Snapshot
<1>2. \A k \in ScanKinds : Within(seen.snapshot, Shown(scan[k].snapshot))
  BY SeenFields, ShownIsHeld
<1>3. \A c \in Changes : /\ Within(seen.snapshot, Shown(change[c].snapshot))
                         /\ Within(change[c].snapshot, Shown(change[c].snapshot))
  BY ShownIsHeld DEF Held
<1>4. change \in [Changes -> Change]
  BY DEF ScreenInv, ScreenTypeOK
<1>5. CASE UNCHANGED <<seen.snapshot, change>>
  BY <1>1, <1>5
<1>6. CASE UNCHANGED change /\ \E k \in ScanKinds : seen'.snapshot = Shown(scan[k].snapshot)
  BY <1>2, <1>6
<1>7. ASSUME NEW c \in Changes, NEW runs \in SUBSET TrackedRuns, ReadRuns(c, runs)
      PROVE  /\ seen' = seen
             /\ \A d \in Changes : ~(change[d].stage = "done" /\ change'[d].stage = "none")
  BY <1>4, <1>7 DEF ReadRuns, NoChange
<1>8. ASSUME NEW c \in Changes, PerformChange(c)
      PROVE  /\ seen' = seen
             /\ \A d \in Changes : ~(change[d].stage = "done" /\ change'[d].stage = "none")
  <2>1. seen' = seen /\ \A d \in Changes : d # c => change'[d] = change[d]
    BY <1>4, <1>8 DEF PerformChange
  <2>2. change[c].stage # "done"
    BY <1>8 DEF PerformChange
  <2> QED
    BY <2>1, <2>2
<1>9. ASSUME NEW c \in Changes, AcceptChange(c)
      PROVE  /\ Within(seen.snapshot, seen'.snapshot)
             /\ \A d \in Changes : change[d].stage = "done" /\ change'[d].stage = "none" =>
                  Within(change[d].snapshot, seen'.snapshot)
  <2>1. \A d \in Changes : d # c => change'[d] = change[d]
    BY <1>4, <1>9 DEF AcceptChange
  <2>2. CASE change[c].stage = "done"
    <3>1. seen'.snapshot = Shown(change[c].snapshot)
      BY <1>9, <2>2, SeenFields DEF AcceptChange
    <3> QED
      BY <1>3, <2>1, <3>1
  <2>3. CASE change[c].stage # "done"
    <3>1. seen' = seen
      BY <1>9, <2>3 DEF AcceptChange
    <3> QED
      BY <1>1, <2>1, <2>3, <3>1
  <2> QED
    BY <2>2, <2>3
<1>10. CASE AcceptLoad
  <2>1. "load" \in ScanKinds /\ seen'.snapshot = Shown(scan["load"].snapshot) /\ UNCHANGED change
    BY <1>10, SeenFields DEF AcceptLoad, ScanKinds
  <2> QED
    BY <1>6, <2>1
<1>11. ASSUME NEW k \in ScanKinds, AcceptScan(k)
       PROVE  UNCHANGED change /\ seen'.snapshot = Shown(scan[k].snapshot)
  BY <1>11, SeenFields DEF AcceptScan
<1>12. ASSUME NEW k \in ScanKinds,
              RefreshActivity(k) \/ ScanStores(k) \/ ScanFails(k) \/ AcceptFailedScan(k)
       PROVE  UNCHANGED <<seen.snapshot, change>>
  BY <1>12, SeenFields DEF RefreshActivity, StartScan, ScanStores, ScanFails, AcceptFailedScan
<1>13. CASE OtherClientOfInbox \/ LoadFromInbox \/ StopActivity \/ RefreshActivityManually
            \/ UNCHANGED screenVars
  <2>1. UNCHANGED <<seen.snapshot, change>>
    BY <1>13, SeenFields DEF OtherClientOfInbox, LoadFromInbox, StopActivity,
       RefreshActivityManually, StartScan, screenVars
  <2> QED
    BY <1>5, <2>1
<1>14. ASSUME NEW c \in Changes,
              PerformChange(c) \/ \E runs \in SUBSET TrackedRuns : ReadRuns(c, runs)
       PROVE  /\ Within(seen.snapshot, seen'.snapshot)
              /\ \A d \in Changes : ~(change[d].stage = "done" /\ change'[d].stage = "none")
  BY <1>1, <1>7, <1>8, <1>14
<1> QED
  BY <1>5, <1>6, <1>9, <1>10, <1>11, <1>12, <1>13, <1>14 DEF ScreenNext

-----------------------------------------------------------------------------
(* Any number of changes and any order of the answers keep the types of    *)
(* the snapshots, of the scans and of what is pending.                     *)
THEOREM ScreenTypeCorrect == ScreenSpec => []ScreenTypeOK
<1>1. ScreenInv => ScreenTypeOK
  BY DEF ScreenInv
<1> QED
  BY <1>1, ScreenInitInv, ScreenNextInv, PTL DEF ScreenSpec

(* For any runs and changes, however many clients commit to the store:     *)
(* what was read stays read on the screen, what this terminal has marked   *)
(* is shown from its answer on, and no scan is awaited that nobody answers *)
(* (acceptActivitySnapshot and the pending marks of activityState).        *)
THEOREM ScreenAlwaysKeepsUp == ScreenSpec => ScreenKeepsUp
<1>1. ScreenInv => PendingIsScanned
  BY DEF ScreenInv
<1>2. ASSUME ScreenInv, [ScreenNext]_screenVars
      PROVE  \A r \in TrackedRuns :
               /\ seen'.snapshot.records[r].read >= seen.snapshot.records[r].read
               /\ \A c \in Changes : change[c].stage = "done" /\ change'[c].stage = "none" =>
                    seen'.snapshot.records[r].read >= change[c].receipts[r]
  <2> TAKE r \in TrackedRuns
  <2>1. seen'.snapshot.records[r].read \in Nat /\ seen.snapshot.records[r].read \in Nat
    BY <1>2, ScreenNextInv, ActivityScreenAssumption DEF ScreenInv, ScreenTypeOK, Snapshot, Record
  <2>2. ASSUME NEW c \in Changes, change[c].stage = "done"
        PROVE  /\ change[c].snapshot.records[r].read \in Nat /\ change[c].receipts[r] \in Nat
               /\ change[c].receipts[r] <= change[c].snapshot.records[r].read
    BY <1>2, <2>2, ActivityScreenAssumption
       DEF ScreenInv, ScreenTypeOK, Change, Snapshot, Record, ChangeOK
  <2>3. seen'.snapshot.records[r].read >= seen.snapshot.records[r].read
    BY <1>2, <2>1, ShowsNoLess DEF Within
  <2>4. ASSUME NEW c \in Changes, change[c].stage = "done", change'[c].stage = "none"
        PROVE  seen'.snapshot.records[r].read >= change[c].receipts[r]
    <3>1. change[c].snapshot.records[r].read <= seen'.snapshot.records[r].read
      BY <1>2, <2>4, ShowsNoLess DEF Within
    <3> QED
      BY <2>1, <2>2, <2>4, <3>1
  <2> QED
    BY <2>3, <2>4
<1>3. ScreenSpec => ReadStaysRead
  BY <1>2, ScreenInitInv, ScreenNextInv, PTL DEF ScreenSpec, ReadStaysRead
<1> QED
  BY <1>1, <1>3, ScreenInitInv, ScreenNextInv, PTL DEF ScreenSpec, ScreenKeepsUp

-----------------------------------------------------------------------------
(* The summaries of Summaries, for any runs, sections and workers.         *)
(*                                                                         *)
(* Work is set aside or cut short only where something failed or the user  *)
(* cancelled; so a phase of which nothing failed, and which nobody         *)
(* cancelled, has an answer to every job.  The number of the window is not *)
(* smaller than that of any collection, and as large only while it waits   *)
(* for the last.                                                           *)

Stopped(c) == c.cancelled \/ \E i \in DOMAIN c.jobs : c.jobs[i] = "failed"

CollectionOK(c) ==
    /\ c.at # "answered" => c.error = "none"
    /\ c.error = "cancelled" => c.cancelled
    /\ (\E i \in DOMAIN c.jobs : c.jobs[i] \in {"skipped", "cancelled"}) => Stopped(c)
    /\ c.at \in {"sections", "notes"} \/ (c.at = "answered" /\ c.error = "none") =>
         Len(c.jobs) = Len(c.ids) * Len(Sections)
    /\ c.at = "notes" \/ (c.at = "answered" /\ c.error = "none") =>
         \A i \in DOMAIN c.jobs : c.jobs[i] \in {"done", "warned"}

WindowOK ==
    /\ \A c \in collections : c.gen <= summaries
    /\ report.gen >= summaries
    /\ report.text # NoSummary => report.text.gen = summaries
    /\ report.subjects = report.text.subjects
    /\ filed # NotFiled => filed.subject \in filed.text.subjects

WaitingOK ==
    report.pending =>
        /\ report.modal = "report" /\ report.text = NoSummary
        /\ \E c \in collections : c.gen = report.gen /\ ~c.cancelled

SummariesInv ==
    /\ SummariesTypeOK /\ \A c \in collections : CollectionOK(c)
    /\ WindowOK /\ WaitingOK

-----------------------------------------------------------------------------
(* The records, and what the steps make of them.                           *)

Collection == [gen : 1..MaxSummaries, kind : {"runs", "experiment"}, ids : Seq(SummaryRuns),
               pages : Nat, at : Phases, jobs : Seq(JobStates), error : SummaryErrors,
               cancelled : BOOLEAN]
Window == [gen : Nat, modal : {"none", "report", "export", "journal"}, pending : BOOLEAN,
           error : SummaryErrors, text : SummaryTexts, subjects : SUBSET AllSubjects]

LEMMA SummariesTypes ==
    SummariesTypeOK <=>
        /\ collections \subseteq Collection /\ report \in Window /\ exports \subseteq Nat
        /\ filed \in [text : SummaryTexts, subject : AllSubjects] /\ summaries \in 0..MaxSummaries
BY DEF SummariesTypeOK, Collection, Window

LEMMA Numbers ==
    /\ MaxSummaries \in Nat /\ MaxPages \in Nat /\ DetailLimit \in Nat /\ Len(Sections) \in Nat
    /\ RunsInOrder \in Seq(SummaryRuns) /\ RunsInOrder # <<>>
BY SummaryAssumption, LenProperties DEF SummaryRuns

LEMMA IsStopping == ASSUME NEW c PROVE Stopping(c) <=> Stopped(c)
<1>1. Jobs(c, {"failed"}) # {} <=> \E i \in DOMAIN c.jobs : c.jobs[i] = "failed" BY DEF Jobs
<1>. QED BY <1>1 DEF Stopping, Stopped

With(c, i, state) == [c EXCEPT !.jobs[i] = state]

LEMMA WithJob ==
    ASSUME NEW c \in Collection, NEW i \in DOMAIN c.jobs, NEW state \in JobStates
    PROVE  \E d \in Collection :
             /\ d = With(c, i, state)
             /\ d.gen = c.gen /\ d.cancelled = c.cancelled /\ d.at = c.at /\ d.error = c.error
             /\ d.ids = c.ids /\ DOMAIN d.jobs = DOMAIN c.jobs /\ Len(d.jobs) = Len(c.jobs)
             /\ d.jobs[i] = state
             /\ \A j \in DOMAIN c.jobs : j # i => d.jobs[j] = c.jobs[j]
<1>1. PICK jobs : jobs = [c.jobs EXCEPT ![i] = state] OBVIOUS
<1>2. c.jobs \in Seq(JobStates) BY DEF Collection
<1>3. i \in 1..Len(c.jobs) /\ DOMAIN c.jobs = 1..Len(c.jobs) BY <1>2, LenProperties
<1>4. jobs \in Seq(JobStates) /\ Len(jobs) = Len(c.jobs) BY <1>1, <1>2, <1>3, ExceptSeq
<1>5. /\ DOMAIN jobs = DOMAIN c.jobs /\ jobs[i] = state
      /\ \A j \in DOMAIN c.jobs : j # i => jobs[j] = c.jobs[j]
  BY <1>1
<1>6. PICK d : d = [c EXCEPT !.jobs = jobs] OBVIOUS
<1>7. /\ d \in Collection /\ d.gen = c.gen /\ d.cancelled = c.cancelled /\ d.at = c.at
      /\ d.error = c.error /\ d.ids = c.ids /\ d.jobs = jobs
  BY <1>4, <1>6 DEF Collection
<1>8. d = With(c, i, state) BY <1>1, <1>6 DEF With, Collection
<1>. QED BY <1>4, <1>5, <1>7, <1>8

LEMMA Answered ==
    ASSUME NEW c \in Collection, NEW error \in SummaryErrors
    PROVE  \E d \in Collection :
             /\ d = AnsweredWith(c, error)
             /\ d.gen = c.gen /\ d.cancelled = c.cancelled /\ d.at = "answered"
             /\ d.error = error /\ d.ids = c.ids /\ d.jobs = c.jobs
<1>1. PICK d : d = AnsweredWith(c, error) OBVIOUS
<1>2. /\ d \in Collection /\ d.gen = c.gen /\ d.cancelled = c.cancelled /\ d.at = "answered"
      /\ d.error = error /\ d.ids = c.ids /\ d.jobs = c.jobs
  BY <1>1 DEF AnsweredWith, Collection, Phases
<1>. QED BY <1>1, <1>2

LEMMA NextPhase ==
    ASSUME NEW c \in Collection, NEW at \in Phases, NEW n \in Nat
    PROVE  \E d \in Collection :
             /\ d = Phase(c, at, n)
             /\ d.gen = c.gen /\ d.cancelled = c.cancelled /\ d.at = at
             /\ d.error = c.error /\ d.ids = c.ids /\ Len(d.jobs) = n
             /\ \A i \in DOMAIN d.jobs : d.jobs[i] = "waiting"
<1>1. PICK jobs : jobs = [i \in 1..n |-> "waiting"] OBVIOUS
<1>2. jobs \in Seq(JobStates) /\ Len(jobs) = n /\ \A i \in DOMAIN jobs : jobs[i] = "waiting"
  <2>1. \A i \in 1..n : jobs[i] \in JobStates BY <1>1 DEF JobStates
  <2>2. [i \in 1..n |-> jobs[i]] \in Seq(JobStates) BY <2>1, IsASeq
  <2>3. jobs = [i \in 1..n |-> jobs[i]] BY <1>1
  <2>4. jobs \in Seq(JobStates) BY <2>2, <2>3
  <2>5. DOMAIN jobs = 1..n BY <1>1
  <2>6. DOMAIN jobs = 1..Len(jobs) /\ Len(jobs) \in Nat BY <2>4, LenProperties
  <2>7. Len(jobs) = n BY <2>5, <2>6
  <2>. QED BY <1>1, <2>4, <2>7
<1>3. PICK d : d = [c EXCEPT !.at = at, !.jobs = jobs] OBVIOUS
<1>4. /\ d \in Collection /\ d.gen = c.gen /\ d.cancelled = c.cancelled /\ d.at = at
      /\ d.error = c.error /\ d.ids = c.ids /\ d.jobs = jobs
  BY <1>2, <1>3 DEF Collection
<1>5. d = Phase(c, at, n) BY <1>1, <1>3 DEF Phase
<1>. QED BY <1>2, <1>4, <1>5

-----------------------------------------------------------------------------
(* The collector.                                                          *)

LEMMA ProgressNext ==
    ASSUME SummariesInv, NEW c \in collections, NEW d \in Collection, Progress(c, d),
           d.gen = c.gen, d.cancelled = c.cancelled, CollectionOK(d)
    PROVE  SummariesInv'
<1>1. /\ collections' = (collections \ {c}) \cup {d}
      /\ UNCHANGED <<report, exports, filed, summaries>>
  BY DEF Progress
<1>2. SummariesTypeOK'
  <2>1. collections' \subseteq Collection BY <1>1, SummariesTypes DEF SummariesInv
  <2>. QED BY <2>1, <1>1 DEF SummariesInv, SummariesTypeOK, Collection
<1>3. \A x \in collections' : CollectionOK(x) BY <1>1 DEF SummariesInv
<1>4. WindowOK' BY <1>1 DEF SummariesInv, WindowOK
<1>5. WaitingOK' BY <1>1 DEF SummariesInv, WaitingOK
<1>. QED BY <1>2, <1>3, <1>4, <1>5 DEF SummariesInv, CollectionOK, Stopped

LEMMA Collected ==
    ASSUME SummariesInv, NEW c \in collections PROVE c \in Collection /\ CollectionOK(c)
BY SummariesTypes DEF SummariesInv

LEMMA TakeNext ==
    ASSUME SummariesInv, NEW c \in collections, NEW i \in DOMAIN c.jobs, TakeJob(c, i) PROVE SummariesInv'
<1>0. "running" \in JobStates BY DEF JobStates
<1>1. c \in Collection /\ CollectionOK(c) BY Collected
<1>2. c.jobs[i] = "waiting" BY DEF TakeJob, NextJob, Jobs
<1>3. PICK d \in Collection :
        /\ d = With(c, i, "running")
        /\ d.gen = c.gen /\ d.cancelled = c.cancelled /\ d.at = c.at /\ d.error = c.error
        /\ d.ids = c.ids /\ DOMAIN d.jobs = DOMAIN c.jobs /\ Len(d.jobs) = Len(c.jobs)
        /\ d.jobs[i] = "running"
        /\ \A j \in DOMAIN c.jobs : j # i => d.jobs[j] = c.jobs[j]
  BY <1>1, <1>0, WithJob
<1>4. CollectionOK(d) BY <1>1, <1>2, <1>3 DEF CollectionOK, Stopped
<1>. QED BY <1>3, <1>4, ProgressNext DEF TakeJob, With

LEMMA SkipNext ==
    ASSUME SummariesInv, NEW c \in collections, NEW i \in DOMAIN c.jobs, SkipJob(c, i) PROVE SummariesInv'
<1>0. "skipped" \in JobStates BY DEF JobStates
<1>1. c \in Collection /\ CollectionOK(c) BY Collected
<1>2. c.jobs[i] = "waiting" /\ Stopped(c) BY IsStopping DEF SkipJob, NextJob, Jobs
<1>3. PICK d \in Collection :
        /\ d = With(c, i, "skipped")
        /\ d.gen = c.gen /\ d.cancelled = c.cancelled /\ d.at = c.at /\ d.error = c.error
        /\ d.ids = c.ids /\ DOMAIN d.jobs = DOMAIN c.jobs /\ Len(d.jobs) = Len(c.jobs)
        /\ d.jobs[i] = "skipped"
        /\ \A j \in DOMAIN c.jobs : j # i => d.jobs[j] = c.jobs[j]
  BY <1>1, <1>0, WithJob
<1>4. Stopped(d) BY <1>2, <1>3 DEF Stopped
<1>5. CollectionOK(d) BY <1>1, <1>2, <1>3, <1>4 DEF CollectionOK
<1>. QED BY <1>3, <1>5, ProgressNext DEF SkipJob, With

LEMMA EndNext ==
    ASSUME SummariesInv, NEW c \in collections, NEW i \in DOMAIN c.jobs, EndJob(c, i) PROVE SummariesInv'
<1>1. c \in Collection /\ CollectionOK(c) BY Collected
<1>2. c.jobs[i] = "running" BY DEF EndJob, Jobs
<1>3. PICK state \in {"done", "warned", "failed", "cancelled"} :
        /\ Progress(c, With(c, i, state))
        /\ state = "cancelled" => Stopped(c)
  BY IsStopping DEF EndJob, With
<1>0. state \in JobStates BY DEF JobStates
<1>4. PICK d \in Collection :
        /\ d = With(c, i, state)
        /\ d.gen = c.gen /\ d.cancelled = c.cancelled /\ d.at = c.at /\ d.error = c.error
        /\ d.ids = c.ids /\ DOMAIN d.jobs = DOMAIN c.jobs /\ Len(d.jobs) = Len(c.jobs)
        /\ d.jobs[i] = state
        /\ \A j \in DOMAIN c.jobs : j # i => d.jobs[j] = c.jobs[j]
  BY <1>1, <1>0, WithJob
<1>5. Stopped(c) => Stopped(d) BY <1>2, <1>4 DEF Stopped
<1>6. CollectionOK(d) BY <1>1, <1>2, <1>3, <1>4, <1>5 DEF CollectionOK
<1>. QED BY <1>3, <1>4, <1>6, ProgressNext

(* Nothing failed and nobody cancelled: then every job has its answer.     *)
LEMMA Outcomes ==
    ASSUME NEW c \in Collection, CollectionOK(c), Jobs(c, {"waiting", "running"}) = {}
    PROVE  /\ Outcome(c) \in SummaryErrors
           /\ Outcome(c) = "cancelled" => c.cancelled
           /\ Outcome(c) = "none" => \A i \in DOMAIN c.jobs : c.jobs[i] \in {"done", "warned"}
<1>1. Jobs(c, {"failed"}) = {} <=> \A i \in DOMAIN c.jobs : c.jobs[i] # "failed" BY DEF Jobs
<1>2. Jobs(c, {"cancelled"}) = {} <=> \A i \in DOMAIN c.jobs : c.jobs[i] # "cancelled" BY DEF Jobs
<1>3. \A i \in DOMAIN c.jobs : c.jobs[i] \notin {"waiting", "running"} BY DEF Jobs
<1>4. \A i \in DOMAIN c.jobs : c.jobs[i] \in JobStates
  <2>1. c.jobs \in Seq(JobStates) BY DEF Collection
  <2>. QED BY <2>1, ElementOfSeq
<1>5. Outcome(c) \in SummaryErrors BY DEF Outcome, SummaryErrors
<1>6. ASSUME Outcome(c) = "none" PROVE ~Stopped(c) /\ \A i \in DOMAIN c.jobs : c.jobs[i] # "cancelled"
  BY <1>1, <1>2, <1>6 DEF Outcome, Stopped
<1>7. ASSUME Outcome(c) = "cancelled" PROVE c.cancelled
  BY <1>1, <1>2, <1>7 DEF Outcome, CollectionOK, Stopped
<1>8. ASSUME Outcome(c) = "none", NEW i \in DOMAIN c.jobs PROVE c.jobs[i] \in {"done", "warned"}
  <2>1. c.jobs[i] # "skipped" BY <1>6, <1>8 DEF CollectionOK
  <2>2. c.jobs[i] # "cancelled" /\ c.jobs[i] # "failed" BY <1>6, <1>8 DEF Stopped
  <2>. QED BY <2>1, <2>2, <1>3, <1>4 DEF JobStates
<1>. QED BY <1>5, <1>7, <1>8

LEMMA PhaseEndNext == ASSUME SummariesInv, NEW c \in collections, EndPhase(c) PROVE SummariesInv'
<1>1. c \in Collection /\ CollectionOK(c) BY Collected
<1>2. c.at \in {"details", "sections"} /\ Jobs(c, {"waiting", "running"}) = {} BY DEF EndPhase
<1>3. /\ Outcome(c) \in SummaryErrors
      /\ Outcome(c) = "cancelled" => c.cancelled
      /\ Outcome(c) = "none" => \A i \in DOMAIN c.jobs : c.jobs[i] \in {"done", "warned"}
  BY <1>1, <1>2, Outcomes
<1>4. CASE Outcome(c) # "none"
  <2>1. PICK d \in Collection :
          /\ d = AnsweredWith(c, Outcome(c))
          /\ d.gen = c.gen /\ d.cancelled = c.cancelled /\ d.at = "answered"
          /\ d.error = Outcome(c) /\ d.ids = c.ids /\ d.jobs = c.jobs
    BY <1>1, <1>3, Answered
  <2>2. CollectionOK(d) BY <1>1, <1>3, <1>4, <2>1 DEF CollectionOK, Stopped
  <2>3. Progress(c, d) BY <1>4, <2>1 DEF EndPhase
  <2>. QED BY <2>1, <2>2, <2>3, ProgressNext
<1>5. CASE Outcome(c) = "none" /\ c.at = "details"
  <2>1. Len(c.ids) \in Nat BY <1>1, LenProperties DEF Collection
  <2>2. PICK n \in Nat : n = Len(c.ids) * Len(Sections) BY <2>1, Numbers
  <2>3. PICK d \in Collection :
          /\ d = Phase(c, "sections", n)
          /\ d.gen = c.gen /\ d.cancelled = c.cancelled /\ d.at = "sections"
          /\ d.error = c.error /\ d.ids = c.ids /\ Len(d.jobs) = n
          /\ \A i \in DOMAIN d.jobs : d.jobs[i] = "waiting"
    <3>1. "sections" \in Phases BY DEF Phases
    <3>. QED BY <1>1, <3>1, NextPhase
  <2>4. d.error = "none" BY <1>1, <1>5, <2>3 DEF CollectionOK
  <2>5. CollectionOK(d) BY <2>2, <2>3, <2>4 DEF CollectionOK
  <2>6. Progress(c, d) BY <1>5, <2>2, <2>3 DEF EndPhase
  <2>. QED BY <2>3, <2>5, <2>6, ProgressNext
<1>6. CASE Outcome(c) = "none" /\ c.at = "sections"
  <2>1. c.error = "none" /\ Len(c.jobs) = Len(c.ids) * Len(Sections) BY <1>1, <1>6 DEF CollectionOK
  <2>2. CASE c.kind = "runs"
    <3>1. "none" \in SummaryErrors BY DEF SummaryErrors
    <3>2. PICK d \in Collection :
            /\ d = AnsweredWith(c, "none")
            /\ d.gen = c.gen /\ d.cancelled = c.cancelled /\ d.at = "answered"
            /\ d.error = "none" /\ d.ids = c.ids /\ d.jobs = c.jobs
      BY <1>1, <3>1, Answered
    <3>3. CollectionOK(d) BY <1>3, <1>6, <2>1, <3>2 DEF CollectionOK
    <3>4. Progress(c, d) BY <1>6, <2>2, <3>2 DEF EndPhase
    <3>. QED BY <3>2, <3>3, <3>4, ProgressNext
  <2>3. CASE c.kind # "runs"
    <3>1. PICK d : d = [c EXCEPT !.at = "notes"] OBVIOUS
    <3>2. /\ d \in Collection /\ d.gen = c.gen /\ d.cancelled = c.cancelled /\ d.at = "notes"
          /\ d.error = c.error /\ d.ids = c.ids /\ d.jobs = c.jobs
      BY <1>1, <3>1 DEF Collection, Phases
    <3>3. CollectionOK(d) BY <1>3, <1>6, <2>1, <3>2 DEF CollectionOK
    <3>4. Progress(c, d) BY <1>6, <2>3, <3>1 DEF EndPhase
    <3>. QED BY <3>2, <3>3, <3>4, ProgressNext
  <2>. QED BY <2>2, <2>3
<1>. QED BY <1>2, <1>4, <1>5, <1>6

LEMMA FailNext == ASSUME SummariesInv, NEW c \in collections, FailCollection(c) PROVE SummariesInv'
<1>1. c \in Collection /\ CollectionOK(c) BY Collected
<1>2. PICK error \in {"failed", "cancelled"} :
        /\ Progress(c, AnsweredWith(c, error))
        /\ error = "cancelled" => c.cancelled
  BY DEF FailCollection
<1>3. error \in SummaryErrors BY DEF SummaryErrors
<1>4. PICK d \in Collection :
        /\ d = AnsweredWith(c, error)
        /\ d.gen = c.gen /\ d.cancelled = c.cancelled /\ d.at = "answered"
        /\ d.error = error /\ d.ids = c.ids /\ d.jobs = c.jobs
  BY <1>1, <1>3, Answered
<1>5. CollectionOK(d) BY <1>1, <1>2, <1>4 DEF CollectionOK, Stopped
<1>. QED BY <1>2, <1>4, <1>5, ProgressNext

LEMMA FindNext == ASSUME SummariesInv, NEW c \in collections, FindExperiment(c) PROVE SummariesInv'
<1>1. c \in Collection /\ CollectionOK(c) BY Collected
<1>2. PICK d : d = [c EXCEPT !.at = "pages"] OBVIOUS
<1>3. /\ d \in Collection /\ d.gen = c.gen /\ d.cancelled = c.cancelled /\ d.at = "pages"
      /\ d.error = c.error /\ d.ids = c.ids /\ d.jobs = c.jobs
  BY <1>1, <1>2 DEF Collection, Phases
<1>4. c.at = "experiment" /\ Progress(c, d) BY <1>2 DEF FindExperiment
<1>5. CollectionOK(d) BY <1>1, <1>3, <1>4 DEF CollectionOK, Stopped
<1>. QED BY <1>3, <1>4, <1>5, ProgressNext

LEMMA NewRows ==
    ASSUME NEW c, NEW page \in Seq(SummaryRuns) PROVE New(c, page) \in Seq(SummaryRuns)
<1>1. PICK unseen : unseen = SummaryRuns \ {c.ids[i] : i \in DOMAIN c.ids} OBVIOUS
<1>2. PICK q : q = Among(page, unseen) OBVIOUS
<1>3. q \in Seq({page[i] : i \in 1..Len(page)} \cap unseen) BY <1>2, AmongIsFiltered DEF Filtered
<1>4. {page[i] : i \in 1..Len(page)} \cap unseen \subseteq SummaryRuns BY <1>1
<1>5. q \in Seq(SummaryRuns) BY <1>3, <1>4, SeqMonotonic
<1>. QED BY <1>1, <1>2, <1>5 DEF New

LEMMA DetailRows ==
    ASSUME NEW ids \in Seq(SummaryRuns) PROVE InDetail(ids) \in Seq(SummaryRuns)
<1>1. Len(ids) \in Nat /\ \A i \in 1..Len(ids) : ids[i] \in SummaryRuns BY ElementOfSeq, LenProperties
<1>2. PICK n \in Nat : n = (IF Len(ids) < DetailLimit THEN Len(ids) ELSE DetailLimit) /\ n <= Len(ids)
  BY <1>1, Numbers
<1>3. SubSeq(ids, 1, n) \in Seq(SummaryRuns) BY <1>1, <1>2, SubSeqProperties
<1>. QED BY <1>2, <1>3 DEF InDetail

LEMMA PageNext == ASSUME SummariesInv, NEW c \in collections, ReadRunPage(c) PROVE SummariesInv'
<1>1. c \in Collection /\ CollectionOK(c) BY Collected
<1>2. c.at = "pages" BY DEF ReadRunPage
<1>3. PICK page \in {<<>>, RunsInOrder, Tail(RunsInOrder)} :
        \/ Progress(c, [c EXCEPT !.ids = c.ids \o New(c, page), !.pages = @ + 1])
        \/ Progress(c, Phase([c EXCEPT !.ids = InDetail(c.ids \o New(c, page))], "details",
                             Len(InDetail(c.ids \o New(c, page)))))
  BY DEF ReadRunPage
<1>4. page \in Seq(SummaryRuns) BY Numbers, EmptySeq, HeadTailProperties
<1>5. PICK ids : ids = c.ids \o New(c, page) OBVIOUS
<1>6. ids \in Seq(SummaryRuns)
  <2>1. c.ids \in Seq(SummaryRuns) BY <1>1 DEF Collection
  <2>. QED BY <2>1, <1>4, <1>5, NewRows, ConcatProperties
<1>7. CASE Progress(c, [c EXCEPT !.ids = c.ids \o New(c, page), !.pages = @ + 1])
  <2>0. PICK pages \in Nat : pages = c.pages + 1 BY <1>1 DEF Collection
  <2>1. PICK d : d = [c EXCEPT !.ids = ids, !.pages = pages] OBVIOUS
  <2>2. /\ d \in Collection /\ d.gen = c.gen /\ d.cancelled = c.cancelled /\ d.at = c.at
        /\ d.error = c.error /\ d.jobs = c.jobs
    BY <1>1, <1>6, <2>1 DEF Collection
  <2>3. CollectionOK(d) BY <1>1, <1>2, <2>2 DEF CollectionOK, Stopped
  <2>4. Progress(c, d) BY <1>5, <1>7, <2>0, <2>1
  <2>. QED BY <2>2, <2>3, <2>4, ProgressNext
<1>8. CASE Progress(c, Phase([c EXCEPT !.ids = InDetail(c.ids \o New(c, page))], "details",
                             Len(InDetail(c.ids \o New(c, page)))))
  <2>1. PICK some \in Seq(SummaryRuns) : some = InDetail(ids) BY <1>6, DetailRows
  <2>2. PICK e : e = [c EXCEPT !.ids = some] OBVIOUS
  <2>3. /\ e \in Collection /\ e.gen = c.gen /\ e.cancelled = c.cancelled /\ e.error = c.error
    BY <1>1, <2>2 DEF Collection
  <2>4. PICK n \in Nat : n = Len(some) BY LenProperties
  <2>5. "details" \in Phases BY DEF Phases
  <2>6. PICK d \in Collection :
          /\ d = Phase(e, "details", n)
          /\ d.gen = e.gen /\ d.cancelled = e.cancelled /\ d.at = "details"
          /\ d.error = e.error /\ d.ids = e.ids /\ Len(d.jobs) = n
          /\ \A i \in DOMAIN d.jobs : d.jobs[i] = "waiting"
    BY <2>3, <2>5, NextPhase
  <2>7. d.error = "none" BY <1>1, <1>2, <2>3, <2>6 DEF CollectionOK
  <2>8. CollectionOK(d) BY <2>6, <2>7 DEF CollectionOK
  <2>9. Progress(c, d) BY <1>5, <1>8, <2>1, <2>2, <2>4, <2>6
  <2>. QED BY <2>3, <2>6, <2>8, <2>9, ProgressNext
<1>. QED BY <1>3, <1>7, <1>8

LEMMA NotesNext == ASSUME SummariesInv, NEW c \in collections, ReadNotes(c) PROVE SummariesInv'
<1>1. c \in Collection /\ CollectionOK(c) BY Collected
<1>2. PICK error \in {"none", "cancelled"} :
        /\ Progress(c, AnsweredWith(c, error))
        /\ error = "cancelled" => c.cancelled
  BY DEF ReadNotes
<1>3. error \in SummaryErrors BY DEF SummaryErrors
<1>4. PICK d \in Collection :
        /\ d = AnsweredWith(c, error)
        /\ d.gen = c.gen /\ d.cancelled = c.cancelled /\ d.at = "answered"
        /\ d.error = error /\ d.ids = c.ids /\ d.jobs = c.jobs
  BY <1>1, <1>3, Answered
<1>5. c.at = "notes" BY DEF ReadNotes
<1>6. CollectionOK(d) BY <1>1, <1>2, <1>4, <1>5 DEF CollectionOK, Stopped
<1>. QED BY <1>2, <1>4, <1>6, ProgressNext

-----------------------------------------------------------------------------
(* The window.                                                             *)

LEMMA OneCancelled ==
    ASSUME SummariesInv, NEW c \in collections, NEW d, d = [c EXCEPT !.cancelled = TRUE]
    PROVE  d \in Collection /\ CollectionOK(d) /\ d.gen <= summaries
<1>1. c \in Collection /\ CollectionOK(c) /\ c.gen <= summaries BY Collected DEF SummariesInv, WindowOK
<1>2. /\ d \in Collection /\ d.gen = c.gen /\ d.cancelled = TRUE /\ d.at = c.at
      /\ d.error = c.error /\ d.ids = c.ids /\ d.jobs = c.jobs
  BY <1>1 DEF Collection
<1>. QED BY <1>1, <1>2 DEF CollectionOK, Stopped

LEMMA AllCancelled ==
    ASSUME SummariesInv, CancelAll
    PROVE  /\ collections' \subseteq Collection
           /\ \A c \in collections' : CollectionOK(c) /\ c.gen <= summaries
BY OneCancelled DEF CancelAll

LEMMA OpenNext ==
    ASSUME SummariesInv, NEW kind \in {"runs", "experiment"}, NEW ids \in Seq(SummaryRuns),
           OpenSummary(kind, ids)
    PROVE  SummariesInv'
<1>0. /\ report \in Window /\ summaries \in 0..MaxSummaries /\ MaxSummaries \in Nat
  BY SummariesTypes, Numbers DEF SummariesInv
<1>1. PICK gen \in 1..MaxSummaries : gen = summaries + 1 /\ gen \in Nat /\ summaries \in Nat
  BY <1>0 DEF OpenSummary
<1>2. PICK asked :
        asked = [gen |-> gen, kind |-> kind, ids |-> ids, pages |-> 1, at |-> "experiment",
                 jobs |-> <<>>, error |-> "none", cancelled |-> FALSE] OBVIOUS
<1>3. /\ asked \in Collection /\ asked.gen = gen /\ asked.cancelled = FALSE
      /\ asked.at = "experiment" /\ asked.error = "none" /\ asked.jobs = <<>>
  <2>1. <<>> \in Seq(JobStates) BY EmptySeq
  <2>. QED BY <2>1, <1>2 DEF Collection, Phases, SummaryErrors
<1>4. PICK d \in Collection :
        /\ d = IF kind = "runs" THEN Phase(asked, "details", Len(ids)) ELSE asked
        /\ d.gen = gen /\ d.cancelled = FALSE /\ CollectionOK(d)
  <2>1. CASE kind = "runs"
    <3>1. "details" \in Phases /\ Len(ids) \in Nat BY LenProperties DEF Phases
    <3>2. PICK e \in Collection :
            /\ e = Phase(asked, "details", Len(ids))
            /\ e.gen = asked.gen /\ e.cancelled = asked.cancelled /\ e.at = "details"
            /\ e.error = asked.error /\ e.ids = asked.ids /\ Len(e.jobs) = Len(ids)
            /\ \A i \in DOMAIN e.jobs : e.jobs[i] = "waiting"
      BY <1>3, <3>1, NextPhase
    <3>3. CollectionOK(e) BY <1>3, <3>2 DEF CollectionOK
    <3>. QED BY <1>3, <2>1, <3>2, <3>3
  <2>2. CASE kind # "runs"
    <3>1. DOMAIN asked.jobs = {} BY <1>3
    <3>2. CollectionOK(asked) BY <1>3, <3>1 DEF CollectionOK
    <3>. QED BY <1>3, <2>2, <3>2
  <2>. QED BY <2>1, <2>2
<1>5. PICK others : others = {[c EXCEPT !.cancelled = TRUE] : c \in collections} OBVIOUS
<1>6. \A c \in others : c \in Collection /\ CollectionOK(c) /\ c.gen <= summaries
  BY <1>5, OneCancelled
<1>7. /\ collections' = others \cup {d} /\ summaries' = gen
      /\ UNCHANGED <<exports, filed>> /\ report.modal = "none"
  BY <1>1, <1>2, <1>4, <1>5 DEF OpenSummary
<1>8. PICK new : new = [report EXCEPT !.gen = gen, !.modal = "report", !.pending = TRUE,
                          !.error = "none", !.text = NoSummary, !.subjects = {}] OBVIOUS
<1>9. /\ new \in Window /\ new.gen = gen /\ new.modal = "report"
      /\ new.text = NoSummary /\ new.subjects = {} /\ NoSummary.subjects = {}
  BY <1>0, <1>1, <1>8 DEF Window, SummaryTexts, NoSummary, SummaryErrors
<1>10. report' = new BY <1>1, <1>8 DEF OpenSummary
<1>11. \A c \in collections' : c \in Collection /\ CollectionOK(c) BY <1>4, <1>6, <1>7
<1>12. WindowOK'
  <2>1. \A c \in collections' : c.gen <= gen
    <3>1. \A c \in others : c.gen \in Nat BY <1>0, <1>6 DEF Collection
    <3>. QED BY <3>1, <1>1, <1>4, <1>6, <1>7
  <2>2. filed # NotFiled => filed.subject \in filed.text.subjects BY DEF SummariesInv, WindowOK
  <2>3. gen >= gen BY <1>1
  <2>. QED BY <2>1, <2>2, <2>3, <1>7, <1>9, <1>10 DEF WindowOK
<1>13. WaitingOK' BY <1>4, <1>7, <1>9, <1>10 DEF WaitingOK
<1>14. SummariesTypeOK'
  BY <1>0, <1>1, <1>7, <1>9, <1>10, <1>11 DEF SummariesInv, SummariesTypeOK, Collection, Window
<1>. QED BY <1>11, <1>12, <1>13, <1>14 DEF SummariesInv, CollectionOK, Stopped

(* Where only the window changes, and shows nothing new.                   *)
LEMMA WindowChanges ==
    ASSUME SummariesInv, NEW w \in Window, report' = w, w.gen \in {report.gen, report.gen + 1},
           w.text = report.text, w.subjects = report.subjects,
           w.pending => report.pending /\ w.gen = report.gen /\ w.modal = "report",
           exports' \subseteq Nat, UNCHANGED <<collections, filed, summaries>>
    PROVE  SummariesInv'
<1>1. WindowOK'
  <2>1. report.gen \in Nat /\ summaries \in Nat /\ report.gen >= summaries
    BY SummariesTypes, Numbers DEF SummariesInv, Window, WindowOK
  <2>2. w.gen >= summaries BY <2>1
  <2>. QED BY <2>2 DEF SummariesInv, WindowOK
<1>2. WaitingOK' BY DEF SummariesInv, WaitingOK
<1>3. SummariesTypeOK' BY DEF SummariesInv, SummariesTypeOK, Window
<1>. QED BY <1>1, <1>2, <1>3 DEF SummariesInv, CollectionOK, Stopped

LEMMA AcceptNext == ASSUME SummariesInv, NEW c \in collections, AcceptReport(c) PROVE SummariesInv'
<1>0. report \in Window /\ c \in Collection /\ CollectionOK(c) BY SummariesTypes, Collected DEF SummariesInv
<1>1. collections' = collections \ {c} /\ UNCHANGED <<exports, filed, summaries>>
  BY DEF AcceptReport
<1>2. \A x \in collections' : x \in Collection /\ CollectionOK(x) /\ x.gen <= summaries
  BY <1>1, Collected DEF SummariesInv, WindowOK
<1>3. CASE c.gen # report.gen
  <2>1. report' = report BY <1>3 DEF AcceptReport
  <2>2. WindowOK' BY <2>1, <1>1 DEF SummariesInv, WindowOK
  <2>3. WaitingOK' BY <2>1, <1>1, <1>3 DEF SummariesInv, WaitingOK
  <2>4. SummariesTypeOK' BY <2>1, <1>1 DEF SummariesInv, SummariesTypeOK
  <2>. QED BY <1>2, <2>2, <2>3, <2>4 DEF SummariesInv, CollectionOK, Stopped
<1>4. CASE c.gen = report.gen /\ c.error # "none"
  <2>1. PICK w : w = [report EXCEPT !.pending = FALSE, !.error = c.error] OBVIOUS
  <2>2. c.error \in SummaryErrors BY <1>0 DEF Collection
  <2>3. /\ w \in Window /\ w.gen = report.gen /\ w.pending = FALSE /\ w.text = report.text
        /\ w.subjects = report.subjects
    BY <1>0, <2>1, <2>2 DEF Window
  <2>4. report' = w BY <1>4, <2>1 DEF AcceptReport
  <2>5. WindowOK' /\ WaitingOK' BY <1>1, <2>3, <2>4 DEF SummariesInv, WindowOK, WaitingOK
  <2>6. SummariesTypeOK' BY <2>3, <2>4, <1>1 DEF SummariesInv, SummariesTypeOK, Window
  <2>. QED BY <1>2, <2>5, <2>6 DEF SummariesInv, CollectionOK, Stopped
<1>5. CASE c.gen = report.gen /\ c.error = "none"
  <2>1. PICK about \in SUBSET AllSubjects : about = Subjects(c)
    <3>1. c.ids \in Seq(SummaryRuns) BY <1>0 DEF Collection
    <3>2. \A i \in DOMAIN c.ids : c.ids[i] \in SummaryRuns BY <3>1, ElementOfSeq
    <3>. QED BY <3>2 DEF Subjects, AllSubjects
  <2>2. c.gen \in Nat /\ c.gen <= summaries /\ report.gen >= summaries /\ summaries \in Nat
    BY <1>0, SummariesTypes, Numbers DEF SummariesInv, WindowOK, Collection
  <2>3. c.gen = summaries BY <1>5, <2>2
  <2>4. PICK text : text = [gen |-> c.gen, subjects |-> about] OBVIOUS
  <2>5. text \in SummaryTexts /\ text.gen = summaries /\ text.subjects = about
    BY <2>1, <2>2, <2>3, <2>4 DEF SummaryTexts
  <2>6. PICK w : w = [report EXCEPT !.pending = FALSE, !.subjects = about, !.text = text]
    OBVIOUS
  <2>7. /\ w \in Window /\ w.gen = report.gen /\ w.pending = FALSE /\ w.text = text
        /\ w.subjects = about
    BY <1>0, <2>5, <2>6 DEF Window
  <2>8. report' = w BY <1>5, <2>1, <2>4, <2>6 DEF AcceptReport
  <2>9. WindowOK' BY <1>1, <2>5, <2>7, <2>8 DEF SummariesInv, WindowOK
  <2>10. WaitingOK' BY <2>7, <2>8 DEF WaitingOK
  <2>11. SummariesTypeOK' BY <2>7, <2>8, <1>1 DEF SummariesInv, SummariesTypeOK, Window
  <2>. QED BY <1>2, <2>9, <2>10, <2>11 DEF SummariesInv, CollectionOK, Stopped
<1>. QED BY <1>3, <1>4, <1>5

(* Leaving and cancelling: the window no longer waits.                     *)
LEMMA WaitingEnds ==
    ASSUME SummariesInv, NEW w \in Window, report' = w, w.gen = report.gen + 1, w.pending = FALSE,
           w.text = report.text, w.subjects = report.subjects,
           CancelAll \/ UNCHANGED collections,
           filed' \in {filed, NotFiled}, UNCHANGED <<exports, summaries>>
    PROVE  SummariesInv'
<1>1. \A c \in collections' : c \in Collection /\ CollectionOK(c) /\ c.gen <= summaries
  BY AllCancelled, Collected DEF SummariesInv, WindowOK
<1>2. WindowOK'
  <2>1. report.gen \in Nat /\ summaries \in Nat /\ report.gen >= summaries
    BY SummariesTypes, Numbers DEF SummariesInv, Window, WindowOK
  <2>2. w.gen >= summaries BY <2>1
  <2>. QED BY <1>1, <2>2 DEF SummariesInv, WindowOK
<1>3. WaitingOK' BY DEF WaitingOK
<1>4. NotFiled \in [text : SummaryTexts, subject : AllSubjects]
  BY DEF NotFiled, NoSummary, SummaryTexts, AllSubjects
<1>5. SummariesTypeOK' BY <1>1, <1>4 DEF SummariesInv, SummariesTypeOK, Window, Collection
<1>. QED BY <1>1, <1>2, <1>3, <1>5 DEF SummariesInv, CollectionOK, Stopped

LEMMA LeftWindow ==
    ASSUME SummariesInv
    PROVE  /\ ClosedReport \in Window /\ ClosedReport.gen = report.gen + 1
           /\ ClosedReport.pending = FALSE /\ ClosedReport.text = report.text
           /\ ClosedReport.subjects = report.subjects
<1>0. report \in Window BY SummariesTypes DEF SummariesInv
<1>1. PICK gen \in Nat : gen = report.gen + 1 BY <1>0 DEF Window
<1>2. PICK w : w = [report EXCEPT !.modal = "none", !.gen = gen, !.pending = FALSE] OBVIOUS
<1>3. /\ w \in Window /\ w.gen = gen /\ w.pending = FALSE /\ w.text = report.text
      /\ w.subjects = report.subjects
  BY <1>0, <1>2 DEF Window
<1>4. w = ClosedReport BY <1>1, <1>2 DEF ClosedReport
<1>. QED BY <1>1, <1>3, <1>4

LEMMA LeaveNext == ASSUME SummariesInv, LeaveReport PROVE SummariesInv'
BY LeftWindow, WaitingEnds DEF LeaveReport

LEMMA LeaveJournalNext == ASSUME SummariesInv, LeaveJournal PROVE SummariesInv'
BY LeftWindow, WaitingEnds DEF LeaveJournal

LEMMA CancelNext == ASSUME SummariesInv, CancelReport PROVE SummariesInv'
<1>0. report \in Window BY SummariesTypes DEF SummariesInv
<1>1. PICK gen \in Nat : gen = report.gen + 1 BY <1>0 DEF Window
<1>2. PICK w : w = [report EXCEPT !.gen = gen, !.pending = FALSE, !.error = "cancelled"] OBVIOUS
<1>3. /\ w \in Window /\ w.gen = gen /\ w.pending = FALSE /\ w.text = report.text
      /\ w.subjects = report.subjects
  BY <1>0, <1>2 DEF Window, SummaryErrors
<1>4. report' = w /\ CancelAll /\ UNCHANGED <<exports, filed, summaries>>
  BY <1>1, <1>2 DEF CancelReport
<1>. QED BY <1>1, <1>3, <1>4, WaitingEnds

(* Other windows over the report.                                          *)
LEMMA ShownOver ==
    ASSUME SummariesInv, NEW modal \in {"none", "report", "export", "journal"}
    PROVE  \E w \in Window :
             /\ w = [report EXCEPT !.modal = modal]
             /\ w.modal = modal /\ w.gen = report.gen /\ w.text = report.text
             /\ w.subjects = report.subjects /\ w.pending = report.pending
<1>0. report \in Window BY SummariesTypes DEF SummariesInv
<1>1. PICK w : w = [report EXCEPT !.modal = modal] OBVIOUS
<1>2. /\ w \in Window /\ w.modal = modal /\ w.gen = report.gen /\ w.text = report.text
      /\ w.subjects = report.subjects /\ w.pending = report.pending
  BY <1>0, <1>1 DEF Window
<1>. QED BY <1>1, <1>2

LEMMA ExportSteps ==
    ASSUME SummariesInv, \/ OpenExport \/ LeaveExport \/ ExportReport
                \/ \E gen \in exports : AcceptExported(gen)
    PROVE  SummariesInv'
<1>0. report \in Window /\ exports \subseteq Nat BY SummariesTypes DEF SummariesInv
<1>1. CASE OpenExport
  <2>1. ~report.pending BY <1>1 DEF OpenExport, SummariesInv, WaitingOK
  <2>. QED BY <1>0, <1>1, <2>1, ShownOver, WindowChanges DEF OpenExport
<1>2. CASE LeaveExport
  <2>1. ~report.pending BY <1>2 DEF LeaveExport, SummariesInv, WaitingOK
  <2>. QED BY <1>0, <1>2, <2>1, ShownOver, WindowChanges DEF LeaveExport
<1>3. CASE ExportReport
  <2>1. exports' \subseteq Nat /\ report' = report BY <1>0, <1>3 DEF ExportReport, Window
  <2>2. report.pending => report.modal = "report" BY DEF SummariesInv, WaitingOK
  <2>. QED BY <1>0, <1>3, <2>1, <2>2, WindowChanges DEF ExportReport
<1>4. ASSUME NEW gen \in exports, AcceptExported(gen) PROVE SummariesInv'
  <2>1. exports' \subseteq Nat /\ UNCHANGED <<collections, filed, summaries>>
    BY <1>0, <1>4 DEF AcceptExported
  <2>2. report.pending => report.modal = "report" BY DEF SummariesInv, WaitingOK
  <2>3. CASE report' = report BY <1>0, <2>1, <2>2, <2>3, WindowChanges
  <2>4. CASE report' = [report EXCEPT !.modal = "report"]
    BY <2>1, <2>2, <2>4, ShownOver, WindowChanges
  <2>. QED BY <1>4, <2>3, <2>4 DEF AcceptExported
<1>. QED BY <1>1, <1>2, <1>3, <1>4

LEMMA FileNext == ASSUME SummariesInv, NEW s \in report.subjects, FileReport(s) PROVE SummariesInv'
<1>0. report \in Window BY SummariesTypes DEF SummariesInv
<1>1. report.modal = "report" /\ report.text # NoSummary /\ UNCHANGED <<collections, exports, summaries>>
  BY DEF FileReport
<1>2. ~report.pending /\ s \in report.text.subjects BY <1>1 DEF SummariesInv, WaitingOK, WindowOK
<1>3. PICK w \in Window :
        /\ w = [report EXCEPT !.modal = "journal"]
        /\ w.modal = "journal" /\ w.gen = report.gen /\ w.text = report.text
        /\ w.subjects = report.subjects /\ w.pending = report.pending
  BY ShownOver
<1>4. report' = w BY <1>3 DEF FileReport
<1>5. PICK f \in [text : SummaryTexts, subject : AllSubjects] :
        f = [text |-> report.text, subject |-> s]
  BY <1>0 DEF Window
<1>6. f.subject \in f.text.subjects BY <1>2, <1>5
<1>7. filed' = f BY <1>5 DEF FileReport
<1>8. WindowOK' BY <1>1, <1>3, <1>4, <1>6, <1>7 DEF SummariesInv, WindowOK
<1>9. WaitingOK' BY <1>2, <1>3, <1>4 DEF WaitingOK
<1>10. SummariesTypeOK' BY <1>1, <1>3, <1>4, <1>5, <1>7 DEF SummariesInv, SummariesTypeOK, Window
<1>. QED BY <1>1, <1>8, <1>9, <1>10 DEF SummariesInv, CollectionOK, Stopped

-----------------------------------------------------------------------------
(* All steps.                                                              *)

LEMMA SummariesInvInit == SummariesInit => SummariesInv
<1>. SUFFICES ASSUME SummariesInit PROVE SummariesInv OBVIOUS
<1>1. NoSummary \in SummaryTexts /\ NoSummary.subjects = {} BY DEF NoSummary, SummaryTexts
<1>2. report \in Window BY <1>1 DEF SummariesInit, Window, SummaryErrors
<1>3. filed \in [text : SummaryTexts, subject : AllSubjects]
  BY <1>1 DEF SummariesInit, NotFiled, AllSubjects
<1>4. SummariesTypeOK BY <1>2, <1>3, SummariesTypes, Numbers DEF SummariesInit
<1>5. WindowOK /\ WaitingOK BY <1>1 DEF SummariesInit, WindowOK, WaitingOK
<1>. QED BY <1>4, <1>5 DEF SummariesInv, SummariesInit

LEMMA SummariesInvNext == ASSUME SummariesInv, [SummariesNext]_summaryVars PROVE SummariesInv'
<1>1. CASE OpenSummary("experiment", <<>>)
  <2>1. <<>> \in Seq(SummaryRuns) BY EmptySeq
  <2>. QED BY <1>1, <2>1, OpenNext
<1>2. ASSUME NEW ids \in {RunsInOrder, SubSeq(RunsInOrder, 1, 1)}, OpenSummary("runs", ids)
      PROVE  SummariesInv'
  <2>1. Len(RunsInOrder) \in Nat /\ Len(RunsInOrder) # 0 BY Numbers, LenProperties
  <2>2. RunsInOrder[1] \in SummaryRuns BY <2>1, Numbers, ElementOfSeq
  <2>3. SubSeq(RunsInOrder, 1, 1) \in Seq(SummaryRuns) BY <2>2, SubSeqProperties
  <2>. QED BY <1>2, <2>3, Numbers, OpenNext
<1>3. ASSUME NEW c \in collections,
             \/ EndPhase(c) \/ FailCollection(c) \/ FindExperiment(c) \/ ReadRunPage(c)
             \/ ReadNotes(c) \/ AcceptReport(c)
             \/ \E i \in DOMAIN c.jobs : TakeJob(c, i) \/ SkipJob(c, i) \/ EndJob(c, i)
      PROVE  SummariesInv'
  BY <1>3, PhaseEndNext, FailNext, FindNext, PageNext, NotesNext, AcceptNext, TakeNext, SkipNext,
     EndNext
<1>4. CASE LeaveReport BY <1>4, LeaveNext
<1>5. CASE CancelReport BY <1>5, CancelNext
<1>6. CASE LeaveJournal BY <1>6, LeaveJournalNext
<1>7. CASE OpenExport \/ LeaveExport \/ ExportReport \/ \E gen \in exports : AcceptExported(gen)
  BY <1>7, ExportSteps
<1>8. ASSUME NEW s \in report.subjects, FileReport(s) PROVE SummariesInv' BY <1>8, FileNext
<1>9. CASE UNCHANGED summaryVars
  BY <1>9 DEF summaryVars, SummariesInv, SummariesTypeOK, CollectionOK, Stopped, WindowOK, WaitingOK
<1>. QED BY <1>1, <1>2, <1>3, <1>4, <1>5, <1>6, <1>7, <1>8, <1>9 DEF SummariesNext

LEMMA InvIsWhole == ASSUME SummariesInv PROVE SummariesAreWhole
<1>1. ASSUME NEW c \in collections, c.at = "answered", c.error = "none"
      PROVE  Len(c.jobs) = Len(c.ids) * Len(Sections) /\ Jobs(c, {"done", "warned"}) = DOMAIN c.jobs
  BY <1>1, Collected DEF CollectionOK, Jobs
<1>2. ASSUME NEW c \in collections, c.error = "cancelled" PROVE c.cancelled
  BY <1>2, Collected DEF CollectionOK
<1>3. CollectionsAreWhole BY <1>1, <1>2 DEF CollectionsAreWhole
<1>4. ReportsAreAsked BY DEF SummariesInv, WindowOK, WaitingOK, ReportsAreAsked
<1>. QED BY <1>3, <1>4 DEF SummariesAreWhole

(* Where collections, window and what is filed stay within their types.    *)
THEOREM SummariesTypeCorrect == SummariesSpec => []SummariesTypeOK
<1>1. SummariesInv => SummariesTypeOK BY DEF SummariesInv
<1>. QED BY <1>1, SummariesInvInit, SummariesInvNext, PTL DEF SummariesSpec

(* SummariesAreWhole: what is answered without an error answers for every  *)
(* section of every run, whatever failed or was cancelled beside it; what  *)
(* is called cancelled was; and the window waits for, shows and files what *)
(* was asked for last.                                                     *)
THEOREM SummariesAreAlwaysWhole == SummariesSpec => []SummariesAreWhole
<1>1. SummariesInv => SummariesAreWhole BY InvIsWhole
<1>. QED BY <1>1, SummariesInvInit, SummariesInvNext, PTL DEF SummariesSpec
=============================================================================

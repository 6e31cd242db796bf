--------------------------- MODULE ActivityScreen ---------------------------
(***************************************************************************)
(* What a terminal shows of a source's activity (internal/tui/activity.go).*)
(* Snapshots reach its event loop from the first load, polls, full scans   *)
(* and its own changes, in any order and beside other clients of the same  *)
(* store.  The store is reduced to what snapshots tell apart, its version  *)
(* and how far a run's revisions are read; ActivityStore has the rest, and *)
(* ActivityRefresh the requests of a scan.  What a cancelled scan still    *)
(* commits is another client's commit.                                     *)
(***************************************************************************)
EXTENDS Naturals, FiniteSets

CONSTANTS
    TrackedRuns,
    Changes,       \* names for changes under way
    MaxVersion     \* bound: transactions of the store

ASSUME ActivityScreenAssumption == MaxVersion \in Nat

VARIABLES
    inbox,         \* the store: its version and records
    seen,          \* activityState: the snapshot shown and what is pending
    scan,          \* what "load", "fast" and "full" are up to
    change         \* read receipts on their way

screenVars == <<inbox, seen, scan, change>>

ScanKinds == {"load", "fast", "full"}

Record == [revision : 0..MaxVersion, read : 0..MaxVersion]
Snapshot == [version : 0..MaxVersion, records : [TrackedRuns -> Record]]
Scan == [stage : {"none", "asked", "progress", "done", "failed"}, snapshot : Snapshot]
Change == [stage : {"none", "asked", "marked", "done", "failed"},
           receipts : [TrackedRuns -> 0..MaxVersion], snapshot : Snapshot]

NoSnapshot == [version |-> 0, records |-> [r \in TrackedRuns |-> [revision |-> 0, read |-> 0]]]
NoScan == [stage |-> "none", snapshot |-> NoSnapshot]
NoChange == [stage |-> "none", receipts |-> [r \in TrackedRuns |-> 0], snapshot |-> NoSnapshot]

ScreenInit ==
    /\ inbox = NoSnapshot
    /\ seen = [loaded |-> FALSE, pending |-> [k \in ScanKinds |-> FALSE], snapshot |-> NoSnapshot]
    /\ scan = [k \in ScanKinds |-> NoScan]
    /\ change = [c \in Changes |-> NoChange]

-----------------------------------------------------------------------------
(* The store.                                                              *)

MayCommitInbox == inbox.version < MaxVersion
Commit(records) == inbox' = [version |-> inbox.version + 1, records |-> records]

(* A scan finds news of some runs, or none.                                *)
CommitScan ==
    /\ MayCommitInbox
    /\ \E news \in SUBSET TrackedRuns :
         Commit([r \in TrackedRuns |->
                   IF r \in news THEN [inbox.records[r] EXCEPT !.revision = @ + 1]
                   ELSE inbox.records[r]])

MarkRead(receipts) ==
    /\ inbox.version # 0 /\ MayCommitInbox
    /\ Commit([r \in TrackedRuns |->
                 LET record == inbox.records[r] IN
                 [record EXCEPT !.read =
                    IF receipts[r] > @ /\ receipts[r] <= record.revision THEN receipts[r] ELSE @]])

OtherClientOfInbox ==
    /\ CommitScan \/ MarkRead([r \in TrackedRuns |-> inbox.records[r].revision])
    /\ UNCHANGED <<seen, scan, change>>

-----------------------------------------------------------------------------
(* Scans: loadActivity and refreshActivityLimit.                           *)

StartScan(k) ==
    /\ scan' = [scan EXCEPT ![k] = [NoScan EXCEPT !.stage = "asked"]]
    /\ seen' = [seen EXCEPT !.pending[k] = TRUE]

(* A tick, opening a list, a setting, a first full scan.                   *)
RefreshActivity(k) ==
    /\ k = "load" <=> ~seen.loaded
    /\ ~seen.pending[k]
    /\ StartScan(k)
    /\ UNCHANGED <<inbox, change>>

(* refreshActivityManually cancels the poll under way.                     *)
RefreshActivityManually ==
    /\ seen.loaded
    /\ StartScan("fast")
    /\ UNCHANGED <<inbox, change>>

LoadFromInbox ==
    /\ scan["load"].stage = "asked"
    /\ scan' = [scan EXCEPT !["load"] = [stage |-> "done", snapshot |-> inbox]]
    /\ UNCHANGED <<inbox, seen, change>>

(* Every transaction of a scan is reported, the last one as done.          *)
ScanStores(k) ==
    /\ k # "load" /\ scan[k].stage = "asked"
    /\ CommitScan
    /\ \E stage \in {"progress", "done"} :
         scan' = [scan EXCEPT ![k] = [stage |-> stage, snapshot |-> inbox']]
    /\ UNCHANGED <<seen, change>>

ScanFails(k) ==
    /\ scan[k].stage = "asked"
    /\ scan' = [scan EXCEPT ![k].stage = "failed"]
    /\ UNCHANGED <<inbox, seen, change>>

NonePending == [k \in ScanKinds |-> FALSE]

(* stopActivity, and every way to leave the target.                        *)
StopActivity ==
    /\ \E k \in ScanKinds : seen.pending[k]
    /\ scan' = [k \in ScanKinds |-> NoScan]
    /\ seen' = [seen EXCEPT !.pending = NonePending]
    /\ UNCHANGED <<inbox, change>>

-----------------------------------------------------------------------------
(* acceptActivitySnapshot.                                                 *)

(* Mutant: snapshots are taken as they come. *)
AnyNewer(snapshot) == snapshot.version # 0

Newer(snapshot) == seen.snapshot.version = 0 \/ snapshot.version > seen.snapshot.version

Shown(snapshot) == IF Newer(snapshot) THEN snapshot ELSE seen.snapshot

(* activityScanMsg: after a report the scan goes on.                       *)
AcceptScan(k) ==
    LET done == scan[k].stage = "done" IN
    /\ k # "load" /\ scan[k].stage \in {"progress", "done"}
    /\ scan' = [scan EXCEPT ![k] = IF done THEN NoScan ELSE [NoScan EXCEPT !.stage = "asked"]]
    /\ seen' = [seen EXCEPT !.snapshot = Shown(scan[k].snapshot), !.pending[k] = ~done]
    /\ UNCHANGED <<inbox, change>>

(* activityLoadedMsg: a poll follows a load.                               *)
AcceptLoad ==
    /\ scan["load"].stage = "done"
    /\ scan' = [scan EXCEPT !["load"] = NoScan, !["fast"] = [NoScan EXCEPT !.stage = "asked"]]
    /\ seen' = [seen EXCEPT !.loaded = TRUE, !.snapshot = Shown(scan["load"].snapshot),
                   !.pending = [@ EXCEPT !["load"] = FALSE, !["fast"] = TRUE]]
    /\ UNCHANGED <<inbox, change>>

AcceptFailedScan(k) ==
    /\ scan[k].stage = "failed"
    /\ scan' = [scan EXCEPT ![k] = NoScan]
    /\ seen' = [seen EXCEPT !.pending[k] = FALSE]
    /\ UNCHANGED <<inbox, change>>

-----------------------------------------------------------------------------
(* Read receipts: changeActivity and activityChangedMsg.                   *)

ReadRuns(c, runs) ==
    LET records == seen.snapshot.records
        unread == {r \in runs : records[r].revision > records[r].read} IN
    /\ change[c].stage = "none" /\ unread # {}
    /\ change' = [change EXCEPT ![c] =
         [NoChange EXCEPT !.stage = "asked",
            !.receipts = [r \in TrackedRuns |-> IF r \in unread THEN records[r].revision ELSE 0]]]
    /\ UNCHANGED <<inbox, seen, scan>>

(* The mark, then a load of its own; a selection that its policy does not  *)
(* count as reading ends silently.                                         *)
PerformChange(c) ==
    /\ \/ /\ change[c].stage = "asked"
          /\ MarkRead(change[c].receipts)
          /\ change' = [change EXCEPT ![c].stage = "marked"]
       \/ /\ change[c].stage = "marked"
          /\ change' = [change EXCEPT ![c].stage = "done", ![c].snapshot = inbox]
          /\ UNCHANGED inbox
       \/ /\ change[c].stage \in {"asked", "marked"}
          /\ change' = [change EXCEPT ![c] = [NoChange EXCEPT !.stage = "failed"]]
          /\ UNCHANGED inbox
    /\ UNCHANGED <<seen, scan>>

AcceptChange(c) ==
    /\ change[c].stage \in {"done", "failed"}
    /\ seen' = IF change[c].stage = "done"
               THEN [seen EXCEPT !.snapshot = Shown(change[c].snapshot)] ELSE seen
    /\ change' = [change EXCEPT ![c] = NoChange]
    /\ UNCHANGED <<inbox, scan>>

ScreenNext ==
    \/ OtherClientOfInbox \/ LoadFromInbox \/ AcceptLoad \/ StopActivity \/ RefreshActivityManually
    \/ \E k \in ScanKinds :
         RefreshActivity(k) \/ ScanStores(k) \/ ScanFails(k) \/ AcceptScan(k) \/ AcceptFailedScan(k)
    \/ \E c \in Changes :
         PerformChange(c) \/ AcceptChange(c) \/ \E runs \in SUBSET TrackedRuns : ReadRuns(c, runs)

ScreenSpec == ScreenInit /\ [][ScreenNext]_screenVars

-----------------------------------------------------------------------------
(* Properties.                                                             *)

ScreenTypeOK ==
    /\ inbox \in Snapshot
    /\ seen \in [loaded : BOOLEAN, pending : [ScanKinds -> BOOLEAN], snapshot : Snapshot]
    /\ scan \in [ScanKinds -> Scan] /\ change \in [Changes -> Change]

(* What is said to be under way is: a refresh is never refused because of  *)
(* a scan that nobody will answer.                                         *)
PendingIsScanned == \A k \in ScanKinds : seen.pending[k] => scan[k].stage # "none"

(* What is shown as read stays read, and what this terminal has marked is  *)
(* shown as read from its answer on, whichever snapshots overtake it.      *)
ReadStaysRead ==
    [][\A r \in TrackedRuns :
         /\ seen'.snapshot.records[r].read >= seen.snapshot.records[r].read
         /\ \A c \in Changes : change[c].stage = "done" /\ change'[c].stage = "none" =>
              seen'.snapshot.records[r].read >= change[c].receipts[r]]_screenVars

(* Snapshots and scans that overtake each other neither bring news back    *)
(* nor leave a scan that is waited for in vain.                            *)
ScreenKeepsUp == []PendingIsScanned /\ ReadStaysRead
=============================================================================

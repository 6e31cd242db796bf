------------------------------ MODULE Summaries ------------------------------
(***************************************************************************)
(* Summaries of runs and experiments: the collector (internal/inspection)  *)
(* that asks for many things with a few workers, all of which one failure  *)
(* or the user may stop, and the window of a terminal that shows, exports  *)
(* and files what was collected (internal/tui/workspace_summary.go).       *)
(*                                                                         *)
(* What the sections hold and how they are rendered is left out.           *)
(***************************************************************************)
EXTENDS Naturals, Sequences, FiniteSets, Rows

CONSTANTS
    RunsInOrder,   \* the runs of the experiment and of a comparison, in their order
    Sections,      \* what is asked for of a run besides its metadata, in this order
    Workers,       \* workers of a parallel phase
    DetailLimit,   \* runs of an experiment that are asked for in detail
    MaxSummaries,  \* bound: summaries
    MaxPages       \* bound: pages of an experiment's runs

ASSUME SummaryAssumption ==
    /\ Workers \in Nat \ {0} /\ DetailLimit \in Nat \ {0}
    /\ MaxSummaries \in Nat /\ MaxPages \in Nat
    /\ RunsInOrder \in Seq({RunsInOrder[i] : i \in DOMAIN RunsInOrder}) /\ RunsInOrder # <<>>
    /\ Sections \in Seq({Sections[i] : i \in DOMAIN Sections})

SummaryRuns == {RunsInOrder[i] : i \in DOMAIN RunsInOrder}
Experiment == "experiment"

VARIABLES
    collections,  \* calls of the collector whose answer is not handled yet
    report,       \* the window: reportGen, modal, reportPending, reportErr, reportText...
    exports,      \* the file being written, named by the number it answers to
    filed,        \* what is being put into a journal, and into whose
    summaries     \* m.seq: summaries so far

summaryVars == <<collections, report, exports, filed, summaries>>

Phases == {"experiment", "pages", "details", "sections", "notes", "answered"}
JobStates == {"waiting", "running", "done", "warned", "failed", "cancelled", "skipped"}
SummaryErrors == {"none", "failed", "cancelled"}

NoSummary == [gen |-> 0, subjects |-> {}]

NotFiled == [text |-> NoSummary, subject |-> Experiment]

SummariesInit ==
    /\ collections = {} /\ exports = {} /\ filed = NotFiled
    /\ report = [gen |-> 0, modal |-> "none", pending |-> FALSE, error |-> "none",
                 text |-> NoSummary, subjects |-> {}]
    /\ summaries = 0

-----------------------------------------------------------------------------
(* parallel: the jobs are handed out in their order, until one fails or    *)
(* the caller cancels.                                                     *)

Progress(c, d) ==
    /\ collections' = (collections \ {c}) \cup {d}
    /\ UNCHANGED <<report, exports, filed, summaries>>

Jobs(c, states) == {i \in DOMAIN c.jobs : c.jobs[i] \in states}
Stopping(c) == c.cancelled \/ Jobs(c, {"failed"}) # {}
NextJob(c, i) == i \in Jobs(c, {"waiting"}) /\ \A j \in 1..(i - 1) : c.jobs[j] # "waiting"

TakeJob(c, i) ==
    /\ NextJob(c, i) /\ ~Stopping(c) /\ Cardinality(Jobs(c, {"running"})) < Workers
    /\ Progress(c, [c EXCEPT !.jobs[i] = "running"])

(* Not handed out, or put aside by the worker that got it.                 *)
SkipJob(c, i) ==
    /\ NextJob(c, i) /\ Stopping(c)
    /\ Progress(c, [c EXCEPT !.jobs[i] = "skipped"])

(* A run that is not found ends the phase; a section that is not, the user *)
(* is warned of.                                                           *)
EndJob(c, i) ==
    /\ i \in Jobs(c, {"running"})
    /\ \E state \in
            IF c.at = "details"
            THEN {"done", "failed"} \cup IF Stopping(c) THEN {"cancelled"} ELSE {}
            ELSE IF Stopping(c) THEN {"cancelled"} ELSE {"done", "warned"} :
          Progress(c, [c EXCEPT !.jobs[i] = state])

(* Mutant: the first error is reported, whatever it is. *)
FirstOutcome(c) ==
    IF c.cancelled THEN "cancelled"
    ELSE LET bad == Jobs(c, {"failed", "cancelled"}) IN
         IF bad = {} THEN "none" ELSE c.jobs[CHOOSE i \in bad : \A j \in bad : i <= j]

(* A failure rather than what was cancelled because of it.                 *)
Outcome(c) ==
    IF c.cancelled THEN "cancelled"
    ELSE IF Jobs(c, {"failed"}) # {} THEN "failed"
    ELSE IF Jobs(c, {"cancelled"}) # {} THEN "cancelled" ELSE "none"

Phase(c, at, n) == [c EXCEPT !.at = at, !.jobs = [i \in 1..n |-> "waiting"]]
AnsweredWith(c, error) == [c EXCEPT !.at = "answered", !.error = error]

(* It waits for its workers.                                               *)
EndPhase(c) ==
    /\ c.at \in {"details", "sections"} /\ Jobs(c, {"waiting", "running"}) = {}
    /\ Progress(c,
         IF Outcome(c) # "none" THEN AnsweredWith(c, Outcome(c))
         ELSE IF c.at = "details" THEN Phase(c, "sections", Len(c.ids) * Len(Sections))
         ELSE IF c.kind = "runs" THEN AnsweredWith(c, "none") ELSE [c EXCEPT !.at = "notes"])

-----------------------------------------------------------------------------
(* CollectExperiment, around its two phases.                               *)

FailCollection(c) ==
    /\ c.at \in {"experiment", "pages"}
    /\ \E error \in {"failed"} \cup IF c.cancelled THEN {"cancelled"} ELSE {} :
          Progress(c, AnsweredWith(c, error))

FindExperiment(c) ==
    /\ c.at = "experiment" /\ ~c.cancelled
    /\ Progress(c, [c EXCEPT !.at = "pages"])

New(c, page) == Among(page, SummaryRuns \ {c.ids[i] : i \in DOMAIN c.ids})
InDetail(ids) == SubSeq(ids, 1, IF Len(ids) < DetailLimit THEN Len(ids) ELSE DetailLimit)

(* Runs may come to the front and push others to the next page.            *)
ReadRunPage(c) ==
    /\ c.at = "pages" /\ ~c.cancelled
    /\ \E page \in {<<>>, RunsInOrder, Tail(RunsInOrder)}, more \in BOOLEAN :
          LET ids == c.ids \o New(c, page) IN
          IF more THEN /\ c.pages < MaxPages
                       /\ Progress(c, [c EXCEPT !.ids = ids, !.pages = @ + 1])
          ELSE Progress(c, Phase([c EXCEPT !.ids = InDetail(ids)], "details", Len(InDetail(ids))))

(* Its notes may be missing; a cancellation is noticed.                    *)
ReadNotes(c) ==
    /\ c.at = "notes"
    /\ Progress(c, AnsweredWith(c, IF c.cancelled THEN "cancelled" ELSE "none"))

-----------------------------------------------------------------------------
(* The window.                                                             *)

CancelAll == collections' = {[c EXCEPT !.cancelled = TRUE] : c \in collections}

OpenSummary(kind, ids) ==
    LET asked == [gen |-> summaries + 1, kind |-> kind, ids |-> ids, pages |-> 1,
                  at |-> "experiment", jobs |-> <<>>, error |-> "none", cancelled |-> FALSE] IN
    /\ report.modal = "none" /\ summaries < MaxSummaries
    /\ summaries' = summaries + 1
    /\ report' = [report EXCEPT !.gen = summaries', !.modal = "report", !.pending = TRUE,
                    !.error = "none", !.text = NoSummary, !.subjects = {}]
    /\ collections' = {[c EXCEPT !.cancelled = TRUE] : c \in collections} \cup
         {IF kind = "runs" THEN Phase(asked, "details", Len(ids)) ELSE asked}
    /\ UNCHANGED <<exports, filed>>

Subjects(c) == IF c.kind = "runs" THEN {c.ids[i] : i \in DOMAIN c.ids} ELSE {Experiment}

AcceptReport(c) ==
    /\ c.at = "answered" /\ collections' = collections \ {c}
    /\ report' = IF c.gen # report.gen THEN report
                 ELSE IF c.error # "none"
                 THEN [report EXCEPT !.pending = FALSE, !.error = c.error]
                 ELSE [report EXCEPT !.pending = FALSE, !.subjects = Subjects(c),
                         !.text = [gen |-> c.gen, subjects |-> Subjects(c)]]
    /\ UNCHANGED <<exports, filed, summaries>>

ClosedReport == [report EXCEPT !.modal = "none", !.gen = @ + 1, !.pending = FALSE]

LeaveReport ==
    /\ report.modal = "report" /\ report' = ClosedReport
    /\ IF report.pending THEN CancelAll ELSE UNCHANGED collections
    /\ UNCHANGED <<exports, filed, summaries>>

(* Ctrl+X, also when there is nothing to cancel.                           *)
CancelReport ==
    /\ report.modal = "report" /\ report.gen <= MaxSummaries
    /\ report' = [report EXCEPT !.gen = @ + 1, !.pending = FALSE, !.error = "cancelled"]
    /\ CancelAll
    /\ UNCHANGED <<exports, filed, summaries>>

OpenExport ==
    /\ report.modal = "report" /\ report.text # NoSummary
    /\ report' = [report EXCEPT !.modal = "export"]
    /\ UNCHANGED <<collections, exports, filed, summaries>>

LeaveExport ==
    /\ report.modal = "export" /\ report' = [report EXCEPT !.modal = "report"]
    /\ UNCHANGED <<collections, exports, filed, summaries>>

ExportReport ==
    /\ report.modal = "export" /\ exports = {} /\ exports' = {report.gen}
    /\ UNCHANGED <<collections, report, filed, summaries>>

(* Written, it brings the report back over whatever is open; a file that   *)
(* exists is an error.                                                     *)
AcceptExported(gen) ==
    /\ gen \in exports /\ exports' = exports \ {gen}
    /\ \/ UNCHANGED report
       \/ gen = report.gen /\ report' = [report EXCEPT !.modal = "report"]
    /\ UNCHANGED <<collections, filed, summaries>>

(* n: into the journal of one of the subjects.                             *)
FileReport(s) ==
    /\ report.modal = "report" /\ report.text # NoSummary /\ s \in report.subjects
    /\ report' = [report EXCEPT !.modal = "journal"]
    /\ filed' = [text |-> report.text, subject |-> s]
    /\ UNCHANGED <<collections, exports, summaries>>

LeaveJournal ==
    /\ report.modal = "journal" /\ report' = ClosedReport /\ filed' = NotFiled
    /\ UNCHANGED <<collections, exports, summaries>>

SummariesNext ==
    \/ OpenSummary("experiment", <<>>)
    \/ \E ids \in {RunsInOrder, SubSeq(RunsInOrder, 1, 1)} : OpenSummary("runs", ids)
    \/ \E c \in collections :
          \/ EndPhase(c) \/ FailCollection(c) \/ FindExperiment(c) \/ ReadRunPage(c) \/ ReadNotes(c)
          \/ AcceptReport(c)
          \/ \E i \in DOMAIN c.jobs : TakeJob(c, i) \/ SkipJob(c, i) \/ EndJob(c, i)
    \/ LeaveReport \/ CancelReport
    \/ OpenExport \/ LeaveExport \/ ExportReport \/ LeaveJournal
    \/ \E gen \in exports : AcceptExported(gen)
    \/ \E s \in report.subjects : FileReport(s)

SummariesSpec == SummariesInit /\ [][SummariesNext]_summaryVars

-----------------------------------------------------------------------------
(* Properties.                                                             *)

AllSubjects == SummaryRuns \cup {Experiment}
SummaryTexts == [gen : Nat, subjects : SUBSET AllSubjects]

SummariesTypeOK ==
    /\ collections \subseteq
         [gen : 1..MaxSummaries, kind : {"runs", "experiment"}, ids : Seq(SummaryRuns),
          pages : Nat, at : Phases, jobs : Seq(JobStates), error : SummaryErrors,
          cancelled : BOOLEAN]
    /\ report \in [gen : Nat, modal : {"none", "report", "export", "journal"},
                   pending : BOOLEAN, error : SummaryErrors, text : SummaryTexts,
                   subjects : SUBSET AllSubjects]
    /\ exports \subseteq Nat /\ filed \in [text : SummaryTexts, subject : AllSubjects]
    /\ summaries \in 0..MaxSummaries

(* What is answered without an error has an answer or a warning for every  *)
(* section of every run; what is called cancelled was cancelled by its     *)
(* user, not by a failure beside it.                                       *)
CollectionsAreWhole ==
    \A c \in collections : c.at = "answered" =>
        /\ c.error = "none" => Len(c.jobs) = Len(c.ids) * Len(Sections)
                               /\ Jobs(c, {"done", "warned"}) = DOMAIN c.jobs
        /\ c.error = "cancelled" => c.cancelled

(* A window that waits will hear; what it shows is what was asked for last *)
(* and what goes into a journal is about its subject.                      *)
ReportsAreAsked ==
    /\ report.pending => \E c \in collections : c.gen = report.gen /\ ~c.cancelled
    /\ report.modal \in {"report", "export"} /\ report.text # NoSummary =>
         report.text.gen = summaries
    /\ filed # NotFiled => filed.subject \in filed.text.subjects

SummariesAreWhole == CollectionsAreWhole /\ ReportsAreAsked
=============================================================================

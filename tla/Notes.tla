------------------------------- MODULE Notes -------------------------------
(***************************************************************************)
(* Local notes: the SQLite table that every process shares                 *)
(* (internal/localstate/notes.go) and the journal and report windows of    *)
(* several terminals (internal/tui/workspace_notes.go and                  *)
(* workspace_summary.go), with the notes command (internal/cli/notes.go)   *)
(* beside them.  A call of the store is one immediate transaction; it      *)
(* takes effect and is answered in two steps.                              *)
(*                                                                         *)
(* Both windows share one `modal`, and an export that succeeds opens the   *)
(* report's whatever else is open.  A generation that moves on leaves its  *)
(* answers unheard: the call is set adrift, editors and exports count for  *)
(* nothing.  Generations are taken as never used twice.  Fields of a       *)
(* window that is not open are reset, since opening it sets them.          *)
(***************************************************************************)
EXTENDS Naturals, FiniteSets

CONSTANTS
    Terminals,
    NoteIds,
    NoteSubjects,
    SubjectOf,     \* what the note of an ID is about
    Bodies,        \* texts that can be saved
    Blank,         \* a text that cannot
    MaxRevision,   \* bound: writes of one note
    MaxUnderWay    \* bound: editors, exports and writes adrift of a terminal

ASSUME NotesAssumption ==
    /\ NoteIds # {} /\ SubjectOf \in [NoteIds -> NoteSubjects]
    /\ Blank \notin Bodies
    /\ MaxRevision \in Nat \ {0} /\ MaxUnderWay \in Nat

VARIABLES
    stored,     \* the table; revision 0 means no row
    journal,    \* what a terminal shows and edits
    call,       \* what it has asked for, and the answer
    adrift      \* its writes under way whose answers nobody waits for

notesVars == <<stored, journal, call, adrift>>

Texts == Bodies \cup {Blank}
Note == [revision : 0..MaxRevision, body : Texts, deleted : BOOLEAN]
NoRow == [revision |-> 0, body |-> Blank, deleted |-> FALSE]
Draft == [id : NoteIds, subject : NoteSubjects, revision : 0..MaxRevision, fresh : BOOLEAN]
UnderWay == 0..MaxUnderWay

(* "report" is the report, its export and the choice of its subject.       *)
Journal == [modal : {"", "notes", "edit", "discard", "report", "quit"},
            subject : NoteSubjects,
            notes : [NoteIds -> Note],           \* as the last list said
            draft : Draft,                       \* fresh: no ID yet
            original : Texts, text : Texts,
            external : BOOLEAN, quitting : BOOLEAN,
            pending : BOOLEAN,                   \* notePending
            editors : UnderWay, exports : UnderWay]
Call == [kind : {"none", "list", "save", "delete", "restore"},
         state : {"asked", "done", "failed"}, subject : NoteSubjects,
         id : NoteIds, revision : 0..MaxRevision, fresh : BOOLEAN, body : Texts,
         original : Texts,                       \* history: what the draft began with
         deleted : BOOLEAN,                      \* list: deleted ones too
         notes : [NoteIds -> Note]]              \* the list's answer

SomeNote == CHOOSE n \in NoteIds : TRUE
SomeSubject == SubjectOf[SomeNote]
NoNotes == [n \in NoteIds |-> NoRow]
NewNote(s) == [id |-> SomeNote, subject |-> s, revision |-> 0, fresh |-> TRUE]
NoCall == [kind |-> "none", state |-> "asked", subject |-> SomeSubject, id |-> SomeNote,
           revision |-> 0, fresh |-> FALSE, body |-> Blank, original |-> Blank,
           deleted |-> FALSE, notes |-> NoNotes]

NotesInit ==
    /\ stored = NoNotes
    /\ journal = [t \in Terminals |->
                    [modal |-> "", subject |-> SomeSubject, notes |-> NoNotes,
                     draft |-> NewNote(SomeSubject), original |-> Blank, text |-> Blank,
                     external |-> FALSE, quitting |-> FALSE,
                     pending |-> FALSE, editors |-> 0, exports |-> 0]]
    /\ call = [t \in Terminals |-> NoCall]
    /\ adrift = [t \in Terminals |-> {}]

-----------------------------------------------------------------------------
(* The store.                                                              *)

(* Mutant: the revision is compared only when the note is deleted. *)
UncheckedMatch(n, revision) ==
    stored[n].revision # 0 /\ (stored[n].deleted => stored[n].revision = revision)

RevisionMatches(n, revision) ==
    stored[n].revision # 0 /\ stored[n].revision = revision

Written(n, body, deleted) ==
    [revision |-> stored[n].revision + 1, body |-> body, deleted |-> deleted]

SaveNote(c) ==
    \/ /\ c.fresh                               \* newNoteID, then INSERT
       /\ \E n \in NoteIds :
            /\ stored[n].revision = 0 /\ SubjectOf[n] = c.subject
            /\ stored' = [stored EXCEPT ![n] = Written(n, c.body, FALSE)]
    \/ /\ ~c.fresh /\ SubjectOf[c.id] = c.subject
       /\ RevisionMatches(c.id, c.revision) /\ ~stored[c.id].deleted
       /\ stored[c.id].revision < MaxRevision
       /\ stored' = [stored EXCEPT ![c.id] = Written(c.id, c.body, FALSE)]

(* What is wished for already is left as it is.                            *)
DeleteNote(c, restore) ==
    /\ SubjectOf[c.id] = c.subject /\ RevisionMatches(c.id, c.revision)
    /\ IF stored[c.id].deleted = ~restore
       THEN UNCHANGED stored
       ELSE /\ stored[c.id].revision < MaxRevision
            /\ stored' = [stored EXCEPT ![c.id] =
                            Written(c.id, stored[c.id].body, ~restore)]

ListNotes(c) ==
    [n \in NoteIds |->
        IF SubjectOf[n] = c.subject /\ (stored[n].deleted => c.deleted)
        THEN stored[n] ELSE NoRow]

WriteNote(c) ==
    \/ c.kind = "save" /\ SaveNote(c)
    \/ c.kind \in {"delete", "restore"} /\ DeleteNote(c, c.kind = "restore")

Perform(t) ==
    LET c == call[t] IN
    /\ c.kind # "none" /\ c.state = "asked"
    /\ \/ /\ c.kind = "list"
          /\ call' = [call EXCEPT ![t].state = "done", ![t].notes = ListNotes(c)]
          /\ UNCHANGED stored
       \/ /\ WriteNote(c)
          /\ call' = [call EXCEPT ![t].state = "done"]
    /\ UNCHANGED <<journal, adrift>>

PerformAdrift(t, c) ==
    /\ c \in adrift[t] /\ WriteNote(c)
    /\ adrift' = [adrift EXCEPT ![t] = @ \ {c}]
    /\ UNCHANGED <<journal, call>>

(* lazymlflow notes add, edit, delete, restore: any note, any --revision.  *)
CommandLine ==
    /\ \E n \in NoteIds, s \in NoteSubjects, revision \in 1..MaxRevision, fresh, restore \in BOOLEAN,
          body \in Bodies :
         LET c == [NoCall EXCEPT !.id = n, !.subject = s, !.revision = revision,
                                 !.fresh = fresh, !.body = body]
         IN SaveNote(c) \/ DeleteNote(c, restore)
    /\ UNCHANGED <<journal, call, adrift>>

(* A conflict, a note that is not there, a busy database.                  *)
Refuse(t) ==
    /\ call[t].kind # "none" /\ call[t].state = "asked"
    /\ call' = [call EXCEPT ![t].state = "failed"]
    /\ UNCHANGED <<stored, journal, adrift>>

RefuseAdrift(t, c) ==
    /\ c \in adrift[t]
    /\ adrift' = [adrift EXCEPT ![t] = @ \ {c}]
    /\ UNCHANGED <<stored, journal, call>>

-----------------------------------------------------------------------------
(* The terminal.                                                           *)

Show(t, j) == journal' = [journal EXCEPT ![t] = j]
Expect(t, c) == call' = [call EXCEPT ![t] = c]

Spare(t) ==
    journal[t].editors + journal[t].exports + Cardinality(adrift[t]) < MaxUnderWay

(* A call of the store begins a generation of its own.                     *)
Ask(t, j, c) == Show(t, [j EXCEPT !.pending = TRUE, !.editors = 0]) /\ Expect(t, c)
List(t, j, deleted) ==
    Ask(t, j, [NoCall EXCEPT !.kind = "list", !.subject = j.subject, !.deleted = deleted])

Left(j, modal) ==
    [j EXCEPT !.modal = modal, !.draft = NewNote(SomeSubject), !.original = Blank,
              !.text = Blank, !.external = FALSE, !.quitting = FALSE]

(* closeWorkspaceModal, or the end of the program.                         *)
ClosedModal(j, modal) ==
    [Left(j, modal) EXCEPT !.subject = SomeSubject, !.editors = 0, !.exports = 0]

OpenNotes(t, s) ==
    /\ journal[t].modal = ""
    /\ List(t, [journal[t] EXCEPT !.modal = "notes", !.subject = s, !.notes = NoNotes], FALSE)
    /\ UNCHANGED <<stored, adrift>>

Browsing(t) == journal[t].modal = "notes" /\ ~journal[t].pending

ReloadJournal(t, deleted) ==
    /\ Browsing(t)
    /\ List(t, journal[t], deleted)
    /\ UNCHANGED <<stored, adrift>>

Edited(j, draft, body) ==
    [j EXCEPT !.modal = "edit", !.draft = draft, !.original = body, !.text = body,
              !.external = FALSE]

AddNote(t) ==
    /\ Browsing(t)
    /\ Show(t, Edited(journal[t], NewNote(journal[t].subject), Blank))
    /\ UNCHANGED <<stored, call, adrift>>

(* A list may still show the notes of the subject before.                  *)
EditNote(t, n) ==
    LET note == journal[t].notes[n] IN
    /\ Browsing(t) /\ note.revision # 0 /\ ~note.deleted
    /\ Show(t, Edited(journal[t], [id |-> n, subject |-> SubjectOf[n],
                                   revision |-> note.revision, fresh |-> FALSE], note.body))
    /\ UNCHANGED <<stored, call, adrift>>

Idle(t) == ~journal[t].pending /\ ~journal[t].external

Type(t, text) ==
    /\ journal[t].modal = "edit" /\ Idle(t)
    /\ Show(t, [journal[t] EXCEPT !.text = text])
    /\ UNCHANGED <<stored, call, adrift>>

(* Pasting is an event of its own that no save under way holds back.       *)
Paste(t, text) ==
    /\ journal[t].modal = "edit"
    /\ Show(t, [journal[t] EXCEPT !.text = text])
    /\ UNCHANGED <<stored, call, adrift>>

SaveJournal(t) ==
    LET j == journal[t] IN
    /\ j.modal \in {"edit", "discard"} /\ Idle(t) /\ j.text # Blank
    /\ Ask(t, [j EXCEPT !.modal = "edit", !.quitting = FALSE],
           [NoCall EXCEPT !.kind = "save", !.subject = j.draft.subject, !.id = j.draft.id,
                          !.revision = j.draft.revision, !.fresh = j.draft.fresh,
                          !.body = j.text, !.original = j.original])
    /\ UNCHANGED <<stored, adrift>>

DeleteJournal(t, n, kind) ==
    /\ Browsing(t) /\ journal[t].notes[n].revision # 0
    /\ Ask(t, journal[t],
           [NoCall EXCEPT !.kind = kind, !.subject = SubjectOf[n], !.id = n,
                          !.revision = journal[t].notes[n].revision])
    /\ UNCHANGED <<stored, adrift>>

(* Esc, or Ctrl+C when "quit".  Only a text that differs is asked about.   *)
CancelEdit(t, quit) ==
    LET j == journal[t] IN
    /\ j.modal = "edit" /\ Idle(t)
    /\ Show(t, IF j.text # j.original
               THEN [j EXCEPT !.modal = "discard", !.quitting = quit]
               ELSE Left(j, "notes"))
    /\ UNCHANGED <<stored, call, adrift>>

Discard(t) ==
    LET j == journal[t] IN
    /\ j.modal = "discard"
    /\ Show(t, IF j.quitting THEN ClosedModal(j, "quit") ELSE Left(j, "notes"))
    /\ UNCHANGED <<stored, call, adrift>>

KeepEditing(t) ==
    /\ journal[t].modal = "discard"
    /\ Show(t, [journal[t] EXCEPT !.modal = "edit", !.quitting = FALSE])
    /\ UNCHANGED <<stored, call, adrift>>

CloseJournal(t) ==
    /\ Browsing(t)
    /\ Show(t, ClosedModal(journal[t], ""))
    /\ UNCHANGED <<stored, call, adrift>>

(* Ctrl+C.                                                                 *)
QuitJournal(t) ==
    /\ journal[t].modal \in {"notes", "report"}
    /\ Show(t, ClosedModal(journal[t], "quit"))
    /\ UNCHANGED <<stored, call, adrift>>

(* $VISUAL works on a copy of the text and may return anything, or fail.   *)
OpenNoteEditor(t) ==
    LET j == journal[t] IN
    /\ j.modal = "edit" /\ Idle(t) /\ Spare(t)
    /\ Show(t, [j EXCEPT !.external = TRUE, !.editors = @ + 1])
    /\ UNCHANGED <<stored, call, adrift>>

(* The draft that is open takes the text, be it another's.                 *)
EditorFinished(t, text) ==
    LET j == journal[t] IN
    /\ j.editors > 0
    /\ Show(t, IF j.modal = "edit"
               THEN [j EXCEPT !.editors = @ - 1, !.external = FALSE, !.text = text]
               ELSE [j EXCEPT !.editors = @ - 1])
    /\ UNCHANGED <<stored, call, adrift>>

EditorFailed(t) == EditorFinished(t, journal[t].text)

-----------------------------------------------------------------------------
(* The report's windows.                                                   *)

OpenReport(t) ==
    /\ journal[t].modal = ""
    /\ Show(t, [journal[t] EXCEPT !.modal = "report"])
    /\ UNCHANGED <<stored, call, adrift>>

(* The user may go on, even to a note, while the file is written.          *)
StartExport(t) ==
    LET j == journal[t] IN
    /\ j.modal = "report" /\ Spare(t)
    /\ Show(t, [j EXCEPT !.exports = @ + 1])
    /\ UNCHANGED <<stored, call, adrift>>

(* reportExportedMsg: it worked, or it failed.                             *)
Exported(t) ==
    LET j == [journal[t] EXCEPT !.exports = @ - 1] IN
    /\ journal[t].exports > 0
    /\ Show(t, Left(j, "report")) \/ Show(t, j)
    /\ UNCHANGED <<stored, call, adrift>>

(* Ctrl+X.                                                                 *)
ForgetExports(t) ==
    /\ journal[t].modal = "report"
    /\ Show(t, [journal[t] EXCEPT !.exports = 0])
    /\ UNCHANGED <<stored, call, adrift>>

(* A note of the report: the window has its subject even when no note can  *)
(* be begun.                                                               *)
WriteFromReport(t, s, body) ==
    LET j == [journal[t] EXCEPT !.subject = s] IN
    /\ journal[t].modal = "report"
    /\ Show(t, IF j.pending THEN j ELSE Edited(j, NewNote(s), body))
    /\ UNCHANGED <<stored, call, adrift>>

(* Esc: what is under way goes on, but nobody waits for it, and the window *)
(* of notes is pending until it is opened anew.                            *)
Adrift(c) == c.kind \in {"save", "delete", "restore"} /\ c.state = "asked"

CloseReport(t) ==
    /\ journal[t].modal = "report"
    /\ Adrift(call[t]) => Cardinality(adrift[t]) < MaxUnderWay
    /\ Show(t, ClosedModal(journal[t], ""))
    /\ Expect(t, NoCall)
    /\ adrift' = [adrift EXCEPT ![t] = IF Adrift(call[t]) THEN @ \cup {call[t]} ELSE @]
    /\ UNCHANGED stored

-----------------------------------------------------------------------------
(* The answers.  One about another subject than the window's is not taken, *)
(* and the window stays pending.                                           *)

NoteAnswered(t) == call[t].state # "asked" /\ journal[t].modal # "quit"
Heard(t) == call[t].subject = journal[t].subject

(* acceptJournal.                                                          *)
Listed(t) ==
    /\ NoteAnswered(t) /\ call[t].kind = "list"
    /\ Show(t, CASE ~Heard(t) -> journal[t]
                 [] Heard(t) /\ call[t].state = "done" ->
                      [journal[t] EXCEPT !.pending = FALSE, !.notes = call[t].notes]
                 [] OTHER -> [journal[t] EXCEPT !.pending = FALSE])
    /\ Expect(t, NoCall)
    /\ UNCHANGED <<stored, adrift>>

(* acceptJournalSave, also for a deletion.                                 *)
Saved(t) ==
    /\ NoteAnswered(t) /\ call[t].kind \in {"save", "delete", "restore"}
    /\ \/ /\ Heard(t) /\ call[t].state = "done"
          /\ List(t, Left(journal[t], "notes"), FALSE)
       \/ /\ ~Heard(t) \/ call[t].state = "failed"
          /\ Show(t, [journal[t] EXCEPT !.pending = ~Heard(t)])
          /\ Expect(t, NoCall)
    /\ UNCHANGED <<stored, adrift>>

NotesNext ==
    \/ CommandLine
    \/ \E t \in Terminals :
        \/ Perform(t) \/ Refuse(t) \/ Listed(t) \/ Saved(t)
        \/ AddNote(t) \/ SaveJournal(t) \/ Discard(t) \/ KeepEditing(t)
        \/ CloseJournal(t) \/ QuitJournal(t) \/ OpenNoteEditor(t) \/ EditorFailed(t)
        \/ OpenReport(t) \/ StartExport(t) \/ Exported(t) \/ ForgetExports(t) \/ CloseReport(t)
        \/ \E c \in adrift[t] : PerformAdrift(t, c) \/ RefuseAdrift(t, c)
        \/ \E flag \in BOOLEAN : ReloadJournal(t, flag) \/ CancelEdit(t, flag)
        \/ \E n \in NoteIds :
             EditNote(t, n) \/ DeleteJournal(t, n, "delete") \/ DeleteJournal(t, n, "restore")
        \/ \E text \in Texts : Type(t, text) \/ Paste(t, text) \/ EditorFinished(t, text)
        \/ \E s \in NoteSubjects :
             OpenNotes(t, s) \/ \E body \in Bodies : WriteFromReport(t, s, body)

NotesSpec == NotesInit /\ [][NotesNext]_notesVars

-----------------------------------------------------------------------------
(* Properties.                                                             *)

NotesTypeOK ==
    /\ stored \in [NoteIds -> Note]
    /\ journal \in [Terminals -> Journal]
    /\ call \in [Terminals -> Call]
    /\ adrift \in [Terminals -> SUBSET Call]

(* A terminal's save replaces the very text its user started from: what    *)
(* other processes saved, deleted or restored since makes it fail, though  *)
(* its window be long closed.                                              *)
Performed(t, c) ==
    \/ c = call[t] /\ c.state = "asked" /\ call'[t].state = "done"
    \/ c \in adrift[t] /\ c \notin adrift'[t] /\ stored' # stored

OnlySeenIsReplaced ==
    [][\A t \in Terminals : \A c \in adrift[t] \cup {call[t]} :
         Performed(t, c) /\ c.kind = "save" /\ ~c.fresh
           => ~stored[c.id].deleted /\ stored[c.id].body = c.original]_notesVars

(* A text that is not saved stays in its editor until its user discards    *)
(* it or the store has taken it.  Two exceptions: text that is pasted      *)
(* while the save runs goes with the editor (updateWorkspace), and an      *)
(* export that ends puts the report in the place of the editor, or of the  *)
(* question whether to discard (reportExportedMsg): the draft is lost.     *)
Unsaved(t) == journal[t].modal \in {"edit", "discard"} /\ journal[t].text # journal[t].original

Accepted(t) == call[t].kind = "save" /\ call[t].state = "done"

ReportReturns(t) == journal'[t].modal = "report" /\ journal'[t].exports < journal[t].exports

DraftsAreKept ==
    [][\A t \in Terminals :
         Unsaved(t) /\ journal'[t].modal \notin {"edit", "discard"}
           => journal[t].modal = "discard" \/ Accepted(t) \/ ReportReturns(t)]_notesVars

(* Neither table nor editor loses a text that its writer has not seen      *)
(* replaced or has not given up, but for the two exceptions above.         *)
NotesAreSafe == OnlySeenIsReplaced /\ DraftsAreKept
=============================================================================

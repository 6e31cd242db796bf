--------------------------- MODULE DocumentProofs ---------------------------
(***************************************************************************)
(* Theorems of StateFile, Notes, ConfigFile and Preferences: what programs *)
(* that write the same file or table at once leave of each other's work.   *)
(***************************************************************************)
EXTENDS StateFile, Notes, ConfigFile, Preferences, FiniteSetTheorems, TLAPS

-----------------------------------------------------------------------------
(***************************************************************************)
(* Theorems of StateFile, for any binaries and versions.                   *)
(*                                                                         *)
(* A binary that has decided has not looked at the database again; what    *)
(* makes its decision still right is that the version only grows.          *)
(***************************************************************************)

Whole == database.tables = TablesOf(database.version)

BinaryOK(b) ==
    /\ binary[b].stage # "collided"
    /\ binary[b].stage = "decide" => binary[b].seen <= database.version
    /\ binary[b].stage \in {"journal", "open"} => Supports[b] <= database.version

StateInv == StateFileTypeOK /\ Whole /\ \A b \in Binaries : BinaryOK(b)

-----------------------------------------------------------------------------

(* A step of one binary that lowers no version leaves the others right.    *)
LEMMA StateOthersStay ==
    ASSUME StateInv, StateFileTypeOK', NEW b \in Binaries, NEW s,
           binary' = [binary EXCEPT ![b] = s],
           database.version <= database'.version, BinaryOK(b)'
    PROVE  \A c \in Binaries : BinaryOK(c)'
<1> SUFFICES ASSUME NEW c \in Binaries, c # b
             PROVE  BinaryOK(c)'
  OBVIOUS
<1>1. binary'[c] = binary[c]
  BY DEF StateInv, StateFileTypeOK
<1>2. /\ database.version \in -1..Latest /\ database'.version \in -1..Latest
      /\ binary[c].seen \in -1..Latest /\ Supports[c] \in 1..Latest /\ Latest \in Nat
  BY StateFileAssumption DEF StateInv, StateFileTypeOK
<1> QED
  BY <1>1, <1>2 DEF StateInv, BinaryOK

(* A stage in which nothing has been decided.                              *)
LEMMA MovesOn ==
    ASSUME StateInv, NEW b \in Binaries,
           NEW stage \in Stages \ {"collided", "decide", "journal", "open"},
           Stage(b, stage), UNCHANGED database
    PROVE  StateInv'
<1>1. /\ binary' = [binary EXCEPT ![b] = [stage |-> stage, seen |-> 0]]
      /\ [stage |-> stage, seen |-> 0] \in [stage : Stages, seen : -1..Latest]
  BY StateFileAssumption DEF Stage
<1>2. StateFileTypeOK' /\ Whole'
  BY <1>1 DEF StateInv, StateFileTypeOK, Whole
<1>3. binary'[b] = [stage |-> stage, seen |-> 0]
  BY <1>1 DEF StateInv, StateFileTypeOK
<1>4. BinaryOK(b)'
  BY <1>3 DEF BinaryOK
<1>5. database.version <= database'.version
  BY StateFileAssumption DEF StateInv, StateFileTypeOK
<1> QED
  BY <1>1, <1>2, <1>4, <1>5, StateOthersStay DEF StateInv

LEMMA InvCreateFile == ASSUME StateInv, NEW b \in Binaries, CreateFile(b) PROVE StateInv'
<1>1. CASE database.version = -1
  <2> DEFINE new == [database EXCEPT !.version = 0]
  <2>1. database' = new /\ Stage(b, "inspect")
    BY <1>1 DEF CreateFile
  <2>2. new.version = 0 /\ new.tables = database.tables
        /\ new \in [version : -1..Latest, tables : SUBSET (1..Latest), wal : BOOLEAN]
    BY StateFileAssumption DEF StateInv, StateFileTypeOK
  <2>3. /\ binary' = [binary EXCEPT ![b] = [stage |-> "inspect", seen |-> 0]]
        /\ [stage |-> "inspect", seen |-> 0] \in [stage : Stages, seen : -1..Latest]
    BY <2>1, StateFileAssumption DEF Stage, Stages
  <2>4. StateFileTypeOK'
    BY <2>1, <2>2, <2>3 DEF StateInv, StateFileTypeOK
  <2>5. Whole'
    BY <1>1, <2>1, <2>2 DEF StateInv, Whole, TablesOf
  <2>6. binary'[b] = [stage |-> "inspect", seen |-> 0]
    BY <2>3 DEF StateInv, StateFileTypeOK
  <2>7. BinaryOK(b)'
    BY <2>6 DEF BinaryOK
  <2>8. database.version <= database'.version
    BY <1>1, <2>1, <2>2
  <2> QED
    BY <2>3, <2>4, <2>5, <2>7, <2>8, StateOthersStay DEF StateInv
<1>2. CASE database.version # -1
  BY <1>2, MovesOn DEF CreateFile, Stages
<1> QED
  BY <1>1, <1>2

LEMMA InvReadVersion == ASSUME StateInv, NEW b \in Binaries, ReadVersion(b) PROVE StateInv'
<1> DEFINE s == [stage |-> "decide", seen |-> database.version]
<1>1. binary' = [binary EXCEPT ![b] = s] /\ database' = database
  BY DEF ReadVersion
<1>2. database.version \in -1..Latest
  BY DEF StateInv, StateFileTypeOK
<1>3. s \in [stage : Stages, seen : -1..Latest]
  BY <1>2 DEF Stages
<1>4. StateFileTypeOK' /\ Whole'
  BY <1>1, <1>3 DEF StateInv, StateFileTypeOK, Whole
<1>5. binary'[b] = s
  BY <1>1 DEF StateInv, StateFileTypeOK
<1>6. BinaryOK(b)'
  BY <1>1, <1>2, <1>5, StateFileAssumption DEF BinaryOK
<1>7. database.version <= database'.version
  BY <1>1, <1>2, StateFileAssumption
<1> QED
  BY <1>1, <1>4, <1>6, <1>7, StateOthersStay DEF StateInv

(* Nobody is above the version it was told.                                *)
LEMMA InvDecide == ASSUME StateInv, NEW b \in Binaries, Decide(b) PROVE StateInv'
<1>0. /\ binary[b] \in [stage : Stages, seen : -1..Latest] /\ database.version \in -1..Latest
      /\ Supports[b] \in 1..Latest /\ Latest \in Nat
  BY StateFileAssumption DEF StateInv, StateFileTypeOK
<1>1. CASE Stage(b, "tooNew")
  BY <1>1, MovesOn DEF Decide, Stages
<1>2. CASE binary[b].seen = Supports[b] /\ Stage(b, "journal")
  <2> DEFINE s == [stage |-> "journal", seen |-> 0]
  <2>1. binary' = [binary EXCEPT ![b] = s] /\ database' = database
    BY <1>2 DEF Decide, Stage
  <2>2. s \in [stage : Stages, seen : -1..Latest]
    BY <1>0 DEF Stages
  <2>3. StateFileTypeOK' /\ Whole'
    BY <2>1, <2>2 DEF StateInv, StateFileTypeOK, Whole
  <2>4. binary'[b] = s
    BY <2>1 DEF StateInv, StateFileTypeOK
  <2>5. Supports[b] <= database.version
    BY <1>2 DEF Decide, StateInv, BinaryOK
  <2>6. BinaryOK(b)'
    BY <2>1, <2>4, <2>5 DEF BinaryOK
  <2>7. database.version <= database'.version
    BY <1>0, <2>1
  <2> QED
    BY <2>1, <2>3, <2>6, <2>7, StateOthersStay DEF StateInv
<1>3. CASE binary' = [binary EXCEPT ![b].stage = "migrate"]
  <2> DEFINE s == [binary[b] EXCEPT !.stage = "migrate"]
  <2>1. binary' = [binary EXCEPT ![b] = s] /\ database' = database
    BY <1>3 DEF Decide
  <2>2. s \in [stage : Stages, seen : -1..Latest] /\ s.stage = "migrate"
    BY <1>0 DEF Stages
  <2>3. StateFileTypeOK' /\ Whole'
    BY <2>1, <2>2 DEF StateInv, StateFileTypeOK, Whole
  <2>4. binary'[b] = s
    BY <2>1 DEF StateInv, StateFileTypeOK
  <2>5. BinaryOK(b)'
    BY <2>2, <2>4 DEF BinaryOK
  <2>6. database.version <= database'.version
    BY <1>0, <2>1
  <2> QED
    BY <2>1, <2>3, <2>5, <2>6, StateOthersStay DEF StateInv
<1> QED
  BY <1>1, <1>2, <1>3 DEF Decide

(* Within the transaction the version is the database's own: the tables of *)
(* the steps after it do not exist.                                        *)
LEMMA InvMigrate == ASSUME StateInv, NEW b \in Binaries, Migrate(b) PROVE StateInv'
<1> DEFINE v == database.version
           n == Supports[b]
           created == TablesOf(n) \ TablesOf(v)
           s == [stage |-> "journal", seen |-> 0]
           new == [database EXCEPT !.version = IF created = {} THEN v ELSE n,
                                   !.tables = database.tables \cup created]
<1>0. /\ database \in [version : -1..Latest, tables : SUBSET (1..Latest), wal : BOOLEAN]
      /\ v \in -1..Latest /\ n \in 1..Latest /\ Latest \in Nat
  BY StateFileAssumption DEF StateInv, StateFileTypeOK
<1>1. CASE v > n
  BY <1>1, MovesOn DEF Migrate, Stages
<1>2. CASE ~(v > n)
  <2>1. created \cap database.tables = {}
    BY <1>0 DEF StateInv, Whole, TablesOf
  <2>2. database' = new /\ Stage(b, "journal")
    BY <1>2, <2>1 DEF Migrate, Steps
  <2>3. (IF created = {} THEN v ELSE n) = n
    <3>1. CASE created = {}
      <4>1. n \in TablesOf(n)
        BY <1>0 DEF TablesOf
      <4>2. n \in TablesOf(v)
        BY <3>1, <4>1
      <4> QED
        BY <1>0, <1>2, <3>1, <4>2 DEF TablesOf
    <3> QED
      BY <3>1
  <2>4. database.tables \cup created = TablesOf(n)
    BY <1>0, <1>2 DEF StateInv, Whole, TablesOf
  <2>5. new.version = n /\ new.tables = TablesOf(n) /\ new.wal = database.wal
    BY <1>0, <2>3, <2>4
  <2>6. new \in [version : -1..Latest, tables : SUBSET (1..Latest), wal : BOOLEAN]
    <3>1. TablesOf(n) \subseteq 1..Latest /\ n \in -1..Latest
      BY <1>0 DEF TablesOf
    <3>2. ASSUME NEW a \in -1..Latest, NEW t \in SUBSET (1..Latest)
          PROVE  [database EXCEPT !.version = a, !.tables = t]
                   \in [version : -1..Latest, tables : SUBSET (1..Latest), wal : BOOLEAN]
      BY <1>0
    <3> QED
      BY <2>3, <2>4, <3>1, <3>2
  <2>7. binary' = [binary EXCEPT ![b] = s] /\ s \in [stage : Stages, seen : -1..Latest]
    BY <1>0, <2>2 DEF Stage, Stages
  <2>8. StateFileTypeOK'
    BY <2>2, <2>6, <2>7 DEF StateInv, StateFileTypeOK
  <2>9. Whole'
    BY <2>2, <2>5 DEF Whole
  <2>10. binary'[b] = s
    BY <2>7 DEF StateInv, StateFileTypeOK
  <2>11. BinaryOK(b)'
    BY <1>0, <2>2, <2>5, <2>10 DEF BinaryOK
  <2>12. database.version <= database'.version
    BY <1>0, <1>2, <2>2, <2>5
  <2> QED
    BY <2>7, <2>8, <2>9, <2>11, <2>12, StateOthersStay DEF StateInv
<1> QED
  BY <1>1, <1>2

LEMMA InvJournalMode == ASSUME StateInv, NEW b \in Binaries, JournalMode(b) PROVE StateInv'
<1> DEFINE s == [stage |-> "open", seen |-> 0]
           new == [database EXCEPT !.wal = TRUE]
<1>0. /\ database \in [version : -1..Latest, tables : SUBSET (1..Latest), wal : BOOLEAN]
      /\ Supports[b] \in 1..Latest /\ Latest \in Nat
  BY StateFileAssumption DEF StateInv, StateFileTypeOK
<1>1. binary' = [binary EXCEPT ![b] = s] /\ database' = new /\ binary[b].stage = "journal"
  BY DEF JournalMode, Stage
<1>2. s \in [stage : Stages, seen : -1..Latest]
  BY <1>0 DEF Stages
<1>3. /\ new \in [version : -1..Latest, tables : SUBSET (1..Latest), wal : BOOLEAN]
      /\ new.version = database.version /\ new.tables = database.tables
  BY <1>0
<1>4. StateFileTypeOK' /\ Whole'
  BY <1>1, <1>2, <1>3 DEF StateInv, StateFileTypeOK, Whole
<1>5. binary'[b] = s
  BY <1>1 DEF StateInv, StateFileTypeOK
<1>6. BinaryOK(b)'
  BY <1>1, <1>3, <1>5 DEF StateInv, BinaryOK
<1>7. database.version <= database'.version
  BY <1>0, <1>1, <1>3
<1> QED
  BY <1>1, <1>4, <1>6, <1>7, StateOthersStay DEF StateInv

THEOREM StateFileInvariant == StateFileSpec => []StateInv
<1>1. StateFileInit => StateInv
  <2> SUFFICES ASSUME StateFileInit PROVE StateInv
    OBVIOUS
  <2>1. binary = [b \in Binaries |-> [stage |-> "closed", seen |-> 0]]
    BY DEF StateFileInit
  <2>2. [stage |-> "closed", seen |-> 0] \in [stage : Stages, seen : -1..Latest]
    BY StateFileAssumption DEF Stages
  <2>3. CASE database = NoDatabase
    BY <2>1, <2>2, <2>3, StateFileAssumption
    DEF StateInv, StateFileTypeOK, Whole, BinaryOK, TablesOf, NoDatabase
  <2>4. CASE \E n \in 0..Latest :
               database = [version |-> n, tables |-> TablesOf(n), wal |-> n # 0]
    <3>1. PICK n \in 0..Latest :
            database = [version |-> n, tables |-> TablesOf(n), wal |-> n # 0]
      BY <2>4
    <3>2. TablesOf(n) \subseteq 1..Latest /\ (n # 0) \in BOOLEAN /\ n \in -1..Latest
      BY StateFileAssumption DEF TablesOf
    <3>3. StateFileTypeOK
      BY <2>1, <2>2, <3>1, <3>2 DEF StateFileTypeOK
    <3> QED
      BY <2>1, <3>1, <3>3 DEF StateInv, Whole, BinaryOK
  <2> QED
    BY <2>3, <2>4 DEF StateFileInit
<1>2. StateInv /\ [StateFileNext]_stateFileVars => StateInv'
  <2> SUFFICES ASSUME StateInv, [StateFileNext]_stateFileVars PROVE StateInv'
    OBVIOUS
  <2>1. CASE UNCHANGED stateFileVars
    BY <2>1 DEF stateFileVars, StateInv, StateFileTypeOK, Whole, BinaryOK
  <2>2. ASSUME NEW b \in Binaries, NEW create \in BOOLEAN, OpenStore(b, create) PROVE StateInv'
    BY <2>2, MovesOn DEF OpenStore, Stages
  <2>3. ASSUME NEW b \in Binaries, GiveUpOpen(b) \/ AgainOpen(b) PROVE StateInv'
    BY <2>3, MovesOn DEF GiveUpOpen, AgainOpen, Stages
  <2> QED
    BY <2>1, <2>2, <2>3, InvCreateFile, InvReadVersion, InvDecide, InvMigrate, InvJournalMode
    DEF StateFileNext
<1> QED
  BY <1>1, <1>2, PTL DEF StateFileSpec

(* A state file is of its types whatever binaries open it.                 *)
THEOREM StateFileTypeCorrect == StateFileSpec => []StateFileTypeOK
<1>1. StateInv => StateFileTypeOK
  BY DEF StateInv
<1> QED
  BY <1>1, StateFileInvariant, PTL

(* No migration of racing binaries meets the tables of another one, and an *)
(* open store has every table its binary knows (store.go:140-218).         *)
THEOREM SchemasAlwaysMeet == StateFileSpec => []SchemasMeet
<1>1. StateInv => SchemasMeet
  <2> SUFFICES ASSUME StateInv PROVE SchemasMeet
    OBVIOUS
  <2>1. \A b \in Binaries : Supports[b] \in 1..Latest /\ database.version \in -1..Latest
    BY StateFileAssumption DEF StateInv, StateFileTypeOK
  <2>2. ASSUME NEW b \in Binaries, binary[b].stage \in {"journal", "open"}
        PROVE  TablesOf(Supports[b]) \subseteq database.tables
    BY <2>1, <2>2, StateFileAssumption DEF StateInv, Whole, BinaryOK, TablesOf
  <2> QED
    BY <2>2 DEF StateInv, Whole, BinaryOK, SchemasMeet
<1> QED
  BY <1>1, StateFileInvariant, PTL

-----------------------------------------------------------------------------
(***************************************************************************)
(* Theorems of Notes, for any terminals, notes and texts.                  *)
(*                                                                         *)
(* A revision is never given to two texts of a note: whoever has seen it   *)
(* (a list, its answer under way, a draft, a save of that draft) has seen  *)
(* what is stored as long as the table has that revision.  And while a     *)
(* draft is open, nothing but its own save is waited for.                  *)
(***************************************************************************)

(* What table s has of n is older than that note, or the very same.        *)
Seen(s, n, note) ==
    /\ note.revision <= s[n].revision
    /\ note.revision = s[n].revision /\ note.revision # 0 => note = s[n]

DraftOK(s, draft, text) ==
    ~draft.fresh =>
        /\ draft.revision # 0 /\ draft.revision <= s[draft.id].revision
        /\ draft.revision = s[draft.id].revision =>
             ~s[draft.id].deleted /\ s[draft.id].body = text

Editing(j) == j.modal \in {"edit", "discard"}

CallOK(s, c) ==
    /\ \A n \in NoteIds : Seen(s, n, c.notes[n])
    /\ c.kind = "save" => DraftOK(s, c, c.original)

Waits(j, c) ==
    c.kind # "none" => j.pending /\ (Editing(j) => c.kind = "save")

TerminalOK(s, j, c) ==
    /\ \A n \in NoteIds : Seen(s, n, j.notes[n])
    /\ Editing(j) => DraftOK(s, j.draft, j.original)
    /\ CallOK(s, c)
    /\ Waits(j, c)

AdriftOK(s, calls) == IsFiniteSet(calls) /\ \A c \in calls : CallOK(s, c)

NotesInv ==
    /\ NotesTypeOK
    /\ \A t \in Terminals :
          TerminalOK(stored, journal[t], call[t]) /\ AdriftOK(stored, adrift[t])

-----------------------------------------------------------------------------
(* Types.                                                                  *)
LEMMA NoRows ==
    /\ SomeNote \in NoteIds /\ SomeSubject \in NoteSubjects /\ Blank \in Texts
    /\ NoRow \in Note /\ NoNotes \in [NoteIds -> Note] /\ 0 \in UnderWay
<1>1. SomeNote \in NoteIds
  BY NotesAssumption DEF SomeNote
<1>2. NoRow \in Note
  BY NotesAssumption DEF NoRow, Note, Texts
<1>3. SomeSubject \in NoteSubjects
  BY <1>1, NotesAssumption DEF SomeSubject
<1> QED
  BY <1>1, <1>2, <1>3, NotesAssumption DEF NoNotes, Texts, UnderWay

LEMMA NewNoteIsADraft ==
    ASSUME NEW s \in NoteSubjects PROVE NewNote(s) \in Draft /\ NewNote(s).fresh
  BY NoRows, NotesAssumption DEF NewNote, Draft

LEMMA NoCallIsACall == NoCall \in Call /\ NoCall.kind = "none" /\ NoCall.notes = NoNotes
  BY NoRows, NotesAssumption DEF NoCall, Call

LEMMA OneTerminal ==
    ASSUME NotesInv, NEW t \in Terminals
    PROVE  /\ journal[t] \in Journal /\ call[t] \in Call /\ adrift[t] \in SUBSET Call
           /\ TerminalOK(stored, journal[t], call[t]) /\ AdriftOK(stored, adrift[t])
           /\ journal[t].draft \in Draft /\ journal[t].notes \in [NoteIds -> Note]
           /\ journal[t].text \in Texts /\ journal[t].original \in Texts
           /\ call[t].notes \in [NoteIds -> Note]
  BY DEF NotesInv, NotesTypeOK, Journal, Call

LEMMA SeenNoRow == ASSUME NotesInv, NEW n \in NoteIds PROVE Seen(stored, n, NoRow)
  BY DEF NotesInv, NotesTypeOK, Note, Seen, NoRow

-----------------------------------------------------------------------------
(* The store: what a transaction does to a note is told by its revision.   *)
Grows ==
    /\ stored' \in [NoteIds -> Note]
    /\ \A n \in NoteIds : stored'[n] = stored[n] \/ stored[n].revision < stored'[n].revision

LEMMA SeenStays ==
    ASSUME NotesTypeOK, Grows, NEW n \in NoteIds, NEW note \in Note, Seen(stored, n, note)
    PROVE  Seen(stored', n, note)
  BY DEF NotesTypeOK, Grows, Seen, Note

LEMMA DraftStays ==
    ASSUME NotesTypeOK, Grows, NEW d, d.id \in NoteIds, d.revision \in 0..MaxRevision, NEW text,
           DraftOK(stored, d, text)
    PROVE  DraftOK(stored', d, text)
<1>1. d.id \in NoteIds /\ d.revision \in Nat
  BY NotesAssumption
<1>2. stored[d.id] \in Note /\ stored'[d.id] \in Note
  BY <1>1 DEF NotesTypeOK, Grows
<1> QED
  BY <1>1, <1>2 DEF Grows, DraftOK, Note

LEMMA CallStays ==
    ASSUME NotesTypeOK, Grows, NEW c \in Call, CallOK(stored, c)
    PROVE  CallOK(stored', c)
<1>1. c.notes \in [NoteIds -> Note] /\ c.id \in NoteIds /\ c.revision \in 0..MaxRevision
  BY DEF Call
<1>2. \A n \in NoteIds : Seen(stored', n, c.notes[n])
  BY <1>1, SeenStays DEF CallOK
<1>3. c.kind = "save" => DraftOK(stored', c, c.original)
  BY <1>1, DraftStays DEF CallOK
<1> QED
  BY <1>2, <1>3 DEF CallOK

(* Nobody has seen what is written: who shows or edits a note is right as  *)
(* before.                                                                 *)
LEMMA AllStay ==
    ASSUME NotesInv, Grows, NEW t \in Terminals
    PROVE  TerminalOK(stored', journal[t], call[t]) /\ AdriftOK(stored', adrift[t])
<1>1. \A n \in NoteIds : Seen(stored', n, journal[t].notes[n])
  BY OneTerminal, SeenStays DEF TerminalOK, NotesInv
<1>2. Editing(journal[t]) => DraftOK(stored', journal[t].draft, journal[t].original)
  BY OneTerminal, DraftStays DEF TerminalOK, NotesInv, Draft
<1>3. CallOK(stored', call[t]) /\ \A c \in adrift[t] : CallOK(stored', c)
  BY OneTerminal, CallStays DEF TerminalOK, AdriftOK, NotesInv
<1> QED
  BY <1>1, <1>2, <1>3, OneTerminal DEF TerminalOK, AdriftOK

LEMMA WriteGrows ==
    ASSUME NotesTypeOK, NEW n \in NoteIds, stored[n].revision < MaxRevision,
           NEW body \in Texts, NEW deleted \in BOOLEAN,
           stored' = [stored EXCEPT ![n] = Written(n, body, deleted)]
    PROVE  Grows
<1>1. /\ Written(n, body, deleted) \in Note
      /\ stored[n].revision < Written(n, body, deleted).revision
  BY NotesAssumption DEF NotesTypeOK, Note, Written
<1> QED
  BY <1>1 DEF NotesTypeOK, Grows

LEMMA SaveGrows ==
    ASSUME NotesTypeOK, NEW c \in Call, SaveNote(c)
    PROVE  Grows
<1>1. c.body \in Texts /\ c.id \in NoteIds /\ 0 < MaxRevision
  BY NotesAssumption DEF Call
<1> QED
  BY <1>1, WriteGrows DEF SaveNote

LEMMA DeleteGrows ==
    ASSUME NotesTypeOK, NEW c \in Call, NEW restore \in BOOLEAN, DeleteNote(c, restore)
    PROVE  Grows
<1>1. c.id \in NoteIds /\ stored[c.id].body \in Texts
  BY DEF Call, NotesTypeOK, Note
<1>2. CASE UNCHANGED stored
  BY <1>2 DEF NotesTypeOK, Grows
<1>3. CASE stored' = [stored EXCEPT ![c.id] = Written(c.id, stored[c.id].body, ~restore)]
           /\ stored[c.id].revision < MaxRevision
  BY <1>1, <1>3, WriteGrows
<1> QED
  BY <1>2, <1>3 DEF DeleteNote

-----------------------------------------------------------------------------
LEMMA WriteNoteGrows ==
    ASSUME NotesTypeOK, NEW c \in Call, WriteNote(c)
    PROVE  Grows
  BY SaveGrows, DeleteGrows DEF WriteNote

-----------------------------------------------------------------------------
(* The terminals.                                                          *)

(* A terminal that shows j, waits for c and has set those calls adrift.    *)
LEMMA TerminalStep ==
    ASSUME NotesInv, NEW t \in Terminals, NEW j \in Journal, NEW c \in Call, NEW d \in SUBSET Call,
           journal' = [journal EXCEPT ![t] = j], call' = [call EXCEPT ![t] = c],
           adrift' = [adrift EXCEPT ![t] = d],
           UNCHANGED stored, TerminalOK(stored, j, c), AdriftOK(stored, d)
    PROVE  NotesInv'
<1>1. NotesTypeOK'
  BY DEF NotesInv, NotesTypeOK
<1>2. ASSUME NEW u \in Terminals
      PROVE  TerminalOK(stored, journal'[u], call'[u]) /\ AdriftOK(stored, adrift'[u])
  <2>1. CASE u = t
    BY <2>1 DEF NotesInv, NotesTypeOK
  <2>2. CASE u # t
    BY <2>2 DEF NotesInv, NotesTypeOK
  <2> QED
    BY <2>1, <2>2
<1> QED
  BY <1>1, <1>2 DEF NotesInv

LEMMA WindowStep ==
    ASSUME NotesInv, NEW t \in Terminals, NEW j \in Journal, NEW c \in Call,
           Show(t, j), Expect(t, c), UNCHANGED <<stored, adrift>>, TerminalOK(stored, j, c)
    PROVE  NotesInv'
<1>1. /\ adrift' = [adrift EXCEPT ![t] = adrift[t]]
      /\ adrift[t] \in SUBSET Call /\ AdriftOK(stored, adrift[t])
  BY DEF NotesInv, NotesTypeOK
<1> QED
  BY <1>1, TerminalStep DEF Show, Expect

LEMMA JournalStep ==
    ASSUME NotesInv, NEW t \in Terminals, NEW j \in Journal, Show(t, j),
           UNCHANGED <<stored, call, adrift>>, TerminalOK(stored, j, call[t])
    PROVE  NotesInv'
<1>1. Expect(t, call[t]) /\ call[t] \in Call
  BY DEF NotesInv, NotesTypeOK, Expect
<1> QED
  BY <1>1, WindowStep

LEMMA CallStep ==
    ASSUME NotesInv, NEW t \in Terminals, NEW c \in Call, Expect(t, c),
           UNCHANGED <<stored, journal, adrift>>, TerminalOK(stored, journal[t], c)
    PROVE  NotesInv'
<1>1. Show(t, journal[t]) /\ journal[t] \in Journal
  BY DEF NotesInv, NotesTypeOK, Show
<1> QED
  BY <1>1, WindowStep

LEMMA AdriftStep ==
    ASSUME NotesInv, NEW t \in Terminals, NEW d \in SUBSET Call, adrift' = [adrift EXCEPT ![t] = d],
           UNCHANGED <<stored, journal, call>>, AdriftOK(stored, d)
    PROVE  NotesInv'
<1>1. /\ journal' = [journal EXCEPT ![t] = journal[t]] /\ journal[t] \in Journal
      /\ call' = [call EXCEPT ![t] = call[t]] /\ call[t] \in Call
      /\ TerminalOK(stored, journal[t], call[t])
  BY DEF NotesInv, NotesTypeOK
<1> QED
  BY <1>1, TerminalStep

(* Every step of a terminal.                                               *)
LEMMA InvPerform == ASSUME NotesInv, NEW t \in Terminals, Perform(t) PROVE NotesInv'
<1> DEFINE c == call[t]
           answer == [c EXCEPT !.state = "done"]
           listed == [c EXCEPT !.state = "done", !.notes = ListNotes(c)]
<1>0. c \in Call /\ TerminalOK(stored, journal[t], c) /\ NotesTypeOK
  BY OneTerminal DEF NotesInv
<1>1. ASSUME c.kind = "list", UNCHANGED stored,
             call' = [call EXCEPT ![t].state = "done", ![t].notes = ListNotes(c)]
      PROVE  NotesInv'
  <2>1. /\ ListNotes(c) \in [NoteIds -> Note]
        /\ \A n \in NoteIds : Seen(stored, n, ListNotes(c)[n])
    BY <1>0, NoRows, SeenNoRow DEF ListNotes, NotesInv, NotesTypeOK, Note, Seen
  <2>2. /\ listed \in Call /\ listed.notes = ListNotes(c) /\ listed.kind = "list"
    BY <1>0, <1>1, <2>1 DEF Call
  <2>3. TerminalOK(stored, journal[t], listed)
    BY <1>0, <1>1, <2>1, <2>2 DEF TerminalOK, CallOK, Waits
  <2>4. call' = [call EXCEPT ![t] = listed]
    BY <1>0, <1>1 DEF NotesInv, NotesTypeOK
  <2> QED
    BY <1>1, <2>2, <2>3, <2>4, CallStep DEF Perform, Expect
<1>2. ASSUME Grows, call' = [call EXCEPT ![t].state = "done"]
      PROVE  NotesInv'
  <2>1. /\ answer \in Call /\ answer.kind = c.kind /\ answer.notes = c.notes
        /\ answer.id = c.id /\ answer.revision = c.revision /\ answer.fresh = c.fresh
        /\ answer.original = c.original
    BY <1>0 DEF Call
  <2>2. call' = [call EXCEPT ![t] = answer]
    BY <1>0, <1>2 DEF NotesInv, NotesTypeOK
  <2> HIDE DEF answer
  <2>3. /\ call' \in [Terminals -> Call] /\ call'[t] = answer
        /\ \A u \in Terminals \ {t} : call'[u] = call[u]
    BY <2>1, <2>2 DEF NotesInv, NotesTypeOK
  <2>4. NotesTypeOK'
    BY <1>2, <2>3 DEF Perform, NotesInv, NotesTypeOK, Grows
  <2>5. TerminalOK(stored', journal[t], answer)
    BY <1>2, <2>1, AllStay DEF TerminalOK, CallOK, DraftOK, Waits
  <2>6. \A u \in Terminals :
          TerminalOK(stored', journal[u], call'[u]) /\ AdriftOK(stored', adrift[u])
    BY <1>2, <2>3, <2>5, AllStay
  <2> QED
    BY <2>4, <2>6 DEF NotesInv, Perform
<1>3. ASSUME WriteNote(c)
      PROVE  Grows
  BY <1>0, <1>3, WriteNoteGrows
<1>4. \/ /\ c.kind = "list" /\ UNCHANGED stored
         /\ call' = [call EXCEPT ![t].state = "done", ![t].notes = ListNotes(c)]
      \/ WriteNote(c) /\ call' = [call EXCEPT ![t].state = "done"]
  BY DEF Perform
<1> HIDE DEF c
<1> QED
  BY <1>1, <1>2, <1>3, <1>4

LEMMA InvPerformAdrift ==
    ASSUME NotesInv, NEW t \in Terminals, NEW c \in adrift[t], PerformAdrift(t, c) PROVE NotesInv'
<1>1. c \in Call /\ NotesTypeOK
  BY OneTerminal DEF NotesInv
<1>2. Grows
  BY <1>1, WriteNoteGrows DEF PerformAdrift
<1>3. NotesTypeOK'
  BY <1>1, <1>2 DEF PerformAdrift, NotesTypeOK, Grows
<1>4. ASSUME NEW u \in Terminals
      PROVE  TerminalOK(stored', journal[u], call[u]) /\ AdriftOK(stored', adrift'[u])
  <2>1. adrift'[u] \subseteq adrift[u]
    BY DEF PerformAdrift, NotesInv, NotesTypeOK
  <2> QED
    BY <1>2, <2>1, AllStay, FS_Subset DEF AdriftOK
<1> QED
  BY <1>3, <1>4 DEF PerformAdrift, NotesInv

LEMMA InvRefuseAdrift ==
    ASSUME NotesInv, NEW t \in Terminals, NEW c \in adrift[t], RefuseAdrift(t, c) PROVE NotesInv'
<1>1. adrift[t] \ {c} \in SUBSET Call /\ AdriftOK(stored, adrift[t] \ {c})
  BY OneTerminal, FS_Subset DEF AdriftOK
<1> QED
  BY <1>1, AdriftStep DEF RefuseAdrift

LEMMA InvCommandLine == ASSUME NotesInv, CommandLine PROVE NotesInv'
<1>1. PICK n \in NoteIds, s \in NoteSubjects, revision \in 1..MaxRevision, fresh \in BOOLEAN,
           restore \in BOOLEAN, body \in Bodies :
             LET c == [NoCall EXCEPT !.id = n, !.subject = s, !.revision = revision,
                                     !.fresh = fresh, !.body = body]
             IN SaveNote(c) \/ DeleteNote(c, restore)
  BY DEF CommandLine
<1> DEFINE c == [NoCall EXCEPT !.id = n, !.subject = s, !.revision = revision,
                               !.fresh = fresh, !.body = body]
<1>2. NoCall \in Call
  BY NoCallIsACall
<1>3. revision \in 0..MaxRevision /\ body \in Texts
  BY NotesAssumption DEF Texts
<1>4. c \in Call
  BY <1>2, <1>3 DEF Call
<1>5. SaveNote(c) \/ DeleteNote(c, restore)
  BY <1>1
<1> HIDE DEF c
<1>6. Grows
  BY <1>4, <1>5, SaveGrows, DeleteGrows DEF NotesInv
<1>7. NotesTypeOK'
  BY <1>6 DEF CommandLine, NotesInv, NotesTypeOK, Grows
<1> QED
  BY <1>6, <1>7, AllStay DEF CommandLine, NotesInv

LEMMA InvRefuse == ASSUME NotesInv, NEW t \in Terminals, Refuse(t) PROVE NotesInv'
<1> DEFINE c == call[t]
           answer == [c EXCEPT !.state = "failed"]
<1>0. c \in Call /\ TerminalOK(stored, journal[t], c)
  BY OneTerminal
<1>1. /\ answer \in Call /\ answer.kind = c.kind /\ answer.notes = c.notes
      /\ answer.id = c.id /\ answer.revision = c.revision /\ answer.fresh = c.fresh
      /\ answer.original = c.original
  BY <1>0 DEF Call
<1>2. call' = [call EXCEPT ![t] = answer]
  BY <1>0 DEF Refuse, NotesInv, NotesTypeOK
<1> HIDE DEF answer
<1>3. TerminalOK(stored, journal[t], answer)
  BY <1>0, <1>1 DEF TerminalOK, CallOK, DraftOK, Waits
<1> QED
  BY <1>1, <1>2, <1>3, CallStep DEF Refuse, Expect

(* A list is asked for while nothing is edited.                            *)
LEMMA InvList ==
    ASSUME NotesInv, NEW t \in Terminals, NEW j \in Journal, NEW deleted \in BOOLEAN, ~Editing(j),
           \A n \in NoteIds : Seen(stored, n, j.notes[n]),
           List(t, j, deleted), UNCHANGED <<stored, adrift>>
    PROVE  NotesInv'
<1> DEFINE k == [j EXCEPT !.pending = TRUE, !.editors = 0]
           c == [NoCall EXCEPT !.kind = "list", !.subject = j.subject, !.deleted = deleted]
<1>1. NoCall \in Call /\ NoCall.notes = NoNotes /\ 0 \in UnderWay
  BY NoCallIsACall, NoRows
<1>2. c \in Call /\ c.kind = "list" /\ c.notes = NoNotes
  BY <1>1 DEF Call, Journal
<1>3. k \in Journal /\ k.modal = j.modal /\ k.notes = j.notes /\ k.pending
  BY <1>1 DEF Journal
<1> HIDE DEF c, k
<1>4. TerminalOK(stored, k, c)
  BY <1>2, <1>3, SeenNoRow DEF TerminalOK, CallOK, Waits, Editing, NoNotes
<1>5. Show(t, k) /\ Expect(t, c)
  BY DEF List, Ask, c, k
<1> QED
  BY <1>2, <1>3, <1>4, <1>5, WindowStep

(* Waiting for nothing is always right.                                    *)
LEMMA NothingExpected ==
    ASSUME NotesInv, NEW j \in Journal, \A n \in NoteIds : Seen(stored, n, j.notes[n]),
           Editing(j) => DraftOK(stored, j.draft, j.original)
    PROVE  NoCall \in Call /\ TerminalOK(stored, j, NoCall)
<1>1. NoCall \in Call /\ NoCall.kind = "none" /\ NoCall.notes = NoNotes
  BY NoCallIsACall
<1> QED
  BY <1>1, SeenNoRow DEF TerminalOK, CallOK, Waits, NoNotes

(* A window that is left edits nothing.                                    *)
LEMMA LeftIsAJournal ==
    ASSUME NEW j \in Journal, NEW modal \in {"", "notes", "report", "quit"}
    PROVE  /\ Left(j, modal) \in Journal /\ ~Editing(Left(j, modal))
           /\ Left(j, modal).notes = j.notes /\ Left(j, modal).pending = j.pending
           /\ Left(j, modal).subject = j.subject
           /\ ClosedModal(j, modal) \in Journal /\ ~Editing(ClosedModal(j, modal))
           /\ ClosedModal(j, modal).notes = j.notes /\ ClosedModal(j, modal).pending = j.pending
<1> DEFINE k == Left(j, modal)
<1>1. SomeSubject \in NoteSubjects /\ Blank \in Texts /\ 0 \in UnderWay
  BY NoRows
<1>2. NewNote(SomeSubject) \in Draft
  BY <1>1, NewNoteIsADraft
<1>3. /\ k \in Journal /\ k.modal = modal /\ k.notes = j.notes /\ k.pending = j.pending
      /\ k.subject = j.subject
  BY <1>1, <1>2 DEF Left, Journal
<1> HIDE DEF k
<1> DEFINE m == [k EXCEPT !.subject = SomeSubject, !.editors = 0, !.exports = 0]
<1>4. /\ m \in Journal /\ m.modal = modal /\ m.notes = j.notes /\ m.pending = j.pending
  BY <1>1, <1>3 DEF Journal
<1> QED
  BY <1>3, <1>4 DEF k, m, ClosedModal, Editing

(* A window that goes on as before, or edits nothing any more.             *)
Alike(j, k) ==
    /\ k.notes = j.notes /\ k.pending = j.pending
    /\ Editing(k) => Editing(j) /\ k.draft = j.draft /\ k.original = j.original

LEMMA AlikeStep ==
    ASSUME NotesInv, NEW t \in Terminals, NEW j \in Journal, Alike(journal[t], j), Show(t, j),
           UNCHANGED <<stored, call, adrift>>
    PROVE  NotesInv'
<1>1. TerminalOK(stored, j, call[t])
  BY OneTerminal DEF TerminalOK, Waits, Alike
<1> QED
  BY <1>1, JournalStep

LEMMA LeftStep ==
    ASSUME NotesInv, NEW t \in Terminals, NEW modal \in {"", "notes", "report", "quit"}, NEW j,
           Show(t, j), j \in {Left(journal[t], modal), ClosedModal(journal[t], modal)},
           UNCHANGED <<stored, call, adrift>>
    PROVE  NotesInv'
<1>1. journal[t] \in Journal
  BY OneTerminal
<1>2. /\ j \in Journal /\ ~Editing(j)
      /\ j.notes = journal[t].notes /\ j.pending = journal[t].pending
  <2> DEFINE l == Left(journal[t], modal)
             c == ClosedModal(journal[t], modal)
  <2>1. /\ l \in Journal /\ ~Editing(l) /\ l.notes = journal[t].notes
        /\ l.pending = journal[t].pending
        /\ c \in Journal /\ ~Editing(c) /\ c.notes = journal[t].notes
        /\ c.pending = journal[t].pending
    BY <1>1, LeftIsAJournal
  <2> HIDE DEF l, c
  <2> QED
    BY <2>1 DEF l, c
<1> QED
  BY <1>2, AlikeStep DEF Alike

LEMMA InvOpenNotes ==
    ASSUME NotesInv, NEW t \in Terminals, NEW s \in NoteSubjects, OpenNotes(t, s) PROVE NotesInv'
<1> DEFINE j == [journal[t] EXCEPT !.modal = "notes", !.subject = s, !.notes = NoNotes]
<1>1. j \in Journal /\ j.modal = "notes" /\ j.notes = NoNotes
  BY OneTerminal, NoRows DEF Journal
<1> HIDE DEF j
<1>2. ~Editing(j) /\ \A n \in NoteIds : Seen(stored, n, j.notes[n])
  BY <1>1, SeenNoRow DEF Editing, NoNotes
<1>3. List(t, j, FALSE) /\ UNCHANGED <<stored, adrift>>
  BY DEF OpenNotes, j
<1> QED
  BY <1>1, <1>2, <1>3, InvList

LEMMA InvReloadJournal ==
    ASSUME NotesInv, NEW t \in Terminals, NEW deleted \in BOOLEAN, ReloadJournal(t, deleted)
    PROVE  NotesInv'
<1>1. ~Editing(journal[t])
  BY DEF ReloadJournal, Browsing, Editing
<1> QED
  BY <1>1, OneTerminal, InvList DEF ReloadJournal, TerminalOK

(* A draft of what was shown, while nothing is waited for.                 *)
LEMMA InvEdited ==
    ASSUME NotesInv, NEW t \in Terminals, NEW s \in NoteSubjects, NEW draft \in Draft,
           NEW body \in Texts, DraftOK(stored, draft, body), ~journal[t].pending,
           Show(t, Edited([journal[t] EXCEPT !.subject = s], draft, body)),
           UNCHANGED <<stored, call, adrift>>
    PROVE  NotesInv'
<1> DEFINE k == [journal[t] EXCEPT !.subject = s]
           j == Edited(k, draft, body)
<1>1. k \in Journal /\ k.notes = journal[t].notes
  BY OneTerminal DEF Journal
<1> HIDE DEF k
<1>2. /\ j \in Journal /\ j.modal = "edit" /\ j.draft = draft /\ j.original = body
      /\ j.notes = journal[t].notes
  BY <1>1 DEF Journal, Edited
<1>3. Show(t, j)
  BY DEF k
<1> HIDE DEF j
<1>4. TerminalOK(stored, j, call[t])
  BY <1>2, OneTerminal DEF TerminalOK, Waits
<1> QED
  BY <1>2, <1>3, <1>4, JournalStep

LEMMA SameSubject ==
    ASSUME NotesInv, NEW t \in Terminals
    PROVE  /\ journal[t].subject \in NoteSubjects
           /\ [journal[t] EXCEPT !.subject = journal[t].subject] = journal[t]
  BY OneTerminal DEF Journal

LEMMA InvAddNote == ASSUME NotesInv, NEW t \in Terminals, AddNote(t) PROVE NotesInv'
<1> DEFINE s == journal[t].subject
<1>1. s \in NoteSubjects /\ [journal[t] EXCEPT !.subject = s] = journal[t]
  BY SameSubject
<1>2. NewNote(s) \in Draft /\ NewNote(s).fresh /\ Blank \in Texts
  BY <1>1, NewNoteIsADraft, NoRows
<1>3. Show(t, Edited(journal[t], NewNote(s), Blank)) /\ ~journal[t].pending
  BY DEF AddNote, Browsing
<1> HIDE DEF s
<1> QED
  BY <1>1, <1>2, <1>3, InvEdited DEF AddNote, DraftOK

LEMMA InvEditNote ==
    ASSUME NotesInv, NEW t \in Terminals, NEW n \in NoteIds, EditNote(t, n) PROVE NotesInv'
<1> DEFINE note == journal[t].notes[n]
           draft == [id |-> n, subject |-> SubjectOf[n], revision |-> note.revision,
                     fresh |-> FALSE]
           s == journal[t].subject
<1>1. /\ note \in Note /\ Seen(stored, n, note) /\ note.revision # 0 /\ ~note.deleted
      /\ Show(t, Edited(journal[t], draft, note.body)) /\ ~journal[t].pending
  BY OneTerminal DEF EditNote, Browsing, TerminalOK
<1>2. /\ draft \in Draft /\ note.body \in Texts /\ draft.id = n
      /\ draft.revision = note.revision
  BY <1>1, NotesAssumption DEF Draft, Note
<1>3. s \in NoteSubjects /\ [journal[t] EXCEPT !.subject = s] = journal[t]
  BY SameSubject
<1> HIDE DEF note, draft, s
<1>4. DraftOK(stored, draft, note.body)
  BY <1>1, <1>2 DEF DraftOK, Seen
<1> QED
  BY <1>1, <1>2, <1>3, <1>4, InvEdited DEF EditNote

LEMMA InvWriteFromReport ==
    ASSUME NotesInv, NEW t \in Terminals, NEW s \in NoteSubjects, NEW body \in Bodies,
           WriteFromReport(t, s, body)
    PROVE  NotesInv'
<1> DEFINE j == [journal[t] EXCEPT !.subject = s]
<1>1. CASE journal[t].pending
  <2>1. j \in Journal /\ Alike(journal[t], j) /\ j.pending
    BY <1>1, OneTerminal DEF Journal, Alike, Editing
  <2> QED
    BY <1>1, <2>1, AlikeStep DEF WriteFromReport
<1>2. CASE ~journal[t].pending
  <2>1. ~j.pending
    BY <1>2, OneTerminal DEF Journal
  <2>2. NewNote(s) \in Draft /\ DraftOK(stored, NewNote(s), body) /\ body \in Texts
    BY NewNoteIsADraft DEF DraftOK, Texts
  <2>3. Show(t, Edited(j, NewNote(s), body)) /\ UNCHANGED <<stored, call, adrift>>
    BY <2>1 DEF WriteFromReport
  <2> QED
    BY <1>2, <2>2, <2>3, InvEdited
<1> QED
  BY <1>1, <1>2

(* The text, the editors and the exports of a window, and its name.        *)
LEMMA InvType ==
    ASSUME NotesInv, NEW t \in Terminals, NEW text \in Texts, Type(t, text) \/ Paste(t, text)
    PROVE  NotesInv'
<1> DEFINE j == [journal[t] EXCEPT !.text = text]
<1>1. j \in Journal /\ Alike(journal[t], j)
  BY OneTerminal DEF Journal, Alike, Editing
<1> QED
  BY <1>1, AlikeStep DEF Type, Paste

LEMMA Room ==
    ASSUME NotesInv, NEW t \in Terminals, Spare(t)
    PROVE  journal[t].editors + 1 \in UnderWay /\ journal[t].exports + 1 \in UnderWay
<1>1. Cardinality(adrift[t]) \in Nat
  BY OneTerminal, FS_CardinalityType DEF AdriftOK
<1>2. journal[t].editors \in UnderWay /\ journal[t].exports \in UnderWay
  BY OneTerminal DEF Journal
<1> QED
  BY <1>1, <1>2, NotesAssumption DEF Spare, UnderWay

LEMMA InvOpenNoteEditor == ASSUME NotesInv, NEW t \in Terminals, OpenNoteEditor(t) PROVE NotesInv'
<1> DEFINE j == [journal[t] EXCEPT !.external = TRUE, !.editors = @ + 1]
<1>1. j \in Journal /\ Alike(journal[t], j)
  BY OneTerminal, Room DEF OpenNoteEditor, Journal, Alike, Editing
<1> QED
  BY <1>1, AlikeStep DEF OpenNoteEditor

LEMMA InvEditorFinished ==
    ASSUME NotesInv, NEW t \in Terminals, NEW text \in Texts, EditorFinished(t, text) PROVE NotesInv'
<1> DEFINE j == [journal[t] EXCEPT !.editors = @ - 1, !.external = FALSE, !.text = text]
           k == [journal[t] EXCEPT !.editors = @ - 1]
<1>1. journal[t].editors - 1 \in UnderWay
  <2>1. journal[t].editors \in UnderWay /\ journal[t].editors > 0
    BY OneTerminal DEF EditorFinished, Journal
  <2> QED
    BY <2>1, NotesAssumption DEF UnderWay
<1>2. j \in Journal /\ Alike(journal[t], j) /\ k \in Journal /\ Alike(journal[t], k)
  BY <1>1, OneTerminal DEF Journal, Alike, Editing
<1>3. Show(t, j) \/ Show(t, k)
  BY DEF EditorFinished
<1> HIDE DEF j, k
<1> QED
  BY <1>2, <1>3, AlikeStep DEF EditorFinished

LEMMA InvEditorFailed == ASSUME NotesInv, NEW t \in Terminals, EditorFailed(t) PROVE NotesInv'
  BY OneTerminal, InvEditorFinished DEF EditorFailed

LEMMA InvKeepEditing == ASSUME NotesInv, NEW t \in Terminals, KeepEditing(t) PROVE NotesInv'
<1> DEFINE j == [journal[t] EXCEPT !.modal = "edit", !.quitting = FALSE]
<1>1. j \in Journal /\ Alike(journal[t], j)
  BY OneTerminal DEF KeepEditing, Journal, Alike, Editing
<1> QED
  BY <1>1, AlikeStep DEF KeepEditing

LEMMA InvSaveJournal == ASSUME NotesInv, NEW t \in Terminals, SaveJournal(t) PROVE NotesInv'
<1> DEFINE was == journal[t]
           j == [was EXCEPT !.modal = "edit", !.quitting = FALSE]
           k == [j EXCEPT !.pending = TRUE, !.editors = 0]
           c == [NoCall EXCEPT !.kind = "save", !.subject = was.draft.subject,
                               !.id = was.draft.id, !.revision = was.draft.revision,
                               !.fresh = was.draft.fresh, !.body = was.text,
                               !.original = was.original]
<1>1. /\ k \in Journal /\ k.modal = "edit" /\ k.draft = was.draft
      /\ k.original = was.original /\ k.notes = was.notes /\ k.pending
  BY OneTerminal, NoRows DEF Journal
<1>2. NoCall \in Call /\ NoCall.notes = NoNotes
  BY NoCallIsACall
<1>3. /\ was.draft.id \in NoteIds /\ was.draft.revision \in 0..MaxRevision
      /\ was.draft.subject \in NoteSubjects
      /\ was.draft.fresh \in BOOLEAN /\ was.text \in Texts /\ was.original \in Texts
  BY OneTerminal DEF Draft
<1> HIDE DEF was
<1>4. /\ c \in Call /\ c.kind = "save" /\ c.id = was.draft.id /\ c.notes = NoNotes
      /\ c.revision = was.draft.revision /\ (c.fresh <=> was.draft.fresh)
      /\ c.original = was.original
  BY <1>2, <1>3 DEF Call
<1>5. Show(t, k) /\ Expect(t, c) /\ UNCHANGED <<stored, adrift>>
  BY DEF SaveJournal, Ask, was
<1> HIDE DEF j, k, c
<1>6. /\ \A n \in NoteIds : Seen(stored, n, was.notes[n])
      /\ DraftOK(stored, was.draft, was.original)
  BY OneTerminal DEF SaveJournal, TerminalOK, Editing, was
<1>7. CallOK(stored, c)
  BY <1>4, <1>6, SeenNoRow DEF CallOK, DraftOK, NoNotes
<1>8. TerminalOK(stored, k, c)
  BY <1>1, <1>4, <1>6, <1>7 DEF TerminalOK, Waits
<1> QED
  BY <1>1, <1>4, <1>5, <1>8, WindowStep

LEMMA InvDeleteJournal ==
    ASSUME NotesInv, NEW t \in Terminals, NEW n \in NoteIds, NEW kind \in {"delete", "restore"},
           DeleteJournal(t, n, kind)
    PROVE  NotesInv'
<1> DEFINE k == [journal[t] EXCEPT !.pending = TRUE, !.editors = 0]
           c == [NoCall EXCEPT !.kind = kind, !.subject = SubjectOf[n], !.id = n,
                               !.revision = journal[t].notes[n].revision]
<1>1. NoCall \in Call /\ NoCall.notes = NoNotes
  BY NoCallIsACall
<1>2. journal[t].notes[n].revision \in 0..MaxRevision /\ SubjectOf[n] \in NoteSubjects
  BY OneTerminal, NotesAssumption DEF Note
<1>3. c \in Call /\ c.kind = kind /\ c.notes = NoNotes
  BY <1>1, <1>2 DEF Call
<1>4. /\ k \in Journal /\ k.modal = "notes" /\ k.notes = journal[t].notes /\ k.pending
  BY OneTerminal, NoRows DEF DeleteJournal, Browsing, Journal
<1>5. Show(t, k) /\ Expect(t, c) /\ UNCHANGED <<stored, adrift>>
  BY DEF DeleteJournal, Ask
<1> HIDE DEF c, k
<1>6. TerminalOK(stored, k, c)
  BY <1>3, <1>4, OneTerminal, SeenNoRow DEF TerminalOK, CallOK, Waits, Editing, NoNotes
<1> QED
  BY <1>3, <1>4, <1>5, <1>6, WindowStep

LEMMA InvCancelEdit ==
    ASSUME NotesInv, NEW t \in Terminals, NEW quit \in BOOLEAN, CancelEdit(t, quit) PROVE NotesInv'
<1> DEFINE j == [journal[t] EXCEPT !.modal = "discard", !.quitting = quit]
<1>1. CASE Show(t, j)
  <2>1. j \in Journal /\ Alike(journal[t], j)
    BY OneTerminal DEF CancelEdit, Journal, Alike, Editing
  <2> QED
    BY <1>1, <2>1, AlikeStep DEF CancelEdit
<1>2. CASE Show(t, Left(journal[t], "notes"))
  BY <1>2, LeftStep DEF CancelEdit
<1> QED
  BY <1>1, <1>2 DEF CancelEdit

LEMMA InvLeaving ==
    ASSUME NotesInv, NEW t \in Terminals, Discard(t) \/ CloseJournal(t) \/ QuitJournal(t)
    PROVE  NotesInv'
<1>1. PICK modal \in {"", "notes", "quit"} :
        Show(t, Left(journal[t], modal)) \/ Show(t, ClosedModal(journal[t], modal))
  BY DEF Discard, CloseJournal, QuitJournal
<1> QED
  BY <1>1, LeftStep DEF Discard, CloseJournal, QuitJournal

LEMMA InvOpenReport == ASSUME NotesInv, NEW t \in Terminals, OpenReport(t) PROVE NotesInv'
<1> DEFINE j == [journal[t] EXCEPT !.modal = "report"]
<1>1. j \in Journal /\ Alike(journal[t], j)
  BY OneTerminal DEF Journal, Alike, Editing
<1> QED
  BY <1>1, AlikeStep DEF OpenReport

LEMMA InvStartExport == ASSUME NotesInv, NEW t \in Terminals, StartExport(t) PROVE NotesInv'
<1> DEFINE j == [journal[t] EXCEPT !.exports = @ + 1]
<1>1. j \in Journal /\ Alike(journal[t], j)
  BY OneTerminal, Room DEF StartExport, Journal, Alike, Editing
<1> QED
  BY <1>1, AlikeStep DEF StartExport

LEMMA InvForgetExports == ASSUME NotesInv, NEW t \in Terminals, ForgetExports(t) PROVE NotesInv'
<1> DEFINE j == [journal[t] EXCEPT !.exports = 0]
<1>1. j \in Journal /\ Alike(journal[t], j)
  BY OneTerminal, NoRows DEF Journal, Alike, Editing
<1> QED
  BY <1>1, AlikeStep DEF ForgetExports

LEMMA InvExported == ASSUME NotesInv, NEW t \in Terminals, Exported(t) PROVE NotesInv'
<1> DEFINE j == [journal[t] EXCEPT !.exports = @ - 1]
<1>1. journal[t].exports - 1 \in UnderWay
  <2>1. journal[t].exports \in UnderWay /\ journal[t].exports > 0
    BY OneTerminal DEF Exported, Journal
  <2> QED
    BY <2>1, NotesAssumption DEF UnderWay
<1>2. j \in Journal /\ Alike(journal[t], j)
  BY <1>1, OneTerminal DEF Journal, Alike, Editing
<1>3. Show(t, Left(j, "report")) \/ Show(t, j)
  BY DEF Exported
<1> HIDE DEF j
<1>4. Left(j, "report") \in Journal /\ Alike(journal[t], Left(j, "report"))
  BY <1>2, LeftIsAJournal DEF Alike
<1> QED
  BY <1>2, <1>3, <1>4, AlikeStep DEF Exported

(* A write that nobody waits for any more is the write it was.             *)
LEMMA InvCloseReport == ASSUME NotesInv, NEW t \in Terminals, CloseReport(t) PROVE NotesInv'
<1> DEFINE j == ClosedModal(journal[t], "")
           d == IF Adrift(call[t]) THEN adrift[t] \cup {call[t]} ELSE adrift[t]
<1>1. j \in Journal /\ ~Editing(j) /\ j.notes = journal[t].notes
  BY OneTerminal, LeftIsAJournal
<1>2. d \in SUBSET Call
  BY OneTerminal
<1>3. AdriftOK(stored, d)
  BY OneTerminal, FS_AddElement DEF AdriftOK, TerminalOK
<1>4. /\ journal' = [journal EXCEPT ![t] = j] /\ call' = [call EXCEPT ![t] = NoCall]
      /\ adrift' = [adrift EXCEPT ![t] = d] /\ UNCHANGED stored
  BY DEF CloseReport, Show, Expect
<1> HIDE DEF j, d
<1>5. NoCall \in Call /\ TerminalOK(stored, j, NoCall)
  BY <1>1, OneTerminal, NothingExpected DEF TerminalOK
<1> QED
  BY <1>1, <1>2, <1>3, <1>4, <1>5, TerminalStep

LEMMA InvListed == ASSUME NotesInv, NEW t \in Terminals, Listed(t) PROVE NotesInv'
<1> DEFINE j == [journal[t] EXCEPT !.pending = FALSE, !.notes = call[t].notes]
           k == [journal[t] EXCEPT !.pending = FALSE]
<1>1. PICK m \in {j, k, journal[t]} : Show(t, m)
  BY DEF Listed
<1>2. /\ j \in Journal /\ j.modal = journal[t].modal /\ j.notes = call[t].notes
      /\ j.draft = journal[t].draft /\ j.original = journal[t].original
      /\ k \in Journal /\ k.modal = journal[t].modal /\ k.notes = journal[t].notes
      /\ k.draft = journal[t].draft /\ k.original = journal[t].original
  BY OneTerminal DEF Journal
<1> HIDE DEF j, k
<1>3. /\ m \in Journal /\ \A n \in NoteIds : Seen(stored, n, m.notes[n])
      /\ Editing(m) => DraftOK(stored, m.draft, m.original)
  BY <1>2, OneTerminal DEF TerminalOK, CallOK, Editing
<1>4. NoCall \in Call /\ TerminalOK(stored, m, NoCall)
  BY <1>3, NothingExpected
<1> QED
  BY <1>1, <1>3, <1>4, WindowStep DEF Listed

LEMMA InvSaved == ASSUME NotesInv, NEW t \in Terminals, Saved(t) PROVE NotesInv'
<1>1. CASE List(t, Left(journal[t], "notes"), FALSE)
  <2>1. /\ Left(journal[t], "notes") \in Journal /\ ~Editing(Left(journal[t], "notes"))
        /\ \A n \in NoteIds : Seen(stored, n, Left(journal[t], "notes").notes[n])
    BY OneTerminal, LeftIsAJournal DEF TerminalOK
  <2> QED
    BY <1>1, <2>1, InvList DEF Saved
<1>2. CASE Show(t, [journal[t] EXCEPT !.pending = ~Heard(t)]) /\ Expect(t, NoCall)
  <2> DEFINE j == [journal[t] EXCEPT !.pending = ~Heard(t)]
  <2>1. PICK b \in BOOLEAN : b <=> ~Heard(t)
    OBVIOUS
  <2>2. /\ j \in Journal /\ j.modal = journal[t].modal /\ j.notes = journal[t].notes
        /\ j.draft = journal[t].draft /\ j.original = journal[t].original
    BY <2>1, OneTerminal DEF Journal, Heard
  <2> HIDE DEF j
  <2>3. NoCall \in Call /\ TerminalOK(stored, j, NoCall)
    BY <2>2, OneTerminal, NothingExpected DEF TerminalOK, Editing
  <2>4. Show(t, j)
    BY <1>2 DEF j
  <2> QED
    BY <1>2, <2>2, <2>3, <2>4, WindowStep DEF Saved
<1> QED
  BY <1>1, <1>2 DEF Saved

-----------------------------------------------------------------------------
LEMMA NotesInvInit == NotesInit => NotesInv
<1> SUFFICES ASSUME NotesInit PROVE NotesInv
  OBVIOUS
<1> DEFINE j == [modal |-> "", subject |-> SomeSubject, notes |-> NoNotes,
                 draft |-> NewNote(SomeSubject), original |-> Blank, text |-> Blank,
                 external |-> FALSE, quitting |-> FALSE,
                 pending |-> FALSE, editors |-> 0, exports |-> 0]
<1>1. j \in Journal /\ NoCall \in Call
  BY NoRows, NewNoteIsADraft, NoCallIsACall DEF Journal
<1>2. NotesTypeOK
  BY <1>1, NoRows DEF NotesInit, NotesTypeOK
<1>3. \A n \in NoteIds : Seen(stored, n, NoRow)
  <2>1. NoRow.revision = 0 /\ \A n \in NoteIds : stored[n] = NoRow
    BY DEF NotesInit, NoNotes, NoRow
  <2> QED
    BY <2>1 DEF Seen
<1>4. TerminalOK(stored, j, NoCall)
  BY <1>3, NoCallIsACall DEF TerminalOK, CallOK, Waits, Editing, NoNotes
<1>5. AdriftOK(stored, {})
  BY FS_EmptySet DEF AdriftOK
<1> QED
  BY <1>2, <1>4, <1>5 DEF NotesInit, NotesInv

LEMMA NotesInvNext == NotesInv /\ [NotesNext]_notesVars => NotesInv'
<1> SUFFICES ASSUME NotesInv, [NotesNext]_notesVars PROVE NotesInv'
  OBVIOUS
<1>1. CASE UNCHANGED notesVars
  BY <1>1 DEF notesVars, NotesInv, NotesTypeOK
<1>2. CASE CommandLine
  BY <1>2, InvCommandLine
<1>3. ASSUME NEW t \in Terminals,
             \/ Perform(t) \/ Refuse(t) \/ Listed(t) \/ Saved(t)
             \/ AddNote(t) \/ SaveJournal(t) \/ Discard(t) \/ KeepEditing(t)
             \/ CloseJournal(t) \/ QuitJournal(t) \/ OpenNoteEditor(t) \/ EditorFailed(t)
      PROVE  NotesInv'
  BY <1>3, InvPerform, InvRefuse, InvListed, InvSaved, InvAddNote, InvSaveJournal,
     InvLeaving, InvKeepEditing, InvOpenNoteEditor, InvEditorFailed
<1>4. ASSUME NEW t \in Terminals,
             \/ OpenReport(t) \/ StartExport(t) \/ Exported(t) \/ ForgetExports(t)
             \/ CloseReport(t)
             \/ \E c \in adrift[t] : PerformAdrift(t, c) \/ RefuseAdrift(t, c)
      PROVE  NotesInv'
  BY <1>4, InvOpenReport, InvStartExport, InvExported, InvForgetExports, InvCloseReport,
     InvPerformAdrift, InvRefuseAdrift
<1>5. ASSUME NEW t \in Terminals, NEW flag \in BOOLEAN,
             ReloadJournal(t, flag) \/ CancelEdit(t, flag)
      PROVE  NotesInv'
  BY <1>5, InvReloadJournal, InvCancelEdit
<1>6. ASSUME NEW t \in Terminals, NEW n \in NoteIds,
             EditNote(t, n) \/ DeleteJournal(t, n, "delete") \/ DeleteJournal(t, n, "restore")
      PROVE  NotesInv'
  BY <1>6, InvEditNote, InvDeleteJournal
<1>7. ASSUME NEW t \in Terminals, NEW text \in Texts,
             Type(t, text) \/ Paste(t, text) \/ EditorFinished(t, text)
      PROVE  NotesInv'
  BY <1>7, InvType, InvEditorFinished
<1>8. ASSUME NEW t \in Terminals, NEW s \in NoteSubjects,
             OpenNotes(t, s) \/ \E body \in Bodies : WriteFromReport(t, s, body)
      PROVE  NotesInv'
  BY <1>8, InvOpenNotes, InvWriteFromReport
<1> QED
  BY <1>1, <1>2, <1>3, <1>4, <1>5, <1>6, <1>7, <1>8 DEF NotesNext

(* Notes, windows and calls keep their types, and NotesInv holds.               *)
THEOREM NotesInvariant == NotesSpec => []NotesInv
  BY NotesInvInit, NotesInvNext, PTL DEF NotesSpec

(* The table, the windows and the calls have their types.                  *)
THEOREM NotesTypeCorrect == NotesSpec => []NotesTypeOK
<1>1. NotesInv => NotesTypeOK
  BY DEF NotesInv
<1> QED
  BY <1>1, NotesInvariant, PTL

-----------------------------------------------------------------------------
(* Only the store answers: a question is one nobody has answered.          *)
LEMMA ExpectingAnswersNothing ==
    ASSUME NotesInv, NEW t \in Terminals, NEW u \in Terminals, NEW c, c.state # "done", Expect(u, c),
           call[t].state # "done"
    PROVE  call'[t].state # "done"
  BY DEF NotesInv, NotesTypeOK, Expect

LEMMA OnlyTheStoreAnswers ==
    ASSUME NotesInv, [NotesNext]_notesVars, NEW t \in Terminals,
           call[t].state = "asked", call'[t].state = "done"
    PROVE  Perform(t)
<1>1. CASE UNCHANGED call
  BY <1>1
<1>2. ASSUME NEW u \in Terminals, Perform(u)
      PROVE  Perform(t)
  BY <1>2 DEF Perform, NotesInv, NotesTypeOK
<1>3. ASSUME NEW u \in Terminals, Refuse(u)
      PROVE  FALSE
  BY <1>3 DEF Refuse, NotesInv, NotesTypeOK
<1>4. NoCall.state # "done"
  BY DEF NoCall
<1>5. ASSUME NEW u \in Terminals, NEW j, NEW deleted \in BOOLEAN, List(u, j, deleted)
      PROVE  FALSE
  <2> DEFINE c == [NoCall EXCEPT !.kind = "list", !.subject = j.subject, !.deleted = deleted]
  <2>1. c.state # "done"
    BY DEF NoCall
  <2> QED
    BY <1>5, <2>1, ExpectingAnswersNothing DEF List, Ask
<1>6. ASSUME NEW u \in Terminals, Expect(u, NoCall)
      PROVE  FALSE
  BY <1>4, <1>6, ExpectingAnswersNothing
<1>7. ASSUME NEW u \in Terminals, SaveJournal(u)
      PROVE  FALSE
  <2> DEFINE c == [NoCall EXCEPT !.kind = "save", !.subject = journal[u].draft.subject,
                                 !.id = journal[u].draft.id,
                                 !.revision = journal[u].draft.revision,
                                 !.fresh = journal[u].draft.fresh, !.body = journal[u].text,
                                 !.original = journal[u].original]
  <2>1. c.state # "done"
    BY DEF NoCall
  <2> QED
    BY <1>7, <2>1, ExpectingAnswersNothing DEF SaveJournal, Ask
<1>8. ASSUME NEW u \in Terminals, NEW n \in NoteIds, NEW kind \in {"delete", "restore"},
             DeleteJournal(u, n, kind)
      PROVE  FALSE
  <2> DEFINE c == [NoCall EXCEPT !.kind = kind, !.subject = SubjectOf[n], !.id = n,
                                 !.revision = journal[u].notes[n].revision]
  <2>1. c.state # "done"
    BY DEF NoCall
  <2> QED
    BY <1>8, <2>1, ExpectingAnswersNothing DEF DeleteJournal, Ask
<1>9. ASSUME NEW u \in Terminals,
             \/ Listed(u) \/ Saved(u) \/ CloseReport(u)
             \/ \E s \in NoteSubjects : OpenNotes(u, s)
             \/ \E flag \in BOOLEAN : ReloadJournal(u, flag)
      PROVE  FALSE
  BY <1>5, <1>6, <1>9 DEF Listed, Saved, CloseReport, OpenNotes, ReloadJournal
<1>10. ASSUME CommandLine \/
              \E u \in Terminals :
                 \/ AddNote(u) \/ Discard(u) \/ KeepEditing(u) \/ CloseJournal(u)
                 \/ QuitJournal(u) \/ OpenNoteEditor(u) \/ EditorFailed(u)
                 \/ OpenReport(u) \/ StartExport(u) \/ Exported(u) \/ ForgetExports(u)
                 \/ \E c \in adrift[u] : PerformAdrift(u, c) \/ RefuseAdrift(u, c)
                 \/ \E flag \in BOOLEAN : CancelEdit(u, flag)
                 \/ \E n \in NoteIds : EditNote(u, n)
                 \/ \E text \in Texts : Type(u, text) \/ Paste(u, text) \/ EditorFinished(u, text)
                 \/ \E s \in NoteSubjects, body \in Bodies : WriteFromReport(u, s, body)
       PROVE  UNCHANGED call
  BY <1>10 DEF CommandLine, AddNote, Discard, KeepEditing, CloseJournal, QuitJournal,
     OpenNoteEditor, EditorFailed, OpenReport, StartExport, Exported, ForgetExports,
     PerformAdrift, RefuseAdrift, CancelEdit, EditNote, Type, Paste, EditorFinished,
     WriteFromReport
<1> QED
  BY <1>1, <1>2, <1>3, <1>7, <1>8, <1>9, <1>10 DEF NotesNext, notesVars

(* And what is adrift is gone with the table changed when it is performed. *)
LEMMA OnlyItsOwnPerformance ==
    ASSUME NotesInv, [NotesNext]_notesVars, NEW t \in Terminals, NEW c \in adrift[t],
           c \notin adrift'[t], stored' # stored
    PROVE  PerformAdrift(t, c)
<1>1. CASE UNCHANGED adrift
  BY <1>1
<1>2. CASE UNCHANGED stored
  BY <1>2
<1>3. ASSUME NEW u \in Terminals, NEW d \in adrift[u], PerformAdrift(u, d)
      PROVE  PerformAdrift(t, c)
  BY <1>3 DEF PerformAdrift, NotesInv, NotesTypeOK
<1>4. ASSUME NEW u \in Terminals, \E d \in adrift[u] : RefuseAdrift(u, d)
      PROVE  UNCHANGED stored
  BY <1>4 DEF RefuseAdrift
<1>5. ASSUME NEW u \in Terminals,
             \/ Listed(u) \/ Saved(u) \/ CloseReport(u) \/ SaveJournal(u) \/ Refuse(u)
             \/ \E s \in NoteSubjects : OpenNotes(u, s)
             \/ \E flag \in BOOLEAN : ReloadJournal(u, flag)
             \/ \E n \in NoteIds, kind \in {"delete", "restore"} : DeleteJournal(u, n, kind)
      PROVE  UNCHANGED stored
  BY <1>5 DEF Listed, Saved, CloseReport, SaveJournal, Refuse, OpenNotes, ReloadJournal,
     DeleteJournal
<1>6. ASSUME CommandLine \/ \E u \in Terminals : Perform(u)
      PROVE  UNCHANGED adrift
  BY <1>6 DEF CommandLine, Perform
<1>7. ASSUME \E u \in Terminals :
                 \/ AddNote(u) \/ Discard(u) \/ KeepEditing(u) \/ CloseJournal(u)
                 \/ QuitJournal(u) \/ OpenNoteEditor(u) \/ EditorFailed(u)
                 \/ OpenReport(u) \/ StartExport(u) \/ Exported(u) \/ ForgetExports(u)
                 \/ \E flag \in BOOLEAN : CancelEdit(u, flag)
                 \/ \E n \in NoteIds : EditNote(u, n)
                 \/ \E text \in Texts : Type(u, text) \/ Paste(u, text) \/ EditorFinished(u, text)
                 \/ \E s \in NoteSubjects, body \in Bodies : WriteFromReport(u, s, body)
       PROVE  UNCHANGED adrift
  BY <1>7 DEF AddNote, Discard, KeepEditing, CloseJournal, QuitJournal,
     OpenNoteEditor, EditorFailed, OpenReport, StartExport, Exported, ForgetExports,
     CancelEdit, EditNote, Type, Paste, EditorFinished, WriteFromReport
<1> QED
  BY <1>1, <1>2, <1>3, <1>4, <1>5, <1>6, <1>7 DEF NotesNext, notesVars

LEMMA SavesReplaceWhatWasSeen ==
    ASSUME NotesInv, [NotesNext]_notesVars, NEW t \in Terminals, NEW c \in adrift[t] \cup {call[t]},
           Performed(t, c), c.kind = "save", ~c.fresh
    PROVE  ~stored[c.id].deleted /\ stored[c.id].body = c.original
<1>1. PerformAdrift(t, c) \/ (c = call[t] /\ Perform(t))
  BY OnlyTheStoreAnswers, OnlyItsOwnPerformance DEF Performed
<1>2. SaveNote(c)
  BY <1>1 DEF PerformAdrift, Perform, WriteNote
<1>3. stored[c.id].revision = c.revision
  BY <1>2 DEF SaveNote, RevisionMatches
<1>4. DraftOK(stored, c, c.original)
  BY OneTerminal DEF TerminalOK, AdriftOK, CallOK
<1> QED
  BY <1>3, <1>4 DEF DraftOK

-----------------------------------------------------------------------------
(* A window changes with its own terminal only.                            *)
LEMMA ItsOwnWindow ==
    ASSUME NotesInv, NEW t \in Terminals, NEW u \in Terminals, NEW j, Show(u, j),
           Editing(journal[t]), ~Editing(journal'[t])
    PROVE  u = t /\ journal'[t] = j /\ ~Editing(j)
<1>1. u = t
  BY DEF Show, NotesInv, NotesTypeOK
<1> QED
  BY <1>1 DEF Show, NotesInv, NotesTypeOK

(* What the answer that is waited for may do to a window with a draft.     *)
LEMMA OnlySavesEndDrafts ==
    ASSUME NotesInv, NEW t \in Terminals, NEW u \in Terminals, Listed(u) \/ Saved(u),
           Editing(journal[t]), ~Editing(journal'[t])
    PROVE  Accepted(t)
<1>1. ASSUME NEW j \in Journal, Show(u, j), j.modal = journal[u].modal
      PROVE  FALSE
  BY <1>1, ItsOwnWindow DEF Editing
<1>2. /\ journal[u] \in Journal /\ [journal[u] EXCEPT !.pending = FALSE] \in Journal
      /\ [journal[u] EXCEPT !.pending = FALSE].modal = journal[u].modal
      /\ [journal[u] EXCEPT !.pending = FALSE, !.notes = call[u].notes] \in Journal
      /\ [journal[u] EXCEPT !.pending = FALSE, !.notes = call[u].notes].modal = journal[u].modal
  BY OneTerminal DEF Journal
<1>3. ~Listed(u)
  BY <1>1, <1>2 DEF Listed
<1>4. CASE Show(u, [journal[u] EXCEPT !.pending = ~Heard(u)])
  <2>1. PICK b \in BOOLEAN : b <=> ~Heard(u)
    OBVIOUS
  <2>2. /\ [journal[u] EXCEPT !.pending = ~Heard(u)] \in Journal
        /\ [journal[u] EXCEPT !.pending = ~Heard(u)].modal = journal[u].modal
    BY <2>1, OneTerminal DEF Journal, Heard
  <2> QED
    BY <1>1, <1>4, <2>2
<1>5. CASE call[u].state = "done" /\ List(u, Left(journal[u], "notes"), FALSE)
  <2>1. u = t
    BY <1>5, ItsOwnWindow DEF List, Ask
  <2>2. call[t].kind = "save"
    BY <1>3, <2>1, OneTerminal DEF Saved, TerminalOK, Waits
  <2> QED
    BY <1>5, <2>1, <2>2 DEF Accepted
<1> QED
  BY <1>3, <1>4, <1>5 DEF Saved

LEMMA DraftsAreNotLost ==
    ASSUME NotesInv, [NotesNext]_notesVars, NEW t \in Terminals, Unsaved(t), ~Editing(journal'[t])
    PROVE  journal[t].modal = "discard" \/ Accepted(t) \/ ReportReturns(t)
<1>0. Editing(journal[t]) /\ journal[t].text # journal[t].original
  BY DEF Unsaved, Editing
<1>1. CASE UNCHANGED journal
  BY <1>0, <1>1
<1>2. ASSUME CommandLine \/
             \E u \in Terminals :
                Perform(u) \/ Refuse(u)
                \/ \E c \in adrift[u] : PerformAdrift(u, c) \/ RefuseAdrift(u, c)
      PROVE  UNCHANGED journal
  BY <1>2 DEF CommandLine, Perform, Refuse, PerformAdrift, RefuseAdrift
<1>3. ASSUME NEW u \in Terminals, NEW j, Show(u, j), ~Editing(journal[u])
      PROVE  FALSE
  BY <1>0, <1>3, ItsOwnWindow
<1>4. ASSUME NEW u \in Terminals, NEW j, Show(u, j), Editing(j)
      PROVE  FALSE
  BY <1>0, <1>4, ItsOwnWindow
<1>5. ASSUME NEW u \in Terminals, NEW j \in Journal, Show(u, j), j.modal = journal[u].modal
      PROVE  FALSE
  BY <1>3, <1>4, <1>5 DEF Editing
<1>6. ASSUME NEW u \in Terminals,
             \/ AddNote(u) \/ CloseJournal(u) \/ QuitJournal(u) \/ OpenReport(u)
             \/ StartExport(u) \/ ForgetExports(u) \/ CloseReport(u)
             \/ \E s \in NoteSubjects : OpenNotes(u, s)
             \/ \E flag \in BOOLEAN : ReloadJournal(u, flag)
             \/ \E n \in NoteIds : EditNote(u, n)
             \/ \E n \in NoteIds, kind \in {"delete", "restore"} : DeleteJournal(u, n, kind)
             \/ \E s \in NoteSubjects, body \in Bodies : WriteFromReport(u, s, body)
      PROVE  FALSE
  <2>1. PICK j : Show(u, j)
    BY <1>6 DEF AddNote, CloseJournal, QuitJournal, OpenReport, StartExport, ForgetExports,
       CloseReport, OpenNotes, ReloadJournal, EditNote, DeleteJournal, WriteFromReport, List, Ask
  <2>2. ~Editing(journal[u])
    BY <1>6 DEF AddNote, CloseJournal, QuitJournal, OpenReport, StartExport, ForgetExports,
       CloseReport, OpenNotes, ReloadJournal, EditNote, DeleteJournal, WriteFromReport,
       Browsing, Editing
  <2> QED
    BY <1>3, <2>1, <2>2
<1>7. ASSUME NEW u \in Terminals, NEW text \in Texts,
             Type(u, text) \/ Paste(u, text) \/ EditorFinished(u, text)
      PROVE  FALSE
  <2> DEFINE typed == [journal[u] EXCEPT !.text = text]
             done == [journal[u] EXCEPT !.editors = @ - 1, !.external = FALSE, !.text = text]
             dropped == [journal[u] EXCEPT !.editors = @ - 1]
  <2>1. /\ typed.modal = journal[u].modal /\ done.modal = journal[u].modal
        /\ dropped.modal = journal[u].modal
    BY OneTerminal DEF Journal
  <2>2. PICK j \in {typed, done, dropped} : Show(u, j)
    BY <1>7 DEF Type, Paste, EditorFinished
  <2>3. j.modal = journal[u].modal
    BY <2>1, <2>2
  <2> QED
    BY <1>3, <1>4, <2>2, <2>3 DEF Editing
<1>8. ASSUME NEW u \in Terminals, EditorFailed(u)
      PROVE  FALSE
  BY <1>7, <1>8, OneTerminal DEF EditorFailed
<1>9. ASSUME NEW u \in Terminals, SaveJournal(u) \/ KeepEditing(u)
      PROVE  FALSE
  <2> DEFINE j == [journal[u] EXCEPT !.modal = "edit", !.quitting = FALSE]
             k == [j EXCEPT !.pending = TRUE, !.editors = 0]
  <2>1. j.modal = "edit" /\ k.modal = "edit"
    BY OneTerminal DEF Journal
  <2> QED
    BY <1>4, <1>9, <2>1 DEF SaveJournal, KeepEditing, Ask, Editing
<1>10. ASSUME NEW u \in Terminals, OpenNoteEditor(u)
       PROVE  FALSE
  <2> DEFINE j == [journal[u] EXCEPT !.external = TRUE, !.editors = @ + 1]
  <2>1. j.modal = "edit"
    BY <1>10, OneTerminal DEF OpenNoteEditor, Journal
  <2> QED
    BY <1>4, <1>10, <2>1 DEF OpenNoteEditor, Editing
<1>11. ASSUME NEW u \in Terminals, NEW flag \in BOOLEAN, CancelEdit(u, flag)
       PROVE  FALSE
  <2> DEFINE j == [journal[u] EXCEPT !.modal = "discard", !.quitting = flag]
  <2>1. j.modal = "discard"
    BY OneTerminal DEF Journal
  <2>2. CASE Show(u, j)
    BY <1>4, <2>1, <2>2 DEF Editing
  <2>3. CASE journal[u].text = journal[u].original /\ Show(u, Left(journal[u], "notes"))
    BY <1>0, <2>3, ItsOwnWindow
  <2> QED
    BY <1>11, <2>2, <2>3 DEF CancelEdit
<1>12. ASSUME NEW u \in Terminals, Discard(u)
       PROVE  journal[t].modal = "discard"
  BY <1>0, <1>12, ItsOwnWindow DEF Discard
<1>13. ASSUME NEW u \in Terminals, Listed(u) \/ Saved(u)
       PROVE  Accepted(t)
  BY <1>0, <1>13, OnlySavesEndDrafts
<1>14. ASSUME NEW u \in Terminals, Exported(u)
       PROVE  ReportReturns(t)
  <2> DEFINE j == [journal[u] EXCEPT !.exports = @ - 1]
  <2>1. /\ j.modal = journal[u].modal /\ j.exports = journal[u].exports - 1
        /\ journal[u].exports \in Nat
    <3>1. journal[u] \in Journal
      BY OneTerminal
    <3>2. journal[u].exports \in 0..MaxUnderWay
      BY <3>1 DEF Journal, UnderWay
    <3>3. journal[u].exports \in Nat
      BY <3>2, NotesAssumption
    <3>4. j.modal = journal[u].modal /\ j.exports = journal[u].exports - 1
      BY <3>1 DEF Journal
    <3> QED
      BY <3>3, <3>4
  <2>2. CASE Show(u, j)
    BY <1>3, <1>4, <2>1, <2>2 DEF Editing
  <2>3. CASE Show(u, Left(j, "report"))
    <3>1. Left(j, "report").modal = "report" /\ Left(j, "report").exports = j.exports
      BY OneTerminal DEF Left, Journal
    <3>2. u = t /\ journal'[t] = Left(j, "report")
      BY <1>0, <2>3, ItsOwnWindow
    <3> QED
      BY <2>1, <3>1, <3>2 DEF ReportReturns
  <2> QED
    BY <1>14, <2>2, <2>3 DEF Exported
<1> QED
  BY <1>1, <1>2, <1>6, <1>7, <1>8, <1>9, <1>10, <1>11, <1>12, <1>13, <1>14
     DEF NotesNext, notesVars

(* Whatever other terminals and commands do in between: a save replaces    *)
(* only the text its user has seen, and a text that is not saved leaves    *)
(* its editor only when it is discarded or taken, or when an export ends.  *)
THEOREM NotesStaySafe == NotesSpec => NotesAreSafe
<1>1. NotesInv /\ [NotesNext]_notesVars =>
        \A t \in Terminals : \A c \in adrift[t] \cup {call[t]} :
           Performed(t, c) /\ c.kind = "save" /\ ~c.fresh
             => ~stored[c.id].deleted /\ stored[c.id].body = c.original
  BY SavesReplaceWhatWasSeen
<1>2. NotesInv /\ [NotesNext]_notesVars =>
        \A t \in Terminals :
           Unsaved(t) /\ journal'[t].modal \notin {"edit", "discard"}
             => journal[t].modal = "discard" \/ Accepted(t) \/ ReportReturns(t)
  BY DraftsAreNotLost DEF Editing
<1>3. NotesSpec => OnlySeenIsReplaced
  BY <1>1, NotesInvariant, PTL DEF NotesSpec, OnlySeenIsReplaced
<1>4. NotesSpec => DraftsAreKept
  BY <1>2, NotesInvariant, PTL DEF NotesSpec, DraftsAreKept
<1> QED
  BY <1>3, <1>4 DEF NotesAreSafe

-----------------------------------------------------------------------------
(***************************************************************************)
(* Theorems of ConfigFile, for any programs, targets and values.           *)
(*                                                                         *)
(* The lock is with one program from the moment it was taken until it is   *)
(* released, so nobody but an editor changes the file between the last     *)
(* comparison and the rename.  What is then written is what the file said, *)
(* because a Config differs from what it was loaded from in nothing but    *)
(* what was edited, even after a save has failed and put something back.   *)
(***************************************************************************)

(* What the file said of an option, which may have been made absolute.     *)
ConfigWas(document, o) == IF document = NoFile THEN Unset ELSE document[o]
ConfigFollows(value, was) == value = was \/ (was \in Settings /\ value = Normal[was])

Saving == {"compare", "lock", "recompare", "write", "last", "rename"}
Locked == {"recompare", "write", "last", "rename", "release"}

(* The Config is what was loaded but for the options that are meant, and   *)
(* what a failing save puts back is so too.                                *)
ConfigOK(s) ==
    /\ s.config["unknown"] = Unset
    /\ s.at \notin {"unloaded", "dead"} =>
         \A o \in Options \ ({"unknown"} \cup s.meant) : ConfigFollows(s.config[o], ConfigWas(s.original, o))
    /\ s.at \in Saving =>
         /\ "settings" \in s.meant => s.config["settings"] # s.before["settings"]
         /\ s.config["settings"] # s.before["settings"] =>
              /\ ConfigFollows(s.before["settings"], ConfigWas(s.original, "settings"))
              /\ \A o \in Options \ {"settings"} : s.before[o] = s.config[o]
    /\ s.at \notin Saving => "settings" \notin s.meant

SaverOK(p, s) ==
    /\ s.at \in Locked => lock = {p}
    /\ s.at = "rename" /\ ~s.touched => file = s.original
    /\ ConfigOK(s)

ConfigTypes ==
    /\ file \in Document \cup {NoFile}
    /\ lock = {} \/ \E p \in Programs : lock = {p}
    /\ temps \subseteq Programs
    /\ saver \in [Programs -> Saver]
    /\ otherEdits \in 0..MaxOtherEdits

(* What a step has to make of the program that takes it.                   *)
SaverNext(p, s) ==
    /\ s.at \in Locked => lock' = {p}
    /\ s.at = "rename" /\ ~s.touched => file' = s.original
    /\ ConfigOK(s)

ConfigInv == ConfigTypes /\ \A p \in Programs : SaverOK(p, saver[p])

-----------------------------------------------------------------------------
(* A step of one program leaves the others right: what it does to lock and *)
(* file is not done while another one has the lock.                        *)
LEMMA OneSaver ==
    ASSUME ConfigInv, NEW p \in Programs, NEW s \in Saver, saver' = [saver EXCEPT ![p] = s],
           file' \in Document \cup {NoFile}, temps' \subseteq Programs,
           otherEdits' = otherEdits,
           lock' = {} \/ \E q \in Programs : lock' = {q},
           lock' # lock => lock \in {{}, {p}},
           file' # file => lock = {p},
           SaverNext(p, s)
    PROVE  ConfigInv'
<1>1. ConfigTypes'
  BY DEF ConfigInv, ConfigTypes
<1>2. ASSUME NEW q \in Programs
      PROVE  SaverOK(q, saver[q])'
  <2>1. CASE q = p
    BY <2>1 DEF ConfigInv, ConfigTypes, SaverOK, SaverNext
  <2>2. CASE q # p
    <3>1. saver'[q] = saver[q] /\ SaverOK(q, saver[q])
      BY <2>2 DEF ConfigInv, ConfigTypes
    <3>2. saver[q].at \in Locked => lock' = lock /\ file' = file
      BY <2>2, <3>1 DEF SaverOK
    <3> QED
      BY <3>1, <3>2 DEF SaverOK, Locked
  <2> QED
    BY <2>1, <2>2
<1> QED
  BY <1>1, <1>2 DEF ConfigInv

LEMMA OneProgram ==
    ASSUME ConfigInv, NEW p \in Programs
    PROVE  /\ saver[p] \in Saver /\ SaverOK(p, saver[p])
           /\ saver[p].config \in Document /\ saver[p].before \in Document
           /\ saver[p].original \in Document \cup {NoFile}
  BY DEF ConfigInv, ConfigTypes, Saver

LEMMA EmptyIsADocument == EmptyConfig \in Document /\ EmptyConfig["unknown"] = Unset
  BY DEF EmptyConfig, Document, Options

LEMMA NoSaverIsASaver == NoSaver \in Saver
  BY EmptyIsADocument DEF NoSaver, Saver

LEMMA InvLoadConfig == ASSUME ConfigInv, NEW p \in Programs, LoadConfig(p) PROVE ConfigInv'
<1> DEFINE config == IF file = NoFile THEN EmptyConfig ELSE NormalizedConfig(file)
           s == [NoSaver EXCEPT !.at = "idle", !.original = file, !.config = config]
<1>1. file \in Document \cup {NoFile}
  BY DEF ConfigInv, ConfigTypes
<1>2. config \in Document /\ config["unknown"] = Unset
  BY <1>1, EmptyIsADocument, ConfigFileAssumption DEF NormalizedConfig, Document, Options
<1>3. \A o \in Options \ {"unknown"} : ConfigFollows(config[o], ConfigWas(file, o))
  BY <1>1, ConfigFileAssumption
     DEF NormalizedConfig, EmptyConfig, Document, Options, ConfigFollows, ConfigWas
<1> HIDE DEF config
<1>4. s \in Saver /\ s.at = "idle" /\ s.original = file /\ s.config = config /\ s.meant = {}
  BY <1>1, <1>2, NoSaverIsASaver DEF NoSaver, Saver
<1> HIDE DEF s
<1>5. SaverNext(p, s)
  BY <1>2, <1>3, <1>4 DEF SaverOK, SaverNext, ConfigOK, Saving, Locked
<1>6. saver' = [saver EXCEPT ![p] = s]
  BY DEF LoadConfig, s, config
<1> QED
  BY <1>1, <1>4, <1>5, <1>6, OneSaver DEF LoadConfig, ConfigInv, ConfigTypes

LEMMA InvEditConfig ==
    ASSUME ConfigInv, NEW p \in Programs, NEW o \in Options, NEW value \in NormalSettings \cup {Unset},
           EditConfig(p, o, value)
    PROVE  ConfigInv'
<1> DEFINE old == saver[p]
           config == [old.config EXCEPT ![o] = value]
           s == [old EXCEPT !.at = "compare", !.config = config, !.before = old.config,
                            !.meant = old.meant \cup {o}]
<1>1. /\ old \in Saver /\ SaverOK(p, old) /\ old.config \in Document
      /\ old.at = "idle" /\ o # "unknown" /\ old.config[o] # value
  BY OneProgram DEF EditConfig
<1>2. /\ config \in Document /\ config[o] = value
      /\ \A q \in Options \ {o} : config[q] = old.config[q]
  BY <1>1 DEF Document, NormalSettings
<1> HIDE DEF config
<1>3. /\ s \in Saver /\ s.at = "compare" /\ s.config = config /\ s.before = old.config
      /\ s.meant = old.meant \cup {o} /\ s.original = old.original
  BY <1>1, <1>2 DEF Saver
<1>4. saver' = [saver EXCEPT ![p] = s]
  BY DEF EditConfig, config
<1> HIDE DEF s, old
<1>5. ConfigOK(old) /\ "settings" \notin old.meant
  BY <1>1 DEF SaverOK, ConfigOK, Saving
<1>6. "unknown" \in Options /\ "settings" \in Options
  BY DEF Options
<1>7. ConfigOK(s)
  BY <1>1, <1>2, <1>3, <1>5, <1>6 DEF ConfigOK, Saving
<1>8. SaverNext(p, s)
  BY <1>3, <1>7 DEF SaverOK, SaverNext, Locked
<1> QED
  BY <1>3, <1>4, <1>8, OneSaver DEF EditConfig, ConfigInv, ConfigTypes

(* A save that fails puts back what follows the file.                      *)
LEMMA InvFailSave ==
    ASSUME ConfigInv, NEW p \in Programs, saver[p].at \in Saving, FailSave(p),
           temps' \subseteq Programs, UNCHANGED <<file, lock, otherEdits>>
    PROVE  ConfigInv'
<1> DEFINE old == saver[p]
           settings == old.config["settings"] # old.before["settings"]
           s == FailedSave(old)
<1>1. /\ old \in Saver /\ SaverOK(p, old) /\ ConfigOK(old) /\ EmptyConfig \in Document
  BY OneProgram, EmptyIsADocument DEF SaverOK
<1>2. /\ s \in Saver /\ s.original = old.original
      /\ s.at = IF old.at \in {"compare", "lock"} THEN "idle" ELSE "release"
      /\ s.config = IF settings THEN old.before ELSE old.config
      /\ s.meant = IF settings THEN old.meant \ {"settings"} ELSE old.meant
  BY <1>1 DEF FailedSave, Saver
<1>3. saver' = [saver EXCEPT ![p] = s]
  BY DEF FailSave
<1>4. "unknown" \in Options \ {"settings"} /\ old.at \notin {"unloaded", "dead"}
  BY DEF Options, Saving
<1> HIDE DEF s
<1>5. ConfigOK(s)
  <2>1. CASE settings
    BY <1>1, <1>2, <1>4, <2>1 DEF ConfigOK, Saving
  <2>2. CASE ~settings
    BY <1>1, <1>2, <1>4, <2>2 DEF ConfigOK, Saving
  <2> QED
    BY <2>1, <2>2
<1>6. s.at \in Locked => lock = {p}
  BY <1>1, <1>2 DEF SaverOK, Saving, Locked
<1>7. SaverNext(p, s)
  BY <1>2, <1>5, <1>6 DEF SaverOK, SaverNext
<1>8. file \in Document \cup {NoFile} /\ (lock = {} \/ \E q \in Programs : lock = {q})
  BY DEF ConfigInv, ConfigTypes
<1> QED
  BY <1>2, <1>3, <1>7, <1>8, OneSaver

(* The next step of a save that has not failed.                            *)
LEMMA InvGoTo ==
    ASSUME ConfigInv, NEW p \in Programs, NEW place \in Saving, GoTo(p, place), saver[p].at \in Saving,
           temps' \subseteq Programs, UNCHANGED <<file, otherEdits>>,
           lock' = {} \/ \E q \in Programs : lock' = {q},
           lock' # lock => lock = {},
           place \in Locked => lock' = {p},
           place = "rename" => file = saver[p].original
    PROVE  ConfigInv'
<1> DEFINE old == saver[p]
           s == [old EXCEPT !.at = place]
<1>1. old \in Saver /\ ConfigOK(old) /\ file \in Document \cup {NoFile}
  BY OneProgram DEF SaverOK, ConfigInv, ConfigTypes
<1>2. /\ s \in Saver /\ s.at = place /\ s.original = old.original /\ s.config = old.config
      /\ s.before = old.before /\ s.meant = old.meant
  BY <1>1 DEF Saver, Saving
<1>3. saver' = [saver EXCEPT ![p] = s]
  BY DEF GoTo
<1> HIDE DEF s
<1>4. ConfigOK(s)
  BY <1>1, <1>2 DEF ConfigOK, Saving
<1>5. SaverNext(p, s)
  BY <1>2, <1>4 DEF SaverOK, SaverNext
<1> QED
  BY <1>1, <1>2, <1>3, <1>5, OneSaver

LEMMA InvRefuseLayout == ASSUME ConfigInv, NEW p \in Programs, RefuseLayout(p) PROVE ConfigInv'
  BY InvFailSave DEF RefuseLayout, AtStep, Saving, ConfigInv, ConfigTypes

LEMMA InvCheckUnchanged == ASSUME ConfigInv, NEW p \in Programs, CheckUnchanged(p) PROVE ConfigInv'
<1>0. /\ saver[p].at \in Saving /\ SaverOK(p, saver[p]) /\ temps' \subseteq Programs
      /\ lock' = {} \/ \E q \in Programs : lock' = {q}
  BY OneProgram DEF CheckUnchanged, Saving, ConfigInv, ConfigTypes
<1>1. CASE file = saver[p].original /\ GoTo(p, StepAfter(saver[p].at))
  <2>1. /\ StepAfter(saver[p].at) \in Saving
        /\ StepAfter(saver[p].at) \in Locked => saver[p].at \in Locked
    BY DEF CheckUnchanged, StepAfter, Saving, Locked
  <2> QED
    BY <1>0, <1>1, <2>1, InvGoTo DEF CheckUnchanged, SaverOK
<1>2. CASE FailSave(p)
  BY <1>0, <1>2, InvFailSave DEF CheckUnchanged
<1> QED
  BY <1>1, <1>2 DEF CheckUnchanged

LEMMA InvLockConfig == ASSUME ConfigInv, NEW p \in Programs, LockConfig(p) PROVE ConfigInv'
<1>0. saver[p].at \in Saving /\ temps' \subseteq Programs
  BY DEF LockConfig, AtStep, Saving, ConfigInv, ConfigTypes
<1>1. CASE lock = {} /\ lock' = {p} /\ GoTo(p, "recompare")
  BY <1>0, <1>1, InvGoTo DEF LockConfig, Saving
<1>2. CASE FailSave(p) /\ UNCHANGED lock
  BY <1>0, <1>2, InvFailSave DEF LockConfig
<1> QED
  BY <1>1, <1>2 DEF LockConfig

LEMMA InvWriteTemp == ASSUME ConfigInv, NEW p \in Programs, WriteTemp(p) PROVE ConfigInv'
<1>0. /\ saver[p].at \in Saving /\ lock = {p} /\ temps' \subseteq Programs
  BY OneProgram DEF WriteTemp, AtStep, Saving, Locked, SaverOK, ConfigInv, ConfigTypes
<1>1. CASE GoTo(p, "last")
  BY <1>0, <1>1, InvGoTo DEF WriteTemp, Saving
<1>2. CASE FailSave(p)
  BY <1>0, <1>2, InvFailSave DEF WriteTemp
<1> QED
  BY <1>1, <1>2 DEF WriteTemp

LEMMA RenderedIsADocument ==
    ASSUME ConfigInv, NEW p \in Programs
    PROVE  LET r == Rendered(saver[p]) IN
           /\ r \in Document
           /\ \A o \in Options \ {"unknown"} : r[o] = saver[p].config[o]
           /\ r["unknown"] = ConfigWas(saver[p].original, "unknown")
<1>1. "unknown" \in Options
  BY DEF Options
<1>2. /\ saver[p].config \in Document /\ saver[p].config["unknown"] = Unset
      /\ saver[p].original \in Document \cup {NoFile}
  BY OneProgram DEF SaverOK, ConfigOK
<1> QED
  BY <1>1, <1>2 DEF Rendered, ConfigWas, Document

(* What is written is what the Config follows from then on.                *)
LEMMA InvRenameTemp == ASSUME ConfigInv, NEW p \in Programs, RenameTemp(p) PROVE ConfigInv'
<1> DEFINE old == saver[p]
           r == Rendered(old)
           s == [old EXCEPT !.at = "release", !.original = r,
                            !.before = EmptyConfig, !.meant = {}, !.touched = FALSE]
<1>1. /\ old \in Saver /\ ConfigOK(old) /\ lock = {p} /\ old.at \in Saving
      /\ EmptyConfig \in Document
  BY OneProgram, EmptyIsADocument DEF RenameTemp, SaverOK, Saving, Locked
<1>2. CASE file' = r /\ temps' = temps \ {p} /\ saver' = [saver EXCEPT ![p] = s]
  <2>1. r \in Document /\ \A o \in Options \ {"unknown"} : r[o] = old.config[o]
    BY RenderedIsADocument
  <2> HIDE DEF r
  <2>2. s \in Saver /\ s.at = "release" /\ s.original = r /\ s.config = old.config /\ s.meant = {}
    BY <1>1, <2>1 DEF Saver
  <2> HIDE DEF s
  <2>3. \A o \in Options \ {"unknown"} : ConfigFollows(s.config[o], ConfigWas(s.original, o))
    BY <2>1, <2>2, ConfigFileAssumption DEF ConfigFollows, ConfigWas, Document
  <2>4. ConfigOK(s)
    BY <1>1, <2>2, <2>3 DEF ConfigOK, Saving
  <2>5. SaverNext(p, s)
    BY <1>1, <2>2, <2>4 DEF SaverOK, SaverNext, RenameTemp
  <2> QED
    BY <1>1, <1>2, <2>1, <2>2, <2>5, OneSaver DEF RenameTemp, ConfigInv, ConfigTypes
<1>3. CASE FailSave(p) /\ UNCHANGED <<file, temps>>
  BY <1>1, <1>3, InvFailSave DEF RenameTemp, ConfigInv, ConfigTypes
<1> QED
  BY <1>2, <1>3 DEF RenameTemp

LEMMA InvReleaseLock == ASSUME ConfigInv, NEW p \in Programs, ReleaseLock(p) PROVE ConfigInv'
<1> DEFINE old == saver[p]
           s == [old EXCEPT !.at = "idle"]
<1>1. old \in Saver /\ ConfigOK(old) /\ lock = {p} /\ old.at = "release"
  BY OneProgram DEF ReleaseLock, AtStep, SaverOK, Locked
<1>2. /\ s \in Saver /\ s.at = "idle" /\ s.original = old.original /\ s.config = old.config
      /\ s.meant = old.meant
  BY <1>1 DEF Saver
<1>3. saver' = [saver EXCEPT ![p] = s]
  BY DEF ReleaseLock, GoTo
<1> HIDE DEF s
<1>4. SaverNext(p, s)
  BY <1>1, <1>2 DEF SaverOK, SaverNext, ConfigOK, Saving, Locked
<1> QED
  BY <1>1, <1>2, <1>3, <1>4, OneSaver DEF ReleaseLock, ConfigInv, ConfigTypes

LEMMA InvCrashSaver == ASSUME ConfigInv, NEW p \in Programs, CrashSaver(p) PROVE ConfigInv'
<1> DEFINE place == IF p \in lock \cup temps THEN "dead" ELSE "unloaded"
           s == [NoSaver EXCEPT !.at = place]
<1>1. s \in Saver /\ s.at = place /\ s.config = EmptyConfig /\ s.meant = {}
  BY NoSaverIsASaver DEF NoSaver, Saver
<1>2. saver' = [saver EXCEPT ![p] = s]
  BY DEF CrashSaver
<1> HIDE DEF s
<1>3. SaverNext(p, s)
  BY <1>1, EmptyIsADocument DEF SaverOK, SaverNext, ConfigOK, Saving, Locked
<1> QED
  BY <1>1, <1>2, <1>3, OneSaver DEF CrashSaver, ConfigInv, ConfigTypes

LEMMA InvCleanUp == ASSUME ConfigInv, NEW p \in Programs, CleanUp(p) PROVE ConfigInv'
<1> DEFINE old == saver[p]
           s == [old EXCEPT !.at = "unloaded"]
<1>1. old \in Saver /\ ConfigOK(old) /\ old.at = "dead"
  BY OneProgram DEF CleanUp, AtStep, SaverOK
<1>2. s \in Saver /\ s.at = "unloaded" /\ s.config = old.config /\ s.meant = old.meant
  BY <1>1 DEF Saver
<1>3. saver' = [saver EXCEPT ![p] = s]
  BY DEF CleanUp, GoTo
<1> HIDE DEF s
<1>4. SaverNext(p, s)
  BY <1>1, <1>2 DEF SaverOK, SaverNext, ConfigOK, Saving, Locked
<1>5. /\ lock' = {} \/ \E q \in Programs : lock' = {q}
      /\ lock' # lock => lock = {p}
  BY DEF CleanUp, ConfigInv, ConfigTypes
<1> QED
  BY <1>2, <1>3, <1>4, <1>5, OneSaver DEF CleanUp, ConfigInv, ConfigTypes

(* An editor asks nobody: who is about to rename has been touched.         *)
LEMMA InvOtherEditor ==
    ASSUME ConfigInv, NEW o \in Options, NEW value \in Settings, OtherEditor(o, value)
    PROVE  ConfigInv'
<1> DEFINE touched(p) == [saver[p] EXCEPT !.touched = (saver[p].touched \/ AtStep(p, "rename"))]
<1>1. ASSUME NEW p \in Programs
      PROVE  /\ touched(p) \in Saver /\ touched(p).at = saver[p].at
             /\ touched(p).touched <=> (saver[p].touched \/ saver[p].at = "rename")
             /\ touched(p).original = saver[p].original /\ touched(p).config = saver[p].config
             /\ touched(p).before = saver[p].before /\ touched(p).meant = saver[p].meant
  <2>1. ASSUME NEW s \in Saver, NEW b \in BOOLEAN
        PROVE  LET t == [s EXCEPT !.touched = b] IN
               /\ t \in Saver /\ t.at = s.at /\ t.touched = b /\ t.original = s.original
               /\ t.config = s.config /\ t.before = s.before /\ t.meant = s.meant
    BY DEF Saver
  <2> DEFINE b == saver[p].touched \/ AtStep(p, "rename")
  <2>2. saver[p] \in Saver /\ b \in BOOLEAN
    BY OneProgram
  <2>3. b <=> (saver[p].touched \/ saver[p].at = "rename")
    BY DEF AtStep
  <2>4. touched(p) = [saver[p] EXCEPT !.touched = b]
    OBVIOUS
  <2> HIDE DEF b, touched
  <2> QED
    BY <2>1, <2>2, <2>3, <2>4
<1>2. saver' = [p \in Programs |-> touched(p)]
  BY DEF OtherEditor
<1>3. file' \in Document
  <2> DEFINE now == IF file = NoFile THEN EmptyConfig ELSE file
  <2>1. now \in Document /\ file' = [now EXCEPT ![o] = value]
    BY EmptyIsADocument DEF OtherEditor, ConfigInv, ConfigTypes
  <2> HIDE DEF now
  <2> QED
    BY <2>1 DEF Document
<1>4. otherEdits' \in 0..MaxOtherEdits
  BY ConfigFileAssumption DEF OtherEditor, ConfigInv, ConfigTypes
<1> HIDE DEF touched
<1>5. ConfigTypes'
  BY <1>1, <1>2, <1>3, <1>4 DEF OtherEditor, ConfigInv, ConfigTypes
<1>6. ASSUME NEW p \in Programs
      PROVE  SaverOK(p, saver[p])'
  <2>1. saver'[p] = touched(p) /\ SaverOK(p, saver[p]) /\ lock' = lock
    BY <1>2, OneProgram DEF OtherEditor
  <2>2. ConfigOK(saver'[p])
    BY <1>1, <2>1 DEF SaverOK, ConfigOK
  <2> QED
    BY <1>1, <2>1, <2>2 DEF SaverOK, ConfigOK
<1> QED
  BY <1>5, <1>6 DEF ConfigInv

-----------------------------------------------------------------------------
LEMMA ConfigInvInit == ConfigInit => ConfigInv
<1> SUFFICES ASSUME ConfigInit PROVE ConfigInv
  OBVIOUS
<1>1. ConfigTypes
  BY NoSaverIsASaver, ConfigFileAssumption DEF ConfigInit, ConfigTypes
<1>2. NoSaver.at = "unloaded" /\ NoSaver.config["unknown"] = Unset /\ NoSaver.meant = {}
  BY EmptyIsADocument DEF NoSaver
<1>3. ASSUME NEW p \in Programs
      PROVE  SaverOK(p, saver[p])
  BY <1>2 DEF ConfigInit, SaverOK, ConfigOK, Saving, Locked
<1> QED
  BY <1>1, <1>3 DEF ConfigInv

LEMMA ConfigInvNext == ConfigInv /\ [ConfigNext]_configVars => ConfigInv'
<1> SUFFICES ASSUME ConfigInv, [ConfigNext]_configVars PROVE ConfigInv'
  OBVIOUS
<1>1. CASE UNCHANGED configVars
  BY <1>1 DEF configVars, ConfigInv, ConfigTypes, SaverOK, ConfigOK
<1>2. ASSUME NEW p \in Programs,
             \/ LoadConfig(p) \/ RefuseLayout(p) \/ CheckUnchanged(p) \/ LockConfig(p)
             \/ WriteTemp(p) \/ RenameTemp(p) \/ ReleaseLock(p) \/ CrashSaver(p) \/ CleanUp(p)
      PROVE  ConfigInv'
  BY <1>2, InvLoadConfig, InvRefuseLayout, InvCheckUnchanged, InvLockConfig, InvWriteTemp,
     InvRenameTemp, InvReleaseLock, InvCrashSaver, InvCleanUp
<1>3. ASSUME NEW p \in Programs, NEW o \in Options, NEW v \in NormalSettings \cup {Unset},
             EditConfig(p, o, v)
      PROVE  ConfigInv'
  BY <1>3, InvEditConfig
<1>4. ASSUME NEW o \in Options, NEW v \in Settings, OtherEditor(o, v)
      PROVE  ConfigInv'
  BY <1>4, InvOtherEditor
<1> QED
  BY <1>1, <1>2, <1>3, <1>4 DEF ConfigNext

(* The file, the lock and the programs keep their types, and ConfigInv holds.    *)
THEOREM ConfigInvariant == ConfigSpec => []ConfigInv
  BY ConfigInvInit, ConfigInvNext, PTL DEF ConfigSpec

(* Nobody but the program that renames ends a save with another file.      *)
LEMMA SavedIsRendered ==
    ASSUME ConfigInv, [ConfigNext]_configVars, NEW p \in Programs, ConfigSaved(p)
    PROVE  file' = Rendered(saver[p])
<1>0. saver[p].at = "rename" /\ saver'[p].at = "release" /\ file' # file
  BY DEF ConfigSaved, AtStep
<1>1. PICK q \in Programs : RenameTemp(q) /\ file' = Rendered(saver[q])
  <2>1. ASSUME NEW o \in Options, NEW v \in Settings, OtherEditor(o, v)
        PROVE  FALSE
    <3>1. saver'[p].at = saver[p].at
      BY <2>1, OneProgram DEF OtherEditor, Saver
    <3> QED
      BY <1>0, <3>1
  <2>2. PICK q \in Programs : RenameTemp(q)
    BY <1>0, <2>1 DEF ConfigNext, configVars, LoadConfig, RefuseLayout, CheckUnchanged,
       LockConfig, WriteTemp, ReleaseLock, CrashSaver, CleanUp, EditConfig
  <2> QED
    BY <1>0, <2>2 DEF RenameTemp
<1>2. lock = {p} /\ lock = {q}
  BY <1>0, <1>1, OneProgram DEF RenameTemp, SaverOK, Locked
<1> QED
  BY <1>1, <1>2

(* Whoever saves or edits in between, fails or crashes: a save changes the *)
(* options its user edited, and of others makes paths absolute at most.    *)
THEOREM SavesAlwaysOnlyEdit == ConfigSpec => SavesOnlyEdits
<1>1. ASSUME ConfigInv, [ConfigNext]_configVars, NEW p \in Programs,
             ConfigSaved(p), ~saver[p].touched, NEW o \in Options \ saver[p].meant
      PROVE  \/ file'[o] = OptionWas(o)
             \/ OptionWas(o) \in Settings /\ file'[o] = Normal[OptionWas(o)]
  <2>1. file' = Rendered(saver[p]) /\ file = saver[p].original
    BY <1>1, SavedIsRendered, OneProgram DEF ConfigSaved, AtStep, SaverOK
  <2>2. ConfigWas(saver[p].original, o) = OptionWas(o)
    BY <2>1 DEF ConfigWas, OptionWas
  <2>3. CASE o = "unknown"
    BY <1>1, <2>1, <2>2, <2>3, RenderedIsADocument
  <2>4. CASE o # "unknown"
    <3>1. file'[o] = saver[p].config[o]
      BY <1>1, <2>1, <2>4, RenderedIsADocument
    <3>2. ConfigFollows(saver[p].config[o], OptionWas(o))
      BY <1>1, <2>2, <2>4, OneProgram DEF ConfigSaved, AtStep, SaverOK, ConfigOK
    <3> QED
      BY <3>1, <3>2 DEF ConfigFollows
  <2> QED
    BY <2>3, <2>4
<1>2. ConfigInv /\ [ConfigNext]_configVars =>
        \A p \in Programs : ConfigSaved(p) /\ ~saver[p].touched =>
         \A o \in Options \ saver[p].meant :
            \/ file'[o] = OptionWas(o)
            \/ OptionWas(o) \in Settings /\ file'[o] = Normal[OptionWas(o)]
  BY <1>1
<1> QED
  BY <1>2, ConfigInvariant, PTL DEF ConfigSpec, SavesOnlyEdits

-----------------------------------------------------------------------------
(***************************************************************************)
(* Theorems of Preferences: an older choice never takes the place of a     *)
(* newer one, neither in the database nor on the screen.                   *)
(*                                                                         *)
(* A choice is always in one of three places.  What is queued is newer     *)
(* than what a flush holds, that is newer than what is in the database,    *)
(* and only one flush holds anything; so the first place of the three that *)
(* has the field has the user's last choice.  A load of pins reads after   *)
(* its own flush has emptied the first two, and is stale from the next     *)
(* choice on.                                                              *)
(***************************************************************************)

Keys(f) == IF f = "policy" THEN {f} ELSE Row[f]
JobsOf(f) == {NoJob} \cup [Keys(f) -> Values]

(* Nothing but the database has the field.                                 *)
InTheDatabase(f) == jobs[f] = NoJob /\ \A w \in Flushers : flush[w].batch[f] = NoJob

QueueTypeOK ==
    /\ choice \in [Fields -> 0..MaxChoices] /\ disk \in [Fields -> Values]
    /\ jobs \in [Fields -> Job] /\ \A f \in Fields : jobs[f] \in JobsOf(f)
    /\ flush \in [Flushers -> Flush]
    /\ \A w \in Flushers, f \in Fields : flush[w].batch[f] \in JobsOf(f)

(* One flush holds jobs.                                                   *)
OneHolds ==
    /\ \A w \in Flushers, f \in Fields :
         flush[w].state # "writing" => flush[w].batch[f] = NoJob
    /\ \A v, w \in Flushers :
         flush[v].state = "writing" /\ flush[w].state = "writing" => v = w

(* The first place that has a field has its last choice.                   *)
NewestFirst(f) ==
    /\ jobs[f] # NoJob => jobs[f][f] = choice[f]
    /\ \A w \in Flushers :
         jobs[f] = NoJob /\ flush[w].batch[f] # NoJob => flush[w].batch[f][f] = choice[f]
    /\ InTheDatabase(f) /\ choice[f] # 0 => disk[f] \in {choice[f], Other}

QueueInv == QueueTypeOK /\ OneHolds /\ \A f \in Fields \ {"policy"} : NewestFirst(f)

LoadTypeOK ==
    /\ shown \in [Fields -> Values] /\ load \in [Loads -> Load]
    /\ failures \in 0..MaxFailures
    /\ program \in {"running", "leaving", "saved", "unsaved"}
    /\ \A f \in Loads : load[f].state = "read" => load[f].value \in [Row[f] -> Values]

(* Who flushes, and for what.                                              *)
FlushersServe ==
    program = "running" =>
        /\ flush["exit"].state = "idle"
        /\ flush["loader"].state # "idle" => load["pin"].state = "flushing"

(* What a load that is not stale will show.                                *)
VisibilityInv == program = "running" /\ choice["visibility"] # 0 => load["visibility"].stale

PinInv ==
    program = "running" /\ ~load["pin"].stale /\ choice["pin"] # 0 =>
        /\ load["pin"].state = "asked" => InTheDatabase("pin")
        /\ load["pin"].state = "read" => load["pin"].value["pin"] \in {choice["pin"], Other}

PreferencesInv ==
    /\ QueueInv /\ LoadTypeOK /\ FlushersServe /\ VisibilityInv /\ PinInv
    /\ ExitSavesChoices /\ ChoicesStand

-----------------------------------------------------------------------------
(* Jobs and rows.                                                          *)

LEMMA Rows ==
    /\ \A f \in Fields : Row[f] \subseteq Fields /\ Keys(f) \subseteq Fields /\ f \in Keys(f)
    /\ \A f \in Fields \ {"policy"} : RowOf(f) = IF f = "view" THEN "view" ELSE f
    /\ RowOf("policy") = "view"
    /\ \A f \in Loads : f \in Fields /\ f \in Row[f]
    /\ \A f, g \in Fields : g \in Keys(f) => g = f \/ g = "policy"
    /\ \A f \in Loads, g \in {"visibility", "pin"} : g \in Row[f] => g = f
BY DEF Row, Fields, Keys, Loads, RowOf

LEMMA NoJobFits == NoJob \in Job /\ \A f \in Fields : NoJob \in JobsOf(f)
BY DEF NoJob, Job, JobsOf

LEMMA SomeJob ==
    ASSUME NEW f \in Fields, NEW j \in [Keys(f) -> Values]
    PROVE  /\ j \in JobsOf(f) /\ j \in Job /\ j # NoJob
           /\ DOMAIN j = Keys(f) /\ j[f] \in Values
<1>1. f \in Keys(f) /\ Keys(f) \in {{}, {"policy"}} \cup {Row[g] : g \in Fields}
  BY Rows DEF Keys
<1>2. DOMAIN j = Keys(f) /\ DOMAIN NoJob = {}
  BY DEF NoJob
<1> QED
  BY <1>1, <1>2 DEF JobsOf, Job

LEMMA SomeRow ==
    ASSUME NEW f \in Loads, NEW j \in [Row[f] -> Values]
    PROVE  /\ j \in Job /\ DOMAIN j = Row[f] /\ j[f] \in Values
BY Rows DEF Job, Fields

-----------------------------------------------------------------------------
(* The queue: what each step of a flush, and a choice, leave of it.        *)

LEMMA Flushed ==
    ASSUME QueueInv, NEW w \in Flushers, NEW r \in Flush, flush' = [flush EXCEPT ![w] = r]
    PROVE  /\ flush' \in [Flushers -> Flush] /\ flush'[w] = r
           /\ \A v \in Flushers \ {w} : flush'[v] = flush[v]
BY DEF QueueInv, QueueTypeOK

LEMMA QueueIdles ==
    ASSUME QueueInv, NEW w \in Flushers, NEW r \in Flush, flush' = [flush EXCEPT ![w] = r],
           r.state # "writing", \A f \in Fields : r.batch[f] = NoJob,
           \A f \in Fields : flush[w].batch[f] = NoJob,
           UNCHANGED <<choice, disk, jobs>>
    PROVE  QueueInv' /\ \A f \in Fields : InTheDatabase(f)' = InTheDatabase(f)
<1>1. /\ flush' \in [Flushers -> Flush] /\ flush'[w] = r
      /\ \A v \in Flushers \ {w} : flush'[v] = flush[v]
  BY Flushed
<1>2. \A v \in Flushers, f \in Fields : flush'[v].batch[f] = flush[v].batch[f]
  BY <1>1
<1>3. \A f \in Fields : InTheDatabase(f)' = InTheDatabase(f)
  BY <1>2 DEF InTheDatabase
<1>4. QueueTypeOK'
  BY <1>1, <1>2 DEF QueueInv, QueueTypeOK, JobsOf
<1>5. OneHolds'
  BY <1>1, <1>2 DEF QueueInv, OneHolds
<1>6. ASSUME NEW f \in Fields \ {"policy"} PROVE NewestFirst(f)'
  <2>1. NewestFirst(f)
    BY DEF QueueInv
  <2> QED
    BY <1>2, <1>3, <2>1 DEF NewestFirst
<1> QED
  BY <1>3, <1>4, <1>5, <1>6 DEF QueueInv

LEMMA QueueStarts ==
    ASSUME QueueInv, NEW w \in Flushers, flush[w].state # "writing", Start(w),
           UNCHANGED <<choice, disk, jobs>>
    PROVE  /\ QueueInv' /\ \A f \in Fields : InTheDatabase(f)' = InTheDatabase(f)
           /\ flush'[w].state = "waiting"
           /\ \A v \in Flushers \ {w} : flush'[v] = flush[v]
<1>1. PICK r : r = [flush[w] EXCEPT !.state = "waiting"]
  OBVIOUS
<1>2. r \in Flush /\ r.state = "waiting" /\ r.batch = flush[w].batch
  BY <1>1 DEF QueueInv, QueueTypeOK, Flush
<1>3. flush' = [flush EXCEPT ![w] = r]
  BY <1>1 DEF Start, QueueInv, QueueTypeOK
<1>4. \A f \in Fields : flush[w].batch[f] = NoJob
  BY DEF QueueInv, OneHolds
<1>5. /\ flush'[w] = r /\ \A v \in Flushers \ {w} : flush'[v] = flush[v]
  BY <1>2, <1>3, Flushed
<1> QED
  BY <1>2, <1>3, <1>4, <1>5, QueueIdles

LEMMA QueueEnds ==
    ASSUME QueueInv, NEW w \in Flushers, flush' = [flush EXCEPT ![w] = NoFlush],
           \A f \in Fields : flush[w].batch[f] = NoJob,
           UNCHANGED <<choice, disk, jobs>>
    PROVE  /\ QueueInv' /\ \A f \in Fields : InTheDatabase(f)' = InTheDatabase(f)
           /\ flush'[w].state = "idle" /\ \A v \in Flushers \ {w} : flush'[v] = flush[v]
<1>1. NoFlush \in Flush /\ NoFlush.state = "idle" /\ \A f \in Fields : NoFlush.batch[f] = NoJob
  BY NoJobFits DEF NoFlush, Flush
<1>2. /\ flush'[w] = NoFlush /\ \A v \in Flushers \ {w} : flush'[v] = flush[v]
  BY <1>1, Flushed
<1> QED
  BY <1>1, <1>2, QueueIdles

LEMMA QueueTakes ==
    ASSUME QueueInv, NEW w \in Flushers,
           NEW r \in Flush, r.state = "writing", r.batch = jobs,
           flush' = [flush EXCEPT ![w] = r],
           jobs' \in [Fields -> Job], \A f \in Fields : jobs'[f] = NoJob,
           \A f \in Fields : flush[w].batch[f] = NoJob,
           \A v \in Flushers \ {w} : flush[v].state # "writing",
           UNCHANGED <<choice, disk>>
    PROVE  /\ QueueInv' /\ \A f \in Fields : InTheDatabase(f)' = InTheDatabase(f)
           /\ flush'[w].state = "writing" /\ \A v \in Flushers \ {w} : flush'[v] = flush[v]
<1>1. /\ flush' \in [Flushers -> Flush] /\ flush'[w] = r
      /\ \A v \in Flushers \ {w} : flush'[v] = flush[v]
  BY Flushed
<1>2. \A v \in Flushers, f \in Fields : flush[v].batch[f] = NoJob
  BY DEF QueueInv, OneHolds
<1>3. /\ \A f \in Fields : flush'[w].batch[f] = jobs[f]
      /\ \A v \in Flushers \ {w}, f \in Fields : flush'[v].batch[f] = NoJob
  BY <1>1, <1>2
<1>4. \A f \in Fields : InTheDatabase(f)' = InTheDatabase(f)
  BY <1>2, <1>3 DEF InTheDatabase
<1>5. QueueTypeOK'
  BY <1>1, <1>3, NoJobFits DEF QueueInv, QueueTypeOK, JobsOf
<1>6. OneHolds'
  BY <1>1, <1>3 DEF OneHolds
<1>7. ASSUME NEW f \in Fields \ {"policy"} PROVE NewestFirst(f)'
  <2>1. NewestFirst(f)
    BY DEF QueueInv
  <2> QED
    BY <1>3, <1>4, <2>1 DEF NewestFirst
<1> QED
  BY <1>1, <1>4, <1>5, <1>6, <1>7 DEF QueueInv

LEMMA Takes ==
    ASSUME QueueInv, NEW w \in Flushers, TakeJobs(w, FALSE)
    PROVE  /\ jobs' \in [Fields -> Job] /\ \A f \in Fields : jobs'[f] = NoJob
           /\ \E r \in Flush : /\ r.state = "writing" /\ r.batch = jobs
                             /\ flush' = [flush EXCEPT ![w] = r]
<1>1. PICK r : r = [state |-> "writing", batch |-> jobs, failed |-> FALSE]
  OBVIOUS
<1>2. r \in Flush /\ r.state = "writing" /\ r.batch = jobs
  BY <1>1 DEF QueueInv, QueueTypeOK, Flush
<1> QED
  BY <1>1, <1>2, NoJobFits DEF TakeJobs

(* A job leaves the batch of the flush that writes.                        *)
LEMMA Unbatched ==
    ASSUME QueueInv, NEW w \in Flushers, NEW f \in Fields, NEW r,
           flush[w].state = "writing",
           r = [flush[w] EXCEPT !.batch = [flush[w].batch EXCEPT ![f] = NoJob]] \/
           r = [flush[w] EXCEPT !.batch = [flush[w].batch EXCEPT ![f] = NoJob], !.failed = TRUE],
           flush' = [flush EXCEPT ![w] = r]
    PROVE  /\ flush' \in [Flushers -> Flush]
           /\ flush'[w].state = "writing" /\ flush'[w].batch[f] = NoJob
           /\ \A g \in Fields \ {f} : flush'[w].batch[g] = flush[w].batch[g]
           /\ \A v \in Flushers \ {w} : flush'[v] = flush[v]
           /\ \A v \in Flushers : flush'[v].state = flush[v].state
<1>1. /\ flush[w] \in Flush /\ flush[w].batch \in [Fields -> Job]
  BY DEF QueueInv, QueueTypeOK, Flush
<1>2. PICK b : b = [flush[w].batch EXCEPT ![f] = NoJob]
  OBVIOUS
<1>3. /\ b \in [Fields -> Job] /\ b[f] = NoJob
      /\ \A g \in Fields \ {f} : b[g] = flush[w].batch[g]
  BY <1>1, <1>2, NoJobFits
<1>4. r \in Flush /\ r.state = "writing" /\ r.batch = b
  BY <1>1, <1>2, <1>3 DEF Flush
<1>5. /\ flush' \in [Flushers -> Flush] /\ flush'[w] = r
      /\ \A v \in Flushers \ {w} : flush'[v] = flush[v]
  BY <1>4, Flushed
<1> QED
  BY <1>3, <1>4, <1>5

LEMMA OthersHoldNothing ==
    ASSUME QueueInv, NEW w \in Flushers, flush[w].state = "writing"
    PROVE  \A v \in Flushers \ {w}, f \in Fields :
              flush[v].state # "writing" /\ flush[v].batch[f] = NoJob
BY DEF QueueInv, OneHolds

LEMMA QueueWrites ==
    ASSUME QueueInv, NEW w \in Flushers, NEW f \in Fields, Write(w, f)
    PROVE  /\ QueueInv'
           /\ \A v \in Flushers : flush'[v].state = flush[v].state
           /\ \A g \in Fields : InTheDatabase(g) => InTheDatabase(g)'
<1> USE DEF Write
<1>1. flush' = [flush EXCEPT ![w] = [flush[w] EXCEPT !.batch =
                                        [flush[w].batch EXCEPT ![f] = NoJob]]]
  BY DEF QueueInv, QueueTypeOK, Flush
<1>2. /\ flush' \in [Flushers -> Flush]
      /\ flush'[w].state = "writing" /\ flush'[w].batch[f] = NoJob
      /\ \A g \in Fields \ {f} : flush'[w].batch[g] = flush[w].batch[g]
      /\ \A v \in Flushers \ {w} : flush'[v] = flush[v]
      /\ \A v \in Flushers : flush'[v].state = flush[v].state
  BY <1>1, Unbatched
<1>3. \A v \in Flushers \ {w}, g \in Fields : flush[v].batch[g] = NoJob
  BY OthersHoldNothing
<1>4. PICK j : j = flush[w].batch[f]
  OBVIOUS
<1>5. j # NoJob /\ j \in [Keys(f) -> Values]
  BY <1>4 DEF Batch, QueueInv, QueueTypeOK, JobsOf
<1>6. DOMAIN j = Keys(f) /\ f \in Keys(f) /\ \A g \in Keys(f) : j[g] \in Values
  BY <1>5, Rows
<1>7. \A g \in Fields : disk'[g] = IF g \in Keys(f) THEN j[g] ELSE disk[g]
  BY <1>4, <1>6
<1>8. disk' \in [Fields -> Values]
  BY <1>4, <1>6 DEF QueueInv, QueueTypeOK
<1>9. \A g \in Fields \ {f} : InTheDatabase(g)' = InTheDatabase(g)
  BY <1>2, <1>3 DEF InTheDatabase
<1>10. QueueTypeOK'
  BY <1>2, <1>8, NoJobFits DEF QueueInv, QueueTypeOK, JobsOf
<1>11. OneHolds'
  BY <1>2, <1>3 DEF QueueInv, OneHolds
<1>12. ASSUME NEW g \in Fields \ {"policy"} PROVE NewestFirst(g)'
  <2>1. NewestFirst(g)
    BY DEF QueueInv
  <2>2. CASE g = f
    BY <1>2, <1>3, <1>4, <1>5, <1>6, <1>7, <2>1, <2>2 DEF NewestFirst, InTheDatabase
  <2>3. CASE g # f
    <3>1. disk'[g] = disk[g]
      BY <1>7, <2>3, Rows
    <3> QED
      BY <1>2, <1>3, <1>9, <2>1, <2>3, <3>1 DEF NewestFirst
  <2> QED
    BY <2>2, <2>3
<1>13. ~InTheDatabase(f)
  BY <1>4, <1>5 DEF InTheDatabase
<1> QED
  BY <1>2, <1>9, <1>10, <1>11, <1>12, <1>13 DEF QueueInv

LEMMA QueueRetries ==
    ASSUME QueueInv, NEW w \in Flushers, NEW f \in Fields, WriteFails(w, f)
    PROVE  /\ QueueInv'
           /\ \A v \in Flushers : flush'[v].state = flush[v].state
           /\ \A g \in Fields : InTheDatabase(g) => InTheDatabase(g)'
<1> USE DEF WriteFails
<1>1. flush' = [flush EXCEPT ![w] = [flush[w] EXCEPT !.batch =
                               [flush[w].batch EXCEPT ![f] = NoJob], !.failed = TRUE]]
  BY DEF QueueInv, QueueTypeOK, Flush
<1>2. /\ flush' \in [Flushers -> Flush]
      /\ flush'[w].state = "writing" /\ flush'[w].batch[f] = NoJob
      /\ \A g \in Fields \ {f} : flush'[w].batch[g] = flush[w].batch[g]
      /\ \A v \in Flushers \ {w} : flush'[v] = flush[v]
      /\ \A v \in Flushers : flush'[v].state = flush[v].state
  BY <1>1, Unbatched
<1>3. \A v \in Flushers \ {w}, g \in Fields : flush[v].batch[g] = NoJob
  BY OthersHoldNothing
<1>4. PICK j : j = flush[w].batch[f]
  OBVIOUS
<1>5. j # NoJob /\ j \in JobsOf(f) /\ j \in Job
  BY <1>4 DEF Batch, QueueInv, QueueTypeOK, Flush
<1>6. /\ jobs' \in [Fields -> Job]
      /\ jobs'[f] = IF jobs[f] = NoJob THEN j ELSE jobs[f]
      /\ \A g \in Fields \ {f} : jobs'[g] = jobs[g]
  BY <1>4, <1>5 DEF Requeued, QueueInv, QueueTypeOK
<1>7. \A g \in Fields \ {f} : InTheDatabase(g)' = InTheDatabase(g)
  BY <1>2, <1>3, <1>6 DEF InTheDatabase
<1>8. QueueTypeOK'
  BY <1>2, <1>5, <1>6, NoJobFits DEF QueueInv, QueueTypeOK, JobsOf
<1>9. OneHolds'
  BY <1>2, <1>3 DEF QueueInv, OneHolds
<1>10. ASSUME NEW g \in Fields \ {"policy"} PROVE NewestFirst(g)'
  <2>1. NewestFirst(g)
    BY DEF QueueInv
  <2>2. CASE g = f
    BY <1>2, <1>3, <1>4, <1>5, <1>6, <2>1, <2>2 DEF NewestFirst, InTheDatabase
  <2>3. CASE g # f
    BY <1>2, <1>3, <1>6, <1>7, <2>1, <2>3 DEF NewestFirst
  <2> QED
    BY <2>2, <2>3
<1>11. ~InTheDatabase(f)
  BY <1>4, <1>5 DEF InTheDatabase
<1> QED
  BY <1>2, <1>7, <1>8, <1>9, <1>10, <1>11 DEF QueueInv

(* What is put in the queue is the choice just made.                       *)
LEMMA QueueChooses ==
    ASSUME QueueInv, NEW f \in Fields, NEW n \in 1..MaxChoices, NEW j \in [Keys(f) -> Values],
           j[f] = n, choice' = [choice EXCEPT ![f] = n], jobs' = [jobs EXCEPT ![f] = j],
           UNCHANGED <<disk, flush>>
    PROVE  QueueInv' /\ \A g \in Fields \ {f} : InTheDatabase(g)' = InTheDatabase(g)
<1>1. j \in JobsOf(f) /\ j \in Job /\ j # NoJob
  BY SomeJob
<1>2. /\ jobs' \in [Fields -> Job] /\ jobs'[f] = j
      /\ \A g \in Fields \ {f} : jobs'[g] = jobs[g]
  BY <1>1 DEF QueueInv, QueueTypeOK
<1>3. n \in 0..MaxChoices
  BY PreferencesAssumption
<1>4. /\ choice' \in [Fields -> 0..MaxChoices] /\ choice'[f] = n
      /\ \A g \in Fields \ {f} : choice'[g] = choice[g]
  BY <1>3 DEF QueueInv, QueueTypeOK
<1>5. \A g \in Fields \ {f} : InTheDatabase(g)' = InTheDatabase(g)
  BY <1>2 DEF InTheDatabase
<1>6. QueueTypeOK'
  BY <1>1, <1>2, <1>4 DEF QueueInv, QueueTypeOK, JobsOf
<1>7. OneHolds'
  BY DEF QueueInv, OneHolds
<1>8. ASSUME NEW g \in Fields \ {"policy"} PROVE NewestFirst(g)'
  <2>1. NewestFirst(g)
    BY DEF QueueInv
  <2>2. CASE g = f
    BY <1>1, <1>2, <1>4, <2>2 DEF NewestFirst, InTheDatabase
  <2>3. CASE g # f
    BY <1>2, <1>4, <1>5, <2>1, <2>3 DEF NewestFirst
  <2> QED
    BY <2>2, <2>3
<1> QED
  BY <1>5, <1>6, <1>7, <1>8 DEF QueueInv

LEMMA QueueElsewhere ==
    ASSUME QueueInv, NEW f \in Fields, OtherProcess(f)
    PROVE  QueueInv' /\ \A g \in Fields : InTheDatabase(g)' = InTheDatabase(g)
<1>1. Other \in Values
  BY PreferencesAssumption DEF Other, Values
<1>2. /\ disk' \in [Fields -> Values]
      /\ \A g \in Fields : disk'[g] = disk[g] \/ disk'[g] = Other
  BY <1>1 DEF OtherProcess, QueueInv, QueueTypeOK
<1>3. \A g \in Fields : InTheDatabase(g)' = InTheDatabase(g)
  BY DEF InTheDatabase, OtherProcess
<1>4. QueueTypeOK' /\ OneHolds'
  BY <1>2 DEF QueueInv, QueueTypeOK, OneHolds, JobsOf, OtherProcess
<1>5. ASSUME NEW g \in Fields \ {"policy"} PROVE NewestFirst(g)'
  BY <1>2, <1>3 DEF NewestFirst, QueueInv, OtherProcess
<1> QED
  BY <1>3, <1>4, <1>5 DEF QueueInv

LEMMA QueueStays ==
    ASSUME QueueInv, UNCHANGED <<choice, disk, jobs, flush>>
    PROVE  QueueInv' /\ \A g \in Fields : InTheDatabase(g)' = InTheDatabase(g)
BY DEF QueueInv, QueueTypeOK, OneHolds, NewestFirst, InTheDatabase, JobsOf

-----------------------------------------------------------------------------
(* Loads.                                                                  *)

LEMMA Loaded ==
    ASSUME LoadTypeOK, NEW f \in Loads, NEW r \in Load, load' = [load EXCEPT ![f] = r],
           r.state = "read" => r.value \in [Row[f] -> Values]
    PROVE  /\ load' \in [Loads -> Load] /\ load'[f] = r
           /\ \A g \in Loads \ {f} : load'[g] = load[g]
           /\ \A g \in Loads : load'[g].state = "read" => load'[g].value \in [Row[g] -> Values]
BY DEF LoadTypeOK

(* What reads of rows and pins, and the queue, must keep of the rest.      *)
LEMMA InvStays ==
    ASSUME PreferencesInv, QueueInv',
           UNCHANGED <<shown, choice, failures, load>>,
           program' = program,
           \A g \in Fields : InTheDatabase(g) => InTheDatabase(g)',
           program # "saved",
           \A w \in {"exit", "loader"} :
              program = "running" /\ flush'[w].state # "idle" => flush[w].state # "idle"
    PROVE  PreferencesInv'
<1>1. LoadTypeOK' /\ VisibilityInv' /\ ExitSavesChoices' /\ ChoicesStand'
  BY DEF PreferencesInv, LoadTypeOK, VisibilityInv, ExitSavesChoices, ChoicesStand
<1>2. FlushersServe'
  BY DEF PreferencesInv, FlushersServe
<1>3. PinInv'
  BY DEF PreferencesInv, PinInv, Fields
<1> QED
  BY <1>1, <1>2, <1>3 DEF PreferencesInv

-----------------------------------------------------------------------------
(* Flushes.                                                                *)

LEMMA InvEnter ==
    ASSUME PreferencesInv, Alive, NEW w \in Flushers, Enter(w) PROVE PreferencesInv'
<1>1. \A v \in Flushers, f \in Fields : flush[v].state # "writing" /\ flush[v].batch[f] = NoJob
  BY DEF Enter, GateIsFree, PreferencesInv, QueueInv, OneHolds
<1>2. /\ QueueInv' /\ \A f \in Fields : InTheDatabase(f)' = InTheDatabase(f)
      /\ \A v \in Flushers \ {w} : flush'[v] = flush[v]
  <2>1. PICK r \in Flush : /\ r.state = "writing" /\ r.batch = jobs
                           /\ flush' = [flush EXCEPT ![w] = r]
                           /\ jobs' \in [Fields -> Job] /\ \A f \in Fields : jobs'[f] = NoJob
    BY Takes DEF Enter, PreferencesInv
  <2> QED
    <3>1. QueueInv /\ UNCHANGED <<choice, disk>>
      BY DEF PreferencesInv, Enter
    <3> QED
      BY <1>1, <2>1, <3>1, QueueTakes DEF Fields
<1> QED
  BY <1>2, InvStays DEF Enter, Alive, Flushers

LEMMA InvWrite ==
    ASSUME PreferencesInv, Alive, NEW w \in Flushers, NEW f \in Fields, Write(w, f) PROVE PreferencesInv'
<1>1. /\ QueueInv' /\ \A g \in Fields : InTheDatabase(g) => InTheDatabase(g)'
      /\ \A v \in Flushers : flush'[v].state = flush[v].state
  BY QueueWrites DEF PreferencesInv
<1> QED
  BY <1>1, InvStays DEF Write, Alive, Flushers

LEMMA InvWriteFails ==
    ASSUME PreferencesInv, Alive, NEW w \in Flushers, NEW f \in Fields, WriteFails(w, f) PROVE PreferencesInv'
<1>1. /\ QueueInv' /\ \A g \in Fields : InTheDatabase(g) => InTheDatabase(g)'
      /\ \A v \in Flushers : flush'[v].state = flush[v].state
  BY QueueRetries DEF PreferencesInv
<1>2. failures' \in 0..MaxFailures
  BY PreferencesAssumption DEF WriteFails, PreferencesInv, LoadTypeOK
<1>3. LoadTypeOK' /\ VisibilityInv' /\ ExitSavesChoices' /\ ChoicesStand'
  BY <1>2 DEF PreferencesInv, LoadTypeOK, VisibilityInv, ExitSavesChoices, ChoicesStand, WriteFails, Alive
<1>4. FlushersServe'
  BY <1>1 DEF PreferencesInv, FlushersServe, WriteFails, Flushers
<1>5. PinInv'
  BY <1>1 DEF PreferencesInv, PinInv, Fields, WriteFails
<1> QED
  BY <1>1, <1>3, <1>4, <1>5 DEF PreferencesInv

(* A flush that ends with an empty queue has saved everything.             *)
LEMMA FlushEnds ==
    ASSUME PreferencesInv, Alive, NEW w \in Flushers, NEW ok \in BOOLEAN,
           flush[w].state # "idle",
           flush' = [flush EXCEPT ![w] = NoFlush],
           \A f \in Fields : flush[w].batch[f] = NoJob,
           ok => \A f \in Fields : InTheDatabase(f),
           Ended(w, ok), UNCHANGED <<shown, choice, disk, jobs, failures>>
    PROVE  PreferencesInv'
<1>1. /\ QueueInv' /\ \A f \in Fields : InTheDatabase(f)' = InTheDatabase(f)
      /\ flush'[w].state = "idle" /\ \A v \in Flushers \ {w} : flush'[v] = flush[v]
  BY QueueEnds DEF PreferencesInv
<1>2. CASE w = "exit"
  <2>1. program' = (IF ok THEN "saved" ELSE "unsaved") /\ load' = load
    BY <1>2 DEF Ended
  <2>2. ChoicesStand' /\ LoadTypeOK'
    BY <2>1 DEF PreferencesInv, LoadTypeOK, ChoicesStand
  <2>3. ExitSavesChoices'
    <3>1. ASSUME ok, NEW f \in Fields \ {"policy"}, choice[f] # 0
          PROVE  disk[f] \in {choice[f], Other}
      BY <3>1 DEF PreferencesInv, QueueInv, NewestFirst
    <3> QED
      BY <2>1, <3>1 DEF ExitSavesChoices
  <2>4. FlushersServe' /\ VisibilityInv' /\ PinInv'
    BY <2>1 DEF FlushersServe, VisibilityInv, PinInv
  <2> QED
    BY <1>1, <2>2, <2>3, <2>4 DEF PreferencesInv
<1>3. CASE w # "exit" /\ (w # "loader" \/ program # "running")
  <2>1. program' = program /\ load' = load
    BY <1>3 DEF Ended
  <2> QED
    BY <1>1, <1>3, <2>1, InvStays DEF Alive, Flushers
<1>4. CASE w = "loader" /\ program = "running"
  <2>1. /\ program' = program
        /\ load' = [load EXCEPT !["pin"].state = IF ok THEN "asked" ELSE "idle"]
    BY <1>4 DEF Ended
  <2>2. PICK r : r = [load["pin"] EXCEPT !.state = IF ok THEN "asked" ELSE "idle"]
    OBVIOUS
  <2>3. /\ r \in Load /\ r.state = (IF ok THEN "asked" ELSE "idle")
        /\ r.stale = load["pin"].stale
    BY <2>2 DEF PreferencesInv, LoadTypeOK, Load, Loads
  <2>4. load' = [load EXCEPT !["pin"] = r]
    BY <2>1, <2>2 DEF PreferencesInv, LoadTypeOK, Loads
  <2>5. /\ load' \in [Loads -> Load] /\ load'["pin"] = r
        /\ \A g \in Loads \ {"pin"} : load'[g] = load[g]
        /\ \A g \in Loads : load'[g].state = "read" => load'[g].value \in [Row[g] -> Values]
    BY <2>3, <2>4, Loaded DEF PreferencesInv, Loads
  <2>6. LoadTypeOK' /\ ExitSavesChoices' /\ ChoicesStand'
    BY <1>4, <2>1, <2>5 DEF PreferencesInv, LoadTypeOK, ExitSavesChoices, ChoicesStand
  <2>7. VisibilityInv'
    BY <2>1, <2>5 DEF PreferencesInv, VisibilityInv, Loads
  <2>8. FlushersServe'
    BY <1>1, <1>4, <2>1 DEF PreferencesInv, FlushersServe, Flushers
  <2>9. PinInv'
    BY <1>1, <2>3, <2>5 DEF PinInv, Fields
  <2> QED
    BY <1>1, <2>6, <2>7, <2>8, <2>9 DEF PreferencesInv
<1> QED
  BY <1>2, <1>3, <1>4

LEMMA InvNextRound ==
    ASSUME PreferencesInv, Alive, NEW w \in Flushers, NextRound(w) PROVE PreferencesInv'
<1>1. /\ \A f \in Fields : flush[w].batch[f] = NoJob
      /\ flush[w].state = "writing"
  BY DEF NextRound, Batch
<1>2. \A v \in Flushers \ {w}, f \in Fields :
        flush[v].state # "writing" /\ flush[v].batch[f] = NoJob
  BY <1>1, OthersHoldNothing DEF PreferencesInv
<1>3. flush[w].failed \in BOOLEAN
  BY DEF PreferencesInv, QueueInv, QueueTypeOK, Flush
<1>4. CASE TakeJobs(w, FALSE) /\ UNCHANGED <<load, program>>
  <2>1. /\ QueueInv' /\ \A f \in Fields : InTheDatabase(f)' = InTheDatabase(f)
        /\ \A v \in Flushers \ {w} : flush'[v] = flush[v]
    <3>1. PICK r \in Flush : /\ r.state = "writing" /\ r.batch = jobs
                             /\ flush' = [flush EXCEPT ![w] = r]
                             /\ jobs' \in [Fields -> Job] /\ \A f \in Fields : jobs'[f] = NoJob
      BY <1>4, Takes DEF PreferencesInv
    <3> QED
      <4>1. QueueInv /\ UNCHANGED <<choice, disk>>
        BY DEF PreferencesInv, NextRound
      <4> QED
        BY <1>1, <1>2, <3>1, <4>1, QueueTakes DEF Fields
  <2> QED
    BY <1>1, <1>4, <2>1, InvStays DEF NextRound, Alive, Flushers
<1>5. CASE /\ ~(~flush[w].failed /\ \E f \in Fields : jobs[f] # NoJob)
           /\ flush' = [flush EXCEPT ![w] = NoFlush]
           /\ Ended(w, ~flush[w].failed) /\ UNCHANGED jobs
  <2>1. PICK ok \in BOOLEAN : ok = ~flush[w].failed
    BY <1>3
  <2>2. Ended(w, ok)
    BY <1>5, <2>1
  <2>3. ok => \A f \in Fields : InTheDatabase(f)
    BY <1>1, <1>2, <1>5, <2>1 DEF InTheDatabase
  <2> QED
    BY <1>1, <1>5, <2>2, <2>3, FlushEnds DEF NextRound
<1> QED
  BY <1>4, <1>5 DEF NextRound

LEMMA InvGiveUp ==
    ASSUME PreferencesInv, Alive, NEW w \in Flushers, GiveUp(w) PROVE PreferencesInv'
<1>1. \A f \in Fields : flush[w].batch[f] = NoJob
  BY DEF GiveUp, PreferencesInv, QueueInv, OneHolds
<1>2. PICK ok \in BOOLEAN : ok = FALSE
  OBVIOUS
<1>3. Ended(w, ok)
  BY <1>2 DEF GiveUp
<1> QED
  BY <1>1, <1>2, <1>3, FlushEnds DEF GiveUp

-----------------------------------------------------------------------------
(* Choices.                                                                *)

LEMMA InvChoose ==
    ASSUME PreferencesInv, NEW f \in Fields, NEW w \in Savers, Choose(f, w) PROVE PreferencesInv'
<1>1. w \in Flushers /\ w # "exit" /\ w # "loader"
  BY PreferencesAssumption DEF Flushers
<1>2. PICK n \in 1..MaxChoices : choice' = [choice EXCEPT ![f] = n]
                              /\ shown' = [shown EXCEPT ![f] = n]
  BY DEF Choose
<1>3. n \in Values /\ n # 0 /\ n \in 0..MaxChoices
  BY PreferencesAssumption DEF Values, Other
<1>4. /\ shown' \in [Fields -> Values] /\ shown'[f] = n
      /\ \A g \in Fields \ {f} : shown'[g] = shown[g]
  BY <1>2, <1>3 DEF PreferencesInv, LoadTypeOK
<1>5. /\ choice' \in [Fields -> 0..MaxChoices] /\ choice'[f] = n
      /\ \A g \in Fields \ {f} : choice'[g] = choice[g]
  BY <1>2, <1>3 DEF PreferencesInv, QueueInv, QueueTypeOK
<1>6. PICK j : j = JobOf(f)
  OBVIOUS
<1>7. j \in [Keys(f) -> Values] /\ j[f] = n
  BY <1>4, <1>6, Rows DEF JobOf, Keys
<1>8. jobs' = [jobs EXCEPT ![f] = j]
  BY <1>6 DEF Choose
<1>9. /\ QueueInv' /\ \A g \in Fields \ {f} : InTheDatabase(g)' = InTheDatabase(g)
      /\ flush'["exit"] = flush["exit"] /\ flush'["loader"] = flush["loader"]
  <2>1. CASE UNCHANGED flush
    <3>1. QueueInv' /\ \A g \in Fields \ {f} : InTheDatabase(g)' = InTheDatabase(g)
      BY <1>2, <1>7, <1>8, <2>1, QueueChooses DEF PreferencesInv, Choose
    <3> QED
      BY <2>1, <3>1
  <2>2. CASE flush[w].state = "idle" /\ Start(w)
    <3>1. PICK r : r = [flush[w] EXCEPT !.state = "waiting"]
      OBVIOUS
    <3>2. r \in Flush /\ r.state = "waiting" /\ r.batch = flush[w].batch
      BY <1>1, <3>1 DEF PreferencesInv, QueueInv, QueueTypeOK, Flush
    <3>3. flush' = [flush EXCEPT ![w] = r]
      BY <2>2, <3>1 DEF Start, PreferencesInv, QueueInv, QueueTypeOK
    <3>4. /\ flush' \in [Flushers -> Flush] /\ flush'[w] = r
          /\ \A v \in Flushers \ {w} : flush'[v] = flush[v]
      BY <1>1, <3>2, <3>3, Flushed DEF PreferencesInv
    <3>5. \A v \in Flushers, g \in Fields : flush'[v].batch[g] = flush[v].batch[g]
      BY <1>1, <3>2, <3>4
    <3>6. j \in JobsOf(f) /\ j \in Job /\ j # NoJob
      BY <1>7, SomeJob
    <3>7. /\ jobs' \in [Fields -> Job] /\ jobs'[f] = j
          /\ \A g \in Fields \ {f} : jobs'[g] = jobs[g]
      BY <1>8, <3>6 DEF PreferencesInv, QueueInv, QueueTypeOK
    <3>8. \A g \in Fields \ {f} : InTheDatabase(g)' = InTheDatabase(g)
      BY <3>5, <3>7 DEF InTheDatabase
    <3>9. disk' = disk
      BY DEF Choose
    <3>10. QueueTypeOK'
      BY <1>5, <3>4, <3>5, <3>6, <3>7, <3>9 DEF PreferencesInv, QueueInv, QueueTypeOK, JobsOf
    <3>11. OneHolds'
      BY <1>1, <2>2, <3>2, <3>4, <3>5 DEF PreferencesInv, QueueInv, OneHolds
    <3>12. ASSUME NEW g \in Fields \ {"policy"} PROVE NewestFirst(g)'
      <4>1. NewestFirst(g)
        BY DEF PreferencesInv, QueueInv
      <4>2. CASE g = f
        BY <1>5, <1>7, <3>6, <3>7, <4>2 DEF NewestFirst, InTheDatabase
      <4>3. CASE g # f
        BY <1>5, <3>5, <3>7, <3>8, <3>9, <4>1, <4>3 DEF NewestFirst
      <4> QED
        BY <4>2, <4>3
    <3> QED
      BY <1>1, <3>4, <3>8, <3>10, <3>11, <3>12 DEF QueueInv, Flushers
  <2> QED
    BY <2>1, <2>2 DEF Choose
<1>10. RowOf(f) \in Loads
  BY Rows DEF Loads, Fields
<1>11. PICK r : r = [load[RowOf(f)] EXCEPT !.stale = TRUE]
  OBVIOUS
<1>12. /\ r \in Load /\ r.stale /\ r.state = load[RowOf(f)].state
       /\ r.value = load[RowOf(f)].value
  BY <1>10, <1>11 DEF PreferencesInv, LoadTypeOK, Load
<1>13. load' = [load EXCEPT ![RowOf(f)] = r]
  BY <1>10, <1>11 DEF Choose, PreferencesInv, LoadTypeOK
<1>14. /\ load' \in [Loads -> Load] /\ load'[RowOf(f)] = r
       /\ \A g \in Loads \ {RowOf(f)} : load'[g] = load[g]
       /\ \A g \in Loads : load'[g].state = "read" => load'[g].value \in [Row[g] -> Values]
  <2>1. r.state = "read" => r.value \in [Row[RowOf(f)] -> Values]
    BY <1>10, <1>12 DEF PreferencesInv, LoadTypeOK
  <2> QED
    BY <1>10, <1>12, <1>13, <2>1, Loaded DEF PreferencesInv
<1>15. program = "running" /\ program' = program /\ failures' = failures
  BY DEF Choose
<1>16. LoadTypeOK' /\ ExitSavesChoices' /\ ChoicesStand'
  BY <1>3, <1>4, <1>5, <1>14, <1>15 DEF PreferencesInv, LoadTypeOK, ExitSavesChoices, ChoicesStand, Fields
<1>17. FlushersServe'
  <2>1. load'["pin"].state = load["pin"].state
    BY <1>12, <1>14 DEF Loads
  <2> QED
    BY <1>9, <1>15, <2>1 DEF PreferencesInv, FlushersServe
<1>18. VisibilityInv'
  <2>1. CASE f = "visibility"
    BY <1>12, <1>14, <2>1, Rows DEF VisibilityInv, Fields
  <2>2. CASE f # "visibility"
    <3>1. RowOf(f) # "visibility"
      BY <2>2, Rows
    <3> QED
      BY <1>5, <1>14, <1>15, <2>2, <3>1 DEF VisibilityInv, PreferencesInv, Loads, Fields
  <2> QED
    BY <2>1, <2>2
<1>19. PinInv'
  <2>1. CASE f = "pin"
    BY <1>12, <1>14, <2>1, Rows DEF PinInv, Fields
  <2>2. CASE f # "pin"
    <3>1. RowOf(f) # "pin"
      BY <2>2, Rows
    <3> QED
      BY <1>5, <1>9, <1>14, <1>15, <2>2, <3>1 DEF PinInv, PreferencesInv, Loads, Fields
  <2> QED
    BY <2>1, <2>2
<1> QED
  BY <1>9, <1>16, <1>17, <1>18, <1>19 DEF PreferencesInv

LEMMA InvOtherProcess ==
    ASSUME PreferencesInv, NEW f \in Fields, OtherProcess(f) PROVE PreferencesInv'
<1>1. QueueInv' /\ \A g \in Fields : InTheDatabase(g)' = InTheDatabase(g)
  BY QueueElsewhere DEF PreferencesInv
<1> QED
  BY <1>1, InvStays DEF OtherProcess

-----------------------------------------------------------------------------
(* Loads.                                                                  *)

(* What a load that is not the visibility's, nor comes to an end of the    *)
(* pins', has to keep.                                                     *)
LEMMA InvLoads ==
    ASSUME PreferencesInv, QueueInv', program = "running", program' = program,
           UNCHANGED <<choice, disk, jobs>>,
           \A g \in Fields : InTheDatabase(g)' = InTheDatabase(g),
           NEW f \in Loads, NEW r \in Load, load' = [load EXCEPT ![f] = r],
           r.state = "read" => r.value \in [Row[f] -> Values],
           f = "visibility" => (load[f].stale => r.stale),
           f = "pin" /\ ~r.stale /\ r.state \in {"asked", "read"} => PinInv',
           shown' \in [Fields -> Values], ChoicesStand',
           failures' \in 0..MaxFailures,
           flush'["exit"] = flush["exit"],
           \/ flush'["loader"] = flush["loader"] /\ (f = "pin" => load[f].state # "flushing")
           \/ f = "pin" /\ r.state = "flushing"
    PROVE  PreferencesInv'
<1>1. /\ load' \in [Loads -> Load] /\ load'[f] = r
      /\ \A g \in Loads \ {f} : load'[g] = load[g]
      /\ \A g \in Loads : load'[g].state = "read" => load'[g].value \in [Row[g] -> Values]
  BY Loaded DEF PreferencesInv
<1>2. LoadTypeOK' /\ ExitSavesChoices'
  BY <1>1 DEF PreferencesInv, LoadTypeOK, ExitSavesChoices
<1>3. VisibilityInv'
  BY <1>1 DEF PreferencesInv, VisibilityInv, Loads
<1>4. FlushersServe'
  BY <1>1 DEF PreferencesInv, FlushersServe, Loads
<1>5. PinInv'
  <2>1. CASE f = "pin"
    <3>1. CASE ~r.stale /\ r.state \in {"asked", "read"}
      BY <2>1, <3>1
    <3>2. CASE r.stale \/ r.state \notin {"asked", "read"}
      BY <1>1, <2>1, <3>2 DEF PinInv
    <3> QED
      BY <3>1, <3>2
  <2>2. CASE f # "pin"
    BY <1>1, <2>2 DEF PreferencesInv, PinInv, Loads, Fields
  <2> QED
    BY <2>1, <2>2
<1> QED
  BY <1>2, <1>3, <1>4, <1>5 DEF PreferencesInv

(* A record of a load, as StartLoad leaves it.                             *)
LEMMA LoadStarts ==
    ASSUME LoadTypeOK, NEW f \in Loads, NEW state \in {"flushing", "asked"},
           load' = StartLoad(f, state)
    PROVE  \E r \in Load :
             /\ load' = [load EXCEPT ![f] = r] /\ r.state = state
             /\ r.stale = (load[f].stale /\ f = "visibility")
<1>1. PICK r : r = [load[f] EXCEPT !.state = state, !.known = load[f].known \/ f # "pin",
                                   !.stale = load[f].stale /\ f = "visibility"]
  OBVIOUS
<1>2. load[f] \in Load
  BY DEF LoadTypeOK
<1>3. /\ r \in Load /\ r.state = state /\ r.stale = (load[f].stale /\ f = "visibility")
  BY <1>1, <1>2 DEF Load
<1>4. load' = [load EXCEPT ![f] = r]
  BY <1>1 DEF StartLoad, LoadTypeOK
<1> QED
  BY <1>3, <1>4

LEMMA InvLoadRow ==
    ASSUME PreferencesInv, NEW f \in Loads, LoadRow(f) PROVE PreferencesInv'
<1>1. PICK r \in Load : /\ load' = [load EXCEPT ![f] = r] /\ r.state = "asked"
                        /\ r.stale = (load[f].stale /\ f = "visibility")
  BY LoadStarts DEF LoadRow, PreferencesInv
<1>2. QueueInv' /\ \A g \in Fields : InTheDatabase(g)' = InTheDatabase(g)
  BY QueueStays DEF LoadRow, PreferencesInv
<1>3. ChoicesStand' /\ shown' \in [Fields -> Values] /\ failures' \in 0..MaxFailures
  BY DEF LoadRow, PreferencesInv, ChoicesStand, LoadTypeOK
<1> QED
  BY <1>1, <1>2, <1>3, InvLoads DEF LoadRow

LEMMA InvLoadRunPins ==
    ASSUME PreferencesInv, LoadRunPins PROVE PreferencesInv'
<1>1. PICK r \in Load : load' = [load EXCEPT !["pin"] = r] /\ r.state = "flushing"
  BY LoadStarts DEF LoadRunPins, PreferencesInv, Loads
<1>2. flush["loader"].state = "idle" /\ "loader" \in Flushers
  BY DEF LoadRunPins, PreferencesInv, FlushersServe, Flushers
<1>3. /\ QueueInv' /\ \A g \in Fields : InTheDatabase(g)' = InTheDatabase(g)
      /\ flush'["exit"] = flush["exit"]
  BY <1>2, QueueStarts DEF LoadRunPins, PreferencesInv, Flushers
<1>4. ChoicesStand' /\ shown' \in [Fields -> Values] /\ failures' \in 0..MaxFailures
  BY DEF LoadRunPins, PreferencesInv, ChoicesStand, LoadTypeOK
<1> QED
  BY <1>1, <1>3, <1>4, InvLoads DEF LoadRunPins, Loads

LEMMA InvReadFails ==
    ASSUME PreferencesInv, Alive, NEW f \in Loads, ReadFails(f) PROVE PreferencesInv'
<1>1. PICK r : r = [load[f] EXCEPT !.state = "idle", !.known = load[f].known /\ f = "pin"]
  OBVIOUS
<1>2. r \in Load /\ r.state = "idle" /\ r.stale = load[f].stale
  BY <1>1 DEF PreferencesInv, LoadTypeOK, Load
<1>3. load' = [load EXCEPT ![f] = r]
  BY <1>1 DEF ReadFails, PreferencesInv, LoadTypeOK
<1>4. /\ load' \in [Loads -> Load] /\ load'[f] = r
      /\ \A g \in Loads \ {f} : load'[g] = load[g]
      /\ \A g \in Loads : load'[g].state = "read" => load'[g].value \in [Row[g] -> Values]
  BY <1>2, <1>3, Loaded DEF PreferencesInv
<1>5. QueueInv' /\ \A g \in Fields : InTheDatabase(g)' = InTheDatabase(g)
  BY QueueStays DEF ReadFails, PreferencesInv
<1>6. failures' \in 0..MaxFailures
  BY PreferencesAssumption DEF ReadFails, PreferencesInv, LoadTypeOK
<1>7. LoadTypeOK' /\ ExitSavesChoices' /\ ChoicesStand'
  BY <1>4, <1>6 DEF PreferencesInv, LoadTypeOK, ExitSavesChoices, ChoicesStand, ReadFails
<1>8. VisibilityInv'
  BY <1>2, <1>4 DEF PreferencesInv, VisibilityInv, Loads, ReadFails
<1>9. FlushersServe'
  BY <1>2, <1>4 DEF PreferencesInv, FlushersServe, Loads, ReadFails
<1>10. PinInv'
  BY <1>2, <1>4, <1>5 DEF PreferencesInv, PinInv, Loads, Fields, ReadFails
<1> QED
  BY <1>5, <1>7, <1>8, <1>9, <1>10 DEF PreferencesInv

LEMMA InvReadRow ==
    ASSUME PreferencesInv, Alive, NEW f \in Loads, ReadRow(f) PROVE PreferencesInv'
<1>1. PICK value : value = [g \in Row[f] |-> disk[g]]
  OBVIOUS
<1>2. value \in [Row[f] -> Values] /\ value[f] = disk[f]
  BY <1>1, Rows DEF PreferencesInv, QueueInv, QueueTypeOK
<1>3. PICK r : r = [load[f] EXCEPT !.state = "read", !.value = value]
  OBVIOUS
<1>4. r \in Load /\ r.state = "read" /\ r.stale = load[f].stale /\ r.value = value
  <2>1. value \in Job /\ load[f] \in Load
    BY <1>2, SomeRow DEF PreferencesInv, LoadTypeOK
  <2> QED
    BY <1>3, <2>1 DEF Load
<1>5. load' = [load EXCEPT ![f] = r]
  BY <1>1, <1>3 DEF ReadRow, PreferencesInv, LoadTypeOK
<1>6. /\ load' \in [Loads -> Load] /\ load'[f] = r
      /\ \A g \in Loads \ {f} : load'[g] = load[g]
      /\ \A g \in Loads : load'[g].state = "read" => load'[g].value \in [Row[g] -> Values]
  BY <1>2, <1>4, <1>5, Loaded DEF PreferencesInv
<1>7. QueueInv' /\ \A g \in Fields : InTheDatabase(g)' = InTheDatabase(g)
  BY QueueStays DEF ReadRow, PreferencesInv
<1>8. LoadTypeOK' /\ ExitSavesChoices' /\ ChoicesStand'
  BY <1>6 DEF PreferencesInv, LoadTypeOK, ExitSavesChoices, ChoicesStand, ReadRow
<1>9. VisibilityInv'
  BY <1>4, <1>6 DEF PreferencesInv, VisibilityInv, Loads, ReadRow
<1>10. FlushersServe'
  BY <1>4, <1>6 DEF PreferencesInv, FlushersServe, Loads, ReadRow
<1>11. PinInv'
  <2>1. CASE f = "pin"
    <3>1. ASSUME program = "running", ~load["pin"].stale, choice["pin"] # 0
          PROVE  disk["pin"] \in {choice["pin"], Other}
      <4>1. InTheDatabase("pin")
        BY <2>1, <3>1 DEF ReadRow, PreferencesInv, PinInv
      <4>2. NewestFirst("pin")
        BY DEF PreferencesInv, QueueInv, Fields
      <4> QED
        BY <3>1, <4>1, <4>2 DEF NewestFirst
    <3> QED
      BY <1>2, <1>4, <1>6, <2>1, <3>1 DEF PinInv, ReadRow
  <2>2. CASE f # "pin"
    BY <1>6, <1>7, <2>2 DEF PreferencesInv, PinInv, Loads, Fields, ReadRow
  <2> QED
    BY <2>1, <2>2
<1> QED
  BY <1>7, <1>8, <1>9, <1>10, <1>11 DEF PreferencesInv

(* What is shown of a load that is not stale is the last choice.           *)
LEMMA AcceptShows ==
    ASSUME PreferencesInv, NEW f \in Loads, load[f].state = "read", program = "running", ~load[f].stale,
           choice' = choice,
           shown' = [g \in Fields |-> IF g \in Row[f] THEN load[f].value[g] ELSE shown[g]]
    PROVE  shown' \in [Fields -> Values] /\ ChoicesStand'
<1>1. load[f].value \in [Row[f] -> Values]
  BY DEF PreferencesInv, LoadTypeOK
<1>2. shown' \in [Fields -> Values]
  BY <1>1 DEF PreferencesInv, LoadTypeOK
<1>3. ASSUME NEW g \in {"visibility", "pin"}, choice[g] # 0
      PROVE  shown'[g] \in {choice[g], Other}
  <2>1. g \in Fields /\ shown[g] \in {choice[g], Other}
    BY <1>3 DEF PreferencesInv, ChoicesStand, Fields
  <2>2. CASE g \in Row[f]
    <3>1. g = f /\ shown'[g] = load[f].value[g]
      BY <2>1, <2>2, Rows
    <3> QED
      BY <1>3, <3>1 DEF PreferencesInv, VisibilityInv, PinInv
  <2>3. CASE g \notin Row[f]
    BY <2>1, <2>3
  <2> QED
    BY <2>2, <2>3
<1> QED
  BY <1>2, <1>3 DEF ChoicesStand

LEMMA InvAccept ==
    ASSUME PreferencesInv, NEW f \in Loads, Accept(f) PROVE PreferencesInv'
<1>1. load[f] \in Load /\ load[f].state = "read" /\ program = "running"
  BY DEF Accept, PreferencesInv, LoadTypeOK
<1>2. flush["loader"].state = "idle" \/ f # "pin"
  BY <1>1 DEF PreferencesInv, FlushersServe
<1>3. failures' \in 0..MaxFailures
  BY DEF Accept, PreferencesInv, LoadTypeOK
<1>4. PICK done : done = [load[f] EXCEPT !.state = "idle", !.known = TRUE, !.value = NoJob]
  OBVIOUS
<1>5. done \in Load /\ done.state = "idle" /\ done.stale = load[f].stale
  BY <1>1, <1>4, NoJobFits DEF Load
<1>6. CASE ~load[f].stale
  <2>1. /\ shown' = [g \in Fields |-> IF g \in Row[f] THEN load[f].value[g] ELSE shown[g]]
        /\ load' = [load EXCEPT ![f] = done] /\ flush' = flush
    BY <1>4, <1>6 DEF Accept
  <2>2. shown' \in [Fields -> Values] /\ ChoicesStand'
    BY <1>1, <1>6, <2>1, AcceptShows DEF Accept
  <2>3. QueueInv' /\ \A g \in Fields : InTheDatabase(g)' = InTheDatabase(g)
    BY <2>1, QueueStays DEF Accept, PreferencesInv
  <2> QED
    BY <1>1, <1>3, <1>5, <2>1, <2>2, <2>3, InvLoads DEF Accept
<1>7. CASE load[f].stale
  <2>1. ChoicesStand' /\ shown' \in [Fields -> Values]
    BY <1>7 DEF Accept, PreferencesInv, ChoicesStand, LoadTypeOK
  <2>2. CASE f # "pin"
    <3>1. load' = [load EXCEPT ![f] = done] /\ flush' = flush
      BY <1>4, <1>7, <2>2 DEF Accept
    <3>2. QueueInv' /\ \A g \in Fields : InTheDatabase(g)' = InTheDatabase(g)
      BY <3>1, QueueStays DEF Accept, PreferencesInv
    <3> QED
      BY <1>1, <1>3, <1>5, <2>1, <2>2, <3>1, <3>2, InvLoads DEF Accept
  <2>3. CASE f = "pin"
    <3>1. PICK r : r = [load[f] EXCEPT !.state = "flushing", !.stale = FALSE, !.value = NoJob]
      OBVIOUS
    <3>2. r \in Load /\ r.state = "flushing"
      BY <1>1, <3>1, NoJobFits DEF Load
    <3>3. load' = [load EXCEPT ![f] = r] /\ Start("loader")
      BY <1>7, <2>3, <3>1 DEF Accept, PreferencesInv, LoadTypeOK
    <3>4. /\ QueueInv' /\ \A g \in Fields : InTheDatabase(g)' = InTheDatabase(g)
          /\ flush'["exit"] = flush["exit"]
      BY <1>2, <2>3, <3>3, QueueStarts DEF Accept, PreferencesInv, Flushers
    <3> QED
      BY <1>1, <1>3, <2>1, <2>3, <3>2, <3>3, <3>4, InvLoads DEF Accept
  <2> QED
    BY <2>2, <2>3
<1> QED
  BY <1>6, <1>7

LEMMA InvQuit ==
    ASSUME PreferencesInv, Quit PROVE PreferencesInv'
<1>1. /\ QueueInv'
  BY QueueStarts DEF Quit, PreferencesInv, FlushersServe, Flushers
<1>2. /\ load' \in [Loads -> Load] /\ \A f \in Loads : load'[f].state = "idle"
  BY NoJobFits DEF Quit, NoLoads, Load, Loads
<1>3. LoadTypeOK' /\ ExitSavesChoices' /\ ChoicesStand'
  BY <1>2 DEF Quit, PreferencesInv, LoadTypeOK, ExitSavesChoices, ChoicesStand
<1> QED
  BY <1>1, <1>3 DEF Quit, PreferencesInv, FlushersServe, VisibilityInv, PinInv

-----------------------------------------------------------------------------
(* The theorems.                                                           *)

LEMMA PreferencesInvInit == PreferencesInit => PreferencesInv
<1> SUFFICES ASSUME PreferencesInit PROVE PreferencesInv
  OBVIOUS
<1> USE DEF PreferencesInit
<1>1. PICK unloaded \in Unloaded : load = NoLoads(unloaded)
  OBVIOUS
<1>2. /\ 0 \in Values /\ 0 \in 0..MaxChoices /\ 0 \in 0..MaxFailures
  BY PreferencesAssumption DEF Values, Other
<1>3. /\ NoFlush \in Flush /\ NoFlush.state = "idle" /\ \A f \in Fields : NoFlush.batch[f] = NoJob
  BY NoJobFits DEF NoFlush, Flush
<1>4. \A f \in Fields : choice[f] = 0 /\ jobs[f] = NoJob
  OBVIOUS
<1>5. QueueTypeOK
  BY <1>2, <1>3, <1>4, NoJobFits DEF QueueTypeOK
<1>6. OneHolds /\ \A f \in Fields : NewestFirst(f)
  BY <1>3, <1>4 DEF OneHolds, NewestFirst
<1>7. /\ load \in [Loads -> Load] /\ \A f \in Loads : load[f].state = "idle"
  BY <1>1, NoJobFits DEF NoLoads, Load
<1>8. LoadTypeOK
  BY <1>2, <1>7 DEF LoadTypeOK
<1>9. FlushersServe
  BY <1>3 DEF FlushersServe, Flushers
<1>10. VisibilityInv /\ PinInv /\ ExitSavesChoices /\ ChoicesStand
  BY <1>4 DEF VisibilityInv, PinInv, ExitSavesChoices, ChoicesStand, Fields
<1> QED
  BY <1>5, <1>6, <1>8, <1>9, <1>10 DEF PreferencesInv, QueueInv

LEMMA PreferencesInvNext == PreferencesInv /\ [PreferencesNext]_preferenceVars => PreferencesInv'
<1> SUFFICES ASSUME PreferencesInv, [PreferencesNext]_preferenceVars PROVE PreferencesInv'
  OBVIOUS
<1>1. CASE UNCHANGED preferenceVars
  <2>1. QueueInv'
    BY <1>1, QueueStays DEF preferenceVars, PreferencesInv
  <2>2. \A f \in Fields : InTheDatabase(f)' = InTheDatabase(f)
    BY <1>1 DEF preferenceVars, InTheDatabase
  <2>3. PinInv'
    BY <1>1, <2>2 DEF preferenceVars, PreferencesInv, PinInv, Fields
  <2> QED
    BY <1>1, <2>1, <2>3 DEF preferenceVars, PreferencesInv, LoadTypeOK, FlushersServe, VisibilityInv,
       ExitSavesChoices, ChoicesStand
<1>2. CASE PreferencesNext
  <2>1. Alive
    BY <1>2 DEF PreferencesNext
  <2>2. CASE Quit
    BY <2>2, InvQuit
  <2>3. CASE LoadRunPins
    BY <2>3, InvLoadRunPins
  <2>4. ASSUME NEW w \in Flushers, Enter(w) \/ NextRound(w) \/ GiveUp(w) PROVE PreferencesInv'
    BY <2>1, <2>4, InvEnter, InvNextRound, InvGiveUp
  <2>5. ASSUME NEW w \in Flushers, NEW f \in Fields, Write(w, f) \/ WriteFails(w, f) PROVE PreferencesInv'
    BY <2>1, <2>5, InvWrite, InvWriteFails
  <2>6. ASSUME NEW f \in Loads, LoadRow(f) \/ ReadRow(f) \/ ReadFails(f) \/ Accept(f) PROVE PreferencesInv'
    BY <2>1, <2>6, InvLoadRow, InvReadRow, InvReadFails, InvAccept
  <2>7. ASSUME NEW f \in Fields, OtherProcess(f) PROVE PreferencesInv'
    BY <2>7, InvOtherProcess
  <2>8. ASSUME NEW f \in Fields, NEW w \in Savers, Choose(f, w) PROVE PreferencesInv'
    BY <2>8, InvChoose
  <2> QED
    BY <1>2, <2>2, <2>3, <2>4, <2>5, <2>6, <2>7, <2>8 DEF PreferencesNext
<1> QED
  BY <1>1, <1>2

LEMMA InvAlways == PreferencesSpec => []PreferencesInv
BY PreferencesInvInit, PreferencesInvNext, PTL DEF PreferencesSpec

(* Every variable has its type, for every number of flushes, choices and   *)
(* failures.                                                               *)
THEOREM PreferencesTypeCorrect == PreferencesSpec => []PreferencesTypeOK
<1>1. PreferencesInv => PreferencesTypeOK
  BY DEF PreferencesInv, QueueInv, QueueTypeOK, LoadTypeOK, PreferencesTypeOK
<1> QED
  BY <1>1, InvAlways, PTL

(* The user's last choice stays on the screen, and is in the database when *)
(* the program has ended well, however flushes, failures and retries, and  *)
(* reads that were under way, are interleaved with it (stateWriter.flush,  *)
(* updateRunPins).                                                         *)
THEOREM ChoicesAreAlwaysKept == PreferencesSpec => []ChoicesAreKept
<1>1. PreferencesInv => ChoicesAreKept
  BY DEF PreferencesInv, ChoicesAreKept
<1> QED
  BY <1>1, InvAlways, PTL
=============================================================================

----------------------------- MODULE StateFile -----------------------------
(***************************************************************************)
(* Opening the local database (internal/localstate/store.go).  Programs    *)
(* are binaries of different ages: each supports the schema up to a        *)
(* version, and any of them may find the database missing, empty, older    *)
(* or newer than that.  A statement or transaction of SQLite is one step;  *)
(* SQLITE_BUSY is a step that is tried again until its budget is spent.    *)
(***************************************************************************)
EXTENDS Integers, FiniteSets

CONSTANTS
    Binaries,
    Supports,      \* [Binaries -> versions], schemaVersion of each
    Latest         \* the newest version of all

ASSUME StateFileAssumption ==
    Latest \in Nat \ {0} /\ Supports \in [Binaries -> 1..Latest]

VARIABLES
    database,      \* user_version, tables and journal mode; version -1: no file
    binary         \* how far each one's Store.open has come

stateFileVars == <<database, binary>>

(* Version n comes with the tables of every step up to n.                  *)
TablesOf(n) == 1..n
NoDatabase == [version |-> -1, tables |-> {}, wal |-> FALSE]
Stages == {"closed", "create", "inspect", "decide", "migrate", "journal", "open",
           "tooNew", "collided", "failed"}

StateFileInit ==
    /\ database \in {NoDatabase} \cup
                    {[version |-> n, tables |-> TablesOf(n), wal |-> n # 0] : n \in 0..Latest}
    /\ binary = [b \in Binaries |-> [stage |-> "closed", seen |-> 0]]

Stage(b, stage) == binary' = [binary EXCEPT ![b] = [stage |-> stage, seen |-> 0]]

(* A read of a missing file finds nothing; a write creates it, unless      *)
(* another one just did (O_EXCL).                                          *)
OpenStore(b, create) ==
    /\ binary[b].stage = "closed"
    /\ IF database.version # -1 THEN Stage(b, "inspect")
       ELSE create /\ Stage(b, "create")
    /\ UNCHANGED database

CreateFile(b) ==
    /\ binary[b].stage = "create"
    /\ database' = IF database.version = -1 THEN [database EXCEPT !.version = 0] ELSE database
    /\ Stage(b, "inspect")

ReadVersion(b) ==
    /\ binary[b].stage = "inspect"
    /\ binary' = [binary EXCEPT ![b] = [stage |-> "decide", seen |-> database.version]]
    /\ UNCHANGED database

Decide(b) ==
    /\ binary[b].stage = "decide"
    /\ \/ binary[b].seen > Supports[b] /\ Stage(b, "tooNew")
       \/ binary[b].seen = Supports[b] /\ Stage(b, "journal")
       \/ /\ binary[b].seen < Supports[b]
          /\ binary' = [binary EXCEPT ![b].stage = "migrate"]
    /\ UNCHANGED database

(* CREATE TABLE of the steps after version n, in one transaction: a table  *)
(* that exists makes it fail as a whole.                                   *)
Steps(b, n) ==
    LET created == TablesOf(Supports[b]) \ TablesOf(n) IN
    IF created \cap database.tables = {}
    THEN /\ database' = [database EXCEPT !.version = IF created = {} THEN @ ELSE Supports[b],
                                         !.tables = @ \cup created]
         /\ Stage(b, "journal")
    ELSE UNCHANGED database /\ Stage(b, "collided")

(* Mutant: the version that was read before the lock decides. *)
MigrateAsSeen(b) ==
    /\ binary[b].stage = "migrate"
    /\ Steps(b, binary[b].seen)

Migrate(b) ==
    /\ binary[b].stage = "migrate"
    /\ IF database.version > Supports[b]
       THEN Stage(b, "tooNew") /\ UNCHANGED database
       ELSE Steps(b, database.version)

JournalMode(b) ==
    /\ binary[b].stage = "journal"
    /\ database' = [database EXCEPT !.wal = TRUE]
    /\ Stage(b, "open")

(* Busy for too long, cancelled, or the disk fails: what a transaction did *)
(* is rolled back.                                                         *)
GiveUpOpen(b) ==
    /\ binary[b].stage \in {"create", "inspect", "migrate", "journal"}
    /\ Stage(b, "failed")
    /\ UNCHANGED database

(* The next call opens again; a program that ends begins anew.             *)
AgainOpen(b) ==
    /\ binary[b].stage \in {"open", "failed", "tooNew"}
    /\ Stage(b, "closed")
    /\ UNCHANGED database

StateFileNext ==
    \E b \in Binaries :
        \/ CreateFile(b) \/ ReadVersion(b) \/ Decide(b) \/ Migrate(b) \/ JournalMode(b)
        \/ GiveUpOpen(b) \/ AgainOpen(b)
        \/ \E create \in BOOLEAN : OpenStore(b, create)

StateFileSpec == StateFileInit /\ [][StateFileNext]_stateFileVars

-----------------------------------------------------------------------------
(* Properties.                                                             *)

StateFileTypeOK ==
    /\ database \in [version : -1..Latest, tables : SUBSET (1..Latest), wal : BOOLEAN]
    /\ binary \in [Binaries -> [stage : Stages, seen : -1..Latest]]

(* Whatever the binaries that race to open it, none meets tables another   *)
(* has created meanwhile, an open one has all the tables it knows, and     *)
(* the database has those of its version and no others.                    *)
SchemasMeet ==
    /\ database.tables = TablesOf(database.version)
    /\ \A b \in Binaries :
        /\ binary[b].stage # "collided"
        /\ binary[b].stage \in {"journal", "open"} =>
             TablesOf(Supports[b]) \subseteq database.tables
=============================================================================

----------------------------- MODULE ConfigFile -----------------------------
(***************************************************************************)
(* The configuration file that commands and dashboards load, edit in       *)
(* memory and save (internal/config), while editors write it as they like. *)
(* Save compares the file with what was loaded, takes path.lock, compares  *)
(* again, writes a temporary file, compares a third time and renames.      *)
(*                                                                         *)
(* A document maps options to values.  "unknown" stands for comments and   *)
(* options of other versions, "settings" for the tables [tui], [activity]  *)
(* and [alerts], and a target for its section.                             *)
(***************************************************************************)
EXTENDS Naturals, FiniteSets

CONSTANTS
    Programs,      \* processes that save
    Profiles,
    Settings,
    Unset,         \* an option the document does not have
    NoFile,
    Normal,        \* NormalizeTarget: a relative path is made absolute
    MaxOtherEdits       \* bound: saves of other editors

Options == {"unknown", "settings"} \cup Profiles

ASSUME ConfigFileAssumption ==
    /\ Unset \notin Settings /\ MaxOtherEdits \in Nat
    /\ NoFile \notin [Options -> Settings \cup {Unset}]
    /\ Normal \in [Settings -> Settings]
    /\ \A v \in Settings : Normal[Normal[v]] = Normal[v]

VARIABLES
    file,      \* config.toml
    lock,      \* who created config.toml.lock, if it is there
    temps,     \* whose .config-*.toml are there
    saver,     \* what each program has in memory
    otherEdits

configVars == <<file, lock, temps, saver, otherEdits>>

NormalSettings == {v \in Settings : Normal[v] = v}

Document == [Options -> Settings \cup {Unset}]
EmptyConfig == [o \in Options |-> Unset]

Saver == [at : {"unloaded", "idle", "compare", "lock", "recompare", "write",
                "last", "rename", "release", "dead"},
          original : Document \cup {NoFile},
          config : Document,                  \* the Config; unknown options are not in it
          before : Document,                  \* SaveActivity: the settings to put back
          meant : SUBSET Options,             \* history: edited since it was loaded or saved
          touched : BOOLEAN]                  \* history: edited by others since "last"

NoSaver == [at |-> "unloaded", original |-> NoFile, config |-> EmptyConfig, before |-> EmptyConfig,
            meant |-> {}, touched |-> FALSE]

ConfigInit ==
    /\ file = NoFile
    /\ lock = {} /\ temps = {}
    /\ saver = [p \in Programs |-> NoSaver]
    /\ otherEdits = 0

AtStep(p, place) == saver[p].at = place
GoTo(p, place) == saver' = [saver EXCEPT ![p].at = place]

-----------------------------------------------------------------------------
(* Programs load the file and change their Config.                         *)

NormalizedConfig(document) ==
    [o \in Options |->
        IF o = "unknown" THEN Unset
        ELSE IF o \in Profiles /\ document[o] # Unset THEN Normal[document[o]]
        ELSE document[o]]

LoadConfig(p) ==
    /\ AtStep(p, "unloaded")
    /\ saver' = [saver EXCEPT ![p] =
                   [NoSaver EXCEPT !.at = "idle", !.original = file,
                                   !.config = IF file = NoFile THEN EmptyConfig
                                              ELSE NormalizedConfig(file)]]
    /\ UNCHANGED <<file, lock, temps, otherEdits>>

(* SaveActivity, SaveTargets and the targets commands: an edit is saved at *)
(* once.  Unset removes a target.                                          *)
EditConfig(p, o, value) ==
    LET s == saver[p]
        wanted == [s.config EXCEPT ![o] = value] IN
    /\ s.at = "idle" /\ o # "unknown" /\ s.config[o] # value
    /\ o = "settings" => value # Unset
    /\ saver' = [saver EXCEPT ![p] =
                   [s EXCEPT !.at = "compare", !.config = wanted,
                             !.before = s.config, !.meant = @ \cup {o}]]
    /\ UNCHANGED <<file, lock, temps, otherEdits>>

(* A save that fails: the settings are put back, the targets are not.      *)
FailedSave(s) ==
    LET settings == s.config["settings"] # s.before["settings"] IN
    [s EXCEPT !.at = IF @ \in {"compare", "lock"} THEN "idle" ELSE "release",
              !.config = IF settings THEN s.before ELSE @,
              !.meant = IF settings THEN @ \ {"settings"} ELSE @,
              !.before = EmptyConfig, !.touched = FALSE]

FailSave(p) == saver' = [saver EXCEPT ![p] = FailedSave(@)]

-----------------------------------------------------------------------------
(* Save.                                                                   *)

(* render: sections it knows take the Config's values, the rest is copied. *)
Rendered(s) ==
    IF s.original = NoFile THEN s.config
    ELSE [s.config EXCEPT !["unknown"] = s.original["unknown"]]

(* The layout of the file may be one that render refuses to edit.          *)
RefuseLayout(p) ==
    /\ AtStep(p, "compare") /\ saver[p].original # NoFile
    /\ FailSave(p)
    /\ UNCHANGED <<file, lock, temps, otherEdits>>

StepAfter(place) == CASE place = "compare" -> "lock"
                  [] place = "recompare" -> "write"
                  [] place = "last" -> "rename"

CheckUnchanged(p) ==
    /\ saver[p].at \in {"compare", "recompare", "last"}
    /\ IF file = saver[p].original THEN GoTo(p, StepAfter(saver[p].at)) ELSE FailSave(p)
    /\ UNCHANGED <<file, lock, temps, otherEdits>>

(* Mutant: a lock that is there is taken over. *)
LockOverTaken(p) ==
    /\ AtStep(p, "lock")
    /\ lock' = {p} /\ GoTo(p, "recompare")
    /\ UNCHANGED <<file, temps, otherEdits>>

LockConfig(p) ==
    /\ AtStep(p, "lock")
    /\ IF lock = {}
       THEN lock' = {p} /\ GoTo(p, "recompare")
       ELSE UNCHANGED lock /\ FailSave(p)
    /\ UNCHANGED <<file, temps, otherEdits>>

WriteTemp(p) ==
    /\ AtStep(p, "write")
    /\ temps' = temps \cup {p}
    /\ GoTo(p, "last") \/ FailSave(p)
    /\ UNCHANGED <<file, lock, otherEdits>>

RenameTemp(p) ==
    LET s == saver[p] IN
    /\ s.at = "rename"
    /\ \/ /\ file' = Rendered(s)
          /\ temps' = temps \ {p}
          /\ saver' = [saver EXCEPT ![p] =
                         [s EXCEPT !.at = "release", !.original = Rendered(s),
                                   !.before = EmptyConfig, !.meant = {}, !.touched = FALSE]]
       \/ FailSave(p) /\ UNCHANGED <<file, temps>>
    /\ UNCHANGED <<lock, otherEdits>>

(* The deferred calls remove what is left of the temporary file, then the  *)
(* lock, whoever made it.                                                  *)
ReleaseLock(p) ==
    /\ AtStep(p, "release")
    /\ temps' = temps \ {p}
    /\ lock' = {}
    /\ GoTo(p, "idle")
    /\ UNCHANGED <<file, otherEdits>>

-----------------------------------------------------------------------------
(* Crashes, exits and everybody else.                                      *)

CrashSaver(p) ==
    /\ saver[p].at \notin {"unloaded", "dead"}
    /\ saver' = [saver EXCEPT ![p] =
                   [NoSaver EXCEPT !.at = IF p \in lock \cup temps THEN "dead" ELSE "unloaded"]]
    /\ UNCHANGED <<file, lock, temps, otherEdits>>

(* Somebody removes by hand what a crash left behind.                      *)
CleanUp(p) ==
    /\ AtStep(p, "dead")
    /\ lock' = lock \ {p} /\ temps' = temps \ {p}
    /\ GoTo(p, "unloaded")
    /\ UNCHANGED <<file, otherEdits>>

OtherEditor(o, value) ==
    /\ otherEdits < MaxOtherEdits
    /\ LET now == IF file = NoFile THEN EmptyConfig ELSE file IN
       /\ now[o] # value
       /\ file' = [now EXCEPT ![o] = value]
    /\ saver' = [p \in Programs |->
                   [saver[p] EXCEPT !.touched = (saver[p].touched \/ AtStep(p, "rename"))]]
    /\ otherEdits' = otherEdits + 1
    /\ UNCHANGED <<lock, temps>>

ConfigNext ==
    \/ \E p \in Programs :
        \/ LoadConfig(p) \/ RefuseLayout(p) \/ CheckUnchanged(p) \/ LockConfig(p) \/ WriteTemp(p)
        \/ RenameTemp(p) \/ ReleaseLock(p) \/ CrashSaver(p) \/ CleanUp(p)
        \/ \E o \in Options, v \in NormalSettings \cup {Unset} : EditConfig(p, o, v)
    \/ \E o \in Options, v \in Settings :
         (o \in Profiles \/ Normal[v] = v) /\ OtherEditor(o, v)

ConfigSpec == ConfigInit /\ [][ConfigNext]_configVars

-----------------------------------------------------------------------------
(* Properties.                                                             *)

ConfigTypeOK ==
    /\ file \in Document \cup {NoFile}
    /\ lock \subseteq Programs /\ Cardinality(lock) <= 1
    /\ temps \subseteq Programs
    /\ saver \in [Programs -> Saver]
    /\ otherEdits \in 0..MaxOtherEdits

(* A save changes the options its user edited and, at most, makes the path *)
(* of another target absolute: it undoes no other program's save and no    *)
(* editor's, except one made after its last comparison.  A dashboard's     *)
(* failed edits of targets count as edits: its next save writes them too.  *)
OptionWas(o) == IF file = NoFile THEN Unset ELSE file[o]
ConfigSaved(p) == AtStep(p, "rename") /\ saver'[p].at = "release" /\ file' # file

SavesOnlyEdits ==
    [][\A p \in Programs : ConfigSaved(p) /\ ~saver[p].touched =>
         \A o \in Options \ saver[p].meant :
            \/ file'[o] = OptionWas(o)
            \/ OptionWas(o) \in Settings /\ file'[o] = Normal[OptionWas(o)]]_configVars
=============================================================================

----------------------------- MODULE BrewUpgrade -----------------------------
(***************************************************************************)
(* Upgrading through the Homebrew that owns the running executable         *)
(* (internal/brewupgrade, internal/cli/upgrade.go).  A plan is made of     *)
(* what was read of three objects, one after the other, while other        *)
(* package managers may change them; it is shown, confirmed, checked twice *)
(* and carried out, and what it led to is looked up.                       *)
(*                                                                         *)
(* Kegs are directories of versions.  Whatever is written gets a number of *)
(* its own (file identity, size, time and digest), 0 for what is not there.*)
(***************************************************************************)
EXTENDS Naturals, Sequences

CONSTANTS
    Kegs,
    MaxBuild       \* bound: files written

ASSUME BrewAssumption == Kegs # {} /\ MaxBuild \in Nat \ {0}

VARIABLES
    cellar,        \* the executable in each keg
    opt,           \* the keg that the stable path leads to
    brew,          \* the Homebrew program
    written,       \* the last number
    upgrade        \* one upgrade command

brewVars == <<cellar, opt, brew, written, upgrade>>

Objects == {"binary", "manager", "stable"}
Builds == 0..MaxBuild
Look == [keg : Kegs, build : Builds]
Nowhere == [keg |-> CHOOSE k \in Kegs : TRUE, build |-> 0]
NoLook == [o \in Objects |-> Nowhere]

(* Mutant: what Prepare has read is not read again. *)
HastyScript ==
    <<<<"see", "binary">>, <<"see", "manager">>, <<"see", "stable">>, <<"inspect", "binary">>,
      <<"ask", "user">>, <<"check", "binary">>, <<"check", "manager">>, <<"check", "stable">>,
      <<"prove", "manager">>, <<"check", "binary">>, <<"check", "manager">>, <<"check", "stable">>,
      <<"run", "manager">>, <<"see", "candidate">>, <<"inspect", "candidate">>, <<"check", "candidate">>,
      <<"report", "stable">>>>

(* Prepare, the confirmation, and Apply.  Apply proves with two queries    *)
(* that this brew owns the executable, between two checks of all.          *)
Script ==
    <<<<"see", "binary">>, <<"see", "manager">>, <<"see", "stable">>, <<"inspect", "binary">>,
      <<"check", "binary">>, <<"check", "manager">>, <<"check", "stable">>,
      <<"ask", "user">>, <<"check", "binary">>, <<"check", "manager">>, <<"check", "stable">>,
      <<"prove", "manager">>, <<"check", "binary">>, <<"check", "manager">>, <<"check", "stable">>,
      <<"run", "manager">>, <<"see", "candidate">>, <<"inspect", "candidate">>, <<"check", "candidate">>,
      <<"report", "stable">>>>

BrewInit ==
    /\ opt \in Kegs
    /\ cellar = [k \in Kegs |-> IF k = opt THEN 1 ELSE 0]
    /\ brew = 1 /\ written = 1
    /\ \E linked \in BOOLEAN :
         upgrade = [next |-> 1, keg |-> opt, linked |-> linked, seen |-> NoLook,
                    candidate |-> Nowhere, version |-> 0,
                    moment |-> NoLook,     \* history: all three, when inspected or proved
                    wentBack |-> FALSE,    \* history: the link went to an older build
                    failed |-> FALSE]

-----------------------------------------------------------------------------
(* The program may be run by its path in the keg or through the link.      *)
Running == IF upgrade.linked THEN opt ELSE upgrade.keg

Now(o) ==
    CASE o = "binary" -> [keg |-> Running, build |-> cellar[Running]]
      [] o = "manager" -> [Nowhere EXCEPT !.build = brew]
      [] OTHER -> [keg |-> opt, build |-> cellar[opt]]

Readable(o) == Now(o).build # 0
Everything == [o \in Objects |-> Now(o)]

Doing(kind) == ~upgrade.failed /\ upgrade.next \in DOMAIN Script /\ Script[upgrade.next][1] = kind
Object == Script[upgrade.next][2]
Goes(u) == upgrade' = [u EXCEPT !.next = @ + 1]

(* What cannot be read, is not this formula's, takes too long or is        *)
(* cancelled ends it.                                                      *)
GiveUpUpgrade ==
    /\ ~upgrade.failed /\ upgrade.next \in DOMAIN Script
    /\ upgrade' = [upgrade EXCEPT !.failed = TRUE]
    /\ UNCHANGED <<cellar, opt, brew, written>>

(* identify, owningTarget and capture.                                     *)
SeeObject ==
    /\ Doing("see") /\ Readable(Object)
    /\ Goes(IF Object = "candidate" THEN [upgrade EXCEPT !.candidate = Now(Object)]
            ELSE [upgrade EXCEPT !.seen[Object] = Now(Object)])
    /\ UNCHANGED <<cellar, opt, brew, written>>

(* The executable found is run to tell its version.                        *)
InspectProduct ==
    LET keg == IF Object = "binary" THEN upgrade.seen["binary"].keg ELSE upgrade.candidate.keg IN
    /\ Doing("inspect") /\ cellar[keg] # 0
    /\ Goes([upgrade EXCEPT !.version = cellar[keg], !.moment = Everything])
    /\ UNCHANGED <<cellar, opt, brew, written>>

(* validate: the paths lead where they led, to the same files.             *)
CheckObject ==
    /\ Doing("check")
    /\ Now(Object) = IF Object = "candidate" THEN upgrade.candidate ELSE upgrade.seen[Object]
    /\ Goes(upgrade)
    /\ UNCHANGED <<cellar, opt, brew, written>>

Confirm == Doing("ask") /\ Goes(upgrade) /\ UNCHANGED <<cellar, opt, brew, written>>

ProveManager ==
    /\ Doing("prove") /\ Goes([upgrade EXCEPT !.moment = Everything])
    /\ UNCHANGED <<cellar, opt, brew, written>>

(* brew upgrade ends; what it writes it writes as others do.               *)
RunBrew == Doing("run") /\ Goes(upgrade) /\ UNCHANGED <<cellar, opt, brew, written>>

ReportUpgrade == Doing("report") /\ Goes(upgrade) /\ UNCHANGED <<cellar, opt, brew, written>>

-----------------------------------------------------------------------------
(* Package managers.                                                       *)

WriteFile == written < MaxBuild /\ written' = written + 1

Pour(k) ==
    /\ WriteFile /\ cellar' = [cellar EXCEPT ![k] = written']
    /\ UNCHANGED <<opt, brew, upgrade>>

UpdateBrew ==
    /\ WriteFile /\ brew' = written'
    /\ UNCHANGED <<cellar, opt, upgrade>>

Link(k) ==
    /\ k # opt /\ cellar[k] # 0 /\ opt' = k
    /\ upgrade' = [upgrade EXCEPT !.wentBack = @ \/ cellar[k] < cellar[opt]]
    /\ UNCHANGED <<cellar, brew, written>>

Uninstall(k) ==
    /\ cellar[k] # 0 /\ k # opt /\ cellar' = [cellar EXCEPT ![k] = 0]
    /\ UNCHANGED <<opt, brew, written, upgrade>>

BrewNext ==
    \/ GiveUpUpgrade \/ SeeObject \/ InspectProduct \/ CheckObject \/ Confirm \/ ProveManager
    \/ RunBrew \/ ReportUpgrade \/ UpdateBrew
    \/ \E k \in Kegs : Pour(k) \/ Link(k) \/ Uninstall(k)

BrewSpec == BrewInit /\ [][BrewNext]_brewVars

-----------------------------------------------------------------------------
(* Properties.                                                             *)

BrewTypeOK ==
    /\ cellar \in [Kegs -> Builds] /\ opt \in Kegs /\ {brew, written} \subseteq Builds
    /\ upgrade \in [next : 1..Len(Script) + 1, keg : Kegs, linked : BOOLEAN,
                    seen : [Objects -> Look], candidate : Look, version : Builds,
                    moment : [Objects -> Look], wentBack : BOOLEAN, failed : BOOLEAN]

(* What was read piece by piece held together: all three objects were, at  *)
(* one moment, what the user is shown with its version, and again at one   *)
(* moment after he has confirmed; and what is reported was at one moment   *)
(* what the stable path led to.  Only a link that goes back to an older    *)
(* build between two looks is not noticed.                                 *)
ReviewsAreTrue ==
    /\ Doing("ask") => upgrade.version = upgrade.seen["binary"].build
    /\ ~upgrade.wentBack =>
        /\ Doing("ask") \/ Doing("run") => upgrade.moment = upgrade.seen
        /\ Doing("report") => /\ upgrade.moment["stable"] = upgrade.candidate
                              /\ upgrade.version = upgrade.candidate.build
=============================================================================

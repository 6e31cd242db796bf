---------------------------- MODULE ScoopHandoff ----------------------------
(***************************************************************************)
(* Upgrading a Scoop installation (internal/scoopupgrade).  The program    *)
(* that is asked to upgrade itself, the launcher, starts a copied helper,  *)
(* authorizes it and exits; the helper then runs Scoop.  They meet in the  *)
(* files of an operation's directory, and operations of several launchers  *)
(* in active.json and a mutex.  Anyone may be killed at any step.          *)
(*                                                                         *)
(* The fingerprints a plan was made of are one number: the installation.   *)
(***************************************************************************)
EXTENDS Naturals, FiniteSets

CONSTANTS
    Operations,        \* one per launcher
    NoOperation,
    MaxInstallation    \* bound: changes of the installation

ASSUME ScoopAssumption == NoOperation \notin Operations /\ MaxInstallation \in Nat

VARIABLES
    installation,      \* files, manager and `current' junction
    launcher,          \* where Handoff is, and the installation it reviewed
    helper,            \* where the helper process is
    directory,         \* what the operation's files say
    manager,           \* Scoop processes: how often run, running now
    mutex, active      \* lockState and active.json

scoopVars == <<installation, launcher, helper, directory, manager, mutex, active>>

TerminalStatus == {"updated", "up-to-date", "blocked", "failed", "canceled"}

LauncherPlaces == {"none", "planned", "locked", "preparing", "starting", "polling",
                   "activating", "authorizing", "aborting", "handedOff", "refused",
                   "exited", "exitedRefused", "crashed"}
HelperPlaces == {"none", "started", "claimed", "waiting", "checking", "verified",
                 "managing", "managed", "ended"}

ScoopInit ==
    /\ installation = 0
    /\ launcher = [o \in Operations |-> [at |-> "none", reviewed |-> 0]]
    /\ helper = [o \in Operations |-> "none"]
    /\ directory = [o \in Operations |-> [status |-> "none", claim |-> FALSE, authorized |-> FALSE]]
    /\ manager = [o \in Operations |-> [runs |-> 0, running |-> FALSE]]
    /\ mutex = NoOperation /\ active = NoOperation

LauncherAlive(o) == launcher[o].at \notin {"none", "exited", "exitedRefused", "crashed"}
HelperAlive(o) == helper[o] \notin {"none", "ended"}
Valid(o) == launcher[o].reviewed = installation

LauncherGoes(o, place) == launcher' = [launcher EXCEPT ![o].at = place]
HelperGoes(o, place) == helper' = [helper EXCEPT ![o] = place]
Report(o, status) == directory' = [directory EXCEPT ![o].status = status]

-----------------------------------------------------------------------------
(* The launcher: Handoff.                                                  *)

(* Prepare and the user's confirmation.                                    *)
Prepare(o) ==
    /\ launcher[o].at = "none"
    /\ launcher' = [launcher EXCEPT ![o] = [at |-> "planned", reviewed |-> installation]]
    /\ UNCHANGED <<installation, helper, directory, manager, mutex, active>>

(* The mutex is given up with 5 seconds.                                   *)
TakeMutex(o) ==
    /\ launcher[o].at = "planned"
    /\ \/ Valid(o) /\ mutex = NoOperation /\ mutex' = o /\ LauncherGoes(o, "locked")
       \/ (~Valid(o) \/ mutex # NoOperation) /\ LauncherGoes(o, "refused") /\ UNCHANGED mutex
    /\ UNCHANGED <<installation, helper, directory, manager, active>>

AnotherIsActive(o) ==
    /\ active # NoOperation
    /\ HelperAlive(active) /\ directory[active].status \notin TerminalStatus

CheckActive(o) ==
    /\ launcher[o].at = "locked"
    /\ LauncherGoes(o, IF AnotherIsActive(o) THEN "refused" ELSE "preparing")
    /\ UNCHANGED <<installation, helper, directory, manager, mutex, active>>

(* The running executable is copied, the request and a status are written. *)
WriteRequest(o) ==
    /\ launcher[o].at = "preparing"
    /\ IF Valid(o)
       THEN LauncherGoes(o, "starting") /\ Report(o, "starting")
       ELSE LauncherGoes(o, "refused") /\ UNCHANGED directory
    /\ UNCHANGED <<installation, helper, manager, mutex, active>>

StartHelper(o) ==
    /\ launcher[o].at = "starting"
    /\ \/ HelperGoes(o, "started") /\ LauncherGoes(o, "polling")
       \/ UNCHANGED helper /\ LauncherGoes(o, "refused")
    /\ UNCHANGED <<installation, directory, manager, mutex, active>>

(* A helper that waits is authorized; one that has failed is not, nor one  *)
(* that is not ready within 10 seconds, nor after a cancellation.          *)
PollHelper(o) ==
    /\ launcher[o].at = "polling"
    /\ \/ /\ directory[o].status = "waiting" /\ HelperAlive(o) /\ Valid(o)
          /\ LauncherGoes(o, "activating")
       \/ LauncherGoes(o, "aborting")
    /\ UNCHANGED <<installation, helper, directory, manager, mutex, active>>

WriteActive(o) ==
    /\ launcher[o].at = "activating"
    /\ \/ active' = o /\ LauncherGoes(o, "authorizing")
       \/ UNCHANGED active /\ LauncherGoes(o, "aborting")
    /\ UNCHANGED <<installation, helper, directory, manager, mutex>>

(* A failing write may have written all.                                   *)
WriteAuthorized(o) ==
    /\ launcher[o].at = "authorizing"
    /\ \/ directory' = [directory EXCEPT ![o].authorized = TRUE] /\ LauncherGoes(o, "handedOff")
       \/ \E written \in BOOLEAN :
            /\ directory' = [directory EXCEPT ![o].authorized = written]
            /\ LauncherGoes(o, "aborting")
    /\ UNCHANGED <<installation, helper, manager, mutex, active>>

(* Mutant: the helper is left to find out by itself. *)
AbortOnly(o) ==
    /\ launcher[o].at = "aborting"
    /\ Report(o, "failed") /\ LauncherGoes(o, "refused")
    /\ UNCHANGED <<installation, helper, manager, mutex, active>>

(* Kill, Wait and the record of the failure.                               *)
AbortHandoff(o) ==
    /\ launcher[o].at = "aborting"
    /\ HelperGoes(o, "ended")
    /\ Report(o, "failed") /\ LauncherGoes(o, "refused")
    /\ UNCHANGED <<installation, manager, mutex, active>>

Unlocked(o) == mutex' = IF mutex = o THEN NoOperation ELSE mutex

(* Handoff returns: the mutex first, then the process.                     *)
ReturnFromHandoff(o) ==
    /\ launcher[o].at \in {"handedOff", "refused"}
    /\ \/ mutex = o /\ Unlocked(o) /\ UNCHANGED launcher
       \/ /\ mutex # o /\ UNCHANGED mutex
          /\ LauncherGoes(o, IF launcher[o].at = "refused" THEN "exitedRefused" ELSE "exited")
    /\ UNCHANGED <<installation, helper, directory, manager, active>>

LauncherDies(o) ==
    /\ LauncherAlive(o) /\ LauncherGoes(o, "crashed") /\ Unlocked(o)
    /\ UNCHANGED <<installation, helper, directory, manager, active>>

-----------------------------------------------------------------------------
(* The helper: HandleHelper and runHelper.                                 *)

(* helper.claim is created once.                                           *)
Claim(o) ==
    /\ helper[o] = "started"
    /\ directory' = [directory EXCEPT ![o].claim = TRUE]
    /\ HelperGoes(o, IF directory[o].claim THEN "ended" ELSE "claimed")
    /\ UNCHANGED <<installation, launcher, manager, mutex, active>>

Finish(o, status) ==
    /\ Report(o, status) /\ HelperGoes(o, "ended")
    /\ UNCHANGED <<installation, launcher, mutex, active>>

Announce(o) ==
    /\ helper[o] = "claimed"
    /\ \/ /\ Valid(o) /\ Report(o, "waiting") /\ HelperGoes(o, "waiting")
          /\ UNCHANGED <<installation, launcher, manager, mutex, active>>
       \/ ~Valid(o) /\ Finish(o, "failed") /\ UNCHANGED manager

(* For 60 seconds, or until it is interrupted.                             *)
AwaitExit(o) ==
    /\ helper[o] = "waiting"
    /\ \/ /\ ~LauncherAlive(o) /\ HelperGoes(o, "checking")
          /\ UNCHANGED <<installation, launcher, directory, manager, mutex, active>>
       \/ /\ LauncherAlive(o) /\ UNCHANGED manager
          /\ \E status \in {"canceled", "blocked"} : Finish(o, status)

(* Another instance that uses the package, or an interrupt, ends it too.   *)
VerifyRequest(o) ==
    /\ helper[o] = "checking"
    /\ \/ /\ directory[o].authorized /\ Valid(o)
          /\ Report(o, "running") /\ HelperGoes(o, "verified")
          /\ UNCHANGED <<installation, launcher, manager, mutex, active>>
       \/ /\ UNCHANGED manager
          /\ \/ ~directory[o].authorized /\ Finish(o, "failed")
             \/ directory[o].authorized /\ \E status \in {"canceled", "blocked"} : Finish(o, status)

RunManager(o) ==
    /\ helper[o] = "verified"
    /\ manager' = [manager EXCEPT ![o] = [runs |-> @.runs + 1, running |-> TRUE]]
    /\ HelperGoes(o, "managing")
    /\ UNCHANGED <<installation, launcher, directory, mutex, active>>

ManagerStops(o) == manager' = [manager EXCEPT ![o].running = FALSE]

(* Scoop updates, finds nothing newer, skips or fails; it may outlive the  *)
(* helper.                                                                 *)
ManagerEnds(o) ==
    /\ manager[o].running /\ ManagerStops(o)
    /\ installation' \in {installation, installation + 1} /\ installation' <= MaxInstallation
    /\ helper' = [helper EXCEPT ![o] = IF @ = "managing" THEN "managed" ELSE @]
    /\ UNCHANGED <<launcher, directory, mutex, active>>

InterruptManager(o) ==
    /\ helper[o] = "managing" /\ ManagerStops(o)
    /\ Finish(o, "canceled")

(* The log and a second Prepare decide what is reported.                   *)
ReportOutcome(o) ==
    /\ helper[o] = "managed" /\ UNCHANGED manager
    /\ \E status \in {"failed", "blocked", IF Valid(o) THEN "up-to-date" ELSE "updated"} :
         Finish(o, status)

HelperDies(o) ==
    /\ HelperAlive(o) /\ HelperGoes(o, "ended")
    /\ UNCHANGED <<installation, launcher, directory, manager, mutex, active>>

(* Somebody runs the helper of an operation once more.                     *)
Replay(o) ==
    /\ helper[o] = "ended" /\ directory[o].claim /\ ~LauncherAlive(o)
    /\ HelperGoes(o, "started")
    /\ UNCHANGED <<installation, launcher, directory, manager, mutex, active>>

(* A user updates by hand.                                                 *)
OtherUpdate ==
    /\ installation < MaxInstallation /\ installation' = installation + 1
    /\ UNCHANGED <<launcher, helper, directory, manager, mutex, active>>

ScoopNext ==
    \/ OtherUpdate
    \/ \E o \in Operations :
        \/ Prepare(o) \/ TakeMutex(o) \/ CheckActive(o) \/ WriteRequest(o) \/ StartHelper(o)
        \/ PollHelper(o) \/ WriteActive(o) \/ WriteAuthorized(o) \/ AbortHandoff(o)
        \/ ReturnFromHandoff(o) \/ LauncherDies(o)
        \/ Claim(o) \/ Announce(o) \/ AwaitExit(o) \/ VerifyRequest(o) \/ RunManager(o)
        \/ ManagerEnds(o) \/ InterruptManager(o) \/ ReportOutcome(o) \/ HelperDies(o) \/ Replay(o)

ScoopSpec == ScoopInit /\ [][ScoopNext]_scoopVars

-----------------------------------------------------------------------------
(* Properties.                                                             *)

ScoopTypeOK ==
    /\ installation \in 0..MaxInstallation
    /\ launcher \in [Operations -> [at : LauncherPlaces, reviewed : 0..MaxInstallation]]
    /\ helper \in [Operations -> HelperPlaces]
    /\ directory \in
         [Operations -> [status : TerminalStatus \cup {"none", "starting", "waiting", "running"},
                         claim : BOOLEAN, authorized : BOOLEAN]]
    /\ manager \in [Operations -> [runs : 0..1, running : BOOLEAN]]
    /\ {mutex, active} \subseteq Operations \cup {NoOperation}

(* Scoop runs once at most for an operation, and only for one whose        *)
(* launcher authorized it, has exited and did not report that it gave up.  *)
OnlyAuthorizedRuns ==
    \A o \in Operations : manager[o].runs > 0 =>
        /\ manager[o].runs = 1 /\ directory[o].authorized
        /\ launcher[o].at \in {"exited", "crashed"}

(* Helpers never run Scoop at the same time.  Only a helper that is killed *)
(* leaves a Scoop behind that another operation does not wait for.         *)
OneManagerAtATime ==
    \A o, q \in Operations :
        helper[o] = "managing" /\ helper[q] = "managing" => o = q

UpgradesAreExclusive == OnlyAuthorizedRuns /\ OneManagerAtATime
=============================================================================

---------------------------- MODULE UpgradeProofs ---------------------------
(***************************************************************************)
(* Theorems of ScoopHandoff, Replacement, BrewUpgrade and ServerStack:     *)
(* processes that outlive each other, and may die between any two steps.   *)
(***************************************************************************)
EXTENDS ScoopHandoff, Replacement, BrewUpgrade, ServerStack, TLAPS

-----------------------------------------------------------------------------
(***************************************************************************)
(* Theorems of ScoopHandoff, for any number of operations.                 *)
(*                                                                         *)
(* A launcher holds the mutex from the moment it has taken it until it has *)
(* handed off or given up, and gives up only after its helper has ended.   *)
(* From the hand-off on nothing but the helper itself keeps it from        *)
(* running Scoop: it is armed, and active.json says so until it has        *)
(* ended, since every other launcher is turned away.                       *)
(***************************************************************************)

BeforeHelper == {"none", "planned", "locked", "preparing", "starting"}
Holding == {"locked", "preparing", "starting", "polling", "activating", "authorizing", "aborting"}
PastCheck == {"preparing", "starting", "polling", "activating", "authorizing"}
Underway == {"claimed", "waiting", "checking", "verified", "managing"}

(* Nothing can stop this helper from running Scoop but itself.             *)
Armed(o) ==
    /\ directory[o].authorized /\ helper[o] \in Underway
    /\ launcher[o].at \in {"handedOff", "exited", "crashed"}

HelperOK(o) ==
    /\ helper[o] = "none" => ~directory[o].claim
    /\ helper[o] \in Underway \cup {"managed"} => directory[o].claim
    /\ helper[o] \in Underway \/ (helper[o] # "ended" /\ ~directory[o].claim) =>
         directory[o].status \notin TerminalStatus
    /\ helper[o] \in {"checking", "verified", "managing", "managed"} =>
         launcher[o].at \in {"exited", "crashed"}
    /\ helper[o] \in {"verified", "managing", "managed"} => directory[o].authorized
    /\ directory[o].status = "waiting" => directory[o].claim

LauncherOK(o) ==
    /\ launcher[o].at \in BeforeHelper => helper[o] = "none"
    /\ launcher[o].at \in {"refused", "exitedRefused"} =>
         /\ helper[o] \notin Underway \cup {"managed"}
         /\ helper[o] = "started" => directory[o].claim
    /\ launcher[o].at \in Holding => mutex = o
    /\ launcher[o].at \in {"activating", "authorizing"} => directory[o].claim
    /\ launcher[o].at = "authorizing" => active = o
    /\ launcher[o].at = "aborting" /\ directory[o].authorized => active = o
    /\ directory[o].authorized =>
         /\ directory[o].claim
         /\ launcher[o].at \in {"handedOff", "aborting", "refused", "exitedRefused",
                               "exited", "crashed"}

ManagerOK(o) ==
    /\ manager[o].runs > 0 =>
         /\ directory[o].claim /\ directory[o].authorized
         /\ launcher[o].at \in {"exited", "crashed"}
    /\ helper[o] \in {"claimed", "waiting", "checking", "verified"} => manager[o].runs = 0

ArmedOK(o) ==
    Armed(o) => active = o /\ \A q \in Operations \ {o} : launcher[q].at \notin PastCheck

OperationOK(o) == HelperOK(o) /\ LauncherOK(o) /\ ManagerOK(o) /\ ArmedOK(o)

ScoopInv == ScoopTypeOK /\ \A o \in Operations : OperationOK(o)

(* A step of one operation leaves the others as they are, gives up no      *)
(* mutex of theirs, and replaces active.json only while it holds its own.  *)
Alone(o) ==
    /\ \A q \in Operations \ {o} :
        /\ launcher'[q] = launcher[q] /\ helper'[q] = helper[q]
        /\ directory'[q] = directory[q] /\ manager'[q] = manager[q]
        /\ mutex = q => mutex' = q
    /\ active' = active \/ launcher[o].at \in PastCheck

-----------------------------------------------------------------------------
(* What an assignment to one operation does.                               *)
LEMMA MovesAlong ==
    ASSUME ScoopTypeOK, NEW o \in Operations, NEW newPlace \in LauncherPlaces, LauncherGoes(o, newPlace)
    PROVE  /\ launcher' \in [Operations -> [at : LauncherPlaces, reviewed : 0..MaxInstallation]]
           /\ launcher'[o].at = newPlace
           /\ \A q \in Operations \ {o} : launcher'[q] = launcher[q]
<1>1. launcher[o] \in [at : LauncherPlaces, reviewed : 0..MaxInstallation]
  BY DEF ScoopTypeOK
<1>2. /\ [launcher[o] EXCEPT !.at = newPlace] \in [at : LauncherPlaces, reviewed : 0..MaxInstallation]
      /\ [launcher[o] EXCEPT !.at = newPlace].at = newPlace
  BY <1>1
<1>3. launcher' = [launcher EXCEPT ![o] = [launcher[o] EXCEPT !.at = newPlace]]
  BY DEF LauncherGoes
<1> HIDE DEF LauncherPlaces
<1> QED
  BY <1>2, <1>3 DEF ScoopTypeOK

LEMMA Moves ==
    ASSUME ScoopTypeOK, NEW o \in Operations, NEW newPlace \in HelperPlaces, HelperGoes(o, newPlace)
    PROVE  /\ helper' \in [Operations -> HelperPlaces]
           /\ helper'[o] = newPlace
           /\ \A q \in Operations \ {o} : helper'[q] = helper[q]
  BY DEF ScoopTypeOK, HelperGoes

Statuses == TerminalStatus \cup {"none", "starting", "waiting", "running"}
ScoopDirectories == [status : Statuses, claim : BOOLEAN, authorized : BOOLEAN]

LEMMA Reports ==
    ASSUME ScoopTypeOK, NEW o \in Operations, NEW s \in Statuses, Report(o, s)
    PROVE  /\ directory' \in [Operations -> ScoopDirectories]
           /\ directory'[o].status = s /\ directory'[o].claim = directory[o].claim
           /\ directory'[o].authorized = directory[o].authorized
           /\ \A q \in Operations \ {o} : directory'[q] = directory[q]
<1> DEFINE new == [directory[o] EXCEPT !.status = s]
<1>1. directory \in [Operations -> ScoopDirectories]
  BY DEF ScoopTypeOK, ScoopDirectories, Statuses
<1>2. /\ new \in ScoopDirectories /\ new.status = s /\ new.claim = directory[o].claim
      /\ new.authorized = directory[o].authorized
  BY <1>1 DEF ScoopDirectories
<1>3. directory' = [directory EXCEPT ![o] = new]
  BY DEF Report
<1> QED
  BY <1>1, <1>2, <1>3

LEMMA Stops ==
    ASSUME ScoopTypeOK, NEW o \in Operations, ManagerStops(o)
    PROVE  /\ manager' \in [Operations -> [runs : 0..1, running : BOOLEAN]]
           /\ manager'[o].runs = manager[o].runs
           /\ \A q \in Operations \ {o} : manager'[q] = manager[q]
<1> DEFINE new == [manager[o] EXCEPT !.running = FALSE]
<1>1. new \in [runs : 0..1, running : BOOLEAN] /\ new.runs = manager[o].runs
  BY DEF ScoopTypeOK
<1>2. manager' = [manager EXCEPT ![o] = new]
  BY DEF ManagerStops
<1> QED
  BY <1>1, <1>2 DEF ScoopTypeOK

(* The others are as they were.                                            *)
LEMMA ScoopOthersStay ==
    ASSUME ScoopInv, ScoopTypeOK', NEW o \in Operations, Alone(o), OperationOK(o)',
           launcher'[o].at \in PastCheck => \A q \in Operations \ {o} : ~Armed(q)
    PROVE  ScoopInv'
<1> SUFFICES ASSUME NEW q \in Operations \ {o}
             PROVE  OperationOK(q)'
  BY DEF ScoopInv
<1>1. /\ launcher'[q] = launcher[q] /\ helper'[q] = helper[q]
      /\ directory'[q] = directory[q] /\ manager'[q] = manager[q]
      /\ mutex = q => mutex' = q
      /\ OperationOK(q) /\ OperationOK(o)
  BY DEF Alone, ScoopInv
<1>2. ASSUME launcher[o].at \in PastCheck
      PROVE  launcher[q].at \notin Holding /\ ~Armed(q)
  BY <1>1, <1>2 DEF OperationOK, LauncherOK, ArmedOK, PastCheck, Holding
<1>3. HelperOK(q)' /\ ManagerOK(q)'
  BY <1>1 DEF OperationOK, HelperOK, ManagerOK
<1>4. LauncherOK(q)'
  BY <1>1, <1>2 DEF OperationOK, LauncherOK, Alone, Holding
<1>5. ArmedOK(q)'
  <2> SUFFICES ASSUME Armed(q)'
               PROVE  active' = q /\ \A p \in Operations \ {q} : launcher'[p].at \notin PastCheck
    BY DEF ArmedOK
  <2>1. Armed(q)
    BY <1>1 DEF Armed
  <2>2. active = q /\ \A p \in Operations \ {q} : launcher[p].at \notin PastCheck
    BY <1>1, <2>1 DEF OperationOK, ArmedOK
  <2>3. active' = q
    BY <1>2, <2>1, <2>2 DEF Alone
  <2>4. ASSUME NEW p \in Operations \ {q}
        PROVE  launcher'[p].at \notin PastCheck
    <3>1. CASE p = o
      BY <2>1, <3>1
    <3>2. CASE p # o
      BY <2>2, <3>2 DEF Alone
    <3> QED
      BY <3>1, <3>2
  <2> QED
    BY <2>3, <2>4
<1> QED
  BY <1>3, <1>4, <1>5 DEF OperationOK

-----------------------------------------------------------------------------
(* The launcher's steps.                                                   *)

(* A launcher that only goes on.                                           *)
LEMMA LauncherStep ==
    ASSUME ScoopInv, NEW o \in Operations, NEW newPlace \in LauncherPlaces, LauncherGoes(o, newPlace),
           UNCHANGED <<installation, helper, directory, manager>>,
           mutex' \in Operations \cup {NoOperation}, active' \in Operations \cup {NoOperation},
           \A q \in Operations \ {o} : mutex = q => mutex' = q,
           active' = active \/ launcher[o].at \in PastCheck,
           OperationOK(o)',
           newPlace \in PastCheck => \A q \in Operations \ {o} : ~Armed(q)
    PROVE  ScoopInv'
<1>1. /\ launcher' \in [Operations -> [at : LauncherPlaces, reviewed : 0..MaxInstallation]]
      /\ launcher'[o].at = newPlace
      /\ \A q \in Operations \ {o} : launcher'[q] = launcher[q]
  BY MovesAlong DEF ScoopInv
<1>2. ScoopTypeOK'
  BY <1>1 DEF ScoopInv, ScoopTypeOK
<1>3. Alone(o)
  BY <1>1 DEF Alone
<1> QED
  BY <1>1, <1>2, <1>3, ScoopOthersStay

(* One step of a launcher or a helper, and what it makes of o.             *)
LEMMA InvPrepare == ASSUME ScoopInv, NEW o \in Operations, Prepare(o) PROVE ScoopInv'
<1> DEFINE new == [at |-> "planned", reviewed |-> installation]
<1>1. new \in [at : LauncherPlaces, reviewed : 0..MaxInstallation]
  BY DEF ScoopInv, ScoopTypeOK, LauncherPlaces
<1>2. launcher' = [launcher EXCEPT ![o] = new]
  BY DEF Prepare
<1>3. /\ launcher' \in [Operations -> [at : LauncherPlaces, reviewed : 0..MaxInstallation]]
      /\ launcher'[o] = new
      /\ \A q \in Operations \ {o} : launcher'[q] = launcher[q]
  BY <1>1, <1>2 DEF ScoopInv, ScoopTypeOK
<1>4. ScoopTypeOK'
  BY <1>3 DEF ScoopInv, ScoopTypeOK, Prepare
<1>5. Alone(o) /\ launcher'[o].at = "planned"
  BY <1>3 DEF Alone, Prepare
<1>6. OperationOK(o)'
  BY <1>5 DEF OperationOK, HelperOK, LauncherOK, ManagerOK, ArmedOK, Armed,
         BeforeHelper, Holding, PastCheck, Underway, TerminalStatus, ScoopInv, Prepare
<1> QED
  BY <1>4, <1>5, <1>6, ScoopOthersStay DEF PastCheck

LEMMA InvTakeMutex == ASSUME ScoopInv, NEW o \in Operations, TakeMutex(o) PROVE ScoopInv'
<1>1. CASE LauncherGoes(o, "locked") /\ mutex = NoOperation /\ mutex' = o
  <2>1. launcher'[o].at = "locked" /\ "locked" \in LauncherPlaces
    BY <1>1, MovesAlong DEF ScoopInv, LauncherPlaces
  <2>2. OperationOK(o)'
    BY <1>1, <2>1 DEF OperationOK, HelperOK, LauncherOK, ManagerOK, ArmedOK, Armed,
         BeforeHelper, Holding, PastCheck, Underway, TerminalStatus, ScoopInv, TakeMutex
  <2> QED
    BY <1>1, <2>1, <2>2, LauncherStep, ScoopAssumption DEF TakeMutex, PastCheck, ScoopInv, ScoopTypeOK
<1>2. CASE LauncherGoes(o, "refused") /\ UNCHANGED mutex
  <2>1. launcher'[o].at = "refused" /\ "refused" \in LauncherPlaces
    BY <1>2, MovesAlong DEF ScoopInv, LauncherPlaces
  <2>2. OperationOK(o)'
    BY <1>2, <2>1 DEF OperationOK, HelperOK, LauncherOK, ManagerOK, ArmedOK, Armed,
         BeforeHelper, Holding, PastCheck, Underway, TerminalStatus, ScoopInv, TakeMutex
  <2> QED
    BY <1>2, <2>1, <2>2, LauncherStep DEF TakeMutex, PastCheck, ScoopInv, ScoopTypeOK
<1> QED
  BY <1>1, <1>2 DEF TakeMutex

(* What is armed is active, alive and has not finished: it turns o away.   *)
LEMMA InvCheckActive == ASSUME ScoopInv, NEW o \in Operations, CheckActive(o) PROVE ScoopInv'
<1>1. CASE AnotherIsActive(o)
  <2>1. launcher'[o].at = "refused" /\ "refused" \in LauncherPlaces /\ LauncherGoes(o, "refused")
    BY <1>1, MovesAlong DEF ScoopInv, LauncherPlaces, CheckActive
  <2>2. OperationOK(o)'
    BY <2>1 DEF OperationOK, HelperOK, LauncherOK, ManagerOK, ArmedOK, Armed,
         BeforeHelper, Holding, PastCheck, Underway, TerminalStatus, ScoopInv, CheckActive
  <2> QED
    BY <2>1, <2>2, LauncherStep DEF CheckActive, PastCheck, ScoopInv, ScoopTypeOK
<1>2. CASE ~AnotherIsActive(o)
  <2>1. /\ launcher'[o].at = "preparing" /\ "preparing" \in LauncherPlaces
        /\ LauncherGoes(o, "preparing")
    BY <1>2, MovesAlong DEF ScoopInv, LauncherPlaces, CheckActive
  <2>2. OperationOK(o)'
    BY <2>1 DEF OperationOK, HelperOK, LauncherOK, ManagerOK, ArmedOK, Armed,
         BeforeHelper, Holding, PastCheck, Underway, TerminalStatus, ScoopInv, CheckActive
  <2>3. ASSUME NEW q \in Operations \ {o}, Armed(q)
        PROVE  FALSE
    <3>1. OperationOK(q)
      BY DEF ScoopInv
    <3>2. active = q /\ helper[q] \in Underway /\ directory[q].status \notin TerminalStatus
      BY <2>3, <3>1 DEF OperationOK, ArmedOK, HelperOK, Armed
    <3> QED
      BY <1>2, <3>2, ScoopAssumption DEF AnotherIsActive, HelperAlive, Underway
  <2> QED
    BY <2>1, <2>2, <2>3, LauncherStep DEF CheckActive, ScoopInv, ScoopTypeOK
<1> QED
  BY <1>1, <1>2

LEMMA InvWriteRequest == ASSUME ScoopInv, NEW o \in Operations, WriteRequest(o) PROVE ScoopInv'
<1>1. CASE LauncherGoes(o, "starting") /\ Report(o, "starting")
  <2>1. /\ launcher' \in [Operations -> [at : LauncherPlaces, reviewed : 0..MaxInstallation]]
        /\ launcher'[o].at = "starting" /\ launcher[o].at = "preparing"
        /\ \A q \in Operations \ {o} : launcher'[q] = launcher[q]
    BY <1>1, MovesAlong DEF ScoopInv, LauncherPlaces, WriteRequest
  <2>2. /\ directory' \in [Operations -> ScoopDirectories]
        /\ directory'[o].status = "starting" /\ directory'[o].claim = directory[o].claim
        /\ directory'[o].authorized = directory[o].authorized
        /\ \A q \in Operations \ {o} : directory'[q] = directory[q]
    BY <1>1, Reports DEF ScoopInv, Statuses
  <2>3. ScoopTypeOK'
    BY <2>1, <2>2 DEF ScoopInv, ScoopTypeOK, ScoopDirectories, Statuses, WriteRequest
  <2>4. Alone(o)
    BY <2>1, <2>2 DEF Alone, WriteRequest
  <2>5. OperationOK(o)'
    BY <2>1, <2>2 DEF OperationOK, HelperOK, LauncherOK, ManagerOK, ArmedOK, Armed,
         BeforeHelper, Holding, PastCheck, Underway, TerminalStatus, ScoopInv, WriteRequest
  <2>6. \A q \in Operations \ {o} : ~Armed(q)
    BY <2>1 DEF OperationOK, HelperOK, LauncherOK, ManagerOK, ArmedOK, Armed,
         BeforeHelper, Holding, PastCheck, Underway, TerminalStatus, ScoopInv
  <2> QED
    BY <2>3, <2>4, <2>5, <2>6, ScoopOthersStay
<1>2. CASE LauncherGoes(o, "refused") /\ UNCHANGED directory
  <2>1. launcher'[o].at = "refused" /\ "refused" \in LauncherPlaces
    BY <1>2, MovesAlong DEF ScoopInv, LauncherPlaces
  <2>2. OperationOK(o)'
    BY <1>2, <2>1 DEF OperationOK, HelperOK, LauncherOK, ManagerOK, ArmedOK, Armed,
         BeforeHelper, Holding, PastCheck, Underway, TerminalStatus, ScoopInv, WriteRequest
  <2> QED
    BY <1>2, <2>1, <2>2, LauncherStep DEF WriteRequest, PastCheck, ScoopInv, ScoopTypeOK
<1> QED
  BY <1>1, <1>2 DEF WriteRequest

LEMMA InvStartHelper == ASSUME ScoopInv, NEW o \in Operations, StartHelper(o) PROVE ScoopInv'
<1>1. CASE HelperGoes(o, "started") /\ LauncherGoes(o, "polling")
  <2>1. /\ launcher' \in [Operations -> [at : LauncherPlaces, reviewed : 0..MaxInstallation]]
        /\ launcher'[o].at = "polling" /\ launcher[o].at = "starting"
        /\ \A q \in Operations \ {o} : launcher'[q] = launcher[q]
    BY <1>1, MovesAlong DEF ScoopInv, LauncherPlaces, StartHelper
  <2>2. /\ helper' \in [Operations -> HelperPlaces] /\ helper'[o] = "started"
        /\ \A q \in Operations \ {o} : helper'[q] = helper[q]
    BY <1>1, Moves DEF ScoopInv, HelperPlaces
  <2>3. ScoopTypeOK'
    BY <2>1, <2>2 DEF ScoopInv, ScoopTypeOK, StartHelper
  <2>4. Alone(o)
    BY <2>1, <2>2 DEF Alone, StartHelper
  <2>5. OperationOK(o)'
    BY <2>1, <2>2 DEF OperationOK, HelperOK, LauncherOK, ManagerOK, ArmedOK, Armed,
         BeforeHelper, Holding, PastCheck, Underway, TerminalStatus, ScoopInv, StartHelper
  <2>6. \A q \in Operations \ {o} : ~Armed(q)
    BY <2>1 DEF OperationOK, HelperOK, LauncherOK, ManagerOK, ArmedOK, Armed,
         BeforeHelper, Holding, PastCheck, Underway, TerminalStatus, ScoopInv
  <2> QED
    BY <2>3, <2>4, <2>5, <2>6, ScoopOthersStay
<1>2. CASE LauncherGoes(o, "refused") /\ UNCHANGED helper
  <2>1. launcher'[o].at = "refused" /\ "refused" \in LauncherPlaces
    BY <1>2, MovesAlong DEF ScoopInv, LauncherPlaces
  <2>2. OperationOK(o)'
    BY <1>2, <2>1 DEF OperationOK, HelperOK, LauncherOK, ManagerOK, ArmedOK, Armed,
         BeforeHelper, Holding, PastCheck, Underway, TerminalStatus, ScoopInv, StartHelper
  <2> QED
    BY <1>2, <2>1, <2>2, LauncherStep DEF StartHelper, PastCheck, ScoopInv, ScoopTypeOK
<1> QED
  BY <1>1, <1>2 DEF StartHelper

LEMMA InvPollHelper == ASSUME ScoopInv, NEW o \in Operations, PollHelper(o) PROVE ScoopInv'
<1>0. \A q \in Operations \ {o} : ~Armed(q)
  BY DEF OperationOK, HelperOK, LauncherOK, ManagerOK, ArmedOK, Armed,
         BeforeHelper, Holding, PastCheck, Underway, TerminalStatus, ScoopInv, PollHelper
<1>1. CASE directory[o].status = "waiting" /\ LauncherGoes(o, "activating")
  <2>1. launcher'[o].at = "activating" /\ "activating" \in LauncherPlaces
    BY <1>1, MovesAlong DEF ScoopInv, LauncherPlaces
  <2>2. OperationOK(o)'
    BY <1>1, <2>1 DEF OperationOK, HelperOK, LauncherOK, ManagerOK, ArmedOK, Armed,
         BeforeHelper, Holding, PastCheck, Underway, TerminalStatus, ScoopInv, PollHelper
  <2> QED
    BY <1>0, <1>1, <2>1, <2>2, LauncherStep DEF PollHelper, ScoopInv, ScoopTypeOK
<1>2. CASE LauncherGoes(o, "aborting")
  <2>1. launcher'[o].at = "aborting" /\ "aborting" \in LauncherPlaces
    BY <1>2, MovesAlong DEF ScoopInv, LauncherPlaces
  <2>2. OperationOK(o)'
    BY <1>2, <2>1 DEF OperationOK, HelperOK, LauncherOK, ManagerOK, ArmedOK, Armed,
         BeforeHelper, Holding, PastCheck, Underway, TerminalStatus, ScoopInv, PollHelper
  <2> QED
    BY <1>2, <2>1, <2>2, LauncherStep DEF PollHelper, PastCheck, ScoopInv, ScoopTypeOK
<1> QED
  BY <1>1, <1>2 DEF PollHelper

LEMMA InvWriteActive == ASSUME ScoopInv, NEW o \in Operations, WriteActive(o) PROVE ScoopInv'
<1>0. \A q \in Operations \ {o} : ~Armed(q)
  BY DEF OperationOK, HelperOK, LauncherOK, ManagerOK, ArmedOK, Armed,
         BeforeHelper, Holding, PastCheck, Underway, TerminalStatus, ScoopInv, WriteActive
<1>1. CASE active' = o /\ LauncherGoes(o, "authorizing")
  <2>1. launcher'[o].at = "authorizing" /\ "authorizing" \in LauncherPlaces
    BY <1>1, MovesAlong DEF ScoopInv, LauncherPlaces
  <2>2. OperationOK(o)'
    BY <1>1, <2>1 DEF OperationOK, HelperOK, LauncherOK, ManagerOK, ArmedOK, Armed,
         BeforeHelper, Holding, PastCheck, Underway, TerminalStatus, ScoopInv, WriteActive
  <2> QED
    BY <1>0, <1>1, <2>1, <2>2, LauncherStep DEF WriteActive, PastCheck, ScoopInv, ScoopTypeOK
<1>2. CASE UNCHANGED active /\ LauncherGoes(o, "aborting")
  <2>1. launcher'[o].at = "aborting" /\ "aborting" \in LauncherPlaces
    BY <1>2, MovesAlong DEF ScoopInv, LauncherPlaces
  <2>2. OperationOK(o)'
    BY <1>2, <2>1 DEF OperationOK, HelperOK, LauncherOK, ManagerOK, ArmedOK, Armed,
         BeforeHelper, Holding, PastCheck, Underway, TerminalStatus, ScoopInv, WriteActive
  <2> QED
    BY <1>2, <2>1, <2>2, LauncherStep DEF WriteActive, PastCheck, ScoopInv, ScoopTypeOK
<1> QED
  BY <1>1, <1>2 DEF WriteActive

(* From here on the helper is armed, if it has been authorized in time.    *)
LEMMA InvWriteAuthorized == ASSUME ScoopInv, NEW o \in Operations, WriteAuthorized(o) PROVE ScoopInv'
<1> SUFFICES ASSUME NEW granted \in BOOLEAN, NEW newPlace \in {"handedOff", "aborting"},
                    directory' = [directory EXCEPT ![o].authorized = granted],
                    LauncherGoes(o, newPlace)
             PROVE  ScoopInv'
  BY DEF WriteAuthorized
<1> DEFINE new == [directory[o] EXCEPT !.authorized = granted]
<1>1. /\ launcher' \in [Operations -> [at : LauncherPlaces, reviewed : 0..MaxInstallation]]
      /\ launcher'[o].at = newPlace /\ launcher[o].at = "authorizing"
      /\ \A q \in Operations \ {o} : launcher'[q] = launcher[q]
  BY MovesAlong DEF ScoopInv, LauncherPlaces, WriteAuthorized
<1>2. directory \in [Operations -> ScoopDirectories]
  BY DEF ScoopInv, ScoopTypeOK, ScoopDirectories, Statuses
<1>3. /\ new \in ScoopDirectories /\ new.status = directory[o].status
      /\ new.claim = directory[o].claim /\ new.authorized = granted
  BY <1>2 DEF ScoopDirectories
<1>4. directory' = [directory EXCEPT ![o] = new]
  OBVIOUS
<1>5. /\ directory' \in [Operations -> ScoopDirectories] /\ directory'[o] = new
      /\ \A q \in Operations \ {o} : directory'[q] = directory[q]
  BY <1>2, <1>3, <1>4
<1>6. ScoopTypeOK'
  BY <1>1, <1>5 DEF ScoopInv, ScoopTypeOK, ScoopDirectories, Statuses, WriteAuthorized
<1>7. Alone(o)
  BY <1>1, <1>5 DEF Alone, WriteAuthorized
<1>8. /\ OperationOK(o) /\ mutex = o
      /\ \A q \in Operations \ {o} : LauncherOK(q) /\ launcher'[q] = launcher[q]
  BY <1>1 DEF ScoopInv, OperationOK, LauncherOK, Holding
<1>9. \A q \in Operations \ {o} : launcher'[q].at \notin PastCheck
  BY <1>8 DEF LauncherOK, Holding, PastCheck
<1>10. /\ directory'[o].status = directory[o].status /\ directory'[o].claim = directory[o].claim
       /\ directory'[o].authorized = granted
  BY <1>3, <1>5
<1>11. OperationOK(o)'
  <2>1. HelperOK(o)' /\ ManagerOK(o)'
    BY <1>1, <1>8, <1>10 DEF OperationOK, HelperOK, LauncherOK, ManagerOK, ArmedOK, Armed,
         BeforeHelper, Holding, PastCheck, Underway, TerminalStatus, WriteAuthorized
  <2>2. LauncherOK(o)'
    BY <1>1, <1>8, <1>10 DEF OperationOK, LauncherOK, BeforeHelper, Holding, WriteAuthorized
  <2>3. ArmedOK(o)'
    BY <1>1, <1>8, <1>9 DEF OperationOK, HelperOK, LauncherOK, ManagerOK, ArmedOK, Armed,
         BeforeHelper, Holding, PastCheck, Underway, TerminalStatus, WriteAuthorized
  <2> QED
    BY <2>1, <2>2, <2>3 DEF OperationOK
<1> QED
  BY <1>1, <1>6, <1>7, <1>11, ScoopOthersStay DEF PastCheck

LEMMA InvAbortHandoff == ASSUME ScoopInv, NEW o \in Operations, AbortHandoff(o) PROVE ScoopInv'
<1>1. /\ launcher' \in [Operations -> [at : LauncherPlaces, reviewed : 0..MaxInstallation]]
      /\ launcher'[o].at = "refused" /\ launcher[o].at = "aborting"
      /\ \A q \in Operations \ {o} : launcher'[q] = launcher[q]
  BY MovesAlong DEF ScoopInv, LauncherPlaces, AbortHandoff
<1>2. /\ helper' \in [Operations -> HelperPlaces] /\ helper'[o] = "ended"
      /\ \A q \in Operations \ {o} : helper'[q] = helper[q]
  BY Moves DEF ScoopInv, HelperPlaces, AbortHandoff
<1>3. /\ directory' \in [Operations -> ScoopDirectories]
      /\ directory'[o].status = "failed" /\ directory'[o].claim = directory[o].claim
      /\ directory'[o].authorized = directory[o].authorized
      /\ \A q \in Operations \ {o} : directory'[q] = directory[q]
  BY Reports DEF ScoopInv, Statuses, TerminalStatus, AbortHandoff
<1>4. ScoopTypeOK'
  BY <1>1, <1>2, <1>3 DEF ScoopInv, ScoopTypeOK, ScoopDirectories, Statuses, AbortHandoff
<1>5. Alone(o)
  BY <1>1, <1>2, <1>3 DEF Alone, AbortHandoff
<1>6. OperationOK(o)'
  BY <1>1, <1>2, <1>3 DEF OperationOK, HelperOK, LauncherOK, ManagerOK, ArmedOK, Armed,
         BeforeHelper, Holding, PastCheck, Underway, TerminalStatus, ScoopInv, AbortHandoff
<1> QED
  BY <1>1, <1>4, <1>5, <1>6, ScoopOthersStay DEF PastCheck

LEMMA InvReturnFromHandoff == ASSUME ScoopInv, NEW o \in Operations, ReturnFromHandoff(o) PROVE ScoopInv'
<1>1. CASE mutex = o /\ Unlocked(o) /\ UNCHANGED launcher
  <2>1. mutex' = NoOperation
    BY <1>1 DEF Unlocked
  <2>2. ScoopTypeOK'
    BY <1>1, <2>1 DEF ScoopInv, ScoopTypeOK, ReturnFromHandoff
  <2>3. Alone(o)
    BY <1>1 DEF Alone, ReturnFromHandoff
  <2>4. OperationOK(o)'
    BY <1>1, <2>1 DEF OperationOK, HelperOK, LauncherOK, ManagerOK, ArmedOK, Armed,
         BeforeHelper, Holding, PastCheck, Underway, TerminalStatus, ScoopInv, ReturnFromHandoff
  <2> QED
    BY <1>1, <2>2, <2>3, <2>4, ScoopOthersStay DEF ReturnFromHandoff, PastCheck
<1>2. CASE mutex # o /\ UNCHANGED mutex
  <2>1. PICK newPlace \in {"exited", "exitedRefused"} :
             /\ LauncherGoes(o, newPlace)
             /\ newPlace = IF launcher[o].at = "refused" THEN "exitedRefused" ELSE "exited"
    BY <1>2 DEF ReturnFromHandoff
  <2>2. /\ launcher'[o].at = newPlace /\ newPlace \in LauncherPlaces
        /\ \A q \in Operations \ {o} : launcher'[q] = launcher[q]
    BY <2>1, MovesAlong DEF ScoopInv, LauncherPlaces
  <2>3. OperationOK(o)'
    BY <1>2, <2>1, <2>2 DEF OperationOK, HelperOK, LauncherOK, ManagerOK, ArmedOK, Armed,
         BeforeHelper, Holding, PastCheck, Underway, TerminalStatus, ScoopInv, ReturnFromHandoff
  <2> QED
    BY <1>2, <2>1, <2>2, <2>3, LauncherStep DEF ReturnFromHandoff, PastCheck, ScoopInv, ScoopTypeOK
<1> QED
  BY <1>1, <1>2 DEF ReturnFromHandoff

(* A launcher that dies while it aborts leaves an armed helper behind.     *)
LEMMA InvLauncherDies == ASSUME ScoopInv, NEW o \in Operations, LauncherDies(o) PROVE ScoopInv'
<1>1. launcher'[o].at = "crashed" /\ "crashed" \in LauncherPlaces /\ LauncherGoes(o, "crashed")
  BY MovesAlong DEF ScoopInv, LauncherPlaces, LauncherDies
<1>2. /\ mutex' \in Operations \cup {NoOperation}
      /\ \A q \in Operations \ {o} : mutex = q => mutex' = q
  BY DEF LauncherDies, Unlocked, ScoopInv, ScoopTypeOK
<1>3. HelperOK(o)' /\ LauncherOK(o)' /\ ManagerOK(o)'
  BY <1>1 DEF OperationOK, HelperOK, LauncherOK, ManagerOK, ArmedOK, Armed,
         BeforeHelper, Holding, PastCheck, Underway, TerminalStatus, ScoopInv,
         LauncherDies, LauncherAlive, ScoopTypeOK, LauncherPlaces
<1>4. ArmedOK(o)'
  <2> SUFFICES ASSUME Armed(o)'
               PROVE  active = o /\ \A q \in Operations \ {o} : launcher'[q].at \notin PastCheck
    BY DEF ArmedOK, LauncherDies
  <2>1. directory[o].authorized /\ helper[o] \in Underway /\ OperationOK(o)
    BY DEF Armed, LauncherDies, ScoopInv
  <2>2. \A q \in Operations \ {o} : launcher'[q] = launcher[q] /\ LauncherOK(q)
    BY <1>1, MovesAlong DEF ScoopInv, OperationOK
  <2>3. CASE launcher[o].at = "aborting"
    BY <2>1, <2>2, <2>3 DEF OperationOK, LauncherOK, Holding, PastCheck
  <2>4. CASE launcher[o].at \in {"handedOff", "exited", "crashed"}
    BY <2>1, <2>2, <2>4 DEF OperationOK, ArmedOK, Armed
  <2> QED
    BY <2>1, <2>3, <2>4 DEF OperationOK, LauncherOK, Underway
<1>5. OperationOK(o)'
  BY <1>3, <1>4 DEF OperationOK
<1> QED
  BY <1>1, <1>2, <1>5, LauncherStep DEF LauncherDies, PastCheck, ScoopInv, ScoopTypeOK

-----------------------------------------------------------------------------
(* The helper's steps.                                                     *)

(* A helper that goes on, or ends, and what the operation's files say.     *)
LEMMA HelperStep ==
    ASSUME ScoopInv, NEW o \in Operations, NEW newPlace \in HelperPlaces, HelperGoes(o, newPlace),
           UNCHANGED <<installation, launcher, mutex, active>>,
           directory' \in [Operations -> ScoopDirectories],
           manager' \in [Operations -> [runs : 0..1, running : BOOLEAN]],
           \A q \in Operations \ {o} : directory'[q] = directory[q] /\ manager'[q] = manager[q],
           OperationOK(o)'
    PROVE  ScoopInv'
<1>1. /\ helper' \in [Operations -> HelperPlaces] /\ helper'[o] = newPlace
      /\ \A q \in Operations \ {o} : helper'[q] = helper[q]
  BY Moves DEF ScoopInv
<1>2. ScoopTypeOK'
  BY <1>1 DEF ScoopInv, ScoopTypeOK, ScoopDirectories, Statuses
<1>3. Alone(o)
  BY <1>1 DEF Alone
<1>4. launcher'[o].at \in PastCheck => \A q \in Operations \ {o} : ~Armed(q)
  BY DEF ScoopInv, OperationOK, ArmedOK
<1> QED
  BY <1>1, <1>2, <1>3, <1>4, ScoopOthersStay

(* The files and the manager as they are.                                  *)
LEMMA Files ==
    ASSUME ScoopInv
    PROVE  /\ directory \in [Operations -> ScoopDirectories]
           /\ manager \in [Operations -> [runs : 0..1, running : BOOLEAN]]
  BY DEF ScoopInv, ScoopTypeOK, ScoopDirectories, Statuses

LEMMA InvFinish ==
    ASSUME ScoopInv, NEW o \in Operations, NEW s \in TerminalStatus, Finish(o, s), HelperAlive(o),
           helper[o] # "started",
           manager' \in [Operations -> [runs : 0..1, running : BOOLEAN]],
           manager'[o].runs = manager[o].runs,
           \A q \in Operations \ {o} : manager'[q] = manager[q]
    PROVE  ScoopInv'
<1>1. helper'[o] = "ended" /\ "ended" \in HelperPlaces
  BY Moves DEF ScoopInv, HelperPlaces, Finish
<1>2. /\ directory' \in [Operations -> ScoopDirectories]
      /\ directory'[o].status = s /\ directory'[o].claim = directory[o].claim
      /\ directory'[o].authorized = directory[o].authorized
      /\ \A q \in Operations \ {o} : directory'[q] = directory[q]
  BY Reports DEF ScoopInv, Statuses, Finish
<1>3. OperationOK(o)'
  BY <1>1, <1>2 DEF OperationOK, HelperOK, LauncherOK, ManagerOK, ArmedOK, Armed,
         BeforeHelper, Holding, PastCheck, Underway, TerminalStatus, ScoopInv, Finish, HelperAlive
<1> QED
  BY <1>1, <1>2, <1>3, HelperStep DEF Finish

LEMMA InvClaim == ASSUME ScoopInv, NEW o \in Operations, Claim(o) PROVE ScoopInv'
<1> DEFINE new == [directory[o] EXCEPT !.claim = TRUE]
           newPlace == IF directory[o].claim THEN "ended" ELSE "claimed"
<1>1. /\ new \in ScoopDirectories /\ new.claim /\ new.status = directory[o].status
      /\ new.authorized <=> directory[o].authorized
  BY Files DEF ScoopDirectories
<1>2. directory' = [directory EXCEPT ![o] = new]
  BY DEF Claim
<1>3. /\ directory' \in [Operations -> ScoopDirectories] /\ directory'[o] = new
      /\ \A q \in Operations \ {o} : directory'[q] = directory[q]
  BY <1>1, <1>2, Files
<1>4. newPlace \in HelperPlaces /\ HelperGoes(o, newPlace)
  BY DEF Claim, HelperPlaces
<1>5. helper'[o] = newPlace
  BY <1>4, Moves DEF ScoopInv
<1>6. /\ directory'[o].claim /\ directory'[o].status = directory[o].status
      /\ directory'[o].authorized <=> directory[o].authorized
  BY <1>1, <1>3
<1>7. OperationOK(o)'
  <2>1. CASE directory[o].claim
    BY <1>5, <1>6, <2>1 DEF OperationOK, HelperOK, LauncherOK, ManagerOK, ArmedOK, Armed,
         BeforeHelper, Holding, PastCheck, Underway, TerminalStatus, ScoopInv, Claim
  <2>2. CASE ~directory[o].claim
    BY <1>5, <1>6, <2>2, Files DEF OperationOK, HelperOK, LauncherOK, ManagerOK, ArmedOK, Armed,
         BeforeHelper, Holding, PastCheck, Underway, TerminalStatus, ScoopInv, Claim
  <2> QED
    BY <2>1, <2>2
<1> HIDE DEF newPlace
<1> QED
  BY <1>3, <1>4, <1>7, HelperStep, Files DEF Claim

LEMMA InvAnnounce == ASSUME ScoopInv, NEW o \in Operations, Announce(o) PROVE ScoopInv'
<1>1. CASE /\ Report(o, "waiting") /\ HelperGoes(o, "waiting")
           /\ UNCHANGED <<installation, launcher, manager, mutex, active>>
  <2>1. helper'[o] = "waiting" /\ "waiting" \in HelperPlaces
    BY <1>1, Moves DEF ScoopInv, HelperPlaces
  <2>2. /\ directory' \in [Operations -> ScoopDirectories]
        /\ directory'[o].status = "waiting" /\ directory'[o].claim = directory[o].claim
        /\ directory'[o].authorized = directory[o].authorized
        /\ \A q \in Operations \ {o} : directory'[q] = directory[q]
    BY <1>1, Reports DEF ScoopInv, Statuses
  <2>3. OperationOK(o)'
    BY <1>1, <2>1, <2>2 DEF OperationOK, HelperOK, LauncherOK, ManagerOK, ArmedOK, Armed,
         BeforeHelper, Holding, PastCheck, Underway, TerminalStatus, ScoopInv, Announce
  <2> QED
    BY <1>1, <2>1, <2>2, <2>3, HelperStep, Files
<1>2. CASE Finish(o, "failed") /\ UNCHANGED manager
  BY <1>2, InvFinish, Files DEF Announce, TerminalStatus, HelperAlive
<1> QED
  BY <1>1, <1>2 DEF Announce

LEMMA InvAwaitExit == ASSUME ScoopInv, NEW o \in Operations, AwaitExit(o) PROVE ScoopInv'
<1>1. CASE /\ ~LauncherAlive(o) /\ HelperGoes(o, "checking")
           /\ UNCHANGED <<installation, launcher, directory, manager, mutex, active>>
  <2>1. helper'[o] = "checking" /\ "checking" \in HelperPlaces
    BY <1>1, Moves DEF ScoopInv, HelperPlaces
  <2>2. OperationOK(o)'
    BY <1>1, <2>1 DEF OperationOK, HelperOK, LauncherOK, ManagerOK, ArmedOK, Armed,
         BeforeHelper, Holding, PastCheck, Underway, TerminalStatus, ScoopInv, AwaitExit, LauncherAlive
  <2> QED
    BY <1>1, <2>1, <2>2, HelperStep, Files
<1>2. CASE UNCHANGED manager /\ \E status \in {"canceled", "blocked"} : Finish(o, status)
  BY <1>2, InvFinish, Files DEF AwaitExit, TerminalStatus, HelperAlive
<1> QED
  BY <1>1, <1>2 DEF AwaitExit

LEMMA InvVerifyRequest == ASSUME ScoopInv, NEW o \in Operations, VerifyRequest(o) PROVE ScoopInv'
<1>1. CASE /\ directory[o].authorized /\ Report(o, "running") /\ HelperGoes(o, "verified")
           /\ UNCHANGED <<installation, launcher, manager, mutex, active>>
  <2>1. helper'[o] = "verified" /\ "verified" \in HelperPlaces
    BY <1>1, Moves DEF ScoopInv, HelperPlaces
  <2>2. /\ directory' \in [Operations -> ScoopDirectories]
        /\ directory'[o].status = "running" /\ directory'[o].claim = directory[o].claim
        /\ directory'[o].authorized = directory[o].authorized
        /\ \A q \in Operations \ {o} : directory'[q] = directory[q]
    BY <1>1, Reports DEF ScoopInv, Statuses
  <2>3. OperationOK(o)'
    BY <1>1, <2>1, <2>2 DEF OperationOK, HelperOK, LauncherOK, ManagerOK, ArmedOK, Armed,
         BeforeHelper, Holding, PastCheck, Underway, TerminalStatus, ScoopInv, VerifyRequest
  <2> QED
    BY <1>1, <2>1, <2>2, <2>3, HelperStep, Files
<1>2. CASE UNCHANGED manager /\ \E status \in {"failed", "canceled", "blocked"} : Finish(o, status)
  BY <1>2, InvFinish, Files DEF VerifyRequest, TerminalStatus, HelperAlive
<1> QED
  BY <1>1, <1>2 DEF VerifyRequest

(* A helper that gets here has not run Scoop before.                       *)
LEMMA InvRunManager == ASSUME ScoopInv, NEW o \in Operations, RunManager(o) PROVE ScoopInv'
<1> DEFINE new == [runs |-> manager[o].runs + 1, running |-> TRUE]
<1>1. manager[o].runs = 0
  BY DEF ScoopInv, OperationOK, ManagerOK, RunManager
<1>2. new \in [runs : 0..1, running : BOOLEAN]
  BY <1>1
<1>3. manager' = [manager EXCEPT ![o] = new]
  BY DEF RunManager
<1>4. /\ manager' \in [Operations -> [runs : 0..1, running : BOOLEAN]]
      /\ \A q \in Operations \ {o} : manager'[q] = manager[q]
  BY <1>2, <1>3, Files
<1>5. helper'[o] = "managing" /\ "managing" \in HelperPlaces
  BY Moves DEF ScoopInv, HelperPlaces, RunManager
<1>6. OperationOK(o)'
  BY <1>5 DEF OperationOK, HelperOK, LauncherOK, ManagerOK, ArmedOK, Armed,
         BeforeHelper, Holding, PastCheck, Underway, TerminalStatus, ScoopInv, RunManager
<1> QED
  BY <1>4, <1>5, <1>6, HelperStep, Files DEF RunManager

LEMMA InvManagerEnds == ASSUME ScoopInv, NEW o \in Operations, ManagerEnds(o) PROVE ScoopInv'
<1> DEFINE newPlace == IF helper[o] = "managing" THEN "managed" ELSE helper[o]
<1>1. /\ manager' \in [Operations -> [runs : 0..1, running : BOOLEAN]]
      /\ manager'[o].runs = manager[o].runs
      /\ \A q \in Operations \ {o} : manager'[q] = manager[q]
  BY Stops DEF ScoopInv, ManagerEnds
<1>2. newPlace \in HelperPlaces /\ helper' = [helper EXCEPT ![o] = newPlace]
  BY DEF ScoopInv, ScoopTypeOK, HelperPlaces, ManagerEnds
<1>3. /\ helper' \in [Operations -> HelperPlaces] /\ helper'[o] = newPlace
      /\ \A q \in Operations \ {o} : helper'[q] = helper[q]
  BY <1>2 DEF ScoopInv, ScoopTypeOK
<1>4. installation' \in 0..MaxInstallation
  BY ScoopAssumption DEF ScoopInv, ScoopTypeOK, ManagerEnds
<1>5. ScoopTypeOK'
  BY <1>1, <1>3, <1>4 DEF ScoopInv, ScoopTypeOK, ManagerEnds
<1>6. Alone(o)
  BY <1>1, <1>3 DEF Alone, ManagerEnds
<1>7. OperationOK(o)'
  BY <1>1, <1>3 DEF OperationOK, HelperOK, LauncherOK, ManagerOK, ArmedOK, Armed,
         BeforeHelper, Holding, PastCheck, Underway, TerminalStatus, ScoopInv, ManagerEnds
<1>8. launcher'[o].at \in PastCheck => \A q \in Operations \ {o} : ~Armed(q)
  BY DEF ScoopInv, OperationOK, ArmedOK, ManagerEnds
<1> QED
  BY <1>5, <1>6, <1>7, <1>8, ScoopOthersStay

LEMMA InvInterruptManager == ASSUME ScoopInv, NEW o \in Operations, InterruptManager(o) PROVE ScoopInv'
<1>1. /\ manager' \in [Operations -> [runs : 0..1, running : BOOLEAN]]
      /\ manager'[o].runs = manager[o].runs
      /\ \A q \in Operations \ {o} : manager'[q] = manager[q]
  BY Stops DEF ScoopInv, InterruptManager
<1> QED
  BY <1>1, InvFinish DEF InterruptManager, TerminalStatus, HelperAlive

LEMMA InvReportOutcome == ASSUME ScoopInv, NEW o \in Operations, ReportOutcome(o) PROVE ScoopInv'
  BY InvFinish, Files DEF ReportOutcome, TerminalStatus, HelperAlive

LEMMA InvHelperDies == ASSUME ScoopInv, NEW o \in Operations, HelperDies(o) PROVE ScoopInv'
<1>1. helper'[o] = "ended" /\ "ended" \in HelperPlaces
  BY Moves DEF ScoopInv, HelperPlaces, HelperDies
<1>2. OperationOK(o)'
  BY <1>1 DEF OperationOK, HelperOK, LauncherOK, ManagerOK, ArmedOK, Armed,
         BeforeHelper, Holding, PastCheck, Underway, TerminalStatus, ScoopInv, HelperDies, HelperAlive
<1> QED
  BY <1>1, <1>2, HelperStep, Files DEF HelperDies

(* A helper that is run once more finds its operation claimed.             *)
LEMMA InvReplay == ASSUME ScoopInv, NEW o \in Operations, Replay(o) PROVE ScoopInv'
<1>1. helper'[o] = "started" /\ "started" \in HelperPlaces
  BY Moves DEF ScoopInv, HelperPlaces, Replay
<1>2. OperationOK(o)'
  BY <1>1 DEF OperationOK, HelperOK, LauncherOK, ManagerOK, ArmedOK, Armed,
         BeforeHelper, Holding, PastCheck, Underway, TerminalStatus, ScoopInv, Replay
<1> QED
  BY <1>1, <1>2, HelperStep, Files DEF Replay

-----------------------------------------------------------------------------
LEMMA ScoopInvInit == ScoopInit => ScoopInv
<1> SUFFICES ASSUME ScoopInit PROVE ScoopInv
  OBVIOUS
<1>1. /\ [at |-> "none", reviewed |-> 0] \in [at : LauncherPlaces, reviewed : 0..MaxInstallation]
      /\ [status |-> "none", claim |-> FALSE, authorized |-> FALSE] \in ScoopDirectories
      /\ [runs |-> 0, running |-> FALSE] \in [runs : 0..1, running : BOOLEAN]
      /\ "none" \in HelperPlaces
  BY ScoopAssumption DEF LauncherPlaces, ScoopDirectories, Statuses, HelperPlaces
<1>2. ScoopTypeOK
  BY <1>1, ScoopAssumption DEF ScoopInit, ScoopTypeOK, ScoopDirectories, Statuses
<1>3. ASSUME NEW o \in Operations
      PROVE  OperationOK(o)
  <2>1. /\ launcher[o].at = "none" /\ helper[o] = "none" /\ manager[o].runs = 0
        /\ directory[o] = [status |-> "none", claim |-> FALSE, authorized |-> FALSE]
    BY DEF ScoopInit
  <2> QED
    BY <2>1 DEF OperationOK, HelperOK, LauncherOK, ManagerOK, ArmedOK, Armed,
         BeforeHelper, Holding, PastCheck, Underway, TerminalStatus
<1> QED
  BY <1>2, <1>3 DEF ScoopInv

LEMMA ScoopInvNext == ScoopInv /\ [ScoopNext]_scoopVars => ScoopInv'
<1> SUFFICES ASSUME ScoopInv, [ScoopNext]_scoopVars PROVE ScoopInv'
  OBVIOUS
<1>1. CASE OtherUpdate
  <2>1. installation' \in 0..MaxInstallation
    BY <1>1, ScoopAssumption DEF OtherUpdate, ScoopInv, ScoopTypeOK
  <2> QED
    BY <1>1, <2>1 DEF OtherUpdate, ScoopInv, ScoopTypeOK, OperationOK, HelperOK, LauncherOK, ManagerOK,
       ArmedOK, Armed
<1>2. CASE UNCHANGED scoopVars
  BY <1>2 DEF scoopVars, ScoopInv, ScoopTypeOK, OperationOK, HelperOK, LauncherOK, ManagerOK,
     ArmedOK, Armed
<1>3. ASSUME NEW o \in Operations,
             \/ Prepare(o) \/ TakeMutex(o) \/ CheckActive(o) \/ WriteRequest(o) \/ StartHelper(o)
             \/ PollHelper(o) \/ WriteActive(o) \/ WriteAuthorized(o) \/ AbortHandoff(o)
             \/ ReturnFromHandoff(o) \/ LauncherDies(o)
      PROVE  ScoopInv'
  BY <1>3, InvPrepare, InvTakeMutex, InvCheckActive, InvWriteRequest, InvStartHelper,
     InvPollHelper, InvWriteActive, InvWriteAuthorized, InvAbortHandoff,
     InvReturnFromHandoff, InvLauncherDies
<1>4. ASSUME NEW o \in Operations,
             \/ Claim(o) \/ Announce(o) \/ AwaitExit(o) \/ VerifyRequest(o) \/ RunManager(o)
             \/ ManagerEnds(o) \/ InterruptManager(o) \/ ReportOutcome(o) \/ HelperDies(o)
             \/ Replay(o)
      PROVE  ScoopInv'
  BY <1>4, InvClaim, InvAnnounce, InvAwaitExit, InvVerifyRequest, InvRunManager,
     InvManagerEnds, InvInterruptManager, InvReportOutcome, InvHelperDies, InvReplay
<1> QED
  BY <1>1, <1>2, <1>3, <1>4 DEF ScoopNext

(* Files, processes and the mutex keep their types, and ScoopInv holds.         *)
THEOREM ScoopInvariant == ScoopSpec => []ScoopInv
  BY ScoopInvInit, ScoopInvNext, PTL DEF ScoopSpec

(* The upgrade's state has its types: no operation runs Scoop twice.       *)
THEOREM ScoopTypeCorrect == ScoopSpec => []ScoopTypeOK
<1>1. ScoopInv => ScoopTypeOK
  BY DEF ScoopInv
<1> QED
  BY <1>1, ScoopInvariant, PTL

(* However many launchers meet, and whoever is killed or replayed: Scoop   *)
(* runs once at most for an operation, after its launcher authorized it    *)
(* and left, and no two helpers run it at the same time.                   *)
THEOREM ScoopRunsAreExclusive == ScoopSpec => []UpgradesAreExclusive
<1>1. ScoopInv => OnlyAuthorizedRuns
  BY DEF ScoopInv, ScoopTypeOK, OperationOK, ManagerOK, OnlyAuthorizedRuns
<1>2. ScoopInv => OneManagerAtATime
  <2> SUFFICES ASSUME ScoopInv, NEW o \in Operations, NEW q \in Operations,
                      helper[o] = "managing", helper[q] = "managing"
               PROVE  o = q
    BY DEF OneManagerAtATime
  <2>1. Armed(o) /\ Armed(q)
    BY DEF ScoopInv, OperationOK, HelperOK, Armed, Underway
  <2> QED
    BY <2>1 DEF ScoopInv, OperationOK, ArmedOK
<1> QED
  BY <1>1, <1>2, ScoopInvariant, PTL DEF UpgradesAreExclusive

-----------------------------------------------------------------------------
(***************************************************************************)
(* Theorems of Replacement, for any publishers and contents.               *)
(*                                                                         *)
(* Whether a backup may go when its publisher is done depends on the path  *)
(* that led there.  ReplacementInv says what is left of that path: who has a backup   *)
(* may overwrite and has not failed, and who must restore one has it.      *)
(***************************************************************************)

Moving == {"moving", "replacing", "restoring"}
WithBackup == {"replacing", "restoring", "published", "kept", "done", "crashed"}

PublisherOK(p) ==
    /\ publisher[p] \in Moving => p \in Overwriting
    /\ publisher[p] \in {"replacing", "restoring"} => backups[p] # Nothing
    /\ backups[p] # Nothing => p \in Overwriting /\ publisher[p] \in WithBackup

ReplacementInv == ReplacementTypeOK /\ \A p \in Publishers : PublisherOK(p)

-----------------------------------------------------------------------------
(* What a step of one publisher leaves to the others.                      *)
LEMMA ReplacementOthersStay ==
    ASSUME ReplacementInv, NEW p \in Publishers, NEW state \in Places, Becomes(p, state),
           NEW b \in Contents \cup {Nothing}, backups' = [backups EXCEPT ![p] = b],
           place' \in Contents \cup {Nothing}, arrived' = arrived,
           state \in Moving => p \in Overwriting,
           state \in {"replacing", "restoring"} => b # Nothing,
           b # Nothing => p \in Overwriting /\ state \in WithBackup
    PROVE  ReplacementInv'
<1>1. /\ publisher' \in [Publishers -> Places] /\ publisher'[p] = state
      /\ \A q \in Publishers \ {p} : publisher'[q] = publisher[q]
  BY DEF Becomes, ReplacementInv, ReplacementTypeOK
<1>2. /\ backups' \in [Publishers -> Contents \cup {Nothing}] /\ backups'[p] = b
      /\ \A q \in Publishers \ {p} : backups'[q] = backups[q]
  BY DEF ReplacementInv, ReplacementTypeOK
<1>3. ReplacementTypeOK'
  BY <1>1, <1>2 DEF ReplacementInv, ReplacementTypeOK
<1>4. ASSUME NEW q \in Publishers
      PROVE  PublisherOK(q)'
  <2>1. CASE q = p
    BY <1>1, <1>2, <2>1 DEF PublisherOK
  <2>2. CASE q # p
    BY <1>1, <1>2, <2>2 DEF PublisherOK, ReplacementInv
  <2> QED
    BY <2>1, <2>2
<1> QED
  BY <1>3, <1>4 DEF ReplacementInv

LEMMA SameBackups ==
    ASSUME ReplacementInv, UNCHANGED backups, NEW p \in Publishers
    PROVE  /\ backups' = [backups EXCEPT ![p] = backups[p]]
           /\ backups[p] \in Contents \cup {Nothing}
  BY DEF ReplacementInv, ReplacementTypeOK

LEMMA InvBeginDownload == ASSUME ReplacementInv, NEW p \in Publishers, BeginDownload(p) PROVE ReplacementInv'
<1>1. backups[p] = Nothing
  BY DEF BeginDownload, ReplacementInv, PublisherOK, WithBackup
<1>2. PICK state \in {"done", "staging"} : Becomes(p, state)
  BY DEF BeginDownload
<1> QED
  BY <1>1, <1>2, SameBackups, ReplacementOthersStay DEF BeginDownload, Places, Moving, ReplacementInv, ReplacementTypeOK

LEMMA InvFillStage == ASSUME ReplacementInv, NEW p \in Publishers, FillStage(p) PROVE ReplacementInv'
<1>1. backups[p] = Nothing
  BY DEF FillStage, ReplacementInv, PublisherOK, WithBackup
<1>2. PICK state \in {"publishing", "failed"} : Becomes(p, state)
  BY DEF FillStage
<1> QED
  BY <1>1, <1>2, SameBackups, ReplacementOthersStay DEF FillStage, Places, Moving, ReplacementInv, ReplacementTypeOK

LEMMA InvLookAgain == ASSUME ReplacementInv, NEW p \in Publishers, LookAgain(p) PROVE ReplacementInv'
<1>1. backups[p] = Nothing
  BY DEF LookAgain, ReplacementInv, PublisherOK, WithBackup
<1>2. PICK state \in {"placing", "failed", "moving"} :
           Becomes(p, state) /\ (state = "moving" => p \in Overwriting)
  BY DEF LookAgain
<1> QED
  BY <1>1, <1>2, SameBackups, ReplacementOthersStay DEF LookAgain, Places, Moving, ReplacementInv, ReplacementTypeOK

LEMMA InvMoveAway == ASSUME ReplacementInv, NEW p \in Publishers, MoveAway(p) PROVE ReplacementInv'
<1>1. p \in Overwriting /\ backups[p] = Nothing
  BY DEF MoveAway, ReplacementInv, PublisherOK, Moving, WithBackup
<1>2. CASE backups' = [backups EXCEPT ![p] = place] /\ place' = Nothing /\ Becomes(p, "replacing")
  BY <1>1, <1>2, ReplacementOthersStay DEF MoveAway, Places, WithBackup, ReplacementInv, ReplacementTypeOK
<1>3. CASE Becomes(p, "failed") /\ UNCHANGED <<place, backups>>
  BY <1>1, <1>3, SameBackups, ReplacementOthersStay DEF MoveAway, Places, ReplacementInv, ReplacementTypeOK
<1> QED
  BY <1>2, <1>3 DEF MoveAway

LEMMA InvPlaceContent == ASSUME ReplacementInv, NEW p \in Publishers, PlaceContent(p) PROVE ReplacementInv'
<1>1. /\ publisher[p] = "replacing" => p \in Overwriting
      /\ publisher[p] = "placing" => backups[p] = Nothing
      /\ backups[p] # Nothing => p \in Overwriting
  BY DEF ReplacementInv, PublisherOK, Moving, WithBackup
<1>2. PICK state \in {"published", "failed", "restoring"} :
           /\ Becomes(p, state)
           /\ state = "restoring" => publisher[p] = "replacing"
           /\ state = "failed" => publisher[p] = "placing"
  BY DEF PlaceContent
<1>3. place' \in Contents \cup {Nothing}
  BY DEF PlaceContent, ReplacementInv, ReplacementTypeOK, Contents
<1>4. /\ state \in Moving => p \in Overwriting
      /\ state \in {"replacing", "restoring"} => backups[p] # Nothing
  BY <1>1, <1>2 DEF Moving, ReplacementInv, PublisherOK
<1>5. backups[p] # Nothing => p \in Overwriting /\ state \in WithBackup
  BY <1>1, <1>2 DEF WithBackup
<1> QED
  BY <1>2, <1>3, <1>4, <1>5, SameBackups, ReplacementOthersStay DEF PlaceContent, Places

LEMMA InvRestore == ASSUME ReplacementInv, NEW p \in Publishers, Restore(p) PROVE ReplacementInv'
<1>1. p \in Overwriting
  BY DEF Restore, ReplacementInv, PublisherOK, Moving
<1>2. CASE /\ place' = backups[p] /\ backups' = [backups EXCEPT ![p] = Nothing]
           /\ Becomes(p, "failed")
  BY <1>1, <1>2, ReplacementOthersStay DEF Restore, Places, ReplacementInv, ReplacementTypeOK
<1>3. CASE Becomes(p, "kept") /\ UNCHANGED <<place, backups>>
  BY <1>1, <1>3, SameBackups, ReplacementOthersStay
     DEF Restore, Places, WithBackup, Moving, ReplacementInv, ReplacementTypeOK
<1> QED
  BY <1>2, <1>3 DEF Restore, AfterFailedRestore

LEMMA InvRemoveTemporaries == ASSUME ReplacementInv, NEW p \in Publishers, RemoveTemporaries(p) PROVE ReplacementInv'
<1>1. PICK b \in {backups[p], Nothing} : backups' = [backups EXCEPT ![p] = b]
  BY DEF RemoveTemporaries
<1>2. b # Nothing => p \in Overwriting
  BY <1>1 DEF ReplacementInv, PublisherOK
<1> QED
  BY <1>1, <1>2, ReplacementOthersStay
     DEF RemoveTemporaries, Places, Moving, WithBackup, ReplacementInv, ReplacementTypeOK

LEMMA InvDieHalfway == ASSUME ReplacementInv, NEW p \in Publishers, DieHalfway(p) PROVE ReplacementInv'
<1>1. backups[p] # Nothing => p \in Overwriting
  BY DEF ReplacementInv, PublisherOK
<1> QED
  BY <1>1, SameBackups, ReplacementOthersStay
     DEF DieHalfway, Places, Moving, WithBackup, ReplacementInv, ReplacementTypeOK

LEMMA InvArrive == ASSUME ReplacementInv, NEW content \in Others, Arrive(content) PROVE ReplacementInv'
  BY DEF Arrive, ReplacementInv, ReplacementTypeOK, PublisherOK, Contents

LEMMA ReplacementInvInit == ReplacementInit => ReplacementInv
  BY ReplacementAssumption
     DEF ReplacementInit, ReplacementInv, ReplacementTypeOK, PublisherOK, Contents, Places, Moving

LEMMA ReplacementInvNext == ReplacementInv /\ [ReplacementNext]_replacementVars => ReplacementInv'
<1> SUFFICES ASSUME ReplacementInv, [ReplacementNext]_replacementVars PROVE ReplacementInv'
  OBVIOUS
<1>1. CASE UNCHANGED replacementVars
  BY <1>1 DEF replacementVars, ReplacementInv, ReplacementTypeOK, PublisherOK
<1>2. CASE \E content \in Others : Arrive(content)
  BY <1>2, InvArrive
<1>3. ASSUME NEW p \in Publishers,
             \/ BeginDownload(p) \/ FillStage(p) \/ LookAgain(p) \/ MoveAway(p)
             \/ PlaceContent(p) \/ Restore(p) \/ RemoveTemporaries(p) \/ DieHalfway(p)
      PROVE  ReplacementInv'
  BY <1>3, InvBeginDownload, InvFillStage, InvLookAgain, InvMoveAway, InvPlaceContent,
     InvRestore, InvRemoveTemporaries, InvDieHalfway
<1> QED
  BY <1>1, <1>2, <1>3 DEF ReplacementNext

(* The destination, the backups and their publishers keep their types, and *)
(* ReplacementInv holds.                                                              *)
THEOREM ReplacementInvariant == ReplacementSpec => []ReplacementInv
  BY ReplacementInvInit, ReplacementInvNext, PTL DEF ReplacementSpec

-----------------------------------------------------------------------------
(* What of the old contents may be gone after a step.                      *)
Survives(c) ==
    \/ \E p \in Overwriting : publisher[p] = "published" /\ backups[p] = c
    \/ /\ c \notin Directories /\ place = c
       /\ place' \notin Directories \cup {Nothing}

(* What a publisher has in its place afterwards, and what others keep.     *)
LEMMA PresentAfter ==
    ASSUME ReplacementInv, NEW p \in Publishers, NEW b, backups' = [backups EXCEPT ![p] = b],
           NEW c \in Present \ Present'
    PROVE  /\ c # place' /\ c # b /\ c # Nothing
           /\ c = place \/ c = backups[p]
<1>1. c # Nothing /\ c # place' /\ \A q \in Publishers : c # backups'[q]
  BY DEF Present
<1>2. backups'[p] = b /\ \A q \in Publishers \ {p} : backups'[q] = backups[q]
  BY DEF ReplacementInv, ReplacementTypeOK
<1>3. c = place \/ \E q \in Publishers : c = backups[q]
  BY DEF Present
<1> QED
  BY <1>1, <1>2, <1>3

(* Whatever fails, crashes or comes between two steps of any number of     *)
(* publishers: what was at the destination is there or in a backup until   *)
(* an overwriting program has published, or a file has taken its place.    *)
THEOREM OriginalsAlwaysSurvive == ReplacementSpec => OriginalsSurvive
<1>1. ASSUME ReplacementInv, [ReplacementNext]_replacementVars, NEW c \in Present \ Present'
      PROVE  Survives(c)
  <2>1. CASE UNCHANGED replacementVars
    BY <1>1, <2>1 DEF replacementVars, Present
  <2>2. CASE \E content \in Others : Arrive(content)
    BY <1>1, <2>2 DEF Arrive, Present
  <2>3. ASSUME NEW p \in Publishers,
               BeginDownload(p) \/ FillStage(p) \/ LookAgain(p) \/ DieHalfway(p)
        PROVE  Survives(c)
    BY <1>1, <2>3 DEF BeginDownload, FillStage, LookAgain, DieHalfway, Present
  <2>4. ASSUME NEW p \in Publishers, MoveAway(p)
        PROVE  Survives(c)
    <3>1. backups[p] = Nothing
      BY <1>1, <2>4 DEF MoveAway, ReplacementInv, PublisherOK, WithBackup
    <3>2. CASE backups' = [backups EXCEPT ![p] = place]
      BY <1>1, <3>1, <3>2, PresentAfter
    <3>3. CASE UNCHANGED <<place, backups>>
      BY <1>1, <3>3 DEF Present
    <3> QED
      BY <2>4, <3>2, <3>3 DEF MoveAway
  <2>5. ASSUME NEW p \in Publishers, PlaceContent(p)
        PROVE  Survives(c)
    <3>1. CASE MayRenameTo(p) /\ place' = p
      <4>1. backups' = [backups EXCEPT ![p] = backups[p]]
        BY <1>1, <2>5, SameBackups DEF PlaceContent
      <4>2. c = place /\ c # Nothing
        BY <1>1, <4>1, PresentAfter
      <4>3. p \notin Directories \cup {Nothing}
        BY <3>1, <4>2, ReplacementAssumption DEF MayRenameTo
      <4> QED
        BY <3>1, <4>2, <4>3 DEF Survives, MayRenameTo
    <3>2. CASE UNCHANGED place
      BY <1>1, <2>5, <3>2 DEF PlaceContent, Present
    <3> QED
      BY <2>5, <3>1, <3>2 DEF PlaceContent
  <2>6. ASSUME NEW p \in Publishers, Restore(p)
        PROVE  Survives(c)
    <3>1. CASE /\ MayRenameTo(backups[p]) /\ place' = backups[p]
               /\ backups' = [backups EXCEPT ![p] = Nothing]
      <4>1. c = place /\ c # Nothing /\ c # place'
        BY <1>1, <3>1, PresentAfter
      <4>2. backups[p] # Nothing
        BY <1>1, <2>6 DEF Restore, ReplacementInv, PublisherOK
      <4> QED
        BY <3>1, <4>1, <4>2 DEF Survives, MayRenameTo
    <3>2. CASE UNCHANGED <<place, backups>>
      BY <1>1, <3>2 DEF Present
    <3> QED
      BY <2>6, <3>1, <3>2 DEF Restore
  <2>7. ASSUME NEW p \in Publishers, RemoveTemporaries(p)
        PROVE  Survives(c)
    <3>1. place' = place
      BY <2>7 DEF RemoveTemporaries
    <3>2. CASE publisher[p] = "published"
      <4>1. backups' = [backups EXCEPT ![p] = Nothing]
        BY <2>7, <3>2 DEF RemoveTemporaries
      <4>2. c = backups[p] /\ c # Nothing
        BY <1>1, <3>1, <4>1, PresentAfter
      <4> QED
        BY <1>1, <3>2, <4>2 DEF Survives, ReplacementInv, PublisherOK
    <3>3. CASE publisher[p] = "kept"
      <4>1. backups' = [backups EXCEPT ![p] = backups[p]]
        BY <2>7, <3>3 DEF RemoveTemporaries
      <4> QED
        BY <1>1, <3>1, <4>1, PresentAfter
    <3>4. CASE publisher[p] = "failed"
      <4>1. backups' = [backups EXCEPT ![p] = Nothing] /\ backups[p] = Nothing
        BY <1>1, <2>7, <3>4 DEF RemoveTemporaries, ReplacementInv, PublisherOK, WithBackup
      <4> QED
        BY <1>1, <3>1, <4>1, PresentAfter
    <3> QED
      BY <2>7, <3>2, <3>3, <3>4 DEF RemoveTemporaries
  <2> QED
    BY <1>1, <2>1, <2>2, <2>3, <2>4, <2>5, <2>6, <2>7 DEF ReplacementNext
<1>2. ReplacementInv /\ [ReplacementNext]_replacementVars
        => [\A c \in Present \ Present' : Survives(c)]_replacementVars
  BY <1>1
<1> QED
  BY <1>2, ReplacementInvariant, PTL DEF ReplacementSpec, OriginalsSurvive, Survives

-----------------------------------------------------------------------------
(* The upgrade of BrewUpgrade, for any kegs and any number of files.       *)
(*                                                                         *)
(* A number is written once: a keg whose file has been replaced or removed *)
(* never has that file again, and while no link goes back the stable path  *)
(* leads to ever newer files.  So an object is what it was seen to be, or  *)
(* it has passed, for good; whatever is read while it is under way is true *)
(* of the object or the object has passed, and the next check of an object *)
(* that has passed fails.                                                  *)

Gone(look) == cellar[look.keg] = 0 \/ cellar[look.keg] > look.build
Newer(look) == cellar[opt] > look.build

Looked(o) ==
    CASE o = "binary" -> upgrade.next > 1
      [] o = "manager" -> upgrade.next > 2
      [] OTHER -> upgrade.next > 3

Passed(o) ==
    CASE o = "manager" -> brew > upgrade.seen[o].build
      [] o = "binary" /\ ~upgrade.linked -> Gone(upgrade.seen[o])
      [] OTHER -> Newer(upgrade.seen[o])

(* Where the last check of an object came after the last moment.           *)
Checked(o) ==
    CASE o = "binary" -> upgrade.next \in 6..12 \/ upgrade.next \in 14..16
      [] o = "manager" -> upgrade.next \in 7..12 \/ upgrade.next \in 15..16
      [] OTHER -> upgrade.next \in 8..12 \/ upgrade.next = 16

FilesOK ==
    /\ brew # 0 /\ brew <= written /\ cellar[opt] # 0
    /\ \A k \in Kegs : cellar[k] <= written
    /\ \A j, k \in Kegs : j # k /\ cellar[j] = cellar[k] => cellar[k] = 0

SeenOK(o) == 
    /\ upgrade.seen[o].build # 0 /\ upgrade.seen[o].build <= written
    /\ o = "binary" /\ ~upgrade.linked => upgrade.seen[o].keg = upgrade.keg
    /\ upgrade.wentBack \/ Now(o) = upgrade.seen[o] \/ Passed(o)

BinaryOK == 
    cellar[upgrade.seen["binary"].keg] = upgrade.seen["binary"].build \/ Gone(upgrade.seen["binary"])

VersionOK ==
    /\ upgrade.version = upgrade.seen["binary"].build \/ Gone(upgrade.seen["binary"])
    /\ upgrade.next > 5 => upgrade.version = upgrade.seen["binary"].build

MomentOK(o) ==
    /\ upgrade.moment[o] = upgrade.seen[o] \/ Passed(o)
    /\ Checked(o) => upgrade.moment[o] = upgrade.seen[o]

CandidateOK ==
    /\ upgrade.candidate.build # 0 /\ upgrade.candidate.build <= written
    /\ upgrade.wentBack \/ Now("stable") = upgrade.candidate \/ Newer(upgrade.candidate)

ReportOK ==
    LET true == /\ upgrade.moment["stable"] = upgrade.candidate
                /\ upgrade.version = upgrade.candidate.build IN
    (true \/ Newer(upgrade.candidate)) /\ (upgrade.next > 19 => true)

BrewInv ==
    /\ BrewTypeOK /\ FilesOK
    /\ \A o \in Objects : Looked(o) => SeenOK(o)
    /\ Looked("binary") => BinaryOK
    /\ upgrade.next \in 5..16 => VersionOK
    /\ upgrade.next \in 5..16 /\ ~upgrade.wentBack => \A o \in Objects : MomentOK(o)
    /\ upgrade.next > 17 => CandidateOK
    /\ upgrade.next > 18 /\ ~upgrade.wentBack => ReportOK

-----------------------------------------------------------------------------
(* What the script is.                                                     *)

LEMMA ScriptLength == Len(Script) = 20 /\ DOMAIN Script = 1..20
BY DEF Script

LEMMA ScriptReads ==
    /\ Script[1] = <<"see", "binary">>
    /\ Script[2] = <<"see", "manager">>
    /\ Script[3] = <<"see", "stable">>
    /\ Script[4] = <<"inspect", "binary">>
    /\ Script[5] = <<"check", "binary">>
BY DEF Script

LEMMA ScriptShows ==
    /\ Script[6] = <<"check", "manager">>
    /\ Script[7] = <<"check", "stable">>
    /\ Script[8] = <<"ask", "user">>
    /\ Script[9] = <<"check", "binary">>
    /\ Script[10] = <<"check", "manager">>
BY DEF Script

LEMMA ScriptProves ==
    /\ Script[11] = <<"check", "stable">>
    /\ Script[12] = <<"prove", "manager">>
    /\ Script[13] = <<"check", "binary">>
    /\ Script[14] = <<"check", "manager">>
    /\ Script[15] = <<"check", "stable">>
BY DEF Script

LEMMA ScriptRuns ==
    /\ Script[16] = <<"run", "manager">>
    /\ Script[17] = <<"see", "candidate">>
    /\ Script[18] = <<"inspect", "candidate">>
    /\ Script[19] = <<"check", "candidate">>
    /\ Script[20] = <<"report", "stable">>
BY DEF Script

LEMMA StepIs ==
  ASSUME NEW kind, Doing(kind)
  PROVE  /\ upgrade.next \in 1..20
         /\ kind = "see" => \/ upgrade.next = 1 /\ Object = "binary"
                            \/ upgrade.next = 2 /\ Object = "manager"
                            \/ upgrade.next = 3 /\ Object = "stable"
                            \/ upgrade.next = 17 /\ Object = "candidate"
         /\ kind = "inspect" => \/ upgrade.next = 4 /\ Object = "binary"
                                \/ upgrade.next = 18 /\ Object = "candidate"
         /\ kind = "check" => \/ upgrade.next \in {5, 9, 13} /\ Object = "binary"
                              \/ upgrade.next \in {6, 10, 14} /\ Object = "manager"
                              \/ upgrade.next \in {7, 11, 15} /\ Object = "stable"
                              \/ upgrade.next = 19 /\ Object = "candidate"
         /\ kind = "ask" => upgrade.next = 8
         /\ kind = "prove" => upgrade.next = 12
         /\ kind = "run" => upgrade.next = 16
         /\ kind = "report" => upgrade.next = 20
<1>1. PICK n \in 1..20 : n = upgrade.next
  BY ScriptLength DEF Doing
<1>2. kind = Script[n][1] /\ Object = Script[n][2]
  BY <1>1 DEF Doing, Object
<1>3. \/ n \in {1, 2, 3, 4, 5} \/ n \in {6, 7, 8, 9, 10}
      \/ n \in {11, 12, 13, 14, 15} \/ n \in {16, 17, 18, 19, 20}
  OBVIOUS
<1>4. CASE n \in {1, 2, 3, 4, 5}
  BY <1>1, <1>2, <1>4, ScriptReads
<1>5. CASE n \in {6, 7, 8, 9, 10}
  BY <1>1, <1>2, <1>5, ScriptShows
<1>6. CASE n \in {11, 12, 13, 14, 15}
  BY <1>1, <1>2, <1>6, ScriptProves
<1>7. CASE n \in {16, 17, 18, 19, 20}
  BY <1>1, <1>2, <1>7, ScriptRuns
<1> QED
  BY <1>3, <1>4, <1>5, <1>6, <1>7

LEMMA Values ==
    /\ MaxBuild \in Nat /\ Nowhere \in Look
    /\ Objects = {"binary", "manager", "stable"}
<1>1. PICK keg \in Kegs : TRUE
  BY BrewAssumption
<1>2. (CHOOSE k \in Kegs : TRUE) \in Kegs
  BY <1>1
<1> QED
  BY <1>2, BrewAssumption DEF Nowhere, Look, Builds, Objects

(* The types, field by field.                                              *)
LEMMA Types ==
  ASSUME BrewTypeOK
  PROVE  /\ cellar \in [Kegs -> Nat] /\ opt \in Kegs /\ brew \in Nat /\ written \in Nat
         /\ upgrade.next \in 1..21 /\ upgrade.keg \in Kegs /\ upgrade.linked \in BOOLEAN
         /\ \A o \in Objects : upgrade.seen[o].keg \in Kegs /\ upgrade.seen[o].build \in Nat
         /\ upgrade.candidate.keg \in Kegs /\ upgrade.candidate.build \in Nat
         /\ upgrade.version \in Nat
<1>1. Builds \subseteq Nat
  BY Values DEF Builds
<1>2. upgrade.next \in 1..21
  <2>1. upgrade.next \in 1..Len(Script) + 1
    BY DEF BrewTypeOK
  <2> QED
    BY <2>1, ScriptLength
<1>3. /\ upgrade.keg \in Kegs /\ upgrade.linked \in BOOLEAN
      /\ upgrade.seen \in [Objects -> Look] /\ upgrade.candidate \in Look
      /\ upgrade.version \in Builds
  BY DEF BrewTypeOK
<1> QED
  BY <1>1, <1>2, <1>3 DEF BrewTypeOK, Look

LEMMA RunningIsKeg ==
  ASSUME BrewTypeOK
  PROVE  Running \in Kegs
BY Types DEF Running

-----------------------------------------------------------------------------
(* What a step of a package manager does to the files.                     *)

FilesMove ==
    /\ cellar' \in [Kegs -> Nat] /\ opt' \in Kegs /\ brew' \in Nat /\ written' \in Nat
    /\ written <= written'
    /\ \A k \in Kegs : cellar'[k] = cellar[k] \/ cellar'[k] = 0 \/ cellar'[k] > written
    /\ brew' = brew \/ brew' > written
    /\ upgrade.wentBack => upgrade'.wentBack
    /\ \/ upgrade'.wentBack
       \/ opt' = opt /\ cellar'[opt] = cellar[opt]
       \/ cellar'[opt'] > cellar[opt]

SameUpgrade ==
    /\ upgrade'.next = upgrade.next /\ upgrade'.keg = upgrade.keg
    /\ upgrade'.linked = upgrade.linked /\ upgrade'.seen = upgrade.seen
    /\ upgrade'.candidate = upgrade.candidate /\ upgrade'.version = upgrade.version
    /\ upgrade'.moment = upgrade.moment

LEMMA GoneStays ==
  ASSUME BrewTypeOK, FilesMove, NEW keg \in Kegs, NEW n \in Nat, n <= written
  PROVE  /\ cellar[keg] = 0 \/ cellar[keg] > n => cellar'[keg] = 0 \/ cellar'[keg] > n
         /\ cellar[keg] = n => cellar'[keg] = n \/ cellar'[keg] = 0 \/ cellar'[keg] > n
BY Types DEF FilesMove

LEMMA NewerStays ==
  ASSUME BrewTypeOK, FilesMove, NEW n \in Nat, n <= written
  PROVE  \/ upgrade'.wentBack
         \/ /\ cellar[opt] > n => cellar'[opt'] > n
            /\ cellar[opt] = n => (opt' = opt /\ cellar'[opt'] = n) \/ cellar'[opt'] > n
BY Types DEF FilesMove

LEMMA ManagerStays ==
  ASSUME BrewTypeOK, FilesMove, NEW n \in Nat, n <= written
  PROVE  /\ brew > n => brew' > n
         /\ brew = n => brew' = n \/ brew' > n
BY Types DEF FilesMove

(* What an object is, by its number and its keg.                           *)
LEMMA NowIs ==
  ASSUME NEW o \in Objects, NEW look, look.keg \in Kegs, look.build \in Nat,
         upgrade.seen[o] = look, look \in Look
  PROVE  /\ o = "manager" =>
              /\ Now(o) = look => brew = look.build
              /\ Passed(o) <=> brew > look.build
         /\ o = "binary" /\ ~upgrade.linked =>
              /\ Now(o) = look => upgrade.keg = look.keg /\ cellar[look.keg] = look.build
              /\ upgrade.keg = look.keg /\ cellar[look.keg] = look.build => Now(o) = look
              /\ Passed(o) <=> Gone(look)
         /\ o = "stable" \/ (o = "binary" /\ upgrade.linked) =>
              /\ Now(o) = look <=> opt = look.keg /\ cellar[opt] = look.build
              /\ Passed(o) <=> Newer(look)
<1>1. CASE o = "manager"
  BY <1>1 DEF Now, Passed, Nowhere
<1>2. CASE o = "binary" /\ ~upgrade.linked
  BY <1>2 DEF Now, Passed, Running, Look
<1>3. CASE o = "stable" \/ (o = "binary" /\ upgrade.linked)
  BY <1>3 DEF Now, Passed, Running, Look
<1> QED
  BY <1>1, <1>2, <1>3

LEMMA SeenStays ==
  ASSUME BrewTypeOK, FilesMove, SameUpgrade, NEW o \in Objects, SeenOK(o)
  PROVE  /\ SeenOK(o)'
         /\ upgrade'.wentBack \/ (Passed(o) => Passed(o)')
<1>1. PICK look \in Look : look = upgrade.seen[o]
  BY DEF BrewTypeOK
<1>2. look.keg \in Kegs /\ look.build \in Nat /\ look.build # 0 /\ look.build <= written
  BY <1>1, Types DEF SeenOK
<1>3. upgrade'.seen[o] = look /\ upgrade'.linked = upgrade.linked /\ upgrade'.keg = upgrade.keg
  BY <1>1 DEF SameUpgrade
<1>4. /\ upgrade'.seen[o].build # 0 /\ upgrade'.seen[o].build <= written'
      /\ o = "binary" /\ ~upgrade'.linked => upgrade'.seen[o].keg = upgrade'.keg
  BY <1>1, <1>2, <1>3, Types DEF SeenOK, FilesMove
<1>5. upgrade.wentBack \/ Now(o) = look \/ Passed(o)
  BY <1>1 DEF SeenOK
<1>6. CASE upgrade'.wentBack
  BY <1>4, <1>6 DEF SeenOK
<1>7. CASE ~upgrade'.wentBack
  <2>1. Now(o) = look \/ Passed(o)
    BY <1>5, <1>7 DEF FilesMove
  <2>2. (Now(o) = look => Now(o)' = look \/ Passed(o)') /\ (Passed(o) => Passed(o)')
    <3>1. CASE o = "manager"
      <4>1. /\ Passed(o) <=> brew > look.build
            /\ Passed(o)' <=> brew' > look.build
        BY <1>1, <1>3, <3>1 DEF Passed
      <4>2. Now(o) = look => brew = look.build
        BY <3>1 DEF Now, Nowhere
      <4>3. brew' = brew => Now(o)' = Now(o)
        BY <3>1 DEF Now
      <4> QED
        BY <1>2, <4>1, <4>2, <4>3, ManagerStays, Types DEF FilesMove
    <3>2. CASE o = "binary" /\ ~upgrade.linked
      <4>1. /\ Passed(o) <=> cellar[look.keg] = 0 \/ cellar[look.keg] > look.build
            /\ Passed(o)' <=> cellar'[look.keg] = 0 \/ cellar'[look.keg] > look.build
        BY <1>1, <1>3, <3>2 DEF Passed, Gone
      <4>2. Now(o) = look => cellar[look.keg] = look.build /\ upgrade.keg = look.keg
        BY <3>2 DEF Now, Running
      <4>3. upgrade.keg = look.keg /\ cellar'[look.keg] = cellar[look.keg] => Now(o)' = Now(o)
        BY <1>3, <3>2 DEF Now, Running
      <4> QED
        BY <1>2, <4>1, <4>2, <4>3, GoneStays
    <3>3. CASE o = "stable" \/ (o = "binary" /\ upgrade.linked)
      <4>1. /\ Passed(o) <=> cellar[opt] > look.build
            /\ Passed(o)' <=> cellar'[opt'] > look.build
        BY <1>1, <1>3, <3>3 DEF Passed, Newer
      <4>2. Now(o) = look => cellar[opt] = look.build
        BY <3>3 DEF Now, Running
      <4>3. opt' = opt /\ cellar'[opt'] = cellar[opt] => Now(o)' = Now(o)
        BY <1>3, <3>3 DEF Now, Running
      <4> QED
        BY <1>2, <1>7, <4>1, <4>2, <4>3, NewerStays
    <3> QED
      BY <3>1, <3>2, <3>3, Values
  <2>3. Now(o)' = upgrade'.seen[o] \/ Passed(o)'
    BY <1>3, <2>1, <2>2
  <2> QED
    BY <1>4, <2>2, <2>3 DEF SeenOK
<1> QED
  BY <1>6, <1>7

(* What package managers do keeps the invariant.                           *)
LEMMA FilesMoveKeepsInv ==
  ASSUME BrewInv, FilesMove, SameUpgrade, BrewTypeOK', FilesOK'
  PROVE  BrewInv'
<1>1. BrewTypeOK
  BY DEF BrewInv
<1>2. upgrade'.next = upgrade.next /\ upgrade.next \in 1..21
  BY <1>1, Types DEF SameUpgrade
<1>3. ASSUME NEW o \in Objects
      PROVE  /\ Looked(o)' <=> Looked(o)
             /\ Checked(o)' <=> Checked(o)
  BY <1>2 DEF Looked, Checked
<1>4. ASSUME NEW o \in Objects, Looked(o)
      PROVE  SeenOK(o)' /\ (upgrade'.wentBack \/ (Passed(o) => Passed(o)'))
  <2>1. SeenOK(o)
    BY <1>4 DEF BrewInv
  <2> QED
    BY <1>1, <2>1, SeenStays
<1>5. upgrade.next > 1 => Looked("binary")
  BY DEF Looked
<1>6. PICK look \in Look : look = upgrade.seen["binary"]
  BY <1>1, Values DEF BrewTypeOK
<1>7. look.keg \in Kegs /\ look.build \in Nat /\ upgrade'.seen["binary"] = look
  BY <1>1, <1>6, Types, Values DEF SameUpgrade
<1>8. /\ Gone(upgrade.seen["binary"]) <=> cellar[look.keg] = 0 \/ cellar[look.keg] > look.build
      /\ Gone(upgrade.seen["binary"])' <=> cellar'[look.keg] = 0 \/ cellar'[look.keg] > look.build
  BY <1>6, <1>7 DEF Gone
<1>9. Looked("binary") => look.build <= written
  BY <1>6, Values DEF BrewInv, SeenOK
<1>10. Looked("binary")' => BinaryOK'
  <2>1. Looked("binary") =>
          cellar[look.keg] = look.build \/ cellar[look.keg] = 0 \/ cellar[look.keg] > look.build
    BY <1>6, <1>8 DEF BrewInv, BinaryOK
  <2>2. Looked("binary") =>
          cellar'[look.keg] = look.build \/ cellar'[look.keg] = 0 \/ cellar'[look.keg] > look.build
    BY <1>1, <1>7, <1>9, <2>1, GoneStays
  <2> QED
    BY <1>3, <1>7, <1>8, <2>2, Values DEF BinaryOK
<1>11. upgrade'.next \in 5..16 => VersionOK'
  <2>1. Looked("binary") /\ Gone(upgrade.seen["binary"]) => Gone(upgrade.seen["binary"])'
    BY <1>1, <1>7, <1>8, <1>9, GoneStays
  <2>2. upgrade'.version = upgrade.version /\ upgrade'.seen = upgrade.seen
    BY DEF SameUpgrade
  <2> QED
    BY <1>2, <1>5, <2>1, <2>2 DEF BrewInv, VersionOK
<1>12. upgrade'.next \in 5..16 /\ ~upgrade'.wentBack => \A o \in Objects : MomentOK(o)'
  <2> SUFFICES ASSUME upgrade.next \in 5..16, ~upgrade'.wentBack, NEW o \in Objects
               PROVE  MomentOK(o)'
    BY <1>2
  <2>1. MomentOK(o) /\ Looked(o)
    BY DEF BrewInv, FilesMove, Looked
  <2>2. upgrade'.moment = upgrade.moment /\ upgrade'.seen = upgrade.seen
    BY DEF SameUpgrade
  <2> QED
    BY <1>3, <1>4, <2>1, <2>2 DEF MomentOK
<1>13. PICK b \in Look : b = upgrade.candidate
  BY <1>1 DEF BrewTypeOK
<1>14. b.keg \in Kegs /\ b.build \in Nat /\ upgrade'.candidate = b
  BY <1>1, <1>13, Types DEF SameUpgrade
<1>15. /\ Newer(upgrade.candidate) <=> cellar[opt] > b.build
       /\ Newer(upgrade.candidate)' <=> cellar'[opt'] > b.build
  BY <1>13, <1>14 DEF Newer
<1>16. upgrade.next > 17 =>
         /\ b.build # 0 /\ b.build <= written
         /\ upgrade'.wentBack \/ (Newer(upgrade.candidate) => Newer(upgrade.candidate)')
  <2>1. upgrade.next > 17 => b.build # 0 /\ b.build <= written
    BY <1>13 DEF BrewInv, CandidateOK
  <2> QED
    BY <1>1, <1>14, <1>15, <2>1, NewerStays
<1>17. upgrade'.next > 17 => CandidateOK'
  <2> SUFFICES ASSUME upgrade.next > 17 PROVE CandidateOK'
    BY <1>2
  <2>1. b.build # 0 /\ b.build <= written'
    BY <1>1, <1>14, <1>16, Types DEF FilesMove
  <2>2. ASSUME ~upgrade'.wentBack PROVE Now("stable")' = b \/ Newer(upgrade.candidate)'
    <3>1. Now("stable") = b \/ Newer(upgrade.candidate)
      BY <1>13, <2>2 DEF BrewInv, CandidateOK, FilesMove
    <3>2. Now("stable") = b => cellar[opt] = b.build
      BY DEF Now
    <3>3. opt' = opt /\ cellar'[opt'] = cellar[opt] => Now("stable")' = Now("stable")
      BY DEF Now
    <3>4. CASE Newer(upgrade.candidate)
      BY <1>16, <2>2, <3>4
    <3>5. CASE Now("stable") = b
      BY <1>1, <1>14, <1>15, <1>16, <2>2, <3>2, <3>3, <3>5, NewerStays
    <3> QED
      BY <3>1, <3>4, <3>5
  <2> QED
    BY <1>14, <2>1, <2>2 DEF CandidateOK
<1>18. upgrade'.next > 18 /\ ~upgrade'.wentBack => ReportOK'
  <2>1. upgrade'.moment = upgrade.moment /\ upgrade'.version = upgrade.version
        /\ upgrade'.candidate = upgrade.candidate
    BY DEF SameUpgrade
  <2>2. upgrade.next > 18 => upgrade.next > 17
    BY <1>2
  <2> QED
    BY <1>2, <1>16, <2>1, <2>2 DEF BrewInv, ReportOK, FilesMove
<1> QED
  BY <1>3, <1>4, <1>10, <1>11, <1>12, <1>17, <1>18 DEF BrewInv

-----------------------------------------------------------------------------
(* Package managers.                                                       *)

LEMMA InvFiles ==
  ASSUME BrewInv,
         \/ UpdateBrew
         \/ \E k \in Kegs : Pour(k) \/ Link(k) \/ Uninstall(k)
  PROVE  BrewInv'
<1>1. BrewTypeOK /\ FilesOK
  BY DEF BrewInv
<1>2. /\ cellar \in [Kegs -> Builds] /\ opt \in Kegs /\ brew \in Builds /\ written \in Builds
      /\ upgrade.wentBack \in BOOLEAN
  BY <1>1 DEF BrewTypeOK
<1>3. Builds = 0..MaxBuild /\ MaxBuild \in Nat /\ Builds \subseteq Nat
  BY Values DEF Builds
<1>4. SUFFICES /\ FilesMove /\ SameUpgrade /\ FilesOK'
               /\ cellar' \in [Kegs -> Builds] /\ opt' \in Kegs /\ brew' \in Builds
               /\ written' \in Builds
               /\ upgrade' = upgrade
                  \/ \E w \in BOOLEAN : upgrade' = [upgrade EXCEPT !.wentBack = w]
  <2>1. BrewTypeOK'
    BY <1>1, <1>4 DEF BrewTypeOK
  <2> QED
    BY <1>4, <2>1, FilesMoveKeepsInv
<1>5. CASE UpdateBrew
  <2>1. /\ cellar' = cellar /\ opt' = opt /\ upgrade' = upgrade
        /\ brew' = written + 1 /\ written' = written + 1 /\ written < MaxBuild
    BY <1>5 DEF UpdateBrew, WriteFile
  <2>2. FilesMove /\ SameUpgrade
    BY <1>2, <1>3, <2>1 DEF FilesMove, SameUpgrade
  <2>3. FilesOK'
    BY <1>1, <1>2, <1>3, <2>1 DEF FilesOK
  <2> QED
    BY <1>2, <1>3, <2>1, <2>2, <2>3
<1>6. CASE \E k \in Kegs : Pour(k)
  <2>1. PICK k \in Kegs : Pour(k)
    BY <1>6
  <2>2. /\ cellar' = [cellar EXCEPT ![k] = written + 1] /\ opt' = opt /\ upgrade' = upgrade
        /\ brew' = brew /\ written' = written + 1 /\ written < MaxBuild
    BY <2>1 DEF Pour, WriteFile
  <2>3. \A j \in Kegs : cellar'[j] = IF j = k THEN written + 1 ELSE cellar[j]
    BY <1>2, <2>2
  <2>4. cellar' \in [Kegs -> Builds] /\ written' \in Builds
    BY <1>2, <1>3, <2>2
  <2>5. FilesMove /\ SameUpgrade
    <3>1. \A j \in Kegs : cellar'[j] = cellar[j] \/ cellar'[j] = 0 \/ cellar'[j] > written
      BY <1>2, <1>3, <2>3
    <3>2. (opt' = opt /\ cellar'[opt] = cellar[opt]) \/ cellar'[opt'] > cellar[opt]
      BY <1>1, <1>2, <1>3, <2>2, <2>3 DEF FilesOK
    <3> QED
      BY <1>2, <1>3, <2>2, <2>4, <3>1, <3>2 DEF FilesMove, SameUpgrade
  <2>6. FilesOK'
    <3>1. brew' # 0 /\ brew' <= written' /\ cellar'[opt'] # 0
      BY <1>1, <1>2, <1>3, <2>2, <2>3 DEF FilesOK
    <3>2. \A j \in Kegs : cellar'[j] <= written'
      BY <1>1, <1>2, <1>3, <2>2, <2>3 DEF FilesOK
    <3>3. ASSUME NEW i \in Kegs, NEW j \in Kegs, i # j, cellar'[i] = cellar'[j]
          PROVE  cellar'[j] = 0
      BY <1>1, <1>2, <1>3, <2>3, <3>3 DEF FilesOK
    <3> QED
      BY <3>1, <3>2, <3>3 DEF FilesOK
  <2> QED
    BY <1>2, <2>2, <2>4, <2>5, <2>6
<1>7. CASE \E k \in Kegs : Link(k)
  <2>1. PICK k \in Kegs : Link(k)
    BY <1>7
  <2>2. PICK w \in BOOLEAN : w <=> (upgrade.wentBack \/ cellar[k] < cellar[opt])
    OBVIOUS
  <2>3. /\ cellar' = cellar /\ opt' = k /\ k # opt /\ cellar[k] # 0
        /\ brew' = brew /\ written' = written
    BY <2>1 DEF Link
  <2>4. upgrade' = [upgrade EXCEPT !.wentBack = upgrade.wentBack \/ cellar[k] < cellar[opt]]
    BY <2>1 DEF Link
  <2>5. upgrade' = [upgrade EXCEPT !.wentBack = w]
    BY <1>2, <2>2, <2>4
  <2>6. upgrade'.wentBack = w
    BY <1>1, <2>5 DEF BrewTypeOK
  <2>7. SameUpgrade
    BY <1>1, <2>5 DEF SameUpgrade, BrewTypeOK
  <2>8. FilesOK'
    BY <1>1, <2>3 DEF FilesOK
  <2>9. w \/ cellar'[opt'] > cellar[opt]
    BY <1>1, <1>2, <1>3, <2>2, <2>3 DEF FilesOK
  <2>10. FilesMove
    <3>1. /\ cellar' \in [Kegs -> Nat] /\ opt' \in Kegs /\ brew' \in Nat /\ written' \in Nat
          /\ written <= written' /\ \A j \in Kegs : cellar'[j] = cellar[j]
      BY <1>2, <1>3, <2>3
    <3>2. upgrade.wentBack => upgrade'.wentBack
      BY <2>2, <2>6
    <3> QED
      BY <2>3, <2>6, <2>9, <3>1, <3>2 DEF FilesMove
  <2> QED
    BY <1>2, <2>3, <2>5, <2>7, <2>8, <2>10
<1>8. CASE \E k \in Kegs : Uninstall(k)
  <2>1. PICK k \in Kegs : Uninstall(k)
    BY <1>8
  <2>2. /\ cellar' = [cellar EXCEPT ![k] = 0] /\ k # opt /\ opt' = opt /\ upgrade' = upgrade
        /\ brew' = brew /\ written' = written
    BY <2>1 DEF Uninstall
  <2>3. \A j \in Kegs : cellar'[j] = IF j = k THEN 0 ELSE cellar[j]
    BY <1>2, <2>2
  <2>4. cellar' \in [Kegs -> Builds]
    BY <1>2, <1>3, <2>2
  <2>5. FilesMove /\ SameUpgrade
    BY <1>2, <1>3, <2>2, <2>3, <2>4 DEF FilesMove, SameUpgrade
  <2>6. FilesOK'
    BY <1>1, <1>2, <1>3, <2>2, <2>3 DEF FilesOK
  <2> QED
    BY <1>2, <2>2, <2>4, <2>5, <2>6
<1> QED
  BY <1>5, <1>6, <1>7, <1>8

-----------------------------------------------------------------------------
(* The steps of the upgrade.                                               *)

SameFiles ==
    /\ cellar' = cellar /\ opt' = opt /\ brew' = brew /\ written' = written
    /\ upgrade'.keg = upgrade.keg /\ upgrade'.linked = upgrade.linked
    /\ upgrade'.wentBack = upgrade.wentBack

LEMMA SameNow ==
  ASSUME SameFiles, NEW o
  PROVE  Now(o)' = Now(o)
BY DEF SameFiles, Now, Running

LEMMA SamePassed ==
  ASSUME SameFiles, NEW o \in Objects, upgrade'.seen[o] = upgrade.seen[o]
  PROVE  /\ Passed(o)' <=> Passed(o)
         /\ SeenOK(o)' <=> SeenOK(o)
<1>1. Passed(o)' <=> Passed(o)
  <2>1. PICK look : look = upgrade.seen[o] /\ look = upgrade'.seen[o]
    OBVIOUS
  <2>2. /\ Gone(upgrade.seen[o])' <=> Gone(upgrade.seen[o])
        /\ Newer(upgrade.seen[o])' <=> Newer(upgrade.seen[o])
    BY <2>1 DEF SameFiles, Gone, Newer
  <2> QED
    BY <2>1, <2>2 DEF SameFiles, Passed
<1>2. Now(o)' = Now(o)
  BY SameNow
<1> QED
  BY <1>1, <1>2 DEF SameFiles, SeenOK

LEMMA NowInLook ==
  ASSUME BrewTypeOK, NEW o
  PROVE  Now(o) \in Look
<1>1. Running \in Kegs /\ Nowhere \in Look
  BY Values, RunningIsKeg
<1>2. cellar[Running] \in Builds /\ cellar[opt] \in Builds /\ opt \in Kegs /\ brew \in Builds
  BY <1>1 DEF BrewTypeOK
<1> QED
  BY <1>1, <1>2 DEF Now, Look

(* What is now as it was seen has not passed.                              *)
LEMMA NotPassed ==
  ASSUME BrewInv, NEW o \in Objects, Looked(o), Now(o) = upgrade.seen[o]
  PROVE  ~Passed(o) /\ (o = "binary" => ~Gone(upgrade.seen[o]))
<1>1. PICK look \in Look : look = upgrade.seen[o]
  BY DEF BrewInv, BrewTypeOK
<1>2. look.keg \in Kegs /\ look.build \in Nat /\ look.build # 0
  BY <1>1, Types DEF BrewInv, SeenOK
<1>3. CASE o = "manager"
  <2>1. brew = look.build
    BY <1>1, <1>3 DEF Now, Nowhere
  <2> QED
    BY <1>1, <1>2, <1>3, <2>1 DEF Passed
<1>4. CASE o = "binary"
  <2>1. Running = look.keg /\ cellar[look.keg] = look.build
    BY <1>1, <1>4 DEF Now
  <2>2. ~Gone(look)
    BY <1>2, <2>1 DEF Gone
  <2>3. upgrade.linked => ~Newer(look)
    BY <1>2, <2>1 DEF Newer, Running
  <2> QED
    BY <1>1, <1>4, <2>2, <2>3 DEF Passed
<1>5. CASE o = "stable"
  <2>1. cellar[opt] = look.build
    BY <1>1, <1>5 DEF Now
  <2> QED
    BY <1>1, <1>2, <1>5, <2>1 DEF Passed, Newer
<1> QED
  BY <1>3, <1>4, <1>5, Values

(* A step that only goes on, from one that checks or asks.                 *)
LEMMA GoesOn ==
  ASSUME BrewInv, SameFiles, BrewTypeOK',
         upgrade'.seen = upgrade.seen, upgrade'.candidate = upgrade.candidate,
         upgrade'.version = upgrade.version, upgrade'.moment = upgrade.moment,
         upgrade'.next = upgrade.next \/ upgrade'.next = upgrade.next + 1,
         upgrade'.next = upgrade.next
         \/ upgrade.next \in 5..11 \/ upgrade.next \in 13..16 \/ upgrade.next \in 19..20,
         \A o \in Objects :
            Checked(o)' => Checked(o) \/ (Looked(o) /\ Now(o) = upgrade.seen[o]),
         upgrade.next = 5 /\ upgrade'.next # 5 => Now("binary") = upgrade.seen["binary"],
         upgrade.next = 19 /\ upgrade'.next # 19 => Now("stable") = upgrade.candidate
  PROVE  BrewInv'
<1>1. BrewTypeOK /\ upgrade.next \in 1..21 /\ upgrade'.next \in 1..21
  BY Types DEF BrewInv
<1>2. FilesOK'
  BY DEF BrewInv, FilesOK, SameFiles
<1>3. ASSUME NEW o \in Objects, Looked(o)' PROVE Looked(o)
  BY <1>1, <1>3 DEF Looked
<1>4. ASSUME NEW o \in Objects, Looked(o)' PROVE SeenOK(o)'
  BY <1>3, <1>4, SamePassed DEF BrewInv
<1>5. Gone(upgrade.seen["binary"])' <=> Gone(upgrade.seen["binary"])
  <2>1. PICK look : look = upgrade.seen["binary"] /\ look = upgrade'.seen["binary"]
    OBVIOUS
  <2> QED
    BY <2>1 DEF Gone, SameFiles
<1>6. Looked("binary")' => BinaryOK'
  BY <1>3, <1>5, Values DEF BrewInv, BinaryOK, SameFiles
<1>7. upgrade'.next \in 5..16 => upgrade.next \in 5..16
  BY <1>1
<1>8. upgrade'.next \in 5..16 => VersionOK'
  <2>1. upgrade.next = 5 /\ upgrade'.next # 5 => ~Gone(upgrade.seen["binary"])
    BY NotPassed, Values DEF Looked
  <2>2. upgrade'.next > 5 => upgrade.next > 5 \/ (upgrade.next = 5 /\ upgrade'.next # 5)
    BY <1>1
  <2> QED
    BY <1>5, <1>7, <2>1, <2>2 DEF BrewInv, VersionOK
<1>9. upgrade'.next \in 5..16 /\ ~upgrade'.wentBack => \A o \in Objects : MomentOK(o)'
  <2> SUFFICES ASSUME upgrade'.next \in 5..16, ~upgrade'.wentBack, NEW o \in Objects
               PROVE  MomentOK(o)'
    OBVIOUS
  <2>1. MomentOK(o)
    BY <1>7 DEF BrewInv, SameFiles
  <2>2. Passed(o)' <=> Passed(o)
    BY SamePassed
  <2>3. Checked(o)' => upgrade.moment[o] = upgrade.seen[o]
    BY <2>1, NotPassed DEF MomentOK
  <2> QED
    BY <2>1, <2>2, <2>3 DEF MomentOK
<1>10. Newer(upgrade.candidate)' <=> Newer(upgrade.candidate)
  BY DEF Newer, SameFiles
<1>11. upgrade'.next > 17 => CandidateOK'
  <2>1. upgrade'.next > 17 => upgrade.next > 17
    BY <1>1
  <2>2. Now("stable")' = Now("stable")
    BY SameNow
  <2> QED
    BY <1>10, <2>1, <2>2 DEF BrewInv, CandidateOK, SameFiles
<1>12. upgrade'.next > 18 /\ ~upgrade'.wentBack => ReportOK'
  <2>1. upgrade'.next > 18 => upgrade.next > 18
    BY <1>1
  <2>2. upgrade'.next > 19 => upgrade.next > 19 \/ (upgrade.next = 19 /\ upgrade'.next # 19)
    BY <1>1
  <2>3. upgrade.next = 19 /\ upgrade'.next # 19 => ~Newer(upgrade.candidate)
    <3>1. Now("stable") = upgrade.candidate => cellar[opt] = upgrade.candidate.build
      BY DEF Now
    <3> QED
      BY <1>1, <3>1, Types DEF Newer
  <2> QED
    BY <1>10, <2>1, <2>2, <2>3 DEF BrewInv, ReportOK, SameFiles
<1> QED
  BY <1>2, <1>4, <1>6, <1>8, <1>9, <1>11, <1>12 DEF BrewInv

LEMMA GoesTyped ==
  ASSUME BrewTypeOK, NEW kind, Doing(kind), UNCHANGED <<cellar, opt, brew, written>>,
         NEW seen \in [Objects -> Look], NEW candidate \in Look, NEW version \in Builds,
         NEW moment \in [Objects -> Look],
         upgrade' = [upgrade EXCEPT !.seen = seen, !.candidate = candidate,
                                    !.version = version, !.moment = moment,
                                    !.next = upgrade.next + 1]
  PROVE  /\ BrewTypeOK' /\ SameFiles
         /\ upgrade'.next = upgrade.next + 1 /\ upgrade'.seen = seen
         /\ upgrade'.candidate = candidate /\ upgrade'.version = version
         /\ upgrade'.moment = moment
<1>1. upgrade \in [next : 1..Len(Script) + 1, keg : Kegs, linked : BOOLEAN,
                   seen : [Objects -> Look], candidate : Look, version : Builds,
                   moment : [Objects -> Look], wentBack : BOOLEAN, failed : BOOLEAN]
  BY DEF BrewTypeOK
<1>2. upgrade.next + 1 \in 1..Len(Script) + 1
  BY StepIs, ScriptLength
<1>3. upgrade' \in [next : 1..Len(Script) + 1, keg : Kegs, linked : BOOLEAN,
                    seen : [Objects -> Look], candidate : Look, version : Builds,
                    moment : [Objects -> Look], wentBack : BOOLEAN, failed : BOOLEAN]
  BY <1>1, <1>2
<1>4. BrewTypeOK'
  BY <1>3 DEF BrewTypeOK
<1> QED
  BY <1>1, <1>4 DEF SameFiles

LEMMA InvGoesOn ==
  ASSUME BrewInv, GiveUpUpgrade \/ CheckObject \/ Confirm \/ RunBrew \/ ReportUpgrade
  PROVE  BrewInv'
<1>1. BrewTypeOK /\ upgrade.next \in 1..21
  BY Types DEF BrewInv
<1>2. CASE GiveUpUpgrade
  <2>1. PICK failed \in BOOLEAN : upgrade' = [upgrade EXCEPT !.failed = failed]
    BY <1>2 DEF GiveUpUpgrade
  <2>2. BrewTypeOK'
    BY <1>1, <1>2, <2>1 DEF GiveUpUpgrade, BrewTypeOK
  <2>3. /\ SameFiles /\ upgrade'.seen = upgrade.seen /\ upgrade'.candidate = upgrade.candidate
        /\ upgrade'.version = upgrade.version /\ upgrade'.moment = upgrade.moment
        /\ upgrade'.next = upgrade.next
    BY <1>1, <1>2, <2>1 DEF GiveUpUpgrade, BrewTypeOK, SameFiles
  <2>4. \A o \in Objects : Checked(o)' => Checked(o)
    BY <2>3 DEF Checked
  <2> QED
    BY <2>2, <2>3, <2>4, GoesOn
<1>3. CASE CheckObject \/ Confirm \/ RunBrew \/ ReportUpgrade
  <2>1. PICK kind \in {"check", "ask", "run", "report"} :
          /\ Doing(kind) /\ UNCHANGED <<cellar, opt, brew, written>>
          /\ upgrade' = [upgrade EXCEPT !.next = upgrade.next + 1]
          /\ kind = "check" =>
               Now(Object) = IF Object = "candidate" THEN upgrade.candidate ELSE upgrade.seen[Object]
    BY <1>3 DEF CheckObject, Confirm, RunBrew, ReportUpgrade, Goes
  <2>2. /\ upgrade.seen \in [Objects -> Look] /\ upgrade.candidate \in Look
        /\ upgrade.version \in Builds /\ upgrade.moment \in [Objects -> Look]
    BY <1>1 DEF BrewTypeOK
  <2>3. upgrade' = [upgrade EXCEPT !.seen = upgrade.seen, !.candidate = upgrade.candidate,
                      !.version = upgrade.version, !.moment = upgrade.moment,
                      !.next = upgrade.next + 1]
    BY <1>1, <2>1 DEF BrewTypeOK
  <2>4. /\ BrewTypeOK' /\ SameFiles /\ upgrade'.next = upgrade.next + 1
        /\ upgrade'.seen = upgrade.seen /\ upgrade'.candidate = upgrade.candidate
        /\ upgrade'.version = upgrade.version /\ upgrade'.moment = upgrade.moment
    <3>1. PICK seen \in [Objects -> Look], candidate \in Look, version \in Builds,
               moment \in [Objects -> Look] :
            /\ seen = upgrade.seen /\ candidate = upgrade.candidate
            /\ version = upgrade.version /\ moment = upgrade.moment
      BY <2>2
    <3>2. upgrade' = [upgrade EXCEPT !.seen = seen, !.candidate = candidate,
                        !.version = version, !.moment = moment, !.next = upgrade.next + 1]
      BY <2>3, <3>1
    <3>3. Doing(kind) /\ UNCHANGED <<cellar, opt, brew, written>>
      BY <2>1
    <3>4. /\ BrewTypeOK' /\ SameFiles
          /\ upgrade'.next = upgrade.next + 1 /\ upgrade'.seen = seen
          /\ upgrade'.candidate = candidate /\ upgrade'.version = version
          /\ upgrade'.moment = moment
      BY <1>1, <3>2, <3>3, GoesTyped
    <3> QED
      BY <3>1, <3>4
  <2>5. \/ upgrade.next \in {5, 9, 13} /\ Now("binary") = upgrade.seen["binary"]
        \/ upgrade.next \in {6, 10, 14} /\ Now("manager") = upgrade.seen["manager"]
        \/ upgrade.next \in {7, 11, 15} /\ Now("stable") = upgrade.seen["stable"]
        \/ upgrade.next = 19 /\ Now("candidate") = upgrade.candidate
        \/ upgrade.next \in {8, 16, 20}
    BY <2>1, StepIs
  <2>6. ASSUME NEW o \in Objects, Checked(o)'
        PROVE  Checked(o) \/ (Looked(o) /\ Now(o) = upgrade.seen[o])
    <3>1. CASE o = "binary"
      BY <2>4, <2>5, <2>6, <3>1 DEF Checked, Looked
    <3>2. CASE o = "manager"
      BY <2>4, <2>5, <2>6, <3>2 DEF Checked, Looked
    <3>3. CASE o = "stable"
      BY <2>4, <2>5, <2>6, <3>3 DEF Checked, Looked
    <3> QED
      BY <3>1, <3>2, <3>3, Values
  <2>7. Now("candidate") = Now("stable")
    BY DEF Now
  <2>8. /\ upgrade.next = 5 => Now("binary") = upgrade.seen["binary"]
        /\ upgrade.next = 19 => Now("stable") = upgrade.candidate
        /\ upgrade.next \in 5..11 \/ upgrade.next \in 13..16 \/ upgrade.next \in 19..20
    BY <2>5, <2>7
  <2> QED
    BY <2>4, <2>6, <2>8, GoesOn
<1> QED
  BY <1>2, <1>3

LEMMA InvSeeObject ==
  ASSUME BrewInv, SeeObject
  PROVE  BrewInv'
<1>1. BrewTypeOK /\ upgrade.next \in 1..21
  BY Types DEF BrewInv
<1>2. Doing("see") /\ UNCHANGED <<cellar, opt, brew, written>> /\ Now(Object).build # 0
  BY DEF SeeObject, Readable
<1>3. PICK look \in Look : look = Now(Object)
  BY <1>1, NowInLook
<1>4. /\ upgrade.seen \in [Objects -> Look] /\ upgrade.candidate \in Look
      /\ upgrade.version \in Builds /\ upgrade.moment \in [Objects -> Look]
  BY <1>1 DEF BrewTypeOK
<1>5. PICK seen \in [Objects -> Look], candidate \in Look, version \in Builds,
           moment \in [Objects -> Look] :
        /\ IF Object = "candidate" THEN seen = upgrade.seen /\ candidate = look
           ELSE seen = [upgrade.seen EXCEPT ![Object] = look] /\ candidate = upgrade.candidate
        /\ version = upgrade.version /\ moment = upgrade.moment
  BY <1>3, <1>4
<1>6. upgrade' = [upgrade EXCEPT !.seen = seen, !.candidate = candidate,
                    !.version = version, !.moment = moment, !.next = upgrade.next + 1]
  <2>1. CASE Object = "candidate"
    BY <1>1, <1>3, <1>4, <1>5, <2>1 DEF SeeObject, Goes, BrewTypeOK
  <2>2. CASE Object # "candidate"
    BY <1>1, <1>3, <1>4, <1>5, <2>2 DEF SeeObject, Goes, BrewTypeOK
  <2> QED
    BY <2>1, <2>2
<1>7. /\ BrewTypeOK' /\ SameFiles /\ upgrade'.next = upgrade.next + 1
      /\ upgrade'.seen = seen /\ upgrade'.candidate = candidate
      /\ upgrade'.version = version /\ upgrade'.moment = moment
  BY <1>1, <1>2, <1>6, GoesTyped
<1>8. FilesOK'
  BY <1>2 DEF BrewInv, FilesOK
<1>9. \/ upgrade.next = 1 /\ Object = "binary"
      \/ upgrade.next = 2 /\ Object = "manager"
      \/ upgrade.next = 3 /\ Object = "stable"
      \/ upgrade.next = 17 /\ Object = "candidate"
  BY <1>2, StepIs
<1>10. upgrade'.next \in {2, 3, 4, 18}
  BY <1>7, <1>9
<1>11. look.build # 0 /\ look.build <= written /\ look.build \in Nat
  <2>1. Running \in Kegs
    BY <1>1, RunningIsKeg
  <2>2. cellar[Running] <= written /\ cellar[opt] <= written /\ brew <= written
    BY <1>1, <2>1, Types DEF BrewInv, FilesOK
  <2>3. Now(Object).build <= written
    BY <1>9, <2>2, Values DEF Now, Nowhere, Look
  <2>4. look.build \in Builds
    BY <1>3 DEF Look
  <2> QED
    BY <1>2, <1>3, <2>3, <2>4, Values DEF Builds
<1>12. ASSUME NEW o \in Objects, Looked(o)' PROVE SeenOK(o)'
  <2>1. CASE o = Object
    <3>1. upgrade'.seen[o] = look /\ Object # "candidate"
      BY <1>4, <1>5, <1>7, <2>1, Values
    <3>2. Now(o)' = look
      BY <1>3, <1>7, <2>1, SameNow
    <3>3. o = "binary" /\ ~upgrade'.linked => look.keg = upgrade'.keg
      BY <1>3, <1>7, <2>1 DEF Now, Running, SameFiles
    <3> QED
      BY <1>11, <1>7, <3>1, <3>2, <3>3 DEF SeenOK, SameFiles
  <2>2. CASE o # Object
    <3>1. Looked(o)
      BY <1>7, <1>9, <1>12, <2>2, Values DEF Looked
    <3>2. upgrade'.seen[o] = upgrade.seen[o]
      BY <1>4, <1>5, <1>7, <2>2
    <3> QED
      BY <1>7, <3>1, <3>2, SamePassed DEF BrewInv
  <2> QED
    BY <2>1, <2>2
<1>13. BinaryOK'
  <2>1. CASE Object = "binary"
    <3>1. upgrade'.seen["binary"] = look
      BY <1>4, <1>5, <1>7, <2>1, Values
    <3>2. cellar[look.keg] = look.build
      BY <1>3, <2>1 DEF Now
    <3> QED
      BY <1>7, <3>1, <3>2 DEF BinaryOK, SameFiles
  <2>2. CASE Object # "binary"
    <3>1. BinaryOK
      BY <1>9, <2>2 DEF BrewInv, Looked
    <3>2. PICK b : b = upgrade.seen["binary"] /\ b = upgrade'.seen["binary"]
      BY <1>4, <1>5, <1>7, <2>2, Values
    <3> QED
      BY <1>7, <3>1, <3>2 DEF BinaryOK, SameFiles, Gone
  <2> QED
    BY <2>1, <2>2
<1>14. upgrade'.next > 17 => CandidateOK'
  <2>1. upgrade'.next > 17 => Object = "candidate"
    BY <1>7, <1>9
  <2>2. Now("candidate")' = Now("stable")' /\ Now("candidate")' = Now("candidate")
    BY <1>7, SameNow DEF Now
  <2> QED
    BY <1>3, <1>5, <1>7, <1>11, <2>1, <2>2 DEF CandidateOK, SameFiles
<1> QED
  BY <1>7, <1>8, <1>10, <1>12, <1>13, <1>14 DEF BrewInv

LEMMA InvInspectProduct ==
  ASSUME BrewInv, InspectProduct \/ ProveManager
  PROVE  BrewInv'
<1>1. BrewTypeOK /\ upgrade.next \in 1..21 /\ cellar \in [Kegs -> Builds]
  BY Types DEF BrewInv, BrewTypeOK
<1>2. PICK kind : kind = IF Doing("prove") THEN "prove" ELSE "inspect"
  OBVIOUS
<1>3. Doing(kind) /\ UNCHANGED <<cellar, opt, brew, written>>
  BY <1>2 DEF InspectProduct, ProveManager
<1>4. \/ upgrade.next = 12 /\ kind = "prove" /\ ProveManager
      \/ upgrade.next = 4 /\ Object = "binary" /\ kind = "inspect" /\ InspectProduct
      \/ upgrade.next = 18 /\ Object = "candidate" /\ kind = "inspect" /\ InspectProduct
  <2>1. Doing("prove") => upgrade.next = 12
    BY StepIs
  <2>2. Doing("inspect") => \/ upgrade.next = 4 /\ Object = "binary"
                            \/ upgrade.next = 18 /\ Object = "candidate"
    BY StepIs
  <2>3. ProveManager => Doing("prove")
    BY DEF ProveManager
  <2>4. InspectProduct => Doing("inspect")
    BY DEF InspectProduct
  <2> QED
    BY <1>2, <2>1, <2>2, <2>3, <2>4
<1>5. PICK moment \in [Objects -> Look] : \A o \in Objects : moment[o] = Now(o)
  <2>1. \A o \in Objects : Now(o) \in Look
    BY <1>1, NowInLook
  <2>2. [o \in Objects |-> Now(o)] \in [Objects -> Look]
    BY <2>1
  <2> QED
    BY <2>2
<1>6. Everything = moment
  BY <1>5 DEF Everything
<1>7. PICK version \in Builds :
        version = IF upgrade.next = 12 THEN upgrade.version
                  ELSE IF upgrade.next = 4 THEN cellar[upgrade.seen["binary"].keg]
                  ELSE cellar[upgrade.candidate.keg]
  <2>1. /\ upgrade.seen["binary"].keg \in Kegs /\ upgrade.candidate.keg \in Kegs
        /\ upgrade.version \in Builds
    BY <1>1, Types, Values DEF BrewTypeOK
  <2> QED
    BY <1>1, <2>1
<1>8. PICK seen \in [Objects -> Look], candidate \in Look :
        seen = upgrade.seen /\ candidate = upgrade.candidate
  BY <1>1 DEF BrewTypeOK
<1>9. upgrade' = [upgrade EXCEPT !.seen = seen, !.candidate = candidate,
                    !.version = version, !.moment = moment, !.next = upgrade.next + 1]
  <2>1. CASE upgrade.next = 12
    <3>1. PICK u : u = [upgrade EXCEPT !.moment = moment]
      OBVIOUS
    <3>2. upgrade' = [u EXCEPT !.next = u.next + 1]
      BY <1>4, <1>6, <2>1, <3>1 DEF ProveManager, Goes
    <3> QED
      BY <1>1, <1>7, <1>8, <2>1, <3>1, <3>2 DEF BrewTypeOK
  <2>2. CASE upgrade.next = 4
    <3>1. PICK u : u = [upgrade EXCEPT !.version = version, !.moment = moment]
      OBVIOUS
    <3>2. upgrade' = [u EXCEPT !.next = u.next + 1]
      <4>1. PICK keg : keg = IF Object = "binary" THEN upgrade.seen["binary"].keg
                             ELSE upgrade.candidate.keg
        OBVIOUS
      <4>2. upgrade' = [[upgrade EXCEPT !.version = cellar[keg], !.moment = Everything]
                          EXCEPT !.next = @ + 1]
        BY <1>4, <2>2, <4>1 DEF InspectProduct, Goes
      <4>3. cellar[keg] = version
        BY <1>4, <1>7, <2>2, <4>1
      <4> QED
        BY <1>6, <3>1, <4>2, <4>3
    <3> QED
      BY <1>1, <1>8, <3>1, <3>2 DEF BrewTypeOK
  <2>3. CASE upgrade.next = 18
    <3>1. PICK u : u = [upgrade EXCEPT !.version = version, !.moment = moment]
      OBVIOUS
    <3>2. upgrade' = [u EXCEPT !.next = u.next + 1]
      <4>1. PICK keg : keg = IF Object = "binary" THEN upgrade.seen["binary"].keg
                             ELSE upgrade.candidate.keg
        OBVIOUS
      <4>2. upgrade' = [[upgrade EXCEPT !.version = cellar[keg], !.moment = Everything]
                          EXCEPT !.next = @ + 1]
        BY <1>4, <2>3, <4>1 DEF InspectProduct, Goes
      <4>3. cellar[keg] = version
        BY <1>4, <1>7, <2>3, <4>1
      <4> QED
        BY <1>6, <3>1, <4>2, <4>3
    <3> QED
      BY <1>1, <1>8, <3>1, <3>2 DEF BrewTypeOK
  <2> QED
    BY <1>4, <2>1, <2>2, <2>3
<1>10. /\ BrewTypeOK' /\ SameFiles /\ upgrade'.next = upgrade.next + 1
       /\ upgrade'.seen = seen /\ upgrade'.candidate = candidate
       /\ upgrade'.version = version /\ upgrade'.moment = moment
  BY <1>1, <1>3, <1>9, GoesTyped
<1>11. upgrade'.next \in {5, 13, 19}
  BY <1>4, <1>10
<1>12. FilesOK'
  BY <1>3 DEF BrewInv, FilesOK
<1>13. ASSUME NEW o \in Objects
       PROVE  /\ Looked(o) /\ SeenOK(o) /\ SeenOK(o)' /\ (Passed(o)' <=> Passed(o))
              /\ upgrade'.seen[o] = upgrade.seen[o]
  <2>1. Looked(o)
    BY <1>4 DEF Looked
  <2>2. SeenOK(o) /\ upgrade'.seen[o] = upgrade.seen[o]
    BY <1>8, <1>10, <2>1 DEF BrewInv
  <2> QED
    BY <1>10, <2>1, <2>2, SamePassed
<1>14. PICK b \in Look : b = upgrade.seen["binary"] /\ b = upgrade'.seen["binary"]
  BY <1>8, <1>10, Values
<1>15. Gone(upgrade.seen["binary"])' <=> Gone(upgrade.seen["binary"])
  BY <1>10, <1>14 DEF Gone, SameFiles
<1>16. BinaryOK /\ BinaryOK'
  <2>1. BinaryOK
    BY <1>13, Values DEF BrewInv
  <2> QED
    BY <1>10, <1>14, <1>15, <2>1 DEF BinaryOK, SameFiles
<1>17. upgrade'.next \in 5..16 => VersionOK'
  <2>1. CASE upgrade.next = 12
    <3>1. VersionOK /\ version = upgrade.version
      BY <1>7, <2>1 DEF BrewInv
    <3>2. upgrade.version = upgrade.seen["binary"].build
      BY <2>1, <3>1 DEF VersionOK
    <3> QED
      BY <1>10, <1>14, <3>1, <3>2 DEF VersionOK
  <2>2. CASE upgrade.next = 4
    <3>1. version = cellar[b.keg] /\ upgrade'.next = 5
      BY <1>7, <1>10, <1>14, <2>2
    <3> QED
      BY <1>10, <1>14, <1>15, <1>16, <3>1 DEF VersionOK, BinaryOK
  <2>3. CASE upgrade.next = 18
    BY <1>10, <2>3
  <2> QED
    BY <1>4, <2>1, <2>2, <2>3
<1>18. upgrade'.next \in 5..16 /\ ~upgrade'.wentBack => \A o \in Objects : MomentOK(o)'
  <2> SUFFICES ASSUME upgrade'.next \in 5..16, ~upgrade'.wentBack, NEW o \in Objects
               PROVE  MomentOK(o)'
    OBVIOUS
  <2>1. ~Checked(o)'
    BY <1>11 DEF Checked
  <2>2. Now(o) = upgrade.seen[o] \/ Passed(o)
    BY <1>10, <1>13 DEF SeenOK, SameFiles
  <2> QED
    BY <1>5, <1>10, <1>13, <2>1, <2>2 DEF MomentOK
<1>19. PICK c \in Look : c = upgrade.candidate /\ c = upgrade'.candidate
  BY <1>8, <1>10
<1>20. upgrade'.next > 17 => CandidateOK /\ CandidateOK'
  <2>1. upgrade'.next > 17 => CandidateOK
    BY <1>4, <1>10 DEF BrewInv
  <2>2. Now("stable")' = Now("stable")
    BY <1>10, SameNow
  <2> QED
    BY <1>10, <1>19, <2>1, <2>2 DEF CandidateOK, Newer, SameFiles
<1>21. upgrade'.next > 18 /\ ~upgrade'.wentBack => ReportOK'
  <2> SUFFICES ASSUME upgrade.next = 18, ~upgrade.wentBack PROVE ReportOK'
    BY <1>4, <1>10 DEF SameFiles
  <2>1. upgrade'.next = 19
    BY <1>10
  <2>2. Now("stable") = c \/ Newer(c)
    BY <1>19, <1>20, <2>1 DEF CandidateOK
  <2>3. Newer(upgrade.candidate)' <=> Newer(c)
    BY <1>10, <1>19 DEF Newer, SameFiles
  <2>4. Now("stable") = c => version = c.build
    BY <1>7, <1>19 DEF Now
  <2>5. moment["stable"] = Now("stable")
    BY <1>5, Values
  <2> QED
    BY <1>10, <1>19, <2>1, <2>2, <2>3, <2>4, <2>5 DEF ReportOK
<1> QED
  BY <1>10, <1>12, <1>13, <1>16, <1>17, <1>18, <1>20, <1>21 DEF BrewInv

-----------------------------------------------------------------------------
(* The theorems.                                                           *)

LEMMA BrewInvInit == BrewInit => BrewInv
<1> SUFFICES ASSUME BrewInit PROVE BrewInv
  OBVIOUS
<1>1. PICK linked \in BOOLEAN :
        upgrade = [next |-> 1, keg |-> opt, linked |-> linked, seen |-> NoLook,
                   candidate |-> Nowhere, version |-> 0, moment |-> NoLook,
                   wentBack |-> FALSE, failed |-> FALSE]
  BY DEF BrewInit
<1>2. opt \in Kegs /\ cellar = [k \in Kegs |-> IF k = opt THEN 1 ELSE 0] /\ brew = 1 /\ written = 1
  BY DEF BrewInit
<1>3. 0 \in Builds /\ 1 \in Builds
  BY BrewAssumption DEF Builds
<1>4. NoLook \in [Objects -> Look] /\ 1 \in 1..Len(Script) + 1
  BY Values, ScriptLength DEF NoLook
<1>5. BrewTypeOK
  <2>1. upgrade.wentBack = FALSE /\ upgrade.failed = FALSE
    BY <1>1
  <2>2. upgrade \in [next : 1..Len(Script) + 1, keg : Kegs, linked : BOOLEAN,
                     seen : [Objects -> Look], candidate : Look, version : Builds,
                     moment : [Objects -> Look], wentBack : BOOLEAN, failed : BOOLEAN]
    BY <1>1, <1>2, <1>3, <1>4, Values
  <2> QED
    BY <1>2, <1>3, <2>2 DEF BrewTypeOK
<1>6. FilesOK
  BY <1>2 DEF FilesOK
<1>7. upgrade.next = 1
  BY <1>1
<1> QED
  BY <1>5, <1>6, <1>7 DEF BrewInv, Looked

LEMMA BrewInvNext == BrewInv /\ [BrewNext]_brewVars => BrewInv'
<1> SUFFICES ASSUME BrewInv, [BrewNext]_brewVars PROVE BrewInv'
  OBVIOUS
<1>1. CASE UNCHANGED brewVars
  <2>1. UNCHANGED <<cellar, opt, brew, written, upgrade>>
    BY <1>1 DEF brewVars
  <2>2. BrewTypeOK' /\ SameFiles
    BY <2>1 DEF BrewInv, BrewTypeOK, SameFiles
  <2>3. \A o \in Objects : Checked(o)' => Checked(o)
    BY <2>1 DEF Checked
  <2> QED
    BY <2>1, <2>2, <2>3, GoesOn
<1>2. CASE BrewNext
  BY <1>2, InvFiles, InvGoesOn, InvSeeObject, InvInspectProduct DEF BrewNext
<1> QED
  BY <1>1, <1>2

(* However package managers change the kegs, the link and Homebrew, the    *)
(* upgrade keeps its types.                                                *)
THEOREM BrewTypeCorrect == BrewSpec => []BrewTypeOK
<1>1. BrewInv => BrewTypeOK
  BY DEF BrewInv
<1> QED
  BY <1>1, BrewInvInit, BrewInvNext, PTL DEF BrewSpec

(* For any kegs and any number of files written meanwhile: what is shown,  *)
(* confirmed and reported was all true at one moment, unless the link went *)
(* back to an older build (brewupgrade.Prepare, Plan.Apply).               *)
THEOREM ReviewsAreAlwaysTrue == BrewSpec => []ReviewsAreTrue
<1>1. BrewInv => ReviewsAreTrue
  <2> SUFFICES ASSUME BrewInv PROVE ReviewsAreTrue
    OBVIOUS
  <2>1. /\ Doing("ask") => upgrade.next = 8
        /\ Doing("run") => upgrade.next = 16
        /\ Doing("report") => upgrade.next = 20
    BY StepIs
  <2>2. Doing("ask") => upgrade.version = upgrade.seen["binary"].build
    BY <2>1 DEF BrewInv, VersionOK
  <2>3. ASSUME ~upgrade.wentBack, Doing("ask") \/ Doing("run") PROVE upgrade.moment = upgrade.seen
    <3>1. upgrade.next \in {8, 16}
      BY <2>1, <2>3
    <3>2. \A o \in Objects : MomentOK(o) /\ Checked(o)
      BY <2>3, <3>1 DEF BrewInv, Checked
    <3> QED
      BY <3>2 DEF MomentOK, BrewInv, BrewTypeOK
  <2>4. ASSUME ~upgrade.wentBack, Doing("report")
        PROVE  /\ upgrade.moment["stable"] = upgrade.candidate
               /\ upgrade.version = upgrade.candidate.build
    BY <2>1, <2>4 DEF BrewInv, ReportOK
  <2> QED
    BY <2>2, <2>3, <2>4 DEF ReviewsAreTrue
<1> QED
  BY <1>1, BrewInvInit, BrewInvNext, PTL DEF BrewSpec

-----------------------------------------------------------------------------
(* The stacks of ServerStack, for any directories, projects and commands.  *)
(*                                                                         *)
(* A directory is filled by one Init only: it was made by that Init, where *)
(* there was none, and nobody removes it meanwhile.  The receipt is moved  *)
(* last, so where there is one, in a copy too, everything else came from   *)
(* the same Init.  A command that has looked at resources either still     *)
(* finds them as it saw them, or a copy of its directory came in between.  *)

EmptyOK == \A d \in StackDirs, e \in Entries : ~tree[d].dir => tree[d].entry[e] = Missing

WholeOK ==
    \A d \in StackDirs, e \in Entries : tree[d].entry["stack.json"] # Missing =>
        tree[d].entry[e] \in {tree[d].entry["stack.json"], "edited"}

(* What an Init has moved, and not yet moved, into its directory.          *)
MoverOK(p) ==
    /\ "stack.json" \in init[p].staged /\ tree[init[p].dir].dir
    /\ \A e \in Entries : IF e \in init[p].staged
                          THEN tree[init[p].dir].entry[e] = Missing
                          ELSE tree[init[p].dir].entry[e] \in {p, "edited"}

PublishOK ==
    /\ \A p \in Projects : init[p].at = "staged" => init[p].staged = Entries
    /\ \A p \in Projects : init[p].at = "moving" => MoverOK(p)
    /\ \A p, q \in Projects :
         init[p].at = "moving" /\ init[q].at = "moving" /\ p # q => init[p].dir # init[q].dir

DirectoriesOK == EmptyOK /\ WholeOK /\ PublishOK

LifeOK(c) ==
    LET owned == engine[lifecycle[c].project] IN
    /\ lifecycle[c].at # "idle" => lifecycle[c].project \in Projects
    /\ lifecycle[c].at \in {"inspected", "ready"} /\ ~lifecycle[c].overtaken =>
         owned.containers \in {Missing, lifecycle[c].dir}
    /\ lifecycle[c].at = "ready" /\ ~lifecycle[c].overtaken =>
         owned.volumes \in {Missing, lifecycle[c].dir}

LifecyclesOK == \A c \in Lifecycles : LifeOK(c)

StackInv == StackTypeOK /\ DirectoriesOK /\ LifecyclesOK

-----------------------------------------------------------------------------
(* The types.                                                              *)

Mover == [at : {"idle", "staged", "moving", "made", "failed"},
          dir : StackDirs, staged : SUBSET Entries]
Owned == [containers : Owners, volumes : Owners]
Life == [at : {"idle", "loaded", "checked", "inspected", "ready"}, kind : {"up", "down"},
         dir : StackDirs, project : Projects \cup {Missing}, overtaken : BOOLEAN]

LEMMA Records ==
    /\ NoDirectory \in Directory /\ NoLifecycle \in Life
    /\ \A e \in Entries : NoDirectory.entry[e] = Missing
    /\ NoDirectory.dir = FALSE
    /\ NoLifecycle.at = "idle"
    /\ "stack.json" \in Entries /\ "compose.yaml" \in Entries
<1>1. SomeDir \in StackDirs BY ServerStackAssumption DEF SomeDir
<1>. QED BY <1>1 DEF NoDirectory, Directory, NoLifecycle, Life, Entries

LEMMA TypeInit == StackInit => StackTypeOK
<1>. SUFFICES ASSUME StackInit PROVE StackTypeOK OBVIOUS
<1>1. SomeDir \in StackDirs BY ServerStackAssumption DEF SomeDir
<1>2. tree \in [StackDirs -> Directory] BY Records DEF StackInit
<1>3. init \in [Projects -> Mover] BY <1>1 DEF StackInit, Mover
<1>4. engine \in [Projects -> Owned] BY DEF StackInit, Owned, Owners
<1>5. lifecycle \in [Lifecycles -> Life] BY Records DEF StackInit
<1>6. begun \in 0..MaxBegun BY ServerStackAssumption DEF StackInit
<1>. QED BY <1>2, <1>3, <1>4, <1>5, <1>6 DEF StackTypeOK, Mover, Owned, Life

LEMMA BegunStays == ASSUME begun \in 0..MaxBegun, Begin PROVE begun' \in 0..MaxBegun
BY ServerStackAssumption DEF Begin

(* What the steps of an Init make of its directory.                        *)
LEMMA StageType ==
    ASSUME StackTypeOK, NEW p \in Projects, NEW d \in StackDirs, StageStack(p, d)
    PROVE  /\ StackTypeOK' /\ init'[p].at = "staged" /\ init'[p].staged = Entries
           /\ \A q \in Projects \ {p} : init'[q] = init[q]
<1>1. PICK n : n = [at |-> "staged", dir |-> d, staged |-> Entries] OBVIOUS
<1>2. n \in Mover /\ n.at = "staged" /\ n.staged = Entries BY <1>1 DEF Mover
<1>3. init' = [init EXCEPT ![p] = n] BY <1>1 DEF StageStack
<1>4. init' \in [Projects -> Mover] BY <1>2, <1>3 DEF StackTypeOK, Mover
<1>5. begun' \in 0..MaxBegun BY BegunStays DEF StageStack, StackTypeOK
<1>6. UNCHANGED <<tree, engine, lifecycle>> BY DEF StageStack
<1>7. init'[p] = n /\ \A q \in Projects \ {p} : init'[q] = init[q] BY <1>3 DEF StackTypeOK
<1>. QED BY <1>2, <1>4, <1>5, <1>6, <1>7 DEF StackTypeOK, Mover

LEMMA OnlyTreeChanges ==
    ASSUME StackTypeOK, tree' \in [StackDirs -> Directory], begun' \in 0..MaxBegun,
           UNCHANGED <<init, engine, lifecycle>>
    PROVE  StackTypeOK'
BY DEF StackTypeOK

Writes(d, e, x) == tree' = [tree EXCEPT ![d].entry[e] = x]
StackMoves(p, at, left) == init' = [init EXCEPT ![p].at = at, ![p].staged = left]

LEMMA EntryWrites ==
    ASSUME StackTypeOK, NEW d \in StackDirs, NEW e \in Entries,
           NEW x \in Projects \cup {Missing, "edited"}, Writes(d, e, x)
    PROVE  /\ tree' \in [StackDirs -> Directory]
           /\ tree'[d].dir = tree[d].dir /\ tree'[d].entry[e] = x
           /\ \A f \in Entries \ {e} : tree'[d].entry[f] = tree[d].entry[f]
           /\ \A o \in StackDirs \ {d} : tree'[o] = tree[o]
<1>1. PICK new : new = [tree[d] EXCEPT !.entry[e] = x] OBVIOUS
<1>2. tree[d] \in Directory BY DEF StackTypeOK
<1>3. /\ new \in Directory /\ new.dir = tree[d].dir /\ new.entry[e] = x
      /\ \A f \in Entries \ {e} : new.entry[f] = tree[d].entry[f]
  BY <1>1, <1>2 DEF Directory
<1>4. tree' = [tree EXCEPT ![d] = new] BY <1>1 DEF Writes
<1>5. /\ tree' \in [StackDirs -> Directory] /\ tree'[d] = new
      /\ \A o \in StackDirs \ {d} : tree'[o] = tree[o]
  BY <1>3, <1>4 DEF StackTypeOK
<1>. QED BY <1>3, <1>5

LEMMA InitWrites ==
    ASSUME StackTypeOK, NEW p \in Projects,
           NEW at \in {"idle", "staged", "moving", "made", "failed"},
           NEW left \in SUBSET Entries, StackMoves(p, at, left)
    PROVE  /\ init' \in [Projects -> Mover]
           /\ init'[p].at = at /\ init'[p].dir = init[p].dir /\ init'[p].staged = left
           /\ \A q \in Projects \ {p} : init'[q] = init[q]
<1>1. PICK new : new = [init[p] EXCEPT !.at = at, !.staged = left] OBVIOUS
<1>2. init[p] \in Mover BY DEF StackTypeOK, Mover
<1>3. new \in Mover /\ new.at = at /\ new.dir = init[p].dir /\ new.staged = left
  BY <1>1, <1>2 DEF Mover
<1>4. init' = [init EXCEPT ![p] = new] BY <1>1 DEF StackMoves
<1>5. /\ init' \in [Projects -> Mover] /\ init'[p] = new
      /\ \A q \in Projects \ {p} : init'[q] = init[q]
  BY <1>3, <1>4 DEF StackTypeOK, Mover
<1>. QED BY <1>3, <1>5

LEMMA ReserveType ==
    ASSUME StackTypeOK, NEW p \in Projects, ReserveDirectory(p)
    PROVE  /\ StackTypeOK'
           /\ tree'[init[p].dir].dir = TRUE /\ tree'[init[p].dir].entry = tree[init[p].dir].entry
           /\ \A d \in StackDirs \ {init[p].dir} : tree'[d] = tree[d]
           /\ init'[p].at = "moving" /\ init'[p].dir = init[p].dir
           /\ init'[p].staged = init[p].staged
           /\ \A q \in Projects \ {p} : init'[q] = init[q]
<1>0. PICK d \in StackDirs : d = init[p].dir BY DEF StackTypeOK
<1>1. PICK new : new = [tree[d] EXCEPT !.dir = TRUE] OBVIOUS
<1>2. tree[d] \in Directory BY DEF StackTypeOK
<1>3. new \in Directory /\ new.dir = TRUE /\ new.entry = tree[d].entry BY <1>1, <1>2 DEF Directory
<1>4. tree' = [tree EXCEPT ![d] = new] BY <1>0, <1>1 DEF ReserveDirectory
<1>5. /\ tree' \in [StackDirs -> Directory] /\ tree'[d] = new
      /\ \A o \in StackDirs \ {d} : tree'[o] = tree[o]
  BY <1>3, <1>4 DEF StackTypeOK
<1>6. PICK left \in SUBSET Entries : left = init[p].staged BY DEF StackTypeOK
<1>7. PICK mover : mover = [init[p] EXCEPT !.at = "moving"] OBVIOUS
<1>8. init[p] \in Mover BY DEF StackTypeOK, Mover
<1>9. mover \in Mover /\ mover.at = "moving" /\ mover.dir = d /\ mover.staged = init[p].staged
  BY <1>0, <1>7, <1>8 DEF Mover
<1>10. init' = [init EXCEPT ![p] = mover] BY <1>7 DEF ReserveDirectory
<1>11. /\ init' \in [Projects -> Mover] /\ init'[p] = mover
       /\ \A q \in Projects \ {p} : init'[q] = init[q]
  BY <1>9, <1>10 DEF StackTypeOK, Mover
<1>12. UNCHANGED <<engine, lifecycle, begun>> BY DEF ReserveDirectory
<1>13. StackTypeOK' BY <1>5, <1>11, <1>12 DEF StackTypeOK, Mover
<1>. QED BY <1>0, <1>3, <1>5, <1>9, <1>11, <1>13

LEMMA MoveType ==
    ASSUME StackTypeOK, NEW p \in Projects, NEW e \in Entries, MoveEntry(p, e)
    PROVE  /\ StackTypeOK'
           /\ tree'[init[p].dir].dir /\ tree'[init[p].dir].entry[e] = p
           /\ \A f \in Entries \ {e} :
                tree'[init[p].dir].entry[f] = tree[init[p].dir].entry[f]
           /\ \A d \in StackDirs \ {init[p].dir} : tree'[d] = tree[d]
           /\ init'[p].at \in {"made", "moving"} /\ init'[p].dir = init[p].dir
           /\ init'[p].staged = init[p].staged \ {e}
           /\ init'[p].at = "moving" => init[p].staged # {e}
           /\ \A q \in Projects \ {p} : init'[q] = init[q]
<1>0. PICK d \in StackDirs : d = init[p].dir BY DEF StackTypeOK
<1>1. Writes(d, e, p) BY <1>0 DEF MoveEntry, Writes
<1>2. /\ tree' \in [StackDirs -> Directory]
      /\ tree'[d].dir = tree[d].dir /\ tree'[d].entry[e] = p
      /\ \A f \in Entries \ {e} : tree'[d].entry[f] = tree[d].entry[f]
      /\ \A o \in StackDirs \ {d} : tree'[o] = tree[o]
  BY <1>1, EntryWrites
<1>3. init[p].staged \in SUBSET Entries /\ init[p].at = "moving" BY DEF StackTypeOK, MoveEntry
<1>4. PICK left \in SUBSET Entries : left = init[p].staged \ {e} BY <1>3
<1>5. PICK at \in {"made", "moving"} :
        at = IF init[p].staged = {e} THEN "made" ELSE "moving" OBVIOUS
<1>6. PICK new : new = [init[p] EXCEPT !.at = at, !.staged = left] OBVIOUS
<1>7. init[p] \in Mover BY DEF StackTypeOK, Mover
<1>8. new \in Mover /\ new.at = at /\ new.dir = d /\ new.staged = left
  BY <1>0, <1>6, <1>7 DEF Mover
<1>9. init' = [init EXCEPT ![p] = new]
  BY <1>3, <1>4, <1>5, <1>6, <1>7 DEF MoveEntry, StackTypeOK, Mover
<1>10. /\ init' \in [Projects -> Mover] /\ init'[p] = new
       /\ \A q \in Projects \ {p} : init'[q] = init[q]
  BY <1>8, <1>9 DEF StackTypeOK, Mover
<1>11. UNCHANGED <<engine, lifecycle, begun>> /\ tree[d].dir BY <1>0 DEF MoveEntry
<1>12. StackTypeOK' BY <1>2, <1>10, <1>11 DEF StackTypeOK, Mover
<1>. QED BY <1>0, <1>2, <1>4, <1>5, <1>8, <1>10, <1>11, <1>12

LEMMA StopType ==
    ASSUME StackTypeOK, NEW p \in Projects, StopInit(p)
    PROVE  /\ StackTypeOK' /\ init'[p].at = "failed"
           /\ \A q \in Projects \ {p} : init'[q] = init[q]
<1>1. StackMoves(p, "failed", {}) BY DEF StopInit, StackMoves
<1>2. /\ init' \in [Projects -> Mover] /\ init'[p].at = "failed"
      /\ \A q \in Projects \ {p} : init'[q] = init[q]
  BY <1>1, InitWrites
<1>. QED BY <1>2 DEF StopInit, StackTypeOK, Mover

-----------------------------------------------------------------------------
(* What users do to directories.                                           *)

LEMMA CopyType ==
    ASSUME StackTypeOK, NEW d \in StackDirs, NEW copy \in StackDirs, CopyStack(d, copy)
    PROVE  /\ StackTypeOK' /\ tree'[copy] = tree[d]
           /\ \A o \in StackDirs \ {copy} : tree'[o] = tree[o]
<1>1. tree[d] \in Directory BY DEF StackTypeOK
<1>2. /\ tree' \in [StackDirs -> Directory] /\ tree'[copy] = tree[d]
      /\ \A o \in StackDirs \ {copy} : tree'[o] = tree[o]
  BY <1>1 DEF StackTypeOK, CopyStack
<1>3. begun' \in 0..MaxBegun BY BegunStays DEF CopyStack, StackTypeOK
<1>. QED BY <1>2, <1>3, OnlyTreeChanges DEF CopyStack

LEMMA RemoveType ==
    ASSUME StackTypeOK, NEW d \in StackDirs, RemoveStack(d)
    PROVE  /\ StackTypeOK' /\ tree'[d] = NoDirectory
           /\ \A o \in StackDirs \ {d} : tree'[o] = tree[o]
<1>1. /\ tree' \in [StackDirs -> Directory] /\ tree'[d] = NoDirectory
      /\ \A o \in StackDirs \ {d} : tree'[o] = tree[o]
  BY Records DEF StackTypeOK, RemoveStack
<1>2. begun' \in 0..MaxBegun BY BegunStays DEF RemoveStack, StackTypeOK
<1>. QED BY <1>1, <1>2, OnlyTreeChanges DEF RemoveStack

LEMMA EditType ==
    ASSUME StackTypeOK, NEW d \in StackDirs, NEW e \in Entries, EditStack(d, e)
    PROVE  /\ StackTypeOK' /\ tree'[d].dir = tree[d].dir /\ tree'[d].entry[e] = "edited"
           /\ \A f \in Entries \ {e} : tree'[d].entry[f] = tree[d].entry[f]
           /\ \A o \in StackDirs \ {d} : tree'[o] = tree[o]
<1>1. Writes(d, e, "edited") BY DEF EditStack, Writes
<1>2. begun' \in 0..MaxBegun BY BegunStays DEF EditStack, StackTypeOK
<1>. QED BY <1>1, <1>2, EntryWrites, OnlyTreeChanges DEF EditStack

-----------------------------------------------------------------------------
(* Directories stay whole.                                                 *)

LEMMA DirectoriesInit == StackInit => DirectoriesOK
BY Records DEF StackInit, DirectoriesOK, EmptyOK, WholeOK, PublishOK

(* What neither moves an entry nor writes one.                             *)
LEMMA OneInitRests ==
    ASSUME DirectoriesOK, UNCHANGED tree, NEW p \in Projects,
           init'[p].at # "moving", init'[p].at = "staged" => init'[p].staged = Entries,
           \A q \in Projects \ {p} : init'[q] = init[q]
    PROVE  DirectoriesOK'
<1>1. EmptyOK' /\ WholeOK' BY DEF DirectoriesOK, EmptyOK, WholeOK
<1>2. ASSUME NEW q \in Projects PROVE init'[q].at = "staged" => init'[q].staged = Entries
  BY DEF DirectoriesOK, PublishOK
<1>3. ASSUME NEW q \in Projects, init'[q].at = "moving" PROVE MoverOK(q)'
  <2>1. q # p /\ init'[q] = init[q] /\ init[q].at = "moving" BY <1>3
  <2>2. MoverOK(q) BY <2>1 DEF DirectoriesOK, PublishOK
  <2>. QED BY <2>1, <2>2 DEF MoverOK
<1>4. ASSUME NEW q \in Projects, NEW r \in Projects, q # r,
             init'[q].at = "moving", init'[r].at = "moving"
      PROVE  init'[q].dir # init'[r].dir
  BY <1>4 DEF DirectoriesOK, PublishOK
<1>. QED BY <1>1, <1>2, <1>3, <1>4 DEF DirectoriesOK, PublishOK

LEMMA ReserveDirectories ==
    ASSUME StackTypeOK, DirectoriesOK, NEW p \in Projects, ReserveDirectory(p)
    PROVE  DirectoriesOK'
<1>0. PICK d \in StackDirs : d = init[p].dir BY DEF StackTypeOK
<1>1. init[p].at = "staged" /\ ~tree[d].dir BY <1>0 DEF ReserveDirectory
<1>2. /\ tree'[d].dir = TRUE /\ tree'[d].entry = tree[d].entry
      /\ \A o \in StackDirs \ {d} : tree'[o] = tree[o]
      /\ init'[p].at = "moving" /\ init'[p].dir = d /\ init'[p].staged = init[p].staged
      /\ \A q \in Projects \ {p} : init'[q] = init[q]
  BY <1>0, ReserveType
<1>3. \A e \in Entries : tree[d].entry[e] = Missing BY <1>1 DEF DirectoriesOK, EmptyOK
<1>4. EmptyOK' BY <1>2 DEF DirectoriesOK, EmptyOK
<1>5. WholeOK'
  <2>. SUFFICES ASSUME NEW o \in StackDirs, NEW e \in Entries,
                       tree'[o].entry["stack.json"] # Missing
                PROVE  tree'[o].entry[e] \in {tree'[o].entry["stack.json"], "edited"}
    BY DEF WholeOK
  <2>1. tree'[o].entry = tree[o].entry BY <1>2
  <2>. QED BY <2>1 DEF DirectoriesOK, WholeOK
<1>6. ASSUME NEW q \in Projects, q # p, init'[q].at = "moving"
      PROVE  MoverOK(q)' /\ init'[q].dir # d
  <2>1. init'[q] = init[q] /\ init[q].at = "moving" BY <1>2, <1>6
  <2>2. MoverOK(q) /\ init[q].dir \in StackDirs BY <2>1 DEF DirectoriesOK, PublishOK, StackTypeOK
  <2>3. init[q].dir # d BY <2>2, <1>1 DEF MoverOK
  <2>4. tree'[init[q].dir] = tree[init[q].dir] BY <1>2, <2>2, <2>3
  <2>. QED BY <2>1, <2>2, <2>3, <2>4 DEF MoverOK
<1>7. MoverOK(p)'
  <2>1. init[p].staged = Entries BY <1>1 DEF DirectoriesOK, PublishOK
  <2>. QED BY <1>2, <1>3, <2>1, Records DEF MoverOK
<1>8. PublishOK'
  <2>1. ASSUME NEW q \in Projects PROVE init'[q].at = "staged" => init'[q].staged = Entries
    BY <1>2 DEF DirectoriesOK, PublishOK
  <2>2. ASSUME NEW q \in Projects PROVE init'[q].at = "moving" => MoverOK(q)'
    BY <1>6, <1>7
  <2>3. ASSUME NEW q \in Projects, NEW r \in Projects, q # r,
               init'[q].at = "moving", init'[r].at = "moving"
        PROVE  init'[q].dir # init'[r].dir
    BY <2>3, <1>2, <1>6 DEF DirectoriesOK, PublishOK
  <2>. QED BY <2>1, <2>2, <2>3 DEF PublishOK
<1>. QED BY <1>4, <1>5, <1>8 DEF DirectoriesOK

LEMMA MoveDirectories ==
    ASSUME StackTypeOK, DirectoriesOK, NEW p \in Projects, NEW e \in Entries, MoveEntry(p, e)
    PROVE  DirectoriesOK'
<1>0. PICK d \in StackDirs : d = init[p].dir BY DEF StackTypeOK
<1>1. init[p].at = "moving" /\ e \in Movable(p) BY DEF MoveEntry
<1>2. /\ tree'[d].dir /\ tree'[d].entry[e] = p
      /\ \A f \in Entries \ {e} : tree'[d].entry[f] = tree[d].entry[f]
      /\ \A o \in StackDirs \ {d} : tree'[o] = tree[o]
      /\ init'[p].at \in {"made", "moving"} /\ init'[p].dir = d
      /\ init'[p].staged = init[p].staged \ {e}
      /\ init'[p].at = "moving" => init[p].staged # {e}
      /\ \A q \in Projects \ {p} : init'[q] = init[q]
  BY <1>0, MoveType
<1>3. /\ "stack.json" \in init[p].staged
      /\ \A f \in Entries : IF f \in init[p].staged THEN tree[d].entry[f] = Missing
                            ELSE tree[d].entry[f] \in {p, "edited"}
  BY <1>0, <1>1 DEF DirectoriesOK, PublishOK, MoverOK
<1>4. e = "stack.json" => init[p].staged = {e} BY <1>1, <1>3 DEF Movable
<1>5. EmptyOK' BY <1>2 DEF DirectoriesOK, EmptyOK
<1>6. WholeOK'
  <2>. SUFFICES ASSUME NEW o \in StackDirs, NEW f \in Entries,
                       tree'[o].entry["stack.json"] # Missing
                PROVE  tree'[o].entry[f] \in {tree'[o].entry["stack.json"], "edited"}
    BY DEF WholeOK
  <2>1. CASE o # d BY <2>1, <1>2 DEF DirectoriesOK, WholeOK
  <2>2. CASE o = d
    <3>1. e = "stack.json" BY <2>2, <1>2, <1>3, Records
    <3>2. tree'[d].entry["stack.json"] = p BY <3>1, <1>2
    <3>3. f # e => tree'[d].entry[f] \in {p, "edited"} BY <3>1, <1>2, <1>3, <1>4
    <3>. QED BY <2>2, <3>1, <3>2, <3>3
  <2>. QED BY <2>1, <2>2
<1>7. ASSUME NEW q \in Projects, q # p, init'[q].at = "moving"
      PROVE  MoverOK(q)' /\ init'[q].dir # d
  <2>1. init'[q] = init[q] /\ init[q].at = "moving" BY <1>2, <1>7
  <2>2. MoverOK(q) /\ init[q].dir \in StackDirs BY <2>1 DEF DirectoriesOK, PublishOK, StackTypeOK
  <2>3. init[q].dir # d BY <2>1, <1>0, <1>1, <1>7 DEF DirectoriesOK, PublishOK
  <2>4. tree'[init[q].dir] = tree[init[q].dir] BY <1>2, <2>2, <2>3
  <2>. QED BY <2>1, <2>2, <2>3, <2>4 DEF MoverOK
<1>8. ASSUME init'[p].at = "moving" PROVE MoverOK(p)'
  <2>1. e # "stack.json" BY <1>2, <1>4, <1>8
  <2>. QED BY <2>1, <1>2, <1>3 DEF MoverOK
<1>9. PublishOK'
  <2>1. ASSUME NEW q \in Projects PROVE init'[q].at = "staged" => init'[q].staged = Entries
    BY <1>2 DEF DirectoriesOK, PublishOK
  <2>2. ASSUME NEW q \in Projects PROVE init'[q].at = "moving" => MoverOK(q)'
    BY <1>7, <1>8
  <2>3. ASSUME NEW q \in Projects, NEW r \in Projects, q # r,
               init'[q].at = "moving", init'[r].at = "moving"
        PROVE  init'[q].dir # init'[r].dir
    BY <2>3, <1>2, <1>7 DEF DirectoriesOK, PublishOK
  <2>. QED BY <2>1, <2>2, <2>3 DEF PublishOK
<1>. QED BY <1>5, <1>6, <1>9 DEF DirectoriesOK

LEMMA CopyDirectories ==
    ASSUME StackTypeOK, DirectoriesOK, NEW d \in StackDirs, NEW copy \in StackDirs,
           CopyStack(d, copy)
    PROVE  DirectoriesOK'
<1>1. /\ tree'[copy] = tree[d] /\ tree[d].dir /\ ~tree[copy].dir /\ UNCHANGED init
      /\ \A o \in StackDirs \ {copy} : tree'[o] = tree[o]
  BY CopyType DEF CopyStack
<1>2. EmptyOK' BY <1>1 DEF DirectoriesOK, EmptyOK
<1>3. WholeOK' BY <1>1 DEF DirectoriesOK, WholeOK
<1>4. ASSUME NEW p \in Projects, init[p].at = "moving" PROVE MoverOK(p)'
  <2>1. MoverOK(p) /\ init[p].dir \in StackDirs BY <1>4 DEF DirectoriesOK, PublishOK, StackTypeOK
  <2>2. tree'[init[p].dir] = tree[init[p].dir] BY <1>1, <2>1 DEF MoverOK
  <2>. QED BY <1>1, <2>1, <2>2 DEF MoverOK
<1>5. PublishOK' BY <1>1, <1>4 DEF DirectoriesOK, PublishOK
<1>. QED BY <1>2, <1>3, <1>5 DEF DirectoriesOK

LEMMA RemoveDirectories ==
    ASSUME StackTypeOK, DirectoriesOK, NEW d \in StackDirs, RemoveStack(d)
    PROVE  DirectoriesOK'
<1>1. /\ tree'[d] = NoDirectory /\ UNCHANGED init
      /\ \A o \in StackDirs \ {d} : tree'[o] = tree[o]
      /\ \A p \in Projects : init[p].at = "moving" => init[p].dir # d
  BY RemoveType DEF RemoveStack
<1>2. EmptyOK' BY <1>1, Records DEF DirectoriesOK, EmptyOK
<1>3. WholeOK' BY <1>1, Records DEF DirectoriesOK, WholeOK
<1>4. ASSUME NEW p \in Projects, init[p].at = "moving" PROVE MoverOK(p)'
  <2>1. MoverOK(p) /\ init[p].dir \in StackDirs BY <1>4 DEF DirectoriesOK, PublishOK, StackTypeOK
  <2>2. tree'[init[p].dir] = tree[init[p].dir] BY <1>1, <1>4, <2>1
  <2>. QED BY <1>1, <2>1, <2>2 DEF MoverOK
<1>5. PublishOK' BY <1>1, <1>4 DEF DirectoriesOK, PublishOK
<1>. QED BY <1>2, <1>3, <1>5 DEF DirectoriesOK

LEMMA EditDirectories ==
    ASSUME StackTypeOK, DirectoriesOK, NEW d \in StackDirs, NEW e \in Entries, EditStack(d, e)
    PROVE  DirectoriesOK'
<1>1. /\ tree'[d].dir = tree[d].dir /\ tree'[d].entry[e] = "edited" /\ UNCHANGED init
      /\ \A f \in Entries \ {e} : tree'[d].entry[f] = tree[d].entry[f]
      /\ \A o \in StackDirs \ {d} : tree'[o] = tree[o]
  BY EditType DEF EditStack
<1>2. e # "stack.json" /\ tree[d].entry[e] # Missing BY DEF EditStack
<1>3. EmptyOK' BY <1>1, <1>2 DEF DirectoriesOK, EmptyOK
<1>4. WholeOK'
  <2>. SUFFICES ASSUME NEW o \in StackDirs, NEW f \in Entries,
                       tree'[o].entry["stack.json"] # Missing
                PROVE  tree'[o].entry[f] \in {tree'[o].entry["stack.json"], "edited"}
    BY DEF WholeOK
  <2>1. tree'[o].entry["stack.json"] = tree[o].entry["stack.json"] BY <1>1, <1>2, Records
  <2>2. tree'[o].entry[f] \in {tree[o].entry[f], "edited"} BY <1>1
  <2>3. tree[o].entry[f] \in {tree[o].entry["stack.json"], "edited"}
    BY <2>1 DEF DirectoriesOK, WholeOK
  <2>. QED BY <2>1, <2>2, <2>3
<1>5. ASSUME NEW p \in Projects, init[p].at = "moving" PROVE MoverOK(p)'
  <2>1. MoverOK(p) /\ init[p].dir \in StackDirs BY <1>5 DEF DirectoriesOK, PublishOK, StackTypeOK
  <2>2. CASE init[p].dir # d
    <3>1. tree'[init[p].dir] = tree[init[p].dir] BY <1>1, <2>1, <2>2
    <3>. QED BY <1>1, <2>1, <3>1 DEF MoverOK
  <2>3. CASE init[p].dir = d
    <3>1. e \notin init[p].staged BY <1>2, <2>1, <2>3 DEF MoverOK
    <3>. QED BY <1>1, <2>1, <2>3, <3>1 DEF MoverOK
  <2>. QED BY <2>2, <2>3
<1>6. PublishOK' BY <1>1, <1>5 DEF DirectoriesOK, PublishOK
<1>. QED BY <1>3, <1>4, <1>6 DEF DirectoriesOK

-----------------------------------------------------------------------------
(* Commands.                                                               *)

LEMMA OnlyCommandsChange ==
    ASSUME StackTypeOK, lifecycle' \in [Lifecycles -> Life], engine' \in [Projects -> Owned],
           begun' \in 0..MaxBegun, UNCHANGED <<tree, init>>
    PROVE  StackTypeOK'
BY DEF StackTypeOK, Life, Owned

(* A command that is refused, done or given up is the next one's place.    *)
LEMMA Ends ==
    ASSUME StackTypeOK, LifecyclesOK, NEW c \in Lifecycles, UNCHANGED <<tree, init, engine, begun>>,
           lifecycle' = [lifecycle EXCEPT ![c] = NoLifecycle]
    PROVE  StackTypeOK' /\ LifecyclesOK'
<1>1. /\ lifecycle' \in [Lifecycles -> Life] /\ lifecycle'[c] = NoLifecycle
      /\ \A x \in Lifecycles \ {c} : lifecycle'[x] = lifecycle[x]
  BY Records DEF StackTypeOK, Life
<1>2. StackTypeOK' BY <1>1 DEF StackTypeOK, Life
<1>3. ASSUME NEW x \in Lifecycles PROVE LifeOK(x)'
  <2>1. CASE x = c BY <2>1, <1>1, Records DEF LifeOK
  <2>2. CASE x # c BY <2>2, <1>1 DEF LifecyclesOK, LifeOK
  <2>. QED BY <2>1, <2>2
<1>. QED BY <1>2, <1>3 DEF LifecyclesOK

LEMMA StackGoesOn ==
    ASSUME StackTypeOK, NEW c \in Lifecycles,
           NEW at \in {"idle", "loaded", "checked", "inspected", "ready"}, Comes(c, at)
    PROVE  /\ lifecycle' \in [Lifecycles -> Life]
           /\ lifecycle'[c].at = at /\ lifecycle'[c].dir = lifecycle[c].dir
           /\ lifecycle'[c].project = lifecycle[c].project
           /\ lifecycle'[c].overtaken = lifecycle[c].overtaken
           /\ \A x \in Lifecycles \ {c} : lifecycle'[x] = lifecycle[x]
<1>1. PICK new : new = [lifecycle[c] EXCEPT !.at = at] OBVIOUS
<1>2. lifecycle[c] \in Life BY DEF StackTypeOK, Life
<1>3. /\ new \in Life /\ new.at = at /\ new.dir = lifecycle[c].dir
      /\ new.project = lifecycle[c].project /\ new.overtaken = lifecycle[c].overtaken
  BY <1>1, <1>2 DEF Life
<1>4. lifecycle' = [lifecycle EXCEPT ![c] = new] BY <1>1 DEF Comes
<1>5. /\ lifecycle' \in [Lifecycles -> Life] /\ lifecycle'[c] = new
      /\ \A x \in Lifecycles \ {c} : lifecycle'[x] = lifecycle[x]
  BY <1>3, <1>4 DEF StackTypeOK, Life
<1>. QED BY <1>3, <1>5

LEMMA LoadCommands ==
    ASSUME StackTypeOK, LifecyclesOK, NEW c \in Lifecycles, NEW d \in StackDirs,
           NEW kind \in {"up", "down"}, LoadStack(c, d, kind)
    PROVE  StackTypeOK' /\ LifecyclesOK'
<1>1. tree[d].entry["stack.json"] \in Projects BY DEF LoadStack, Loadable
<1>2. PICK new : new = [NoLifecycle EXCEPT !.at = "loaded", !.kind = kind, !.dir = d,
                                           !.project = tree[d].entry["stack.json"]] OBVIOUS
<1>3. new \in Life /\ new.at = "loaded" /\ new.project \in Projects
  BY <1>1, <1>2, Records DEF Life
<1>4. lifecycle' = [lifecycle EXCEPT ![c] = new] /\ UNCHANGED <<tree, init, engine>>
  BY <1>2 DEF LoadStack
<1>5. /\ lifecycle' \in [Lifecycles -> Life] /\ lifecycle'[c] = new
      /\ \A x \in Lifecycles \ {c} : lifecycle'[x] = lifecycle[x]
  BY <1>3, <1>4 DEF StackTypeOK, Life
<1>6. begun' \in 0..MaxBegun BY BegunStays DEF LoadStack, StackTypeOK
<1>7. StackTypeOK' BY <1>4, <1>5, <1>6 DEF StackTypeOK, Life
<1>8. ASSUME NEW x \in Lifecycles PROVE LifeOK(x)'
  <2>1. CASE x = c BY <2>1, <1>3, <1>5 DEF LifeOK
  <2>2. CASE x # c BY <2>2, <1>4, <1>5 DEF LifecyclesOK, LifeOK
  <2>. QED BY <2>1, <2>2
<1>. QED BY <1>7, <1>8 DEF LifecyclesOK

LEMMA CheckCommands ==
    ASSUME StackTypeOK, LifecyclesOK, NEW c \in Lifecycles, CheckStack(c)
    PROVE  StackTypeOK' /\ LifecyclesOK'
<1>1. lifecycle[c].at = "loaded" /\ UNCHANGED <<tree, init, engine, begun>> BY DEF CheckStack
<1>2. CASE Comes(c, "checked")
  <2>1. /\ lifecycle' \in [Lifecycles -> Life]
        /\ lifecycle'[c].at = "checked" /\ lifecycle'[c].project = lifecycle[c].project
        /\ \A x \in Lifecycles \ {c} : lifecycle'[x] = lifecycle[x]
    BY <1>2, StackGoesOn
  <2>2. StackTypeOK' BY <2>1, <1>1 DEF StackTypeOK, Life
  <2>3. ASSUME NEW x \in Lifecycles PROVE LifeOK(x)'
    <3>1. CASE x = c BY <3>1, <2>1, <1>1 DEF LifecyclesOK, LifeOK
    <3>2. CASE x # c BY <3>2, <2>1, <1>1 DEF LifecyclesOK, LifeOK
    <3>. QED BY <3>1, <3>2
  <2>. QED BY <2>2, <2>3 DEF LifecyclesOK
<1>3. CASE lifecycle' = [lifecycle EXCEPT ![c] = NoLifecycle] BY <1>1, <1>3, Ends
<1>. QED BY <1>2, <1>3 DEF CheckStack

LEMMA PreflightCommands ==
    ASSUME StackTypeOK, LifecyclesOK, NEW c \in Lifecycles, Preflight(c)
    PROVE  StackTypeOK' /\ LifecyclesOK'
<1>0. UNCHANGED <<tree, init, engine, begun>> BY DEF Preflight
<1>1. PICK at \in {"inspected", "ready"} :
        /\ Comes(c, at) /\ lifecycle[c].at \in {"checked", "inspected"}
        /\ at = "ready" => lifecycle[c].at = "inspected"
        /\ at = "inspected" => MayUse(c, engine[lifecycle[c].project].containers)
        /\ at = "ready" => MayUse(c, engine[lifecycle[c].project].volumes)
  <2>1. CASE /\ lifecycle[c].at = "checked" /\ Comes(c, "inspected")
             /\ MayUse(c, engine[lifecycle[c].project].containers)
    BY <2>1
  <2>2. CASE /\ lifecycle[c].at = "inspected" /\ Comes(c, "ready")
             /\ MayUse(c, engine[lifecycle[c].project].volumes)
    BY <2>2
  <2>. QED BY <2>1, <2>2 DEF Preflight
<1>2. /\ lifecycle' \in [Lifecycles -> Life]
      /\ lifecycle'[c].at = at /\ lifecycle'[c].dir = lifecycle[c].dir
      /\ lifecycle'[c].project = lifecycle[c].project
      /\ lifecycle'[c].overtaken = lifecycle[c].overtaken
      /\ \A x \in Lifecycles \ {c} : lifecycle'[x] = lifecycle[x]
  BY <1>1, StackGoesOn
<1>3. StackTypeOK' BY <1>0, <1>2 DEF StackTypeOK, Life
<1>4. ASSUME NEW x \in Lifecycles PROVE LifeOK(x)'
  <2>1. CASE x = c
    <3>1. LifeOK(c) BY DEF LifecyclesOK
    <3>. QED BY <2>1, <3>1, <1>0, <1>1, <1>2 DEF LifeOK, MayUse
  <2>2. CASE x # c BY <2>2, <1>0, <1>2 DEF LifecyclesOK, LifeOK
  <2>. QED BY <2>1, <2>2
<1>. QED BY <1>3, <1>4 DEF LifecyclesOK

(* A call of Compose ends its command; the copies it may surprise know.    *)
Overtakes(c, x) ==
    /\ lifecycle[x].at \in {"inspected", "ready"}
    /\ lifecycle[x].project = lifecycle[c].project
    /\ lifecycle[x].dir # lifecycle[c].dir

LEMMA Acts ==
    ASSUME StackTypeOK, NEW c \in Lifecycles, Acted(c)
    PROVE  /\ lifecycle' \in [Lifecycles -> Life] /\ lifecycle'[c] = NoLifecycle
           /\ \A x \in Lifecycles \ {c} :
                /\ lifecycle'[x].at = lifecycle[x].at /\ lifecycle'[x].dir = lifecycle[x].dir
                /\ lifecycle'[x].project = lifecycle[x].project
                /\ lifecycle'[x].overtaken = (lifecycle[x].overtaken \/ Overtakes(c, x))
<1>. DEFINE After(x) == IF x = c THEN NoLifecycle
                      ELSE [lifecycle[x] EXCEPT !.overtaken = @ \/ Overtakes(c, x)]
<1>1. lifecycle' = [x \in Lifecycles |-> After(x)] BY DEF Acted, Overtakes
<1>2. ASSUME NEW x \in Lifecycles, x # c
      PROVE  /\ After(x) \in Life
             /\ After(x).at = lifecycle[x].at /\ After(x).dir = lifecycle[x].dir
             /\ After(x).project = lifecycle[x].project
             /\ After(x).overtaken = (lifecycle[x].overtaken \/ Overtakes(c, x))
  <2>1. PICK b \in BOOLEAN : b = (lifecycle[x].overtaken \/ Overtakes(c, x)) OBVIOUS
  <2>2. lifecycle[x] \in Life BY DEF StackTypeOK, Life
  <2>3. After(x) = [lifecycle[x] EXCEPT !.overtaken = b] BY <2>1, <1>2
  <2>4. PICK new : new = [lifecycle[x] EXCEPT !.overtaken = b] OBVIOUS
  <2>5. /\ new \in Life
        /\ new.at = lifecycle[x].at /\ new.dir = lifecycle[x].dir
        /\ new.project = lifecycle[x].project /\ new.overtaken = b
    BY <2>2, <2>4 DEF Life
  <2>. QED BY <2>1, <2>3, <2>4, <2>5
<1>3. After(c) = NoLifecycle OBVIOUS
<1>4. \A x \in Lifecycles : After(x) \in Life BY <1>2, <1>3, Records
<1>5. \A x \in Lifecycles : lifecycle'[x] = After(x) BY <1>1
<1>. HIDE DEF After
<1>6. lifecycle' \in [Lifecycles -> Life] BY <1>1, <1>4
<1>. QED BY <1>2, <1>3, <1>5, <1>6

(* What a call of Compose may make of the resources of its project.        *)
LEMMA CallOfCompose ==
    ASSUME StackTypeOK, LifecyclesOK, NEW c \in Lifecycles, lifecycle[c].at = "ready",
           Acted(c), UNCHANGED <<tree, init, begun>>,
           NEW now \in Owned, engine' = [engine EXCEPT ![lifecycle[c].project] = now],
           now.containers \in {engine[lifecycle[c].project].containers, lifecycle[c].dir, Missing},
           now.volumes \in {engine[lifecycle[c].project].volumes, lifecycle[c].dir}
    PROVE  StackTypeOK' /\ LifecyclesOK'
<1>1. PICK p \in Projects : p = lifecycle[c].project BY DEF LifecyclesOK, LifeOK
<1>2. /\ engine' \in [Projects -> Owned] /\ engine'[p] = now
      /\ \A q \in Projects \ {p} : engine'[q] = engine[q]
  BY <1>1 DEF StackTypeOK, Owned
<1>3. /\ lifecycle' \in [Lifecycles -> Life] /\ lifecycle'[c] = NoLifecycle
      /\ \A x \in Lifecycles \ {c} :
           /\ lifecycle'[x].at = lifecycle[x].at /\ lifecycle'[x].dir = lifecycle[x].dir
           /\ lifecycle'[x].project = lifecycle[x].project
           /\ lifecycle'[x].overtaken = (lifecycle[x].overtaken \/ Overtakes(c, x))
  BY Acts
<1>4. StackTypeOK' BY <1>2, <1>3 DEF StackTypeOK, Life, Owned
<1>5. ASSUME NEW x \in Lifecycles PROVE LifeOK(x)'
  <2>1. CASE x = c BY <2>1, <1>3, Records DEF LifeOK
  <2>2. CASE x # c
    <3>1. LifeOK(x) BY DEF LifecyclesOK
    <3>2. CASE lifecycle[x].project = p
      <4>1. CASE lifecycle[x].dir = lifecycle[c].dir
        BY <2>2, <3>1, <3>2, <4>1, <1>1, <1>2, <1>3 DEF LifeOK
      <4>2. CASE lifecycle[x].dir # lifecycle[c].dir
        <5>1. lifecycle[x].at \in {"inspected", "ready"} => lifecycle'[x].overtaken
          BY <2>2, <3>2, <4>2, <1>1, <1>3 DEF Overtakes
        <5>. QED BY <5>1, <2>2, <3>1, <1>3 DEF LifeOK
      <4>. QED BY <4>1, <4>2
    <3>3. CASE lifecycle[x].project # p
      <4>1. lifecycle[x].at # "idle" => engine'[lifecycle[x].project] = engine[lifecycle[x].project]
        BY <3>1, <3>3, <1>2 DEF LifeOK
      <4>. QED BY <4>1, <2>2, <3>1, <1>3 DEF LifeOK
    <3>. QED BY <3>2, <3>3
  <2>. QED BY <2>1, <2>2
<1>. QED BY <1>4, <1>5 DEF LifecyclesOK

LEMMA UpCommands ==
    ASSUME StackTypeOK, LifecyclesOK, NEW c \in Lifecycles, ComposeUp(c)
    PROVE  StackTypeOK' /\ LifecyclesOK'
<1>0. PICK d \in StackDirs : d = lifecycle[c].dir BY DEF StackTypeOK
<1>1. PICK p \in Projects : p = lifecycle[c].project BY DEF LifecyclesOK, LifeOK, ComposeUp
<1>2. PICK containers \in BOOLEAN :
        engine' = [engine EXCEPT ![p] =
                     [containers |-> IF containers THEN d ELSE @.containers,
                      volumes |-> IF @.volumes = Missing THEN d ELSE @.volumes]]
  BY <1>0, <1>1 DEF ComposeUp
<1>3. PICK now : now = [containers |-> IF containers THEN d ELSE engine[p].containers,
                        volumes |-> IF engine[p].volumes = Missing THEN d ELSE engine[p].volumes]
  OBVIOUS
<1>4. engine[p] \in Owned BY DEF StackTypeOK, Owned
<1>5. now \in Owned /\ now.containers \in {engine[p].containers, d} /\ now.volumes \in {engine[p].volumes, d}
  BY <1>3, <1>4 DEF Owned, Owners
<1>6. engine' = [engine EXCEPT ![p] = now] BY <1>2, <1>3
<1>. QED BY <1>0, <1>1, <1>5, <1>6, CallOfCompose DEF ComposeUp

LEMMA DownCommands ==
    ASSUME StackTypeOK, LifecyclesOK, NEW c \in Lifecycles, ComposeDown(c)
    PROVE  StackTypeOK' /\ LifecyclesOK'
<1>1. PICK p \in Projects : p = lifecycle[c].project BY DEF LifecyclesOK, LifeOK, ComposeDown
<1>2. PICK now : now = [engine[p] EXCEPT !.containers = Missing] OBVIOUS
<1>3. engine[p] \in Owned BY DEF StackTypeOK, Owned
<1>4. now \in Owned /\ now.containers = Missing /\ now.volumes = engine[p].volumes
  BY <1>2, <1>3 DEF Owned, Owners
<1>5. engine' = [engine EXCEPT ![p] = now] BY <1>1, <1>2 DEF ComposeDown
<1>. QED BY <1>1, <1>4, <1>5, CallOfCompose DEF ComposeDown

(* Users remove containers, or those and volumes.                          *)
LEMMA ResourcesGo ==
    ASSUME StackTypeOK, LifecyclesOK, NEW p \in Projects, RemoveResources(p)
    PROVE  StackTypeOK' /\ LifecyclesOK'
<1>1. PICK volumes \in BOOLEAN :
        engine' = [engine EXCEPT ![p] = [containers |-> Missing,
                                         volumes |-> IF volumes THEN Missing ELSE @.volumes]]
  BY DEF RemoveResources
<1>2. PICK now : now = [containers |-> Missing,
                        volumes |-> IF volumes THEN Missing ELSE engine[p].volumes] OBVIOUS
<1>3. engine[p] \in Owned BY DEF StackTypeOK, Owned
<1>4. now \in Owned /\ now.containers = Missing /\ now.volumes \in {Missing, engine[p].volumes}
  BY <1>2, <1>3 DEF Owned, Owners
<1>5. engine' = [engine EXCEPT ![p] = now] BY <1>1, <1>2
<1>6. /\ engine' \in [Projects -> Owned] /\ engine'[p] = now
      /\ \A q \in Projects \ {p} : engine'[q] = engine[q]
  BY <1>4, <1>5 DEF StackTypeOK, Owned
<1>7. begun' \in 0..MaxBegun BY BegunStays DEF RemoveResources, StackTypeOK
<1>8. UNCHANGED <<tree, init, lifecycle>> BY DEF RemoveResources
<1>9. StackTypeOK' BY <1>6, <1>7, <1>8 DEF StackTypeOK, Owned
<1>10. ASSUME NEW x \in Lifecycles PROVE LifeOK(x)'
  <2>1. LifeOK(x) BY DEF LifecyclesOK
  <2>. QED BY <2>1, <1>4, <1>6, <1>8 DEF LifeOK
<1>. QED BY <1>9, <1>10 DEF LifecyclesOK

-----------------------------------------------------------------------------
(* All steps.                                                              *)

LEMMA StackInvInit == StackInit => StackInv
<1>1. StackInit => LifecyclesOK BY Records DEF StackInit, LifecyclesOK, LifeOK
<1>. QED BY <1>1, TypeInit, DirectoriesInit DEF StackInv

LEMMA DirectoriesRest ==
    ASSUME DirectoriesOK, UNCHANGED <<tree, init>> PROVE DirectoriesOK'
BY DEF DirectoriesOK, EmptyOK, WholeOK, PublishOK, MoverOK

LEMMA LifecyclesRest ==
    ASSUME LifecyclesOK, UNCHANGED <<engine, lifecycle>> PROVE LifecyclesOK'
BY DEF LifecyclesOK, LifeOK

LEMMA InitSteps ==
    ASSUME StackInv, NEW p \in Projects,
           \/ ReserveDirectory(p) \/ StopInit(p) \/ RemoveResources(p)
           \/ \E e \in Entries : MoveEntry(p, e)
           \/ \E d \in StackDirs : StageStack(p, d)
    PROVE  StackInv'
<1>0. StackTypeOK /\ DirectoriesOK /\ LifecyclesOK BY DEF StackInv
<1>1. CASE ReserveDirectory(p)
  BY <1>0, <1>1, ReserveType, ReserveDirectories, LifecyclesRest DEF StackInv, ReserveDirectory
<1>2. CASE StopInit(p)
  BY <1>0, <1>2, StopType, OneInitRests, LifecyclesRest DEF StackInv, StopInit
<1>3. CASE RemoveResources(p)
  BY <1>0, <1>3, ResourcesGo, DirectoriesRest DEF StackInv, RemoveResources
<1>4. ASSUME NEW e \in Entries, MoveEntry(p, e) PROVE StackInv'
  BY <1>0, <1>4, MoveType, MoveDirectories, LifecyclesRest DEF StackInv, MoveEntry
<1>5. ASSUME NEW d \in StackDirs, StageStack(p, d) PROVE StackInv'
  BY <1>0, <1>5, StageType, OneInitRests, LifecyclesRest DEF StackInv, StageStack
<1>. QED BY <1>1, <1>2, <1>3, <1>4, <1>5

LEMMA CommandSteps ==
    ASSUME StackInv, NEW c \in Lifecycles,
           \/ CheckStack(c) \/ Preflight(c) \/ ComposeUp(c) \/ ComposeDown(c) \/ GiveUpLifecycle(c)
           \/ \E d \in StackDirs, kind \in {"up", "down"} : LoadStack(c, d, kind)
    PROVE  StackInv'
<1>0. StackTypeOK /\ DirectoriesOK /\ LifecyclesOK BY DEF StackInv
<1>1. UNCHANGED <<tree, init>>
  BY DEF CheckStack, Preflight, ComposeUp, ComposeDown, GiveUpLifecycle, LoadStack
<1>2. DirectoriesOK' BY <1>0, <1>1, DirectoriesRest
<1>3. StackTypeOK' /\ LifecyclesOK'
  <2>1. CASE CheckStack(c) BY <1>0, <2>1, CheckCommands
  <2>2. CASE Preflight(c) BY <1>0, <2>2, PreflightCommands
  <2>3. CASE ComposeUp(c) BY <1>0, <2>3, UpCommands
  <2>4. CASE ComposeDown(c) BY <1>0, <2>4, DownCommands
  <2>5. CASE GiveUpLifecycle(c) BY <1>0, <2>5, Ends DEF GiveUpLifecycle
  <2>6. ASSUME NEW d \in StackDirs, NEW kind \in {"up", "down"}, LoadStack(c, d, kind)
        PROVE  StackTypeOK' /\ LifecyclesOK'
    BY <1>0, <2>6, LoadCommands
  <2>. QED BY <2>1, <2>2, <2>3, <2>4, <2>5, <2>6
<1>. QED BY <1>2, <1>3 DEF StackInv

LEMMA UserSteps ==
    ASSUME StackInv, NEW d \in StackDirs,
           \/ RemoveStack(d)
           \/ \E copy \in StackDirs : CopyStack(d, copy)
           \/ \E e \in Entries : EditStack(d, e)
    PROVE  StackInv'
<1>0. StackTypeOK /\ DirectoriesOK /\ LifecyclesOK BY DEF StackInv
<1>1. LifecyclesOK' BY <1>0, LifecyclesRest DEF RemoveStack, CopyStack, EditStack
<1>2. CASE RemoveStack(d) BY <1>0, <1>1, <1>2, RemoveType, RemoveDirectories DEF StackInv
<1>3. ASSUME NEW copy \in StackDirs, CopyStack(d, copy) PROVE StackInv'
  BY <1>0, <1>1, <1>3, CopyType, CopyDirectories DEF StackInv
<1>4. ASSUME NEW e \in Entries, EditStack(d, e) PROVE StackInv'
  BY <1>0, <1>1, <1>4, EditType, EditDirectories DEF StackInv
<1>. QED BY <1>2, <1>3, <1>4

LEMMA StackInvNext == ASSUME StackInv, [StackNext]_stackVars PROVE StackInv'
<1>1. CASE StackNext BY <1>1, InitSteps, CommandSteps, UserSteps DEF StackNext
<1>2. CASE UNCHANGED stackVars
  <2>1. UNCHANGED <<tree, init, engine, lifecycle, begun>> BY <1>2 DEF stackVars
  <2>2. StackTypeOK' BY <2>1 DEF StackInv, StackTypeOK
  <2>. QED BY <2>1, <2>2, DirectoriesRest, LifecyclesRest DEF StackInv
<1>. QED BY <1>1, <1>2

LEMMA WholeStacks == ASSUME StackInv PROVE StacksAreWhole
<1>. SUFFICES ASSUME NEW d \in StackDirs, Loadable(d), NEW e \in Entries
              PROVE  tree[d].entry[e] \in {tree[d].entry["stack.json"], "edited"}
  BY DEF StacksAreWhole
<1>1. tree[d].entry["stack.json"] # Missing BY ServerStackAssumption DEF Loadable
<1>. QED BY <1>1 DEF StackInv, DirectoriesOK, WholeOK

(* True of a ready command at any time, its call of Compose included.      *)
LEMMA Stays ==
    ASSUME StackInv, [StackNext]_stackVars, NEW c \in Lifecycles PROVE ResourcesStay(c)
<1>. SUFFICES ASSUME lifecycle[c].at = "ready", ~lifecycle[c].overtaken
              PROVE  {engine[lifecycle[c].project].containers,
                      engine[lifecycle[c].project].volumes} \subseteq {Missing, lifecycle[c].dir}
  BY DEF ResourcesStay
<1>. QED BY DEF StackInv, LifecyclesOK, LifeOK

(* Where directories, calls and resources stay within their types.         *)
THEOREM StacksTypeCorrect == StackSpec => []StackTypeOK
<1>1. StackInv => StackTypeOK BY DEF StackInv
<1>. QED BY <1>1, StackInvInit, StackInvNext, PTL DEF StackSpec

(* StacksAreSafe: what loads came from one Init, whatever was interrupted, *)
(* copied or edited meanwhile; Up and Down of a command nobody overtook    *)
(* touch only what nobody or their own directory owns.                     *)
THEOREM StacksAreAlwaysSafe == StackSpec => StacksAreSafe
<1>1. ASSUME StackInv, [StackNext]_stackVars
      PROVE  [StacksAreWhole' /\ \A c \in Lifecycles : ResourcesStay(c)]_stackVars
  <2>1. StackInv' BY <1>1, StackInvNext
  <2>2. StacksAreWhole' BY <2>1, WholeStacks, PTL
  <2>3. \A c \in Lifecycles : ResourcesStay(c) BY <1>1, Stays
  <2>. QED BY <2>2, <2>3
<1>. QED BY <1>1, StackInvInit, StackInvNext, PTL DEF StackSpec, StacksAreSafe
=============================================================================

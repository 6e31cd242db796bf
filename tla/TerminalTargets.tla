--------------------------- MODULE TerminalTargets ---------------------------
(***************************************************************************)
(* The targets of one dashboard (internal/tui/effects.go, extensions.go)   *)
(* and the sessions that its connect commands get from the connection      *)
(* manager: switching, editing and adding targets, setting up a server     *)
(* that becomes one.  What the file keeps of them is ConfigFile's.         *)
(*                                                                         *)
(* Of the manager only what the dashboard can tell apart is kept; the rest *)
(* is ConnectionManager.  A session bears the name of the command whose    *)
(* Open made it.  The command is a goroutine: it may be overtaken by the   *)
(* user and by later commands at every step.                               *)
(***************************************************************************)
EXTENDS Naturals, FiniteSets

CONSTANTS
    TargetIDs,
    Configs,       \* what a target's configuration can be
    Absent,        \* no target, no session
    MaxCommands,   \* bound: connect commands
    MaxSaves       \* bound: forms and setups

Commands == 1..MaxCommands

ASSUME TerminalTargetsAssumption ==
    /\ TargetIDs # {} /\ Configs # {}
    /\ MaxCommands \in Nat /\ MaxSaves \in Nat /\ Absent \notin Configs \cup Commands

VARIABLES
    targets,       \* m.targets
    activeTarget,
    tabs,          \* m.states: Session, Retiring and ConnectPending of each target
    command,       \* the connect commands
    sessions,      \* what the manager has made for them
    live,          \* m.entries, by target
    form,          \* the target that is being saved, with the whole list
    setup,         \* the server setup and the target it made
    overtaken,     \* history: a cancelled command has opened a session
    saves          \* to bound the forms and setups

targetVars == <<targets, activeTarget, tabs, command, sessions, live, form, setup, overtaken, saves>>

TargetList == [TargetIDs -> Configs \cup {Absent}]
Sessions == Commands \cup {Absent}

Tab == [session : Sessions, retiring : Sessions, pending : BOOLEAN]
NewTab == [session |-> Absent, retiring |-> Absent, pending |-> FALSE]

Command == [at : {"unused", "begun", "checking", "opening", "waiting", "answered", "done"},
            target : TargetIDs, config : Configs, prior : Sessions,
            entry : Sessions,
            current : BOOLEAN]                   \* its generation counts, nor is it cancelled

(* The target that the dashboard starts with, whichever it is.             *)
First == CHOOSE t \in TargetIDs : TRUE
FirstConfig == CHOOSE config \in Configs : TRUE

NewCommandRecord(t, config, prior) ==
    [at |-> IF prior = Absent THEN "checking" ELSE "begun", target |-> t, config |-> config,
     prior |-> prior, entry |-> Absent, current |-> TRUE]
Unused == [NewCommandRecord(First, FirstConfig, Absent) EXCEPT !.at = "unused", !.current = FALSE]
NoForm == [at |-> "none", target |-> First, list |-> [t \in TargetIDs |-> Absent]]
NoSetup == [at |-> "none", target |-> First, config |-> FirstConfig]

TargetsInit ==
    /\ \E listed \in SUBSET TargetIDs :
         /\ First \in listed
         /\ targets = [t \in TargetIDs |-> IF t \in listed THEN FirstConfig ELSE Absent]
    /\ activeTarget = First /\ tabs = [t \in TargetIDs |-> NewTab]
    /\ command = [c \in Commands |-> Unused] /\ sessions = [c \in Commands |-> "unused"]
    /\ live = [t \in TargetIDs |-> Absent]
    /\ form = NoForm /\ setup = NoSetup /\ overtaken = FALSE /\ saves = 0

-----------------------------------------------------------------------------
(* connect: the operation cancels the command before it.                   *)

Retired(cmds) == [c \in Commands |-> [cmds[c] EXCEPT !.current = FALSE]]

NewCommand(t, list, tab) ==
    /\ \E c \in Commands :
         /\ command[c].at = "unused" /\ \A d \in Commands : d < c => command[d].at # "unused"
         /\ command' = [Retired(command) EXCEPT ![c] =
                          NewCommandRecord(t, list[t], tab.retiring)]
    /\ tabs' = [u \in TargetIDs |-> IF u = t THEN [tab EXCEPT !.pending = TRUE]
                                    ELSE [tabs[u] EXCEPT !.pending = FALSE]]

(* At the start, and when r is pressed without a session.                  *)
Reconnect ==
    /\ targets[activeTarget] # Absent /\ tabs[activeTarget].session = Absent
    /\ form.at = "none"
    /\ NewCommand(activeTarget, targets, tabs[activeTarget])
    /\ UNCHANGED <<targets, activeTarget, sessions, live, form, setup, overtaken, saves>>

(* stopAll, then the target's session or a new command.                    *)
SwitchTarget(t) ==
    /\ t # activeTarget /\ targets[t] # Absent /\ form.at = "none"
    /\ activeTarget' = t
    /\ IF tabs[t].session # Absent
       THEN /\ command' = Retired(command)
            /\ tabs' = [u \in TargetIDs |-> [tabs[u] EXCEPT !.pending = FALSE]]
       ELSE NewCommand(t, targets, tabs[t])
    /\ UNCHANGED <<targets, sessions, live, form, setup, overtaken, saves>>

Closed(c) == IF sessions[c] = "open" THEN "closed" ELSE sessions[c]
WithoutEntry(c) == [t \in TargetIDs |-> IF live[t] = c THEN Absent ELSE live[t]]

ClosePrior(c) ==
    LET prior == command[c].prior IN
    /\ command[c].at = "begun"
    /\ command' = [command EXCEPT ![c].at = "checking", ![c].prior = Absent]
    /\ sessions' = [sessions EXCEPT ![prior] = Closed(prior)] /\ live' = WithoutEntry(prior)
    /\ UNCHANGED <<targets, activeTarget, tabs, form, setup, overtaken, saves>>

CheckCancelled(c) ==
    /\ command[c].at = "checking"
    /\ command' = [command EXCEPT ![c].at = IF command[c].current THEN "opening" ELSE "done"]
    /\ UNCHANGED <<targets, activeTarget, tabs, sessions, live, form, setup, overtaken, saves>>

(* Manager.Open: the entry of the same configuration is shared, that of    *)
(* another configuration of the target is replaced.                        *)
OpenSession(c) ==
    LET t == command[c].target
        e == live[t] IN
    /\ command[c].at = "opening"
    /\ IF e # Absent /\ command[e].config = command[c].config
       THEN /\ command' = [command EXCEPT ![c].at = "waiting", ![c].entry = e]
            /\ UNCHANGED <<sessions, live>>
       ELSE /\ command' = [command EXCEPT ![c].at = "waiting", ![c].entry = c]
            /\ sessions' = [s \in Commands |-> IF s = c THEN "connecting"
                                               ELSE IF s = e THEN Closed(s) ELSE sessions[s]]
            /\ live' = [live EXCEPT ![t] = c]
    /\ overtaken' = (overtaken \/ ~command[c].current)
    /\ UNCHANGED <<targets, activeTarget, tabs, form, setup, saves>>

Connected(c) ==
    /\ sessions[c] = "connecting"
    /\ \/ /\ live[command[c].target] = c /\ sessions' = [sessions EXCEPT ![c] = "open"]
          /\ UNCHANGED live
       \/ sessions' = [sessions EXCEPT ![c] = "failed"] /\ live' = WithoutEntry(c)
    /\ UNCHANGED <<targets, activeTarget, tabs, command, form, setup, overtaken, saves>>

OpenReturns(c) ==
    LET e == command[c].entry IN
    /\ command[c].at = "waiting"
    /\ \/ /\ command[c].current /\ sessions[e] # "connecting"
          /\ command' = [command EXCEPT ![c].at = "answered",
                                        ![c].entry = IF sessions[e] = "failed" THEN Absent ELSE @]
       \/ /\ ~command[c].current                 \* its answer, if any, will be dropped
          /\ command' = [command EXCEPT ![c].at = "done"]
    /\ UNCHANGED <<targets, activeTarget, tabs, sessions, live, form, setup, overtaken, saves>>

(* Mutant: any answer for the target is taken. *)
AnyAnswer(c) == command[c].target = activeTarget

Expected(c) == command[c].current /\ command[c].target = activeTarget

AcceptConnected(c) ==
    LET t == command[c].target IN
    /\ command[c].at = "answered"
    /\ command' = [command EXCEPT ![c].at = "done", ![c].current = FALSE]
    /\ tabs' = IF ~Expected(c) THEN tabs
               ELSE [tabs EXCEPT ![t] =
                       [tabs[t] EXCEPT !.pending = FALSE, !.session = command[c].entry,
                            !.retiring = IF command[c].entry = Absent THEN @ ELSE Absent]]
    /\ UNCHANGED <<targets, activeTarget, sessions, live, form, setup, overtaken, saves>>

-----------------------------------------------------------------------------
(* The target form: saveTarget and acceptSaved.                            *)

SaveTarget(t, config) ==
    /\ form.at = "none" /\ saves < MaxSaves /\ saves' = saves + 1
    /\ form' = [at |-> "saving", target |-> t, list |-> [targets EXCEPT ![t] = config]]
    /\ UNCHANGED <<targets, activeTarget, tabs, command, sessions, live, setup, overtaken>>

EditedTab(t) ==
    [NewTab EXCEPT !.retiring = IF tabs[t].session # Absent THEN tabs[t].session
                                ELSE tabs[t].retiring]

AcceptSaved ==
    LET t == form.target IN
    /\ form.at = "saving"
    /\ form' = NoForm
    /\ \/ UNCHANGED <<targets, activeTarget, tabs, command>>          \* it is not written
       \/ /\ targets' = form.list /\ activeTarget' = t
          /\ NewCommand(t, targets', EditedTab(t))
    /\ UNCHANGED <<sessions, live, setup, overtaken, saves>>

-----------------------------------------------------------------------------
(* Setting up a server: it keeps running when its window is closed.        *)

BeginSetup(t, config) ==
    /\ setup.at = "none" /\ form.at = "none" /\ targets[t] = Absent
    /\ saves < MaxSaves /\ saves' = saves + 1
    /\ setup' = [at |-> "working", target |-> t, config |-> config]
    /\ UNCHANGED <<targets, activeTarget, tabs, command, sessions, live, form, overtaken>>

(* The server is made and its target saved, or not.  A target saved        *)
(* meanwhile under the same name stays as it is.                           *)
AcceptSetup ==
    LET t == setup.target IN
    /\ setup.at = "working"
    /\ setup' = [NoSetup EXCEPT !.at = "done"]
    /\ \/ UNCHANGED <<targets, tabs>>
       \/ /\ targets[t] = Absent
          /\ targets' = [targets EXCEPT ![t] = setup.config]
          /\ tabs' = [tabs EXCEPT ![t] = NewTab]
    /\ UNCHANGED <<activeTarget, command, sessions, live, form, overtaken, saves>>

TargetsNext ==
    \/ Reconnect \/ AcceptSaved \/ AcceptSetup
    \/ \E c \in Commands :
        \/ ClosePrior(c) \/ CheckCancelled(c) \/ OpenSession(c) \/ Connected(c) \/ OpenReturns(c)
        \/ AcceptConnected(c)
    \/ \E t \in TargetIDs :
         SwitchTarget(t) \/ \E config \in Configs : SaveTarget(t, config) \/ BeginSetup(t, config)

TargetsSpec == TargetsInit /\ [][TargetsNext]_targetVars

-----------------------------------------------------------------------------
(* Properties.                                                             *)

TargetsTypeOK ==
    /\ {targets, form.list} \subseteq TargetList
    /\ activeTarget \in TargetIDs
    /\ tabs \in [TargetIDs -> Tab] /\ command \in [Commands -> Command]
    /\ sessions \in [Commands -> {"unused", "connecting", "open", "failed", "closed"}]
    /\ live \in [TargetIDs -> Sessions]
    /\ form.at \in {"none", "saving"} /\ form.target \in TargetIDs
    /\ setup.at \in {"none", "working", "done"} /\ setup.target \in TargetIDs
    /\ setup.config \in Configs /\ overtaken \in BOOLEAN /\ saves \in 0..MaxSaves

(* The session of a target was opened for it, with the configuration that  *)
(* it has now: edited or switched while a connection opens, it never gets  *)
(* the session of what it was (effects.go:77-124, 821-839).                *)
SessionsAreCurrent ==
    \A t \in TargetIDs :
        tabs[t].session # Absent =>
            command[tabs[t].session].target = t /\ command[tabs[t].session].config = targets[t]

(* A session in use is not one that has been closed or replaced.  A        *)
(* cancelled command may pass its last look at its context and call Open   *)
(* after the next one has: that one excepted (effects.go:97-100).          *)
SessionsAreOpen ==
    \A t \in TargetIDs :
        ~overtaken /\ tabs[t].session # Absent => sessions[tabs[t].session] = "open"

(* A target shown as connecting is the active one, and the answer it waits *)
(* for will count (effects.go:77-110, model.go:268-313).                   *)
ConnectIsAwaited ==
    \A t \in TargetIDs : tabs[t].pending =>
        t = activeTarget /\ \E c \in Commands : Expected(c) /\ command[c].at # "done"

TargetsAreConnected == SessionsAreCurrent /\ SessionsAreOpen /\ ConnectIsAwaited
=============================================================================

-------------------------- MODULE ConnectionManager --------------------------
(***************************************************************************)
(* The sessions of one connection.Manager (internal/connection): calls of  *)
(* Open and Close, the goroutine initialize that connects each entry, and  *)
(* Session.Close, all running concurrently.  A critical section of m.mu is *)
(* one step; what waits outside of it (e.ready, sync.Once, a process that  *)
(* stops) is a step of its own.                                            *)
(*                                                                         *)
(* A key is a target ID with one configuration of that target.  Connecting *)
(* (credentials, runtime, health or version request) may succeed or fail   *)
(* at any time, so the cancellations that make it fail sooner are left     *)
(* out.  A process that is asked to stop is gone when stop() returns.      *)
(***************************************************************************)
EXTENDS Naturals

CONSTANTS
    Keys,       \* pairs <<target ID, configuration>>
    Calls,      \* calls of Open; an entry is named after the call that makes it
    Closers,    \* calls of Manager.Close
    None

TargetID(k) == k[1]

ASSUME ManagerAssumption == Keys # {} /\ None \notin Calls

VARIABLES
    closed,    \* m.closed; m.ctx is cancelled in the same critical section
    entries,   \* m.entries
    entry,     \* entry[e]: the entry, its session and what the session runs
    call,      \* call[o]: the locals of an Open, then the session it returned
    closer     \* closer[c]: the locals of a Manager.Close

vars == <<closed, entries, entry, call, closer>>

(* phase: up to "connected" or "failed" initialize is running, "ready" is  *)
(* the closed channel.  closing: how far the once of Session.Close is.     *)
Entry == [key : Keys,
          phase : {"unused", "connecting", "starting", "connected", "failed", "ready"},
          session : BOOLEAN, replaced : BOOLEAN,
          closing : {"no", "begun", "stopping", "done"},
          server : BOOLEAN]      \* its server or SSH process runs

NewEntry(k, phase) ==
    [key |-> k, phase |-> phase, session |-> FALSE, replaced |-> FALSE,
     closing |-> "no", server |-> FALSE]

NoCall == [pc |-> "idle", entry |-> None, retiring |-> {}]

TypeOK ==
    /\ closed \in BOOLEAN
    /\ entries \in [Keys -> Calls \cup {None}]
    /\ entry \in [Calls -> Entry]
    /\ call \in [Calls -> [pc : {"idle", "wait", "holding", "failed"},
                             entry : Calls \cup {None}, retiring : SUBSET Calls]]
    /\ closer \in [Closers -> [pc : {"idle", "closing", "refused"},
                               waiting : SUBSET Calls]]
    /\ \A e \in Calls : entry[e].closing # "no" => entry[e].session

Init ==
    /\ closed = FALSE
    /\ entries = [k \in Keys |-> None]
    /\ entry = [e \in Calls |-> NewEntry(CHOOSE k \in Keys : TRUE, "unused")]
    /\ call = [o \in Calls |-> NoCall]
    /\ closer = [c \in Closers |-> [pc |-> "idle", waiting |-> {}]]

-----------------------------------------------------------------------------
(* Open.                                                                   *)

Registered(e) == entries[entry[e].key] = e

(* Mutant: only the entry of the same key is replaced. *)
PriorOfKey(k) == {entries[k]} \ {None}

(* The target's entries under other configurations.                        *)
Prior(k) == {entries[x] : x \in {y \in Keys : TargetID(y) = TargetID(k)}} \ {None}

OpenExisting(o, k) ==
    /\ call[o].pc = "idle" /\ ~closed /\ entries[k] # None
    /\ call' = [call EXCEPT ![o] = [NoCall EXCEPT !.pc = "wait", !.entry = entries[k]]]
    /\ UNCHANGED <<closed, entries, entry, closer>>

OpenNew(o, k) ==
    /\ call[o].pc = "idle" /\ ~closed /\ entries[k] = None
    /\ entries' = [x \in Keys |-> IF x = k THEN o
                                  ELSE IF entries[x] \in Prior(k) THEN None
                                  ELSE entries[x]]
    /\ entry' = [e \in Calls |->
                    IF e = o THEN NewEntry(k, "connecting")
                    ELSE IF e \in Prior(k) THEN [entry[e] EXCEPT !.replaced = TRUE]
                    ELSE entry[e]]
    /\ call' = [call EXCEPT ![o] = [pc |-> "wait", entry |-> o, retiring |-> Prior(k)]]
    /\ UNCHANGED <<closed, closer>>

(* Session.Close as its callers see it: the first one begins it, everyone  *)
(* returns when it is done; an entry without session has nothing to close. *)
CanBegin(e) == entry[e].phase = "ready" /\ entry[e].session /\ entry[e].closing = "no"
Begin(e) == entry' = [entry EXCEPT ![e].closing = "begun"]

(* Mutant: an entry that has no session is waited for too. *)
ClosedSession(e) == entry[e].phase = "ready" /\ entry[e].closing = "done"

Closed(e) == entry[e].phase = "ready" /\ (entry[e].session => entry[e].closing = "done")

(* The replaced entries are waited for and closed one by one.              *)
Retire(o, e) ==
    /\ e \in call[o].retiring
    /\ \/ /\ CanBegin(e) /\ Begin(e)
          /\ UNCHANGED call
       \/ /\ Closed(e)
          /\ call' = [call EXCEPT ![o].retiring = @ \ {e}]
          /\ UNCHANGED entry
    /\ UNCHANGED <<closed, entries, closer>>

(* The three cases of the select: Go takes any that is ready.              *)
Fail(o) ==
    /\ call[o].pc = "wait" /\ call[o].retiring = {}
    /\ call' = [call EXCEPT ![o].pc = "failed"]
    /\ UNCHANGED <<closed, entries, entry, closer>>

Cancelled(o)  == Fail(o)
FailClosed(o) == closed /\ Fail(o)

Return(o) ==
    LET session == entry[call[o].entry].session
    IN  /\ call[o].pc = "wait" /\ call[o].retiring = {}
        /\ entry[call[o].entry].phase = "ready"
        /\ call' = [call EXCEPT ![o].pc = IF session THEN "holding" ELSE "failed"]
        /\ UNCHANGED <<closed, entries, entry, closer>>

(* The caller may close its session, or leave it open for the next Open.   *)
CloseSession(o) ==
    /\ call[o].pc = "holding"
    /\ CanBegin(call[o].entry) /\ Begin(call[o].entry)
    /\ UNCHANGED <<closed, entries, call, closer>>

-----------------------------------------------------------------------------
(* initialize.                                                             *)

(* Mutants: whatever has the key leaves the map; nothing leaves it.        *)
WithoutKey(e) == [entries EXCEPT ![entry[e].key] = None]
WithAll(e) == entries

(* The entry leaves the map, unless another one has taken its key.         *)
Without(e) == [k \in Keys |-> IF entries[k] = e THEN None ELSE entries[k]]

Connect(e, from, phase, server) ==
    /\ entry[e].phase \in from
    /\ entry' = [entry EXCEPT ![e].phase = phase, ![e].server = server]
    /\ UNCHANGED <<closed, entries, call, closer>>

Launch(e)    == Connect(e, {"connecting"}, "starting", TRUE)
Connected(e) == Connect(e, {"connecting", "starting"}, "connected", entry[e].server)

ConnectFailed(e) == Connect(e, {"connecting", "starting"}, "failed", FALSE)

Unwanted(e) == closed \/ entry[e].replaced

Publish(e) ==
    LET connected == entry[e].phase = "connected"
    IN  /\ entry[e].phase \in {"connected", "failed"}
        /\ IF connected /\ ~Unwanted(e)
           THEN /\ entry' = [entry EXCEPT ![e].phase = "ready", ![e].session = TRUE]
                /\ UNCHANGED entries
           ELSE /\ entry' = [entry EXCEPT ![e].phase = "ready",
                                         ![e].server = @ /\ ~connected]
                /\ entries' = Without(e)
        /\ UNCHANGED <<closed, call, closer>>

Initialize(e) == Launch(e) \/ Connected(e) \/ ConnectFailed(e) \/ Publish(e)

-----------------------------------------------------------------------------
(* Session.CloseFunc and Manager.Close.                                    *)

Deregister(e) ==
    /\ entry[e].closing = "begun"
    /\ entry' = [entry EXCEPT ![e].closing = "stopping"]
    /\ entries' = Without(e)
    /\ UNCHANGED <<closed, call, closer>>

StopServer(e) ==
    /\ entry[e].closing = "stopping"
    /\ entry' = [entry EXCEPT ![e].closing = "done", ![e].server = FALSE]
    /\ UNCHANGED <<closed, entries, call, closer>>

CloseFunc(e) == Deregister(e) \/ StopServer(e)

Close(c) ==
    /\ closer[c].pc = "idle"
    /\ closed' = TRUE
    /\ closer' = [closer EXCEPT ![c] =
                    IF closed THEN [pc |-> "refused", waiting |-> {}]
                    ELSE [pc |-> "closing",
                          waiting |-> {entries[k] : k \in Keys} \ {None}]]
    /\ UNCHANGED <<entries, entry, call>>

CloseEntry(c, e) ==
    /\ closer[c].pc = "closing" /\ e \in closer[c].waiting
    /\ \/ /\ CanBegin(e) /\ Begin(e)
          /\ UNCHANGED closer
       \/ /\ Closed(e)
          /\ closer' = [closer EXCEPT ![c].waiting = @ \ {e}]
          /\ UNCHANGED entry
    /\ UNCHANGED <<closed, entries, call>>

CloseReturned(c) == closer[c].pc = "closing" /\ closer[c].waiting = {}

-----------------------------------------------------------------------------

(* Goroutines run; startup, stopping and killing a process have timeouts.  *)
Progress ==
    \/ \E o \in Calls : (\E e \in Calls : Retire(o, e)) \/ FailClosed(o) \/ Return(o)
    \/ \E e \in Calls : Initialize(e) \/ CloseFunc(e)
    \/ \E c \in Closers, e \in Calls : CloseEntry(c, e)

(* Nobody has to call, to cancel, or to close.                             *)
Next ==
    \/ Progress
    \/ \E o \in Calls :
         \/ \E k \in Keys : OpenExisting(o, k) \/ OpenNew(o, k)
         \/ Cancelled(o) \/ CloseSession(o)
    \/ \E c \in Closers : Close(c)

Spec == Init /\ [][Next]_vars

(* Everything a behaviour of Spec does, it does once: it is finite, so     *)
(* this is weak fairness of every goroutine.                               *)
FairSpec == Spec /\ WF_vars(Progress)
-----------------------------------------------------------------------------
(* What the manager promises.                                              *)

Open(e) == entry[e].phase = "ready" /\ entry[e].session /\ entry[e].closing = "no"

(* A target has one session at a time: two open sessions of one target ID  *)
(* exist only while the older one is about to be closed by its replacer.   *)
OneSessionPerTarget ==
    \A e, f \in Calls :
        /\ e # f /\ TargetID(entry[e].key) = TargetID(entry[f].key)
        /\ Open(e) /\ Open(f)
        => \E o \in Calls : {e, f} \cap call[o].retiring # {}

(* Every server process has an owner that will stop it: the goroutine that *)
(* started it, the map Manager.Close goes through, a Session.Close under   *)
(* way, or the Open that replaced it.                                      *)
EveryServerHasAnOwner ==
    \A e \in Calls : entry[e].server =>
        \/ entry[e].phase # "ready"
        \/ Registered(e)
        \/ entry[e].closing \in {"begun", "stopping"}
        \/ \E o \in Calls : e \in call[o].retiring

(* An Open never joins a session whose Close had returned before.          *)
ClosedIsNotReused ==
    [][\A o \in Calls : call[o].pc = "idle" /\ call'[o].pc # "idle" =>
            entry'[call'[o].entry].closing # "done"]_vars

(* Nothing hangs and nothing leaks while the program goes on: in the end   *)
(* every Open and every Close has returned, and a closed manager runs no   *)
(* server.  (Calls are made once, so this is about each of them.)          *)
EverythingSettles ==
    <>[](/\ \A o \in Calls : call[o].pc # "wait"
         /\ \A c \in Closers : closer[c].pc = "closing" => CloseReturned(c)
         /\ closed => \A e \in Calls : ~entry[e].server)

(* "Close waits for an in-flight startup to clean up its process group":   *)
(* when Close has returned, no process the manager started is running.     *)
CloseLeavesNothingRunning ==
    \A c \in Closers : CloseReturned(c) =>
        \A e \in Calls : ~entry[e].server
=============================================================================

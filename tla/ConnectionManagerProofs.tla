----------------------- MODULE ConnectionManagerProofs -----------------------
(***************************************************************************)
(* Theorems of ConnectionManager, for any number of targets,               *)
(* configurations and calls.                                               *)
(*                                                                         *)
(* The invariant follows an entry: while it is in the map it is used and   *)
(* not closed; once it has left, it is retired by the Open that replaced   *)
(* it, has nothing to close, or its CloseFunc is past the map.             *)
(***************************************************************************)
EXTENDS ConnectionManager, TLAPS

OneEntryPerTarget ==
    \A k, l \in Keys :
        entries[k] # None /\ entries[l] # None /\ TargetID(k) = TargetID(l) => k = l

MapIsKeyed ==
    \A k \in Keys : entries[k] # None =>
        entry[entries[k]].key = k /\ entry[entries[k]].phase # "unused"

HandedOver(e) == \E o \in Calls : e \in call[o].retiring

Left(e) ==
    /\ entry[e].phase = "ready"
    /\ entry[e].session => entry[e].closing \in {"stopping", "done"}

EntryOK(e) ==
    /\ entry[e].session => entry[e].phase = "ready"
    /\ entry[e].server => \/ entry[e].phase \in {"starting", "connected"}
                          \/ entry[e].session /\ entry[e].closing # "done"
    /\ Registered(e) => entry[e].closing \in {"no", "begun"}
    /\ entry[e].phase = "unused" \/ Registered(e) \/ HandedOver(e) \/ Left(e)

CallOK(o) ==
    IF call[o].pc = "idle" THEN entry[o].phase = "unused" /\ call[o].retiring = {}
    ELSE call[o].entry \in Calls

Inv ==
    /\ TypeOK /\ OneEntryPerTarget /\ MapIsKeyed
    /\ \A e \in Calls : EntryOK(e)
    /\ \A o \in Calls : CallOK(o)

-----------------------------------------------------------------------------

(* A step that leaves the map alone keeps its shape, provided that no      *)
(* entry changes its key or becomes unused.                                *)
LEMMA SameMap ==
    ASSUME MapIsKeyed, OneEntryPerTarget, entries' = entries,
           entries \in [Keys -> Calls \cup {None}],
           \A e \in Calls : entry'[e].key = entry[e].key,
           \A e \in Calls : entry[e].phase # "unused" => entry'[e].phase # "unused"
    PROVE  MapIsKeyed' /\ OneEntryPerTarget'
<1>1. OneEntryPerTarget'
  BY DEF OneEntryPerTarget
<1>2. MapIsKeyed'
  BY ManagerAssumption DEF MapIsKeyed
<1> QED
  BY <1>1, <1>2

(* An entry that leaves the map leaves the other ones where they are.      *)
LEMMA OneLess ==
    ASSUME NEW e \in Calls, MapIsKeyed, OneEntryPerTarget, entries' = Without(e),
           entries \in [Keys -> Calls \cup {None}],
           entry \in [Calls -> Entry],
           \A f \in Calls : entry'[f].key = entry[f].key,
           \A f \in Calls : entry[f].phase # "unused" => entry'[f].phase # "unused"
    PROVE  /\ MapIsKeyed' /\ OneEntryPerTarget'
           /\ entries' \in [Keys -> Calls \cup {None}]
           /\ ~Registered(e)'
           /\ \A f \in Calls \ {e} : Registered(f)' <=> Registered(f)
<1>1. \A k \in Keys : entries'[k] = IF entries[k] = e THEN None ELSE entries[k]
  BY DEF Without
<1>2. entries' \in [Keys -> Calls \cup {None}]
  BY <1>1 DEF Without
<1>3. OneEntryPerTarget'
  BY <1>1 DEF OneEntryPerTarget
<1>4. MapIsKeyed'
  BY <1>1, ManagerAssumption DEF MapIsKeyed
<1>5. \A f \in Calls : entry[f].key \in Keys
  BY DEF Entry
<1>6. ~Registered(e)'
  BY <1>1, <1>5, ManagerAssumption DEF Registered
<1>7. \A f \in Calls \ {e} : Registered(f)' <=> Registered(f)
  BY <1>1, <1>5, ManagerAssumption DEF Registered
<1> QED
  BY <1>2, <1>3, <1>4, <1>6, <1>7

-----------------------------------------------------------------------------

LEMMA InitInv == Init => Inv
<1> SUFFICES ASSUME Init PROVE Inv
  OBVIOUS
<1> USE DEF Init
<1>1. (CHOOSE k \in Keys : TRUE) \in Keys
  BY ManagerAssumption
<1>2. \A e \in Calls : /\ entry[e].key \in Keys /\ entry[e].phase = "unused"
                       /\ ~entry[e].session /\ ~entry[e].server
                       /\ entry[e].closing = "no" /\ entry[e].replaced = FALSE
  BY <1>1 DEF NewEntry
<1>3. TypeOK
  <2>1. entry \in [Calls -> Entry]
    BY <1>1 DEF NewEntry, Entry
  <2>2. call \in [Calls -> [pc : {"idle", "wait", "holding", "failed"},
                             entry : Calls \cup {None}, retiring : SUBSET Calls]]
    BY DEF NoCall
  <2> QED
    BY <1>2, <2>1, <2>2 DEF TypeOK
<1>4. OneEntryPerTarget /\ MapIsKeyed
  BY DEF OneEntryPerTarget, MapIsKeyed
<1>5. \A e \in Calls : EntryOK(e)
  BY <1>2 DEF EntryOK
<1>6. \A o \in Calls : CallOK(o)
  BY <1>2 DEF CallOK, NoCall
<1> QED
  BY <1>3, <1>4, <1>5, <1>6 DEF Inv

-----------------------------------------------------------------------------
(* One lemma for each group of steps.                                      *)

(* The calls are as they were and no entry starts or ends being unused.    *)
LEMMA SameCalls ==
    ASSUME Inv, call' = call,
           \A o \in Calls : entry'[o].phase = "unused" <=> entry[o].phase = "unused"
    PROVE  /\ \A o \in Calls : CallOK(o)'
           /\ \A e \in Calls : HandedOver(e)' <=> HandedOver(e)
BY DEF Inv, CallOK, HandedOver

(* A session begins to be closed.                                          *)
LEMMA BeginInv ==
    ASSUME Inv, NEW e \in Calls, CanBegin(e), Begin(e), entries' = entries
    PROVE  /\ entry' \in [Calls -> Entry]
           /\ MapIsKeyed' /\ OneEntryPerTarget'
           /\ \A f \in Calls : entry'[f].closing # "no" => entry'[f].session
           /\ \A f \in Calls : entry'[f].phase = entry[f].phase
           /\ \A f \in Calls : HandedOver(f)' <=> HandedOver(f) => EntryOK(f)'
<1> USE DEF Inv
<1>1. entry \in [Calls -> Entry] /\ entries \in [Keys -> Calls \cup {None}]
  BY DEF TypeOK
<1>2. entry' \in [Calls -> Entry]
  BY <1>1 DEF Begin, Entry
<1>3. /\ \A f \in Calls \ {e} : entry'[f] = entry[f]
      /\ entry'[e].closing = "begun"
      /\ \A f \in Calls : /\ entry'[f].key = entry[f].key
                          /\ entry'[f].phase = entry[f].phase
                          /\ entry'[f].session = entry[f].session
                          /\ entry'[f].server = entry[f].server
  BY <1>1 DEF Begin, Entry
<1>4. \A f \in Calls : entry'[f].closing # "no" => entry'[f].session
  BY <1>3 DEF TypeOK, CanBegin
<1>5. MapIsKeyed' /\ OneEntryPerTarget'
  BY <1>1, <1>3, SameMap
<1>6. \A f \in Calls : Registered(f)' <=> Registered(f)
  BY <1>3 DEF Registered
<1>7. ASSUME NEW f \in Calls, HandedOver(f)' <=> HandedOver(f) PROVE EntryOK(f)'
  <2>1. CASE f = e
    BY <2>1, <1>3, <1>6, <1>7 DEF EntryOK, CanBegin, Left
  <2>2. CASE f # e
    BY <2>2, <1>3, <1>6, <1>7 DEF EntryOK, Left
  <2> QED
    BY <2>1, <2>2
<1> QED
  BY <1>2, <1>3, <1>4, <1>5, <1>7

(* A call that is under way changes, and hands over what it did before,    *)
(* but for entries that are closed.                                        *)
LEMMA CallInv ==
    ASSUME Inv, NEW o \in Calls, entries' = entries, entry' = entry,
           NEW c \in [pc : {"wait", "holding", "failed"}, entry : Calls \cup {None},
                      retiring : SUBSET Calls],
           call' = [call EXCEPT ![o] = c], closed' = closed, closer' = closer,
           c.entry \in Calls,
           \A e \in call[o].retiring \ c.retiring : Closed(e)
    PROVE  Inv'
<1> USE DEF Inv
<1>1. call'[o] = c /\ \A p \in Calls \ {o} : call'[p] = call[p]
  BY DEF TypeOK
<1>2. TypeOK'
  BY DEF TypeOK
<1>3. OneEntryPerTarget' /\ MapIsKeyed'
  BY DEF OneEntryPerTarget, MapIsKeyed
<1>4. ASSUME NEW e \in Calls PROVE EntryOK(e)'
  <2>1. HandedOver(e) => HandedOver(e)' \/ Closed(e)
    BY <1>1 DEF HandedOver
  <2>2. Closed(e) => Left(e)
    BY DEF Closed, Left
  <2>3. Registered(e)' <=> Registered(e)
    BY DEF Registered
  <2>4. EntryOK(e)
    OBVIOUS
  <2> QED
    BY <2>1, <2>2, <2>3, <2>4 DEF EntryOK, Left
<1>5. \A p \in Calls : CallOK(p)'
  BY <1>1 DEF CallOK
<1> QED
  BY <1>2, <1>3, <1>4, <1>5

LEMMA OpenExistingInv ==
    ASSUME Inv, NEW o \in Calls, NEW k \in Keys, OpenExisting(o, k)
    PROVE  Inv'
<1> DEFINE c == [NoCall EXCEPT !.pc = "wait", !.entry = entries[k]]
<1>1. entries[k] \in Calls
  BY DEF Inv, TypeOK, OpenExisting
<1>2. /\ c \in [pc : {"wait", "holding", "failed"}, entry : Calls \cup {None},
                retiring : SUBSET Calls]
      /\ c.entry \in Calls /\ call' = [call EXCEPT ![o] = c]
  BY <1>1 DEF OpenExisting, NoCall
<1>3. call[o].retiring = {}
  BY DEF Inv, CallOK, OpenExisting
<1> HIDE DEF c
<1> QED
  BY <1>2, <1>3, CallInv DEF OpenExisting

LEMMA RetireInv ==
    ASSUME Inv, NEW o \in Calls, NEW e \in Calls, Retire(o, e)
    PROVE  Inv'
<1>1. CASE CanBegin(e) /\ Begin(e) /\ UNCHANGED call
  <2>1. UNCHANGED <<closed, entries, closer>>
    BY DEF Retire
  <2> QED
    BY <1>1, <2>1, BeginInv, SameCalls DEF Inv, TypeOK
<1>2. CASE Closed(e) /\ call' = [call EXCEPT ![o].retiring = @ \ {e}] /\ UNCHANGED entry
  <2> DEFINE c == [call[o] EXCEPT !.retiring = @ \ {e}]
  <2>1. call[o].pc # "idle" /\ call[o].entry \in Calls
    BY DEF Inv, CallOK, Retire
  <2>2. /\ c \in [pc : {"wait", "holding", "failed"}, entry : Calls \cup {None},
                  retiring : SUBSET Calls]
        /\ c.entry \in Calls /\ call' = [call EXCEPT ![o] = c]
        /\ call[o].retiring \ c.retiring \subseteq {e}
    BY <1>2, <2>1 DEF Inv, TypeOK
  <2>3. UNCHANGED <<closed, entries, closer>>
    BY DEF Retire
  <2> HIDE DEF c
  <2> QED
    BY <1>2, <2>2, <2>3, CallInv
<1> QED
  BY <1>1, <1>2 DEF Retire

LEMMA AnswerInv ==
    ASSUME Inv, NEW o \in Calls, Fail(o) \/ Return(o)
    PROVE  Inv'
<1>1. call[o].pc = "wait" /\ UNCHANGED <<closed, entries, entry, closer>>
  BY DEF Fail, Return
<1>2. call[o].entry \in Calls
  BY <1>1 DEF Inv, CallOK
<1>3. PICK pc \in {"holding", "failed"} : call' = [call EXCEPT ![o].pc = pc]
  BY DEF Fail, Return
<1> DEFINE c == [call[o] EXCEPT !.pc = pc]
<1>4. /\ c \in [pc : {"wait", "holding", "failed"}, entry : Calls \cup {None},
                retiring : SUBSET Calls]
      /\ c.entry \in Calls /\ call' = [call EXCEPT ![o] = c]
      /\ c.retiring = call[o].retiring
  BY <1>2, <1>3 DEF Inv, TypeOK
<1> HIDE DEF c
<1> QED
  BY <1>1, <1>4, CallInv

LEMMA CloseSessionInv ==
    ASSUME Inv, NEW o \in Calls, CloseSession(o)
    PROVE  Inv'
<1>1. call[o].entry \in Calls
  BY DEF Inv, CallOK, CloseSession
<1> QED
  BY <1>1, BeginInv, SameCalls DEF CloseSession, Inv, TypeOK

LEMMA CloseEntryInv ==
    ASSUME Inv, NEW c \in Closers, NEW e \in Calls, CloseEntry(c, e)
    PROVE  Inv'
<1>1. CASE CanBegin(e) /\ Begin(e) /\ UNCHANGED closer
  <2>1. UNCHANGED <<closed, entries, call>>
    BY DEF CloseEntry
  <2> QED
    BY <1>1, <2>1, BeginInv, SameCalls DEF Inv, TypeOK
<1>2. CASE closer' = [closer EXCEPT ![c].waiting = @ \ {e}] /\ UNCHANGED entry
  <2>1. UNCHANGED <<closed, entries, entry, call>>
    BY <1>2 DEF CloseEntry
  <2>2. TypeOK'
    BY <1>2, <2>1 DEF Inv, TypeOK
  <2> QED
    BY <2>1, <2>2 DEF Inv, OneEntryPerTarget, MapIsKeyed, EntryOK, CallOK, HandedOver,
                      Left, Registered
<1> QED
  BY <1>1, <1>2 DEF CloseEntry

LEMMA CloseInv ==
    ASSUME Inv, NEW c \in Closers, Close(c)
    PROVE  Inv'
<1>1. UNCHANGED <<entries, entry, call>>
  BY DEF Close
<1>2. TypeOK'
  BY <1>1 DEF Inv, TypeOK, Close
<1> QED
  BY <1>1, <1>2 DEF Inv, OneEntryPerTarget, MapIsKeyed, EntryOK, CallOK, HandedOver,
                    Left, Registered

(* Starting up: the entry is neither unused before nor after, and has no   *)
(* session yet.                                                            *)
LEMMA ConnectInv ==
    ASSUME Inv, NEW e \in Calls,
           NEW from \in {{"connecting"}, {"connecting", "starting"}},
           NEW phase \in {"starting", "connected", "failed"}, NEW server \in BOOLEAN,
           server => phase \in {"starting", "connected"},
           Connect(e, from, phase, server)
    PROVE  Inv'
<1> USE DEF Inv
<1>1. entry \in [Calls -> Entry] /\ entries \in [Keys -> Calls \cup {None}]
  BY DEF TypeOK
<1>2. /\ UNCHANGED <<closed, entries, call, closer>>
      /\ entry[e].phase \in {"connecting", "starting"}
  BY DEF Connect
<1>3. /\ entry' \in [Calls -> Entry]
      /\ \A f \in Calls \ {e} : entry'[f] = entry[f]
      /\ entry'[e].phase = phase /\ entry'[e].server = server
      /\ \A f \in Calls : /\ entry'[f].key = entry[f].key
                          /\ entry'[f].session = entry[f].session
                          /\ entry'[f].closing = entry[f].closing
  BY <1>1 DEF Connect, Entry
<1>4. TypeOK'
  BY <1>2, <1>3 DEF TypeOK
<1>5. \A f \in Calls : entry'[f].phase = "unused" <=> entry[f].phase = "unused"
  BY <1>2, <1>3
<1>6. MapIsKeyed' /\ OneEntryPerTarget'
  BY <1>1, <1>2, <1>3, <1>5, SameMap
<1>7. /\ \A o \in Calls : CallOK(o)'
      /\ \A f \in Calls : HandedOver(f)' <=> HandedOver(f)
  BY <1>2, <1>5, SameCalls
<1>8. ASSUME NEW f \in Calls PROVE EntryOK(f)'
  <2>1. Registered(f)' <=> Registered(f)
    BY <1>2, <1>3 DEF Registered
  <2>2. CASE f = e
    BY <2>1, <2>2, <1>2, <1>3, <1>7 DEF EntryOK, Left
  <2>3. CASE f # e
    BY <2>1, <2>3, <1>3, <1>7 DEF EntryOK, Left
  <2> QED
    BY <2>2, <2>3
<1> QED
  BY <1>4, <1>6, <1>7, <1>8

LEMMA StopServerInv ==
    ASSUME Inv, NEW e \in Calls, StopServer(e)
    PROVE  Inv'
<1> USE DEF Inv
<1>1. entry \in [Calls -> Entry] /\ entries \in [Keys -> Calls \cup {None}]
  BY DEF TypeOK
<1>2. UNCHANGED <<closed, entries, call, closer>> /\ entry[e].closing = "stopping"
  BY DEF StopServer
<1>3. /\ entry' \in [Calls -> Entry]
      /\ \A f \in Calls \ {e} : entry'[f] = entry[f]
      /\ entry'[e].closing = "done" /\ ~entry'[e].server
      /\ \A f \in Calls : /\ entry'[f].key = entry[f].key
                          /\ entry'[f].phase = entry[f].phase
                          /\ entry'[f].session = entry[f].session
  BY <1>1 DEF StopServer, Entry
<1>4. TypeOK'
  BY <1>2, <1>3 DEF TypeOK
<1>5. MapIsKeyed' /\ OneEntryPerTarget'
  BY <1>1, <1>2, <1>3, SameMap
<1>6. /\ \A o \in Calls : CallOK(o)'
      /\ \A f \in Calls : HandedOver(f)' <=> HandedOver(f)
  BY <1>2, <1>3, SameCalls
<1>7. ASSUME NEW f \in Calls PROVE EntryOK(f)'
  <2>1. Registered(f)' <=> Registered(f)
    BY <1>2, <1>3 DEF Registered
  <2>2. CASE f = e
    BY <2>1, <2>2, <1>2, <1>3, <1>6 DEF EntryOK, Left
  <2>3. CASE f # e
    BY <2>1, <2>3, <1>3, <1>6 DEF EntryOK, Left
  <2> QED
    BY <2>2, <2>3
<1> QED
  BY <1>4, <1>5, <1>6, <1>7

LEMMA DeregisterInv ==
    ASSUME Inv, NEW e \in Calls, Deregister(e)
    PROVE  Inv'
<1> USE DEF Inv
<1>1. entry \in [Calls -> Entry] /\ entries \in [Keys -> Calls \cup {None}]
  BY DEF TypeOK
<1>2. /\ UNCHANGED <<closed, call, closer>> /\ entries' = Without(e)
      /\ entry[e].closing = "begun" /\ entry[e].session
  BY DEF Deregister, TypeOK
<1>3. /\ entry' \in [Calls -> Entry]
      /\ \A f \in Calls \ {e} : entry'[f] = entry[f]
      /\ entry'[e].closing = "stopping"
      /\ \A f \in Calls : /\ entry'[f].key = entry[f].key
                          /\ entry'[f].phase = entry[f].phase
                          /\ entry'[f].session = entry[f].session
                          /\ entry'[f].server = entry[f].server
  BY <1>1 DEF Deregister, Entry
<1>4. /\ MapIsKeyed' /\ OneEntryPerTarget'
      /\ entries' \in [Keys -> Calls \cup {None}]
      /\ ~Registered(e)'
      /\ \A f \in Calls \ {e} : Registered(f)' <=> Registered(f)
  BY <1>1, <1>2, <1>3, OneLess
<1>5. TypeOK'
  BY <1>2, <1>3, <1>4 DEF TypeOK
<1>6. /\ \A o \in Calls : CallOK(o)'
      /\ \A f \in Calls : HandedOver(f)' <=> HandedOver(f)
  BY <1>2, <1>3, SameCalls
<1>7. ASSUME NEW f \in Calls PROVE EntryOK(f)'
  <2>1. CASE f = e
    BY <2>1, <1>2, <1>3, <1>4 DEF EntryOK, Left
  <2>2. CASE f # e
    BY <2>2, <1>3, <1>4, <1>6 DEF EntryOK, Left
  <2> QED
    BY <2>1, <2>2
<1> QED
  BY <1>4, <1>5, <1>6, <1>7

LEMMA PublishInv ==
    ASSUME Inv, NEW e \in Calls, Publish(e)
    PROVE  Inv'
<1> USE DEF Inv
<1> DEFINE connected == entry[e].phase = "connected"
<1>1. entry \in [Calls -> Entry] /\ entries \in [Keys -> Calls \cup {None}]
  BY DEF TypeOK
<1>2. /\ UNCHANGED <<closed, call, closer>>
      /\ entry[e].phase \in {"connected", "failed"}
      /\ ~entry[e].session /\ entry[e].closing = "no"
      /\ entry[e].phase = "failed" => ~entry[e].server
  BY DEF Publish, TypeOK, EntryOK
<1>3. CASE connected /\ ~Unwanted(e)
  <2>1. entries' = entries
    BY <1>3 DEF Publish
  <2>2. /\ entry' \in [Calls -> Entry]
        /\ \A f \in Calls \ {e} : entry'[f] = entry[f]
        /\ entry'[e].phase = "ready" /\ entry'[e].session
        /\ \A f \in Calls : /\ entry'[f].key = entry[f].key
                            /\ entry'[f].closing = entry[f].closing
    BY <1>1, <1>3 DEF Publish, Entry
  <2>3. TypeOK'
    BY <1>2, <2>1, <2>2 DEF TypeOK
  <2>4. MapIsKeyed' /\ OneEntryPerTarget'
    BY <1>1, <2>1, <2>2, SameMap
  <2>5. /\ \A o \in Calls : CallOK(o)'
        /\ \A f \in Calls : HandedOver(f)' <=> HandedOver(f)
    BY <1>2, <2>2, SameCalls
  <2>6. ASSUME NEW f \in Calls PROVE EntryOK(f)'
    <3>1. Registered(f)' <=> Registered(f)
      BY <2>1, <2>2 DEF Registered
    <3>2. CASE f = e
      BY <3>1, <3>2, <1>2, <2>2, <2>5 DEF EntryOK, Left
    <3>3. CASE f # e
      BY <3>1, <3>3, <2>2, <2>5 DEF EntryOK, Left
    <3> QED
      BY <3>2, <3>3
  <2> QED
    BY <2>3, <2>4, <2>5, <2>6
<1>4. CASE ~(connected /\ ~Unwanted(e))
  <2>1. entries' = Without(e)
    BY <1>4 DEF Publish
  <2>2. /\ entry' \in [Calls -> Entry]
        /\ \A f \in Calls \ {e} : entry'[f] = entry[f]
        /\ entry'[e].phase = "ready" /\ ~entry'[e].session
        /\ entry'[e].server = (entry[e].server /\ ~connected)
        /\ \A f \in Calls : /\ entry'[f].key = entry[f].key
                            /\ entry'[f].closing = entry[f].closing
    BY <1>1, <1>2, <1>4 DEF Publish, Entry
  <2>3. /\ MapIsKeyed' /\ OneEntryPerTarget'
        /\ entries' \in [Keys -> Calls \cup {None}]
        /\ ~Registered(e)'
        /\ \A f \in Calls \ {e} : Registered(f)' <=> Registered(f)
    BY <1>1, <2>1, <2>2, OneLess
  <2>4. TypeOK'
    BY <1>2, <2>2, <2>3 DEF TypeOK
  <2>5. /\ \A o \in Calls : CallOK(o)'
        /\ \A f \in Calls : HandedOver(f)' <=> HandedOver(f)
    BY <1>2, <2>2, SameCalls
  <2>6. ASSUME NEW f \in Calls PROVE EntryOK(f)'
    <3>1. CASE f = e
      BY <3>1, <1>2, <2>2, <2>3 DEF EntryOK, Left
    <3>2. CASE f # e
      BY <3>2, <2>2, <2>3, <2>5 DEF EntryOK, Left
    <3> QED
      BY <3>1, <3>2
  <2> QED
    BY <2>3, <2>4, <2>5, <2>6
<1> QED
  BY <1>3, <1>4

(* A new entry: what the target had in the map is handed to this call.     *)
LEMMA OpenNewInv ==
    ASSUME Inv, NEW o \in Calls, NEW k \in Keys, OpenNew(o, k)
    PROVE  Inv'
<1> USE DEF Inv
<1>1. entry \in [Calls -> Entry] /\ entries \in [Keys -> Calls \cup {None}]
  BY DEF TypeOK
<1>2. /\ UNCHANGED <<closed, closer>>
      /\ entry[o].phase = "unused" /\ call[o].retiring = {} /\ entries[k] = None
  BY DEF OpenNew, CallOK
<1>3. \A x \in Keys : entries[x] # None =>
        /\ entries[x] \in Calls \ {o} /\ entry[entries[x]].key = x
        /\ entries[x] \in Prior(k) <=> TargetID(x) = TargetID(k)
  BY <1>1, <1>2 DEF MapIsKeyed, Prior
<1>4. Prior(k) \subseteq Calls \ {o}
  BY <1>3 DEF Prior
<1>5. /\ entries' \in [Keys -> Calls \cup {None}]
      /\ entries'[k] = o
      /\ \A x \in Keys \ {k} :
           entries'[x] = IF entries[x] \in Prior(k) THEN None ELSE entries[x]
  BY <1>1 DEF OpenNew
<1>6. /\ entry' \in [Calls -> Entry]
      /\ entry'[o] = NewEntry(k, "connecting")
      /\ \A e \in Calls \ {o} : /\ entry'[e].key = entry[e].key
                                /\ entry'[e].phase = entry[e].phase
                                /\ entry'[e].session = entry[e].session
                                /\ entry'[e].server = entry[e].server
                                /\ entry'[e].closing = entry[e].closing
  <2>1. NewEntry(k, "connecting") \in Entry
    BY DEF NewEntry, Entry
  <2>2. \A e \in Calls \ {o} : entry'[e] \in {entry[e], [entry[e] EXCEPT !.replaced = TRUE]}
    BY <1>1 DEF OpenNew
  <2>3. \A e \in Calls : [entry[e] EXCEPT !.replaced = TRUE] \in Entry
    BY <1>1 DEF Entry
  <2>4. entry'[o] = NewEntry(k, "connecting")
    BY DEF OpenNew
  <2>5. entry' \in [Calls -> Entry]
    BY <1>1, <2>1, <2>2, <2>3, <2>4 DEF OpenNew
  <2> QED
    BY <1>1, <2>2, <2>4, <2>5 DEF Entry
<1>7. /\ call'[o] = [pc |-> "wait", entry |-> o, retiring |-> Prior(k)]
      /\ \A p \in Calls \ {o} : call'[p] = call[p]
      /\ call' \in [Calls -> [pc : {"idle", "wait", "holding", "failed"},
                               entry : Calls \cup {None}, retiring : SUBSET Calls]]
  BY <1>4 DEF OpenNew, TypeOK
<1>8. /\ entry'[o].key = k /\ entry'[o].phase = "connecting" /\ ~entry'[o].session
      /\ ~entry'[o].server /\ entry'[o].closing = "no"
  BY <1>6 DEF NewEntry
<1>9. TypeOK'
  BY <1>2, <1>5, <1>6, <1>7, <1>8 DEF TypeOK
<1>10. OneEntryPerTarget'
  <2> SUFFICES ASSUME NEW x \in Keys, NEW y \in Keys, entries'[x] # None, entries'[y] # None,
                      TargetID(x) = TargetID(y)
               PROVE  x = y
    BY DEF OneEntryPerTarget
  <2>1. CASE x = k \/ y = k
    BY <2>1, <1>3, <1>5
  <2>2. CASE x # k /\ y # k
    BY <2>2, <1>5 DEF OneEntryPerTarget
  <2> QED
    BY <2>1, <2>2
<1>11. MapIsKeyed'
  <2> SUFFICES ASSUME NEW x \in Keys, entries'[x] # None
               PROVE  entry'[entries'[x]].key = x /\ entry'[entries'[x]].phase # "unused"
    BY DEF MapIsKeyed
  <2>1. CASE x = k
    BY <2>1, <1>5, <1>8
  <2>2. CASE x # k
    <3>1. entries'[x] = entries[x] /\ entries[x] \in Calls \ {o}
      BY <2>2, <1>3, <1>5
    <3> QED
      BY <3>1, <1>6 DEF MapIsKeyed
  <2> QED
    BY <2>1, <2>2
<1>12. ASSUME NEW e \in Calls PROVE EntryOK(e)'
  <2>1. CASE e = o
    BY <2>1, <1>5, <1>8 DEF EntryOK, Registered
  <2>2. CASE e # o
    <3>1. entry[e].key \in Keys
      BY <1>1 DEF Entry
    <3>2. HandedOver(e) => HandedOver(e)'
      BY <1>2, <1>7 DEF HandedOver
    <3>3. e \in Prior(k) => HandedOver(e)'
      BY <1>7 DEF HandedOver
    <3>4. Registered(e)' => Registered(e)
      BY <2>2, <3>1, <1>5, <1>6, ManagerAssumption DEF Registered
    <3>5. Registered(e) => Registered(e)' \/ e \in Prior(k)
      BY <2>2, <3>1, <1>2, <1>5, <1>6, ManagerAssumption DEF Registered
    <3> QED
      BY <2>2, <3>2, <3>3, <3>4, <3>5, <1>6 DEF EntryOK, Left
  <2> QED
    BY <2>1, <2>2
<1>13. \A p \in Calls : CallOK(p)'
  BY <1>6, <1>7 DEF CallOK
<1> QED
  BY <1>9, <1>10, <1>11, <1>12, <1>13

-----------------------------------------------------------------------------

LEMMA NextInv == Inv /\ [Next]_vars => Inv'
<1> SUFFICES ASSUME Inv, [Next]_vars PROVE Inv'
  OBVIOUS
<1>1. CASE Progress
  <2>1. ASSUME NEW o \in Calls, NEW e \in Calls, Retire(o, e) PROVE Inv'
    BY <2>1, RetireInv
  <2>2. ASSUME NEW o \in Calls, FailClosed(o) \/ Return(o) PROVE Inv'
    BY <2>2, AnswerInv DEF FailClosed
  <2>3. ASSUME NEW e \in Calls, Initialize(e) PROVE Inv'
    <3>1. CASE Launch(e)
      BY <3>1, ConnectInv DEF Launch
    <3>2. CASE Connected(e)
      <4>1. entry[e].server \in BOOLEAN
        BY DEF Inv, TypeOK, Entry
      <4> QED
        BY <3>2, <4>1, ConnectInv DEF Connected
    <3>3. CASE ConnectFailed(e)
      BY <3>3, ConnectInv DEF ConnectFailed
    <3>4. CASE Publish(e)
      BY <3>4, PublishInv
    <3> QED
      BY <2>3, <3>1, <3>2, <3>3, <3>4 DEF Initialize
  <2>4. ASSUME NEW e \in Calls, CloseFunc(e) PROVE Inv'
    BY <2>4, DeregisterInv, StopServerInv DEF CloseFunc
  <2>5. ASSUME NEW c \in Closers, NEW e \in Calls, CloseEntry(c, e) PROVE Inv'
    BY <2>5, CloseEntryInv
  <2> QED
    BY <1>1, <2>1, <2>2, <2>3, <2>4, <2>5 DEF Progress
<1>2. ASSUME NEW o \in Calls, NEW k \in Keys, OpenExisting(o, k) \/ OpenNew(o, k) PROVE Inv'
  BY <1>2, OpenExistingInv, OpenNewInv
<1>3. ASSUME NEW o \in Calls, Cancelled(o) \/ CloseSession(o) PROVE Inv'
  BY <1>3, AnswerInv, CloseSessionInv DEF Cancelled
<1>4. ASSUME NEW c \in Closers, Close(c) PROVE Inv'
  BY <1>4, CloseInv
<1>5. CASE UNCHANGED vars
  BY <1>5 DEF vars, Inv, TypeOK, OneEntryPerTarget, MapIsKeyed, EntryOK, CallOK,
              HandedOver, Left, Registered
<1> QED
  BY <1>1, <1>2, <1>3, <1>4, <1>5 DEF Next

LEMMA AlwaysInv == Spec => []Inv
<1> QED
  BY InitInv, NextInv, PTL DEF Spec

-----------------------------------------------------------------------------
(* What follows.                                                           *)

(* The manager's state has the types that Go gives it, and only a session  *)
(* that was published is ever closed.                                      *)
THEOREM TypeCorrect == Spec => []TypeOK
<1>1. Inv => TypeOK
  BY DEF Inv
<1> QED
  BY <1>1, AlwaysInv, PTL

(* At most one open session of a target is not about to be closed by the   *)
(* Open that replaced it, for any number of calls and configurations.      *)
THEOREM OneSession == Spec => []OneSessionPerTarget
<1>1. Inv => OneSessionPerTarget
  <2> SUFFICES ASSUME Inv, NEW e \in Calls, NEW f \in Calls, e # f,
                      TargetID(entry[e].key) = TargetID(entry[f].key), Open(e), Open(f)
               PROVE  \E o \in Calls : {e, f} \cap call[o].retiring # {}
    BY DEF OneSessionPerTarget
  <2>1. \A g \in {e, f} : Registered(g) \/ HandedOver(g)
    BY DEF Inv, EntryOK, Left, Open
  <2>2. entry[e].key \in Keys /\ entry[f].key \in Keys
    BY DEF Inv, TypeOK, Entry
  <2>3. ~(Registered(e) /\ Registered(f))
    BY <2>2, ManagerAssumption DEF Inv, OneEntryPerTarget, Registered
  <2>4. \E g \in {e, f} : HandedOver(g)
    BY <2>1, <2>3
  <2> QED
    BY <2>4 DEF HandedOver
<1> QED
  BY <1>1, AlwaysInv, PTL

(* No server or tunnel process is ever without somebody who will stop it,  *)
(* whoever opens, edits, cancels and closes in whatever order.             *)
THEOREM ServersHaveOwners == Spec => []EveryServerHasAnOwner
<1>1. Inv => EveryServerHasAnOwner
  <2> SUFFICES ASSUME Inv, NEW e \in Calls, entry[e].server, entry[e].phase = "ready",
                      ~Registered(e), ~(entry[e].closing \in {"begun", "stopping"})
               PROVE  HandedOver(e)
    BY DEF EveryServerHasAnOwner, HandedOver
  <2>1. entry[e].session /\ entry[e].closing = "no"
    BY DEF Inv, TypeOK, Entry, EntryOK
  <2> QED
    BY <2>1 DEF Inv, EntryOK, Left
<1> QED
  BY <1>1, AlwaysInv, PTL

(* An Open that joins an entry of the map never joins one whose session    *)
(* has been closed.                                                        *)
THEOREM NoClosedSessionIsJoined == Spec => ClosedIsNotReused
<1> DEFINE Joins(o) == call[o].pc = "idle" /\ call'[o].pc # "idle"
<1>1. ASSUME Inv, Next, NEW o \in Calls, Joins(o)
      PROVE  entry'[call'[o].entry].closing # "done"
  <2>1. PICK k \in Keys : OpenExisting(o, k) \/ OpenNew(o, k)
    <3>1. ASSUME NEW p \in Calls \ {o}, NEW k \in Keys, OpenExisting(p, k) \/ OpenNew(p, k)
          PROVE  FALSE
      BY <3>1, <1>1 DEF OpenExisting, OpenNew, Inv, TypeOK
    <3>2. ASSUME NEW p \in Calls, NEW e \in Calls, Retire(p, e) PROVE FALSE
      BY <3>2, <1>1 DEF Retire, Inv, TypeOK
    <3>3. ASSUME NEW p \in Calls, Fail(p) \/ Return(p) PROVE FALSE
      <4>1. call[p].pc = "wait"
        BY <3>3 DEF Fail, Return
      <4>2. PICK pc \in {"holding", "failed"} : call' = [call EXCEPT ![p].pc = pc]
        BY <3>3 DEF Fail, Return
      <4>3. \A q \in Calls \ {p} : call'[q] = call[q]
        BY <4>2 DEF Inv, TypeOK
      <4> QED
        BY <4>1, <4>3, <1>1
    <3>4. UNCHANGED call => FALSE
      BY <1>1
    <3> QED
      BY <1>1, <3>1, <3>2, <3>3, <3>4
         DEF Next, Progress, FailClosed, Cancelled, CloseSession, Initialize, Launch, Connected,
             ConnectFailed, Connect, Publish, CloseFunc, Deregister, StopServer, Close, CloseEntry
  <2>2. CASE OpenExisting(o, k)
    <3>1. entries[k] \in Calls /\ entries[k] # None
      BY <1>1, <2>2, ManagerAssumption DEF OpenExisting, Inv, TypeOK
    <3>2. Registered(entries[k])
      BY <1>1, <3>1 DEF Inv, MapIsKeyed, Registered
    <3>3. entry' = entry /\ call'[o] = [NoCall EXCEPT !.pc = "wait", !.entry = entries[k]]
      BY <2>2, <1>1 DEF OpenExisting, Inv, TypeOK
    <3>4. call'[o].entry = entries[k]
      BY <3>3 DEF NoCall
    <3> QED
      BY <1>1, <3>1, <3>2, <3>3, <3>4 DEF Inv, EntryOK
  <2>3. CASE OpenNew(o, k)
    <3>1. call'[o].entry = o /\ entry'[o] = NewEntry(k, "connecting")
      BY <2>3, <1>1 DEF OpenNew, Inv, TypeOK
    <3> QED
      BY <3>1 DEF NewEntry
  <2> QED
    BY <2>1, <2>2, <2>3
<1>2. Inv /\ [Next]_vars =>
        [\A o \in Calls : Joins(o) => entry'[call'[o].entry].closing # "done"]_vars
  BY <1>1 DEF vars
<1> QED
  BY <1>2, AlwaysInv, PTL DEF ClosedIsNotReused, Spec
=============================================================================

---------------------------- MODULE ActivityInbox ----------------------------
(***************************************************************************)
(* What the activity inbox promises its user, without saying how: news     *)
(* about a run is posted under rising revisions, a client shows a snapshot *)
(* of them, and reading catches up with what that client has shown.  Run   *)
(* r is unread when posted[r] > read[r].  The first revision of a run may  *)
(* be read from the start: history is no news.                             *)
(***************************************************************************)
EXTENDS Integers

CONSTANTS Runs, Clients

VARIABLES
    posted,   \* posted[r]: the newest revision, 0 for an unknown run
    read,     \* read[r]: the revision read
    shown     \* shown[c][r]: the revision client c shows

inboxVars == <<posted, read, shown>>

Init ==
    /\ posted = [r \in Runs |-> 0]
    /\ read = [r \in Runs |-> 0]
    /\ shown = [c \in Clients |-> [r \in Runs |-> 0]]

(* News: only a run that was unknown changes its read mark, to 1. *)
Post ==
    /\ posted' \in [Runs -> Nat]
    /\ \A r \in Runs : posted[r] <= posted'[r]
    /\ read' = [r \in Runs |->
                  IF posted[r] = 0 /\ posted'[r] > 0 THEN 1 ELSE read[r]]
    /\ UNCHANGED shown

Show(c) ==
    /\ shown' = [shown EXCEPT ![c] = posted]
    /\ UNCHANGED <<posted, read>>

Read(c, S) ==
    /\ read' = [r \in Runs |->
                  IF r \in S /\ shown[c][r] > read[r] THEN shown[c][r] ELSE read[r]]
    /\ UNCHANGED <<posted, shown>>

Next ==
    \/ Post
    \/ \E c \in Clients : Show(c) \/ \E S \in SUBSET Runs : Read(c, S)

Spec == Init /\ [][Next]_inboxVars
=============================================================================

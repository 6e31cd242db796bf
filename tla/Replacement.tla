---------------------------- MODULE Replacement ----------------------------
(***************************************************************************)
(* Putting a finished download or model bundle where it was asked for      *)
(* (publishDownload of internal/mlflow/artifacts.go, publishBundle of      *)
(* internal/models/bundle.go).  Several programs write to one destination. *)
(* Each prepares its content in a staging directory beside it; what is     *)
(* replaced is moved into a backup first and put back if the new content   *)
(* cannot take its place.                                                  *)
(***************************************************************************)
EXTENDS Naturals, FiniteSets

CONSTANTS
    Publishers,     \* each one's content bears its name
    Overwriting,    \* those that may replace what is there
    Others,         \* contents that other programs put there
    Directories,    \* contents that are directories; the rest are files
    Nothing

ASSUME ReplacementAssumption ==
    /\ Overwriting \subseteq Publishers /\ Directories \subseteq Publishers \cup Others
    /\ Publishers \cap Others = {} /\ Nothing \notin Publishers \cup Others

VARIABLES
    place,         \* what is at the destination
    publisher,     \* where each one is
    backups,       \* what its backup directory holds
    arrived        \* contents of others that have been put there

replacementVars == <<place, publisher, backups, arrived>>

Contents == Publishers \cup Others
Places == {"idle", "staging", "publishing", "moving", "placing", "replacing",
           "restoring", "published", "failed", "kept", "done", "crashed"}

ReplacementInit ==
    /\ place \in {Nothing} \cup Others
    /\ publisher = [p \in Publishers |-> "idle"]
    /\ backups = [p \in Publishers |-> Nothing]
    /\ arrived = {place} \ {Nothing}

Becomes(p, state) == publisher' = [publisher EXCEPT ![p] = state]

-----------------------------------------------------------------------------
(* What exists is refused at once unless it may be overwritten.            *)
BeginDownload(p) ==
    /\ publisher[p] = "idle"
    /\ Becomes(p, IF place # Nothing /\ p \notin Overwriting THEN "done" ELSE "staging")
    /\ UNCHANGED <<place, backups, arrived>>

(* Listing, transfer, limits, the inventory; symbolic links are refused.   *)
FillStage(p) ==
    /\ publisher[p] = "staging"
    /\ Becomes(p, "publishing") \/ Becomes(p, "failed")
    /\ UNCHANGED <<place, backups, arrived>>

(* publishDownload looks once more.                                        *)
LookAgain(p) ==
    /\ publisher[p] = "publishing"
    /\ \/ place = Nothing /\ Becomes(p, "placing")
       \/ place # Nothing /\ p \notin Overwriting /\ Becomes(p, "failed")
       \/ place # Nothing /\ p \in Overwriting /\ (Becomes(p, "moving") \/ Becomes(p, "failed"))
    /\ UNCHANGED <<place, backups, arrived>>

(* os.Rename replaces a file by a file; anything else must not exist.      *)
MayRenameTo(content) ==
    place = Nothing \/ {place, content} \cap Directories = {}

MoveAway(p) ==
    /\ publisher[p] = "moving"
    /\ \/ /\ place # Nothing
          /\ backups' = [backups EXCEPT ![p] = place] /\ place' = Nothing
          /\ Becomes(p, "replacing")
       \/ Becomes(p, "failed") /\ UNCHANGED <<place, backups>>
    /\ UNCHANGED arrived

(* Either rename may fail for other reasons too.                           *)
PlaceContent(p) ==
    /\ publisher[p] \in {"placing", "replacing"}
    /\ \/ MayRenameTo(p) /\ place' = p /\ Becomes(p, "published")
       \/ /\ Becomes(p, IF publisher[p] = "placing" THEN "failed" ELSE "restoring")
          /\ UNCHANGED place
    /\ UNCHANGED <<backups, arrived>>

(* Mutant: the backup goes even if it could not be put back. *)
RestoredAnyhow(p) == "failed"

AfterFailedRestore(p) == "kept"

Restore(p) ==
    /\ publisher[p] = "restoring"
    /\ \/ /\ MayRenameTo(backups[p])
          /\ place' = backups[p] /\ backups' = [backups EXCEPT ![p] = Nothing]
          /\ Becomes(p, "failed")
       \/ Becomes(p, AfterFailedRestore(p)) /\ UNCHANGED <<place, backups>>
    /\ UNCHANGED arrived

(* The deferred calls: the staging directory goes, and the backup unless   *)
(* it is kept for the user.                                                *)
RemoveTemporaries(p) ==
    /\ publisher[p] \in {"published", "failed", "kept"}
    /\ backups' = [backups EXCEPT ![p] = IF publisher[p] = "kept" THEN @ ELSE Nothing]
    /\ Becomes(p, "done")
    /\ UNCHANGED <<place, arrived>>

DieHalfway(p) ==
    /\ publisher[p] \notin {"idle", "done", "crashed"}
    /\ Becomes(p, "crashed")
    /\ UNCHANGED <<place, backups, arrived>>

Arrive(content) ==
    /\ content \notin arrived /\ place = Nothing
    /\ place' = content /\ arrived' = arrived \cup {content}
    /\ UNCHANGED <<publisher, backups>>

ReplacementNext ==
    \/ \E content \in Others : Arrive(content)
    \/ \E p \in Publishers :
        \/ BeginDownload(p) \/ FillStage(p) \/ LookAgain(p) \/ MoveAway(p) \/ PlaceContent(p)
        \/ Restore(p) \/ RemoveTemporaries(p) \/ DieHalfway(p)

ReplacementSpec == ReplacementInit /\ [][ReplacementNext]_replacementVars

-----------------------------------------------------------------------------
(* Properties.                                                             *)

ReplacementTypeOK ==
    /\ place \in Contents \cup {Nothing}
    /\ publisher \in [Publishers -> Places]
    /\ backups \in [Publishers -> Contents \cup {Nothing}]
    /\ arrived \subseteq Others

(* What was at the destination stays there or in a backup until a program  *)
(* that may overwrite has put its own content there, whatever fails or     *)
(* crashes.  The one exception is a file that comes after a program looked:*)
(* a file that is renamed to its place replaces it.                        *)
Present == ({place} \cup {backups[p] : p \in Publishers}) \ {Nothing}

OriginalsSurvive ==
    [][\A c \in Present \ Present' :
         \/ \E p \in Overwriting : publisher[p] = "published" /\ backups[p] = c
         \/ /\ c \notin Directories /\ place = c
            /\ place' \notin Directories \cup {Nothing}]_replacementVars
=============================================================================

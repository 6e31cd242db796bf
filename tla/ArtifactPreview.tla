--------------------------- MODULE ArtifactPreview ---------------------------
(***************************************************************************)
(* The preview of an artifact in the terminal                              *)
(* (internal/tui/artifact_preview.go, artifactpreview, mlflow/preview.go): *)
(* a read that looks at the artifact three times while its size changes,   *)
(* the confirmation of what is large or of unknown size, and the temporary *)
(* file a pager gets.                                                      *)
(*                                                                         *)
(* Scrolling, searching and the layout of the text are left out; a choice  *)
(* made with the mouse counts when it is released where it was pressed.    *)
(***************************************************************************)
EXTENDS Naturals, FiniteSets

CONSTANTS
    Limit,        \* bytes shown of an artifact
    MaxSize,      \* bound: bytes of the artifact
    MaxPreviews   \* bound: reads and pagers

ASSUME PreviewAssumption == Limit \in Nat /\ MaxSize \in Nat /\ MaxPreviews \in Nat

VARIABLES
    artifact,     \* its size, on a server or a disk where it changes
    window,       \* artifactPreviewState
    reads,        \* ReadArtifactPreview under way, or its answer
    pagers,       \* pagers being prepared, handed over, running or ended
    previews      \* reads and pagers so far, which number them

previewVars == <<artifact, window, reads, pagers, previews>>

Sizes == 0..MaxSize
Known(n) == {n}
UnknownSize == {}

(* What has been shown of how much, and whether it says it is a prefix.    *)
NoDocument == [shown |-> 0, whole |-> 0, truncated |-> FALSE]
PreviewDocument == [shown : 0..Limit, whole : Sizes, truncated : BOOLEAN]

ClosedWindow == [open |-> FALSE, gen |-> 0, pending |-> FALSE, approval |-> FALSE, allow |-> FALSE,
           read |-> FALSE, document |-> NoDocument, pager |-> "none"]

ReadPlaces == {"asked", "approved", "open", "document", "approval", "error"}
PagerPlaces == {"preparing", "prepared", "failed", "handed over", "running", "ended", "dropped"}

PreviewInit ==
    /\ artifact \in Sizes
    /\ window = ClosedWindow /\ reads = {} /\ pagers = {} /\ previews = 0

AskedFor(gen, allow) ==
    [gen |-> gen, allow |-> allow, at |-> "asked", local |-> FALSE, size |-> UnknownSize,
     body |-> 0, truncated |-> FALSE, document |-> NoDocument]

Become(r, s) == reads' = (reads \ {r}) \cup {s}
Answered(r, place) == [AskedFor(r.gen, r.allow) EXCEPT !.at = place]

-----------------------------------------------------------------------------
(* ReadArtifactPreview.                                                    *)

(* CheckPreviewApproval: the terminal grants the three permissions at      *)
(* once, and a whole fetch needs one only where the others do.             *)
NeedsApproval(size, allow) == ~allow /\ (size = UnknownSize \/ \E n \in size : n > Limit)

Checked(r, size, place) ==
    IF NeedsApproval(size, r.allow) THEN Answered(r, "approval")
    ELSE [r EXCEPT !.size = size, !.at = place]

(* resolvePreview: a file, or a listing that may not know the size.        *)
Resolve(r) ==
    /\ r.at = "asked"
    /\ \E local \in BOOLEAN :
       \E size \in {Known(artifact)} \cup IF local THEN {} ELSE {UnknownSize} :
          Become(r, Checked([r EXCEPT !.local = local], size, "approved"))
    /\ UNCHANGED <<artifact, window, pagers, previews>>

(* The file is opened and looked at, or a server answers with all of it or *)
(* a range, of a length it tells or not.                                   *)
OpenArtifact(r) ==
    LET answered == [r EXCEPT !.body = artifact] IN
    /\ r.at = "approved"
    /\ \/ (r.local \/ ~r.local) /\ Become(r, Checked(answered, Known(artifact), "open"))
       \/ ~r.local /\ Become(r, Checked(answered, r.size, "open"))
       \/ /\ ~r.local /\ artifact > 0
          /\ \/ Become(r, Checked([answered EXCEPT !.truncated = artifact > Limit + 1],
                                  Known(artifact), "open"))
             \/ Become(r, Checked([answered EXCEPT !.truncated = TRUE], UnknownSize, "open"))
    /\ UNCHANGED <<artifact, window, pagers, previews>>

(* Mutant: no more is read than is shown. *)
OnlyShown(whole) == IF whole < Limit THEN whole ELSE Limit

(* One byte more than is shown tells whether there is more.                *)
BytesRead(whole) == IF whole < Limit + 1 THEN whole ELSE Limit + 1

(* readPreviewBody, of what the server sent or the file has now.           *)
ReadBody(r) ==
    LET whole == IF r.local THEN artifact ELSE r.body
        n == BytesRead(whole)
        truncated == r.truncated \/ n > Limit \/ \E s \in r.size : s > n IN
    /\ r.at = "open"
    /\ Become(r, IF truncated /\ ~r.allow THEN Answered(r, "approval")
                 ELSE [Answered(r, "document") EXCEPT
                        !.document = [shown |-> IF n < Limit THEN n ELSE Limit,
                                      whole |-> whole, truncated |-> truncated]])
    /\ UNCHANGED <<artifact, window, pagers, previews>>

(* Any of it fails, or it has been cancelled.                              *)
FailRead(r) ==
    /\ r.at \in {"asked", "approved", "open"}
    /\ Become(r, Answered(r, "error"))
    /\ UNCHANGED <<artifact, window, pagers, previews>>

-----------------------------------------------------------------------------
(* The window.  While a pager runs, the terminal is its own.               *)

Listening == previews < MaxPreviews /\ \A p \in pagers : p.at # "running"

Read(w) ==
    /\ previews' = previews + 1
    /\ window' = [w EXCEPT !.gen = previews', !.pending = TRUE, !.approval = FALSE]
    /\ reads' = reads \cup {AskedFor(previews', w.allow)}

OpenPreview ==
    /\ Listening /\ ~window.open
    /\ Read([ClosedWindow EXCEPT !.open = TRUE])
    /\ UNCHANGED <<artifact, pagers>>

ConfirmPreview ==
    /\ Listening /\ window.approval
    /\ Read([window EXCEPT !.allow = TRUE])
    /\ UNCHANGED <<artifact, pagers>>

MayRefresh == ~window.pending /\ window.pager = "none"

RefreshPreview ==
    /\ Listening /\ window.open /\ ~window.approval /\ MayRefresh
    /\ Read(window)
    /\ UNCHANGED <<artifact, pagers>>

Stopped == {[p EXCEPT !.cancelled = TRUE] : p \in pagers}

(* stopArtifactPreview: Esc, or a choice not to read.  Nothing changes the *)
(* target while the window is open.                                        *)
StopPreview ==
    /\ Listening /\ window.open
    /\ window' = ClosedWindow /\ pagers' = Stopped
    /\ UNCHANGED <<artifact, reads, previews>>

AcceptPreview(r) ==
    /\ r.at \in {"document", "approval", "error"} /\ \A p \in pagers : p.at # "running"
    /\ reads' = reads \ {r}
    /\ window' = IF ~window.open \/ window.gen # r.gen THEN window
                 ELSE CASE r.at = "document" -> [window EXCEPT !.pending = FALSE, !.read = TRUE,
                                                              !.document = r.document]
                        [] r.at = "approval" -> [window EXCEPT !.pending = FALSE, !.approval = TRUE]
                        [] OTHER -> [window EXCEPT !.pending = FALSE]
    /\ UNCHANGED <<artifact, pagers, previews>>

-----------------------------------------------------------------------------
(* The pager.                                                              *)

OpenPager ==
    /\ Listening /\ window.open /\ window.read /\ ~window.approval
    /\ ~window.pending /\ window.pager = "none"
    /\ previews' = previews + 1
    /\ window' = [window EXCEPT !.pager = "preparing"]
    /\ pagers' = Stopped \cup
         {[id |-> previews', gen |-> window.gen, at |-> "preparing", cancelled |-> FALSE,
           file |-> FALSE]}
    /\ UNCHANGED <<artifact, reads>>

Turn(p, q) == pagers' = (pagers \ {p}) \cup {q}

(* It makes no file, or takes it away, when it fails or is cancelled.      *)
PreparePager(p) ==
    /\ p.at = "preparing"
    /\ \/ Turn(p, [p EXCEPT !.at = "failed"])
       \/ ~p.cancelled /\ Turn(p, [p EXCEPT !.at = "prepared", !.file = TRUE])
    /\ UNCHANGED <<artifact, window, reads, previews>>

(* What its context, or the window that no longer waits for it, takes away. *)
CleanUpPager(p) ==
    /\ p.file
    /\ \/ p.at = "dropped" /\ pagers' = pagers \ {p}
       \/ p.cancelled /\ p.at # "dropped" /\ Turn(p, [p EXCEPT !.file = FALSE])
    /\ UNCHANGED <<artifact, window, reads, previews>>

AcceptPager(p) ==
    LET expected == window.open /\ window.gen = p.gen IN
    /\ p.at \in {"prepared", "failed"} /\ \A q \in pagers : q.at # "running"
    /\ \/ /\ ~expected /\ window' = window
          /\ IF p.file THEN Turn(p, [p EXCEPT !.at = "dropped"]) ELSE pagers' = pagers \ {p}
       \/ /\ expected /\ p.at = "failed"
          /\ window' = [window EXCEPT !.pager = "none"] /\ pagers' = pagers \ {p}
       \/ /\ expected /\ p.at = "prepared"
          /\ window' = [window EXCEPT !.pager = "external"]
          /\ Turn(p, [p EXCEPT !.at = "handed over"])
    /\ UNCHANGED <<artifact, reads, previews>>

(* artifactPagerExec.Run: one that was cancelled does not start.           *)
RunPager(p) ==
    /\ p.at = "handed over" /\ \A q \in pagers : q.at # "running"
    /\ IF p.cancelled THEN Turn(p, [p EXCEPT !.at = "ended", !.file = FALSE])
       ELSE Turn(p, [p EXCEPT !.at = "running"])
    /\ UNCHANGED <<artifact, window, reads, previews>>

PagerEnds(p) ==
    /\ p.at = "running" /\ Turn(p, [p EXCEPT !.at = "ended", !.file = FALSE])
    /\ UNCHANGED <<artifact, window, reads, previews>>

AcceptPagerFinished(p) ==
    /\ p.at = "ended" /\ \A q \in pagers : q.at # "running"
    /\ pagers' = pagers \ {p}
    /\ window' = IF window.open /\ window.gen = p.gen THEN [window EXCEPT !.pager = "none"]
                 ELSE window
    /\ UNCHANGED <<artifact, reads, previews>>

-----------------------------------------------------------------------------
(* Whoever writes the artifact.                                            *)
WriteArtifact(n) ==
    /\ artifact' = n /\ UNCHANGED <<window, reads, pagers, previews>>

PreviewNext ==
    \/ OpenPreview \/ ConfirmPreview \/ RefreshPreview \/ StopPreview \/ OpenPager
    \/ \E n \in Sizes : WriteArtifact(n)
    \/ \E r \in reads : \/ Resolve(r) \/ OpenArtifact(r) \/ ReadBody(r) \/ FailRead(r)
                        \/ AcceptPreview(r)
    \/ \E p \in pagers : \/ PreparePager(p) \/ CleanUpPager(p) \/ AcceptPager(p) \/ RunPager(p)
                         \/ PagerEnds(p) \/ AcceptPagerFinished(p)

PreviewSpec == PreviewInit /\ [][PreviewNext]_previewVars

-----------------------------------------------------------------------------
(* Properties.                                                             *)

PreviewTypeOK ==
    /\ artifact \in Sizes /\ previews \in 0..MaxPreviews
    /\ window \in [open : BOOLEAN, gen : 0..MaxPreviews, pending : BOOLEAN, approval : BOOLEAN,
                   allow : BOOLEAN, read : BOOLEAN, document : PreviewDocument,
                   pager : {"none", "preparing", "external"}]
    /\ \A r \in reads : r.at \in ReadPlaces
    /\ \A p \in pagers : p.at \in PagerPlaces

(* However the artifact changes between the looks at it: no more is shown  *)
(* than the limit, what does not say that it is a prefix is all there was, *)
(* and a prefix is shown only after the user agreed.                       *)
PrefixesAreAgreed ==
    window.read =>
        LET d == window.document IN
        /\ d.shown <= Limit
        /\ ~d.truncated => d.shown = d.whole
        /\ ~window.allow => ~d.truncated

(* A window waits only for what is still to come.                          *)
WaitingEnds ==
    window.open =>
        /\ window.pending => \E r \in reads : r.gen = window.gen
        /\ window.pager = "preparing" =>
             \E p \in pagers : p.gen = window.gen /\ p.at \in {"preparing", "prepared", "failed"}
        /\ window.pager = "external" =>
             \E p \in pagers : p.gen = window.gen /\ p.at \in {"handed over", "running", "ended"}

(* A temporary file has a window that will use it or somebody who removes  *)
(* it, and a pager does not lose it while it runs.                         *)
PagerFilesAreOwned ==
    \A p \in pagers :
        /\ p.file => \/ p.cancelled \/ p.at = "dropped"
                     \/ window.open /\ window.gen = p.gen /\ window.pager # "none"
        /\ p.at = "running" => p.file

PreviewsAreHonest == PrefixesAreAgreed /\ WaitingEnds /\ PagerFilesAreOwned
=============================================================================

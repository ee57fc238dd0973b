----------------------------- MODULE FileService -----------------------------
(***************************************************************************)
(* What a client of the storage API may rely on, backend/api/storage.py:   *)
(* an upload that is answered 200 shows the whole file from then on, one   *)
(* that is not shows nothing; a file is taken away only by a request to    *)
(* delete it, which may stop half-way and be repeated; once that is        *)
(* answered 200 the file does not come back; and what is safe outlives     *)
(* even the disk.  All this is under the slug that the project had when    *)
(* the upload began: a renamed project shows the file again when it gets   *)
(* that slug back, and in between nobody can ask for it, or delete it, but *)
(* by requests that were under way.  There are no blobs here, no rows, no  *)
(* bucket, no uploads.                                                     *)
(***************************************************************************)
CONSTANTS Files, Slugs, None

VARIABLES
  up,     \* requests are served
  told,   \* told[f]: what the client of f was told last
  shown,  \* shown[f]: under home[f], "absent" or what f downloads as
  safe,   \* the files of which the last word outlives an empty disk
  slug,   \* the slug of the project
  held,   \* the slugs that requests under way may have found
  home    \* home[f]: the slug that f was uploaded under

svars == <<up, told, shown, safe, slug, held, home>>

places == <<slug, held, home>>

Init ==
  /\ up = TRUE
  /\ told = [f \in Files |-> "new"]
  /\ shown = [f \in Files |-> "absent"]
  /\ safe = {}
  /\ slug \in Slugs
  /\ held = {slug}
  /\ home = [f \in Files |-> None]

-----------------------------------------------------------------------------
Tell(f, word) == told' = [told EXCEPT ![f] = word]

Show(f, what) == shown' = [shown EXCEPT ![f] = what]

Rename(s) ==
  /\ up
  /\ slug' = s
  /\ held' = held \cup {s}
  /\ UNCHANGED <<up, told, shown, safe, home>>

Upload(f, s) ==
  /\ up /\ told[f] = "new"
  /\ s \in held
  /\ home' = [home EXCEPT ![f] = s]
  /\ Tell(f, "saving")
  /\ UNCHANGED <<up, shown, safe, slug, held>>

Accept(f) ==
  /\ told[f] = "saving"
  /\ Tell(f, "saved") /\ Show(f, "whole")
  /\ UNCHANGED <<up, safe, places>>

Reject(f) ==
  /\ told[f] = "saving"
  /\ Tell(f, "lost")
  /\ UNCHANGED <<up, shown, safe, places>>

(* Asked for the first time or again; what is left of a file whose client  *)
(* knows nothing of it can be removed as well.                             *)
Remove(f) ==
  /\ up /\ told[f] \in {"saved", "deleting", "lost"} /\ shown[f] # "absent"
  /\ home[f] \in held
  /\ Tell(f, "deleting") /\ Show(f, "none")
  /\ safe' = safe \ {f}
  /\ UNCHANGED <<up, places>>

Removed(f) ==
  /\ told[f] = "deleting"
  /\ Tell(f, "deleted") /\ Show(f, "absent")
  /\ UNCHANGED <<up, safe, places>>

(* Some of the files that stand as their clients know them become safe.    *)
Secured == \E S \in SUBSET {f \in Files : told[f] \in {"saved", "deleted"}} :
             safe' = safe \cup S

Settle == Secured /\ UNCHANGED <<up, told, shown, places>>

(* What was being saved has not been answered and will not be.             *)
Stop ==
  /\ up
  /\ up' = FALSE
  /\ told' = [f \in Files |-> IF told[f] = "saving" THEN "lost" ELSE told[f]]
  /\ Secured
  /\ held' = {}
  /\ UNCHANGED <<shown, slug, home>>

(* `kept': the files of which the disk, or what was safe, still tells.     *)
(* They show what they showed, or a content that had gone comes back.      *)
(* After the loss of the disk the project may have an earlier slug.        *)
Start(kept) ==
  LET stays == kept \cup {f \in Files : told[f] = "new"} IN
  /\ ~up
  /\ \/ kept = Files /\ slug' = slug
     \/ kept \subseteq safe /\ slug' \in Slugs
  /\ held' = {slug'}
  /\ up' = TRUE
  /\ told' = [f \in Files |-> IF f \in stays THEN told[f] ELSE "lost"]
  /\ shown' \in [Files -> {"absent", "none", "partial", "whole"}]
  /\ \A f \in stays : \/ shown'[f] = shown[f]
                      \/ shown[f] = "none" /\ shown'[f] # "absent"
  /\ safe' = safe \cap kept
  /\ UNCHANGED home

Next ==
  \/ \E s \in Slugs : Rename(s) \/ \E f \in Files : Upload(f, s)
  \/ \E f \in Files : Accept(f) \/ Reject(f) \/ Remove(f) \/ Removed(f)
  \/ Settle \/ Stop
  \/ \E kept \in SUBSET Files : Start(kept)

Spec == Init /\ [][Next]_svars

=============================================================================

---------------------------- MODULE UploadLife -----------------------------
(***************************************************************************)
(* The life of one upload and of the submission it belongs to, with no     *)
(* slots, claims or objects: what is said of an upload at either scale.    *)
(* It can be reserved, checked and attached while the owner drafts, given  *)
(* up at any time before it is attached, detached before the review or     *)
(* after the approval, and once given up it only is cleaned up, again if   *)
(* an inspection ends that began before.                                   *)
(***************************************************************************)
VARIABLES
    submission, \* draft, pending, approved or closed
    state,      \* of the upload
    image,      \* it is an image of the submission
    inspected   \* a verification or backfill that reads it has not ended

vars == <<submission, state, image, inspected>>

-----------------------------------------------------------------------------
\* An inspection ends; others may go on.
Ends == inspected /\ inspected' \in BOOLEAN

\* It began on an upload that its client had sent, or on an attachment.
Begin ==
    /\ \/ submission = "draft" /\ state = "issued"
       \/ submission = "pending" /\ image
    /\ inspected' = TRUE
    /\ UNCHANGED <<submission, state, image>>

Leave == Ends /\ UNCHANGED <<submission, state, image>>

-----------------------------------------------------------------------------
Drafted(from, to) ==
    /\ submission = "draft" /\ state \in from /\ state' = to
    /\ UNCHANGED <<submission, inspected>>

Create == Drafted({"none"}, "created") /\ UNCHANGED image
Issue  == Drafted({"created"}, "issued") /\ UNCHANGED image
Attach == Drafted({"verified"}, "attached") /\ image' = TRUE

\* Only an inspection that is still wanted when it ends verifies.
Verify ==
    /\ submission = "draft" /\ state = "issued" /\ state' = "verified"
    /\ Ends
    /\ UNCHANGED <<submission, image>>

\* An upload that is not attached expires or fails, also as its inspection
\* ends.
GiveUp ==
    /\ state \in {"created", "issued", "verified"}
    /\ state' = "cleanup_pending"
    /\ Ends \/ UNCHANGED inspected
    /\ UNCHANGED <<submission, image>>

\* What is under review stays attached.
Detach ==
    /\ submission \in {"draft", "approved"}
    /\ state = "attached" /\ image
    /\ state' = "cleanup_pending" /\ image' = FALSE
    /\ UNCHANGED <<submission, inspected>>

Clean ==
    /\ state = "cleanup_pending" /\ state' = "deleted"
    /\ UNCHANGED <<submission, image, inspected>>

Reopen ==
    /\ state = "deleted" /\ state' = "cleanup_pending"
    /\ Ends
    /\ UNCHANGED <<submission, image>>

-----------------------------------------------------------------------------
\* Nothing is half done, and what is attached is an image.
Ready == state \in {"none", "attached", "deleted"} /\ (image <=> state = "attached")

Proceed(from, to) ==
    /\ submission = from /\ submission' = to
    /\ Ready
    /\ UNCHANGED <<state, image, inspected>>

\* The submission gives up its upload.
Close ==
    /\ submission \in {"draft", "pending"} /\ submission' = "closed"
    /\ state' = IF state \in {"none", "deleted"} THEN state ELSE "cleanup_pending"
    /\ image' = FALSE
    /\ UNCHANGED inspected

-----------------------------------------------------------------------------
\* Nothing uploaded yet, a reservation, or an attachment of an older release.
Init ==
    /\ \/ submission = "draft" /\ state \in {"none", "created"} /\ image = FALSE
       \/ submission = "pending" /\ state = "attached" /\ image = TRUE
    /\ inspected = FALSE

Next ==
    \/ Begin \/ Leave
    \/ Create \/ Issue \/ Verify \/ Attach \/ GiveUp \/ Detach
    \/ Clean \/ Reopen
    \/ Proceed("draft", "pending") \/ Proceed("pending", "approved")
    \/ Close

Spec == Init /\ [][Next]_vars
=============================================================================

---------------------------- MODULE MediaIntent ----------------------------
(***************************************************************************)
(* The life of one media upload intent: its database row, the submission   *)
(* that owns it, the three objects it binds in the private object store    *)
(* (the client's upload, the sealed copy and the sanitized rendition), and *)
(* every call that works on them.  A call runs one database transaction,   *)
(* releases the row locks, talks to the object store step by step, and     *)
(* comes back in a second transaction (media.py, submissions.py,           *)
(* moderation.py, submission_expiry.py, public_media.py).                  *)
(*                                                                         *)
(* One transaction is one action: it holds the locks on the submission     *)
(* and the intent rows from its first read to its commit.  Each object     *)
(* store request is an action of its own.                                  *)
(*                                                                         *)
(* Time is abstract.  A deadline is "live" or "waiting" until a timer      *)
(* action makes it "over" or "due", so every order of deadlines and steps  *)
(* is covered and no clock bounds the behaviours.                          *)
(***************************************************************************)
EXTENDS Naturals

CONSTANTS
    Verifiers,      \* verify_upload calls
    Owners,         \* cleanup_media_object calls of the submission's owner
    Sweepers,       \* process_media_cleanup runs of the periodic job
    Approvers,      \* approve_submission calls
    KeyOf,          \* the idempotency key each verify or cleanup call carries
    NoToken,        \* cleanup_claim_token IS NULL
    Legacy,         \* TRUE: start from an attachment older than renditions
    AccountsChange, \* TRUE: the owner's account may be switched off and on
    MaxFaults,      \* bound on the object store requests that fail
    MaxCrashes      \* bound on the calls that die between two steps

Calls == Verifiers \cup Owners \cup Sweepers \cup Approvers

ASSUME CallsAssumption ==
    /\ \A a, b \in {Verifiers, Owners, Sweepers, Approvers} :
           a # b => a \cap b = {}
    /\ NoToken \notin Calls
    /\ DOMAIN KeyOf = Verifiers \cup Owners

ASSUME BoundsAssumption ==
    /\ Legacy \in BOOLEAN /\ AccountsChange \in BOOLEAN
    /\ MaxFaults \in Nat /\ MaxCrashes \in Nat

VARIABLES
    submission, \* the parent Request row's state, the dead ones as "closed"
    active,     \* CustomUser.is_active of the owner
    intent,     \* the MediaUploadIntent row
    image,      \* an attached managed Image row exists for the intent
    presign,    \* the latest upload authorization: none, live or over
    overdue,    \* absolute_expires_at has passed
    store,      \* the object store: what each of the three keys holds
    call,       \* where each call is and what it remembers
    recorded,   \* the operation keys SubmissionIdempotency holds
    faults,     \* object store failures so far
    crashes,    \* calls that died so far
    stray       \* a write whose call never came back to answer for it

rows == <<submission, active, intent, image, presign, overdue, recorded>>
vars == <<rows, store, call, faults, crashes, stray>>

-----------------------------------------------------------------------------
\* Rows and calls

SubmissionState == {"draft", "pending", "approved", "closed"}
State == {"created", "issued", "verified", "attached",
          "cleanup_pending", "deleted"}
Objects == {"upload", "sealed", "rendition"}
Content == {"absent", "good", "bad"}

\* upload_cleanup_pending and upload_cleanup_next_attempt_at are srcPending
\* and srcRetry; "presign" means due when the authorization expires.
\* rendered: the rendition metadata is complete.
IntentRow == [state: State, token: Calls \cup {NoToken},
              lease: {"none", "live", "over"},
              retry: {"none", "waiting", "due"},
              srcPending: BOOLEAN,
              srcRetry: {"none", "waiting", "presign", "due"},
              rendered: BOOLEAN]

\* The kind says which handler a call is in: "verify" and "backfill" inspect
\* and write, the others delete.
Place == {"idle", "read", "seal", "sealCheck", "render", "renderCheck",
          "commit", "delete", "check", "finish", "backfill", "approve"}
Kind == {"none", "verify", "backfill", "system", "owner", "stale", "source"}

CallState == [pc: Place,
              kind: Kind,
              cursor: Objects,    \* the key being deleted
              gone: BOOLEAN,      \* every key so far was seen absent
              wrote: BOOLEAN,     \* InspectionOutcome.sealed
              good: BOOLEAN,      \* InspectionOutcome.media is not None
              restore: BOOLEAN]   \* StaleSealCleanupClaim.restore_deleted

Idle == [pc |-> "idle", kind |-> "none", cursor |-> "upload", gone |-> TRUE,
         wrote |-> FALSE, good |-> FALSE, restore |-> FALSE]

TypeOK ==
    /\ submission \in SubmissionState
    /\ active \in BOOLEAN
    /\ intent \in IntentRow
    /\ image \in BOOLEAN
    /\ presign \in {"none", "live", "over"}
    /\ overdue \in BOOLEAN
    /\ store \in [Objects -> Content]
    /\ call \in [Calls -> CallState]
    /\ recorded \subseteq {KeyOf[c] : c \in Verifiers \cup Owners}
    /\ faults \in 0..MaxFaults
    /\ crashes \in 0..MaxCrashes
    /\ stray \in BOOLEAN

NewIntent == [state |-> "created", token |-> NoToken, lease |-> "none",
              retry |-> "none", srcPending |-> FALSE, srcRetry |-> "none",
              rendered |-> FALSE]

\* Either the row create_upload_intent inserts, or a pending submission's
\* attachment from before migration 0017, whose rendition was never made.
Init ==
    /\ submission = IF Legacy THEN "pending" ELSE "draft"
    /\ active = TRUE
    /\ intent = IF Legacy THEN [NewIntent EXCEPT !.state = "attached"]
                          ELSE NewIntent
    /\ image = Legacy
    /\ presign = IF Legacy THEN "over" ELSE "none"
    /\ overdue = Legacy
    /\ store = [o \in Objects |->
                   IF Legacy /\ o = "sealed" THEN "good" ELSE "absent"]
    /\ call = [c \in Calls |-> Idle]
    /\ recorded = {}
    /\ faults = 0
    /\ crashes = 0
    /\ stray = FALSE

\* The columns _expire_locked_intent writes.
Expired(i) == [i EXCEPT !.state = "cleanup_pending",
                        !.token = NoToken, !.lease = "none"]

\* A cleanup claim: a fresh token and a five minute lease.  The uuid of a
\* claim is the name of the call that took it: a call takes a claim only
\* while it holds none.
Claimed(i, c) == [i EXCEPT !.state = "cleanup_pending",
                           !.token = c, !.lease = "live"]

\* The claim _claim_stale_seal_cleanup_locked takes, and when it may: it also
\* forgets the retry schedule, and overrides another call's live claim.
StaleClaimed(i, c) == [Claimed(i, c) EXCEPT !.retry = "none"]
StaleClaimable(i) == i.state \notin {"verified", "attached"} /\ ~image

Released(i) == [i EXCEPT !.token = NoToken, !.lease = "none"]

\* The columns a finished cleanup writes.
Deleted(i) == [Released(i) EXCEPT !.state = "deleted", !.retry = "none",
                                  !.srcPending = FALSE, !.srcRetry = "none"]

Deleting(kind, first) ==
    [Idle EXCEPT !.pc = "delete", !.kind = kind, !.cursor = first]

StaleDeleting == [Deleting("stale", "sealed")
                     EXCEPT !.restore = (intent.state = "deleted")]

\* What a call does after its last transaction: an approval still has to
\* take its final one.
AfterCall(c) == IF c \in Approvers THEN [Idle EXCEPT !.pc = "approve"]
                                   ELSE Idle

Become(c, s) == call' = [call EXCEPT ![c] = s]

At(c, where) == call[c].pc = where

\* A state change of the row alone, in one transaction of no recorded call.
RowStep == UNCHANGED <<store, call, faults, crashes, stray>>

-----------------------------------------------------------------------------
\* The owner's single-transaction operations

\* issue_upload and its renewal.  An intent past its absolute expiry is
\* retired instead of signed.
IssueUpload ==
    /\ active /\ submission = "draft"
    /\ intent.token = NoToken
    /\ intent.state \in {"created", "issued"}
    /\ IF overdue
       THEN intent' = Expired(intent) /\ UNCHANGED presign
       ELSE intent' = [intent EXCEPT !.state = "issued"] /\ presign' = "live"
    /\ UNCHANGED <<submission, active, image, overdue, recorded>>
    /\ RowStep

\* attach_verified_media of an intent whose slot and digest are free.
Attach ==
    /\ active /\ submission = "draft"
    /\ intent.state = "verified"
    /\ IF overdue
       THEN intent' = Expired(intent) /\ UNCHANGED image
       ELSE /\ intent.token = NoToken /\ intent.rendered
            /\ intent' = [intent EXCEPT !.state = "attached"]
            /\ image' = TRUE
    /\ UNCHANGED <<submission, active, presign, overdue, recorded>>
    /\ RowStep

\* remove_attached_media
Remove ==
    /\ active /\ submission = "draft"
    /\ intent.state = "attached" /\ image
    /\ image' = FALSE
    /\ intent' = Expired(intent)
    /\ UNCHANGED <<submission, active, presign, overdue, recorded>>
    /\ RowStep

\* Mutant: whatever is not given up yet expires.
Expire_Attached ==
    /\ intent.state \notin {"cleanup_pending", "deleted"}
    /\ overdue
    /\ intent' = Expired(intent)
    /\ UNCHANGED <<submission, active, image, presign, overdue, recorded>>
    /\ RowStep

\* expire_upload_intent (the owner asks) and _expire_due_system_intent (the
\* periodic job finds the row due).
Expire ==
    /\ intent.state \in {"created", "issued", "verified"}
    /\ overdue
    /\ intent' = Expired(intent)
    /\ UNCHANGED <<submission, active, image, presign, overdue, recorded>>
    /\ RowStep

\* The client sends bytes under a still valid authorization: the store takes
\* them whatever became of the intent.
ClientPut ==
    /\ presign = "live"
    /\ \E bytes \in {"good", "bad"} :
           store' = [store EXCEPT !["upload"] = bytes]
    /\ UNCHANGED <<rows, call, faults, crashes, stray>>

-----------------------------------------------------------------------------
\* The submission's transitions, with what they do to the intent

\* Mutant: an issued intent is left to its absolute expiry.
Retired_NotIssued(i) ==
    IF i.state \in {"deleted", "cleanup_pending", "issued"} THEN i
                                                            ELSE Expired(i)

\* _retire_submission_media: a claim that is already out keeps its token.
Retired(i) == IF i.state \in {"deleted", "cleanup_pending"} THEN i
                                                            ELSE Expired(i)

\* _require_ready_media for this intent
MediaReady == /\ intent.state \in {"attached", "deleted"}
              /\ image = (intent.state = "attached")

\* finalize_submission
Finalize ==
    /\ active /\ submission = "draft" /\ MediaReady
    /\ submission' = "pending"
    /\ UNCHANGED <<active, intent, image, presign, overdue, recorded>>
    /\ RowStep

\* withdraw_submission from draft or pending, reject_submission from pending
Withdraw ==
    /\ submission = "pending" \/ (submission = "draft" /\ active)
    /\ submission' = "closed"
    /\ image' = FALSE
    /\ intent' = Retired(intent)
    /\ UNCHANGED <<active, presign, overdue, recorded>>
    /\ RowStep

\* _expire_submission_if_due after 30 days without activity, which is long
\* after the intent's own 24 hours.
ExpireDraft ==
    /\ submission = "draft" /\ overdue
    /\ submission' = "closed"
    /\ image' = FALSE
    /\ intent' = IF intent.state \in {"deleted", "cleanup_pending"}
                 THEN intent
                 ELSE [Expired(intent) EXCEPT !.retry = "none",
                           !.srcPending = FALSE, !.srcRetry = "none"]
    /\ UNCHANGED <<active, presign, overdue, recorded>>
    /\ RowStep

\* revoke_public_media
Revoke ==
    /\ submission = "approved"
    /\ intent.state = "attached" /\ image
    /\ image' = FALSE
    /\ intent' = Expired(intent)
    /\ UNCHANGED <<submission, active, presign, overdue, recorded>>
    /\ RowStep

\* An administrator switches the owner's account off or on.
SetActive ==
    /\ AccountsChange
    /\ active' = ~active
    /\ UNCHANGED <<submission, intent, image, presign, overdue, recorded>>
    /\ RowStep

-----------------------------------------------------------------------------
\* inspect_uploaded_object, for a verification and for a backfill

\* A storage request fails: the bound counts them.
Fault == faults < MaxFaults /\ faults' = faults + 1

Inspecting(kind) == [Idle EXCEPT !.pc = "read", !.kind = kind]

\* The inspection is over: whether it is good, and whether it may have
\* written.
Inspected(c, good, wrote) ==
    Become(c, [call[c] EXCEPT !.pc = "commit", !.good = good, !.wrote = wrote])

\* Reads and checks the upload of a verification, the sealed object of a
\* backfill.
ReadSource(c) ==
    /\ At(c, "read")
    /\ LET source == IF call[c].kind = "verify" THEN "upload" ELSE "sealed"
       IN \/ /\ store[source] = "good"
             /\ Become(c, [call[c] EXCEPT !.pc = "seal"])
             /\ UNCHANGED faults
          \/ /\ store[source] # "good"
             /\ Inspected(c, FALSE, FALSE)
             /\ UNCHANGED faults
          \/ Fault /\ Inspected(c, FALSE, FALSE)
    /\ UNCHANGED <<rows, store, crashes, stray>>

Holding(o) == store' = [store EXCEPT ![o] = "good"]

\* seal_object of the sealed key: a request that fails may have been carried
\* out, and the outcome then says that nothing was sealed.
Seal(c) ==
    /\ At(c, "seal")
    /\ \/ /\ Holding("sealed")
          /\ Become(c, [call[c] EXCEPT !.pc = "sealCheck", !.wrote = TRUE])
          /\ UNCHANGED <<faults, stray>>
       \/ Fault /\ Inspected(c, FALSE, FALSE) /\ UNCHANGED <<store, stray>>
       \/ /\ Fault /\ Inspected(c, FALSE, FALSE)
          /\ Holding("sealed") /\ stray' = TRUE
    /\ UNCHANGED <<rows, crashes>>

\* object_size of the sealed key, gone if a cleanup deleted it meanwhile
CheckSealed(c) ==
    /\ At(c, "sealCheck")
    /\ \/ /\ store["sealed"] # "absent"
          /\ Become(c, [call[c] EXCEPT !.pc = "render"])
          /\ UNCHANGED faults
       \/ /\ store["sealed"] = "absent"
          /\ Inspected(c, FALSE, TRUE)
          /\ UNCHANGED faults
       \/ Fault /\ Inspected(c, FALSE, TRUE)
    /\ UNCHANGED <<rows, store, crashes, stray>>

\* seal_object of the rendition key: sealed is already TRUE when it fails.
Render(c) ==
    /\ At(c, "render")
    /\ \/ /\ Holding("rendition")
          /\ Become(c, [call[c] EXCEPT !.pc = "renderCheck"])
          /\ UNCHANGED faults
       \/ Fault /\ Inspected(c, FALSE, TRUE) /\ UNCHANGED store
       \/ Fault /\ Inspected(c, FALSE, TRUE) /\ Holding("rendition")
    /\ UNCHANGED <<rows, crashes, stray>>

CheckRendition(c) ==
    /\ At(c, "renderCheck")
    /\ \/ /\ store["rendition"] # "absent"
          /\ Inspected(c, TRUE, TRUE)
          /\ UNCHANGED faults
       \/ /\ store["rendition"] = "absent"
          /\ Inspected(c, FALSE, TRUE)
          /\ UNCHANGED faults
       \/ Fault /\ Inspected(c, FALSE, TRUE)
    /\ UNCHANGED <<rows, store, crashes, stray>>

-----------------------------------------------------------------------------
\* verify_upload

\* Its first transaction.  A key that was recorded before is replayed and
\* changes nothing.
StartVerify(v) ==
    /\ At(v, "idle") /\ active /\ submission = "draft"
    /\ KeyOf[v] \notin recorded
    /\ \/ /\ intent.state \in {"verified", "attached",
                               "cleanup_pending", "deleted"}
          /\ recorded' = recorded \cup {KeyOf[v]}
          /\ UNCHANGED <<intent, call>>
       \/ /\ intent.state = "issued" /\ intent.token = NoToken /\ overdue
          /\ intent' = Expired(intent)
          /\ recorded' = recorded \cup {KeyOf[v]}
          /\ UNCHANGED call
       \/ /\ intent.state = "issued" /\ intent.token = NoToken /\ ~overdue
          /\ Become(v, Inspecting("verify"))
          /\ UNCHANGED <<intent, recorded>>
    /\ UNCHANGED <<submission, active, image, presign, overdue, store,
                   faults, crashes, stray>>

\* Its second transaction, the rows locked anew.
CommitStep(v) ==
    UNCHANGED <<submission, active, image, presign, overdue, store,
                faults, crashes, stray>>

\* Mutant: only the claim is checked again after the inspection.
StillIssued_ClaimOnly == intent.token = NoToken

StillIssued == intent.state = "issued" /\ intent.token = NoToken

\* Another call settled the intent meanwhile: what this one wrote is claimed
\* for deletion, unless it is the very object that was kept.
VerifyLost(v) ==
    /\ At(v, "commit") /\ call[v].kind = "verify"
    /\ KeyOf[v] \in recorded \/ ~StillIssued
    /\ IF call[v].wrote /\ StaleClaimable(intent)
       THEN intent' = StaleClaimed(intent, v) /\ Become(v, StaleDeleting)
       ELSE UNCHANGED intent /\ Become(v, Idle)
    /\ UNCHANGED recorded
    /\ CommitStep(v)

\* What the second transaction asks again before it believes the inspection.
Confirmed(v) == call[v].good /\ active /\ submission = "draft" /\ ~overdue

VerifyFailed(v) ==
    /\ At(v, "commit") /\ call[v].kind = "verify"
    /\ KeyOf[v] \notin recorded /\ StillIssued
    /\ ~Confirmed(v)
    /\ IF call[v].wrote /\ ~image
       THEN intent' = StaleClaimed(intent, v) /\ Become(v, StaleDeleting)
       ELSE /\ intent' = [intent EXCEPT !.state = "cleanup_pending"]
            /\ Become(v, Idle)
    /\ recorded' = recorded \cup {KeyOf[v]}
    /\ CommitStep(v)

VerifySucceeded(v) ==
    /\ At(v, "commit") /\ call[v].kind = "verify"
    /\ KeyOf[v] \notin recorded /\ StillIssued
    /\ Confirmed(v)
    /\ intent' = [intent EXCEPT !.state = "verified", !.rendered = TRUE,
                                !.srcPending = TRUE]
    /\ Become(v, Deleting("source", "upload"))
    /\ recorded' = recorded \cup {KeyOf[v]}
    /\ CommitStep(v)

-----------------------------------------------------------------------------
\* approve_submission and backfill_attached_renditions

\* The authorizing transaction, released before any storage work.
StartApprove(a) ==
    /\ At(a, "idle") /\ submission = "pending"
    /\ Become(a, [Idle EXCEPT !.pc = "backfill"])
    /\ UNCHANGED <<rows, store, faults, crashes, stray>>

\* _claim_attached_rendition_backfill: a snapshot, not a claim in the row.
ClaimBackfill(a) ==
    /\ At(a, "backfill")
    /\ IF /\ submission = "pending" /\ intent.state = "attached"
          /\ intent.token = NoToken /\ ~intent.rendered /\ image
       THEN Become(a, Inspecting("backfill"))
       ELSE Become(a, AfterCall(a))
    /\ UNCHANGED <<rows, store, faults, crashes, stray>>

StillAttached == intent.state = "attached" /\ image

\* _finish_attached_rendition_backfill
FinishBackfill(a) ==
    /\ At(a, "commit") /\ call[a].kind = "backfill"
    /\ \/ /\ StillAttached /\ call[a].good
          /\ intent' = IF submission = "pending"
                       THEN [intent EXCEPT !.rendered = TRUE] ELSE intent
          /\ Become(a, AfterCall(a))
       \/ /\ ~(StillAttached /\ call[a].good)
          /\ IF call[a].wrote /\ StaleClaimable(intent)
             THEN intent' = StaleClaimed(intent, a) /\ Become(a, StaleDeleting)
             ELSE UNCHANGED intent /\ Become(a, AfterCall(a))
    /\ UNCHANGED <<submission, active, image, presign, overdue, recorded,
                   store, faults, crashes, stray>>

\* Mutant: approval trusts the backfill it ran before.
FinishApprove_NoRecheck(a) ==
    /\ At(a, "approve")
    /\ submission' = IF submission = "pending" /\ MediaReady
                     THEN "approved" ELSE submission
    /\ Become(a, Idle)
    /\ UNCHANGED <<active, intent, image, presign, overdue, recorded,
                   store, faults, crashes, stray>>

\* The final transaction repeats every condition; the retained attachment
\* must have a publishable rendition.  Otherwise the call fails.
FinishApprove(a) ==
    /\ At(a, "approve")
    /\ submission' = IF /\ submission = "pending" /\ MediaReady
                        /\ image => intent.rendered
                     THEN "approved" ELSE submission
    /\ Become(a, Idle)
    /\ UNCHANGED <<active, intent, image, presign, overdue, recorded,
                   store, faults, crashes, stray>>

-----------------------------------------------------------------------------
\* Deleting bound objects: _delete_bound_objects and its two smaller forms

\* The keys a handler deletes, in order: the source cleanups only the upload,
\* a stale claim never the upload, a full cleanup all three.
NextObject(o) == IF o = "upload" THEN "sealed" ELSE "rendition"

\* Mutant: the source cleanup reuses the full deletion.
LastObject_Full(kind) == "rendition"

LastObject(kind) == IF kind = "source" THEN "upload" ELSE "rendition"

\* On to the next key; the error of any of them is remembered.
Advance(c, wasGone) ==
    LET d == call[c] IN
    Become(c, IF d.cursor = LastObject(d.kind)
              THEN [d EXCEPT !.pc = "finish", !.gone = @ /\ wasGone]
              ELSE [d EXCEPT !.pc = "delete", !.gone = @ /\ wasGone,
                             !.cursor = NextObject(d.cursor)])

Erasing(o) == store' = [store EXCEPT ![o] = "absent"]

DeleteObject(c) ==
    /\ At(c, "delete")
    /\ \/ /\ Erasing(call[c].cursor)
          /\ Become(c, [call[c] EXCEPT !.pc = "check"])
          /\ UNCHANGED faults
       \/ Fault /\ Advance(c, FALSE) /\ UNCHANGED store
       \/ Fault /\ Advance(c, FALSE) /\ Erasing(call[c].cursor)
    /\ UNCHANGED <<rows, crashes, stray>>

CheckAbsent(c) ==
    /\ At(c, "check")
    /\ \/ /\ Advance(c, store[call[c].cursor] = "absent")
          /\ UNCHANGED faults
       \/ Fault /\ Advance(c, FALSE)
    /\ UNCHANGED <<rows, store, crashes, stray>>

\* The second transaction of a deleting call.
FinishStep(c) ==
    /\ Become(c, AfterCall(c))
    /\ UNCHANGED <<submission, active, image, presign, overdue, store,
                   faults, crashes, stray>>

\* Mutant: the finisher of an overridden claim still completes.
HoldsClaim_NoFence(c) == intent.state = "cleanup_pending"

HoldsClaim(c) == intent.state = "cleanup_pending" /\ intent.token = c

\* _run_stale_seal_cleanup_claim: only a row that was already deleted goes
\* back to deleted, any other is left to the periodic job.
FinishStale(c) ==
    /\ At(c, "finish") /\ call[c].kind = "stale"
    /\ IF ~HoldsClaim(c) THEN UNCHANGED intent
       ELSE IF call[c].gone /\ ~image
       THEN intent' = [Released(intent) EXCEPT !.retry = "none",
                          !.state = IF call[c].restore
                                    THEN "deleted" ELSE "cleanup_pending"]
       ELSE intent' = [Released(intent) EXCEPT !.retry = "waiting"]
    /\ UNCHANGED recorded
    /\ FinishStep(c)

\* Mutant: a source seen absent is settled though it can still be written.
FinishSource_Early(c) ==
    /\ At(c, "finish") /\ call[c].kind = "source"
    /\ intent' =
         IF intent.state \notin {"verified", "attached"} \/ ~intent.srcPending
         THEN intent
         ELSE IF ~call[c].gone
         THEN [intent EXCEPT !.srcRetry = "waiting"]
         ELSE [intent EXCEPT !.srcPending = FALSE, !.srcRetry = "none"]
    /\ UNCHANGED recorded
    /\ FinishStep(c)

\* The transaction that ends _cleanup_upload_source_after_verification and
\* _run_upload_cleanup_claim.
FinishSource(c) ==
    /\ At(c, "finish") /\ call[c].kind = "source"
    /\ intent' =
         IF intent.state \notin {"verified", "attached"} \/ ~intent.srcPending
         THEN intent
         ELSE IF ~call[c].gone
         THEN [intent EXCEPT !.srcRetry = "waiting"]
         ELSE IF presign = "live"
         THEN [intent EXCEPT !.srcRetry = "presign"]
         ELSE [intent EXCEPT !.srcPending = FALSE, !.srcRetry = "none"]
    /\ UNCHANGED recorded
    /\ FinishStep(c)

\* Mutant: the lease is not looked at.
CleanupDue_NoLease == /\ intent.state = "cleanup_pending" /\ ~image
                      /\ intent.retry # "waiting"

\* No unexpired lease, no retry that is not due, no attachment.
CleanupDue == /\ intent.state = "cleanup_pending" /\ ~image
              /\ intent.lease # "live" /\ intent.retry # "waiting"

\* cleanup_media_object, first transaction
StartOwnerCleanup(o) ==
    /\ At(o, "idle") /\ active
    /\ KeyOf[o] \notin recorded
    /\ \/ /\ intent.state = "deleted"
          /\ recorded' = recorded \cup {KeyOf[o]}
          /\ UNCHANGED <<intent, call>>
       \/ /\ CleanupDue
          /\ intent' = Claimed(intent, o)
          /\ Become(o, Deleting("owner", "upload"))
          /\ UNCHANGED recorded
    /\ UNCHANGED <<submission, active, image, presign, overdue, store,
                   faults, crashes, stray>>

\* Its second transaction: an owner who lost the account or the claim gets an
\* error and leaves the row alone.
FinishOwnerCleanup(o) ==
    /\ At(o, "finish") /\ call[o].kind = "owner"
    /\ IF active /\ intent.token = o /\ ~image
       THEN /\ intent' = IF call[o].gone THEN Deleted(intent)
                         ELSE [Released(intent) EXCEPT
                                  !.state = "cleanup_pending",
                                  !.retry = "waiting"]
            /\ recorded' = recorded \cup {KeyOf[o]}
       ELSE UNCHANGED <<intent, recorded>>
    /\ FinishStep(o)

\* _claim_due_system_cleanup
ClaimCleanup(s) ==
    /\ At(s, "idle") /\ CleanupDue
    /\ intent' = Claimed(intent, s)
    /\ Become(s, Deleting("system", "upload"))
    /\ UNCHANGED <<submission, active, image, presign, overdue, recorded,
                   store, faults, crashes, stray>>

\* _finish_system_cleanup
FinishCleanup(s) ==
    /\ At(s, "finish") /\ call[s].kind = "system"
    /\ intent' = IF ~HoldsClaim(s) THEN intent
                 ELSE IF call[s].gone /\ ~image THEN Deleted(intent)
                 ELSE [Released(intent) EXCEPT !.retry = "waiting"]
    /\ UNCHANGED recorded
    /\ FinishStep(s)

\* Mutant: the source cleanup is tried once and never again.
ClaimSource_Once(s) ==
    /\ At(s, "idle")
    /\ intent.state \in {"verified", "attached"} /\ intent.srcPending
    /\ intent.srcRetry = "none"
    /\ intent' = [intent EXCEPT !.srcRetry = "waiting"]
    /\ Become(s, Deleting("source", "upload"))
    /\ UNCHANGED <<submission, active, image, presign, overdue, recorded,
                   store, faults, crashes, stray>>

\* _claim_due_upload_cleanup: the next attempt's time is also its lease.
ClaimSource(s) ==
    /\ At(s, "idle")
    /\ intent.state \in {"verified", "attached"} /\ intent.srcPending
    /\ intent.srcRetry \in {"none", "due"}
    /\ intent' = [intent EXCEPT !.srcRetry = "waiting"]
    /\ Become(s, Deleting("source", "upload"))
    /\ UNCHANGED <<submission, active, image, presign, overdue, recorded,
                   store, faults, crashes, stray>>

-----------------------------------------------------------------------------
\* Time and crashes

\* A presigned authorization is never valid past the absolute expiry.
PresignExpires ==
    /\ presign = "live"
    /\ presign' = "over"
    /\ intent' = IF intent.srcRetry = "presign"
                 THEN [intent EXCEPT !.srcRetry = "due"] ELSE intent
    /\ UNCHANGED <<submission, active, image, overdue, recorded>>
    /\ RowStep

IntentOverdue ==
    /\ ~overdue /\ presign # "live"
    /\ overdue' = TRUE
    /\ UNCHANGED <<submission, active, intent, image, presign, recorded>>
    /\ RowStep

TimePasses(i) ==
    /\ intent' = i
    /\ UNCHANGED <<submission, active, image, presign, overdue, recorded>>
    /\ RowStep

LeaseExpires ==
    intent.lease = "live" /\ TimePasses([intent EXCEPT !.lease = "over"])

RetryDue ==
    intent.retry = "waiting" /\ TimePasses([intent EXCEPT !.retry = "due"])

SourceRetryDue ==
    /\ intent.srcRetry = "waiting"
    /\ TimePasses([intent EXCEPT !.srcRetry = "due"])

\* The process dies between two steps; rows and objects stay as they are.
Crash(c) ==
    /\ ~At(c, "idle") /\ crashes < MaxCrashes
    /\ crashes' = crashes + 1
    /\ stray' = (stray \/ call[c].wrote)
    /\ Become(c, Idle)
    /\ UNCHANGED <<rows, store, faults>>

-----------------------------------------------------------------------------
Inspect(c) == \/ ReadSource(c) \/ Seal(c) \/ CheckSealed(c)
              \/ Render(c) \/ CheckRendition(c)
Delete(c) == DeleteObject(c) \/ CheckAbsent(c)
Verify(v) == \/ VerifyLost(v) \/ VerifyFailed(v) \/ VerifySucceeded(v)
Approve(a) == ClaimBackfill(a) \/ FinishBackfill(a) \/ FinishApprove(a)

\* A call that has started runs on; only a crash stops it.
Proceed(c) ==
    \/ Inspect(c) \/ Delete(c) \/ FinishStale(c) \/ FinishSource(c)
    \/ c \in Verifiers /\ Verify(c)
    \/ c \in Approvers /\ Approve(c)
    \/ c \in Owners /\ FinishOwnerCleanup(c)
    \/ c \in Sweepers /\ FinishCleanup(c)

OwnerStep == \/ IssueUpload \/ Attach \/ Remove \/ ClientPut \/ Finalize
SubmissionStep == \/ Withdraw \/ ExpireDraft \/ Revoke \/ SetActive
Time == \/ PresignExpires \/ IntentOverdue \/ LeaseExpires \/ RetryDue
        \/ SourceRetryDue

Next ==
    \/ OwnerStep
    \/ SubmissionStep
    \/ Expire
    \/ Time
    \/ \E v \in Verifiers : StartVerify(v)
    \/ \E a \in Approvers : StartApprove(a)
    \/ \E o \in Owners : StartOwnerCleanup(o)
    \/ \E s \in Sweepers : ClaimCleanup(s) \/ ClaimSource(s)
    \/ \E c \in Calls : Proceed(c) \/ Crash(c)

Spec == Init /\ [][Next]_vars

\* Time passes, a started call proceeds until it crashes, and the periodic
\* job that deployments must schedule expires and claims what is due.  Nothing
\* is assumed of the owner, the moderators or new calls.
Fairness ==
    /\ WF_vars(PresignExpires) /\ WF_vars(IntentOverdue)
    /\ WF_vars(LeaseExpires) /\ WF_vars(RetryDue) /\ WF_vars(SourceRetryDue)
    /\ \A c \in Calls : WF_vars(Proceed(c))
    /\ WF_vars(Expire)
    /\ WF_vars(\E s \in Sweepers : ClaimCleanup(s))
    /\ WF_vars(\E s \in Sweepers : ClaimSource(s))

FairSpec == Spec /\ Fairness

-----------------------------------------------------------------------------
\* Safety

\* The row's columns agree through every path that attaches, retires, claims,
\* overrides or releases: the managed Image exists exactly while the intent is
\* attached, a claim has both its token and its lease, and it is held only
\* while cleanup is pending (the check constraint of models.py).
RowConsistent ==
    /\ image <=> intent.state = "attached"
    /\ intent.token # NoToken <=> intent.lease # "none"
    /\ intent.token # NoToken => intent.state = "cleanup_pending"

\* Verified and attached media keep their sealed object, and their rendition
\* once it is recorded, whatever late verifications, cleanups and crashes do:
\* no deletion may start before the intent is irrevocably retired.
KeptObjectsPresent ==
    intent.state \in {"verified", "attached"} =>
        /\ store["sealed"] = "good"
        /\ intent.rendered => store["rendition"] = "good"

\* An approved submission's attachment can be served: approval checked the
\* metadata in one transaction and the rendition was written in another.
PublishedIsServable ==
    submission = "approved" /\ image =>
        intent.rendered /\ store["rendition"] = "good"

\* A withdrawn, rejected or expired submission retains nothing, even when a
\* verification or a backfill was under way when it closed.
ClosedRetainsNothing ==
    submission = "closed" =>
        ~image /\ intent.state \in {"cleanup_pending", "deleted"}

Writing(c) == call[c].pc \in {"sealCheck", "render", "renderCheck", "commit"}

\* A deleted intent has no sealed object and no rendition, but for those of a
\* verification or backfill that is still to commit (and will then reclaim
\* them) or that died in between.
DeletedIsEmpty ==
    intent.state = "deleted" /\ ~stray =>
        \/ store["sealed"] = "absent" /\ store["rendition"] = "absent"
        \/ \E c \in Calls : Writing(c)

\* While the client may still write the upload of kept media, a cleanup of
\* that key remains due (media.py 996-1005, 1812-1822).
SourceWatched ==
    intent.state \in {"verified", "attached"} /\ presign = "live" =>
        intent.srcPending

\* A retired intent never comes back: cleanup_pending and deleted lead only
\* to each other, so an outdated claim can never delete live media.
NeverRevived ==
    [][intent.state \in {"cleanup_pending", "deleted"} =>
           intent'.state \in {"cleanup_pending", "deleted"}]_vars

\* A claim is overridden only once its lease is over, or by the claim of a
\* call that wrote objects the claim's holder may have missed.
ClaimTakenOverDuly ==
    [][(/\ intent.token # NoToken /\ intent.lease = "live"
        /\ intent'.token \notin {NoToken, intent.token}) =>
           call[intent'.token].wrote]_vars

-----------------------------------------------------------------------------
\* Liveness

\* The cleanup of the client's upload is settled in the end.
SourceSettled == intent.srcPending ~> ~intent.srcPending

-----------------------------------------------------------------------------
\* Refinement

Phase == CASE intent.state \in {"created", "issued"}    -> "reserved"
           [] intent.state \in {"verified", "attached"} -> "retained"
           [] intent.state = "cleanup_pending"          -> "retiring"
           [] intent.state = "deleted"                  -> "gone"

Promise == INSTANCE MediaObject WITH phase <- Phase,
                                     held <- store["sealed"] # "absent"

\* The rows, leases, claims and storage steps implement the promise of
\* MediaObject: retained media is never erased, retirement is final, and what
\* is retired is deleted in the end.
KeepsPromise == Promise!Spec

\* Somebody is between the two transactions of a verification or a backfill.
BeingInspected ==
    \E c \in Calls : call[c].pc \in {"read", "seal", "sealCheck", "render",
                                    "renderCheck", "commit"}

Life == INSTANCE UploadLife WITH state <- intent.state,
                                 inspected <- BeingInspected

\* Claims, leases, crashes and late calls show in the row only as the life of
\* an upload, the one that DraftMedia gives to all uploads of a submission:
\* nothing leaves it but by a step that was due, and only an inspection that
\* has not ended takes a row back from deleted.
LivesAsUpload == Life!Spec

=============================================================================

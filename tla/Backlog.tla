------------------------------ MODULE Backlog -------------------------------
(***************************************************************************)
(* What waits to be worked off, and the bounded portions it is worked off  *)
(* in: idle drafts and the uploads to be deleted, in the batches of the    *)
(* periodic job (submission_expiry.py, process_media_cleanup in media.py), *)
(* and the submissions that await review, in the pages a moderator reads   *)
(* (moderation_queue.py).                                                  *)
(*                                                                         *)
(* A portion is chosen by one query and worked off one transaction at a    *)
(* time, while owners and moderators go on.  MediaIntent has the claims    *)
(* and leases of one upload; here what counts is that every one gets its   *)
(* turn although some can never be deleted.                                *)
(***************************************************************************)
EXTENDS FiniteSets, SequencesExt, Integers

CONSTANTS
    Requests,     \* the submissions, by their primary keys
    Created,      \* when each was created: date_created, which may be shared
    Uploads,      \* media upload intents
    RequestOf,    \* the submission of each
    Broken,       \* the uploads whose objects the store never deletes
    Batch,        \* --batch-size of the job
    PageSize,     \* how many a moderator asks for at once
    MaxActivity   \* bound on the operations of owners and moderators

ASSUME KeysAssumption ==
    IsFiniteSet(Requests) /\ Requests \subseteq Nat /\ Created \in [Requests -> Nat]
ASSUME UploadsAssumption ==
    IsFiniteSet(Uploads) /\ RequestOf \in [Uploads -> Requests] /\ Broken \subseteq Uploads
ASSUME PortionsAssumption == Batch \in Nat \ {0} /\ PageSize \in Nat \ {0}

VARIABLES
    state,     \* of each submission
    order,     \* the submissions by date_updated, the oldest first
    recent,    \* what tells of activity within the limit: the row's own date,
               \* or those of its uploads, attachments and operations
    locked,    \* the submissions that a transaction of their owner has locked
    upload,    \* "kept", or when its deletion may be tried
    job,       \* what the job works off and has still to look at
    shown,     \* the submissions that a moderator's pass has shown
    waiting,   \* those that await review ever since it began
    pass,      \* "unread", "reading" or "read" to the end
    activity   \* how many operations there were

queue == <<shown, waiting, pass>>
vars == <<state, order, recent, locked, upload, job, queue, activity>>

-----------------------------------------------------------------------------
Keys == {"row", "media"}
Resting == [phase |-> "resting", rest |-> <<>>]

TypeOK ==
    /\ state \in [Requests -> {"absent", "draft", "pending", "closed", "expired"}]
    /\ order \in SetToSeqs(Requests)
    /\ recent \in [Requests -> SUBSET Keys]
    /\ locked \subseteq Requests
    /\ upload \in [Uploads -> {"kept", "never", "due", "later", "deleted"}]
    /\ job \in [phase: {"resting", "drafts", "uploads"},
                rest: Seq(Requests) \cup Seq(Uploads)]
    /\ shown \in Seq(Requests)
    /\ waiting \subseteq Requests
    /\ pass \in {"unread", "reading", "read"}
    /\ activity \in 0 .. MaxActivity

Init ==
    /\ state \in [Requests -> {"absent", "draft", "pending"}]
    /\ order = SetToSortSeq(Requests, <)
    /\ recent \in [Requests -> {{}, {"media"}, Keys}]
    /\ \A r \in Requests : state[r] # "draft" => recent[r] = {}
    /\ locked = {}
    /\ upload = [u \in Uploads |-> "kept"]
    /\ job = Resting
    /\ shown = <<>>
    /\ waiting = {}
    /\ pass = "unread"
    /\ activity = 0

-----------------------------------------------------------------------------
\* Owners and moderators

Counted == activity < MaxActivity /\ activity' = activity + 1

\* The row of a submission is written, and with it its date.
Save(r, to) ==
    /\ state' = [state EXCEPT ![r] = to]
    /\ order' = Append(SelectSeq(order, LAMBDA x : x # r), r)
    /\ recent' = [recent EXCEPT ![r] = IF to = "draft" THEN Keys ELSE {}]
    /\ waiting' = waiting \ {r}
    /\ UNCHANGED <<shown, pass>>

\* create_submission.  The date is taken before the commit: a submission may
\* appear after others that were created later.
Create(r) ==
    /\ state[r] = "absent"
    /\ Counted
    /\ Save(r, "draft")
    /\ UNCHANGED <<locked, upload, job>>

\* The uploads of a submission after all that it still keeps are given up.
GivenUp(r) == [u \in Uploads |-> IF RequestOf[u] = r /\ upload[u] = "kept"
                                 THEN "never" ELSE upload[u]]

\* A request of the owner locks the draft, and then edits or finalizes it,
\* withdraws it with its uploads, does something with its media only, or fails.
Lock(r) ==
    /\ state[r] = "draft" /\ r \notin locked
    /\ Counted
    /\ locked' = locked \cup {r}
    /\ UNCHANGED <<state, order, recent, upload, job, queue>>
Unlock(r) ==
    /\ r \in locked
    /\ locked' = locked \ {r}
    /\ \/ (\E to \in {"draft", "pending"} : Save(r, to)) /\ UNCHANGED upload
       \/ Save(r, "closed") /\ upload' = GivenUp(r)
       \/ /\ recent' \in {recent, [recent EXCEPT ![r] = @ \cup {"media"}]}
          /\ UNCHANGED <<state, order, upload, queue>>
    /\ UNCHANGED <<job, activity>>

\* A pending submission is approved, which keeps the uploads, or rejected, or
\* withdrawn by its owner.
Close(r) ==
    /\ state[r] = "pending"
    /\ Counted
    /\ Save(r, "closed")
    /\ upload' \in {upload, GivenUp(r)}
    /\ UNCHANGED <<locked, job>>

\* One upload is given up: removed, failed, expired or revoked.
Retire(u) ==
    /\ upload[u] = "kept"
    /\ Counted
    /\ upload' = [upload EXCEPT ![u] = "never"]
    /\ UNCHANGED <<state, order, recent, locked, job, queue>>

\* The limit passes without activity; the time of a retry comes.
Age(r) ==
    /\ recent[r] # {} /\ r \notin locked
    /\ recent' = [recent EXCEPT ![r] = {}]
    /\ UNCHANGED <<state, order, locked, upload, job, queue, activity>>
RetryDue(u) ==
    /\ upload[u] = "later"
    /\ upload' = [upload EXCEPT ![u] = "due"]
    /\ UNCHANGED <<state, order, recent, locked, job, queue, activity>>

-----------------------------------------------------------------------------
\* The periodic job

FirstOf(s, n) == SubSeq(s, 1, IF Len(s) < n THEN Len(s) ELSE n)
Idle(r) == state[r] = "draft" /\ recent[r] = {}

\* Mutant: the other evidence is looked at after the bound.
Candidates_BoundFirst ==
    SelectSeq(FirstOf(SelectSeq(order, LAMBDA r : state[r] = "draft"
                                                  /\ "row" \notin recent[r]), Batch), Idle)

\* _due_candidate_ids: every exclusion comes before the bound.
Candidates == FirstOf(SelectSeq(order, Idle), Batch)

StartJob ==
    /\ job = Resting
    /\ job' = [phase |-> "drafts", rest |-> Candidates]
    /\ UNCHANGED <<state, order, recent, locked, upload, queue, activity>>

Current == Head(job.rest)
Done == job' = [job EXCEPT !.rest = Tail(@)]

\* _expire_submission_if_due: a draft that is locked or no longer idle is left
\* for another run; one that expires gives up its uploads.
ExpireNext ==
    /\ job.phase = "drafts" /\ job.rest # <<>>
    /\ Done
    /\ IF Current \notin locked /\ Idle(Current)
       THEN /\ Save(Current, "expired")
            /\ upload' = GivenUp(Current)
       ELSE UNCHANGED <<state, order, recent, upload, queue>>
    /\ UNCHANGED <<locked, activity>>

\* The uploads whose deletion may be tried: failed ones first, for NULL sorts
\* last, by times that are all alike here.
Chosen == {s \in SetToSeqs({u \in Uploads : upload[u] \in {"never", "due"}}) :
              \A i, j \in DOMAIN s :
                  upload[s[i]] = "never" /\ upload[s[j]] = "due" => j < i}
StartCleanup ==
    /\ job.phase = "drafts" /\ job.rest = <<>>
    /\ \E s \in Chosen : job' = [phase |-> "uploads", rest |-> FirstOf(s, Batch)]
    /\ UNCHANGED <<state, order, recent, locked, upload, queue, activity>>

Tried(u) == IF u \in Broken THEN "later" ELSE "deleted"

\* Mutant: an error of the store ends the run.
CleanNext_Raises ==
    /\ job.phase = "uploads" /\ job.rest # <<>>
    /\ IF Current \in Broken THEN job' = Resting ELSE Done
    /\ upload' = [upload EXCEPT ![Current] = IF Current \in Broken THEN "due" ELSE "deleted"]
    /\ UNCHANGED <<state, order, recent, locked, queue, activity>>

\* One upload is claimed and deleted, or gets the time of another attempt.  If
\* its submission is locked it is left for another run.
CleanNext ==
    /\ job.phase = "uploads" /\ job.rest # <<>>
    /\ Done
    /\ upload' = IF RequestOf[Current] \in locked THEN upload
                 ELSE [upload EXCEPT ![Current] = Tried(Current)]
    /\ UNCHANGED <<state, order, recent, locked, queue, activity>>

EndJob ==
    /\ job.phase = "uploads" /\ job.rest = <<>>
    /\ job' = Resting
    /\ UNCHANGED <<state, order, recent, locked, upload, queue, activity>>

-----------------------------------------------------------------------------
\* The moderator

Pending == {r \in Requests : state[r] = "pending"}

\* The order of the queue.
Before(a, b) == Created[a] < Created[b] \/ (Created[a] = Created[b] /\ a < b)

\* Mutant: the cursor is a date.
Behind_Date(r) == shown = <<>> \/ Created[r] > Created[Last(shown)]

\* What follows the cursor, which is the last submission shown.
Behind(r) == shown = <<>> \/ Before(Last(shown), r)

\* What the query finds, in the order of the queue.
Found == {rows \in SetToSeqs({r \in Pending : Behind(r)}) :
             \A i, j \in DOMAIN rows : i < j => Before(rows[i], rows[j])}

\* moderation_queue_page: one row more than the page tells whether there is a
\* next one.
ReadPage ==
    /\ pass # "read"
    /\ \E rows \in Found :
           /\ shown' = shown \o FirstOf(rows, PageSize)
           /\ pass' = IF Len(rows) > PageSize THEN "reading" ELSE "read"
    /\ waiting' = IF pass = "unread" THEN Pending ELSE waiting
    /\ UNCHANGED <<state, order, recent, locked, upload, job, activity>>

-----------------------------------------------------------------------------
Next ==
    \/ \E r \in Requests : Create(r) \/ Lock(r) \/ Unlock(r) \/ Close(r) \/ Age(r)
    \/ \E u \in Uploads : Retire(u) \/ RetryDue(u)
    \/ StartJob \/ ExpireNext \/ StartCleanup \/ CleanNext \/ EndJob
    \/ ReadPage

Spec == Init /\ [][Next]_vars

\* The job is run again and again and its loops end; transactions end.
Fairness ==
    /\ WF_vars(StartJob) /\ WF_vars(ExpireNext) /\ WF_vars(StartCleanup)
    /\ WF_vars(CleanNext) /\ WF_vars(EndJob)
    /\ \A r \in Requests : WF_vars(Unlock(r))

FairSpec == Spec /\ Fairness

-----------------------------------------------------------------------------
\* Every submission that awaits review all the time a moderator pages through
\* the queue is shown, once, although others enter and leave the queue on
\* either side of the cursor and share its date.
PassComplete ==
    /\ pass = "read" => waiting \subseteq ToSet(shown)
    /\ Cardinality(ToSet(shown)) = Len(shown)

\* An idle draft expires unless its owner comes back, whatever older drafts
\* with newer media do in front of it.
IdleExpires == \A r \in Requests : Idle(r) ~> ~Idle(r)

\* An upload that was given up is deleted if the store can, although deletions
\* that fail in every run are tried before it.
GivenUpIsDeleted ==
    \A u \in Uploads \ Broken : upload[u] # "kept" ~> upload[u] = "deleted"
=============================================================================

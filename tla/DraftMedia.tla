---------------------------- MODULE DraftMedia -----------------------------
(***************************************************************************)
(* All the media of one submission: how uploads reserve slots of the draft *)
(* and become attachments with a position, and what finalization, review   *)
(* and cleanup make of them (media.py, submissions.py, moderation.py).     *)
(*                                                                         *)
(* MediaIntent has the claims, leases and objects of each upload; here an  *)
(* upload is its row's state alone.  Every handler locks the submission    *)
(* first and so is one action, but for a verification, whose inspection    *)
(* runs between two transactions.                                          *)
(***************************************************************************)
EXTENDS FiniteSets, Integers

CONSTANTS
    Intents,      \* the uploads ever created: a bound
    Digests,      \* what the uploaded files may contain
    MaxMedia,     \* MAX_RETAINED_ATTACHMENTS, three
    MaxRunning,   \* bound on the verifications of one upload at once
    None          \* no position

ASSUME MaxMediaAssumption == MaxMedia \in Nat /\ None \notin Int
ASSUME BoundsAssumption == MaxRunning \in Nat /\ IsFiniteSet(Intents)

VARIABLES
    submission,   \* the state of the Request row
    intent,       \* the MediaUploadIntent rows
    position,     \* where the managed Image of an intent is, None without one
    running       \* how many verifications of an intent are inspecting it

vars == <<submission, intent, position, running>>

-----------------------------------------------------------------------------
Slots == 0 .. MaxMedia - 1
Reserving == {"created", "issued", "verified"}
State == Reserving \cup {"none", "attached", "cleanup_pending", "deleted"}
Row == [state: State, slot: Slots \cup {None}, digest: Digests]

TypeOK ==
    /\ submission \in {"draft", "pending", "approved", "closed"}
    /\ intent \in [Intents -> Row]
    /\ position \in [Intents -> Slots \cup {None}]
    /\ running \in [Intents -> 0 .. MaxRunning]

Is(i, states) == intent[i].state \in states

\* The uploads that hold a slot, and those with an Image.
Reservations == {i \in Intents : Is(i, Reserving)}
Images == {i \in Intents : position[i] # None}
UsedSlots == {position[i] : i \in Images} \cup
             {intent[i].slot : i \in Reservations}

\* create_submission has made an empty draft.
Init ==
    /\ submission = "draft"
    /\ intent \in [Intents -> {[state |-> "none", slot |-> None, digest |-> d] :
                                  d \in Digests}]
    /\ position = [i \in Intents |-> None]
    /\ running = [i \in Intents |-> 0]

SetState(i, state) == intent' = [intent EXCEPT ![i].state = state]

-----------------------------------------------------------------------------
\* The owner, on a draft

\* Mutant: only the reservations are counted.
HasRoom_ImagesUncounted == Cardinality(Reservations) < MaxMedia

\* Fewer than three attachments and reservations together.
HasRoom == Cardinality(Images) + Cardinality(Reservations) < MaxMedia

Available == Slots \ UsedSlots

\* create_upload_intent: the slot that was asked for, or the first free one,
\* which is among them.  The declared digest is the row's for good.
Create(i, slot) ==
    /\ submission = "draft" /\ Is(i, {"none"})
    /\ HasRoom /\ slot \in Available
    /\ intent' = [intent EXCEPT ![i].state = "created", ![i].slot = slot]
    /\ UNCHANGED <<submission, position, running>>

Issue(i) ==
    /\ submission = "draft" /\ Is(i, {"created"})
    /\ SetState(i, "issued")
    /\ UNCHANGED <<submission, position, running>>

StartVerify(i) ==
    /\ submission = "draft" /\ Is(i, {"issued"}) /\ running[i] < MaxRunning
    /\ running' = [running EXCEPT ![i] = @ + 1]
    /\ UNCHANGED <<submission, intent, position>>

\* Mutant: an attachment's place is checked, its content is not.
Attach_AnyDigest(i) ==
    /\ submission = "draft" /\ Is(i, {"verified"})
    /\ Cardinality(Images) < MaxMedia
    /\ \A j \in Images : position[j] # intent[i].slot
    /\ SetState(i, "attached")
    /\ position' = [position EXCEPT ![i] = intent[i].slot]
    /\ UNCHANGED <<submission, running>>

\* attach_verified_media: the Image takes the reserved slot as its position.
Attach(i) ==
    /\ submission = "draft" /\ Is(i, {"verified"})
    /\ Cardinality(Images) < MaxMedia
    /\ \A j \in Images : /\ position[j] # intent[i].slot
                         /\ intent[j].digest # intent[i].digest
    /\ SetState(i, "attached")
    /\ position' = [position EXCEPT ![i] = intent[i].slot]
    /\ UNCHANGED <<submission, running>>

\* Mutant: a pending submission's attachment can be removed as well.
Remove_Pending(i) ==
    /\ submission \in {"draft", "pending"} /\ Is(i, {"attached"})
    /\ SetState(i, "cleanup_pending")
    /\ position' = [position EXCEPT ![i] = None]
    /\ UNCHANGED <<submission, running>>

\* remove_attached_media
Remove(i) ==
    /\ submission = "draft" /\ Is(i, {"attached"})
    /\ SetState(i, "cleanup_pending")
    /\ position' = [position EXCEPT ![i] = None]
    /\ UNCHANGED <<submission, running>>

\* reorder_attached_media: any permutation of the whole attached set, counted
\* from zero.  The slots of the rows stay what they are.
Reorder ==
    /\ submission = "draft"
    /\ \E order \in [Images -> 0 .. Cardinality(Images) - 1] :
           /\ \A i, j \in Images : order[i] = order[j] => i = j
           /\ position' = [i \in Intents |->
                              IF i \in Images THEN order[i] ELSE None]
    /\ UNCHANGED <<submission, intent, running>>

-----------------------------------------------------------------------------
\* Verification, cleanup and time

\* Mutant: the row is not looked at again before it is marked verified.
CommitVerify_NotAgain(i) ==
    /\ running[i] > 0
    /\ running' = [running EXCEPT ![i] = @ - 1]
    /\ \/ ~Is(i, {"attached"}) /\ submission = "draft" /\ SetState(i, "verified")
       \/ ~Is(i, {"attached"}) /\ SetState(i, "cleanup_pending")
       \/ UNCHANGED intent
    /\ UNCHANGED <<submission, position>>

\* The second transaction of verify_upload.  Whoever finds the intent settled
\* by another call reclaims the objects it wrote, and so reopens even a row
\* that was deleted.
CommitVerify(i) ==
    /\ running[i] > 0
    /\ running' = [running EXCEPT ![i] = @ - 1]
    /\ \/ /\ Is(i, {"issued"}) /\ submission = "draft"
          /\ SetState(i, "verified")
       \/ Is(i, {"issued"}) /\ SetState(i, "cleanup_pending")
       \/ Is(i, {"cleanup_pending", "deleted"}) /\ position[i] = None
          /\ SetState(i, "cleanup_pending")
       \/ ~Is(i, {"issued"}) /\ UNCHANGED intent
    /\ UNCHANGED <<submission, position>>

\* expire_upload_intent and the periodic job, some time after the creation.
Expire(i) ==
    /\ Is(i, Reserving)
    /\ SetState(i, "cleanup_pending")
    /\ UNCHANGED <<submission, position, running>>

\* Mutant: a submission under review keeps its rows as they are.
Cleanup_NotPending(i) ==
    /\ submission # "pending"
    /\ Is(i, {"cleanup_pending"}) /\ position[i] = None
    /\ SetState(i, "deleted")
    /\ UNCHANGED <<submission, position, running>>

\* Any of the cleanups, once it has deleted what the row is bound to.
Cleanup(i) ==
    /\ Is(i, {"cleanup_pending"}) /\ position[i] = None
    /\ SetState(i, "deleted")
    /\ UNCHANGED <<submission, position, running>>

-----------------------------------------------------------------------------
\* The submission

\* _require_ready_media: nothing but complete attachments and deleted rows.
MediaReady ==
    /\ \A i \in Intents : Is(i, {"none", "attached", "deleted"})
    /\ Cardinality(Images) <= MaxMedia
    /\ \A i, j \in Images :
           i # j => /\ position[i] # position[j]
                    /\ intent[i].digest # intent[j].digest
    /\ Images = {i \in Intents : Is(i, {"attached"})}

Finalize ==
    /\ submission = "draft" /\ MediaReady
    /\ submission' = "pending"
    /\ UNCHANGED <<intent, position, running>>

Approve ==
    /\ submission = "pending" /\ MediaReady
    /\ submission' = "approved"
    /\ UNCHANGED <<intent, position, running>>

\* withdraw_submission, a rejection and the expiry of the draft detach all
\* images and hand every row to cleanup.
Close ==
    /\ submission \in {"draft", "pending"}
    /\ submission' = "closed"
    /\ intent' = [i \in Intents |->
                     IF Is(i, {"none", "deleted"}) THEN intent[i]
                     ELSE [intent[i] EXCEPT !.state = "cleanup_pending"]]
    /\ position' = [i \in Intents |-> None]
    /\ UNCHANGED running

\* revoke_public_media
Revoke(i) ==
    /\ submission = "approved" /\ Is(i, {"attached"})
    /\ SetState(i, "cleanup_pending")
    /\ position' = [position EXCEPT ![i] = None]
    /\ UNCHANGED <<submission, running>>

OwnerStep ==
    \/ \E i \in Intents, slot \in Slots : Create(i, slot)
    \/ \E i \in Intents :
           Issue(i) \/ StartVerify(i) \/ Attach(i) \/ Remove(i)
    \/ Reorder

SystemStep == \E i \in Intents : CommitVerify(i) \/ Expire(i) \/ Cleanup(i)
ReviewStep == Finalize \/ Approve \/ Close \/ \E i \in Intents : Revoke(i)

Next == OwnerStep \/ SystemStep \/ ReviewStep

Spec == Init /\ [][Next]_vars

\* The periodic job cleans up, and verifications under way end.
FairSpec == /\ Spec
            /\ \A i \in Intents : WF_vars(Cleanup(i)) /\ WF_vars(CommitVerify(i))

-----------------------------------------------------------------------------
\* Attachments and reservations together never exceed the limit, although
\* they are counted when a slot is reserved and turned over much later.
WithinLimit == Cardinality(Images) + Cardinality(Reservations) <= MaxMedia

\* No two reservations share a slot: the unique constraint
\* unique_reserving_media_intent_slot is never what stops a request.
ReservationsApart ==
    \A i, j \in Reservations : intent[i].slot = intent[j].slot => i = j

\* No two attachments share a position or their content, through removals,
\* reorderings and late attachments.
ImagesApart ==
    \A i, j \in Images :
        \/ i = j
        \/ position[i] # position[j] /\ intent[i].digest # intent[j].digest

\* An upload is attached exactly as long as it has an Image.
AttachedHasImage == Images = {i \in Intents : Is(i, {"attached"})}

\* What the owner submitted is what is reviewed and published: the images and
\* their order do not change under review.
ReviewedAsSubmitted ==
    [][submission = "pending" /\ submission' # "closed" =>
           UNCHANGED position]_vars

\* Each upload lives as MediaIntent lets it, whatever the others of its
\* submission do.
Life(i) == INSTANCE UploadLife WITH
    state <- intent[i].state, image <- position[i] # None,
    inspected <- running[i] > 0
UploadsLiveAlike ==
    /\ \A i \in Intents : Life(i)!Init
    /\ [][\A i \in Intents : [Life(i)!Next]_(Life(i)!vars)]_vars

\* A late verification makes a pending submission unfit for approval only for
\* a while: the periodic cleanup makes it fit again.
PendingIsReadyAgain ==
    submission = "pending" ~> submission # "pending" \/ MediaReady
=============================================================================

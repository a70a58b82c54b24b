---------------------------- MODULE PublicMedia ----------------------------
(***************************************************************************)
(* What the public sees of an approved submission: its place and the       *)
(* renditions of its images, from the approval that publishes them to the  *)
(* revocation or the hard deletion that takes them away                    *)
(* (public_media.py, moderation.py, views.py).                             *)
(*                                                                         *)
(* A retrieval reads the object before it takes any lock and authorizes    *)
(* afterwards.  The writers take the rows of the submission and of their   *)
(* actor, a hard deletion those of the place, of its actor and only then   *)
(* of a submission; each wait is a step, and PostgreSQL aborts one of the  *)
(* transactions that wait for each other.  Every transaction ends with     *)
(* the step that has its last lock.                                        *)
(***************************************************************************)
CONSTANTS
    Calls,        \* requests in progress at once
    Staff,        \* the accounts that call: administrators at first
    Requests,     \* the submissions, each with the place it becomes
    Legacy,       \* those approved before approvals left evidence
    Illustrated,  \* those whose legacy image rows go to the place
    Renditions,   \* the managed images of the submissions
    RequestOf,    \* the submission of each
    Keys,         \* idempotency keys
    None

ASSUME RequestOfAssumption == RequestOf \in [Renditions -> Requests \ Legacy]
ASSUME LegacyAssumption == Legacy \subseteq Requests
ASSUME ApartAssumption == Requests \cap Renditions = {}

VARIABLES
    request,   \* the state of each Request row
    evidence,  \* the submissions whose approval left its idempotency record
    place,     \* the Place row of each; "renamed" when its name is no longer
               \* the submission's
    located,   \* the places with a Location row
    media,     \* the rows of each image and the object of its rendition
    record,    \* the idempotency records and audits of revocations
    deleted,   \* the audits of hard deletions
    admin,     \* the accounts that are administrators
    call

public == <<request, evidence, place, located, media>>
vars == <<public, record, deleted, admin, call>>

-----------------------------------------------------------------------------
Media == [rendition: {"none", "published", "revoked"},
          intent: {"attached", "cleanup_pending", "deleted"},
          image: BOOLEAN,   \* its Image row
          object: BOOLEAN]  \* the rendition in the object store
Record == [actor: Staff, key: Keys, media: Renditions]
Op == {"retrieve", "revoke", "approve", "delete", "edit"}
ASSUME NoneAssumption ==
    None \notin Renditions \cup Requests \cup Staff \cup Keys \cup Op

\* What a request was asked, and the row it waits for or has to read next.
Call == [pc: {"idle", "object", "authorize", "serve", "request", "place",
              "actor", "requests", "save"},
         op: Op \cup {None},
         actor: Staff \cup {None},
         key: Keys \cup {None},
         target: Renditions \cup Requests \cup {None}]
Row == {"none", "public", "renamed", "deleted"}

TypeOK ==
    /\ request \in [Requests -> {"pending", "approved"}]
    /\ evidence \subseteq Requests
    /\ place \in [Requests -> Row]
    /\ located \subseteq Requests
    /\ media \in [Renditions -> Media]
    /\ record \subseteq Record
    /\ deleted \subseteq Requests
    /\ admin \subseteq Staff
    /\ call \in [Calls -> Call]

Idle == [pc |-> "idle", op |-> None, actor |-> None, key |-> None,
         target |-> None]

\* A database that migration 17 has just reached: there are keys for renditions
\* and nothing is published, and legacy places have their map rows.
Init ==
    /\ request = [r \in Requests |->
                     IF r \in Legacy THEN "approved" ELSE "pending"]
    /\ evidence = {}
    /\ place = [r \in Requests |-> IF r \in Legacy THEN "public" ELSE "none"]
    /\ located = Legacy
    /\ media = [m \in Renditions |->
                   [rendition |-> "none", intent |-> "attached",
                    image |-> TRUE, object |-> TRUE]]
    /\ record = {}
    /\ deleted = {}
    /\ admin = Staff
    /\ call = [c \in Calls |-> Idle]

Exists(r) == place[r] \in {"public", "renamed"}

-----------------------------------------------------------------------------
\* Locks

\* The submission a call needs: that of the rendition, or its target itself.
Aggregate(c) ==
    IF call[c].target \in Renditions THEN RequestOf[call[c].target]
                                     ELSE call[c].target

At(c, op, pc) == call[c].op = op /\ call[c].pc = pc

HoldsRequest(c, r) ==
    call[c].op \in {"revoke", "approve"} /\ call[c].pc = "actor" /\ Aggregate(c) = r
HoldsPlace(c, r) ==
    call[c].op = "delete" /\ call[c].pc \in {"actor", "requests"}
        /\ call[c].target = r
HoldsActor(c, a) == At(c, "delete", "requests") /\ call[c].actor = a

RequestFree(r) == \A d \in Calls : ~HoldsRequest(d, r)
PlaceFree(r) == \A d \in Calls : ~HoldsPlace(d, r)
ActorFree(a) == \A d \in Calls : ~HoldsActor(d, a)

\* An approved submission with the place's name and address.
Matches(r) == request[r] = "approved" /\ place[r] = "public"

\* Whether d holds the row that c needs next.
Blocks(d, c) ==
    \/ /\ \/ call[c].pc \in {"authorize", "request"}
          \/ At(c, "delete", "requests") /\ Matches(call[c].target)
       /\ HoldsRequest(d, Aggregate(c))
    \/ call[c].pc \in {"place", "save"} /\ HoldsPlace(d, call[c].target)
    \/ call[c].pc = "actor" /\ HoldsActor(d, call[c].actor)

Goto(c, pc) == call' = [call EXCEPT ![c].pc = pc]

\* The call is answered, whatever it says, and its locks go.
Finish(c) == call' = [call EXCEPT ![c] = Idle]

Begin(c, op, pc, a, k, target) ==
    /\ call[c].pc = "idle"
    /\ call' = [call EXCEPT ![c] = [pc |-> pc, op |-> op, actor |-> a, key |-> k,
                                    target |-> target]]

\* PostgreSQL finds the cycle and aborts one transaction of it.
Abort(c) ==
    /\ \E cycle \in SUBSET Calls :
           /\ c \in cycle
           /\ cycle = {d \in Calls : \E e \in cycle : Blocks(d, e)}
    /\ Finish(c)
    /\ UNCHANGED <<public, record, deleted, admin>>

-----------------------------------------------------------------------------
\* Retrieval

\* The preliminary binding: read without locks, only of what is published.
Retrieve(c, m) ==
    /\ media[m].rendition = "published"
    /\ Begin(c, "retrieve", "object", None, None, m)
    /\ UNCHANGED <<public, record, deleted, admin>>

\* Mutant: an object that is gone is not an error.
ReadObject_Waits(c) ==
    /\ At(c, "retrieve", "object") /\ media[call[c].target].object
    /\ Goto(c, "authorize")
    /\ UNCHANGED <<public, record, deleted, admin>>

\* The bytes are read whole and compared with their digest, or not at all.
ReadObject(c) ==
    /\ At(c, "retrieve", "object")
    /\ \/ media[call[c].target].object /\ Goto(c, "authorize")
       \/ Finish(c)
    /\ UNCHANGED <<public, record, deleted, admin>>

\* What retrieval and revocation both require of the locked rows.
Published(m) ==
    LET r == RequestOf[m] IN
    /\ request[r] = "approved" /\ r \in evidence /\ Exists(r)
    /\ media[m].intent = "attached" /\ media[m].image
    /\ media[m].rendition = "published"

\* Mutant: the binding that was read before the object is good enough.
Authorize_Preliminary(c) ==
    /\ At(c, "retrieve", "authorize") /\ RequestFree(Aggregate(c))
    /\ Goto(c, "serve")
    /\ UNCHANGED <<public, record, deleted, admin>>

Authorize(c) ==
    /\ At(c, "retrieve", "authorize") /\ RequestFree(Aggregate(c))
    /\ IF Published(call[c].target) THEN Goto(c, "serve") ELSE Finish(c)
    /\ UNCHANGED <<public, record, deleted, admin>>

\* The response with the bytes goes out.
Serve(c) ==
    /\ At(c, "retrieve", "serve") /\ Finish(c)
    /\ UNCHANGED <<public, record, deleted, admin>>

-----------------------------------------------------------------------------
\* Approval and revocation

Approve(c, a, r) ==
    /\ Begin(c, "approve", "request", a, None, r)
    /\ UNCHANGED <<public, record, deleted, admin>>

\* The caller is an administrator and the rendition is known.
Revoke(c, a, k, m) ==
    /\ a \in admin /\ media[m].rendition # "none"
    /\ Begin(c, "revoke", "request", a, k, m)
    /\ UNCHANGED <<public, record, deleted, admin>>

LockRequest(c) ==
    /\ call[c].pc = "request" /\ RequestFree(Aggregate(c))
    /\ Goto(c, "actor")
    /\ UNCHANGED <<public, record, deleted, admin>>

HasActor(c, op) == At(c, op, "actor") /\ ActorFree(call[c].actor)

\* The final transaction of an approval; whether the media are ready and the
\* name is free is decided elsewhere.  A moderator may approve, which a former
\* administrator still is.
Publish(c) ==
    LET r == call[c].target IN
    /\ HasActor(c, "approve")
    /\ IF request[r] # "pending"
       THEN Finish(c) /\ UNCHANGED public
       ELSE /\ request' = [request EXCEPT ![r] = "approved"]
            /\ evidence' = evidence \cup {r}
            /\ place' = [place EXCEPT ![r] = "public"]
            /\ located' = located \cup {r}
            /\ media' = [m \in Renditions |->
                            IF RequestOf[m] = r
                            THEN [media[m] EXCEPT !.rendition = "published"]
                            ELSE media[m]]
            /\ Finish(c)
    /\ UNCHANGED <<record, deleted, admin>>

\* The revocation with this key: a replay when it revoked the same rendition,
\* else a conflict.
Earlier(c) ==
    {r \in record : r.actor = call[c].actor /\ r.key = call[c].key}

\* Mutant: a key that was used is not looked for.
Revocable_AnyKey(c) ==
    call[c].actor \in admin /\ Published(call[c].target)

Revocable(c) ==
    /\ call[c].actor \in admin /\ Earlier(c) = {}
    /\ Published(call[c].target)

Decline(c) ==
    /\ HasActor(c, "revoke") /\ ~Revocable(c)
    /\ Finish(c)
    /\ UNCHANGED <<public, record, deleted, admin>>

\* Mutant: the objects are not handed to cleanup.
Retired_Attached(row) ==
    [row EXCEPT !.rendition = "revoked", !.image = FALSE]

Retired(row) ==
    [row EXCEPT !.rendition = "revoked", !.image = FALSE,
                !.intent = "cleanup_pending"]

Unpublish(c) ==
    LET m == call[c].target IN
    /\ HasActor(c, "revoke") /\ Revocable(c)
    /\ media' = [media EXCEPT ![m] = Retired(@)]
    /\ record' = record \cup {[actor |-> call[c].actor, key |-> call[c].key,
                               media |-> m]}
    /\ Finish(c)
    /\ UNCHANGED <<request, evidence, place, located, deleted, admin>>

\* The cleanup job deletes the object without a lock on the row and marks the
\* intent once the object is absent.
Erase(m) ==
    /\ media[m].intent = "cleanup_pending" /\ media[m].object
    /\ media' = [media EXCEPT ![m].object = FALSE]
    /\ UNCHANGED <<request, evidence, place, located, record, deleted, admin, call>>

FinishCleanup(m) ==
    /\ media[m].intent = "cleanup_pending" /\ ~media[m].object
    /\ RequestFree(RequestOf[m])
    /\ media' = [media EXCEPT ![m].intent = "deleted"]
    /\ UNCHANGED <<request, evidence, place, located, record, deleted, admin, call>>

-----------------------------------------------------------------------------
\* The places: hard deletion and edits of administrators

Delete(c, a, r) ==
    /\ a \in admin
    /\ Begin(c, "delete", "place", a, None, r)
    /\ UNCHANGED <<public, record, deleted, admin>>

LockPlace(c) ==
    /\ At(c, "delete", "place") /\ PlaceFree(call[c].target)
    /\ IF Exists(call[c].target) THEN Goto(c, "actor") ELSE Finish(c)
    /\ UNCHANGED <<public, record, deleted, admin>>

\* Mutant: only the name and the address tell whether a place was approved.
HasEvidence_ByName(r) == FALSE

HasEvidence(r) == r \in evidence

LockActor(c) ==
    /\ HasActor(c, "delete")
    /\ IF call[c].actor \in admin /\ ~HasEvidence(call[c].target)
       THEN Goto(c, "requests") ELSE Finish(c)
    /\ UNCHANGED <<public, record, deleted, admin>>

\* An approved submission of that name and address keeps the place as well,
\* and so do image rows that were attached to it.
HardDelete(c) ==
    LET r == call[c].target IN
    /\ At(c, "delete", "requests")
    /\ Matches(r) => RequestFree(r)
    /\ IF Matches(r) \/ r \in Illustrated
       THEN Finish(c) /\ UNCHANGED <<place, located, deleted>>
       ELSE /\ place' = [place EXCEPT ![r] = "deleted"]
            /\ located' = located \ {r}
            /\ deleted' = deleted \cup {r}
            /\ Finish(c)
    /\ UNCHANGED <<request, evidence, media, record, admin>>

\* PUT and PATCH of a place read the row, without a lock.
Edit(c, r) ==
    /\ admin # {} /\ Exists(r)
    /\ Begin(c, "edit", "save", None, None, r)
    /\ UNCHANGED <<public, record, deleted, admin>>

\* The instance is saved whole, with any name: an update, or an insertion
\* when the row is gone.
Save(c) ==
    LET r == call[c].target IN
    /\ At(c, "edit", "save") /\ PlaceFree(r)
    /\ \E name \in {"public", "renamed"} : place' = [place EXCEPT ![r] = name]
    /\ Finish(c)
    /\ UNCHANGED <<request, evidence, located, media, record, deleted, admin>>

\* An administrator is made a moderator.
Demote(a) ==
    /\ a \in admin /\ ActorFree(a)
    /\ admin' = admin \ {a}
    /\ UNCHANGED <<public, record, deleted, call>>

-----------------------------------------------------------------------------
Start(c) ==
    \/ \E m \in Renditions :
           \/ Retrieve(c, m)
           \/ \E a \in Staff, k \in Keys : Revoke(c, a, k, m)
    \/ \E r \in Requests :
           \/ \E a \in Staff : Approve(c, a, r) \/ Delete(c, a, r)
           \/ Edit(c, r)

Proceed(c) ==
    \/ ReadObject(c) \/ Authorize(c) \/ Serve(c)
    \/ LockRequest(c) \/ Publish(c) \/ Decline(c) \/ Unpublish(c)
    \/ LockPlace(c) \/ LockActor(c) \/ HardDelete(c) \/ Save(c)
    \/ Abort(c)

Sweep(m) == Erase(m) \/ FinishCleanup(m)

Next ==
    \/ \E c \in Calls : Start(c) \/ Proceed(c)
    \/ \E m \in Renditions : Sweep(m)
    \/ \E a \in Staff : Demote(a)

Spec == Init /\ [][Next]_vars

\* Servers go on with what they began: a lock is granted in the order of the
\* queue for it, so a call that can have its row again and again gets it.
\* The cleanup job is run periodically.
FairSpec ==
    /\ Spec
    /\ \A c \in Calls : SF_vars(Proceed(c))
    /\ \A m \in Renditions : WF_vars(Erase(m)) /\ SF_vars(FinishCleanup(m))

-----------------------------------------------------------------------------
\* What an approval made public is public as a whole: the place stays and is
\* on the map, and a published rendition has its image, its intent and its
\* bytes (_promote_tags_and_materialize_place, hard_delete_place).
PublicationWhole ==
    /\ \A r \in evidence : request[r] = "approved" /\ Exists(r) /\ r \in located
    /\ \A m \in Renditions : media[m].rendition = "published" =>
           /\ RequestOf[m] \in evidence
           /\ media[m].intent = "attached" /\ media[m].image /\ media[m].object

\* A revoked rendition was revoked by one call, which left the one record and
\* audit of it, and a key stands for one revocation (revoke_public_media).
RevokedOnce ==
    /\ \A m \in Renditions :
           media[m].rendition = "revoked" <=> \E r \in record : r.media = m
    /\ \A r, s \in record :
           r.media = s.media \/ (r.actor = s.actor /\ r.key = s.key) => r = s

\* What there is to see of a rendition, and of a call without its locks.
shown == [m \in Renditions |->
             IF media[m].object THEN media[m].rendition ELSE "erased"]
asked == [c \in Calls |->
             [op |-> call[c].op, actor |-> call[c].actor, key |-> call[c].key,
              target |-> call[c].target, served |-> call[c].pc = "serve"]]

Catalogue == INSTANCE PublicCatalogue WITH kept <- evidence

\* What the calls look at before their locks, and again under them, amounts to
\* one look and one change: the catalogue of PublicCatalogue (public_media.py,
\* hard_delete_place).
TakesEffectAtOnce == Catalogue!Spec

\* The bytes go out only while the rendition is public, whatever happened
\* while they were read (retrieve_public_media).
ServedAsPublished ==
    [][\A c \in Calls :
           call[c].pc # "serve" /\ call'[c].pc = "serve" =>
               /\ media[call[c].target].rendition = "published"
               /\ Exists(RequestOf[call[c].target])]_vars

\* A revoked rendition does not stay in the object store
\* (_expire_locked_intent and the cleanup job).
RevokedIsErased ==
    \A m \in Renditions :
        media[m].rendition = "revoked" ~>
            media[m].intent = "deleted" /\ ~media[m].object

\* Every call is answered, those that wait for each other too.
EveryCallAnswered ==
    \A c \in Calls : call[c].pc # "idle" ~> call[c].pc = "idle"

=============================================================================
